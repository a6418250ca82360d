-------------------------- MODULE OverlayLifecycle --------------------------
(***************************************************************************)
(* What the OTA overlay promises, without directories, boots or phases: an *)
(* update replaces the overlay in one step and is newer than every one     *)
(* before it, a single failed file operation loses nothing, and overlay    *)
(* code that never proves itself is loaded a bounded number of times.      *)
(*                                                                         *)
(* OtaOverlay implements it: a swap of three renames and a record of the   *)
(* floor, with crashes between any two of them, is one Install here or one *)
(* of the two ways to be interrupted.                                      *)
(***************************************************************************)
EXTENDS Integers

CONSTANTS
    MaxVersion,   \* versions are 1 .. MaxVersion; 0 stands for "none"
    Limit         \* the unproven loads that withdraw an overlay

VARIABLES
    installed,    \* the overlay that the next boot would find
    spare,        \* the one that was kept for a rollback
    floor,        \* every overlay that was ever installed is at or below it
    forgotten,    \* a floor did not reach the disk
    withdrawn,    \* the overlays that a rollback removed
    attempts,     \* loads since a run last proved itself
    errors        \* file operations that failed

vars == <<installed, spare, floor, forgotten, withdrawn, attempts, errors>>

Init ==
    /\ installed = 0 /\ spare = 0 /\ floor = 0 /\ withdrawn = {}
    /\ forgotten = FALSE /\ attempts = 0 /\ errors = 0

\* An update: newer than everything before it.
Install ==
    /\ \E v \in 1 .. MaxVersion :
         /\ floor < v
         /\ installed' = v /\ floor' = v
    /\ spare' = installed
    /\ UNCHANGED <<forgotten, withdrawn, attempts, errors>>

\* The floor of the last update is lost, by a crash or by a failed write.
ForgetFloor ==
    /\ forgotten' = TRUE /\ floor' < floor
    /\ errors' \in {errors, errors + 1}
    /\ UNCHANGED <<installed, spare, withdrawn, attempts>>

\* An update is interrupted after the old overlay was moved away: by a crash,
\* or by two failed operations, never by a single one.
Interrupt ==
    /\ installed' = 0 /\ spare' = installed
    /\ errors' \in {errors, errors + 2}
    /\ UNCHANGED <<floor, forgotten, withdrawn, attempts>>

\* The clean-up after an update that failed brings the spare overlay back.
Revive ==
    /\ installed = 0 /\ spare # 0
    /\ installed' = spare /\ spare' = 0
    /\ errors' = errors + 1
    /\ UNCHANGED <<floor, forgotten, withdrawn, attempts>>

\* A rollback; a manual one keeps the overlay as the spare.
Withdraw ==
    /\ installed # 0
    /\ installed' = 0 /\ withdrawn' = withdrawn \cup {installed}
    /\ spare' \in {spare, installed}
    /\ UNCHANGED <<floor, forgotten, attempts, errors>>

\* An overlay that must not be loaded is removed.
Discard ==
    /\ installed # 0 /\ installed' = 0
    /\ UNCHANGED <<spare, floor, forgotten, withdrawn, attempts, errors>>

\* The spare overlay is removed.
DropSpare ==
    /\ spare # 0 /\ spare' = 0
    /\ UNCHANGED <<installed, floor, forgotten, withdrawn, attempts, errors>>

\* A failed operation with no other effect.
Fail ==
    /\ errors' \in {errors + 1, errors + 2}
    /\ UNCHANGED <<installed, spare, floor, forgotten, withdrawn, attempts>>

\* Overlay code is loaded; each failed operation grants one more attempt.
Load ==
    /\ installed # 0
    /\ attempts < Limit - 1 + errors
    /\ attempts' = attempts + 1
    /\ UNCHANGED <<installed, spare, floor, forgotten, withdrawn, errors>>

\* A run proved itself, or there is no overlay to prove.
Prove ==
    /\ attempts' = 0
    /\ errors' \in {errors, errors + 1}
    /\ UNCHANGED <<installed, spare, floor, forgotten, withdrawn>>

Next ==
    \/ Install \/ ForgetFloor \/ Interrupt \/ Revive \/ Withdraw
    \/ Discard \/ DropSpare \/ Fail \/ Load \/ Prove

Spec == Init /\ [][Next]_vars
=============================================================================
