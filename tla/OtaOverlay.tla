----------------------------- MODULE OtaOverlay -----------------------------
(***************************************************************************)
(* The life of the OTA overlay on one machine: boot accounting and crash   *)
(* rollback (electron/ota/rollback.ts), the choice of the code to load     *)
(* (electron/ota/bootstrap.ts), applying a staged update                   *)
(* (electron/ota/ota-updater.ts) and the manual rollback.                  *)
(*                                                                         *)
(* Every synchronous file operation whose effect survives a crash is a     *)
(* step of its own, so the process can die between any two of them; the    *)
(* JavaScript of one handler is never interleaved with another handler.    *)
(* A file operation that throws is a fault, and MaxFaults bounds them.     *)
(* Concurrent downloads into the staging directory are modelled in         *)
(* OtaStaging; here a download is one action that leaves an overlay staged.*)
(***************************************************************************)
EXTENDS Integers, FiniteSets

CONSTANTS
    MaxVersion,   \* versions are 1 .. MaxVersion; 0 stands for "no version"
    MinBase,      \* MinBase[v]: the oldest shell that may load overlay v
    MaxCrashes,   \* OTA_MAX_CRASHES
    MaxFaults,    \* bound: file operations that fail
    MaxBoots,     \* bound: boots of the backend
    NoOverlay     \* an absent directory

Versions == 1 .. MaxVersion
Overlays == [ver : Versions, intact : BOOLEAN]
Directory == Overlays \cup {NoOverlay}

ASSUME ConstantsAssumption ==
    /\ MaxVersion \in Nat
    /\ MinBase \in [Versions -> Versions]
    /\ MaxCrashes \in Nat \ {0}
    /\ MaxFaults \in Nat
    /\ MaxBoots \in Nat
    /\ NoOverlay \notin Overlays

VARIABLES
    \* on disk, under ~/.kai/ota (shell: the installed application bundle)
    current, staged, previous, crashCount, lastStable, floor, shell,
    \* in the memory of the main process
    phase,          \* where the process is; "down" when it is not running
    bootCount,      \* meta.crashCount of checkAndHandleRollback
    code,           \* codePaths.codeVersion
    overlayActive,  \* codePaths.isOverlay
    timer,          \* stableTimer is armed
    \* observations, read by no guard
    counted,        \* this boot was counted and is not proven stable yet
    crashes,        \* crashes of counted boots since the counter was reset
    overlayRuns,    \* unproven loads of overlay code since the last reset
    bootsOfCurrent, \* counted boots with the overlay that is installed now
    withdrawn,      \* versions removed by a crash rollback or a manual rollback
    before,         \* the overlay when the running apply started
    applied,        \* versions ever swapped in by an apply
    floorLost,      \* an apply swapped an overlay in and left no floor for it
    report,         \* what the last crash rollback told the user
    \* bounds
    faults, boots

disk == <<current, staged, previous, crashCount, lastStable, floor, shell>>
memory == <<phase, bootCount, code, overlayActive, timer>>
history == <<counted, crashes, overlayRuns, bootsOfCurrent, withdrawn, before,
             applied, floorLost, report>>
vars == <<disk, memory, history, faults, boots>>

Phases == {"down", "wipe", "forget", "resolve", "starting", "running", "quitting",
           "exiting", "clearPrevious", "swapOut", "swapIn", "recordFloor",
           "rollbackMove", "rollbackReset"}

NoReport == [from |-> 0, wiped |-> 0]

TypeOK ==
    /\ current \in Directory
    /\ staged \in Directory
    /\ previous \in Directory
    /\ crashCount \in Nat
    /\ lastStable \in 0 .. MaxVersion
    /\ floor \in 0 .. MaxVersion
    /\ shell \in Versions
    /\ phase \in Phases
    /\ bootCount \in Nat
    /\ code \in 0 .. MaxVersion
    /\ overlayActive \in BOOLEAN
    /\ timer \in BOOLEAN
    /\ counted \in BOOLEAN
    /\ crashes \in Nat
    /\ overlayRuns \in Nat
    /\ bootsOfCurrent \in Nat
    /\ withdrawn \in SUBSET Versions
    /\ before \in Directory
    /\ applied \in SUBSET Versions
    /\ floorLost \in BOOLEAN
    /\ report \in [from : 0 .. MaxVersion, wiped : 0 .. MaxVersion]
    /\ faults \in Nat
    /\ boots \in Nat

Init ==
    /\ current = NoOverlay /\ staged = NoOverlay /\ previous = NoOverlay
    /\ crashCount = 0 /\ lastStable = 0 /\ floor = 0
    /\ shell \in Versions
    /\ phase = "down" /\ bootCount = 0 /\ code = 0
    /\ overlayActive = FALSE /\ timer = FALSE
    /\ counted = FALSE /\ crashes = 0 /\ overlayRuns = 0 /\ bootsOfCurrent = 0
    /\ withdrawn = {} /\ before = NoOverlay /\ applied = {} /\ floorLost = FALSE
    /\ report = NoReport
    /\ faults = 0 /\ boots = 0

-----------------------------------------------------------------------------
(* File operations that swallow their error.                               *)

\* writeMeta: the new counter reaches the disk, or the write fails silently.
WriteCount(n) ==
    \/ crashCount' = n /\ UNCHANGED faults
    \/ /\ faults < MaxFaults
       /\ faults' = faults + 1
       /\ UNCHANGED crashCount

\* The reset of a counter that is above zero; mutated, it forgets a count of one.
ResetCountAboveOne == IF crashCount > 1 THEN WriteCount(0) ELSE UNCHANGED <<crashCount, faults>>
ResetCount == IF crashCount > 0 THEN WriteCount(0) ELSE UNCHANGED <<crashCount, faults>>

\* rmSync that threw: nothing, or only some of the files, were removed.
Damaged(d) == {d, [d EXCEPT !.intact = FALSE]}

-----------------------------------------------------------------------------
(* Boot.                                                                   *)

\* The count that makes a boot wipe the overlay; mutated, one more is let through.
TooManyCrashesStrict(count) == count > MaxCrashes
TooManyCrashes(count) == count >= MaxCrashes

\* checkAndHandleRollback up to the decision to wipe.
BootWithOverlay ==
    /\ phase = "down" /\ boots < MaxBoots
    /\ current # NoOverlay
    /\ boots' = boots + 1
    /\ bootCount' = crashCount + 1
    /\ WriteCount(crashCount + 1)
    /\ phase' = IF TooManyCrashes(crashCount + 1) THEN "wipe" ELSE "resolve"
    /\ counted' = TRUE /\ bootsOfCurrent' = bootsOfCurrent + 1
    /\ UNCHANGED <<current, staged, previous, lastStable, floor, shell, code,
                   overlayActive, timer, crashes, overlayRuns, withdrawn,
                   before, applied, floorLost, report>>

BootWithoutOverlay ==
    /\ phase = "down" /\ boots < MaxBoots
    /\ current = NoOverlay
    /\ boots' = boots + 1
    /\ bootCount' = 0
    /\ ResetCount
    /\ phase' = "resolve"
    /\ crashes' = 0 /\ overlayRuns' = 0
    /\ UNCHANGED <<current, staged, previous, lastStable, floor, shell, code,
                   overlayActive, timer, counted, bootsOfCurrent, withdrawn, before, applied,
                   floorLost, report>>

\* wipeOverlay succeeded: the overlay is gone, the counter not reset yet.
WipeOverlay ==
    /\ phase = "wipe"
    /\ report' = [from |-> lastStable, wiped |-> current.ver]
    /\ withdrawn' = withdrawn \cup {current.ver}
    /\ current' = NoOverlay /\ bootsOfCurrent' = 0
    /\ phase' = "forget"
    /\ UNCHANGED <<staged, previous, crashCount, lastStable, floor, shell,
                   bootCount, code, overlayActive, timer, counted, crashes,
                   overlayRuns, before, applied, floorLost, faults, boots>>

\* wipeOverlay left something behind: the elevated count is written again.
WipeFails ==
    /\ phase = "wipe" /\ faults < MaxFaults
    /\ current' \in Damaged(current)
    /\ crashCount' \in {bootCount, crashCount}
    /\ faults' = faults + 1
    /\ phase' = "resolve"
    /\ UNCHANGED <<staged, previous, lastStable, floor, shell, bootCount, code,
                   overlayActive, timer, history, boots>>

\* The counter and the last stable version are forgotten after a wipe.
ForgetOverlay ==
    /\ phase = "forget"
    /\ \/ crashCount' = 0 /\ lastStable' = 0 /\ UNCHANGED faults
       \/ /\ faults < MaxFaults
          /\ faults' = faults + 1
          /\ UNCHANGED <<crashCount, lastStable>>
    /\ crashes' = 0 /\ overlayRuns' = 0 /\ counted' = FALSE
    /\ phase' = "resolve"
    /\ UNCHANGED <<current, staged, previous, floor, shell, bootCount, code,
                   overlayActive, timer, bootsOfCurrent, withdrawn, before, applied, floorLost,
                   report, boots>>

\* resolveCodePaths loads the overlay: compatible, not below the shell, verified.
Loadable(d) ==
    /\ d # NoOverlay
    /\ MinBase[d.ver] <= shell
    /\ shell <= d.ver
    /\ d.intact

LoadOverlay ==
    /\ phase = "resolve" /\ Loadable(current)
    /\ code' = current.ver /\ overlayActive' = TRUE
    /\ overlayRuns' = overlayRuns + 1
    /\ phase' = "starting"
    /\ UNCHANGED <<disk, bootCount, timer, counted, crashes,
                   bootsOfCurrent, withdrawn, before, applied,
                   floorLost, report, faults, boots>>

\* The fall-backs that leave the directory alone: there is none, the shell is too
\* old for it, or it is damaged: no manifest, or an exception while verifying it.
StaysOnDisk(d) == d = NoOverlay \/ (d # NoOverlay /\ (shell < MinBase[d.ver] \/ ~d.intact))

\* The fall-backs that wipe it: it is older than the shell, or it is damaged.
Refused(d) ==
    /\ d # NoOverlay
    /\ MinBase[d.ver] <= shell
    /\ d.ver < shell \/ ~d.intact

\* resolveCodePaths falls back to the bundled code.
LoadBundled ==
    /\ phase = "resolve" /\ ~Loadable(current)
    /\ code' = shell /\ overlayActive' = FALSE
    /\ phase' = "starting"
    /\ \/ /\ StaysOnDisk(current)
          /\ UNCHANGED <<current, bootsOfCurrent, faults>>
       \/ /\ Refused(current)
          /\ current' = NoOverlay /\ bootsOfCurrent' = 0
          /\ UNCHANGED faults
       \/ /\ Refused(current)
          /\ faults < MaxFaults /\ faults' = faults + 1
          /\ current' \in Damaged(current)
          /\ UNCHANGED bootsOfCurrent
    /\ UNCHANGED <<staged, previous, crashCount, lastStable, floor, shell,
                   bootCount, timer, counted, crashes, overlayRuns,
                   withdrawn, before,
                   applied, floorLost, report, boots>>

-----------------------------------------------------------------------------
(* A running process.                                                      *)

\* signalAppRunning: the window is ready to show, the timer is armed.
SignalAppRunning ==
    /\ phase = "starting"
    /\ phase' = "running" /\ timer' = TRUE
    /\ UNCHANGED <<disk, bootCount, code, overlayActive, history, faults, boots>>

\* The timer of signalAppRunning fires: this run is stable.
StableTimerFires ==
    /\ phase = "running" /\ timer
    /\ timer' = FALSE
    /\ \/ crashCount' = 0 /\ lastStable' = code /\ UNCHANGED faults
       \/ /\ faults < MaxFaults
          /\ faults' = faults + 1
          /\ UNCHANGED <<crashCount, lastStable>>
    /\ counted' = FALSE /\ crashes' = 0 /\ overlayRuns' = 0
    /\ UNCHANGED <<current, staged, previous, floor, shell, phase, bootCount,
                   code, overlayActive, bootsOfCurrent, withdrawn, before, applied, floorLost,
                   report, boots>>

\* signalGracefulQuit, from before-quit.
SignalGracefulQuit ==
    /\ phase \in {"starting", "running"}
    /\ timer' = FALSE
    /\ ResetCount
    /\ counted' = FALSE /\ crashes' = 0 /\ overlayRuns' = 0
    /\ phase' = IF phase = "running" THEN "quitting" ELSE "exiting"
    /\ UNCHANGED <<current, staged, previous, lastStable, floor, shell,
                   bootCount, code, overlayActive, bootsOfCurrent, withdrawn, before, applied,
                   floorLost, report, boots>>

\* A renderer's beforeunload handler vetoes the quit; the timer is not re-armed.
QuitVetoed ==
    /\ phase = "quitting"
    /\ phase' = "running"
    /\ UNCHANGED <<disk, bootCount, code, overlayActive, timer, history, faults,
                   boots>>

\* What the end of the process leaves of its memory.
ProcessGone ==
    /\ phase' = "down" /\ bootCount' = 0 /\ code' = 0
    /\ overlayActive' = FALSE /\ timer' = FALSE
    /\ counted' = FALSE /\ before' = NoOverlay

Exit ==
    /\ phase \in {"quitting", "exiting"}
    /\ ProcessGone
    /\ UNCHANGED <<disk, crashes, overlayRuns, bootsOfCurrent, withdrawn, applied, floorLost,
                   report, faults, boots>>

\* The process dies at any point, between two file operations included. One
\* that dies after staging/ became current/ leaves no floor for that version.
Crash ==
    /\ phase # "down"
    /\ ProcessGone
    /\ crashes' = IF counted THEN crashes + 1 ELSE crashes
    /\ floorLost' = (floorLost \/ phase = "recordFloor")
    /\ UNCHANGED <<disk, overlayRuns, bootsOfCurrent, withdrawn, applied, report, faults, boots>>

\* A full update, or a reinstall of an older one, replaces the shell.
ReplaceShell ==
    /\ phase = "down"
    /\ \E v \in Versions \ {shell} : shell' = v
    /\ UNCHANGED <<current, staged, previous, crashCount, lastStable, floor,
                   memory, history, faults, boots>>

-----------------------------------------------------------------------------
(* Download, apply, manual rollback.                                       *)

\* A download got past its guards; it leaves a staged overlay, intact or
\* mixed up by a concurrent download (OtaStaging), or only a cleaned staging/.
DownloadOtaUpdate ==
    /\ phase = "running"
    /\ \E v \in Versions :
         /\ code < v /\ MinBase[v] <= shell
         /\ staged' \in {NoOverlay} \cup {[ver |-> v, intact |-> b] : b \in BOOLEAN}
    /\ UNCHANGED <<current, previous, crashCount, lastStable, floor, shell,
                   memory, history, faults, boots>>

\* What applyOtaUpdate checks before it touches current/; mutated, the running
\* version is its only reference.
ApplicableAboveRunning(d) == code < d.ver /\ d.intact
Applicable(d) ==
    /\ code < d.ver
    /\ floor < d.ver
    /\ d.intact

ApplyOtaUpdate ==
    /\ phase = "running" /\ staged # NoOverlay
    /\ Applicable(staged)
    /\ before' = current
    /\ phase' = "clearPrevious"
    /\ UNCHANGED <<disk, bootCount, code, overlayActive, timer, counted, crashes,
                   overlayRuns, bootsOfCurrent, withdrawn, applied, floorLost, report, faults,
                   boots>>

\* When the catch of applyOtaUpdate moves rollback/ back; mutated, it only cleans up.
MovesBackNever(prev) == prev = NoOverlay /\ prev # NoOverlay
MovesBack(prev) == current = NoOverlay /\ prev # NoOverlay

\* The catch of applyOtaUpdate: rollback/ is moved back when there is no
\* current/, and that may fail too. prev is rollback/ after the failed step.
RecoverFailedApply(prev) ==
    /\ phase' = "running"
    /\ before' = NoOverlay
    /\ \/ /\ MovesBack(prev)
          /\ current' = prev /\ previous' = NoOverlay
          /\ faults' = faults + 1
       \/ /\ MovesBack(prev)
          /\ faults + 1 < MaxFaults
          /\ previous' = prev /\ UNCHANGED current
          /\ faults' = faults + 2
       \/ /\ ~MovesBack(prev)
          /\ previous' = prev /\ UNCHANGED current
          /\ faults' = faults + 1
    /\ UNCHANGED <<crashCount, lastStable, floor, shell, bootCount, code,
                   overlayActive, timer, counted, crashes, overlayRuns,
                   bootsOfCurrent, withdrawn, applied, floorLost, report, boots>>

\* applyOtaUpdate refuses the staged overlay and deletes it.
ApplyRefused ==
    /\ phase = "running" /\ staged # NoOverlay
    /\ ~Applicable(staged)
    /\ staged' = NoOverlay
    /\ UNCHANGED <<current, previous, crashCount, lastStable, floor, shell,
                   memory, history, faults, boots>>

\* The deletion throws: the catch runs although nothing was moved.
ApplyRefusedFails ==
    /\ phase = "running" /\ staged # NoOverlay
    /\ ~Applicable(staged)
    /\ faults < MaxFaults
    /\ staged' \in Damaged(staged)
    /\ RecoverFailedApply(previous)

\* Step 1 of applyOtaUpdate: rmSync(rollback/).
ClearPrevious ==
    /\ phase = "clearPrevious"
    /\ previous' = NoOverlay
    /\ phase' = "swapOut"
    /\ UNCHANGED <<current, staged, crashCount, lastStable, floor, shell,
                   bootCount, code, overlayActive, timer, history, faults, boots>>

ClearPreviousFails ==
    /\ phase = "clearPrevious" /\ previous # NoOverlay
    /\ faults < MaxFaults
    /\ \E d \in Damaged(previous) : RecoverFailedApply(d)
    /\ UNCHANGED staged

\* As SwapOut, but current/ is deleted and not moved.
SwapOutDeletes ==
    /\ phase = "swapOut"
    /\ current' = NoOverlay
    /\ phase' = "swapIn"
    /\ UNCHANGED <<previous, staged, crashCount, lastStable, floor, shell, bootCount,
                   code, overlayActive, timer, history, faults, boots>>

\* Step 2: renameSync(current/, rollback/), when there is a current/.
SwapOut ==
    /\ phase = "swapOut"
    /\ previous' = current
    /\ current' = NoOverlay
    /\ phase' = "swapIn"
    /\ UNCHANGED <<staged, crashCount, lastStable, floor, shell, bootCount, code,
                   overlayActive, timer, history, faults, boots>>

SwapOutFails ==
    /\ phase = "swapOut" /\ current # NoOverlay
    /\ faults < MaxFaults
    /\ RecoverFailedApply(previous)
    /\ UNCHANGED staged

\* Step 3: renameSync(staging/, current/).
SwapIn ==
    /\ phase = "swapIn"
    /\ current' = staged /\ staged' = NoOverlay
    /\ applied' = applied \cup {staged.ver}
    /\ bootsOfCurrent' = 0
    /\ phase' = "recordFloor"
    /\ UNCHANGED <<previous, crashCount, lastStable, floor, shell, bootCount,
                   code, overlayActive, timer, counted, crashes, overlayRuns,
                   withdrawn, before, floorLost, report, faults, boots>>

SwapInFails ==
    /\ phase = "swapIn"
    /\ faults < MaxFaults
    /\ RecoverFailedApply(previous)
    /\ UNCHANGED staged

\* The floor once v is applied; mutated, it is set past the applied version.
FloorPast(v) == IF v > floor THEN v + 1 ELSE floor
RaisedFloor(v) == IF v > floor THEN v ELSE floor

\* writeAppliedVersionFloor, whose error is only logged.
RecordFloor ==
    /\ phase = "recordFloor"
    /\ \/ /\ floor' = RaisedFloor(current.ver)
          /\ UNCHANGED <<floorLost, faults>>
       \/ /\ faults < MaxFaults
          /\ faults' = faults + 1
          /\ floorLost' = TRUE
          /\ UNCHANGED floor
    /\ phase' = "running" /\ before' = NoOverlay
    /\ UNCHANGED <<current, staged, previous, crashCount, lastStable, shell,
                   bootCount, code, overlayActive, timer, counted, crashes,
                   overlayRuns, bootsOfCurrent, withdrawn, applied, report, boots>>

\* manualRollback removes rollback/ first; when that throws nothing else happens.
ManualRollback ==
    /\ phase = "running" /\ current # NoOverlay
    /\ \/ /\ previous' = NoOverlay /\ phase' = "rollbackMove" /\ UNCHANGED faults
       \/ /\ previous # NoOverlay /\ faults < MaxFaults /\ faults' = faults + 1
          /\ previous' \in Damaged(previous) /\ UNCHANGED phase
    /\ UNCHANGED <<current, staged, crashCount, lastStable, floor, shell,
                   bootCount, code, overlayActive, timer, history, boots>>

MoveToPrevious ==
    /\ phase = "rollbackMove"
    /\ \/ /\ previous' = current /\ current' = NoOverlay
          /\ withdrawn' = withdrawn \cup {current.ver}
          /\ phase' = "rollbackReset" /\ bootsOfCurrent' = 0 /\ UNCHANGED faults
       \/ /\ faults < MaxFaults /\ faults' = faults + 1
          /\ phase' = "running" /\ UNCHANGED <<current, previous, bootsOfCurrent, withdrawn>>
    /\ UNCHANGED <<staged, crashCount, lastStable, floor, shell, bootCount, code,
                   overlayActive, timer, counted, crashes, overlayRuns, before,
                   applied, floorLost, report, boots>>

ResetAfterRollback ==
    /\ phase = "rollbackReset"
    /\ WriteCount(0)
    /\ counted' = FALSE /\ crashes' = 0 /\ overlayRuns' = 0
    /\ phase' = "running"
    /\ UNCHANGED <<current, staged, previous, lastStable, floor, shell,
                   bootCount, code, overlayActive, timer, bootsOfCurrent, withdrawn, before,
                   applied, floorLost, report, boots>>

-----------------------------------------------------------------------------
Boot ==
    \/ BootWithOverlay \/ BootWithoutOverlay
    \/ WipeOverlay \/ WipeFails \/ ForgetOverlay
    \/ LoadOverlay \/ LoadBundled
    \/ SignalAppRunning

Run ==
    \/ StableTimerFires \/ SignalGracefulQuit \/ QuitVetoed \/ Exit
    \/ DownloadOtaUpdate

Apply ==
    \/ ApplyRefused \/ ApplyRefusedFails \/ ApplyOtaUpdate
    \/ ClearPrevious \/ ClearPreviousFails
    \/ SwapOut \/ SwapOutFails
    \/ SwapIn \/ SwapInFails
    \/ RecordFloor

Rollback == ManualRollback \/ MoveToPrevious \/ ResetAfterRollback

Next == Boot \/ Run \/ Apply \/ Rollback \/ Crash \/ ReplaceShell

Spec == Init /\ [][Next]_vars

-----------------------------------------------------------------------------
(* Safety.                                                                 *)

\* A crash loop is bounded: between two resets of the counter, overlay code is
\* loaded at most MaxCrashes - 1 times, and each file operation that failed
\* (a count not written, a wipe that left the overlay) buys at most one more.
\* checkAndHandleRollback counts before it loads and keeps the count when the
\* wipe fails.
CrashLoopBounded == overlayRuns <= MaxCrashes - 1 + faults

\* A healthy overlay is not wiped: when the boot decides to wipe and no file
\* operation ever failed, at least MaxCrashes - 1 earlier boots crashed since
\* the counter was last reset. Counting, the stability timer, the graceful quit,
\* the manual rollback and a boot without overlay have to agree for this.
RollbackEarned ==
    phase = "wipe" /\ faults = 0 => crashes >= MaxCrashes - 1

\* A version that a rollback withdrew does not come back: the floor that its
\* apply wrote refuses it when the feed still offers it. This needs the floor to
\* have been written and no file operation to have failed.
WithdrawnStaysAway ==
    faults = 0 /\ ~floorLost /\ current # NoOverlay =>
        current.ver \notin withdrawn

\* The floor covers every version ever applied, unless a crash or a failed write
\* hit the one step between the swap and the write of the floor.
FloorCoversApplied ==
    phase # "recordFloor" /\ ~floorLost => \A v \in applied : v <= floor

\* An apply that fails in a single file operation costs nothing: the overlay
\* that was installed when it started is installed again (the catch block of
\* applyOtaUpdate), whatever step failed.
FailedApplyKeepsOverlay ==
    [][ /\ before # NoOverlay /\ before' = NoOverlay
        /\ staged # NoOverlay /\ staged' = staged
        /\ faults' = faults + 1
        => current' = before ]_vars

\* What comes after a crash between the two renames is recoverable: until the
\* new overlay is in place, the old one is in current/ or rollback/.
SwapLosesNothing ==
    phase \in {"clearPrevious", "swapOut", "swapIn"} =>
        /\ before # NoOverlay => before \in {current, previous}
        /\ staged.intact /\ staged.ver > floor /\ staged.ver > code

-----------------------------------------------------------------------------
(* What the overlay promises (OverlayLifecycle), and how it is kept.       *)

VersionOf(d) == IF d = NoOverlay THEN 0 ELSE d.ver

\* Between the two renames of a swap the overlay is the one that was moved
\* away; until its floor is written, an overlay that was swapped in is its own.
Swapping == phase = "swapIn"

Lifecycle == INSTANCE OverlayLifecycle WITH
    Limit     <- MaxCrashes,
    installed <- VersionOf(IF Swapping THEN before ELSE current),
    spare     <- IF Swapping THEN 0 ELSE VersionOf(previous),
    floor     <- IF phase = "recordFloor" THEN current.ver ELSE floor,
    forgotten <- floorLost,
    attempts  <- overlayRuns,
    errors    <- faults

\* Every behaviour of the boots, swaps, crashes and rollbacks is one of
\* OverlayLifecycle: an apply takes effect at once or not at all, installs only
\* what is newer than everything before it, and loses the overlay to a crash or
\* to two failed operations and never to one; the catch block of applyOtaUpdate
\* and the order of its steps have to work together for this.
ImplementsLifecycle == Lifecycle!Spec

-----------------------------------------------------------------------------
(* What comments of the code promise and the code does not keep.           *)

\* rollback.ts:4 "If the app fails to stay running for 30 seconds three times in
\* a row after an OTA update, the overlay is wiped": a boot that wipes comes
\* after that many crashes.
WipedAfterMaxCrashes == phase = "wipe" => crashes >= MaxCrashes

\* The same promise about the overlay itself: the one that is wiped was booted
\* that many times.
WipedOverlayWasTried == phase = "wipe" => bootsOfCurrent >= MaxCrashes

\* rollback.ts:111 "The version that was rolled back from" is what the user is
\* told after a crash rollback.
ReportNamesWipedVersion == report.from = report.wiped

\* ota-updater.ts:697 "refuse to apply anything <= the highest version we've
\* EVER applied".
AppliesOnlyNewVersions ==
    [][ phase = "swapIn" /\ phase' = "recordFloor"
        => \A v \in applied : v < staged.ver ]_vars

\* ota-updater.ts:755 "if current was moved to rollback, move it back": an apply
\* that fails never installs an overlay where there was none.
FailedApplyInstallsNothing ==
    [][ /\ phase \in {"clearPrevious", "swapOut", "swapIn"}
        /\ phase' = "running"
        /\ before = NoOverlay
        => current' = NoOverlay ]_vars
=============================================================================
