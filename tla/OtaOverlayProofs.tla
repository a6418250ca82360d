-------------------------- MODULE OtaOverlayProofs --------------------------
(***************************************************************************)
(* Proofs about OtaOverlay, for every number of versions, every MinBase,   *)
(* every threshold and any number of faults and boots.                     *)
(***************************************************************************)
EXTENDS OtaOverlay, TLAPS

\* A removal that failed leaves the directory or damaged remains of it, of the
\* same version.
LEMMA DamagedOverlay ==
    ASSUME NEW o \in Overlays, NEW d \in Damaged(o)
    PROVE  d \in Overlays /\ d.ver = o.ver
  BY DEF Damaged, Overlays

\* A count written with writeMeta: it is on disk, or a fault was spent.
LEMMA WriteCountEffect ==
    ASSUME TypeOK, NEW n \in Nat, WriteCount(n)
    PROVE  /\ crashCount' \in Nat /\ faults' \in Nat
           /\ \/ crashCount' = n /\ faults' = faults
              \/ crashCount' = crashCount /\ faults' = faults + 1
  BY DEF TypeOK, WriteCount

\* A reset leaves the counter at zero, or spends a fault.
LEMMA ResetCountEffect ==
    ASSUME TypeOK, ResetCount
    PROVE  /\ crashCount' \in Nat
           /\ faults' \in {faults, faults + 1}
<1>1. CASE crashCount > 0
  BY <1>1, WriteCountEffect DEF ResetCount
<1>2. CASE ~(crashCount > 0)
  BY <1>2, Zenon DEF ResetCount, TypeOK
<1> QED
  BY <1>1, <1>2

\* The version of an installed or staged overlay is a version.
LEMMA OverlayFields ==
    ASSUME NEW d \in Directory, d # NoOverlay
    PROVE  d \in Overlays /\ d.ver \in Versions /\ d.intact \in BOOLEAN
  BY ConstantsAssumption DEF Directory, Overlays

LEMMA VersionsAreNumbers ==
    /\ Versions \subseteq Nat
    /\ Versions \subseteq 0 .. MaxVersion
    /\ 0 \in 0 .. MaxVersion
  BY ConstantsAssumption DEF Versions

\* What an apply needs of its directories while it runs.
ApplyInv ==
    /\ phase \in {"clearPrevious", "swapOut", "swapIn"} => staged # NoOverlay
    /\ phase \in {"wipe", "rollbackMove", "recordFloor"} => current # NoOverlay

\* The type invariant, with the directories each phase relies on.
TypeInv == TypeOK /\ ApplyInv

\* TypeOK in two parts: the flags, and everything else.
FlagsOK ==
    /\ overlayActive \in BOOLEAN /\ timer \in BOOLEAN
    /\ counted \in BOOLEAN /\ floorLost \in BOOLEAN

DataOK ==
    /\ current \in Directory /\ staged \in Directory /\ previous \in Directory
    /\ crashCount \in Nat
    /\ lastStable \in 0 .. MaxVersion /\ floor \in 0 .. MaxVersion
    /\ shell \in Versions
    /\ phase \in Phases
    /\ bootCount \in Nat
    /\ code \in 0 .. MaxVersion
    /\ crashes \in Nat /\ overlayRuns \in Nat /\ bootsOfCurrent \in Nat
    /\ withdrawn \in SUBSET Versions
    /\ before \in Directory
    /\ applied \in SUBSET Versions
    /\ report \in [from : 0 .. MaxVersion, wiped : 0 .. MaxVersion]
    /\ faults \in Nat /\ boots \in Nat

LEMMA TypeParts == TypeOK <=> FlagsOK /\ DataOK
  BY Zenon DEF TypeOK, FlagsOK, DataOK

-----------------------------------------------------------------------------
LEMMA FlagsStep == FlagsOK /\ Next => FlagsOK'
<1> SUFFICES ASSUME FlagsOK, Next PROVE FlagsOK'
  OBVIOUS
<1> USE DEF FlagsOK
<1>1. CASE Boot
  BY <1>1, Zenon DEF Boot, BootWithOverlay, BootWithoutOverlay, WipeOverlay, WipeFails,
     ForgetOverlay, LoadOverlay, LoadBundled, SignalAppRunning, disk, memory, history
<1>2. CASE Run
  BY <1>2, Zenon DEF Run, StableTimerFires, SignalGracefulQuit, QuitVetoed, Exit,
     DownloadOtaUpdate, ProcessGone, disk, memory, history
<1>3. CASE Apply
  BY <1>3, Zenon DEF Apply, ApplyRefused, ApplyRefusedFails, ApplyOtaUpdate, ClearPrevious, ClearPreviousFails,
     SwapOut, SwapOutFails, SwapIn, SwapInFails, RecordFloor, RecoverFailedApply,
     disk, memory, history
<1>4. CASE Rollback
  BY <1>4, Zenon DEF Rollback, ManualRollback, MoveToPrevious, ResetAfterRollback,
     disk, memory, history
<1>5. CASE Crash \/ ReplaceShell
  BY <1>5, Zenon DEF Crash, ReplaceShell, ProcessGone, disk, memory, history
<1> QED
  BY <1>1, <1>2, <1>3, <1>4, <1>5 DEF Next

LEMMA TypeInvInit == Init => TypeInv
<1> SUFFICES ASSUME Init PROVE TypeInv
  OBVIOUS
<1>1. FlagsOK
  BY Zenon DEF Init, FlagsOK
<1>2. DataOK /\ ApplyInv
  BY ConstantsAssumption, VersionsAreNumbers
     DEF Init, DataOK, ApplyInv, Directory, Phases, NoReport
<1> QED
  BY <1>1, <1>2, TypeParts DEF TypeInv

LEMMA BootType == TypeInv /\ Boot => DataOK' /\ ApplyInv'
<1> SUFFICES ASSUME DataOK, ApplyInv, TypeOK, Boot PROVE DataOK' /\ ApplyInv'
  BY TypeParts DEF TypeInv
<1> USE VersionsAreNumbers DEF DataOK, ApplyInv, Phases
<1>1. CASE BootWithOverlay
  <2>1. crashCount' \in Nat /\ faults' \in Nat
    BY <1>1, WriteCountEffect DEF BootWithOverlay
  <2> QED
    BY <1>1, <2>1 DEF BootWithOverlay
<1>2. CASE BootWithoutOverlay
  <2>1. crashCount' \in Nat /\ faults' \in Nat
    BY <1>2, ResetCountEffect DEF BootWithoutOverlay, TypeOK
  <2> QED
    BY <1>2, <2>1 DEF BootWithoutOverlay
<1>3. CASE WipeOverlay
  BY <1>3, OverlayFields DEF WipeOverlay, Directory
<1>4. CASE WipeFails
  <2>1. current \in Overlays
    BY <1>4, OverlayFields DEF WipeFails
  <2>2. current' \in Overlays /\ current' # NoOverlay
    BY <1>4, <2>1, DamagedOverlay, ConstantsAssumption DEF WipeFails
  <2> QED
    BY <1>4, <2>2 DEF WipeFails, Directory, history
<1>5. CASE ForgetOverlay
  BY <1>5 DEF ForgetOverlay
<1>6. CASE LoadOverlay
  <2>1. current.ver \in Versions
    BY <1>6, OverlayFields DEF LoadOverlay, Loadable
  <2>2. code' \in 0 .. MaxVersion
    BY <1>6, <2>1 DEF LoadOverlay
  <2> QED
    BY <1>6, <2>2 DEF LoadOverlay, disk
<1>7. CASE LoadBundled
  <2>1. current' \in Directory
    <3>1. CASE Refused(current)
      <4>1. current \in Overlays
        BY <3>1, OverlayFields DEF Refused
      <4> QED
        BY <1>7, <4>1, DamagedOverlay DEF LoadBundled, Directory
    <3>2. CASE ~Refused(current)
      BY <1>7, <3>2 DEF LoadBundled
    <3> QED
      BY <3>1, <3>2
  <2> QED
    BY <1>7, <2>1 DEF LoadBundled
<1>8. CASE SignalAppRunning
  BY <1>8 DEF SignalAppRunning, disk, history
<1> QED
  BY <1>1, <1>2, <1>3, <1>4, <1>5, <1>6, <1>7, <1>8 DEF Boot

LEMMA RunType == TypeInv /\ (Run \/ Crash \/ ReplaceShell) => DataOK' /\ ApplyInv'
<1> SUFFICES ASSUME DataOK, ApplyInv, TypeOK, Run \/ Crash \/ ReplaceShell
             PROVE  DataOK' /\ ApplyInv'
  BY TypeParts DEF TypeInv
<1> USE VersionsAreNumbers DEF DataOK, ApplyInv, Phases
<1>1. CASE StableTimerFires
  BY <1>1 DEF StableTimerFires
<1>2. CASE SignalGracefulQuit
  <2>1. crashCount' \in Nat /\ faults' \in Nat
    BY <1>2, ResetCountEffect DEF SignalGracefulQuit, TypeOK
  <2> QED
    BY <1>2, <2>1 DEF SignalGracefulQuit
<1>3. CASE QuitVetoed
  BY <1>3 DEF QuitVetoed, disk, history
<1>4. CASE Exit
  BY <1>4 DEF Exit, ProcessGone, disk, Directory
<1>5. CASE DownloadOtaUpdate
  BY <1>5 DEF DownloadOtaUpdate, memory, history, Directory, Overlays
<1>6. CASE Crash
  BY <1>6 DEF Crash, ProcessGone, disk, Directory
<1>7. CASE ReplaceShell
  BY <1>7 DEF ReplaceShell, memory, history
<1> QED
  BY <1>1, <1>2, <1>3, <1>4, <1>5, <1>6, <1>7 DEF Run

LEMMA RecoverType ==
    ASSUME DataOK, NEW d \in Directory, RecoverFailedApply(d), staged' \in Directory
    PROVE  DataOK' /\ ApplyInv'
<1>1. current' \in Directory /\ previous' \in Directory /\ faults' \in Nat
  BY DEF RecoverFailedApply, MovesBack, DataOK
<1>2. before' \in Directory /\ phase' = "running"
  BY DEF RecoverFailedApply, Directory
<1> QED
  BY <1>1, <1>2 DEF RecoverFailedApply, DataOK, ApplyInv, Phases

LEMMA ApplyType == TypeInv /\ Apply => DataOK' /\ ApplyInv'
<1> SUFFICES ASSUME DataOK, ApplyInv, TypeOK, Apply PROVE DataOK' /\ ApplyInv'
  BY TypeParts DEF TypeInv
<1> USE VersionsAreNumbers DEF DataOK, ApplyInv, Phases
<1>1. CASE ApplyRefused
  BY <1>1 DEF ApplyRefused, memory, history, Directory
<1>2. CASE ApplyOtaUpdate
  BY <1>2 DEF ApplyOtaUpdate, disk
<1>10. CASE ApplyRefusedFails
  <2>1. staged \in Overlays
    BY <1>10, OverlayFields DEF ApplyRefusedFails
  <2>2. staged' \in Directory
    BY <1>10, <2>1, DamagedOverlay DEF ApplyRefusedFails, Directory
  <2> QED
    BY <1>10, <2>2, RecoverType DEF ApplyRefusedFails
<1>3. CASE ClearPrevious
  BY <1>3 DEF ClearPrevious, history, Directory
<1>4. CASE ClearPreviousFails
  <2>1. PICK d \in Damaged(previous) : RecoverFailedApply(d)
    BY <1>4 DEF ClearPreviousFails
  <2>2. previous \in Overlays
    BY <1>4, OverlayFields DEF ClearPreviousFails
  <2>3. d \in Directory
    BY <2>1, <2>2, DamagedOverlay DEF Directory
  <2> QED
    BY <1>4, <2>1, <2>3, RecoverType DEF ClearPreviousFails
<1>5. CASE SwapOut
  BY <1>5 DEF SwapOut, history, Directory
<1>6. CASE SwapOutFails
  BY <1>6, RecoverType DEF SwapOutFails
<1>7. CASE SwapIn
  <2>1. staged # NoOverlay /\ staged.ver \in Versions
    BY <1>7, OverlayFields DEF SwapIn
  <2>2. current' \in Directory /\ current' # NoOverlay /\ staged' \in Directory
    BY <1>7, <2>1 DEF SwapIn, Directory
  <2> QED
    BY <1>7, <2>1, <2>2 DEF SwapIn
<1>8. CASE SwapInFails
  BY <1>8, RecoverType DEF SwapInFails
<1>9. CASE RecordFloor
  <2>1. current.ver \in Versions
    BY <1>9, OverlayFields DEF RecordFloor
  <2>2. floor' \in {floor, current.ver} /\ faults' \in Nat
    BY <1>9 DEF RecordFloor, RaisedFloor
  <2>3. floor' \in 0 .. MaxVersion
    BY <2>1, <2>2
  <2> QED
    BY <1>9, <2>2, <2>3 DEF RecordFloor, Directory
<1> QED
  BY <1>1, <1>2, <1>3, <1>4, <1>5, <1>6, <1>7, <1>8, <1>9, <1>10 DEF Apply

LEMMA RollbackType == TypeInv /\ Rollback => DataOK' /\ ApplyInv'
<1> SUFFICES ASSUME DataOK, ApplyInv, TypeOK, Rollback PROVE DataOK' /\ ApplyInv'
  BY TypeParts DEF TypeInv
<1> USE VersionsAreNumbers DEF DataOK, ApplyInv, Phases
<1>1. CASE ManualRollback
  <2>1. previous' \in Directory
    <3>1. CASE previous = NoOverlay
      BY <1>1, <3>1 DEF ManualRollback, Directory
    <3>2. CASE previous # NoOverlay
      BY <1>1, <3>2, OverlayFields, DamagedOverlay DEF ManualRollback, Directory
    <3> QED
      BY <3>1, <3>2
  <2> QED
    BY <1>1, <2>1 DEF ManualRollback, history
<1>2. CASE MoveToPrevious
  <2>1. current.ver \in Versions
    BY <1>2, OverlayFields DEF MoveToPrevious
  <2>2. withdrawn' \in SUBSET Versions
    BY <1>2, <2>1 DEF MoveToPrevious
  <2>3. current' \in Directory /\ previous' \in Directory
    BY <1>2 DEF MoveToPrevious, Directory
  <2>4. faults' \in Nat /\ bootsOfCurrent' \in Nat
    BY <1>2 DEF MoveToPrevious
  <2>5. phase' \in {"rollbackReset", "running"}
    BY <1>2 DEF MoveToPrevious
  <2> QED
    BY <1>2, <2>2, <2>3, <2>4, <2>5 DEF MoveToPrevious
<1>3. CASE ResetAfterRollback
  <2>1. crashCount' \in Nat /\ faults' \in Nat
    BY <1>3, WriteCountEffect DEF ResetAfterRollback
  <2> QED
    BY <1>3, <2>1 DEF ResetAfterRollback
<1> QED
  BY <1>1, <1>2, <1>3 DEF Rollback

LEMMA TypeInvStep == TypeInv /\ [Next]_vars => TypeInv'
<1> SUFFICES ASSUME TypeInv, [Next]_vars PROVE TypeInv'
  OBVIOUS
<1>1. CASE Next
  <2>1. FlagsOK'
    BY <1>1, FlagsStep, TypeParts DEF TypeInv
  <2>2. DataOK' /\ ApplyInv'
    BY <1>1, BootType, RunType, ApplyType, RollbackType DEF Next
  <2>3. TypeOK'
    BY <2>1, <2>2, Zenon DEF TypeOK, FlagsOK, DataOK
  <2> QED
    BY <2>2, <2>3 DEF TypeInv
<1>2. CASE UNCHANGED vars
  BY <1>2, Zenon DEF TypeInv, TypeOK, ApplyInv, vars, disk, memory, history
<1> QED
  BY <1>1, <1>2

\* Every reachable state is well typed: the disk, the process and the
\* observations of OtaOverlay, through boots, crashes, applies and rollbacks.
THEOREM TypeCorrect == Spec => []TypeOK
<1>1. TypeInv => TypeOK
  BY DEF TypeInv
<1> QED
  BY <1>1, TypeInvInit, TypeInvStep, PTL DEF Spec

-----------------------------------------------------------------------------
(* The crash loop bound.                                                   *)

\* Why CrashLoopBounded holds: each unproven load was counted on disk or cost a
\* fault, and a load that is about to happen fits in the bound already. The boot
\* that wipes holds a count at least as high as the one on disk.
LoopInv ==
    /\ CrashLoopBounded
    /\ overlayRuns <= crashCount + faults
    /\ phase = "resolve" /\ current # NoOverlay =>
         /\ overlayRuns + 1 <= MaxCrashes - 1 + faults
         /\ overlayRuns + 1 <= crashCount + faults
    /\ phase = "wipe" =>
         /\ bootCount >= crashCount
         /\ overlayRuns + 1 <= crashCount + faults
    /\ phase = "forget" => current = NoOverlay

LEMMA LoopInvBoot == TypeOK /\ LoopInv /\ Boot => LoopInv'
<1> SUFFICES ASSUME TypeOK, LoopInv, Boot PROVE LoopInv'
  OBVIOUS
<1>0. /\ crashCount \in Nat /\ overlayRuns \in Nat
      /\ faults \in Nat /\ bootCount \in Nat
      /\ MaxCrashes \in Nat \ {0}
  BY ConstantsAssumption DEF TypeOK
<1> USE <1>0 DEF LoopInv, CrashLoopBounded
<1>1. CASE BootWithOverlay
  <2>1. \/ crashCount' = crashCount + 1 /\ faults' = faults
        \/ crashCount' = crashCount /\ faults' = faults + 1
    BY <1>1, WriteCountEffect DEF BootWithOverlay
  <2> QED
    BY <1>1, <2>1 DEF BootWithOverlay, TooManyCrashes
<1>2. CASE BootWithoutOverlay
  <2>1. crashCount' \in Nat /\ faults' \in Nat
    BY <1>2, ResetCountEffect DEF BootWithoutOverlay, TypeOK
  <2>2. /\ overlayRuns' = 0 /\ current' = NoOverlay /\ phase' = "resolve"
        /\ bootCount' = 0
    BY <1>2 DEF BootWithoutOverlay
  <2> DEFINE c == crashCount'
             f == faults'
  <2>3. 0 <= MaxCrashes - 1 + f /\ 0 <= c + f
    <3>1. c \in Nat /\ f \in Nat
      BY <2>1
    <3> HIDE DEF c, f
    <3> QED
      BY <3>1
  <2> QED
    BY <2>2, <2>3
<1>3. CASE WipeOverlay
  BY <1>3 DEF WipeOverlay
<1>4. CASE WipeFails
  <2>1. overlayRuns' = overlayRuns
    BY <1>4 DEF WipeFails, history
  <2>2. /\ crashCount' \in Nat /\ crashCount' >= crashCount
        /\ faults' = faults + 1 /\ phase' = "resolve" /\ bootCount' = bootCount
    BY <1>4 DEF WipeFails
  <2>3. overlayRuns + 1 <= crashCount + faults
    BY <1>4 DEF WipeFails
  <2> DEFINE c == crashCount'
             f == faults'
  <2>4. /\ overlayRuns <= MaxCrashes - 1 + f /\ overlayRuns <= c + f
        /\ overlayRuns + 1 <= MaxCrashes - 1 + f /\ overlayRuns + 1 <= c + f
    <3>1. c \in Nat /\ c >= crashCount /\ f = faults + 1
      BY <2>2
    <3> HIDE DEF c, f
    <3> QED
      BY <2>3, <3>1
  <2> QED
    BY <2>1, <2>2, <2>4
<1>5. CASE ForgetOverlay
  BY <1>5 DEF ForgetOverlay
<1>6. CASE LoadOverlay
  BY <1>6 DEF LoadOverlay, Loadable, disk
<1>7. CASE LoadBundled
  BY <1>7 DEF LoadBundled
<1>8. CASE SignalAppRunning
  BY <1>8 DEF SignalAppRunning, disk, history
<1> QED
  BY <1>1, <1>2, <1>3, <1>4, <1>5, <1>6, <1>7, <1>8 DEF Boot

\* The steps of a running process leave the counts alone or reset overlayRuns;
\* a failed file operation only loosens the bound.
LEMMA LoopInvRest ==
    TypeOK /\ LoopInv /\ (Run \/ Apply \/ Rollback \/ Crash \/ ReplaceShell) => LoopInv'
<1> SUFFICES ASSUME TypeOK, LoopInv, Run \/ Apply \/ Rollback \/ Crash \/ ReplaceShell
             PROVE  LoopInv'
  OBVIOUS
<1>0. /\ crashCount \in Nat /\ overlayRuns \in Nat /\ faults \in Nat
      /\ MaxCrashes \in Nat \ {0}
  BY ConstantsAssumption DEF TypeOK
<1>1. /\ phase' \notin {"resolve", "wipe", "forget"}
      /\ faults' \in Nat /\ faults' >= faults /\ crashCount' \in Nat
      /\ \/ overlayRuns' = 0
         \/ overlayRuns' = overlayRuns /\ crashCount' = crashCount
  <2>1. CASE Run
    <3>1. CASE SignalGracefulQuit
      <4>1. crashCount' \in Nat /\ faults' \in Nat /\ faults' >= faults
        BY <1>0, <3>1, ResetCountEffect DEF SignalGracefulQuit, TypeOK
      <4> QED
        BY <3>1, <4>1 DEF SignalGracefulQuit
    <3>2. CASE StableTimerFires
      BY <1>0, <3>2 DEF StableTimerFires
    <3>3. CASE QuitVetoed \/ Exit \/ DownloadOtaUpdate
      BY <1>0, <3>3 DEF QuitVetoed, Exit, DownloadOtaUpdate, ProcessGone, disk, memory, history
    <3> QED
      BY <2>1, <3>1, <3>2, <3>3 DEF Run
  <2>2. CASE Apply
    BY <1>0, <2>2 DEF Apply, ApplyRefused, ApplyRefusedFails, ApplyOtaUpdate, ClearPrevious,
       ClearPreviousFails, SwapOut, SwapOutFails, SwapIn, SwapInFails, RecordFloor,
       RecoverFailedApply, disk, memory, history
  <2>3. CASE Rollback
    <3>1. CASE ResetAfterRollback
      <4>1. crashCount' \in Nat /\ faults' \in Nat /\ faults' >= faults
        BY <1>0, <3>1, WriteCountEffect DEF ResetAfterRollback
      <4> QED
        BY <3>1, <4>1 DEF ResetAfterRollback
    <3>2. CASE ManualRollback \/ MoveToPrevious
      BY <1>0, <3>2 DEF ManualRollback, MoveToPrevious, history
    <3> QED
      BY <2>3, <3>1, <3>2 DEF Rollback
  <2>4. CASE Crash \/ ReplaceShell
    BY <1>0, <2>4 DEF Crash, ReplaceShell, ProcessGone, disk, memory, history
  <2> QED
    BY <2>1, <2>2, <2>3, <2>4
<1> QED
  BY <1>0, <1>1 DEF LoopInv, CrashLoopBounded

LEMMA LoopInvariant == Spec => []LoopInv
<1>1. Init => LoopInv
  BY ConstantsAssumption DEF Init, LoopInv, CrashLoopBounded
<1>2. TypeOK /\ LoopInv /\ [Next]_vars => LoopInv'
  <2>1. TypeOK /\ LoopInv /\ Next => LoopInv'
    BY LoopInvBoot, LoopInvRest DEF Next
  <2>2. LoopInv /\ UNCHANGED vars => LoopInv'
    BY DEF LoopInv, CrashLoopBounded, vars, disk, memory, history
  <2> QED
    BY <2>1, <2>2
<1> QED
  BY <1>1, <1>2, TypeCorrect, PTL DEF Spec

\* However boots, crashes, quits, applies and failed writes follow each other,
\* overlay code is loaded at most MaxCrashes - 1 times between two resets of the
\* counter, plus once for each file operation that failed.
THEOREM CrashLoopIsBounded == Spec => []CrashLoopBounded
<1>1. LoopInv => CrashLoopBounded
  BY DEF LoopInv
<1> QED
  BY <1>1, LoopInvariant, PTL

-----------------------------------------------------------------------------
(* The floor, and what it keeps away.                                      *)

\* Whatever is installed, or kept in rollback/, was applied once; a version that
\* was applied is at or below the floor, or about to be; an apply that runs
\* installs a version above the floor, hence one that was never applied.
FloorInv ==
    /\ current # NoOverlay => current.ver \in applied
    /\ previous # NoOverlay => previous.ver \in applied
    /\ withdrawn \subseteq applied
    /\ ~floorLost =>
         \A v \in applied : v <= floor \/ (phase = "recordFloor" /\ v = current.ver)
    /\ phase \in {"clearPrevious", "swapOut", "swapIn"} => floor < staged.ver
    /\ phase = "swapIn" => current = NoOverlay
    /\ WithdrawnStaysAway

\* What FloorInv compares are integers.
LEMMA FloorNumbers ==
    ASSUME TypeOK
    PROVE  /\ floor \in Int
           /\ \A v \in applied : v \in Int
           /\ \A v \in Versions : v \in Int
<1>1. floor \in 0 .. MaxVersion /\ applied \subseteq Versions
  BY Zenon DEF TypeOK
<1> QED
  BY <1>1, VersionsAreNumbers

\* Steps that leave the directories, the floor and the observations alone.
LEMMA FloorFrame ==
    ASSUME TypeOK, FloorInv, phase # "recordFloor",
           UNCHANGED <<current, previous, applied, withdrawn, floor, floorLost>>,
           faults' \in {faults, faults + 1},
           phase' \notin {"clearPrevious", "swapOut", "swapIn"}
    PROVE  FloorInv'
<1>1. faults' = 0 => faults = 0
  BY DEF TypeOK
<1> QED
  BY <1>1 DEF FloorInv, WithdrawnStaysAway

\* A step that removes the installed overlay, or part of it after a failure,
\* and at most adds its version to the withdrawn ones.
LEMMA FloorRemove ==
    ASSUME TypeOK, FloorInv, phase # "recordFloor",
           current # NoOverlay,
           \/ current' = NoOverlay
           \/ current' \in Damaged(current) /\ faults' = faults + 1,
           previous' \in {previous, current},
           withdrawn' \in {withdrawn, withdrawn \cup {current.ver}},
           UNCHANGED <<applied, floor, floorLost>>,
           phase' \notin {"clearPrevious", "swapOut", "swapIn", "recordFloor"}
    PROVE  FloorInv'
<1>1. current \in Overlays
  BY OverlayFields DEF TypeOK
<1>2. current' # NoOverlay => current'.ver = current.ver /\ faults' # 0
  BY <1>1, DamagedOverlay DEF TypeOK
<1>3. previous' # NoOverlay => previous'.ver \in applied
  BY DEF FloorInv
<1> QED
  BY <1>2, <1>3 DEF FloorInv, WithdrawnStaysAway

LEMMA FloorBoot == TypeInv /\ FloorInv /\ Boot => FloorInv'
<1> SUFFICES ASSUME TypeInv, TypeOK, FloorInv, Boot PROVE FloorInv'
  BY DEF TypeInv
<1>1. CASE BootWithOverlay
  BY <1>1, WriteCountEffect, FloorFrame DEF BootWithOverlay, WriteCount
<1>2. CASE BootWithoutOverlay
  BY <1>2, ResetCountEffect, FloorFrame DEF BootWithoutOverlay
<1>3. CASE WipeOverlay
  <2>1. current # NoOverlay
    BY <1>3 DEF WipeOverlay, TypeInv, ApplyInv
  <2> QED
    BY <1>3, <2>1, FloorRemove DEF WipeOverlay
<1>4. CASE WipeFails
  <2>1. current # NoOverlay
    BY <1>4 DEF WipeFails, TypeInv, ApplyInv
  <2> QED
    BY <1>4, <2>1, FloorRemove DEF WipeFails, history
<1>5. CASE ForgetOverlay
  BY <1>5, FloorFrame DEF ForgetOverlay
<1>6. CASE LoadOverlay
  BY <1>6, FloorFrame DEF LoadOverlay, disk
<1>7. CASE LoadBundled
  <2>1. CASE UNCHANGED <<current, bootsOfCurrent, faults>>
    BY <1>7, <2>1, FloorFrame DEF LoadBundled
  <2>2. CASE Refused(current) /\ current' = NoOverlay
    BY <1>7, <2>2, FloorRemove DEF LoadBundled, Refused
  <2>3. CASE Refused(current) /\ faults' = faults + 1 /\ current' \in Damaged(current)
    BY <1>7, <2>3, FloorRemove DEF LoadBundled, Refused
  <2> QED
    BY <1>7, <2>1, <2>2, <2>3 DEF LoadBundled
<1>8. CASE SignalAppRunning
  BY <1>8, FloorFrame DEF SignalAppRunning, disk, history
<1> QED
  BY <1>1, <1>2, <1>3, <1>4, <1>5, <1>6, <1>7, <1>8 DEF Boot

LEMMA FloorRun == TypeInv /\ FloorInv /\ (Run \/ Crash \/ ReplaceShell) => FloorInv'
<1> SUFFICES ASSUME TypeOK, FloorInv, Run \/ Crash \/ ReplaceShell PROVE FloorInv'
  BY DEF TypeInv
<1>1. CASE StableTimerFires
  BY <1>1, FloorFrame DEF StableTimerFires
<1>2. CASE SignalGracefulQuit
  BY <1>2, ResetCountEffect, FloorFrame DEF SignalGracefulQuit
<1>3. CASE QuitVetoed
  BY <1>3, FloorFrame DEF QuitVetoed, disk, history
<1>4. CASE Exit
  BY <1>4, FloorFrame DEF Exit, ProcessGone, disk
<1>5. CASE DownloadOtaUpdate
  BY <1>5, FloorFrame DEF DownloadOtaUpdate, memory, history
<1>6. CASE Crash
  <2>1. CASE phase = "recordFloor"
    BY <1>6, <2>1, Zenon DEF Crash, ProcessGone, disk, FloorInv, WithdrawnStaysAway
  <2>2. CASE phase # "recordFloor"
    <3>1. floorLost' = floorLost
      BY <1>6, <2>2, Zenon DEF Crash, TypeOK
    <3> QED
      BY <1>6, <2>2, <3>1, FloorFrame DEF Crash, ProcessGone, disk
  <2> QED
    BY <2>1, <2>2
<1>7. CASE ReplaceShell
  BY <1>7, FloorFrame DEF ReplaceShell, memory, history
<1> QED
  BY <1>1, <1>2, <1>3, <1>4, <1>5, <1>6, <1>7 DEF Run

\* The catch block may bring rollback/ back, at the price of a fault.
LEMMA FloorRecover ==
    ASSUME TypeOK, FloorInv, NEW d \in Directory,
           d = previous \/ (previous # NoOverlay /\ d.ver = previous.ver),
           phase # "recordFloor", RecoverFailedApply(d)
    PROVE  FloorInv'
<1>1. faults' # 0 /\ phase' = "running" /\ UNCHANGED <<applied, withdrawn, floor, floorLost>>
  BY DEF RecoverFailedApply, TypeOK
<1>2. d # NoOverlay => d.ver \in applied
  BY DEF FloorInv
<1>3. current' \in {current, d} /\ previous' \in {d, NoOverlay}
  BY DEF RecoverFailedApply
<1> QED
  BY <1>1, <1>2, <1>3 DEF FloorInv, WithdrawnStaysAway

LEMMA FloorApply == TypeInv /\ FloorInv /\ Apply => FloorInv'
<1> SUFFICES ASSUME TypeInv, TypeOK, FloorInv, Apply PROVE FloorInv'
  BY DEF TypeInv
<1>1. CASE ApplyRefused
  BY <1>1, FloorFrame DEF ApplyRefused, memory, history
<1>2. CASE ApplyOtaUpdate
  BY <1>2 DEF ApplyOtaUpdate, Applicable, disk, FloorInv, WithdrawnStaysAway
<1>10. CASE ApplyRefusedFails
  BY <1>10, FloorRecover DEF ApplyRefusedFails, TypeOK
<1>3. CASE ClearPrevious
  BY <1>3 DEF ClearPrevious, history, FloorInv, WithdrawnStaysAway
<1>4. CASE ClearPreviousFails
  <2>1. PICK d \in Damaged(previous) : RecoverFailedApply(d)
    BY <1>4 DEF ClearPreviousFails
  <2>2. previous \in Overlays
    BY <1>4, OverlayFields DEF ClearPreviousFails, TypeOK
  <2>3. d \in Directory /\ d.ver = previous.ver
    BY <2>1, <2>2, DamagedOverlay DEF Directory
  <2> QED
    BY <1>4, <2>1, <2>3, FloorRecover DEF ClearPreviousFails
<1>5. CASE SwapOut
  BY <1>5 DEF SwapOut, history, FloorInv, WithdrawnStaysAway
<1>6. CASE SwapOutFails
  BY <1>6, FloorRecover DEF SwapOutFails, TypeOK
<1>7. CASE SwapIn
  <2>1. staged # NoOverlay /\ staged.ver \in Versions
    BY <1>7, OverlayFields DEF SwapIn, TypeInv, ApplyInv, TypeOK
  <2>2. ~floorLost => staged.ver \notin applied
    <3> SUFFICES ASSUME ~floorLost, staged.ver \in applied PROVE FALSE
      OBVIOUS
    <3>1. floor < staged.ver /\ staged.ver <= floor
      BY <1>7 DEF SwapIn, FloorInv
    <3>2. floor \in Int /\ staged.ver \in Int
      BY <2>1, FloorNumbers
    <3> QED
      BY <3>1, <3>2
  <2>3. /\ current' = staged /\ phase' = "recordFloor"
        /\ applied' = applied \cup {staged.ver}
        /\ UNCHANGED <<previous, withdrawn, floor, floorLost, faults>>
    BY <1>7 DEF SwapIn
  <2>4. ~floorLost => \A v \in applied : v <= floor
    BY <1>7 DEF SwapIn, FloorInv
  <2> QED
    BY <2>1, <2>2, <2>3, <2>4 DEF FloorInv, WithdrawnStaysAway
<1>8. CASE SwapInFails
  BY <1>8, FloorRecover DEF SwapInFails, TypeOK
<1>9. CASE RecordFloor
  <2>1. current # NoOverlay /\ current.ver \in Versions
    BY <1>9, OverlayFields DEF RecordFloor, TypeInv, ApplyInv, TypeOK
  <2>2. /\ phase' = "running" /\ UNCHANGED <<current, previous, applied, withdrawn>>
        /\ faults' = 0 => faults = 0
    BY <1>9 DEF RecordFloor, TypeOK
  <2>3. ~floorLost' => ~floorLost
    BY <1>9 DEF RecordFloor
  <2>4. ~floorLost' => \A v \in applied : v <= floor'
    <3> SUFFICES ASSUME ~floorLost', NEW v \in applied PROVE v <= floor'
      OBVIOUS
    <3>1. floor' = IF current.ver > floor THEN current.ver ELSE floor
      BY <1>9 DEF RecordFloor, RaisedFloor
    <3>2. v <= floor \/ v = current.ver
      BY <2>3 DEF FloorInv
    <3>3. v \in Int /\ floor \in Int /\ current.ver \in Int
      BY <2>1, FloorNumbers
    <3> QED
      BY <3>1, <3>2, <3>3
  <2> QED
    BY <2>2, <2>3, <2>4 DEF FloorInv, WithdrawnStaysAway
<1> QED
  BY <1>1, <1>2, <1>3, <1>4, <1>5, <1>6, <1>7, <1>8, <1>9, <1>10 DEF Apply

LEMMA FloorRollback == TypeInv /\ FloorInv /\ Rollback => FloorInv'
<1> SUFFICES ASSUME TypeInv, TypeOK, FloorInv, Rollback PROVE FloorInv'
  BY DEF TypeInv
<1>1. CASE ManualRollback
  <2>1. previous' # NoOverlay => previous'.ver \in applied
    <3>1. previous # NoOverlay => previous \in Overlays
      BY OverlayFields DEF TypeOK
    <3> QED
      BY <1>1, <3>1, DamagedOverlay DEF ManualRollback, FloorInv
  <2>2. phase' \in {"running", "rollbackMove"} /\ faults' \in {faults, faults + 1}
    BY <1>1 DEF ManualRollback
  <2>3. faults' = 0 => faults = 0
    BY <2>2 DEF TypeOK
  <2> QED
    BY <1>1, <2>1, <2>2, <2>3 DEF ManualRollback, history, FloorInv, WithdrawnStaysAway
<1>2. CASE MoveToPrevious
  <2>1. current # NoOverlay
    BY <1>2 DEF MoveToPrevious, TypeInv, ApplyInv
  <2>2. CASE current' = NoOverlay
    BY <1>2, <2>1, <2>2, FloorRemove DEF MoveToPrevious
  <2>3. CASE current' = current
    BY <1>2, <2>1, <2>3, FloorFrame DEF MoveToPrevious
  <2> QED
    BY <1>2, <2>2, <2>3 DEF MoveToPrevious
<1>3. CASE ResetAfterRollback
  BY <1>3, FloorFrame DEF ResetAfterRollback, WriteCount
<1> QED
  BY <1>1, <1>2, <1>3 DEF Rollback

LEMMA FloorInvariant == Spec => []FloorInv
<1>1. Init => FloorInv
  BY DEF Init, FloorInv, WithdrawnStaysAway
<1>2. TypeInv /\ FloorInv /\ [Next]_vars => FloorInv'
  <2>1. TypeInv /\ FloorInv /\ Next => FloorInv'
    BY FloorBoot, FloorRun, FloorApply, FloorRollback DEF Next
  <2>2. FloorInv /\ UNCHANGED vars => FloorInv'
    BY DEF FloorInv, WithdrawnStaysAway, vars, disk, memory, history
  <2> QED
    BY <2>1, <2>2
<1> QED
  BY <1>1, <1>2, TypeInvInit, TypeInvStep, PTL DEF Spec

\* The downgrade floor covers every version that was ever swapped in, as long as
\* no crash and no failed write hit the step that records it.
THEOREM FloorIsRecorded == Spec => []FloorCoversApplied
<1>1. FloorInv => FloorCoversApplied
  BY DEF FloorInv, FloorCoversApplied
<1> QED
  BY <1>1, FloorInvariant, PTL

\* A version that a crash rollback or a manual rollback removed is not installed
\* again, whatever the feed offers, while file operations succeed and the floor
\* is recorded.
THEOREM WithdrawnVersionsStayAway == Spec => []WithdrawnStaysAway
<1>1. FloorInv => WithdrawnStaysAway
  BY DEF FloorInv
<1> QED
  BY <1>1, FloorInvariant, PTL

-----------------------------------------------------------------------------
(* OtaOverlay implements OverlayLifecycle, and the facts about swaps and   *)
(* rollbacks that this rests on.                                           *)

SwapPhases == {"clearPrevious", "swapOut", "swapIn", "recordFloor"}

\* What each step of an apply finds: the overlay it started from is still where
\* the next step or the catch block looks for it, and the staged one is newer
\* than the floor and the running code.
SwapInv ==
    /\ phase \in {"clearPrevious", "swapOut"} => before = current
    /\ phase = "swapOut" => previous = NoOverlay
    /\ phase = "swapIn" => before = previous /\ current = NoOverlay
    /\ phase \in {"clearPrevious", "swapOut", "swapIn"} =>
         staged.intact /\ staged.ver > floor /\ staged.ver > code
    /\ phase = "recordFloor" => staged = NoOverlay /\ current.ver > floor
    /\ before # NoOverlay => phase \in SwapPhases

\* Outside an apply there is nothing to keep.
LEMMA SwapIdle ==
    ASSUME phase' \notin SwapPhases, before' = NoOverlay
    PROVE  SwapInv'
  BY DEF SwapInv, SwapPhases

LEMMA SwapStep == SwapInv /\ Next => SwapInv'
<1> SUFFICES ASSUME SwapInv, Next PROVE SwapInv'
  OBVIOUS
<1>1. CASE Boot
  <2>1. before' = before /\ phase \notin SwapPhases /\ phase' \notin SwapPhases
    BY <1>1 DEF Boot, BootWithOverlay, BootWithoutOverlay, WipeOverlay, WipeFails,
       ForgetOverlay, LoadOverlay, LoadBundled, SignalAppRunning, history, SwapPhases
  <2> QED
    BY <2>1, SwapIdle DEF SwapInv
<1>2. CASE Run \/ Rollback
  <2>1. /\ before' \in {before, NoOverlay}
        /\ phase \notin SwapPhases /\ phase' \notin SwapPhases
    BY <1>2 DEF Run, StableTimerFires, SignalGracefulQuit, QuitVetoed, Exit,
       DownloadOtaUpdate, ProcessGone, Rollback, ManualRollback, MoveToPrevious,
       ResetAfterRollback, memory, history, SwapPhases
  <2> QED
    BY <2>1, SwapIdle DEF SwapInv
<1>3. CASE Crash
  BY <1>3, SwapIdle DEF Crash, ProcessGone, SwapPhases
<1>4. CASE ReplaceShell
  <2>1. before' = before /\ phase = "down" /\ phase' = "down"
    BY <1>4 DEF ReplaceShell, memory, history
  <2> QED
    BY <2>1, SwapIdle DEF SwapInv, SwapPhases
<1>5. CASE Apply
  <2>1. CASE ApplyRefused
    <3>1. before' = before /\ phase = "running" /\ phase' = "running"
      BY <2>1 DEF ApplyRefused, memory, history
    <3> QED
      BY <3>1, SwapIdle DEF SwapInv, SwapPhases
  <2>2. CASE ApplyRefusedFails \/ ClearPreviousFails \/ SwapOutFails \/ SwapInFails
    BY <2>2, SwapIdle DEF ApplyRefusedFails, ClearPreviousFails, SwapOutFails, SwapInFails,
       RecoverFailedApply, SwapPhases
  <2>3. CASE ApplyOtaUpdate
    BY <2>3 DEF ApplyOtaUpdate, Applicable, disk, SwapInv, SwapPhases
  <2>4. CASE ClearPrevious
    BY <2>4 DEF ClearPrevious, history, SwapInv, SwapPhases
  <2>5. CASE SwapOut
    BY <2>5 DEF SwapOut, history, SwapInv, SwapPhases
  <2>6. CASE SwapIn
    BY <2>6 DEF SwapIn, SwapInv, SwapPhases
  <2>7. CASE RecordFloor
    BY <2>7, SwapIdle DEF RecordFloor, SwapPhases
  <2> QED
    BY <1>5, <2>1, <2>2, <2>3, <2>4, <2>5, <2>6, <2>7 DEF Apply
<1> QED
  BY <1>1, <1>2, <1>3, <1>4, <1>5 DEF Next

LEMMA SwapInvariant == Spec => []SwapInv
<1>1. Init => SwapInv
  BY DEF Init, SwapInv
<1>2. SwapInv /\ [Next]_vars => SwapInv'
  <2>1. SwapInv /\ UNCHANGED vars => SwapInv'
    BY DEF SwapInv, SwapPhases, vars, disk, memory, history
  <2> QED
    BY <2>1, SwapStep
<1> QED
  BY <1>1, <1>2, PTL DEF Spec

\* Until the new overlay is in place, the one that was installed when the apply
\* started is in current/ or in rollback/, whatever step the process dies at;
\* and what is about to be swapped in is whole and newer.
THEOREM SwapIsRecoverable == Spec => []SwapLosesNothing
<1>1. SwapInv => SwapLosesNothing
  BY DEF SwapInv, SwapLosesNothing
<1> QED
  BY <1>1, SwapInvariant, PTL

\* One failed file operation of an apply leaves the overlay installed that was
\* installed when it started: the catch block finds it in rollback/.
THEOREM OneFailureKeepsOverlay == Spec => FailedApplyKeepsOverlay
<1> DEFINE Kept == /\ before # NoOverlay /\ before' = NoOverlay
                   /\ staged # NoOverlay /\ staged' = staged
                   /\ faults' = faults + 1
                   => current' = before
<1>1. TypeOK /\ SwapInv /\ Next => Kept
  <2> SUFFICES ASSUME TypeOK, SwapInv, Next,
                      before # NoOverlay, before' = NoOverlay,
                      staged # NoOverlay, staged' = staged, faults' = faults + 1
               PROVE  current' = before
    OBVIOUS
  <2>0. phase \in SwapPhases /\ faults \in Nat
    BY DEF SwapInv, TypeOK
  <2>1. CASE Boot
    BY <2>0, <2>1 DEF Boot, BootWithOverlay, BootWithoutOverlay, WipeOverlay, WipeFails,
       ForgetOverlay, LoadOverlay, LoadBundled, SignalAppRunning, SwapPhases
  <2>2. CASE Run \/ Rollback \/ ReplaceShell
    BY <2>0, <2>2 DEF Run, StableTimerFires, SignalGracefulQuit, QuitVetoed, Exit,
       DownloadOtaUpdate, Rollback, ManualRollback, MoveToPrevious,
       ResetAfterRollback, ReplaceShell, SwapPhases
  <2>3. CASE Crash
    BY <2>0, <2>3 DEF Crash
  <2>4. CASE Apply
    <3>1. CASE ClearPreviousFails \/ SwapOutFails
      BY <2>0, <3>1 DEF ClearPreviousFails, SwapOutFails, RecoverFailedApply, MovesBack, SwapInv
    <3>2. CASE SwapInFails
      BY <2>0, <3>2 DEF SwapInFails, RecoverFailedApply, MovesBack, SwapInv
    <3>3. CASE RecordFloor
      BY <3>3 DEF RecordFloor, SwapInv
    <3>4. CASE ClearPrevious \/ SwapOut \/ SwapIn
      BY <2>0, <3>4 DEF ClearPrevious, SwapOut, SwapIn, history
    <3>5. CASE ApplyRefused \/ ApplyRefusedFails \/ ApplyOtaUpdate
      BY <2>0, <3>5 DEF ApplyRefused, ApplyRefusedFails, ApplyOtaUpdate, SwapPhases
    <3> QED
      BY <2>4, <3>1, <3>2, <3>3, <3>4, <3>5 DEF Apply
  <2> QED
    BY <2>1, <2>2, <2>3, <2>4 DEF Next
<1>2. TypeOK /\ SwapInv /\ [Next]_vars => [Kept]_vars
  BY <1>1
<1>3. [][Kept]_vars => FailedApplyKeepsOverlay
  BY PTL DEF FailedApplyKeepsOverlay
<1> QED
  BY <1>2, <1>3, TypeCorrect, SwapInvariant, PTL DEF Spec

-----------------------------------------------------------------------------
(* The wipe is earned.                                                     *)

\* While no file operation failed, the counter on disk is the number of crashes
\* since its last reset, plus the boot that is under way and not proven yet.
EarnedInv ==
    faults = 0 =>
        /\ crashCount <= crashes + 1
        /\ ~counted => crashCount <= crashes
        /\ phase \in {"down", "quitting", "exiting"} => ~counted
        /\ phase = "wipe" => crashCount >= MaxCrashes

LEMMA EarnedBoot == TypeOK /\ EarnedInv /\ Boot => EarnedInv'
<1> SUFFICES ASSUME TypeOK, EarnedInv, Boot PROVE EarnedInv'
  OBVIOUS
<1>0. /\ crashCount \in Nat /\ crashes \in Nat /\ faults \in Nat /\ MaxCrashes \in Nat
      /\ counted \in BOOLEAN
  BY ConstantsAssumption, Zenon DEF TypeOK
<1> USE <1>0 DEF EarnedInv
<1>1. CASE BootWithOverlay
  BY <1>1, WriteCountEffect DEF BootWithOverlay, TooManyCrashes
<1>2. CASE BootWithoutOverlay
  <2>1. faults' = 0 => faults = 0 /\ crashCount' = 0
    BY <1>2 DEF BootWithoutOverlay, ResetCount, WriteCount
  <2> QED
    BY <1>2, <2>1 DEF BootWithoutOverlay
<1>3. CASE WipeOverlay \/ LoadOverlay \/ SignalAppRunning
  BY <1>3 DEF WipeOverlay, LoadOverlay, SignalAppRunning, disk, history
<1>4. CASE WipeFails
  BY <1>4 DEF WipeFails
<1>5. CASE ForgetOverlay
  BY <1>5 DEF ForgetOverlay
<1>6. CASE LoadBundled
  BY <1>6 DEF LoadBundled
<1> QED
  BY <1>1, <1>2, <1>3, <1>4, <1>5, <1>6 DEF Boot

LEMMA EarnedRest ==
    TypeOK /\ EarnedInv /\ (Run \/ Apply \/ Rollback \/ Crash \/ ReplaceShell) => EarnedInv'
<1> SUFFICES ASSUME TypeOK, EarnedInv, Run \/ Apply \/ Rollback \/ Crash \/ ReplaceShell
             PROVE  EarnedInv'
  OBVIOUS
<1>0. /\ crashCount \in Nat /\ crashes \in Nat /\ faults \in Nat
      /\ counted \in BOOLEAN
  BY Zenon DEF TypeOK
<1> USE <1>0 DEF EarnedInv
<1>1. CASE Run
  <2>1. CASE StableTimerFires
    BY <2>1 DEF StableTimerFires
  <2>2. CASE SignalGracefulQuit
    <3>1. faults' = 0 => crashCount' = 0
      BY <2>2 DEF SignalGracefulQuit, ResetCount, WriteCount
    <3> QED
      BY <2>2, <3>1 DEF SignalGracefulQuit
  <2>3. CASE QuitVetoed \/ DownloadOtaUpdate
    BY <2>3 DEF QuitVetoed, DownloadOtaUpdate, disk, memory, history
  <2>4. CASE Exit
    BY <2>4 DEF Exit, ProcessGone, disk
  <2> QED
    BY <1>1, <2>1, <2>2, <2>3, <2>4 DEF Run
<1>2. CASE Apply
  BY <1>2 DEF Apply, ApplyRefused, ApplyRefusedFails, ApplyOtaUpdate, ClearPrevious,
     ClearPreviousFails, SwapOut, SwapOutFails, SwapIn, SwapInFails, RecordFloor,
     RecoverFailedApply, disk, memory, history
<1>3. CASE Rollback
  <2>1. CASE ManualRollback \/ MoveToPrevious
    BY <2>1 DEF ManualRollback, MoveToPrevious, history
  <2>2. CASE ResetAfterRollback
    BY <2>2 DEF ResetAfterRollback, WriteCount
  <2> QED
    BY <1>3, <2>1, <2>2 DEF Rollback
<1>4. CASE Crash
  BY <1>4 DEF Crash, ProcessGone, disk
<1>5. CASE ReplaceShell
  BY <1>5 DEF ReplaceShell, memory, history
<1> QED
  BY <1>1, <1>2, <1>3, <1>4, <1>5

\* A boot decides to wipe a healthy machine's overlay only after MaxCrashes - 1
\* boots that crashed since the counter was last reset, in whatever order boots,
\* quits, vetoed quits, applies and rollbacks came.
THEOREM WipeIsEarned == Spec => []RollbackEarned
<1>1. Init => EarnedInv
  BY DEF Init, EarnedInv
<1>2. TypeOK /\ EarnedInv /\ [Next]_vars => EarnedInv'
  <2>1. EarnedInv /\ UNCHANGED vars => EarnedInv'
    BY DEF EarnedInv, vars, disk, memory, history
  <2> QED
    BY <2>1, EarnedBoot, EarnedRest DEF Next
<1>3. TypeOK /\ EarnedInv => RollbackEarned
  <2>1. TypeOK => crashCount \in Nat /\ crashes \in Nat /\ MaxCrashes \in Nat
    BY ConstantsAssumption DEF TypeOK
  <2> QED
    BY <2>1 DEF EarnedInv, RollbackEarned
<1> QED
  BY <1>1, <1>2, <1>3, TypeCorrect, PTL DEF Spec

-----------------------------------------------------------------------------
(* The refinement.                                                         *)

\* The abstract overlay, spare overlay and floor, as Lifecycle substitutes them.
Installed == VersionOf(IF Swapping THEN before ELSE current)
Spare == IF Swapping THEN 0 ELSE VersionOf(previous)
Floor == IF phase = "recordFloor" THEN current.ver ELSE floor

Abstract == <<Installed, Spare, Floor, floorLost, withdrawn, overlayRuns, faults>>

LEMMA VersionOfOverlay ==
    ASSUME NEW d \in Directory
    PROVE  /\ d = NoOverlay => VersionOf(d) = 0
           /\ d # NoOverlay => VersionOf(d) = d.ver /\ VersionOf(d) \in 1 .. MaxVersion
           /\ (VersionOf(d) = 0) <=> (d = NoOverlay)
<1>1. d # NoOverlay => d.ver \in 1 .. MaxVersion
  BY OverlayFields DEF Versions
<1>2. 0 \notin 1 .. MaxVersion
  OBVIOUS
<1> QED
  BY <1>1, <1>2 DEF VersionOf

\* What failed half-way keeps the version of what was there.
LEMMA DamagedVersion ==
    ASSUME NEW d \in Directory, d # NoOverlay, NEW e \in Damaged(d)
    PROVE  e \in Directory /\ e # NoOverlay /\ VersionOf(e) = VersionOf(d)
<1>1. d \in Overlays
  BY OverlayFields
<1> QED
  BY <1>1, DamagedOverlay, ConstantsAssumption DEF Directory, VersionOf

\* Away from the two steps that the mapping looks through, the abstract state is
\* read off the directories.
LEMMA MappedDirectly ==
    ASSUME phase \notin {"swapIn", "recordFloor"}
    PROVE  Installed = VersionOf(current) /\ Spare = VersionOf(previous) /\ Floor = floor
  BY DEF Installed, Spare, Floor, Swapping

LEMMA MappedDirectlyNext ==
    ASSUME phase' \notin {"swapIn", "recordFloor"}
    PROVE  /\ Installed' = VersionOf(current') /\ Spare' = VersionOf(previous')
           /\ Floor' = floor'
  BY DEF Installed, Spare, Floor, Swapping, VersionOf

LEMMA LifecycleBoot ==
    TypeInv /\ LoopInv /\ Boot => [Lifecycle!Next]_Abstract
<1> SUFFICES ASSUME TypeInv, TypeOK, LoopInv, Boot PROVE [Lifecycle!Next]_Abstract
  BY DEF TypeInv
<1>0. /\ phase \notin {"swapIn", "recordFloor"} /\ phase' \notin {"swapIn", "recordFloor"}
      /\ UNCHANGED <<previous, floor, floorLost>>
  BY DEF Boot, BootWithOverlay, BootWithoutOverlay, WipeOverlay, WipeFails,
     ForgetOverlay, LoadOverlay, LoadBundled, SignalAppRunning, disk, history
<1>a. /\ Installed = VersionOf(current) /\ Spare = VersionOf(previous) /\ Floor = floor
      /\ Installed' = VersionOf(current') /\ Spare' = Spare /\ Floor' = Floor
  BY <1>0, MappedDirectly, MappedDirectlyNext
<1>b. current \in Directory /\ faults \in Nat /\ overlayRuns \in Nat /\ MaxCrashes \in Nat
  BY ConstantsAssumption DEF TypeOK
<1> USE DEF Lifecycle!Next, Abstract
<1>1. CASE BootWithOverlay
  <2>1. faults' \in {faults, faults + 1} /\ UNCHANGED <<current, withdrawn, overlayRuns>>
    BY <1>1, <1>b, WriteCountEffect DEF BootWithOverlay, TypeOK
  <2>2. Installed' = Installed
    BY <1>a, <2>1
  <2>3. CASE faults' = faults
    BY <1>0, <1>a, <2>1, <2>2, <2>3
  <2>4. CASE faults' = faults + 1
    BY <1>0, <1>a, <2>1, <2>2, <2>4 DEF Lifecycle!Fail, Installed, Spare, Floor
  <2> QED
    BY <2>1, <2>3, <2>4
<1>2. CASE BootWithoutOverlay
  <2>1. faults' \in {faults, faults + 1} /\ overlayRuns' = 0 /\ UNCHANGED <<current, withdrawn>>
    BY <1>2, ResetCountEffect DEF BootWithoutOverlay
  <2> QED
    BY <1>0, <1>a, <2>1 DEF Lifecycle!Prove, Installed, Spare, Floor
<1>3. CASE WipeOverlay
  <2>1. /\ current # NoOverlay /\ current' = NoOverlay
        /\ withdrawn' = withdrawn \cup {current.ver} /\ UNCHANGED <<overlayRuns, faults>>
    BY <1>3 DEF WipeOverlay, TypeInv, ApplyInv
  <2>2. Installed # 0 /\ Installed' = 0 /\ withdrawn' = withdrawn \cup {Installed}
    BY <1>a, <1>b, <2>1, VersionOfOverlay DEF VersionOf
  <2> QED
    BY <1>0, <1>a, <2>1, <2>2 DEF Lifecycle!Withdraw, Installed, Spare, Floor
<1>4. CASE WipeFails
  <2>1. /\ current # NoOverlay /\ current' \in Damaged(current) /\ faults' = faults + 1
        /\ UNCHANGED <<withdrawn, overlayRuns>>
    BY <1>4 DEF WipeFails, TypeInv, ApplyInv, history
  <2>2. Installed' = Installed
    BY <1>a, <1>b, <2>1, DamagedVersion
  <2> QED
    BY <1>0, <1>a, <2>1, <2>2 DEF Lifecycle!Fail, Installed, Spare, Floor
<1>5. CASE ForgetOverlay
  <2>1. faults' \in {faults, faults + 1} /\ overlayRuns' = 0 /\ UNCHANGED <<current, withdrawn>>
    BY <1>5 DEF ForgetOverlay
  <2> QED
    BY <1>0, <1>a, <2>1 DEF Lifecycle!Prove, Installed, Spare, Floor
<1>6. CASE LoadOverlay
  <2>1. /\ current # NoOverlay /\ overlayRuns' = overlayRuns + 1
        /\ UNCHANGED <<current, withdrawn, faults>>
    BY <1>6 DEF LoadOverlay, Loadable, disk
  <2>2. overlayRuns < MaxCrashes - 1 + faults
    BY <1>6, <1>b, <2>1 DEF LoadOverlay, LoopInv
  <2>3. Installed # 0
    BY <1>a, <1>b, <2>1, VersionOfOverlay
  <2> QED
    BY <1>0, <1>a, <2>1, <2>2, <2>3 DEF Lifecycle!Load, Installed, Spare, Floor
<1>7. CASE LoadBundled
  <2>0. UNCHANGED <<withdrawn, overlayRuns>>
    BY <1>7 DEF LoadBundled
  <2>1. CASE UNCHANGED <<current, faults>>
    BY <1>0, <1>a, <2>0, <2>1
  <2>2. CASE Refused(current) /\ current' = NoOverlay /\ faults' = faults
    <3>1. Installed # 0 /\ Installed' = 0
      BY <1>a, <1>b, <2>2, VersionOfOverlay DEF Refused, VersionOf
    <3> QED
      BY <1>0, <1>a, <2>0, <2>2, <3>1 DEF Lifecycle!Discard, Installed, Spare, Floor
  <2>3. CASE Refused(current) /\ faults' = faults + 1 /\ current' \in Damaged(current)
    <3>1. Installed' = Installed
      BY <1>a, <1>b, <2>3, DamagedVersion DEF Refused
    <3> QED
      BY <1>0, <1>a, <2>0, <2>3, <3>1 DEF Lifecycle!Fail, Installed, Spare, Floor
  <2> QED
    BY <1>7, <2>1, <2>2, <2>3 DEF LoadBundled
<1>8. CASE SignalAppRunning
  BY <1>8, <1>a DEF SignalAppRunning, disk, history
<1> QED
  BY <1>1, <1>2, <1>3, <1>4, <1>5, <1>6, <1>7, <1>8 DEF Boot

LEMMA LifecycleRun ==
    TypeInv /\ SwapInv /\ (Run \/ Crash \/ ReplaceShell) => [Lifecycle!Next]_Abstract
<1> SUFFICES ASSUME TypeInv, TypeOK, SwapInv, Run \/ Crash \/ ReplaceShell
             PROVE  [Lifecycle!Next]_Abstract
  BY DEF TypeInv
<1>0. UNCHANGED <<current, previous, floor, withdrawn>>
  BY DEF Run, StableTimerFires, SignalGracefulQuit, QuitVetoed, Exit, DownloadOtaUpdate,
     Crash, ReplaceShell, disk, memory, history
<1>a. ASSUME phase \notin {"swapIn", "recordFloor"}, phase' \notin {"swapIn", "recordFloor"}
      PROVE  UNCHANGED <<Installed, Spare, Floor>>
  BY <1>0, <1>a, MappedDirectly, MappedDirectlyNext
<1>b. faults \in Nat /\ current \in Directory /\ previous \in Directory /\ floor \in Nat
  BY VersionsAreNumbers DEF TypeOK
<1> USE DEF Lifecycle!Next, Abstract
<1>1. CASE StableTimerFires \/ SignalGracefulQuit
  <2>1. /\ UNCHANGED <<Installed, Spare, Floor>> /\ UNCHANGED floorLost
        /\ overlayRuns' = 0
    BY <1>1, <1>a DEF StableTimerFires, SignalGracefulQuit
  <2>2. faults' \in {faults, faults + 1}
    BY <1>1, ResetCountEffect DEF StableTimerFires, SignalGracefulQuit
  <2> QED
    BY <1>0, <2>1, <2>2 DEF Lifecycle!Prove, Installed, Spare, Floor
<1>2. CASE QuitVetoed \/ Exit \/ DownloadOtaUpdate \/ ReplaceShell
  <2>1. /\ phase \notin {"swapIn", "recordFloor"} /\ phase' \notin {"swapIn", "recordFloor"}
        /\ UNCHANGED <<floorLost, overlayRuns, faults>>
    BY <1>2 DEF QuitVetoed, Exit, DownloadOtaUpdate, ReplaceShell, ProcessGone, disk,
       memory, history
  <2> QED
    BY <1>0, <1>a, <2>1
<1>3. CASE Crash
  <2>0. /\ phase' = "down" /\ UNCHANGED <<overlayRuns, faults>>
        /\ floorLost' = (floorLost \/ phase = "recordFloor")
    BY <1>3 DEF Crash, ProcessGone
  <2>a. /\ Installed' = VersionOf(current) /\ Spare' = VersionOf(previous)
        /\ Floor' = floor
    BY <1>0, <2>0, MappedDirectlyNext
  <2>1. CASE phase = "swapIn"
    <3>1. Installed' = 0 /\ Spare' = Installed /\ Floor' = Floor /\ floorLost' = floorLost
      <4>1. current = NoOverlay /\ before = previous /\ floorLost' = floorLost
        BY <2>0, <2>1, Zenon DEF SwapInv, TypeOK
      <4>2. Installed = VersionOf(before) /\ Floor = floor
        BY <2>1 DEF Installed, Floor, Swapping
      <4> QED
        BY <2>a, <4>1, <4>2, <1>b, VersionOfOverlay
    <3> QED
      BY <1>0, <2>0, <3>1 DEF Lifecycle!Interrupt, Installed, Spare, Floor
  <2>2. CASE phase = "recordFloor"
    <3>1. Installed' = Installed /\ Spare' = Spare /\ Floor = current.ver
      BY <2>a, <2>2 DEF Installed, Spare, Floor, Swapping
    <3>2. Floor' < Floor
      <4>1. current # NoOverlay /\ current.ver > floor
        BY <2>2 DEF TypeInv, ApplyInv, SwapInv
      <4>2. current.ver \in Nat
        BY <1>b, <4>1, OverlayFields, VersionsAreNumbers
      <4> QED
        BY <1>b, <2>a, <3>1, <4>1, <4>2
    <3>3. floorLost' = TRUE
      BY <2>0, <2>2
    <3> QED
      BY <1>0, <2>0, <3>1, <3>2, <3>3 DEF Lifecycle!ForgetFloor, Installed, Spare, Floor
  <2>3. CASE phase \notin {"swapIn", "recordFloor"}
    <3>1. floorLost' = floorLost
      BY <2>0, <2>3, Zenon DEF TypeOK
    <3> QED
      BY <1>0, <1>a, <2>0, <2>3, <3>1
  <2> QED
    BY <2>1, <2>2, <2>3
<1> QED
  BY <1>1, <1>2, <1>3 DEF Run

\* The catch block, when nothing was moved away yet.
LEMMA LifecycleRecover ==
    ASSUME TypeOK, phase \notin {"swapIn", "recordFloor"},
           NEW d \in Directory, VersionOf(d) = VersionOf(previous), RecoverFailedApply(d)
    PROVE  Lifecycle!Next
<1>0. /\ UNCHANGED <<floor, floorLost, withdrawn, overlayRuns>>
      /\ Installed = VersionOf(current) /\ Spare = VersionOf(d) /\ Floor = floor
      /\ Installed' = VersionOf(current') /\ Spare' = VersionOf(previous') /\ Floor' = floor
  <2>1. phase' \notin {"swapIn", "recordFloor"} /\ UNCHANGED <<floor, floorLost, withdrawn, overlayRuns>>
    BY DEF RecoverFailedApply
  <2> QED
    BY <2>1, MappedDirectly, MappedDirectlyNext
<1>1. CASE MovesBack(d) /\ current' = d /\ previous' = NoOverlay /\ faults' = faults + 1
  <2>1. Installed = 0 /\ Spare # 0
    BY <1>0, <1>1, VersionOfOverlay DEF MovesBack, VersionOf
  <2>2. Installed' = Spare /\ Spare' = 0
    BY <1>0, <1>1 DEF VersionOf
  <2> QED
    BY <1>0, <1>1, <2>1, <2>2 DEF Lifecycle!Next, Lifecycle!Revive, Installed, Spare, Floor
<1>2. CASE previous' = d /\ UNCHANGED current /\ faults' \in {faults + 1, faults + 2}
  BY <1>0, <1>2 DEF Lifecycle!Next, Lifecycle!Fail, Installed, Spare, Floor
<1> QED
  BY <1>1, <1>2 DEF RecoverFailedApply

LEMMA LifecycleApply ==
    TypeInv /\ SwapInv /\ Apply => [Lifecycle!Next]_Abstract
<1> SUFFICES ASSUME TypeInv, TypeOK, SwapInv, Apply PROVE [Lifecycle!Next]_Abstract
  BY DEF TypeInv
<1>b. faults \in Nat /\ current \in Directory /\ previous \in Directory /\ floor \in Nat
  BY VersionsAreNumbers DEF TypeOK
<1>1. CASE ApplyRefused \/ ApplyOtaUpdate
  <2>1. /\ phase \notin {"swapIn", "recordFloor"} /\ phase' \notin {"swapIn", "recordFloor"}
        /\ UNCHANGED <<current, previous, floor, withdrawn, floorLost, overlayRuns, faults>>
    BY <1>1 DEF ApplyRefused, ApplyOtaUpdate, disk, memory, history
  <2> QED
    BY <2>1, MappedDirectly, MappedDirectlyNext DEF Abstract
<1>2. CASE ApplyRefusedFails \/ SwapOutFails
  BY <1>2, <1>b, LifecycleRecover DEF ApplyRefusedFails, SwapOutFails
<1>3. CASE ClearPreviousFails
  <2>1. PICK d \in Damaged(previous) : RecoverFailedApply(d)
    BY <1>3 DEF ClearPreviousFails
  <2>2. d \in Directory /\ VersionOf(d) = VersionOf(previous)
    BY <1>3, <1>b, <2>1, DamagedVersion DEF ClearPreviousFails
  <2> QED
    BY <1>3, <2>1, <2>2, LifecycleRecover DEF ClearPreviousFails
<1>4. CASE ClearPrevious
  <2>1. /\ phase \notin {"swapIn", "recordFloor"} /\ phase' \notin {"swapIn", "recordFloor"}
        /\ previous' = NoOverlay
        /\ UNCHANGED <<current, floor, withdrawn, floorLost, overlayRuns, faults>>
    BY <1>4 DEF ClearPrevious, history
  <2>2. UNCHANGED <<Installed, Floor>> /\ Spare' = 0
    BY <2>1, MappedDirectly, MappedDirectlyNext DEF VersionOf
  <2>3. CASE Spare = 0
    BY <2>1, <2>2, <2>3 DEF Abstract
  <2>4. CASE Spare # 0
    BY <2>1, <2>2, <2>4 DEF Lifecycle!Next, Lifecycle!DropSpare, Installed, Spare, Floor
  <2> QED
    BY <2>3, <2>4
<1>5. CASE SwapOut
  <2>1. /\ phase = "swapOut" /\ phase' = "swapIn"
        /\ before' = before /\ before = current /\ previous = NoOverlay
        /\ UNCHANGED <<floor, withdrawn, floorLost, overlayRuns, faults>>
    BY <1>5 DEF SwapOut, history, SwapInv
  <2>2. UNCHANGED <<Installed, Spare, Floor>>
    BY <2>1 DEF Installed, Spare, Floor, Swapping, VersionOf
  <2> QED
    BY <2>1, <2>2 DEF Abstract
<1>6. CASE SwapIn
  <2>1. /\ phase = "swapIn" /\ phase' = "recordFloor"
        /\ before = previous /\ previous' = previous /\ current' = staged
        /\ staged # NoOverlay /\ staged.ver > floor
        /\ UNCHANGED <<withdrawn, floorLost, overlayRuns, faults>>
    BY <1>6 DEF SwapIn, SwapInv, TypeInv, ApplyInv
  <2>2. staged.ver \in 1 .. MaxVersion
    BY <2>1, OverlayFields DEF TypeOK, Versions
  <2>3. Floor = floor /\ Installed' = staged.ver /\ Floor' = staged.ver /\ Spare' = Installed
    BY <2>1 DEF Installed, Spare, Floor, Swapping, VersionOf
  <2>4. Floor < staged.ver
    BY <1>b, <2>1, <2>2, <2>3
  <2> QED
    BY <2>1, <2>2, <2>3, <2>4 DEF Lifecycle!Next, Lifecycle!Install, Installed, Spare, Floor
<1>7. CASE SwapInFails
  <2>1. /\ phase = "swapIn" /\ phase' = "running"
        /\ before = previous /\ current = NoOverlay
        /\ UNCHANGED <<floor, withdrawn, floorLost, overlayRuns>>
    BY <1>7 DEF SwapInFails, RecoverFailedApply, SwapInv
  <2>2. /\ Installed = VersionOf(previous) /\ Spare = 0 /\ Floor' = Floor
        /\ Installed' = VersionOf(current') /\ Spare' = VersionOf(previous')
    BY <2>1, MappedDirectlyNext DEF Installed, Spare, Floor, Swapping
  <2>3. CASE current' = previous /\ previous' = NoOverlay /\ faults' = faults + 1
    <3>1. Installed' = Installed /\ Spare' = Spare
      BY <2>2, <2>3 DEF VersionOf
    <3> QED
      BY <2>1, <2>2, <2>3, <3>1 DEF Lifecycle!Next, Lifecycle!Fail, Installed, Spare, Floor
  <2>4. CASE previous' = previous /\ current' = NoOverlay /\ faults' = faults + 2
    <3>1. Installed' = 0 /\ Spare' = Installed
      BY <2>2, <2>4 DEF VersionOf
    <3> QED
      BY <2>1, <2>2, <2>4, <3>1 DEF Lifecycle!Next, Lifecycle!Interrupt, Installed, Spare, Floor
  <2>5. CASE /\ ~MovesBack(previous) /\ previous' = previous /\ current' = NoOverlay
             /\ faults' = faults + 1
    <3>1. previous = NoOverlay
      BY <2>1, <2>5 DEF MovesBack
    <3>2. Installed' = Installed /\ Spare' = Spare
      BY <2>2, <2>5, <3>1 DEF VersionOf
    <3> QED
      BY <2>1, <2>2, <2>5, <3>2 DEF Lifecycle!Next, Lifecycle!Fail, Installed, Spare, Floor
  <2> QED
    BY <1>7, <2>1, <2>3, <2>4, <2>5 DEF SwapInFails, RecoverFailedApply
<1>8. CASE RecordFloor
  <2>1. /\ phase = "recordFloor" /\ phase' = "running" /\ current # NoOverlay
        /\ current.ver > floor
        /\ UNCHANGED <<current, previous, withdrawn, overlayRuns>>
    BY <1>8 DEF RecordFloor, SwapInv, TypeInv, ApplyInv
  <2>2. /\ UNCHANGED <<Installed, Spare>> /\ Floor = current.ver /\ Floor' = floor'
    BY <2>1 DEF Installed, Spare, Floor, Swapping, VersionOf
  <2>3. CASE floor' = RaisedFloor(current.ver) /\ UNCHANGED <<floorLost, faults>>
    BY <2>1, <2>2, <2>3 DEF RaisedFloor, Abstract
  <2>4. CASE floor' = floor /\ floorLost' = TRUE /\ faults' = faults + 1
    <3>1. Floor' < Floor
      BY <1>b, <2>1, <2>2, <2>4, OverlayFields, VersionsAreNumbers
    <3> QED
      BY <2>1, <2>2, <2>4, <3>1 DEF Lifecycle!Next, Lifecycle!ForgetFloor, Installed, Spare, Floor
  <2> QED
    BY <1>8, <2>3, <2>4 DEF RecordFloor
<1> QED
  BY <1>1, <1>2, <1>3, <1>4, <1>5, <1>6, <1>7, <1>8 DEF Apply

LEMMA LifecycleRollback ==
    TypeInv /\ Rollback => [Lifecycle!Next]_Abstract
<1> SUFFICES ASSUME TypeInv, TypeOK, Rollback PROVE [Lifecycle!Next]_Abstract
  BY DEF TypeInv
<1>0. /\ phase \notin {"swapIn", "recordFloor"} /\ phase' \notin {"swapIn", "recordFloor"}
      /\ UNCHANGED <<floor, floorLost>>
  BY DEF Rollback, ManualRollback, MoveToPrevious, ResetAfterRollback, history
<1>a. /\ Installed = VersionOf(current) /\ Spare = VersionOf(previous) /\ Floor = floor
      /\ Installed' = VersionOf(current') /\ Spare' = VersionOf(previous') /\ Floor' = Floor
  BY <1>0, MappedDirectly, MappedDirectlyNext
<1>b. current \in Directory /\ previous \in Directory /\ faults \in Nat
  BY DEF TypeOK
<1>1. CASE ManualRollback
  <2>0. UNCHANGED <<current, withdrawn, overlayRuns>>
    BY <1>1 DEF ManualRollback, history
  <2>1. Installed' = Installed
    BY <1>a, <2>0
  <2>2. CASE previous' = NoOverlay /\ faults' = faults
    <3>1. Spare' = 0
      BY <1>a, <2>2 DEF VersionOf
    <3>2. CASE Spare = 0
      BY <1>0, <1>a, <2>0, <2>1, <2>2, <3>1, <3>2 DEF Abstract
    <3>3. CASE Spare # 0
      BY <1>0, <1>a, <2>0, <2>1, <2>2, <3>1, <3>3
         DEF Lifecycle!Next, Lifecycle!DropSpare, Installed, Spare, Floor
    <3> QED
      BY <3>2, <3>3
  <2>3. CASE previous # NoOverlay /\ previous' \in Damaged(previous) /\ faults' = faults + 1
    <3>1. Spare' = Spare
      BY <1>a, <1>b, <2>3, DamagedVersion
    <3> QED
      BY <1>0, <1>a, <2>0, <2>1, <2>3, <3>1
         DEF Lifecycle!Next, Lifecycle!Fail, Installed, Spare, Floor
  <2> QED
    BY <1>1, <2>2, <2>3 DEF ManualRollback
<1>2. CASE MoveToPrevious
  <2>0. current # NoOverlay /\ overlayRuns' = overlayRuns
    BY <1>2 DEF MoveToPrevious, TypeInv, ApplyInv
  <2>1. CASE /\ previous' = current /\ current' = NoOverlay /\ faults' = faults
             /\ withdrawn' = withdrawn \cup {current.ver}
    <3>1. /\ Installed # 0 /\ Installed' = 0 /\ Spare' = Installed
          /\ withdrawn' = withdrawn \cup {Installed}
      BY <1>a, <1>b, <2>0, <2>1, VersionOfOverlay DEF VersionOf
    <3> QED
      BY <1>0, <1>a, <2>0, <2>1, <3>1
         DEF Lifecycle!Next, Lifecycle!Withdraw, Installed, Spare, Floor
  <2>2. CASE UNCHANGED <<current, previous, withdrawn>> /\ faults' = faults + 1
    BY <1>0, <1>a, <2>0, <2>2 DEF Lifecycle!Next, Lifecycle!Fail, Installed, Spare, Floor
  <2> QED
    BY <1>2, <2>1, <2>2 DEF MoveToPrevious
<1>3. CASE ResetAfterRollback
  <2>1. /\ overlayRuns' = 0 /\ UNCHANGED <<current, previous, withdrawn>>
        /\ faults' \in {faults, faults + 1}
    BY <1>3, WriteCountEffect DEF ResetAfterRollback, WriteCount
  <2> QED
    BY <1>0, <1>a, <2>1 DEF Lifecycle!Next, Lifecycle!Prove, Installed, Spare, Floor
<1> QED
  BY <1>1, <1>2, <1>3 DEF Rollback

\* The implementation theorem: boots, crashes between any two file operations,
\* failed operations, applies and rollbacks only do what OverlayLifecycle
\* allows, for every number of versions and every threshold.
THEOREM LifecycleIsImplemented == Spec => ImplementsLifecycle
<1>1. Init => Lifecycle!Init
  BY DEF Init, Lifecycle!Init, VersionOf, Swapping
<1>2. TypeInv /\ SwapInv /\ LoopInv /\ [Next]_vars => [Lifecycle!Next]_Lifecycle!vars
  <2>1. Lifecycle!vars = Abstract /\ Lifecycle!vars' = Abstract'
    BY DEF Lifecycle!vars, Abstract, Installed, Spare, Floor
  <2>2. UNCHANGED vars => UNCHANGED Abstract
    BY DEF vars, disk, memory, history, Abstract, Installed, Spare, Floor, Swapping, VersionOf
  <2>3. TypeInv /\ SwapInv /\ LoopInv /\ Next => [Lifecycle!Next]_Abstract
    BY LifecycleBoot, LifecycleRun, LifecycleApply, LifecycleRollback DEF Next
  <2> QED
    BY <2>1, <2>2, <2>3
<1> QED
  BY <1>1, <1>2, TypeInvInit, TypeInvStep, SwapInvariant, LoopInvariant, PTL
     DEF Spec, ImplementsLifecycle, Lifecycle!Spec
=============================================================================
