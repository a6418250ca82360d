-------------------------- MODULE OtaStagingProofs --------------------------
(***************************************************************************)
(* Proofs about OtaStaging, for every number of concurrent downloads, of   *)
(* versions, of failures and of restarts.                                  *)
(***************************************************************************)
EXTENDS OtaStaging, TLAPS

LEMMA ContentValues ==
    /\ Versions \subseteq 0 .. MaxVersion /\ Versions \subseteq Content
    /\ 0 .. MaxVersion \subseteq Content
    /\ 0 \in 0 .. MaxVersion /\ 0 \in Content /\ Torn \in Content
    /\ Shell \in Versions
  BY ConstantsAssumption DEF Versions, Content, Torn

LEMMA IdleIsAState == Idle \in DownloadState
  BY ContentValues DEF Idle, DownloadState

\* TypeOK in three parts: staging/, the downloads, and the rest.
StagingOK ==
    /\ stagingDir \in BOOLEAN
    /\ archive \in Content /\ extracted \in Content
    /\ manifest \in 0 .. MaxVersion /\ files \in 0 .. MaxVersion

DownloadsOK == dl \in [Downloads -> DownloadState]

RestOK ==
    /\ current \in [man : 0 .. MaxVersion, files : 0 .. MaxVersion]
    /\ floor \in 0 .. MaxVersion
    /\ otaReady \in BOOLEAN /\ readyVersion \in 0 .. MaxVersion
    /\ code \in Versions /\ feed \in Versions
    /\ failures \in 0 .. MaxFailures
    /\ userCalls \in 0 .. MaxUserCalls
    /\ restarts \in 0 .. MaxRestarts

LEMMA TypeParts ==
    /\ TypeOK => StagingOK /\ DownloadsOK /\ RestOK
    /\ (StagingOK /\ DownloadsOK /\ RestOK)' => TypeOK'
  BY DEF TypeOK, StagingOK, DownloadsOK, RestOK

LEMMA CleanStagingType ==
    ASSUME NEW again \in BOOLEAN, CleanStaging(again)
    PROVE  StagingOK'
  BY ContentValues DEF CleanStaging, StagingOK

LEMMA UnlinkedType ==
    ASSUME DownloadsOK, NEW d \in Downloads, NEW new \in DownloadState
    PROVE  Unlinked(d, new) \in [Downloads -> DownloadState]
<1>1. ASSUME NEW e \in Downloads
      PROVE  (IF e = d THEN new ELSE dl[e]) \in DownloadState
  BY DEF DownloadsOK
<1>2. ASSUME NEW s \in DownloadState
      PROVE  [s EXCEPT !.linked = FALSE] \in DownloadState
  BY DEF DownloadState
<1> QED
  BY <1>1, <1>2 DEF Unlinked

LEMMA AllUnlinkedType ==
    DownloadsOK =>
      [d \in Downloads |-> [dl[d] EXCEPT !.linked = FALSE]] \in [Downloads -> DownloadState]
  BY DEF DownloadsOK, DownloadState

LEMMA FailuresType ==
    ASSUME RestOK, KeepsRest, failures' = failures
    PROVE  RestOK'
  BY DEF RestOK, KeepsRest

LEMMA RestartType ==
    ASSUME RestOK, ProcessRestarts,
           UNCHANGED <<current, floor, feed, failures, userCalls>>
    PROVE  DownloadsOK' /\ RestOK'
<1>1. DownloadsOK'
  BY IdleIsAState DEF ProcessRestarts, DownloadsOK
<1>2. BootCode \in Versions
  BY ContentValues, ConstantsAssumption DEF BootCode, RestOK, Versions
<1>3. restarts' \in 0 .. MaxRestarts
  BY ConstantsAssumption DEF ProcessRestarts, RestOK
<1> QED
  BY <1>1, <1>2, <1>3, ContentValues DEF ProcessRestarts, RestOK, Unready

LEMMA DownloadType ==
    ASSUME TypeOK, NEW d \in Downloads, Download(d)
    PROVE  TypeOK'
<1> USE ContentValues, IdleIsAState
<1> StagingOK /\ DownloadsOK /\ RestOK
  BY TypeParts
<1> SUFFICES StagingOK' /\ DownloadsOK' /\ RestOK'
  BY TypeParts
<1>1. CASE PeriodicCheck(d)
  BY <1>1, FailuresType DEF PeriodicCheck, StagingOK, DownloadsOK, DownloadState, staging
<1>2. CASE AskForDownload(d)
  BY <1>2, ConstantsAssumption
  DEF AskForDownload, StagingOK, DownloadsOK, DownloadState, RestOK, staging
<1>3. CASE CheckAnswered(d)
  BY <1>3, FailuresType DEF CheckAnswered, StagingOK, DownloadsOK, DownloadState, staging
<1>4. CASE FeedAnswered(d)
  <2>1. RestOK'
    BY <1>4, FailuresType DEF FeedAnswered
  <2>2. CASE code >= feed
    BY <1>4, <2>1, <2>2 DEF FeedAnswered, StagingOK, DownloadsOK, staging
  <2>3. CASE ~(code >= feed)
    <3>1. [Idle EXCEPT !.pc = "request", !.ver = feed] \in DownloadState
      BY DEF Idle, DownloadState, RestOK
    <3> QED
      BY <1>4, <2>1, <2>3, <3>1, CleanStagingType, UnlinkedType DEF FeedAnswered, DownloadsOK
  <2> QED
    BY <2>2, <2>3
<1>5. CASE ResponseBegins(d)
  <2>1. RestOK'
    BY <1>5, FailuresType DEF ResponseBegins
  <2>2. StagingOK'
    BY <1>5 DEF ResponseBegins, StagingOK
  <2>3. DownloadsOK'
    BY <1>5 DEF ResponseBegins, DownloadsOK, DownloadState
  <2> QED
    BY <2>1, <2>2, <2>3
<1>6. CASE StreamEnds(d)
  <2>1. RestOK'
    BY <1>6, FailuresType DEF StreamEnds
  <2>2. DownloadsOK'
    BY <1>6 DEF StreamEnds, DownloadsOK, DownloadState
  <2>3. dl[d].ver \in Content
    BY DEF DownloadsOK, DownloadState
  <2>4. StagingOK'
    BY <1>6, <2>3 DEF StreamEnds, StagingOK
  <2> QED
    BY <2>1, <2>2, <2>4
<1>7. CASE HashRead(d)
  <2>1. RestOK' /\ StagingOK'
    BY <1>7, FailuresType DEF HashRead, StagingOK, staging
  <2>2. [dl[d] EXCEPT !.pc = "hashed", !.hashOk = (archive = dl[d].ver)] \in DownloadState
    BY DEF DownloadsOK, DownloadState
  <2>3. DownloadsOK'
    BY <1>7, <2>2 DEF HashRead, DownloadsOK
  <2> QED
    BY <2>1, <2>3
<1>8. CASE ExtractArchive(d)
  <2>1. RestOK'
    BY <1>8, FailuresType DEF ExtractArchive
  <2>2. CASE ~dl[d].hashOk
    BY <1>8, <2>1, <2>2, CleanStagingType, UnlinkedType DEF ExtractArchive, DownloadsOK
  <2>3. CASE dl[d].hashOk /\ archive \in Versions
    BY <1>8, <2>1, <2>3 DEF ExtractArchive, StagingOK, DownloadsOK, DownloadState
  <2>4. CASE dl[d].hashOk /\ archive \notin Versions
    BY <1>8, <2>1, <2>4 DEF ExtractArchive, StagingOK, DownloadsOK, staging
  <2> QED
    BY <2>2, <2>3, <2>4
<1>9. CASE RejectExtracted(d)
  BY <1>9, CleanStagingType, UnlinkedType, FailuresType DEF RejectExtracted, DownloadsOK
<1>10. CASE StageExtracted(d)
  <2>1. dl[d].ver \in 0 .. MaxVersion
    BY DEF DownloadsOK, DownloadState
  <2>2. StagingOK'
    BY <1>10, <2>1 DEF StageExtracted, MatchesSignature, StagingOK
  <2>3. DownloadsOK'
    BY <1>10, UnlinkedType DEF StageExtracted, DownloadsOK
  <2>4. RestOK'
    BY <1>10, <2>1 DEF StageExtracted, RestOK, bounds
  <2> QED
    BY <2>2, <2>3, <2>4
<1>11. CASE StageCollides(d)
  <2>1. dl[d].ver \in 0 .. MaxVersion
    BY DEF DownloadsOK, DownloadState
  <2>2. StagingOK'
    BY <1>11, <2>1 DEF StageCollides, MatchesSignature, StagingOK
  <2> QED
    BY <1>11, <2>2, UnlinkedType, FailuresType DEF StageCollides, DownloadsOK
<1>12. CASE RequestFails(d)
  <2>1. StagingOK' /\ DownloadsOK'
    BY <1>12 DEF RequestFails, StagingOK, DownloadsOK, staging
  <2>2. RestOK'
    BY <1>12, ConstantsAssumption DEF RequestFails, RestOK, KeepsRest
  <2> QED
    BY <2>1, <2>2
<1>13. CASE CrashWhileStaging(d)
  <2>1. dl[d].ver \in 0 .. MaxVersion
    BY DEF DownloadsOK, DownloadState
  <2>2. StagingOK'
    BY <1>13, <2>1 DEF CrashWhileStaging, MatchesSignature, StagingOK
  <2> QED
    BY <1>13, <2>2, RestartType DEF CrashWhileStaging
<1> QED
  BY <1>1, <1>2, <1>3, <1>4, <1>5, <1>6, <1>7, <1>8, <1>9, <1>10, <1>11, <1>12, <1>13
  DEF Download, Progress

LEMMA ApplyType ==
    ASSUME TypeOK, ApplyRefused \/ ApplyOtaUpdate
    PROVE  TypeOK'
<1> StagingOK /\ DownloadsOK /\ RestOK
  BY TypeParts
<1>1. StagingOK'
  BY CleanStagingType DEF ApplyRefused, ApplyOtaUpdate
<1>2. DownloadsOK'
  BY AllUnlinkedType DEF ApplyRefused, ApplyOtaUpdate, DownloadsOK
<1>3. RestOK'
  <2>1. CASE ApplyRefused
    BY <2>1, ContentValues DEF ApplyRefused, Unready, RestOK, bounds
  <2>2. CASE ApplyOtaUpdate
    <3>1. current' \in [man : 0 .. MaxVersion, files : 0 .. MaxVersion]
      BY <2>2 DEF ApplyOtaUpdate, StagingOK
    <3> QED
      BY <2>2, <3>1, ContentValues DEF ApplyOtaUpdate, Unready, RestOK, StagingOK, bounds
  <2> QED
    BY <2>1, <2>2
<1> QED
  BY <1>1, <1>2, <1>3, TypeParts

LEMMA TypeStep == TypeOK /\ [Next]_vars => TypeOK'
<1> SUFFICES ASSUME TypeOK, [Next]_vars
             PROVE  TypeOK'
  OBVIOUS
<1>1. CASE Restart
  <2> StagingOK /\ DownloadsOK /\ RestOK
    BY TypeParts
  <2>1. StagingOK'
    BY <1>1 DEF Restart, StagingOK, staging
  <2> QED
    BY <1>1, <2>1, RestartType, TypeParts DEF Restart
<1>2. CASE Publish
  BY <1>2 DEF Publish, TypeOK, staging, bounds
<1>3. CASE UNCHANGED vars
  BY <1>3 DEF vars, TypeOK, staging, bounds
<1>4. ASSUME NEW d \in Downloads, Download(d)
      PROVE  TypeOK'
  BY <1>4, DownloadType
<1>5. CASE ApplyRefused \/ ApplyOtaUpdate
  BY <1>5, ApplyType
<1> QED
  BY <1>1, <1>2, <1>3, <1>4, <1>5 DEF Next

LEMMA TypeInit == Init => TypeOK
<1> SUFFICES ASSUME Init
             PROVE  TypeOK
  OBVIOUS
<1>1. current \in [man : 0 .. MaxVersion, files : 0 .. MaxVersion]
  BY ContentValues DEF Init
<1>2. dl \in [Downloads -> DownloadState]
  BY IdleIsAState DEF Init
<1>3. 0 \in 0 .. MaxFailures /\ 0 \in 0 .. MaxUserCalls /\ 0 \in 0 .. MaxRestarts
  BY ConstantsAssumption
<1> QED
  BY <1>1, <1>2, <1>3, ContentValues DEF Init, TypeOK

\* Every variable keeps its type.
THEOREM StagingTypeCorrect == Spec => []TypeOK
  BY TypeInit, TypeStep, PTL DEF Spec

-----------------------------------------------------------------------------
(* What is installed: its files are those of its manifest, and the floor   *)
(* is its version. Only an apply changes any of them.                      *)

InstalledInv == InstalledIsWhole /\ floor = current.man

LEMMA InstalledFrame ==
    [Next]_vars => ApplyOtaUpdate \/ UNCHANGED <<current, floor>>
<1> SUFFICES ASSUME [Next]_vars, ~ApplyOtaUpdate
             PROVE  UNCHANGED <<current, floor>>
  OBVIOUS
<1>1. ASSUME NEW d \in Downloads, Download(d)
      PROVE  UNCHANGED <<current, floor>>
  BY <1>1
  DEF Download, Progress, PeriodicCheck, AskForDownload, CheckAnswered, FeedAnswered,
      ResponseBegins, StreamEnds, HashRead, ExtractArchive, RejectExtracted,
      StageExtracted, StageCollides, RequestFails, CrashWhileStaging, KeepsRest
<1>2. CASE ApplyRefused \/ Restart \/ Publish \/ UNCHANGED vars
  BY <1>2 DEF ApplyRefused, Restart, Publish, vars
<1> QED
  BY <1>1, <1>2 DEF Next

LEMMA InstalledStep == InstalledInv /\ [Next]_vars => InstalledInv'
<1>1. ApplyOtaUpdate => InstalledInv'
  BY DEF ApplyOtaUpdate, Applicable, InstalledInv, InstalledIsWhole
<1>2. InstalledInv /\ UNCHANGED <<current, floor>> => InstalledInv'
  BY DEF InstalledInv, InstalledIsWhole
<1> QED
  BY <1>1, <1>2, InstalledFrame

LEMMA InstalledInvariant == Spec => []InstalledInv
<1>1. Init => InstalledInv
  BY DEF Init, InstalledInv, InstalledIsWhole
<1> QED
  BY <1>1, InstalledStep, PTL DEF Spec

\* Manifest and files of the installed overlay are of one version, however many
\* downloads meet in staging/.
THEOREM InstalledOverlayIsWhole == Spec => []InstalledIsWhole
<1>1. InstalledInv => InstalledIsWhole
  BY DEF InstalledInv
<1> QED
  BY <1>1, InstalledInvariant, PTL

\* What is installed is newer than the running code and than anything installed
\* before, in whatever order downloads end.
THEOREM OnlyNewerIsInstalled == Spec => InstallsOnlyNewer
<1>1. InstalledInv /\ [Next]_vars =>
        [ current' # current => /\ current'.man > code
                                /\ current'.man > current.man
                                /\ current'.man > floor ]_vars
  <2>1. InstalledInv /\ ApplyOtaUpdate =>
          /\ current'.man > code /\ current'.man > current.man /\ current'.man > floor
    BY DEF InstalledInv, ApplyOtaUpdate, Applicable
  <2> QED
    BY <2>1, InstalledFrame
<1> QED
  BY <1>1, InstalledInvariant, PTL DEF Spec, InstallsOnlyNewer

\* A download that announces a version has just staged it, manifest and files.
THEOREM AnnouncedIsStaged == Spec => AnnouncesWhatIsStaged
<1>1. [Next]_vars =>
        [ readyVersion' \notin {0, readyVersion}
            => manifest' = readyVersion' /\ files' = readyVersion' ]_vars
  <2> SUFFICES ASSUME Next, readyVersion' \notin {0, readyVersion}
               PROVE  manifest' = readyVersion' /\ files' = readyVersion'
    BY Zenon
  <2>1. \E d \in Downloads : StageExtracted(d)
    BY DEF Next, Download, Progress, PeriodicCheck, AskForDownload, CheckAnswered,
           FeedAnswered, ResponseBegins, StreamEnds, HashRead, ExtractArchive,
           RejectExtracted, StageCollides, RequestFails, CrashWhileStaging, KeepsRest,
           ApplyRefused, ApplyOtaUpdate, Unready, ProcessRestarts, Restart, Publish
  <2> QED
    BY <2>1 DEF StageExtracted, MatchesSignature
<1> QED
  BY <1>1, PTL DEF Spec, AnnouncesWhatIsStaged
=============================================================================
