----------------------------- MODULE OtaStaging -----------------------------
(***************************************************************************)
(* Downloads into the one staging directory (electron/ota/ota-updater.ts). *)
(* The initial check, the periodic check and the ota:download handler all  *)
(* run downloadOtaUpdate; nothing keeps two of them apart, and they meet   *)
(* the synchronous applyOtaUpdate in staging/.  Each await of a download   *)
(* ends a step.  The swap itself is one step here: OtaOverlay splits it.   *)
(***************************************************************************)
EXTENDS Integers, FiniteSets

CONSTANTS
    Downloads,    \* calls of downloadOtaUpdate that may be in flight together
    MaxVersion,   \* versions are 1 .. MaxVersion; 0 stands for "none"
    Shell,        \* the version of the installed application bundle
    MaxFailures,  \* bound: requests that fail
    MaxUserCalls, \* bound: downloads the user asks for, and the initial check
    MaxRestarts   \* bound: restarts of the process

Versions == 1 .. MaxVersion

\* The content of a file set that is not wholly one version.
Torn == MaxVersion + 1
Content == 0 .. Torn

ASSUME ConstantsAssumption ==
    /\ MaxVersion \in Nat \ {0}
    /\ Shell \in Versions
    /\ MaxFailures \in Nat /\ MaxUserCalls \in Nat /\ MaxRestarts \in Nat

VARIABLES
    stagingDir,  \* staging/ exists
    archive,     \* staging/ota-archive.tar.gz
    extracted,   \* staging/extracted
    manifest,    \* staging/manifest.json
    files,       \* staging/out, what the manifest lists
    current,     \* current/: its manifest and its files
    floor,       \* applied-version-floor
    dl,          \* the downloads: where each waits, for which version, and
                 \* whether its write stream is linked to the archive file
    otaReady, readyVersion,
    code,        \* codePaths.codeVersion
    feed,        \* the version the release feed offers
    failures, userCalls, restarts

staging == <<stagingDir, archive, extracted, manifest, files>>
bounds == <<failures, userCalls, restarts>>
vars == <<staging, current, floor, dl, otaReady, readyVersion, code, feed, bounds>>

Idle == [pc |-> "idle", ver |-> 0, linked |-> FALSE, hashOk |-> FALSE]
DownloadState ==
    [pc : {"idle", "check", "feed", "request", "stream", "hash", "hashed", "verify"},
     ver : 0 .. MaxVersion, linked : BOOLEAN, hashOk : BOOLEAN]

TypeOK ==
    /\ stagingDir \in BOOLEAN
    /\ archive \in Content /\ extracted \in Content
    /\ manifest \in 0 .. MaxVersion /\ files \in 0 .. MaxVersion
    /\ current \in [man : 0 .. MaxVersion, files : 0 .. MaxVersion]
    /\ floor \in 0 .. MaxVersion
    /\ dl \in [Downloads -> DownloadState]
    /\ otaReady \in BOOLEAN /\ readyVersion \in 0 .. MaxVersion
    /\ code \in Versions /\ feed \in Versions
    /\ failures \in 0 .. MaxFailures
    /\ userCalls \in 0 .. MaxUserCalls
    /\ restarts \in 0 .. MaxRestarts

Init ==
    /\ stagingDir = FALSE
    /\ archive = 0 /\ extracted = 0 /\ manifest = 0 /\ files = 0
    /\ current = [man |-> 0, files |-> 0] /\ floor = 0
    /\ dl = [d \in Downloads |-> Idle]
    /\ otaReady = FALSE /\ readyVersion = 0
    /\ code = Shell /\ feed = Shell
    /\ failures = 0 /\ userCalls = 0 /\ restarts = 0

-----------------------------------------------------------------------------
\* rmSync(staging/), then mkdirSync when again is TRUE.
CleanStaging(again) ==
    /\ stagingDir' = again
    /\ archive' = 0 /\ extracted' = 0 /\ manifest' = 0 /\ files' = 0

\* d moves to new; the streams of all downloads lose their file.
Unlinked(d, new) ==
    [e \in Downloads |-> [(IF e = d THEN new ELSE dl[e]) EXCEPT !.linked = FALSE]]

\* The ready overlay is forgotten.
Unready == otaReady' = FALSE /\ readyVersion' = 0

KeepsRest == UNCHANGED <<current, floor, otaReady, readyVersion, code, feed,
                         userCalls, restarts>>

-----------------------------------------------------------------------------
(* One download, from await to await.                                      *)

\* What lets the interval check; mutated, it gives up after a failed request.
ChecksUntilFailure == ~otaReady /\ failures = 0
ChecksPeriodically == ~otaReady

\* setInterval of startOtaChecks: only when nothing is ready.
PeriodicCheck(d) ==
    /\ dl[d].pc = "idle"
    /\ ChecksPeriodically
    /\ dl' = [dl EXCEPT ![d].pc = "check"]
    /\ UNCHANGED <<staging, failures>> /\ KeepsRest

\* ota:download, or the initial check of startOtaChecks: whatever is ready.
AskForDownload(d) ==
    /\ dl[d].pc = "idle"
    /\ userCalls < MaxUserCalls
    /\ userCalls' = userCalls + 1
    /\ dl' = [dl EXCEPT ![d].pc = "feed"]
    /\ UNCHANGED <<staging, current, floor, otaReady, readyVersion, code, feed,
                   failures, restarts>>

\* checkForOtaUpdate has the feed.
CheckAnswered(d) ==
    /\ dl[d].pc = "check"
    /\ dl' = [dl EXCEPT ![d].pc = IF code >= feed THEN "idle" ELSE "feed"]
    /\ UNCHANGED <<staging, failures>> /\ KeepsRest

\* downloadOtaUpdate has the feed: nothing newer, or staging/ is emptied.
FeedAnswered(d) ==
    /\ dl[d].pc = "feed"
    /\ IF code >= feed
         THEN /\ dl' = [dl EXCEPT ![d] = Idle]
              /\ UNCHANGED staging
         ELSE /\ CleanStaging(TRUE)
              /\ dl' = Unlinked(d, [Idle EXCEPT !.pc = "request", !.ver = feed])
    /\ UNCHANGED failures /\ KeepsRest

\* downloadFile opens (and truncates) the archive when the response begins.
ResponseBegins(d) ==
    /\ dl[d].pc = "request"
    /\ IF stagingDir
         THEN /\ archive' = Torn
              /\ dl' = [dl EXCEPT ![d].pc = "stream", ![d].linked = TRUE]
         ELSE /\ dl' = [dl EXCEPT ![d] = Idle]
              /\ UNCHANGED archive
    /\ UNCHANGED <<stagingDir, extracted, manifest, files, failures>> /\ KeepsRest

\* The last byte is written. When another stream writes the same file, the two
\* may have overwritten each other.
StreamEnds(d) ==
    /\ dl[d].pc = "stream"
    /\ dl' = [dl EXCEPT ![d].pc = "hash"]
    /\ IF dl[d].linked
         THEN \/ archive' = dl[d].ver
              \/ (\E e \in Downloads \ {d} : dl[e].linked) /\ archive' = Torn
         ELSE UNCHANGED archive
    /\ UNCHANGED <<stagingDir, extracted, manifest, files, failures>> /\ KeepsRest

\* hashFile has read the file; no file is an error that leaves staging/ alone.
HashRead(d) ==
    /\ dl[d].pc = "hash"
    /\ dl' = [dl EXCEPT ![d] =
                IF archive = 0 THEN Idle
                ELSE [@ EXCEPT !.pc = "hashed", !.hashOk = (archive = dl[d].ver)]]
    /\ UNCHANGED <<staging, failures>> /\ KeepsRest

\* The code after `await hashFile`: reject and wipe, or safeExtractArchive on
\* whatever the archive is by now.
ExtractArchive(d) ==
    /\ dl[d].pc = "hashed"
    /\ IF ~dl[d].hashOk
         THEN CleanStaging(FALSE) /\ dl' = Unlinked(d, Idle)
         ELSE IF archive \in Versions
         THEN /\ extracted' = archive
              /\ dl' = [dl EXCEPT ![d].pc = "verify"]
              /\ UNCHANGED <<stagingDir, archive, manifest, files>>
         ELSE /\ dl' = [dl EXCEPT ![d] = Idle]
              /\ UNCHANGED staging
    /\ UNCHANGED failures /\ KeepsRest

\* The files of extracted/ are those the signed filesHash of the feed covers.
MatchesSignature(d) == extracted = dl[d].ver

\* verifyExtracted, or the check of filesHash, fails: staging/ is wiped.
RejectExtracted(d) ==
    /\ dl[d].pc = "verify"
    /\ ~MatchesSignature(d)
    /\ CleanStaging(FALSE) /\ dl' = Unlinked(d, Idle)
    /\ UNCHANGED failures /\ KeepsRest

\* Everything checked: the archive goes, extracted/* moves up, the overlay is
\* ready.
StageExtracted(d) ==
    /\ dl[d].pc = "verify"
    /\ MatchesSignature(d)
    /\ files = 0
    /\ archive' = 0 /\ extracted' = 0
    /\ manifest' = extracted /\ files' = extracted
    /\ dl' = Unlinked(d, Idle)
    /\ otaReady' = TRUE /\ readyVersion' = dl[d].ver
    /\ UNCHANGED <<stagingDir, current, floor, code, feed, bounds>>

\* As StageExtracted, but staging/out is there already: renaming a directory over
\* one that is not empty throws, before or after the manifest was replaced.
StageCollides(d) ==
    /\ dl[d].pc = "verify"
    /\ MatchesSignature(d)
    /\ files # 0
    /\ archive' = 0
    /\ \/ manifest' = extracted /\ extracted' = Torn
       \/ UNCHANGED <<manifest, extracted>>
    /\ dl' = Unlinked(d, Idle)
    /\ UNCHANGED <<stagingDir, files, failures>> /\ KeepsRest

\* A request fails: the feed, the response, or the stream.
RequestFails(d) ==
    /\ dl[d].pc \in {"check", "feed", "request", "stream"}
    /\ failures < MaxFailures
    /\ failures' = failures + 1
    /\ dl' = [dl EXCEPT ![d] = Idle]
    /\ UNCHANGED staging /\ KeepsRest

-----------------------------------------------------------------------------
(* Apply, restart, release.                                                *)

\* The manifest, the signature it carries and the files agree, and the version
\* is above the running one and above the floor; mutated, the files are not hashed
\* again, or the floor is not read.
ApplicableUnverified == manifest > code /\ manifest > floor
ApplicableBelowFloor == files = manifest /\ manifest > code
Applicable == files = manifest /\ manifest > code /\ manifest > floor

ApplyRefused ==
    /\ manifest # 0
    /\ ~Applicable
    /\ CleanStaging(FALSE)
    /\ dl' = [d \in Downloads |-> [dl[d] EXCEPT !.linked = FALSE]]
    /\ Unready
    /\ UNCHANGED <<current, floor, code, feed, bounds>>

ApplyOtaUpdate ==
    /\ manifest # 0
    /\ Applicable
    /\ current' = [man |-> manifest, files |-> files]
    /\ floor' = manifest
    /\ CleanStaging(FALSE)
    /\ dl' = [d \in Downloads |-> [dl[d] EXCEPT !.linked = FALSE]]
    /\ Unready
    /\ UNCHANGED <<code, feed, bounds>>

\* The code the next boot runs; mutated, there is no bundled code to fall back to.
OverlayCode == current.man
BootCode == IF current.man # 0 /\ current.files = current.man THEN current.man ELSE Shell

\* The process ends and boots again; in-flight downloads are gone, staging/ stays.
ProcessRestarts ==
    /\ restarts < MaxRestarts
    /\ restarts' = restarts + 1
    /\ dl' = [d \in Downloads |-> Idle]
    /\ Unready
    /\ code' = BootCode

Restart ==
    /\ ProcessRestarts
    /\ UNCHANGED <<staging, current, floor, feed, failures, userCalls>>

\* The process dies between the renames of StageExtracted.
CrashWhileStaging(d) ==
    /\ dl[d].pc = "verify" /\ MatchesSignature(d) /\ files = 0
    /\ ProcessRestarts
    /\ archive' = 0 /\ extracted' = Torn
    /\ \/ manifest' = extracted /\ UNCHANGED files
       \/ files' = extracted /\ UNCHANGED manifest
    /\ UNCHANGED <<stagingDir, current, floor, feed, failures, userCalls>>

Publish ==
    /\ \E v \in Versions : v > feed /\ feed' = v
    /\ UNCHANGED <<staging, current, floor, dl, otaReady, readyVersion, code, bounds>>

-----------------------------------------------------------------------------
Progress(d) ==
    \/ CheckAnswered(d) \/ FeedAnswered(d) \/ ResponseBegins(d) \/ StreamEnds(d)
    \/ HashRead(d) \/ ExtractArchive(d) \/ RejectExtracted(d)
    \/ StageExtracted(d) \/ StageCollides(d)

Download(d) ==
    \/ PeriodicCheck(d) \/ AskForDownload(d) \/ Progress(d)
    \/ RequestFails(d) \/ CrashWhileStaging(d)

Next ==
    \/ \E d \in Downloads : Download(d)
    \/ ApplyRefused \/ ApplyOtaUpdate
    \/ Restart \/ Publish

Spec == Init /\ [][Next]_vars

\* setInterval keeps firing, and a request that does not fail is answered.
FairSpec ==
    Spec /\ \A d \in Downloads : WF_vars(PeriodicCheck(d)) /\ WF_vars(Progress(d))

-----------------------------------------------------------------------------
\* What is installed is one version, manifest and files alike, however downloads
\* of different versions met in staging/ (verifyStagedOverlaySync before the
\* renames of applyOtaUpdate).
InstalledIsWhole == current.man = current.files

\* A download announces only what it checked: when it declares a version ready,
\* that version is what staging/ holds, although the archive it hashed may have
\* been another download's by the time it was extracted (the filesHash check of
\* downloadOtaUpdate).
AnnouncesWhatIsStaged ==
    [][ readyVersion' \notin {0, readyVersion}
        => manifest' = readyVersion' /\ files' = readyVersion' ]_vars

\* What gets installed is newer than the code that runs and than everything
\* installed before, also when an older download ends after a newer one.
InstallsOnlyNewer ==
    [][ current' # current => /\ current'.man > code
                              /\ current'.man > current.man
                              /\ current'.man > floor ]_vars

\* Once downloads no longer overlap, an offered version is announced as staged, or
\* runs, again and again: a failed request or a refused overlay does not stop the
\* periodic check. (Two that overlap again and again may undo one another, and
\* leave an announcement that is not true: ReadyMeansStaged.)
OneDownload ==
    \A d, e \in Downloads : dl[d].pc # "idle" /\ dl[e].pc # "idle" => d = e
OfferIsStaged == <>[]OneDownload => []<>(otaReady \/ code >= feed)

\* ota-updater.ts:792 "Whether an OTA update has been downloaded and is ready to
\* apply."
ReadyMeansStaged == otaReady => manifest = readyVersion /\ files = readyVersion
=============================================================================
