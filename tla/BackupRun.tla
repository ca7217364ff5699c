----------------------------- MODULE BackupRun -----------------------------
(***************************************************************************)
(* BackupManager::runBackup and the two capture backends writing into one  *)
(* backup directory, run after run: the per-package APK and data steps,    *)
(* the legacy `adb backup` fallback, the captures that follow them, the    *)
(* manifest, the cancel flag every adb call consults, and a process that   *)
(* may be killed between any two steps and leave the directory behind.     *)
(*                                                                         *)
(* An adb command is one step, except those whose output file is truncated *)
(* when they start: a kill in the middle of one leaves a partial file.  A  *)
(* checksum is the content it was taken of.                                *)
(***************************************************************************)
EXTENDS Naturals, Sequences

CONSTANTS
  Order,        \* the selected packages, as listPackages returns them
  DeStem,       \* the stem each package's device-protected archive is named by
  Holds,        \* the <<package, tree>> pairs that exist on the device
  Debuggable,   \* the packages run-as can read
  AbFile,       \* the name of the legacy `adb backup` archive
  Extras,       \* shared storage, personal data, device paths: in that order
  Options,      \* the option records a run may be given
  MaxRuns       \* bound: runs into the directory

Packages == {Order[k] : k \in 1..Len(Order)}
Trees == {"ce", "de"}

ASSUME BackupAssumption ==
  /\ Order \in Seq(STRING) /\ Extras \in Seq(STRING) /\ Options # {} /\ AbFile \in STRING
  /\ \A j, k \in 1..Len(Order) : Order[j] = Order[k] => j = k   \* pm lists each once
  /\ DeStem \in [Packages -> STRING]
  /\ Holds \subseteq Packages \X Trees
  /\ Debuggable \subseteq Packages
  /\ AbFile \notin Packages \cup {DeStem[p] : p \in Packages}
  /\ Options \subseteq [mode : {"root", "standard"}, apks : BOOLEAN,
                        data : BOOLEAN, named : BOOLEAN]
  /\ MaxRuns \in Nat

\* `data/<stem>.tar.gz`: a device-protected archive's stem is `<package>.de`,
\* which may be another package's name.
Stem(p, t) == IF t = "ce" THEN p ELSE DeStem[p]
OwnName(p, t) ==
  \A q \in Packages, u \in Trees : Stem(q, u) = Stem(p, t) => q = p /\ u = t
Files == {Stem(p, t) : p \in Packages, t \in Trees} \cup {AbFile}

Runs == 1..MaxRuns
Content(f, t, run) == <<f, t, run>>
Contents == (Packages \X Trees \X Runs) \cup ({AbFile} \X {"ab"} \X Runs)
Absent == <<"absent">>
Partial == <<"partial">>
Rotten == <<"rotten">>          \* damaged from outside, between two runs
Unlisted == <<"unlisted">>      \* the manifest names no such archive
Unsummed == <<"unsummed">>      \* it does, but checksumOrEmpty had to give up

VARIABLES
  pc,           \* where the run is, "idle" between runs
  opts,         \* the run's options, with the backend it chose
  flag,         \* Process::cancelRequested()
  packages,     \* what listPackages returned
  i,            \* the loop index of the current stage
  tree,         \* the tree being captured
  failed,       \* ceFailed: the package's first tree could not be captured
  runAs,        \* what packagesSupportingRunAs returned
  remaining,    \* the packages left for the legacy archive
  entries,      \* manifest.packages
  ab,           \* manifest.legacyAdbBackupFile is set
  extras,       \* what the stages after app data recorded
  disk,         \* the archives in the backup directory
  manifest,     \* manifest.json
  outcome,      \* how the last run ended
  runs,         \* runs begun
  skipped,      \* history: packages a cancel kept a requested step from
  troubled      \* history: packages one of whose captures failed

runVars == <<opts, packages, runAs>>
localVars == <<flag, packages, i, tree, failed, runAs, remaining, entries, ab, extras>>
historyVars == <<skipped, troubled>>
dirVars == <<disk, manifest>>
vars == <<pc, opts, flag, packages, i, tree, failed, runAs, remaining, entries, ab,
          extras, disk, manifest, outcome, runs, skipped, troubled>>

Torn == [run |-> 0, torn |-> TRUE]
NoManifest == [run |-> 0, torn |-> FALSE]

NewEntry == [apk |-> FALSE, sum |-> [t \in Trees |-> Unlisted],
             method |-> "none", error |-> ""]
EmptyEntries == [p \in {} |-> NewEntry]

Init ==
  /\ pc = "idle" /\ opts = CHOOSE o \in Options : TRUE
  /\ flag = FALSE /\ packages = <<>> /\ i = 1 /\ tree = "ce" /\ failed = FALSE
  /\ runAs = {} /\ remaining = {} /\ entries = EmptyEntries /\ ab = FALSE /\ extras = {}
  /\ disk = [f \in Files |-> Absent] /\ manifest = NoManifest
  /\ outcome = "none" /\ runs = 0 /\ skipped = {} /\ troubled = {}

-----------------------------------------------------------------------------
Pkg == packages[i]
More == i <= Len(packages)
Rest == {packages[k] : k \in i..Len(packages)}

\* What the run kept in memory is gone; the history is kept for its manifest.
Stop(how) ==
  /\ pc' = "idle"
  /\ outcome' = how
  /\ flag' = FALSE /\ packages' = <<>> /\ i' = 1 /\ tree' = "ce" /\ failed' = FALSE
  /\ runAs' = {} /\ remaining' = {} /\ entries' = EmptyEntries /\ ab' = FALSE /\ extras' = {}
  /\ skipped' = IF manifest'.run = runs THEN skipped ELSE {}
  /\ troubled' = IF manifest'.run = runs THEN troubled ELSE {}
  /\ UNCHANGED <<opts, disk, runs>>

\* A new process, or a new job of the GUI: the flag is clear.
Begin ==
  /\ pc = "idle" /\ runs < MaxRuns
  /\ runs' = runs + 1
  /\ opts' \in Options
  /\ pc' = "query" /\ outcome' = "none"
  /\ skipped' = {} /\ troubled' = {}
  /\ UNCHANGED <<localVars, dirVars>>

\* connectionProblem, pinned, queryDeviceInfo, the root check, ensureDirectory:
\* each may end the run, and with the flag set the first adb call does.
Query ==
  /\ pc = "query"
  /\ UNCHANGED manifest
  /\ \/ Stop("failed")
     \/ ~flag /\ pc' = "list" /\ UNCHANGED <<opts, localVars, disk, outcome, runs, historyVars>>

\* listPackages reports a failed or refused `pm list` as no packages at all.
List ==
  /\ pc = "list"
  /\ UNCHANGED manifest
  /\ \E found \in {Order, <<>>} :
       /\ flag => found = <<>>
       /\ IF found = <<>> /\ (opts.named \/ Extras = <<>>)
            THEN Stop("failed")
            ELSE /\ pc' = "apks"
                 /\ packages' = found
                 /\ entries' = [p \in {found[k] : k \in 1..Len(found)} |-> NewEntry]
                 /\ UNCHANGED <<opts, flag, i, tree, failed, runAs, remaining, ab, extras,
                                disk, outcome, runs, historyVars>>

-----------------------------------------------------------------------------
(* extractApks.                                                            *)

ApkOutcomes == {"all", "some", "none", "stopped"}

ApkError(how) == CASE how = "all" -> ""
                   [] how = "stopped" -> "cancelled"
                   [] OTHER -> "failed"

\* One package's files; "stopped" is the cancel arriving while they are pulled.
PullApks(how) ==
  /\ pc = "apks" /\ opts.apks /\ More /\ ~flag
  /\ entries' = [entries EXCEPT ![Pkg].apk = how \in {"all", "some"},
                                ![Pkg].error = ApkError(how)]
  /\ troubled' = IF how = "all" THEN troubled ELSE troubled \cup {Pkg}
  /\ flag' = (how = "stopped")
  /\ i' = i + 1
  /\ UNCHANGED <<runVars, pc, tree, failed, remaining, ab, extras, dirVars, outcome,
                 runs, skipped>>

LeaveApks ==
  /\ pc = "apks"
  /\ ~(opts.apks /\ More) \/ flag
  /\ pc' = "data" /\ i' = 1
  /\ skipped' = IF opts.apks THEN skipped \cup Rest ELSE skipped
  /\ UNCHANGED <<runVars, flag, tree, failed, remaining, entries, ab, extras, dirVars,
                 outcome, runs, troubled>>

-----------------------------------------------------------------------------
(* backupAppData, both backends.  run-as fills the credential-encrypted    *)
(* archive's name and looks for no directory first; which packages it can  *)
(* read is asked of the device, and a failed question names none.          *)

StartData ==
  /\ pc = "data"
  /\ IF opts.data /\ More /\ ~flag
       THEN /\ pc' = "package"
            /\ runAs' \in IF opts.mode = "standard" THEN SUBSET Debuggable ELSE {{}}
       ELSE pc' = "extras" /\ UNCHANGED runAs
  /\ skipped' = IF opts.data THEN (IF flag THEN skipped \cup Rest ELSE skipped) ELSE skipped
  /\ UNCHANGED <<opts, packages, flag, i, tree, failed, remaining, entries, ab, extras,
                 dirVars, outcome, runs, troubled>>

NextPackage ==
  /\ pc = "package"
  /\ \/ /\ flag
        /\ pc' = "extras" /\ i' = 1
        /\ skipped' = skipped \cup Rest \cup remaining
        /\ UNCHANGED <<tree, remaining>>
     \/ /\ ~flag /\ ~More
        /\ pc' = IF remaining = {} THEN "extras" ELSE "legacy"
        /\ i' = 1
        /\ UNCHANGED <<tree, remaining, skipped>>
     \/ /\ ~flag /\ More /\ (opts.mode = "root" \/ Pkg \in runAs)
        /\ pc' = IF opts.mode = "root" THEN "look" ELSE "open"
        /\ tree' = "ce"
        /\ UNCHANGED <<i, remaining, skipped>>
     \/ /\ ~flag /\ More /\ opts.mode = "standard" /\ Pkg \notin runAs
        /\ remaining' = remaining \cup {Pkg}
        /\ i' = i + 1
        /\ UNCHANGED <<pc, tree, skipped>>
  /\ UNCHANGED <<runVars, flag, failed, entries, ab, extras, dirVars, outcome, runs,
                 troubled>>

\* The mutation of the next in which a later clean tree resets the error.
RootTreeDoneResetting(sum, bad) ==
  /\ entries' = [entries EXCEPT ![Pkg].sum[tree] = sum,
                    ![Pkg].method = IF sum # Unlisted THEN "root" ELSE @,
                    ![Pkg].error = IF bad THEN "failed" ELSE ""]
  /\ failed' = (tree = "ce" /\ bad)
  /\ tree' = "de"
  /\ pc' = IF tree = "ce" THEN "look" ELSE "package"
  /\ i' = IF tree = "ce" THEN i ELSE i + 1
  /\ UNCHANGED remaining

\* What follows captureTree or captureViaRunAs: sum is what was recorded, bad
\* whether the attempt failed.  After the second tree the entry is completed.
RootTreeDone(sum, bad) ==
  /\ LET lists == entries[Pkg].sum["ce"] # Unlisted \/ sum # Unlisted
         done == tree = "de"
     IN entries' = [entries EXCEPT ![Pkg].sum[tree] = sum,
                      ![Pkg].method = IF done /\ lists THEN "root" ELSE @,
                      ![Pkg].error = IF done /\ (failed \/ bad) THEN "failed" ELSE @]
  /\ failed' = (tree = "ce" /\ bad)
  /\ tree' = "de"
  /\ pc' = IF tree = "ce" THEN "look" ELSE "package"
  /\ i' = IF tree = "ce" THEN i ELSE i + 1
  /\ UNCHANGED remaining

RunAsDone(sum) ==
  /\ IF sum = Unlisted
       THEN remaining' = remaining \cup {Pkg} /\ UNCHANGED entries
       ELSE /\ entries' = [entries EXCEPT ![Pkg].sum["ce"] = sum, ![Pkg].method = "runas"]
            /\ UNCHANGED remaining
  /\ pc' = "package"
  /\ i' = i + 1
  /\ UNCHANGED <<tree, failed>>

TreeDone(sum, bad) ==
  /\ IF opts.mode = "root" THEN RootTreeDone(sum, bad) ELSE RunAsDone(sum)
  /\ troubled' = IF bad /\ opts.mode = "root" THEN troubled \cup {Pkg} ELSE troubled

\* The `[ -d ... ]` probe: a refused or failed one reads as "nothing there".
LookForTree ==
  /\ pc = "look"
  /\ \/ /\ ~flag /\ <<Pkg, tree>> \in Holds
        /\ pc' = "open"
        /\ UNCHANGED <<i, tree, failed, remaining, entries, troubled>>
     \/ TreeDone(Unlisted, FALSE)
  /\ skipped' = IF flag THEN skipped \cup {Pkg} ELSE skipped
  /\ UNCHANGED <<runVars, flag, ab, extras, dirVars, outcome, runs>>

\* runToFile truncates the file as it starts; a refused call leaves it to
\* the caller, who removes it.
OpenArchive ==
  /\ pc = "open"
  /\ IF flag
       THEN /\ disk' = [disk EXCEPT ![Stem(Pkg, tree)] = Absent]
            /\ TreeDone(Unlisted, TRUE)
       ELSE /\ disk' = [disk EXCEPT ![Stem(Pkg, tree)] = Partial]
            /\ pc' = "transfer"
            /\ UNCHANGED <<i, tree, failed, remaining, entries, troubled>>
  /\ UNCHANGED <<runVars, flag, ab, extras, manifest, outcome, runs, skipped>>

\* The mutation in which the archive is recorded whatever became of the stream.
EndTransferRecording ==
  /\ pc = "transfer"
  /\ LET whole == Content(Pkg, tree, runs)
     IN /\ \E left \in {whole, Absent} : disk' = [disk EXCEPT ![Stem(Pkg, tree)] = left]
        /\ TreeDone(whole, FALSE)
  /\ UNCHANGED <<runVars, flag, ab, extras, manifest, outcome, runs, skipped>>

\* The mutation in which a failed transfer is tried again, cancel or no cancel.
EndTransferRetrying ==
  /\ pc = "transfer"
  /\ LET whole == Content(Pkg, tree, runs)
     IN \/ /\ ~flag
           /\ disk' = [disk EXCEPT ![Stem(Pkg, tree)] = whole]
           /\ TreeDone(whole, FALSE)
        \/ UNCHANGED <<disk, pc, i, tree, failed, remaining, entries, troubled>>
  /\ UNCHANGED <<runVars, flag, ab, extras, manifest, outcome, runs, skipped>>

\* The tar stream ended: whole, in failure, or empty (not counted a failure).
EndTransfer ==
  /\ pc = "transfer"
  /\ LET whole == Content(Pkg, tree, runs)
     IN \/ /\ disk' = [disk EXCEPT ![Stem(Pkg, tree)] = whole]
           /\ \E sum \in {whole, Unsummed} : TreeDone(sum, FALSE)
        \/ /\ disk' = [disk EXCEPT ![Stem(Pkg, tree)] = Absent]
           /\ \E bad \in BOOLEAN : TreeDone(Unlisted, bad)
  /\ UNCHANGED <<runVars, flag, ab, extras, manifest, outcome, runs, skipped>>

LegacyFails ==
  /\ entries' = [p \in DOMAIN entries |->
                   IF p \in remaining THEN [entries[p] EXCEPT !.error = "failed"] ELSE entries[p]]
  /\ disk' = [disk EXCEPT ![AbFile] = Absent]
  /\ pc' = "extras"
  /\ UNCHANGED ab

StartLegacy ==
  /\ pc = "legacy"
  /\ IF flag
       THEN LegacyFails
       ELSE /\ disk' = [disk EXCEPT ![AbFile] = Partial]
            /\ pc' = "confirm"
            /\ UNCHANGED <<entries, ab>>
  /\ UNCHANGED <<runVars, flag, i, tree, failed, remaining, extras, manifest, outcome,
                 runs, skipped, troubled>>

\* The whole-archive command reports nothing per app: all are marked included.
EndLegacy ==
  /\ pc = "confirm"
  /\ \/ LegacyFails
     \/ /\ entries' = [p \in DOMAIN entries |->
                         IF p \in remaining THEN [entries[p] EXCEPT !.method = "legacy"]
                                            ELSE entries[p]]
        /\ disk' = [disk EXCEPT ![AbFile] = Content(AbFile, "ab", runs)]
        /\ ab' = TRUE
        /\ pc' = "extras"
  /\ UNCHANGED <<runVars, flag, i, tree, failed, remaining, extras, manifest, outcome,
                 runs, skipped, troubled>>

-----------------------------------------------------------------------------
(* Shared storage, personal data and device paths, then the manifest.      *)

CaptureExtra ==
  /\ pc = "extras" /\ i <= Len(Extras) /\ ~flag
  /\ i' = i + 1
  /\ extras' \in {extras, extras \cup {Extras[i]}}
  /\ UNCHANGED <<runVars, pc, flag, tree, failed, remaining, entries, ab, dirVars,
                 outcome, runs, skipped, troubled>>

LeaveExtras ==
  /\ pc = "extras" /\ (flag \/ i > Len(Extras))
  /\ pc' = "mark"
  /\ UNCHANGED <<runVars, flag, i, tree, failed, remaining, entries, ab, extras, dirVars,
                 outcome, runs, skipped, troubled>>

\* The file exists and integrity::checksumMatches, which accepts anything when
\* no sum is recorded.  The mutation looks no further than the name.
MatchesByName(content, sum) == content # Absent
Matches(content, sum) == content # Absent /\ (sum = Unsummed \/ content = sum)

Included(e) == e.apk \/ e.method # "none"

\* The mutation that leaves the marks out.
MarkNobody ==
  /\ pc = "mark"
  /\ pc' = "write"
  /\ UNCHANGED <<runVars, flag, i, tree, failed, remaining, entries, ab, extras, dirVars,
                 outcome, runs, skipped, troubled>>

MarkUnreached ==
  /\ pc = "mark"
  /\ entries' = [p \in DOMAIN entries |->
                   IF flag /\ ~Included(entries[p]) /\ entries[p].error = ""
                     THEN [entries[p] EXCEPT !.error = "cancelled"] ELSE entries[p]]
  /\ pc' = "write"
  /\ UNCHANGED <<runVars, flag, i, tree, failed, remaining, ab, extras, dirVars, outcome,
                 runs, skipped, troubled>>

\* writeTextFile truncates manifest.json in place, or cannot open it.
StartManifest ==
  /\ pc = "write"
  /\ \/ UNCHANGED manifest /\ Stop("failed")
     \/ /\ manifest' = Torn
        /\ pc' = "writing"
        /\ UNCHANGED <<opts, localVars, disk, outcome, runs, historyVars>>

\* The stream is asked for errors before its destructor flushes it: a write
\* fails and says so, fails in that flush and goes unnoticed, or is whole.
EndManifest ==
  /\ pc = "writing"
  /\ \/ UNCHANGED manifest /\ Stop("failed")
     \/ /\ UNCHANGED manifest
        /\ pc' = "count"
        /\ UNCHANGED <<opts, localVars, disk, outcome, runs, historyVars>>
     \/ /\ manifest' = [run |-> runs, torn |-> FALSE, mode |-> opts.mode,
                        entries |-> entries, ab |-> ab, extras |-> extras]
        /\ pc' = "count"
        /\ UNCHANGED <<opts, localVars, disk, outcome, runs, historyVars>>

\* The mutation that calls every run that wrote its manifest a success.
CountAlways ==
  /\ pc = "count"
  /\ UNCHANGED manifest
  /\ Stop("success")

Count ==
  /\ pc = "count"
  /\ UNCHANGED manifest
  /\ Stop(IF flag THEN "cancelled" ELSE "success")

-----------------------------------------------------------------------------
\* Ctrl-C once, or the GUI's cancel.
Cancel ==
  /\ pc # "idle" /\ ~flag
  /\ flag' = TRUE
  /\ UNCHANGED <<pc, runVars, i, tree, failed, remaining, entries, ab, extras, dirVars,
                 outcome, runs, skipped, troubled>>

\* Ctrl-C twice, a lost terminal, a power cut: what is on disk stays.
Kill ==
  /\ pc # "idle"
  /\ UNCHANGED manifest
  /\ Stop("killed")

\* The steps that wait for the device, and those that do not.
DeviceStep == Query \/ List \/ (\E how \in ApkOutcomes : PullApks(how)) \/ StartData
                    \/ LookForTree \/ EndTransfer \/ EndLegacy \/ CaptureExtra
LocalStep == LeaveApks \/ NextPackage \/ OpenArchive \/ StartLegacy
                       \/ LeaveExtras \/ MarkUnreached \/ StartManifest \/ EndManifest
                       \/ Count

Next == Begin \/ DeviceStep \/ LocalStep \/ Cancel \/ Kill

Spec == Init /\ [][Next]_vars

\* A cancelled run's adb child is signalled until it dies, so a device step
\* ends once the flag is set; without a cancel it may wait for ever.
FairSpec == Spec /\ WF_vars(LocalStep) /\ WF_vars(flag /\ DeviceStep)

-----------------------------------------------------------------------------
\* The packages this run's manifest has an entry for.
Found == {packages[k] : k \in 1..Len(packages)}

Entries == [apk : BOOLEAN, sum : [Trees -> Contents \cup {Unlisted, Unsummed}],
            method : {"none", "root", "runas", "legacy"},
            error : {"", "failed", "cancelled"}]

\* The type of every variable.
TypeOK ==
  /\ pc \in {"idle", "query", "list", "apks", "data", "package", "look", "open", "transfer",
             "legacy", "confirm", "extras", "mark", "write", "writing", "count"}
  /\ opts \in Options /\ flag \in BOOLEAN
  /\ packages \in {Order, <<>>} /\ i \in 1..(Len(Order) + Len(Extras) + 1)
  /\ tree \in Trees /\ failed \in BOOLEAN
  /\ runAs \subseteq Debuggable /\ remaining \subseteq Packages
  /\ entries \in [Found -> Entries]
  /\ ab \in BOOLEAN
  /\ extras \subseteq {Extras[k] : k \in 1..Len(Extras)}
  /\ disk \in [Files -> Contents \cup {Absent, Partial, Rotten}]
  /\ outcome \in {"none", "success", "cancelled", "failed", "killed"}
  /\ runs \in 0..MaxRuns
  /\ skipped \subseteq Packages /\ troubled \subseteq Packages

\* What a verify of the directory, or the checks of a restore, would accept.
Accepted(p, t) ==
  /\ manifest.run > 0 /\ p \in DOMAIN manifest.entries
  /\ manifest.entries[p].sum[t] # Unlisted
  /\ Matches(disk[Stem(p, t)], manifest.entries[p].sum[t])

OwnManifest == runs > 0 /\ manifest.run = runs
Clean(p) == manifest.entries[p].error = ""

\* A manifest verifies as soon as its run has written it: every archive it
\* lists is there and has the recorded checksum, whatever earlier, killed or
\* cancelled runs left in the directory.  (BackupStore::verify on the output
\* of runBackup.)  Of the archives whose name is nobody else's: for the others
\* the code does not keep it, see EveryListedVerifies.
FreshManifestVerifies ==
  OwnManifest =>
    /\ \A p \in DOMAIN manifest.entries, t \in Trees :
         OwnName(p, t) /\ manifest.entries[p].sum[t] # Unlisted => Accepted(p, t)
    /\ manifest.ab => disk[AbFile] = Content(AbFile, "ab", runs)

\* At every moment, in the middle of a rerun or after a kill, an archive that
\* passes its checksum holds that package's own tree as the manifest's run
\* captured it: no restore mixes two runs, or two packages.
AcceptedIsOwn ==
  \A p \in Packages, t \in Trees :
    Accepted(p, t) /\ manifest.entries[p].sum[t] # Unsummed
      => disk[Stem(p, t)] = Content(p, t, manifest.run)

\* The archives with a name of their own that the manifest records a checksum
\* of, and those of them that pass it, with what they hold.
Summed ==
  {a \in Packages \X Trees :
     /\ OwnName(a[1], a[2])
     /\ manifest.run > 0 /\ a[1] \in DOMAIN manifest.entries
     /\ manifest.entries[a[1]].sum[a[2]] \notin {Unlisted, Unsummed}}
Passing ==
  [a \in {b \in Summed : Accepted(b[1], b[2])} |-> disk[Stem(a[1], a[2])]]

\* What readers are promised, BackupDirectory, is what the runs do.
Reader == INSTANCE BackupDirectory WITH
  Archives <- Packages \X Trees,
  run <- runs,
  busy <- pc # "idle",
  of <- manifest.run,
  listed <- Summed,
  passing <- Passing

\* Whatever a rerun, a cancel or a kill leaves in the directory, an archive
\* that passes is the manifest's own and was never replaced, no archive of the
\* old manifest comes back, and a new one lists only archives that pass; of
\* the archives whose name is nobody else's.
KeepsItsWord == Reader!Spec

\* "Backup complete" is printed only when the cancel kept no package from a
\* requested step, and this run's manifest is on disk or was cut off in its
\* last flush, which nobody looks at (SuccessHasItsManifest).
SuccessIsComplete ==
  outcome = "success" => skipped = {} /\ (OwnManifest \/ manifest = Torn)

\* A package one of whose APK pulls or root captures failed never reads as
\* clean in the manifest, whatever the later stages do to its entry.
TroubleIsMarked == OwnManifest => \A p \in troubled : ~Clean(p)

\* An entry with nothing in it and no error was reached by every stage asked
\* for: a cancel never leaves one behind unmarked.
EmptyAndCleanWasReached ==
  OwnManifest => \A p \in DOMAIN manifest.entries :
    Clean(p) /\ ~Included(manifest.entries[p]) => p \notin skipped

\* A cancelled run comes to its end, with the adb child being signalled and
\* no later stage waiting for the device.
CancelEndsTheRun == (flag /\ pc # "idle") ~> pc = "idle"

-----------------------------------------------------------------------------
(* Statements of the documentation the code does not keep.                 *)

\* BackupManager.cpp: a failure to write the manifest fails the whole run.
SuccessHasItsManifest == outcome = "success" => OwnManifest

\* docs/MANIFEST.md: `data/` holds an archive of each package, and one of each
\* device-protected tree; README.md: every one is checksummed and verified.
EveryListedVerifies ==
  OwnManifest =>
    \A p \in DOMAIN manifest.entries, t \in Trees :
      manifest.entries[p].sum[t] # Unlisted => Accepted(p, t)

\* docs/MANIFEST.md: `data_included: false` with an empty `error` means there
\* was simply nothing to capture.  It may mean that the `[ -d ]` probe failed.
NothingMeansNothing ==
  OwnManifest /\ outcome = "success" /\ opts.data =>
    \A p \in DOMAIN manifest.entries :
      Clean(p) /\ manifest.entries[p].method = "none" => \A t \in Trees : <<p, t>> \notin Holds

=============================================================================
