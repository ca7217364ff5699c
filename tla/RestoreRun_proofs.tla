-------------------------- MODULE RestoreRun_proofs -------------------------
(***************************************************************************)
(* Theorems about BackupRun and RestoreRun for every set of packages and   *)
(* options, every device and any number of runs.                           *)
(*                                                                         *)
(* Of a backup: what the manifest says of the archives and of its packages *)
(* is true, wherever the runs were cancelled or killed.  Of a restore from *)
(* any directory a sequence of backups may leave, and any damage to it: no *)
(* half-restored package is counted, no damaged one is touched, and the    *)
(* summary is true.                                                        *)
(***************************************************************************)
EXTENDS RestoreRun, SequenceTheorems, TLAPS

-----------------------------------------------------------------------------
(* The inductive invariant.                                                *)

\* What may be recorded of a package's tree by a run.
Own(p, t, run) == {Unlisted, Unsummed, Content(p, t, run)}

InTree == pc \in {"look", "open", "transfer"}

\* Where the run is and what it works on.
Shape ==
  /\ pc # "idle" => runs > 0 /\ outcome = "none"
  /\ pc \in {"idle", "query", "list"} => packages = <<>>
  /\ InTree => More
  /\ pc = "look" => opts.mode = "root"
  /\ pc \in {"open", "transfer"} /\ opts.mode = "standard" => tree = "ce"

\* A sum in memory, or in the manifest, is of that package's tree in that run.
SumsAreOwn == \A p \in Found, t \in Trees : entries[p].sum[t] \in Own(p, t, runs)
ManifestIsOwn ==
  /\ manifest.run \in 0..runs
  /\ manifest.run > 0 => \A p \in DOMAIN manifest.entries, t \in Trees :
                           manifest.entries[p].sum[t] \in Own(p, t, manifest.run)

\* The run's own manifest is there once it has been written, and not before;
\* or else the torn one, while it is written or for good.
RunOrder ==
  /\ pc \notin {"idle", "count"} => manifest.run # runs
  /\ pc = "writing" => manifest = Torn
  /\ pc = "count" => OwnManifest \/ manifest = Torn

SkipNeedsFlag == pc # "idle" /\ skipped # {} => flag

\* A trouble is in the entry, or about to be: the first tree's is in `failed`.
TroubleInHand ==
  pc \notin {"idle", "count"} =>
    \A p \in troubled : /\ p \in Found
                        /\ entries[p].error # "" \/ (InTree /\ tree = "de" /\ failed /\ p = Pkg)

\* The APK stage clears an error only of a package nothing has failed for yet.
ApksAhead ==
  pc = "apks" => \A k \in i..Len(packages) : packages[k] \notin troubled

MarksAreMade ==
  pc \in {"write", "writing"} =>
    \A p \in Found : entries[p].error = "" /\ ~Included(entries[p]) => p \notin skipped

IInv ==
  /\ TypeOK /\ Shape /\ SumsAreOwn /\ ManifestIsOwn /\ RunOrder /\ SkipNeedsFlag
  /\ TroubleInHand /\ ApksAhead /\ MarksAreMade
  /\ SuccessIsComplete /\ TroubleIsMarked /\ EmptyAndCleanWasReached

-----------------------------------------------------------------------------
(* What is in hand.                                                        *)

\* The package in hand is one of those the run found, and they were selected.
LEMMA InHand ==
  ASSUME BackupAssumption, TypeOK
  PROVE  /\ Found \subseteq Packages /\ Rest \subseteq Found
         /\ More => Pkg \in Found
         /\ ~More => Rest = {}
         /\ Len(packages) \in Nat /\ Len(packages) <= Len(Order)
         /\ Len(Order) \in Nat /\ Len(Extras) \in Nat
<1>1. Len(Order) \in Nat /\ Len(Extras) \in Nat
  BY DEF BackupAssumption
<1>2. packages \in {Order, <<>>} /\ Len(<<>>) = 0 /\ i \in Nat /\ i >= 1
  BY <1>1 DEF TypeOK
<1>3. Len(packages) \in Nat /\ Len(packages) <= Len(Order)
  BY <1>1, <1>2
<1>4. Found \subseteq Packages
  <2>1. CASE packages = Order
    BY <2>1 DEF Found, Packages
  <2>2. CASE packages = <<>>
    BY <2>2, <1>2 DEF Found
  <2> QED BY <1>2, <2>1, <2>2
<1>5. Rest \subseteq Found /\ (More => Pkg \in Found) /\ (~More => Rest = {})
  BY <1>2, <1>3 DEF Rest, Found, More, Pkg
<1> QED BY <1>1, <1>3, <1>4, <1>5

\* What a finished stream leaves is of the package in hand, and has a type.
LEMMA OwnIsTyped ==
  ASSUME BackupAssumption, TypeOK, More, runs > 0
  PROVE  /\ Content(Pkg, tree, runs) \in Contents
         /\ Stem(Pkg, tree) \in Files
         /\ AbFile \in Files /\ Content(AbFile, "ab", runs) \in Contents
<1>1. Pkg \in Packages /\ tree \in Trees /\ runs \in Runs
  BY InHand DEF TypeOK, BackupAssumption, Runs
<1> QED BY <1>1 DEF Content, Contents, Files

-----------------------------------------------------------------------------
(* The steps that end the run, and those that only move it on.             *)

LEMMA StopKeeps ==
  ASSUME BackupAssumption, IInv, NEW how \in {"success", "cancelled", "failed", "killed"},
         Stop(how), manifest' = manifest, pc # "idle",
         how = "success" => pc = "count" /\ ~flag
  PROVE  IInv'
<1>1. TypeOK'
  <2>1. Found' = {} /\ EmptyEntries = [p \in {} |-> NewEntry]
    BY DEF Stop, Found, EmptyEntries
  <2>2. entries' \in [Found' -> Entries]
    BY <2>1 DEF Stop, EmptyEntries
  <2>3. 1 \in 1..(Len(Order) + Len(Extras) + 1)
    BY InHand DEF IInv
  <2> QED BY <2>2, <2>3 DEF IInv, TypeOK, Stop, Trees
<1>2. Shape' /\ SumsAreOwn' /\ TroubleInHand' /\ ApksAhead' /\ MarksAreMade' /\ SkipNeedsFlag'
  BY DEF Stop, ApksAhead, Shape, InTree, SumsAreOwn, Found, TroubleInHand, MarksAreMade,
         SkipNeedsFlag
<1>3. ManifestIsOwn' /\ RunOrder'
  BY DEF IInv, ManifestIsOwn, RunOrder, Stop, Own, Content
<1>4. OwnManifest' => OwnManifest /\ skipped' = skipped /\ troubled' = troubled
  BY DEF OwnManifest, Stop
<1>5. SuccessIsComplete'
  BY DEF IInv, SuccessIsComplete, Stop, RunOrder, OwnManifest, SkipNeedsFlag
<1>6. TroubleIsMarked' /\ EmptyAndCleanWasReached'
  BY <1>4 DEF IInv, TroubleIsMarked, EmptyAndCleanWasReached, Clean
<1> QED BY <1>1, <1>2, <1>3, <1>5, <1>6 DEF IInv

\* A step that leaves the entries and the manifest as they are.
LEMMA QuietKeeps ==
  ASSUME IInv, TypeOK', Shape', pc # "idle", pc' # "idle",
         UNCHANGED <<entries, packages, manifest, outcome, runs, troubled>>,
         skipped' # {} => flag',
         pc = "count" <=> pc' = "count",
         pc' = "apks" => pc = "apks" /\ i' = i,
         pc \in {"write", "writing", "count"} => skipped' = skipped,
         pc' \in {"write", "writing"} => pc = pc',
         InTree /\ tree = "de" /\ failed => InTree' /\ tree' = "de" /\ failed' /\ Pkg' = Pkg
  PROVE  IInv'
<1>1. Found' = Found
  BY DEF Found
<1>2. SumsAreOwn' /\ ManifestIsOwn'
  BY <1>1 DEF IInv, SumsAreOwn, ManifestIsOwn, Own, Content
<1>3. RunOrder' /\ SkipNeedsFlag' /\ ApksAhead'
  BY DEF IInv, RunOrder, SkipNeedsFlag, ApksAhead, OwnManifest
<1>4. TroubleInHand'
  BY <1>1 DEF IInv, TroubleInHand
<1>5. MarksAreMade'
  BY <1>1 DEF IInv, MarksAreMade, Included
<1>6. OwnManifest' => pc = "count" /\ OwnManifest
  BY DEF IInv, RunOrder, OwnManifest
<1>7. SuccessIsComplete'
  BY DEF IInv, Shape, SuccessIsComplete
<1>8. TroubleIsMarked' /\ EmptyAndCleanWasReached'
  BY <1>6 DEF IInv, TroubleIsMarked, EmptyAndCleanWasReached, Clean, Included
<1> QED BY <1>2, <1>3, <1>4, <1>5, <1>7, <1>8 DEF IInv

\* A step of the stages before the manifest that changes entries, and may be
\* the one in which a capture fails.
LEMMA WorkKeeps ==
  ASSUME IInv, TypeOK', Shape', pc \notin {"idle", "count"},
         pc' \notin {"idle", "write", "writing", "count"},
         UNCHANGED <<manifest, outcome, runs>>,
         SumsAreOwn', TroubleInHand', ApksAhead', skipped' # {} => flag'
  PROVE  IInv'
<1>1. ManifestIsOwn'
  BY DEF IInv, ManifestIsOwn, Own, Content
<1>2. RunOrder' /\ SkipNeedsFlag' /\ MarksAreMade'
  BY DEF IInv, RunOrder, SkipNeedsFlag, MarksAreMade
<1>3. ~OwnManifest'
  BY DEF IInv, RunOrder, OwnManifest
<1>4. SuccessIsComplete'
  BY DEF IInv, Shape, SuccessIsComplete
<1>5. TroubleIsMarked' /\ EmptyAndCleanWasReached'
  BY <1>3 DEF TroubleIsMarked, EmptyAndCleanWasReached
<1> QED BY <1>1, <1>2, <1>4, <1>5 DEF IInv

-----------------------------------------------------------------------------
(* The steps, stage by stage.                                              *)

LEMMA BeginKeeps ==
  ASSUME BackupAssumption, IInv, Begin
  PROVE  IInv'
<1>1. packages = <<>> /\ runs \in Nat /\ Found = {} /\ Found' = {}
  BY DEF IInv, TypeOK, Shape, Begin, localVars, Found, BackupAssumption
<1>2. TypeOK'
  BY <1>1 DEF BackupAssumption, IInv, TypeOK, Begin, localVars, dirVars
<1>3. Shape' /\ SumsAreOwn' /\ TroubleInHand' /\ ApksAhead' /\ MarksAreMade' /\ SkipNeedsFlag'
  BY <1>1 DEF Begin, localVars, Shape, InTree, SumsAreOwn, TroubleInHand, ApksAhead,
              MarksAreMade, SkipNeedsFlag
<1>4. manifest.run \in 0..runs /\ runs' = runs + 1 /\ manifest' = manifest
  BY DEF IInv, ManifestIsOwn, Begin, dirVars
<1>5. ManifestIsOwn' /\ RunOrder' /\ ~OwnManifest'
  BY <1>1, <1>4 DEF IInv, ManifestIsOwn, RunOrder, Begin, Own, Content, OwnManifest
<1>6. SuccessIsComplete' /\ TroubleIsMarked' /\ EmptyAndCleanWasReached'
  BY <1>5 DEF SuccessIsComplete, TroubleIsMarked, EmptyAndCleanWasReached, Begin
<1> QED BY <1>2, <1>3, <1>5, <1>6 DEF IInv

LEMMA QueryKeeps ==
  ASSUME BackupAssumption, IInv, Query
  PROVE  IInv'
<1>1. CASE Stop("failed")
  BY <1>1, StopKeeps DEF Query
<1>2. CASE ~flag /\ pc' = "list" /\ UNCHANGED <<opts, localVars, disk, outcome, runs, historyVars>>
  <2>1. TypeOK' /\ Shape'
    BY <1>2 DEF IInv, Query, TypeOK, Shape, InTree, More, localVars, historyVars, Found
  <2> QED BY <1>2, <2>1, QuietKeeps
      DEF Query, localVars, historyVars, InTree, IInv, SkipNeedsFlag
<1> QED BY <1>1, <1>2 DEF Query

LEMMA ListKeeps ==
  ASSUME BackupAssumption, IInv, List
  PROVE  IInv'
<1>1. CASE Stop("failed")
  BY <1>1, StopKeeps DEF List
<1>2. ASSUME NEW found \in {Order, <<>>},
             pc' = "apks", packages' = found,
             entries' = [p \in {found[k] : k \in 1..Len(found)} |-> NewEntry],
             UNCHANGED <<opts, flag, i, tree, failed, runAs, remaining, ab, extras,
                         disk, outcome, runs, historyVars>>
      PROVE  IInv'
  <2>1. Found' = {found[k] : k \in 1..Len(found)}
    BY <1>2 DEF Found
  <2>2. entries' = [p \in Found' |-> NewEntry] /\ NewEntry \in Entries
    BY <1>2, <2>1 DEF NewEntry, Entries
  <2>3. TypeOK'
    BY <1>2, <2>2 DEF IInv, List, TypeOK, historyVars
  <2>4. troubled = {}
    <3>1. pc = "list" /\ packages = <<>> /\ Found = {}
      BY DEF IInv, List, Shape, Found
    <3> QED BY <3>1 DEF IInv, TroubleInHand
  <2>5. Shape' /\ TroubleInHand' /\ ApksAhead' /\ (skipped' # {} => flag')
    BY <1>2, <2>4 DEF IInv, List, Shape, TroubleInHand, ApksAhead, InTree, SkipNeedsFlag,
                      historyVars
  <2>6. SumsAreOwn'
    BY <2>2 DEF SumsAreOwn, NewEntry, Own
  <2> QED BY <1>2, <2>3, <2>5, <2>6, WorkKeeps DEF List
<1> QED BY <1>1, <1>2 DEF List

\* An entry whose apk and error fields are set keeps its type and its sums.
LEMMA PullApksKeeps ==
  ASSUME BackupAssumption, IInv, NEW how \in ApkOutcomes, PullApks(how)
  PROVE  IInv'
<1> DEFINE a == how \in {"all", "some"}
           n == [entries[Pkg] EXCEPT !.apk = a, !.error = ApkError(how)]
<1>1. Pkg \in Found /\ Found' = Found /\ entries \in [Found -> Entries]
  <2>1. TypeOK /\ More
    BY DEF IInv, PullApks
  <2>2. Pkg \in Found
    BY <2>1, InHand
  <2>3. Found' = Found
    BY DEF PullApks, runVars, Found
  <2> QED BY <2>1, <2>2, <2>3 DEF TypeOK
<1>2. ApkError(how) \in {"", "failed", "cancelled"} /\ (ApkError(how) = "" <=> how = "all")
  BY DEF ApkError, ApkOutcomes
<1>3. /\ entries' = [entries EXCEPT ![Pkg] = n] /\ n \in Entries
      /\ n.error = ApkError(how) /\ n.sum = entries[Pkg].sum
  <2>1. entries' = [entries EXCEPT ![Pkg] = n]
    BY <1>1 DEF PullApks, Entries
  <2>2. entries[Pkg] \in Entries /\ a \in BOOLEAN
    BY <1>1
  <2> HIDE DEF a
  <2>3. n \in Entries /\ n.error = ApkError(how) /\ n.sum = entries[Pkg].sum
    BY <2>2, <1>2 DEF Entries
  <2> QED BY <2>1, <2>3
<1> HIDE DEF n
<1>4. i \in Nat /\ i' = i + 1 /\ i <= Len(packages) /\ packages' = packages
  BY InHand DEF IInv, TypeOK, PullApks, More, runVars
<1>5. TypeOK'
  <2>1. entries' \in [Found' -> Entries]
    BY <1>1, <1>3
  <2>2. i' \in 1..(Len(Order) + Len(Extras) + 1)
    BY <1>4, InHand DEF IInv
  <2>3. troubled' \subseteq Packages
    BY <1>1, InHand DEF IInv, PullApks, TypeOK
  <2> QED BY <2>1, <2>2, <2>3 DEF IInv, TypeOK, PullApks, runVars, dirVars
<1>6. Shape' /\ (skipped' # {} => flag')
  BY DEF IInv, Shape, PullApks, InTree, runVars, SkipNeedsFlag
<1>7. SumsAreOwn'
  BY <1>1, <1>3 DEF IInv, SumsAreOwn, PullApks, Own
<1>8. TroubleInHand'
  <2>1. \A p \in troubled : p \in Found /\ entries[p].error # "" /\ p # Pkg
    <3>1. Pkg \notin troubled
      <4>1. Len(packages) \in Nat /\ i \in i..Len(packages) /\ pc = "apks"
        BY <1>4, InHand DEF IInv, PullApks
      <4> QED BY <4>1 DEF IInv, ApksAhead, Pkg
    <3> QED BY <3>1 DEF IInv, TroubleInHand, InTree, PullApks
  <2>2. \A p \in troubled' : p \in Found /\ entries'[p].error # ""
    BY <1>1, <1>2, <1>3, <2>1 DEF PullApks
  <2> QED BY <1>1, <2>2 DEF TroubleInHand
<1>9. ApksAhead'
  <2>1. Len(packages) \in Nat /\ \A k \in i + 1..Len(packages) : packages[k] # packages[i]
    <3>1. CASE packages = Order
      BY <3>1, <1>4, InHand DEF BackupAssumption, IInv, TypeOK
    <3>2. CASE packages = <<>>
      BY <3>2, <1>4
    <3> QED BY <3>1, <3>2, InHand DEF IInv, TypeOK
  <2>2. \A k \in i'..Len(packages') : packages'[k] \notin troubled /\ packages'[k] # Pkg
    BY <1>4, <2>1 DEF IInv, ApksAhead, PullApks, Pkg
  <2> QED BY <2>2 DEF ApksAhead, PullApks
<1> QED BY <1>5, <1>6, <1>7, <1>8, <1>9, WorkKeeps DEF PullApks, runVars, dirVars

\* The steps before, between and after the captures change no entry.
LEMMA LeaveApksKeeps ==
  ASSUME BackupAssumption, IInv, LeaveApks
  PROVE  IInv'
<1>1. Rest \subseteq Packages /\ (~More => Rest = {})
  BY InHand DEF IInv
<1>2. TypeOK' /\ Shape'
  BY <1>1, InHand DEF IInv, TypeOK, Shape, InTree, LeaveApks, runVars, dirVars, Found
<1>3. skipped' # {} => flag'
  BY <1>1 DEF IInv, SkipNeedsFlag, LeaveApks
<1> QED BY <1>2, <1>3, QuietKeeps DEF LeaveApks, runVars, dirVars, InTree

LEMMA StartDataKeeps ==
  ASSUME BackupAssumption, IInv, StartData
  PROVE  IInv'
<1>1. Rest \subseteq Packages
  BY InHand DEF IInv
<1>2. TypeOK'
  <2>1. runAs' \subseteq Debuggable
    BY DEF StartData, IInv, TypeOK
  <2>2. skipped' \subseteq Packages /\ pc' \in {"package", "extras"}
    BY <1>1 DEF StartData, IInv, TypeOK
  <2> QED BY <2>1, <2>2 DEF StartData, IInv, TypeOK, dirVars, Found
<1>3. Shape' /\ (skipped' # {} => flag')
  BY DEF IInv, Shape, SkipNeedsFlag, StartData, InTree
<1>4. pc' \in {"package", "extras"}
  BY DEF StartData
<1> QED BY <1>2, <1>3, <1>4, QuietKeeps DEF StartData, dirVars, InTree

LEMMA NextPackageKeeps ==
  ASSUME BackupAssumption, IInv, NextPackage
  PROVE  IInv'
<1>1. Rest \subseteq Packages /\ (More => Pkg \in Packages)
  BY InHand DEF IInv
<1>2. /\ pc = "package" /\ pc' \in {"extras", "legacy", "look", "open", "package"}
      /\ pc' \in {"look", "open"} => /\ More /\ i' = i /\ tree' = "ce"
                                     /\ pc' = "look" => opts.mode = "root"
      /\ skipped' # {} => flag'
  BY DEF NextPackage, IInv, SkipNeedsFlag
<1>3. TypeOK'
  <2>1. i' \in 1..(Len(Order) + Len(Extras) + 1)
    BY InHand DEF IInv, TypeOK, NextPackage, More
  <2>2. remaining' \subseteq Packages /\ skipped' \subseteq Packages
    BY <1>1 DEF IInv, TypeOK, NextPackage
  <2>3. tree' \in Trees
    BY DEF NextPackage, IInv, TypeOK, Trees
  <2> QED BY <1>2, <2>1, <2>2, <2>3 DEF NextPackage, IInv, TypeOK, runVars, dirVars, Found
<1>4. Shape'
  BY <1>2 DEF IInv, Shape, NextPackage, InTree, runVars, More
<1> QED BY <1>2, <1>3, <1>4, QuietKeeps DEF NextPackage, runVars, dirVars, InTree

LEMMA CaptureExtraKeeps ==
  ASSUME BackupAssumption, IInv, CaptureExtra
  PROVE  IInv'
<1>1. i \in 1..Len(Extras) /\ i' = i + 1
  BY DEF IInv, TypeOK, CaptureExtra
<1>2. TypeOK'
  <2>1. i' \in 1..(Len(Order) + Len(Extras) + 1)
    BY <1>1, InHand DEF IInv
  <2>2. extras' \subseteq {Extras[k] : k \in 1..Len(Extras)}
    BY <1>1 DEF CaptureExtra, IInv, TypeOK
  <2> QED BY <2>1, <2>2 DEF CaptureExtra, IInv, TypeOK, runVars, dirVars, Found
<1>3. Shape' /\ (skipped' # {} => flag')
  BY DEF IInv, Shape, SkipNeedsFlag, CaptureExtra, InTree, runVars
<1> QED BY <1>2, <1>3, QuietKeeps DEF CaptureExtra, runVars, dirVars, InTree

LEMMA LeaveExtrasKeeps ==
  ASSUME BackupAssumption, IInv, LeaveExtras
  PROVE  IInv'
<1>1. TypeOK' /\ Shape' /\ (skipped' # {} => flag')
  BY DEF IInv, TypeOK, Shape, SkipNeedsFlag, LeaveExtras, InTree, runVars, dirVars, Found
<1> QED BY <1>1, QuietKeeps DEF LeaveExtras, runVars, dirVars, InTree

LEMMA CancelKeeps ==
  ASSUME BackupAssumption, IInv, Cancel
  PROVE  IInv'
<1>1. TypeOK' /\ Shape' /\ (skipped' # {} => flag')
  BY DEF IInv, TypeOK, Shape, Cancel, InTree, More, runVars, dirVars, Found
<1> QED BY <1>1, QuietKeeps DEF Cancel, runVars, dirVars, InTree, Pkg

-----------------------------------------------------------------------------
(* A tree is done: the root backend's two trees, and run-as's one.         *)

\* The entry in hand, and no other, after a tree captured as root.
RootRecorded(sum, broke) ==
  /\ entries' \in [Found -> Entries]
  /\ \A p \in Found \ {Pkg} : entries'[p] = entries[p]
  /\ entries'[Pkg].sum = [entries[Pkg].sum EXCEPT ![tree] = sum]
  /\ entries'[Pkg].error = IF tree = "de" /\ (failed \/ broke)
                             THEN "failed" ELSE entries[Pkg].error
  /\ entries'[Pkg].method = IF /\ tree = "de"
                               /\ entries[Pkg].sum["ce"] # Unlisted \/ sum # Unlisted
                              THEN "root" ELSE entries[Pkg].method

LEMMA RootEntry ==
  ASSUME TypeOK, NEW sum \in Contents \cup {Unlisted, Unsummed}, NEW broke,
         RootTreeDone(sum, broke), Pkg \in Found
  PROVE  RootRecorded(sum, broke)
<1> DEFINE e == entries[Pkg]
           done == tree = "de"
           lists == e.sum["ce"] # Unlisted \/ sum # Unlisted
           n == [apk |-> e.apk, sum |-> [e.sum EXCEPT ![tree] = sum],
                 method |-> IF done /\ lists THEN "root" ELSE e.method,
                 error |-> IF done /\ (failed \/ broke) THEN "failed" ELSE e.error]
<1>1. e \in Entries /\ entries \in [Found -> Entries] /\ tree \in Trees
  BY DEF TypeOK
<1>2. entries' = [entries EXCEPT ![Pkg].sum[tree] = sum,
                    ![Pkg].method = IF done /\ lists THEN "root" ELSE @,
                    ![Pkg].error = IF done /\ (failed \/ broke) THEN "failed" ELSE @]
  BY DEF RootTreeDone
<1>3. \A p \in Found \ {Pkg} : entries'[p] = entries[p]
  BY <1>1, <1>2
<1>4. DOMAIN entries' = Found /\ entries' = [p \in Found |-> entries'[p]]
  BY <1>1, <1>2
<1>5. entries'[Pkg] = n
  BY <1>1, <1>2 DEF Entries
<1>6. n \in Entries
  BY <1>1 DEF Entries
<1>7. n.sum = [e.sum EXCEPT ![tree] = sum]
      /\ n.method = (IF done /\ lists THEN "root" ELSE e.method)
      /\ n.error = IF done /\ (failed \/ broke) THEN "failed" ELSE e.error
  OBVIOUS
<1> HIDE DEF n
<1>8. entries' \in [Found -> Entries]
  BY <1>1, <1>3, <1>4, <1>5, <1>6
<1> QED BY <1>3, <1>5, <1>7, <1>8 DEF RootRecorded

LEMMA RunAsEntry ==
  ASSUME TypeOK, NEW sum \in Contents \cup {Unlisted, Unsummed},
         RunAsDone(sum), Pkg \in Found
  PROVE  /\ entries' \in [Found -> Entries]
         /\ \A p \in Found \ {Pkg} : entries'[p] = entries[p]
         /\ entries'[Pkg].sum = IF sum = Unlisted THEN entries[Pkg].sum
                                 ELSE [entries[Pkg].sum EXCEPT !["ce"] = sum]
         /\ entries'[Pkg].error = entries[Pkg].error
         /\ entries'[Pkg].method \in {entries[Pkg].method, "runas"}
<1>1. CASE sum = Unlisted
  BY <1>1 DEF TypeOK, RunAsDone
<1>2. CASE sum # Unlisted
  <2> DEFINE e == entries[Pkg]
             n == [apk |-> e.apk, sum |-> [e.sum EXCEPT !["ce"] = sum],
                   method |-> "runas", error |-> e.error]
  <2>1. e \in Entries /\ entries \in [Found -> Entries]
    BY DEF TypeOK
  <2>2. entries' = [entries EXCEPT ![Pkg].sum["ce"] = sum, ![Pkg].method = "runas"]
    BY <1>2 DEF RunAsDone
  <2>3. \A p \in Found \ {Pkg} : entries'[p] = entries[p]
    BY <2>1, <2>2
  <2>4. DOMAIN entries' = Found /\ entries' = [p \in Found |-> entries'[p]]
    BY <2>1, <2>2
  <2>5. entries'[Pkg] = n
    BY <2>1, <2>2 DEF Entries
  <2>6. n \in Entries
    BY <2>1 DEF Entries, Trees
  <2>7. entries' \in [Found -> Entries]
    BY <2>1, <2>3, <2>4, <2>5, <2>6
  <2> QED BY <1>2, <2>3, <2>5, <2>7
<1> QED BY <1>1, <1>2

\* Whatever came of it, the sum recorded is of the tree it was taken of, and a
\* failed first tree is remembered until the second is done.
LEMMA TreeDoneKeeps ==
  ASSUME BackupAssumption, IInv, More, InTree,
         NEW sum \in Own(Pkg, tree, runs), NEW broke \in BOOLEAN, TreeDone(sum, broke),
         UNCHANGED <<runVars, flag, ab, extras, manifest, outcome, runs>>,
         skipped' \subseteq Packages, skipped' # {} => flag',
         disk' \in [Files -> Contents \cup {Absent, Partial, Rotten}]
  PROVE  IInv'
<1>1. /\ TypeOK /\ Shape /\ Pkg \in Found /\ Found \subseteq Packages /\ Found' = Found
      /\ packages' = packages /\ opts' = opts /\ i' \in {i, i + 1} /\ tree \in Trees
      /\ runs > 0
  <2>1. TypeOK /\ Shape
    BY DEF IInv
  <2>2. Pkg \in Found /\ Found \subseteq Packages
    BY <2>1, InHand
  <2>3. Found' = Found /\ packages' = packages /\ opts' = opts
    BY DEF Found, runVars
  <2>4. i' \in {i, i + 1}
    BY DEF TreeDone, RootTreeDone, RunAsDone
  <2>5. tree \in Trees /\ runs > 0
    BY <2>1 DEF TypeOK, Shape, InTree
  <2> QED BY <2>1, <2>2, <2>3, <2>4, <2>5
<1>2. sum \in Contents \cup {Unlisted, Unsummed}
  BY <1>1, OwnIsTyped DEF Own
<1>3. i' \in 1..(Len(Order) + Len(Extras) + 1)
  BY <1>1, InHand DEF TypeOK, More
<1>4. ASSUME opts.mode = "root"
      PROVE  TypeOK' /\ Shape' /\ SumsAreOwn' /\ TroubleInHand'
  <2>1. RootTreeDone(sum, broke) /\ troubled' = IF broke THEN troubled \cup {Pkg} ELSE troubled
    BY <1>4 DEF TreeDone
  <2>2. /\ entries' \in [Found -> Entries]
        /\ \A p \in Found \ {Pkg} : entries'[p] = entries[p]
        /\ entries'[Pkg].sum = [entries[Pkg].sum EXCEPT ![tree] = sum]
        /\ entries'[Pkg].error = IF tree = "de" /\ (failed \/ broke)
                                   THEN "failed" ELSE entries[Pkg].error
    <3>1. TypeOK /\ Pkg \in Found
      BY <1>1
    <3>2. RootRecorded(sum, broke)
      BY <1>2, <2>1, <3>1, RootEntry
    <3> QED BY <3>2 DEF RootRecorded
  <2>3. TypeOK'
    <3>1. troubled' \subseteq Packages
      BY <1>1, <2>1 DEF TypeOK
    <3>2. failed' \in BOOLEAN /\ tree' \in Trees /\ pc' \in {"look", "package"}
          /\ remaining' = remaining
      BY <1>1, <2>1 DEF RootTreeDone, Trees, TypeOK
    <3> QED BY <1>1, <1>3, <2>2, <3>1, <3>2 DEF TypeOK, runVars
  <2>4. Shape'
    <3>1. /\ pc' \in {"look", "package"} /\ (pc' = "look" => i' = i)
          /\ pc # "idle" /\ runs' = runs /\ outcome' = outcome
      BY <2>1 DEF RootTreeDone, InTree
    <3> QED BY <1>1, <1>4, <3>1 DEF Shape, InTree, More
  <2>5. SumsAreOwn'
    <3>1. entries[Pkg].sum \in [Trees -> Contents \cup {Unlisted, Unsummed}]
      BY <1>1 DEF TypeOK, Entries
    <3>2. \A t \in Trees : entries'[Pkg].sum[t] \in Own(Pkg, t, runs)
      BY <1>1, <2>2, <3>1 DEF IInv, SumsAreOwn
    <3> QED BY <1>1, <2>2, <3>2 DEF IInv, SumsAreOwn, Own
  <2>6. TroubleInHand'
    <3>1. \A p \in troubled : p \in Found
                              /\ (entries[p].error # "" \/ (tree = "de" /\ failed /\ p = Pkg))
      BY DEF IInv, TroubleInHand, InTree
    <3>2. CASE tree = "ce"
      <4>1. pc' = "look" /\ tree' = "de" /\ failed' = broke /\ i' = i
        BY <2>1, <3>2 DEF RootTreeDone
      <4>2. \A p \in troubled : p \in Found /\ entries'[p].error # ""
        BY <1>1, <2>2, <3>1, <3>2
      <4>3. Pkg' = Pkg /\ InTree'
        BY <1>1, <4>1 DEF Pkg, InTree
      <4> QED BY <1>1, <2>1, <4>1, <4>2, <4>3 DEF TroubleInHand
    <3>3. CASE tree = "de"
      <4>1. \A p \in troubled' : p \in Found /\ entries'[p].error # ""
        BY <1>1, <2>1, <2>2, <3>1, <3>3
      <4> QED BY <1>1, <4>1 DEF TroubleInHand
    <3> QED BY <1>1, <3>2, <3>3 DEF Trees
  <2> QED BY <2>3, <2>4, <2>5, <2>6
<1>5. ASSUME opts.mode = "standard"
      PROVE  TypeOK' /\ Shape' /\ SumsAreOwn' /\ TroubleInHand'
  <2>1. RunAsDone(sum) /\ troubled' = troubled /\ tree = "ce" /\ pc' = "package"
    BY <1>1, <1>5 DEF TreeDone, RunAsDone, Shape, InTree
  <2>2. /\ entries' \in [Found -> Entries]
        /\ \A p \in Found \ {Pkg} : entries'[p] = entries[p]
        /\ entries'[Pkg].sum = IF sum = Unlisted THEN entries[Pkg].sum
                                 ELSE [entries[Pkg].sum EXCEPT !["ce"] = sum]
        /\ entries'[Pkg].error = entries[Pkg].error
    BY <1>1, <1>2, <2>1, RunAsEntry
  <2>3. TypeOK'
    <3>1. remaining' \subseteq Packages /\ tree' = tree /\ failed' = failed
      BY <1>1, <2>1 DEF RunAsDone, TypeOK
    <3> QED BY <1>1, <1>3, <2>1, <2>2, <3>1 DEF TypeOK, runVars
  <2>4. Shape'
    BY <1>1, <2>1 DEF Shape, InTree
  <2>5. SumsAreOwn'
    <3>1. entries[Pkg].sum \in [Trees -> Contents \cup {Unlisted, Unsummed}]
      BY <1>1 DEF TypeOK, Entries
    <3>2. \A t \in Trees : entries'[Pkg].sum[t] \in Own(Pkg, t, runs)
      BY <1>1, <2>1, <2>2, <3>1 DEF IInv, SumsAreOwn
    <3> QED BY <1>1, <2>2, <3>2 DEF IInv, SumsAreOwn, Own
  <2>6. TroubleInHand'
    <3>1. \A p \in troubled : p \in Found /\ entries[p].error # ""
      BY <2>1 DEF IInv, TroubleInHand, InTree
    <3>2. \A p \in troubled' : p \in Found /\ entries'[p].error # ""
      BY <1>1, <2>1, <2>2, <3>1
    <3> QED BY <1>1, <3>2 DEF TroubleInHand
  <2> QED BY <2>3, <2>4, <2>5, <2>6
<1>6. opts.mode \in {"root", "standard"}
  BY <1>1 DEF TypeOK, BackupAssumption
<1>7. pc' \in {"look", "package"}
  BY DEF TreeDone, RootTreeDone, RunAsDone
<1>8. ApksAhead' /\ pc \notin {"idle", "count"}
  BY <1>7 DEF ApksAhead, InTree
<1> QED BY <1>4, <1>5, <1>6, <1>7, <1>8, WorkKeeps

LEMMA LookForTreeKeeps ==
  ASSUME BackupAssumption, IInv, LookForTree
  PROVE  IInv'
<1>1. /\ More /\ InTree /\ pc = "look" /\ opts.mode = "root" /\ Pkg \in Found
      /\ Found \subseteq Packages
  BY InHand DEF IInv, Shape, LookForTree, InTree
<1>2. skipped' \subseteq Packages /\ (skipped' # {} => flag')
  BY <1>1 DEF IInv, TypeOK, SkipNeedsFlag, LookForTree
<1>3. CASE /\ ~flag /\ <<Pkg, tree>> \in Holds
           /\ pc' = "open"
           /\ UNCHANGED <<i, tree, failed, remaining, entries, troubled>>
  <2>1. TypeOK' /\ Shape'
    BY <1>1, <1>2, <1>3
       DEF IInv, TypeOK, Shape, LookForTree, InTree, More, runVars, dirVars, Found
  <2> QED BY <1>1, <1>2, <1>3, <2>1, QuietKeeps
      DEF LookForTree, runVars, dirVars, InTree, Pkg
<1>4. CASE TreeDone(Unlisted, FALSE)
  <2>1. /\ Unlisted \in Own(Pkg, tree, runs)
        /\ disk' \in [Files -> Contents \cup {Absent, Partial, Rotten}]
    BY DEF Own, IInv, TypeOK, LookForTree, dirVars
  <2> QED BY <1>1, <1>2, <1>4, <2>1, TreeDoneKeeps DEF LookForTree, dirVars
<1> QED BY <1>3, <1>4 DEF LookForTree

LEMMA OpenArchiveKeeps ==
  ASSUME BackupAssumption, IInv, OpenArchive
  PROVE  IInv'
<1>1. More /\ InTree /\ pc = "open" /\ runs > 0
  BY DEF IInv, Shape, OpenArchive, InTree
<1>2. skipped' \subseteq Packages /\ (skipped' # {} => flag')
  BY DEF IInv, TypeOK, SkipNeedsFlag, OpenArchive
<1>3. disk' \in [Files -> Contents \cup {Absent, Partial, Rotten}]
  BY DEF IInv, TypeOK, OpenArchive
<1>4. CASE flag
  <2>1. TreeDone(Unlisted, TRUE)
    BY <1>4 DEF OpenArchive
  <2>2. Unlisted \in Own(Pkg, tree, runs)
    BY DEF Own
  <2> QED BY <1>1, <1>2, <1>3, <2>1, <2>2, TreeDoneKeeps DEF OpenArchive
<1>5. CASE ~flag
  <2>1. TypeOK' /\ Shape'
    BY <1>1, <1>3, <1>5 DEF IInv, TypeOK, Shape, OpenArchive, InTree, More, runVars, Found
  <2> QED BY <1>1, <1>2, <1>5, <2>1, QuietKeeps DEF OpenArchive, runVars, InTree, Pkg
<1> QED BY <1>4, <1>5

LEMMA EndTransferKeeps ==
  ASSUME BackupAssumption, IInv, EndTransfer
  PROVE  IInv'
<1> DEFINE whole == Content(Pkg, tree, runs)
<1>1. More /\ InTree /\ runs > 0
  BY DEF IInv, Shape, EndTransfer, InTree
<1>2. skipped' \subseteq Packages /\ (skipped' # {} => flag')
  BY DEF IInv, TypeOK, SkipNeedsFlag, EndTransfer
<1>3. whole \in Contents
  BY <1>1, OwnIsTyped DEF IInv
<1>4. {Unlisted, Unsummed, whole} = Own(Pkg, tree, runs)
  BY DEF Own
<1> HIDE DEF whole
<1>5. \E sum \in {Unlisted, Unsummed, whole}, broke \in BOOLEAN, left \in {whole, Absent} :
         TreeDone(sum, broke) /\ disk' = [disk EXCEPT ![Stem(Pkg, tree)] = left]
  BY DEF EndTransfer, whole
<1>6. PICK sum \in {Unlisted, Unsummed, whole}, broke \in BOOLEAN, left \in {whole, Absent} :
         TreeDone(sum, broke) /\ disk' = [disk EXCEPT ![Stem(Pkg, tree)] = left]
  BY <1>5
<1>7. disk' \in [Files -> Contents \cup {Absent, Partial, Rotten}]
  BY <1>3, <1>6 DEF IInv, TypeOK
<1>8. sum \in Own(Pkg, tree, runs)
  BY <1>4
<1> QED BY <1>1, <1>2, <1>6, <1>7, <1>8, TreeDoneKeeps DEF EndTransfer

-----------------------------------------------------------------------------
(* The legacy archive.                                                     *)

\* The stage's end, whichever.
LEMMA LegacyKeeps ==
  ASSUME BackupAssumption, IInv, pc \in {"legacy", "confirm"}, pc' = "extras",
         entries' \in [Found -> Entries],
         \A p \in Found : /\ entries'[p].sum = entries[p].sum
                          /\ entries[p].error # "" => entries'[p].error # "",
         disk' \in [Files -> Contents \cup {Absent, Partial, Rotten}], ab' \in BOOLEAN,
         UNCHANGED <<runVars, flag, i, tree, failed, remaining, extras, manifest, outcome,
                     runs, skipped, troubled>>
  PROVE  IInv'
<1>1. Found' = Found
  BY DEF Found, runVars
<1>2. TypeOK' /\ Shape'
  BY <1>1 DEF IInv, TypeOK, Shape, InTree, runVars
<1>3. SumsAreOwn'
  BY <1>1 DEF IInv, SumsAreOwn, Own
<1>4. TroubleInHand' /\ ApksAhead'
  BY <1>1 DEF IInv, TroubleInHand, ApksAhead, InTree
<1>5. skipped' # {} => flag'
  BY DEF IInv, SkipNeedsFlag
<1> QED BY <1>2, <1>3, <1>4, <1>5, WorkKeeps

\* What the archive's failure, and its success, leave of an entry.
LEMMA EntryMarked ==
  ASSUME NEW e \in Entries
  PROVE  /\ [e EXCEPT !.error = "failed"] \in Entries
         /\ [e EXCEPT !.error = "failed"].sum = e.sum
         /\ [e EXCEPT !.error = "failed"].error = "failed"
         /\ [e EXCEPT !.method = "legacy"] \in Entries
         /\ [e EXCEPT !.method = "legacy"].sum = e.sum
         /\ [e EXCEPT !.method = "legacy"].error = e.error
BY DEF Entries

LEMMA LegacyFailsKeeps ==
  ASSUME BackupAssumption, IInv, pc \in {"legacy", "confirm"}, LegacyFails,
         UNCHANGED <<runVars, flag, i, tree, failed, remaining, extras, manifest, outcome,
                     runs, skipped, troubled>>
  PROVE  IInv'
<1>1. entries' = [p \in DOMAIN entries |->
                    IF p \in remaining THEN [entries[p] EXCEPT !.error = "failed"]
                                       ELSE entries[p]]
  BY DEF LegacyFails
<1>2. /\ entries' \in [Found -> Entries]
      /\ \A p \in Found : /\ entries'[p].sum = entries[p].sum
                          /\ entries[p].error # "" => entries'[p].error # ""
  <2>1. entries \in [Found -> Entries] /\ DOMAIN entries = Found
    BY DEF IInv, TypeOK
  <2>2. ASSUME NEW p \in Found
        PROVE  /\ entries'[p] \in Entries /\ entries'[p].sum = entries[p].sum
               /\ entries[p].error # "" => entries'[p].error # ""
    <3>1. CASE p \in remaining
      <4>1. entries'[p] = [entries[p] EXCEPT !.error = "failed"] /\ entries[p] \in Entries
        BY <1>1, <2>1, <3>1
      <4> QED BY <4>1, EntryMarked
    <3>2. CASE p \notin remaining
      BY <1>1, <2>1, <3>2
    <3> QED BY <3>1, <3>2
  <2>3. DOMAIN entries' = Found /\ entries' = [p \in Found |-> entries'[p]]
    BY <1>1, <2>1
  <2> QED BY <2>2, <2>3
<1>3. disk' \in [Files -> Contents \cup {Absent, Partial, Rotten}] /\ ab' \in BOOLEAN
  BY DEF LegacyFails, IInv, TypeOK
<1> QED BY <1>2, <1>3, LegacyKeeps DEF LegacyFails

LEMMA StartLegacyKeeps ==
  ASSUME BackupAssumption, IInv, StartLegacy
  PROVE  IInv'
<1>1. CASE flag
  BY <1>1, LegacyFailsKeeps DEF StartLegacy
<1>2. CASE ~flag
  <2>1. /\ pc = "legacy" /\ pc' = "confirm" /\ disk' = [disk EXCEPT ![AbFile] = Partial]
        /\ UNCHANGED <<opts, packages, runAs, flag, i, tree, failed, remaining, entries, ab, extras,
                       manifest, outcome, runs, skipped, troubled>>
    BY <1>2 DEF StartLegacy, runVars
  <2>2. TypeOK'
    <3>1. disk' \in [Files -> Contents \cup {Absent, Partial, Rotten}]
      BY <2>1 DEF IInv, TypeOK
    <3> QED BY <2>1, <3>1 DEF IInv, TypeOK, Found
  <2>3. Shape'
    BY <2>1 DEF IInv, Shape, InTree
  <2>4. skipped' # {} => flag'
    BY <2>1 DEF IInv, SkipNeedsFlag
  <2> QED BY <2>1, <2>2, <2>3, <2>4, QuietKeeps DEF InTree
<1> QED BY <1>1, <1>2

LEMMA EndLegacyKeeps ==
  ASSUME BackupAssumption, IInv, EndLegacy
  PROVE  IInv'
<1>1. CASE LegacyFails
  BY <1>1, LegacyFailsKeeps DEF EndLegacy
<1>2. CASE /\ entries' = [p \in DOMAIN entries |->
                            IF p \in remaining THEN [entries[p] EXCEPT !.method = "legacy"]
                                               ELSE entries[p]]
           /\ disk' = [disk EXCEPT ![AbFile] = Content(AbFile, "ab", runs)]
           /\ ab' = TRUE
           /\ pc' = "extras"
  <2>1. /\ entries' \in [Found -> Entries]
        /\ \A p \in Found : /\ entries'[p].sum = entries[p].sum
                            /\ entries[p].error # "" => entries'[p].error # ""
    <3>1. entries \in [Found -> Entries] /\ DOMAIN entries = Found
      BY DEF IInv, TypeOK
    <3>2. ASSUME NEW p \in Found
          PROVE  /\ entries'[p] \in Entries /\ entries'[p].sum = entries[p].sum
                 /\ entries[p].error # "" => entries'[p].error # ""
      <4>1. CASE p \in remaining
        <5>1. entries'[p] = [entries[p] EXCEPT !.method = "legacy"] /\ entries[p] \in Entries
          BY <1>2, <3>1, <4>1
        <5> QED BY <5>1, EntryMarked
      <4>2. CASE p \notin remaining
        BY <1>2, <3>1, <4>2
      <4> QED BY <4>1, <4>2
    <3>3. DOMAIN entries' = Found /\ entries' = [p \in Found |-> entries'[p]]
      BY <1>2, <3>1
    <3> QED BY <3>2, <3>3
  <2>2. runs \in Runs
    BY DEF IInv, TypeOK, Shape, EndLegacy, BackupAssumption, Runs
  <2>3. Content(AbFile, "ab", runs) \in Contents
    BY <2>2 DEF Content, Contents
  <2>4. disk' \in [Files -> Contents \cup {Absent, Partial, Rotten}] /\ ab' \in BOOLEAN
    BY <1>2, <2>3 DEF IInv, TypeOK
  <2> QED BY <1>2, <2>1, <2>4, LegacyKeeps DEF EndLegacy
<1> QED BY <1>1, <1>2 DEF EndLegacy

-----------------------------------------------------------------------------
(* The marks and the manifest.                                             *)

LEMMA MarkUnreachedKeeps ==
  ASSUME BackupAssumption, IInv, MarkUnreached
  PROVE  IInv'
<1>1. Found' = Found /\ entries \in [Found -> Entries] /\ DOMAIN entries = Found
  <2>1. Found' = Found
    BY DEF Found, MarkUnreached, runVars
  <2>2. entries \in [Found -> Entries]
    BY DEF IInv, TypeOK
  <2> QED BY <2>1, <2>2
<1>2. ASSUME NEW p \in Found
      PROVE  /\ entries'[p] \in Entries /\ entries'[p].sum = entries[p].sum
             /\ entries[p].error # "" => entries'[p].error # ""
             /\ flag /\ entries'[p].error = "" => Included(entries'[p])
  BY <1>1 DEF MarkUnreached, Entries, Included
<1>3. TypeOK' /\ Shape'
  <2>1. entries' \in [Found -> Entries]
    BY <1>1, <1>2 DEF MarkUnreached
  <2> QED BY <1>1, <2>1 DEF IInv, TypeOK, Shape, InTree, MarkUnreached, runVars, dirVars
<1>4. SumsAreOwn' /\ ManifestIsOwn'
  BY <1>1, <1>2 DEF IInv, SumsAreOwn, ManifestIsOwn, MarkUnreached, dirVars, Own, Content
<1>5. RunOrder' /\ SkipNeedsFlag' /\ ApksAhead' /\ ~OwnManifest'
  BY DEF IInv, RunOrder, SkipNeedsFlag, ApksAhead, OwnManifest, MarkUnreached, dirVars
<1>6. TroubleInHand'
  BY <1>1, <1>2 DEF IInv, TroubleInHand, InTree, MarkUnreached
<1>7. MarksAreMade'
  BY <1>1, <1>2 DEF IInv, MarksAreMade, SkipNeedsFlag, MarkUnreached
<1>8. SuccessIsComplete' /\ TroubleIsMarked' /\ EmptyAndCleanWasReached'
  BY <1>5 DEF IInv, Shape, SuccessIsComplete, TroubleIsMarked, EmptyAndCleanWasReached,
              MarkUnreached
<1> QED BY <1>3, <1>4, <1>5, <1>6, <1>7, <1>8 DEF IInv

LEMMA StartManifestKeeps ==
  ASSUME BackupAssumption, IInv, StartManifest
  PROVE  IInv'
<1>1. CASE UNCHANGED manifest /\ Stop("failed")
  BY <1>1, StopKeeps DEF StartManifest
<1>2. CASE /\ manifest' = Torn
           /\ pc' = "writing"
           /\ UNCHANGED <<opts, localVars, disk, outcome, runs, historyVars>>
  <2>1. Found' = Found /\ manifest'.run = 0 /\ runs' = runs /\ runs > 0 /\ runs \in Nat
    BY <1>2 DEF Found, localVars, Torn, IInv, Shape, StartManifest, TypeOK, BackupAssumption
  <2>2. TypeOK' /\ Shape'
    BY <1>2, <2>1 DEF IInv, TypeOK, Shape, InTree, StartManifest, localVars, historyVars
  <2>3. SumsAreOwn' /\ ManifestIsOwn'
    BY <1>2, <2>1 DEF IInv, SumsAreOwn, ManifestIsOwn, localVars, Own, Content
  <2>4. RunOrder' /\ ~OwnManifest'
    BY <1>2, <2>1 DEF RunOrder, OwnManifest
  <2>5. SkipNeedsFlag' /\ ApksAhead'
    BY <1>2 DEF IInv, SkipNeedsFlag, ApksAhead, StartManifest, localVars, historyVars
  <2>6. TroubleInHand' /\ MarksAreMade'
    BY <1>2, <2>1 DEF IInv, TroubleInHand, MarksAreMade, InTree, StartManifest, localVars,
                      historyVars, Included
  <2>7. SuccessIsComplete' /\ TroubleIsMarked' /\ EmptyAndCleanWasReached'
    BY <1>2, <2>4 DEF IInv, Shape, SuccessIsComplete, TroubleIsMarked,
                      EmptyAndCleanWasReached, StartManifest
  <2> QED BY <2>2, <2>3, <2>4, <2>5, <2>6, <2>7 DEF IInv
<1> QED BY <1>1, <1>2 DEF StartManifest

LEMMA EndManifestKeeps ==
  ASSUME BackupAssumption, IInv, EndManifest
  PROVE  IInv'
<1>1. CASE UNCHANGED manifest /\ Stop("failed")
  BY <1>1, StopKeeps DEF EndManifest
<1>3. CASE /\ UNCHANGED manifest
           /\ pc' = "count"
           /\ UNCHANGED <<opts, localVars, disk, outcome, runs, historyVars>>
  <2>1. Found' = Found /\ runs' = runs /\ manifest' = manifest /\ pc = "writing"
    BY <1>3 DEF Found, localVars, EndManifest
  <2>2. TypeOK' /\ Shape'
    BY <1>3, <2>1 DEF IInv, TypeOK, Shape, InTree, localVars, historyVars
  <2>3. SumsAreOwn' /\ ManifestIsOwn'
    BY <1>3, <2>1 DEF IInv, SumsAreOwn, ManifestIsOwn, localVars, Own, Content
  <2>4. RunOrder' /\ ~OwnManifest'
    BY <1>3, <2>1 DEF IInv, RunOrder, OwnManifest
  <2>5. SkipNeedsFlag' /\ ApksAhead' /\ TroubleInHand' /\ MarksAreMade'
    BY <1>3 DEF IInv, SkipNeedsFlag, ApksAhead, TroubleInHand, MarksAreMade, EndManifest,
                localVars, historyVars
  <2>6. SuccessIsComplete' /\ TroubleIsMarked' /\ EmptyAndCleanWasReached'
    BY <1>3, <2>1, <2>4 DEF IInv, Shape, SuccessIsComplete, TroubleIsMarked,
                            EmptyAndCleanWasReached
  <2> QED BY <2>2, <2>3, <2>4, <2>5, <2>6 DEF IInv
<1>2. CASE /\ manifest' = [run |-> runs, torn |-> FALSE, mode |-> opts.mode,
                           entries |-> entries, ab |-> ab, extras |-> extras]
           /\ pc' = "count"
           /\ UNCHANGED <<opts, localVars, disk, outcome, runs, historyVars>>
  <2>1. /\ Found' = Found /\ manifest'.run = runs /\ manifest'.entries = entries
        /\ runs' = runs /\ runs > 0 /\ runs \in Nat /\ DOMAIN entries = Found
    BY <1>2 DEF Found, localVars, IInv, Shape, EndManifest, TypeOK, BackupAssumption
  <2>2. TypeOK' /\ Shape'
    BY <1>2, <2>1 DEF IInv, TypeOK, Shape, InTree, EndManifest, localVars, historyVars
  <2>3. SumsAreOwn'
    BY <1>2, <2>1 DEF IInv, SumsAreOwn, localVars, Own, Content
  <2>4. ManifestIsOwn'
    BY <2>1 DEF IInv, SumsAreOwn, ManifestIsOwn, Own, Content
  <2>5. RunOrder' /\ SkipNeedsFlag' /\ ApksAhead' /\ TroubleInHand' /\ MarksAreMade'
    BY <1>2, <2>1 DEF IInv, RunOrder, OwnManifest, SkipNeedsFlag, ApksAhead, TroubleInHand,
                      MarksAreMade, EndManifest, localVars, historyVars
  <2>6. SuccessIsComplete'
    BY <1>2 DEF IInv, Shape, SuccessIsComplete, EndManifest
  <2>7. \A p \in troubled : entries[p].error # ""
    BY DEF IInv, TroubleInHand, InTree, EndManifest
  <2>8. TroubleIsMarked' /\ EmptyAndCleanWasReached'
    BY <1>2, <2>1, <2>7 DEF IInv, TroubleIsMarked, EmptyAndCleanWasReached, Clean,
                            MarksAreMade, EndManifest, historyVars
  <2> QED BY <2>2, <2>3, <2>4, <2>5, <2>6, <2>8 DEF IInv
<1> QED BY <1>1, <1>2, <1>3 DEF EndManifest

-----------------------------------------------------------------------------
(* The theorems.                                                           *)

LEMMA InitHolds ==
  ASSUME BackupAssumption, Init
  PROVE  IInv
<1>1. Found = {} /\ entries = EmptyEntries /\ manifest.run = 0 /\ runs = 0
  BY DEF Init, Found, NoManifest
<1>2. TypeOK
  <2>1. opts \in Options
    BY DEF Init, BackupAssumption
  <2>2. entries \in [Found -> Entries]
    BY <1>1 DEF EmptyEntries
  <2>3. i \in 1..(Len(Order) + Len(Extras) + 1) /\ runs \in 0..MaxRuns
    BY DEF Init, BackupAssumption
  <2> QED BY <2>1, <2>2, <2>3 DEF Init, TypeOK, Trees
<1>3. Shape /\ SumsAreOwn /\ ManifestIsOwn /\ RunOrder /\ SkipNeedsFlag
  BY <1>1 DEF Init, Shape, SumsAreOwn, ManifestIsOwn, RunOrder, SkipNeedsFlag, InTree
<1>4. TroubleInHand /\ ApksAhead /\ MarksAreMade /\ ~OwnManifest
  BY <1>1 DEF Init, TroubleInHand, ApksAhead, MarksAreMade, OwnManifest
<1>5. SuccessIsComplete /\ TroubleIsMarked /\ EmptyAndCleanWasReached
  BY <1>4 DEF Init, SuccessIsComplete, TroubleIsMarked, EmptyAndCleanWasReached
<1> QED BY <1>2, <1>3, <1>4, <1>5 DEF IInv

LEMMA NextKeeps ==
  ASSUME BackupAssumption, IInv, [Next]_vars
  PROVE  IInv'
<1>1. CASE Begin
  BY <1>1, BeginKeeps
<1>2. CASE DeviceStep
  BY <1>2, QueryKeeps, ListKeeps, PullApksKeeps, StartDataKeeps, LookForTreeKeeps,
     EndTransferKeeps, EndLegacyKeeps, CaptureExtraKeeps DEF DeviceStep
<1>3. CASE LocalStep
  <2>1. Count => IInv'
    BY StopKeeps DEF Count
  <2> QED BY <1>3, <2>1, LeaveApksKeeps, NextPackageKeeps, OpenArchiveKeeps,
             StartLegacyKeeps, LeaveExtrasKeeps, MarkUnreachedKeeps,
             StartManifestKeeps, EndManifestKeeps DEF LocalStep
<1>4. CASE Cancel
  BY <1>4, CancelKeeps
<1>5. CASE Kill
  BY <1>5, StopKeeps DEF Kill
<1>6. CASE UNCHANGED vars
  <2>1. TypeOK'
    BY <1>6 DEF vars, IInv, TypeOK, Found
  <2>2. Shape'
    BY <1>6 DEF vars, IInv, Shape, InTree, More
  <2>3. SumsAreOwn' /\ ManifestIsOwn'
    BY <1>6 DEF vars, IInv, SumsAreOwn, ManifestIsOwn, Found, Own, Content
  <2>4. RunOrder' /\ SkipNeedsFlag' /\ ApksAhead'
    BY <1>6 DEF vars, IInv, RunOrder, SkipNeedsFlag, ApksAhead, OwnManifest
  <2>5. TroubleInHand' /\ MarksAreMade'
    <3>1. Found' = Found /\ Pkg' = Pkg /\ InTree' = InTree
      BY <1>6 DEF vars, Found, Pkg, InTree
    <3>2. TroubleInHand'
      BY <1>6, <3>1 DEF vars, IInv, TroubleInHand
    <3>3. MarksAreMade'
      BY <1>6, <3>1 DEF vars, IInv, MarksAreMade, Included
    <3> QED BY <3>2, <3>3
  <2>6. SuccessIsComplete' /\ TroubleIsMarked' /\ EmptyAndCleanWasReached'
    BY <1>6 DEF vars, IInv, SuccessIsComplete, TroubleIsMarked, EmptyAndCleanWasReached,
                OwnManifest, Clean, Included
  <2> QED BY <2>1, <2>2, <2>3, <2>4, <2>5, <2>6 DEF IInv
<1> QED BY <1>1, <1>2, <1>3, <1>4, <1>5, <1>6 DEF Next

\* The strengthened invariant holds from the start of the first run on.
THEOREM Invariant == Spec => []IInv
<1>1. Init => IInv
  BY BackupAssumption, InitHolds
<1>2. IInv /\ [Next]_vars => IInv'
  BY BackupAssumption, NextKeeps
<1> QED BY <1>1, <1>2, PTL DEF Spec

\* Every variable keeps its type (BackupManager::runBackup and its backends).
THEOREM TypeCorrect == Spec => []TypeOK
<1>1. IInv => TypeOK
  BY DEF IInv
<1> QED BY <1>1, Invariant, PTL

\* An archive that passes its recorded checksum is that package's own tree as
\* the manifest's run captured it, at every moment of every later run: what
\* the checks of a verify and of a restore can rely on.
THEOREM AcceptedArchivesAreOwn == Spec => []AcceptedIsOwn
<1>1. ASSUME IInv
      PROVE  AcceptedIsOwn
  <2> SUFFICES ASSUME NEW p \in Packages, NEW t \in Trees,
                      Accepted(p, t), manifest.entries[p].sum[t] # Unsummed
               PROVE  disk[Stem(p, t)] = Content(p, t, manifest.run)
    BY DEF AcceptedIsOwn
  <2>1. manifest.entries[p].sum[t] = Content(p, t, manifest.run)
    BY <1>1 DEF IInv, ManifestIsOwn, Accepted, Own
  <2>2. disk[Stem(p, t)] = manifest.entries[p].sum[t]
    BY DEF Accepted, Matches
  <2> QED BY <2>1, <2>2
<1> QED BY <1>1, Invariant, PTL

\* A run that reports success was kept from no step it asked for by a cancel,
\* and has written its manifest, unless that was cut off unnoticed in the last
\* flush (the count at the end of runBackup).
THEOREM SuccessIsWhole == Spec => []SuccessIsComplete
<1>1. IInv => SuccessIsComplete
  BY DEF IInv
<1> QED BY <1>1, Invariant, PTL

\* A package one of whose captures failed has an error in the manifest, though
\* three stages write that field one after the other.
THEOREM TroublesAreMarked == Spec => []TroubleIsMarked
<1>1. IInv => TroubleIsMarked
  BY DEF IInv
<1> QED BY <1>1, Invariant, PTL

\* An entry without content and without error was reached by every stage: the
\* marks runBackup makes before it writes the manifest miss nobody.
THEOREM EmptyEntriesWereReached == Spec => []EmptyAndCleanWasReached
<1>1. IInv => EmptyAndCleanWasReached
  BY DEF IInv
<1> QED BY <1>1, Invariant, PTL

-----------------------------------------------------------------------------
(* A manifest verifies when its run ends, as far as archives with a name   *)
(* of their own go.                                                        *)

\* No tree still to come has a sum.
AheadUnlisted ==
  /\ pc \in {"apks", "data"} => \A p \in Found, t \in Trees : entries[p].sum[t] = Unlisted
  /\ pc \in {"package", "look", "open", "transfer"} =>
       \A k \in i..Len(packages), t \in Trees :
         \/ entries[packages[k]].sum[t] = Unlisted
         \/ InTree /\ tree = "de" /\ k = i /\ t = "ce"

SumMatches(p, t) ==
  OwnName(p, t) /\ entries[p].sum[t] # Unlisted => Matches(disk[Stem(p, t)], entries[p].sum[t])
DiskIsSummed == pc # "idle" => \A p \in Found, t \in Trees : SumMatches(p, t)

AbInOrder ==
  /\ pc \notin {"extras", "mark", "write", "writing", "count"} => ~ab
  /\ ab => disk[AbFile] = Content(AbFile, "ab", runs)

DInv == AheadUnlisted /\ DiskIsSummed /\ AbInOrder /\ FreshManifestVerifies

LEMMA StemsApart ==
  ASSUME BackupAssumption, NEW p \in Packages, NEW q \in Packages,
         NEW t \in Trees, NEW u \in Trees, OwnName(p, t)
  PROVE  /\ Stem(q, u) = Stem(p, t) => q = p /\ u = t
         /\ Stem(p, t) # AbFile
BY DEF BackupAssumption, OwnName, Stem, Trees

\* The packages after the one in hand are others.
LEMMA OthersAhead ==
  ASSUME BackupAssumption, TypeOK, More
  PROVE  \A k \in i + 1..Len(packages) : packages[k] # Pkg /\ packages[k] \in Found
<1>1. i \in 1..Len(packages) /\ Len(packages) \in Nat
  BY InHand DEF TypeOK, More
<1>2. CASE packages = Order
  BY <1>1, <1>2 DEF BackupAssumption, Pkg, Found
<1>3. CASE packages = <<>>
  BY <1>1, <1>3
<1> QED BY <1>2, <1>3 DEF TypeOK

\* Before its manifest is written, a run has none to verify.
LEMMA NotYetOwn ==
  ASSUME IInv', pc' \notin {"idle", "count"}
  PROVE  FreshManifestVerifies'
BY DEF IInv, RunOrder, OwnManifest, FreshManifestVerifies

LEMMA StopVerifies ==
  ASSUME DInv, NEW how, Stop(how), manifest' = manifest
  PROVE  DInv'
<1>1. AheadUnlisted' /\ DiskIsSummed' /\ AbInOrder'
  BY DEF Stop, AheadUnlisted, DiskIsSummed, AbInOrder
<1>2. FreshManifestVerifies'
  BY DEF Stop, DInv, FreshManifestVerifies, OwnManifest, Accepted
<1> QED BY <1>1, <1>2 DEF DInv

\* A step that changes neither sums nor archives.
LEMMA QuietVerifies ==
  ASSUME IInv', DInv, pc \notin {"idle", "count"}, pc' \notin {"idle", "count"},
         UNCHANGED <<packages, disk, ab, runs>>,
         \A p \in Found : entries'[p].sum = entries[p].sum,
         pc' \notin {"extras", "mark", "write", "writing"} =>
           pc \notin {"extras", "mark", "write", "writing"},
         AheadUnlisted'
  PROVE  DInv'
<1>1. Found' = Found
  BY DEF Found
<1>2. DiskIsSummed'
  BY <1>1 DEF DInv, DiskIsSummed, SumMatches
<1>3. AbInOrder'
  BY DEF DInv, AbInOrder, Content
<1> QED BY <1>2, <1>3, NotYetOwn DEF DInv

\* A tree is done, and its sum, if it has one, is that of its archive.
LEMMA TreeDoneVerifies ==
  ASSUME BackupAssumption, IInv, IInv', DInv, More, InTree,
         NEW sum \in Own(Pkg, tree, runs), NEW broke \in BOOLEAN, TreeDone(sum, broke),
         UNCHANGED <<runVars, ab, runs>>,
         \A f \in Files \ {Stem(Pkg, tree)} : disk'[f] = disk[f],
         sum # Unlisted => Matches(disk'[Stem(Pkg, tree)], sum)
  PROVE  DInv'
<1>1. /\ TypeOK /\ Shape /\ Pkg \in Found /\ Found \subseteq Packages /\ Found' = Found
      /\ packages' = packages /\ tree \in Trees /\ runs > 0 /\ i \in 1..Len(packages)
      /\ Len(packages) \in Nat
  <2>1. TypeOK /\ Shape /\ pc \in {"look", "open", "transfer"}
    BY DEF IInv, InTree
  <2>2. Pkg \in Found /\ Found \subseteq Packages /\ Len(packages) \in Nat
    BY <2>1, InHand
  <2>3. Found' = Found /\ packages' = packages
    BY DEF Found, runVars
  <2>4. tree \in Trees /\ runs > 0 /\ i \in Nat /\ i >= 1
    BY <2>1, InHand DEF TypeOK, Shape
  <2>5. i \in 1..Len(packages)
    BY <2>2, <2>4 DEF More
  <2> QED BY <2>1, <2>2, <2>3, <2>4, <2>5
<1>2. sum \in Contents \cup {Unlisted, Unsummed}
  BY <1>1, OwnIsTyped DEF Own
<1>3. entries[Pkg].sum \in [Trees -> Contents \cup {Unlisted, Unsummed}]
      /\ entries[Pkg].sum[tree] = Unlisted
  <2>1. entries[Pkg].sum \in [Trees -> Contents \cup {Unlisted, Unsummed}]
    BY <1>1 DEF TypeOK, Entries
  <2>2. i \in i..Len(packages) /\ pc \in {"look", "open", "transfer"}
    BY <1>1 DEF InTree
  <2>3. entries[packages[i]].sum[tree] = Unlisted
    BY <1>1, <2>2 DEF DInv, AheadUnlisted
  <2> QED BY <2>1, <2>3 DEF Pkg
<1>4. /\ \A p \in Found \ {Pkg} : entries'[p] = entries[p]
      /\ \A t \in Trees : entries'[Pkg].sum[t] = IF t = tree THEN sum ELSE entries[Pkg].sum[t]
      /\ \/ pc' = "package" /\ i' = i + 1
         \/ pc' = "look" /\ i' = i /\ tree = "ce" /\ tree' = "de"
  <2>1. CASE opts.mode = "root"
    <3>1. RootTreeDone(sum, broke)
      BY <2>1 DEF TreeDone
    <3>2. /\ \A p \in Found \ {Pkg} : entries'[p] = entries[p]
          /\ entries'[Pkg].sum = [entries[Pkg].sum EXCEPT ![tree] = sum]
      <4>1. TypeOK /\ Pkg \in Found
        BY <1>1
      <4>2. RootRecorded(sum, broke)
        BY <1>2, <3>1, <4>1, RootEntry
      <4> QED BY <4>2 DEF RootRecorded
    <3>3. \/ pc' = "package" /\ i' = i + 1
          \/ pc' = "look" /\ i' = i /\ tree = "ce" /\ tree' = "de"
      BY <1>1, <3>1 DEF RootTreeDone, Trees
    <3> QED BY <1>1, <1>3, <3>2, <3>3
  <2>2. CASE opts.mode = "standard"
    <3>1. RunAsDone(sum) /\ tree = "ce"
      BY <1>1, <2>2 DEF TreeDone, Shape, InTree
    <3>2. CASE sum = Unlisted
      BY <1>1, <1>3, <3>1, <3>2 DEF RunAsDone
    <3>3. CASE sum # Unlisted
      <4>1. /\ \A p \in Found \ {Pkg} : entries'[p] = entries[p]
            /\ entries'[Pkg].sum = [entries[Pkg].sum EXCEPT !["ce"] = sum]
        BY <1>1, <1>2, <3>1, <3>3, RunAsEntry
      <4>2. pc' = "package" /\ i' = i + 1
        BY <3>1 DEF RunAsDone
      <4> QED BY <1>3, <3>1, <4>1, <4>2
    <3> QED BY <3>2, <3>3
  <2> QED BY <1>1, <2>1, <2>2 DEF TypeOK, BackupAssumption
<1>5. DiskIsSummed'
  <2> SUFFICES ASSUME NEW p \in Found, NEW t \in Trees, OwnName(p, t),
                      entries'[p].sum[t] # Unlisted
               PROVE  Matches(disk'[Stem(p, t)], entries'[p].sum[t])
    BY <1>1 DEF DiskIsSummed, SumMatches
  <2>1. CASE p = Pkg /\ t = tree
    BY <1>4, <2>1
  <2>2. CASE ~(p = Pkg /\ t = tree)
    <3>1. entries'[p].sum[t] = entries[p].sum[t]
      BY <1>4, <2>2
    <3>2. Stem(p, t) \in Files /\ Stem(p, t) # Stem(Pkg, tree)
      BY <1>1, <2>2, StemsApart DEF Files
    <3>3. SumMatches(p, t)
      BY <1>1 DEF DInv, DiskIsSummed, InTree
    <3> QED BY <3>1, <3>2, <3>3 DEF SumMatches
  <2> QED BY <2>1, <2>2
<1>6. AheadUnlisted'
  <2>1. \A k \in i + 1..Len(packages) : packages[k] \in Found \ {Pkg}
    BY <1>1, OthersAhead
  <2>2. \A k \in i + 1..Len(packages), t \in Trees : entries'[packages[k]].sum[t] = Unlisted
    <3> TAKE k \in i + 1..Len(packages), t \in Trees
    <3>1. k \in i..Len(packages) /\ k # i
      BY <1>1
    <3>2. entries[packages[k]].sum[t] = Unlisted
      BY <3>1 DEF DInv, AheadUnlisted, InTree
    <3> QED BY <1>4, <2>1, <3>2
  <2>3. CASE pc' = "package" /\ i' = i + 1
    BY <1>1, <2>2, <2>3 DEF AheadUnlisted
  <2>4. CASE pc' = "look" /\ i' = i /\ tree = "ce" /\ tree' = "de"
    <3>1. \A k \in i..Len(packages) : k = i \/ k \in i + 1..Len(packages)
      BY <1>1
    <3>2. entries'[packages[i]].sum["de"] = Unlisted
      <4>1. i \in i..Len(packages) /\ "de" \in Trees /\ pc \in {"look", "open", "transfer"}
        BY <1>1 DEF Trees, InTree
      <4>2. entries[Pkg].sum["de"] = Unlisted
        BY <4>1 DEF DInv, AheadUnlisted, Pkg
      <4> QED BY <1>4, <2>4, <4>1, <4>2 DEF Pkg
    <3> QED BY <1>1, <2>2, <2>4, <3>1, <3>2 DEF AheadUnlisted, InTree, Trees
  <2> QED BY <1>4, <2>3, <2>4
<1>7. AbInOrder'
  <2>1. ~ab /\ pc' \notin {"idle", "count"}
    BY <1>4 DEF DInv, AbInOrder, InTree
  <2> QED BY <2>1 DEF AbInOrder
<1>8. FreshManifestVerifies'
  BY <1>4, NotYetOwn
<1> QED BY <1>5, <1>6, <1>7, <1>8 DEF DInv

\* The step of each stage keeps what a verify at the end relies on.
LEMMA EarlyVerifies ==
  ASSUME BackupAssumption, IInv, IInv', DInv,
         Begin \/ Query \/ List \/ (\E how \in ApkOutcomes : PullApks(how))
               \/ LeaveApks \/ StartData
  PROVE  DInv'
<1>1. CASE Begin
  <2>1. ~ab /\ Found' = {} /\ pc' = "query"
    BY <1>1 DEF Begin, DInv, AbInOrder, IInv, Shape, Found, localVars
  <2>2. AheadUnlisted' /\ DiskIsSummed' /\ AbInOrder'
    BY <1>1, <2>1 DEF Begin, localVars, AheadUnlisted, DiskIsSummed, AbInOrder
  <2> QED BY <2>1, <2>2, NotYetOwn DEF DInv
<1>2. CASE Query
  <2>1. CASE Stop("failed")
    BY <1>2, <2>1, StopVerifies DEF Query
  <2>2. CASE ~flag /\ pc' = "list"
             /\ UNCHANGED <<opts, localVars, disk, outcome, runs, historyVars>>
    <3>1. AheadUnlisted'
      BY <2>2 DEF AheadUnlisted
    <3> QED BY <1>2, <2>2, <3>1, QuietVerifies DEF Query, localVars
  <2> QED BY <1>2, <2>1, <2>2 DEF Query
<1>3. CASE List
  <2>1. CASE Stop("failed")
    BY <1>3, <2>1, StopVerifies DEF List
  <2>2. CASE ~Stop("failed")
    <3>1. PICK found \in {Order, <<>>} :
             /\ pc' = "apks" /\ packages' = found
             /\ entries' = [p \in {found[k] : k \in 1..Len(found)} |-> NewEntry]
             /\ UNCHANGED <<disk, runs, ab>>
      BY <1>3, <2>2 DEF List
    <3>2. \A p \in Found', t \in Trees : entries'[p].sum[t] = Unlisted
      BY <3>1 DEF Found, NewEntry
    <3>3. AheadUnlisted' /\ DiskIsSummed'
      BY <3>1, <3>2 DEF AheadUnlisted, DiskIsSummed, SumMatches
    <3>4. AbInOrder'
      BY <1>3, <3>1 DEF DInv, AbInOrder, List
    <3> QED BY <3>1, <3>3, <3>4, NotYetOwn DEF DInv
  <2> QED BY <2>1, <2>2
<1>4. ASSUME NEW how \in ApkOutcomes, PullApks(how)
      PROVE  DInv'
  <2>1. \A p \in Found : entries'[p].sum = entries[p].sum
    <3> DEFINE a == how \in {"all", "some"}
    <3>1. entries \in [Found -> Entries] /\ Pkg \in Found
      BY <1>4, InHand DEF IInv, TypeOK, PullApks
    <3>2. entries' = [entries EXCEPT ![Pkg].apk = a, ![Pkg].error = ApkError(how)]
      BY <1>4 DEF PullApks
    <3>3. /\ entries' = [entries EXCEPT ![Pkg] =
                           [entries[Pkg] EXCEPT !.apk = a, !.error = ApkError(how)]]
          /\ entries[Pkg] \in Entries
      BY <3>1, <3>2 DEF Entries
    <3> HIDE DEF a
    <3>4. [entries[Pkg] EXCEPT !.apk = a, !.error = ApkError(how)].sum = entries[Pkg].sum
      BY <3>3 DEF Entries
    <3> QED BY <3>1, <3>3, <3>4
  <2>2. AheadUnlisted'
    <3>1. Found' = Found /\ pc = "apks" /\ pc' = "apks"
      BY <1>4 DEF PullApks, Found, runVars
    <3> QED BY <2>1, <3>1 DEF DInv, AheadUnlisted
  <2> QED BY <1>4, <2>1, <2>2, QuietVerifies DEF PullApks, runVars, dirVars
<1>5. CASE LeaveApks
  <2>1. AheadUnlisted'
    BY <1>5 DEF DInv, AheadUnlisted, LeaveApks, Found, runVars
  <2> QED BY <1>5, <2>1, QuietVerifies DEF LeaveApks, runVars, dirVars
<1>6. CASE StartData
  <2>1. \A k \in i..Len(packages) : packages[k] \in Found
    BY InHand DEF IInv, TypeOK, Found
  <2>2. AheadUnlisted'
    BY <1>6, <2>1 DEF DInv, AheadUnlisted, StartData, Found
  <2>3. pc' \in {"package", "extras"}
    BY <1>6 DEF StartData
  <2> QED BY <1>6, <2>2, <2>3, QuietVerifies DEF StartData, dirVars
<1> QED BY <1>1, <1>2, <1>3, <1>4, <1>5, <1>6

LEMMA CaptureVerifies ==
  ASSUME BackupAssumption, IInv, IInv', DInv,
         NextPackage \/ LookForTree \/ OpenArchive \/ EndTransfer
  PROVE  DInv'
<1>1. CASE NextPackage
  <2>1. pc' \in {"extras", "legacy", "look", "open", "package"}
    BY <1>1 DEF NextPackage
  <2>2. AheadUnlisted'
    <3>1. i \in Nat /\ Len(packages) \in Nat
      BY InHand DEF IInv, TypeOK
    <3>2. \A k \in i..Len(packages), t \in Trees : entries[packages[k]].sum[t] = Unlisted
      BY <1>1 DEF DInv, AheadUnlisted, NextPackage, InTree
    <3>3. pc' \in {"look", "open", "package"} => i' \in {i, i + 1}
      BY <1>1, <2>1 DEF NextPackage
    <3>4. UNCHANGED <<packages, entries>>
      BY <1>1 DEF NextPackage, runVars
    <3>5. ASSUME pc' \in {"look", "open", "package"}, NEW k \in i'..Len(packages), NEW t \in Trees
          PROVE  entries[packages[k]].sum[t] = Unlisted
      <4>1. k \in i..Len(packages)
        BY <3>1, <3>3, <3>5
      <4> QED BY <3>2, <4>1
    <3> QED BY <2>1, <3>4, <3>5 DEF AheadUnlisted
  <2> QED BY <1>1, <2>1, <2>2, QuietVerifies DEF NextPackage, runVars, dirVars
<1>2. CASE LookForTree
  <2>1. More /\ InTree /\ pc = "look"
    BY <1>2 DEF IInv, Shape, LookForTree, InTree
  <2>2. CASE TreeDone(Unlisted, FALSE)
    <3>1. Unlisted \in Own(Pkg, tree, runs)
      BY DEF Own
    <3> QED BY <1>2, <2>1, <2>2, <3>1, TreeDoneVerifies DEF LookForTree, dirVars
  <2>3. CASE pc' = "open" /\ UNCHANGED <<i, tree, failed, remaining, entries, troubled>>
    <3>1. AheadUnlisted'
      BY <1>2, <2>1, <2>3 DEF DInv, AheadUnlisted, LookForTree, runVars, InTree
    <3> QED BY <1>2, <2>3, <3>1, QuietVerifies DEF LookForTree, runVars, dirVars
  <2> QED BY <1>2, <2>2, <2>3 DEF LookForTree
<1>3. CASE OpenArchive
  <2>1. More /\ InTree /\ pc = "open"
    BY <1>3 DEF IInv, Shape, OpenArchive, InTree
  <2>2. disk \in [Files -> Contents \cup {Absent, Partial, Rotten}]
    BY DEF IInv, TypeOK
  <2>3. \A f \in Files \ {Stem(Pkg, tree)} : disk'[f] = disk[f]
    BY <1>3, <2>2 DEF OpenArchive
  <2>4. CASE flag
    <3>1. TreeDone(Unlisted, TRUE) /\ Unlisted \in Own(Pkg, tree, runs)
      BY <1>3, <2>4 DEF OpenArchive, Own
    <3> QED BY <1>3, <2>1, <2>3, <3>1, TreeDoneVerifies DEF OpenArchive
  <2>5. CASE ~flag
    <3>1. /\ pc' = "transfer" /\ Found' = Found /\ packages' = packages
          /\ UNCHANGED <<i, tree, entries, ab, runs>>
      BY <1>3, <2>5 DEF OpenArchive, runVars, Found
    <3>2. AheadUnlisted'
      BY <2>1, <3>1 DEF DInv, AheadUnlisted, InTree
    <3>3. DiskIsSummed'
      <4> SUFFICES ASSUME NEW p \in Found, NEW t \in Trees, OwnName(p, t),
                          entries[p].sum[t] # Unlisted
                   PROVE  Matches(disk'[Stem(p, t)], entries[p].sum[t])
        BY <3>1 DEF DiskIsSummed, SumMatches
      <4>1. i \in i..Len(packages) /\ tree \in Trees /\ Found \subseteq Packages
            /\ Pkg \in Packages
        BY <2>1, InHand DEF IInv, TypeOK, More
      <4>2. entries[Pkg].sum[tree] = Unlisted
        BY <2>1, <4>1 DEF DInv, AheadUnlisted, Pkg
      <4>3. Stem(p, t) \in Files /\ Stem(p, t) # Stem(Pkg, tree)
        BY <4>1, <4>2, StemsApart DEF Files
      <4>4. SumMatches(p, t)
        BY <2>1 DEF DInv, DiskIsSummed
      <4> QED BY <2>3, <4>3, <4>4 DEF SumMatches
    <3>4. AbInOrder'
      BY <2>1, <3>1 DEF DInv, AbInOrder
    <3> QED BY <3>1, <3>2, <3>3, <3>4, NotYetOwn DEF DInv
  <2> QED BY <2>4, <2>5
<1>4. CASE EndTransfer
  <2> DEFINE whole == Content(Pkg, tree, runs)
             f0 == Stem(Pkg, tree)
  <2>1. More /\ InTree /\ runs > 0
    BY <1>4 DEF IInv, Shape, EndTransfer, InTree
  <2>2. disk \in [Files -> Contents \cup {Absent, Partial, Rotten}] /\ f0 \in Files
    BY <2>1, OwnIsTyped DEF IInv, TypeOK
  <2>3. {Unlisted, Unsummed, whole} = Own(Pkg, tree, runs) /\ whole # Absent
    BY DEF Own, Content, Absent
  <2> HIDE DEF whole, f0
  <2>4. CASE disk' = [disk EXCEPT ![f0] = whole]
             /\ \E sum \in {whole, Unsummed} : TreeDone(sum, FALSE)
    <3>1. PICK sum \in {whole, Unsummed} : TreeDone(sum, FALSE)
      BY <2>4
    <3>2. sum \in Own(Pkg, tree, runs) /\ Matches(disk'[f0], sum)
      BY <2>2, <2>3, <2>4, <3>1 DEF Matches
    <3>3. \A f \in Files \ {f0} : disk'[f] = disk[f]
      BY <2>2, <2>4
    <3> QED BY <1>4, <2>1, <3>1, <3>2, <3>3, TreeDoneVerifies DEF EndTransfer, f0
  <2>5. CASE disk' = [disk EXCEPT ![f0] = Absent]
             /\ \E broke \in BOOLEAN : TreeDone(Unlisted, broke)
    <3>1. PICK broke \in BOOLEAN : TreeDone(Unlisted, broke)
      BY <2>5
    <3>2. Unlisted \in Own(Pkg, tree, runs)
      BY DEF Own
    <3>3. \A f \in Files \ {f0} : disk'[f] = disk[f]
      BY <2>2, <2>5
    <3> QED BY <1>4, <2>1, <3>1, <3>2, <3>3, TreeDoneVerifies DEF EndTransfer, f0
  <2> QED BY <1>4, <2>4, <2>5 DEF EndTransfer, whole, f0
<1> QED BY <1>1, <1>2, <1>3, <1>4

\* The legacy archive has a name no archive of a package has.
LEMMA LegacyVerifies ==
  ASSUME BackupAssumption, IInv, IInv', DInv, pc \in {"legacy", "confirm"},
         pc' \in {"confirm", "extras"}, UNCHANGED <<packages, runs>>,
         \A p \in Found : entries'[p].sum = entries[p].sum,
         NEW content, disk' = [disk EXCEPT ![AbFile] = content],
         ab' => pc' = "extras" /\ content = Content(AbFile, "ab", runs)
  PROVE  DInv'
<1>1. Found' = Found /\ Found \subseteq Packages
  BY InHand DEF Found, IInv
<1>2. DiskIsSummed'
  <2> SUFFICES ASSUME NEW p \in Found, NEW t \in Trees, OwnName(p, t),
                      entries[p].sum[t] # Unlisted
               PROVE  Matches(disk'[Stem(p, t)], entries[p].sum[t])
    BY <1>1 DEF DiskIsSummed, SumMatches
  <2>1. disk \in [Files -> Contents \cup {Absent, Partial, Rotten}] /\ Stem(p, t) \in Files
    BY <1>1 DEF IInv, TypeOK, Files
  <2>2. Stem(p, t) # AbFile
    BY <1>1, StemsApart
  <2>3. SumMatches(p, t)
    BY DEF DInv, DiskIsSummed
  <2> QED BY <2>1, <2>2, <2>3 DEF SumMatches
<1>3. AheadUnlisted'
  BY DEF AheadUnlisted
<1>4. AbInOrder'
  <2>1. AbFile \in Files /\ disk \in [Files -> Contents \cup {Absent, Partial, Rotten}]
    BY DEF IInv, TypeOK, Files
  <2> QED BY <2>1 DEF AbInOrder, Content
<1> QED BY <1>2, <1>3, <1>4, NotYetOwn DEF DInv

LEMMA LateVerifies ==
  ASSUME BackupAssumption, IInv, IInv', DInv,
         StartLegacy \/ EndLegacy \/ CaptureExtra \/ LeaveExtras \/ MarkUnreached
  PROVE  DInv'
<1>1. entries \in [Found -> Entries] /\ DOMAIN entries = Found
  BY DEF IInv, TypeOK
<1>2. ASSUME LegacyFails, pc \in {"legacy", "confirm"}, UNCHANGED <<packages, runs>>
      PROVE  DInv'
  <2>1. \A p \in Found : entries'[p].sum = entries[p].sum
    BY <1>1, <1>2 DEF LegacyFails, Entries
  <2>2. ~ab'
    BY <1>2 DEF LegacyFails, DInv, AbInOrder
  <2>3. disk' = [disk EXCEPT ![AbFile] = Absent] /\ pc' = "extras"
    BY <1>2 DEF LegacyFails
  <2> QED BY <1>2, <2>1, <2>2, <2>3, LegacyVerifies
<1>3. CASE StartLegacy
  <2>1. CASE flag
    BY <1>2, <1>3, <2>1 DEF StartLegacy, runVars
  <2>2. CASE ~flag
    <3>1. ~ab'
      BY <1>3, <2>2 DEF StartLegacy, DInv, AbInOrder
    <3>2. disk' = [disk EXCEPT ![AbFile] = Partial] /\ pc' = "confirm" /\ entries' = entries
          /\ pc = "legacy" /\ UNCHANGED <<packages, runs>>
      BY <1>3, <2>2 DEF StartLegacy, runVars
    <3> QED BY <3>1, <3>2, LegacyVerifies
  <2> QED BY <2>1, <2>2
<1>4. CASE EndLegacy
  <2>1. CASE LegacyFails
    BY <1>2, <1>4, <2>1 DEF EndLegacy, runVars
  <2>2. CASE /\ entries' = [p \in DOMAIN entries |->
                              IF p \in remaining THEN [entries[p] EXCEPT !.method = "legacy"]
                                                 ELSE entries[p]]
             /\ disk' = [disk EXCEPT ![AbFile] = Content(AbFile, "ab", runs)]
             /\ ab' = TRUE
             /\ pc' = "extras"
    <3>1. \A p \in Found : entries'[p].sum = entries[p].sum
      BY <1>1, <2>2 DEF Entries
    <3>2. pc = "confirm" /\ UNCHANGED <<packages, runs>>
      BY <1>4 DEF EndLegacy, runVars
    <3> QED BY <2>2, <3>1, <3>2, LegacyVerifies
  <2> QED BY <1>4, <2>1, <2>2 DEF EndLegacy
<1>5. CASE CaptureExtra \/ LeaveExtras
  <2>1. AheadUnlisted'
    BY <1>5 DEF AheadUnlisted, CaptureExtra, LeaveExtras
  <2> QED BY <1>5, <2>1, QuietVerifies DEF CaptureExtra, LeaveExtras, runVars, dirVars
<1>6. CASE MarkUnreached
  <2>1. \A p \in Found : entries'[p].sum = entries[p].sum
    BY <1>1, <1>6 DEF MarkUnreached, Entries
  <2>2. AheadUnlisted'
    BY <1>6 DEF AheadUnlisted, MarkUnreached
  <2> QED BY <1>6, <2>1, <2>2, QuietVerifies DEF MarkUnreached, runVars, dirVars
<1> QED BY <1>3, <1>4, <1>5, <1>6

LEMMA ManifestVerifies ==
  ASSUME IInv, IInv', DInv, StartManifest \/ EndManifest \/ Count \/ Cancel \/ Kill
  PROVE  DInv'
<1>1. CASE StartManifest
  <2>1. CASE Stop("failed") /\ manifest' = manifest
    BY <2>1, StopVerifies
  <2>2. CASE pc' = "writing" /\ UNCHANGED <<opts, localVars, disk, outcome, runs, historyVars>>
    <3>1. AheadUnlisted'
      BY <2>2 DEF AheadUnlisted
    <3> QED BY <1>1, <2>2, <3>1, QuietVerifies DEF StartManifest, localVars
  <2> QED BY <1>1, <2>1, <2>2 DEF StartManifest
<1>2. CASE EndManifest
  <2>1. CASE Stop("failed") /\ manifest' = manifest
    BY <2>1, StopVerifies
  <2>3. CASE manifest' = manifest /\ pc' = "count"
             /\ UNCHANGED <<opts, localVars, disk, outcome, runs, historyVars>>
    <3>1. UNCHANGED <<packages, entries, disk, ab, runs>> /\ Found' = Found /\ pc = "writing"
      BY <1>2, <2>3 DEF localVars, Found, EndManifest
    <3>2. AheadUnlisted' /\ DiskIsSummed' /\ AbInOrder'
      BY <2>3, <3>1 DEF DInv, AheadUnlisted, DiskIsSummed, SumMatches, AbInOrder, Content
    <3>3. FreshManifestVerifies'
      BY <2>3, <3>1 DEF IInv, RunOrder, OwnManifest, FreshManifestVerifies
    <3> QED BY <3>2, <3>3 DEF DInv
  <2>2. CASE /\ manifest' = [run |-> runs, torn |-> FALSE, mode |-> opts.mode,
                             entries |-> entries, ab |-> ab, extras |-> extras]
             /\ pc' = "count"
             /\ UNCHANGED <<opts, localVars, disk, outcome, runs, historyVars>>
    <3>1. /\ UNCHANGED <<packages, entries, disk, ab, runs>> /\ Found' = Found
          /\ manifest'.entries = entries /\ manifest'.ab = ab /\ manifest'.run = runs
          /\ DOMAIN entries = Found /\ pc = "writing" /\ runs > 0
      BY <1>2, <2>2 DEF localVars, Found, IInv, TypeOK, Shape, EndManifest
    <3>2. AheadUnlisted' /\ DiskIsSummed' /\ AbInOrder'
      BY <2>2, <3>1 DEF DInv, AheadUnlisted, DiskIsSummed, SumMatches, AbInOrder, Content
    <3>3. \A p \in Found, t \in Trees : OwnName(p, t) /\ entries[p].sum[t] # Unlisted =>
              Matches(disk[Stem(p, t)], entries[p].sum[t])
      BY <3>1 DEF DInv, DiskIsSummed, SumMatches
    <3>4. FreshManifestVerifies'
      <4>1. ASSUME NEW p \in DOMAIN manifest'.entries, NEW t \in Trees, OwnName(p, t),
                   manifest'.entries[p].sum[t] # Unlisted
            PROVE  Accepted(p, t)'
        BY <3>1, <3>3, <4>1 DEF Accepted
      <4>2. manifest'.ab => disk'[AbFile] = Content(AbFile, "ab", runs')
        BY <3>1 DEF DInv, AbInOrder
      <4> QED BY <4>1, <4>2 DEF FreshManifestVerifies, Content
    <3> QED BY <3>2, <3>4 DEF DInv
  <2> QED BY <1>2, <2>1, <2>2, <2>3 DEF EndManifest
<1>3. CASE Count
  <2>1. PICK how \in {"cancelled", "success"} : Stop(how) /\ manifest' = manifest
    BY <1>3 DEF Count
  <2> QED BY <2>1, StopVerifies
<1>4. CASE Cancel
  <2>1. UNCHANGED <<pc, packages, i, tree, entries, ab, disk, manifest, runs>>
    BY <1>4 DEF Cancel, runVars, dirVars
  <2>2. AheadUnlisted' /\ DiskIsSummed' /\ AbInOrder'
    BY <2>1 DEF DInv, AheadUnlisted, DiskIsSummed, SumMatches, AbInOrder, InTree, Found, Content
  <2>3. FreshManifestVerifies'
    BY <2>1 DEF DInv, FreshManifestVerifies, OwnManifest, Accepted, Content
  <2> QED BY <2>2, <2>3 DEF DInv
<1>5. CASE Kill
  BY <1>5, StopVerifies DEF Kill
<1> QED BY <1>1, <1>2, <1>3, <1>4, <1>5

\* The strengthening of FreshManifestVerifies is kept along every run.
LEMMA DirectoryInvariant == Spec => []DInv
<1> USE BackupAssumption
<1>1. Init => DInv
  <2> SUFFICES ASSUME Init
               PROVE  DInv
    OBVIOUS
  <2>1. AheadUnlisted /\ DiskIsSummed /\ AbInOrder
    BY DEF Init, AheadUnlisted, DiskIsSummed, AbInOrder
  <2>2. FreshManifestVerifies
    BY DEF Init, FreshManifestVerifies, OwnManifest
  <2> QED BY <2>1, <2>2 DEF DInv
<1>2. IInv /\ IInv' /\ DInv /\ [Next]_vars => DInv'
  <2> SUFFICES ASSUME IInv, IInv', DInv, [Next]_vars
               PROVE  DInv'
    OBVIOUS
  <2>1. CASE Next
    BY <2>1, EarlyVerifies, CaptureVerifies, LateVerifies, ManifestVerifies
       DEF Next, DeviceStep, LocalStep
  <2>2. CASE UNCHANGED vars
    <3>1. UNCHANGED <<pc, packages, i, tree, entries, ab, disk, manifest, runs>>
      BY <2>2 DEF vars
    <3>2. Found' = Found /\ InTree' = InTree
      BY <3>1 DEF Found, InTree
    <3>3. AheadUnlisted'
      BY <3>1, <3>2 DEF DInv, AheadUnlisted
    <3>4. DiskIsSummed'
      BY <3>1, <3>2 DEF DInv, DiskIsSummed, SumMatches
    <3>5. AheadUnlisted' /\ DiskIsSummed' /\ AbInOrder'
      BY <3>1, <3>3, <3>4 DEF DInv, AbInOrder, Content
    <3>6. FreshManifestVerifies'
      BY <3>1 DEF DInv, FreshManifestVerifies, OwnManifest, Accepted, Content
    <3> QED BY <3>5, <3>6 DEF DInv
  <2> QED BY <2>1, <2>2
<1> QED BY <1>1, <1>2, Invariant, PTL DEF Spec

\* Every archive a manifest lists, unless it has to share its name, is there
\* with the recorded checksum from the moment its run has written the manifest
\* until the next run begins, whatever earlier, killed or cancelled runs left
\* behind and however other archives collide (BackupStore::verify after
\* runBackup).
THEOREM FreshManifestsVerify == Spec => []FreshManifestVerifies
<1>1. DInv => FreshManifestVerifies
  BY DEF DInv
<1> QED BY <1>1, DirectoryInvariant, PTL

-----------------------------------------------------------------------------
(* The runs implement BackupDirectory: what still passes was never         *)
(* replaced, and a manifest is published with all it lists.                *)

readerVars == <<runs, pc # "idle", manifest.run, Summed, Passing>>

\* What a step of a run may put under a name: nothing that the manifest it
\* found recorded.
Fresh(content) == content \notin Packages \X Trees \X {manifest.run}

\* An archive that passes is summed, and is its package's of the manifest's run.
PassingIsOwn ==
  /\ DOMAIN Passing \subseteq Summed
  /\ \A a \in DOMAIN Passing : Passing[a] = disk[Stem(a[1], a[2])]
  /\ \A a \in Summed :
       a \in DOMAIN Passing <=>
         disk[Stem(a[1], a[2])] = Content(a[1], a[2], manifest.run)

LEMMA OwnPasses == IInv => PassingIsOwn
<1> SUFFICES ASSUME IInv
             PROVE  PassingIsOwn
  OBVIOUS
<1>1. DOMAIN Passing = {b \in Summed : Accepted(b[1], b[2])}
      /\ \A a \in DOMAIN Passing : Passing[a] = disk[Stem(a[1], a[2])]
  BY DEF Passing
<1>2. ASSUME NEW a \in Summed
      PROVE  /\ manifest.run > 0 /\ a[1] \in DOMAIN manifest.entries
             /\ manifest.entries[a[1]].sum[a[2]] = Content(a[1], a[2], manifest.run)
             /\ manifest.entries[a[1]].sum[a[2]] \notin {Unlisted, Unsummed}
  <2>1. a[1] \in Packages /\ a[2] \in Trees
    BY DEF Summed
  <2> QED BY <2>1 DEF Summed, IInv, ManifestIsOwn, Own
<1>3. ASSUME NEW a \in Summed
      PROVE  Accepted(a[1], a[2]) <=>
               disk[Stem(a[1], a[2])] = Content(a[1], a[2], manifest.run)
  BY <1>2 DEF Accepted, Matches, Content, Absent
<1> QED BY <1>1, <1>3 DEF PassingIsOwn

\* A step that leaves the manifest and only writes what is fresh can but spoil.
LEMMA WritingSpoils ==
  ASSUME IInv, PassingIsOwn, PassingIsOwn', pc \notin {"idle", "count"}, pc' # "idle",
         manifest' = manifest, runs' = runs,
         \A f \in Files : disk'[f] = disk[f] \/ Fresh(disk'[f])
  PROVE  Reader!Spoil
<1>1. Summed' = Summed
  BY DEF Summed
<1>2. ASSUME NEW a \in DOMAIN Passing'
      PROVE  a \in DOMAIN Passing /\ Passing'[a] = Passing[a]
  <2>1. a \in Summed /\ Passing'[a] = disk'[Stem(a[1], a[2])]
        /\ disk'[Stem(a[1], a[2])] = Content(a[1], a[2], manifest.run)
    BY <1>1, <1>2 DEF PassingIsOwn, Content
  <2>2. a[1] \in Packages /\ a[2] \in Trees /\ Stem(a[1], a[2]) \in Files
    BY <2>1 DEF Summed, Files
  <2>3. disk'[Stem(a[1], a[2])] = disk[Stem(a[1], a[2])]
    BY <2>1, <2>2 DEF Fresh, Content
  <2> QED BY <2>1, <2>3 DEF PassingIsOwn, Content
<1>3. Passing' = [a \in DOMAIN Passing' |-> Passing[a]]
  <2>1. Passing' = [a \in DOMAIN Passing' |-> Passing'[a]]
    BY DEF Passing
  <2> QED BY <1>2, <2>1
<1>4. manifest.run # runs
  BY DEF IInv, RunOrder
<1> QED BY <1>1, <1>2, <1>3, <1>4 DEF Reader!Spoil

\* A run that ends, wherever it is, leaves the directory as it is.
LEMMA StopEnds ==
  ASSUME NEW how, Stop(how), manifest' = manifest, pc # "idle"
  PROVE  Reader!End
<1>1. UNCHANGED <<runs, disk, manifest>> /\ pc' = "idle"
  BY DEF Stop
<1>2. Summed' = Summed
  BY <1>1 DEF Summed
<1>3. Passing' = Passing
  BY <1>1, <1>2 DEF Passing, Accepted, Matches
<1> QED BY <1>1, <1>2, <1>3 DEF Reader!End

\* The contents the captures write are fresh: the run's own, or no content.
LEMMA WrittenIsFresh ==
  ASSUME IInv, pc \notin {"idle", "count"}
  PROVE  /\ Fresh(Absent) /\ Fresh(Partial)
         /\ \A p, t : Fresh(Content(p, t, runs))
<1>1. manifest.run # runs
  BY DEF IInv, RunOrder
<1>2. \A c \in Packages \X Trees \X {manifest.run} :
        \E p \in Packages, t \in Trees : c = <<p, t, manifest.run>>
  OBVIOUS
<1> QED BY <1>1, <1>2 DEF Fresh, Content, Absent, Partial

\* What a step of a capture may do to the disk.
LEMMA CaptureWrites ==
  ASSUME BackupAssumption, IInv,
         OpenArchive \/ EndTransfer \/ StartLegacy \/ EndLegacy
  PROVE  \A f \in Files : disk'[f] = disk[f] \/ Fresh(disk'[f])
<1>1. pc \notin {"idle", "count"}
  BY DEF OpenArchive, EndTransfer, StartLegacy, EndLegacy
<1>2. PICK name \in {Stem(Pkg, tree), AbFile},
            content \in {Absent, Partial, Content(Pkg, tree, runs),
                         Content(AbFile, "ab", runs)} :
        disk' = [disk EXCEPT ![name] = content]
  <2>1. CASE OpenArchive
    BY <2>1 DEF OpenArchive
  <2>2. CASE EndTransfer
    BY <2>2 DEF EndTransfer
  <2>3. CASE StartLegacy
    BY <2>3 DEF StartLegacy, LegacyFails
  <2>4. CASE EndLegacy
    BY <2>4 DEF EndLegacy, LegacyFails
  <2> QED BY <2>1, <2>2, <2>3, <2>4
<1>3. Fresh(content)
  BY <1>1, <1>2, WrittenIsFresh
<1>4. disk \in [Files -> Contents \cup {Absent, Partial, Rotten}]
  BY DEF IInv, TypeOK
<1> QED BY <1>2, <1>3, <1>4

\* The steps that neither begin nor end a run nor touch its manifest.
LEMMA StagesSpoil ==
  ASSUME BackupAssumption, IInv, PassingIsOwn, PassingIsOwn',
         \/ Query \/ List \/ (\E how \in ApkOutcomes : PullApks(how)) \/ LookForTree
         \/ EndTransfer \/ EndLegacy \/ CaptureExtra \/ LeaveApks \/ StartData
         \/ NextPackage \/ OpenArchive \/ StartLegacy \/ LeaveExtras \/ MarkUnreached
  PROVE  Reader!Spoil \/ Reader!End
<1>1. ASSUME pc \notin {"idle", "count"}, pc' # "idle", UNCHANGED <<manifest, runs, disk>>
      PROVE  Reader!Spoil
  BY <1>1, WritingSpoils
<1>2. CASE Query \/ List
  <2>1. CASE Stop("failed")
    BY <1>2, <2>1, StopEnds DEF Query, List
  <2>2. CASE ~Stop("failed")
    BY <1>1, <1>2, <2>2 DEF Query, List
  <2> QED BY <2>1, <2>2
<1>3. CASE \E how \in ApkOutcomes : PullApks(how)
  BY <1>1, <1>3 DEF PullApks, dirVars
<1>4. CASE LeaveApks \/ StartData \/ NextPackage
  BY <1>1, <1>4 DEF LeaveApks, StartData, NextPackage, dirVars
<1>5. CASE LookForTree
  <2>1. pc' # "idle" /\ pc = "look"
    BY <1>5 DEF LookForTree, TreeDone, RootTreeDone, RunAsDone
  <2> QED BY <1>1, <1>5, <2>1 DEF LookForTree, dirVars
<1>6. CASE OpenArchive \/ EndTransfer
  <2>1. pc \in {"open", "transfer"} /\ UNCHANGED <<manifest, runs>>
    BY <1>6 DEF OpenArchive, EndTransfer
  <2>2. pc' # "idle"
    BY <1>6 DEF OpenArchive, EndTransfer, TreeDone, RootTreeDone, RunAsDone
  <2> QED BY <1>6, <2>1, <2>2, CaptureWrites, WritingSpoils
<1>7. CASE StartLegacy \/ EndLegacy
  <2>1. pc \in {"legacy", "confirm"} /\ UNCHANGED <<manifest, runs>> /\ pc' # "idle"
    BY <1>7 DEF StartLegacy, EndLegacy, LegacyFails
  <2> QED BY <1>7, <2>1, CaptureWrites, WritingSpoils
<1>8. CASE CaptureExtra \/ LeaveExtras \/ MarkUnreached
  BY <1>1, <1>8 DEF CaptureExtra, LeaveExtras, MarkUnreached, dirVars
<1> QED BY <1>2, <1>3, <1>4, <1>5, <1>6, <1>7, <1>8

\* Opening manifest.json withdraws the old one.
LEMMA StartManifestWithdraws ==
  ASSUME IInv, StartManifest
  PROVE  Reader!Withdraw \/ Reader!End
<1>1. CASE Stop("failed") /\ manifest' = manifest
  BY <1>1, StopEnds DEF StartManifest
<1>2. CASE manifest' = Torn /\ pc' = "writing" /\ runs' = runs
  <2>1. manifest'.run = 0 /\ Summed' = {}
    BY <1>2 DEF Torn, Summed
  <2>2. Passing' = Reader!Nothing
    BY <2>1 DEF Passing, Reader!Nothing
  <2>3. manifest.run # runs /\ pc # "idle"
    BY DEF IInv, RunOrder, StartManifest
  <2> QED BY <1>2, <2>1, <2>2, <2>3 DEF Reader!Withdraw
<1> QED BY <1>1, <1>2 DEF StartManifest

\* A step that leaves the directory and the run where they are.
LEMMA UnseenSteps ==
  ASSUME UNCHANGED <<disk, manifest, runs, pc # "idle">>
  PROVE  UNCHANGED readerVars
<1>1. Summed' = Summed
  BY DEF Summed
<1>2. Passing' = Passing
  BY <1>1 DEF Passing, Accepted, Matches
<1> QED BY <1>1, <1>2 DEF readerVars

\* Writing it publishes it, with every archive it lists in place.
LEMMA EndManifestPublishes ==
  ASSUME IInv, PassingIsOwn', DInv, EndManifest
  PROVE  Reader!Publish \/ Reader!End \/ UNCHANGED readerVars
<1>1. CASE Stop("failed") /\ manifest' = manifest
  BY <1>1, StopEnds DEF EndManifest
<1>2. CASE /\ manifest' = [run |-> runs, torn |-> FALSE, mode |-> opts.mode,
                           entries |-> entries, ab |-> ab, extras |-> extras]
           /\ pc' = "count"
           /\ UNCHANGED <<opts, localVars, disk, outcome, runs, historyVars>>
  <2>1. /\ manifest'.run = runs /\ manifest'.entries = entries /\ DOMAIN entries = Found
        /\ UNCHANGED <<disk, runs, entries, packages>> /\ pc = "writing" /\ runs > 0
    BY <1>2 DEF localVars, IInv, TypeOK, Shape, EndManifest
  <2>2. ASSUME NEW a \in Summed'
        PROVE  disk'[Stem(a[1], a[2])] = Content(a[1], a[2], runs)
    <3>1. /\ a[1] \in Found /\ a[2] \in Trees /\ OwnName(a[1], a[2])
          /\ entries[a[1]].sum[a[2]] \notin {Unlisted, Unsummed}
      BY <2>1, <2>2 DEF Summed
    <3>2. entries[a[1]].sum[a[2]] = Content(a[1], a[2], runs)
      BY <3>1 DEF IInv, SumsAreOwn, Own
    <3>3. Matches(disk[Stem(a[1], a[2])], entries[a[1]].sum[a[2]])
      BY <2>1, <3>1 DEF DInv, DiskIsSummed, SumMatches
    <3> QED BY <2>1, <3>1, <3>2, <3>3 DEF Matches
  <2>3. DOMAIN Passing' = Summed' /\ \A a \in Summed' : Passing'[a] = Content(a[1], a[2], runs)
    BY <2>1, <2>2 DEF PassingIsOwn, Content
  <2>4. Passing' = [a \in Summed' |-> Reader!Capture(a, runs)]
    <3>1. Passing' = [a \in DOMAIN Passing' |-> Passing'[a]]
      BY DEF Passing
    <3> QED BY <2>3, <3>1 DEF Reader!Capture, Content
  <2>5. Summed' \subseteq Packages \X Trees
    BY DEF Summed
  <2>6. manifest.run = 0
    BY <2>1 DEF IInv, RunOrder, Torn
  <2> QED BY <1>2, <2>1, <2>4, <2>5, <2>6 DEF Reader!Publish
<1>3. CASE pc' = "count" /\ UNCHANGED <<manifest, opts, localVars, disk, outcome, runs, historyVars>>
  BY <1>3, UnseenSteps DEF EndManifest
<1> QED BY <1>1, <1>2, <1>3 DEF EndManifest

LEMMA BeginBegins == ASSUME Begin PROVE Reader!Begin
<1>1. UNCHANGED <<disk, manifest>> /\ runs' = runs + 1 /\ pc = "idle" /\ pc' = "query"
  BY DEF Begin, dirVars
<1>2. Summed' = Summed
  BY <1>1 DEF Summed
<1>3. Passing' = Passing
  BY <1>1, <1>2 DEF Passing, Accepted, Matches
<1> QED BY <1>1, <1>2, <1>3 DEF Reader!Begin

LEMMA NextIsReaderNext ==
  ASSUME BackupAssumption, IInv, PassingIsOwn, PassingIsOwn', DInv, [Next]_vars
  PROVE  Reader!Next \/ UNCHANGED readerVars
<1>1. CASE Begin
  BY <1>1, BeginBegins DEF Reader!Next
<1>2. CASE DeviceStep
  BY <1>2, StagesSpoil DEF DeviceStep, Reader!Next
<1>3. CASE LocalStep
  <2>1. CASE StartManifest
    BY <2>1, StartManifestWithdraws DEF Reader!Next
  <2>2. CASE EndManifest
    BY <2>2, EndManifestPublishes DEF Reader!Next
  <2>3. CASE Count
    BY <2>3, StopEnds DEF Count, Reader!Next
  <2> QED BY <1>3, <2>1, <2>2, <2>3, StagesSpoil DEF LocalStep, Reader!Next
<1>4. CASE Cancel
  BY <1>4, UnseenSteps DEF Cancel, dirVars
<1>5. CASE Kill
  BY <1>5, StopEnds DEF Kill, Reader!Next
<1>6. CASE UNCHANGED vars
  BY <1>6, UnseenSteps DEF vars
<1> QED BY <1>1, <1>2, <1>3, <1>4, <1>5, <1>6 DEF Next

\* The runs of runBackup implement BackupDirectory for the archives with a
\* name of their own: an archive of the manifest a run finds that still passes
\* was never replaced, none comes back, that manifest is withdrawn before
\* another is written, and the new one lists only archives that pass.
THEOREM ImplementsBackupDirectory == Spec => KeepsItsWord
<1> USE BackupAssumption
<1>1. Init => Reader!Init
  <2> SUFFICES ASSUME Init
               PROVE  Reader!Init
    OBVIOUS
  <2>1. Summed = {} /\ manifest.run = 0
    BY DEF Init, NoManifest, Summed
  <2>2. Passing = Reader!Nothing
    BY <2>1 DEF Passing, Reader!Nothing
  <2> QED BY <2>1, <2>2 DEF Init, Reader!Init
<1>2. IInv /\ PassingIsOwn /\ PassingIsOwn' /\ DInv /\ [Next]_vars
        => [Reader!Next]_(Reader!vars)
  BY NextIsReaderNext DEF readerVars, Reader!vars
<1> QED BY <1>1, <1>2, Invariant, OwnPasses, DirectoryInvariant, PTL
        DEF Spec, KeepsItsWord, Reader!Spec

-----------------------------------------------------------------------------
(* What a restore relies on of the manifest: a package left to the legacy  *)
(* archive has no archive of its own, and there is a legacy archive then.  *)

Early == {"idle", "query", "list", "apks", "data"}
Working == {"package", "look", "open", "transfer"}
Late == {"extras", "mark", "write", "writing", "count"}

Plain(p) == \A t \in Trees : entries[p].sum[t] = Unlisted

\* A package is left to the legacy archive before it is captured otherwise.
RemainingIsPlain ==
  /\ pc \in Early \/ opts.mode = "root" => remaining = {}
  /\ \A p \in remaining : p \in Found /\ Plain(p)

\* The packages still to come have nothing yet; the one in hand may have the
\* first of its trees.
PlainAhead ==
  /\ pc \in {"apks", "data"} => \A p \in Found : Plain(p) /\ entries[p].method = "none"
  /\ pc \in Working =>
       \A k \in i..Len(packages) :
         /\ packages[k] \notin remaining /\ entries[packages[k]].method = "none"
         /\ Plain(packages[k]) \/ (InTree /\ tree = "de" /\ k = i)

MethodsFit ==
  \A p \in Found : /\ entries[p].method = "legacy" => pc \in Late /\ ab /\ Plain(p)
                   /\ entries[p].method \in {"root", "runas"} => ~Plain(p)

ManifestFits ==
  manifest.run > 0 =>
    /\ DOMAIN manifest.entries \subseteq Packages
    /\ manifest.entries \in [DOMAIN manifest.entries -> Entries]
    /\ \A p \in DOMAIN manifest.entries :
         /\ Entry(p).method = "legacy" => manifest.ab /\ \A t \in Trees : ~Listed(p, t)
         /\ Entry(p).method \in {"root", "runas"} => \E t \in Trees : Listed(p, t)

LInv == RemainingIsPlain /\ PlainAhead /\ MethodsFit /\ ManifestFits

LEMMA StopFits ==
  ASSUME LInv, NEW how, Stop(how), manifest' = manifest
  PROVE  LInv'
<1>1. Found' = {}
  BY DEF Stop, Found
<1>2. RemainingIsPlain' /\ PlainAhead' /\ MethodsFit'
  BY <1>1 DEF Stop, RemainingIsPlain, PlainAhead, MethodsFit, Working
<1>3. ManifestFits'
  BY DEF LInv, ManifestFits, Entry, Listed
<1> QED BY <1>2, <1>3 DEF LInv

\* A step that changes no method and no sum.
LEMMA QuietFits ==
  ASSUME LInv, UNCHANGED <<packages, opts, remaining, ab>>,
          \A p \in Found : /\ entries'[p].sum = entries[p].sum
                         /\ entries'[p].method = entries[p].method,
         manifest' \in {manifest, Torn},
         pc' \in Early => pc \in Early, pc \in Late => pc' \in Late,
         PlainAhead'
  PROVE  LInv'
<1>1. Found' = Found
  BY DEF Found
<1>2. RemainingIsPlain' /\ MethodsFit'
  BY <1>1 DEF LInv, RemainingIsPlain, MethodsFit, Plain
<1>3. ManifestFits'
  <2>1. CASE manifest' = manifest
    BY <2>1 DEF LInv, ManifestFits, Entry, Listed
  <2>2. CASE manifest' = Torn
    BY <2>2 DEF ManifestFits, Torn
  <2> QED BY <2>1, <2>2
<1> QED BY <1>2, <1>3 DEF LInv

LEMMA EarlyFits ==
  ASSUME BackupAssumption, IInv, LInv,
         Begin \/ Query \/ List \/ (\E how \in ApkOutcomes : PullApks(how))
               \/ LeaveApks \/ StartData
  PROVE  LInv'
<1>1. CASE Begin
  <2>1. Found = {} /\ Found' = {} /\ pc' = "query" /\ remaining = {} /\ remaining' = {}
    BY <1>1 DEF Begin, IInv, Shape, Found, localVars, LInv, RemainingIsPlain, Early
  <2>2. RemainingIsPlain' /\ PlainAhead' /\ MethodsFit'
    BY <2>1 DEF RemainingIsPlain, PlainAhead, MethodsFit, Working
  <2>3. ManifestFits'
    BY <1>1 DEF Begin, dirVars, LInv, ManifestFits, Entry, Listed
  <2> QED BY <2>2, <2>3 DEF LInv
<1>2. CASE Query
  <2>1. CASE Stop("failed")
    BY <1>2, <2>1, StopFits DEF Query
  <2>2. CASE pc' = "list" /\ UNCHANGED <<opts, localVars, disk, outcome, runs, historyVars>>
    <3>1. PlainAhead'
      BY <2>2 DEF PlainAhead, Working
    <3> QED BY <1>2, <2>2, <3>1, QuietFits DEF Query, localVars, Early, Late
  <2> QED BY <1>2, <2>1, <2>2 DEF Query
<1>3. CASE List
  <2>1. CASE Stop("failed")
    BY <1>3, <2>1, StopFits DEF List
  <2>2. CASE ~Stop("failed")
    <3>1. PICK found \in {Order, <<>>} :
             /\ pc' = "apks" /\ packages' = found
             /\ entries' = [p \in {found[k] : k \in 1..Len(found)} |-> NewEntry]
             /\ UNCHANGED remaining
      BY <1>3, <2>2 DEF List
    <3>2. \A p \in Found' : entries'[p].method = "none" /\ Plain(p)'
      BY <3>1 DEF Found, NewEntry, Plain
    <3>3. remaining' = {}
      BY <1>3, <3>1 DEF LInv, RemainingIsPlain, List, Early
    <3>4. RemainingIsPlain' /\ PlainAhead' /\ MethodsFit'
      BY <3>1, <3>2, <3>3 DEF RemainingIsPlain, PlainAhead, MethodsFit, Working
    <3>5. ManifestFits'
      BY <1>3 DEF List, LInv, ManifestFits, Entry, Listed
    <3> QED BY <3>4, <3>5 DEF LInv
  <2> QED BY <2>1, <2>2
<1>4. ASSUME NEW how \in ApkOutcomes, PullApks(how)
      PROVE  LInv'
  <2> DEFINE a == how \in {"all", "some"}
  <2>1. entries \in [Found -> Entries] /\ Pkg \in Found
    BY <1>4, InHand DEF IInv, TypeOK, PullApks
  <2>2. entries' = [entries EXCEPT ![Pkg].apk = a, ![Pkg].error = ApkError(how)]
    BY <1>4 DEF PullApks
  <2>3. /\ entries' = [entries EXCEPT ![Pkg] =
                         [entries[Pkg] EXCEPT !.apk = a, !.error = ApkError(how)]]
        /\ entries[Pkg] \in Entries
    BY <2>1, <2>2 DEF Entries
  <2> HIDE DEF a
  <2>4. /\ [entries[Pkg] EXCEPT !.apk = a, !.error = ApkError(how)].sum = entries[Pkg].sum
        /\ [entries[Pkg] EXCEPT !.apk = a, !.error = ApkError(how)].method = entries[Pkg].method
    BY <2>3 DEF Entries
  <2>5. \A p \in Found : entries'[p].sum = entries[p].sum /\ entries'[p].method = entries[p].method
    BY <2>1, <2>3, <2>4
  <2>6. PlainAhead'
    <3>1. Found' = Found /\ pc = "apks" /\ pc' = "apks"
      BY <1>4 DEF PullApks, Found, runVars
    <3> QED BY <2>5, <3>1 DEF LInv, PlainAhead, Plain, Working
  <2> QED BY <1>4, <2>5, <2>6, QuietFits DEF PullApks, runVars, dirVars
<1>5. CASE LeaveApks
  <2>1. Found' = Found
    BY <1>5 DEF LeaveApks, Found, runVars
  <2>2. PlainAhead'
    BY <1>5, <2>1 DEF LeaveApks, LInv, PlainAhead, Plain, Working
  <2> QED BY <1>5, <2>2, QuietFits DEF LeaveApks, runVars, dirVars, Early, Late
<1>6. CASE StartData
  <2>1. \A k \in i..Len(packages) : packages[k] \in Found
    BY InHand DEF IInv, TypeOK, Found
  <2>2. remaining = {}
    BY <1>6 DEF LInv, RemainingIsPlain, StartData, Early
  <2>3. PlainAhead'
    BY <1>6, <2>1, <2>2 DEF StartData, LInv, PlainAhead, Plain, Working
  <2>4. pc' \in {"package", "extras"}
    BY <1>6 DEF StartData
  <2> QED BY <1>6, <2>3, <2>4, QuietFits DEF StartData, dirVars, Early, Late
<1> QED BY <1>1, <1>2, <1>3, <1>4, <1>5, <1>6

LEMMA TreeDoneFits ==
  ASSUME BackupAssumption, IInv, LInv, More, InTree,
         NEW sum \in Own(Pkg, tree, runs), NEW trouble \in BOOLEAN, TreeDone(sum, trouble),
         UNCHANGED <<runVars, ab, manifest>>
  PROVE  LInv'
<1>1. /\ TypeOK /\ Pkg \in Found /\ Found' = Found /\ packages' = packages /\ opts' = opts
      /\ pc \in Working /\ pc \notin Early /\ pc \notin Late /\ tree \in Trees
      /\ i \in 1..Len(packages) /\ i \in i..Len(packages) /\ Len(packages) \in Nat
      /\ pc' \in {"look", "package"}
  <2>1. TypeOK /\ Shape /\ pc \in {"look", "open", "transfer"}
    BY DEF IInv, InTree
  <2>2. Pkg \in Found /\ Len(packages) \in Nat
    BY <2>1, InHand
  <2>3. Found' = Found /\ packages' = packages /\ opts' = opts
    BY DEF Found, runVars
  <2>4. pc \in Working /\ pc \notin Early /\ pc \notin Late
    BY <2>1 DEF Working, Early, Late
  <2>5. tree \in Trees /\ i \in Nat /\ i >= 1
    BY <2>1, InHand DEF TypeOK
  <2>6. i \in 1..Len(packages) /\ i \in i..Len(packages)
    BY <2>2, <2>5 DEF More
  <2>7. pc' \in {"look", "package"}
    BY DEF TreeDone, RootTreeDone, RunAsDone
  <2> QED BY <2>1, <2>2, <2>3, <2>4, <2>5, <2>6, <2>7
<1>2. sum \in Contents \cup {Unlisted, Unsummed}
  BY <1>1, OwnIsTyped DEF Own, IInv, Shape, InTree
<1>3. /\ \A p \in Found : entries[p].method # "legacy"
      /\ \A p \in Found : entries[p].method \in {"root", "runas"} => ~Plain(p)
  BY <1>1 DEF LInv, MethodsFit
<1>4. ManifestFits'
  BY <1>1 DEF LInv, ManifestFits, Entry, Listed
<1>5. /\ Pkg \notin remaining /\ entries[Pkg].method = "none"
      /\ Plain(Pkg) \/ tree = "de"
      /\ entries[Pkg].sum \in [Trees -> Contents \cup {Unlisted, Unsummed}]
  <2>1. entries[Pkg].sum \in [Trees -> Contents \cup {Unlisted, Unsummed}]
    BY <1>1 DEF TypeOK, Entries
  <2>2. /\ packages[i] \notin remaining /\ entries[packages[i]].method = "none"
        /\ Plain(packages[i]) \/ tree = "de"
    BY <1>1 DEF LInv, PlainAhead
  <2> QED BY <2>1, <2>2 DEF Pkg
<1>6. ASSUME \A p \in Found \ {Pkg} : entries'[p] = entries[p],
             remaining' \subseteq remaining \cup {Pkg}
      PROVE  \A k \in i + 1..Len(packages) :
                   /\ packages[k] \notin remaining' /\ entries'[packages[k]].method = "none"
                   /\ Plain(packages[k])'
  <2> TAKE k \in i + 1..Len(packages)
  <2>1. k \in i..Len(packages) /\ k # i
    BY <1>1
  <2>2. packages[k] # Pkg /\ packages[k] \in Found
    BY <1>1, OthersAhead
  <2>3. /\ packages[k] \notin remaining /\ entries[packages[k]].method = "none"
        /\ Plain(packages[k])
    BY <1>1, <2>1 DEF LInv, PlainAhead
  <2>4. entries'[packages[k]] = entries[packages[k]]
    BY <1>6, <2>2
  <2> QED BY <1>1, <1>6, <2>2, <2>3, <2>4 DEF Plain
<1>7. CASE opts.mode = "root"
  <2>1. RootTreeDone(sum, trouble) /\ remaining = {} /\ remaining' = {}
    BY <1>7 DEF TreeDone, RootTreeDone, LInv, RemainingIsPlain
  <2>2. /\ \A p \in Found \ {Pkg} : entries'[p] = entries[p]
        /\ entries'[Pkg].sum = [entries[Pkg].sum EXCEPT ![tree] = sum]
        /\ entries'[Pkg].method \in {entries[Pkg].method, "root"}
        /\ entries'[Pkg].method = "root" =>
             tree = "de" /\ (entries[Pkg].sum["ce"] # Unlisted \/ sum # Unlisted)
    <3>1. TypeOK /\ Pkg \in Found
      BY <1>1
    <3>2. RootRecorded(sum, trouble)
      BY <1>2, <2>1, <3>1, RootEntry
    <3>3. /\ \A p \in Found \ {Pkg} : entries'[p] = entries[p]
          /\ entries'[Pkg].sum = [entries[Pkg].sum EXCEPT ![tree] = sum]
      BY <3>2 DEF RootRecorded
    <3> DEFINE ends == tree = "de" /\ (entries[Pkg].sum["ce"] # Unlisted \/ sum # Unlisted)
    <3>4. entries'[Pkg].method = IF ends THEN "root" ELSE entries[Pkg].method
      BY <3>2 DEF RootRecorded
    <3>5. entries[Pkg].method # "root"
      BY <1>5
    <3> HIDE DEF ends
    <3>6. /\ entries'[Pkg].method \in {entries[Pkg].method, "root"}
          /\ entries'[Pkg].method = "root" => ends
      BY <3>4, <3>5
    <3> QED BY <3>3, <3>6 DEF ends
  <2>3. \A p \in Found \ {Pkg} : Plain(p)' <=> Plain(p)
    BY <2>2 DEF Plain
  <2>4. MethodsFit'
    <3>1. entries'[Pkg].method = "root" => \E t \in Trees : entries'[Pkg].sum[t] # Unlisted
      BY <1>1, <1>5, <2>2 DEF Trees
    <3>2. \A p \in Found \ {Pkg} : entries'[p].method \in {"root", "runas"} => ~Plain(p)'
      BY <1>3, <2>2, <2>3
    <3>3. \A p \in Found : entries'[p].method # "legacy"
      BY <1>1, <1>3, <2>2
    <3>4. entries'[Pkg].method \in {"none", "root"}
      BY <1>5, <2>2
    <3> QED BY <1>1, <3>1, <3>2, <3>3, <3>4 DEF MethodsFit, Plain
  <2>5. RemainingIsPlain'
    BY <2>1 DEF RemainingIsPlain
  <2>6. PlainAhead'
    <3>1. \/ pc' = "package" /\ i' = i + 1
          \/ pc' = "look" /\ i' = i /\ tree = "ce" /\ tree' = "de"
      BY <1>1, <2>1 DEF RootTreeDone, Trees
    <3>2. CASE pc' = "package" /\ i' = i + 1
      BY <1>1, <1>6, <2>1, <2>2, <3>2 DEF PlainAhead
    <3>3. CASE pc' = "look" /\ i' = i /\ tree = "ce" /\ tree' = "de"
      <4>1. entries'[packages[i]].method = "none" /\ packages[i] \notin remaining'
        BY <1>5, <2>1, <2>2, <3>3 DEF Pkg
      <4>2. \A k \in i..Len(packages) : k = i \/ k \in i + 1..Len(packages)
        BY <1>1
      <4> QED BY <1>1, <1>6, <2>1, <2>2, <3>3, <4>1, <4>2 DEF PlainAhead, InTree
    <3> QED BY <3>1, <3>2, <3>3
  <2> QED BY <1>4, <2>4, <2>5, <2>6 DEF LInv
<1>8. CASE opts.mode = "standard"
  <2>1. RunAsDone(sum) /\ tree = "ce" /\ pc' = "package" /\ i' = i + 1
    BY <1>8 DEF IInv, Shape, InTree, TreeDone, RunAsDone
  <2>2. /\ \A p \in Found \ {Pkg} : entries'[p] = entries[p]
        /\ entries'[Pkg].sum = IF sum = Unlisted THEN entries[Pkg].sum
                                 ELSE [entries[Pkg].sum EXCEPT !["ce"] = sum]
        /\ entries'[Pkg].method \in {entries[Pkg].method, "runas"}
        /\ sum = Unlisted => entries' = entries
        /\ remaining' = IF sum = Unlisted THEN remaining \cup {Pkg} ELSE remaining
    BY <1>1, <1>2, <2>1, RunAsEntry DEF RunAsDone
  <2>3. \A p \in Found \ {Pkg} : Plain(p)' <=> Plain(p)
    BY <2>2 DEF Plain
  <2>4. sum # Unlisted => entries'[Pkg].sum["ce"] # Unlisted
    BY <1>5, <2>1, <2>2 DEF Trees
  <2>5. sum = Unlisted => entries'[Pkg].method = "none"
    BY <1>5, <2>2
  <2>6. MethodsFit'
    <3>1. entries'[Pkg].method \in {"root", "runas"} => entries'[Pkg].sum["ce"] # Unlisted
      BY <2>4, <2>5
    <3>2. \A p \in Found \ {Pkg} : entries'[p].method \in {"root", "runas"} => ~Plain(p)'
      BY <1>3, <2>2, <2>3
    <3>3. \A p \in Found : entries'[p].method # "legacy"
      BY <1>1, <1>3, <2>2
    <3> QED BY <1>1, <3>1, <3>2, <3>3 DEF MethodsFit, Plain, Trees
  <2>7. RemainingIsPlain'
    <3>1. \A p \in remaining : p \in Found /\ p # Pkg /\ Plain(p)
      BY <1>5 DEF LInv, RemainingIsPlain
    <3>2. \A p \in remaining : p \in Found /\ Plain(p)'
      BY <2>3, <3>1
    <3>3. sum = Unlisted => \A t \in Trees : entries'[Pkg].sum[t] = Unlisted
      BY <1>5, <2>1, <2>2 DEF Plain
    <3>4. \A p \in remaining' : p \in Found /\ Plain(p)'
      BY <1>1, <2>2, <3>2, <3>3 DEF Plain
    <3> QED BY <1>1, <1>8, <2>1, <3>4 DEF RemainingIsPlain, Early
  <2>8. PlainAhead'
    BY <1>1, <1>6, <2>1, <2>2 DEF PlainAhead
  <2> QED BY <1>4, <2>6, <2>7, <2>8 DEF LInv
<1> QED BY <1>1, <1>7, <1>8 DEF TypeOK, BackupAssumption

LEMMA CaptureFits ==
  ASSUME BackupAssumption, IInv, LInv,
         NextPackage \/ LookForTree \/ OpenArchive \/ EndTransfer
  PROVE  LInv'
<1>1. CASE NextPackage
  <2>1. /\ UNCHANGED <<packages, opts, ab, entries, manifest>> /\ pc = "package"
        /\ pc' \in {"extras", "legacy", "look", "open", "package"}
        /\ i \in Nat /\ Len(packages) \in Nat /\ Found' = Found
    BY <1>1, InHand DEF NextPackage, runVars, dirVars, IInv, TypeOK, Found
  <2>2. CASE UNCHANGED remaining /\ i' = 1 /\ pc' \in {"extras", "legacy"}
    BY <1>1, <2>1, <2>2, QuietFits DEF PlainAhead, Working, Early, Late
  <2>3. CASE UNCHANGED <<i, remaining>> /\ pc' \in {"look", "open"}
    <3>1. PlainAhead'
      BY <2>1, <2>3 DEF LInv, PlainAhead, Plain, Working, InTree
    <3> QED BY <2>1, <2>3, <3>1, QuietFits DEF Early, Late
  <2>4. CASE /\ More /\ opts.mode = "standard" /\ remaining' = remaining \cup {Pkg}
             /\ i' = i + 1 /\ pc' = "package"
    <3>1. /\ \A k \in i..Len(packages) : /\ Plain(packages[k]) /\ packages[k] \notin remaining
                                       /\ entries[packages[k]].method = "none"
          /\ i \in i..Len(packages)
      BY <2>1, <2>4 DEF LInv, PlainAhead, Working, More, InTree
    <3>2. Plain(Pkg) /\ Pkg \in Found
      BY <2>4, <3>1, InHand DEF Pkg, IInv
    <3>3. RemainingIsPlain' /\ MethodsFit'
      BY <2>1, <2>4, <3>2 DEF LInv, RemainingIsPlain, MethodsFit, Plain, Early
    <3>4. \A k \in i + 1..Len(packages) : /\ Plain(packages[k])
                                          /\ packages[k] \notin remaining \cup {Pkg}
                                          /\ entries[packages[k]].method = "none"
      <4>1. \A k \in i + 1..Len(packages) : packages[k] # Pkg
        BY <2>4, OthersAhead DEF IInv
      <4>2. \A k \in i + 1..Len(packages) : k \in i..Len(packages)
        BY <2>1
      <4> QED BY <3>1, <4>1, <4>2
    <3>5. PlainAhead'
      BY <2>1, <2>4, <3>4 DEF PlainAhead, Plain
    <3>6. ManifestFits'
      BY <2>1 DEF LInv, ManifestFits, Entry, Listed
    <3> QED BY <3>3, <3>5, <3>6 DEF LInv
  <2> QED BY <1>1, <2>2, <2>3, <2>4 DEF NextPackage
<1>2. ASSUME InTree, InTree',
             UNCHANGED <<packages, opts, i, tree, remaining, entries, ab, manifest>>
      PROVE  LInv'
  <2>1. PlainAhead'
    BY <1>2 DEF LInv, PlainAhead, Plain, Working, InTree
  <2> QED BY <1>2, <2>1, QuietFits DEF InTree, Working, Early, Late
<1>3. CASE LookForTree
  <2>1. More /\ InTree
    BY <1>3 DEF IInv, Shape, LookForTree, InTree
  <2>2. CASE TreeDone(Unlisted, FALSE)
    <3>1. Unlisted \in Own(Pkg, tree, runs)
      BY DEF Own
    <3> QED BY <1>3, <2>1, <2>2, <3>1, TreeDoneFits DEF LookForTree, dirVars
  <2>3. CASE pc' = "open" /\ UNCHANGED <<i, tree, failed, remaining, entries, troubled>>
    BY <1>2, <1>3, <2>1, <2>3 DEF LookForTree, dirVars, runVars, InTree
  <2> QED BY <1>3, <2>2, <2>3 DEF LookForTree
<1>4. CASE OpenArchive
  <2>1. More /\ InTree
    BY <1>4 DEF IInv, Shape, OpenArchive, InTree
  <2>2. CASE TreeDone(Unlisted, TRUE)
    <3>1. Unlisted \in Own(Pkg, tree, runs)
      BY DEF Own
    <3> QED BY <1>4, <2>1, <2>2, <3>1, TreeDoneFits DEF OpenArchive
  <2>3. CASE pc' = "transfer" /\ UNCHANGED <<i, tree, failed, remaining, entries, troubled>>
    BY <1>2, <1>4, <2>1, <2>3 DEF OpenArchive, runVars, InTree
  <2> QED BY <1>4, <2>2, <2>3 DEF OpenArchive
<1>5. CASE EndTransfer
  <2>1. More /\ InTree
    BY <1>5 DEF IInv, Shape, EndTransfer, InTree
  <2>2. PICK sum \in Own(Pkg, tree, runs), trouble \in BOOLEAN : TreeDone(sum, trouble)
    BY <1>5 DEF EndTransfer, Own
  <2> QED BY <1>5, <2>1, <2>2, TreeDoneFits DEF EndTransfer
<1> QED BY <1>1, <1>3, <1>4, <1>5

LEMMA LateFits ==
  ASSUME BackupAssumption, IInv, LInv,
         StartLegacy \/ EndLegacy \/ CaptureExtra \/ LeaveExtras \/ MarkUnreached
  PROVE  LInv'
<1>1. entries \in [Found -> Entries] /\ DOMAIN entries = Found
  BY DEF IInv, TypeOK
<1>2. CASE StartLegacy \/ (EndLegacy /\ LegacyFails)
  <2>1. \A p \in Found : entries'[p].sum = entries[p].sum /\ entries'[p].method = entries[p].method
    <3>1. CASE LegacyFails
      BY <1>1, <3>1 DEF LegacyFails, Entries
    <3>2. CASE entries' = entries
      BY <3>2
    <3> QED BY <1>2, <3>1, <3>2 DEF StartLegacy
  <2>2. pc' \in {"confirm", "extras"} /\ pc \in {"legacy", "confirm"}
    BY <1>2 DEF StartLegacy, EndLegacy, LegacyFails
  <2>3. PlainAhead'
    BY <2>2 DEF PlainAhead, Working
  <2>4. ab' = ab
    BY <1>2 DEF StartLegacy, LegacyFails
  <2> QED BY <1>2, <2>1, <2>2, <2>3, <2>4, QuietFits
         DEF StartLegacy, EndLegacy, runVars, Early, Late
<1>3. CASE EndLegacy /\ ~LegacyFails
  <2>1. /\ entries' = [p \in DOMAIN entries |->
                         IF p \in remaining THEN [entries[p] EXCEPT !.method = "legacy"]
                                            ELSE entries[p]]
        /\ ab' = TRUE /\ pc' = "extras" /\ pc = "confirm"
        /\ UNCHANGED <<packages, opts, remaining, manifest>> /\ Found' = Found
    BY <1>3 DEF EndLegacy, runVars, Found
  <2>2. \A p \in Found : entries'[p].sum = entries[p].sum
                         /\ (entries'[p].method = "legacy" => p \in remaining)
    BY <1>1, <2>1 DEF Entries, LInv, MethodsFit, Late
  <2>3. RemainingIsPlain' /\ PlainAhead'
    BY <2>1, <2>2 DEF LInv, RemainingIsPlain, PlainAhead, Plain, Working, Early
  <2>5. MethodsFit'
    <3>1. \A p \in Found : Plain(p)' <=> Plain(p)
      BY <2>2 DEF Plain
    <3>2. \A p \in Found : entries'[p].method \in {entries[p].method, "legacy"}
      BY <1>1, <2>1 DEF Entries
    <3>3. \A p \in Found : entries[p].method \in {"root", "runas"} => ~Plain(p)
      BY DEF LInv, MethodsFit
    <3>4. \A p \in remaining : Plain(p)
      BY DEF LInv, RemainingIsPlain
    <3> QED BY <2>1, <2>2, <3>1, <3>2, <3>3, <3>4 DEF MethodsFit, Late
  <2>4. ManifestFits'
    BY <2>1 DEF LInv, ManifestFits, Entry, Listed
  <2> QED BY <2>3, <2>4, <2>5 DEF LInv
<1>4. CASE CaptureExtra \/ LeaveExtras
  <2>1. pc = "extras" /\ pc' \in {"extras", "mark"}
    BY <1>4 DEF CaptureExtra, LeaveExtras
  <2>2. PlainAhead'
    BY <2>1 DEF PlainAhead, Working
  <2> QED BY <1>4, <2>1, <2>2, QuietFits
         DEF CaptureExtra, LeaveExtras, runVars, dirVars, Early, Late
<1>5. CASE MarkUnreached
  <2>1. \A p \in Found : entries'[p].sum = entries[p].sum /\ entries'[p].method = entries[p].method
    BY <1>1, <1>5 DEF MarkUnreached, Entries
  <2>2. PlainAhead'
    BY <1>5 DEF MarkUnreached, PlainAhead, Working
  <2> QED BY <1>5, <2>1, <2>2, QuietFits DEF MarkUnreached, runVars, dirVars, Early, Late
<1> QED BY <1>2, <1>3, <1>4, <1>5

LEMMA EndFits ==
  ASSUME BackupAssumption, IInv, LInv, StartManifest \/ EndManifest \/ Count \/ Cancel \/ Kill
  PROVE  LInv'
<1>1. CASE StartManifest
  <2>1. CASE Stop("failed") /\ manifest' = manifest
    BY <2>1, StopFits
  <2>2. CASE manifest' = Torn /\ pc' = "writing"
             /\ UNCHANGED <<opts, localVars, disk, outcome, runs, historyVars>>
    <3>1. PlainAhead'
      BY <2>2 DEF PlainAhead, Working
    <3> QED BY <1>1, <2>2, <3>1, QuietFits DEF StartManifest, localVars, Early, Late
  <2> QED BY <1>1, <2>1, <2>2 DEF StartManifest
<1>2. CASE EndManifest
  <2>1. CASE Stop("failed") /\ manifest' = manifest
    BY <2>1, StopFits
  <2>2. CASE /\ manifest' = [run |-> runs, torn |-> FALSE, mode |-> opts.mode,
                             entries |-> entries, ab |-> ab, extras |-> extras]
             /\ pc' = "count"
             /\ UNCHANGED <<opts, localVars, disk, outcome, runs, historyVars>>
    <3>1. /\ UNCHANGED <<packages, opts, remaining, entries, ab>> /\ Found' = Found
          /\ manifest'.entries = entries /\ manifest'.ab = ab /\ pc = "writing"
          /\ entries \in [Found -> Entries] /\ DOMAIN entries = Found /\ Found \subseteq Packages
      BY <1>2, <2>2, InHand DEF localVars, Found, IInv, TypeOK, EndManifest
    <3>2. RemainingIsPlain' /\ PlainAhead' /\ MethodsFit'
      BY <2>2, <3>1 DEF LInv, RemainingIsPlain, PlainAhead, MethodsFit, Plain, Working,
                        Late, Early
    <3>3. ManifestFits'
      <4>1. \A p \in Found : /\ entries[p].method = "legacy" => ab /\ Plain(p)
                             /\ entries[p].method \in {"root", "runas"} => ~Plain(p)
        BY DEF LInv, MethodsFit
      <4>2. \A p : Entry(p)' = entries[p]
        BY <3>1 DEF Entry
      <4>3. \A p : Plain(p) <=> \A t \in Trees : ~Listed(p, t)'
        BY <4>2 DEF Plain, Listed
      <4>4. DOMAIN manifest'.entries \subseteq Packages
            /\ manifest'.entries \in [DOMAIN manifest'.entries -> Entries]
        BY <3>1
      <4>5. \A p \in DOMAIN manifest'.entries :
              /\ Entry(p)'.method = "legacy" => manifest'.ab /\ \A t \in Trees : ~Listed(p, t)'
              /\ Entry(p)'.method \in {"root", "runas"} => \E t \in Trees : Listed(p, t)'
        <5> TAKE p \in DOMAIN manifest'.entries
        <5>1. p \in Found /\ Entry(p)' = entries[p] /\ manifest'.ab = ab
          BY <3>1, <4>2
        <5>2. CASE Plain(p)
          BY <4>1, <4>3, <5>1, <5>2
        <5>3. CASE ~Plain(p)
          <6>1. \E t \in Trees : Listed(p, t)'
            BY <4>3, <5>3
          <6>2. entries[p].method # "legacy"
            BY <4>1, <5>1, <5>3
          <6> QED BY <5>1, <6>1, <6>2
        <5> QED BY <5>2, <5>3
      <4> QED BY <4>4, <4>5 DEF ManifestFits
    <3> QED BY <3>2, <3>3 DEF LInv
  <2>3. CASE manifest' = manifest /\ pc' = "count"
             /\ UNCHANGED <<opts, localVars, disk, outcome, runs, historyVars>>
    <3>1. PlainAhead'
      BY <2>3 DEF PlainAhead, Working
    <3> QED BY <1>2, <2>3, <3>1, QuietFits DEF EndManifest, localVars, Early, Late
  <2> QED BY <1>2, <2>1, <2>2, <2>3 DEF EndManifest
<1>3. CASE Count
  <2>1. PICK how \in {"cancelled", "success"} : Stop(how) /\ manifest' = manifest
    BY <1>3 DEF Count
  <2> QED BY <2>1, StopFits
<1>4. CASE Cancel
  <2>1. UNCHANGED <<pc, packages, opts, i, tree, remaining, entries, ab, manifest>>
    BY <1>4 DEF Cancel, runVars, dirVars
  <2>2. PlainAhead'
    BY <2>1 DEF LInv, PlainAhead, Plain, Found, InTree
  <2> QED BY <2>1, <2>2, QuietFits
<1>5. CASE Kill
  BY <1>5, StopFits DEF Kill
<1> QED BY <1>1, <1>2, <1>3, <1>4, <1>5

LEMMA NextFits ==
  ASSUME BackupAssumption, IInv, LInv, Next
  PROVE  LInv'
BY EarlyFits, CaptureFits, LateFits, EndFits DEF Next, DeviceStep, LocalStep

\* A step of the restore changes nothing of the backup but the flag, and
\* damage only archives, in both cases between two runs.
LEMMA IdleKeeps ==
  ASSUME IInv, LInv, UNCHANGED <<pc, opts, packages, i, tree, failed, runAs, remaining, entries,
           ab, extras, manifest, outcome, runs, skipped, troubled>>,
         pc = "idle" \/ flag' = flag, flag' \in BOOLEAN,
         disk' \in [Files -> Contents \cup {Absent, Partial, Rotten}]
  PROVE  IInv' /\ LInv'
<1>1. Found' = Found /\ Pkg' = Pkg /\ InTree' = InTree /\ (More' <=> More)
  BY DEF Found, Pkg, InTree, More
<1>2. TypeOK' /\ Shape'
  BY <1>1 DEF IInv, TypeOK, Shape
<1>3. SumsAreOwn' /\ ManifestIsOwn'
  BY <1>1 DEF IInv, SumsAreOwn, ManifestIsOwn, Own, Content
<1>4. RunOrder' /\ SkipNeedsFlag' /\ ApksAhead'
  BY DEF IInv, RunOrder, SkipNeedsFlag, ApksAhead, OwnManifest
<1>5. TroubleInHand'
  BY <1>1 DEF IInv, TroubleInHand
<1>6. MarksAreMade'
  BY <1>1 DEF IInv, MarksAreMade, Included
<1>7. SuccessIsComplete' /\ TroubleIsMarked' /\ EmptyAndCleanWasReached'
  BY DEF IInv, SuccessIsComplete, TroubleIsMarked, EmptyAndCleanWasReached, OwnManifest,
         Clean, Included
<1>8. RemainingIsPlain' /\ PlainAhead' /\ MethodsFit'
  BY <1>1 DEF LInv, RemainingIsPlain, PlainAhead, MethodsFit, Plain
<1>9. ManifestFits'
  BY DEF LInv, ManifestFits, Entry, Listed
<1> QED BY <1>2, <1>3, <1>4, <1>5, <1>6, <1>7, <1>8, <1>9 DEF IInv, LInv
-----------------------------------------------------------------------------
(* The restore's own invariant.                                            *)

InData == rpc \in {"verify", "stat", "extract", "chown"}     \* Cur is in hand
New(p, t) == device[p][t] \notin {Old, Half}
ItsTrees(p) == IF Entry(p).method = "legacy" THEN {"ce"} ELSE {t \in Trees : Listed(p, t)}

\* When a restore has begun: the directory is as the backups left it.
Begun ==
  /\ restores = 0 => rpc = "idle" /\ device = Untouched /\ restored = {} /\ routcome = "none"
  /\ restores > 0 => pc = "idle" /\ manifest.run > 0
  /\ rpc = "idle" => j = 1
  /\ rpc # "idle" => restores > 0 /\ restored = {} /\ routcome = "none"

\* The package in hand, once past the check, has archives that are sound.
HandFits ==
  InData =>
    /\ InLoop /\ HasData(Cur) /\ Entry(Cur).method # "legacy"
    /\ rpc # "verify" => Listed(Cur, rtree) /\ \A t \in Trees : Sound(Cur, t)

\* Its first tree was extracted before its second is taken up.
TreesInHand ==
  /\ InData /\ rpc # "verify" /\ rtree = "de" /\ Listed(Cur, "ce") => New(Cur, "ce")
  /\ rpc = "chown" => New(Cur, rtree) /\ Cur \in wrote

WholeOrOld ==
  rpc # "idle" =>
    \A p \in Selected \ bad :
      \/ \A t \in ItsTrees(p) : device[p][t] = Old
      \/ \A t \in ItsTrees(p) : New(p, t)
      \/ InData /\ p = Cur

\* A checked archive's content is the recorded one, and so is what it became.
DeviceIsSummed ==
  restores > 0 =>
    \A p \in DOMAIN manifest.entries, t \in Trees :
      New(p, t) /\ Entry(p).sum[t] \notin {Unlisted, Unsummed}
        => device[p][t][2] = Entry(p).sum[t]

SelectedOnly ==
  \A p \in Packages \ choice.sel : (\A t \in Trees : device[p][t] = Old) \/ p \in LegacyPackages

DataAllowed == InData \/ rpc \in {"next", "legacy"} => DataPossible
WroteIsCounted == rpc # "idle" => \A p \in wrote : p \in DOMAIN manifest.entries /\ Counted(p)

\* Without a cancel every selected package with an APK was written or failed.
ApksDone ==
  ~flag /\ rpc # "idle" /\ choice.apks =>
    \A k \in 1..Len(Order) :
      (rpc = "install" => k < j) /\ Order[k] \in Selected /\ Entry(Order[k]).apk
        => Order[k] \in wrote \cup bad

\* And so was every one with data, those of the legacy archive at the end.
DataDone ==
  ~flag =>
    /\ InData \/ rpc = "next" =>
         \A k \in 1..Len(Order) :
           k < j /\ HasData(Order[k]) => \/ Order[k] \in wrote \cup bad
                                         \/ legacy /\ Entry(Order[k]).method = "legacy"
    /\ rpc = "legacy" =>
         \A p \in Selected : HasData(p) => p \in wrote \cup bad \/ Entry(p).method = "legacy"
    /\ rpc \in {"extras", "count"} /\ DataPossible =>
         \A p \in Selected : HasData(p) => p \in wrote \cup bad

RInv ==
  /\ RestoreTypeOK /\ Begun /\ HandFits /\ TreesInHand /\ WholeOrOld /\ DamagedIsUntouched
  /\ DeviceIsSummed /\ SelectedOnly /\ DataAllowed /\ WroteIsCounted /\ ApksDone /\ DataDone
  /\ NoHalfIsCountedRestored /\ SuccessCountsTheTruth /\ RoundTrip

-----------------------------------------------------------------------------
(* What the steps of a restore have in common.                             *)

\* What is in hand has a type.
LEMMA InHandTyped ==
  ASSUME BackupAssumption, RestoreAssumption, RInv, LInv, restores > 0
  PROVE  /\ DOMAIN manifest.entries \subseteq Packages /\ Selected \subseteq DOMAIN manifest.entries
         /\ Selected \subseteq Packages /\ Len(Order) \in Nat /\ j \in Nat /\ j >= 1
         /\ InLoop => j \in 1..Len(Order) /\ Cur \in Packages /\ Cur = Order[j]
         /\ ~InLoop => j = Len(Order) + 1
         /\ \A p \in DOMAIN manifest.entries : Entry(p) \in Entries
         /\ LegacyPackages \subseteq DOMAIN manifest.entries
<1>1. manifest.run > 0
  BY DEF RInv, Begun
<1>2. /\ DOMAIN manifest.entries \subseteq Packages
      /\ manifest.entries \in [DOMAIN manifest.entries -> Entries]
  BY <1>1 DEF LInv, ManifestFits
<1>3. \A p \in DOMAIN manifest.entries : Entry(p) \in Entries
  BY <1>2 DEF Entry
<1>4. Len(Order) \in Nat /\ j \in 1..(Len(Order) + 1)
  BY DEF BackupAssumption, RInv, RestoreTypeOK
<1>5. InLoop => j \in 1..Len(Order) /\ Cur \in Packages /\ Cur = Order[j]
  BY <1>4 DEF InLoop, Cur, Packages
<1>6. ~InLoop => j = Len(Order) + 1
  BY <1>4 DEF InLoop
<1> QED BY <1>2, <1>3, <1>4, <1>5, <1>6 DEF Selected, LegacyPackages

\* The manifest and the choice stay, and what is read of them.
LEMMA SameManifest ==
  ASSUME UNCHANGED <<manifest, choice, disk>>
  PROVE  /\ Selected' = Selected /\ LegacyPackages' = LegacyPackages
         /\ DataPossible' <=> DataPossible
         /\ \A p : Entry(p)' = Entry(p)
         /\ \A p : ItsTrees(p)' = ItsTrees(p)
         /\ \A p : (HasData(p)' <=> HasData(p)) /\ (Counted(p)' <=> Counted(p))
         /\ \A p, t : (Listed(p, t)' <=> Listed(p, t)) /\ (Sound(p, t)' <=> Sound(p, t))
<1>1. \A p : Entry(p)' = Entry(p)
  BY DEF Entry
<1>2. Selected' = Selected /\ (DataPossible' <=> DataPossible)
  BY DEF Selected, DataPossible
<1>3. \A p, t : (Listed(p, t)' <=> Listed(p, t)) /\ (Sound(p, t)' <=> Sound(p, t))
  BY <1>1 DEF Listed, Sound
<1>4. LegacyPackages' = LegacyPackages
  BY <1>1 DEF LegacyPackages
<1>5. \A p : ItsTrees(p)' = ItsTrees(p)
  BY <1>1, <1>3 DEF ItsTrees
<1>6. \A p : (HasData(p)' <=> HasData(p)) /\ (Counted(p)' <=> Counted(p))
  BY <1>1, <1>2 DEF HasData, Counted
<1> QED BY <1>1, <1>2, <1>3, <1>4, <1>5, <1>6

during == <<backupVars, choice, countVars, routcome, restores>>

\* A step in the middle of a restore counts nothing.
LEMMA Uncounted ==
  ASSUME RInv, rpc # "idle", rpc' # "idle", UNCHANGED during
  PROVE  Begun' /\ NoHalfIsCountedRestored' /\ SuccessCountsTheTruth'
         /\ (SelectedOnly' => RoundTrip')
<1>1. Begun' /\ restored' = {} /\ routcome' = "none"
  BY DEF RInv, Begun, during, countVars, backupVars
<1> QED BY <1>1 DEF NoHalfIsCountedRestored, SuccessCountsTheTruth, SelectedOnly, RoundTrip

\* A step that leaves the device alone.
LEMMA SameDevice ==
  ASSUME RInv, rpc # "idle", rpc' # "idle", UNCHANGED during, device' = device
  PROVE  /\ DamagedIsUntouched' /\ DeviceIsSummed' /\ SelectedOnly'
         /\ \A p, t : New(p, t)' <=> New(p, t)
<1>1. UNCHANGED <<manifest, choice, disk, restores>>
  BY DEF during, backupVars
<1>2. /\ LegacyPackages' = LegacyPackages
      /\ \A p : Entry(p)' = Entry(p)
      /\ \A p, t : Sound(p, t)' <=> Sound(p, t)
  BY <1>1, SameManifest
<1>3. \A p, t : New(p, t)' <=> New(p, t)
  BY DEF New
<1>4. DamagedIsUntouched'
  BY <1>1, <1>2 DEF RInv, DamagedIsUntouched
<1>5. DeviceIsSummed'
  BY <1>1, <1>2, <1>3 DEF RInv, DeviceIsSummed
<1>6. SelectedOnly'
  BY <1>1, <1>2 DEF RInv, SelectedOnly
<1> QED BY <1>3, <1>4, <1>5, <1>6
LEMMA MoveKeeps ==
  ASSUME RInv, rpc # "idle", rpc' # "idle", UNCHANGED during, device' = device,
         RestoreTypeOK', HandFits', TreesInHand', WholeOrOld', DataAllowed', WroteIsCounted',
         ApksDone', DataDone'
  PROVE  RInv'
BY Uncounted, SameDevice DEF RInv

\* What was whole or as it was is so after any step that keeps the device.
LEMMA StillWholeOrOld ==
  ASSUME RInv, rpc # "idle", rpc' # "idle", UNCHANGED during, device' = device,
         bad \subseteq bad', InData => Cur \in bad' \/ (InData' /\ Cur' = Cur)
  PROVE  WholeOrOld'
<1>1. UNCHANGED <<manifest, choice, disk>>
  BY DEF during, backupVars
<1>2. /\ Selected' = Selected /\ \A p : ItsTrees(p)' = ItsTrees(p)
      /\ \A p, t : New(p, t)' <=> New(p, t)
  BY <1>1, SameManifest, SameDevice
<1>3. \A p \in Selected \ bad' :
        \/ \A t \in ItsTrees(p) : device[p][t] = Old
        \/ \A t \in ItsTrees(p) : New(p, t)
        \/ InData /\ p = Cur
  BY DEF RInv, WholeOrOld
<1>4. \A p \in Selected \ bad' : InData /\ p = Cur => InData' /\ p = Cur'
  OBVIOUS
<1> QED BY <1>2, <1>3, <1>4 DEF WholeOrOld

-----------------------------------------------------------------------------
(* The steps of a restore.                                                 *)

LEMMA InstallApkKeeps ==
  ASSUME BackupAssumption, RestoreAssumption, RInv, LInv, InstallApk
  PROVE  RInv'
<1>1. /\ rpc = "install" /\ rpc' = "install" /\ restores > 0 /\ UNCHANGED during /\ device' = device
      /\ UNCHANGED <<manifest, choice, disk, flag>> /\ j' = j + 1 /\ choice.apks
      /\ ~InData /\ ~InData'
  BY DEF InstallApk, RInv, Begun, during, countVars, backupVars, InData
<1>2. /\ Selected' = Selected
      /\ \A p : Entry(p)' = Entry(p)
      /\ \A p : Counted(p)' <=> Counted(p)
  BY <1>1, SameManifest
<1>3. /\ Selected \subseteq DOMAIN manifest.entries /\ Selected \subseteq Packages
      /\ Len(Order) \in Nat /\ j \in 1..Len(Order) /\ Cur \in Packages /\ Cur = Order[j]
  BY <1>1, InHandTyped DEF InstallApk
<1>4. /\ bad \subseteq bad' /\ wrote \subseteq wrote'
      /\ bad' \subseteq bad \cup {Cur}
      /\ wrote' \subseteq wrote \cup {Cur} /\ (wrote' # wrote => Cur \in Selected /\ Entry(Cur).apk)
      /\ Cur \in Selected /\ Entry(Cur).apk => Cur \in wrote' \cup bad'
      /\ installed' \subseteq installed \cup {Cur}
  BY DEF InstallApk
<1>5. RestoreTypeOK'
  BY <1>1, <1>3, <1>4 DEF RInv, RestoreTypeOK, InstallApk, countVars
<1>6. HandFits' /\ TreesInHand' /\ DataAllowed' /\ DataDone'
  BY <1>1 DEF HandFits, TreesInHand, DataAllowed, DataDone
<1>7. WholeOrOld'
  BY <1>1, <1>4, StillWholeOrOld
<1>8. WroteIsCounted'
  BY <1>1, <1>2, <1>3, <1>4 DEF RInv, WroteIsCounted, Counted
<1>9. ApksDone'
  <2> SUFFICES ASSUME ~flag, NEW k \in 1..Len(Order), k < j + 1, Order[k] \in Selected,
                      Entry(Order[k]).apk
               PROVE  Order[k] \in wrote' \cup bad'
    BY <1>1, <1>2 DEF ApksDone
  <2>1. CASE k = j
    BY <1>3, <1>4, <2>1
  <2>2. CASE k < j
    BY <1>1, <1>4, <2>2 DEF RInv, ApksDone
  <2> QED BY <1>3, <2>1, <2>2
<1> QED BY <1>1, <1>5, <1>6, <1>7, <1>8, <1>9, MoveKeeps

LEMMA LeaveInstallKeeps ==
  ASSUME BackupAssumption, RestoreAssumption, RInv, LInv, LeaveInstall
  PROVE  RInv'
<1>1. /\ rpc = "install" /\ rpc' \in {"next", "extras"} /\ restores > 0
      /\ UNCHANGED during /\ device' = device
      /\ UNCHANGED <<manifest, choice, disk, flag, wrote, bad, legacy>> /\ j' = 1
      /\ ~InData /\ ~InData'
  BY DEF LeaveInstall, RInv, Begun, during, countVars, backupVars, InData, deviceVars
<1>2. /\ Selected' = Selected /\ (DataPossible' <=> DataPossible)
      /\ \A p : Entry(p)' = Entry(p)
      /\ \A p : (HasData(p)' <=> HasData(p)) /\ (Counted(p)' <=> Counted(p))
  BY <1>1, SameManifest
<1>3. RestoreTypeOK'
  BY <1>1, InHandTyped DEF RInv, RestoreTypeOK, LeaveInstall, countVars, deviceVars
<1>4. HandFits' /\ TreesInHand' /\ DataAllowed'
  BY <1>1, <1>2 DEF HandFits, TreesInHand, DataAllowed, LeaveInstall
<1>5. WholeOrOld'
  BY <1>1, StillWholeOrOld
<1>6. WroteIsCounted'
  BY <1>1, <1>2 DEF RInv, WroteIsCounted
<1>7. ApksDone'
  <2> SUFFICES ASSUME ~flag, choice.apks, NEW k \in 1..Len(Order), Order[k] \in Selected,
                      Entry(Order[k]).apk
               PROVE  Order[k] \in wrote \cup bad
    BY <1>1, <1>2 DEF ApksDone
  <2>1. ~InLoop
    BY DEF LeaveInstall
  <2>2. k < j
    BY <1>1, <2>1, InHandTyped
  <2> QED BY <1>1, <2>2 DEF RInv, ApksDone
<1>8. DataDone'
  <2>1. rpc' = "extras" /\ ~flag => ~DataPossible
    BY DEF LeaveInstall
  <2>2. \A k \in 1..Len(Order) : ~(k < 1)
    BY InHandTyped, <1>1
  <2> QED BY <1>1, <1>2, <2>1, <2>2 DEF DataDone
<1> QED BY <1>1, <1>3, <1>4, <1>5, <1>6, <1>7, <1>8, MoveKeeps
LEMMA NextRestoreKeeps ==
  ASSUME BackupAssumption, RestoreAssumption, RInv, LInv, NextRestore
  PROVE  RInv'
<1>1. /\ rpc = "next" /\ rpc' \in {"next", "extras", "verify"} /\ restores > 0
      /\ UNCHANGED during /\ device' = device /\ InLoop
      /\ UNCHANGED <<manifest, choice, disk, flag, wrote, bad, installed, rtree>>
      /\ ~InData /\ (InData' => rpc' = "verify")
  BY DEF NextRestore, RInv, Begun, during, countVars, backupVars, InData, deviceVars
<1>2. /\ Selected' = Selected /\ (DataPossible' <=> DataPossible)
      /\ \A p : Entry(p)' = Entry(p)
      /\ \A p : (HasData(p)' <=> HasData(p)) /\ (Counted(p)' <=> Counted(p))
  BY <1>1, SameManifest
<1>3. j \in 1..Len(Order) /\ Len(Order) \in Nat /\ Cur = Order[j] /\ j' \in {j, j + 1}
  BY <1>1, InHandTyped DEF NextRestore
<1>4. legacy' \in BOOLEAN /\ (legacy => legacy')
  <2>1. legacy \in BOOLEAN
    BY DEF RInv, RestoreTypeOK
  <2>2. CASE legacy' = legacy
    BY <2>1, <2>2
  <2>3. CASE legacy' = TRUE
    BY <2>3
  <2> QED BY <2>2, <2>3 DEF NextRestore
<1>5. RestoreTypeOK'
  BY <1>1, <1>3, <1>4 DEF RInv, RestoreTypeOK, countVars, during
<1>6. HandFits' /\ TreesInHand' /\ DataAllowed'
  <2>1. rpc' = "verify" => j' = j /\ HasData(Cur) /\ Entry(Cur).method # "legacy"
    BY DEF NextRestore
  <2>2. DataAllowed'
    BY <1>1, <1>2 DEF RInv, DataAllowed
  <2>3. TreesInHand'
    BY <1>1 DEF TreesInHand
  <2>4. HandFits'
    <3>1. CASE InData'
      <4>1. rpc' = "verify" /\ j' = j /\ Cur' = Cur /\ InLoop'
        BY <1>1, <2>1, <3>1 DEF Cur, InLoop
      <4> QED BY <1>2, <2>1, <4>1 DEF HandFits
    <3> QED BY <3>1 DEF HandFits
  <2> QED BY <2>2, <2>3, <2>4
<1>7. WholeOrOld'
  BY <1>1, StillWholeOrOld
<1>8. WroteIsCounted' /\ ApksDone'
  BY <1>1, <1>2 DEF RInv, WroteIsCounted, ApksDone
<1>9. DataDone'
  <2>1. CASE flag
    BY <1>1, <2>1 DEF DataDone
  <2>2. CASE ~flag
    <3>1. rpc' \in {"next", "verify"}
      BY <1>1, <2>2 DEF NextRestore
    <3>2. \A k \in 1..Len(Order) : k < j /\ HasData(Order[k]) =>
            Order[k] \in wrote \cup bad \/ (legacy /\ Entry(Order[k]).method = "legacy")
      BY <1>1, <2>2 DEF RInv, DataDone
    <3>3. j' = j \/ (j' = j + 1 /\ (HasData(Cur) => legacy' /\ Entry(Cur).method = "legacy"))
      BY <2>2 DEF NextRestore
    <3>4. ASSUME NEW k \in 1..Len(Order), k < j', HasData(Order[k])
          PROVE  Order[k] \in wrote \cup bad \/ (legacy' /\ Entry(Order[k]).method = "legacy")
      <4>1. CASE k < j
        BY <1>4, <3>2, <3>4, <4>1
      <4>2. CASE k = j
        BY <1>3, <3>3, <3>4, <4>2
      <4> QED BY <1>3, <3>4, <4>1, <4>2
    <3> QED BY <1>1, <1>2, <3>1, <3>4 DEF DataDone, InData
  <2> QED BY <2>1, <2>2
<1> QED BY <1>1, <1>5, <1>6, <1>7, <1>8, <1>9, MoveKeeps

LEMMA LeaveRestoreKeeps ==
  ASSUME BackupAssumption, RestoreAssumption, RInv, LInv, LeaveRestore
  PROVE  RInv'
<1>1. /\ rpc = "next" /\ rpc' \in {"legacy", "extras"} /\ restores > 0
      /\ UNCHANGED during /\ device' = device /\ ~InLoop
      /\ UNCHANGED <<manifest, choice, disk, flag, wrote, bad, installed, rtree, j, legacy>>
      /\ ~InData /\ ~InData'
  BY DEF LeaveRestore, RInv, Begun, during, countVars, backupVars, InData, deviceVars
<1>2. /\ Selected' = Selected /\ (DataPossible' <=> DataPossible)
      /\ \A p : Entry(p)' = Entry(p)
      /\ \A p : (HasData(p)' <=> HasData(p)) /\ (Counted(p)' <=> Counted(p))
  BY <1>1, SameManifest
<1>3. RestoreTypeOK'
  BY <1>1 DEF RInv, RestoreTypeOK, countVars, during
<1>4. HandFits' /\ TreesInHand' /\ DataAllowed'
  BY <1>1, <1>2 DEF RInv, HandFits, TreesInHand, DataAllowed
<1>5. WholeOrOld'
  BY <1>1, StillWholeOrOld
<1>6. WroteIsCounted' /\ ApksDone'
  BY <1>1, <1>2 DEF RInv, WroteIsCounted, ApksDone
<1>7. DataDone'
  <2> SUFFICES ASSUME ~flag, NEW p \in Selected, HasData(p), p \notin wrote \cup bad
               PROVE  rpc' = "legacy" /\ Entry(p).method = "legacy"
    BY <1>1, <1>2 DEF DataDone
  <2>1. PICK k \in 1..Len(Order) : p = Order[k]
    BY <1>1, InHandTyped DEF Packages
  <2>2. k < j
    BY <1>1, InHandTyped
  <2>3. legacy /\ Entry(p).method = "legacy"
    BY <1>1, <2>1, <2>2 DEF RInv, DataDone
  <2>4. manifest.run > 0 /\ p \in DOMAIN manifest.entries
    BY <1>1 DEF RInv, Begun, Selected
  <2>5. manifest.ab
    BY <2>3, <2>4 DEF LInv, ManifestFits
  <2> QED BY <2>3, <2>5 DEF LeaveRestore
<1> QED BY <1>1, <1>3, <1>4, <1>5, <1>6, <1>7, MoveKeeps

\* The package in hand has failed and the loop goes on to the next.
LEMMA FailFits ==
  ASSUME BackupAssumption, RestoreAssumption, RInv, LInv, InData, Fail(Cur),
         UNCHANGED during, UNCHANGED <<flag, wrote, legacy, installed>>,
         device' \in [Packages -> [Trees -> DeviceStates]]
  PROVE  /\ RestoreTypeOK' /\ HandFits' /\ TreesInHand' /\ DataAllowed' /\ WroteIsCounted'
         /\ ApksDone' /\ DataDone'
<1>1. /\ rpc # "idle" /\ rpc' = "next" /\ restores > 0 /\ j' = j + 1 /\ rtree' = "ce"
      /\ bad' = bad \cup {Cur}
      /\ UNCHANGED <<manifest, choice, disk>> /\ ~InData'
  BY DEF RInv, Begun, during, backupVars, InData, Fail
<1>2. /\ Selected' = Selected /\ (DataPossible' <=> DataPossible)
      /\ \A p : Entry(p)' = Entry(p)
      /\ \A p : (HasData(p)' <=> HasData(p)) /\ (Counted(p)' <=> Counted(p))
  BY <1>1, SameManifest
<1>3. j \in 1..Len(Order) /\ Len(Order) \in Nat /\ Cur = Order[j] /\ Cur \in Packages
  BY <1>1, InHandTyped DEF RInv, HandFits
<1>4. RestoreTypeOK'
  BY <1>1, <1>3 DEF RInv, RestoreTypeOK, countVars, during, Trees
<1>5. HandFits' /\ TreesInHand' /\ DataAllowed'
  BY <1>1, <1>2 DEF RInv, HandFits, TreesInHand, DataAllowed
<1>6. WroteIsCounted' /\ ApksDone'
  BY <1>1, <1>2 DEF RInv, WroteIsCounted, ApksDone, InData
<1>7. DataDone'
  <2> SUFFICES ASSUME ~flag, NEW k \in 1..Len(Order), k < j + 1, HasData(Order[k])
               PROVE  \/ Order[k] \in wrote \cup bad'
                      \/ legacy /\ Entry(Order[k]).method = "legacy"
    BY <1>1, <1>2 DEF DataDone
  <2>1. CASE k = j
    BY <1>1, <1>3, <2>1
  <2>2. CASE k < j
    BY <1>1, <2>2 DEF RInv, DataDone
  <2> QED BY <1>3, <2>1, <2>2
<1> QED BY <1>4, <1>5, <1>6, <1>7

LEMMA FailKeeps ==
  ASSUME BackupAssumption, RestoreAssumption, RInv, LInv, InData, Fail(Cur),
         UNCHANGED during, UNCHANGED <<flag, device, wrote, legacy, installed>>
  PROVE  RInv'
<1>1. rpc # "idle" /\ rpc' # "idle" /\ bad \subseteq bad' /\ Cur \in bad'
  BY DEF InData, Fail
<1>2. device' \in [Packages -> [Trees -> DeviceStates]]
  BY DEF RInv, RestoreTypeOK
<1>3. WholeOrOld'
  BY <1>1, StillWholeOrOld
<1> QED BY <1>1, <1>2, <1>3, FailFits, MoveKeeps

\* The package in hand is taken one step on, without the device being written.
LEMMA StayKeeps ==
  ASSUME BackupAssumption, RestoreAssumption, RInv, LInv, rpc \in {"verify", "stat"},
         rpc' \in {"stat", "extract"}, rtree' \in Trees, Listed(Cur, rtree'),
         \A t \in Trees : Sound(Cur, t),
         rtree' = "de" /\ Listed(Cur, "ce") => New(Cur, "ce"),
         UNCHANGED during, UNCHANGED <<flag, device, wrote, legacy, installed, j, bad>>
  PROVE  RInv'
<1>1. /\ rpc # "idle" /\ rpc' # "idle" /\ restores > 0 /\ UNCHANGED <<manifest, choice, disk>>
      /\ InData /\ InData' /\ Cur' = Cur /\ (InLoop' <=> InLoop) /\ InLoop /\ HasData(Cur)
      /\ Entry(Cur).method # "legacy"
  BY DEF RInv, Begun, during, backupVars, InData, Cur, InLoop, HandFits
<1>2. /\ Selected' = Selected /\ (DataPossible' <=> DataPossible)
      /\ \A p : Entry(p)' = Entry(p)
      /\ \A p : (HasData(p)' <=> HasData(p)) /\ (Counted(p)' <=> Counted(p))
      /\ \A p, t : (Listed(p, t)' <=> Listed(p, t)) /\ (Sound(p, t)' <=> Sound(p, t))
      /\ \A p, t : New(p, t)' <=> New(p, t)
  BY <1>1, SameManifest, SameDevice
<1>3. RestoreTypeOK'
  BY <1>1 DEF RInv, RestoreTypeOK, countVars, during
<1>4. HandFits'
  <2>1. HasData(Cur)' /\ Entry(Cur)'.method # "legacy"
    BY <1>1, <1>2
  <2>2. Listed(Cur, rtree)' /\ \A t \in Trees : Sound(Cur, t)'
    BY <1>1, <1>2
  <2> QED BY <1>1, <2>1, <2>2 DEF HandFits
<1>5. TreesInHand'
  BY <1>1, <1>2 DEF TreesInHand
<1>6. DataAllowed' /\ WroteIsCounted' /\ ApksDone'
  BY <1>1, <1>2 DEF RInv, DataAllowed, WroteIsCounted, ApksDone
<1>7. DataDone'
  BY <1>1, <1>2 DEF RInv, DataDone, InData
<1>8. WholeOrOld'
  BY <1>1, StillWholeOrOld
<1> QED BY <1>1, <1>3, <1>4, <1>5, <1>6, <1>7, <1>8, MoveKeeps

LEMMA VerifyKeeps ==
  ASSUME BackupAssumption, RestoreAssumption, RInv, LInv, Verify
  PROVE  RInv'
<1>1. /\ InData /\ rpc = "verify" /\ UNCHANGED during
      /\ UNCHANGED <<flag, device, wrote, legacy, installed>>
  BY DEF Verify, InData, during, backupVars, countVars, deviceVars
<1>2. CASE \A t \in Trees : Sound(Cur, t)
  <2>1. rpc' = "stat" /\ rtree' = FirstTree(Cur) /\ UNCHANGED <<j, bad>>
    BY <1>2 DEF Verify
  <2>2. rtree' = "de" => ~Listed(Cur, "ce")
    BY <2>1 DEF FirstTree
  <2>3. \E t \in Trees : Listed(Cur, t)
    <3>1. Cur \in DOMAIN manifest.entries /\ manifest.run > 0 /\ restores > 0
          /\ Entry(Cur).method \notin {"none", "legacy"}
      BY <1>1 DEF RInv, Begun, HandFits, HasData, Selected
    <3>2. Entry(Cur).method \in {"none", "root", "runas", "legacy"}
      BY <3>1, InHandTyped DEF Entries
    <3> QED BY <3>1, <3>2 DEF LInv, ManifestFits
  <2>4. rtree' \in Trees /\ Listed(Cur, rtree')
    BY <2>1, <2>3 DEF FirstTree, Trees
  <2> QED BY <1>1, <1>2, <2>1, <2>2, <2>4, StayKeeps
<1>3. CASE ~\A t \in Trees : Sound(Cur, t)
  BY <1>1, <1>3, FailKeeps DEF Verify
<1> QED BY <1>2, <1>3

LEMMA StatKeeps ==
  ASSUME BackupAssumption, RestoreAssumption, RInv, LInv, Stat
  PROVE  RInv'
<1>1. /\ InData /\ rpc = "stat" /\ UNCHANGED during
      /\ UNCHANGED <<flag, device, wrote, legacy, installed>>
  BY DEF Stat, InData, during, backupVars, countVars, deviceVars
<1>2. CASE rpc' = "extract" /\ UNCHANGED <<j, rtree, bad>>
  <2>1. Listed(Cur, rtree) /\ \A t \in Trees : Sound(Cur, t)
    BY <1>1 DEF RInv, HandFits
  <2>2. rtree = "de" /\ Listed(Cur, "ce") => New(Cur, "ce")
    BY <1>1 DEF RInv, TreesInHand
  <2>3. rtree' = rtree /\ rtree \in Trees
    BY <1>2 DEF RInv, RestoreTypeOK
  <2> QED BY <1>1, <1>2, <2>1, <2>2, <2>3, StayKeeps
<1>3. CASE Fail(Cur)
  BY <1>1, <1>3, FailKeeps
<1> QED BY <1>2, <1>3 DEF Stat
-----------------------------------------------------------------------------
(* The steps that write to the device.                                     *)

\* A content is neither what was there before nor an unfinished extraction.
LEMMA PutIsNew ==
  ASSUME NEW c, NEW o
  PROVE  Put(c, o) \notin {Old, Half} /\ Put(c, o)[2] = c
BY DEF Put, Old, Half

\* One tree of the package in hand becomes `now`.
LEMMA TreeChanges ==
  ASSUME BackupAssumption, RestoreAssumption, RInv, LInv, rpc \in {"extract", "chown"},
         rpc' # "idle", NEW now \in DeviceStates, device' = [device EXCEPT ![Cur][rtree] = now],
         now \notin {Old, Half} /\ Entry(Cur).sum[rtree] \notin {Unlisted, Unsummed}
           => now[2] = Entry(Cur).sum[rtree],
         UNCHANGED during
  PROVE  /\ device' \in [Packages -> [Trees -> DeviceStates]]
         /\ device'[Cur][rtree] = now
         /\ \A p \in Packages, t \in Trees :
              p # Cur \/ t # rtree => device'[p][t] = device[p][t]
         /\ DamagedIsUntouched' /\ DeviceIsSummed' /\ SelectedOnly'
<1>1. /\ restores > 0 /\ rpc # "idle" /\ InData /\ rpc # "verify"
      /\ UNCHANGED <<manifest, choice, disk, restores>>
  BY DEF RInv, Begun, during, backupVars, InData
<1>2. /\ LegacyPackages' = LegacyPackages
      /\ \A p : Entry(p)' = Entry(p)
      /\ \A p, t : Sound(p, t)' <=> Sound(p, t)
  BY <1>1, SameManifest
<1>3. /\ InLoop /\ HasData(Cur) /\ \A t \in Trees : Sound(Cur, t)
      /\ Cur \in Selected /\ Cur \in Packages /\ Selected \subseteq DOMAIN manifest.entries
      /\ DOMAIN manifest.entries \subseteq Packages
  BY <1>1, InHandTyped DEF RInv, HandFits, HasData
<1>4. device \in [Packages -> [Trees -> DeviceStates]] /\ rtree \in Trees
  BY DEF RInv, RestoreTypeOK
<1>5. /\ device' \in [Packages -> [Trees -> DeviceStates]] /\ device'[Cur][rtree] = now
      /\ \A p \in Packages, t \in Trees :
           p # Cur \/ t # rtree => device'[p][t] = device[p][t]
  BY <1>3, <1>4
<1>6. DamagedIsUntouched'
  BY <1>1, <1>2, <1>3, <1>5 DEF RInv, DamagedIsUntouched
<1>7. DeviceIsSummed'
  <2> SUFFICES ASSUME NEW p \in DOMAIN manifest.entries, NEW t \in Trees,
                      device'[p][t] \notin {Old, Half},
                      Entry(p).sum[t] \notin {Unlisted, Unsummed}
               PROVE  device'[p][t][2] = Entry(p).sum[t]
    BY <1>1, <1>2 DEF DeviceIsSummed, New
  <2>1. CASE p = Cur /\ t = rtree
    BY <1>5, <2>1
  <2>2. CASE p # Cur \/ t # rtree
    <3>1. device'[p][t] = device[p][t]
      BY <1>3, <1>5, <2>2
    <3>2. New(p, t)
      BY <3>1 DEF New
    <3>3. device[p][t][2] = Entry(p).sum[t]
      BY <1>1, <3>2 DEF RInv, DeviceIsSummed
    <3> QED BY <3>1, <3>3
  <2> QED BY <2>1, <2>2
<1>8. SelectedOnly'
  <2> SUFFICES ASSUME NEW p \in Packages \ choice.sel, p \notin LegacyPackages
               PROVE  \A t \in Trees : device'[p][t] = Old
    BY <1>1, <1>2 DEF SelectedOnly
  <2>1. p # Cur
    BY <1>3 DEF Selected
  <2>2. \A t \in Trees : device[p][t] = Old
    BY DEF RInv, SelectedOnly
  <2> QED BY <1>5, <2>1, <2>2
<1> QED BY <1>5, <1>6, <1>7, <1>8

\* The other packages are whole or as they were; the one in hand has failed,
\* is still in hand, or is whole.
LEMMA OthersWholeOrOld ==
  ASSUME BackupAssumption, RestoreAssumption, RInv, LInv, InData, rpc' # "idle", UNCHANGED during,
         \A p \in Packages, t \in Trees : p # Cur => device'[p][t] = device[p][t],
         bad \subseteq bad',
         \/ Cur \in bad'
         \/ InData' /\ Cur' = Cur
         \/ \A t \in ItsTrees(Cur) : device'[Cur][t] \notin {Old, Half}
  PROVE  WholeOrOld'
<1>1. rpc # "idle" /\ restores > 0 /\ UNCHANGED <<manifest, choice, disk>>
  BY DEF RInv, Begun, during, backupVars, InData
<1>2. Selected' = Selected /\ \A p : ItsTrees(p)' = ItsTrees(p)
  BY <1>1, SameManifest
<1>3. Selected \subseteq Packages /\ \A p : ItsTrees(p) \subseteq Trees
  BY <1>1, InHandTyped DEF ItsTrees, Trees
<1>4. ASSUME NEW p \in Selected \ bad'
      PROVE  \/ \A t \in ItsTrees(p) : device'[p][t] = Old
             \/ \A t \in ItsTrees(p) : device'[p][t] \notin {Old, Half}
             \/ InData' /\ p = Cur'
  <2>1. CASE p # Cur
    <3>1. \A t \in ItsTrees(p) : device'[p][t] = device[p][t]
      BY <1>3, <1>4, <2>1
    <3>2. \/ \A t \in ItsTrees(p) : device[p][t] = Old
          \/ \A t \in ItsTrees(p) : device[p][t] \notin {Old, Half}
      BY <1>1, <1>4, <2>1 DEF RInv, WholeOrOld, New
    <3> QED BY <3>1, <3>2
  <2>2. CASE p = Cur
    BY <1>4, <2>2
  <2> QED BY <2>1, <2>2
<1> QED BY <1>2, <1>4 DEF WholeOrOld, New

\* A tree of the package in hand has been written, or its owner set.
LEMMA TreeWritten ==
  ASSUME BackupAssumption, RestoreAssumption, RInv, LInv, rpc \in {"extract", "chown"},
         NEW now \in DeviceStates, device' = [device EXCEPT ![Cur][rtree] = now],
         now \notin {Old, Half},
         Entry(Cur).sum[rtree] \notin {Unlisted, Unsummed} => now[2] = Entry(Cur).sum[rtree],
         wrote' = wrote \cup {Cur},
         (rpc' = "chown" /\ UNCHANGED <<j, rtree, bad>>) \/ NextTree,
         UNCHANGED during, UNCHANGED <<flag, legacy, installed>>
  PROVE  RInv'
<1>1. /\ restores > 0 /\ rpc # "idle" /\ rpc' \in {"chown", "stat", "next"} /\ InData
      /\ rpc # "verify" /\ bad' = bad
      /\ UNCHANGED <<manifest, choice, disk, restores>>
  BY DEF RInv, Begun, during, backupVars, InData, NextTree
<1>2. /\ Selected' = Selected /\ (DataPossible' <=> DataPossible)
      /\ \A p : Entry(p)' = Entry(p)
      /\ \A p : (HasData(p)' <=> HasData(p)) /\ (Counted(p)' <=> Counted(p))
      /\ \A p, t : (Listed(p, t)' <=> Listed(p, t)) /\ (Sound(p, t)' <=> Sound(p, t))
  BY <1>1, SameManifest
<1>3. /\ InLoop /\ HasData(Cur) /\ Entry(Cur).method # "legacy" /\ Listed(Cur, rtree)
      /\ \A t \in Trees : Sound(Cur, t)
  BY <1>1 DEF RInv, HandFits
<1>4. /\ Cur \in Selected /\ Cur \in Packages /\ Cur \in DOMAIN manifest.entries
      /\ Cur = Order[j] /\ j \in 1..Len(Order) /\ Len(Order) \in Nat
      /\ rtree \in Trees
  BY <1>1, <1>3, InHandTyped DEF HasData, RInv, RestoreTypeOK
<1>5. /\ device' \in [Packages -> [Trees -> DeviceStates]]
      /\ device'[Cur][rtree] = now
      /\ \A p \in Packages, t \in Trees :
           p # Cur \/ t # rtree => device'[p][t] = device[p][t]
      /\ DamagedIsUntouched' /\ DeviceIsSummed' /\ SelectedOnly'
  BY <1>1, TreeChanges
<1>6. \/ rpc' \in {"chown", "stat"} /\ j' = j /\ rtree' \in Trees
      \/ rpc' = "next" /\ j' = j + 1 /\ rtree' = "ce"
  BY <1>4 DEF NextTree, Trees
<1>7. RestoreTypeOK'
  BY <1>1, <1>4, <1>5, <1>6 DEF RInv, RestoreTypeOK, during, countVars, Trees
<1>8. HandFits' /\ TreesInHand'
  <2>1. CASE rpc' = "next"
    BY <2>1 DEF HandFits, TreesInHand, InData
  <2>2. CASE rpc' = "chown" /\ UNCHANGED <<j, rtree, bad>>
    <3>1. Cur' = Cur /\ (InLoop' <=> InLoop)
      BY <2>2 DEF Cur, InLoop
    <3>2. HandFits'
      BY <1>2, <1>3, <2>2, <3>1 DEF HandFits
    <3>3. New(Cur, rtree)'
      BY <1>5, <2>2, <3>1 DEF New
    <3>4. rtree = "de" /\ Listed(Cur, "ce") => device'[Cur]["ce"] \notin {Old, Half}
      <4>1. rtree = "de" /\ Listed(Cur, "ce") => New(Cur, "ce")
        BY <1>1 DEF RInv, TreesInHand
      <4> QED BY <1>4, <1>5, <4>1 DEF New, Trees
    <3> QED BY <1>2, <2>2, <3>1, <3>2, <3>3, <3>4 DEF TreesInHand, New
  <2>3. CASE rpc' = "stat"
    <3>1. rtree = "ce" /\ Listed(Cur, "de") /\ rtree' = "de" /\ UNCHANGED <<j, bad>>
      BY <2>3 DEF NextTree
    <3>2. Cur' = Cur /\ (InLoop' <=> InLoop)
      BY <3>1 DEF Cur, InLoop
    <3>3. HandFits'
      BY <1>2, <1>3, <3>1, <3>2 DEF HandFits
    <3>4. New(Cur, "ce")'
      BY <1>5, <3>1, <3>2 DEF New
    <3> QED BY <2>3, <3>2, <3>3, <3>4 DEF TreesInHand
  <2> QED BY <1>6, <2>1, <2>2, <2>3 DEF NextTree
<1>9. WholeOrOld'
  <2>1. CASE rpc' \in {"chown", "stat"}
    <3>1. InData' /\ Cur' = Cur
      BY <1>6, <2>1 DEF InData, Cur
    <3> QED BY <1>1, <1>5, <3>1, OthersWholeOrOld
  <2>2. CASE rpc' = "next"
    <3>1. rtree = "de" \/ ~Listed(Cur, "de")
      BY <1>4, <2>2 DEF NextTree, Trees
    <3>2. rtree = "de" /\ Listed(Cur, "ce") => New(Cur, "ce")
      BY <1>1 DEF RInv, TreesInHand
    <3>3. \A t \in Trees : Listed(Cur, t) => device'[Cur][t] \notin {Old, Half}
      BY <1>4, <1>5, <3>1, <3>2 DEF Trees, New
    <3>4. \A t \in ItsTrees(Cur) : device'[Cur][t] \notin {Old, Half}
      BY <1>3, <3>3 DEF ItsTrees
    <3> QED BY <1>1, <1>5, <3>4, OthersWholeOrOld
  <2> QED BY <1>1, <2>1, <2>2
<1>10. DataAllowed'
  BY <1>1, <1>2 DEF RInv, DataAllowed
<1>11. WroteIsCounted'
  <2>1. Counted(Cur)
    BY <1>1, <1>3 DEF RInv, DataAllowed, Counted, HasData
  <2> QED BY <1>1, <1>2, <1>4, <2>1 DEF RInv, WroteIsCounted
<1>12. ApksDone'
  BY <1>1, <1>2 DEF RInv, ApksDone, InData
<1>13. DataDone'
  <2> SUFFICES ASSUME ~flag, NEW k \in 1..Len(Order), k < j', HasData(Order[k])
               PROVE  \/ Order[k] \in wrote' \cup bad
                      \/ legacy /\ Entry(Order[k]).method = "legacy"
    BY <1>1, <1>2 DEF DataDone
  <2>1. CASE k = j
    BY <1>4, <2>1
  <2>2. CASE k < j
    BY <1>1, <2>2 DEF RInv, DataDone
  <2> QED BY <1>4, <1>6, <2>1, <2>2
<1>14. Begun' /\ NoHalfIsCountedRestored' /\ SuccessCountsTheTruth' /\ RoundTrip'
  BY <1>1, <1>5, Uncounted
<1> QED BY <1>5, <1>7, <1>8, <1>9, <1>10, <1>11, <1>12, <1>13, <1>14 DEF RInv
LEMMA ExtractKeeps ==
  ASSUME BackupAssumption, RestoreAssumption, RInv, IInv, LInv, Extract
  PROVE  RInv'
<1>1. /\ rpc = "extract" /\ InData /\ restores > 0 /\ rpc # "idle"
      /\ UNCHANGED during /\ UNCHANGED <<flag, legacy, installed>>
  BY DEF Extract, RInv, Begun, InData, during, backupVars, countVars
<1>2. /\ InLoop /\ Listed(Cur, rtree) /\ Sound(Cur, rtree) /\ rtree \in Trees /\ Cur \in Packages
  BY <1>1, InHandTyped DEF RInv, HandFits, RestoreTypeOK
<1> DEFINE content == disk[Stem(Cur, rtree)]
           owner == IF manifest.mode = "root" THEN "archive" ELSE "app"
<1>3. CASE /\ device' = [device EXCEPT ![Cur][rtree] = Put(content, owner)]
           /\ wrote' = wrote \cup {Cur}
           /\ (rpc' = "chown" /\ UNCHANGED <<j, rtree, bad>>) \/ NextTree
  <2>1. content # Absent /\ (Entry(Cur).sum[rtree] = Unsummed \/ content = Entry(Cur).sum[rtree])
    BY <1>2 DEF Sound, Matches
  <2>2. content \in Contents \cup {Absent, Partial, Rotten}
    <3>1. Stem(Cur, rtree) \in Files
      BY <1>2 DEF Files
    <3> QED BY <3>1 DEF IInv, TypeOK
  <2>3. owner \in {"app", "archive"}
    OBVIOUS
  <2> HIDE DEF content, owner
  <2>4. Put(content, owner) \in DeviceStates
    BY <2>1, <2>2, <2>3 DEF DeviceStates
  <2>5. Put(content, owner) \notin {Old, Half} /\ Put(content, owner)[2] = content
    BY PutIsNew
  <2> DEFINE now == Put(content, owner)
  <2> HIDE DEF now
  <2>6. /\ now \in DeviceStates /\ now \notin {Old, Half}
        /\ device' = [device EXCEPT ![Cur][rtree] = now]
        /\ Entry(Cur).sum[rtree] \notin {Unlisted, Unsummed} => now[2] = Entry(Cur).sum[rtree]
    BY <1>3, <2>1, <2>4, <2>5 DEF now
  <2> QED BY <1>1, <1>3, <2>6, TreeWritten
<1>4. CASE Fail(Cur) /\ wrote' = wrote /\ device' = device
  BY <1>1, <1>4, FailKeeps
<1>5. CASE Fail(Cur) /\ wrote' = wrote /\ device' = [device EXCEPT ![Cur][rtree] = Half]
  <2>1. Half \in DeviceStates /\ rpc' = "next" /\ bad' = bad \cup {Cur}
    BY <1>5 DEF DeviceStates, Fail
  <2>2. /\ device' \in [Packages -> [Trees -> DeviceStates]]
        /\ \A p \in Packages, t \in Trees : p # Cur => device'[p][t] = device[p][t]
        /\ DamagedIsUntouched' /\ DeviceIsSummed' /\ SelectedOnly'
    <3> DEFINE now == Half
    <3>1. now \in DeviceStates /\ ~(now \notin {Old, Half})
          /\ device' = [device EXCEPT ![Cur][rtree] = now]
      BY <1>5, <2>1
    <3> HIDE DEF now
    <3> QED BY <1>1, <2>1, <3>1, TreeChanges
  <2>3. WholeOrOld'
    BY <1>1, <2>1, <2>2, OthersWholeOrOld
  <2>4. /\ RestoreTypeOK' /\ HandFits' /\ TreesInHand' /\ DataAllowed' /\ WroteIsCounted'
        /\ ApksDone' /\ DataDone'
    BY <1>1, <1>5, <2>2, FailFits
  <2>5. Begun' /\ NoHalfIsCountedRestored' /\ SuccessCountsTheTruth' /\ RoundTrip'
    BY <1>1, <2>1, <2>2, Uncounted
  <2> QED BY <2>2, <2>3, <2>4, <2>5 DEF RInv
<1>6. \/ /\ device' = [device EXCEPT ![Cur][rtree] = Put(content, owner)]
         /\ wrote' = wrote \cup {Cur}
         /\ (rpc' = "chown" /\ UNCHANGED <<j, rtree, bad>>) \/ NextTree
      \/ Fail(Cur) /\ wrote' = wrote /\ device' = device
      \/ Fail(Cur) /\ wrote' = wrote /\ device' = [device EXCEPT ![Cur][rtree] = Half]
  <2> HIDE DEF content
  <2>1. CASE /\ ~flag
             /\ device' = [device EXCEPT ![Cur][rtree] = Put(content, owner)]
             /\ wrote' = wrote \cup {Cur}
             /\ IF manifest.mode = "root"
                  THEN rpc' = "chown" /\ UNCHANGED <<j, rtree, bad>>
                  ELSE NextTree
    BY <2>1
  <2>2. CASE /\ \/ device' = device
                \/ ~flag /\ device' = [device EXCEPT ![Cur][rtree] = Half]
             /\ Fail(Cur)
             /\ UNCHANGED wrote
    BY <2>2
  <2> QED BY <2>1, <2>2 DEF Extract, content
<1> QED BY <1>3, <1>4, <1>5, <1>6

LEMMA ChownKeeps ==
  ASSUME BackupAssumption, RestoreAssumption, RInv, LInv, Chown
  PROVE  RInv'
<1>1. /\ rpc = "chown" /\ InData /\ restores > 0 /\ rpc # "idle" /\ NextTree
      /\ UNCHANGED during /\ UNCHANGED <<flag, legacy, installed>>
  BY DEF Chown, RInv, Begun, InData, during, backupVars, countVars
<1>2. /\ Cur \in wrote /\ New(Cur, rtree) /\ rtree \in Trees
      /\ Cur \in Packages /\ Cur \in DOMAIN manifest.entries
  BY <1>1, InHandTyped DEF RInv, TreesInHand, RestoreTypeOK, HandFits, HasData
<1> DEFINE was == device[Cur][rtree]
<1>3. was \in DeviceStates /\ device \in [Packages -> [Trees -> DeviceStates]]
  BY <1>2 DEF RInv, RestoreTypeOK
<1>4. /\ was \notin {Old, Half}
      /\ Entry(Cur).sum[rtree] \notin {Unlisted, Unsummed} => was[2] = Entry(Cur).sum[rtree]
  BY <1>1, <1>2 DEF RInv, DeviceIsSummed, New
<1>5. wrote' = wrote \cup {Cur}
  BY <1>2 DEF Chown
<1>6. CASE device' = device
  <2>1. device' = [device EXCEPT ![Cur][rtree] = was]
    BY <1>2, <1>3, <1>6
  <2> HIDE DEF was
  <2> QED BY <1>1, <1>3, <1>4, <1>5, <2>1, TreeWritten
<1>7. CASE device' = [device EXCEPT ![Cur][rtree] = Put(@[2], "app")]
  <2> DEFINE now == Put(was[2], "app")
  <2>1. device' = [device EXCEPT ![Cur][rtree] = now]
    BY <1>2, <1>3, <1>7
  <2>2. now \notin {Old, Half} /\ now[2] = was[2]
    BY PutIsNew
  <2>3. now \in DeviceStates
    <3>1. PICK c \in Contents \cup {Partial, Rotten}, o \in {"app", "archive"} : was = Put(c, o)
      BY <1>3, <1>4 DEF DeviceStates
    <3>2. was[2] = c
      BY <3>1, PutIsNew
    <3> QED BY <3>2 DEF DeviceStates
  <2> HIDE DEF was, now
  <2> QED BY <1>1, <1>4, <1>5, <2>1, <2>2, <2>3, TreeWritten
<1> QED BY <1>6, <1>7 DEF Chown

\* The legacy archive is written back as a whole, or not taken as written.
LEMMA RestoreLegacyKeeps ==
  ASSUME BackupAssumption, RestoreAssumption, RInv, IInv, LInv, RestoreLegacy
  PROVE  RInv'
<1>1. /\ rpc = "legacy" /\ rpc' = "extras" /\ ~InData /\ ~InData' /\ restores > 0
      /\ UNCHANGED during /\ UNCHANGED <<flag, legacy, installed, j, rtree>>
      /\ UNCHANGED <<manifest, choice, disk, restores>>
  BY DEF RestoreLegacy, RInv, Begun, InData, during, backupVars, countVars
<1>2. /\ Selected' = Selected /\ LegacyPackages' = LegacyPackages
      /\ DataPossible' <=> DataPossible
      /\ \A p : Entry(p)' = Entry(p)
      /\ \A p : ItsTrees(p)' = ItsTrees(p)
      /\ \A p : (HasData(p)' <=> HasData(p)) /\ (Counted(p)' <=> Counted(p))
      /\ \A p, t : (Listed(p, t)' <=> Listed(p, t)) /\ (Sound(p, t)' <=> Sound(p, t))
  BY <1>1, SameManifest
<1>3. /\ LegacyPackages \subseteq DOMAIN manifest.entries
      /\ DOMAIN manifest.entries \subseteq Packages /\ Selected \subseteq DOMAIN manifest.entries
      /\ \A p \in LegacyPackages : Entry(p).method = "legacy" /\ \A t \in Trees : ~Listed(p, t)
      /\ \A p \in DOMAIN manifest.entries : Entry(p).method = "legacy" => p \in LegacyPackages
  BY <1>1, InHandTyped DEF LInv, ManifestFits, RInv, Begun, LegacyPackages
<1>4. PICK now \in DeviceStates :
        /\ \/ device' = device
           \/ device' = [p \in Packages |-> IF p \in LegacyPackages
                                              THEN [device[p] EXCEPT !["ce"] = now]
                                              ELSE device[p]]
        /\ \/ /\ device' = [p \in Packages |-> IF p \in LegacyPackages
                                                 THEN [device[p] EXCEPT !["ce"] = now]
                                                 ELSE device[p]]
              /\ now \notin {Old, Half}
              /\ wrote' = wrote \cup LegacyPackages /\ bad' = bad
           \/ bad' = bad \cup (LegacyPackages \cap Selected) /\ wrote' = wrote
  <2> DEFINE content == disk[AbFile]
  <2>1. /\ content \in Contents \cup {Absent, Partial, Rotten}
        /\ content # Absent => Put(content, "app") \in DeviceStates
        /\ Half \in DeviceStates
    <3>1. AbFile \in Files
      BY DEF Files
    <3>2. content \in Contents \cup {Absent, Partial, Rotten}
      BY <3>1 DEF IInv, TypeOK
    <3> HIDE DEF content
    <3> QED BY <3>2 DEF DeviceStates
  <2>2. Put(content, "app") \notin {Old, Half}
    BY PutIsNew
  <2> HIDE DEF content
  <2>3. CASE /\ content # Absent /\ ~flag
             /\ device' = [p \in Packages |->
                             IF p \in LegacyPackages
                               THEN [device[p] EXCEPT !["ce"] = Put(content, "app")]
                               ELSE device[p]]
             /\ wrote' = wrote \cup LegacyPackages
             /\ UNCHANGED bad
    BY <2>1, <2>2, <2>3
  <2>4. CASE /\ \/ device' = device
                \/ /\ content # Absent /\ ~flag
                   /\ device' = [p \in Packages |->
                                   IF p \in LegacyPackages
                                     THEN [device[p] EXCEPT !["ce"] = Half] ELSE device[p]]
             /\ bad' = bad \cup (LegacyPackages \cap Selected)
             /\ UNCHANGED wrote
    BY <2>1, <2>4
  <2> QED BY <2>3, <2>4 DEF RestoreLegacy, content
<1>5. device \in [Packages -> [Trees -> DeviceStates]] /\ "ce" \in Trees
  BY DEF RInv, RestoreTypeOK, Trees
<1>6. /\ device' \in [Packages -> [Trees -> DeviceStates]]
      /\ \A p \in Packages \ LegacyPackages : device'[p] = device[p]
  <2>1. CASE device' = device
    BY <1>5, <2>1
  <2>2. CASE device' = [p \in Packages |-> IF p \in LegacyPackages
                                             THEN [device[p] EXCEPT !["ce"] = now]
                                             ELSE device[p]]
    <3>1. \A p \in Packages : [device[p] EXCEPT !["ce"] = now] \in [Trees -> DeviceStates]
      BY <1>5
    <3> QED BY <1>5, <2>2, <3>1
  <2> QED BY <1>4, <2>1, <2>2
<1>7. bad \subseteq bad' /\ wrote \subseteq wrote' /\ wrote' \subseteq wrote \cup LegacyPackages
      /\ bad' \subseteq bad \cup Selected
  BY <1>4
<1>8. RestoreTypeOK'
  <2>1. bad' \subseteq Packages /\ wrote' \subseteq Packages
    BY <1>3, <1>7 DEF RInv, RestoreTypeOK
  <2> QED BY <1>1, <1>6, <2>1 DEF RInv, RestoreTypeOK, during, countVars
<1>9. HandFits' /\ TreesInHand' /\ DataAllowed'
  BY <1>1 DEF HandFits, TreesInHand, DataAllowed
<1>10. WholeOrOld'
  <2> SUFFICES ASSUME NEW p \in Selected \ bad'
               PROVE  \/ \A t \in ItsTrees(p) : device'[p][t] = Old
                      \/ \A t \in ItsTrees(p) : device'[p][t] \notin {Old, Half}
    BY <1>2 DEF WholeOrOld, New
  <2>1. CASE p \in LegacyPackages
    <3>1. device'[p]["ce"] = now /\ now \notin {Old, Half}
      BY <1>3, <1>4, <1>5, <2>1
    <3>2. ItsTrees(p) = {"ce"}
      BY <1>3, <2>1 DEF ItsTrees
    <3> QED BY <3>1, <3>2
  <2>2. CASE p \notin LegacyPackages
    <3>1. device'[p] = device[p]
      BY <1>3, <1>6, <2>2
    <3> QED BY <1>1, <1>7, <3>1 DEF RInv, WholeOrOld, New
  <2> QED BY <2>1, <2>2
<1>11. DamagedIsUntouched'
  <2>1. \A p \in DOMAIN manifest.entries :
          Entry(p).method \in {"root", "runas"} => device'[p] = device[p]
    BY <1>3, <1>6
  <2>2. \A p \in DOMAIN manifest.entries :
          Entry(p).method \in {"root", "runas"} /\ (\E t \in Trees : ~Sound(p, t))
            => \A t \in Trees : device[p][t] = Old
    BY <1>1 DEF RInv, DamagedIsUntouched
  <2>3. \A p \in DOMAIN manifest.entries :
          Entry(p)'.method \in {"root", "runas"} /\ (\E t \in Trees : ~Sound(p, t)')
            => \A t \in Trees : device'[p][t] = Old
    BY <1>2, <2>1, <2>2
  <2>4. manifest' = manifest
    BY <1>1
  <2> QED BY <2>3, <2>4 DEF DamagedIsUntouched
<1>12. DeviceIsSummed'
  <2> SUFFICES ASSUME NEW p \in DOMAIN manifest.entries, NEW t \in Trees,
                      device'[p][t] \notin {Old, Half},
                      Entry(p).sum[t] \notin {Unlisted, Unsummed}
               PROVE  device'[p][t][2] = Entry(p).sum[t]
    BY <1>1, <1>2 DEF DeviceIsSummed, New
  <2>1. p \notin LegacyPackages
    BY <1>3 DEF Listed
  <2>2. device'[p] = device[p]
    BY <1>3, <1>6, <2>1
  <2> QED BY <1>1, <2>2 DEF RInv, DeviceIsSummed, New
<1>13. SelectedOnly'
  BY <1>1, <1>2, <1>6 DEF RInv, SelectedOnly
<1>14. WroteIsCounted'
  <2>1. \A p \in LegacyPackages : Counted(p)
    BY <1>1, <1>3 DEF RInv, DataAllowed, Counted
  <2> QED BY <1>1, <1>2, <1>3, <1>7, <2>1 DEF RInv, WroteIsCounted
<1>15. ApksDone'
  BY <1>1, <1>2, <1>7 DEF RInv, ApksDone
<1>16. DataDone'
  <2> SUFFICES ASSUME ~flag, NEW p \in Selected, HasData(p)
               PROVE  p \in wrote' \cup bad'
    BY <1>1, <1>2 DEF DataDone
  <2>1. p \in wrote \cup bad \/ p \in LegacyPackages
    BY <1>1, <1>3 DEF RInv, DataDone
  <2>2. p \in LegacyPackages => p \in wrote' \cup bad'
    BY <1>4
  <2> QED BY <1>7, <2>1, <2>2
<1>17. Begun' /\ NoHalfIsCountedRestored' /\ SuccessCountsTheTruth' /\ RoundTrip'
  BY <1>1, <1>13, Uncounted
<1> QED BY <1>8, <1>9, <1>10, <1>11, <1>12, <1>13, <1>14, <1>15, <1>16, <1>17 DEF RInv

LEMMA RestoreExtrasKeeps ==
  ASSUME BackupAssumption, RestoreAssumption, RInv, LInv, RestoreExtras
  PROVE  RInv'
<1>1. /\ rpc = "extras" /\ rpc' = "count" /\ restores > 0
      /\ UNCHANGED during /\ device' = device
      /\ UNCHANGED <<manifest, choice, disk, flag, wrote, bad, installed, rtree, j, legacy>>
      /\ ~InData /\ ~InData'
  BY DEF RestoreExtras, RInv, Begun, during, countVars, backupVars, InData, deviceVars
<1>2. /\ Selected' = Selected /\ (DataPossible' <=> DataPossible)
      /\ \A p : Entry(p)' = Entry(p)
      /\ \A p : (HasData(p)' <=> HasData(p)) /\ (Counted(p)' <=> Counted(p))
  BY <1>1, SameManifest
<1>3. RestoreTypeOK' /\ HandFits' /\ TreesInHand' /\ DataAllowed'
  BY <1>1 DEF RInv, RestoreTypeOK, HandFits, TreesInHand, DataAllowed, countVars, during
<1>4. WroteIsCounted' /\ ApksDone' /\ DataDone'
  BY <1>1, <1>2 DEF RInv, WroteIsCounted, ApksDone, DataDone
<1>5. WholeOrOld'
  BY <1>1, StillWholeOrOld
<1> QED BY <1>1, <1>3, <1>4, <1>5, MoveKeeps

\* A cancel only takes away what is promised of a run without one.
LEMMA FlagKeeps ==
  ASSUME RInv, UNCHANGED restoreVars, UNCHANGED backupVars, ~flag' => ~flag
  PROVE  RInv'
<1>1. UNCHANGED <<rpc, choice, j, rtree, legacy, bad, device, installed, wrote, restored,
                  failures, nothing, routcome, restores, manifest, disk, pc>>
  BY DEF backupVars, restoreVars
<1>2. /\ Selected' = Selected /\ LegacyPackages' = LegacyPackages
      /\ DataPossible' <=> DataPossible
      /\ \A p : Entry(p)' = Entry(p)
      /\ \A p : ItsTrees(p)' = ItsTrees(p)
      /\ \A p : (HasData(p)' <=> HasData(p)) /\ (Counted(p)' <=> Counted(p))
      /\ \A p, t : (Listed(p, t)' <=> Listed(p, t)) /\ (Sound(p, t)' <=> Sound(p, t))
  BY <1>1, SameManifest
<1>3. /\ (InData' <=> InData) /\ (InLoop' <=> InLoop) /\ Cur' = Cur
      /\ \A p, t : New(p, t)' <=> New(p, t)
  BY <1>1 DEF InData, InLoop, Cur, New
<1>4. RestoreTypeOK' /\ Begun' /\ TreesInHand' /\ DataAllowed'
  BY <1>1, <1>2, <1>3 DEF RInv, RestoreTypeOK, Begun, TreesInHand, DataAllowed
<1>5. HandFits'
  BY <1>1, <1>2, <1>3 DEF RInv, HandFits
<1>6. WholeOrOld' /\ DamagedIsUntouched'
  BY <1>1, <1>2, <1>3 DEF RInv, WholeOrOld, DamagedIsUntouched
<1>7. DeviceIsSummed' /\ SelectedOnly'
  BY <1>1, <1>2, <1>3 DEF RInv, DeviceIsSummed, SelectedOnly
<1>8. WroteIsCounted' /\ ApksDone'
  BY <1>1, <1>2 DEF RInv, WroteIsCounted, ApksDone
<1>11. DataDone'
  <2>1. CASE ~flag'
    BY <1>1, <1>2, <1>3, <2>1 DEF RInv, DataDone
  <2>2. CASE flag'
    BY <2>2 DEF DataDone
  <2> QED BY <2>1, <2>2
<1>9. NoHalfIsCountedRestored'
  BY <1>1 DEF RInv, NoHalfIsCountedRestored, Entry, Listed
<1>10. SuccessCountsTheTruth' /\ RoundTrip'
  BY <1>1, <1>2 DEF RInv, SuccessCountsTheTruth, RoundTrip, Content
<1> QED BY <1>4, <1>5, <1>6, <1>7, <1>8, <1>9, <1>10, <1>11 DEF RInv

-----------------------------------------------------------------------------
(* The beginning and the end of a restore.                                 *)

\* Nothing is asked of a restore that is not running but its results.
LEMMA IdleFits ==
  ASSUME rpc' = "idle"
  PROVE  /\ HandFits' /\ TreesInHand' /\ WholeOrOld' /\ DamagedIsUntouched' /\ DataAllowed'
         /\ WroteIsCounted' /\ ApksDone' /\ DataDone'
BY DEF HandFits, TreesInHand, WholeOrOld, DamagedIsUntouched, DataAllowed, WroteIsCounted,
       ApksDone, DataDone, InData

LEMMA RestoreBeginsKeeps ==
  ASSUME BackupAssumption, RestoreAssumption, RInv, LInv, RestoreBegins
  PROVE  RInv'
<1>1. /\ rpc = "idle" /\ pc = "idle" /\ pc' = pc /\ manifest' = manifest /\ manifest.run > 0
      /\ restores \in Nat /\ restores' = restores + 1 /\ restores < MaxRestores
      /\ choice' \in Choices /\ installed' \in {{}, Packages} /\ device' = Untouched
      /\ wrote' = {} /\ restored' = {} /\ failures' = {} /\ nothing' = {}
  BY DEF RestoreBegins, backupVars, RInv, RestoreTypeOK, RestoreAssumption
<1>2. \A p \in Packages, t \in Trees : device'[p][t] = Old
  BY <1>1 DEF Untouched
<1>3. DOMAIN manifest'.entries \subseteq Packages
  BY <1>1 DEF LInv, ManifestFits
<1>4. Len(Order) \in Nat /\ MaxRestores \in Nat
  BY DEF BackupAssumption, RestoreAssumption
<1>5. Untouched \in [Packages -> [Trees -> DeviceStates]]
  BY DEF Untouched, DeviceStates
<1>6. DeviceIsSummed' /\ SelectedOnly' /\ NoHalfIsCountedRestored'
  BY <1>1, <1>2, <1>3 DEF DeviceIsSummed, SelectedOnly, NoHalfIsCountedRestored, New
<1>7. CASE RStop("failed")
  <2>1. /\ rpc' = "idle" /\ routcome' = "failed" /\ j' = 1 /\ rtree' = "ce"
        /\ legacy' = FALSE /\ bad' = {}
    BY <1>7 DEF RStop
  <2>2. RestoreTypeOK'
    <3>1. j' \in 1..(Len(Order) + 1) /\ restores' \in 0..MaxRestores
      BY <1>1, <1>4, <2>1
    <3> QED BY <1>1, <1>5, <2>1, <3>1 DEF RestoreTypeOK, Trees
  <2>3. Begun'
    BY <1>1, <2>1 DEF Begun
  <2>4. SuccessCountsTheTruth' /\ RoundTrip'
    BY <2>1, <1>6 DEF SuccessCountsTheTruth, RoundTrip, SelectedOnly
  <2> QED BY <1>6, <2>1, <2>2, <2>3, <2>4, IdleFits DEF RInv
<1>8. CASE rpc' = "install" /\ routcome' = "none" /\ UNCHANGED <<j, rtree, legacy, bad, flag>>
  <2>1. RestoreTypeOK'
    BY <1>1, <1>4, <1>5, <1>8 DEF RInv, RestoreTypeOK
  <2>2. Begun' /\ SuccessCountsTheTruth'
    BY <1>1, <1>8 DEF Begun, SuccessCountsTheTruth
  <2>3. RoundTrip'
    BY <1>6, <1>8 DEF RoundTrip, SelectedOnly
  <2>4. HandFits' /\ TreesInHand' /\ DataAllowed' /\ DataDone'
    BY <1>8 DEF HandFits, TreesInHand, DataAllowed, DataDone, InData
  <2>5. WholeOrOld' /\ DamagedIsUntouched'
    <3>1. Selected' \subseteq Packages /\ \A p : ItsTrees(p)' \subseteq Trees
      BY <1>3 DEF Selected, ItsTrees, Trees
    <3> QED BY <1>2, <1>3, <3>1 DEF WholeOrOld, DamagedIsUntouched
  <2>6. WroteIsCounted'
    BY <1>1 DEF WroteIsCounted
  <2>7. ApksDone'
    <3>1. j = 1
      BY <1>1 DEF RInv, Begun
    <3> QED BY <1>8, <3>1 DEF ApksDone
  <2> QED BY <1>6, <2>1, <2>2, <2>3, <2>4, <2>5, <2>6, <2>7 DEF RInv
<1> QED BY <1>7, <1>8 DEF RestoreBegins

LEMMA CountRestoredKeeps ==
  ASSUME BackupAssumption, RestoreAssumption, RInv, IInv, LInv, CountRestored
  PROVE  RInv'
<1>1. /\ rpc = "count" /\ rpc' = "idle" /\ restores > 0 /\ ~InData /\ manifest.run > 0
      /\ UNCHANGED <<manifest, choice, disk, device, wrote, installed, restores, pc>>
      /\ failures' = bad \cap Selected
      /\ restored' = {p \in Selected \ bad : Counted(p)}
      /\ nothing' = Selected \ (failures' \cup restored')
      /\ routcome' = IF flag THEN "cancelled" ELSE "success"
      /\ j' = 1 /\ rtree' = "ce" /\ legacy' = FALSE /\ bad' = {}
  BY DEF CountRestored, RInv, Begun, InData, backupVars, deviceVars, RStop
<1>2. /\ Selected' = Selected /\ LegacyPackages' = LegacyPackages
      /\ \A p : Entry(p)' = Entry(p)
      /\ \A p : ItsTrees(p)' = ItsTrees(p)
  BY <1>1, SameManifest
<1>3. /\ Selected \subseteq Packages /\ Selected \subseteq DOMAIN manifest.entries
      /\ Selected \subseteq choice.sel /\ Len(Order) \in Nat
      /\ DOMAIN manifest.entries \subseteq Packages
  BY <1>1, InHandTyped DEF Selected
<1>4. RestoreTypeOK'
  <2>1. j' \in 1..(Len(Order) + 1) /\ routcome' \in {"cancelled", "success"}
    BY <1>1, <1>3
  <2>2. restored' \subseteq Packages /\ failures' \subseteq Packages /\ nothing' \subseteq Packages
    BY <1>1, <1>3
  <2> QED BY <1>1, <2>1, <2>2 DEF RInv, RestoreTypeOK, Trees
<1>5. Begun'
  BY <1>1 DEF RInv, Begun
<1>6. DeviceIsSummed' /\ SelectedOnly'
  BY <1>1, <1>2 DEF RInv, DeviceIsSummed, SelectedOnly, New
<1>7. \A p \in restored' : \/ \A t \in ItsTrees(p) : device[p][t] = Old
                           \/ \A t \in ItsTrees(p) : New(p, t)
  BY <1>1 DEF RInv, WholeOrOld
<1>8. NoHalfIsCountedRestored'
  <2>1. \A p : ItsTrees(p)' = IF Entry(p)'.method = "legacy"
                                THEN {"ce"} ELSE {t \in Trees : Listed(p, t)'}
    BY DEF ItsTrees
  <2> QED BY <1>1, <1>2, <1>7, <2>1 DEF NoHalfIsCountedRestored, New
<1>9. SuccessCountsTheTruth'
  <2> SUFFICES ASSUME ~flag
               PROVE  restored' = (wrote \cap choice.sel) \ failures'
    BY <1>1 DEF SuccessCountsTheTruth
  <2>1. ASSUME NEW p \in restored'
        PROVE  p \in (wrote \cap choice.sel) \ failures'
    <3>1. p \in Selected /\ p \notin bad /\ Counted(p)
      BY <1>1
    <3>2. CASE choice.apks /\ Entry(p).apk
      <4>1. PICK k \in 1..Len(Order) : p = Order[k]
        BY <1>3, <3>1 DEF Packages
      <4>2. p \in wrote \cup bad
        BY <1>1, <3>1, <3>2, <4>1 DEF RInv, ApksDone
      <4> QED BY <1>1, <1>3, <3>1, <4>2
    <3>3. CASE DataPossible /\ Entry(p).method # "none"
      <4>1. HasData(p)
        BY <3>1, <3>3 DEF HasData
      <4>2. p \in wrote \cup bad
        BY <1>1, <3>1, <3>3, <4>1 DEF RInv, DataDone
      <4> QED BY <1>1, <1>3, <3>1, <4>2
    <3> QED BY <3>1, <3>2, <3>3 DEF Counted
  <2>2. ASSUME NEW p \in (wrote \cap choice.sel) \ failures'
        PROVE  p \in restored'
    <3>1. p \in DOMAIN manifest.entries /\ Counted(p)
      BY <1>1, <2>2 DEF RInv, WroteIsCounted
    <3>2. p \in Selected
      BY <2>2, <3>1 DEF Selected
    <3> QED BY <1>1, <2>2, <3>1, <3>2
  <2> QED BY <2>1, <2>2
<1>10. RoundTrip'
  <2>1. ASSUME NEW p \in restored', NEW t \in Trees, device[p][t] # Old,
               Entry(p).sum[t] \notin {Unlisted, Unsummed}
        PROVE  device[p][t][2] = Content(p, t, manifest.run)
    <3>1. p \in DOMAIN manifest.entries
      BY <1>1, <1>3, <2>1
    <3>2. Listed(p, t) /\ Entry(p).method # "legacy"
      BY <1>1, <2>1, <3>1 DEF Listed, LInv, ManifestFits
    <3>3. t \in ItsTrees(p)
      BY <3>2 DEF ItsTrees
    <3>4. New(p, t)
      BY <1>7, <2>1, <3>3
    <3>5. device[p][t][2] = Entry(p).sum[t]
      BY <1>1, <2>1, <3>1, <3>4 DEF RInv, DeviceIsSummed
    <3>6. Entry(p).sum[t] = Content(p, t, manifest.run)
      BY <1>1, <2>1, <3>1 DEF IInv, ManifestIsOwn, Own, Entry
    <3> QED BY <3>5, <3>6
  <2>2. \A p, t : Content(p, t, manifest.run)' = Content(p, t, manifest.run)
    BY <1>1 DEF Content
  <2> QED BY <1>1, <1>2, <1>6, <2>1, <2>2 DEF RoundTrip, SelectedOnly
<1> QED BY <1>1, <1>4, <1>5, <1>6, <1>8, <1>9, <1>10, IdleFits DEF RInv

\* A killed restore has counted nothing.
LEMMA RestoreKillKeeps ==
  ASSUME BackupAssumption, RestoreAssumption, RInv, LInv, RestoreKill
  PROVE  RInv'
<1>1. /\ rpc' = "idle" /\ restores > 0 /\ restored = {} /\ restored' = {}
      /\ UNCHANGED <<manifest, choice, disk, device, wrote, installed, restores, pc,
                     failures, nothing>>
      /\ routcome' = "killed" /\ j' = 1 /\ rtree' = "ce" /\ legacy' = FALSE /\ bad' = {}
  BY DEF RestoreKill, RInv, Begun, backupVars, deviceVars, countVars, RStop
<1>2. /\ LegacyPackages' = LegacyPackages
      /\ \A p : Entry(p)' = Entry(p)
  BY <1>1, SameManifest
<1>3. RestoreTypeOK'
  <2>1. j' \in 1..(Len(Order) + 1)
    BY <1>1 DEF BackupAssumption
  <2> QED BY <1>1, <2>1 DEF RInv, RestoreTypeOK, Trees
<1>4. Begun'
  BY <1>1 DEF RInv, Begun
<1>5. DeviceIsSummed' /\ SelectedOnly'
  BY <1>1, <1>2 DEF RInv, DeviceIsSummed, SelectedOnly, New
<1>6. NoHalfIsCountedRestored' /\ SuccessCountsTheTruth' /\ RoundTrip'
  BY <1>1, <1>5 DEF NoHalfIsCountedRestored, SuccessCountsTheTruth, RoundTrip, SelectedOnly
<1> QED BY <1>1, <1>3, <1>4, <1>5, <1>6, IdleFits DEF RInv

\* Damage between two runs changes nothing of what a restore has done.
LEMMA RotKeeps ==
  ASSUME RInv, Rot
  PROVE  RInv'
<1>1. /\ rpc' = "idle" /\ UNCHANGED <<rpc, choice, j, rtree, legacy, bad, device, installed, wrote,
                  restored, failures, nothing, routcome, restores, manifest, pc>>
  BY DEF Rot, restoreVars
<1>2. LegacyPackages' = LegacyPackages /\ \A p : Entry(p)' = Entry(p)
  BY <1>1 DEF LegacyPackages, Entry
<1>3. RestoreTypeOK' /\ Begun'
  BY <1>1 DEF RInv, RestoreTypeOK, Begun
<1>4. DeviceIsSummed' /\ SelectedOnly'
  BY <1>1, <1>2 DEF RInv, DeviceIsSummed, SelectedOnly, New
<1>5. NoHalfIsCountedRestored'
  BY <1>1 DEF RInv, NoHalfIsCountedRestored, Entry, Listed
<1>6. SuccessCountsTheTruth' /\ RoundTrip'
  BY <1>1, <1>2 DEF RInv, SuccessCountsTheTruth, RoundTrip, Content
<1> QED BY <1>1, <1>3, <1>4, <1>5, <1>6, IdleFits DEF RInv

\* The backups come before the first restore.
LEMMA BackupKeeps ==
  ASSUME RInv, restores = 0, UNCHANGED restoreVars
  PROVE  RInv'
<1>1. /\ rpc' = "idle" /\ restored' = {} /\ routcome' = "none" /\ device' = Untouched
      /\ restores' = 0
      /\ UNCHANGED <<rpc, choice, j, rtree, legacy, bad, device, installed, wrote, restored,
                     failures, nothing, routcome, restores>>
  BY DEF RInv, Begun, restoreVars
<1>2. RestoreTypeOK' /\ Begun'
  BY <1>1 DEF RInv, RestoreTypeOK, Begun
<1>3. DeviceIsSummed' /\ SelectedOnly'
  BY <1>1 DEF DeviceIsSummed, SelectedOnly, Untouched
<1>4. NoHalfIsCountedRestored' /\ SuccessCountsTheTruth' /\ RoundTrip'
  BY <1>1, <1>3 DEF NoHalfIsCountedRestored, SuccessCountsTheTruth, RoundTrip, SelectedOnly
<1> QED BY <1>1, <1>2, <1>3, <1>4, IdleFits DEF RInv

-----------------------------------------------------------------------------
(* The theorems.                                                           *)

\* The three invariants together hold through every backup and every restore.
THEOREM RestoreInvariant == RestoreSpec => [](IInv /\ LInv /\ RInv)
<1> USE BackupAssumption, RestoreAssumption
<1>1. Init /\ RestoreInit => IInv /\ LInv /\ RInv
  <2> SUFFICES ASSUME Init, RestoreInit
               PROVE  IInv /\ LInv /\ RInv
    OBVIOUS
  <2>1. IInv
    BY InitHolds
  <2>2. LInv
    <3>1. Found = {} /\ manifest.run = 0 /\ pc = "idle" /\ remaining = {}
      BY DEF Init, Found, NoManifest
    <3> QED BY <3>1 DEF LInv, RemainingIsPlain, PlainAhead, MethodsFit, ManifestFits, Working
  <2>3. RestoreTypeOK
    <3>1. choice \in Choices
      BY DEF RestoreInit
    <3>2. Untouched \in [Packages -> [Trees -> DeviceStates]]
      BY DEF Untouched, DeviceStates
    <3>3. 1 \in 1..(Len(Order) + 1) /\ 0 \in 0..MaxRestores
      BY DEF BackupAssumption, RestoreAssumption
    <3> QED BY <3>1, <3>2, <3>3 DEF RestoreInit, RestoreTypeOK, Trees
  <2>4. Begun
    BY DEF RestoreInit, Begun
  <2>5. HandFits /\ TreesInHand /\ WholeOrOld /\ DamagedIsUntouched /\ DataAllowed
        /\ WroteIsCounted /\ ApksDone /\ DataDone
    BY DEF RestoreInit, HandFits, TreesInHand, WholeOrOld, DamagedIsUntouched, DataAllowed,
           WroteIsCounted, ApksDone, DataDone, InData
  <2>6. DeviceIsSummed /\ SelectedOnly /\ NoHalfIsCountedRestored /\ SuccessCountsTheTruth
        /\ RoundTrip
    BY DEF RestoreInit, Untouched, DeviceIsSummed, SelectedOnly, NoHalfIsCountedRestored,
           SuccessCountsTheTruth, RoundTrip
  <2> QED BY <2>1, <2>2, <2>3, <2>4, <2>5, <2>6 DEF RInv
<1>2. IInv /\ LInv /\ RInv /\ [RestoreNext]_allVars => (IInv /\ LInv /\ RInv)'
  <2> SUFFICES ASSUME IInv, LInv, RInv, [RestoreNext]_allVars
               PROVE  IInv' /\ LInv' /\ RInv'
    OBVIOUS
  <2>1. flag \in BOOLEAN /\ disk \in [Files -> Contents \cup {Absent, Partial, Rotten}]
    BY DEF IInv, TypeOK
  <2>2. ASSUME UNCHANGED backupVars, flag' \in BOOLEAN, pc = "idle" \/ flag' = flag
        PROVE  IInv' /\ LInv'
    BY <2>1, <2>2, IdleKeeps DEF backupVars
  <2>3. CASE restores = 0 /\ Next /\ UNCHANGED restoreVars
    BY <2>3, NextKeeps, NextFits, BackupKeeps
  <2>4. CASE RestoreBegins
    <3>1. flag' \in BOOLEAN /\ pc = "idle" /\ UNCHANGED backupVars
      BY <2>1, <2>4 DEF RestoreBegins, RStop
    <3> QED BY <2>2, <2>4, <3>1, RestoreBeginsKeeps
  <2>5. CASE RestoreDeviceStep
    <3>1. UNCHANGED flag /\ UNCHANGED backupVars
      BY <2>5 DEF RestoreDeviceStep, InstallApk, Stat, Extract, Chown, RestoreLegacy, RestoreExtras
    <3>2. RInv'
      BY <2>5, InstallApkKeeps, StatKeeps, ExtractKeeps, ChownKeeps, RestoreLegacyKeeps,
         RestoreExtrasKeeps DEF RestoreDeviceStep
    <3> QED BY <2>1, <2>2, <3>1, <3>2
  <2>6. CASE LeaveInstall \/ NextRestore \/ LeaveRestore \/ Verify
    <3>1. UNCHANGED flag /\ UNCHANGED backupVars
      BY <2>6 DEF LeaveInstall, NextRestore, LeaveRestore, Verify
    <3>2. RInv'
      BY <2>6, LeaveInstallKeeps, NextRestoreKeeps, LeaveRestoreKeeps, VerifyKeeps
    <3> QED BY <2>1, <2>2, <3>1, <3>2
  <2>7. CASE CountRestored \/ RestoreKill
    <3>1. flag' = FALSE /\ pc = "idle" /\ UNCHANGED backupVars
      BY <2>7 DEF CountRestored, RestoreKill, RStop, RInv, Begun
    <3>2. RInv'
      BY <2>7, CountRestoredKeeps, RestoreKillKeeps
    <3> QED BY <2>2, <3>1, <3>2
  <2>8. CASE RestoreCancel
    <3>1. flag' = TRUE /\ pc = "idle" /\ UNCHANGED backupVars /\ UNCHANGED restoreVars
      BY <2>8 DEF RestoreCancel, RInv, Begun
    <3>2. RInv'
      BY <3>1, FlagKeeps
    <3> QED BY <2>2, <3>1, <3>2
  <2>9. CASE Rot
    <3>1. disk' \in [Files -> Contents \cup {Absent, Partial, Rotten}] /\ pc = "idle"
      BY <2>1, <2>9 DEF Rot
    <3>2. IInv' /\ LInv'
      BY <2>1, <2>9, <3>1, IdleKeeps DEF Rot
    <3> QED BY <2>9, <3>2, RotKeeps
  <2>10. CASE UNCHANGED allVars
    <3>1. UNCHANGED backupVars /\ UNCHANGED restoreVars /\ flag' = flag
      BY <2>10 DEF allVars, vars, backupVars
    <3>2. RInv'
      BY <3>1, FlagKeeps
    <3> QED BY <2>1, <2>2, <3>1, <3>2
  <2> QED BY <2>3, <2>4, <2>5, <2>6, <2>7, <2>8, <2>9, <2>10 DEF RestoreNext, RestoreLocalStep
<1> QED BY <1>1, <1>2, PTL DEF RestoreSpec

\* Every variable of the restore keeps its type (BackupManager::runRestore).
THEOREM RestoreTypeCorrect == RestoreSpec => []RestoreTypeOK
<1>1. RInv => RestoreTypeOK
  BY DEF RInv
<1> QED BY <1>1, RestoreInvariant, PTL

\* A package with a damaged or missing archive keeps all its data on the device,
\* however its archives, the cancel and the other packages' failures fall
\* (the check of every archive before RootBackend or StandardBackend touches
\* the first tree).
THEOREM DamagedAreUntouched == RestoreSpec => []DamagedIsUntouched
<1>1. RInv => DamagedIsUntouched
  BY DEF RInv
<1> QED BY <1>1, RestoreInvariant, PTL

\* No package with half its data is counted as restored: a failed or refused
\* extraction of either tree is in the entry before runRestore counts.
THEOREM NoHalvesAreCounted == RestoreSpec => []NoHalfIsCountedRestored
<1>1. RInv => NoHalfIsCountedRestored
  BY DEF RInv
<1> QED BY <1>1, RestoreInvariant, PTL

\* The summary of a restore that was not cancelled says what was written,
\* although runRestore computes it from the manifest and the options alone.
THEOREM SuccessIsTrue == RestoreSpec => []SuccessCountsTheTruth
<1>1. RInv => SuccessCountsTheTruth
  BY DEF RInv
<1> QED BY <1>1, RestoreInvariant, PTL

\* What a restore writes of a package from checksummed archives is what the
\* backup captured of it, whatever runs and damage came between.
THEOREM RoundTripHolds == RestoreSpec => []RoundTrip
<1>1. RInv => RoundTrip
  BY DEF RInv
<1> QED BY <1>1, RestoreInvariant, PTL
=============================================================================
