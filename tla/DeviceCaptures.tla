---------------------------- MODULE DeviceCaptures --------------------------
(***************************************************************************)
(* Shared storage and the device paths a backup pulls whole, run after run *)
(* into one backup directory, and the restore of shared storage: both      *)
(* backends' backupSharedStorage and restoreSharedStorage, the SD cards    *)
(* runBackup adds, captureFilesystem, and the parts of runBackup and       *)
(* runRestore that lead to them.                                           *)
(*                                                                         *)
(* A tree on the host is the device path it was pulled from, the run that  *)
(* pulled it and how much of it is there.  The runs' packages are either   *)
(* some or none: what is captured of them is BackupRun's subject.          *)
(***************************************************************************)
EXTENDS DevicePaths, FiniteSets

CONSTANTS
  Lists,        \* the lists of device paths a user may ask for
  Requests,     \* the option records a run goes on with
  Present,      \* the paths that exist on the device
  Cards,        \* the removable volumes' paths, as removableStorageRoots has them
  Entries,      \* the top-level entries of the device's shared storage
  MaxRuns, MaxRestores,     \* bounds: backups and restores begun
  MaxTroubles   \* bound: steps of one backup that fail

ASSUME CapturesAssumption ==
  /\ Requests \subseteq [mode : {"root", "standard"}, shared : BOOLEAN, paths : Lists]
  /\ \A list \in Lists :
       list \in Seq(ToSet(list)) /\ \A path \in ToSet(list) : path \in Seq(ToSet(path))
  /\ \A path \in Present :
       /\ path \in Seq(ToSet(path))
       /\ \A n \in 2..Len(path) : path[n] = "/" => SubSeq(path, 1, n - 1) \in Present
  /\ Cards \in Seq({path \in Present : IsPullable(path)})
  /\ IsFiniteSet(Entries) /\ Cardinality(Entries) > 1
  /\ MaxRuns \in Nat /\ MaxRestores \in Nat /\ MaxTroubles \in Nat

Sdcard == <<"/", "sdcard">>
Emulated == <<"/", "storage", "/", "emulated", "/", "0">>

\* How much of a tree a file or directory holds; an archive's checksum is its content.
Tree(path, run, part) == [path |-> path, run |-> run, part |-> part]
Gone == Tree(<<>>, 0, "none")
NoShared == [kind |-> "none", bytes |-> Gone, summed |-> FALSE]

VARIABLES
  pc,           \* where the run is, "idle" between runs
  opts,         \* the options asked for
  flag,         \* Process::cancelRequested()
  apps,         \* listPackages returned some
  shared,       \* the manifest's shared storage fields, in memory
  todo, k,      \* what captureFilesystem iterates over, and where it is
  used,         \* usedNames, the last one being the capture's in progress
  captures,     \* manifest.filesystemCaptures, in memory
  dirs,         \* the directories under filesystem/
  sharedDir, sharedTar,     \* shared_storage/ and shared_storage.tar
  manifest,     \* manifest.json
  outcome,      \* how the last run ended
  runs,         \* backups begun
  troubled,     \* history: the paths a step failed for, in this run
  rooted,       \* the device a restore meets is rooted
  left,         \* a restore's entries still to push
  phone,        \* history: what a restore wrote to /sdcard
  pushes,       \* pushed and allOk of a restore
  sharedRestored,           \* summary.sharedStorageRestored
  restores      \* restores begun

memoryVars == <<flag, apps, shared, todo, k, used, captures>>
diskVars == <<dirs, sharedDir, sharedTar, manifest>>
restoreVars == <<rooted, left, phone, pushes, sharedRestored, restores>>
vars == <<pc, opts, memoryVars, diskVars, outcome, runs, troubled, restoreVars>>

NoManifest == [run |-> 0, mode |-> "none", apps |-> FALSE, shared |-> NoShared, captures |-> <<>>]
NoPushes == [pushed |-> 0, allOk |-> TRUE]

Init ==
  /\ pc = "idle" /\ opts = [mode |-> "standard", shared |-> FALSE, paths |-> <<>>]
  /\ flag = FALSE /\ apps = FALSE /\ shared = NoShared
  /\ todo = <<>> /\ k = 1 /\ used = <<>> /\ captures = <<>>
  /\ dirs = <<>> /\ sharedDir = Gone /\ sharedTar = Gone /\ manifest = NoManifest
  /\ outcome = "none" /\ runs = 0 /\ troubled = {}
  /\ rooted = FALSE /\ left = {} /\ phone = {} /\ pushes = NoPushes /\ sharedRestored = FALSE /\ restores = 0

-----------------------------------------------------------------------------
\* `dirs` has the directories that exist: a function from names to trees.
Put(name, tree) == [n \in DOMAIN dirs \cup {name} |-> IF n = name THEN tree ELSE dirs[n]]
Drop(name) == [n \in DOMAIN dirs \ {name} |-> dirs[n]]

Trouble(path) == Cardinality(troubled) < MaxTroubles /\ troubled' = troubled \cup {path}

Stop(how) ==
  /\ pc' = "idle" /\ outcome' = how
  /\ flag' = FALSE /\ apps' = FALSE /\ shared' = NoShared
  /\ todo' = <<>> /\ k' = 1 /\ used' = <<>> /\ captures' = <<>>

\* The command line and the GUI look at every path before anything else, and
\* the command line shows the list it is going to pull.
Ask ==
  /\ pc = "idle" /\ runs < MaxRuns /\ restores = 0
  /\ \E list \in Lists, mode \in {"root", "standard"}, withShared \in BOOLEAN :
       opts' = [mode |-> mode, shared |-> withShared, paths |-> list]
  /\ runs > 0 => opts' \in Requests
  /\ pc' = "asked" /\ outcome' = "none" /\ troubled' = {}
  /\ UNCHANGED <<memoryVars, diskVars, runs, restoreVars>>

Refuse ==
  /\ pc = "asked"
  /\ \E n \in DOMAIN opts.paths : ~IsPullable(opts.paths[n])
  /\ Stop("refused")
  /\ UNCHANGED <<opts, diskVars, runs, troubled, restoreVars>>

\* Up to the list of packages: a connection or a device query may fail, and a
\* run that finds no packages goes on only if there is something else to do.
Begin ==
  /\ pc = "asked" /\ opts \in Requests
  /\ \A n \in DOMAIN opts.paths : IsPullable(opts.paths[n])
  /\ runs' = runs + 1
  /\ \/ Stop("failed")
     \/ \E found \in BOOLEAN :
          /\ found \/ opts.shared \/ opts.paths # <<>>
          /\ apps' = found /\ pc' = "shared"
          /\ UNCHANGED <<outcome, flag, shared, todo, k, used, captures>>
  /\ UNCHANGED <<opts, diskVars, troubled, restoreVars>>

-----------------------------------------------------------------------------
(* backupSharedStorage.  A tree with one entry missing stands for a part.  *)

SkipShared ==
  /\ pc = "shared" /\ (~opts.shared \/ flag)
  /\ pc' = "cards"
  /\ UNCHANGED <<opts, memoryVars, diskVars, outcome, runs, troubled, restoreVars>>

\* The old directory is removed, or the old archive truncated.
SharedBegins ==
  /\ pc = "shared" /\ opts.shared /\ ~flag
  /\ pc' = "pullShared"
  /\ IF opts.mode = "standard" THEN sharedDir' = Gone /\ UNCHANGED sharedTar
     ELSE sharedTar' = Tree(Sdcard, runs, "none") /\ UNCHANGED sharedDir
  /\ UNCHANGED <<opts, memoryVars, dirs, manifest, outcome, runs, troubled, restoreVars>>

\* `adb pull` of everything, or of a part that is kept and recorded the same.
PullsShared(part) ==
  /\ pc = "pullShared" /\ opts.mode = "standard"
  /\ sharedDir' = Tree(Sdcard, runs, part)
  /\ shared' = [kind |-> "dir", bytes |-> sharedDir', summed |-> FALSE]
  /\ part = "some" => Trouble(Sdcard)
  /\ part = "whole" => UNCHANGED troubled
  /\ pc' = "cards"
  /\ UNCHANGED <<opts, flag, apps, todo, k, used, captures, dirs, sharedTar, manifest,
                 outcome, runs, restoreVars>>

\* The archive's checksum is taken of what was written, if it can be read back
\* (checksumOrEmpty); `tar` failing on any file fails the capture.
ArchivesShared ==
  /\ pc = "pullShared" /\ opts.mode = "root"
  /\ sharedTar' = Tree(Sdcard, runs, "whole")
  /\ \E summed \in BOOLEAN : shared' = [kind |-> "tar", bytes |-> sharedTar', summed |-> summed]
  /\ pc' = "cards"
  /\ UNCHANGED <<opts, flag, apps, todo, k, used, captures, dirs, sharedDir, manifest,
                 outcome, runs, troubled, restoreVars>>

\* Nothing came: what there is is removed.
SharedFails ==
  /\ pc = "pullShared"
  /\ flag \/ Trouble(Sdcard)
  /\ flag => troubled' = troubled \cup {Sdcard}
  /\ IF opts.mode = "standard" THEN sharedDir' = Gone /\ UNCHANGED sharedTar
     ELSE sharedTar' = Gone /\ UNCHANGED sharedDir
  /\ pc' = "cards"
  /\ UNCHANGED <<opts, memoryVars, dirs, manifest, outcome, runs, restoreVars>>

-----------------------------------------------------------------------------
(* The SD cards, then captureFilesystem.                                   *)

\* The cards join the requested paths; a listing that fails finds none.
Collect ==
  /\ pc = "cards"
  /\ \/ /\ opts.shared /\ ~flag
        /\ todo' = CollapseRedundant(opts.paths \o Cards)
        /\ UNCHANGED troubled
     \/ /\ opts.shared /\ ~flag
        /\ Cards # <<>> /\ Cardinality(troubled) < MaxTroubles
        /\ troubled' = troubled \cup ToSet(Cards)
        /\ todo' = CollapseRedundant(opts.paths)
     \/ /\ ~opts.shared \/ flag
        /\ todo' = IF flag THEN <<>> ELSE CollapseRedundant(opts.paths)
        /\ UNCHANGED troubled
  /\ pc' = IF todo' = <<>> THEN "manifest" ELSE "loop"
  /\ UNCHANGED <<opts, flag, apps, shared, k, used, captures, diskVars, outcome, runs,
                 restoreVars>>

\* filesystem/ cannot be created: the capture is skipped, the run goes on.
NoDirectory ==
  /\ pc = "loop" /\ k = 1 /\ used = <<>>
  /\ Cardinality(troubled) < MaxTroubles
  /\ troubled' = troubled \cup {todo[n] : n \in DOMAIN todo}
  /\ pc' = "manifest"
  /\ UNCHANGED <<opts, memoryVars, diskVars, outcome, runs, restoreVars>>

Cur == todo[k]

\* Refused, or in the backup as shared storage already.
Skipped(path) ==
  \/ ~IsPullable(path)
  \/ shared.kind # "none" /\ (IsUnder(path, Sdcard) \/ IsUnder(path, Emulated))

\* std::to_string
Numeral(n) == ToString(n)
Suffixed(candidate, n) == IF n = 1 THEN candidate ELSE candidate \o <<"_", Numeral(n)>>

\* Mutant of UniqueName: two paths of one name share a directory.
PlainName(candidate, taken) == candidate

\* The candidate, or the candidate with the first free suffix.
UniqueName(candidate, taken) ==
  LET free == {n \in 1..(Len(taken) + 1) : ~Contains(taken, Suffixed(candidate, n))}
  IN  Suffixed(candidate, Min(free))

\* One turn of the loop that pulls nothing: the path is skipped, or the device
\* does not have it, or the probe fails, which reads the same.
PassOver ==
  /\ pc = "loop" /\ k <= Len(todo) /\ ~flag
  /\ \/ Skipped(Cur) /\ UNCHANGED troubled
     \/ ~Skipped(Cur) /\ Cur \notin Present /\ UNCHANGED troubled
     \/ ~Skipped(Cur) /\ Cur \in Present /\ Trouble(Cur)
  /\ k' = k + 1
  /\ UNCHANGED <<pc, opts, flag, apps, shared, todo, used, captures, diskVars, outcome,
                 runs, restoreVars>>

\* The capture's directory is named, and what an earlier run left in it removed.
PullBegins ==
  /\ pc = "loop" /\ k <= Len(todo) /\ ~flag
  /\ ~Skipped(Cur) /\ Cur \in Present
  /\ used' = Append(used, UniqueName(Sanitize(Cur), used))
  /\ dirs' = Drop(Last(used'))
  /\ pc' = "pull"
  /\ UNCHANGED <<opts, flag, apps, shared, todo, k, captures, sharedDir, sharedTar,
                 manifest, outcome, runs, troubled, restoreVars>>

\* What adb pulled is recorded with whether it is everything.
Pulls(part) ==
  /\ pc = "pull"
  /\ part = "some" => Trouble(Cur)
  /\ part = "whole" => UNCHANGED troubled
  /\ dirs' = Put(Last(used), Tree(Cur, runs, part))
  /\ captures' = Append(captures, [path |-> Cur, name |-> Last(used),
                                   complete |-> part = "whole"])
  /\ pc' = "loop" /\ k' = k + 1
  /\ UNCHANGED <<opts, flag, apps, shared, todo, used, sharedDir, sharedTar, manifest,
                 outcome, runs, restoreVars>>

\* adb failed and left nothing (or one file it did not finish: its directory
\* size is nothing too): removed, and the name stays taken.
PullFails ==
  /\ pc = "pull"
  /\ flag \/ Trouble(Cur)
  /\ flag => troubled' = troubled \cup {Cur}
  /\ dirs' = Drop(Last(used))
  /\ pc' = "loop" /\ k' = k + 1
  /\ UNCHANGED <<opts, flag, apps, shared, todo, used, captures, sharedDir, sharedTar,
                 manifest, outcome, runs, restoreVars>>

LeaveLoop ==
  /\ pc = "loop" /\ (k > Len(todo) \/ flag)
  /\ pc' = "manifest"
  /\ UNCHANGED <<opts, memoryVars, diskVars, outcome, runs, troubled, restoreVars>>

\* manifest.json replaces the old one.  A write that fails may lose both, and one
\* that fails in the stream's destructor is not noticed (writeTextFile).
WriteManifest ==
  /\ pc = "manifest"
  /\ \/ /\ \/ manifest' = [run |-> runs, mode |-> opts.mode, apps |-> apps, shared |-> shared,
                            captures |-> captures]
           \/ manifest' = NoManifest
        /\ Stop(IF flag THEN "cancelled" ELSE "success")
     \/ manifest' \in {manifest, NoManifest} /\ Stop("failed")
  /\ UNCHANGED <<opts, dirs, sharedDir, sharedTar, runs, troubled, restoreVars>>

-----------------------------------------------------------------------------
Running == pc \notin {"idle", "asked"}
Restoring == pc \in {"restore", "push", "extract"}

Cancel ==
  /\ Running /\ ~flag
  /\ flag' = TRUE
  /\ UNCHANGED <<pc, opts, apps, shared, todo, k, used, captures, diskVars, outcome, runs,
                 troubled, restoreVars>>

\* A kill leaves what was on disk; in the middle of a transfer, a part of it.
Kill ==
  /\ Running /\ ~Restoring
  /\ CASE pc = "pullShared" /\ opts.mode = "standard" ->
            /\ sharedDir' \in {sharedDir, Tree(Sdcard, runs, "some")}
            /\ UNCHANGED <<dirs, sharedTar>>
       [] pc = "pullShared" /\ opts.mode = "root" ->
            /\ sharedTar' \in {sharedTar, Tree(Sdcard, runs, "some")}
            /\ UNCHANGED <<dirs, sharedDir>>
       [] pc = "pull" ->
            /\ dirs' \in {dirs, Put(Last(used), Tree(Cur, runs, "some"))}
            /\ UNCHANGED <<sharedDir, sharedTar>>
       [] OTHER -> UNCHANGED <<dirs, sharedDir, sharedTar>>
  /\ manifest' \in IF pc = "manifest" THEN {manifest, NoManifest} ELSE {manifest}
  /\ Stop("killed")
  /\ UNCHANGED <<opts, runs, troubled, restoreVars>>

-----------------------------------------------------------------------------
(* runRestore, as far as shared storage goes: the manifest's mode chooses  *)
(* the backend, and a root-mode one needs a rooted device.                 *)

EntriesOf(part) ==
  CASE part = "whole" -> Entries
    [] part = "some" -> {CHOOSE e \in Entries : TRUE}
    [] part = "none" -> {}

\* A manifest without packages ends the restore before it reaches them; APKs and
\* app data come first.
RestoreBegins ==
  /\ pc = "idle" /\ restores < MaxRestores /\ manifest.run > 0
  /\ restores' = restores + 1
  /\ rooted' \in BOOLEAN
  /\ left' = {} /\ phone' = {} /\ pushes' = NoPushes /\ sharedRestored' = FALSE
  /\ IF manifest.apps THEN pc' = "restore" /\ outcome' = "none" /\ UNCHANGED memoryVars
     ELSE Stop("nothing selected")
  /\ UNCHANGED <<opts, diskVars, runs, troubled>>

\* The archive must be the one the manifest has the checksum of; without a
\* checksum any will do (checksumMatches).
HasTree == manifest.shared.kind = "dir" /\ manifest.mode = "standard" /\ sharedDir # Gone
HasArchive == /\ manifest.shared.kind = "tar" /\ manifest.mode = "root" /\ rooted
              /\ sharedTar # Gone
              /\ manifest.shared.summed => sharedTar = manifest.shared.bytes

RestoreShared ==
  /\ pc = "restore"
  /\ IF flag \/ ~(HasTree \/ HasArchive)
       THEN Stop(IF flag THEN "restore cancelled" ELSE "restored") /\ UNCHANGED left
       ELSE /\ pc' = IF HasTree THEN "push" ELSE "extract"
            /\ left' = EntriesOf(IF HasTree THEN sharedDir.part ELSE sharedTar.part)
            /\ UNCHANGED <<memoryVars, outcome>>
  /\ UNCHANGED <<opts, diskVars, runs, troubled, rooted, phone, pushes, sharedRestored,
                 restores>>

\* One entry after the other, each into the parent; a refused or failed push is
\* remembered.
PushEntry ==
  /\ pc = "push"
  /\ \E entry \in left :
       /\ left' = left \ {entry}
       /\ \/ /\ ~flag
             /\ phone' = phone \cup {entry}
             /\ pushes' = [pushes EXCEPT !.pushed = @ + 1]
          \/ pushes' = [pushes EXCEPT !.allOk = FALSE] /\ UNCHANGED phone
  /\ UNCHANGED <<pc, opts, memoryVars, diskVars, outcome, runs, troubled, rooted,
                 sharedRestored, restores>>

\* Mutant of PushVerdict: one entry pushed is enough.
AnyPushVerdict == pushes.pushed > 0

PushVerdict == pushes.pushed > 0 /\ pushes.allOk

PushEnds ==
  /\ pc = "push" /\ left = {}
  /\ sharedRestored' = PushVerdict
  /\ Stop(IF flag THEN "restore cancelled" ELSE "restored")
  /\ UNCHANGED <<opts, diskVars, runs, troubled, rooted, left, phone, pushes, restores>>

\* The archive is streamed into tar on the device, which may break off.
Extracts ==
  /\ pc = "extract"
  /\ \/ ~flag /\ phone' = left /\ sharedRestored' = TRUE
     \/ phone' \in SUBSET left /\ sharedRestored' = FALSE
  /\ left' = {}
  /\ Stop(IF flag THEN "restore cancelled" ELSE "restored")
  /\ UNCHANGED <<opts, diskVars, runs, troubled, rooted, pushes, restores>>

-----------------------------------------------------------------------------
Next ==
  \/ Ask \/ Refuse \/ Begin
  \/ SkipShared \/ SharedBegins \/ ArchivesShared \/ SharedFails
  \/ (\E part \in {"whole", "some"} : PullsShared(part) \/ Pulls(part))
  \/ Collect \/ NoDirectory \/ PassOver \/ PullBegins \/ PullFails \/ LeaveLoop
  \/ WriteManifest \/ Cancel \/ Kill
  \/ RestoreBegins \/ RestoreShared \/ PushEntry \/ PushEnds \/ Extracts

Spec == Init /\ [][Next]_vars

-----------------------------------------------------------------------------
(* Properties.                                                             *)

Parts == {"none", "some", "whole"}
TypeOK ==
  /\ pc \in {"idle", "asked", "shared", "pullShared", "cards", "loop", "pull", "manifest",
             "restore", "push", "extract"}
  /\ opts \in [mode : {"root", "standard"}, shared : BOOLEAN, paths : Lists \cup {<<>>}]
  /\ flag \in BOOLEAN /\ apps \in BOOLEAN /\ rooted \in BOOLEAN /\ sharedRestored \in BOOLEAN
  /\ k \in 1..(Len(todo) + 1) /\ Len(captures) <= Len(used) /\ Len(used) <= k
  /\ \A n \in DOMAIN dirs : dirs[n].part \in Parts /\ dirs[n].run \in 1..runs
  /\ shared.kind \in {"none", "dir", "tar"} /\ shared.bytes.part \in Parts
  /\ runs \in 0..MaxRuns /\ restores \in 0..MaxRestores
  /\ left \subseteq Entries /\ phone \subseteq Entries

\* The names of a path, by which the properties compare paths: a piece after a
\* separator begins one, a piece after another piece goes on with it.
Segments(path) ==
  LET names[n \in 0..Len(path)] ==
        IF n = 0 THEN <<>>
        ELSE LET before == names[n - 1]
             IN  IF path[n] = "/" THEN before
                 ELSE IF n > 1 /\ path[n - 1] # "/"
                   THEN [before EXCEPT ![Len(before)] = Append(@, path[n])]
                 ELSE Append(before, <<path[n]>>)
  IN  names[Len(path)]
Within(path, ancestor) == IsPrefix(Segments(ancestor), Segments(path))

\* Of any list that may be pulled, what is pulled is the paths none of the others
\* covers, each once, in the order they were first named (collapseRedundant).
CollapseIsMinimal ==
  (pc = "asked" /\ \A n \in DOMAIN opts.paths : IsPullable(opts.paths[n])) =>
    LET asked == [n \in DOMAIN opts.paths |-> Segments(Trim(opts.paths[n]))]
        pulled == CollapseRedundant(opts.paths)
        First(path) == Min({n \in DOMAIN asked : asked[n] = Segments(path)})
    IN  /\ {Segments(pulled[n]) : n \in DOMAIN pulled} =
             {s \in ToSet(asked) : \A t \in ToSet(asked) : IsPrefix(t, s) => t = s}
        /\ \A m, n \in DOMAIN pulled : m < n => First(pulled[m]) < First(pulled[n])

\* Between runs, every capture the last finished run lists has a directory to
\* itself with the tree of its own path, as that run pulled it, and is called
\* complete exactly if it is; the shared storage it lists is its own too
\* (uniqueName, remove_all before the pull, `complete`).
Settled == pc \in {"idle", "asked", "restore", "push", "extract"}
CapturesAreTheirOwn ==
  (Settled /\ manifest.run > 0 /\ manifest.run = runs) =>
    /\ \A n \in DOMAIN manifest.captures :
         LET capture == manifest.captures[n]
         IN  /\ capture.name \in DOMAIN dirs
             /\ dirs[capture.name] = Tree(capture.path, runs,
                                         IF capture.complete THEN "whole" ELSE "some")
    /\ manifest.shared.kind = "dir" => sharedDir = manifest.shared.bytes
    /\ manifest.shared.kind = "tar" => sharedTar = manifest.shared.bytes

\* What a run is to pull.
Wanted == ToSet(opts.paths) \cup (IF opts.shared THEN ToSet(Cards) ELSE {})

\* The device's paths neither begin nor end with a blank.  One that did would be
\* looked for without it (strutil::trim in collapseRedundant).
NoBlankEnds == \A path \in Present : Trim(path) = path

\* A run that reports success, and whose manifest did not fail in its last flush
\* (SuccessHasItsManifest), has every path asked for that the device holds, the
\* SD cards included: in a capture, in shared storage, or a step failed for it
\* (the collapse, the skips and the loop of captureFilesystem together).
SuccessHasEveryPath ==
  outcome = "success" /\ manifest # NoManifest =>
    \A path \in Wanted :
      Normalize(Trim(path)) \in Present =>
        \/ \E n \in DOMAIN manifest.captures : Within(Trim(path), manifest.captures[n].path)
        \/ /\ manifest.shared.kind # "none"
           /\ Within(Trim(path), Sdcard) \/ Within(Trim(path), Emulated)
        \/ \E t \in troubled : Within(Trim(path), t)

\* A restore that reports shared storage as restored wrote all of what the backup
\* holds: always for an archive with a checksum, and for one without and a pulled
\* tree as long as no later run has begun to replace it, since nothing tells the
\* restore that a killed run left a part in its place (PushVerdict, HasArchive).
SharedRestoredIsTrue ==
  /\ sharedRestored
  /\ (manifest.shared.kind = "tar" /\ manifest.shared.summed) \/ manifest.run = runs
  => phone = EntriesOf(manifest.shared.bytes.part)

\* What src/CHANGELOG.md promises of a phone without apps: its shared storage is
\* backed up, and so there is a restore that gets to it.
SharedComesBack == outcome = "nothing selected" => manifest.shared.kind = "none"
=============================================================================
