----------------------------- MODULE RestoreRun ----------------------------
(***************************************************************************)
(* BackupManager::runRestore with the two backends, onto a device, from    *)
(* the directories BackupRun leaves: manifests of finished, cancelled and  *)
(* killed runs, over archives that may since have rotted or gone missing.  *)
(* A restore and a backup share the cancel flag and never run together.    *)
(*                                                                         *)
(* `device` is what the restore did to each package's data tree.           *)
(***************************************************************************)
EXTENDS BackupRun

CONSTANTS
  Choices,        \* the options, the packages they select, and whether the
                  \* device turns out rooted
  MaxRestores     \* bound: restores begun

ASSUME RestoreAssumption ==
  /\ Choices \subseteq [apks : BOOLEAN, data : BOOLEAN, rooted : BOOLEAN,
                        sel : SUBSET Packages]
  /\ Choices # {}
  /\ MaxRestores \in Nat

VARIABLES
  rpc,          \* where the restore is
  choice,       \* its options, with what queryDeviceInfo found
  j,            \* the loop index over manifest.packages
  rtree,        \* the tree being restored
  legacy,       \* anyLegacySelected
  bad,          \* the packages whose entry.error is set
  device,       \* each package's data trees on the device
  installed,    \* the packages installed on the device
  wrote,        \* history: packages the restore wrote anything of
  restored, failures, nothing,     \* the summary's counts, as sets
  routcome,     \* how the restore ended
  restores      \* restores begun

deviceVars == <<device, installed, wrote>>
countVars == <<restored, failures, nothing>>
restoreVars == <<rpc, choice, j, rtree, legacy, bad, device, installed, wrote, restored,
                 failures, nothing, routcome, restores>>
backupVars == <<pc, opts, packages, i, tree, failed, runAs, remaining, entries, ab, extras,
                disk, manifest, outcome, runs, skipped, troubled>>
allVars == <<vars, restoreVars>>

Old == <<"old">>            \* as it was before the restore
Half == <<"half">>          \* an extraction that did not finish
Put(content, owner) == <<"put", content, owner>>
Untouched == [p \in Packages |-> [t \in Trees |-> Old]]

RestoreInit ==
  /\ rpc = "idle" /\ choice = (CHOOSE c \in Choices : TRUE) /\ j = 1 /\ rtree = "ce"
  /\ legacy = FALSE
  /\ bad = {} /\ device = Untouched /\ installed = {} /\ wrote = {}
  /\ restored = {} /\ failures = {} /\ nothing = {} /\ routcome = "none" /\ restores = 0

-----------------------------------------------------------------------------
Entry(p) == manifest.entries[p]
Listed(p, t) == Entry(p).sum[t] # Unlisted
Sound(p, t) == Listed(p, t) => Matches(disk[Stem(p, t)], Entry(p).sum[t])
Cur == Order[j]
InLoop == j <= Len(Order)
Selected == choice.sel \cap DOMAIN manifest.entries

\* Root-mode data needs a rooted device; installs and the rest do not.
DataPossible == choice.data /\ (manifest.mode = "root" => choice.rooted)

RStop(how) ==
  /\ rpc' = "idle" /\ routcome' = how /\ flag' = FALSE
  /\ j' = 1 /\ rtree' = "ce" /\ legacy' = FALSE /\ bad' = {}

\* The manifest is read and selected from; backup-time errors are cleared.
RestoreBegins ==
  /\ rpc = "idle" /\ pc = "idle" /\ restores < MaxRestores
  /\ manifest.run > 0
  /\ restores' = restores + 1
  /\ choice' \in Choices
  /\ installed' \in {{}, Packages}
  /\ device' = Untouched /\ wrote' = {}
  /\ restored' = {} /\ failures' = {} /\ nothing' = {}
  /\ \/ RStop("failed")
     \/ /\ choice'.sel \cap DOMAIN manifest.entries # {}
        /\ rpc' = "install" /\ routcome' = "none"
        /\ UNCHANGED <<j, rtree, legacy, bad, flag>>
  /\ UNCHANGED backupVars

\* One turn of installApks.
InstallApk ==
  /\ rpc = "install" /\ choice.apks /\ InLoop /\ (flag => Cur \notin Selected)
  /\ j' = j + 1
  /\ \/ /\ Cur \in Selected /\ Entry(Cur).apk
        /\ installed' = installed \cup {Cur} /\ wrote' = wrote \cup {Cur}
        /\ UNCHANGED bad
     \/ /\ Cur \in Selected /\ Entry(Cur).apk
        /\ bad' = bad \cup {Cur}
        /\ UNCHANGED <<installed, wrote>>
     \/ /\ Cur \in Selected => ~Entry(Cur).apk
        /\ UNCHANGED <<bad, installed, wrote>>
  /\ UNCHANGED <<backupVars, flag, rpc, choice, rtree, legacy, device, countVars, routcome,
                 restores>>

\* A cancel ends installApks, and keeps restoreAppData from being called.
LeaveInstall ==
  /\ rpc = "install" /\ (~choice.apks \/ ~InLoop \/ (InLoop /\ flag /\ Cur \in Selected))
  /\ rpc' = IF DataPossible /\ ~flag THEN "next" ELSE "extras"
  /\ j' = 1
  /\ UNCHANGED <<backupVars, flag, choice, rtree, legacy, bad, deviceVars, countVars,
                 routcome, restores>>

-----------------------------------------------------------------------------
(* restoreAppData, both backends.                                          *)

HasData(p) == p \in Selected /\ Entry(p).method # "none"

NextRestore ==
  /\ rpc = "next" /\ InLoop
  /\ \/ /\ ~HasData(Cur)
        /\ j' = j + 1
        /\ UNCHANGED <<rpc, legacy>>
     \/ /\ HasData(Cur) /\ flag                   \* no legacy restore either
        /\ rpc' = "extras"
        /\ UNCHANGED <<j, legacy>>
     \/ /\ HasData(Cur) /\ ~flag /\ Entry(Cur).method = "legacy"
        /\ legacy' = TRUE
        /\ j' = j + 1
        /\ UNCHANGED rpc
     \/ /\ HasData(Cur) /\ ~flag /\ Entry(Cur).method # "legacy"
        /\ rpc' = "verify"
        /\ UNCHANGED <<j, legacy>>
  /\ UNCHANGED <<backupVars, flag, choice, rtree, bad, deviceVars, countVars, routcome,
                 restores>>

LeaveRestore ==
  /\ rpc = "next" /\ ~InLoop
  /\ rpc' = IF legacy /\ manifest.ab THEN "legacy" ELSE "extras"
  /\ UNCHANGED <<backupVars, flag, choice, j, rtree, legacy, bad, deviceVars, countVars,
                 routcome, restores>>

Fail(p) == bad' = bad \cup {p} /\ rpc' = "next" /\ j' = j + 1 /\ rtree' = "ce"
FirstTree(p) == IF Listed(p, "ce") THEN "ce" ELSE "de"

\* The mutation that checks each archive only as it comes to it.
VerifyFirst ==
  /\ rpc = "verify"
  /\ IF Sound(Cur, FirstTree(Cur))
       THEN rpc' = "stat" /\ rtree' = FirstTree(Cur) /\ UNCHANGED <<j, bad>>
       ELSE Fail(Cur)
  /\ UNCHANGED <<backupVars, flag, choice, legacy, deviceVars, countVars, routcome, restores>>

\* Every archive is checked before the device is touched; then am force-stop.
Verify ==
  /\ rpc = "verify"
  /\ IF \A t \in Trees : Sound(Cur, t)
       THEN rpc' = "stat" /\ rtree' = FirstTree(Cur) /\ UNCHANGED <<j, bad>>
       ELSE Fail(Cur)
  /\ UNCHANGED <<backupVars, flag, choice, legacy, deviceVars, countVars, routcome, restores>>

\* Root: stat finds the owner of the app's directory.  run-as looks for none.
Stat ==
  /\ rpc = "stat"
  /\ \/ /\ manifest.mode = "root" => ~flag /\ Cur \in installed
        /\ rpc' = "extract"
        /\ UNCHANGED <<j, rtree, bad>>
     \/ manifest.mode = "root" /\ Fail(Cur)
  /\ UNCHANGED <<backupVars, flag, choice, legacy, deviceVars, countVars, routcome, restores>>

NextTree ==
  IF rtree = "ce" /\ Listed(Cur, "de")
    THEN rpc' = "stat" /\ rtree' = "de" /\ UNCHANGED <<j, bad>>
    ELSE rpc' = "next" /\ rtree' = "ce" /\ j' = j + 1 /\ UNCHANGED bad

\* The mutation that takes a failed extraction for a finished one.
ExtractIgnoring ==
  /\ rpc = "extract"
  /\ \E now \in {Half, Put(disk[Stem(Cur, rtree)], "archive")} :
       device' = [device EXCEPT ![Cur][rtree] = now]
  /\ wrote' = wrote \cup {Cur}
  /\ NextTree
  /\ UNCHANGED <<backupVars, flag, choice, legacy, installed, countVars, routcome, restores>>

\* tar -x over `adb shell`, as root or as the app.  A cancel refuses it.
Extract ==
  /\ rpc = "extract"
  /\ \/ /\ ~flag
        /\ device' = [device EXCEPT ![Cur][rtree] =
                        Put(disk[Stem(Cur, rtree)],
                            IF manifest.mode = "root" THEN "archive" ELSE "app")]
        /\ wrote' = wrote \cup {Cur}
        /\ IF manifest.mode = "root"
             THEN rpc' = "chown" /\ UNCHANGED <<j, rtree, bad>>
             ELSE NextTree
     \/ /\ \/ device' = device
           \/ ~flag /\ device' = [device EXCEPT ![Cur][rtree] = Half]
        /\ Fail(Cur)
        /\ UNCHANGED wrote
  /\ UNCHANGED <<backupVars, flag, choice, legacy, installed, countVars, routcome, restores>>

\* The mutation that asks again until it is told yes.
ChownRetrying ==
  /\ rpc = "chown" /\ ~flag
  /\ device' = [device EXCEPT ![Cur][rtree] = Put(@[2], "app")]
  /\ NextTree
  /\ UNCHANGED <<backupVars, flag, choice, legacy, installed, wrote, countVars, routcome,
                 restores>>

\* chown and restorecon: nobody looks at how they ended.
Chown ==
  /\ rpc = "chown"
  /\ \/ /\ ~flag
        /\ device' = [device EXCEPT ![Cur][rtree] = Put(@[2], "app")]
     \/ UNCHANGED device
  /\ NextTree
  /\ UNCHANGED <<backupVars, flag, choice, legacy, installed, wrote, countVars, routcome,
                 restores>>

LegacyPackages == {p \in DOMAIN manifest.entries : Entry(p).method = "legacy"}

\* `adb restore` writes the whole archive back, the deselected packages too.
RestoreLegacy ==
  /\ rpc = "legacy"
  /\ \/ /\ disk[AbFile] # Absent /\ ~flag
        /\ device' = [p \in Packages |->
                        IF p \in LegacyPackages
                          THEN [device[p] EXCEPT !["ce"] = Put(disk[AbFile], "app")]
                          ELSE device[p]]
        /\ wrote' = wrote \cup LegacyPackages
        /\ UNCHANGED bad
     \/ /\ \/ device' = device
           \/ /\ disk[AbFile] # Absent /\ ~flag
              /\ device' = [p \in Packages |->
                              IF p \in LegacyPackages
                                THEN [device[p] EXCEPT !["ce"] = Half] ELSE device[p]]
        /\ bad' = bad \cup (LegacyPackages \cap Selected)
        /\ UNCHANGED wrote
  /\ rpc' = "extras"
  /\ UNCHANGED <<backupVars, flag, choice, j, rtree, legacy, installed, countVars, routcome,
                 restores>>

-----------------------------------------------------------------------------
\* Shared storage and personal data: pushed or not, and no package's.
RestoreExtras ==
  /\ rpc = "extras"
  /\ rpc' = "count"
  /\ UNCHANGED <<backupVars, flag, choice, j, rtree, legacy, bad, deviceVars, countVars,
                 routcome, restores>>

\* What the summary counts as restored: it is computed from the manifest, not
\* from what the loops above reached.
Counted(p) == \/ choice.apks /\ Entry(p).apk
              \/ DataPossible /\ Entry(p).method # "none"

\* The mutation that counts every selected package, as the comment warns.
CountSelected ==
  /\ rpc = "count"
  /\ failures' = bad \cap Selected
  /\ restored' = Selected \ bad
  /\ nothing' = {}
  /\ RStop(IF flag THEN "cancelled" ELSE "success")
  /\ UNCHANGED <<backupVars, choice, deviceVars, restores>>

CountRestored ==
  /\ rpc = "count"
  /\ failures' = bad \cap Selected
  /\ restored' = {p \in Selected \ bad : Counted(p)}
  /\ nothing' = Selected \ (failures' \cup restored')
  /\ RStop(IF flag THEN "cancelled" ELSE "success")
  /\ UNCHANGED <<backupVars, choice, deviceVars, restores>>

RestoreCancel ==
  /\ rpc # "idle" /\ ~flag
  /\ flag' = TRUE
  /\ UNCHANGED <<backupVars, restoreVars>>

\* The process dies: nobody counts, and the device keeps what it was given.
RestoreKill ==
  /\ rpc # "idle"
  /\ RStop("killed")
  /\ UNCHANGED <<backupVars, choice, deviceVars, countVars, restores>>

\* Between a backup and a restore a file is damaged, edited or deleted.
Rot ==
  /\ pc = "idle" /\ rpc = "idle" /\ restores < MaxRestores
  /\ \E f \in Files :
       /\ disk[f] \in Contents
       /\ \E now \in {Rotten, Absent} : disk' = [disk EXCEPT ![f] = now]
  /\ UNCHANGED <<pc, opts, flag, packages, i, tree, failed, runAs, remaining, entries, ab,
                 extras, manifest, outcome, runs, skipped, troubled, restoreVars>>

RestoreDeviceStep == InstallApk \/ Stat \/ Extract \/ Chown \/ RestoreLegacy \/ RestoreExtras
RestoreLocalStep == LeaveInstall \/ NextRestore \/ LeaveRestore \/ Verify \/ CountRestored

\* The backups come first: bounding the restores to the last of them keeps the
\* manifest the counts are about.
RestoreNext ==
  \/ restores = 0 /\ Next /\ UNCHANGED restoreVars
  \/ RestoreBegins \/ RestoreDeviceStep \/ RestoreLocalStep
  \/ RestoreCancel \/ RestoreKill \/ Rot

RestoreSpec == Init /\ RestoreInit /\ [][RestoreNext]_allVars

\* As for the backup: a device step ends once the child is being signalled.
RestoreFairSpec ==
  RestoreSpec /\ WF_allVars(RestoreLocalStep) /\ WF_allVars(flag /\ RestoreDeviceStep)

-----------------------------------------------------------------------------
DeviceStates ==
  {Old, Half} \cup
  {Put(c, o) : c \in Contents \cup {Partial, Rotten}, o \in {"app", "archive"}}

\* The type of every variable of the restore.
RestoreTypeOK ==
  /\ rpc \in {"idle", "install", "next", "verify", "stat", "extract", "chown", "legacy",
              "extras", "count"}
  /\ choice \in Choices /\ j \in 1..(Len(Order) + 1) /\ rtree \in Trees
  /\ legacy \in BOOLEAN /\ bad \subseteq Packages
  /\ device \in [Packages -> [Trees -> DeviceStates]]
  /\ installed \subseteq Packages /\ wrote \subseteq Packages
  /\ restored \subseteq Packages /\ failures \subseteq Packages /\ nothing \subseteq Packages
  /\ routcome \in {"none", "success", "cancelled", "failed", "killed"}
  /\ restores \in 0..MaxRestores

\* A package with a damaged or missing archive keeps both its trees: neither
\* half is extracted (RootBackend.cpp: "a corrupted half never leaves the app
\* with only the other half restored").
DamagedIsUntouched ==
  rpc # "idle" =>
    \A p \in DOMAIN manifest.entries :
      Entry(p).method \in {"root", "runas"} /\ (\E t \in Trees : ~Sound(p, t))
        => \A t \in Trees : device[p][t] = Old

\* No package counted as restored was left with half its data, by a failed
\* extraction or by a cancel between its two trees: all its listed trees were
\* written, or none was.
NoHalfIsCountedRestored ==
  \A p \in restored :
    LET trees == IF Entry(p).method = "legacy" THEN {"ce"} ELSE {t \in Trees : Listed(p, t)}
    IN \/ \A t \in trees : device[p][t] = Old
       \/ \A t \in trees : device[p][t] \notin {Old, Half}

\* The summary of a restore that succeeded is the truth: a package counts as
\* restored exactly when something of it was written and nothing failed.
SuccessCountsTheTruth ==
  routcome = "success" => restored = (wrote \cap choice.sel) \ failures

\* Backup and restore together: what a successful restore wrote of a package
\* from checksummed archives is that package's own trees, as the run that wrote
\* the manifest captured them; and no restore, however it ended, touched a
\* package that was not selected, except those in the legacy archive, which
\* comes back as a whole (StandardBackend.cpp:234).
RoundTrip ==
  /\ routcome = "success" =>
       \A p \in restored, t \in Trees :
         device[p][t] # Old /\ Entry(p).sum[t] \notin {Unlisted, Unsummed}
           => device[p][t][2] = Content(p, t, manifest.run)
  /\ \A p \in Packages \ choice.sel :
       (\A t \in Trees : device[p][t] = Old) \/ p \in LegacyPackages

\* A cancelled restore comes to its end.
CancelEndsTheRestore == (flag /\ rpc # "idle") ~> rpc = "idle"

-----------------------------------------------------------------------------
\* BackupManager.cpp: "Restored" means something was actually written back for
\* the package.  The code does not keep it when the restore is cancelled.
RestoredWasWritten == restored \subseteq wrote

=============================================================================
