---------------------------- MODULE PersonalData ----------------------------
(***************************************************************************)
(* PersonalData.cpp: the seven exports a backup takes through adb's        *)
(* `content`, `settings` and `cat` (contacts, SMS, MMS, call log, calendar,*)
(* settings, Wi-Fi) into `personal/` of a backup directory, run after run, *)
(* and what a restore writes back of them.  The stages before and after    *)
(* the exports are BackupRun's and RestoreRun's; here a run is its exports *)
(* and its manifest.                                                       *)
(*                                                                         *)
(* A row, a message or a network is a name; a query answers with a prefix  *)
(* of what the phone holds.  The row a cut falls in is taken to be lost.   *)
(***************************************************************************)
EXTENDS Integers, Sequences, FiniteSets

CONSTANTS
  Device,       \* the rows each question is answered with
  Keyed,        \* the contacts with a lookup key
  Named,        \* the contacts with anything identifying in the data table
  Undated,      \* the events without a start
  PartType,     \* "smil", "text" or "file", of every MMS part
  Stores,       \* the networks in each of the Wi-Fi stores; <<>> is no such file
  Expressible,  \* the networks wifiAddNetworkCommand has a command for
  Rooted,       \* device.isRooted()
  OldPhone,     \* sdkInt < 30
  PerRead,      \* kContactsPerVcardRead
  MaxRuns,      \* bound: backups into the directory
  MaxRestores,  \* bound: restores from it
  MaxTroubles   \* bound: failed calls, failed writes and rotten files

Kinds == <<"contacts", "sms", "mms", "call_log", "calendar", "settings", "wifi">>
Kind == {Kinds[n] : n \in 1..Len(Kinds)}
Namespaces == <<"system", "secure", "global">>
Imports == <<"contacts", "calendar">>       \* what a restore pushes for import
Parts == DOMAIN PartType

Questions == {"contacts", "sms", "messages", "parts", "call_log", "calendars", "events",
              "system", "secure", "global"}
Items(s) == {s[n] : n \in 1..Len(s)}
IsList(s) == s \in Seq(Items(s))
HasNoTwins(s) == \A m, n \in 1..Len(s) : s[m] = s[n] => m = n

\* A part of an MMS is a row of its own and belongs to a message; a Wi-Fi store
\* keeps one configuration of a network.
ASSUME PersonalAssumption ==
  /\ Questions \subseteq DOMAIN Device /\ \A x \in Questions : IsList(Device[x])
  /\ PartType \in [Parts -> {"smil", "text", "file"}]
  /\ Items(Device["parts"]) = Parts /\ HasNoTwins(Device["parts"])
  /\ Device["messages"] = <<>> => Device["parts"] = <<>>
  /\ IsList(Stores) /\ \A n \in 1..Len(Stores) : IsList(Stores[n]) /\ HasNoTwins(Stores[n])
  /\ PerRead \in Nat \ {0}
  /\ Rooted \in BOOLEAN /\ OldPhone \in BOOLEAN
  /\ MaxRuns \in Nat /\ MaxRestores \in Nat /\ MaxTroubles \in Nat

VARIABLES
  pc,           \* where the run or the restore is, "idle" between them
  flag,         \* Process::cancelRequested()
  k,            \* the step of exportPersonalData, or of restorePersonalData
  at,           \* the index of the current step's loop
  rows,         \* what the last listing was answered with
  text,         \* the items of the document being put together
  refs,         \* the attachments the document names a file for
  works,        \* attachmentsWork
  entries,      \* manifest.personalDataExports, by kind
  disk,         \* personal/<fileName>, by kind
  parts,        \* personal/mms_parts/<file>, by part
  manifest,     \* manifest.json
  outcome,      \* how the last run or restore ended
  runs,         \* backups begun
  restores,     \* restores begun
  imported,     \* what the phone's Download folder holds, by kind
  paths,        \* the kinds RestoreResult gives an import path for
  wifiRestored, wifiSkipped,                          \* RestoreResult
  joined,       \* the networks the phone has taken of this restore
  unheard,      \* history: those whose adb call was cut off or failed after that
  cut,          \* history: the kinds a tool of this run broke off for
  troubles      \* history: failed calls, failed writes and rotten files

docVars == <<at, rows, text, refs, works>>
dirVars == <<disk, parts, manifest>>
restoreVars == <<imported, paths, wifiRestored, wifiSkipped, joined, unheard>>
countVars == <<runs, restores>>
vars == <<pc, flag, k, docVars, entries, dirVars, outcome, countVars, restoreVars, cut, troubles>>

Absent == [is |-> "absent"]
Torn == [is |-> "torn"]
Rotten == [is |-> "rotten"]

\* The documents that hold the time of the export differ from run to run.
Stamped == {"sms", "mms", "call_log", "calendar", "settings"}
Document == [is |-> "document", items |-> text, refs |-> refs,
             run |-> IF Kinds[k] \in Stamped THEN runs ELSE 0]

NoEntries == [x \in {} |-> 0]
NoManifest == [run |-> 0, entries |-> NoEntries]

Init ==
  /\ pc = "idle" /\ flag = FALSE /\ k = 1
  /\ at = 1 /\ rows = <<>> /\ text = <<>> /\ refs = {} /\ works = TRUE
  /\ entries = NoEntries
  /\ disk = [x \in Kind |-> Absent] /\ parts = [x \in Parts |-> Absent]
  /\ manifest = NoManifest
  /\ outcome = "none" /\ runs = 0 /\ restores = 0
  /\ imported = [x \in {"contacts", "calendar"} |-> Absent] /\ paths = {}
  /\ wifiRestored = -1 /\ wifiSkipped = 0 /\ joined = {} /\ unheard = {}
  /\ cut = {} /\ troubles = 0

-----------------------------------------------------------------------------
\* The items of a list that are in a set, in their order.
Those(s, S) ==
  LET kept[n \in 0..Len(s)] ==
        IF n = 0 THEN <<>>
        ELSE IF s[n] \in S THEN Append(kept[n - 1], s[n]) ELSE kept[n - 1]
  IN  kept[Len(s)]

Fresh == at' = 1 /\ rows' = <<>> /\ text' = <<>> /\ refs' = {} /\ works' = TRUE

\* A step that fails by itself; after a cancel every adb call does.
Trouble == troubles < MaxTroubles /\ troubles' = troubles + 1
Fails == IF flag THEN UNCHANGED troubles ELSE Trouble

\* Refused, or failed with nothing on stdout: runDeviceTool returns false.
Refuses == Fails /\ UNCHANGED cut

\* An exit status alone is not a failure: what came before it is the answer.
\* So is what came before a Cancel that stops the tool.
Answers(whole, answer) ==
  /\ ~flag
  /\ \/ answer = whole /\ UNCHANGED <<cut, troubles>>
     \/ /\ Trouble
        /\ \E n \in 0..(Len(whole) - 1) : answer = SubSeq(whole, 1, n)
        /\ cut' = cut \cup {Kinds[k]}

\* The answers above, to choose from.
Prefixes(whole) == {SubSeq(whole, 1, n) : n \in 0..Len(whole)}

Goto(where) == pc' = where
Outside == <<entries, dirVars, outcome, countVars, restoreVars>>

\* skipped(): the kind is left out of the manifest, with a reason.
Skip == Goto("kind") /\ k' = k + 1 /\ Fresh

-----------------------------------------------------------------------------
(* exportPersonalData.                                                     *)

\* A new process or a new job: the flag is clear, nothing is recorded.  When
\* personal/ cannot be made there are no exports.
Begin ==
  /\ pc = "idle" /\ runs < MaxRuns
  /\ runs' = runs + 1 /\ flag' = FALSE /\ outcome' = "none"
  /\ entries' = NoEntries /\ cut' = {} /\ Fresh
  /\ \/ k' = 1 /\ UNCHANGED troubles
     \/ k' = Len(Kinds) + 1 /\ Trouble
  /\ Goto("kind")
  /\ paths' = {} /\ wifiRestored' = -1 /\ wifiSkipped' = 0 /\ joined' = {} /\ unheard' = {}
  /\ UNCHANGED <<dirVars, restores, imported>>

\* The first question of each kind.
FirstStep == [contacts |-> "contacts", sms |-> "rows", mms |-> "messages",
              call_log |-> "rows", calendar |-> "calendars",
              settings |-> "namespace", wifi |-> "store"]

NextKind ==
  /\ pc = "kind"
  /\ IF flag \/ k > Len(Kinds)
       THEN Goto("write") /\ UNCHANGED <<k, docVars>>
       ELSE IF Kinds[k] = "wifi" /\ ~Rooted
         THEN Skip
         ELSE Goto(FirstStep[Kinds[k]]) /\ UNCHANGED <<k, docVars>>
  /\ UNCHANGED <<flag, Outside, cut, troubles>>

-----------------------------------------------------------------------------
(* exportSms, exportCallLog: one listing.                                  *)

ListRows ==
  /\ pc = "rows"
  /\ \/ Refuses /\ Skip
     \/ \E answer \in Prefixes(Device[Kinds[k]]) :
          /\ Answers(Device[Kinds[k]], answer)
          /\ text' = answer
          /\ Goto("open") /\ UNCHANGED <<k, at, rows, refs, works>>
  /\ UNCHANGED <<flag, Outside>>

-----------------------------------------------------------------------------
(* exportContacts: the provider's own vCards, read PerRead keys at a time, *)
(* or cards built from the data table when any of these reads fails.       *)

ListContacts ==
  /\ pc = "contacts"
  /\ \/ Refuses /\ Skip
     \/ \E answer \in Prefixes(Device["contacts"]) :
          /\ Answers(Device["contacts"], answer)
          /\ rows' = answer
          /\ Goto(IF answer = <<>> THEN "open" ELSE "vcards")
          /\ UNCHANGED <<k, at, text, refs, works>>
  /\ UNCHANGED <<flag, Outside>>

Batch == Those(SubSeq(rows, at, IF at + PerRead > Len(rows) THEN Len(rows)
                                ELSE at + PerRead - 1), Keyed)

ReadVcards ==
  /\ pc = "vcards"
  /\ UNCHANGED <<k, rows, refs, works>>
  /\ IF at > Len(rows) \/ Batch = <<>>
       THEN /\ Goto(IF at > Len(rows) THEN "open" ELSE "vcards")
            /\ at' = IF at > Len(rows) THEN 1 ELSE at + PerRead
            /\ UNCHANGED <<text, cut, troubles>>
       ELSE \/ Refuses /\ Goto("data") /\ at' = 1 /\ UNCHANGED text
            \/ \E answer \in Prefixes(Batch) :
                 /\ Answers(Batch, answer)
                 /\ text' = text \o answer
                 /\ IF answer = <<>>               \* no BEGIN:VCARD
                      THEN Goto("data") /\ at' = 1
                      ELSE Goto("vcards") /\ at' = at + PerRead
  /\ UNCHANGED <<flag, Outside>>

\* The mutation that adds the fallback's cards to those already read.
BuiltOnto(before, answer) == before \o Those(answer, Named)

\* buildVcards: of what was read before only the fallback's own cards stay.
Built(before, answer) == Those(answer, Named)

BuildVcards ==
  /\ pc = "data"
  /\ \/ Refuses /\ Skip
     \/ \E answer \in Prefixes(Device["contacts"]) :
          /\ Answers(Device["contacts"], answer)
          /\ text' = Built(text, answer)
          /\ Goto("open") /\ UNCHANGED <<k, at, rows, refs, works>>
  /\ UNCHANGED <<flag, Outside>>

-----------------------------------------------------------------------------
(* exportCalendar: the calendars' names, then the events that start.       *)

ListCalendars ==
  /\ pc = "calendars"
  /\ \/ Refuses /\ Skip
     \/ \E answer \in Prefixes(Device["calendars"]) :
          /\ Answers(Device["calendars"], answer)
          /\ Goto("events") /\ UNCHANGED <<k, docVars>>
  /\ UNCHANGED <<flag, Outside>>

Dated == Items(Device["events"]) \ Undated

ListEvents ==
  /\ pc = "events"
  /\ \/ Refuses /\ Skip
     \/ \E answer \in Prefixes(Device["events"]) :
          /\ Answers(Device["events"], answer)
          /\ text' = Those(answer, Dated)
          /\ Goto("open") /\ UNCHANGED <<k, at, rows, refs, works>>
  /\ UNCHANGED <<flag, Outside>>

-----------------------------------------------------------------------------
(* exportSettings: the namespaces that answer; without any, none.          *)

ListSettings ==
  /\ pc = "namespace"
  /\ UNCHANGED <<flag, Outside>>
  /\ IF at > Len(Namespaces)
       THEN /\ UNCHANGED <<cut, troubles>>
            /\ IF text = <<>> THEN Skip ELSE Goto("open") /\ UNCHANGED <<k, docVars>>
       ELSE /\ at' = at + 1
            /\ UNCHANGED <<pc, k, rows, refs, works>>
            /\ \/ Refuses /\ UNCHANGED text
               \/ \E answer \in Prefixes(Device[Namespaces[at]]) :
                    /\ Answers(Device[Namespaces[at]], answer)
                    /\ text' = text \o answer

-----------------------------------------------------------------------------
(* exportMms: the messages, their parts, and every attachment into a file  *)
(* of its own.                                                             *)

ListMessages ==
  /\ pc = "messages"
  /\ \/ Refuses /\ Skip
     \/ \E answer \in Prefixes(Device["messages"]) :
          /\ Answers(Device["messages"], answer)
          /\ text' = answer
          /\ Goto(IF answer = <<>> THEN "open" ELSE "parts")
          /\ UNCHANGED <<k, at, rows, refs, works>>
  /\ UNCHANGED <<flag, Outside>>

\* The two listings behind each conversation's participants follow; whether
\* they answer changes nothing but who the messages were with.
ListParts ==
  /\ pc = "parts"
  /\ \/ Refuses /\ rows' = <<>>
     \/ \E answer \in Prefixes(Device["parts"]) :
          Answers(Device["parts"], answer) /\ rows' = answer
  /\ Goto("part")
  /\ UNCHANGED <<k, at, text, refs, works, flag, Outside>>

Part == rows[at]

\* Nothing came: the file is removed, and when none has come before, no other
\* attachment is tried.
NoAttachment ==
  /\ parts' = [parts EXCEPT ![Part] = Absent]
  /\ works' = (works /\ refs # {})
  /\ at' = at + 1
  /\ Goto("part")
  /\ UNCHANGED refs

\* execOutToFile truncates its file first, unless a cancel is pending.
NextPart ==
  /\ pc = "part"
  /\ UNCHANGED <<k, rows, text, flag, entries, disk, manifest, outcome, countVars, restoreVars,
                 cut, troubles>>
  /\ IF at > Len(rows)
       THEN Goto("open") /\ UNCHANGED <<at, refs, works, parts>>
       ELSE IF PartType[Part] # "file" \/ ~works
         THEN at' = at + 1 /\ UNCHANGED <<pc, refs, works, parts>>
         ELSE IF flag
           THEN NoAttachment
           ELSE /\ parts' = [parts EXCEPT ![Part] = Torn]
                /\ Goto("attachment") /\ UNCHANGED <<at, refs, works>>

Attached ==
  /\ parts' = [parts EXCEPT ![Part] = [is |-> "whole"]]
  /\ refs' = refs \cup {Part}
  /\ at' = at + 1
  /\ Goto("part")
  /\ UNCHANGED <<works, troubles>>

\* The mutation that names the file of an attachment that did not come.
EndAttachmentNaming ==
  /\ pc = "attachment"
  /\ Attached \/ (NoAttachment /\ Fails)
     \/ /\ Fails /\ parts' = [parts EXCEPT ![Part] = Absent]
        /\ refs' = refs \cup {Part} /\ at' = at + 1 /\ Goto("part") /\ UNCHANGED works
  /\ UNCHANGED <<k, rows, text, flag, entries, disk, manifest, outcome, countVars, restoreVars,
                 cut>>

EndAttachment ==
  /\ pc = "attachment"
  /\ Attached \/ (NoAttachment /\ Fails)
  /\ UNCHANGED <<k, rows, text, flag, entries, disk, manifest, outcome, countVars, restoreVars,
                 cut>>

-----------------------------------------------------------------------------
(* exportWifi: the newest store that can be read.                          *)

ReadStore ==
  /\ pc = "store"
  /\ UNCHANGED <<flag, Outside, cut>>
  /\ IF at > Len(Stores)
       THEN Skip /\ UNCHANGED troubles
       ELSE \/ /\ ~flag /\ Stores[at] # <<>>
               /\ text' = Stores[at]
               /\ Goto("open") /\ UNCHANGED <<k, at, rows, refs, works, troubles>>
            \/ /\ at' = at + 1 /\ UNCHANGED <<pc, k, rows, text, refs, works>>
               /\ IF Stores[at] = <<>> THEN UNCHANGED troubles ELSE Fails

-----------------------------------------------------------------------------
(* recordExport: the file, and only then its entry.  writeTextFile asks    *)
(* the stream for errors before its destructor flushes it: a write fails   *)
(* and says so, fails in that flush and leaves a document cut short, which *)
(* is recorded all the same, or is whole.                                  *)

OpenDocument ==
  /\ pc = "open"
  /\ \/ Trouble /\ Skip /\ UNCHANGED disk
     \/ /\ disk' = [disk EXCEPT ![Kinds[k]] = Torn]
        /\ Goto("fill") /\ UNCHANGED <<k, docVars, troubles>>
  /\ UNCHANGED <<flag, entries, parts, manifest, outcome, countVars, restoreVars, cut>>

CutShort == [is |-> "short", of |-> Document]

\* The sum is taken of what is on disk; checksumOrEmpty may give up on it.
Entry(written, summed) == [count |-> Len(text), content |-> written, summed |-> summed]

FillDocument ==
  /\ pc = "fill"
  /\ \/ Trouble /\ UNCHANGED <<disk, entries>>
     \/ \E written \in {Document, CutShort}, summed \in BOOLEAN :
          /\ disk' = [disk EXCEPT ![Kinds[k]] = written]
          /\ entries' = [x \in DOMAIN entries \cup {Kinds[k]} |->
                           IF x = Kinds[k] THEN Entry(written, summed) ELSE entries[x]]
          /\ IF written = Document /\ summed THEN UNCHANGED troubles ELSE Trouble
  /\ Skip
  /\ UNCHANGED <<flag, parts, manifest, outcome, countVars, restoreVars, cut>>

-----------------------------------------------------------------------------
(* The end of runBackup.                                                   *)

\* What the process kept in memory is gone.
Forget ==
  /\ Goto("idle") /\ flag' = FALSE /\ k' = 1 /\ Fresh /\ entries' = NoEntries

\* writeTextFile again: it truncates manifest.json, or cannot open it.
StartManifest ==
  /\ pc = "write"
  /\ \/ Trouble /\ Forget /\ outcome' = "failed" /\ UNCHANGED manifest
     \/ /\ manifest' = NoManifest
        /\ Goto("writing") /\ UNCHANGED <<flag, k, docVars, entries, outcome, troubles>>
  /\ UNCHANGED <<disk, parts, countVars, restoreVars, cut>>

EndManifest ==
  /\ pc = "writing"
  /\ Forget
  /\ \/ Trouble /\ outcome' = "failed" /\ UNCHANGED manifest
     \/ /\ \/ manifest' = [run |-> runs, entries |-> entries] /\ UNCHANGED troubles
           \/ UNCHANGED manifest /\ Trouble
        /\ outcome' = IF flag THEN "cancelled" ELSE "success"
  /\ UNCHANGED <<disk, parts, countVars, restoreVars, cut>>

-----------------------------------------------------------------------------
(* restorePersonalData.                                                    *)

Listed(x) == x \in DOMAIN manifest.entries
Export(x) == manifest.entries[x]

\* The mutation that asks only for the file.
Exists(x) == disk[x] # Absent

\* The file is there and integrity::checksumMatches, which accepts anything
\* when no sum is recorded.
Matches(x) == disk[x] # Absent /\ (Export(x).summed => disk[x] = Export(x).content)

\* Without a manifest that parses there is no restore, without an entry in it
\* no personal data step.
BeginRestore ==
  /\ pc = "idle" /\ restores < MaxRestores
  /\ DOMAIN manifest.entries # {}
  /\ restores' = restores + 1 /\ flag' = FALSE /\ outcome' = "none"
  /\ paths' = {} /\ wifiRestored' = -1 /\ wifiSkipped' = 0 /\ joined' = {} /\ unheard' = {}
  /\ Goto("push") /\ UNCHANGED <<k, docVars, entries, dirVars, runs, imported, cut, troubles>>

\* adb push may leave a part of the file behind when it fails.
PushForImport ==
  /\ pc = "push" /\ k <= Len(Imports)
  /\ k' = k + 1
  /\ IF Listed(Imports[k]) /\ Export(Imports[k]).count > 0 /\ Matches(Imports[k])
       THEN \/ /\ ~flag
               /\ imported' = [imported EXCEPT ![Imports[k]] = disk[Imports[k]]]
               /\ paths' = paths \cup {Imports[k]}
               /\ UNCHANGED troubles
            \/ /\ Fails
               /\ imported' \in {imported} \cup
                    (IF flag THEN {} ELSE {[imported EXCEPT ![Imports[k]] = Torn]})
               /\ UNCHANGED paths
       ELSE UNCHANGED <<imported, paths, troubles>>
  /\ UNCHANGED <<pc, flag, docVars, entries, dirVars, outcome, countVars, wifiRestored,
                 wifiSkipped, joined, unheard, cut>>

\* A list that does not parse is re-added as far as it was read: not at all.
StartWifi ==
  /\ pc = "push" /\ k > Len(Imports)
  /\ IF Listed("wifi") /\ Export("wifi").count > 0 /\ ~OldPhone
          /\ (Export("wifi").summed => Matches("wifi"))
       THEN /\ wifiRestored' = 0
            /\ rows' = IF disk["wifi"].is = "document" THEN disk["wifi"].items ELSE <<>>
       ELSE UNCHANGED <<wifiRestored, rows>>
  /\ Goto("network") /\ at' = 1
  /\ UNCHANGED <<flag, k, text, refs, works, entries, dirVars, outcome, countVars, imported,
                 paths, wifiSkipped, joined, unheard, cut, troubles>>

Network == rows[at]

Join ==
  /\ ~flag /\ Network \in Expressible
  /\ joined' = joined \cup {Network}
  /\ wifiRestored' = wifiRestored + 1
  /\ UNCHANGED <<flag, wifiSkipped, unheard, troubles>>

Miss ==
  /\ IF Network \in Expressible THEN Fails ELSE UNCHANGED troubles
  /\ wifiSkipped' = wifiSkipped + 1
  /\ UNCHANGED <<flag, wifiRestored, joined, unheard>>

\* The phone has taken the network when adb fails, or a Cancel stops it.
Lose ==
  /\ ~flag /\ Network \in Expressible
  /\ joined' = joined \cup {Network}
  /\ unheard' = unheard \cup {Network}
  /\ wifiSkipped' = wifiSkipped + 1
  /\ \/ Trouble /\ UNCHANGED flag
     \/ flag' = TRUE /\ UNCHANGED troubles
  /\ UNCHANGED wifiRestored

\* The mutation that counts every network it has a command for.
AddNetworkCounting ==
  /\ pc = "network" /\ at <= Len(rows)
  /\ at' = at + 1
  /\ \/ Join
     \/ /\ Network \in Expressible /\ Fails
        /\ wifiRestored' = wifiRestored + 1
        /\ UNCHANGED <<flag, wifiSkipped, joined, unheard>>
     \/ Network \notin Expressible /\ Miss
  /\ UNCHANGED <<pc, k, rows, text, refs, works, entries, dirVars, outcome, countVars,
                 imported, paths, cut>>

AddNetwork ==
  /\ pc = "network" /\ at <= Len(rows)
  /\ at' = at + 1
  /\ Join \/ Miss \/ Lose
  /\ UNCHANGED <<pc, k, rows, text, refs, works, entries, dirVars, outcome, countVars,
                 imported, paths, cut>>

EndRestore ==
  /\ pc = "network" /\ at > Len(rows)
  /\ Forget
  /\ outcome' = "restored"
  /\ UNCHANGED <<dirVars, countVars, restoreVars, cut, troubles>>

-----------------------------------------------------------------------------
Cancel ==
  /\ pc # "idle" /\ ~flag
  /\ flag' = TRUE
  /\ UNCHANGED <<pc, k, docVars, Outside, cut, troubles>>

\* What is on disk, and on the phone, stays.
Kill ==
  /\ pc # "idle"
  /\ Forget /\ outcome' = "killed"
  /\ UNCHANGED <<dirVars, countVars, restoreVars, cut, troubles>>

\* A file of the backup that is damaged, or lost, while nothing runs.
Rot ==
  /\ pc = "idle" /\ Trouble
  /\ \E x \in Kind, now \in {Rotten, Absent} :
       disk[x] # Absent /\ disk' = [disk EXCEPT ![x] = now]
  /\ outcome' = "rotted"
  /\ UNCHANGED <<pc, flag, k, docVars, entries, parts, manifest, countVars, restoreVars, cut>>

ExportStep == NextKind \/ ListRows \/ ListContacts \/ ReadVcards \/ BuildVcards
              \/ ListCalendars \/ ListEvents \/ ListSettings \/ ListMessages \/ ListParts
              \/ NextPart \/ EndAttachment \/ ReadStore \/ OpenDocument \/ FillDocument
              \/ StartManifest \/ EndManifest
RestoreStep == PushForImport \/ StartWifi \/ AddNetwork \/ EndRestore

Next == Begin \/ ExportStep \/ BeginRestore \/ RestoreStep \/ Cancel \/ Kill \/ Rot

Spec == Init /\ [][Next]_vars

-----------------------------------------------------------------------------
\* The type of every variable.
TypeOK ==
  /\ pc \in {"idle", "kind", "write", "writing", "push", "network", "open", "fill", "vcards",
             "data", "events", "parts", "part", "attachment"}
        \cup {FirstStep[x] : x \in Kind}
  /\ flag \in BOOLEAN /\ k \in 1..(Len(Kinds) + 1) /\ at \in Nat \ {0}
  /\ refs \subseteq Parts /\ works \in BOOLEAN
  /\ DOMAIN entries \subseteq Kind
  /\ DOMAIN manifest.entries \subseteq Kind /\ manifest.run \in 0..MaxRuns
  /\ \A x \in Kind : disk[x].is \in {"absent", "torn", "rotten", "short", "document"}
  /\ \A x \in Parts : parts[x].is \in {"absent", "torn", "whole"}
  /\ outcome \in {"none", "success", "cancelled", "failed", "killed", "rotted", "restored"}
  /\ runs \in 0..MaxRuns /\ restores \in 0..MaxRestores /\ troubles \in 0..MaxTroubles
  /\ paths \subseteq DOMAIN imported
  /\ wifiRestored >= -1 /\ wifiSkipped \in Nat /\ joined \subseteq Expressible
  /\ unheard \subseteq joined
  /\ cut \subseteq Kind

\* The run that has just ended, its directory as it left it.
Finished == pc = "idle" /\ outcome \in {"success", "cancelled"}

\* What an export of a kind may hold: everything its source has, once and in
\* order.  The contacts have two sources, the Wi-Fi networks one per Android
\* generation, and the settings are what the namespaces that answered hold.
Wholes(x) ==
  CASE x = "contacts" -> {Those(Device["contacts"], Keyed), Those(Device["contacts"], Named)}
    [] x = "mms" -> {Device["messages"]}
    [] x = "calendar" -> {Those(Device["events"], Dated)}
    [] x = "settings" -> {(IF s[1] THEN Device["system"] ELSE <<>>)
                            \o (IF s[2] THEN Device["secure"] ELSE <<>>)
                            \o (IF s[3] THEN Device["global"] ELSE <<>>) :
                          s \in BOOLEAN \X BOOLEAN \X BOOLEAN}
    [] x = "wifi" -> {Stores[n] : n \in 1..Len(Stores)}
    [] OTHER -> {Device[x]}

\* Every kind the manifest of a run lists is in its file as it was summed and,
\* unless the file's last flush failed (RecordedIsWritten), is counted as many
\* times as the file has it; and, unless a tool broke off in the middle of its
\* answer (FailedIsSkipped), it is there whole and without a repetition, a
\* batched vCard read that fails half way and falls back to the data table
\* included: whatever was refused before, and whatever earlier runs left in
\* personal/.
ListedIsWhole ==
  Finished => \A x \in DOMAIN manifest.entries :
    /\ disk[x] = Export(x).content
    /\ disk[x].is # "short" =>
         /\ Export(x).count = Len(disk[x].items)
         /\ x \notin cut => disk[x].items \in Wholes(x)

\* Every attachment a whole mms.json names a file for is in that file, whole,
\* when the run that wrote it ends; and a run nothing went wrong in names them
\* all.
AttachmentsResolve ==
  Finished /\ Listed("mms") /\ disk["mms"].is # "short" =>
    /\ \A x \in disk["mms"].refs : parts[x] = [is |-> "whole"]
    /\ outcome = "success" /\ troubles = 0
         => disk["mms"].refs = {x \in Parts : PartType[x] = "file"}

\* What a restore says it copied for import is, on the phone, the export as
\* the manifest's run left and summed it: never the file a killed rerun began
\* or finished, never one damaged since.
ImportIsTheRecorded ==
  \A x \in paths : Listed(x) /\ Export(x).summed => imported[x] = Export(x).content

\* A restore that ran to its end, cancelled or not, counts as re-added exactly
\* the networks the phone took and answered for, and as skipped every other
\* one the manifest's run exported; where no checksum tells that the list is
\* the one exported, every other one of some list, and of a list that was cut
\* short none.
WifiAddsUp ==
  outcome = "restored" /\ wifiRestored >= 0 =>
    /\ wifiRestored = Cardinality(joined \ unheard)
    /\ Export("wifi").summed /\ Export("wifi").content.is # "short"
         => wifiRestored + wifiSkipped = Export("wifi").count

\* "Returns false, with the reason in `*why`, if it was refused or failed"
\* (PersonalData.cpp:32-34): an export a tool failed in the middle of is
\* skipped, and does not pass for the whole in a successful run.  It does: the
\* exit status is looked at only when there is no output, so a listing that
\* broke off is a shorter listing.
FailedIsSkipped ==
  Finished /\ outcome = "success" => \A x \in DOMAIN manifest.entries : x \notin cut

\* "Writes `content` to `personal/<fileName>` and records it in the manifest"
\* (PersonalData.cpp:103): what is recorded of an export is what was written.
\* It is not when the write fails in the destructor's flush.
RecordedIsWritten ==
  Finished => \A x \in DOMAIN manifest.entries : disk[x].is = "document"

\* "Networks that could not be re-added" (PersonalData.h:92): what a restore
\* counts as skipped is what the phone does not have.  A network whose reply
\* was lost is counted there too.
SkippedIsMissing ==
  outcome = "restored" /\ wifiRestored >= 0
      /\ Export("wifi").summed /\ Export("wifi").content.is # "short"
    => wifiSkipped = Export("wifi").count - Cardinality(joined)
=============================================================================
