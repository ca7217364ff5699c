------------------------------ MODULE Explorer ------------------------------
(***************************************************************************)
(* The GUI's HTTP server and backup explorer (src/src/gui/HttpServer.cpp,  *)
(* handleBackupFile in src/src/gui/GuiServer.cpp,                          *)
(* src/src/backup/BackupExplorer.cpp): request threads that open one       *)
(* archive of a backup and serve slices of its member, while a backup run  *)
(* writes the archive anew and while the server shuts down.                *)
(*                                                                         *)
(* What a file holds is told by how often the archive had been written,    *)
(* whether all of the backup's data was there, and the second of that      *)
(* write: several writes may share one, as a truncation and the end of a   *)
(* short capture do.  The clock does not go back.                          *)
(***************************************************************************)
EXTENDS Integers, FiniteSets

CONSTANTS
  Requests,     \* the connections served at a time
  Nobody,       \* no request
  MaxAccepts,   \* bound: connections in all
  MaxWrites,    \* bound: times a backup truncates the archive or adds to it
  Size,         \* the archive's size after each of them
  Lengths,      \* the members' and files' bytes
  Ranges        \* the Range headers clients send

Blank == -1     \* a number left out of a Range header

ASSUME ExplorerAssumption ==
  /\ Nobody \notin Requests /\ IsFiniteSet(Requests)
  /\ MaxAccepts \in Nat /\ MaxWrites \in Nat /\ Lengths \subseteq Nat
  /\ Ranges \subseteq [first : Nat \cup {Blank}, last : Nat \cup {Blank}]

VARIABLES
  gz,         \* the archive is gzipped
  file,       \* the archive in the backup
  copies,     \* the decompressed copies in the cache directory
  cache,      \* archives_, by size and mtime
  pc,         \* where each request is
  key,        \* the key it computed
  copy,       \* the copy it makes
  readAt,     \* what its gzip found in the archive when it began
  arch,       \* the Archive it got
  range,      \* the Range header it has
  answer,     \* status and slice of its Response, of a file that long
  sent,       \* what the bytes it sent were taken from
  since,      \* history: what the archive has been since it came in
  main,       \* where serveForever and GuiServer::run are
  accepted,   \* connections so far
  inline,     \* the request the accept loop serves itself
  stopping,   \* stopping_
  listening,  \* listenFd_ is open
  destroyed   \* ~BackupExplorer has run

diskVars == <<gz, file, copies, cache, destroyed>>
requestVars == <<pc, key, copy, readAt, arch, range, answer, sent, since>>
serverVars == <<main, accepted, inline, stopping, listening>>
vars == <<diskVars, requestVars, serverVars>>

Seconds == 0..MaxWrites
Sizes == {Size[n] : n \in 0..MaxWrites}
Contents == [ver : 0..MaxWrites, whole : BOOLEAN, mtime : Seconds]
Keys == [size : Sizes, mtime : Seconds]
NoKey == [size |-> Size[0], mtime |-> Blank]
Missing == [ver |-> Blank, whole |-> FALSE, mtime |-> Blank]
NoHeader == [first |-> Blank, last |-> Blank]
NoArchive == [tar |-> Blank, of |-> Missing]
NoAnswer == [status |-> 0, from |-> 0, length |-> 0, total |-> 0]

\* Enough for every key and every request to have one.
CopyNames == 1..(Cardinality(Keys) + Cardinality(Requests))
OnDisk == 0        \* as an Archive's tarFile: the archive itself

Init ==
  /\ gz \in BOOLEAN
  /\ file = [ver |-> 0, whole |-> TRUE, mtime |-> 0]
  /\ copies = [n \in CopyNames |-> Missing]
  /\ cache = [k \in Keys |-> NoArchive]
  /\ pc = [r \in Requests |-> "idle"]
  /\ key = [r \in Requests |-> NoKey]
  /\ copy = [r \in Requests |-> OnDisk]
  /\ readAt = [r \in Requests |-> Missing]
  /\ arch = [r \in Requests |-> NoArchive]
  /\ range = [r \in Requests |-> NoHeader]
  /\ answer = [r \in Requests |-> NoAnswer]
  /\ sent = [r \in Requests |-> Missing]
  /\ since = [r \in Requests |-> {}]
  /\ main = "top" /\ accepted = 0 /\ inline = Nobody /\ stopping = FALSE /\ listening = TRUE
  /\ destroyed = FALSE

Up == main # "exited"
Active == {r \in Requests : pc[r] # "idle"}
Goto(r, place) == pc' = [pc EXCEPT ![r] = place]
At(r, place) == Up /\ pc[r] = place

-----------------------------------------------------------------------------
(* The accept loop, stop() and the end of GuiServer::run.                  *)

\* while (!stopping_), and the listenFd_ it loads.
Top ==
  /\ main = "top" /\ inline = Nobody
  /\ main' = IF stopping \/ ~listening THEN "out" ELSE "accept"
  /\ UNCHANGED <<diskVars, requestVars, accepted, inline, stopping, listening>>

\* A connection gets a thread, or is served here if there are no more of them.
Accept(r) ==
  /\ main = "accept" /\ listening
  /\ pc[r] = "idle" /\ accepted < MaxAccepts
  /\ Goto(r, "reading")
  /\ accepted' = accepted + 1
  /\ main' = "top" /\ inline' \in {Nobody, r}
  /\ since' = [since EXCEPT ![r] = {file}]
  /\ UNCHANGED <<diskVars, key, copy, readAt, arch, range, answer, sent, stopping, listening>>

AcceptFails ==
  /\ main = "accept"
  /\ main' = IF stopping THEN "out" ELSE "top"
  /\ UNCHANGED <<diskVars, requestVars, accepted, inline, stopping, listening>>

\* stop(), by the shutdown request's thread or the interrupt handler.
Stop ==
  /\ Up /\ ~stopping
  /\ stopping' = TRUE
  /\ UNCHANGED <<diskVars, requestVars, main, accepted, inline, listening>>

CloseListener ==
  /\ Up /\ stopping /\ listening
  /\ listening' = FALSE
  /\ UNCHANGED <<diskVars, requestVars, main, accepted, inline, stopping>>

\* ~BackupExplorer, when the last reference to the app goes, removes the cache.
RemoveCache ==
  /\ destroyed' = TRUE
  /\ copies' = [n \in CopyNames |-> Missing]
  /\ cache' = [k \in Keys |-> NoArchive]

\* The mutation: the app belongs to GuiServer::run alone.
RunOwnsTheApp(others) == TRUE
LastReference(others) == others = {}

\* run() lets go of the app, then returns, which ends every other thread.
MainReleases ==
  /\ main = "out"
  /\ main' = "released"
  /\ IF LastReference(Active) THEN RemoveCache ELSE UNCHANGED <<copies, cache, destroyed>>
  /\ UNCHANGED <<gz, file, requestVars, accepted, inline, stopping, listening>>

MainReturns ==
  /\ main = "released"
  /\ main' = "exited"
  /\ UNCHANGED <<diskVars, requestVars, accepted, inline, stopping, listening>>

-----------------------------------------------------------------------------
(* parseByteRange and applyRange.                                          *)

None == [kind |-> "none", start |-> 0, length |-> 0]
Unsatisfiable == [kind |-> "unsatisfiable", start |-> 0, length |-> 0]
Satisfiable(from, to) == [kind |-> "satisfiable", start |-> from, length |-> to - from + 1]
Least(a, b) == IF a < b THEN a ELSE b

\* The mutation: the last N bytes begin one too early.
ParseSuffixWide(h, total) ==
  IF h.first = Blank /\ h.last = Blank THEN None
  ELSE IF h.first = Blank
    THEN IF h.last = 0 \/ total = 0 THEN Unsatisfiable
         ELSE Satisfiable(IF h.last >= total THEN 0 ELSE total - h.last - 1, total - 1)
  ELSE IF h.last # Blank /\ h.last < h.first THEN None
  ELSE IF h.first >= total THEN Unsatisfiable
  ELSE Satisfiable(h.first, IF h.last = Blank THEN total - 1 ELSE Least(h.last, total - 1))

parseByteRange(h, total) ==
  IF h.first = Blank /\ h.last = Blank THEN None
  ELSE IF h.first = Blank
    THEN IF h.last = 0 \/ total = 0 THEN Unsatisfiable
         ELSE Satisfiable(IF h.last >= total THEN 0 ELSE total - h.last, total - 1)
  ELSE IF h.last # Blank /\ h.last < h.first THEN None
  ELSE IF h.first >= total THEN Unsatisfiable
  ELSE Satisfiable(h.first, IF h.last = Blank THEN total - 1 ELSE Least(h.last, total - 1))

applyRange(h, total) ==
  LET parsed == parseByteRange(h, total)
      reply(status, from, length) ==
        [status |-> status, from |-> from, length |-> length, total |-> total]
  IN CASE parsed.kind = "none" -> reply(200, 0, total)
       [] parsed.kind = "satisfiable" -> reply(206, parsed.start, parsed.length)
       [] OTHER -> reply(416, 0, 0)

-----------------------------------------------------------------------------
(* A request: read it, open the archive, answer.                           *)

\* readRequest succeeds, and the request is for an archive's list or member.
ReadRequest(r) ==
  /\ At(r, "reading")
  /\ Goto(r, "size")
  /\ UNCHANGED <<diskVars, key, copy, readAt, arch, range, answer, sent, since, serverVars>>

\* A Response of a file's `total` bytes, narrowed to the request's Range.
Answer(r, total) ==
  \E h \in Ranges : /\ range' = [range EXCEPT ![r] = h]
                    /\ answer' = [answer EXCEPT ![r] = applyRange(h, total)]

\* It is for a file of the backup, the archive itself say: its size is taken
\* now, what it holds when the bytes are sent.
OpenFile(r) ==
  /\ At(r, "reading")
  /\ Goto(r, "send")
  /\ arch' = [arch EXCEPT ![r] = [tar |-> OnDisk, of |-> file]]
  /\ \E total \in Lengths : Answer(r, total)
  /\ UNCHANGED <<diskVars, key, copy, readAt, sent, since, serverVars>>

\* Malformed or too long, hung up, or nothing read within the socket timeout.
ReadFails(r) ==
  /\ At(r, "reading")
  /\ Goto(r, "close")
  /\ UNCHANGED <<diskVars, key, copy, readAt, arch, range, answer, sent, since, serverVars>>

\* openArchive: file_size(), then mtimeOf(), then archives_ under the mutex.
StatSize(r) ==
  /\ At(r, "size")
  /\ Goto(r, "mtime")
  /\ key' = [key EXCEPT ![r].size = Size[file.ver]]
  /\ UNCHANGED <<diskVars, copy, readAt, arch, range, answer, sent, since, serverVars>>

\* The mutation: the key is the path and the size.
StatNoMtime(r) ==
  /\ At(r, "mtime")
  /\ Goto(r, "lookup")
  /\ key' = [key EXCEPT ![r].mtime = 0]
  /\ UNCHANGED <<diskVars, copy, readAt, arch, range, answer, sent, since, serverVars>>

StatMtime(r) ==
  /\ At(r, "mtime")
  /\ Goto(r, "lookup")
  /\ key' = [key EXCEPT ![r].mtime = file.mtime]
  /\ UNCHANGED <<diskVars, copy, readAt, arch, range, answer, sent, since, serverVars>>

Lookup(r) ==
  /\ At(r, "lookup")
  /\ arch' = [arch EXCEPT ![r] = cache[key[r]]]
  /\ IF arch'[r] # NoArchive
       THEN Goto(r, "respond") /\ key' = [key EXCEPT ![r] = NoKey]
       ELSE Goto(r, "magic") /\ UNCHANGED key
  /\ UNCHANGED <<diskVars, copy, readAt, range, answer, sent, since, serverVars>>

Using(n) == \/ \E r \in Requests : copy[r] = n \/ arch[r].tar = n
            \/ \E k \in Keys : cache[k].tar = n

\* isGzip reads the first two bytes.  A gzipped archive gets a copy:
\* decompressed_++ under the mutex, a name no other copy has.
NameCopy(r) ==
  /\ At(r, "magic") /\ gz
  /\ Goto(r, "unzip")
  /\ copy' = [copy EXCEPT ![r] = CHOOSE n \in CopyNames : ~Using(n)]
  /\ UNCHANGED <<diskVars, key, readAt, arch, range, answer, sent, since, serverVars>>

\* One that was just truncated has no such bytes and is taken for a plain tar.
TakeAsTar(r) ==
  /\ At(r, "magic") /\ (gz => ~file.whole)
  /\ Goto(r, "index")
  /\ UNCHANGED <<diskVars, key, copy, readAt, arch, range, answer, sent, since, serverVars>>

\* gzip -dc: it truncates the copy and begins to read,
UnzipBegins(r) ==
  /\ At(r, "unzip")
  /\ Goto(r, "unzipping")
  /\ copies' = [copies EXCEPT ![copy[r]] = [file EXCEPT !.whole = FALSE]]
  /\ readAt' = [readAt EXCEPT ![r] = file]
  /\ UNCHANGED <<gz, file, cache, destroyed, key, copy, arch, range, answer, sent, since, serverVars>>

\* The mutation: what gzip returned is not looked at.
UnzipEndsAnyhow(r) ==
  /\ At(r, "unzipping")
  /\ Goto(r, "index")
  /\ copies' = [copies EXCEPT ![copy[r]] =
                  IF readAt[r].whole /\ file = readAt[r] THEN file ELSE @]
  /\ readAt' = [readAt EXCEPT ![r] = Missing]
  /\ UNCHANGED <<gz, file, cache, destroyed, key, copy, arch, range, answer, sent, since,
                 serverVars>>

\* and, if the archive is whole and still the same, ends well;
UnzipEnds(r) ==
  /\ At(r, "unzipping")
  /\ readAt[r].whole /\ file = readAt[r]
  /\ Goto(r, "index")
  /\ copies' = [copies EXCEPT ![copy[r]] = file]
  /\ readAt' = [readAt EXCEPT ![r] = Missing]
  /\ UNCHANGED <<gz, file, cache, destroyed, key, copy, arch, range, answer, sent, since,
                 serverVars>>

\* or it fails, is killed by a cancel or was never run: 400, without the copy.
UnzipFails(r) ==
  /\ At(r, "unzipping")
  /\ Goto(r, "close")
  /\ copies' = [copies EXCEPT ![copy[r]] = Missing]
  /\ UNCHANGED <<gz, file, cache, destroyed, key, copy, readAt, arch, range, answer, sent, since,
                 serverVars>>

Holds(tar) == IF tar = OnDisk THEN file ELSE copies[tar]

Tarred(tar) == tar = OnDisk => ~gz

\* tar::index: it takes an archive that is cut short for what there is of it
\* (of a gzipped one that is nothing),
Index(r) ==
  /\ At(r, "index") /\ (Tarred(copy[r]) \/ ~file.whole)
  /\ Goto(r, "insert")
  /\ arch' = [arch EXCEPT ![r] = [tar |-> copy[r], of |-> Holds(copy[r])]]
  /\ copy' = [copy EXCEPT ![r] = OnDisk]
  /\ UNCHANGED <<diskVars, key, readAt, range, answer, sent, since, serverVars>>

\* or throws: cut short inside a header, or no tar. 400.
IndexFails(r) ==
  /\ At(r, "index")
  /\ Goto(r, "close")
  /\ UNCHANGED <<diskVars, key, copy, readAt, arch, range, answer, sent, since, serverVars>>

Insert(r) ==
  /\ At(r, "insert")
  /\ Goto(r, "respond")
  /\ cache' = [cache EXCEPT ![key[r]] = arch[r]]
  /\ key' = [key EXCEPT ![r] = NoKey]
  /\ UNCHANGED <<gz, file, copies, destroyed, copy, readAt, arch, range, answer, sent, since,
                 serverVars>>

\* handleBackupFile finds the member; or it is not there (404), or the list is
\* all that handleBackupArchive was asked for.
Respond(r) ==
  /\ At(r, "respond")
  /\ \/ /\ Tarred(arch[r].tar)
        /\ Goto(r, "send")
        /\ \E total \in Lengths : Answer(r, total)
     \/ /\ Goto(r, "close")
        /\ UNCHANGED <<range, answer>>
  /\ UNCHANGED <<diskVars, key, copy, readAt, arch, sent, since, serverVars>>

\* sendResponse opens tarFile by its name, now; or the client has gone away.
Send(r) ==
  /\ At(r, "send")
  /\ Goto(r, "close")
  /\ \/ sent' = [sent EXCEPT ![r] = IF answer[r].status = 416 THEN @ ELSE Holds(arch[r].tar)]
     \/ UNCHANGED sent
  /\ range' = [range EXCEPT ![r] = NoHeader] /\ answer' = [answer EXCEPT ![r] = NoAnswer]
  /\ UNCHANGED <<diskVars, key, copy, readAt, arch, since, serverVars>>

\* close(), and the thread's end: its handler holds a reference to the app.
Close(r) ==
  /\ At(r, "close")
  /\ Goto(r, "idle")
  /\ inline' = IF inline = r THEN Nobody ELSE inline
  /\ key' = [key EXCEPT ![r] = NoKey] /\ copy' = [copy EXCEPT ![r] = OnDisk]
  /\ readAt' = [readAt EXCEPT ![r] = Missing] /\ arch' = [arch EXCEPT ![r] = NoArchive]
  /\ sent' = [sent EXCEPT ![r] = Missing]
  /\ since' = [since EXCEPT ![r] = {}]
  /\ IF main = "released" /\ LastReference(Active \ {r})
       THEN RemoveCache
       ELSE UNCHANGED <<copies, cache, destroyed>>
  /\ UNCHANGED <<gz, file, range, answer, main, accepted, stopping, listening>>

-----------------------------------------------------------------------------
(* A backup into the same directory: runToFile truncates, then fills; a    *)
(* second one may begin where a killed one left off.                       *)

Becomes(f) ==
  /\ file' = f
  /\ since' = [r \in Requests |-> IF r \in Active THEN since[r] \cup {f} ELSE {}]
  /\ UNCHANGED <<gz, copies, cache, destroyed, pc, key, copy, readAt, arch, range, answer, sent,
                 serverVars>>

Write(done) ==
  /\ Up /\ file.ver < MaxWrites
  /\ \E second \in {file.mtime, file.mtime + 1} :
       Becomes([ver |-> file.ver + 1, whole |-> done, mtime |-> second])

Truncate == Write(FALSE)
Fill == ~file.whole /\ \E done \in BOOLEAN : Write(done)

Serve(r) ==
  \/ StatSize(r) \/ StatMtime(r) \/ Lookup(r) \/ NameCopy(r) \/ TakeAsTar(r) \/ UnzipBegins(r)
  \/ UnzipEnds(r) \/ UnzipFails(r) \/ Index(r) \/ IndexFails(r) \/ Insert(r) \/ Respond(r)
  \/ Send(r) \/ Close(r)

Next ==
  \/ Top \/ AcceptFails \/ Stop \/ CloseListener \/ MainReleases \/ MainReturns
  \/ \E r \in Requests : Accept(r) \/ ReadRequest(r) \/ OpenFile(r) \/ ReadFails(r) \/ Serve(r)
  \/ Truncate \/ Fill

Spec == Init /\ [][Next]_vars

-----------------------------------------------------------------------------
\* The type of every variable.
Answers == UNION {[status : {200, 206, 416}, from : 0..n, length : 0..n, total : {n}] : n \in Lengths}
Archives == [tar : CopyNames \cup {OnDisk}, of : Contents]
Places == {"idle", "reading", "size", "mtime", "lookup", "magic", "unzip", "unzipping", "index",
           "insert", "respond", "send", "close"}
TypeOK ==
  /\ gz \in BOOLEAN /\ destroyed \in BOOLEAN /\ file \in Contents
  /\ copies \in [CopyNames -> Contents \cup {Missing}]
  /\ cache \in [Keys -> Archives \cup {NoArchive}]
  /\ pc \in [Requests -> Places]
  /\ key \in [Requests -> [size : Sizes, mtime : Seconds \cup {Blank}]]
  /\ copy \in [Requests -> CopyNames \cup {OnDisk}]
  /\ readAt \in [Requests -> Contents \cup {Missing}]
  /\ arch \in [Requests -> Archives \cup {NoArchive}]
  /\ range \in [Requests -> Ranges \cup {NoHeader}]
  /\ answer \in [Requests -> Answers \cup {NoAnswer}]
  /\ sent \in [Requests -> Contents \cup {Missing}]
  /\ since \in [Requests -> SUBSET Contents]
  /\ main \in {"top", "accept", "out", "released", "exited"}
  /\ accepted \in 0..MaxAccepts /\ inline \in Requests \cup {Nobody}
  /\ stopping \in BOOLEAN /\ listening \in BOOLEAN

\* The entries a request answers from are never of an earlier second than the
\* archive has been of since the request came in: a cached index may be stale by
\* what was written within its own second, as the key's seconds cannot tell, but
\* not by a backup written over it later.
ListingIsCurrent ==
  \A r \in Requests : pc[r] \in {"respond", "send"}
                        => \E f \in since[r] : f.mtime = arch[r].of.mtime

\* An archive rewritten by a new backup is read again rather than served stale
\* (the comment in openArchive): the entries are those of the archive as it was
\* at some moment since the request came in.  The code does not keep this.
ListingIsFresh ==
  \A r \in Requests : pc[r] \in {"respond", "send"} => arch[r].of \in since[r]

\* The bytes are read where the index says they are: from a copy no other
\* request writes to, which holds all that was in the archive, or, if the
\* archive itself is read and nobody rewrites it meanwhile, from the archive as
\* it was left in the second the index is of.
MemberIsWhole ==
  \A r \in Requests : sent[r] # Missing =>
    IF arch[r].tar # OnDisk
      THEN sent[r] = arch[r].of /\ sent[r].whole
      ELSE Cardinality(since[r]) = 1 => sent[r].mtime = arch[r].of.mtime

\* The explorer's cache is not removed under a request that reads from it.
CacheOutlivesReaders ==
  \A r \in Requests : pc[r] \in {"respond", "send"} /\ arch[r].tar # OnDisk
                        => copies[arch[r].tar] # Missing

\* The bytes a Range header asks for, by the header's meaning.
AskedFor(h, total) ==
  {i \in 0..(total - 1) : IF h.first = Blank THEN i >= total - h.last
                          ELSE i >= h.first /\ (h.last # Blank => i <= h.last)}

\* 206 answers with the bytes asked for, 416 only when there are none of them,
\* and 200 with everything, only when the header says nothing or runs backwards.
RangeIsHonest ==
  \A r \in Requests : pc[r] = "send" =>
    LET bytes == answer[r].from..(answer[r].from + answer[r].length - 1)
        asked == AskedFor(range[r], answer[r].total)
    IN CASE answer[r].status = 206 -> bytes = asked /\ asked # {}
         [] answer[r].status = 416 -> asked = {}
         [] OTHER -> /\ bytes = 0..(answer[r].total - 1)
                     /\ \/ range[r].first = Blank /\ range[r].last = Blank
                        \/ range[r].last # Blank /\ range[r].last < range[r].first

=============================================================================
