--------------------------- MODULE Explorer_proofs --------------------------
(***************************************************************************)
(* Theorems about Explorer for every number of requests, rewrites and      *)
(* bytes and every Range header: the listings are current, the bytes are   *)
(* those that were indexed and asked for, the cache outlives its readers.  *)
(***************************************************************************)
EXTENDS Explorer, FunctionTheorems, FiniteSetTheorems, TLAPS

-----------------------------------------------------------------------------
(* Ranges.                                                                 *)

Headers == [first : Nat \cup {Blank}, last : Nat \cup {Blank}]

\* What RangeIsHonest says of one header and one answer.
Honest(h, a, total) ==
  LET bytes == a.from..(a.from + a.length - 1)
      asked == AskedFor(h, total)
  IN CASE a.status = 206 -> bytes = asked /\ asked # {}
       [] a.status = 416 -> asked = {}
       [] OTHER -> /\ bytes = 0..(total - 1)
                   /\ \/ h.first = Blank /\ h.last = Blank
                      \/ h.last # Blank /\ h.last < h.first

\* parseByteRange and applyRange are right about every header and every length
\* (HttpServer.cpp:204-226, 345-382).
THEOREM RangesAreHonest ==
  ASSUME NEW h \in Headers, NEW total \in Nat
  PROVE  /\ Honest(h, applyRange(h, total), total)
         /\ applyRange(h, total) \in [status : {200, 206, 416}, from : 0..total, length : 0..total,
                                      total : {total}]
<1> DEFINE p == parseByteRange(h, total)
           a == applyRange(h, total)
<1>1. /\ h.first \in Nat \/ h.first = -1
      /\ h.last \in Nat \/ h.last = -1
  BY DEF Headers, Blank
<1>2. CASE h.first = -1 /\ h.last = -1
  <2>1. p = None
    BY <1>2 DEF parseByteRange, Blank
  <2>2. a = [status |-> 200, from |-> 0, length |-> total, total |-> total]
    BY <2>1 DEF applyRange, None
  <2> QED  BY <1>2, <2>2 DEF Honest, Blank
<1>3. CASE h.first = -1 /\ h.last \in Nat
  <2>1. CASE h.last = 0 \/ total = 0
    <3>1. p = Unsatisfiable
      BY <1>3, <2>1 DEF parseByteRange, Blank
    <3>2. a = [status |-> 416, from |-> 0, length |-> 0, total |-> total]
      BY <3>1 DEF applyRange, Unsatisfiable
    <3>3. AskedFor(h, total) = {}
      BY <1>3, <2>1 DEF AskedFor, Blank
    <3> QED  BY <3>2, <3>3 DEF Honest
  <2>2. CASE h.last > 0 /\ total > 0
    <3> DEFINE from == IF h.last >= total THEN 0 ELSE total - h.last
    <3>1. p = Satisfiable(from, total - 1)
      BY <1>3, <2>2 DEF parseByteRange, Blank
    <3>2. a = [status |-> 206, from |-> from, length |-> total - 1 - from + 1, total |-> total]
      BY <3>1 DEF applyRange, Satisfiable
    <3>3. from \in 0..(total - 1)
      BY <1>3, <2>2
    <3>4. AskedFor(h, total) = from..(total - 1)
      BY <1>3, <2>2 DEF AskedFor, Blank
    <3> HIDE DEF from
    <3> QED  BY <3>2, <3>3, <3>4 DEF Honest
  <2> QED  BY <1>3, <2>1, <2>2
<1>4. CASE h.first \in Nat /\ h.last # -1 /\ h.last < h.first
  <2>1. p = None
    BY <1>4 DEF parseByteRange, Blank
  <2>2. a = [status |-> 200, from |-> 0, length |-> total, total |-> total]
    BY <2>1 DEF applyRange, None
  <2> QED  BY <1>4, <2>2 DEF Honest, Blank
<1>5. CASE h.first \in Nat /\ (h.last = -1 \/ h.last >= h.first)
  <2>1. CASE h.first >= total
    <3>1. p = Unsatisfiable
      BY <1>1, <1>5, <2>1 DEF parseByteRange, Blank
    <3>2. a = [status |-> 416, from |-> 0, length |-> 0, total |-> total]
      BY <3>1 DEF applyRange, Unsatisfiable
    <3>3. AskedFor(h, total) = {}
      BY <1>5, <2>1 DEF AskedFor, Blank
    <3> QED  BY <3>2, <3>3 DEF Honest
  <2>2. CASE h.first < total
    <3> DEFINE to == IF h.last = -1 THEN total - 1 ELSE Least(h.last, total - 1)
    <3>1. p = Satisfiable(h.first, to)
      BY <1>1, <1>5, <2>2 DEF parseByteRange, Blank
    <3>2. a = [status |-> 206, from |-> h.first, length |-> to - h.first + 1, total |-> total]
      BY <3>1 DEF applyRange, Satisfiable
    <3>3. to \in h.first..(total - 1)
      BY <1>1, <1>5, <2>2 DEF Least
    <3>4. AskedFor(h, total) = h.first..to
      BY <1>1, <1>5, <2>2 DEF AskedFor, Blank, Least
    <3> HIDE DEF to
    <3> QED  BY <1>5, <2>2, <3>2, <3>3, <3>4 DEF Honest
  <2> QED  BY <1>5, <2>1, <2>2
<1> QED  BY <1>1, <1>2, <1>3, <1>4, <1>5

-----------------------------------------------------------------------------
(* Files and names.                                                        *)

LEMMA KeysAreFinite == IsFiniteSet(Keys) /\ Cardinality(Keys) \in Nat
<1> DEFINE size == [n \in Seconds |-> Size[n]]
           key2 == [p \in Sizes \X Seconds |-> [size |-> p[1], mtime |-> p[2]]]
<1>1. IsFiniteSet(Seconds)
  BY FS_Interval, ExplorerAssumption DEF Seconds
<1>2. IsFiniteSet(Sizes)
  <2>1. size \in Surjection(Seconds, Sizes)
    BY DEF Surjection, Sizes, Seconds
  <2> HIDE DEF size
  <2> QED  BY <1>1, <2>1, FS_Surjection
<1>3. IsFiniteSet(Sizes \X Seconds)
  BY <1>1, <1>2, FS_Product
<1>4. key2 \in Surjection(Sizes \X Seconds, Keys)
  <2>1. key2 \in [Sizes \X Seconds -> Keys]
    BY DEF Keys
  <2>2. ASSUME NEW k \in Keys PROVE \E p \in Sizes \X Seconds : key2[p] = k
    <3>1. k = [size |-> k.size, mtime |-> k.mtime] /\ k.size \in Sizes /\ k.mtime \in Seconds
      BY DEF Keys
    <3>2. <<k.size, k.mtime>> \in Sizes \X Seconds /\ key2[<<k.size, k.mtime>>] = k
      BY <3>1
    <3> QED  BY <3>2
  <2> HIDE DEF key2
  <2> QED  BY <2>1, <2>2 DEF Surjection
<1> HIDE DEF key2
<1>5. IsFiniteSet(Keys)
  BY <1>3, <1>4, FS_Surjection
<1> QED  BY <1>5, FS_CardinalityType

\* Each request and each key of the cache names one copy at most.
LEMMA ANameIsFree ==
  ASSUME NEW r \in Requests, NEW slot, NEW tarOf
  PROVE  \E n \in CopyNames : /\ \A q \in Requests \ {r} : slot[q] # n
                              /\ \A k \in Keys : tarOf[k] # n
<1> DEFINE Others == Requests \ {r}
           f == [q \in Others |-> slot[q]]
           g == [k \in Keys |-> tarOf[k]]
           S == {slot[q] : q \in Others}
           T == {tarOf[k] : k \in Keys}
<1>1. /\ IsFiniteSet(Others) /\ Cardinality(Others) = Cardinality(Requests) - 1
      /\ Cardinality(Requests) \in Nat
  BY FS_RemoveElement, FS_CardinalityType, ExplorerAssumption
<1>2. IsFiniteSet(S) /\ Cardinality(S) <= Cardinality(Others)
  <2>1. f \in Surjection(Others, S)
    BY DEF Surjection
  <2> HIDE DEF f, S
  <2> QED  BY <1>1, <2>1, FS_Surjection
<1>3. IsFiniteSet(T) /\ Cardinality(T) <= Cardinality(Keys)
  <2>1. g \in Surjection(Keys, T)
    BY DEF Surjection
  <2> HIDE DEF g, T
  <2> QED  BY <2>1, KeysAreFinite, FS_Surjection
<1>4. IsFiniteSet(CopyNames) /\ Cardinality(CopyNames) = Cardinality(Keys) + Cardinality(Requests)
  <2> DEFINE m == Cardinality(Keys) + Cardinality(Requests)
  <2>1. m \in Nat /\ 1 \in Int /\ m \in Int
    BY <1>1, KeysAreFinite
  <2> HIDE DEF m
  <2>2. IsFiniteSet(1..m) /\ Cardinality(1..m) = IF 1 <= m THEN m - 1 + 1 ELSE 0
    BY <2>1, FS_Interval
  <2>3. Cardinality(1..m) = m
    BY <2>1, <2>2
  <2> QED  BY <2>2, <2>3 DEF m, CopyNames
<1>5. ~(CopyNames \subseteq S \cup T)
  <2> SUFFICES ASSUME CopyNames \subseteq S \cup T PROVE FALSE
    OBVIOUS
  <2> HIDE DEF S, T
  <2>1. /\ IsFiniteSet(S \cup T)
        /\ Cardinality(S \cup T) = Cardinality(S) + Cardinality(T) - Cardinality(S \cap T)
    BY <1>2, <1>3, FS_Union
  <2>2. IsFiniteSet(S \cap T) /\ Cardinality(S \cap T) \in Nat
    BY <1>2, FS_Subset, FS_CardinalityType
  <2>3. Cardinality(CopyNames) <= Cardinality(S \cup T)
    BY <2>1, FS_Subset
  <2>4. Cardinality(S) \in Nat /\ Cardinality(T) \in Nat
    BY <1>2, <1>3, FS_CardinalityType
  <2> QED  BY <1>1, <1>2, <1>3, <1>4, <2>1, <2>2, <2>3, <2>4, KeysAreFinite
<1> QED  BY <1>5

-----------------------------------------------------------------------------
(* The inductive invariant.                                                *)

Early == {"idle", "reading", "size", "mtime", "lookup", "magic"}
Keyed == {"lookup", "magic", "unzip", "unzipping", "index", "insert"}
Having == {"insert", "respond", "send"}

\* The archive has been of that state's second since the request came in.
Seen(r, h) == \E f \in since[r] : f.mtime = h.mtime

\* A state the archive has been in: each request saw it or came in afterwards.
Past(h) ==
  /\ h.mtime <= file.mtime
  /\ \A q \in Requests : pc[q] # "idle" => h \in since[q] \/ \A f \in since[q] : h.mtime <= f.mtime

\* A request has seen the archive become what it is.
SinceIsSound(r) ==
  pc[r] # "idle" => file \in since[r] /\ \A f \in since[r] : f.mtime <= file.mtime

\* What a request has, by where it is.
PlaceIsSound(r) ==
  /\ pc[r] \in Early \cup {"unzip", "unzipping", "index"} => arch[r] = NoArchive
  /\ copy[r] # OnDisk => arch[r] = NoArchive /\ pc[r] \in {"unzip", "unzipping", "index", "close"}
  /\ sent[r] # Missing => pc[r] = "close"
  /\ pc[r] \in {"unzip", "unzipping"} => copy[r] # OnDisk

\* Its key's second is one at which the archive was seen,
KeyIsSound(r) ==
  pc[r] \in Keyed => key[r] \in Keys /\ \E f \in since[r] : f.mtime = key[r].mtime

\* its copy is whole and not older than the key,
CopyIsSound(r) ==
  pc[r] = "index" /\ copy[r] # OnDisk =>
    /\ copies[copy[r]] \in since[r] /\ copies[copy[r]].whole /\ Past(copies[copy[r]])
    /\ key[r].mtime <= copies[copy[r]].mtime

\* and so is what it indexed.
ArchIsSound(r) ==
  /\ pc[r] \in Having =>
       /\ arch[r] \in Archives /\ Seen(r, arch[r].of)
       /\ arch[r].tar # OnDisk => copies[arch[r].tar] = arch[r].of /\ arch[r].of.whole
  /\ pc[r] = "insert" => key[r].mtime <= arch[r].of.mtime /\ Past(arch[r].of)

SentIsSound(r) ==
  sent[r] # Missing =>
    /\ Seen(r, arch[r].of)
    /\ IF arch[r].tar # OnDisk THEN sent[r] = arch[r].of /\ sent[r].whole
                               ELSE sent[r] \in since[r]

AnswerIsSound(r) ==
  pc[r] = "send" => /\ range[r] \in Ranges /\ answer[r].total \in Lengths
                    /\ answer[r] = applyRange(range[r], answer[r].total)

RequestIsSound(r) ==
  /\ SinceIsSound(r) /\ PlaceIsSound(r) /\ KeyIsSound(r) /\ CopyIsSound(r)
  /\ ArchIsSound(r) /\ SentIsSound(r) /\ AnswerIsSound(r)

\* What is cached was indexed no earlier than its key says.
CacheIsSound(k) ==
  cache[k] # NoArchive =>
    /\ k.mtime <= cache[k].of.mtime /\ Past(cache[k].of)
    /\ cache[k].tar # OnDisk => copies[cache[k].tar] = cache[k].of /\ cache[k].of.whole

\* A copy that is being made is nobody else's.
OwnsItsCopy(r) ==
  copy[r] # OnDisk =>
    /\ \A q \in Requests \ {r} : copy[q] # copy[r] /\ arch[q].tar # copy[r]
    /\ \A k \in Keys : cache[k].tar # copy[r]

IInv ==
  /\ TypeOK
  /\ file.mtime <= file.ver
  /\ \A r \in Requests : RequestIsSound(r)
  /\ \A k \in Keys : CacheIsSound(k)
  /\ \A r \in Requests : OwnsItsCopy(r)

-----------------------------------------------------------------------------
(* What a step of one request leaves alone.                                *)

Stays(q) ==
  /\ pc'[q] = pc[q] /\ key'[q] = key[q] /\ copy'[q] = copy[q] /\ arch'[q] = arch[q]
  /\ range'[q] = range[q] /\ answer'[q] = answer[q] /\ sent'[q] = sent[q]
  /\ since'[q] = since[q]

OnlyMoves(r) ==
  /\ file' = file
  /\ \A q \in Requests \ {r} : Stays(q)
  /\ \A n \in CopyNames : n # copy[r] => copies'[n] = copies[n]
  /\ \/ pc'[r] = "idle" \/ since'[r] = {file}
     \/ pc[r] # "idle" /\ since'[r] = since[r]

LEMMA NamesAreNatural == CopyNames \subseteq Nat \ {0}
BY KeysAreFinite, FS_CardinalityType, ExplorerAssumption DEF CopyNames

LEMMA MissingIsNoContent == Missing \notin Contents /\ NoArchive \notin Archives
BY NamesAreNatural DEF Missing, Contents, Blank, NoArchive, Archives

\* A state that was stays one.
LEMMA PastStays ==
  ASSUME NEW r \in Requests, OnlyMoves(r), NEW h, Past(h)
  PROVE  Past(h)'
<1> SUFFICES ASSUME NEW q \in Requests, pc'[q] # "idle"
             PROVE  h \in since'[q] \/ \A f \in since'[q] : h.mtime <= f.mtime
  BY DEF Past, OnlyMoves
<1>1. CASE q = r
  BY <1>1 DEF Past, OnlyMoves
<1>2. CASE q # r
  BY <1>2 DEF Past, OnlyMoves, Stays
<1> QED  BY <1>1, <1>2

LEMMA OthersStay ==
  ASSUME IInv, NEW r \in Requests, OnlyMoves(r)
  PROVE  \A q \in Requests \ {r} : RequestIsSound(q)'
<1> SUFFICES ASSUME NEW q \in Requests \ {r} PROVE RequestIsSound(q)'
  OBVIOUS
<1>1. RequestIsSound(q) /\ Stays(q) /\ OwnsItsCopy(r) /\ OwnsItsCopy(q) /\ file' = file
  BY DEF IInv, OnlyMoves
<1>2. SinceIsSound(q)' /\ PlaceIsSound(q)' /\ KeyIsSound(q)'
  BY <1>1 DEF RequestIsSound, SinceIsSound, PlaceIsSound, KeyIsSound, Stays
<1>3. SentIsSound(q)' /\ AnswerIsSound(q)'
  BY <1>1 DEF RequestIsSound, SentIsSound, AnswerIsSound, Seen, Stays
<1>4. CopyIsSound(q)'
  <2> SUFFICES ASSUME pc[q] = "index", copy[q] # OnDisk PROVE CopyIsSound(q)'
    BY <1>1 DEF CopyIsSound, Stays
  <2>1. copy[q] \in CopyNames /\ copy[q] # copy[r]
    BY <1>1 DEF IInv, TypeOK, OwnsItsCopy
  <2>2. copies'[copy'[q]] = copies[copy[q]]
    BY <1>1, <2>1 DEF Stays, OnlyMoves
  <2>3. Past(copies[copy[q]])'
    <3>1. PICK h : h = copies[copy[q]]
      OBVIOUS
    <3>2. Past(h)
      BY <1>1, <3>1 DEF RequestIsSound, CopyIsSound
    <3>3. Past(h)'
      BY <3>2, PastStays
    <3> QED  BY <2>2, <3>1, <3>3 DEF Past
  <2> QED  BY <1>1, <2>2, <2>3 DEF RequestIsSound, CopyIsSound, Stays
<1>5. ArchIsSound(q)'
  <2>1. pc[q] \in Having /\ arch[q].tar # OnDisk
          => arch[q].tar \in CopyNames /\ arch[q].tar # copy[r]
    <3>1. pc[q] \in Having => arch[q] \in Archives
      BY <1>1 DEF RequestIsSound, ArchIsSound
    <3>2. arch[q] \in Archives => arch[q].tar \in CopyNames \cup {OnDisk}
      BY DEF Archives
    <3> QED  BY <1>1, <3>1, <3>2 DEF OwnsItsCopy
  <2>2. pc[q] = "insert" => Past(arch[q].of)'
    <3>1. PICK h : h = arch[q].of
      OBVIOUS
    <3>2. pc[q] = "insert" => Past(h)
      BY <1>1, <3>1 DEF RequestIsSound, ArchIsSound
    <3>3. Past(h) => Past(h)'
      BY PastStays
    <3> QED  BY <1>1, <3>1, <3>2, <3>3 DEF Past, Stays
  <2> QED  BY <1>1, <2>1, <2>2 DEF RequestIsSound, ArchIsSound, Seen, Stays, OnlyMoves
<1> QED  BY <1>2, <1>3, <1>4, <1>5 DEF RequestIsSound

LEMMA CachedStay ==
  ASSUME IInv, NEW r \in Requests, OnlyMoves(r), cache' = cache
  PROVE  \A k \in Keys : CacheIsSound(k)'
<1> SUFFICES ASSUME NEW k \in Keys, cache[k] # NoArchive PROVE CacheIsSound(k)'
  BY DEF CacheIsSound
<1>1. CacheIsSound(k) /\ OwnsItsCopy(r)
  BY DEF IInv
<1>2. cache[k] \in Archives
  BY DEF IInv, TypeOK
<1>3. cache[k].tar # OnDisk => cache[k].tar \in CopyNames /\ cache[k].tar # copy[r]
  BY <1>1, <1>2 DEF OwnsItsCopy, Archives
<1>4. Past(cache[k].of)'
  <2>1. PICK h : h = cache[k].of
    OBVIOUS
  <2>2. Past(h)'
    BY <1>1, <2>1, PastStays DEF CacheIsSound
  <2> QED  BY <2>1, <2>2 DEF Past
<1> QED  BY <1>1, <1>3, <1>4 DEF CacheIsSound, OnlyMoves

LEMMA NamesStay ==
  ASSUME IInv, copy' = copy, arch' = arch, cache' = cache
  PROVE  \A q \in Requests : OwnsItsCopy(q)'
BY DEF IInv, OwnsItsCopy

LEMMA FileHasASecond ==
  ASSUME IInv
  PROVE  file.mtime \in Seconds /\ file.mtime \in Nat /\ Size[file.ver] \in Sizes
BY ExplorerAssumption DEF IInv, TypeOK, Contents, Seconds, Sizes

LEMMA NoKeyIsOne == NoKey \in [size : Sizes, mtime : Seconds \cup {Blank}]
BY ExplorerAssumption DEF NoKey, Sizes

\* What the archive is now is a state it has been in.
LEMMA FileIsPast ==
  ASSUME IInv
  PROVE  Past(file)
<1>1. \A q \in Requests : SinceIsSound(q)
  BY DEF IInv, RequestIsSound
<1>2. file.mtime <= file.mtime
  BY FileHasASecond
<1> QED  BY <1>1, <1>2 DEF SinceIsSound, Past

-----------------------------------------------------------------------------
(* The initial states, and the server's own steps.                         *)

LEMMA InitIsSound == Init => IInv
<1> SUFFICES ASSUME Init PROVE IInv
  OBVIOUS
<1>1. TypeOK
  <2>1. file \in Contents
    BY ExplorerAssumption DEF Init, Contents, Seconds
  <2>2. answer \in [Requests -> Answers \cup {NoAnswer}]
    BY DEF Init
  <2>3. key \in [Requests -> [size : Sizes, mtime : Seconds \cup {Blank}]]
    BY ExplorerAssumption DEF Init, NoKey, Sizes
  <2>4. pc \in [Requests -> Places] /\ since \in [Requests -> SUBSET Contents]
    BY DEF Init, Places
  <2>5. range \in [Requests -> Ranges \cup {NoHeader}] /\ copy \in [Requests -> CopyNames \cup {OnDisk}]
    BY DEF Init
  <2>6. /\ copies \in [CopyNames -> Contents \cup {Missing}]
        /\ readAt \in [Requests -> Contents \cup {Missing}]
        /\ sent \in [Requests -> Contents \cup {Missing}]
    BY DEF Init
  <2>7. /\ cache \in [Keys -> Archives \cup {NoArchive}]
        /\ arch \in [Requests -> Archives \cup {NoArchive}]
    BY DEF Init
  <2>8. /\ gz \in BOOLEAN /\ destroyed \in BOOLEAN /\ stopping \in BOOLEAN /\ listening \in BOOLEAN
        /\ main \in {"top", "accept", "out", "released", "exited"}
        /\ inline \in Requests \cup {Nobody}
    BY DEF Init
  <2>9. accepted \in 0..MaxAccepts
    BY ExplorerAssumption DEF Init
  <2> QED  BY <2>1, <2>2, <2>3, <2>4, <2>5, <2>6, <2>7, <2>8, <2>9 DEF TypeOK
<1>3. \A r \in Requests : RequestIsSound(r)
  BY DEF Init, RequestIsSound, SinceIsSound, PlaceIsSound, KeyIsSound, CopyIsSound, ArchIsSound,
         SentIsSound, AnswerIsSound, Keyed, Having
<1>4. \A k \in Keys : CacheIsSound(k)
  BY DEF Init, CacheIsSound
<1>5. \A r \in Requests : OwnsItsCopy(r)
  BY DEF Init, OwnsItsCopy
<1>2. file.mtime <= file.ver
  BY DEF Init
<1> QED  BY <1>1, <1>2, <1>3, <1>4, <1>5 DEF IInv

\* What IInv says nothing of: where the server is, and what gzip read.
LEMMA ServerKeeps ==
  ASSUME IInv, UNCHANGED <<diskVars, pc, key, copy, arch, range, answer, sent, since>>, TypeOK'
  PROVE  IInv'
<1>1. \A r \in Requests : RequestIsSound(r)'
  BY DEF IInv, diskVars, RequestIsSound, SinceIsSound, PlaceIsSound, KeyIsSound, CopyIsSound,
         ArchIsSound, SentIsSound, AnswerIsSound, Seen, Past
<1>2. \A k \in Keys : CacheIsSound(k)'
  BY DEF IInv, diskVars, CacheIsSound, Past
<1>3. \A r \in Requests : OwnsItsCopy(r)'
  BY DEF IInv, diskVars, OwnsItsCopy
<1> QED  BY <1>1, <1>2, <1>3 DEF IInv, diskVars

\* The cache goes only when no request is left that might use it.
LEMMA RemoveCacheKeeps ==
  ASSUME IInv, TypeOK', file' = file, RemoveCache,
         \A q \in Requests : pc'[q] = "idle" /\ copy'[q] = OnDisk /\ arch'[q] = NoArchive
                             /\ sent'[q] = Missing
  PROVE  IInv'
<1>1. \A r \in Requests : RequestIsSound(r)'
  BY DEF RequestIsSound, SinceIsSound, PlaceIsSound, KeyIsSound, CopyIsSound, ArchIsSound,
         SentIsSound, AnswerIsSound, Keyed, Having
<1>2. \A k \in Keys : CacheIsSound(k)'
  BY DEF RemoveCache, CacheIsSound
<1>3. \A r \in Requests : OwnsItsCopy(r)'
  BY DEF OwnsItsCopy
<1> QED  BY <1>1, <1>2, <1>3 DEF IInv

LEMMA MainReleasesKeeps ==
  ASSUME IInv, MainReleases
  PROVE  IInv'
<1>1. CASE LastReference(Active)
  <2>1. RemoveCache /\ UNCHANGED <<gz, file, requestVars>> /\ main' = "released"
    BY <1>1 DEF MainReleases
  <2>2. TypeOK'
    BY <2>1 DEF IInv, TypeOK, MainReleases, RemoveCache, requestVars
  <2>3. \A q \in Requests : pc[q] = "idle"
    BY <1>1 DEF LastReference, Active
  <2>4. \A q \in Requests : copy[q] = OnDisk /\ arch[q] = NoArchive /\ sent[q] = Missing
    BY <2>3 DEF IInv, RequestIsSound, PlaceIsSound, Early
  <2> QED  BY <2>1, <2>2, <2>3, <2>4, RemoveCacheKeeps DEF requestVars
<1>2. CASE ~LastReference(Active)
  <2>1. UNCHANGED <<diskVars, requestVars>> /\ TypeOK'
    BY <1>2 DEF IInv, TypeOK, MainReleases, diskVars, requestVars
  <2> QED  BY <2>1, ServerKeeps DEF requestVars
<1> QED  BY <1>1, <1>2

-----------------------------------------------------------------------------
(* A request's steps.                                                      *)

LEMMA AcceptKeeps ==
  ASSUME IInv, NEW r \in Requests, Accept(r)
  PROVE  IInv'
<1>1. TypeOK'
  <2>1. pc' \in [Requests -> Places] /\ since' \in [Requests -> SUBSET Contents]
        /\ accepted' \in 0..MaxAccepts /\ inline' \in Requests \cup {Nobody}
    BY ExplorerAssumption DEF Accept, Goto, IInv, TypeOK, Places
  <2> QED  BY <2>1 DEF Accept, diskVars, IInv, TypeOK
<1>2. OnlyMoves(r) /\ cache' = cache /\ copy' = copy /\ arch' = arch /\ file' = file
  BY DEF Accept, Goto, diskVars, OnlyMoves, Stays, IInv, TypeOK
<1>3. RequestIsSound(r)'
  <2>1. RequestIsSound(r) /\ pc[r] = "idle" /\ pc'[r] = "reading" /\ since'[r] = {file}
        /\ UNCHANGED <<gz, file, copies, key, copy, arch, range, answer, sent>>
    BY DEF Accept, Goto, diskVars, IInv, TypeOK
  <2>2. SinceIsSound(r)'
    BY <2>1, FileHasASecond DEF SinceIsSound
  <2> QED  BY <2>1, <2>2 DEF RequestIsSound, PlaceIsSound, KeyIsSound, CopyIsSound, ArchIsSound,
                             SentIsSound, AnswerIsSound, Early, Keyed, Having
<1> QED  BY <1>1, <1>2, <1>3, OthersStay, CachedStay, NamesStay DEF IInv

\* The steps that only move a request on.
LEMMA MovesKeep ==
  ASSUME IInv, NEW r \in Requests, ReadRequest(r) \/ ReadFails(r) \/ TakeAsTar(r) \/ IndexFails(r)
  PROVE  IInv'
<1>0. /\ \/ pc[r] = "reading" /\ (Goto(r, "size") \/ Goto(r, "close"))
         \/ pc[r] = "magic" /\ Goto(r, "index")
         \/ pc[r] = "index" /\ Goto(r, "close")
      /\ UNCHANGED <<diskVars, key, copy, readAt, arch, range, answer, sent, since, serverVars>>
  BY DEF ReadRequest, ReadFails, TakeAsTar, IndexFails, At
<1>1. TypeOK'
  <2>1. pc' \in [Requests -> Places]
    <3>1. PICK place \in {"size", "close", "index"} : Goto(r, place)
      BY <1>0
    <3>2. place \in Places
      BY DEF Places
    <3> QED  BY <3>1, <3>2 DEF Goto, IInv, TypeOK
  <2>2. /\ UNCHANGED <<gz, file, copies, cache, destroyed>>
        /\ UNCHANGED <<key, copy, readAt, arch, range, answer, sent, since>>
        /\ UNCHANGED <<main, accepted, inline, stopping, listening>>
    BY <1>0 DEF diskVars, serverVars
  <2> QED  BY <2>1, <2>2 DEF IInv, TypeOK
<1>2. OnlyMoves(r) /\ cache' = cache /\ copy' = copy /\ arch' = arch /\ file' = file
  BY <1>0 DEF Goto, diskVars, OnlyMoves, Stays, IInv, TypeOK
<1>3. RequestIsSound(r)'
  <2>1. /\ RequestIsSound(r)
        /\ \/ pc[r] = "reading" /\ pc'[r] \in {"size", "close"}
           \/ pc[r] = "magic" /\ pc'[r] = "index"
           \/ pc[r] = "index" /\ pc'[r] = "close"
        /\ UNCHANGED <<file, copies, key, copy, arch, range, answer, sent, since>>
    BY <1>0 DEF Goto, diskVars, IInv, TypeOK
  <2> QED  BY <2>1 DEF RequestIsSound, SinceIsSound, PlaceIsSound, KeyIsSound, CopyIsSound,
                       ArchIsSound, SentIsSound, AnswerIsSound, Early, Keyed, Having
<1> QED  BY <1>1, <1>2, <1>3, OthersStay, CachedStay, NamesStay DEF IInv

LEMMA StatKeeps ==
  ASSUME IInv, NEW r \in Requests, StatSize(r) \/ StatMtime(r)
  PROVE  IInv'
<1>0. /\ (pc[r] = "size" /\ Goto(r, "mtime") /\ key' = [key EXCEPT ![r].size = Size[file.ver]])
         \/ (pc[r] = "mtime" /\ Goto(r, "lookup") /\ key' = [key EXCEPT ![r].mtime = file.mtime])
      /\ UNCHANGED <<diskVars, copy, readAt, arch, range, answer, sent, since, serverVars>>
  BY DEF StatSize, StatMtime, At
<1>1. TypeOK'
  <2>1. pc' \in [Requests -> Places]
    BY <1>0 DEF Goto, IInv, TypeOK, Places
  <2>2. key' \in [Requests -> [size : Sizes, mtime : Seconds \cup {Blank}]]
    <3> DEFINE KeysHere == [size : Sizes, mtime : Seconds \cup {Blank}]
    <3>1. key \in [Requests -> KeysHere]
      BY DEF IInv, TypeOK
    <3>2. [key[r] EXCEPT !.size = Size[file.ver]] \in KeysHere
      BY <3>1, FileHasASecond
    <3>3. [key[r] EXCEPT !.mtime = file.mtime] \in KeysHere
      BY <3>1, FileHasASecond
    <3> HIDE DEF KeysHere
    <3>4. key' \in [Requests -> KeysHere]
      BY <1>0, <3>1, <3>2, <3>3
    <3> QED  BY <3>4 DEF KeysHere
  <2> QED  BY <1>0, <2>1, <2>2 DEF diskVars, serverVars, IInv, TypeOK
<1>2. OnlyMoves(r) /\ cache' = cache /\ copy' = copy /\ arch' = arch /\ file' = file
  BY <1>0 DEF Goto, diskVars, OnlyMoves, Stays, IInv, TypeOK
<1>3. RequestIsSound(r)'
  <2>1. RequestIsSound(r) /\ UNCHANGED <<gz, file, copies, copy, arch, range, answer, sent, since>>
        /\ pc[r] \in {"size", "mtime"} /\ pc'[r] \in {"mtime", "lookup"}
        /\ (pc'[r] = "lookup" => key'[r] = [key[r] EXCEPT !.mtime = file.mtime])
    BY <1>0 DEF Goto, diskVars, IInv, TypeOK
  <2>2. KeyIsSound(r)'
    <3>1. pc'[r] = "lookup" => key'[r] \in Keys /\ key'[r].mtime = file.mtime
      <4>1. key[r] \in [size : Sizes, mtime : Seconds \cup {Blank}]
        BY DEF IInv, TypeOK
      <4>2. file.mtime \in Seconds
        BY FileHasASecond
      <4> QED  BY <2>1, <4>1, <4>2 DEF Keys
    <3>2. file \in since[r]
      BY <2>1 DEF RequestIsSound, SinceIsSound
    <3> QED  BY <2>1, <3>1, <3>2 DEF KeyIsSound, Keyed
  <2> QED  BY <2>1, <2>2 DEF RequestIsSound, SinceIsSound, PlaceIsSound, CopyIsSound,
                             ArchIsSound, SentIsSound, AnswerIsSound, Early, Having
<1> QED  BY <1>1, <1>2, <1>3, OthersStay, CachedStay, NamesStay DEF IInv

\* A hit: what is cached under the key was indexed since the request came in.
LEMMA LookupKeeps ==
  ASSUME IInv, NEW r \in Requests, Lookup(r)
  PROVE  IInv'
<1>0. /\ RequestIsSound(r) /\ pc[r] = "lookup" /\ key[r] \in Keys /\ CacheIsSound(key[r])
      /\ arch[r] = NoArchive /\ copy[r] = OnDisk /\ sent[r] = Missing
      /\ cache[key[r]] \in Archives \cup {NoArchive}
  BY DEF Lookup, At, IInv, TypeOK, RequestIsSound, KeyIsSound, PlaceIsSound, Keyed, Early
<1>1. /\ arch' = [arch EXCEPT ![r] = cache[key[r]]] /\ arch'[r] = cache[key[r]]
      /\ UNCHANGED <<diskVars, copy, readAt, range, answer, sent, since, serverVars>>
  BY DEF Lookup, IInv, TypeOK
<1>2. \/ cache[key[r]] # NoArchive /\ Goto(r, "respond") /\ key' = [key EXCEPT ![r] = NoKey]
      \/ cache[key[r]] = NoArchive /\ Goto(r, "magic") /\ key' = key
  BY <1>1 DEF Lookup
<1>3. TypeOK'
  <2>1. pc' \in [Requests -> Places]
    <3>1. PICK place \in {"respond", "magic"} : Goto(r, place)
      BY <1>2
    <3>2. place \in Places
      BY DEF Places
    <3> QED  BY <3>1, <3>2 DEF Goto, IInv, TypeOK
  <2>2. NoKey \in [size : Sizes, mtime : Seconds \cup {Blank}]
    BY NoKeyIsOne
  <2>3. key' \in [Requests -> [size : Sizes, mtime : Seconds \cup {Blank}]]
    BY <1>2, <2>2 DEF IInv, TypeOK
  <2>4. arch' \in [Requests -> Archives \cup {NoArchive}]
    BY <1>0, <1>1 DEF IInv, TypeOK
  <2> QED  BY <1>1, <2>1, <2>3, <2>4 DEF diskVars, serverVars, IInv, TypeOK
<1>4. OnlyMoves(r) /\ cache' = cache /\ copy' = copy /\ file' = file
  BY <1>0, <1>1, <1>2 DEF Goto, diskVars, OnlyMoves, Stays, IInv, TypeOK
<1>5. RequestIsSound(r)'
  <2>1. /\ UNCHANGED <<gz, file, copies, cache, copy, range, answer, sent, since>>
        /\ \/ pc'[r] = "respond" /\ cache[key[r]] # NoArchive
           \/ pc'[r] = "magic" /\ key'[r] = key[r] /\ arch'[r] = NoArchive
    BY <1>1, <1>2 DEF Goto, diskVars, IInv, TypeOK
  <2>2. SinceIsSound(r)' /\ KeyIsSound(r)'
    BY <1>0, <2>1 DEF RequestIsSound, SinceIsSound, KeyIsSound, Keyed
  <2>3. PlaceIsSound(r)'
    BY <1>0, <2>1 DEF PlaceIsSound, Early
  <2>4. ArchIsSound(r)'
    <3> SUFFICES ASSUME pc'[r] = "respond" PROVE ArchIsSound(r)'
      BY <2>1 DEF ArchIsSound, Having
    <3>1. arch'[r] = cache[key[r]] /\ cache[key[r]] \in Archives
      BY <1>0, <1>1, <2>1
    <3>2. key[r].mtime <= arch'[r].of.mtime /\ Past(arch'[r].of)
      BY <1>0, <2>1, <3>1 DEF CacheIsSound
    <3>3. Seen(r, arch'[r].of)
      <4>1. PICK f \in since[r] : f.mtime = key[r].mtime
        BY <1>0 DEF RequestIsSound, KeyIsSound, Keyed
      <4>2. arch'[r].of \in since[r] \/ arch'[r].of.mtime <= f.mtime
        BY <1>0, <3>2 DEF Past
      <4>3. f.mtime \in Nat /\ arch'[r].of.mtime \in Nat
        <5>1. f \in Contents /\ arch'[r].of \in Contents
          BY <3>1 DEF Archives, IInv, TypeOK
        <5> QED  BY <5>1, ExplorerAssumption DEF Contents, Seconds
      <4> QED  BY <3>2, <4>1, <4>2, <4>3 DEF Seen
    <3>4. arch'[r].tar # OnDisk => copies[arch'[r].tar] = arch'[r].of /\ arch'[r].of.whole
      BY <1>0, <2>1, <3>1 DEF CacheIsSound
    <3> QED  BY <2>1, <3>1, <3>3, <3>4 DEF ArchIsSound, Seen
  <2> QED  BY <1>0, <2>1, <2>2, <2>3, <2>4 DEF RequestIsSound, CopyIsSound, SentIsSound, AnswerIsSound
<1>6. \A q \in Requests : OwnsItsCopy(q)'
  <2> SUFFICES ASSUME NEW q \in Requests PROVE OwnsItsCopy(q)'
    OBVIOUS
  <2>1. CASE q = r
    BY <1>0, <1>4, <2>1 DEF OwnsItsCopy
  <2>2. CASE q # r
    <3>1. OwnsItsCopy(q)
      BY DEF IInv
    <3>2. \A p \in Requests : arch'[p] = IF p = r THEN cache[key[r]] ELSE arch[p]
      BY <1>1 DEF IInv, TypeOK
    <3> QED  BY <1>0, <1>4, <2>2, <3>1, <3>2 DEF OwnsItsCopy
  <2> QED  BY <2>1, <2>2
<1> QED  BY <1>3, <1>4, <1>5, <1>6, OthersStay, CachedStay DEF IInv

LEMMA NameCopyKeeps ==
  ASSUME IInv, NEW r \in Requests, NameCopy(r)
  PROVE  IInv'
<1> DEFINE free == CHOOSE n \in CopyNames : ~Using(n)
<1>0. /\ RequestIsSound(r) /\ pc[r] = "magic" /\ arch[r] = NoArchive /\ copy[r] = OnDisk
      /\ sent[r] = Missing
  BY DEF NameCopy, At, IInv, RequestIsSound, PlaceIsSound, Early
<1>1. /\ copy' = [copy EXCEPT ![r] = free] /\ Goto(r, "unzip")
      /\ UNCHANGED <<diskVars, key, readAt, arch, range, answer, sent, since, serverVars>>
  BY DEF NameCopy
<1>2. free \in CopyNames /\ ~Using(free)
  <2> DEFINE slot(q) == IF copy[q] # OnDisk THEN copy[q] ELSE arch[q].tar
             slots == [q \in Requests |-> slot(q)]
             tars == [k \in Keys |-> cache[k].tar]
  <2>1. PICK n \in CopyNames : /\ \A q \in Requests \ {r} : slots[q] # n
                               /\ \A k \in Keys : tars[k] # n
    <3> HIDE DEF slots, tars
    <3> QED  BY ANameIsFree
  <2>2. n # OnDisk /\ n # NoArchive.tar
    BY NamesAreNatural DEF OnDisk, NoArchive, Blank
  <2>3. \A q \in Requests \ {r} : copy[q] # n /\ arch[q].tar # n
    <3> TAKE q \in Requests \ {r}
    <3>1. copy[q] # OnDisk => arch[q] = NoArchive
      BY DEF IInv, RequestIsSound, PlaceIsSound
    <3> QED  BY <2>1, <2>2, <3>1
  <2>4. \A k \in Keys : cache[k].tar # n
    BY <2>1
  <2>5. ~Using(n)
    BY <1>0, <2>2, <2>3, <2>4 DEF Using
  <2> QED  BY <2>5
<1> HIDE DEF free
<1>3. TypeOK'
  <2>1. pc' \in [Requests -> Places]
    BY <1>1 DEF Goto, IInv, TypeOK, Places
  <2>2. copy' \in [Requests -> CopyNames \cup {OnDisk}]
    BY <1>1, <1>2 DEF IInv, TypeOK
  <2> QED  BY <1>1, <2>1, <2>2 DEF diskVars, serverVars, IInv, TypeOK
<1>4. OnlyMoves(r) /\ cache' = cache /\ arch' = arch /\ file' = file
  BY <1>0, <1>1 DEF Goto, diskVars, OnlyMoves, Stays, IInv, TypeOK
<1>5. RequestIsSound(r)'
  <2>1. /\ UNCHANGED <<gz, file, copies, key, arch, range, answer, sent, since>>
        /\ pc'[r] = "unzip" /\ copy'[r] = free /\ free # OnDisk
    BY <1>1, <1>2, NamesAreNatural DEF Goto, diskVars, IInv, TypeOK, OnDisk
  <2> QED  BY <1>0, <2>1 DEF RequestIsSound, SinceIsSound, KeyIsSound, CopyIsSound, PlaceIsSound,
                             ArchIsSound, SentIsSound, AnswerIsSound, Keyed, Having
<1>6. \A q \in Requests : OwnsItsCopy(q)'
  <2>1. \A p \in Requests : copy'[p] = IF p = r THEN free ELSE copy[p]
    BY <1>1 DEF IInv, TypeOK
  <2>2. \A p \in Requests : copy[p] # free /\ arch[p].tar # free
    BY <1>2 DEF Using
  <2>3. \A k \in Keys : cache[k].tar # free
    BY <1>2 DEF Using
  <2> SUFFICES ASSUME NEW q \in Requests PROVE OwnsItsCopy(q)'
    OBVIOUS
  <2>4. OwnsItsCopy(q)
    BY DEF IInv
  <2> QED  BY <1>4, <2>1, <2>2, <2>3, <2>4 DEF OwnsItsCopy
<1> QED  BY <1>3, <1>4, <1>5, <1>6, OthersStay, CachedStay DEF IInv

\* gzip's copy is written by nobody else, and whole when gzip ends well.
LEMMA UnzipBeginsKeeps ==
  ASSUME IInv, NEW r \in Requests, UnzipBegins(r)
  PROVE  IInv'
<1>0. /\ RequestIsSound(r) /\ pc[r] = "unzip" /\ copy[r] # OnDisk /\ arch[r] = NoArchive
      /\ copy[r] \in CopyNames /\ sent[r] = Missing
  BY DEF UnzipBegins, At, IInv, TypeOK, RequestIsSound, PlaceIsSound
<1>1. /\ copies' = [copies EXCEPT ![copy[r]] = [file EXCEPT !.whole = FALSE]]
      /\ Goto(r, "unzipping") /\ readAt' = [readAt EXCEPT ![r] = file]
      /\ UNCHANGED <<gz, file, cache, destroyed, key, copy, arch, range, answer, sent, since, serverVars>>
  BY DEF UnzipBegins
<1>2. TypeOK'
  <2>1. pc' \in [Requests -> Places]
    BY <1>1 DEF Goto, IInv, TypeOK, Places
  <2>2. [file EXCEPT !.whole = FALSE] \in Contents /\ file \in Contents
    BY DEF IInv, TypeOK, Contents
  <2>3. copies' \in [CopyNames -> Contents \cup {Missing}]
    BY <1>1, <2>2 DEF IInv, TypeOK
  <2>4. readAt' \in [Requests -> Contents \cup {Missing}]
    BY <1>1, <2>2 DEF IInv, TypeOK
  <2> QED  BY <1>1, <2>1, <2>3, <2>4 DEF serverVars, IInv, TypeOK
<1>3. OnlyMoves(r) /\ cache' = cache /\ copy' = copy /\ arch' = arch /\ file' = file
  BY <1>0, <1>1 DEF Goto, OnlyMoves, Stays, IInv, TypeOK
<1>4. RequestIsSound(r)'
  <2>1. pc'[r] = "unzipping"
    BY <1>1 DEF Goto, IInv, TypeOK
  <2> QED  BY <1>0, <1>1, <2>1 DEF RequestIsSound, SinceIsSound, KeyIsSound, CopyIsSound, PlaceIsSound,
                                   ArchIsSound, SentIsSound, AnswerIsSound, Keyed, Having
<1> QED  BY <1>2, <1>3, <1>4, OthersStay, CachedStay, NamesStay DEF IInv

LEMMA UnzipEndsKeeps ==
  ASSUME IInv, NEW r \in Requests, UnzipEnds(r)
  PROVE  IInv'
<1>0. /\ RequestIsSound(r) /\ pc[r] = "unzipping" /\ copy[r] # OnDisk /\ arch[r] = NoArchive
      /\ copy[r] \in CopyNames /\ sent[r] = Missing /\ file.whole
  BY DEF UnzipEnds, At, IInv, TypeOK, RequestIsSound, PlaceIsSound
<1>1. /\ copies' = [copies EXCEPT ![copy[r]] = file]
      /\ Goto(r, "index") /\ readAt' = [readAt EXCEPT ![r] = Missing]
      /\ UNCHANGED <<gz, file, cache, destroyed, key, copy, arch, range, answer, sent, since, serverVars>>
  BY DEF UnzipEnds
<1>2. TypeOK'
  <2>1. pc' \in [Requests -> Places]
    BY <1>1 DEF Goto, IInv, TypeOK, Places
  <2>2. copies' \in [CopyNames -> Contents \cup {Missing}]
    BY <1>1 DEF IInv, TypeOK
  <2>3. readAt' \in [Requests -> Contents \cup {Missing}]
    BY <1>1 DEF IInv, TypeOK
  <2> QED  BY <1>1, <2>1, <2>2, <2>3 DEF serverVars, IInv, TypeOK
<1>3. OnlyMoves(r) /\ cache' = cache /\ copy' = copy /\ arch' = arch /\ file' = file
  BY <1>0, <1>1 DEF Goto, OnlyMoves, Stays, IInv, TypeOK
<1>4. RequestIsSound(r)'
  <2>1. pc'[r] = "index" /\ copies'[copy[r]] = file
    BY <1>0, <1>1 DEF Goto, IInv, TypeOK
  <2>2. CopyIsSound(r)'
    <3>1. file \in since[r] /\ \A f \in since[r] : f.mtime <= file.mtime
      BY <1>0 DEF RequestIsSound, SinceIsSound
    <3>2. PICK f \in since[r] : f.mtime = key[r].mtime
      BY <1>0 DEF RequestIsSound, KeyIsSound, Keyed
    <3>3. key[r].mtime <= file.mtime
      BY <3>1, <3>2
    <3>4. PICK h : h = file
      OBVIOUS
    <3>5. Past(h)'
      BY <1>3, <3>4, FileIsPast, PastStays
    <3>6. copies'[copy'[r]] = file /\ Past(copies[copy[r]])'
      BY <1>1, <2>1, <3>4, <3>5 DEF Past
    <3> QED  BY <1>0, <1>1, <2>1, <3>1, <3>3, <3>6 DEF CopyIsSound
  <2> QED  BY <1>0, <1>1, <2>1, <2>2 DEF RequestIsSound, SinceIsSound, KeyIsSound, PlaceIsSound,
                                         ArchIsSound, SentIsSound, AnswerIsSound, Keyed, Having
<1> QED  BY <1>2, <1>3, <1>4, OthersStay, CachedStay, NamesStay DEF IInv

LEMMA UnzipFailsKeeps ==
  ASSUME IInv, NEW r \in Requests, UnzipFails(r)
  PROVE  IInv'
<1>0. /\ RequestIsSound(r) /\ pc[r] = "unzipping" /\ arch[r] = NoArchive /\ sent[r] = Missing
  BY DEF UnzipFails, At, IInv, RequestIsSound, PlaceIsSound
<1>1. /\ copies' = [copies EXCEPT ![copy[r]] = Missing] /\ Goto(r, "close")
      /\ UNCHANGED <<gz, file, cache, destroyed, key, copy, readAt, arch, range, answer, sent, since, serverVars>>
  BY DEF UnzipFails
<1>2. TypeOK'
  <2>1. pc' \in [Requests -> Places]
    BY <1>1 DEF Goto, IInv, TypeOK, Places
  <2>2. copies' \in [CopyNames -> Contents \cup {Missing}]
    BY <1>1 DEF IInv, TypeOK
  <2> QED  BY <1>1, <2>1, <2>2 DEF serverVars, IInv, TypeOK
<1>3. OnlyMoves(r) /\ cache' = cache /\ copy' = copy /\ arch' = arch /\ file' = file
  BY <1>0, <1>1 DEF Goto, OnlyMoves, Stays, IInv, TypeOK
<1>4. RequestIsSound(r)'
  <2>1. pc'[r] = "close"
    BY <1>1 DEF Goto, IInv, TypeOK
  <2> QED  BY <1>0, <1>1, <2>1 DEF RequestIsSound, SinceIsSound, KeyIsSound, CopyIsSound, PlaceIsSound,
                                   ArchIsSound, SentIsSound, AnswerIsSound, Early, Keyed, Having
<1> QED  BY <1>2, <1>3, <1>4, OthersStay, CachedStay, NamesStay DEF IInv

\* The Archive takes over the copy, and what was in it.
LEMMA IndexKeeps ==
  ASSUME IInv, NEW r \in Requests, Index(r)
  PROVE  IInv'
<1> DEFINE made == [tar |-> copy[r], of |-> Holds(copy[r])]
<1>0. /\ RequestIsSound(r) /\ pc[r] = "index" /\ sent[r] = Missing
      /\ copy[r] \in CopyNames \cup {OnDisk} /\ file \in since[r] /\ since[r] \subseteq Contents
      /\ OwnsItsCopy(r)
  BY DEF Index, At, IInv, TypeOK, RequestIsSound, PlaceIsSound, SinceIsSound
<1>1. /\ arch' = [arch EXCEPT ![r] = made] /\ copy' = [copy EXCEPT ![r] = OnDisk] /\ Goto(r, "insert")
      /\ UNCHANGED <<diskVars, key, readAt, range, answer, sent, since, serverVars>>
  BY DEF Index
<1>2. /\ Holds(copy[r]) \in since[r] /\ Past(Holds(copy[r]))
      /\ copy[r] # OnDisk => Holds(copy[r]) = copies[copy[r]] /\ Holds(copy[r]).whole
      /\ key[r].mtime <= Holds(copy[r]).mtime
  <2>1. CASE copy[r] # OnDisk
    BY <1>0, <2>1 DEF Holds, RequestIsSound, CopyIsSound
  <2>2. CASE copy[r] = OnDisk
    <3>1. PICK f \in since[r] : f.mtime = key[r].mtime
      BY <1>0 DEF RequestIsSound, KeyIsSound, Keyed
    <3>2. f.mtime <= file.mtime
      BY <1>0, <3>1 DEF RequestIsSound, SinceIsSound
    <3> QED  BY <1>0, <2>2, <3>1, <3>2, FileIsPast DEF Holds
  <2> QED  BY <2>1, <2>2
<1>3. made \in Archives
  BY <1>0, <1>2 DEF Archives
<1>4. TypeOK'
  <2>1. pc' \in [Requests -> Places]
    BY <1>1 DEF Goto, IInv, TypeOK, Places
  <2>2. arch' \in [Requests -> Archives \cup {NoArchive}]
    BY <1>1, <1>3 DEF IInv, TypeOK
  <2>3. copy' \in [Requests -> CopyNames \cup {OnDisk}]
    BY <1>1 DEF IInv, TypeOK
  <2> QED  BY <1>1, <2>1, <2>2, <2>3 DEF diskVars, serverVars, IInv, TypeOK
<1>5. OnlyMoves(r) /\ cache' = cache /\ file' = file
  BY <1>0, <1>1 DEF Goto, diskVars, OnlyMoves, Stays, IInv, TypeOK
<1>6. arch'[r] = made /\ made.tar = copy[r] /\ made.of = Holds(copy[r]) /\ copy'[r] = OnDisk
  BY <1>1 DEF IInv, TypeOK
<1> HIDE DEF made
<1>7. RequestIsSound(r)'
  <2>1. pc'[r] = "insert" /\ UNCHANGED <<gz, file, copies, key, range, answer, sent, since>>
    BY <1>1 DEF Goto, diskVars, IInv, TypeOK
  <2>2. Past(arch[r].of)'
    <3>1. PICK h : h = Holds(copy[r])
      OBVIOUS
    <3>2. Past(h)'
      BY <1>2, <1>5, <3>1, PastStays
    <3> QED  BY <1>6, <3>1, <3>2 DEF Past
  <2>3. Seen(r, arch[r].of)'
    BY <1>2, <1>6, <2>1 DEF Seen
  <2>4. ArchIsSound(r)'
    BY <1>0, <1>2, <1>3, <1>6, <2>1, <2>2, <2>3 DEF ArchIsSound
  <2> QED  BY <1>0, <1>6, <2>1, <2>4 DEF RequestIsSound, SinceIsSound, KeyIsSound, CopyIsSound, PlaceIsSound,
                                         SentIsSound, AnswerIsSound, Early, Keyed
<1>8. \A q \in Requests : OwnsItsCopy(q)'
  <2>1. \A p \in Requests : /\ copy'[p] = IF p = r THEN OnDisk ELSE copy[p]
                            /\ p # r => arch'[p] = arch[p]
    BY <1>1 DEF IInv, TypeOK
  <2> SUFFICES ASSUME NEW q \in Requests PROVE OwnsItsCopy(q)'
    OBVIOUS
  <2>2. OwnsItsCopy(q)
    BY DEF IInv
  <2> QED  BY <1>0, <1>5, <1>6, <2>1, <2>2 DEF OwnsItsCopy
<1> QED  BY <1>4, <1>5, <1>7, <1>8, OthersStay, CachedStay DEF IInv

LEMMA InsertKeeps ==
  ASSUME IInv, NEW r \in Requests, Insert(r)
  PROVE  IInv'
<1>0. /\ RequestIsSound(r) /\ pc[r] = "insert" /\ arch[r] \in Archives /\ copy[r] = OnDisk
      /\ sent[r] = Missing
      /\ Past(arch[r].of) /\ key[r].mtime <= arch[r].of.mtime
      /\ arch[r].tar # OnDisk => copies[arch[r].tar] = arch[r].of /\ arch[r].of.whole
  BY DEF Insert, At, IInv, RequestIsSound, PlaceIsSound, ArchIsSound, Having
<1>1. /\ cache' = [cache EXCEPT ![key[r]] = arch[r]] /\ Goto(r, "respond")
      /\ key' = [key EXCEPT ![r] = NoKey]
      /\ UNCHANGED <<gz, file, copies, destroyed, copy, readAt, arch, range, answer, sent, since, serverVars>>
  BY DEF Insert
<1>2. TypeOK'
  <2>1. pc' \in [Requests -> Places]
    BY <1>1 DEF Goto, IInv, TypeOK, Places
  <2>2. NoKey \in [size : Sizes, mtime : Seconds \cup {Blank}]
    BY NoKeyIsOne
  <2>3. key' \in [Requests -> [size : Sizes, mtime : Seconds \cup {Blank}]]
    BY <1>1, <2>2 DEF IInv, TypeOK
  <2>4. cache' \in [Keys -> Archives \cup {NoArchive}]
    BY <1>0, <1>1 DEF IInv, TypeOK
  <2> QED  BY <1>1, <2>1, <2>3, <2>4 DEF serverVars, IInv, TypeOK
<1>3. OnlyMoves(r) /\ copy' = copy /\ arch' = arch /\ file' = file
  BY <1>0, <1>1 DEF Goto, OnlyMoves, Stays, IInv, TypeOK
<1>4. RequestIsSound(r)'
  <2>1. pc'[r] = "respond"
    BY <1>1 DEF Goto, IInv, TypeOK
  <2>2. Seen(r, arch[r].of)
    BY <1>0 DEF RequestIsSound, ArchIsSound, Having
  <2>3. ArchIsSound(r)'
    BY <1>0, <1>1, <2>1, <2>2 DEF ArchIsSound, Seen
  <2> QED  BY <1>0, <1>1, <2>1, <2>3 DEF RequestIsSound, SinceIsSound, KeyIsSound, CopyIsSound,
                                         PlaceIsSound, SentIsSound, AnswerIsSound, Early, Keyed
<1>5. \A k \in Keys : cache'[k] = IF k = key[r] THEN arch[r] ELSE cache[k]
  BY <1>1 DEF IInv, TypeOK
<1>6. \A k \in Keys : CacheIsSound(k)'
  <2> SUFFICES ASSUME NEW k \in Keys, cache'[k] # NoArchive PROVE CacheIsSound(k)'
    BY DEF CacheIsSound
  <2>1. CacheIsSound(k)
    BY DEF IInv
  <2>2. PICK h : h = cache'[k].of
    OBVIOUS
  <2>3. Past(h)
    BY <1>0, <1>5, <2>1, <2>2 DEF CacheIsSound
  <2>4. Past(h)'
    BY <1>3, <2>3, PastStays
  <2>5. Past(cache[k].of)'
    BY <2>2, <2>4 DEF Past
  <2> QED  BY <1>0, <1>1, <1>5, <2>1, <2>5 DEF CacheIsSound
<1>7. \A q \in Requests : OwnsItsCopy(q)'
  <2> SUFFICES ASSUME NEW q \in Requests PROVE OwnsItsCopy(q)'
    OBVIOUS
  <2>1. OwnsItsCopy(q)
    BY DEF IInv
  <2> QED  BY <1>0, <1>3, <1>5, <2>1 DEF OwnsItsCopy
<1> QED  BY <1>2, <1>3, <1>4, <1>6, <1>7, OthersStay DEF IInv

LEMMA AnswerHasType ==
  ASSUME IInv, NEW r \in Requests, \E total \in Lengths : Answer(r, total)
  PROVE  /\ range' \in [Requests -> Ranges \cup {NoHeader}]
         /\ answer' \in [Requests -> Answers \cup {NoAnswer}]
         /\ range'[r] \in Ranges /\ answer'[r].total \in Lengths
         /\ answer'[r] = applyRange(range'[r], answer'[r].total)
<1>1. PICK total \in Lengths : Answer(r, total)
  OBVIOUS
<1>2. PICK h \in Ranges : /\ range' = [range EXCEPT ![r] = h]
                          /\ answer' = [answer EXCEPT ![r] = applyRange(h, total)]
  BY <1>1 DEF Answer
<1>3. h \in Headers /\ total \in Nat
  BY ExplorerAssumption DEF Headers
<1> DEFINE a == applyRange(h, total)
<1>4. a \in [status : {200, 206, 416}, from : 0..total, length : 0..total, total : {total}]
  BY <1>3, RangesAreHonest
<1> HIDE DEF a
<1>5. a \in Answers /\ a.total = total
  BY <1>4 DEF Answers
<1>6. answer \in [Requests -> Answers \cup {NoAnswer}] /\ range \in [Requests -> Ranges \cup {NoHeader}]
  BY DEF IInv, TypeOK
<1>7. range'[r] = h /\ answer'[r] = a
  BY <1>2, <1>6 DEF a
<1>8. answer' \in [Requests -> Answers \cup {NoAnswer}]
  BY <1>2, <1>5, <1>6 DEF a
<1>9. range' \in [Requests -> Ranges \cup {NoHeader}]
  BY <1>2, <1>6
<1> QED  BY <1>5, <1>7, <1>8, <1>9 DEF a

LEMMA RespondKeeps ==
  ASSUME IInv, NEW r \in Requests, Respond(r)
  PROVE  IInv'
<1>0. /\ RequestIsSound(r) /\ pc[r] = "respond" /\ copy[r] = OnDisk /\ sent[r] = Missing
  BY DEF Respond, At, IInv, RequestIsSound, PlaceIsSound
<1>1. /\ \/ /\ Goto(r, "send")
            /\ \E total \in Lengths : Answer(r, total)
         \/ Goto(r, "close") /\ range' = range /\ answer' = answer
      /\ UNCHANGED <<diskVars, key, copy, readAt, arch, sent, since, serverVars>>
  BY DEF Respond
<1>2. TypeOK'
  <2>1. pc' \in [Requests -> Places]
    BY <1>1 DEF Goto, IInv, TypeOK, Places
  <2>2. /\ range' \in [Requests -> Ranges \cup {NoHeader}]
        /\ answer' \in [Requests -> Answers \cup {NoAnswer}]
    BY <1>1, AnswerHasType DEF IInv, TypeOK
  <2> QED  BY <1>1, <2>1, <2>2 DEF diskVars, serverVars, IInv, TypeOK
<1>3. OnlyMoves(r) /\ cache' = cache /\ copy' = copy /\ arch' = arch /\ file' = file
  <2>1. \A q \in Requests \ {r} : range'[q] = range[q] /\ answer'[q] = answer[q]
    BY <1>1 DEF Answer, IInv, TypeOK
  <2> QED  BY <1>0, <1>1, <2>1 DEF Goto, diskVars, OnlyMoves, Stays, IInv, TypeOK
<1>4. RequestIsSound(r)'
  <2>1. /\ pc'[r] \in {"send", "close"}
        /\ UNCHANGED <<file, copies, key, copy, arch, sent, since>>
    BY <1>1 DEF Goto, diskVars, IInv, TypeOK
  <2>2. AnswerIsSound(r)'
    BY <1>1, <2>1, AnswerHasType DEF AnswerIsSound, Goto, IInv, TypeOK
  <2>3. ArchIsSound(r)'
    BY <1>0, <2>1 DEF RequestIsSound, ArchIsSound, Seen, Having
  <2> QED  BY <1>0, <2>1, <2>2, <2>3 DEF RequestIsSound, SinceIsSound, KeyIsSound, CopyIsSound,
                                         PlaceIsSound, SentIsSound, Early, Keyed
<1> QED  BY <1>2, <1>3, <1>4, OthersStay, CachedStay, NamesStay DEF IInv

\* A file of the backup is answered from as it is, whatever its size was.
LEMMA OpenFileKeeps ==
  ASSUME IInv, NEW r \in Requests, OpenFile(r)
  PROVE  IInv'
<1> DEFINE made == [tar |-> OnDisk, of |-> file]
<1>0. /\ RequestIsSound(r) /\ pc[r] = "reading" /\ copy[r] = OnDisk /\ sent[r] = Missing
      /\ file \in since[r] /\ file \in Contents
  BY DEF OpenFile, At, IInv, TypeOK, RequestIsSound, PlaceIsSound, SinceIsSound
<1>1. /\ Goto(r, "send") /\ arch' = [arch EXCEPT ![r] = made]
      /\ \E total \in Lengths : Answer(r, total)
      /\ UNCHANGED <<diskVars, key, copy, readAt, sent, since, serverVars>>
  BY DEF OpenFile
<1>2. made \in Archives
  BY <1>0 DEF Archives
<1>3. TypeOK'
  <2>1. pc' \in [Requests -> Places]
    BY <1>1 DEF Goto, IInv, TypeOK, Places
  <2>2. /\ range' \in [Requests -> Ranges \cup {NoHeader}]
        /\ answer' \in [Requests -> Answers \cup {NoAnswer}]
    BY <1>1, AnswerHasType DEF IInv, TypeOK
  <2>3. arch' \in [Requests -> Archives \cup {NoArchive}]
    BY <1>1, <1>2 DEF IInv, TypeOK
  <2> QED  BY <1>1, <2>1, <2>2, <2>3 DEF diskVars, serverVars, IInv, TypeOK
<1>4. OnlyMoves(r) /\ cache' = cache /\ copy' = copy /\ file' = file
  <2>1. \A q \in Requests \ {r} : range'[q] = range[q] /\ answer'[q] = answer[q]
    BY <1>1 DEF Answer, IInv, TypeOK
  <2> QED  BY <1>0, <1>1, <2>1 DEF Goto, diskVars, OnlyMoves, Stays, IInv, TypeOK
<1>5. arch'[r] = made /\ made.tar = OnDisk /\ made.of = file
  BY <1>1 DEF IInv, TypeOK
<1> HIDE DEF made
<1>6. RequestIsSound(r)'
  <2>1. pc'[r] = "send" /\ UNCHANGED <<file, copies, key, copy, sent, since>>
    BY <1>1 DEF Goto, diskVars, IInv, TypeOK
  <2>2. AnswerIsSound(r)'
    BY <1>1, <2>1, AnswerHasType DEF AnswerIsSound, Goto, IInv, TypeOK
  <2>3. ArchIsSound(r)'
    BY <1>0, <1>2, <1>5, <2>1 DEF ArchIsSound, Seen
  <2> QED  BY <1>0, <2>1, <2>2, <2>3 DEF RequestIsSound, SinceIsSound, KeyIsSound, CopyIsSound,
                                         PlaceIsSound, SentIsSound, Early, Keyed, Having
<1>7. \A q \in Requests : OwnsItsCopy(q)'
  <2> SUFFICES ASSUME NEW q \in Requests PROVE OwnsItsCopy(q)'
    OBVIOUS
  <2>1. OwnsItsCopy(q)
    BY DEF IInv
  <2>2. \A p \in Requests : p # r => arch'[p] = arch[p]
    BY <1>1 DEF IInv, TypeOK
  <2> QED  BY <1>0, <1>4, <1>5, <2>1, <2>2 DEF OwnsItsCopy
<1> QED  BY <1>3, <1>4, <1>6, <1>7, OthersStay, CachedStay DEF IInv

\* What is sent is the copy that was indexed, or what the archive is now.
LEMMA SendKeeps ==
  ASSUME IInv, NEW r \in Requests, Send(r)
  PROVE  IInv'
<1>0. /\ RequestIsSound(r) /\ pc[r] = "send" /\ copy[r] = OnDisk /\ sent[r] = Missing
      /\ arch[r] \in Archives /\ Seen(r, arch[r].of) /\ file \in since[r] /\ file \in Contents
      /\ arch[r].tar # OnDisk => copies[arch[r].tar] = arch[r].of /\ arch[r].of.whole
  BY DEF Send, At, IInv, TypeOK, RequestIsSound, PlaceIsSound, ArchIsSound, SinceIsSound, Having
<1>1. /\ Goto(r, "close")
      /\ \/ sent' = [sent EXCEPT ![r] = IF answer[r].status = 416 THEN @ ELSE Holds(arch[r].tar)]
         \/ sent' = sent
      /\ range' = [range EXCEPT ![r] = NoHeader] /\ answer' = [answer EXCEPT ![r] = NoAnswer]
      /\ UNCHANGED <<diskVars, key, copy, readAt, arch, since, serverVars>>
  BY DEF Send
<1>2. /\ Holds(arch[r].tar) = IF arch[r].tar # OnDisk THEN arch[r].of ELSE file
      /\ Holds(arch[r].tar) \in Contents
  BY <1>0 DEF Holds, Archives
<1>3. TypeOK'
  <2>1. pc' \in [Requests -> Places]
    BY <1>1 DEF Goto, IInv, TypeOK, Places
  <2>2. range' \in [Requests -> Ranges \cup {NoHeader}]
    BY <1>1 DEF IInv, TypeOK
  <2>4. answer' \in [Requests -> Answers \cup {NoAnswer}]
    BY <1>1 DEF IInv, TypeOK
  <2>5. sent' \in [Requests -> Contents \cup {Missing}]
    BY <1>0, <1>1, <1>2 DEF IInv, TypeOK
  <2> QED  BY <1>1, <2>1, <2>2, <2>4, <2>5 DEF diskVars, serverVars, IInv, TypeOK
<1>4. OnlyMoves(r) /\ cache' = cache /\ copy' = copy /\ arch' = arch /\ file' = file
  BY <1>0, <1>1 DEF Goto, diskVars, OnlyMoves, Stays, IInv, TypeOK
<1>5. RequestIsSound(r)'
  <2>1. /\ pc'[r] = "close" /\ UNCHANGED <<gz, file, copies, key, copy, arch, since>>
        /\ sent'[r] \in {Missing, Holds(arch[r].tar)}
    BY <1>0, <1>1 DEF Goto, diskVars, IInv, TypeOK
  <2>2. SentIsSound(r)'
    BY <1>0, <1>2, <2>1 DEF SentIsSound, Seen
  <2> QED  BY <1>0, <2>1, <2>2 DEF RequestIsSound, SinceIsSound, KeyIsSound, CopyIsSound, PlaceIsSound,
                                   ArchIsSound, AnswerIsSound, Early, Keyed, Having
<1> QED  BY <1>3, <1>4, <1>5, OthersStay, CachedStay, NamesStay DEF IInv

\* The request's end; the last one, once run() has let go, takes the cache.
LEMMA CloseKeeps ==
  ASSUME IInv, NEW r \in Requests, Close(r)
  PROVE  IInv'
<1>1. /\ Goto(r, "idle")
      /\ key' = [key EXCEPT ![r] = NoKey] /\ copy' = [copy EXCEPT ![r] = OnDisk]
      /\ readAt' = [readAt EXCEPT ![r] = Missing] /\ arch' = [arch EXCEPT ![r] = NoArchive]
      /\ sent' = [sent EXCEPT ![r] = Missing] /\ since' = [since EXCEPT ![r] = {}]
      /\ inline' = IF inline = r THEN Nobody ELSE inline
      /\ UNCHANGED <<gz, file, range, answer, main, accepted, stopping, listening>>
      /\ \/ LastReference(Active \ {r}) /\ RemoveCache
         \/ UNCHANGED <<copies, cache, destroyed>>
  BY DEF Close
<1>2. TypeOK'
  <2>1. pc' \in [Requests -> Places] /\ inline' \in Requests \cup {Nobody}
    BY <1>1 DEF Goto, IInv, TypeOK, Places
  <2>2. NoKey \in [size : Sizes, mtime : Seconds \cup {Blank}]
    BY NoKeyIsOne
  <2>3. key' \in [Requests -> [size : Sizes, mtime : Seconds \cup {Blank}]]
    BY <1>1, <2>2 DEF IInv, TypeOK
  <2>4. /\ copy' \in [Requests -> CopyNames \cup {OnDisk}]
        /\ readAt' \in [Requests -> Contents \cup {Missing}]
        /\ arch' \in [Requests -> Archives \cup {NoArchive}]
        /\ sent' \in [Requests -> Contents \cup {Missing}]
        /\ since' \in [Requests -> SUBSET Contents]
    BY <1>1 DEF IInv, TypeOK
  <2>5. /\ copies' \in [CopyNames -> Contents \cup {Missing}] /\ destroyed' \in BOOLEAN
        /\ cache' \in [Keys -> Archives \cup {NoArchive}]
    <3>1. CASE RemoveCache
      BY <3>1 DEF RemoveCache
    <3>2. CASE UNCHANGED <<copies, cache, destroyed>>
      BY <3>2 DEF IInv, TypeOK
    <3> QED  BY <1>1, <3>1, <3>2
  <2> QED  BY <1>1, <2>1, <2>3, <2>4, <2>5 DEF IInv, TypeOK
<1>3. /\ pc'[r] = "idle" /\ copy'[r] = OnDisk /\ arch'[r] = NoArchive /\ sent'[r] = Missing
      /\ \A q \in Requests \ {r} : Stays(q)
  BY <1>1 DEF Goto, Stays, IInv, TypeOK
<1>4. CASE LastReference(Active \ {r}) /\ RemoveCache
  <2>1. \A q \in Requests \ {r} : pc[q] = "idle"
    BY <1>4 DEF LastReference, Active
  <2>2. \A q \in Requests \ {r} : copy[q] = OnDisk /\ arch[q] = NoArchive /\ sent[q] = Missing
    BY <2>1 DEF IInv, RequestIsSound, PlaceIsSound, Early
  <2> QED  BY <1>1, <1>2, <1>3, <1>4, <2>1, <2>2, RemoveCacheKeeps DEF Stays
<1>5. CASE UNCHANGED <<copies, cache, destroyed>>
  <2>1. OnlyMoves(r) /\ cache' = cache
    BY <1>1, <1>3, <1>5 DEF OnlyMoves
  <2>2. RequestIsSound(r)'
    BY <1>3 DEF RequestIsSound, SinceIsSound, KeyIsSound, CopyIsSound, PlaceIsSound,
                ArchIsSound, SentIsSound, AnswerIsSound, Keyed, Having
  <2>3. \A q \in Requests : OwnsItsCopy(q)'
    <3> SUFFICES ASSUME NEW q \in Requests PROVE OwnsItsCopy(q)'
      OBVIOUS
    <3>1. OwnsItsCopy(q)
      BY DEF IInv
    <3>2. q # r => copy[q] \in CopyNames \cup {OnDisk} /\ NoArchive.tar \notin CopyNames
      BY NamesAreNatural DEF IInv, TypeOK, NoArchive, Blank
    <3> QED  BY <1>3, <2>1, <3>1, <3>2 DEF OwnsItsCopy, Stays
  <2> QED  BY <1>1, <1>2, <2>1, <2>2, <2>3, OthersStay, CachedStay DEF IInv
<1> QED  BY <1>1, <1>4, <1>5

-----------------------------------------------------------------------------
(* The backup's steps.                                                     *)

\* Each is at the second of the one before it, or later.
LEMMA BackupKeeps ==
  ASSUME IInv, Truncate \/ Fill
  PROVE  IInv'
<1>1. PICK f : Becomes(f) /\ f \in Contents /\ file.mtime <= f.mtime /\ f.mtime <= f.ver
  <2>1. PICK done \in BOOLEAN : Write(done)
    BY DEF Truncate, Fill
  <2>2. PICK second \in {file.mtime, file.mtime + 1} :
          Becomes([ver |-> file.ver + 1, whole |-> done, mtime |-> second])
    BY <2>1 DEF Write
  <2>3. file.ver \in 0..MaxWrites /\ file.ver < MaxWrites /\ MaxWrites \in Nat /\ file.mtime \in Nat
    BY <2>1, ExplorerAssumption, FileHasASecond DEF Write, IInv, TypeOK, Contents
  <2>4. file.mtime <= file.ver
    BY DEF IInv
  <2> DEFINE g == [ver |-> file.ver + 1, whole |-> done, mtime |-> second]
  <2>5. g \in Contents /\ file.mtime <= g.mtime /\ g.mtime <= g.ver
    BY <2>3, <2>4 DEF Contents, Seconds
  <2> QED  BY <2>2, <2>5
<1>2. /\ file' = f
      /\ since' = [r \in Requests |-> IF r \in Active THEN since[r] \cup {f} ELSE {}]
      /\ UNCHANGED <<gz, copies, cache, destroyed, pc, key, copy, readAt, arch, range, answer, sent,
                     serverVars>>
  BY <1>1 DEF Becomes
<1>3. TypeOK'
  <2>1. since' \in [Requests -> SUBSET Contents]
    BY <1>1, <1>2 DEF IInv, TypeOK
  <2> QED  BY <1>1, <1>2, <2>1 DEF serverVars, IInv, TypeOK
<1>7. ASSUME NEW h \in Contents, Past(h) PROVE Past(h)'
  <2>1. h.mtime \in Nat /\ f.mtime \in Nat /\ h.mtime <= f.mtime
    BY <1>1, <1>7, ExplorerAssumption, FileHasASecond DEF Contents, Seconds, Past
  <2> QED  BY <1>2, <1>7, <2>1 DEF Past, Active
<1>4. \A r \in Requests : RequestIsSound(r)'
  <2> SUFFICES ASSUME NEW r \in Requests PROVE RequestIsSound(r)'
    OBVIOUS
  <2>1. RequestIsSound(r)
    BY DEF IInv
  <2>2. since[r] \subseteq since'[r] \/ pc[r] = "idle"
    BY <1>2 DEF Active
  <2>3. SinceIsSound(r)'
    <3> SUFFICES ASSUME pc[r] # "idle" PROVE SinceIsSound(r)'
      BY <1>2 DEF SinceIsSound
    <3>1. since'[r] = since[r] \cup {f} /\ since[r] \subseteq Contents
      BY <1>2 DEF Active, IInv, TypeOK
    <3>2. \A g \in Contents : g.mtime \in Nat
      BY ExplorerAssumption DEF Contents, Seconds
    <3>3. \A g \in since[r] : g.mtime <= file.mtime
      BY <2>1 DEF SinceIsSound, RequestIsSound
    <3>4. \A g \in since'[r] : g.mtime <= f.mtime
      BY <1>1, <3>1, <3>2, <3>3, FileHasASecond
    <3> QED  BY <1>2, <3>1, <3>4 DEF SinceIsSound
  <2>4. PlaceIsSound(r)' /\ AnswerIsSound(r)'
    BY <1>2, <2>1 DEF RequestIsSound, PlaceIsSound, AnswerIsSound
  <2>5. KeyIsSound(r)'
    BY <1>2, <2>1, <2>2 DEF RequestIsSound, KeyIsSound, Keyed
  <2>6. CopyIsSound(r)'
    <3> SUFFICES ASSUME pc[r] = "index", copy[r] # OnDisk PROVE CopyIsSound(r)'
      BY <1>2 DEF CopyIsSound
    <3>1. copies[copy[r]] \in Contents /\ Past(copies[copy[r]])
      BY <2>1 DEF RequestIsSound, CopyIsSound, IInv, TypeOK
    <3>2. Past(copies[copy[r]])'
      BY <1>2, <1>7, <3>1 DEF Past
    <3> QED  BY <1>2, <2>1, <2>2, <3>2 DEF RequestIsSound, CopyIsSound
  <2>7. ArchIsSound(r)'
    <3>1. pc[r] \in Having => Seen(r, arch[r].of)'
      BY <1>2, <2>1, <2>2 DEF RequestIsSound, ArchIsSound, Having, Seen
    <3>2. pc[r] = "insert" => Past(arch[r].of)'
      <4>1. pc[r] = "insert" => Past(arch[r].of) /\ arch[r].of \in Contents
        BY <2>1 DEF RequestIsSound, ArchIsSound, Archives, Having
      <4> QED  BY <1>2, <1>7, <4>1 DEF Past
    <3> QED  BY <1>2, <2>1, <3>1, <3>2 DEF RequestIsSound, ArchIsSound
  <2>8. SentIsSound(r)'
    <3> SUFFICES ASSUME sent[r] # Missing PROVE SentIsSound(r)'
      BY <1>2 DEF SentIsSound
    <3>1. pc[r] # "idle" /\ since[r] \subseteq since'[r]
      BY <2>1, <2>2 DEF RequestIsSound, PlaceIsSound
    <3> QED  BY <1>2, <2>1, <3>1 DEF RequestIsSound, SentIsSound, Seen
  <2> QED  BY <2>3, <2>4, <2>5, <2>6, <2>7, <2>8 DEF RequestIsSound
<1>5. \A k \in Keys : CacheIsSound(k)'
  <2> SUFFICES ASSUME NEW k \in Keys, cache[k] # NoArchive PROVE CacheIsSound(k)'
    BY <1>2 DEF CacheIsSound
  <2>1. CacheIsSound(k)
    BY DEF IInv
  <2>2. cache[k].of \in Contents /\ Past(cache[k].of)
    BY <2>1 DEF IInv, TypeOK, Archives, CacheIsSound
  <2>3. Past(cache[k].of)'
    BY <1>2, <1>7, <2>2 DEF Past
  <2> QED  BY <1>2, <2>1, <2>3 DEF CacheIsSound
<1>6. \A r \in Requests : OwnsItsCopy(r)'
  BY <1>2, NamesStay
<1> QED  BY <1>1, <1>2, <1>3, <1>4, <1>5, <1>6 DEF IInv

-----------------------------------------------------------------------------
(* The theorems.                                                           *)

LEMMA StepKeeps == IInv /\ [Next]_vars => IInv'
<1> SUFFICES ASSUME IInv, [Next]_vars PROVE IInv'
  OBVIOUS
<1>1. CASE Top \/ AcceptFails \/ Stop \/ CloseListener \/ MainReturns
  <2>1. UNCHANGED <<diskVars, requestVars>>
    BY <1>1 DEF Top, AcceptFails, Stop, CloseListener, MainReturns
  <2>2. TypeOK'
    <3>1. /\ main' \in {"top", "accept", "out", "released", "exited"}
          /\ stopping' \in BOOLEAN /\ listening' \in BOOLEAN
          /\ accepted' = accepted /\ inline' = inline
      <4>1. CASE Top
        BY <4>1 DEF Top, IInv, TypeOK
      <4>2. CASE AcceptFails \/ MainReturns
        BY <4>2 DEF AcceptFails, MainReturns, IInv, TypeOK
      <4>3. CASE Stop \/ CloseListener
        BY <4>3 DEF Stop, CloseListener, IInv, TypeOK
      <4> QED  BY <1>1, <4>1, <4>2, <4>3
    <3> QED  BY <2>1, <3>1 DEF diskVars, requestVars, IInv, TypeOK
  <2> QED  BY <2>1, <2>2, ServerKeeps DEF requestVars
<1>2. CASE MainReleases
  BY <1>2, MainReleasesKeeps
<1>3. ASSUME NEW r \in Requests, Accept(r) \/ ReadRequest(r) \/ OpenFile(r) \/ ReadFails(r)
      PROVE  IInv'
  BY <1>3, AcceptKeeps, MovesKeep, OpenFileKeeps
<1>4. ASSUME NEW r \in Requests, Serve(r) PROVE IInv'
  BY <1>4, MovesKeep, StatKeeps, LookupKeeps, NameCopyKeeps, UnzipBeginsKeeps, UnzipEndsKeeps, UnzipFailsKeeps,
     IndexKeeps, InsertKeeps, RespondKeeps, SendKeeps, CloseKeeps DEF Serve
<1>5. CASE Truncate \/ Fill
  BY <1>5, BackupKeeps
<1>6. CASE UNCHANGED vars
  <2>1. UNCHANGED <<diskVars, requestVars, serverVars>>
    BY <1>6 DEF vars
  <2>2. TypeOK'
    BY <2>1 DEF diskVars, requestVars, serverVars, IInv, TypeOK
  <2> QED  BY <2>1, <2>2, ServerKeeps DEF requestVars
<1> QED  BY <1>1, <1>2, <1>3, <1>4, <1>5, <1>6 DEF Next

\* The invariant of the explorer and its server.
THEOREM Invariant == Spec => []IInv
<1> QED  BY InitIsSound, StepKeeps, PTL DEF Spec

\* Every variable has its type (the sizes, names and places of Explorer).
THEOREM TypeCorrect == Spec => []TypeOK
<1>1. IInv => TypeOK
  BY DEF IInv
<1> QED  BY <1>1, Invariant, PTL

\* A request lists the archive as it was in one of the seconds it has been of
\* since the request came in, whatever the cache held, however often it was
\* rewritten meanwhile and however many of its writes shared a second and a size
\* (openArchive, BackupExplorer.cpp).
THEOREM ListingsAreCurrent == Spec => []ListingIsCurrent
<1>1. IInv => ListingIsCurrent
  BY DEF IInv, RequestIsSound, ArchIsSound, Seen, Having, ListingIsCurrent
<1> QED  BY <1>1, Invariant, PTL

LEMMA ContentsAreFinite == IsFiniteSet(Contents)
<1> DEFINE Triples == (Seconds \X BOOLEAN) \X Seconds
           f == [p \in Triples |-> [ver |-> p[1][1], whole |-> p[1][2], mtime |-> p[2]]]
<1>1. IsFiniteSet(Seconds) /\ IsFiniteSet(BOOLEAN)
  <2>1. IsFiniteSet(Seconds)
    BY FS_Interval, ExplorerAssumption DEF Seconds
  <2>2. IsFiniteSet({TRUE} \cup {FALSE})
    BY FS_Singleton, FS_Union
  <2>3. BOOLEAN = {TRUE} \cup {FALSE}
    OBVIOUS
  <2> QED  BY <2>1, <2>2, <2>3
<1>2. IsFiniteSet(Triples)
  <2>1. IsFiniteSet(Seconds \X BOOLEAN)
    BY <1>1, FS_Product
  <2> QED  BY <1>1, <2>1, FS_Product
<1>3. f \in Surjection(Triples, Contents)
  <2>1. f \in [Triples -> Contents]
    BY DEF Contents, Seconds
  <2>2. ASSUME NEW c \in Contents PROVE \E p \in Triples : f[p] = c
    <3>1. /\ c = [ver |-> c.ver, whole |-> c.whole, mtime |-> c.mtime]
          /\ c.ver \in Seconds /\ c.whole \in BOOLEAN /\ c.mtime \in Seconds
      BY DEF Contents, Seconds
    <3>2. <<<<c.ver, c.whole>>, c.mtime>> \in Triples
      BY <3>1
    <3>3. f[<<<<c.ver, c.whole>>, c.mtime>>] = c
      BY <3>1, <3>2
    <3> QED  BY <3>2, <3>3
  <2> HIDE DEF f, Triples
  <2> QED  BY <2>1, <2>2 DEF Surjection
<1> HIDE DEF f, Triples
<1> QED  BY <1>2, <1>3, FS_Surjection

\* The bytes sent are those of the copy that was indexed, for no two copies share
\* a name and a copy is complete before it is served, or those of the archive in
\* the second the index is of, unless it was rewritten meanwhile (openArchive,
\* BackupExplorer.cpp).
THEOREM MembersAreWhole == Spec => []MemberIsWhole
<1>1. IInv => MemberIsWhole
  <2> SUFFICES ASSUME IInv, NEW r \in Requests, sent[r] # Missing,
                      arch[r].tar = OnDisk => Cardinality(since[r]) = 1
               PROVE  IF arch[r].tar # OnDisk THEN sent[r] = arch[r].of /\ sent[r].whole
                                              ELSE sent[r].mtime = arch[r].of.mtime
    BY DEF MemberIsWhole
  <2>1. SentIsSound(r) /\ since[r] \subseteq Contents
    BY DEF IInv, TypeOK, RequestIsSound
  <2>2. CASE arch[r].tar # OnDisk
    BY <2>1, <2>2 DEF SentIsSound
  <2>3. CASE arch[r].tar = OnDisk
    <3>1. IsFiniteSet(since[r])
      BY <2>1, ContentsAreFinite, FS_Subset
    <3>2. PICK f : since[r] = {f}
      BY <2>3, <3>1, FS_Singleton
    <3> QED  BY <2>1, <2>3, <3>2 DEF SentIsSound, Seen
  <2> QED  BY <2>2, <2>3
<1> QED  BY <1>1, Invariant, PTL

\* A copy that a request will read from is there until it has: the cache goes
\* with the last reference to the app, and no request runs then
\* (~BackupExplorer; GuiServer::run hands every handler a reference).
THEOREM CacheOutlivesItsReaders == Spec => []CacheOutlivesReaders
<1>1. IInv => CacheOutlivesReaders
  <2> SUFFICES ASSUME IInv, NEW r \in Requests, pc[r] \in {"respond", "send"}, arch[r].tar # OnDisk
               PROVE  copies[arch[r].tar] # Missing
    BY DEF CacheOutlivesReaders
  <2>1. ArchIsSound(r) /\ since[r] \subseteq Contents
    BY DEF IInv, TypeOK, RequestIsSound
  <2>2. copies[arch[r].tar] \in Contents
    BY <2>1 DEF ArchIsSound, Archives, Having
  <2> QED  BY <2>2, MissingIsNoContent
<1> QED  BY <1>1, Invariant, PTL

\* Every answer has the bytes its Range header asked for, whatever the header
\* and the member's length.
THEOREM AnswersAreHonest == Spec => []RangeIsHonest
<1>1. IInv => RangeIsHonest
  <2> SUFFICES ASSUME IInv, NEW r \in Requests, pc[r] = "send"
               PROVE  Honest(range[r], answer[r], answer[r].total)
    BY DEF RangeIsHonest, Honest
  <2>1. /\ range[r] \in Ranges /\ answer[r].total \in Lengths
        /\ answer[r] = applyRange(range[r], answer[r].total)
    BY DEF IInv, RequestIsSound, AnswerIsSound
  <2>2. range[r] \in Headers /\ answer[r].total \in Nat
    BY <2>1, ExplorerAssumption DEF Headers
  <2>3. PICK total \in Nat : total = answer[r].total
    BY <2>2
  <2>4. Honest(range[r], applyRange(range[r], total), total)
    BY <2>2, RangesAreHonest
  <2> HIDE DEF Honest, applyRange
  <2> QED  BY <2>1, <2>3, <2>4
<1> QED  BY <1>1, Invariant, PTL
=============================================================================
