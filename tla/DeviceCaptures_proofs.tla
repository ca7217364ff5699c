----------------------- MODULE DeviceCaptures_proofs -----------------------
(***************************************************************************)
(* Theorems about DeviceCaptures for every device, every list of paths and *)
(* any number of backups and restores: the directories a manifest names    *)
(* are its own, shared storage is called restored only if it is, a run     *)
(* that reports success left out nothing it was asked for, and what it     *)
(* pulls is the least list of paths that has everything.                   *)
(***************************************************************************)
EXTENDS DeviceCaptures, SequenceTheorems, FiniteSetTheorems, WellFoundedInduction, TLAPS

\* std::to_string; the prover knows nothing of the numerals, so that those of
\* two numbers differ is a hypothesis of what depends on it.
NumeralsDiffer == \A m, n \in Nat : Numeral(m) = Numeral(n) => m = n

Piece == (UNION {ToSet(path) : path \in Present}) \cup {"_"} \cup {Numeral(n) : n \in Nat}
Names == Seq(Piece)
Captures == Seq([path : Present, name : Names, complete : BOOLEAN])

Away == {"restore", "push", "extract"}

-----------------------------------------------------------------------------
(* The inductive invariant.                                                *)

Types ==
  /\ pc \in {"idle", "asked", "shared", "pullShared", "cards", "loop", "pull", "manifest"}
           \cup Away
  /\ runs \in Nat /\ restores \in Nat /\ manifest.run \in 0..runs
  /\ pushes \in [pushed : Nat, allOk : BOOLEAN] /\ sharedRestored \in BOOLEAN

\* When what is in memory is empty, and which comes first of a run, its
\* manifest and a restore.
Order ==
  /\ ~Settled => manifest.run < runs
  /\ restores > 0 => pc \in Away \cup {"idle"}
  /\ pc \in Away \/ sharedRestored => restores > 0
  /\ Settled \/ pc \in {"shared", "pullShared", "cards"} => captures = <<>> /\ used = <<>>
  /\ Settled \/ pc \in {"shared", "pullShared"} => shared = NoShared

NamesTyped == used \in Seq(Names) /\ captures \in Captures

\* What has been captured so far is in its directory, whose name is taken, and
\* the capture in progress has another.
CapturesFit ==
  /\ \A n \in 1..Len(captures) :
       /\ Contains(used, captures[n].name) /\ captures[n].name \in DOMAIN dirs
       /\ dirs[captures[n].name] = Tree(captures[n].path, runs,
                                       IF captures[n].complete THEN "whole" ELSE "some")
  /\ pc = "pull" =>
       /\ Cur \in Present /\ used # <<>>
       /\ \A n \in 1..Len(captures) : captures[n].name # Last(used)

SharedFits ==
  /\ shared.kind = "dir" => sharedDir = shared.bytes
  /\ shared.kind = "tar" => sharedTar = shared.bytes

\* What is on the phone and what is still to come are the whole of it.
RestoreFits ==
  /\ pc \in Away => ~sharedRestored /\ manifest.run > 0
  /\ pc = "restore" => phone = {}
  /\ pc = "push" => /\ HasTree
                    /\ pushes.allOk => left \cup phone = EntriesOf(sharedDir.part)
  /\ pc = "extract" => HasArchive /\ left = EntriesOf(sharedTar.part)

SharedIsOwn ==
  (Settled /\ manifest.run > 0 /\ manifest.run = runs) =>
    /\ manifest.shared.kind = "dir" => sharedDir = manifest.shared.bytes
    /\ manifest.shared.kind = "tar" => sharedTar = manifest.shared.bytes

\* Only the captures depend on the names being different.
CapturesInv == NamesTyped /\ CapturesFit /\ CapturesAreTheirOwn
IInv ==
  /\ Types /\ Order /\ SharedFits /\ RestoreFits /\ SharedIsOwn /\ SharedRestoredIsTrue
  /\ NumeralsDiffer => CapturesInv

-----------------------------------------------------------------------------
(* The name of a capture is free (uniqueName).                             *)

LEMMA SanitizeType ==
  ASSUME CapturesAssumption, NEW path \in Present
  PROVE  Sanitize(path) \in Names
<1> DEFINE m == IF Len(path) = 0 THEN 0 ELSE Len(path) - 1
           Flat(x) == IF x = "/" THEN "_" ELSE x
<1>1. path \in Seq(ToSet(path))
  BY DEF CapturesAssumption
<1>2. Len(path) \in Nat /\ DOMAIN path = 1..Len(path)
  BY <1>1, LenProperties
<1>3. m \in Nat /\ 1..(Len(path) - 1) = 1..m
  BY <1>2
<1>4. \A n \in 1..m : path[n + 1] \in ToSet(path)
  BY <1>2 DEF ToSet
<1>5. "_" \in Piece /\ \A x \in ToSet(path) : x \in Piece
  BY DEF Piece
<1>6. \A x \in ToSet(path) : Flat(x) \in Piece
  BY <1>5
<1>7. Sanitize(path) = [n \in 1..m |-> Flat(path[n + 1])]
  BY <1>3 DEF Sanitize
<1> HIDE DEF m, Flat
<1>8. [n \in 1..m |-> Flat(path[n + 1])] \in [1..m -> Piece]
  BY <1>4, <1>6
<1>9. [1..m -> Piece] \subseteq Seq(Piece)
  BY <1>3, SeqDef
<1> QED BY <1>7, <1>8, <1>9 DEF Names

LEMMA TwoMore ==
  ASSUME NEW S, NEW c \in Seq(S), NEW a \in S, NEW b \in S
  PROVE  /\ c \o <<a, b>> \in Seq(S)
         /\ Len(c \o <<a, b>>) = Len(c) + 2
         /\ (c \o <<a, b>>)[Len(c) + 2] = b
<1>1. <<a, b>> \in Seq(S) /\ Len(<<a, b>>) = 2 /\ <<a, b>>[2] = b /\ Len(c) \in Nat
  BY LenProperties
<1>2. c \o <<a, b>> \in Seq(S)
  BY <1>1, ConcatProperties
<1>3. Len(c \o <<a, b>>) = Len(c) + 2
  BY <1>1, ConcatProperties
<1>4. (c \o <<a, b>>)[Len(c) + 2] = b
  BY <1>1
<1> QED BY <1>2, <1>3, <1>4

LEMMA SuffixType ==
  ASSUME NEW candidate \in Names, NEW n \in Nat
  PROVE  /\ Suffixed(candidate, n) \in Names
         /\ n # 1 => /\ Len(Suffixed(candidate, n)) = Len(candidate) + 2
                     /\ Suffixed(candidate, n)[Len(candidate) + 2] = Numeral(n)
<1> DEFINE x == Numeral(n)
           u == "_"
           s == <<u, x>>
<1>1. u \in Piece /\ x \in Piece
  <2>1. x \in {Numeral(j) : j \in Nat}
    OBVIOUS
  <2> QED BY <2>1 DEF Piece
<1>2. Suffixed(candidate, n) = IF n = 1 THEN candidate ELSE candidate \o s
  BY DEF Suffixed
<1>3. candidate \in Seq(Piece) /\ Len(candidate) \in Nat
  BY LenProperties DEF Names
<1> HIDE DEF u, x
<1>4. /\ candidate \o s \in Seq(Piece) /\ Len(candidate \o s) = Len(candidate) + 2
      /\ (candidate \o s)[Len(candidate) + 2] = x
  BY <1>1, <1>3, TwoMore
<1> HIDE DEF s
<1>5. CASE n = 1
  BY <1>2, <1>3, <1>5 DEF Names
<1>6. CASE n # 1
  BY <1>2, <1>4, <1>6 DEF Names, x
<1> QED BY <1>5, <1>6

LEMMA SuffixesDiffer ==
  ASSUME NumeralsDiffer, NEW candidate \in Names, NEW m \in Nat, NEW n \in Nat,
         Suffixed(candidate, m) = Suffixed(candidate, n)
  PROVE  m = n
<1>1. Len(candidate) \in Nat
  BY LenProperties DEF Names
<1>2. \A j \in Nat : j # 1 => Len(Suffixed(candidate, j)) = Len(candidate) + 2
  BY SuffixType
<1>3. Len(Suffixed(candidate, 1)) = Len(candidate)
  BY DEF Suffixed
<1>5. m = 1 <=> n = 1
  BY <1>1, <1>2, <1>3
<1>4. CASE m # 1 /\ n # 1
  <2>1. Numeral(m) = Numeral(n)
    BY <1>4, SuffixType
  <2> QED BY <2>1 DEF NumeralsDiffer
<1> QED BY <1>4, <1>5

\* Among one more suffixes than names taken, one is free.
LEMMA UniqueNameIsFree ==
  ASSUME NumeralsDiffer, NEW candidate \in Names, NEW taken \in Seq(Names)
  PROVE  /\ UniqueName(candidate, taken) \in Names
         /\ ~Contains(taken, UniqueName(candidate, taken))
<1> DEFINE L == Len(taken)
           free == {n \in 1..(L + 1) : ~Contains(taken, Suffixed(candidate, n))}
<1>1. L \in Nat
  BY LenProperties
<1>2. free # {}
  <2> SUFFICES ASSUME free = {} PROVE FALSE
    OBVIOUS
  <2>1. \A n \in 1..(L + 1) : \E i \in 1..L : taken[i] = Suffixed(candidate, n)
    BY DEF Contains
  <2> DEFINE f == [n \in 1..(L + 1) |-> CHOOSE i \in 1..L : taken[i] = Suffixed(candidate, n)]
  <2>2. \A n \in 1..(L + 1) : f[n] \in 1..L /\ taken[f[n]] = Suffixed(candidate, n)
    BY <2>1
  <2>3. f \in [1..(L + 1) -> 1..L]
    BY <2>2
  <2>4. /\ IsFiniteSet(1..(L + 1)) /\ Cardinality(1..(L + 1)) = L + 1
        /\ IsFiniteSet(1..L) /\ Cardinality(1..L) = L
    <3>1. L + 1 \in Nat
      BY <1>1
    <3>2. \A n \in Nat : IsFiniteSet(1..n) /\ Cardinality(1..n) = n
      <4> TAKE n \in Nat
      <4>1. 1 \in Int /\ n \in Int
        OBVIOUS
      <4>2. IsFiniteSet(1..n) /\ Cardinality(1..n) = (IF 1 > n THEN 0 ELSE n - 1 + 1)
        BY <4>1, FS_Interval
      <4> QED BY <4>2
    <3> QED BY <1>1, <3>1, <3>2
  <2>5. Cardinality(1..L) < Cardinality(1..(L + 1))
    BY <1>1, <2>4
  <2> DEFINE A == 1..(L + 1)
             B == 1..L
  <2> HIDE DEF f, A, B
  <2>0. \E m, n \in A : m # n /\ f[m] = f[n]
    <3>1. IsFiniteSet(A) /\ IsFiniteSet(B) /\ Cardinality(B) < Cardinality(A) /\ f \in [A -> B]
      BY <2>3, <2>4, <2>5 DEF A, B
    <3> QED BY <3>1, FS_PigeonHole
  <2>6. PICK m, n \in 1..(L + 1) : m # n /\ f[m] = f[n]
    BY <2>0 DEF A
  <2>7. Suffixed(candidate, m) = Suffixed(candidate, n)
    BY <2>2, <2>6
  <2> QED BY <1>1, <2>6, <2>7, SuffixesDiffer
<1>3. free \subseteq Nat
  BY <1>1
<1>4. Min(free) \in free
  <2>1. \E x \in free : \A y \in free : x =< y
    <3> HIDE DEF free
    <3>1. IsWellFoundedOn(OpToRel(<, Nat), Nat)
      BY NatLessThanWellFounded
    <3>2. PICK x \in free : \A y \in free : ~(<<y, x>> \in OpToRel(<, Nat))
      BY <1>2, <1>3, <3>1, WFMin
    <3>3. \A y \in free : <<y, x>> \in Nat \X Nat
      BY <1>3
    <3>4. \A y \in free : ~(y < x)
      BY <3>2, <3>3 DEF OpToRel
    <3> QED BY <1>3, <3>4
  <2> QED BY <2>1 DEF Min
<1>5. UniqueName(candidate, taken) = Suffixed(candidate, Min(free))
  BY DEF UniqueName, Suffixed
<1> HIDE DEF free
<1>6. Min(free) \in Nat /\ ~Contains(taken, Suffixed(candidate, Min(free)))
  BY <1>3, <1>4 DEF free
<1> QED BY <1>5, <1>6, SuffixType

-----------------------------------------------------------------------------
(* What every step of a backup has in common.                              *)

InRun == pc \in {"shared", "pullShared", "cards", "loop", "pull", "manifest"}

LEMMA Where ==
  ASSUME Types
  PROVE  /\ ~Settled <=> InRun
         /\ InRun => ~(pc \in Away \cup {"idle", "asked"})
BY DEF Types, Settled, InRun, Away

LEMMA NotRestored ==
  ASSUME Types, Order, InRun \/ pc = "asked"
  PROVE  restores = 0 /\ ~sharedRestored
BY DEF Types, Order, InRun, Away

\* Nothing a backup does concerns a restore.
LEMMA BackupStep ==
  ASSUME restores = 0, ~sharedRestored, UNCHANGED restoreVars, pc' \notin Away
  PROVE  /\ restores' = 0 /\ ~sharedRestored'
         /\ RestoreFits' /\ SharedRestoredIsTrue'
BY DEF restoreVars, Away, RestoreFits, SharedRestoredIsTrue

\* A step inside a run: what it makes of the captures and of shared storage.
LEMMA RunKeeps ==
  ASSUME IInv, InRun, InRun', UNCHANGED <<runs, manifest, restoreVars>>,
         pc' \in {"shared", "pullShared", "cards"} => captures' = <<>> /\ used' = <<>>,
         pc' \in {"shared", "pullShared"} => shared' = NoShared,
         NumeralsDiffer => NamesTyped' /\ CapturesFit', SharedFits'
  PROVE  IInv'
<1>1. Types /\ Order
  BY DEF IInv
<1>2. restores = 0 /\ ~sharedRestored /\ ~Settled
  BY <1>1, NotRestored, Where
<1>3. Types'
  BY <1>1 DEF Types, InRun, restoreVars
<1>4. ~Settled' /\ pc' \notin Away
  BY DEF InRun, Settled, Away
<1>5. RestoreFits' /\ SharedRestoredIsTrue' /\ restores' = 0 /\ ~sharedRestored'
  BY <1>2, <1>4, BackupStep
<1>6. Order'
  BY <1>1, <1>2, <1>4, <1>5 DEF Order
<1>7. CapturesAreTheirOwn' /\ SharedIsOwn'
  BY <1>4 DEF CapturesAreTheirOwn, SharedIsOwn
<1> QED BY <1>3, <1>5, <1>6, <1>7 DEF IInv, CapturesInv

\* The end of a run, whose memory is forgotten.
LEMMA EmptyFits ==
  ASSUME captures' = <<>>, used' = <<>>, shared' = NoShared, pc' # "pull"
  PROVE  NamesTyped' /\ CapturesFit' /\ SharedFits'
<1>1. Len(captures') = 0
  BY LenProperties
<1>2. <<>> \in Seq(Names) /\ <<>> \in Captures
  BY DEF Captures
<1> QED BY <1>1, <1>2 DEF NamesTyped, CapturesFit, SharedFits, NoShared

LEMMA StopKeeps ==
  ASSUME IInv, NEW how, Stop(how), InRun \/ pc = "asked", UNCHANGED restoreVars,
         runs' \in Nat, manifest'.run \in 0..runs',
         SharedIsOwn', NumeralsDiffer => CapturesAreTheirOwn'
  PROVE  IInv'
<1>1. Types /\ Order
  BY DEF IInv
<1>2. pc' = "idle" /\ captures' = <<>> /\ used' = <<>> /\ shared' = NoShared
  BY DEF Stop
<1>3. restores = 0 /\ ~sharedRestored
  BY <1>1, NotRestored
<1>4. RestoreFits' /\ SharedRestoredIsTrue' /\ restores' = 0 /\ ~sharedRestored'
  BY <1>2, <1>3, BackupStep DEF Away
<1>6. Types'
  BY <1>1, <1>2 DEF Types, restoreVars
<1>7. Settled' /\ pc' \notin Away
  BY <1>2 DEF Settled, Away
<1>8. Order'
  BY <1>2, <1>4, <1>7 DEF Order
<1>9. NamesTyped' /\ CapturesFit' /\ SharedFits'
  BY <1>2, EmptyFits
<1> QED BY <1>4, <1>6, <1>8, <1>9 DEF IInv, CapturesInv

\* No finished run's captures are at stake while a later run's number is out.
LEMMA OlderManifest ==
  ASSUME runs' \in Nat, manifest'.run \in Nat, manifest'.run < runs'
  PROVE  CapturesAreTheirOwn' /\ SharedIsOwn'
BY DEF CapturesAreTheirOwn, SharedIsOwn

-----------------------------------------------------------------------------
(* Before and between the runs.                                            *)

LEMMA InitIInv ==
  ASSUME CapturesAssumption, Init
  PROVE  IInv
<1>1. /\ pc = "idle" /\ restores = 0 /\ runs = 0 /\ sharedRestored = FALSE
      /\ used = <<>> /\ captures = <<>> /\ shared = NoShared
      /\ manifest = NoManifest /\ pushes = NoPushes
  BY DEF Init
<1>2. <<>> \in Seq(Names) /\ <<>> \in Captures /\ Len(captures) = 0
  BY <1>1, LenProperties DEF Captures
<1>3. manifest.run = 0
  BY <1>1 DEF NoManifest
<1>4. pushes \in [pushed : Nat, allOk : BOOLEAN]
  BY <1>1 DEF NoPushes
<1>5. sharedRestored \in BOOLEAN
  BY <1>1
<1>6. Types
  BY <1>1, <1>3, <1>4, <1>5 DEF Types
<1>7. Order /\ SharedFits /\ RestoreFits /\ SharedRestoredIsTrue
  BY <1>1 DEF Order, SharedFits, RestoreFits, SharedRestoredIsTrue, Settled, Away, NoShared
<1>8. NamesTyped /\ CapturesFit
  BY <1>1, <1>2 DEF NamesTyped, CapturesFit
<1>9. CapturesAreTheirOwn /\ SharedIsOwn
  BY <1>3 DEF CapturesAreTheirOwn, SharedIsOwn
<1> QED BY <1>6, <1>7, <1>8, <1>9 DEF IInv, CapturesInv

LEMMA AskKeeps ==
  ASSUME IInv, Ask
  PROVE  IInv'
<1>1. Types /\ Order /\ pc = "idle" /\ pc' = "asked" /\ restores = 0
  BY DEF IInv, Ask
<1>2. UNCHANGED <<memoryVars, diskVars, runs, restoreVars>>
  BY DEF Ask
<1>3. Settled /\ Settled' /\ pc' \notin Away /\ ~sharedRestored
  BY <1>1 DEF Settled, Away, Order
<1>4. captures' = <<>> /\ used' = <<>> /\ shared' = NoShared
  BY <1>1, <1>2, <1>3 DEF Order, memoryVars
<1>5. RestoreFits' /\ SharedRestoredIsTrue' /\ restores' = 0 /\ ~sharedRestored'
  BY <1>1, <1>2, <1>3, BackupStep
<1>6. Types'
  BY <1>1, <1>2 DEF Types, memoryVars, diskVars, restoreVars
<1>7. Order'
  BY <1>3, <1>4, <1>5 DEF Order
<1>8. NamesTyped' /\ CapturesFit' /\ SharedFits'
  BY <1>1, <1>4, EmptyFits
<1>9. SharedIsOwn' /\ (NumeralsDiffer => CapturesAreTheirOwn')
  BY <1>2, <1>3 DEF IInv, CapturesInv, CapturesAreTheirOwn, SharedIsOwn, diskVars
<1> QED BY <1>5, <1>6, <1>7, <1>8, <1>9 DEF IInv, CapturesInv

LEMMA RefuseKeeps ==
  ASSUME IInv, Refuse
  PROVE  IInv'
<1>1. Types /\ pc = "asked" /\ UNCHANGED <<opts, diskVars, runs, restoreVars>>
  BY DEF IInv, Refuse
<1>2. Settled /\ Stop("refused")
  BY <1>1 DEF Settled, Refuse
<1>3. SharedIsOwn' /\ (NumeralsDiffer => CapturesAreTheirOwn')
  BY <1>1, <1>2 DEF IInv, CapturesInv, CapturesAreTheirOwn, SharedIsOwn, diskVars
<1>4. runs' \in Nat /\ manifest'.run \in 0..runs'
  BY <1>1 DEF Types, diskVars
<1> QED BY <1>1, <1>2, <1>3, <1>4, StopKeeps

LEMMA BeginKeeps ==
  ASSUME IInv, Begin
  PROVE  IInv'
<1>1. Types /\ Order /\ pc = "asked"
  BY DEF IInv, Begin
<1>2. runs' = runs + 1 /\ UNCHANGED <<opts, diskVars, troubled, restoreVars>>
  BY DEF Begin
<1>3. runs' \in Nat /\ manifest'.run \in Nat /\ manifest'.run \in 0..runs' /\ manifest'.run < runs'
  BY <1>1, <1>2 DEF Types, diskVars
<1>4. CapturesAreTheirOwn' /\ SharedIsOwn'
  BY <1>3, OlderManifest
<1>5. CASE Stop("failed")
  BY <1>1, <1>2, <1>3, <1>4, <1>5, StopKeeps
<1>6. CASE pc' = "shared" /\ UNCHANGED <<shared, used, captures>>
  <2>1. Settled /\ ~Settled' /\ pc' \notin Away
    BY <1>1, <1>6 DEF Settled, Away
  <2>2. captures' = <<>> /\ used' = <<>> /\ shared' = NoShared
    BY <1>1, <1>6, <2>1 DEF Order
  <2>3. restores = 0 /\ ~sharedRestored
    BY <1>1, NotRestored
  <2>4. RestoreFits' /\ SharedRestoredIsTrue' /\ restores' = 0 /\ ~sharedRestored'
    BY <1>2, <2>1, <2>3, BackupStep
  <2>5. Types'
    BY <1>1, <1>2, <1>3, <1>6 DEF Types, restoreVars
  <2>6. Order'
    BY <1>3, <1>6, <2>1, <2>2, <2>4 DEF Order
  <2>7. NamesTyped' /\ CapturesFit' /\ SharedFits'
    BY <1>6, <2>2, EmptyFits
  <2> QED BY <1>4, <2>4, <2>5, <2>6, <2>7 DEF IInv, CapturesInv
<1> QED BY <1>5, <1>6 DEF Begin

-----------------------------------------------------------------------------
(* The steps of a run.                                                     *)

LEMMA QuietKeeps ==
  ASSUME IInv, InRun, InRun', pc' # "pull",
         UNCHANGED <<used, captures, shared, dirs, sharedDir, sharedTar, manifest, runs,
                     restoreVars>>,
         pc' \in {"shared", "pullShared", "cards"} => pc \in {"shared", "pullShared", "cards"},
         pc' \in {"shared", "pullShared"} => pc \in {"shared", "pullShared"}
  PROVE  IInv'
<1>1. Order /\ SharedFits /\ (NumeralsDiffer => NamesTyped /\ CapturesFit)
  BY DEF IInv, CapturesInv
<1>2. SharedFits'
  BY <1>1 DEF SharedFits
<1>3. NumeralsDiffer => NamesTyped' /\ CapturesFit'
  BY <1>1 DEF NamesTyped, CapturesFit
<1>4. /\ pc' \in {"shared", "pullShared", "cards"} => captures' = <<>> /\ used' = <<>>
      /\ pc' \in {"shared", "pullShared"} => shared' = NoShared
  BY <1>1 DEF Order
<1> QED BY <1>2, <1>3, <1>4, RunKeeps

\* A step of the stage that captures shared storage.
LEMMA SharedStepKeeps ==
  ASSUME IInv, pc \in {"shared", "pullShared"}, pc' \in {"pullShared", "cards"},
         UNCHANGED <<used, captures, dirs, manifest, runs, restoreVars>>,
         SharedFits', pc' = "pullShared" => shared' = NoShared
  PROVE  IInv'
<1>1. Types /\ Order
  BY DEF IInv
<1>2. InRun /\ InRun' /\ pc' # "pull"
  BY DEF InRun
<1>3. captures' = <<>> /\ used' = <<>>
  BY <1>1 DEF Order
<1>4. Len(captures') = 0 /\ <<>> \in Seq(Names) /\ <<>> \in Captures
  BY <1>3, LenProperties DEF Captures
<1>5. NamesTyped' /\ CapturesFit'
  BY <1>2, <1>3, <1>4 DEF NamesTyped, CapturesFit
<1>7. pc' \in {"shared", "pullShared"} => shared' = NoShared
  OBVIOUS
<1> QED BY <1>2, <1>3, <1>5, <1>7, RunKeeps

LEMMA SharedBeginsKeeps ==
  ASSUME IInv, SharedBegins
  PROVE  IInv'
<1>1. /\ pc = "shared" /\ pc' = "pullShared" /\ shared' = shared /\ shared = NoShared
      /\ UNCHANGED <<used, captures, dirs, manifest, runs, restoreVars>>
  BY DEF SharedBegins, memoryVars, IInv, Order
<1>2. SharedFits'
  BY <1>1 DEF SharedFits, NoShared
<1> QED BY <1>1, <1>2, SharedStepKeeps

LEMMA PullsSharedKeeps ==
  ASSUME IInv, NEW part, PullsShared(part)
  PROVE  IInv'
<1>1. /\ pc = "pullShared" /\ pc' = "cards" /\ shared'.kind = "dir" /\ shared'.bytes = sharedDir'
      /\ UNCHANGED <<used, captures, dirs, manifest, runs, restoreVars>>
  BY DEF PullsShared
<1>2. SharedFits'
  BY <1>1 DEF SharedFits
<1> QED BY <1>1, <1>2, SharedStepKeeps

LEMMA ArchivesSharedKeeps ==
  ASSUME IInv, ArchivesShared
  PROVE  IInv'
<1>1. /\ pc = "pullShared" /\ pc' = "cards" /\ shared'.kind = "tar" /\ shared'.bytes = sharedTar'
      /\ UNCHANGED <<used, captures, dirs, manifest, runs, restoreVars>>
  BY DEF ArchivesShared
<1>2. SharedFits'
  BY <1>1 DEF SharedFits
<1> QED BY <1>1, <1>2, SharedStepKeeps

LEMMA SharedFailsKeeps ==
  ASSUME IInv, SharedFails
  PROVE  IInv'
<1>1. /\ pc = "pullShared" /\ pc' = "cards" /\ shared' = shared /\ shared = NoShared
      /\ UNCHANGED <<used, captures, dirs, manifest, runs, restoreVars>>
  BY DEF SharedFails, memoryVars, IInv, Order
<1>2. SharedFits'
  BY <1>1 DEF SharedFits, NoShared
<1> QED BY <1>1, <1>2, SharedStepKeeps

LEMMA SkipSharedKeeps ==
  ASSUME IInv, SkipShared
  PROVE  IInv'
BY QuietKeeps DEF SkipShared, memoryVars, diskVars, InRun

LEMMA CollectKeeps ==
  ASSUME IInv, Collect
  PROVE  IInv'
BY QuietKeeps DEF Collect, diskVars, InRun

LEMMA NoDirectoryKeeps ==
  ASSUME IInv, NoDirectory
  PROVE  IInv'
BY QuietKeeps DEF NoDirectory, memoryVars, diskVars, InRun

LEMMA PassOverKeeps ==
  ASSUME IInv, PassOver
  PROVE  IInv'
BY QuietKeeps DEF PassOver, diskVars, InRun

LEMMA LeaveLoopKeeps ==
  ASSUME IInv, LeaveLoop
  PROVE  IInv'
BY QuietKeeps DEF LeaveLoop, memoryVars, diskVars, InRun

\* The name of the next capture is none of the earlier ones'.
LEMMA PullBeginsFits ==
  ASSUME CapturesAssumption, NumeralsDiffer, NamesTyped, CapturesFit, PullBegins
  PROVE  NamesTyped' /\ CapturesFit'
<1> DEFINE name == UniqueName(Sanitize(Cur), used)
<1>1. /\ pc' = "pull" /\ Cur \in Present
      /\ used' = Append(used, name) /\ dirs' = Drop(Last(used'))
      /\ UNCHANGED <<todo, k, captures, runs>>
  BY DEF PullBegins
<1>2. Cur' = Cur
  BY <1>1 DEF Cur
<1>3. Sanitize(Cur) \in Names
  BY <1>1, SanitizeType
<1>4. used \in Seq(Names) /\ captures \in Captures
  BY DEF NamesTyped
<1>5. name \in Names /\ ~Contains(used, name)
  BY <1>3, <1>4, UniqueNameIsFree
<1> HIDE DEF name
<1>6. used' \in Seq(Names) /\ Len(used') = Len(used) + 1 /\ used'[Len(used) + 1] = name
      /\ (\A n \in 1..Len(used) : used'[n] = used[n]) /\ Len(used) \in Nat
  BY <1>1, <1>4, <1>5, AppendProperties, LenProperties
<1>7. Last(used') = name
  BY <1>6 DEF Last
<1>8. \A x : Contains(used, x) => Contains(used', x) /\ x # name
  BY <1>5, <1>6 DEF Contains
<1>9. \A x \in DOMAIN dirs : x # name => x \in DOMAIN dirs' /\ dirs'[x] = dirs[x]
  BY <1>1, <1>7 DEF Drop
<1>10. used' # <<>>
  BY <1>6
<1>11. CapturesFit'
  BY <1>1, <1>2, <1>7, <1>8, <1>9, <1>10 DEF CapturesFit
<1> QED BY <1>1, <1>4, <1>6, <1>11 DEF NamesTyped

LEMMA PullBeginsKeeps ==
  ASSUME CapturesAssumption, IInv, PullBegins
  PROVE  IInv'
<1>1. /\ pc = "loop" /\ pc' = "pull"
      /\ UNCHANGED <<shared, sharedDir, sharedTar, manifest, runs, restoreVars>>
  BY DEF PullBegins
<1>2. InRun /\ InRun'
  BY <1>1 DEF InRun
<1>3. NumeralsDiffer => NamesTyped' /\ CapturesFit'
  BY PullBeginsFits DEF IInv, CapturesInv
<1>4. SharedFits'
  BY <1>1 DEF IInv, SharedFits
<1> QED BY <1>1, <1>2, <1>3, <1>4, RunKeeps

LEMMA PullsFits ==
  ASSUME NamesTyped, CapturesFit, NEW part \in {"whole", "some"}, Pulls(part)
  PROVE  NamesTyped' /\ CapturesFit'
<1> DEFINE new == [path |-> Cur, name |-> Last(used), complete |-> part = "whole"]
           name == Last(used)
<1>2. /\ pc = "pull" /\ pc' = "loop"
      /\ dirs' = Put(name, Tree(Cur, runs, part))
      /\ captures' = Append(captures, new)
      /\ UNCHANGED <<used, runs>>
  BY DEF Pulls
<1>4. used \in Seq(Names) /\ captures \in Captures /\ used # <<>> /\ Cur \in Present
  BY <1>2 DEF NamesTyped, CapturesFit
<1>5. Len(used) \in Nat /\ Len(used) \in 1..Len(used)
  BY <1>4, LenProperties, EmptySeq
<1>6. name \in Names /\ Contains(used, name)
  BY <1>4, <1>5, ElementOfSeq DEF Last, Contains
<1>7. new \in [path : Present, name : Names, complete : BOOLEAN]
  BY <1>4, <1>6
<1>8. /\ new.path = Cur /\ new.name = name /\ new.complete = (part = "whole")
      /\ IF new.complete THEN part = "whole" ELSE part = "some"
  OBVIOUS
<1>9. \A n \in 1..Len(captures) : captures[n].name # name
  BY <1>2 DEF CapturesFit
<1> HIDE DEF new, name
<1>10. captures' \in Captures
  BY <1>2, <1>4, <1>7, AppendProperties DEF Captures
<1>11. /\ Len(captures') = Len(captures) + 1 /\ Len(captures) \in Nat
       /\ captures'[Len(captures) + 1] = new
       /\ \A n \in 1..Len(captures) : captures'[n] = captures[n]
  BY <1>2, <1>4, <1>7, AppendProperties, LenProperties DEF Captures
<1>12. /\ DOMAIN dirs' = DOMAIN dirs \cup {name} /\ dirs'[name] = Tree(Cur, runs, part)
       /\ \A x \in DOMAIN dirs : x # name => dirs'[x] = dirs[x]
  BY <1>2 DEF Put
<1>13. \A n \in 1..Len(captures') : n = Len(captures) + 1 \/ n \in 1..Len(captures)
  BY <1>11
<1>14. \A n \in 1..Len(captures') :
         /\ Contains(used', captures'[n].name) /\ captures'[n].name \in DOMAIN dirs'
         /\ dirs'[captures'[n].name] = Tree(captures'[n].path, runs',
                                         IF captures'[n].complete THEN "whole" ELSE "some")
  <2> TAKE n \in 1..Len(captures')
  <2>1. CASE n = Len(captures) + 1
    <3>1. captures'[n] = new
      BY <1>11, <2>1
    <3> QED BY <1>2, <1>6, <1>8, <1>12, <3>1
  <2>2. CASE n \in 1..Len(captures)
    <3>1. captures'[n] = captures[n] /\ captures[n].name # name
      BY <1>9, <1>11, <2>2
    <3> QED BY <1>2, <1>12, <2>2, <3>1 DEF CapturesFit
  <2> QED BY <1>13, <2>1, <2>2
<1>15. CapturesFit'
  BY <1>2, <1>14 DEF CapturesFit
<1> QED BY <1>2, <1>4, <1>10, <1>15 DEF NamesTyped

LEMMA PullsKeeps ==
  ASSUME IInv, NEW part \in {"whole", "some"}, Pulls(part)
  PROVE  IInv'
<1>1. /\ pc = "pull" /\ pc' = "loop"
      /\ UNCHANGED <<shared, sharedDir, sharedTar, manifest, runs, restoreVars>>
  BY DEF Pulls
<1>2. InRun /\ InRun'
  BY <1>1 DEF InRun
<1>3. NumeralsDiffer => NamesTyped' /\ CapturesFit'
  BY PullsFits DEF IInv, CapturesInv
<1>4. SharedFits'
  BY <1>1 DEF IInv, SharedFits
<1> QED BY <1>1, <1>2, <1>3, <1>4, RunKeeps

LEMMA PullFailsKeeps ==
  ASSUME IInv, PullFails
  PROVE  IInv'
<1>1. SharedFits /\ (NumeralsDiffer => NamesTyped /\ CapturesFit)
  BY DEF IInv, CapturesInv
<1>2. /\ pc = "pull" /\ pc' = "loop" /\ dirs' = Drop(Last(used))
      /\ UNCHANGED <<used, captures, shared, sharedDir, sharedTar, manifest, runs, restoreVars>>
  BY DEF PullFails
<1>3. InRun /\ InRun'
  BY <1>2 DEF InRun
<1>4. \A x \in DOMAIN dirs : x # Last(used) => x \in DOMAIN dirs' /\ dirs'[x] = dirs[x]
  BY <1>2 DEF Drop
<1>5. CapturesFit => CapturesFit'
  BY <1>2, <1>4 DEF CapturesFit
<1>6. SharedFits'
  BY <1>1, <1>2 DEF SharedFits
<1>7. NumeralsDiffer => NamesTyped' /\ CapturesFit'
  BY <1>1, <1>2, <1>5 DEF NamesTyped
<1> QED BY <1>2, <1>3, <1>6, <1>7, RunKeeps

\* The manifest lists what is in memory, and all of that is on disk.
LEMMA WriteManifestKeeps ==
  ASSUME IInv, WriteManifest
  PROVE  IInv'
<1>1. Types /\ Order /\ SharedFits /\ pc = "manifest" /\ InRun
  BY DEF IInv, WriteManifest, InRun
<1>2. /\ UNCHANGED <<dirs, sharedDir, sharedTar, runs, restoreVars>>
      /\ runs \in Nat /\ manifest.run \in 0..runs /\ manifest.run < runs
  BY <1>1, Where DEF WriteManifest, Types, Order
<1>3. ASSUME manifest' = [run |-> runs, mode |-> opts.mode, apps |-> apps, shared |-> shared,
                          captures |-> captures],
             NEW how, Stop(how)
      PROVE  IInv'
  <2>1. manifest'.run = runs /\ manifest'.shared = shared /\ manifest'.captures = captures
    BY <1>3
  <2>2. SharedIsOwn'
    BY <1>1, <1>2, <2>1 DEF SharedFits, SharedIsOwn
  <2>3. ASSUME NumeralsDiffer
        PROVE  CapturesAreTheirOwn'
    <3>1. NamesTyped /\ CapturesFit
      BY <2>3 DEF IInv, CapturesInv
    <3>2. DOMAIN captures = 1..Len(captures)
      BY <3>1, LenProperties DEF NamesTyped, Captures
    <3> QED BY <1>1, <1>2, <2>1, <3>1, <3>2 DEF CapturesFit, SharedFits, CapturesAreTheirOwn
  <2>4. manifest'.run \in 0..runs'
    BY <1>2, <2>1
  <2> QED BY <1>1, <1>2, <1>3, <2>2, <2>3, <2>4, StopKeeps
<1>4. ASSUME manifest' \in {manifest, NoManifest}, NEW how, Stop(how)
      PROVE  IInv'
  <2>1. manifest'.run \in 0..runs' /\ manifest'.run \in Nat /\ manifest'.run < runs'
    <3>1. CASE manifest' = manifest
      BY <1>2, <3>1
    <3>2. CASE manifest' = NoManifest
      <4>1. manifest'.run = 0
        BY <3>2 DEF NoManifest
      <4> QED BY <1>2, <4>1
    <3> QED BY <1>4, <3>1, <3>2
  <2>2. CapturesAreTheirOwn' /\ SharedIsOwn'
    BY <1>2, <2>1, OlderManifest
  <2> QED BY <1>1, <1>2, <1>4, <2>1, <2>2, StopKeeps
<1> QED BY <1>3, <1>4 DEF WriteManifest

LEMMA KillKeeps ==
  ASSUME IInv, Kill
  PROVE  IInv'
<1>1. Types /\ Order /\ InRun
  BY Where DEF IInv, Kill, Running, Restoring, Types, InRun, Away
<1>2. /\ Stop("killed") /\ UNCHANGED <<runs, restoreVars>>
      /\ manifest' \in {manifest, NoManifest}
      /\ runs \in Nat /\ manifest.run \in 0..runs /\ manifest.run < runs
  BY <1>1, Where DEF Kill, Types, Order
<1>3. manifest'.run \in 0..runs' /\ manifest'.run \in Nat /\ manifest'.run < runs'
  <2>1. CASE manifest' = manifest
    BY <1>2, <2>1
  <2>2. CASE manifest' = NoManifest
    <3>1. manifest'.run = 0
      BY <2>2 DEF NoManifest
    <3> QED BY <1>2, <3>1
  <2> QED BY <1>2, <2>1, <2>2
<1>4. CapturesAreTheirOwn' /\ SharedIsOwn'
  BY <1>2, <1>3, OlderManifest
<1> QED BY <1>1, <1>2, <1>3, <1>4, StopKeeps

\* A cancel sets a flag the invariant does not speak of.
LEMMA FlagStep ==
  ASSUME IInv,
         UNCHANGED <<pc, opts, apps, shared, todo, k, used, captures, diskVars, outcome, runs,
                     restoreVars>>
  PROVE  IInv'
<1>1. Settled' = Settled /\ Cur' = Cur /\ HasTree' = HasTree /\ HasArchive' = HasArchive
  BY DEF Settled, Cur, HasTree, HasArchive, diskVars, restoreVars
<1>2. Types'
  BY DEF IInv, Types, diskVars, restoreVars
<1>3. Order' /\ SharedFits'
  BY <1>1 DEF IInv, Order, SharedFits, diskVars, restoreVars
<1>4. SharedIsOwn' /\ (NumeralsDiffer => NamesTyped' /\ CapturesFit')
  BY <1>1 DEF IInv, CapturesInv, SharedIsOwn, NamesTyped, CapturesFit, diskVars
<1>5. RestoreFits'
  BY <1>1 DEF IInv, RestoreFits, diskVars, restoreVars
<1>6. SharedRestoredIsTrue' /\ (NumeralsDiffer => CapturesAreTheirOwn')
  BY <1>1 DEF IInv, CapturesInv, CapturesAreTheirOwn, SharedRestoredIsTrue, diskVars,
              restoreVars
<1> QED BY <1>2, <1>3, <1>4, <1>5, <1>6 DEF IInv, CapturesInv

-----------------------------------------------------------------------------
(* A restore.                                                              *)

\* A step of a restore: what is on disk stays, and memory is empty.
LEMMA RestoreKeeps ==
  ASSUME IInv, pc \in Away \cup {"idle"}, pc' \in Away \cup {"idle"},
         UNCHANGED <<diskVars, runs>>,
         UNCHANGED <<used, captures, shared>> \/ \E how : Stop(how),
         restores' \in Nat \ {0}, sharedRestored' \in BOOLEAN,
         pushes' \in [pushed : Nat, allOk : BOOLEAN],
         RestoreFits', SharedRestoredIsTrue'
  PROVE  IInv'
<1>1. Types /\ Order
  BY DEF IInv
<1>2. Settled /\ Settled' /\ pc' # "pull"
  BY DEF Settled, Away
<1>3. captures' = <<>> /\ used' = <<>> /\ shared' = NoShared
  BY <1>1, <1>2 DEF Order, Stop
<1>5. Types'
  BY <1>1, <1>3 DEF Types, diskVars
<1>6. Order'
  BY <1>2, <1>3 DEF Order
<1>7. NamesTyped' /\ CapturesFit' /\ SharedFits'
  BY <1>2, <1>3, EmptyFits
<1>8. SharedIsOwn' /\ (NumeralsDiffer => CapturesAreTheirOwn')
  BY <1>2 DEF IInv, CapturesInv, CapturesAreTheirOwn, SharedIsOwn, diskVars
<1> QED BY <1>5, <1>6, <1>7, <1>8 DEF IInv, CapturesInv

LEMMA RestoreBeginsKeeps ==
  ASSUME IInv, RestoreBegins
  PROVE  IInv'
<1>1. /\ Types /\ pc = "idle" /\ pc' \in {"restore", "idle"} /\ manifest.run > 0
      /\ UNCHANGED <<diskVars, runs>>
      /\ UNCHANGED <<used, captures, shared>> \/ \E how : Stop(how)
      /\ restores' = restores + 1 /\ ~sharedRestored' /\ phone' = {} /\ pushes' = NoPushes
  BY DEF IInv, RestoreBegins, memoryVars, Stop
<1>2. restores' \in Nat \ {0}
  BY <1>1 DEF Types
<1>3. pushes' \in [pushed : Nat, allOk : BOOLEAN]
  BY <1>1 DEF NoPushes
<1>4. RestoreFits' /\ SharedRestoredIsTrue'
  BY <1>1 DEF RestoreFits, SharedRestoredIsTrue, Away, diskVars
<1>5. sharedRestored' \in BOOLEAN
  BY DEF RestoreBegins
<1> QED BY <1>1, <1>2, <1>3, <1>4, <1>5, RestoreKeeps DEF Away

LEMMA RestoreSharedKeeps ==
  ASSUME IInv, RestoreShared
  PROVE  IInv'
<1>1. /\ Types /\ Order /\ RestoreFits /\ pc = "restore"
      /\ UNCHANGED <<diskVars, runs, rooted, phone, pushes, sharedRestored, restores>>
  BY DEF IInv, RestoreShared
<1>2. restores' \in Nat \ {0} /\ ~sharedRestored /\ phone = {} /\ manifest.run > 0
  BY <1>1 DEF Types, Order, RestoreFits, Away
<1>3. sharedRestored' \in BOOLEAN /\ pushes' \in [pushed : Nat, allOk : BOOLEAN]
  BY <1>1 DEF Types
<1>4. SharedRestoredIsTrue'
  BY <1>1, <1>2 DEF SharedRestoredIsTrue
<1>5. HasTree' = HasTree /\ HasArchive' = HasArchive
  BY <1>1 DEF HasTree, HasArchive, diskVars
<1>6. ASSUME NEW how, Stop(how)
      PROVE  IInv'
  <2>1. pc' = "idle"
    BY <1>6 DEF Stop
  <2>2. RestoreFits'
    BY <2>1 DEF RestoreFits, Away
  <2> QED BY <1>1, <1>2, <1>3, <1>4, <1>6, <2>1, <2>2, RestoreKeeps DEF Away
<1>7. ASSUME HasTree \/ HasArchive, pc' = IF HasTree THEN "push" ELSE "extract",
             left' = EntriesOf(IF HasTree THEN sharedDir.part ELSE sharedTar.part),
             UNCHANGED memoryVars
      PROVE  IInv'
  <2>1. left' \cup phone' = left'
    BY <1>1, <1>2
  <2>2. sharedDir' = sharedDir /\ sharedTar' = sharedTar /\ manifest' = manifest
    BY <1>1 DEF diskVars
  <2>3. RestoreFits'
    BY <1>1, <1>2, <1>5, <1>7, <2>1, <2>2 DEF RestoreFits
  <2>4. UNCHANGED <<used, captures, shared>> /\ pc' \in Away
    BY <1>7 DEF memoryVars, Away
  <2> QED BY <1>1, <1>2, <1>3, <1>4, <2>3, <2>4, RestoreKeeps DEF Away
<1> QED BY <1>6, <1>7 DEF RestoreShared

LEMMA PushEntryKeeps ==
  ASSUME IInv, PushEntry
  PROVE  IInv'
<1>1. /\ Types /\ Order /\ RestoreFits /\ pc = "push" /\ pc' = pc
      /\ UNCHANGED <<memoryVars, diskVars, runs, rooted, sharedRestored, restores>>
  BY DEF IInv, PushEntry
<1>2. restores' \in Nat \ {0} /\ ~sharedRestored /\ manifest.run > 0
  BY <1>1 DEF Types, Order, RestoreFits, Away
<1>3. PICK entry \in left :
        /\ left' = left \ {entry}
        /\ \/ phone' = phone \cup {entry} /\ pushes' = [pushes EXCEPT !.pushed = @ + 1]
           \/ pushes' = [pushes EXCEPT !.allOk = FALSE]
  BY DEF PushEntry
<1>4. pushes' \in [pushed : Nat, allOk : BOOLEAN]
  <2>1. pushes \in [pushed : Nat, allOk : BOOLEAN] /\ pushes.pushed + 1 \in Nat
    BY <1>1 DEF Types
  <2>2. CASE pushes' = [pushes EXCEPT !.pushed = @ + 1]
    BY <2>1, <2>2
  <2>3. CASE pushes' = [pushes EXCEPT !.allOk = FALSE]
    BY <2>1, <2>3
  <2> QED BY <1>3, <2>2, <2>3
<1>5. pushes'.allOk => pushes.allOk /\ left' \cup phone' = left \cup phone
  <2>1. CASE phone' = phone \cup {entry} /\ pushes' = [pushes EXCEPT !.pushed = @ + 1]
    <3>1. pushes'.allOk = pushes.allOk
      BY <1>1, <2>1 DEF Types
    <3>2. left' \cup phone' = left \cup phone
      BY <1>3, <2>1
    <3> QED BY <3>1, <3>2
  <2>2. CASE pushes' = [pushes EXCEPT !.allOk = FALSE]
    BY <1>1, <2>2 DEF Types
  <2> QED BY <1>3, <2>1, <2>2
<1>6. HasTree' = HasTree /\ sharedDir' = sharedDir /\ manifest' = manifest
  BY <1>1 DEF HasTree, diskVars
<1>7. RestoreFits' /\ SharedRestoredIsTrue'
  BY <1>1, <1>2, <1>5, <1>6 DEF RestoreFits, SharedRestoredIsTrue
<1>8. UNCHANGED <<used, captures, shared>> /\ sharedRestored' \in BOOLEAN
  BY <1>1 DEF memoryVars, Types
<1> QED BY <1>1, <1>2, <1>4, <1>7, <1>8, RestoreKeeps DEF Away

\* All entries have been pushed, and the tree they came from is the manifest's.
LEMMA PushEndsKeeps ==
  ASSUME IInv, PushEnds
  PROVE  IInv'
<1>1. /\ Types /\ Order /\ RestoreFits /\ SharedIsOwn /\ pc = "push" /\ left = {}
      /\ UNCHANGED <<diskVars, runs, rooted, left, phone, pushes, restores>>
      /\ sharedRestored' = PushVerdict
  BY DEF IInv, PushEnds
<1>2. PICK how : Stop(how)
  BY DEF PushEnds
<1>3. pc' = "idle"
  BY <1>2 DEF Stop
<1>4. restores' \in Nat \ {0} /\ pushes' \in [pushed : Nat, allOk : BOOLEAN]
  BY <1>1 DEF Types, Order, Away
<1>5. sharedRestored' \in BOOLEAN
  BY <1>1 DEF Types, PushVerdict
<1>6. RestoreFits'
  BY <1>3 DEF RestoreFits, Away
<1>7. SharedRestoredIsTrue'
  <2> SUFFICES ASSUME sharedRestored',
                      \/ manifest'.shared.kind = "tar" /\ manifest'.shared.summed
                      \/ manifest'.run = runs'
               PROVE  phone' = EntriesOf(manifest'.shared.bytes.part)
    BY DEF SharedRestoredIsTrue, EntriesOf
  <2>1. HasTree /\ pushes.allOk /\ manifest.shared.kind = "dir" /\ manifest' = manifest
    BY <1>1 DEF RestoreFits, PushVerdict, HasTree, diskVars
  <2>2. manifest.run = runs /\ Settled
    BY <1>1, <2>1 DEF Settled
  <2>3. phone = EntriesOf(sharedDir.part)
    BY <1>1, <2>1 DEF RestoreFits
  <2>4. manifest.run > 0
    BY <1>1 DEF RestoreFits, Away
  <2>5. sharedDir = manifest.shared.bytes
    BY <1>1, <2>1, <2>2, <2>4 DEF SharedIsOwn
  <2> QED BY <1>1, <2>1, <2>3, <2>5
<1> QED BY <1>1, <1>2, <1>3, <1>4, <1>5, <1>6, <1>7, RestoreKeeps DEF Away

LEMMA ExtractsKeeps ==
  ASSUME IInv, Extracts
  PROVE  IInv'
<1>1. /\ Types /\ Order /\ RestoreFits /\ SharedIsOwn /\ pc = "extract"
      /\ UNCHANGED <<diskVars, runs, rooted, pushes, restores>>
      /\ (phone' = left /\ sharedRestored' = TRUE) \/ sharedRestored' = FALSE
  BY DEF IInv, Extracts
<1>2. PICK how : Stop(how)
  BY DEF Extracts
<1>3. pc' = "idle"
  BY <1>2 DEF Stop
<1>4. /\ restores' \in Nat \ {0} /\ pushes' \in [pushed : Nat, allOk : BOOLEAN]
      /\ sharedRestored' \in BOOLEAN
  <2>1. sharedRestored' \in BOOLEAN
    BY <1>1
  <2>2. restores' \in Nat \ {0} /\ pushes' \in [pushed : Nat, allOk : BOOLEAN]
    BY <1>1 DEF Types, Order, Away
  <2> QED BY <2>1, <2>2
<1>5. RestoreFits'
  BY <1>3 DEF RestoreFits, Away
<1>6. /\ manifest' = manifest /\ runs' = runs /\ left = EntriesOf(sharedTar.part)
      /\ manifest.shared.summed \/ manifest.run = runs => sharedTar = manifest.shared.bytes
  BY <1>1 DEF RestoreFits, HasArchive, diskVars, SharedIsOwn, Settled, Away
<1>7. SharedRestoredIsTrue'
  BY <1>1, <1>6 DEF SharedRestoredIsTrue, EntriesOf
<1> QED BY <1>1, <1>2, <1>3, <1>4, <1>5, <1>7, RestoreKeeps DEF Away

-----------------------------------------------------------------------------
(* The theorems.                                                           *)

LEMMA NextKeepsIInv ==
  ASSUME CapturesAssumption, IInv, [Next]_vars
  PROVE  IInv'
<1>1. CASE UNCHANGED vars
  BY <1>1, FlagStep DEF vars, memoryVars
<1>2. CASE Ask \/ Refuse \/ Begin
  BY <1>2, AskKeeps, RefuseKeeps, BeginKeeps
<1>3. CASE SkipShared \/ SharedBegins \/ ArchivesShared \/ SharedFails
  BY <1>3, SkipSharedKeeps, SharedBeginsKeeps, ArchivesSharedKeeps, SharedFailsKeeps
<1>4. CASE \E part \in {"whole", "some"} : PullsShared(part) \/ Pulls(part)
  BY <1>4, PullsSharedKeeps, PullsKeeps
<1>5. CASE Collect \/ NoDirectory \/ PassOver \/ PullBegins \/ PullFails \/ LeaveLoop
  BY <1>5, CollectKeeps, NoDirectoryKeeps, PassOverKeeps, PullBeginsKeeps, PullFailsKeeps,
     LeaveLoopKeeps
<1>6. CASE WriteManifest \/ Cancel \/ Kill
  <2>1. CASE Cancel
    BY <2>1, FlagStep DEF Cancel
  <2> QED BY <1>6, <2>1, WriteManifestKeeps, KillKeeps
<1>7. CASE RestoreBegins \/ RestoreShared \/ PushEntry \/ PushEnds \/ Extracts
  BY <1>7, RestoreBeginsKeeps, RestoreSharedKeeps, PushEntryKeeps, PushEndsKeeps, ExtractsKeeps
<1> QED BY <1>1, <1>2, <1>3, <1>4, <1>5, <1>6, <1>7 DEF Next

LEMMA Invariant == Spec => []IInv
<1>1. Init => IInv
  BY CapturesAssumption, InitIInv
<1>2. IInv /\ [Next]_vars => IInv'
  BY CapturesAssumption, NextKeepsIInv
<1> QED BY <1>1, <1>2, PTL DEF Spec

\* Every capture the last finished run lists has a directory of its own with the
\* tree of its own path as that run pulled it, whatever earlier runs left there
\* (uniqueName, remove_all and `complete` in captureFilesystem).
THEOREM CapturesHaveTheirTrees ==
  ASSUME NumeralsDiffer
  PROVE  Spec => []CapturesAreTheirOwn
<1>1. IInv => CapturesAreTheirOwn
  BY NumeralsDiffer DEF IInv, CapturesInv
<1> QED BY <1>1, Invariant, PTL

\* A restore that reports shared storage as restored wrote all of what the backup
\* holds of it (restoreSharedStorage of both backends).
THEOREM RestoredSharedIsWhole == Spec => []SharedRestoredIsTrue
<1>1. IInv => SharedRestoredIsTrue
  BY DEF IInv
<1> QED BY <1>1, Invariant, PTL

-----------------------------------------------------------------------------
(* Chapter two: the paths.  What a list, a set of numbers and a recursive  *)
(* function are, as the proofs about paths need them: the library's theorems *)
(* on recursive definitions and on induction take an operator, which the   *)
(* provers cannot be given.                                                *)

LEMMA NatSet ==
  ASSUME NEW S, 0 \in S, \A n \in Nat : n \in S => n + 1 \in S
  PROVE  Nat \subseteq S
<1>1. IsWellFoundedOn(OpToRel(<, Nat), Nat)
  BY NatLessThanWellFounded
<1>2. SUFFICES ASSUME NEW x \in Nat, x \notin S PROVE FALSE
  OBVIOUS
<1>3. \E y \in Nat \ S : \A z \in Nat \ S : ~(<<z, y>> \in OpToRel(<, Nat))
  BY <1>1, <1>2, WFMin
<1>4. PICK y \in Nat \ S : \A z \in Nat \ S : ~(z < y)
  BY <1>3 DEF OpToRel
<1>5. y # 0 /\ y - 1 \in Nat
  BY <1>4
<1>6. y - 1 \in S
  BY <1>4, <1>5
<1> QED BY <1>4, <1>5, <1>6

\* A set of numbers has a least one, and one with a bound a greatest one.
LEMMA Least ==
  ASSUME NEW S \in SUBSET Nat, S # {}
  PROVE  Min(S) \in S /\ \A y \in S : Min(S) <= y
<1>1. IsWellFoundedOn(OpToRel(<, Nat), Nat)
  BY NatLessThanWellFounded
<1>2. PICK x \in S : \A y \in S : ~(<<y, x>> \in OpToRel(<, Nat))
  BY <1>1, WFMin
<1>3. \A y \in S : x <= y
  <2>1. \A y \in S : <<y, x>> \in Nat \X Nat
    OBVIOUS
  <2>2. \A y \in S : ~(y < x)
    BY <1>2, <2>1 DEF OpToRel
  <2> QED BY <2>2
<1> QED BY <1>3 DEF Min

LEMMA Greatest ==
  ASSUME NEW S \in SUBSET Nat, S # {}, NEW bound \in Nat, \A y \in S : y <= bound
  PROVE  Max(S) \in S /\ \A y \in S : Max(S) >= y
<1> DEFINE U == {u \in Nat : \A y \in S : y <= u}
<1>1. U \in SUBSET Nat /\ U # {}
  OBVIOUS
<1>2. Min(U) \in U /\ \A u \in U : Min(U) <= u
  <2> HIDE DEF U
  <2> QED BY <1>1, Least
<1> DEFINE m == Min(U)
<1>3. m \in Nat /\ \A y \in S : y <= m
  BY <1>2
<1> HIDE DEF m
<1>4. m \in S
  <2> SUFFICES ASSUME m \notin S PROVE FALSE
    OBVIOUS
  <2>1. \A y \in S : y <= m - 1
    BY <1>3
  <2>2. m - 1 \in Nat
    <3>1. PICK y \in S : TRUE
      OBVIOUS
    <3>2. y \in Nat /\ y <= m - 1
      BY <2>1
    <3> QED BY <1>3, <3>2
  <2>3. m - 1 \in U
    BY <2>1, <2>2
  <2> QED BY <1>2, <1>3, <2>3 DEF m
<1>5. \A y \in S : m >= y
  BY <1>3
<1> QED BY <1>4, <1>5 DEF Max

\* A function may be given by where it begins and how it goes on.
GoesOn(V, L, first, step) ==
  \E f \in [0..L -> V] : f[0] = first /\ \A n \in 1..L : f[n] = step[n][f[n - 1]]

LEMMA Recursion ==
  ASSUME NEW V, NEW L \in Nat, NEW first \in V, NEW step \in [1..L -> [V -> V]]
  PROVE  GoesOn(V, L, first, step)
<1> DEFINE Upto(n, g) == /\ g \in [0..n -> V] /\ g[0] = first
                         /\ \A m \in 1..n : g[m] = step[m][g[m - 1]]
           T == {n \in Nat : n > L \/ \E g : Upto(n, g)}
<1>1. 0 \in T
  <2> DEFINE e == [m \in 0..0 |-> first]
  <2>1. e \in [0..0 -> V] /\ e[0] = first /\ 1..0 = {}
    OBVIOUS
  <2>2. Upto(0, e)
    <3> HIDE DEF e
    <3> QED BY <2>1
  <2> HIDE DEF Upto, e
  <2> QED BY <2>2
<1>2. \A n \in Nat : n \in T => n + 1 \in T
  <2>1. SUFFICES ASSUME NEW n \in Nat, n \in T, n + 1 <= L
                 PROVE  \E g : Upto(n + 1, g)
    <3> HIDE DEF Upto
    <3> QED OBVIOUS
  <2>2. PICK g : Upto(n, g)
    <3>1. ~(n > L)
      BY <2>1
    <3> HIDE DEF Upto
    <3> QED BY <2>1, <3>1
  <2> DEFINE next == step[n + 1][g[n]]
             h == [m \in 0..(n + 1) |-> IF m = n + 1 THEN next ELSE g[m]]
  <2>3. next \in V
    <3>1. n + 1 \in 1..L /\ n \in 0..n
      BY <2>1
    <3> QED BY <2>2, <3>1
  <2>4. /\ h \in [0..(n + 1) -> V] /\ h[n + 1] = next
        /\ \A m \in 0..n : h[m] = g[m]
    <3> HIDE DEF next
    <3>1. \A m \in 0..(n + 1) : m # n + 1 => m \in 0..n
      OBVIOUS
    <3>2. \A m \in 0..n : m \in 0..(n + 1) /\ m # n + 1
      OBVIOUS
    <3>3. n + 1 \in 0..(n + 1)
      OBVIOUS
    <3> QED BY <2>2, <2>3, <3>1, <3>2, <3>3
  <2> HIDE DEF h
  <2>5. ASSUME NEW m \in 1..(n + 1)
        PROVE  h[m] = step[m][h[m - 1]]
    <3>1. CASE m = n + 1
      <4>1. m - 1 = n /\ n \in 0..n
        BY <3>1
      <4> QED BY <2>4, <3>1, <4>1
    <3>2. CASE m # n + 1
      <4>1. m \in 1..n /\ m \in 0..n /\ m - 1 \in 0..n
        BY <3>2
      <4> QED BY <2>2, <2>4, <4>1
    <3> QED BY <3>1, <3>2
  <2>6. h[0] = first
    <3>1. 0 \in 0..n
      OBVIOUS
    <3> QED BY <2>2, <2>4, <3>1
  <2> QED BY <2>4, <2>5, <2>6
<1>3. L \in T
  <2>1. Nat \subseteq T
    <3> HIDE DEF T
    <3> QED BY <1>1, <1>2, NatSet
  <2> QED BY <2>1
<1>4. PICK f : Upto(L, f)
  BY <1>3
<1> QED BY <1>4 DEF GoesOn

\* Two functions that begin the same and go on the same.
LEMMA SameSteps ==
  ASSUME NEW L \in Nat, NEW g, NEW h, g[0] = h[0],
         \A n \in 1..L : g[n - 1] = h[n - 1] => g[n] = h[n]
  PROVE  g[L] = h[L]
<1> DEFINE T == {n \in Nat : n > L \/ g[n] = h[n]}
<1>1. 0 \in T
  OBVIOUS
<1>2. \A n \in Nat : n \in T => n + 1 \in T
  <2> SUFFICES ASSUME NEW n \in Nat, g[n] = h[n], n + 1 <= L PROVE g[n + 1] = h[n + 1]
    OBVIOUS
  <2>1. n + 1 \in 1..L /\ (n + 1) - 1 = n
    OBVIOUS
  <2> QED BY <2>1
<1>3. Nat \subseteq T
  <2> HIDE DEF T
  <2> QED BY <1>1, <1>2, NatSet
<1> QED BY <1>3

\* What holds of the empty list, and of a list with one more item whenever it
\* holds of the list, holds of every list.
LEMMA Unappend ==
  ASSUME NEW A, NEW s \in Seq(A), s # <<>>
  PROVE  /\ Len(s) \in Nat /\ Len(s) > 0 /\ s[Len(s)] \in A /\ Front(s) \in Seq(A)
         /\ s = Append(Front(s), s[Len(s)]) /\ Len(Front(s)) = Len(s) - 1
         /\ \A n \in 1..(Len(s) - 1) : Front(s)[n] = s[n]
<1>1. Len(s) \in Nat /\ Len(s) > 0 /\ s[Len(s)] \in A
  BY LenProperties, EmptySeq, ElementOfSeq
<1>2. Front(s) = SubSeq(s, 1, Len(s) - 1)
  BY DEF Front
<1>3. Front(s) \in Seq(A) /\ Len(Front(s)) = Len(s) - 1
          /\ \A n \in 1..(Len(s) - 1) : Front(s)[n] = s[n]
  <2>1. \A n \in 1..(Len(s) - 1) : n \in 1..Len(s) /\ s[n] \in A
    BY <1>1, ElementOfSeq
  <2> DEFINE m == Len(s) - 1
  <2>2. m \in Nat /\ 1 \in Int /\ m - 1 + 1 = m
    BY <1>1
  <2> HIDE DEF m
  <2>3. \A n \in 1..m : s[n] \in A
    BY <2>1 DEF m
  <2>4. /\ SubSeq(s, 1, m) \in Seq(A)
        /\ Len(SubSeq(s, 1, m)) = IF 1 <= m THEN m - 1 + 1 ELSE 0
        /\ \A n \in 1..(m - 1 + 1) : SubSeq(s, 1, m)[n] = s[1 + n - 1]
    BY <2>2, <2>3, SubSeqProperties
  <2>5. Len(SubSeq(s, 1, m)) = m /\ \A n \in 1..m : SubSeq(s, 1, m)[n] = s[n]
    BY <2>2, <2>4
  <2> QED BY <1>2, <2>4, <2>5 DEF m
<1>4. Append(Front(s), s[Len(s)]) \in Seq(A) /\ Len(Append(Front(s), s[Len(s)])) = Len(s)
      /\ (\A n \in 1..(Len(s) - 1) : Append(Front(s), s[Len(s)])[n] = Front(s)[n])
      /\ Append(Front(s), s[Len(s)])[Len(s)] = s[Len(s)]
  <2> DEFINE f == Front(s)
             x == s[Len(s)]
  <2>1. f \in Seq(A) /\ x \in A /\ Len(f) = Len(s) - 1 /\ Len(s) \in Nat
    BY <1>1, <1>3
  <2> HIDE DEF f, x
  <2>2. /\ Append(f, x) \in Seq(A) /\ Len(Append(f, x)) = Len(f) + 1
        /\ \A n \in 1..Len(f) : Append(f, x)[n] = f[n]
        /\ Append(f, x)[Len(f) + 1] = x
    BY <2>1, AppendProperties
  <2>3. Len(f) + 1 = Len(s)
    BY <2>1
  <2> QED BY <2>1, <2>2, <2>3 DEF f, x
<1>5. \A n \in 1..Len(s) : n = Len(s) \/ n \in 1..(Len(s) - 1)
  BY <1>1
<1>6. \A n \in 1..Len(s) : s[n] = Append(Front(s), s[Len(s)])[n]
  BY <1>3, <1>4, <1>5
<1>7. s = Append(Front(s), s[Len(s)])
  BY <1>4, <1>6, SeqEqual
<1> QED BY <1>1, <1>3, <1>7

LEMMA ListSet ==
  ASSUME NEW A, NEW T, <<>> \in T,
         \A s \in Seq(A) : s \in T => \A x \in A : Append(s, x) \in T
  PROVE  Seq(A) \subseteq T
<1> DEFINE S == {n \in Nat : \A s \in Seq(A) : Len(s) = n => s \in T}
<1>1. 0 \in S
  BY EmptySeq
<1>2. \A n \in Nat : n \in S => n + 1 \in S
  <2> SUFFICES ASSUME NEW n \in Nat, n \in S, NEW s \in Seq(A), Len(s) = n + 1
               PROVE  s \in T
    OBVIOUS
  <2>1. s # <<>>
    OBVIOUS
  <2>2. /\ Front(s) \in Seq(A) /\ s[Len(s)] \in A /\ s = Append(Front(s), s[Len(s)])
        /\ Len(Front(s)) = n
    BY <2>1, Unappend
  <2>3. Front(s) \in T
    BY <2>2
  <2> QED BY <2>2, <2>3
<1>3. Nat \subseteq S
  <2> HIDE DEF S
  <2> QED BY <1>1, <1>2, NatSet
<1> QED BY <1>3, LenProperties

-----------------------------------------------------------------------------
(* normalize: Squeeze, a piece at a time.                                  *)

\* How Squeeze goes through a path.
Squeezes(g, path) ==
  /\ g[0] = <<>>
  /\ \A n \in 1..Len(path) :
       g[n] = IF path[n] = "/" /\ n > 1 /\ path[n - 1] = "/" THEN g[n - 1]
              ELSE Append(g[n - 1], path[n])

LEMMA SqueezeSqueezes ==
  ASSUME NEW A, NEW path \in Seq(A)
  PROVE  \E g \in [0..Len(path) -> Seq(A)] : Squeezes(g, path) /\ Squeeze(path) = g[Len(path)]
<1> DEFINE L == Len(path)
           step == [n \in 1..L |-> [v \in Seq(A) |->
                      IF path[n] = "/" /\ n > 1 /\ path[n - 1] = "/" THEN v
                          ELSE Append(v, path[n])]]
<1>1. L \in Nat /\ <<>> \in Seq(A) /\ \A n \in 1..L : path[n] \in A
  BY ElementOfSeq
<1>2. step \in [1..L -> [Seq(A) -> Seq(A)]]
  BY <1>1, AppendProperties
<1>3. PICK f \in [0..L -> Seq(A)] : f[0] = <<>> /\ \A n \in 1..L : f[n] = step[n][f[n - 1]]
  <2> HIDE DEF L, step
  <2>1. GoesOn(Seq(A), L, <<>>, step)
    BY <1>1, <1>2, Recursion
  <2> QED BY <2>1 DEF GoesOn
<1>4. \A n \in 1..L : f[n - 1] \in Seq(A)
  <2>1. \A n \in 1..L : n - 1 \in 0..L
    BY <1>1
  <2> QED BY <1>3, <2>1
<1>5. \A n \in 1..L : f[n] = IF path[n] = "/" /\ n > 1 /\ path[n - 1] = "/" THEN f[n - 1]
                             ELSE Append(f[n - 1], path[n])
  BY <1>3, <1>4
<1> HIDE DEF step
<1> DEFINE Step(g) == [n \in 0..Len(path) |->
                         IF n = 0 THEN <<>>
                         ELSE IF path[n] = "/" /\ n > 1 /\ path[n - 1] = "/" THEN g[n - 1]
                         ELSE Append(g[n - 1], path[n])]
           copied == CHOOSE g : g = Step(g)
<1>6. f = Step(f)
  <2>1. \A n \in 0..L : n = 0 \/ n \in 1..L
    BY <1>1
  <2>2. \A n \in 0..L : f[n] = IF n = 0 THEN <<>>
                         ELSE IF path[n] = "/" /\ n > 1 /\ path[n - 1] = "/" THEN f[n - 1]
                         ELSE Append(f[n - 1], path[n])
    BY <2>1, <1>3, <1>5
  <2> QED BY <2>2, <1>3
<1>7. copied = Step(copied)
  <2> HIDE DEF Step
  <2> QED BY <1>6
<1>8. Squeeze(path) = copied[L]
  BY DEF Squeeze
<1> HIDE DEF copied
<1>9. /\ copied[0] = <<>>
      /\ \A n \in 1..L : copied[n] = IF path[n] = "/" /\ n > 1 /\ path[n - 1] = "/"
             THEN copied[n - 1]
                              ELSE Append(copied[n - 1], path[n])
  <2>1. 0 \in 0..L /\ \A n \in 1..L : n \in 0..L /\ n # 0
    BY <1>1
  <2> QED BY <1>7, <2>1
<1> HIDE DEF Step
<1>10. copied[L] = f[L]
  <2>1. copied[0] = f[0] /\ \A n \in 1..L : copied[n - 1] = f[n - 1] => copied[n] = f[n]
    BY <1>3, <1>5, <1>9
  <2> HIDE DEF L
  <2> QED BY <1>1, <2>1, SameSteps
<1> QED BY <1>3, <1>5, <1>8, <1>10 DEF Squeezes

LEMMA SqueezeEmpty == Squeeze(<<>>) = <<>>
<1>1. <<>> \in Seq({}) /\ Len(<<>>) = 0
  OBVIOUS
<1>2. PICK g \in [0..Len(<<>>) -> Seq({})] : Squeezes(g, <<>>) /\ Squeeze(<<>>) = g[Len(<<>>)]
  BY <1>1, SqueezeSqueezes
<1> QED BY <1>1, <1>2 DEF Squeezes

LEMMA SqueezeAppend ==
  ASSUME NEW A, NEW s \in Seq(A), NEW x \in A
  PROVE  /\ Squeeze(s) \in Seq(A)
         /\ Squeeze(Append(s, x)) = IF x = "/" /\ Len(s) > 0 /\ s[Len(s)] = "/" THEN Squeeze(s)
                                   ELSE Append(Squeeze(s), x)
<1> DEFINE t == Append(s, x)
           L == Len(s)
<1>1. /\ t \in Seq(A) /\ Len(t) = L + 1 /\ (\A n \in 1..L : t[n] = s[n]) /\ t[L + 1] = x
      /\ L \in Nat
  BY AppendProperties
<1>2. PICK g \in [0..L -> Seq(A)] : Squeezes(g, s) /\ Squeeze(s) = g[L]
  BY SqueezeSqueezes
<1>3. PICK h \in [0..Len(t) -> Seq(A)] : Squeezes(h, t) /\ Squeeze(t) = h[Len(t)]
  BY <1>1, SqueezeSqueezes
<1> HIDE DEF t, L
<1>4. \A n \in 1..L : n \in 1..Len(s) /\ n \in 1..Len(t) /\ t[n] = s[n]
          /\ (n > 1 => t[n - 1] = s[n - 1])
  <2>1. \A n \in 1..L : n \in 1..Len(t) /\ (n > 1 => n - 1 \in 1..L)
    BY <1>1
  <2> QED BY <1>1, <2>1 DEF L
<1>5. g[0] = h[0] /\ \A n \in 1..L : g[n - 1] = h[n - 1] => g[n] = h[n]
  BY <1>2, <1>3, <1>4 DEF Squeezes
<1>6. g[L] = h[L]
  BY <1>1, <1>5, SameSteps
<1>7. L + 1 \in 1..Len(t) /\ (L + 1) - 1 = L /\ (L + 1 > 1 <=> L > 0) /\ (L > 0 => t[L] = s[L])
  BY <1>1
<1>8. h[L + 1] = IF x = "/" /\ L > 0 /\ s[L] = "/" THEN h[L] ELSE Append(h[L], x)
  BY <1>1, <1>3, <1>7 DEF Squeezes
<1>9. g[L] \in Seq(A)
  BY <1>1, <1>2
<1> QED BY <1>1, <1>2, <1>3, <1>6, <1>8, <1>9 DEF t, L

-----------------------------------------------------------------------------
(* Prefixes, and what a normalised path is.                                *)

\* IsPrefix, piece by piece.
LEMMA PrefixIs ==
  ASSUME NEW A, NEW s \in Seq(A), NEW t \in Seq(A)
  PROVE  IsPrefix(s, t) <=> Len(s) <= Len(t) /\ \A n \in 1..Len(s) : s[n] = t[n]
<1>1. Len(s) \in Nat /\ Len(t) \in Nat /\ SubSeq(s, 1, Len(s)) = s
  BY SubSeqFull, LenProperties
<1>2. SUFFICES ASSUME Len(s) <= Len(t)
               PROVE  SubSeq(s, 1, Len(s)) = SubSeq(t, 1, Len(s)) <=> \A n \in 1..Len(s) :
                          s[n] = t[n]
  BY DEF IsPrefix
<1> DEFINE p == SubSeq(t, 1, Len(s))
<1>3. p \in Seq(A) /\ Len(p) = Len(s) /\ \A n \in 1..Len(s) : p[n] = t[n]
  <2>1. \A n \in 1..Len(s) : t[n] \in A
    BY <1>1, <1>2, ElementOfSeq
  <2> DEFINE m == Len(s)
  <2>2. m \in Nat
    BY <1>1
  <2>3. /\ SubSeq(t, 1, m) \in Seq(A)
        /\ Len(SubSeq(t, 1, m)) = IF 1 <= m THEN m - 1 + 1 ELSE 0
        /\ \A n \in 1..(m - 1 + 1) : SubSeq(t, 1, m)[n] = t[1 + n - 1]
    BY <2>1, <2>2, SubSeqProperties
  <2> HIDE DEF m
  <2>4. Len(SubSeq(t, 1, m)) = m /\ \A n \in 1..m : SubSeq(t, 1, m)[n] = t[n]
    BY <2>2, <2>3
  <2> QED BY <2>3, <2>4 DEF m
<1> HIDE DEF p
<1>4. s = p <=> \A n \in 1..Len(s) : s[n] = t[n]
  BY <1>3, SeqEqual
<1> QED BY <1>1, <1>4 DEF p

LEMMA PrefixOfPrefix ==
  ASSUME NEW A, NEW s \in Seq(A), NEW t \in Seq(A), NEW u \in Seq(A),
         IsPrefix(s, t), IsPrefix(t, u)
  PROVE  IsPrefix(s, u)
<1>1. Len(s) \in Nat /\ Len(t) \in Nat /\ Len(u) \in Nat
  BY LenProperties
<1>2. /\ Len(s) <= Len(t) /\ \A n \in 1..Len(s) : s[n] = t[n]
      /\ Len(t) <= Len(u) /\ \A n \in 1..Len(t) : t[n] = u[n]
  BY PrefixIs
<1>3. \A n \in 1..Len(s) : n \in 1..Len(t)
  BY <1>1, <1>2
<1> QED BY <1>1, <1>2, <1>3, PrefixIs

\* No separator right after another, and none at the end.
Single(path) == \A n \in 1..(Len(path) - 1) : ~(path[n] = "/" /\ path[n + 1] = "/")
Normal(path) == Single(path) /\ (Len(path) > 1 => path[Len(path)] # "/")

LEMMA SqueezeIs ==
  ASSUME NEW A, NEW path \in Seq(A)
  PROVE  /\ Squeeze(path) \in Seq(A) /\ Single(Squeeze(path))
         /\ Len(Squeeze(path)) = 0 <=> Len(path) = 0
         /\ Len(path) > 0 => Squeeze(path)[Len(Squeeze(path))] = path[Len(path)]
<1> DEFINE P(s) == /\ Squeeze(s) \in Seq(A) /\ Single(Squeeze(s))
                   /\ Len(Squeeze(s)) = 0 <=> Len(s) = 0
                   /\ Len(s) > 0 => Squeeze(s)[Len(Squeeze(s))] = s[Len(s)]
           T == {s \in Seq(A) : P(s)}
<1>1. <<>> \in T
  <2>1. Len(<<>>) = 0 /\ <<>> \in Seq(A)
    OBVIOUS
  <2>2. Single(<<>>)
    BY <2>1 DEF Single
  <2> QED BY <2>1, <2>2, SqueezeEmpty
<1>2. ASSUME NEW s \in Seq(A), P(s), NEW x \in A
      PROVE  P(Append(s, x))
  <2> DEFINE q == Squeeze(s)
             t == Append(s, x)
  <2>1. /\ q \in Seq(A) /\ Len(q) \in Nat /\ Len(s) \in Nat /\ t \in Seq(A)
        /\ Len(t) = Len(s) + 1 /\ t[Len(s) + 1] = x
    BY <1>2, AppendProperties, LenProperties
  <2>2. Squeeze(t) = IF x = "/" /\ Len(s) > 0 /\ s[Len(s)] = "/" THEN q ELSE Append(q, x)
    BY SqueezeAppend
  <2> HIDE DEF q, t
  <2>3. CASE x = "/" /\ Len(s) > 0 /\ s[Len(s)] = "/"
    <3>1. Squeeze(t) = q
      BY <2>2, <2>3
    <3>2. P(t)
      BY <1>2, <2>1, <2>3, <3>1 DEF q
    <3> QED BY <3>2 DEF t
  <2>4. CASE ~(x = "/" /\ Len(s) > 0 /\ s[Len(s)] = "/")
    <3> DEFINE r == Append(q, x)
    <3>1. Squeeze(t) = r
      BY <2>2, <2>4
    <3>2. /\ r \in Seq(A) /\ Len(r) = Len(q) + 1 /\ r[Len(q) + 1] = x
          /\ \A n \in 1..Len(q) : r[n] = q[n]
      BY <2>1, AppendProperties
    <3> HIDE DEF r
    <3>3. Single(r)
      <4> SUFFICES ASSUME NEW n \in 1..(Len(r) - 1), r[n] = "/", r[n + 1] = "/" PROVE FALSE
        BY DEF Single
      <4>1. n \in 1..Len(q) /\ r[n] = q[n]
        BY <2>1, <3>2
      <4>2. CASE n = Len(q)
        <5>1. x = "/" /\ q[Len(q)] = "/" /\ Len(q) # 0
          BY <3>2, <4>1, <4>2, <2>1
        <5>2. Len(s) > 0
          BY <1>2, <2>1, <5>1 DEF q
        <5>3. s[Len(s)] = "/"
          BY <1>2, <5>1, <5>2 DEF q
        <5> QED BY <2>4, <5>1, <5>2, <5>3
      <4>3. CASE n # Len(q)
        <5>1. n \in 1..(Len(q) - 1) /\ n + 1 \in 1..Len(q)
          BY <2>1, <4>1, <4>3
        <5>2. q[n] = "/" /\ q[n + 1] = "/"
          BY <3>2, <4>1, <5>1
        <5> QED BY <1>2, <5>1, <5>2 DEF Single, q
      <4> QED BY <4>2, <4>3
    <3>4. P(t)
      BY <2>1, <3>1, <3>2, <3>3
    <3> QED BY <3>4 DEF t
  <2> QED BY <2>3, <2>4
<1>3. \A s \in Seq(A) : s \in T => \A x \in A : Append(s, x) \in T
  <2> HIDE DEF P
  <2> QED BY <1>2, AppendProperties
<1>4. Seq(A) \subseteq T
  <2> HIDE DEF T
  <2> QED BY <1>1, <1>3, ListSet
<1> QED BY <1>4

LEMMA SqueezeOfSingle ==
  ASSUME NEW A, NEW path \in Seq(A), Single(path)
  PROVE  Squeeze(path) = path
<1> DEFINE T == {s \in Seq(A) : Single(s) => Squeeze(s) = s}
<1>1. <<>> \in T
  BY SqueezeEmpty
<1>2. ASSUME NEW s \in Seq(A), s \in T, NEW x \in A, Single(Append(s, x))
      PROVE  Squeeze(Append(s, x)) = Append(s, x)
  <2> DEFINE t == Append(s, x)
  <2>1. /\ Len(s) \in Nat /\ Len(t) = Len(s) + 1 /\ t[Len(s) + 1] = x
        /\ \A n \in 1..Len(s) : t[n] = s[n]
    BY AppendProperties, LenProperties
  <2>2. Squeeze(t) = IF x = "/" /\ Len(s) > 0 /\ s[Len(s)] = "/" THEN Squeeze(s)
            ELSE Append(Squeeze(s), x)
    BY SqueezeAppend
  <2>3. Single(t)
    BY <1>2
  <2> HIDE DEF t
  <2>4. Single(s)
    <3> SUFFICES ASSUME NEW n \in 1..(Len(s) - 1), s[n] = "/", s[n + 1] = "/" PROVE FALSE
      BY DEF Single
    <3>1. n \in 1..(Len(t) - 1) /\ n \in 1..Len(s) /\ n + 1 \in 1..Len(s)
      BY <2>1
    <3> QED BY <2>1, <2>3, <3>1 DEF Single
  <2>5. Squeeze(s) = s
    BY <1>2, <2>4
  <2>6. ~(x = "/" /\ Len(s) > 0 /\ s[Len(s)] = "/")
    <3> SUFFICES ASSUME x = "/", Len(s) > 0, s[Len(s)] = "/" PROVE FALSE
      OBVIOUS
    <3>1. Len(s) \in 1..(Len(t) - 1) /\ Len(s) \in 1..Len(s)
      BY <2>1
    <3> QED BY <2>1, <2>3, <3>1 DEF Single
  <2> QED BY <2>2, <2>5, <2>6 DEF t
<1>3. \A s \in Seq(A) : s \in T => \A x \in A : Append(s, x) \in T
  BY <1>2, AppendProperties
<1>4. Seq(A) \subseteq T
  <2> HIDE DEF T
  <2> QED BY <1>1, <1>3, ListSet
<1> QED BY <1>4

LEMMA NormalizeIs ==
  ASSUME NEW A, NEW path \in Seq(A)
  PROVE  Normalize(path) \in Seq(A) /\ Normal(Normalize(path))
<1> DEFINE q == Squeeze(path)
<1>1. q \in Seq(A) /\ Single(q) /\ Len(q) \in Nat
  BY SqueezeIs, LenProperties
<1>2. Normalize(path) = IF Len(q) > 1 /\ q[Len(q)] = "/" THEN Front(q) ELSE q
  BY DEF Normalize, Last
<1> HIDE DEF q
<1>3. CASE Len(q) > 1 /\ q[Len(q)] = "/"
  <2> DEFINE f == Front(q)
  <2>1. f \in Seq(A) /\ Len(f) = Len(q) - 1 /\ \A n \in 1..(Len(q) - 1) : f[n] = q[n]
    BY <1>1, <1>3, Unappend, EmptySeq
  <2> HIDE DEF f
  <2>2. Single(f)
    <3> SUFFICES ASSUME NEW n \in 1..(Len(f) - 1), f[n] = "/", f[n + 1] = "/" PROVE FALSE
      BY DEF Single
    <3>1. n \in 1..(Len(q) - 1) /\ n + 1 \in 1..(Len(q) - 1)
      BY <1>1, <2>1
    <3> QED BY <1>1, <2>1, <3>1 DEF Single
  <2>3. ASSUME Len(f) > 1, f[Len(f)] = "/"
        PROVE  FALSE
    <3>1. Len(f) \in 1..(Len(q) - 1) /\ Len(f) + 1 = Len(q)
      BY <1>1, <2>1, <2>3
    <3>2. q[Len(f)] = "/"
      BY <2>1, <2>3, <3>1
    <3> QED BY <1>1, <1>3, <3>1, <3>2 DEF Single
  <2> QED BY <1>2, <1>3, <2>1, <2>2, <2>3 DEF Normal, f
<1>4. CASE ~(Len(q) > 1 /\ q[Len(q)] = "/")
  BY <1>1, <1>2, <1>4 DEF Normal
<1> QED BY <1>3, <1>4

LEMMA NormalizeOfNormal ==
  ASSUME NEW A, NEW path \in Seq(A), Normal(path)
  PROVE  Normalize(path) = path
BY SqueezeOfSingle DEF Normal, Normalize, Last

-----------------------------------------------------------------------------
(* Segments: the names of a path.                                          *)

\* A list of names with its last one longer by a piece.
Longer(names, piece) == [names EXCEPT ![Len(names)] = Append(@, piece)]

LEMMA LongerIs ==
  ASSUME NEW A, NEW names \in Seq(Seq(A)), NEW x \in A
  PROVE  /\ Longer(names, x) \in Seq(Seq(A)) /\ Len(Longer(names, x)) = Len(names)
         /\ \A n \in 1..(Len(names) - 1) : Longer(names, x)[n] = names[n]
         /\ names # <<>> => Longer(names, x)[Len(names)] = Append(names[Len(names)], x)
<1>1. Len(names) \in Nat /\ names \in [1..Len(names) -> Seq(A)]
  BY LenProperties
<1>2. CASE names = <<>>
  <2>1. Len(names) = 0
    BY <1>2
  <2>2. names \in [1..0 -> Seq(A)] /\ 1..0 = {}
    BY <1>1, <2>1
  <2>3. \A y, i : [names EXCEPT ![i] = y] = names
    BY <2>2
  <2>4. Longer(names, x) = names
    BY <2>3 DEF Longer
  <2>5. 1..(Len(names) - 1) = {}
    BY <2>1
  <2> QED BY <1>2, <2>4, <2>5
<1>3. CASE names # <<>>
  <2>1. Len(names) \in 1..Len(names)
    BY <1>1, <1>3, EmptySeq
  <2> DEFINE y == Append(names[Len(names)], x)
  <2>2. y \in Seq(A)
    BY <1>1, <2>1, AppendProperties
  <2>3. Longer(names, x) = [names EXCEPT ![Len(names)] = y]
    BY DEF Longer
  <2> HIDE DEF y
  <2>4. /\ [names EXCEPT ![Len(names)] = y] \in Seq(Seq(A))
        /\ Len([names EXCEPT ![Len(names)] = y]) = Len(names)
        /\ \A j \in 1 .. Len(names) : [names EXCEPT ![Len(names)] = y][j] =
               IF j=Len(names) THEN y ELSE names[j]
    BY <2>1, <2>2, ExceptSeq
  <2>5. \A n \in 1..(Len(names) - 1) : n \in 1..Len(names) /\ n # Len(names)
    <3> DEFINE m == Len(names)
    <3>1. m \in Nat
      BY <1>1
    <3> HIDE DEF m
    <3>2. \A n \in 1..(m - 1) : n \in 1..m /\ n # m
      BY <3>1
    <3> QED BY <3>2 DEF m
  <2> QED BY <2>1, <2>3, <2>4, <2>5 DEF y
<1> QED BY <1>2, <1>3

\* How Segments goes through a path.
NextNames(before, path, n) ==
  IF path[n] = "/" THEN before
  ELSE IF n > 1 /\ path[n - 1] # "/" THEN Longer(before, path[n])
  ELSE Append(before, <<path[n]>>)
NamesGo(g, path) ==
  /\ g[0] = <<>>
  /\ \A n \in 1..Len(path) : g[n] = NextNames(g[n - 1], path, n)

LEMMA SegmentsNames ==
  ASSUME NEW A, NEW path \in Seq(A)
  PROVE  \E g \in [0..Len(path) -> Seq(Seq(A))] : NamesGo(g, path) /\ Segments(path) = g[Len(path)]
<1> DEFINE L == Len(path)
           step == [n \in 1..L |-> [v \in Seq(Seq(A)) |-> NextNames(v, path, n)]]
<1>1. L \in Nat /\ <<>> \in Seq(Seq(A)) /\ \A n \in 1..L : path[n] \in A
  BY ElementOfSeq
<1>2. step \in [1..L -> [Seq(Seq(A)) -> Seq(Seq(A))]]
  <2> SUFFICES ASSUME NEW n \in 1..L, NEW v \in Seq(Seq(A))
                          PROVE NextNames(v, path, n) \in Seq(Seq(A))
    OBVIOUS
  <2> DEFINE x == path[n]
             y == <<x>>
  <2>1. x \in A /\ y \in Seq(A)
    BY <1>1
  <2> HIDE DEF x, y
  <2>2. Longer(v, x) \in Seq(Seq(A)) /\ Append(v, y) \in Seq(Seq(A))
    BY <2>1, LongerIs, AppendProperties
  <2> QED BY <2>2 DEF NextNames, x, y
<1>3. PICK f \in [0..L -> Seq(Seq(A))] : f[0] = <<>> /\ \A n \in 1..L : f[n] = step[n][f[n - 1]]
  <2> HIDE DEF L, step
  <2>1. GoesOn(Seq(Seq(A)), L, <<>>, step)
    BY <1>1, <1>2, Recursion
  <2> QED BY <2>1 DEF GoesOn
<1>4. \A n \in 1..L : f[n] = NextNames(f[n - 1], path, n)
  <2>1. \A n \in 1..L : n - 1 \in 0..L
    BY <1>1
  <2> QED BY <1>3, <2>1
<1> HIDE DEF step
<1> DEFINE Step(g) == [n \in 0..Len(path) |->
                        IF n = 0 THEN <<>>
                        ELSE IF path[n] = "/" THEN g[n - 1]
                        ELSE IF n > 1 /\ path[n - 1] # "/"
                          THEN [g[n - 1] EXCEPT ![Len(g[n - 1])] = Append(@, path[n])]
                        ELSE Append(g[n - 1], <<path[n]>>)]
           names == CHOOSE g : g = Step(g)
<1>5. ASSUME NEW g
      PROVE  Step(g) = [n \in 0..L |-> IF n = 0 THEN <<>> ELSE NextNames(g[n - 1], path, n)]
  BY DEF NextNames, Longer
<1>6. f = Step(f)
  <2>1. \A n \in 0..L : n = 0 \/ n \in 1..L
    BY <1>1
  <2>2. \A n \in 0..L : f[n] = IF n = 0 THEN <<>> ELSE NextNames(f[n - 1], path, n)
    BY <2>1, <1>3, <1>4
  <2>3. Step(f) = [n \in 0..L |-> IF n = 0 THEN <<>> ELSE NextNames(f[n - 1], path, n)]
    BY <1>5
  <2> HIDE DEF Step
  <2> QED BY <1>3, <2>2, <2>3
<1>7. names = Step(names)
  <2> HIDE DEF Step
  <2> QED BY <1>6
<1>8. Segments(path) = names[L]
  BY DEF Segments
<1> HIDE DEF names
<1>9. names[0] = <<>> /\ \A n \in 1..L : names[n] = NextNames(names[n - 1], path, n)
  <2>1. 0 \in 0..L /\ \A n \in 1..L : n \in 0..L /\ n # 0
    BY <1>1
  <2>2. names = [n \in 0..L |-> IF n = 0 THEN <<>> ELSE NextNames(names[n - 1], path, n)]
    <3>1. Step(names) = [n \in 0..L |-> IF n = 0 THEN <<>> ELSE NextNames(names[n - 1], path, n)]
      BY <1>5
    <3> HIDE DEF Step
    <3> QED BY <1>7, <3>1
  <2> HIDE DEF Step
  <2> QED BY <2>1, <2>2
<1>10. names[L] = f[L]
  <2>1. names[0] = f[0] /\ \A n \in 1..L : names[n - 1] = f[n - 1] => names[n] = f[n]
    BY <1>3, <1>4, <1>9
  <2> HIDE DEF L
  <2> QED BY <1>1, <2>1, SameSteps
<1> QED BY <1>3, <1>4, <1>8, <1>10 DEF NamesGo

LEMMA SegmentsType ==
  ASSUME NEW A, NEW path \in Seq(A)
  PROVE  Segments(path) \in Seq(Seq(A))
<1>1. PICK g \in [0..Len(path) -> Seq(Seq(A))] : Segments(path) = g[Len(path)]
  BY SegmentsNames
<1>2. Len(path) \in 0..Len(path)
  BY LenProperties
<1> QED BY <1>1, <1>2

LEMMA SegmentsEmpty == Segments(<<>>) = <<>>
<1>1. <<>> \in Seq({}) /\ Len(<<>>) = 0
  OBVIOUS
<1>2. PICK g \in [0..Len(<<>>) -> Seq(Seq({}))] : NamesGo(g, <<>>) /\ Segments(<<>>) = g[Len(<<>>)]
  BY <1>1, SegmentsNames
<1> QED BY <1>1, <1>2 DEF NamesGo

LEMMA SegmentsAppend ==
  ASSUME NEW A, NEW s \in Seq(A), NEW x \in A
  PROVE  /\ Segments(s) \in Seq(Seq(A))
         /\ Segments(Append(s, x)) =
              IF x = "/" THEN Segments(s)
              ELSE IF Len(s) > 0 /\ s[Len(s)] # "/" THEN Longer(Segments(s), x)
              ELSE Append(Segments(s), <<x>>)
<1> DEFINE t == Append(s, x)
           L == Len(s)
<1>1. /\ t \in Seq(A) /\ Len(t) = L + 1 /\ (\A n \in 1..L : t[n] = s[n]) /\ t[L + 1] = x
      /\ L \in Nat
  BY AppendProperties
<1>2. PICK g \in [0..L -> Seq(Seq(A))] : NamesGo(g, s) /\ Segments(s) = g[L]
  BY SegmentsNames
<1>3. PICK h \in [0..Len(t) -> Seq(Seq(A))] : NamesGo(h, t) /\ Segments(t) = h[Len(t)]
  BY <1>1, SegmentsNames
<1> HIDE DEF t, L
<1>4. \A n \in 1..L : n \in 1..Len(s) /\ n \in 1..Len(t) /\ t[n] = s[n]
          /\ (n > 1 => t[n - 1] = s[n - 1])
  <2>1. \A n \in 1..L : n \in 1..Len(t) /\ (n > 1 => n - 1 \in 1..L)
    BY <1>1
  <2> QED BY <1>1, <2>1 DEF L
<1>5. g[0] = h[0] /\ \A n \in 1..L : g[n - 1] = h[n - 1] => g[n] = h[n]
  <2>1. g[0] = h[0]
    BY <1>2, <1>3 DEF NamesGo
  <2>2. ASSUME NEW n \in 1..L, g[n - 1] = h[n - 1]
        PROVE  g[n] = h[n]
    <3>1. NextNames(g[n - 1], s, n) = NextNames(h[n - 1], t, n)
      BY <1>4, <2>2 DEF NextNames
    <3> QED BY <1>2, <1>3, <1>4, <3>1 DEF NamesGo
  <2> QED BY <2>1, <2>2
<1>6. g[L] = h[L]
  BY <1>1, <1>5, SameSteps
<1>7. L + 1 \in 1..Len(t) /\ (L + 1) - 1 = L /\ (L + 1 > 1 <=> L > 0) /\ (L > 0 => t[L] = s[L])
  BY <1>1
<1>8. h[L + 1] = NextNames(h[L], t, L + 1)
  BY <1>3, <1>7 DEF NamesGo
<1>9. h[L + 1] = IF x = "/" THEN h[L] ELSE IF L > 0 /\ s[L] # "/" THEN Longer(h[L], x)
          ELSE Append(h[L], <<x>>)
  BY <1>1, <1>7, <1>8 DEF NextNames
<1>10. g[L] \in Seq(Seq(A))
  BY <1>1, <1>2
<1> QED BY <1>1, <1>2, <1>3, <1>6, <1>9, <1>10 DEF t, L

\* The names of a path are those of what it is normalised to.
LEMMA SegmentsOfSqueezed ==
  ASSUME NEW A, NEW path \in Seq(A)
  PROVE  Segments(Squeeze(path)) = Segments(path)
<1> DEFINE T == {s \in Seq(A) : Segments(Squeeze(s)) = Segments(s)}
<1>1. <<>> \in T
  BY SqueezeEmpty
<1>2. ASSUME NEW s \in Seq(A), Segments(Squeeze(s)) = Segments(s), NEW x \in A
      PROVE  Segments(Squeeze(Append(s, x))) = Segments(Append(s, x))
  <2> DEFINE q == Squeeze(s)
  <2>1. /\ q \in Seq(A) /\ Len(q) \in Nat /\ Len(s) \in Nat /\ (Len(q) > 0 <=> Len(s) > 0)
        /\ Len(s) > 0 => q[Len(q)] = s[Len(s)]
    BY SqueezeIs, LenProperties
  <2>2. Squeeze(Append(s, x)) = IF x = "/" /\ Len(s) > 0 /\ s[Len(s)] = "/" THEN q ELSE Append(q, x)
    BY SqueezeAppend
  <2>3. Segments(Append(s, x)) =
              IF x = "/" THEN Segments(s)
              ELSE IF Len(s) > 0 /\ s[Len(s)] # "/" THEN Longer(Segments(s), x)
              ELSE Append(Segments(s), <<x>>)
    BY SegmentsAppend
  <2> HIDE DEF q
  <2>4. Segments(Append(q, x)) =
              IF x = "/" THEN Segments(q)
              ELSE IF Len(q) > 0 /\ q[Len(q)] # "/" THEN Longer(Segments(q), x)
              ELSE Append(Segments(q), <<x>>)
    BY <2>1, SegmentsAppend
  <2>5. Segments(q) = Segments(s)
    BY <1>2 DEF q
  <2>6. CASE x = "/" /\ Len(s) > 0 /\ s[Len(s)] = "/"
    BY <2>2, <2>3, <2>5, <2>6
  <2>7. CASE ~(x = "/" /\ Len(s) > 0 /\ s[Len(s)] = "/")
    <3>1. Squeeze(Append(s, x)) = Append(q, x)
      BY <2>2, <2>7
    <3>2. (Len(q) > 0 /\ q[Len(q)] # "/") <=> (Len(s) > 0 /\ s[Len(s)] # "/")
      BY <2>1
    <3>3. Segments(Append(q, x)) = Segments(Append(s, x))
      BY <2>3, <2>4, <2>5, <3>2
    <3> QED BY <3>1, <3>3
  <2> QED BY <2>6, <2>7
<1>3. \A s \in Seq(A) : s \in T => \A x \in A : Append(s, x) \in T
  BY <1>2, AppendProperties
<1>4. Seq(A) \subseteq T
  <2> HIDE DEF T
  <2> QED BY <1>1, <1>3, ListSet
<1> QED BY <1>4

LEMMA SegmentsOfNormalized ==
  ASSUME NEW A, NEW path \in Seq(A)
  PROVE  Segments(Normalize(path)) = Segments(path)
<1> DEFINE q == Squeeze(path)
<1>1. q \in Seq(A) /\ Segments(q) = Segments(path)
  BY SqueezeIs, SegmentsOfSqueezed
<1>2. Normalize(path) = IF Len(q) > 1 /\ q[Len(q)] = "/" THEN Front(q) ELSE q
  BY DEF Normalize, Last
<1> HIDE DEF q
<1>3. CASE Len(q) > 1 /\ q[Len(q)] = "/"
  <2>1. Front(q) \in Seq(A) /\ q[Len(q)] \in A /\ q = Append(Front(q), q[Len(q)])
    BY <1>1, <1>3, Unappend, EmptySeq
  <2>2. Segments(Append(Front(q), q[Len(q)])) = Segments(Front(q))
    BY <1>3, <2>1, SegmentsAppend
  <2> QED BY <1>1, <1>2, <1>3, <2>1, <2>2
<1> QED BY <1>1, <1>2, <1>3

\* What comes before a separator has the first of a path's names.
LEMMA NamesBefore ==
  ASSUME NEW A, NEW path \in Seq(A), NEW m \in 0..(Len(path) - 1), path[m + 1] = "/"
  PROVE  IsPrefix(Segments(SubSeq(path, 1, m)), Segments(path))
<1> DEFINE Fits(s, n) ==
             LET p == Segments(SubSeq(s, 1, n))
                 q == Segments(s)
             IN  /\ Len(p) <= Len(q) /\ \A i \in 1..Len(p) : p[i] = q[i]
                 /\ s[Len(s)] # "/" => Len(p) < Len(q)
           T == {s \in Seq(A) : \A n \in 0..(Len(s) - 1) : s[n + 1] = "/" => Fits(s, n)}
<1>1. <<>> \in T
  <2>1. 0..(Len(<<>>) - 1) = {} /\ <<>> \in Seq(A)
    OBVIOUS
  <2> HIDE DEF Fits
  <2> QED BY <2>1
<1>2. ASSUME NEW s \in Seq(A), s \in T, NEW x \in A,
             NEW n \in 0..(Len(Append(s, x)) - 1), Append(s, x)[n + 1] = "/"
      PROVE  Fits(Append(s, x), n)
  <2> DEFINE t == Append(s, x)
             p == Segments(SubSeq(t, 1, n))
             q == Segments(s)
  <2>1. /\ Len(s) \in Nat /\ t \in Seq(A) /\ Len(t) = Len(s) + 1 /\ t[Len(s) + 1] = x
        /\ \A i \in 1..Len(s) : t[i] = s[i]
    BY AppendProperties, LenProperties
  <2>2. Segments(t) = IF x = "/" THEN q
              ELSE IF Len(s) > 0 /\ s[Len(s)] # "/" THEN Longer(q, x)
              ELSE Append(q, <<x>>)
    BY SegmentsAppend
  <2>3. n \in 0..Len(s) /\ t[n + 1] = "/"
    BY <1>2, <2>1
  <2>4. q \in Seq(Seq(A)) /\ Len(q) \in Nat
    BY SegmentsAppend, LenProperties
  <2> HIDE DEF t
  <2>5. SubSeq(t, 1, n) = SubSeq(s, 1, n)
    <3>1. \A i \in 1..n : i \in 1..Len(s) /\ t[i] = s[i] /\ t[i] \in A
      BY <2>1, <2>3
    <3>2. n \in Int /\ 1 \in Int
      BY <2>3
    <3> QED BY <3>1, <3>2
  <2>6. p \in Seq(Seq(A)) /\ Len(p) \in Nat
    <3>1. \A i \in 1..n : s[i] \in A
      BY <2>1, <2>3, ElementOfSeq
    <3>2. SubSeq(s, 1, n) \in Seq(A)
      BY <2>3, <3>1, SubSeqProperties
    <3> QED BY <2>5, <3>2, SegmentsAppend, LenProperties
  <2>7. /\ Len(p) <= Len(q) /\ \A i \in 1..Len(p) : p[i] = q[i]
        /\ x # "/" /\ s[Len(s)] # "/" => Len(p) < Len(q)
    <3>1. CASE n = Len(s)
      <4>1. x = "/" /\ SubSeq(s, 1, n) = s
        BY <2>1, <2>3, <3>1, SubSeqFull
      <4>2. p = q
        BY <2>5, <4>1
      <4> QED BY <2>4, <4>1, <4>2
    <3>2. CASE n # Len(s)
      <4>1. n \in 0..(Len(s) - 1) /\ n + 1 \in 1..Len(s)
        BY <2>1, <2>3, <3>2
      <4>2. s[n + 1] = "/"
        BY <2>1, <2>3, <4>1
      <4>3. Fits(s, n)
        <5> HIDE DEF Fits
        <5> QED BY <1>2, <4>1, <4>2
      <4> QED BY <2>5, <4>3
    <3> QED BY <3>1, <3>2
  <2> DEFINE r == Segments(t)
             Goal == Len(p) <= Len(r) /\ (\A i \in 1..Len(p) : p[i] = r[i])
                 /\ (x # "/" => Len(p) < Len(r))
  <2>8. r = IF x = "/" THEN q
              ELSE IF Len(s) > 0 /\ s[Len(s)] # "/" THEN Longer(q, x)
              ELSE Append(q, <<x>>)
    BY <2>2
  <2> HIDE DEF p, q, r
  <2>9. ASSUME x = "/"
        PROVE  Goal
    <3>1. r = q
      BY <2>8, <2>9
    <3> QED BY <2>7, <2>9, <3>1
  <2>10. ASSUME x # "/" /\ Len(s) > 0 /\ s[Len(s)] # "/"
         PROVE  Goal
    <3>1. Len(r) = Len(q) /\ \A i \in 1..(Len(q) - 1) : r[i] = q[i]
      BY <2>4, <2>8, <2>10, LongerIs
    <3>3. \A i \in 1..Len(p) : i \in 1..(Len(q) - 1)
      BY <2>4, <2>6, <2>7, <2>10
    <3> QED BY <2>4, <2>6, <2>7, <2>10, <3>1, <3>3
  <2>11. ASSUME x # "/" /\ ~(Len(s) > 0 /\ s[Len(s)] # "/")
         PROVE  Goal
    <3> DEFINE y == <<x>>
    <3>1. y \in Seq(A)
      OBVIOUS
    <3>2. r = Append(q, y)
      BY <2>8, <2>11
    <3> HIDE DEF y
    <3>3. Len(r) = Len(q) + 1 /\ \A i \in 1..Len(q) : r[i] = q[i]
      BY <2>4, <3>1, <3>2, AppendProperties
    <3>4. \A i \in 1..Len(p) : i \in 1..Len(q)
      BY <2>4, <2>6, <2>7
    <3>5. Len(p) <= Len(r) /\ Len(p) < Len(r)
      BY <2>4, <2>6, <2>7, <3>3
    <3> QED BY <2>7, <3>3, <3>4, <3>5
  <2>12. Goal
    <3> HIDE DEF Goal
    <3> QED BY <2>9, <2>10, <2>11
  <2>13. Fits(t, n)
    BY <2>1, <2>12 DEF p, r
  <2> HIDE DEF Fits
  <2> QED BY <2>13 DEF t
<1>3. \A s \in Seq(A) : s \in T => \A x \in A : Append(s, x) \in T
  <2> HIDE DEF Fits
  <2> QED BY <1>2, AppendProperties
<1>4. Seq(A) \subseteq T
  <2> HIDE DEF T
  <2> QED BY <1>1, <1>3, ListSet
<1>5. Fits(path, m)
  <2> HIDE DEF Fits
  <2> QED BY <1>4
<1>6. SubSeq(path, 1, m) \in Seq(A)
  <2>1. Len(path) \in Nat /\ m \in Int
    BY LenProperties
  <2>2. \A i \in 1..m : i \in 1..Len(path)
    BY <2>1
  <2>3. \A i \in 1..m : path[i] \in A
    BY <2>2, ElementOfSeq
  <2> QED BY <2>1, <2>3, SubSeqProperties
<1>7. Segments(SubSeq(path, 1, m)) \in Seq(Seq(A)) /\ Segments(path) \in Seq(Seq(A))
  BY <1>6, SegmentsType
<1> QED BY <1>5, <1>7, PrefixIs

-----------------------------------------------------------------------------
(* isUnder, and which of a set of paths none of the others covers.         *)

\* IsUnder, piece by piece, of paths that are normalised.
Covers(q, p) ==
  \/ q = <<"/">>
  \/ p = q
  \/ Len(q) < Len(p) /\ (\A n \in 1..Len(q) : q[n] = p[n]) /\ p[Len(q) + 1] = "/"

LEMMA UnderIs ==
  ASSUME NEW A, NEW p \in Seq(A), NEW q \in Seq(A), Normal(p), Normal(q)
  PROVE  IsUnder(p, q) <=> Covers(q, p)
<1>1. Normalize(p) = p /\ Normalize(q) = q
  BY NormalizeOfNormal
<1>2. Len(p) \in Nat /\ Len(q) \in Nat
  BY LenProperties
<1>3. IsPrefix(q, p) <=> Len(q) <= Len(p) /\ \A n \in 1..Len(q) : q[n] = p[n]
  BY PrefixIs
<1>4. IsPrefix(q, p) /\ q # p <=> Len(q) < Len(p) /\ \A n \in 1..Len(q) : q[n] = p[n]
  <2>1. ASSUME IsPrefix(q, p), Len(q) = Len(p) PROVE q = p
    BY <1>3, <2>1, SeqEqual
  <2>2. ASSUME IsPrefix(q, p), q # p PROVE Len(q) < Len(p)
    BY <1>2, <1>3, <2>1, <2>2
  <2>3. Len(q) < Len(p) => q # p
    BY <1>2
  <2> QED BY <1>2, <1>3, <2>2, <2>3
<1>5. IsUnder(p, q) <=> q = <<"/">> \/ p = q \/ (IsPrefix(q, p) /\ q # p /\ p[Len(q) + 1] = "/")
  BY <1>1 DEF IsUnder, IsStrictPrefix
<1> QED BY <1>4, <1>5 DEF Covers

LEMMA UnderIsWithin ==
  ASSUME NEW A, NEW p \in Seq(A), NEW q \in Seq(A), IsUnder(p, q)
  PROVE  Within(p, q)
<1> DEFINE a == Normalize(p)
           b == Normalize(q)
<1>1. a \in Seq(A) /\ b \in Seq(A)
  BY NormalizeIs
<1>2. Segments(a) = Segments(p) /\ Segments(b) = Segments(q)
  BY SegmentsOfNormalized
<1>3. b = <<"/">> \/ a = b \/ (IsPrefix(b, a) /\ b # a /\ a[Len(b) + 1] = "/")
  BY DEF IsUnder, IsStrictPrefix
<1> HIDE DEF a, b
<1>4. Segments(a) \in Seq(Seq(A)) /\ Segments(b) \in Seq(Seq(A))
  BY <1>1, SegmentsType
<1>5. Len(Segments(a)) \in Nat /\ Len(Segments(b)) \in Nat
  BY <1>4, LenProperties
<1>6. IsPrefix(Segments(b), Segments(a))
  <2>1. CASE b = <<"/">>
    <3> DEFINE sep == "/"
    <3>1. sep \in {sep} /\ <<>> \in Seq({sep}) /\ b = Append(<<>>, sep)
      BY <2>1
    <3>2. Segments(Append(<<>>, sep)) = Segments(<<>>)
      BY <3>1, SegmentsAppend
    <3>3. Segments(b) = <<>>
      BY <3>1, <3>2, SegmentsEmpty
    <3>4. Len(Segments(b)) = 0
      BY <3>3
    <3>5. Len(Segments(b)) <= Len(Segments(a)) /\ 1..Len(Segments(b)) = {}
      BY <1>5, <3>4
    <3> QED BY <1>4, <3>5, PrefixIs
  <2>2. CASE a = b
    BY <1>4, <1>5, <2>2, PrefixIs
  <2>3. CASE IsPrefix(b, a) /\ b # a /\ a[Len(b) + 1] = "/"
    <3>1. Len(a) \in Nat /\ Len(b) \in Nat
      BY <1>1, LenProperties
    <3>2. Len(b) <= Len(a) /\ \A n \in 1..Len(b) : b[n] = a[n]
      BY <1>1, <2>3, PrefixIs
    <3>3. Len(b) # Len(a)
      BY <1>1, <2>3, <3>2, SeqEqual
    <3>4. SubSeq(a, 1, Len(b)) = b
      BY <1>1, <2>3, SubSeqFull DEF IsPrefix
    <3>5. Len(b) \in 0..(Len(a) - 1)
      BY <3>1, <3>2, <3>3
    <3> QED BY <1>1, <2>3, <3>4, <3>5, NamesBefore
  <2> QED BY <1>3, <2>1, <2>2, <2>3
<1> QED BY <1>2, <1>6 DEF Within

\* A path that begins with a separator, normalised.
Clean(path) == Normal(path) /\ Len(path) > 0 /\ path[1] = "/"

LEMMA UnderIsLonger ==
  ASSUME NEW A, NEW p \in Seq(A), NEW q \in Seq(A), Clean(p), Clean(q), IsUnder(p, q), p # q
  PROVE  Len(q) < Len(p)
<1>1. Len(p) \in Nat /\ Len(q) \in Nat
  BY LenProperties
<1>2. Covers(q, p)
  BY UnderIs DEF Clean
<1>3. CASE q = <<"/">>
  <2>1. Len(q) = 1 /\ q[1] = "/"
    BY <1>3
  <2>2. Len(p) = 1 => p = q
    <3> SUFFICES ASSUME Len(p) = 1 PROVE p = q
      OBVIOUS
    <3>1. \A n \in 1..Len(p) : p[n] = q[n]
      BY <2>1 DEF Clean
    <3> QED BY <2>1, <3>1, SeqEqual
  <2> QED BY <1>1, <2>1, <2>2 DEF Clean
<1> QED BY <1>2, <1>3 DEF Covers

LEMMA UnderUnder ==
  ASSUME NEW A, NEW p \in Seq(A), NEW q \in Seq(A), NEW r \in Seq(A),
         Clean(p), Clean(q), Clean(r), IsUnder(p, q), IsUnder(q, r)
  PROVE  IsUnder(p, r)
<1>1. Len(p) \in Nat /\ Len(q) \in Nat /\ Len(r) \in Nat
  BY LenProperties
<1>2. Covers(q, p) /\ Covers(r, q)
  BY UnderIs DEF Clean
<1>3. SUFFICES Covers(r, p)
  BY UnderIs DEF Clean
<1>4. CASE r = <<"/">> \/ q = r \/ p = q
  BY <1>2, <1>4 DEF Covers
<1>5. CASE r # <<"/">> /\ q # r /\ p # q
  <2>1. Len(r) < Len(q) /\ (\A n \in 1..Len(r) : r[n] = q[n]) /\ q[Len(r) + 1] = "/"
    BY <1>2, <1>5 DEF Covers
  <2>2. q # <<"/">>
    <3> SUFFICES ASSUME q = <<"/">> PROVE FALSE
      OBVIOUS
    <3>1. Len(q) = 1
      OBVIOUS
    <3> QED BY <1>1, <2>1, <3>1 DEF Clean
  <2>3. Len(q) < Len(p) /\ \A n \in 1..Len(q) : q[n] = p[n]
    BY <1>2, <1>5, <2>2 DEF Covers
  <2>4. Len(r) + 1 \in 1..Len(q) /\ \A n \in 1..Len(r) : n \in 1..Len(q)
    BY <1>1, <2>1
  <2> QED BY <1>1, <2>1, <2>3, <2>4 DEF Covers
<1> QED BY <1>4, <1>5

\* None of the set covers it but itself.
Topmost(path, set) == \A other \in set : IsUnder(path, other) => other = path

LEMMA SomeIsTopmost ==
  ASSUME NEW A, NEW clean \in SUBSET Seq(A), \A p \in clean : Clean(p), NEW path \in clean
  PROVE  \E top \in clean : Topmost(top, clean) /\ IsUnder(path, top)
<1> DEFINE Above == {q \in clean : IsUnder(path, q)}
           S == {Len(q) : q \in Above}
<1>1. \A p \in clean : Len(p) \in Nat /\ IsUnder(p, p)
  <2> TAKE p \in clean
  <2>1. p \in Seq(A) /\ Normal(p)
    BY DEF Clean
  <2>2. Covers(p, p)
    BY DEF Covers
  <2> QED BY <2>1, <2>2, UnderIs, LenProperties
<1>2. S \in SUBSET Nat /\ S # {}
  BY <1>1
<1>3. Min(S) \in S /\ \A y \in S : Min(S) <= y
  <2> HIDE DEF S
  <2> QED BY <1>2, Least
<1>4. PICK top \in Above : \A q \in Above : Len(top) <= Len(q)
  BY <1>3
<1>5. ASSUME NEW q \in clean, IsUnder(top, q)
      PROVE  q = top
  <2>1. IsUnder(path, q)
    BY <1>4, <1>5, UnderUnder
  <2>2. Len(top) <= Len(q)
    BY <1>4, <2>1
  <2>3. q # top => Len(q) < Len(top)
    BY <1>4, <1>5, UnderIsLonger
  <2> QED BY <1>1, <1>4, <2>2, <2>3
<1> QED BY <1>4, <1>5 DEF Topmost

LEMMA KeepIs ==
  ASSUME NEW A, NEW clean \in SUBSET Seq(A), \A p \in clean : Clean(p)
  PROVE  Keep(clean) = {p \in clean : Topmost(p, clean)}
<1> DEFINE Step(g) == [path \in clean |->
                        ~\E other \in clean : Len(other) < Len(path) /\ g[other]
                            /\ IsUnder(path, other)]
           f == [path \in clean |-> Topmost(path, clean)]
           kept == CHOOSE g : g = Step(g)
<1>1. \A p \in clean : Len(p) \in Nat
  BY LenProperties
<1>2. ASSUME NEW path \in clean, NEW g,
             \A p \in clean : Topmost(p, clean) => g[p]
      PROVE  Step(g)[path] => Topmost(path, clean)
  <2>1. PICK top \in clean : Topmost(top, clean) /\ IsUnder(path, top)
    BY SomeIsTopmost
  <2>2. top # path => Len(top) < Len(path)
    BY <2>1, UnderIsLonger
  <2> QED BY <1>2, <2>1, <2>2
<1>3. ASSUME NEW path \in clean, NEW g
      PROVE  Topmost(path, clean) => Step(g)[path]
  <2>1. Topmost(path, clean) => \A other \in clean : ~(Len(other) < Len(path)
            /\ IsUnder(path, other))
    BY <1>1 DEF Topmost
  <2> QED BY <2>1, Zenon
<1>4. f = Step(f)
  <2>1. ASSUME NEW path \in clean
        PROVE  f[path] = Step(f)[path]
    <3>1. \A p \in clean : f[p] = Topmost(p, clean)
      OBVIOUS
    <3>2. f[path] \in BOOLEAN /\ Step(f)[path] \in BOOLEAN
      BY DEF Topmost
    <3> HIDE DEF f
    <3>3. Step(f)[path] => Topmost(path, clean)
      <4> HIDE DEF Step
      <4> QED BY <1>2, <3>1
    <3>4. Topmost(path, clean) => Step(f)[path]
      <4> HIDE DEF Step
      <4> QED BY <1>3
    <3> HIDE DEF Step
    <3> QED BY <3>1, <3>2, <3>3, <3>4
  <2> HIDE DEF f
  <2>2. f = [path \in clean |-> f[path]]
    BY DEF f
  <2>3. Step(f) = [path \in clean |-> Step(f)[path]]
    OBVIOUS
  <2> HIDE DEF Step
  <2> QED BY <2>1, <2>2, <2>3
<1>5. kept = Step(kept)
  <2> HIDE DEF Step, f
  <2> QED BY <1>4
<1>6. Keep(clean) = {p \in clean : kept[p]}
  BY DEF Keep
<1> HIDE DEF kept
<1>7. ASSUME NEW path \in clean
      PROVE  kept[path] <=> Topmost(path, clean)
  <2> HIDE DEF Step
  <2>1. \A p \in clean : Topmost(p, clean) => kept[p]
    BY <1>3, <1>5
  <2> QED BY <1>2, <1>5, <2>1
<1> QED BY <1>6, <1>7

-----------------------------------------------------------------------------
(* What a path that may be pulled is, and the order of what is pulled.     *)

LEMMA TrimType ==
  ASSUME NEW A, NEW text \in Seq(A)
  PROVE  Trim(text) \in Seq(A)
<1> DEFINE solid == {n \in DOMAIN text : text[n] # " "}
<1>1. Len(text) \in Nat /\ DOMAIN text = 1..Len(text) /\ \A n \in 1..Len(text) : text[n] \in A
  BY LenProperties, ElementOfSeq
<1>2. Trim(text) = IF solid = {} THEN <<>> ELSE SubSeq(text, Min(solid), Max(solid))
  BY DEF Trim
<1>3. solid \in SUBSET Nat /\ \A n \in solid : n \in 1..Len(text) /\ n <= Len(text)
  <2>1. solid \subseteq 1..Len(text)
    BY <1>1
  <2> DEFINE m == Len(text)
  <2>2. m \in Nat /\ solid \subseteq 1..m
    BY <1>1, <2>1
  <2> HIDE DEF m, solid
  <2>3. solid \in SUBSET Nat /\ \A n \in solid : n \in 1..m /\ n <= m
    BY <2>2
  <2> QED BY <2>3 DEF m
<1> HIDE DEF solid
<1>4. CASE solid = {}
  BY <1>2, <1>4, EmptySeq
<1>5. CASE solid # {}
  <2> DEFINE a == Min(solid)
             b == Max(solid)
  <2>1. a \in solid /\ b \in solid
    BY <1>1, <1>3, <1>5, Least, Greatest
  <2> HIDE DEF a, b
  <2>2. a \in 1..Len(text) /\ b \in 1..Len(text)
    BY <1>3, <2>1
  <2>3. \A n \in a..b : text[n] \in A
    BY <1>1, <2>2
  <2>4. SubSeq(text, a, b) \in Seq(A)
    BY <2>2, <2>3, SubSeqProperties
  <2> QED BY <1>2, <1>5, <2>4 DEF a, b
<1> QED BY <1>4, <1>5

\* A path that may be pulled is an absolute one, and not the root.
LEMMA PullableIs ==
  ASSUME NEW A, NEW path \in Seq(A)
  PROVE  /\ Normalize(Trim(path)) \in Seq(A) /\ Normal(Normalize(Trim(path)))
         /\ IsPullable(path) => Clean(Normalize(Trim(path))) /\ Normalize(Trim(path)) # <<"/">>
<1> DEFINE p == Normalize(Trim(path))
<1>1. p \in Seq(A) /\ Normal(p)
  BY TrimType, NormalizeIs
<1>2. IsPullable(path) => p # <<>> /\ Head(p) = "/" /\ p # <<"/">>
  BY DEF IsPullable, Classify
<1> HIDE DEF p
<1>3. p # <<>> => Len(p) > 0 /\ Head(p) = p[1]
  BY <1>1, EmptySeq
<1> QED BY <1>1, <1>2, <1>3 DEF Clean, p

-----------------------------------------------------------------------------
\* How InOrder goes through a list.
NextOrdered(before, item, kept) ==
  IF item \in kept /\ ~Contains(before, item) THEN Append(before, item) ELSE before
Orders(g, list, kept) ==
  g[0] = <<>> /\ \A n \in 1..Len(list) : g[n] = NextOrdered(g[n - 1], list[n], kept)

LEMMA InOrderOrders ==
  ASSUME NEW A, NEW list \in Seq(A), NEW kept
  PROVE  \E g \in [0..Len(list) -> Seq(A)] : Orders(g, list, kept)
             /\ InOrder(list, kept) = g[Len(list)]
<1> DEFINE L == Len(list)
           step == [n \in 1..L |-> [v \in Seq(A) |-> NextOrdered(v, list[n], kept)]]
<1>1. L \in Nat /\ <<>> \in Seq(A) /\ \A n \in 1..L : list[n] \in A
  BY ElementOfSeq
<1>2. step \in [1..L -> [Seq(A) -> Seq(A)]]
  <2> SUFFICES ASSUME NEW n \in 1..L, NEW v \in Seq(A)
                          PROVE NextOrdered(v, list[n], kept) \in Seq(A)
    OBVIOUS
  <2> QED BY <1>1, AppendProperties DEF NextOrdered
<1>3. PICK f \in [0..L -> Seq(A)] : f[0] = <<>> /\ \A n \in 1..L : f[n] = step[n][f[n - 1]]
  <2> HIDE DEF L, step
  <2>1. GoesOn(Seq(A), L, <<>>, step)
    BY <1>1, <1>2, Recursion
  <2> QED BY <2>1 DEF GoesOn
<1>4. \A n \in 1..L : f[n] = NextOrdered(f[n - 1], list[n], kept)
  <2>1. \A n \in 1..L : n - 1 \in 0..L
    BY <1>1
  <2> QED BY <1>3, <2>1
<1> HIDE DEF step
<1> DEFINE Step(g) == [n \in 0..Len(list) |->
                        IF n = 0 THEN <<>>
                        ELSE IF list[n] \in kept /\ ~Contains(g[n - 1], list[n])
                          THEN Append(g[n - 1], list[n]) ELSE g[n - 1]]
           ordered == CHOOSE g : g = Step(g)
<1>5. ASSUME NEW g
      PROVE  Step(g) = [n \in 0..L |-> IF n = 0 THEN <<>> ELSE NextOrdered(g[n - 1], list[n], kept)]
  BY DEF NextOrdered
<1>6. f = Step(f)
  <2>1. \A n \in 0..L : n = 0 \/ n \in 1..L
    BY <1>1
  <2>2. \A n \in 0..L : f[n] = IF n = 0 THEN <<>> ELSE NextOrdered(f[n - 1], list[n], kept)
    BY <2>1, <1>3, <1>4
  <2>3. Step(f) = [n \in 0..L |-> IF n = 0 THEN <<>> ELSE NextOrdered(f[n - 1], list[n], kept)]
    BY <1>5
  <2> HIDE DEF Step
  <2> QED BY <1>3, <2>2, <2>3
<1>7. ordered = Step(ordered)
  <2> HIDE DEF Step
  <2> QED BY <1>6
<1>8. InOrder(list, kept) = ordered[L]
  BY DEF InOrder
<1> HIDE DEF ordered
<1>9. ordered[0] = <<>> /\ \A n \in 1..L : ordered[n] = NextOrdered(ordered[n - 1], list[n], kept)
  <2>1. 0 \in 0..L /\ \A n \in 1..L : n \in 0..L /\ n # 0
    BY <1>1
  <2>2. ordered = [n \in 0..L |-> IF n = 0 THEN <<>>
            ELSE NextOrdered(ordered[n - 1], list[n], kept)]
    <3>1. Step(ordered) = [n \in 0..L |-> IF n = 0 THEN <<>>
              ELSE NextOrdered(ordered[n - 1], list[n], kept)]
      BY <1>5
    <3> HIDE DEF Step
    <3> QED BY <1>7, <3>1
  <2> HIDE DEF Step
  <2> QED BY <2>1, <2>2
<1>10. ordered[L] = f[L]
  <2>1. ordered[0] = f[0] /\ \A n \in 1..L : ordered[n - 1] = f[n - 1] => ordered[n] = f[n]
    BY <1>3, <1>4, <1>9
  <2> HIDE DEF L
  <2> QED BY <1>1, <2>1, SameSteps
<1> QED BY <1>3, <1>4, <1>8, <1>10 DEF Orders

LEMMA InOrderEmpty ==
  ASSUME NEW kept
  PROVE  InOrder(<<>>, kept) = <<>>
<1>1. <<>> \in Seq({}) /\ Len(<<>>) = 0
  OBVIOUS
<1>2. PICK g \in [0..Len(<<>>) -> Seq({})] : Orders(g, <<>>, kept)
          /\ InOrder(<<>>, kept) = g[Len(<<>>)]
  BY <1>1, InOrderOrders
<1> QED BY <1>1, <1>2 DEF Orders

LEMMA InOrderAppend ==
  ASSUME NEW A, NEW s \in Seq(A), NEW x \in A, NEW kept
  PROVE  InOrder(Append(s, x), kept) = NextOrdered(InOrder(s, kept), x, kept)
<1> DEFINE t == Append(s, x)
           L == Len(s)
<1>1. /\ t \in Seq(A) /\ Len(t) = L + 1 /\ (\A n \in 1..L : t[n] = s[n]) /\ t[L + 1] = x
      /\ L \in Nat
  BY AppendProperties
<1>2. PICK g \in [0..L -> Seq(A)] : Orders(g, s, kept) /\ InOrder(s, kept) = g[L]
  BY InOrderOrders
<1>3. PICK h \in [0..Len(t) -> Seq(A)] : Orders(h, t, kept) /\ InOrder(t, kept) = h[Len(t)]
  BY <1>1, InOrderOrders
<1> HIDE DEF t, L
<1>4. \A n \in 1..L : n \in 1..Len(s) /\ n \in 1..Len(t) /\ t[n] = s[n]
  BY <1>1 DEF L
<1>5. g[0] = h[0] /\ \A n \in 1..L : g[n - 1] = h[n - 1] => g[n] = h[n]
  BY <1>2, <1>3, <1>4 DEF Orders
<1>6. g[L] = h[L]
  BY <1>1, <1>5, SameSteps
<1>7. L + 1 \in 1..Len(t) /\ (L + 1) - 1 = L
  BY <1>1
<1>8. h[L + 1] = NextOrdered(h[L], x, kept)
  BY <1>1, <1>3, <1>7 DEF Orders
<1> QED BY <1>1, <1>2, <1>3, <1>6, <1>8 DEF t, L

\* What InOrder returns: the items of the list that are kept, in the order in which
\* the list has them first.
OfList(r, list, kept) == ToSet(r) = ToSet(list) \cap kept
ByFirst(r, list) ==
  \A m, n \in 1..Len(r) : m < n =>
    \E i \in 1..Len(list) : list[i] = r[m] /\ \A j \in 1..Len(list) : list[j] = r[n] => i < j

LEMMA ToSetAppend ==
  ASSUME NEW A, NEW s \in Seq(A), NEW x \in A
  PROVE  ToSet(Append(s, x)) = ToSet(s) \cup {x}
<1> DEFINE t == Append(s, x)
<1>1. /\ t \in Seq(A) /\ Len(t) = Len(s) + 1 /\ (\A n \in 1..Len(s) : t[n] = s[n])
          /\ t[Len(s) + 1] = x
      /\ Len(s) \in Nat
  BY AppendProperties
<1>2. DOMAIN t = 1..Len(t) /\ DOMAIN s = 1..Len(s)
  BY <1>1, LenProperties
<1> HIDE DEF t
<1>3. \A n \in 1..Len(t) : n \in 1..Len(s) \/ n = Len(s) + 1
  BY <1>1
<1>4. Len(s) + 1 \in 1..Len(t) /\ \A n \in 1..Len(s) : n \in 1..Len(t)
  BY <1>1
<1>5. ToSet(t) = ToSet(s) \cup {x}
  BY <1>1, <1>2, <1>3, <1>4 DEF ToSet
<1> QED BY <1>5 DEF t

LEMMA InOrderIs ==
  ASSUME NEW A, NEW list \in Seq(A), NEW kept
  PROVE  /\ InOrder(list, kept) \in Seq(A)
         /\ OfList(InOrder(list, kept), list, kept) /\ ByFirst(InOrder(list, kept), list)
<1> DEFINE P(s) == /\ InOrder(s, kept) \in Seq(A)
                   /\ OfList(InOrder(s, kept), s, kept) /\ ByFirst(InOrder(s, kept), s)
           T == {s \in Seq(A) : P(s)}
<1>1. <<>> \in T
  <2>1. <<>> \in Seq(A) /\ Len(<<>>) = 0 /\ DOMAIN <<>> = {}
    OBVIOUS
  <2>2. OfList(<<>>, <<>>, kept) /\ ByFirst(<<>>, <<>>)
    BY <2>1 DEF OfList, ByFirst, ToSet
  <2> QED BY <2>1, <2>2, InOrderEmpty
<1>2. ASSUME NEW s \in Seq(A), P(s), NEW x \in A
      PROVE  P(Append(s, x))
  <2> DEFINE q == InOrder(s, kept)
             t == Append(s, x)
             r == InOrder(t, kept)
  <2>1. q \in Seq(A) /\ OfList(q, s, kept) /\ ByFirst(q, s)
    BY <1>2
  <2>2. r = NextOrdered(q, x, kept)
    BY InOrderAppend
  <2>3. ToSet(t) = ToSet(s) \cup {x}
    BY ToSetAppend
  <2>4. /\ t \in Seq(A) /\ Len(t) = Len(s) + 1 /\ (\A n \in 1..Len(s) : t[n] = s[n])
            /\ t[Len(s) + 1] = x
        /\ Len(s) \in Nat /\ Len(q) \in Nat
    BY <2>1, AppendProperties, LenProperties
  <2>5. DOMAIN q = 1..Len(q) /\ DOMAIN s = 1..Len(s)
    BY <2>1, LenProperties
  <2> HIDE DEF q, t, r
  <2>6. Contains(q, x) <=> x \in ToSet(q)
    BY <2>5 DEF Contains, ToSet
  <2>7. \A j \in 1..Len(t) : j \in 1..Len(s) \/ j = Len(s) + 1
    BY <2>4
  <2>8. \A i \in 1..Len(s) : i \in 1..Len(t) /\ i < Len(s) + 1
    BY <2>4
  <2>9. \A m, n \in 1..Len(q) : m < n =>
          \E i \in 1..Len(t) : t[i] = q[m] /\ \A j \in 1..Len(t) : t[j] = q[n] => i < j
    <3> SUFFICES ASSUME NEW m \in 1..Len(q), NEW n \in 1..Len(q), m < n
                 PROVE  \E i \in 1..Len(t) : t[i] = q[m]
                            /\ \A j \in 1..Len(t) : t[j] = q[n] => i < j
      OBVIOUS
    <3>1. PICK i \in 1..Len(s) : s[i] = q[m] /\ \A j \in 1..Len(s) : s[j] = q[n] => i < j
      BY <2>1 DEF ByFirst
    <3>2. t[i] = q[m] /\ i \in 1..Len(t)
      BY <2>4, <2>8, <3>1
    <3>3. ASSUME NEW j \in 1..Len(t), t[j] = q[n] PROVE i < j
      BY <2>4, <2>7, <2>8, <3>1, <3>3
    <3> QED BY <3>2, <3>3
  <2>10. ASSUME x \in kept, ~Contains(q, x)
         PROVE  r \in Seq(A) /\ OfList(r, t, kept) /\ ByFirst(r, t)
    <3>1. r = Append(q, x)
      BY <2>2, <2>10 DEF NextOrdered
    <3>2. /\ r \in Seq(A) /\ Len(r) = Len(q) + 1 /\ (\A n \in 1..Len(q) : r[n] = q[n])
              /\ r[Len(q) + 1] = x
      BY <2>1, <3>1, AppendProperties
    <3>3. ToSet(r) = ToSet(q) \cup {x}
      BY <2>1, <3>1, ToSetAppend
    <3>4. OfList(r, t, kept)
      BY <2>1, <2>3, <2>10, <3>3 DEF OfList
    <3>5. x \notin ToSet(s)
      BY <2>1, <2>6, <2>10 DEF OfList
    <3>6. \A j \in 1..Len(s) : s[j] # x
      BY <2>5, <3>5 DEF ToSet
    <3>7. ASSUME NEW m \in 1..Len(r), NEW n \in 1..Len(r), m < n
          PROVE  \E i \in 1..Len(t) : t[i] = r[m] /\ \A j \in 1..Len(t) : t[j] = r[n] => i < j
      <4>1. m \in 1..Len(q) /\ r[m] = q[m]
        BY <2>4, <3>2, <3>7
      <4>2. CASE n \in 1..Len(q)
        <5>1. r[n] = q[n]
          BY <3>2, <4>2
        <5> QED BY <2>9, <3>7, <4>1, <4>2, <5>1
      <4>3. CASE n = Len(q) + 1
        <5>1. q[m] \in ToSet(q)
          BY <2>5, <4>1 DEF ToSet
        <5>2. PICK i \in 1..Len(s) : s[i] = q[m]
          BY <2>1, <2>5, <5>1 DEF OfList, ToSet
        <5>3. t[i] = r[m] /\ i \in 1..Len(t)
          BY <2>4, <2>8, <4>1, <5>2
        <5>4. ASSUME NEW j \in 1..Len(t), t[j] = r[n] PROVE i < j
          <6>1. r[n] = x
            BY <3>2, <4>3
          <6>2. j = Len(s) + 1
            BY <2>4, <2>7, <3>6, <5>4, <6>1
          <6> QED BY <2>8, <6>2
        <5> QED BY <5>3, <5>4
      <4>4. n \in 1..Len(q) \/ n = Len(q) + 1
        BY <2>4, <3>2
      <4> QED BY <4>2, <4>3, <4>4
    <3> QED BY <3>2, <3>4, <3>7 DEF ByFirst
  <2>11. ASSUME ~(x \in kept /\ ~Contains(q, x))
         PROVE  r \in Seq(A) /\ OfList(r, t, kept) /\ ByFirst(r, t)
    <3>1. r = q
      BY <2>2, <2>11 DEF NextOrdered
    <3>2. OfList(q, t, kept)
      BY <2>1, <2>3, <2>6, <2>11 DEF OfList
    <3> QED BY <2>1, <2>9, <3>1, <3>2 DEF ByFirst
  <2>12. r \in Seq(A) /\ OfList(r, t, kept) /\ ByFirst(r, t)
    BY <2>10, <2>11
  <2> QED BY <2>12 DEF r, t
<1>3. \A s \in Seq(A) : s \in T => \A x \in A : Append(s, x) \in T
  <2> HIDE DEF P
  <2> QED BY <1>2, AppendProperties
<1>4. Seq(A) \subseteq T
  <2> HIDE DEF T
  <2> QED BY <1>1, <1>3, ListSet
<1> QED BY <1>4

-----------------------------------------------------------------------------
(* collapseRedundant.                                                      *)

LEMMA CleanedIs ==
  ASSUME NEW A, NEW paths \in Seq(Seq(A)), \A n \in DOMAIN paths : IsPullable(paths[n])
  PROVE  /\ Cleaned(paths) \in Seq(Seq(A)) /\ Len(Cleaned(paths)) = Len(paths)
         /\ \A n \in 1..Len(paths) : Cleaned(paths)[n] = Normalize(Trim(paths[n]))
         /\ \A p \in ToSet(Cleaned(paths)) : p \in Seq(A) /\ Clean(p) /\ p # <<"/">>
<1> DEFINE N == Len(paths)
           f == [n \in 1..N |-> Normalize(Trim(paths[n]))]
<1>1. N \in Nat /\ DOMAIN paths = 1..N /\ \A n \in 1..N : paths[n] \in Seq(A)
  BY LenProperties, ElementOfSeq
<1>2. \A n \in 1..N : f[n] \in Seq(A) /\ Clean(f[n]) /\ f[n] # <<"/">>
  BY <1>1, PullableIs
<1>3. Cleaned(paths) = f
  BY DEF Cleaned
<1>4. \A n \in 1..N : f[n] = Normalize(Trim(paths[n]))
  OBVIOUS
<1>5. DOMAIN f = 1..N /\ f = [n \in 1..N |-> f[n]]
  OBVIOUS
<1> HIDE DEF f, N
<1>6. f \in Seq(Seq(A)) /\ Len(f) = N
  <2>1. f \in [1..N -> Seq(A)]
    BY <1>2, <1>5
  <2> QED BY <1>1, <2>1, SeqDef, LenProperties
<1>7. \A p \in ToSet(f) : p \in Seq(A) /\ Clean(p) /\ p # <<"/">>
  BY <1>2, <1>5 DEF ToSet
<1> QED BY <1>3, <1>4, <1>6, <1>7 DEF N

\* What is kept of a list that may be pulled, and in which order.
LEMMA CollapseIs ==
  ASSUME NEW A, NEW paths \in Seq(Seq(A)), \A n \in DOMAIN paths : IsPullable(paths[n])
  PROVE  LET clean == ToSet(Cleaned(paths))
             r == CollapseRedundant(paths)
         IN  /\ r \in Seq(Seq(A)) /\ ToSet(r) = {p \in clean : Topmost(p, clean)}
             /\ ByFirst(r, Cleaned(paths))
<1> DEFINE list == Cleaned(paths)
           clean == ToSet(list)
           r == CollapseRedundant(paths)
<1>1. list \in Seq(Seq(A)) /\ \A p \in clean : p \in Seq(A) /\ Clean(p)
  BY CleanedIs
<1>2. r = InOrder(list, Keep(clean \ {<<>>}))
  BY DEF CollapseRedundant
<1> HIDE DEF list, clean, r
<1>3. Len(<<>>) = 0
  OBVIOUS
<1>4. clean \ {<<>>} = clean
  BY <1>1, <1>3 DEF Clean
<1>5. Keep(clean) = {p \in clean : Topmost(p, clean)}
  BY <1>1, KeepIs
<1>6. r \in Seq(Seq(A)) /\ OfList(r, list, Keep(clean)) /\ ByFirst(r, list)
  BY <1>1, <1>2, <1>4, InOrderIs
<1>7. ToSet(r) = {p \in clean : Topmost(p, clean)}
  BY <1>5, <1>6 DEF OfList, clean
<1> QED BY <1>6, <1>7 DEF list, clean, r

\* Nothing asked for is lost.
LEMMA CollapseCovers ==
  ASSUME NEW A, NEW paths \in Seq(Seq(A)), \A n \in DOMAIN paths : IsPullable(paths[n])
  PROVE  LET r == CollapseRedundant(paths)
         IN  /\ r \in Seq(Seq(A))
             /\ \A n \in DOMAIN r : \E i \in DOMAIN paths : r[n] = Normalize(Trim(paths[i]))
             /\ \A i \in DOMAIN paths : \E n \in DOMAIN r : IsUnder(Normalize(Trim(paths[i])), r[n])
<1> DEFINE list == Cleaned(paths)
           clean == ToSet(list)
           r == CollapseRedundant(paths)
<1>1. /\ list \in Seq(Seq(A)) /\ Len(list) = Len(paths) /\ \A p \in clean : p \in Seq(A) /\ Clean(p)
      /\ \A n \in 1..Len(paths) : list[n] = Normalize(Trim(paths[n]))
  BY CleanedIs
<1>2. r \in Seq(Seq(A)) /\ ToSet(r) = {p \in clean : Topmost(p, clean)}
  BY CollapseIs
<1> HIDE DEF list, r
<1>3. DOMAIN list = DOMAIN paths /\ DOMAIN paths = 1..Len(paths)
  BY <1>1, LenProperties
<1>4. ASSUME NEW n \in DOMAIN r PROVE \E i \in DOMAIN paths : r[n] = Normalize(Trim(paths[i]))
  <2>1. r[n] \in clean
    BY <1>2 DEF ToSet
  <2> QED BY <1>1, <1>3, <2>1 DEF ToSet
<1>5. ASSUME NEW i \in DOMAIN paths
      PROVE  \E n \in DOMAIN r : IsUnder(Normalize(Trim(paths[i])), r[n])
  <2>1. list[i] \in clean /\ list[i] = Normalize(Trim(paths[i]))
    BY <1>1, <1>3 DEF ToSet
  <2> HIDE DEF clean
  <2>2. \E top \in clean : Topmost(top, clean) /\ IsUnder(list[i], top)
    <3>1. clean \in SUBSET Seq(A) /\ \A p \in clean : Clean(p)
      BY <1>1
    <3> QED BY <2>1, <3>1, SomeIsTopmost
  <2>3. PICK top \in ToSet(r) : IsUnder(list[i], top)
    BY <1>2, <2>2
  <2> QED BY <2>1, <2>3 DEF ToSet
<1> QED BY <1>2, <1>4, <1>5 DEF r

-----------------------------------------------------------------------------
(* The inductive invariant of what a run that reports success has.         *)

\* What the paths of the model are made of.
Asks == UNION {ToSet(list) : list \in Lists}
Text == (UNION {ToSet(path) : path \in Present \cup Asks})
        \cup {"/", "sdcard", "storage", "emulated", "0"}

LEMMA SeqOfMore ==
  ASSUME NEW A, NEW B, A \subseteq B, NEW s \in Seq(A)
  PROVE  s \in Seq(B)
<1>1. Len(s) \in Nat /\ s \in [1..Len(s) -> A]
  BY LenProperties
<1>2. s \in [1..Len(s) -> B]
  BY <1>1
<1> QED BY <1>1, <1>2, SeqDef

LEMMA OfItself ==
  ASSUME NEW A, NEW s \in Seq(A)
  PROVE  s \in Seq(ToSet(s))
<1>1. Len(s) \in Nat /\ s \in [1..Len(s) -> A] /\ DOMAIN s = 1..Len(s)
  BY LenProperties
<1>2. s \in [1..Len(s) -> ToSet(s)]
  BY <1>1 DEF ToSet
<1> QED BY <1>1, <1>2, SeqDef

LEMMA PathsTyped ==
  ASSUME CapturesAssumption
  PROVE  /\ Present \in SUBSET Seq(Text)
         /\ \A list \in Lists : list \in Seq(Seq(Text))
         /\ Cards \in Seq(Seq(Text)) /\ \A n \in DOMAIN Cards : Cards[n] \in Present
                /\ IsPullable(Cards[n])
         /\ Sdcard \in Seq(Text) /\ Emulated \in Seq(Text)
<1>1. \A path \in Present \cup Asks : ToSet(path) \subseteq Text
  BY DEF Text
<1>2. "/" \in Text /\ "sdcard" \in Text /\ "storage" \in Text /\ "emulated" \in Text /\ "0" \in Text
  BY DEF Text
<1>3. Sdcard \in Seq(Text) /\ Emulated \in Seq(Text)
  BY <1>2 DEF Sdcard, Emulated
<1>4. ASSUME NEW path \in Present \cup Asks, path \in Seq(ToSet(path))
      PROVE  path \in Seq(Text)
  BY <1>1, <1>4, SeqOfMore
<1>5. Present \in SUBSET Seq(Text)
  BY <1>4 DEF CapturesAssumption
<1>6. ASSUME NEW list \in Lists
      PROVE  list \in Seq(Seq(Text))
  <2>1. list \in Seq(ToSet(list)) /\ \A path \in ToSet(list) : path \in Seq(ToSet(path))
            /\ path \in Asks
    BY DEF CapturesAssumption, Asks
  <2>2. ToSet(list) \subseteq Seq(Text)
    BY <1>4, <2>1
  <2> QED BY <2>1, <2>2, SeqOfMore
<1> DEFINE C == {path \in Present : IsPullable(path)}
<1>7. Cards \in Seq(C)
  BY DEF CapturesAssumption
<1>8. C \subseteq Seq(Text)
  BY <1>5
<1>9. Cards \in Seq(Seq(Text))
  BY <1>7, <1>8, SeqOfMore
<1>10. \A n \in DOMAIN Cards : Cards[n] \in C
  <2> HIDE DEF C
  <2> QED BY <1>7, ElementOfSeq, LenProperties
<1> QED BY <1>3, <1>5, <1>6, <1>9, <1>10

-----------------------------------------------------------------------------
Collected == pc \in {"loop", "pull", "manifest"}

\* The path is in the backup, or there is a reason why not.
Handled(path) ==
  \/ path \notin Present \/ path \in troubled
  \/ shared.kind # "none" /\ (IsUnder(path, Sdcard) \/ IsUnder(path, Emulated))
  \/ \E m \in DOMAIN captures : captures[m].path = path

ListAsked == opts.paths \in Lists \cup {<<>>}
AskedFits ==
  /\ ListAsked
  /\ InRun => \A n \in DOMAIN opts.paths : IsPullable(opts.paths[n])

\* What a run begins with.
Fresh == (pc # "idle" => outcome = "none") /\ (~Collected => k = 1)

\* Every path asked for is under one the loop goes through, which is itself one
\* that was asked for; those the loop is past are handled.
TodoFits ==
  (Collected /\ ~flag) =>
    /\ k \in Nat \ {0} /\ todo \in Seq(Seq(Text))
    /\ \A n \in DOMAIN todo : \E path \in Wanted : todo[n] = Normalize(Trim(path))
    /\ \A path \in Wanted : Normalize(Trim(path)) \in Present =>
         \/ \E n \in DOMAIN todo : IsUnder(Normalize(Trim(path)), todo[n])
         \/ \E t \in troubled : Within(Trim(path), t)
    /\ \A n \in DOMAIN todo : n < k \/ pc = "manifest" => Handled(todo[n])

PathsInv ==
  /\ AskedFits /\ Fresh /\ captures \in Seq(ToSet(captures))
  /\ TodoFits /\ SuccessHasEveryPath

LEMMA ListTyped ==
  ASSUME CapturesAssumption, ListAsked
  PROVE  opts.paths \in Seq(Seq(Text))
<1>1. <<>> \in Seq(Seq(Text))
  OBVIOUS
<1> QED BY <1>1, PathsTyped DEF ListAsked

LEMMA WantedIs ==
  ASSUME CapturesAssumption, AskedFits
  PROVE  /\ opts.paths \in Seq(Seq(Text))
         /\ \A path \in Wanted : path \in Seq(Text) /\ (InRun => IsPullable(path))
<1>2. opts.paths \in Seq(Seq(Text))
  BY ListTyped DEF AskedFits
<1>3. \A n \in DOMAIN opts.paths : opts.paths[n] \in Seq(Text)
  BY <1>2, ElementOfSeq, LenProperties
<1>4. \A n \in DOMAIN Cards : Cards[n] \in Seq(Text) /\ IsPullable(Cards[n])
  BY PathsTyped
<1>5. ASSUME NEW path \in Wanted
      PROVE  path \in Seq(Text) /\ (InRun => IsPullable(path))
  <2>1. \/ \E n \in DOMAIN opts.paths : path = opts.paths[n]
        \/ \E n \in DOMAIN Cards : path = Cards[n]
    BY DEF Wanted, ToSet
  <2> QED BY <2>1, <1>3, <1>4 DEF AskedFits
<1> QED BY <1>2, <1>5

\* The device has what a path it has is under (but for the root, which no list has).
LEMMA AncestorsPresent ==
  ASSUME CapturesAssumption, NEW p \in Present, NEW q \in Seq(Text),
         Clean(p), Clean(q), q # <<"/">>, IsUnder(p, q)
  PROVE  q \in Present
<1>1. p \in Seq(Text)
  BY PathsTyped
<1>2. Covers(q, p)
  BY <1>1, UnderIs DEF Clean
<1>3. CASE p = q
  BY <1>3
<1>4. CASE Len(q) < Len(p) /\ (\A n \in 1..Len(q) : q[n] = p[n]) /\ p[Len(q) + 1] = "/"
  <2>1. Len(p) \in Nat /\ Len(q) \in Nat /\ Len(q) > 0
    BY <1>1, LenProperties DEF Clean
  <2>2. Len(q) + 1 \in 2..Len(p) /\ (Len(q) + 1) - 1 = Len(q)
    BY <1>4, <2>1
  <2>3. SubSeq(p, 1, Len(q)) \in Present
    <3>1. \A n \in 2..Len(p) : p[n] = "/" => SubSeq(p, 1, n - 1) \in Present
      BY DEF CapturesAssumption
    <3> QED BY <1>4, <2>2, <3>1
  <2>4. IsPrefix(q, p)
    BY <1>1, <1>4, <2>1, PrefixIs
  <2>5. SubSeq(p, 1, Len(q)) = q
    BY <2>4, SubSeqFull DEF IsPrefix
  <2> QED BY <2>3, <2>5
<1> QED BY <1>2, <1>3, <1>4 DEF Covers

LEMMA WithinItself ==
  ASSUME NEW A, NEW p \in Seq(A)
  PROVE  Within(p, p)
<1>1. Segments(p) \in Seq(Seq(A))
  BY SegmentsType
<1>2. Len(Segments(p)) \in Nat
  BY <1>1, LenProperties
<1> QED BY <1>1, <1>2, PrefixIs DEF Within

LEMMA WithinWithin ==
  ASSUME NEW A, NEW p \in Seq(A), NEW q \in Seq(A), NEW r \in Seq(A), Within(p, q), Within(q, r)
  PROVE  Within(p, r)
<1>1. Segments(p) \in Seq(Seq(A)) /\ Segments(q) \in Seq(Seq(A)) /\ Segments(r) \in Seq(Seq(A))
  BY SegmentsType
<1> QED BY <1>1, PrefixOfPrefix DEF Within

\* The manifest that reports success.
LEMMA SuccessFits ==
  ASSUME CapturesAssumption, PathsInv, pc = "manifest", ~flag,
         manifest'.shared = shared, manifest'.captures = captures, UNCHANGED <<opts, troubled>>
  PROVE  SuccessHasEveryPath'
<1>1. AskedFits /\ TodoFits /\ Collected /\ InRun
  BY DEF PathsInv, Collected, InRun
<1>2. SUFFICES ASSUME NEW path \in Wanted, Normalize(Trim(path)) \in Present
               PROVE  \/ \E n \in DOMAIN captures : Within(Trim(path), captures[n].path)
                      \/ /\ shared.kind # "none"
                         /\ Within(Trim(path), Sdcard) \/ Within(Trim(path), Emulated)
                      \/ \E t \in troubled : Within(Trim(path), t)
  BY DEF SuccessHasEveryPath, Wanted
<1> DEFINE p == Normalize(Trim(path))
<1>3. CASE \E t \in troubled : Within(Trim(path), t)
  BY <1>3
<1>4. ASSUME NEW n \in DOMAIN todo, IsUnder(p, todo[n])
      PROVE  \/ \E m \in DOMAIN captures : Within(Trim(path), captures[m].path)
             \/ /\ shared.kind # "none"
                /\ Within(Trim(path), Sdcard) \/ Within(Trim(path), Emulated)
             \/ \E t \in troubled : Within(Trim(path), t)
  <2>1. PICK w \in Wanted : todo[n] = Normalize(Trim(w))
    BY <1>1 DEF TodoFits
  <2> DEFINE q == Normalize(Trim(w))
  <2>2. /\ path \in Seq(Text) /\ IsPullable(path) /\ w \in Seq(Text) /\ IsPullable(w)
        /\ Trim(path) \in Seq(Text)
    BY <1>1, WantedIs, TrimType
  <2>3. p \in Seq(Text) /\ Clean(p) /\ q \in Seq(Text) /\ Clean(q) /\ q # <<"/">>
    BY <2>2, PullableIs
  <2>4. Segments(p) = Segments(Trim(path))
    BY <2>2, SegmentsOfNormalized
  <2> HIDE DEF p, q
  <2>5. todo[n] = q /\ IsUnder(p, q) /\ p \in Present
    BY <1>2, <1>4, <2>1 DEF p, q
  <2>6. q \in Present
    BY <2>3, <2>5, AncestorsPresent
  <2>7. Within(p, q)
    BY <2>3, <2>5, UnderIsWithin
  <2>8. \A r : Within(p, r) => Within(Trim(path), r)
    BY <2>4 DEF Within
  <2>9. Handled(q)
    BY <1>1, <2>5 DEF TodoFits
  <2>10. CASE q \in troubled
    BY <2>7, <2>8, <2>10
  <2>11. CASE shared.kind # "none" /\ (IsUnder(q, Sdcard) \/ IsUnder(q, Emulated))
    <3>1. Sdcard \in Seq(Text) /\ Emulated \in Seq(Text)
      BY PathsTyped
    <3>2. IsUnder(q, Sdcard) => Within(p, Sdcard)
      BY <2>3, <2>7, <3>1, UnderIsWithin, WithinWithin
    <3>3. IsUnder(q, Emulated) => Within(p, Emulated)
      BY <2>3, <2>7, <3>1, UnderIsWithin, WithinWithin
    <3> QED BY <2>8, <2>11, <3>2, <3>3
  <2>12. CASE \E m \in DOMAIN captures : captures[m].path = q
    BY <2>7, <2>8, <2>12
  <2> QED BY <2>6, <2>9, <2>10, <2>11, <2>12 DEF Handled
<1> QED BY <1>1, <1>2, <1>3, <1>4 DEF TodoFits

-----------------------------------------------------------------------------
(* The steps that keep it.                                                 *)


\* A step that is not one of the loop's.
LEMMA OutsideKeepsPaths ==
  ASSUME ~Collected', AskedFits', pc' # "idle" => outcome' = "none", k' = 1,
         captures' \in Seq(ToSet(captures')), outcome' = "success" => SuccessHasEveryPath'
  PROVE  PathsInv'
BY DEF PathsInv, Fresh, TodoFits, SuccessHasEveryPath

LEMMA StopKeepsPaths ==
  ASSUME PathsInv, NEW how, Stop(how), UNCHANGED opts, how = "success" => SuccessHasEveryPath'
  PROVE  PathsInv'
<1>1. pc' = "idle" /\ k' = 1 /\ captures' = <<>> /\ outcome' = how
  BY DEF Stop
<1>2. AskedFits' /\ ~Collected'
  BY <1>1 DEF PathsInv, AskedFits, ListAsked, Collected, InRun
<1>3. <<>> \in Seq(ToSet(<<>>))
  OBVIOUS
<1> QED BY <1>1, <1>2, <1>3, OutsideKeepsPaths

LEMMA AskKeepsPaths ==
  ASSUME PathsInv, Ask
  PROVE  PathsInv'
<1>1. pc = "idle" /\ pc' = "asked" /\ outcome' = "none" /\ k' = k /\ captures' = captures
  BY DEF Ask, memoryVars
<1>2. PICK list \in Lists, mode \in {"root", "standard"}, withShared \in BOOLEAN :
        opts' = [mode |-> mode, shared |-> withShared, paths |-> list]
  BY DEF Ask
<1>3. AskedFits'
  BY <1>1, <1>2 DEF AskedFits, ListAsked, InRun
<1>4. k = 1 /\ ~Collected'
  BY <1>1 DEF PathsInv, Fresh, Collected
<1>5. captures' \in Seq(ToSet(captures'))
  BY <1>1 DEF PathsInv
<1> QED BY <1>1, <1>3, <1>4, <1>5, OutsideKeepsPaths

\* A step before the loop that keeps what was asked for.
LEMMA BeforeKeepsPaths ==
  ASSUME PathsInv, pc # "idle", ~Collected, ~Collected', UNCHANGED <<opts, k, captures, outcome>>,
         InRun' => \A n \in DOMAIN opts.paths : IsPullable(opts.paths[n])
  PROVE  PathsInv'
<1>1. outcome' = "none" /\ k' = 1
  BY DEF PathsInv, Fresh
<1>2. AskedFits'
  BY DEF PathsInv, AskedFits, ListAsked
<1>3. captures' \in Seq(ToSet(captures'))
  BY DEF PathsInv
<1> QED BY <1>1, <1>2, <1>3, OutsideKeepsPaths

LEMMA BeginKeepsPaths ==
  ASSUME PathsInv, Begin
  PROVE  PathsInv'
<1>1. pc = "asked" /\ UNCHANGED opts /\ \A n \in DOMAIN opts.paths : IsPullable(opts.paths[n])
  BY DEF Begin
<1>2. CASE Stop("failed")
  BY <1>1, <1>2, StopKeepsPaths
<1>3. CASE pc' = "shared" /\ UNCHANGED <<outcome, k, captures>>
  BY <1>1, <1>3, BeforeKeepsPaths DEF Collected
<1> QED BY <1>2, <1>3 DEF Begin

LEMMA SharedStageKeepsPaths ==
  ASSUME PathsInv, pc \in {"shared", "pullShared"}, pc' \in {"pullShared", "cards"},
         UNCHANGED <<opts, k, captures, outcome>>
  PROVE  PathsInv'
<1>1. ~Collected /\ ~Collected' /\ InRun /\ pc # "idle"
  BY DEF Collected, InRun
<1>2. \A n \in DOMAIN opts.paths : IsPullable(opts.paths[n])
  BY <1>1 DEF PathsInv, AskedFits, ListAsked
<1> QED BY <1>1, <1>2, BeforeKeepsPaths

\* A step of a restore that does not end it.
LEMMA RestoringKeepsPaths ==
  ASSUME PathsInv, pc \in Away \cup {"idle"}, pc' \in Away, UNCHANGED <<opts, memoryVars>>,
         outcome' = "none"
  PROVE  PathsInv'
<1>1. ~Collected /\ ~Collected' /\ ~InRun'
  BY DEF Collected, InRun, Away
<1>2. k' = 1 /\ AskedFits' /\ captures' \in Seq(ToSet(captures'))
  BY <1>1 DEF PathsInv, Fresh, AskedFits, ListAsked, memoryVars
<1> QED BY <1>1, <1>2, OutsideKeepsPaths

-----------------------------------------------------------------------------
(* The loop.                                                               *)

\* What the list was made of.
CollectedFrom(paths) ==
  /\ todo' = CollapseRedundant(paths) /\ ToSet(paths) \subseteq Wanted
  /\ \A n \in DOMAIN paths : IsPullable(paths[n])
  /\ \A path \in Wanted : path \in ToSet(paths) \/ (path \in troubled' /\ path \in Present)

\* The list of what to pull is made.
LEMMA CollectKeepsPaths ==
  ASSUME CapturesAssumption, NoBlankEnds, PathsInv, Collect
  PROVE  PathsInv'
<1>1. /\ pc = "cards" /\ pc' = (IF todo' = <<>> THEN "manifest" ELSE "loop")
      /\ UNCHANGED <<opts, flag, shared, k, captures, outcome>>
  BY DEF Collect
<1>2. InRun /\ Collected' /\ ~Collected /\ pc # "idle" /\ pc' # "idle"
  BY <1>1 DEF InRun, Collected
<1>3. /\ AskedFits /\ k = 1 /\ outcome = "none" /\ captures \in Seq(ToSet(captures))
      /\ \A n \in DOMAIN opts.paths : IsPullable(opts.paths[n])
  BY <1>2 DEF PathsInv, AskedFits, ListAsked, Fresh
<1>4. AskedFits' /\ Fresh' /\ captures' \in Seq(ToSet(captures'))
  BY <1>1, <1>2, <1>3 DEF AskedFits, ListAsked, Fresh
<1>5. SuccessHasEveryPath'
  BY <1>1, <1>3 DEF SuccessHasEveryPath
<1>6. ~flag' <=> ~flag
  BY <1>1
<1>7. /\ opts.paths \in Seq(Seq(Text)) /\ Cards \in Seq(Seq(Text))
      /\ \A n \in DOMAIN Cards : Cards[n] \in Present /\ IsPullable(Cards[n])
  BY <1>3, WantedIs, PathsTyped
<1>8. CASE flag
  BY <1>4, <1>5, <1>6, <1>8 DEF TodoFits, PathsInv
<1>9. CASE ~flag
  <2>1. \E paths \in Seq(Seq(Text)) : CollectedFrom(paths)
    <3>1. CASE ~opts.shared
      <4>1. todo' = CollapseRedundant(opts.paths) /\ Wanted = ToSet(opts.paths)
        BY <1>9, <3>1 DEF Collect, Wanted
      <4>2. CollectedFrom(opts.paths)
        BY <1>3, <4>1 DEF CollectedFrom
      <4> QED BY <1>7, <4>2
    <3>2. CASE opts.shared /\ todo' = CollapseRedundant(opts.paths \o Cards)
      <4> DEFINE paths == opts.paths \o Cards
                 a == Len(opts.paths)
                 b == Len(Cards)
      <4>1. /\ paths \in Seq(Seq(Text)) /\ Len(paths) = a + b
            /\ \A n \in 1..Len(paths) : paths[n] = IF n <= a THEN opts.paths[n] ELSE Cards[n - a]
        BY <1>7, ConcatProperties
      <4>2. a \in Nat /\ b \in Nat
        BY <1>7, LenProperties
      <4>3. DOMAIN opts.paths = 1..a /\ DOMAIN Cards = 1..b /\ DOMAIN paths = 1..(a + b)
        BY <1>7, <4>1, LenProperties
      <4>4. Wanted = ToSet(opts.paths) \cup ToSet(Cards) /\ todo' = CollapseRedundant(paths)
        BY <3>2 DEF Wanted
      <4> HIDE DEF paths, a, b
      <4>5. \A n \in 1..(a + b) : (n \in 1..a /\ n <= a) \/ (~(n <= a) /\ n - a \in 1..b)
        BY <4>2
      <4>6. \A n \in 1..a : n \in 1..(a + b) /\ n <= a
        BY <4>2
      <4>7. \A n \in 1..b : n + a \in 1..(a + b) /\ ~(n + a <= a) /\ (n + a) - a = n
        BY <4>2
      <4>8. \A n \in DOMAIN paths : IsPullable(paths[n]) /\ paths[n] \in Wanted
        BY <1>3, <1>7, <4>1, <4>3, <4>4, <4>5 DEF ToSet
      <4>9. ToSet(paths) \subseteq Wanted
        BY <4>8 DEF ToSet
      <4>10. \A path \in Wanted : path \in ToSet(paths)
        BY <4>1, <4>3, <4>4, <4>6, <4>7 DEF ToSet
      <4>11. CollectedFrom(paths)
        BY <4>4, <4>8, <4>9, <4>10 DEF CollectedFrom
      <4> QED BY <4>1, <4>11
    <3>3. CASE /\ opts.shared /\ todo' = CollapseRedundant(opts.paths)
               /\ troubled' = troubled \cup ToSet(Cards)
      <4>1. Wanted = ToSet(opts.paths) \cup ToSet(Cards)
        BY <3>3 DEF Wanted
      <4>2. \A path \in ToSet(Cards) : path \in Present /\ path \in troubled'
        BY <1>7, <3>3 DEF ToSet
      <4>3. CollectedFrom(opts.paths)
        BY <1>3, <3>3, <4>1, <4>2 DEF CollectedFrom
      <4> QED BY <1>7, <4>3
    <3> QED BY <1>9, <3>1, <3>2, <3>3 DEF Collect
  <2>2. PICK paths \in Seq(Seq(Text)) :
          /\ todo' = CollapseRedundant(paths) /\ ToSet(paths) \subseteq Wanted
          /\ \A n \in DOMAIN paths : IsPullable(paths[n])
          /\ \A path \in Wanted : path \in ToSet(paths) \/ (path \in troubled' /\ path \in Present)
    BY <2>1 DEF CollectedFrom
  <2>3. /\ todo' \in Seq(Seq(Text))
        /\ \A n \in DOMAIN todo' : \E i \in DOMAIN paths : todo'[n] = Normalize(Trim(paths[i]))
        /\ \A i \in DOMAIN paths : \E n \in DOMAIN todo' :
               IsUnder(Normalize(Trim(paths[i])), todo'[n])
    BY <2>2, CollapseCovers
  <2>4. \A n \in DOMAIN todo' : \E path \in Wanted : todo'[n] = Normalize(Trim(path))
    BY <2>2, <2>3 DEF ToSet
  <2>5. ASSUME NEW path \in Wanted
        PROVE  \/ \E n \in DOMAIN todo' : IsUnder(Normalize(Trim(path)), todo'[n])
               \/ \E t \in troubled' : Within(Trim(path), t)
    <3>1. CASE path \in ToSet(paths)
      BY <2>3, <3>1 DEF ToSet
    <3>2. CASE path \in troubled' /\ path \in Present
      <4>1. Trim(path) = path /\ path \in Seq(Text)
        BY <3>2, PathsTyped DEF NoBlankEnds
      <4> QED BY <3>2, <4>1, WithinItself
    <3> QED BY <2>2, <3>1, <3>2
  <2>6. ASSUME NEW n \in DOMAIN todo' PROVE ~(n < k' \/ pc' = "manifest")
    <3>1. n \in 1..Len(todo')
      BY <2>3, <2>6, LenProperties
    <3>2. n \in Nat /\ n >= 1
      BY <3>1
    <3>3. todo' # <<>>
      BY <2>6
    <3> QED BY <1>1, <1>3, <3>2, <3>3
  <2>7. k' = 1 /\ k' \in Nat \ {0} /\ Wanted' = Wanted
    BY <1>1, <1>3 DEF Wanted
  <2>8. TodoFits'
    <3>1. \A n \in DOMAIN todo' : \E path \in Wanted' : todo'[n] = Normalize(Trim(path))
      BY <2>4, <2>7
    <3>2. \A path \in Wanted' : \/ \E n \in DOMAIN todo' : IsUnder(Normalize(Trim(path)), todo'[n])
                                \/ \E t \in troubled' : Within(Trim(path), t)
      BY <2>5, <2>7
    <3> QED BY <2>3, <2>6, <2>7, <3>1, <3>2 DEF TodoFits
  <2> QED BY <1>4, <1>5, <2>8 DEF PathsInv
<1> QED BY <1>8, <1>9

LEMMA AppendOfItself ==
  ASSUME NEW s, s \in Seq(ToSet(s)), NEW x
  PROVE  /\ Append(s, x) \in Seq(ToSet(Append(s, x)))
         /\ \A m \in DOMAIN s : m \in DOMAIN Append(s, x) /\ Append(s, x)[m] = s[m]
         /\ \E m \in DOMAIN Append(s, x) : Append(s, x)[m] = x
<1> DEFINE C == ToSet(s) \cup {x}
           t == Append(s, x)
<1>1. s \in Seq(C)
  BY SeqOfMore
<1>2. /\ t \in Seq(C) /\ Len(t) = Len(s) + 1 /\ (\A n \in 1..Len(s) : t[n] = s[n])
          /\ t[Len(s) + 1] = x
      /\ Len(s) \in Nat
  BY <1>1, AppendProperties
<1>3. DOMAIN s = 1..Len(s) /\ DOMAIN t = 1..Len(t)
  BY <1>2, LenProperties
<1> HIDE DEF t, C
<1>4. Len(s) + 1 \in 1..Len(t) /\ \A n \in 1..Len(s) : n \in 1..Len(t)
  BY <1>2
<1>5. t \in Seq(ToSet(t))
  BY <1>2, OfItself
<1> QED BY <1>2, <1>3, <1>4, <1>5 DEF t

\* A step after the list is made: what was handled stays so, and the path it leaves
\* behind is handled.
LEMMA LoopKeepsPaths ==
  ASSUME PathsInv, Collected, Collected', UNCHANGED <<opts, flag, shared, todo, outcome>>,
         troubled \subseteq troubled', captures' \in Seq(ToSet(captures')),
         \A m \in DOMAIN captures : m \in DOMAIN captures' /\ captures'[m] = captures[m],
         ~flag => /\ k \in Nat \ {0} => k' \in Nat \ {0}
                  /\ \A n \in DOMAIN todo : n < k' \/ pc' = "manifest" =>
                       n < k \/ pc = "manifest" \/ Handled(todo[n])'
  PROVE  PathsInv'
<1>1. AskedFits /\ Fresh /\ TodoFits /\ SuccessHasEveryPath
  BY DEF PathsInv
<1>2. pc # "idle" /\ pc' # "idle" /\ InRun
  BY DEF Collected, InRun
<1>3. AskedFits' /\ Fresh' /\ outcome' = "none"
  BY <1>1, <1>2 DEF AskedFits, ListAsked, Fresh
<1>4. SuccessHasEveryPath'
  BY <1>3 DEF SuccessHasEveryPath
<1>5. Wanted' = Wanted /\ (~flag' <=> ~flag)
  BY DEF Wanted
<1>6. ASSUME flag PROVE TodoFits'
  BY <1>5, <1>6 DEF TodoFits
<1>7. ASSUME ~flag PROVE TodoFits'
  <2>1. /\ k \in Nat \ {0} /\ todo \in Seq(Seq(Text))
        /\ \A n \in DOMAIN todo : \E path \in Wanted : todo[n] = Normalize(Trim(path))
        /\ \A path \in Wanted : Normalize(Trim(path)) \in Present =>
             \/ \E n \in DOMAIN todo : IsUnder(Normalize(Trim(path)), todo[n])
             \/ \E t \in troubled : Within(Trim(path), t)
        /\ \A n \in DOMAIN todo : n < k \/ pc = "manifest" => Handled(todo[n])
    BY <1>1, <1>7 DEF TodoFits
  <2>2. ASSUME NEW n \in DOMAIN todo', n < k' \/ pc' = "manifest"
        PROVE  Handled(todo[n])'
    <3>1. n \in DOMAIN todo /\ (n < k \/ pc = "manifest" \/ Handled(todo[n])')
      BY <1>7, <2>2
    <3>2. Handled(todo[n]) => Handled(todo[n])'
      BY DEF Handled
    <3> QED BY <2>1, <3>1, <3>2
  <2>3. \A path \in Wanted' : Normalize(Trim(path)) \in Present =>
             \/ \E n \in DOMAIN todo' : IsUnder(Normalize(Trim(path)), todo'[n])
             \/ \E t \in troubled' : Within(Trim(path), t)
    BY <1>5, <2>1
  <2>4. \A n \in DOMAIN todo' : \E path \in Wanted' : todo'[n] = Normalize(Trim(path))
    BY <1>5, <2>1
  <2>5. k' \in Nat \ {0} /\ todo' \in Seq(Seq(Text))
    BY <1>7, <2>1
  <2> QED BY <2>2, <2>3, <2>4, <2>5 DEF TodoFits
<1>8. TodoFits'
  BY <1>6, <1>7
<1> QED BY <1>3, <1>4, <1>8 DEF PathsInv

LEMMA NoDirectoryKeepsPaths ==
  ASSUME PathsInv, NoDirectory
  PROVE  PathsInv'
<1>1. /\ pc = "loop" /\ pc' = "manifest" /\ troubled' = troubled \cup {todo[n] : n \in DOMAIN todo}
      /\ UNCHANGED <<opts, flag, shared, todo, k, captures, outcome>>
  BY DEF NoDirectory, memoryVars
<1>2. Collected /\ Collected' /\ captures' \in Seq(ToSet(captures'))
  BY <1>1 DEF PathsInv, Collected
<1>3. \A n \in DOMAIN todo : Handled(todo[n])'
  BY <1>1 DEF Handled
<1> QED BY <1>1, <1>2, <1>3, LoopKeepsPaths

\* What is passed over is refused, or in shared storage, or not there, or a step
\* failed for it; and nothing that was asked for and is there is refused.
LEMMA PassOverKeepsPaths ==
  ASSUME CapturesAssumption, NoBlankEnds, PathsInv, PassOver
  PROVE  PathsInv'
<1>1. /\ pc = "loop" /\ pc' = "loop" /\ ~flag /\ k' = k + 1
      /\ UNCHANGED <<opts, flag, shared, todo, captures, outcome>>
      /\ \/ Skipped(Cur) /\ UNCHANGED troubled
         \/ ~Skipped(Cur) /\ Cur \notin Present /\ UNCHANGED troubled
         \/ ~Skipped(Cur) /\ Cur \in Present /\ Trouble(Cur)
  BY DEF PassOver
<1>2. Collected /\ Collected' /\ captures' \in Seq(ToSet(captures')) /\ InRun
  BY <1>1 DEF PathsInv, Collected, InRun
<1>3. /\ AskedFits /\ k \in Nat \ {0} /\ todo \in Seq(Seq(Text))
      /\ \A n \in DOMAIN todo : \E path \in Wanted : todo[n] = Normalize(Trim(path))
  BY <1>1, <1>2 DEF PathsInv, TodoFits
<1>4. k \in DOMAIN todo
  <2>1. k <= Len(todo) /\ DOMAIN todo = 1..Len(todo) /\ Len(todo) \in Nat
    BY <1>3, LenProperties DEF PassOver
  <2> QED BY <1>3, <2>1
<1>5. Cur \in Present => IsPullable(Cur)
  <2>1. PICK path \in Wanted : Cur = Normalize(Trim(path))
    BY <1>3, <1>4 DEF Cur
  <2>2. path \in Seq(Text) /\ IsPullable(path)
    BY <1>2, <1>3, WantedIs
  <2>3. Cur \in Seq(Text) /\ Normalize(Cur) = Cur
    BY <2>1, <2>2, PullableIs, NormalizeOfNormal
  <2>4. Cur \in Present => Normalize(Trim(Cur)) = Normalize(Trim(path))
    BY <2>1, <2>3 DEF NoBlankEnds
  <2>5. Cur \in Present => Classify(Cur) = Classify(path)
    BY <2>4 DEF Classify
  <2> QED BY <2>2, <2>5 DEF IsPullable
<1>6. troubled \subseteq troubled'
  BY <1>1 DEF Trouble
<1>7. Handled(todo[k])
      \/ todo[k] \in troubled'
  BY <1>1, <1>5 DEF Handled, Skipped, Trouble, Cur
<1>8. \A n \in DOMAIN todo : n = k => Handled(todo[n])'
  BY <1>1, <1>6, <1>7 DEF Handled
<1>9. /\ k' \in Nat \ {0}
      /\ \A n \in DOMAIN todo : n < k' => n < k \/ n = k
  <2>1. DOMAIN todo = 1..Len(todo)
    BY <1>3, LenProperties
  <2> QED BY <1>1, <1>3, <2>1
<1> QED BY <1>1, <1>2, <1>6, <1>8, <1>9, LoopKeepsPaths

LEMMA PullBeginsKeepsPaths ==
  ASSUME PathsInv, PullBegins
  PROVE  PathsInv'
<1>1. /\ pc = "loop" /\ pc' = "pull"
      /\ UNCHANGED <<opts, flag, shared, todo, k, captures, outcome, troubled>>
  BY DEF PullBegins
<1>2. Collected /\ Collected' /\ captures' \in Seq(ToSet(captures'))
  BY <1>1 DEF PathsInv, Collected
<1> QED BY <1>1, <1>2, LoopKeepsPaths

LEMMA Passed ==
  ASSUME k \in Nat \ {0}, k' = k + 1, todo \in Seq(Seq(Text))
  PROVE  k' \in Nat \ {0} /\ \A n \in DOMAIN todo : n < k' => n < k \/ n = k
<1>1. DOMAIN todo = 1..Len(todo)
  BY LenProperties
<1> QED BY <1>1

LEMMA PullsKeepsPaths ==
  ASSUME PathsInv, NEW part, Pulls(part), part \in {"whole", "some"}
  PROVE  PathsInv'
<1> DEFINE capture == [path |-> Cur, name |-> Last(used), complete |-> part = "whole"]
<1>1. /\ pc = "pull" /\ pc' = "loop" /\ k' = k + 1 /\ captures' = Append(captures, capture)
      /\ UNCHANGED <<opts, flag, shared, todo, outcome>>
      /\ troubled \subseteq troubled'
  BY DEF Pulls, Trouble
<1>2. Collected /\ Collected' /\ captures \in Seq(ToSet(captures))
  BY <1>1 DEF PathsInv, Collected
<1>3. /\ captures' \in Seq(ToSet(captures'))
      /\ \A m \in DOMAIN captures : m \in DOMAIN captures' /\ captures'[m] = captures[m]
      /\ \E m \in DOMAIN captures' : captures'[m].path = Cur
  <2>1. capture.path = Cur
    OBVIOUS
  <2> HIDE DEF capture
  <2> QED BY <1>1, <1>2, <2>1, AppendOfItself
<1>4. \A n \in DOMAIN todo : n = k => Handled(todo[n])'
  BY <1>1, <1>3 DEF Handled, Cur
<1>5. ~flag => k \in Nat \ {0} /\ todo \in Seq(Seq(Text))
  BY <1>2 DEF PathsInv, TodoFits
<1>6. ~flag => k' \in Nat \ {0} /\ \A n \in DOMAIN todo : n < k' => n < k \/ n = k
  BY <1>1, <1>5, Passed
<1> HIDE DEF capture
<1> QED BY <1>1, <1>2, <1>3, <1>4, <1>6, LoopKeepsPaths

LEMMA PullFailsKeepsPaths ==
  ASSUME PathsInv, PullFails
  PROVE  PathsInv'
<1>1. /\ pc = "pull" /\ pc' = "loop" /\ k' = k + 1
      /\ UNCHANGED <<opts, flag, shared, todo, captures, outcome>>
  BY DEF PullFails
<1>2. troubled \subseteq troubled' /\ Cur \in troubled'
  <2>1. CASE flag
    BY <2>1 DEF PullFails
  <2>2. CASE ~flag
    BY <2>2 DEF PullFails, Trouble
  <2> QED BY <2>1, <2>2
<1>3. Collected /\ Collected' /\ captures' \in Seq(ToSet(captures'))
  BY <1>1 DEF PathsInv, Collected
<1>4. \A n \in DOMAIN todo : n = k => Handled(todo[n])'
  BY <1>1, <1>2 DEF Handled, Cur
<1>5. ~flag => k \in Nat \ {0} /\ todo \in Seq(Seq(Text))
  BY <1>3 DEF PathsInv, TodoFits
<1>6. ~flag => k' \in Nat \ {0} /\ \A n \in DOMAIN todo : n < k' => n < k \/ n = k
  BY <1>1, <1>5, Passed
<1> QED BY <1>1, <1>2, <1>3, <1>4, <1>6, LoopKeepsPaths

LEMMA LeaveLoopKeepsPaths ==
  ASSUME PathsInv, LeaveLoop
  PROVE  PathsInv'
<1>1. /\ pc = "loop" /\ pc' = "manifest" /\ (k > Len(todo) \/ flag)
      /\ UNCHANGED <<opts, flag, shared, todo, k, captures, outcome, troubled>>
  BY DEF LeaveLoop, memoryVars
<1>2. Collected /\ Collected' /\ captures' \in Seq(ToSet(captures'))
  BY <1>1 DEF PathsInv, Collected
<1>3. ~flag => k \in Nat /\ todo \in Seq(Seq(Text))
  BY <1>2 DEF PathsInv, TodoFits
<1>4. ~flag => \A n \in DOMAIN todo : n < k
  <2> SUFFICES ASSUME ~flag, NEW n \in DOMAIN todo PROVE n < k
    OBVIOUS
  <2>1. n \in 1..Len(todo) /\ Len(todo) \in Nat /\ k \in Nat /\ k > Len(todo)
    BY <1>1, <1>3, LenProperties
  <2> QED BY <2>1
<1> QED BY <1>1, <1>2, <1>4, LoopKeepsPaths

LEMMA WriteManifestKeepsPaths ==
  ASSUME CapturesAssumption, PathsInv, WriteManifest
  PROVE  PathsInv'
<1>1. pc = "manifest" /\ UNCHANGED <<opts, troubled>>
  BY DEF WriteManifest
<1>2. CASE Stop("failed")
  BY <1>1, <1>2, StopKeepsPaths
<1>3. CASE manifest' = [run |-> runs, mode |-> opts.mode, apps |-> apps, shared |-> shared,
                        captures |-> captures]
  <2>1. manifest'.shared = shared /\ manifest'.captures = captures
    BY <1>3
  <2>2. CASE flag
    <3>1. Stop("cancelled") \/ Stop("failed")
      BY <2>2 DEF WriteManifest
    <3> QED BY <1>1, <3>1, StopKeepsPaths
  <2>3. CASE ~flag
    <3>1. Stop("success") \/ Stop("failed")
      BY <2>3 DEF WriteManifest
    <3>2. SuccessHasEveryPath'
      BY <1>1, <2>1, <2>3, SuccessFits
    <3> QED BY <1>1, <3>1, <3>2, StopKeepsPaths
  <2> QED BY <2>2, <2>3
<1>4. CASE manifest' = NoManifest
  <2>1. SuccessHasEveryPath'
    BY <1>4 DEF SuccessHasEveryPath, NoManifest
  <2>2. Stop("success") \/ Stop("cancelled") \/ Stop("failed")
    BY DEF WriteManifest
  <2> QED BY <1>1, <2>1, <2>2, StopKeepsPaths
<1> QED BY <1>2, <1>3, <1>4 DEF WriteManifest

\* A cancel: what the loop goes through no longer matters.
LEMMA CancelKeepsPaths ==
  ASSUME PathsInv, Cancel
  PROVE  PathsInv'
<1>1. /\ flag' = TRUE /\ UNCHANGED <<pc, opts, k, captures, outcome, manifest, troubled>>
  BY DEF Cancel, diskVars
<1>2. TodoFits'
  BY <1>1 DEF TodoFits
<1>3. AskedFits' /\ Fresh' /\ captures' \in Seq(ToSet(captures'))
  BY <1>1 DEF PathsInv, AskedFits, ListAsked, Fresh, InRun, Collected
<1>4. SuccessHasEveryPath'
  BY <1>1 DEF PathsInv, SuccessHasEveryPath, Wanted
<1> QED BY <1>2, <1>3, <1>4 DEF PathsInv

LEMMA NothingKeepsPaths ==
  ASSUME PathsInv, UNCHANGED vars
  PROVE  PathsInv'
<1>1. UNCHANGED <<pc, opts, flag, shared, todo, k, captures, outcome, manifest, troubled>>
  BY DEF vars, memoryVars, diskVars
<1>2. AskedFits' /\ Fresh' /\ captures' \in Seq(ToSet(captures'))
  BY <1>1 DEF PathsInv, AskedFits, ListAsked, Fresh, InRun, Collected
<1>3. SuccessHasEveryPath'
  BY <1>1 DEF PathsInv, SuccessHasEveryPath, Wanted
<1>4. TodoFits'
  BY <1>1 DEF PathsInv, TodoFits, Handled, Collected, Wanted
<1> QED BY <1>2, <1>3, <1>4 DEF PathsInv

LEMMA NextKeepsPaths ==
  ASSUME CapturesAssumption, NoBlankEnds, PathsInv, [Next]_vars
  PROVE  PathsInv'
<1>1. CASE UNCHANGED vars
  BY <1>1, NothingKeepsPaths
<1>2. CASE Ask \/ Refuse \/ Begin
  <2>1. CASE Refuse
    BY <2>1, StopKeepsPaths DEF Refuse
  <2> QED BY <1>2, <2>1, AskKeepsPaths, BeginKeepsPaths
<1>3. CASE SkipShared \/ SharedBegins \/ ArchivesShared \/ SharedFails
  BY <1>3, SharedStageKeepsPaths DEF SkipShared, SharedBegins, ArchivesShared, SharedFails,
      memoryVars
<1>4. CASE \E part \in {"whole", "some"} : PullsShared(part) \/ Pulls(part)
  <2>1. ASSUME NEW part, PullsShared(part) PROVE PathsInv'
    BY <2>1, SharedStageKeepsPaths DEF PullsShared
  <2> QED BY <1>4, <2>1, PullsKeepsPaths
<1>5. CASE Collect \/ NoDirectory \/ PassOver \/ PullBegins \/ PullFails \/ LeaveLoop
  BY <1>5, CollectKeepsPaths, NoDirectoryKeepsPaths, PassOverKeepsPaths, PullBeginsKeepsPaths,
      PullFailsKeepsPaths,
     LeaveLoopKeepsPaths
<1>6. CASE WriteManifest \/ Cancel
  BY <1>6, WriteManifestKeepsPaths, CancelKeepsPaths
<1>7. CASE Kill
  <2>1. Stop("killed") /\ UNCHANGED opts
    BY <1>7 DEF Kill
  <2> QED BY <2>1, StopKeepsPaths
<1>8. CASE RestoreBegins
  <2>1. CASE Stop("nothing selected")
    BY <1>8, <2>1, StopKeepsPaths DEF RestoreBegins
  <2>2. CASE pc' = "restore" /\ outcome' = "none" /\ UNCHANGED memoryVars
    BY <1>8, <2>2, RestoringKeepsPaths DEF RestoreBegins, Away
  <2> QED BY <1>8, <2>1, <2>2 DEF RestoreBegins
<1>9. CASE RestoreShared
  <2>1. pc = "restore" /\ UNCHANGED opts
    BY <1>9 DEF RestoreShared
  <2>2. CASE Stop("restore cancelled") \/ Stop("restored")
    BY <2>1, <2>2, StopKeepsPaths
  <2>3. CASE pc' \in {"push", "extract"} /\ UNCHANGED <<memoryVars, outcome>>
    <3>1. outcome' = "none"
      BY <2>1, <2>3 DEF PathsInv, Fresh
    <3> QED BY <2>1, <2>3, <3>1, RestoringKeepsPaths DEF Away
  <2> QED BY <1>9, <2>2, <2>3 DEF RestoreShared
<1>10. CASE PushEntry
  <2>1. pc = "push" /\ pc' = "push" /\ UNCHANGED <<opts, memoryVars, outcome>>
    BY <1>10 DEF PushEntry
  <2>2. outcome' = "none"
    BY <2>1 DEF PathsInv, Fresh
  <2> QED BY <2>1, <2>2, RestoringKeepsPaths DEF Away
<1>11. CASE PushEnds \/ Extracts
  <2>1. UNCHANGED opts /\ (Stop("restore cancelled") \/ Stop("restored"))
    BY <1>11 DEF PushEnds, Extracts
  <2> QED BY <2>1, StopKeepsPaths
<1> QED BY <1>1, <1>2, <1>3, <1>4, <1>5, <1>6, <1>7, <1>8, <1>9, <1>10, <1>11 DEF Next

\* A run that reports success has every path asked for that the device holds.
THEOREM SuccessLeavesNothingOut ==
  ASSUME NoBlankEnds
  PROVE  Spec => []SuccessHasEveryPath
<1>1. Init => PathsInv
  <2> SUFFICES ASSUME Init PROVE PathsInv
    OBVIOUS
  <2>1. pc = "idle" /\ outcome = "none" /\ k = 1 /\ captures = <<>> /\ opts.paths = <<>>
    BY DEF Init
  <2>2. <<>> \in Seq(ToSet(<<>>))
    OBVIOUS
  <2> QED BY <2>1, <2>2 DEF PathsInv, AskedFits, ListAsked, Fresh, TodoFits,
          SuccessHasEveryPath, InRun, Collected
<1>2. PathsInv /\ [Next]_vars => PathsInv'
  BY CapturesAssumption, NoBlankEnds, NextKeepsPaths
<1>3. PathsInv => SuccessHasEveryPath
  BY DEF PathsInv
<1> QED BY <1>1, <1>2, <1>3, PTL DEF Spec

-----------------------------------------------------------------------------
(* A path is spelled by its names, so that names tell what covers what.    *)

\* The path a list of names comes from: each of them after a separator.
Joins(g, names) ==
  g[0] = <<>> /\ \A n \in 1..Len(names) : g[n] = g[n - 1] \o (<<"/">> \o names[n])
Join(names, A) == (CHOOSE g \in [0..Len(names) -> Seq(A)] : Joins(g, names))[Len(names)]

LEMMA AfterSeparator ==
  ASSUME NEW A, "/" \in A, NEW before \in Seq(A), NEW name \in Seq(A)
  PROVE  before \o (<<"/">> \o name) \in Seq(A)
<1>1. <<"/">> \in Seq(A)
  OBVIOUS
<1> DEFINE sep == <<"/">>
<1>2. sep \in Seq(A)
  BY <1>1
<1> HIDE DEF sep
<1>3. before \o (sep \o name) \in Seq(A)
  BY <1>2, ConcatProperties
<1> QED BY <1>3 DEF sep

LEMMA JoinJoins ==
  ASSUME NEW A, "/" \in A, NEW names \in Seq(Seq(A))
  PROVE  \E g \in [0..Len(names) -> Seq(A)] : Joins(g, names) /\ Join(names, A) = g[Len(names)]
<1> DEFINE L == Len(names)
           step == [n \in 1..L |-> [v \in Seq(A) |-> v \o (<<"/">> \o names[n])]]
<1>1. L \in Nat /\ <<>> \in Seq(A) /\ \A n \in 1..L : names[n] \in Seq(A)
  BY ElementOfSeq
<1>2. step \in [1..L -> [Seq(A) -> Seq(A)]]
  <2>1. \A n \in 1..L : \A v \in Seq(A) : v \o (<<"/">> \o names[n]) \in Seq(A)
    BY <1>1, AfterSeparator
  <2> QED BY <2>1
<1>3. PICK f \in [0..L -> Seq(A)] : f[0] = <<>> /\ \A n \in 1..L : f[n] = step[n][f[n - 1]]
  <2> HIDE DEF L, step
  <2>1. GoesOn(Seq(A), L, <<>>, step)
    BY <1>1, <1>2, Recursion
  <2> QED BY <2>1 DEF GoesOn
<1>4. \A n \in 1..L : f[n] = f[n - 1] \o (<<"/">> \o names[n])
  <2>1. \A n \in 1..L : n - 1 \in 0..L
    BY <1>1
  <2> QED BY <1>3, <2>1
<1> HIDE DEF step
<1>5. Joins(f, names)
  BY <1>3, <1>4 DEF Joins
<1> DEFINE g == CHOOSE g \in [0..Len(names) -> Seq(A)] : Joins(g, names)
<1>6. g \in [0..Len(names) -> Seq(A)] /\ Joins(g, names)
  BY <1>3, <1>5
<1>7. Join(names, A) = g[Len(names)]
  BY DEF Join
<1> QED BY <1>6, <1>7

LEMMA JoinEmpty ==
  ASSUME NEW A, "/" \in A
  PROVE  Join(<<>>, A) = <<>>
<1>1. <<>> \in Seq(Seq(A)) /\ Len(<<>>) = 0
  OBVIOUS
<1>2. PICK g \in [0..Len(<<>>) -> Seq(A)] : Joins(g, <<>>) /\ Join(<<>>, A) = g[Len(<<>>)]
  BY <1>1, JoinJoins
<1> QED BY <1>1, <1>2 DEF Joins

LEMMA JoinAppend ==
  ASSUME NEW A, "/" \in A, NEW s \in Seq(Seq(A)), NEW x \in Seq(A)
  PROVE  /\ Join(s, A) \in Seq(A)
         /\ Join(Append(s, x), A) = Join(s, A) \o (<<"/">> \o x)
<1> DEFINE t == Append(s, x)
           L == Len(s)
<1>1. /\ t \in Seq(Seq(A)) /\ Len(t) = L + 1 /\ (\A n \in 1..L : t[n] = s[n]) /\ t[L + 1] = x
      /\ L \in Nat
  BY AppendProperties
<1>2. PICK g \in [0..L -> Seq(A)] : Joins(g, s) /\ Join(s, A) = g[L]
  BY JoinJoins
<1>3. PICK h \in [0..Len(t) -> Seq(A)] : Joins(h, t) /\ Join(t, A) = h[Len(t)]
  BY <1>1, JoinJoins
<1> HIDE DEF t, L
<1>4. \A n \in 1..L : n \in 1..Len(s) /\ n \in 1..Len(t) /\ t[n] = s[n]
  BY <1>1 DEF L
<1>5. g[0] = h[0] /\ \A n \in 1..L : g[n - 1] = h[n - 1] => g[n] = h[n]
  BY <1>2, <1>3, <1>4 DEF Joins
<1>6. g[L] = h[L]
  BY <1>1, <1>5, SameSteps
<1>7. L + 1 \in 1..Len(t) /\ (L + 1) - 1 = L
  BY <1>1
<1>8. h[L + 1] = h[L] \o (<<"/">> \o x)
  BY <1>1, <1>3, <1>7 DEF Joins
<1>9. g[L] \in Seq(A)
  BY <1>1, <1>2
<1> QED BY <1>1, <1>2, <1>3, <1>6, <1>8, <1>9 DEF t, L

\* The concatenation under a name of its own, so that regrouping three lists
\* is a step the provers take without unfolding any of them.
Chained(s, t) == s \o t

LEMMA ChainedRegroups ==
  ASSUME NEW A, NEW s \in Seq(A), NEW t \in Seq(A), NEW u \in Seq(A)
  PROVE  Chained(Chained(s, t), u) = Chained(s, Chained(t, u))
BY ConcatAssociative, SMTT(20) DEF Chained

LEMMA JoinLonger ==
  ASSUME NEW A, "/" \in A, NEW names \in Seq(Seq(A)), names # <<>>, NEW x \in A
  PROVE  Join(Longer(names, x), A) = Append(Join(names, A), x)
<1> DEFINE L == Len(names)
           f == Front(names)
           v == names[L]
           longer == Longer(names, x)
           sep == <<"/">>
<1>1. /\ L \in Nat /\ L > 0 /\ v \in Seq(A) /\ f \in Seq(Seq(A)) /\ names = Append(f, v)
      /\ Len(f) = L - 1 /\ \A n \in 1..(L - 1) : f[n] = names[n]
  BY Unappend
<1>2. /\ longer \in Seq(Seq(A)) /\ Len(longer) = L /\ longer[L] = Append(v, x)
      /\ \A n \in 1..(L - 1) : longer[n] = names[n]
  BY LongerIs
<1>3. Append(v, x) \in Seq(A) /\ sep \in Seq(A)
  BY <1>1, AppendProperties
<1> HIDE DEF L, f, v, longer, sep
<1>4. longer = Append(f, Append(v, x))
  <2> DEFINE t == Append(f, Append(v, x))
  <2>1. t \in Seq(Seq(A)) /\ Len(t) = Len(f) + 1 /\ (\A n \in 1..Len(f) : t[n] = f[n])
            /\ t[Len(f) + 1] = Append(v, x)
    BY <1>1, <1>3, AppendProperties
  <2> HIDE DEF t
  <2>2. Len(t) = L /\ \A n \in 1..L : (n \in 1..(L - 1) /\ n \in 1..Len(f)) \/ n = L
    BY <1>1, <2>1
  <2>3. t[L] = Append(v, x)
    BY <1>1, <2>1
  <2>4. \A n \in 1..L : t[n] = longer[n]
    BY <1>1, <1>2, <2>1, <2>2, <2>3
  <2>5. t = longer
    BY <1>2, <2>1, <2>2, <2>4, SeqEqual
  <2> QED BY <2>5 DEF t
<1> DEFINE b == Join(f, A)
<1>5. b \in Seq(A) /\ Join(names, A) = b \o (sep \o v)
          /\ Join(longer, A) = b \o (sep \o Append(v, x))
  BY <1>1, <1>3, <1>4, JoinAppend DEF sep
<1> HIDE DEF b
<1>6. Append(v, x) = v \o <<x>> /\ <<x>> \in Seq(A)
  BY <1>1, AppendIsConcat
<1> DEFINE tail == <<x>>
<1>7. tail \in Seq(A) /\ Append(v, x) = v \o tail
  BY <1>6
<1> HIDE DEF tail
<1> DEFINE w == sep \o v
<1>8. w \in Seq(A)
  BY <1>1, <1>3, ConcatProperties
<1>9. (sep \o v) \o tail = sep \o (v \o tail)
  <2>1. sep \in Seq(A) /\ v \in Seq(A) /\ tail \in Seq(A)
    BY <1>1, <1>3, <1>7
  <2>2. Chained(Chained(sep, v), tail) = Chained(sep, Chained(v, tail))
    <3> HIDE DEF sep, v
    <3> QED BY <2>1, ChainedRegroups
  <2> QED BY <2>2 DEF Chained
<1>10. w \o tail = sep \o Append(v, x)
  BY <1>7, <1>9
<1> HIDE DEF w
<1>11. (b \o w) \o tail = b \o (w \o tail)
  <2>1. b \in Seq(A) /\ w \in Seq(A) /\ tail \in Seq(A)
    BY <1>5, <1>7, <1>8
  <2>2. Chained(Chained(b, w), tail) = Chained(b, Chained(w, tail))
    BY <2>1, ChainedRegroups
  <2> QED BY <2>2 DEF Chained
<1>12. b \o w \in Seq(A)
  BY <1>5, <1>8, ConcatProperties
<1>13. Append(b \o w, x) = (b \o w) \o tail
  BY <1>12, AppendIsConcat DEF tail
<1>14. Join(longer, A) = Append(b \o w, x) /\ Join(names, A) = b \o w
  BY <1>5, <1>10, <1>11, <1>13 DEF w
<1> QED BY <1>14 DEF longer

\* A path without repeated separators that begins with one is spelled by its names.
Spelled(s, A) ==
  (Single(s) /\ Len(s) > 0 /\ s[1] = "/") =>
    s = IF s[Len(s)] = "/" THEN Append(Join(Segments(s), A), "/") ELSE Join(Segments(s), A)

LEMMA JoinOfSegments ==
  ASSUME NEW A, "/" \in A, NEW path \in Seq(A)
  PROVE  Spelled(path, A)
<1> DEFINE T == {s \in Seq(A) : Spelled(s, A)}
<1>1. <<>> \in T
  <2>1. <<>> \in Seq(A) /\ Len(<<>>) = 0
    OBVIOUS
  <2> QED BY <2>1 DEF Spelled
<1>2. ASSUME NEW s \in Seq(A), Spelled(s, A), NEW x \in A
      PROVE  Spelled(Append(s, x), A)
  <2> DEFINE t == Append(s, x)
             L == Len(s)
             names == Segments(s)
  <2>1. /\ t \in Seq(A) /\ Len(t) = L + 1 /\ (\A n \in 1..L : t[n] = s[n]) /\ t[L + 1] = x
        /\ L \in Nat
    BY AppendProperties
  <2>2. /\ names \in Seq(Seq(A))
        /\ Segments(t) = IF x = "/" THEN names
                         ELSE IF L > 0 /\ s[L] # "/" THEN Longer(names, x)
                         ELSE Append(names, <<x>>)
    BY SegmentsAppend
  <2>3. Join(names, A) \in Seq(A) /\ <<x>> \in Seq(A)
    BY <2>2, JoinAppend
  <2>4. t = Append(s, x)
    OBVIOUS
  <2>5. L = 0 => names = <<>> /\ s = <<>>
    BY EmptySeq, SegmentsEmpty
  <2>6. (Single(s) /\ L > 0 /\ s[1] = "/") =>
          s = IF s[L] = "/" THEN Append(Join(names, A), "/") ELSE Join(names, A)
    BY <1>2 DEF Spelled
  <2> HIDE DEF t, L, names
  <2>7. SUFFICES ASSUME Single(t), t[1] = "/"
                 PROVE  t = IF x = "/" THEN Append(Join(Segments(t), A), "/")
                            ELSE Join(Segments(t), A)
    BY <2>1 DEF Spelled, t
  <2>8. CASE L = 0
    <3>1. x = "/"
      BY <2>1, <2>7, <2>8
    <3>2. Join(Segments(t), A) = <<>>
      BY <2>2, <2>5, <2>8, <3>1, JoinEmpty
    <3> QED BY <2>4, <2>5, <2>8, <3>1, <3>2
  <2>9. CASE L > 0
    <3>1. /\ 1 \in 1..L /\ L \in 1..L /\ L \in 1..(Len(t) - 1)
          /\ \A n \in 1..(L - 1) : n \in 1..(Len(t) - 1) /\ n \in 1..L /\ n + 1 \in 1..L
      BY <2>1, <2>9
    <3>2. s[1] = "/" /\ ~(s[L] = "/" /\ x = "/")
      BY <2>1, <2>7, <3>1 DEF Single
    <3>3. Single(s)
      <4> SUFFICES \A n \in 1..(L - 1) : ~(s[n] = "/" /\ s[n + 1] = "/")
        BY DEF Single, L
      <4> QED BY <2>1, <2>7, <3>1 DEF Single
    <3>4. s = IF s[L] = "/" THEN Append(Join(names, A), "/") ELSE Join(names, A)
      BY <2>6, <2>9, <3>2, <3>3
    <3>5. CASE x = "/"
      BY <2>2, <2>4, <3>2, <3>4, <3>5
    <3>6. CASE x # "/" /\ s[L] # "/"
      <4>1. names # <<>>
        <5> SUFFICES ASSUME names = <<>> PROVE FALSE
          OBVIOUS
        <5>1. s = <<>>
          BY <3>4, <3>6, JoinEmpty
        <5>2. Len(s) = 0
          BY <5>1
        <5> QED BY <2>9, <5>2 DEF L
      <4>2. Join(Longer(names, x), A) = Append(Join(names, A), x)
        BY <2>2, <4>1, JoinLonger
      <4> QED BY <2>2, <2>4, <2>9, <3>4, <3>6, <4>2
    <3>7. CASE x # "/" /\ s[L] = "/"
      <4> DEFINE b == Join(names, A)
                 sep == <<"/">>
                 name == <<x>>
      <4>1. Join(Append(names, name), A) = b \o (sep \o name)
        BY <2>2, <2>3, JoinAppend
      <4>2. b \in Seq(A) /\ sep \in Seq(A) /\ name \in Seq(A)
        BY <2>3
      <4>3. s = Append(b, "/")
        BY <3>4, <3>7
      <4> HIDE DEF b, sep, name
      <4>4. (b \o sep) \o name = b \o (sep \o name)
        BY <4>2, ConcatAssociative
      <4>5. Append(b, "/") = b \o sep
        BY <4>2, AppendIsConcat DEF sep
      <4>6. Append(s, x) = s \o name
        BY AppendIsConcat DEF name
      <4> QED BY <2>2, <2>4, <2>9, <3>7, <4>1, <4>3, <4>4, <4>5, <4>6 DEF name
    <3> QED BY <3>5, <3>6, <3>7
  <2> QED BY <2>1, <2>8, <2>9
<1>3. \A s \in Seq(A) : s \in T => \A x \in A : Append(s, x) \in T
  BY <1>2, AppendProperties
<1>4. Seq(A) \subseteq T
  <2> HIDE DEF T
  <2> QED BY <1>1, <1>3, ListSet
<1> QED BY <1>4

-----------------------------------------------------------------------------
\* The one path begins the other, up to a separator.
Begins(q, p) == Len(q) < Len(p) /\ (\A n \in 1..Len(q) : q[n] = p[n]) /\ p[Len(q) + 1] = "/"

LEMMA BeginsLonger ==
  ASSUME NEW A, "/" \in A, NEW q \in Seq(A), NEW p \in Seq(A), NEW name \in Seq(A),
         q = p \/ Begins(q, p)
  PROVE  Begins(q, p \o (<<"/">> \o name))
<1> DEFINE sep == <<"/">>
           w == sep \o name
           r == p \o w
<1>1. sep \in Seq(A) /\ Len(sep) = 1 /\ sep[1] = "/"
  OBVIOUS
<1> HIDE DEF sep
<1>2. /\ w \in Seq(A) /\ Len(w) = 1 + Len(name)
      /\ \A n \in 1..1 + Len(name) : w[n] = IF n <= 1 THEN sep[n] ELSE name[n - 1]
  <2>1. /\ sep \o name \in Seq(A) /\ Len(sep \o name) = Len(sep) + Len(name)
        /\ \A n \in 1..Len(sep) + Len(name) :
             (sep \o name)[n] = IF n <= Len(sep) THEN sep[n] ELSE name[n - Len(sep)]
    BY <1>1, ConcatProperties
  <2> QED BY <1>1, <2>1
<1>3. Len(p) \in Nat /\ Len(q) \in Nat /\ Len(name) \in Nat
  BY LenProperties
<1>4. w[1] = "/" /\ Len(w) > 0 /\ Len(w) \in Nat
  <2>1. 1 \in 1..Len(w)
    BY <1>2, <1>3
  <2> QED BY <1>1, <1>2, <1>3, <2>1
<1> HIDE DEF w
<1>5. /\ r \in Seq(A) /\ Len(r) = Len(p) + Len(w)
      /\ \A n \in 1..Len(p) + Len(w) : r[n] = IF n <= Len(p) THEN p[n] ELSE w[n - Len(p)]
  BY <1>2, ConcatProperties
<1> HIDE DEF r
<1>6. Len(p) < Len(r) /\ \A n \in 1..Len(p) : r[n] = p[n]
  <2>1. \A n \in 1..Len(p) : n \in 1..Len(r) /\ n <= Len(p)
    BY <1>3, <1>4, <1>5
  <2> QED BY <1>3, <1>4, <1>5, <2>1
<1>7. r[Len(p) + 1] = "/"
  <2>1. Len(p) + 1 \in 1..Len(r) /\ ~(Len(p) + 1 <= Len(p)) /\ (Len(p) + 1) - Len(p) = 1
    BY <1>3, <1>4, <1>5
  <2> QED BY <1>4, <1>5, <2>1
<1>8. CASE q = p
  BY <1>6, <1>7, <1>8 DEF Begins, r, w, sep
<1>9. CASE Begins(q, p)
  <2>1. Len(q) < Len(r) /\ Len(q) + 1 \in 1..Len(p) /\ \A n \in 1..Len(q) : n \in 1..Len(p)
    BY <1>3, <1>6, <1>9 DEF Begins
  <2>2. Begins(q, r)
    BY <1>6, <1>9, <2>1 DEF Begins
  <2> QED BY <2>2 DEF r, w, sep
<1> QED BY <1>8, <1>9

LEMMA JoinBegins ==
  ASSUME NEW A, "/" \in A, NEW few \in Seq(Seq(A)), NEW names \in Seq(Seq(A)), IsPrefix(few, names)
  PROVE  Join(few, A) = Join(names, A) \/ Begins(Join(few, A), Join(names, A))
<1> DEFINE P(s) == \A t \in Seq(Seq(A)) : IsPrefix(t, s) =>
                     Join(t, A) = Join(s, A) \/ Begins(Join(t, A), Join(s, A))
           T == {s \in Seq(Seq(A)) : P(s)}
<1>1. <<>> \in T
  <2>1. <<>> \in Seq(Seq(A)) /\ Len(<<>>) = 0
    OBVIOUS
  <2>2. ASSUME NEW t \in Seq(Seq(A)), IsPrefix(t, <<>>) PROVE t = <<>>
    <3>1. Len(t) <= 0 /\ Len(t) \in Nat
      BY <2>1, <2>2, PrefixIs, LenProperties
    <3>2. Len(t) = 0
      BY <3>1
    <3> QED BY <3>2, EmptySeq
  <2> QED BY <2>1, <2>2
<1>2. ASSUME NEW s \in Seq(Seq(A)), P(s), NEW x \in Seq(A)
      PROVE  P(Append(s, x))
  <2> DEFINE u == Append(s, x)
  <2>1. /\ u \in Seq(Seq(A)) /\ Len(u) = Len(s) + 1 /\ (\A n \in 1..Len(s) : u[n] = s[n])
        /\ Len(s) \in Nat
    BY AppendProperties
  <2>2. Join(u, A) = Join(s, A) \o (<<"/">> \o x) /\ Join(s, A) \in Seq(A)
    BY JoinAppend
  <2> HIDE DEF u
  <2>3. ASSUME NEW t \in Seq(Seq(A)), IsPrefix(t, u)
        PROVE  Join(t, A) = Join(u, A) \/ Begins(Join(t, A), Join(u, A))
    <3>1. Len(t) \in Nat /\ Len(t) <= Len(u) /\ \A n \in 1..Len(t) : t[n] = u[n]
      BY <2>1, <2>3, PrefixIs, LenProperties
    <3>2. CASE Len(t) = Len(u)
      BY <2>1, <3>1, <3>2, SeqEqual
    <3>3. CASE Len(t) <= Len(s)
      <4>1. \A n \in 1..Len(t) : n \in 1..Len(s)
        BY <2>1, <3>1, <3>3
      <4>2. IsPrefix(t, s)
        BY <2>1, <3>1, <3>3, <4>1, PrefixIs
      <4>3. Join(t, A) = Join(s, A) \/ Begins(Join(t, A), Join(s, A))
        BY <1>2, <4>2
      <4>4. Join(t, A) \in Seq(A)
        BY JoinAppend
      <4> QED BY <2>2, <4>3, <4>4, BeginsLonger
    <3> QED BY <2>1, <3>1, <3>2, <3>3
  <2> QED BY <2>3 DEF u
<1>3. \A s \in Seq(Seq(A)) : s \in T => \A x \in Seq(A) : Append(s, x) \in T
  <2> HIDE DEF P
  <2> QED BY <1>2, AppendProperties
<1>4. Seq(Seq(A)) \subseteq T
  <2> HIDE DEF T
  <2> QED BY <1>1, <1>3, ListSet
<1> QED BY <1>4

\* Of two normalised absolute paths, one covers the other exactly if its names begin
\* the other's.
LEMMA UnderIffWithin ==
  ASSUME NEW A, "/" \in A, NEW p \in Seq(A), NEW q \in Seq(A),
         Clean(p), Clean(q), p # <<"/">>, q # <<"/">>
  PROVE  IsUnder(p, q) <=> Within(p, q)
<1>1. ASSUME NEW r \in Seq(A), Clean(r), r # <<"/">>
      PROVE  r = Join(Segments(r), A)
  <2>1. Len(r) \in Nat /\ Len(r) > 0 /\ r[1] = "/" /\ Single(r)
    BY <1>1, LenProperties DEF Clean, Normal
  <2>2. Len(r) # 1
    <3> SUFFICES ASSUME Len(r) = 1 PROVE FALSE
      OBVIOUS
    <3> DEFINE sep == <<"/">>
    <3>1. sep \in Seq(A) /\ Len(sep) = 1 /\ sep[1] = "/"
      OBVIOUS
    <3> HIDE DEF sep
    <3>2. \A n \in 1..1 : r[n] = sep[n]
      BY <2>1, <3>1
    <3>3. r = sep
      BY <3>1, <3>2, SeqEqual
    <3> QED BY <1>1, <3>3 DEF sep
  <2>3. r[Len(r)] # "/"
    <3> DEFINE m == Len(r)
    <3>1. m \in Nat /\ m > 0 /\ m # 1
      BY <2>1, <2>2
    <3> HIDE DEF m
    <3>2. m > 1
      BY <3>1
    <3> QED BY <1>1, <3>2 DEF Clean, Normal, m
  <2> QED BY <2>1, <2>3, JoinOfSegments DEF Spelled
<1>2. Segments(p) \in Seq(Seq(A)) /\ Segments(q) \in Seq(Seq(A))
  BY SegmentsType
<1>3. ASSUME Within(p, q) PROVE IsUnder(p, q)
  <2>1. Join(Segments(q), A) = Join(Segments(p), A) \/ Begins(Join(Segments(q), A),
            Join(Segments(p), A))
    BY <1>2, <1>3, JoinBegins DEF Within
  <2>2. q = p \/ Begins(q, p)
    BY <1>1, <2>1
  <2> QED BY <2>2, UnderIs DEF Covers, Begins, Clean
<1> QED BY <1>3, UnderIsWithin

-----------------------------------------------------------------------------
(* collapseRedundant returns the least list there is.                      *)

\* Two such paths with the same names are the same.
LEMMA SameNames ==
  ASSUME NEW A, "/" \in A, NEW p \in Seq(A), NEW q \in Seq(A),
         Clean(p), Clean(q), p # <<"/">>, q # <<"/">>, Segments(p) = Segments(q)
  PROVE  p = q
<1>1. Within(p, q) /\ Within(q, p)
  BY WithinItself DEF Within
<1>2. IsUnder(p, q) /\ IsUnder(q, p)
  BY <1>1, UnderIffWithin
<1>3. Len(p) \in Nat /\ Len(q) \in Nat
  BY LenProperties
<1>4. p # q => Len(q) < Len(p) /\ Len(p) < Len(q)
  BY <1>2, UnderIsLonger
<1> QED BY <1>3, <1>4

\* CollapseIsMinimal, of one list.
Minimal(paths) ==
  LET asked == [n \in DOMAIN paths |-> Segments(Trim(paths[n]))]
      pulled == CollapseRedundant(paths)
      First(path) == Min({n \in DOMAIN asked : asked[n] = Segments(path)})
  IN  /\ {Segments(pulled[n]) : n \in DOMAIN pulled} =
           {s \in ToSet(asked) : \A t \in ToSet(asked) : IsPrefix(t, s) => t = s}
      /\ \A m, n \in DOMAIN pulled : m < n => First(pulled[m]) < First(pulled[n])

LEMMA MinimalOf ==
  ASSUME NEW A, "/" \in A, NEW paths \in Seq(Seq(A)), \A n \in DOMAIN paths : IsPullable(paths[n])
  PROVE  Minimal(paths)
<1> DEFINE asked == [n \in DOMAIN paths |-> Segments(Trim(paths[n]))]
           list == Cleaned(paths)
           clean == ToSet(list)
           r == CollapseRedundant(paths)
           Having(path) == {n \in DOMAIN asked : asked[n] = Segments(path)}
           First(path) == Min(Having(path))
<1>1. /\ list \in Seq(Seq(A)) /\ Len(list) = Len(paths)
      /\ \A n \in 1..Len(paths) : list[n] = Normalize(Trim(paths[n]))
      /\ \A p \in clean : p \in Seq(A) /\ Clean(p) /\ p # <<"/">>
  BY CleanedIs
<1>2. r \in Seq(Seq(A)) /\ ToSet(r) = {p \in clean : Topmost(p, clean)} /\ ByFirst(r, list)
  BY CollapseIs
<1>3. /\ DOMAIN paths = 1..Len(paths) /\ DOMAIN list = 1..Len(list) /\ DOMAIN r = 1..Len(r)
      /\ Len(paths) \in Nat /\ DOMAIN asked = DOMAIN paths
  BY <1>1, <1>2, LenProperties
<1>4. \A n \in DOMAIN asked : asked[n] = Segments(list[n])
  <2> SUFFICES ASSUME NEW n \in DOMAIN paths PROVE Segments(Trim(paths[n])) = Segments(list[n])
    BY <1>3
  <2>1. paths[n] \in Seq(A)
    BY <1>3, ElementOfSeq
  <2>2. Trim(paths[n]) \in Seq(A)
    BY <2>1, TrimType
  <2> QED BY <1>1, <1>3, <2>2, SegmentsOfNormalized
<1> HIDE DEF asked, list, r
<1>5. \A n \in DOMAIN list : list[n] \in clean
  BY DEF ToSet
<1>6. \A n \in DOMAIN r : r[n] \in clean /\ Topmost(r[n], clean)
  BY <1>2 DEF ToSet
<1>7. ToSet(asked) = {Segments(p) : p \in clean}
  BY <1>1, <1>3, <1>4 DEF ToSet
<1> HIDE DEF clean
<1>8. \A p, q \in clean : /\ IsUnder(p, q) <=> IsPrefix(Segments(q), Segments(p))
                          /\ Segments(p) = Segments(q) => p = q
  BY <1>1, UnderIffWithin, SameNames DEF Within
<1>9. \A p \in clean : Topmost(p, clean) <=>
        \A t \in ToSet(asked) : IsPrefix(t, Segments(p)) => t = Segments(p)
  BY <1>7, <1>8 DEF Topmost
<1>10. {Segments(r[n]) : n \in DOMAIN r} =
         {s \in ToSet(asked) : \A t \in ToSet(asked) : IsPrefix(t, s) => t = s}
  <2>1. {Segments(r[n]) : n \in DOMAIN r} = {Segments(p) : p \in ToSet(r)}
    BY DEF ToSet
  <2>2. {Segments(p) : p \in ToSet(r)} = {Segments(p) : p \in {q \in clean : Topmost(q, clean)}}
    BY <1>2
  <2>3. {Segments(p) : p \in {q \in clean : Topmost(q, clean)}} =
          {s \in ToSet(asked) : \A t \in ToSet(asked) : IsPrefix(t, s) => t = s}
    BY <1>7, <1>9
  <2> QED BY <2>1, <2>2, <2>3
<1>11. ASSUME NEW m \in DOMAIN r
       PROVE  /\ Having(r[m]) = {i \in DOMAIN list : list[i] = r[m]}
              /\ First(r[m]) \in Having(r[m]) /\ \A i \in Having(r[m]) : First(r[m]) <= i
  <2>1. Having(r[m]) = {i \in DOMAIN list : list[i] = r[m]}
    BY <1>1, <1>3, <1>4, <1>5, <1>6, <1>8
  <2>2. \E i \in DOMAIN list : list[i] = r[m]
    BY <1>6 DEF clean, ToSet
  <2>3. Having(r[m]) \in SUBSET Nat /\ Having(r[m]) # {}
    BY <1>1, <1>3, <2>1, <2>2
  <2> HIDE DEF Having
  <2> QED BY <2>1, <2>3, Least
<1>12. ASSUME NEW m \in DOMAIN r, NEW n \in DOMAIN r, m < n
       PROVE  First(r[m]) < First(r[n])
  <2>1. PICK i \in 1..Len(list) : list[i] = r[m] /\ \A j \in 1..Len(list) : list[j] = r[n] => i < j
    BY <1>2, <1>3, <1>12 DEF ByFirst
  <2> DEFINE a == First(r[m])
             b == First(r[n])
  <2>2. a <= i /\ a \in 1..Len(list)
    <3>1. i \in Having(r[m])
      BY <1>3, <1>11, <2>1
    <3> HIDE DEF Having
    <3>2. a <= i /\ a \in Having(r[m])
      BY <1>11, <3>1
    <3> QED BY <1>3, <1>11, <3>2
  <2>3. i < b /\ b \in 1..Len(list)
    <3> HIDE DEF Having
    <3>1. b \in Having(r[n])
      BY <1>11
    <3> HIDE DEF b
    <3> QED BY <1>3, <1>11, <2>1, <3>1
  <2> HIDE DEF a, b
  <2>4. Len(list) \in Nat
    BY <1>1, <1>3
  <2>5. a < b
    BY <2>1, <2>2, <2>3, <2>4
  <2> QED BY <2>5 DEF a, b
<1> QED BY <1>10, <1>12 DEF asked, r, Minimal

\* Of any list that may be pulled, what is pulled is the paths none of the others
\* covers, each once, in the order they were first named.
THEOREM CollapseKeepsTheTopmost == Spec => []CollapseIsMinimal
<1>1. ListAsked => CollapseIsMinimal
  <2> SUFFICES ASSUME ListAsked, \A n \in DOMAIN opts.paths : IsPullable(opts.paths[n])
               PROVE  Minimal(opts.paths)
    BY DEF CollapseIsMinimal, Minimal
  <2>1. opts.paths \in Seq(Seq(Text)) /\ "/" \in Text
    BY CapturesAssumption, ListTyped DEF Text
  <2> QED BY <2>1, MinimalOf
<1>2. Init => ListAsked
  BY DEF Init, ListAsked
<1>3. ListAsked /\ [Next]_vars => ListAsked'
  <2> SUFFICES ASSUME ListAsked, [Next]_vars PROVE ListAsked'
    OBVIOUS
  <2>1. CASE Ask
    BY <2>1 DEF Ask, ListAsked
  <2>2. CASE UNCHANGED opts
    BY <2>2 DEF ListAsked
  <2>3. CASE UNCHANGED vars
    BY <2>2, <2>3 DEF vars
  <2>4. CASE Refuse \/ Begin \/ Kill \/ Cancel \/ WriteManifest
    BY <2>2, <2>4 DEF Refuse, Begin, Kill, Cancel, WriteManifest
  <2>5. CASE SkipShared \/ SharedBegins \/ ArchivesShared \/ SharedFails
    BY <2>2, <2>5 DEF SkipShared, SharedBegins, ArchivesShared, SharedFails
  <2>6. CASE \E part \in {"whole", "some"} : PullsShared(part) \/ Pulls(part)
    BY <2>2, <2>6 DEF PullsShared, Pulls
  <2>7. CASE Collect \/ NoDirectory \/ PassOver \/ PullBegins \/ PullFails \/ LeaveLoop
    BY <2>2, <2>7 DEF Collect, NoDirectory, PassOver, PullBegins, PullFails, LeaveLoop
  <2>8. CASE RestoreBegins \/ RestoreShared \/ PushEntry \/ PushEnds \/ Extracts
    BY <2>2, <2>8 DEF RestoreBegins, RestoreShared, PushEntry, PushEnds, Extracts
  <2> QED BY <2>1, <2>3, <2>4, <2>5, <2>6, <2>7, <2>8 DEF Next
<1> QED BY <1>1, <1>2, <1>3, PTL DEF Spec

-----------------------------------------------------------------------------
(* Every variable has its type.                                            *)

Modes == {"root", "standard"}
Places ==
  {"idle", "asked", "shared", "pullShared", "cards", "loop", "pull", "manifest"} \cup Away
FlagsTyped ==
  flag \in BOOLEAN /\ apps \in BOOLEAN /\ rooted \in BOOLEAN /\ sharedRestored \in BOOLEAN
OptsTyped == opts \in [mode : Modes, shared : BOOLEAN, paths : Lists \cup {<<>>}]

\* A run that pulls has begun, and one that is asked for may begin.
DiskTyped ==
  /\ runs \in 0..MaxRuns /\ (InRun => runs > 0) /\ (pc = "asked" => runs < MaxRuns)
  /\ \A n \in DOMAIN dirs : dirs[n].part \in Parts /\ dirs[n].run \in 1..runs
  /\ sharedDir.part \in Parts /\ sharedTar.part \in Parts

\* The name of the pull in progress is taken, and its turn not over.
MemoryTyped ==
  /\ pc \in Places
  /\ todo \in Seq(Seq(Text)) /\ used \in Seq(ToSet(used)) /\ captures \in Seq(ToSet(captures))
  /\ k \in 1..(Len(todo) + 1) /\ Len(captures) <= Len(used) /\ Len(used) <= k
  /\ ~Collected => todo = <<>> /\ k = 1 /\ used = <<>> /\ captures = <<>>
  /\ pc = "loop" => Len(used) < k
  /\ pc = "pull" => k <= Len(todo) /\ Len(captures) < Len(used)
SharedTyped == shared.kind \in {"none", "dir", "tar"} /\ shared.bytes.part \in Parts
RestoreTyped == restores \in 0..MaxRestores /\ left \subseteq Entries /\ phone \subseteq Entries

TypesInv ==
  /\ FlagsTyped /\ OptsTyped /\ AskedFits
  /\ DiskTyped /\ MemoryTyped /\ SharedTyped /\ RestoreTyped

LEMMA FlagsKeep ==
  ASSUME FlagsTyped, [Next]_vars
  PROVE  FlagsTyped'
<1>1. CASE UNCHANGED vars
  BY <1>1 DEF vars, memoryVars, restoreVars, FlagsTyped
<1>2. CASE Ask \/ Refuse
  BY <1>2 DEF Ask, Refuse, Stop, memoryVars, restoreVars, FlagsTyped
<1>3. CASE Begin
  BY <1>3 DEF Begin, Stop, restoreVars, FlagsTyped
<1>4. CASE SkipShared \/ SharedBegins \/ ArchivesShared \/ SharedFails
  BY <1>4 DEF SkipShared, SharedBegins, ArchivesShared, SharedFails, memoryVars, restoreVars,
      FlagsTyped
<1>5. CASE \E part \in {"whole", "some"} : PullsShared(part) \/ Pulls(part)
  BY <1>5 DEF PullsShared, Pulls, restoreVars, FlagsTyped
<1>6. CASE Collect \/ NoDirectory \/ PassOver \/ PullBegins \/ PullFails \/ LeaveLoop
  BY <1>6 DEF Collect, NoDirectory, PassOver, PullBegins, PullFails, LeaveLoop, memoryVars,
              restoreVars, FlagsTyped
<1>7. CASE WriteManifest \/ Cancel \/ Kill
  BY <1>7 DEF WriteManifest, Cancel, Kill, Stop, restoreVars, FlagsTyped
<1>8. CASE RestoreBegins \/ RestoreShared \/ PushEntry
  BY <1>8 DEF RestoreBegins, RestoreShared, PushEntry, Stop, memoryVars, FlagsTyped
<1>9. CASE PushEnds \/ Extracts
  BY <1>9 DEF PushEnds, PushVerdict, Extracts, Stop, FlagsTyped
<1> QED BY <1>1, <1>2, <1>3, <1>4, <1>5, <1>6, <1>7, <1>8, <1>9 DEF Next

\* Only Ask changes the options.
LEMMA OptsStay ==
  ASSUME [Next]_vars, ~Ask
  PROVE  opts' = opts
<1>1. CASE UNCHANGED vars
  BY <1>1 DEF vars
<1>2. CASE Refuse \/ Begin \/ Kill \/ Cancel \/ WriteManifest
  BY <1>2 DEF Refuse, Begin, Kill, Cancel, WriteManifest
<1>3. CASE SkipShared \/ SharedBegins \/ ArchivesShared \/ SharedFails
  BY <1>3 DEF SkipShared, SharedBegins, ArchivesShared, SharedFails
<1>4. CASE \E part \in {"whole", "some"} : PullsShared(part) \/ Pulls(part)
  BY <1>4 DEF PullsShared, Pulls
<1>5. CASE Collect \/ NoDirectory \/ PassOver \/ PullBegins \/ PullFails \/ LeaveLoop
  BY <1>5 DEF Collect, NoDirectory, PassOver, PullBegins, PullFails, LeaveLoop
<1>6. CASE RestoreBegins \/ RestoreShared \/ PushEntry \/ PushEnds \/ Extracts
  BY <1>6 DEF RestoreBegins, RestoreShared, PushEntry, PushEnds, Extracts
<1> QED BY <1>1, <1>2, <1>3, <1>4, <1>5, <1>6 DEF Next

LEMMA OptsKeep ==
  ASSUME OptsTyped, [Next]_vars
  PROVE  OptsTyped'
<1>1. CASE Ask
  BY <1>1 DEF Ask, OptsTyped, Modes
<1>2. CASE ~Ask
  BY <1>2, OptsStay DEF OptsTyped
<1> QED BY <1>1, <1>2

\* A run begins only with paths that may be pulled.
LEMMA RunsAreBegun ==
  ASSUME [Next]_vars, InRun'
  PROVE  InRun \/ Begin
<1>1. CASE UNCHANGED vars
  BY <1>1 DEF vars, InRun
<1>2. CASE Ask \/ Refuse \/ Kill \/ WriteManifest
  BY <1>2 DEF Ask, Refuse, Kill, WriteManifest, Stop, InRun
<1>3. CASE SkipShared \/ SharedBegins \/ ArchivesShared \/ SharedFails
  BY <1>3 DEF SkipShared, SharedBegins, ArchivesShared, SharedFails, InRun
<1>4. CASE \E part \in {"whole", "some"} : PullsShared(part) \/ Pulls(part)
  BY <1>4 DEF PullsShared, Pulls, InRun
<1>5. CASE Collect \/ NoDirectory \/ PassOver \/ PullBegins \/ PullFails \/ LeaveLoop
  BY <1>5 DEF Collect, NoDirectory, PassOver, PullBegins, PullFails, LeaveLoop, InRun
<1>6. CASE RestoreBegins \/ RestoreShared \/ PushEntry \/ PushEnds \/ Extracts
  BY <1>6 DEF RestoreBegins, RestoreShared, PushEntry, PushEnds, Extracts, Stop, InRun
<1>7. CASE Cancel
  BY <1>7 DEF Cancel, InRun
<1> QED BY <1>1, <1>2, <1>3, <1>4, <1>5, <1>6, <1>7 DEF Next

LEMMA AskedKeeps ==
  ASSUME OptsTyped, AskedFits, [Next]_vars
  PROVE  AskedFits'
<1>1. ListAsked'
  BY OptsKeep DEF OptsTyped, ListAsked
<1>2. ASSUME InRun'
      PROVE  \A n \in DOMAIN opts'.paths : IsPullable(opts'.paths[n])
  <2>1. CASE Begin
    BY <2>1 DEF Begin
  <2>2. CASE InRun
    <3>1. ~Ask
      BY <2>2 DEF Ask, InRun
    <3> QED BY <2>2, <3>1, OptsStay DEF AskedFits
  <2> QED BY <1>2, <2>1, <2>2, RunsAreBegun
<1> QED BY <1>1, <1>2 DEF AskedFits

-----------------------------------------------------------------------------
LEMMA SharedKeeps ==
  ASSUME SharedTyped, [Next]_vars
  PROVE  SharedTyped'
<1>1. ASSUME NEW how, Stop(how) PROVE SharedTyped'
  BY <1>1 DEF Stop, NoShared, Gone, Tree, SharedTyped, Parts
<1>2. CASE UNCHANGED shared
  BY <1>2 DEF SharedTyped
<1>3. CASE UNCHANGED vars
  BY <1>2, <1>3 DEF vars, memoryVars
<1>4. CASE Ask \/ Refuse \/ Begin \/ WriteManifest \/ Cancel \/ Kill
  BY <1>1, <1>2, <1>4 DEF Ask, Refuse, Begin, WriteManifest, Cancel, Kill, memoryVars
<1>5. CASE SkipShared \/ SharedBegins \/ SharedFails
  BY <1>2, <1>5 DEF SkipShared, SharedBegins, SharedFails, memoryVars
<1>6. CASE ArchivesShared
  BY <1>6 DEF ArchivesShared, Tree, SharedTyped, Parts
<1>7. CASE \E part \in {"whole", "some"} : PullsShared(part) \/ Pulls(part)
  BY <1>7 DEF PullsShared, Pulls, Tree, SharedTyped, Parts
<1>8. CASE Collect \/ NoDirectory \/ PassOver \/ PullBegins \/ PullFails \/ LeaveLoop
  BY <1>2, <1>8 DEF Collect, NoDirectory, PassOver, PullBegins, PullFails, LeaveLoop, memoryVars
<1>9. CASE RestoreBegins \/ RestoreShared \/ PushEntry \/ PushEnds \/ Extracts
  BY <1>1, <1>2, <1>9 DEF RestoreBegins, RestoreShared, PushEntry, PushEnds, Extracts, memoryVars
<1> QED BY <1>1, <1>3, <1>4, <1>5, <1>6, <1>7, <1>8, <1>9 DEF Next

LEMMA EntriesAre ==
  ASSUME CapturesAssumption, NEW part \in Parts
  PROVE  EntriesOf(part) \subseteq Entries
<1>1. Entries # {}
  <2> SUFFICES ASSUME Entries = {} PROVE FALSE
    OBVIOUS
  <2>1. Cardinality(Entries) = 0
    BY FS_EmptySet
  <2> QED BY <2>1 DEF CapturesAssumption
<1>2. (CHOOSE e \in Entries : TRUE) \in Entries
  BY <1>1
<1> QED BY <1>2 DEF EntriesOf, Parts

LEMMA RestoreTypedKeeps ==
  ASSUME CapturesAssumption, RestoreTyped, DiskTyped, [Next]_vars
  PROVE  RestoreTyped'
<1>1. CASE UNCHANGED <<restores, left, phone>>
  BY <1>1 DEF RestoreTyped
<1>2. CASE UNCHANGED vars
  BY <1>1, <1>2 DEF vars, restoreVars
<1>3. CASE Ask \/ Refuse \/ Begin \/ WriteManifest \/ Cancel \/ Kill
  BY <1>1, <1>3 DEF Ask, Refuse, Begin, WriteManifest, Cancel, Kill, restoreVars
<1>4. CASE SkipShared \/ SharedBegins \/ ArchivesShared \/ SharedFails
  BY <1>1, <1>4 DEF SkipShared, SharedBegins, ArchivesShared, SharedFails, restoreVars
<1>5. CASE \E part \in {"whole", "some"} : PullsShared(part) \/ Pulls(part)
  BY <1>1, <1>5 DEF PullsShared, Pulls, restoreVars
<1>6. CASE Collect \/ NoDirectory \/ PassOver \/ PullBegins \/ PullFails \/ LeaveLoop
  BY <1>1, <1>6 DEF Collect, NoDirectory, PassOver, PullBegins, PullFails, LeaveLoop, restoreVars
<1>7. CASE RestoreBegins
  <2>1. restores' = restores + 1 /\ restores < MaxRestores /\ left' = {} /\ phone' = {}
    BY <1>7 DEF RestoreBegins
  <2>2. restores' \in 0..MaxRestores
    BY <2>1 DEF RestoreTyped, CapturesAssumption
  <2> QED BY <2>1, <2>2 DEF RestoreTyped
<1>8. CASE RestoreShared
  <2>1. UNCHANGED <<restores, phone>>
    BY <1>8 DEF RestoreShared
  <2>2. left' = left \/ left' = EntriesOf(sharedDir.part) \/ left' = EntriesOf(sharedTar.part)
    BY <1>8 DEF RestoreShared
  <2>3. left' \subseteq Entries
    BY <2>2, EntriesAre DEF RestoreTyped, DiskTyped
  <2> QED BY <2>1, <2>3 DEF RestoreTyped
<1>9. CASE PushEntry
  BY <1>9 DEF PushEntry, RestoreTyped
<1>10. CASE PushEnds \/ Extracts
  BY <1>10 DEF PushEnds, Extracts, RestoreTyped
<1> QED BY <1>2, <1>3, <1>4, <1>5, <1>6, <1>7, <1>8, <1>9, <1>10 DEF Next

-----------------------------------------------------------------------------
(* What is on the host's disk.                                             *)

\* A step that writes nothing.
LEMMA DiskStays ==
  ASSUME DiskTyped, UNCHANGED <<dirs, sharedDir, sharedTar, runs>>, InRun' => InRun,
         pc' = "asked" => pc = "asked" \/ runs < MaxRuns
  PROVE  DiskTyped'
<1>1. runs' \in 0..MaxRuns /\ (InRun' => runs' > 0) /\ (pc' = "asked" => runs' < MaxRuns)
  BY DEF DiskTyped
<1> QED BY <1>1 DEF DiskTyped

LEMMA TreesTyped ==
  ASSUME CapturesAssumption, DiskTyped, InRun, NEW path, NEW part \in Parts, NEW name
  PROVE  /\ Tree(path, runs, part).part \in Parts /\ Tree(path, runs, part).run \in 1..runs
         /\ Gone.part \in Parts
         /\ \A n \in DOMAIN Drop(name) : Drop(name)[n].part \in Parts
                /\ Drop(name)[n].run \in 1..runs
         /\ \A n \in DOMAIN Put(name, Tree(path, runs, part)) :
              /\ Put(name, Tree(path, runs, part))[n].part \in Parts
              /\ Put(name, Tree(path, runs, part))[n].run \in 1..runs
<1>1. runs \in 1..runs
  BY DEF DiskTyped, CapturesAssumption
<1>2. Tree(path, runs, part).part \in Parts /\ Tree(path, runs, part).run \in 1..runs
  BY <1>1 DEF Tree
<1>3. Gone.part \in Parts
  BY DEF Gone, Tree, Parts
<1>4. \A n \in DOMAIN dirs : dirs[n].part \in Parts /\ dirs[n].run \in 1..runs
  BY DEF DiskTyped
<1>5. \A n \in DOMAIN Drop(name) : Drop(name)[n].part \in Parts /\ Drop(name)[n].run \in 1..runs
  BY <1>4 DEF Drop
<1> DEFINE t == Tree(path, runs, part)
<1>6. \A n \in DOMAIN Put(name, t) : Put(name, t)[n] = t \/ (n \in DOMAIN dirs
          /\ Put(name, t)[n] = dirs[n])
  BY DEF Put
<1> HIDE DEF t
<1>7. t.part \in Parts /\ t.run \in 1..runs
  BY <1>2 DEF t
<1>8. \A n \in DOMAIN Put(name, t) : Put(name, t)[n].part \in Parts
          /\ Put(name, t)[n].run \in 1..runs
  BY <1>4, <1>6, <1>7
<1> QED BY <1>2, <1>3, <1>5, <1>8 DEF t

\* A step of a run under way.
LEMMA DiskOfARun ==
  ASSUME CapturesAssumption, DiskTyped, InRun, UNCHANGED runs, pc' # "asked",
         \A n \in DOMAIN dirs' : dirs'[n].part \in Parts /\ dirs'[n].run \in 1..runs,
         sharedDir'.part \in Parts, sharedTar'.part \in Parts
  PROVE  DiskTyped'
<1>1. runs' \in 0..MaxRuns /\ (InRun' => runs' > 0) /\ (pc' = "asked" => runs' < MaxRuns)
  BY DEF DiskTyped
<1> QED BY <1>1 DEF DiskTyped

LEMMA BeginKeepsDisk ==
  ASSUME CapturesAssumption, DiskTyped, Begin
  PROVE  DiskTyped'
<1>1. /\ pc = "asked" /\ runs' = runs + 1 /\ UNCHANGED <<dirs, sharedDir, sharedTar>>
      /\ pc' \in {"idle", "shared"}
  BY DEF Begin, Stop, diskVars
<1>2. runs \in Nat /\ runs + 1 \in 0..MaxRuns /\ runs + 1 > 0
  BY <1>1 DEF DiskTyped, CapturesAssumption
<1>3. \A n \in 1..runs : n \in 1..(runs + 1)
  BY <1>2
<1> QED BY <1>1, <1>2, <1>3 DEF DiskTyped

LEMMA KillKeepsDisk ==
  ASSUME CapturesAssumption, DiskTyped, Kill, pc \in Places
  PROVE  DiskTyped'
<1>1. InRun /\ pc' = "idle" /\ UNCHANGED runs
  BY DEF Kill, Running, Restoring, Stop, InRun, Places, Away
<1>2. "some" \in Parts
  BY DEF Parts
<1>3. /\ dirs' = dirs \/ dirs' = Put(Last(used), Tree(Cur, runs, "some"))
      /\ sharedDir' = sharedDir \/ sharedDir' = Tree(Sdcard, runs, "some")
      /\ sharedTar' = sharedTar \/ sharedTar' = Tree(Sdcard, runs, "some")
  BY DEF Kill
<1>4. \A n \in DOMAIN dirs' : dirs'[n].part \in Parts /\ dirs'[n].run \in 1..runs
  BY <1>1, <1>2, <1>3, TreesTyped DEF DiskTyped
<1>5. sharedDir'.part \in Parts /\ sharedTar'.part \in Parts
  BY <1>1, <1>2, <1>3, TreesTyped DEF DiskTyped
<1> QED BY <1>1, <1>4, <1>5, DiskOfARun

LEMMA DiskKeeps ==
  ASSUME CapturesAssumption, DiskTyped, pc \in Places, [Next]_vars
  PROVE  DiskTyped'
<1>1. CASE UNCHANGED vars
  BY <1>1, DiskStays DEF vars, diskVars, InRun
<1>2. CASE Ask \/ Refuse \/ Cancel \/ WriteManifest
  BY <1>2, DiskStays DEF Ask, Refuse, Cancel, WriteManifest, Stop, diskVars, InRun
<1>3. CASE Begin
  BY <1>3, BeginKeepsDisk
<1>4. CASE Kill
  BY <1>4, KillKeepsDisk
<1>5. CASE SkipShared \/ Collect \/ NoDirectory \/ PassOver \/ LeaveLoop
  BY <1>5, DiskStays DEF SkipShared, Collect, NoDirectory, PassOver, LeaveLoop, diskVars, InRun
<1>6. CASE RestoreBegins \/ RestoreShared \/ PushEntry \/ PushEnds \/ Extracts
  BY <1>6, DiskStays DEF RestoreBegins, RestoreShared, PushEntry, PushEnds, Extracts, Stop,
                         diskVars, InRun
<1>7. {"none", "some", "whole"} = Parts
  BY DEF Parts
<1>8. CASE SharedBegins \/ ArchivesShared \/ SharedFails
  <2>1. InRun /\ pc' # "asked" /\ UNCHANGED <<runs, dirs>>
    BY <1>8 DEF SharedBegins, ArchivesShared, SharedFails, InRun
  <2>2. /\ sharedDir' = sharedDir \/ sharedDir' = Gone
        /\ \/ sharedTar' = sharedTar \/ sharedTar' = Gone
           \/ sharedTar' = Tree(Sdcard, runs, "none") \/ sharedTar' = Tree(Sdcard, runs, "whole")
    BY <1>8 DEF SharedBegins, ArchivesShared, SharedFails
  <2>3. sharedDir'.part \in Parts /\ sharedTar'.part \in Parts
    BY <1>7, <2>1, <2>2, TreesTyped DEF DiskTyped
  <2> QED BY <2>1, <2>3, DiskOfARun DEF DiskTyped
<1>9. CASE \E part \in {"whole", "some"} : PullsShared(part)
  <2>1. PICK part \in {"whole", "some"} : PullsShared(part)
    BY <1>9
  <2>2. /\ InRun /\ pc' # "asked" /\ UNCHANGED <<runs, dirs, sharedTar>>
        /\ sharedDir' = Tree(Sdcard, runs, part)
    BY <2>1 DEF PullsShared, InRun
  <2>3. sharedDir'.part \in Parts
    BY <1>7, <2>2, TreesTyped
  <2> QED BY <2>2, <2>3, DiskOfARun DEF DiskTyped
<1>10. CASE PullBegins \/ PullFails \/ \E part \in {"whole", "some"} : Pulls(part)
  <2>1. InRun /\ pc' # "asked" /\ UNCHANGED <<runs, sharedDir, sharedTar>>
    BY <1>10 DEF PullBegins, PullFails, Pulls, InRun
  <2>2. \/ \E name : dirs' = Drop(name)
        \/ \E name : \E part \in {"whole", "some"} : dirs' = Put(name, Tree(Cur, runs, part))
    BY <1>10 DEF PullBegins, PullFails, Pulls
  <2>3. \A n \in DOMAIN dirs' : dirs'[n].part \in Parts /\ dirs'[n].run \in 1..runs
    <3>1. ASSUME NEW name, dirs' = Drop(name)
          PROVE  \A n \in DOMAIN dirs' : dirs'[n].part \in Parts /\ dirs'[n].run \in 1..runs
      <4>1. \A n \in DOMAIN Drop(name) : Drop(name)[n].part \in Parts
                /\ Drop(name)[n].run \in 1..runs
        BY <1>7, <2>1, TreesTyped
      <4> QED BY <3>1, <4>1
    <3>2. ASSUME NEW name, NEW part \in Parts, dirs' = Put(name, Tree(Cur, runs, part))
          PROVE  \A n \in DOMAIN dirs' : dirs'[n].part \in Parts /\ dirs'[n].run \in 1..runs
      BY <2>1, <3>2, TreesTyped
    <3> QED BY <1>7, <2>2, <3>1, <3>2
  <2> QED BY <2>1, <2>3, DiskOfARun DEF DiskTyped
<1> QED BY <1>1, <1>2, <1>3, <1>4, <1>5, <1>6, <1>8, <1>9, <1>10 DEF Next

-----------------------------------------------------------------------------
(* What is in memory.                                                      *)

\* A step that leaves the loop's variables alone, or has them all empty.
LEMMA StopKeepsMemory ==
  ASSUME NEW how, Stop(how)
  PROVE  MemoryTyped'
<1>1. pc' = "idle" /\ todo' = <<>> /\ k' = 1 /\ used' = <<>> /\ captures' = <<>>
  BY DEF Stop
<1>2. <<>> \in Seq(ToSet(<<>>)) /\ <<>> \in Seq(Seq(Text)) /\ Len(<<>>) = 0
  OBVIOUS
<1> QED BY <1>1, <1>2 DEF MemoryTyped, Places, Collected

LEMMA MemoryStays ==
  ASSUME MemoryTyped, UNCHANGED <<todo, k, used, captures>>, pc' \in Places,
         Collected => Collected', pc' = "loop" => pc = "loop", pc' = "pull" => pc = "pull"
  PROVE  MemoryTyped'
BY DEF MemoryTyped

LEMMA CollectKeepsMemory ==
  ASSUME CapturesAssumption, AskedFits, MemoryTyped, Collect
  PROVE  MemoryTyped'
<1>1. /\ pc = "cards" /\ pc' = (IF todo' = <<>> THEN "manifest" ELSE "loop")
      /\ UNCHANGED <<opts, k, used, captures>>
  BY DEF Collect
<1>2. InRun /\ Collected' /\ ~Collected /\ k = 1 /\ used = <<>> /\ captures = <<>>
  BY <1>1 DEF InRun, Collected, MemoryTyped
<1>3. /\ opts.paths \in Seq(Seq(Text)) /\ Cards \in Seq(Seq(Text))
      /\ \A n \in DOMAIN opts.paths : IsPullable(opts.paths[n])
      /\ \A n \in DOMAIN Cards : IsPullable(Cards[n])
  BY <1>2, WantedIs, PathsTyped DEF AskedFits
<1>4. /\ opts.paths \o Cards \in Seq(Seq(Text))
      /\ \A n \in DOMAIN (opts.paths \o Cards) : IsPullable((opts.paths \o Cards)[n])
  <2> DEFINE paths == opts.paths \o Cards
             a == Len(opts.paths)
             b == Len(Cards)
  <2>1. /\ paths \in Seq(Seq(Text)) /\ Len(paths) = a + b
        /\ \A n \in 1..Len(paths) : paths[n] = IF n <= a THEN opts.paths[n] ELSE Cards[n - a]
    BY <1>3, ConcatProperties
  <2>2. a \in Nat /\ b \in Nat
    BY <1>3, LenProperties
  <2>3. DOMAIN opts.paths = 1..a /\ DOMAIN Cards = 1..b /\ DOMAIN paths = 1..(a + b)
    BY <1>3, <2>1, LenProperties
  <2> HIDE DEF paths, a, b
  <2>4. \A n \in 1..(a + b) : (n \in 1..a /\ n <= a) \/ (~(n <= a) /\ n - a \in 1..b)
    BY <2>2
  <2>5. \A n \in DOMAIN paths : IsPullable(paths[n])
    BY <1>3, <2>1, <2>3, <2>4
  <2> QED BY <2>1, <2>5 DEF paths
<1>5. todo' \in Seq(Seq(Text))
  <2>1. CASE todo' = <<>>
    BY <2>1
  <2>2. CASE todo' = CollapseRedundant(opts.paths)
    BY <1>3, <2>2, CollapseCovers
  <2>3. CASE todo' = CollapseRedundant(opts.paths \o Cards)
    BY <1>4, <2>3, CollapseCovers
  <2> QED BY <2>1, <2>2, <2>3 DEF Collect
<1>6. Len(todo') \in Nat
  BY <1>5, LenProperties
<1>7. k' = 1 /\ used' = <<>> /\ captures' = <<>> /\ Len(<<>>) = 0 /\ <<>> \in Seq(ToSet(<<>>))
  BY <1>1, <1>2
<1>8. k' \in 1..(Len(todo') + 1) /\ Len(captures') <= Len(used') /\ Len(used') < k'
  BY <1>6, <1>7
<1>9. pc' \in Places /\ pc' # "pull"
  BY <1>1 DEF Places
<1> QED BY <1>2, <1>5, <1>7, <1>8, <1>9 DEF MemoryTyped

LEMMA TurnKeepsMemory ==
  ASSUME MemoryTyped, UNCHANGED todo, Collected', pc' \in {"loop", "pull"},
         used' \in Seq(ToSet(used')), captures' \in Seq(ToSet(captures')),
         k' \in 1..(Len(todo) + 1), Len(captures') <= Len(used'), Len(used') <= k',
         pc' = "loop" => Len(used') < k',
         pc' = "pull" => k' <= Len(todo) /\ Len(captures') < Len(used')
  PROVE  MemoryTyped'
BY DEF MemoryTyped, Places

LEMMA LoopKeepsMemory ==
  ASSUME MemoryTyped, PassOver \/ PullBegins \/ PullFails \/ \E part \in {"whole", "some"} :
      Pulls(part)
  PROVE  MemoryTyped'
<1> DEFINE t == Len(todo)
           u == Len(used)
           c == Len(captures)
<1>1. pc' \in {"loop", "pull"} /\ Collected' /\ UNCHANGED todo
  BY DEF PassOver, PullBegins, PullFails, Pulls, Collected
<1>2. /\ used \in Seq(ToSet(used)) /\ captures \in Seq(ToSet(captures)) /\ k \in 1..(t + 1)
      /\ c <= u /\ u <= k /\ (pc = "loop" => u < k) /\ (pc = "pull" => k <= t /\ c < u)
  BY DEF MemoryTyped
<1>3. t \in Nat /\ u \in Nat /\ c \in Nat
  BY <1>2, LenProperties DEF MemoryTyped
<1>4. CASE PassOver
  <2>1. pc = "loop" /\ pc' = "loop" /\ k <= t /\ k' = k + 1 /\ UNCHANGED <<used, captures>>
    BY <1>4 DEF PassOver
  <2> HIDE DEF t
  <2>2. k' \in 1..(t + 1) /\ u <= k' /\ u < k'
    BY <1>2, <1>3, <2>1
  <2> QED BY <1>1, <1>2, <2>1, <2>2, TurnKeepsMemory DEF t
<1>5. CASE PullBegins
  <2>1. /\ pc = "loop" /\ pc' = "pull" /\ k <= t /\ UNCHANGED <<k, captures>>
        /\ used' = Append(used, UniqueName(Sanitize(Cur), used))
    BY <1>5 DEF PullBegins
  <2>2. used' \in Seq(ToSet(used')) /\ Len(used') = u + 1
    <3>1. \A s, x : s \in Seq(ToSet(s)) => Len(Append(s, x)) = Len(s) + 1
      OBVIOUS
    <3> QED BY <1>2, <2>1, <3>1, AppendOfItself
  <2>3. c <= Len(used') /\ Len(used') <= k /\ c < Len(used')
    <3> HIDE DEF t, u, c
    <3> QED BY <1>2, <1>3, <2>1, <2>2
  <2> QED BY <1>1, <1>2, <2>1, <2>2, <2>3, TurnKeepsMemory
<1>6. CASE PullFails
  <2>1. pc = "pull" /\ pc' = "loop" /\ k' = k + 1 /\ UNCHANGED <<used, captures>>
    BY <1>6 DEF PullFails
  <2> HIDE DEF t
  <2>2. k' \in 1..(t + 1) /\ u <= k' /\ u < k'
    BY <1>2, <1>3, <2>1
  <2> QED BY <1>1, <1>2, <2>1, <2>2, TurnKeepsMemory DEF t
<1>7. CASE \E part \in {"whole", "some"} : Pulls(part)
  <2>1. /\ pc = "pull" /\ pc' = "loop" /\ k' = k + 1 /\ UNCHANGED used
        /\ \E x : captures' = Append(captures, x)
    BY <1>7 DEF Pulls
  <2>2. captures' \in Seq(ToSet(captures')) /\ Len(captures') = c + 1
    <3>1. \A s, x : s \in Seq(ToSet(s)) => Len(Append(s, x)) = Len(s) + 1
      OBVIOUS
    <3> QED BY <1>2, <2>1, <3>1, AppendOfItself
  <2>3. k' \in 1..(t + 1) /\ Len(captures') <= u /\ u <= k' /\ u < k'
    <3> HIDE DEF t, u, c
    <3> QED BY <1>2, <1>3, <2>1, <2>2
  <2> QED BY <1>1, <1>2, <2>1, <2>2, <2>3, TurnKeepsMemory
<1> QED BY <1>4, <1>5, <1>6, <1>7

LEMMA MemoryKeeps ==
  ASSUME CapturesAssumption, AskedFits, MemoryTyped, [Next]_vars
  PROVE  MemoryTyped'
<1>0. pc \in Places
  BY DEF MemoryTyped
<1>1. CASE UNCHANGED vars
  BY <1>0, <1>1, MemoryStays DEF vars, memoryVars, Collected
<1>2. CASE Refuse \/ WriteManifest \/ Kill \/ PushEnds \/ Extracts
  BY <1>2, StopKeepsMemory DEF Refuse, WriteManifest, Kill, PushEnds, Extracts
<1>3. CASE Ask \/ Cancel \/ SkipShared \/ SharedBegins \/ ArchivesShared \/ SharedFails \/ PushEntry
  BY <1>0, <1>3, MemoryStays DEF Ask, Cancel, SkipShared, SharedBegins, ArchivesShared, SharedFails,
       PushEntry, memoryVars, Collected, Places
<1>4. CASE Begin
  <2>1. CASE Stop("failed")
    BY <2>1, StopKeepsMemory
  <2>2. CASE pc' = "shared" /\ UNCHANGED <<todo, k, used, captures>>
    BY <1>4, <2>2, MemoryStays DEF Begin, Collected, Places
  <2> QED BY <1>4, <2>1, <2>2 DEF Begin
<1>5. CASE RestoreBegins \/ RestoreShared
  <2>1. CASE \E how : Stop(how)
    BY <2>1, StopKeepsMemory
  <2>2. CASE ~\E how : Stop(how)
    <3>1. pc \notin {"loop", "pull", "manifest"} /\ pc' \in Away /\ UNCHANGED memoryVars
      BY <1>5, <2>2 DEF RestoreBegins, RestoreShared, Away
    <3> QED BY <3>1, MemoryStays DEF memoryVars, Collected, Places, Away
  <2> QED BY <2>1, <2>2
<1>6. CASE Collect
  BY <1>6, CollectKeepsMemory
<1>7. CASE PassOver \/ PullBegins \/ PullFails \/ \E part \in {"whole", "some"} : Pulls(part)
  BY <1>7, LoopKeepsMemory
<1>8. CASE NoDirectory \/ LeaveLoop
  BY <1>8, MemoryStays DEF NoDirectory, LeaveLoop, memoryVars, Collected, Places
<1>9. CASE \E part \in {"whole", "some"} : PullsShared(part)
  BY <1>9, MemoryStays DEF PullsShared, Collected, Places
<1> QED BY <1>1, <1>2, <1>3, <1>4, <1>5, <1>6, <1>7, <1>8, <1>9 DEF Next

-----------------------------------------------------------------------------
\* Every variable has its type, in every state of any number of runs.
THEOREM TypeCorrect == Spec => []TypeOK
<1>1. ASSUME Init PROVE TypesInv
  <2>1. FlagsTyped /\ OptsTyped /\ AskedFits
    BY <1>1 DEF Init, FlagsTyped, OptsTyped, Modes, AskedFits, ListAsked, InRun
  <2>2. DiskTyped
    BY <1>1, CapturesAssumption DEF CapturesAssumption, Init, DiskTyped, InRun, Gone, Tree, Parts
  <2>3. MemoryTyped
    BY <1>1 DEF Init, MemoryTyped, Places, Collected
  <2>4. SharedTyped /\ RestoreTyped
    BY <1>1, CapturesAssumption DEF CapturesAssumption, Init, SharedTyped, RestoreTyped,
         NoShared, Gone, Tree, Parts
  <2> QED BY <2>1, <2>2, <2>3, <2>4 DEF TypesInv
<1>2. ASSUME TypesInv, [Next]_vars PROVE TypesInv'
  <2>1. FlagsTyped' /\ OptsTyped' /\ AskedFits'
    BY <1>2, FlagsKeep, OptsKeep, AskedKeeps DEF TypesInv
  <2>2. DiskTyped' /\ MemoryTyped'
    BY <1>2, CapturesAssumption, DiskKeeps, MemoryKeeps DEF TypesInv, MemoryTyped
  <2>3. SharedTyped' /\ RestoreTyped'
    BY <1>2, CapturesAssumption, SharedKeeps, RestoreTypedKeeps DEF TypesInv
  <2> QED BY <2>1, <2>2, <2>3 DEF TypesInv
<1>3. ASSUME TypesInv PROVE TypeOK
  <2>1. /\ opts \in [mode : {"root", "standard"}, shared : BOOLEAN, paths : Lists \cup {<<>>}]
        /\ flag \in BOOLEAN /\ apps \in BOOLEAN /\ rooted \in BOOLEAN /\ sharedRestored \in BOOLEAN
    BY <1>3 DEF TypesInv, FlagsTyped, OptsTyped, Modes
  <2>2. /\ runs \in 0..MaxRuns
        /\ \A n \in DOMAIN dirs : dirs[n].part \in Parts /\ dirs[n].run \in 1..runs
    BY <1>3 DEF TypesInv, DiskTyped
  <2>3. /\ pc \in {"idle", "asked", "shared", "pullShared", "cards", "loop", "pull", "manifest",
                   "restore", "push", "extract"}
        /\ k \in 1..(Len(todo) + 1) /\ Len(captures) <= Len(used) /\ Len(used) <= k
    BY <1>3 DEF TypesInv, MemoryTyped, Places, Away
  <2>4. /\ shared.kind \in {"none", "dir", "tar"} /\ shared.bytes.part \in Parts
        /\ restores \in 0..MaxRestores /\ left \subseteq Entries /\ phone \subseteq Entries
    BY <1>3 DEF TypesInv, SharedTyped, RestoreTyped
  <2> QED BY <2>1, <2>2, <2>3, <2>4 DEF TypeOK
<1> QED BY <1>1, <1>2, <1>3, PTL DEF Spec
=============================================================================
