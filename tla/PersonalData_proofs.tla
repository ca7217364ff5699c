------------------------- MODULE PersonalData_proofs -------------------------
(***************************************************************************)
(* Theorems about PersonalData for every phone, every number of runs and   *)
(* restores, and failures, cancels, kills and damage anywhere.             *)
(***************************************************************************)
EXTENDS PersonalData, SequenceTheorems, FiniteSetTheorems, WellFoundedInduction, TLAPS

\* Everything a phone can name: the rows, and the networks of its stores.
Item == (UNION {Items(Device[x]) : x \in Questions})
          \cup (UNION {Items(Stores[n]) : n \in 1..Len(Stores)})
StoreLists == {Stores[n] : n \in 1..Len(Stores)}
Files == {x \in Parts : PartType[x] = "file"}

Docs == [is : {"document"}, items : Seq(Item), refs : SUBSET Parts, run : 0..MaxRuns]

\* A document whose last flush failed, and what else a file may be but whole.
Shorts == [is : {"short"}, of : Docs]
Broken == {Absent, Torn, Rotten} \cup Shorts

\* A document of Wi-Fi networks is a store's, since a store is read whole.
IsDocumentOf(x, d) == d \in Docs /\ (x = "wifi" => d.items \in StoreLists)

\* An entry counts what its document holds, unless that was cut short.
Describes(e, x) ==
  /\ e \in [count : Nat, content : Docs \cup Shorts, summed : BOOLEAN]
  /\ e.content.is # "short" => IsDocumentOf(x, e.content) /\ e.count = Len(e.content.items)

-----------------------------------------------------------------------------
(* The inductive invariant.                                                *)

Listing == {"contacts", "rows", "messages", "calendars", "namespace", "store", "vcards",
            "data", "events", "parts", "part", "attachment"}
Recording == {"open", "fill"}
Exporting == Listing \cup Recording \cup {"kind", "write", "writing"}
Restoring == {"push", "network"}

\* The kinds whose export may be at a place.
KindsAt ==
  [contacts |-> {1}, vcards |-> {1}, data |-> {1}, rows |-> {2, 4}, messages |-> {3},
   parts |-> {3}, part |-> {3}, attachment |-> {3}, calendars |-> {5}, events |-> {5},
   namespace |-> {6}, store |-> {7}, open |-> 1..7, fill |-> 1..7, kind |-> 1..8,
   write |-> 1..8, writing |-> 1..8]

ManifestTyped ==
  /\ manifest.run \in 0..MaxRuns
  /\ DOMAIN manifest.entries \subseteq Kind
  /\ \A x \in DOMAIN manifest.entries : Describes(manifest.entries[x], x)

Types ==
  /\ pc \in Exporting \cup Restoring \cup {"idle"}
  /\ flag \in BOOLEAN /\ k \in 1..8 /\ at \in Nat \ {0} /\ works \in BOOLEAN
  /\ rows \in Seq(Item) /\ text \in Seq(Item) /\ refs \subseteq Parts
  /\ runs \in 0..MaxRuns /\ restores \in 0..MaxRestores /\ troubles \in 0..MaxTroubles
  /\ outcome \in {"none", "success", "cancelled", "failed", "killed", "rotted", "restored"}
  /\ cut \subseteq Kind
  /\ DOMAIN entries \subseteq Kind /\ \A x \in DOMAIN entries : Describes(entries[x], x)
  /\ DOMAIN disk = Kind
  /\ \A x \in Kind : disk[x] \in Broken \/ IsDocumentOf(x, disk[x])
  /\ parts \in [Parts -> {Absent, Torn, [is |-> "whole"]}]
  /\ ManifestTyped
  /\ DOMAIN imported = {"contacts", "calendar"}
  /\ \A x \in DOMAIN imported :
       imported[x] \in Broken \/ imported[x] \in Docs
  /\ paths \subseteq DOMAIN imported
  /\ wifiRestored \in Nat \cup {-1} /\ wifiSkipped \in Nat /\ joined \subseteq Expressible
  /\ unheard \subseteq joined

\* Where a run or a restore is, and what is empty there.
PlacesFit ==
  /\ pc \in Exporting => k \in KindsAt[pc]
  /\ pc = "idle" => k = 1 /\ entries = NoEntries
  /\ pc \in {"idle", "push"} => at = 1 /\ rows = <<>>
  /\ pc \in {"kind", "contacts", "rows", "messages", "parts", "calendars"}
       => at = 1 /\ rows = <<>>
  /\ pc \in {"kind", "contacts", "namespace"} /\ at = 1 => text = <<>>
  /\ pc = "namespace" => at \in 1..4
  /\ pc \in {"kind", "messages", "parts"} => works
  /\ pc \in Exporting \ {"part", "attachment"} /\ ~(pc \in Recording /\ k = 3) => refs = {}
  /\ pc \in Exporting => paths = {} /\ runs > 0
  /\ pc # "idle" => outcome = "none"
  /\ pc = "writing" => DOMAIN manifest.entries = {}

\* What has been read of a kind so far is all there was, unless a tool broke off.
NamespacesRead(n) ==
  {(IF s[1] /\ n > 1 THEN Device["system"] ELSE <<>>)
     \o (IF s[2] /\ n > 2 THEN Device["secure"] ELSE <<>>)
     \o (IF s[3] /\ n > 3 THEN Device["global"] ELSE <<>>) : s \in BOOLEAN \X BOOLEAN \X BOOLEAN}
TextIsWhole ==
  /\ pc \in Listing \cup Recording /\ Kinds[k] \notin cut =>
       /\ pc = "vcards" =>
            /\ rows = Device["contacts"]
            /\ text = Those(SubSeq(rows, 1, IF at > Len(rows) THEN Len(rows) ELSE at - 1), Keyed)
       /\ pc = "namespace" => text \in NamespacesRead(at)
       /\ pc \in {"parts", "part", "attachment"} => text = Device["messages"]
       /\ pc \in Recording => text \in Wholes(Kinds[k])
  /\ pc \in Recording /\ k = 7 => text \in StoreLists

\* Every attachment named so far is in its file, and while nothing has gone
\* wrong, every file met so far is named.
RefsResolve ==
  /\ pc \in {"part", "attachment"} =>
       /\ Len(rows) <= Len(Device["parts"])
       /\ \A n \in 1..Len(rows) : rows[n] = Device["parts"][n]
       /\ at <= Len(rows) + 1
       /\ \A x \in refs : \E n \in 1..(at - 1) : rows[n] = x
       /\ ~flag /\ troubles = 0 =>
            /\ works /\ rows = Device["parts"]
            /\ refs = {x \in Files : \E n \in 1..(at - 1) : rows[n] = x}
  /\ pc = "attachment" => at <= Len(rows) /\ PartType[rows[at]] = "file" /\ works
  /\ pc \in {"part", "attachment"} \cup Recording =>
       \A x \in refs : parts[x] = [is |-> "whole"]
  /\ pc \in Recording /\ k = 3 /\ ~flag /\ troubles = 0 => refs = Files

\* The same of a recorded export, and its file is still the one recorded.
Recorded(x, e) ==
  /\ disk[x] = e.content
  /\ x \notin cut /\ e.content.is # "short" => e.content.items \in Wholes(x)
MmsRecorded(e) == e.content.is # "short" => \A x \in e.content.refs : parts[x] = [is |-> "whole"]
EntriesAreTrue ==
  pc \in Exporting =>
    /\ \A x \in DOMAIN entries : Recorded(x, entries[x]) /\ \E n \in 1..(k - 1) : x = Kinds[n]
    /\ "mms" \in DOMAIN entries =>
         /\ MmsRecorded(entries["mms"])
         /\ ~flag /\ troubles = 0 /\ entries["mms"].content.is # "short"
              => entries["mms"].content.refs = Files

\* A restore: what was copied, and the networks counted so far.
RestoreAddsUp ==
  /\ pc = "push" => k \in 1..3 /\ paths \subseteq {Imports[n] : n \in 1..(k - 1)}
                    /\ wifiRestored = -1 /\ wifiSkipped = 0 /\ joined = {} /\ unheard = {}
  /\ pc = "network" =>
       /\ at <= Len(rows) + 1 /\ HasNoTwins(rows)
       /\ wifiRestored = -1 => rows = <<>>
       /\ wifiRestored # -1 =>
            /\ Listed("wifi")
            /\ Export("wifi").summed /\ Export("wifi").content.is # "short"
                 => Len(rows) = Export("wifi").count
            /\ wifiRestored + wifiSkipped = at - 1
            /\ wifiRestored = Cardinality(joined \ unheard) /\ IsFiniteSet(joined \ unheard)
            /\ \A x \in joined : \E n \in 1..(at - 1) : rows[n] = x

IInv ==
  /\ Types /\ PlacesFit /\ TextIsWhole /\ RefsResolve /\ EntriesAreTrue /\ RestoreAddsUp
  /\ ListedIsWhole /\ AttachmentsResolve /\ ImportIsTheRecorded /\ WifiAddsUp

-----------------------------------------------------------------------------
(* Induction, and the lists the model keeps.                               *)

\* A set with 0 that is closed under the successor has every number.
LEMMA NatSet ==
  ASSUME NEW S, 0 \in S, \A n \in Nat : n \in S => n + 1 \in S
  PROVE  Nat \subseteq S
<1>1. IsWellFoundedOn(OpToRel(<, Nat), Nat)
  BY NatLessThanWellFounded
<1>2. SUFFICES ASSUME NEW x \in Nat, x \notin S PROVE FALSE
  OBVIOUS
<1>3. \E y \in Nat \ S : \A z \in Nat \ S : ~(<<z, y>> \in OpToRel(<, Nat))
  BY <1>1, <1>2, WFMin
<1>4. PICK y \in Nat \ S : \A z \in Nat \ S : ~(z < y)
  BY <1>3 DEF OpToRel
<1>5. y # 0 /\ y - 1 \in Nat
  BY <1>4
<1>6. y - 1 \in S
  BY <1>4, <1>5
<1> QED BY <1>4, <1>5, <1>6

LEMMA Further ==
  ASSUME NEW a \in Int, NEW b \in Int, a <= b, NEW n \in 1..(a - 1)
  PROVE  n \in 1..(b - 1)
OBVIOUS

\* A function g is how Those goes through the list s.
Keeps(g, s, S) ==
  \A n \in 0..Len(s) :
    g[n] = IF n = 0 THEN <<>>
           ELSE IF s[n] \in S THEN Append(g[n - 1], s[n]) ELSE g[n - 1]

\* There is only one such function.
LEMMA KeepsIsUnique ==
  ASSUME NEW s, NEW S, Len(s) \in Nat, NEW g, NEW h, Keeps(g, s, S), Keeps(h, s, S)
  PROVE  g[Len(s)] = h[Len(s)]
<1> DEFINE T == {n \in Nat : n > Len(s) \/ g[n] = h[n]}
<1>1. 0 \in T
  BY DEF Keeps
<1>2. \A n \in Nat : n \in T => n + 1 \in T
  <2>1. SUFFICES ASSUME NEW n \in Nat, n \in T, n + 1 <= Len(s) PROVE g[n + 1] = h[n + 1]
    OBVIOUS
  <2>2. g[n] = h[n] /\ n + 1 \in 0..Len(s) /\ n + 1 # 0 /\ (n + 1) - 1 = n
    BY <2>1
  <2> QED BY <2>2 DEF Keeps
<1>3. Nat \subseteq T
  <2> HIDE DEF T
  <2> QED BY <1>1, <1>2, NatSet
<1> QED BY <1>3

\* There is one, and Those returns its last value.
LEMMA ThoseKeeps ==
  ASSUME NEW A, NEW s \in Seq(A), NEW S
  PROVE  \E g \in [0..Len(s) -> Seq(A)] : Keeps(g, s, S) /\ Those(s, S) = g[Len(s)]
<1> DEFINE Upto(n, g) == /\ g \in [0..n -> Seq(A)]
                         /\ \A m \in 0..n :
                              g[m] = IF m = 0 THEN <<>>
                                     ELSE IF s[m] \in S THEN Append(g[m - 1], s[m]) ELSE g[m - 1]
           T == {n \in Nat : n > Len(s) \/ \E g : Upto(n, g)}
<1>1. 0 \in T
  <2> DEFINE e == [m \in 0..0 |-> <<>>]
  <2>1. <<>> \in Seq(A) /\ \A m \in 0..0 : m = 0
    OBVIOUS
  <2>2. e \in [0..0 -> Seq(A)] /\ \A m \in 0..0 : e[m] = <<>> /\ m = 0
    BY <2>1
  <2>3. Upto(0, e)
    <3> HIDE DEF e
    <3> QED BY <2>2
  <2> HIDE DEF Upto, e
  <2> QED BY <2>3
<1>2. \A n \in Nat : n \in T => n + 1 \in T
  <2>1. SUFFICES ASSUME NEW n \in Nat, n \in T, n + 1 <= Len(s)
                 PROVE  \E g : Upto(n + 1, g)
    <3> HIDE DEF Upto
    <3>1. Len(s) \in Nat
      OBVIOUS
    <3> QED BY <3>1
  <2>2. PICK g : Upto(n, g)
    <3>1. Len(s) \in Nat /\ ~(n > Len(s))
      BY <2>1
    <3> HIDE DEF Upto
    <3> QED BY <2>1, <3>1
  <2> DEFINE last == IF s[n + 1] \in S THEN Append(g[n], s[n + 1]) ELSE g[n]
             h == [m \in 0..(n + 1) |-> IF m = n + 1 THEN last ELSE g[m]]
  <2>3. g[n] \in Seq(A) /\ s[n + 1] \in A
    BY <2>1, <2>2
  <2>4. last \in Seq(A)
    BY <2>3
  <2>5. h \in [0..(n + 1) -> Seq(A)]
    <3> HIDE DEF last
    <3>1. \A m \in 0..(n + 1) : m # n + 1 => m \in 0..n
      BY <2>1
    <3> QED BY <2>2, <2>4, <3>1
  <2>6. ASSUME NEW m \in 0..(n + 1)
        PROVE  h[m] = IF m = 0 THEN <<>>
                      ELSE IF s[m] \in S THEN Append(h[m - 1], s[m]) ELSE h[m - 1]
    <3>1. CASE m = n + 1
      <4>1. h[m] = last /\ m # 0 /\ m - 1 = n /\ n \in 0..(n + 1) /\ n # n + 1
        BY <2>1, <3>1
      <4>2. h[n] = g[n]
        BY <4>1
      <4> HIDE DEF h
      <4> QED BY <3>1, <4>1, <4>2
    <3>2. CASE m # n + 1
      <4>1. m \in 0..n /\ h[m] = g[m]
        BY <2>1, <3>2
      <4>2. m # 0 => m - 1 \in 0..(n + 1) /\ m - 1 # n + 1
        BY <2>1, <4>1
      <4>3. m # 0 => h[m - 1] = g[m - 1]
        BY <4>2
      <4> HIDE DEF h
      <4> QED BY <2>2, <4>1, <4>3
    <3> QED BY <3>1, <3>2
  <2>7. Upto(n + 1, h)
    <3> HIDE DEF h
    <3> QED BY <2>5, <2>6
  <2> QED BY <2>7
<1>3. Len(s) \in T
  <2>1. Nat \subseteq T
    <3> HIDE DEF T
    <3> QED BY <1>1, <1>2, NatSet
  <2> QED BY <2>1
<1>4. PICK f : Upto(Len(s), f)
  BY <1>3
<1> DEFINE Step(g) == [n \in 0..Len(s) |->
                         IF n = 0 THEN <<>>
                         ELSE IF s[n] \in S THEN Append(g[n - 1], s[n]) ELSE g[n - 1]]
           kept == CHOOSE g : g = Step(g)
<1>5. f = Step(f)
  BY <1>4
<1>6. kept = Step(kept)
  <2> HIDE DEF Step
  <2> QED BY <1>5
<1>7. Those(s, S) = kept[Len(s)]
  BY DEF Those
<1>8. Keeps(kept, s, S) /\ Keeps(f, s, S)
  <2> HIDE DEF kept
  <2> QED BY <1>4, <1>6 DEF Keeps
<1>9. kept[Len(s)] = f[Len(s)]
  <2> HIDE DEF kept
  <2> QED BY <1>8, KeepsIsUnique
<1> QED
  <2> HIDE DEF kept
  <2> QED BY <1>4, <1>7, <1>8, <1>9

\* What Those keeps of a list are items of the list.
LEMMA ThoseType ==
  ASSUME NEW A, NEW s \in Seq(A), NEW S
  PROVE  Those(s, S) \in Seq(A)
BY ThoseKeeps

LEMMA ThoseOfNone ==
  ASSUME NEW S
  PROVE  Those(<<>>, S) = <<>>
<1>1. <<>> \in Seq({}) /\ Len(<<>>) = 0 /\ 0 \in 0..0
  OBVIOUS
<1>2. PICK g : Keeps(g, <<>>, S) /\ Those(<<>>, S) = g[Len(<<>>)]
  BY <1>1, ThoseKeeps
<1>3. g[0] = <<>>
  BY <1>1, <1>2 DEF Keeps
<1> QED BY <1>1, <1>2, <1>3

\* The concatenation under a name of its own, so that regrouping three lists
\* is a step the provers take without unfolding any of them.
Chained(s, t) == s \o t

LEMMA ChainedRegroups ==
  ASSUME NEW A, NEW s \in Seq(A), NEW t \in Seq(A), NEW u \in Seq(A)
  PROVE  Chained(Chained(s, t), u) = Chained(s, Chained(t, u))
BY ConcatAssociative, SMTT(20) DEF Chained

\* A list read in two parts keeps what each part keeps.
LEMMA ThoseConcat ==
  ASSUME NEW A, NEW s \in Seq(A), NEW t \in Seq(A), NEW S
  PROVE  Those(s \o t, S) = Those(s, S) \o Those(t, S)
<1>1. PICK g \in [0..Len(s) -> Seq(A)] : Keeps(g, s, S) /\ Those(s, S) = g[Len(s)]
  BY ThoseKeeps
<1>2. PICK h \in [0..Len(t) -> Seq(A)] : Keeps(h, t, S) /\ Those(t, S) = h[Len(t)]
  BY ThoseKeeps
<1>3. s \o t \in Seq(A) /\ Len(s \o t) = Len(s) + Len(t) /\ Len(s) \in Nat /\ Len(t) \in Nat
  OBVIOUS
<1>4. PICK both \in [0..Len(s \o t) -> Seq(A)] :
         Keeps(both, s \o t, S) /\ Those(s \o t, S) = both[Len(s \o t)]
  BY <1>3, ThoseKeeps
<1> DEFINE u == [n \in 0..Len(s \o t) |->
                   IF n <= Len(s) THEN g[n] ELSE g[Len(s)] \o h[n - Len(s)]]
<1>5. ASSUME NEW n \in 0..Len(s \o t)
      PROVE  u[n] = IF n = 0 THEN <<>>
                    ELSE IF (s \o t)[n] \in S THEN Append(u[n - 1], (s \o t)[n]) ELSE u[n - 1]
  <2>1. CASE n = 0
    <3>1. u[0] = g[0] /\ g[0] = <<>>
      BY <1>1, <1>3 DEF Keeps
    <3> HIDE DEF u
    <3> QED BY <2>1, <3>1
  <2>2. CASE n # 0 /\ n <= Len(s)
    <3>1. n \in 1..Len(s) /\ n \in 0..Len(s) /\ n - 1 \in 0..Len(s \o t) /\ n - 1 <= Len(s)
      BY <1>3, <2>2
    <3>2. u[n] = g[n] /\ u[n - 1] = g[n - 1] /\ (s \o t)[n] = s[n]
      BY <1>3, <2>2, <3>1
    <3> HIDE DEF u
    <3> QED BY <1>1, <2>2, <3>1, <3>2 DEF Keeps
  <2>3. CASE n > Len(s)
    <3> DEFINE m == n - Len(s)
    <3>1. m \in 1..Len(t) /\ m \in 0..Len(t) /\ m # 0 /\ n # 0 /\ ~(n <= Len(s))
      BY <1>3, <2>3
    <3>2. (s \o t)[n] = t[m] /\ t[m] \in A
      BY <1>3, <2>3, <3>1
    <3>3. u[n] = g[Len(s)] \o h[m]
      BY <1>3, <2>3, <3>1
    <3>4. u[n - 1] = g[Len(s)] \o h[m - 1]
      <4>1. CASE m = 1
        <5>1. n - 1 = Len(s) /\ n - 1 \in 0..Len(s \o t)
          BY <1>3, <4>1, <2>3
        <5>2. u[n - 1] = g[Len(s)]
          BY <1>3, <5>1
        <5>3. 0 \in 0..Len(t) /\ Len(s) \in 0..Len(s) /\ m - 1 = 0
          BY <1>3, <4>1
        <5>4. h[0] = <<>>
          BY <1>2, <5>3 DEF Keeps
        <5>5. g[Len(s)] \in Seq(A)
          BY <5>3
        <5>6. g[Len(s)] \o <<>> = g[Len(s)]
          BY <5>5, ConcatEmptySeq
        <5> HIDE DEF u, m
        <5>7. h[m - 1] = <<>>
          BY <5>3, <5>4
        <5> QED BY <5>2, <5>6, <5>7
      <4>2. CASE m # 1
        <5>1. n - 1 \in 0..Len(s \o t) /\ ~(n - 1 <= Len(s)) /\ (n - 1) - Len(s) = m - 1
          BY <1>3, <2>3, <3>1, <4>2
        <5> HIDE DEF m
        <5> QED BY <5>1
      <4> QED BY <4>1, <4>2
    <3>5. h[m] = IF t[m] \in S THEN Append(h[m - 1], t[m]) ELSE h[m - 1]
      <4> HIDE DEF m
      <4> QED BY <1>2, <3>1 DEF Keeps
    <3>6. g[Len(s)] \in Seq(A) /\ h[m - 1] \in Seq(A)
      <4>1. Len(s) \in 0..Len(s) /\ m - 1 \in 0..Len(t)
        BY <1>3, <3>1
      <4> HIDE DEF m
      <4> QED BY <4>1
    <3>7. g[Len(s)] \o Append(h[m - 1], t[m]) = Append(g[Len(s)] \o h[m - 1], t[m])
      <4> HIDE DEF m
      <4> DEFINE p == g[Len(s)]
                 q == h[m - 1]
                 x == t[m]
      <4>0. p \in Seq(A) /\ q \in Seq(A) /\ x \in A
        BY <3>2, <3>6
      <4> HIDE DEF p, q, x
      <4>1. /\ Append(q, x) = q \o <<x>> /\ <<x>> \in Seq(A)
            /\ p \o q \in Seq(A)
        BY <4>0, AppendIsConcat
      <4>2. Append(p \o q, x) = (p \o q) \o <<x>>
        BY <4>0, <4>1, AppendIsConcat
      <4>3. (p \o q) \o <<x>> = p \o (q \o <<x>>)
        <5> DEFINE tail == <<x>>
        <5>1. p \in Seq(A) /\ q \in Seq(A) /\ tail \in Seq(A)
          BY <4>0, <4>1
        <5> HIDE DEF tail
        <5>2. Chained(Chained(p, q), tail) = Chained(p, Chained(q, tail))
          BY <5>1, ChainedRegroups
        <5> QED BY <5>2 DEF Chained, tail
      <4> QED BY <4>1, <4>2, <4>3 DEF p, q, x
    <3> HIDE DEF u, m
    <3>8. g[Len(s)] \o h[m] = IF t[m] \in S THEN Append(g[Len(s)] \o h[m - 1], t[m])
                             ELSE g[Len(s)] \o h[m - 1]
      BY <3>5, <3>7
    <3>9. n # 0 /\ (s \o t)[n] = t[m]
      BY <3>1, <3>2
    <3> QED BY <3>3, <3>4, <3>8, <3>9
  <2> QED BY <1>3, <2>1, <2>2, <2>3
<1>6. Keeps(u, s \o t, S)
  <2> HIDE DEF u
  <2> QED BY <1>5 DEF Keeps
<1>7. both[Len(s \o t)] = u[Len(s \o t)]
  <2>1. Len(s \o t) \in Nat
    BY <1>3
  <2> HIDE DEF u
  <2> QED BY <2>1, <1>4, <1>6, KeepsIsUnique
<1>8. u[Len(s \o t)] = g[Len(s)] \o h[Len(t)]
  <2>1. CASE Len(t) = 0
    <3>1. h[Len(t)] = <<>> /\ g[Len(s)] \in Seq(A)
      BY <1>2, <1>3, <2>1 DEF Keeps
    <3> QED BY <1>3, <2>1, <3>1
  <2>2. CASE Len(t) > 0
    <3>1. /\ Len(s \o t) \in 0..Len(s \o t) /\ ~(Len(s \o t) <= Len(s))
          /\ Len(s \o t) - Len(s) = Len(t)
      BY <1>3, <2>2
    <3> QED BY <3>1
  <2> HIDE DEF u
  <2> QED BY <1>3, <2>1, <2>2
<1> QED BY <1>1, <1>2, <1>4, <1>7, <1>8

LEMMA ThoseChained ==
  ASSUME NEW A, NEW s \in Seq(A), NEW t \in Seq(A), NEW S
  PROVE  Those(Chained(s, t), S) = Chained(Those(s, S), Those(t, S))
BY ThoseConcat DEF Chained

-----------------------------------------------------------------------------
(* The phone, and what a question to it is answered with.                  *)

LEMMA KindsAre ==
  /\ Len(Kinds) = 7
  /\ Kinds[1] = "contacts" /\ Kinds[2] = "sms" /\ Kinds[3] = "mms" /\ Kinds[4] = "call_log"
  /\ Kinds[5] = "calendar" /\ Kinds[6] = "settings" /\ Kinds[7] = "wifi"
  /\ Kind = {"contacts", "sms", "mms", "call_log", "calendar", "settings", "wifi"}
<1>1. /\ Len(Kinds) = 7
      /\ Kinds[1] = "contacts" /\ Kinds[2] = "sms" /\ Kinds[3] = "mms" /\ Kinds[4] = "call_log"
      /\ Kinds[5] = "calendar" /\ Kinds[6] = "settings" /\ Kinds[7] = "wifi"
  BY DEF Kinds
<1>2. 1..7 = {1, 2, 3, 4, 5, 6, 7}
  OBVIOUS
<1> QED BY <1>1, <1>2 DEF Kind

LEMMA KindsDiffer ==
  ASSUME NEW m \in 1..7, NEW n \in 1..7, m # n
  PROVE  Kinds[m] # Kinds[n]
<1>1. /\ m \in {1, 2, 3, 4, 5, 6, 7}
      /\ n \in {1, 2, 3, 4, 5, 6, 7}
  OBVIOUS
<1> QED BY <1>1, KindsAre

LEMMA DeviceType ==
  ASSUME NEW x \in Questions
  PROVE  Device[x] \in Seq(Item)
<1>1. Device[x] \in Seq(Items(Device[x]))
  BY PersonalAssumption DEF IsList
<1>2. Items(Device[x]) \subseteq Item
  BY DEF Item
<1> QED BY <1>1, <1>2, SeqMonotonic

LEMMA StoreType ==
  ASSUME NEW n \in 1..Len(Stores)
  PROVE  Stores[n] \in Seq(Item) /\ HasNoTwins(Stores[n])
<1>1. Stores[n] \in Seq(Items(Stores[n])) /\ HasNoTwins(Stores[n])
  BY PersonalAssumption DEF IsList
<1>2. Items(Stores[n]) \subseteq Item
  <2>1. Items(Stores[n]) \in {Items(Stores[m]) : m \in 1..Len(Stores)}
    OBVIOUS
  <2>2. SUFFICES ASSUME NEW y \in Items(Stores[n]) PROVE y \in Item
    OBVIOUS
  <2>3. y \in UNION {Items(Stores[m]) : m \in 1..Len(Stores)}
    BY <2>1, <2>2
  <2> QED BY <2>3 DEF Item
<1> QED BY <1>1, <1>2, SeqMonotonic

LEMMA FailsCosts ==
  ASSUME troubles \in 0..MaxTroubles, flag \in BOOLEAN, Fails
  PROVE  troubles' \in troubles..MaxTroubles /\ (~flag => troubles' > 0)
BY PersonalAssumption DEF Fails, Trouble

LEMMA TroubleCosts ==
  ASSUME troubles \in 0..MaxTroubles, Trouble
  PROVE  troubles' \in troubles..MaxTroubles /\ troubles' > 0
BY PersonalAssumption DEF Trouble

\* An answer is the whole, or a shorter beginning of it, which is remembered.
LEMMA AnswersAre ==
  ASSUME troubles \in 0..MaxTroubles, cut \subseteq Kind, k \in 1..7,
         NEW A, NEW whole \in Seq(A), NEW answer, Answers(whole, answer)
  PROVE  /\ answer \in Seq(A) /\ Len(answer) <= Len(whole)
         /\ \A n \in 1..Len(answer) : answer[n] = whole[n]
         /\ ~flag
         /\ troubles' \in troubles..MaxTroubles /\ cut \subseteq cut' /\ cut' \subseteq Kind
         /\ \/ answer = whole /\ cut' = cut /\ troubles' = troubles
            \/ Kinds[k] \in cut' /\ troubles' > 0
<1>1. Kinds[k] \in Kind
  BY KindsAre DEF Kind
<1>2. CASE answer = whole /\ UNCHANGED <<cut, troubles>>
  BY <1>2, PersonalAssumption DEF Answers
<1>3. CASE /\ Trouble
           /\ \E n \in 0..(Len(whole) - 1) : answer = SubSeq(whole, 1, n)
           /\ cut' = cut \cup {Kinds[k]}
  <2>1. PICK n \in 0..(Len(whole) - 1) : answer = SubSeq(whole, 1, n)
    BY <1>3
  <2>2. 1 \in Nat /\ n \in Nat /\ n <= Len(whole) /\ Len(whole) \in Nat
    BY <2>1
  <2>3. \A m \in 1..n : whole[m] \in A
    BY <2>2
  <2>4. /\ answer \in Seq(A) /\ Len(answer) = n
        /\ \A m \in 1..n : answer[m] = whole[m]
    BY <2>1, <2>2, <2>3, SubSeqProperties
  <2>5. troubles' \in troubles..MaxTroubles /\ troubles' > 0
    BY <1>3, TroubleCosts
  <2>6. ~flag
    BY DEF Answers
  <2> QED BY <1>1, <1>3, <2>2, <2>4, <2>5, <2>6
<1> QED BY <1>2, <1>3 DEF Answers

-----------------------------------------------------------------------------
(* Steps that leave most of the state alone.                               *)

\* A step of the exports that records nothing.
LEMMA ExportingStep ==
  ASSUME IInv, pc \in Exporting, pc' \in Exporting,
         UNCHANGED <<flag, entries, disk, outcome, countVars, restoreVars>>, ManifestTyped',
         k' \in KindsAt[pc'], k' \in k..8, at' \in Nat \ {0}, works' \in BOOLEAN,
         rows' \in Seq(Item), text' \in Seq(Item), refs' \subseteq Parts,
         cut \subseteq cut', cut' \subseteq Kind, troubles' \in troubles..MaxTroubles,
         parts' \in [Parts -> {Absent, Torn, [is |-> "whole"]}],
         "mms" \in DOMAIN entries => parts' = parts,
         PlacesFit', TextIsWhole', RefsResolve'
  PROVE  IInv'
<1>0. k \in Int /\ 1 <= k /\ k' \in Int /\ k <= k' /\ k' <= 8
  <2>1. k \in 1..8
    BY DEF IInv, Types
  <2> QED BY <2>1
<1>1. Types'
  <2>1. /\ pc' \in Exporting \cup Restoring \cup {"idle"} /\ k' \in 1..8
        /\ troubles' \in 0..MaxTroubles
    <3>1. troubles \in 0..MaxTroubles
      BY DEF IInv, Types
    <3> QED BY <1>0, <3>1, PersonalAssumption
  <2>2. \A x \in DOMAIN entries' : Describes(entries[x], x)
    BY DEF IInv, Types
  <2>3. \A x \in Kind : disk[x] \in Broken \/ IsDocumentOf(x, disk[x])
    BY DEF IInv, Types
  <2> QED BY <2>1, <2>2, <2>3
          DEF IInv, Types, countVars, restoreVars, Describes, IsDocumentOf
<1>2. EntriesAreTrue'
  <2>1. \A x \in DOMAIN entries' : Recorded(x, entries[x])' /\ \E n \in 1..(k' - 1) : x = Kinds[n]
    <3>1. SUFFICES ASSUME NEW x \in DOMAIN entries
                   PROVE  /\ Recorded(x, entries[x])'
                          /\ \E n \in 1..(k' - 1) : x = Kinds[n]
      OBVIOUS
    <3>2. Recorded(x, entries[x]) /\ \E n \in 1..(k - 1) : x = Kinds[n]
      BY DEF IInv, EntriesAreTrue
    <3>3. Recorded(x, entries[x])'
      BY <3>2 DEF Recorded
    <3>4. PICK n \in Int : n \in 1..(k - 1) /\ x = Kinds[n]
      BY <3>2
    <3>5. n \in 1..(k' - 1)
      BY <1>0, <3>4, Further
    <3> QED BY <3>3, <3>4, <3>5
  <2>2. flag' = flag /\ (troubles' = 0 => troubles = 0)
    BY PersonalAssumption DEF IInv, Types
  <2>3. "mms" \in DOMAIN entries' => MmsRecorded(entries["mms"])'
    BY DEF IInv, EntriesAreTrue, MmsRecorded
  <2>4. "mms" \in DOMAIN entries'
          => (~flag' /\ troubles' = 0 /\ entries'["mms"].content.is # "short"
                => entries'["mms"].content.refs = Files)
    BY <2>2 DEF IInv, EntriesAreTrue
  <2> QED BY <2>1, <2>3, <2>4 DEF EntriesAreTrue
<1>3. pc' \notin {"idle", "push", "network"} /\ outcome' = "none" /\ paths' = {}
  BY DEF IInv, PlacesFit, Exporting, Listing, Recording, restoreVars
<1>4. RestoreAddsUp' /\ ListedIsWhole' /\ AttachmentsResolve' /\ ImportIsTheRecorded' /\ WifiAddsUp'
  BY <1>3 DEF RestoreAddsUp, ListedIsWhole, AttachmentsResolve, Finished, ImportIsTheRecorded,
              WifiAddsUp
<1> QED BY <1>1, <1>2, <1>4 DEF IInv

\* One that attaches nothing either.
LEMMA ReadingStep ==
  ASSUME IInv, pc \in Exporting, pc' \in Exporting, UNCHANGED <<flag, Outside>>,
         k' \in KindsAt[pc'], k' \in k..8, at' \in Nat \ {0}, works' \in BOOLEAN,
         rows' \in Seq(Item), text' \in Seq(Item), refs' \subseteq Parts,
         cut \subseteq cut', cut' \subseteq Kind, troubles' \in troubles..MaxTroubles,
         PlacesFit', TextIsWhole', RefsResolve'
  PROVE  IInv'
<1>1. /\ UNCHANGED <<flag, entries, disk, manifest, outcome, countVars, restoreVars>>
      /\ parts' = parts
  BY DEF Outside, dirVars
<1>2. parts' \in [Parts -> {Absent, Torn, [is |-> "whole"]}] /\ ManifestTyped'
  BY <1>1 DEF IInv, Types, ManifestTyped, Describes, IsDocumentOf
<1> QED BY <1>1, <1>2, ExportingStep

\* A kind that is skipped.
LEMMA SkipStep ==
  ASSUME IInv, pc \in Exporting, k \in 1..7, Skip, UNCHANGED <<flag, Outside>>,
         cut' = cut, troubles' \in troubles..MaxTroubles
  PROVE  IInv'
<1>1. /\ pc' = "kind" /\ k' = k + 1 /\ at' = 1 /\ rows' = <<>> /\ text' = <<>>
      /\ refs' = {} /\ works' = TRUE
  BY DEF Skip, Goto, Fresh
<1>2. /\ pc' \in Exporting /\ k' \in KindsAt[pc'] /\ k' \in k..8 /\ cut' \subseteq Kind
      /\ rows' \in Seq(Item) /\ text' \in Seq(Item)
  BY <1>1 DEF Exporting, KindsAt, IInv, Types
<1>3. PlacesFit'
  <2>1. paths' = {} /\ runs' > 0 /\ outcome' = "none"
    BY DEF IInv, PlacesFit, Outside, countVars, restoreVars, Exporting, Listing, Recording
  <2> QED BY <1>1, <1>2, <2>1 DEF PlacesFit
<1>4. TextIsWhole' /\ RefsResolve'
  BY <1>1 DEF TextIsWhole, RefsResolve, Listing, Recording
<1> QED BY <1>1, <1>2, <1>3, <1>4, ReadingStep

\* What holds all through the exports, and stays.
LEMMA OutsideFacts ==
  ASSUME IInv, pc \in Exporting, UNCHANGED Outside
  PROVE  /\ runs' > 0 /\ paths' = {} /\ outcome' = "none" /\ parts' = parts
         /\ k \in KindsAt[pc] /\ troubles \in 0..MaxTroubles /\ cut \subseteq Kind
         /\ flag \in BOOLEAN /\ k \in 1..8 /\ at \in Nat \ {0} /\ works \in BOOLEAN
         /\ rows \in Seq(Item) /\ text \in Seq(Item) /\ refs \subseteq Parts
         /\ cut \subseteq cut /\ troubles \in troubles..MaxTroubles
BY PersonalAssumption
   DEF IInv, Types, PlacesFit, Outside, dirVars, countVars, restoreVars, Exporting, Listing,
       Recording

-----------------------------------------------------------------------------
(* The exports' steps.                                                     *)

LEMMA WholesAre ==
  /\ Wholes("contacts") = {Those(Device["contacts"], Keyed), Those(Device["contacts"], Named)}
  /\ Wholes("sms") = {Device["sms"]} /\ Wholes("call_log") = {Device["call_log"]}
  /\ Wholes("mms") = {Device["messages"]}
  /\ Wholes("calendar") = {Those(Device["events"], Dated)}
  /\ Wholes("wifi") = StoreLists
BY DEF Wholes, StoreLists

LEMMA NextKindKeeps ==
  ASSUME IInv, NextKind
  PROVE  IInv'
<1>1. pc = "kind" /\ pc \in Exporting /\ UNCHANGED <<flag, Outside, cut, troubles>>
  BY DEF NextKind, Exporting
<1>2. /\ at = 1 /\ rows = <<>> /\ text = <<>> /\ refs = {} /\ works
      /\ rows \in Seq(Item) /\ text \in Seq(Item)
  BY <1>1 DEF IInv, PlacesFit, Types, Exporting, Recording
<1>3. CASE (flag \/ k > Len(Kinds)) /\ Goto("write") /\ UNCHANGED <<k, docVars>>
  <2>1. /\ pc' = "write" /\ pc' \in Exporting /\ k' = k /\ k \in KindsAt["write"]
        /\ UNCHANGED docVars
    BY <1>1, <1>3, OutsideFacts DEF Goto, Exporting, KindsAt
  <2>2. PlacesFit'
    BY <1>1, <1>2, <2>1, OutsideFacts DEF PlacesFit, docVars, Exporting, Recording
  <2>3. TextIsWhole' /\ RefsResolve'
    BY <2>1 DEF TextIsWhole, RefsResolve, Listing, Recording
  <2> QED BY <1>1, <1>2, <2>1, <2>2, <2>3, OutsideFacts, ReadingStep DEF docVars
<1>4. CASE k \in 1..7 /\ Skip
  BY <1>1, <1>4, OutsideFacts, SkipStep
<1>5. CASE k \in 1..7 /\ Goto(FirstStep[Kinds[k]]) /\ UNCHANGED <<k, docVars>>
  <2>1. k \in {1, 2, 3, 4, 5, 6, 7}
    BY <1>5
  <2>2. /\ pc' \in {"contacts", "rows", "messages", "calendars", "namespace", "store"}
        /\ k \in KindsAt[pc']
        /\ UNCHANGED <<k, docVars>>
    BY <1>5, <2>1, KindsAre DEF Goto, FirstStep, KindsAt
  <2>3. PlacesFit'
    BY <1>1, <1>2, <2>2, OutsideFacts DEF PlacesFit, docVars, Exporting, Recording
  <2>4. TextIsWhole'
    <3>1. pc' = "namespace" => text' \in NamespacesRead(at')
      <4>1. text' = <<>> /\ at' = 1
        BY <1>2, <2>2 DEF docVars
      <4>2. <<>> = (<<>> \o <<>>) \o <<>>
        OBVIOUS
      <4>3. <<FALSE, FALSE, FALSE>> \in BOOLEAN \X BOOLEAN \X BOOLEAN
        OBVIOUS
      <4> QED BY <4>1, <4>2, <4>3 DEF NamespacesRead
    <3> QED BY <2>2, <3>1 DEF TextIsWhole, Recording
  <2>5. RefsResolve'
    BY <2>2 DEF RefsResolve, Recording
  <2>6. pc' \in Exporting
    BY <2>2 DEF Exporting, Listing
  <2> QED BY <1>1, <1>2, <2>2, <2>3, <2>4, <2>5, <2>6, OutsideFacts, ReadingStep DEF docVars
<1> QED
  <2>1. k \in 1..8
    BY <1>1, OutsideFacts
  <2> QED BY <1>3, <1>4, <1>5, <2>1, KindsAre DEF NextKind

LEMMA ListRowsKeeps ==
  ASSUME IInv, ListRows
  PROVE  IInv'
<1>1. /\ pc = "rows" /\ pc \in Exporting /\ UNCHANGED <<flag, Outside>>
      /\ k \in {2, 4} /\ k \in 1..7 /\ Kinds[k] \in {"sms", "call_log"}
      /\ Kinds[k] \in Questions
  BY KindsAre, OutsideFacts DEF ListRows, Exporting, Listing, KindsAt, Questions
<1>2. CASE Refuses /\ Skip
  BY <1>1, <1>2, OutsideFacts, FailsCosts, SkipStep DEF Refuses
<1>3. ASSUME NEW answer, Answers(Device[Kinds[k]], answer), text' = answer, Goto("open"),
             UNCHANGED <<k, at, rows, refs, works>>
      PROVE  IInv'
  <2>1. /\ answer \in Seq(Item)
        /\ troubles' \in troubles..MaxTroubles /\ cut \subseteq cut' /\ cut' \subseteq Kind
        /\ answer = Device[Kinds[k]] \/ Kinds[k] \in cut'
    BY <1>1, <1>3, OutsideFacts, DeviceType, AnswersAre
  <2>2. pc' = "open" /\ pc' \in Exporting /\ k' \in KindsAt[pc'] /\ refs = {}
    BY <1>1, <1>3 DEF Goto, Exporting, Recording, KindsAt, IInv, PlacesFit
  <2>3. PlacesFit'
    BY <1>1, <1>3, <2>2, OutsideFacts DEF PlacesFit, Exporting, Recording
  <2>4. TextIsWhole'
    <3>1. k' # 7 /\ (Kinds[k] \notin cut' => text' \in Wholes(Kinds[k]))
      BY <1>1, <1>3, <2>1, WholesAre
    <3> QED BY <1>1, <1>3, <2>2, <3>1 DEF TextIsWhole
  <2>5. RefsResolve'
    BY <1>1, <1>3, <2>2 DEF RefsResolve
  <2> QED BY <1>1, <1>3, <2>1, <2>2, <2>3, <2>4, <2>5, OutsideFacts, ReadingStep
<1> QED BY <1>2, <1>3 DEF ListRows

\* A document other than mms.json that is ready to be written.
LEMMA OpenStep ==
  ASSUME IInv, pc \in Exporting, UNCHANGED <<flag, Outside>>, k \in 1..7, k # 3,
         pc' = "open", k' = k, at' \in Nat \ {0}, rows' \in Seq(Item), text' \in Seq(Item),
         refs' = {}, works' \in BOOLEAN,
         cut \subseteq cut', cut' \subseteq Kind, troubles' \in troubles..MaxTroubles,
         Kinds[k] \notin cut' => text' \in Wholes(Kinds[k]), k = 7 => text' \in StoreLists
  PROVE  IInv'
<1>1. pc' \in Exporting /\ k' \in KindsAt[pc'] /\ k' \in k..8
  BY DEF Exporting, Recording, KindsAt
<1>2. PlacesFit'
  BY <1>1, OutsideFacts DEF PlacesFit, Exporting, Recording
<1>3. TextIsWhole' /\ RefsResolve'
  BY DEF TextIsWhole, RefsResolve
<1> QED BY <1>1, <1>2, <1>3, ReadingStep

\* A listing that is gone through before the document is ready.
LEMMA OnwardStep ==
  ASSUME IInv, pc \in Exporting, UNCHANGED <<flag, Outside>>, k \in 1..7, k # 3,
         pc' \in {"vcards", "data", "events", "namespace", "store"}, k' = k,
         k \in KindsAt[pc'], at' \in Nat \ {0}, rows' \in Seq(Item), text' \in Seq(Item),
         refs' = {}, works' \in BOOLEAN,
         cut \subseteq cut', cut' \subseteq Kind, troubles' \in troubles..MaxTroubles,
         pc' = "namespace" => at' \in 2..4, TextIsWhole'
  PROVE  IInv'
<1>1. pc' \in Exporting /\ k' \in KindsAt[pc'] /\ k' \in k..8
  BY DEF Exporting, Listing
<1>2. PlacesFit'
  <2>1. pc' = "namespace" => at' # 1 /\ at' \in 1..4
    OBVIOUS
  <2> QED BY <1>1, <2>1, OutsideFacts DEF PlacesFit, Exporting, Recording
<1>3. RefsResolve'
  BY DEF RefsResolve, Recording
<1> QED BY <1>1, <1>2, <1>3, ReadingStep

LEMMA ListContactsKeeps ==
  ASSUME IInv, ListContacts
  PROVE  IInv'
<1>1. /\ pc = "contacts" /\ pc \in Exporting /\ UNCHANGED <<flag, Outside>>
      /\ k = 1 /\ k \in 1..7 /\ Kinds[k] = "contacts" /\ "contacts" \in Questions
  BY KindsAre, OutsideFacts DEF ListContacts, Exporting, Listing, KindsAt, Questions
<1>2. CASE Refuses /\ Skip
  BY <1>1, <1>2, OutsideFacts, FailsCosts, SkipStep DEF Refuses
<1>3. ASSUME NEW answer, Answers(Device["contacts"], answer), rows' = answer,
             Goto(IF answer = <<>> THEN "open" ELSE "vcards"),
             UNCHANGED <<k, at, text, refs, works>>
      PROVE  IInv'
  <2>1. /\ answer \in Seq(Item)
        /\ troubles' \in troubles..MaxTroubles /\ cut \subseteq cut' /\ cut' \subseteq Kind
        /\ answer = Device["contacts"] \/ Kinds[k] \in cut'
    BY <1>1, <1>3, OutsideFacts, DeviceType, AnswersAre
  <2>2. at = 1 /\ text = <<>> /\ refs = {}
    BY <1>1 DEF IInv, PlacesFit, Recording
  <2>3. CASE answer = <<>>
    <3>1. Kinds[k] \notin cut' => text' \in Wholes(Kinds[k])
      BY <1>1, <1>3, <2>1, <2>2, <2>3, ThoseOfNone, WholesAre
    <3>2. pc' = "open"
      BY <1>3, <2>3 DEF Goto
    <3> QED BY <1>1, <1>3, <2>1, <2>2, <3>1, <3>2, OutsideFacts, OpenStep
  <2>4. CASE answer # <<>>
    <3>1. pc' = "vcards" /\ k \in KindsAt[pc']
      BY <1>1, <1>3, <2>4 DEF Goto, KindsAt
    <3>2. Those(SubSeq(answer, 1, IF 1 > Len(answer) THEN Len(answer) ELSE 1 - 1), Keyed) = <<>>
      <4>1. (IF 1 > Len(answer) THEN Len(answer) ELSE 1 - 1) = 0
        BY <2>1
      <4>2. SubSeq(answer, 1, 0) = <<>>
        BY SubSeqEmpty
      <4> QED BY <4>1, <4>2, ThoseOfNone
    <3>3. TextIsWhole'
      BY <1>1, <1>3, <2>1, <2>2, <3>1, <3>2 DEF TextIsWhole, Recording
    <3> QED BY <1>1, <1>3, <2>1, <2>2, <3>1, <3>3, OutsideFacts, OnwardStep
  <2> QED BY <2>3, <2>4
<1> QED BY <1>2, <1>3 DEF ListContacts

LEMMA BuildVcardsKeeps ==
  ASSUME IInv, BuildVcards
  PROVE  IInv'
<1>1. /\ pc = "data" /\ pc \in Exporting /\ UNCHANGED <<flag, Outside>>
      /\ k = 1 /\ k \in 1..7 /\ Kinds[k] = "contacts" /\ "contacts" \in Questions /\ refs = {}
  BY KindsAre, OutsideFacts
     DEF BuildVcards, Exporting, Listing, KindsAt, Questions, IInv, PlacesFit, Recording
<1>2. CASE Refuses /\ Skip
  BY <1>1, <1>2, OutsideFacts, FailsCosts, SkipStep DEF Refuses
<1>3. ASSUME NEW answer, Answers(Device["contacts"], answer), text' = Built(text, answer),
             Goto("open"), UNCHANGED <<k, at, rows, refs, works>>
      PROVE  IInv'
  <2>1. /\ answer \in Seq(Item)
        /\ troubles' \in troubles..MaxTroubles /\ cut \subseteq cut' /\ cut' \subseteq Kind
        /\ answer = Device["contacts"] \/ Kinds[k] \in cut'
    BY <1>1, <1>3, OutsideFacts, DeviceType, AnswersAre
  <2>2. text' = Those(answer, Named) /\ text' \in Seq(Item)
    BY <1>3, <2>1, ThoseType DEF Built
  <2>3. Kinds[k] \notin cut' => text' \in Wholes(Kinds[k])
    BY <1>1, <2>1, <2>2, WholesAre
  <2> QED BY <1>1, <1>3, <2>1, <2>2, <2>3, OutsideFacts, OpenStep DEF Goto
<1> QED BY <1>2, <1>3 DEF BuildVcards

LEMMA ListCalendarsKeeps ==
  ASSUME IInv, ListCalendars
  PROVE  IInv'
<1>1. /\ pc = "calendars" /\ pc \in Exporting /\ UNCHANGED <<flag, Outside>>
      /\ k = 5 /\ k \in 1..7 /\ Kinds[k] = "calendar" /\ "calendars" \in Questions /\ refs = {}
  BY KindsAre, OutsideFacts
     DEF ListCalendars, Exporting, Listing, KindsAt, Questions, IInv, PlacesFit, Recording
<1>2. CASE Refuses /\ Skip
  BY <1>1, <1>2, OutsideFacts, FailsCosts, SkipStep DEF Refuses
<1>3. ASSUME NEW answer, Answers(Device["calendars"], answer), Goto("events"),
             UNCHANGED <<k, docVars>>
      PROVE  IInv'
  <2>1. troubles' \in troubles..MaxTroubles /\ cut \subseteq cut' /\ cut' \subseteq Kind
    BY <1>1, <1>3, OutsideFacts, DeviceType, AnswersAre
  <2>2. pc' = "events" /\ k \in KindsAt[pc'] /\ UNCHANGED <<k, at, rows, text, refs, works>>
    BY <1>1, <1>3 DEF Goto, KindsAt, docVars
  <2>3. TextIsWhole'
    BY <1>1, <2>2 DEF TextIsWhole, Recording
  <2> QED BY <1>1, <2>1, <2>2, <2>3, OutsideFacts, OnwardStep
<1> QED BY <1>2, <1>3 DEF ListCalendars

LEMMA ListEventsKeeps ==
  ASSUME IInv, ListEvents
  PROVE  IInv'
<1>1. /\ pc = "events" /\ pc \in Exporting /\ UNCHANGED <<flag, Outside>>
      /\ k = 5 /\ k \in 1..7 /\ Kinds[k] = "calendar" /\ "events" \in Questions /\ refs = {}
  BY KindsAre, OutsideFacts
     DEF ListEvents, Exporting, Listing, KindsAt, Questions, IInv, PlacesFit, Recording
<1>2. CASE Refuses /\ Skip
  BY <1>1, <1>2, OutsideFacts, FailsCosts, SkipStep DEF Refuses
<1>3. ASSUME NEW answer, Answers(Device["events"], answer), text' = Those(answer, Dated),
             Goto("open"), UNCHANGED <<k, at, rows, refs, works>>
      PROVE  IInv'
  <2>1. /\ answer \in Seq(Item) /\ text' \in Seq(Item)
        /\ troubles' \in troubles..MaxTroubles /\ cut \subseteq cut' /\ cut' \subseteq Kind
        /\ answer = Device["events"] \/ Kinds[k] \in cut'
    BY <1>1, <1>3, OutsideFacts, DeviceType, AnswersAre, ThoseType
  <2>2. Kinds[k] \notin cut' => text' \in Wholes(Kinds[k])
    BY <1>1, <1>3, <2>1, WholesAre
  <2> QED BY <1>1, <1>3, <2>1, <2>2, OutsideFacts, OpenStep DEF Goto
<1> QED BY <1>2, <1>3 DEF ListEvents

LEMMA ReadStoreKeeps ==
  ASSUME IInv, ReadStore
  PROVE  IInv'
<1>1. /\ pc = "store" /\ pc \in Exporting /\ UNCHANGED <<flag, Outside, cut>>
      /\ k = 7 /\ k \in 1..7 /\ Kinds[k] = "wifi" /\ refs = {}
  BY KindsAre, OutsideFacts
     DEF ReadStore, Exporting, Listing, KindsAt, IInv, PlacesFit, Recording
<1>2. CASE Skip /\ UNCHANGED troubles
  BY <1>1, <1>2, OutsideFacts, SkipStep
<1>3. CASE /\ at <= Len(Stores) /\ text' = Stores[at] /\ Goto("open")
           /\ UNCHANGED <<k, at, rows, refs, works, troubles>>
  <2>1. at \in 1..Len(Stores)
    BY <1>1, <1>3, OutsideFacts, PersonalAssumption DEF IsList
  <2>2. text' \in Seq(Item) /\ text' \in StoreLists
    BY <1>3, <2>1, StoreType DEF StoreLists
  <2> QED BY <1>1, <1>3, <2>2, OutsideFacts, WholesAre, OpenStep DEF Goto
<1>4. CASE /\ at' = at + 1 /\ UNCHANGED <<pc, k, rows, text, refs, works>>
           /\ IF Stores[at] = <<>> THEN UNCHANGED troubles ELSE Fails
  <2>1. troubles' \in troubles..MaxTroubles
    BY <1>1, <1>4, OutsideFacts, FailsCosts
  <2>2. at' \in Nat \ {0}
    BY <1>1, <1>4, OutsideFacts
  <2>3. TextIsWhole'
    BY <1>1, <1>4 DEF TextIsWhole, Recording
  <2>4. k \in KindsAt[pc']
    BY <1>1, <1>4, OutsideFacts
  <2> QED BY <1>1, <1>4, <2>1, <2>2, <2>3, <2>4, OutsideFacts, OnwardStep
<1> QED
  <2>1. at \in Nat /\ Len(Stores) \in Nat
    BY <1>1, OutsideFacts, PersonalAssumption DEF IsList
  <2> QED BY <1>2, <1>3, <1>4, <2>1 DEF ReadStore

\* The vCards of a batch come after those of the batches before it.
LEMMA BatchFollows ==
  ASSUME rows \in Seq(Item), at \in 1..Len(rows),
         NEW next \in Nat, next = at + PerRead
  PROVE  /\ Batch \in Seq(Item)
         /\ Those(SubSeq(rows, 1, IF at > Len(rows) THEN Len(rows) ELSE at - 1), Keyed) \o Batch
              = Those(SubSeq(rows, 1, IF next > Len(rows) THEN Len(rows) ELSE next - 1), Keyed)
<1> DEFINE to == IF at + PerRead > Len(rows) THEN Len(rows) ELSE at + PerRead - 1
           before == SubSeq(rows, 1, at - 1)
           new == SubSeq(rows, at, to)
<1>1. /\ Len(rows) \in Nat /\ at \in Nat /\ PerRead \in Nat /\ PerRead > 0
      /\ to \in 1..Len(rows) /\ at <= to
      /\ to = IF next > Len(rows) THEN Len(rows) ELSE next - 1
      /\ (IF at > Len(rows) THEN Len(rows) ELSE at - 1) = at - 1
  BY PersonalAssumption
<1>2. Batch = Those(new, Keyed)
  BY DEF Batch
<1> HIDE DEF to
<1>3. before \in Seq(Item) /\ new \in Seq(Item)
  <2>1. /\ \A n \in 1..(at - 1) : rows[n] \in Item
        /\ \A n \in at..to : rows[n] \in Item
    BY <1>1
  <2>2. 1 \in Int /\ at - 1 \in Int /\ at \in Int /\ to \in Int
    BY <1>1
  <2> QED BY <2>1, <2>2, SubSeqProperties
<1>4. before \o new = SubSeq(rows, 1, to)
  <2>1. /\ 1 \in 1..(Len(rows) + 1) /\ at - 1 \in (1 - 1)..Len(rows)
        /\ to \in (at - 1)..Len(rows) /\ (at - 1) + 1 = at
    BY <1>1
  <2> DEFINE m == at - 1
  <2>2. SubSeq(rows, 1, m) \o SubSeq(rows, m + 1, to) = SubSeq(rows, 1, to)
    <3>1. /\ rows \in Seq(Item) /\ 1 \in 1..(Len(rows) + 1)
          /\ m \in (1 - 1)..Len(rows) /\ to \in m..Len(rows)
      BY <2>1
    <3> HIDE DEF m
    <3> QED BY <3>1, ConcatAdjacentSubSeq
  <2> QED BY <2>1, <2>2
<1>5. Those(before, Keyed) \o Those(new, Keyed) = Those(before \o new, Keyed)
  <2> HIDE DEF before, new
  <2>1. Those(Chained(before, new), Keyed) = Chained(Those(before, Keyed), Those(new, Keyed))
    BY <1>3, ThoseChained
  <2> QED BY <2>1 DEF Chained
<1>6. Those(new, Keyed) \in Seq(Item)
  <2> HIDE DEF new
  <2> QED BY <1>3, ThoseType
<1> HIDE DEF new
<1> QED BY <1>1, <1>2, <1>4, <1>5, <1>6

LEMMA ReadVcardsKeeps ==
  ASSUME IInv, ReadVcards
  PROVE  IInv'
<1>1. /\ pc = "vcards" /\ pc \in Exporting /\ UNCHANGED <<k, rows, refs, works, flag, Outside>>
      /\ k = 1 /\ k \in 1..7 /\ Kinds[k] = "contacts" /\ refs = {}
  BY KindsAre, OutsideFacts
     DEF ReadVcards, Exporting, Listing, KindsAt, IInv, PlacesFit, Recording
<1> DEFINE seen(n) == Those(SubSeq(rows, 1, IF n > Len(rows) THEN Len(rows) ELSE n - 1), Keyed)
<1>2. Kinds[k] \notin cut => rows = Device["contacts"] /\ text = seen(at)
  BY <1>1 DEF IInv, TextIsWhole, Listing
<1>3. /\ at \in Nat \ {0} /\ rows \in Seq(Item) /\ Len(rows) \in Nat /\ text \in Seq(Item)
      /\ at + PerRead \in Nat \ {0}
  BY <1>1, OutsideFacts, PersonalAssumption
<1>4. CASE at > Len(rows)
  <2>1. pc' = "open" /\ at' = 1 /\ UNCHANGED <<text, cut, troubles>>
    BY <1>4 DEF ReadVcards, Goto
  <2>2. SubSeq(rows, 1, Len(rows)) = rows
    BY <1>3, SubSeqFull
  <2>3. Kinds[k] \notin cut => text = Those(Device["contacts"], Keyed)
    BY <1>2, <1>4, <2>2
  <2>4. Kinds[k] \notin cut' => text' \in Wholes(Kinds[k])
    BY <1>1, <2>1, <2>3, WholesAre
  <2> QED BY <1>1, <1>3, <2>1, <2>4, OutsideFacts, OpenStep
<1>5. CASE at <= Len(rows)
  <2>1. at \in 1..Len(rows)
    BY <1>3, <1>5
  <2>2. Batch \in Seq(Item) /\ seen(at) \o Batch = seen(at + PerRead)
    BY <1>3, <2>1, BatchFollows
  <2> HIDE DEF seen
  <2>3. ASSUME text' \in Seq(Item), at' = at + PerRead, pc' = "vcards",
               cut \subseteq cut', cut' \subseteq Kind, troubles' \in troubles..MaxTroubles,
               Kinds[k] \notin cut' => text' = text \o Batch
        PROVE  IInv'
    <3>1. Kinds[k] \notin cut' => rows' = Device["contacts"] /\ text' = seen(at')
      BY <1>1, <1>2, <2>2, <2>3
    <3>2. TextIsWhole'
      <4>1. pc' \notin Recording
        BY <2>3 DEF Recording
      <4> QED BY <1>1, <2>3, <3>1, <4>1 DEF TextIsWhole, seen
    <3>3. k \in KindsAt[pc']
      BY <1>1, <2>3 DEF KindsAt
    <3> QED BY <1>1, <1>3, <2>3, <3>2, <3>3, OutsideFacts, OnwardStep
  <2>4. ASSUME text' \in Seq(Item), at' = 1, pc' = "data",
               cut \subseteq cut', cut' \subseteq Kind, troubles' \in troubles..MaxTroubles
        PROVE  IInv'
    <3>1. TextIsWhole'
      BY <2>4 DEF TextIsWhole, Recording
    <3>2. k \in KindsAt[pc']
      BY <1>1, <2>4 DEF KindsAt
    <3> QED BY <1>1, <1>3, <2>4, <3>1, <3>2, OutsideFacts, OnwardStep
  <2>5. CASE Batch = <<>>
    <3>1. pc' = "vcards" /\ at' = at + PerRead /\ UNCHANGED <<text, cut, troubles>>
      BY <1>3, <1>5, <2>5 DEF ReadVcards, Goto
    <3>2. text = text \o Batch
      BY <1>3, <2>5, ConcatEmptySeq
    <3> QED BY <1>1, <1>3, <2>3, <3>1, <3>2, OutsideFacts
  <2>6. CASE Batch # <<>>
    <3>1. CASE Refuses /\ Goto("data") /\ at' = 1 /\ UNCHANGED text
      BY <1>1, <1>3, <2>4, <3>1, OutsideFacts, FailsCosts DEF Goto, Refuses
    <3>2. ASSUME NEW answer, Answers(Batch, answer), text' = text \o answer,
                 IF answer = <<>> THEN Goto("data") /\ at' = 1
                 ELSE Goto("vcards") /\ at' = at + PerRead
          PROVE  IInv'
      <4>1. /\ answer \in Seq(Item)
            /\ troubles' \in troubles..MaxTroubles /\ cut \subseteq cut' /\ cut' \subseteq Kind
            /\ answer = Batch \/ Kinds[k] \in cut'
        BY <1>1, <2>2, <3>2, OutsideFacts, AnswersAre
      <4>2. text' \in Seq(Item)
        BY <1>3, <3>2, <4>1, ConcatProperties
      <4> QED BY <2>3, <2>4, <3>2, <4>1, <4>2 DEF Goto
    <3> QED BY <1>3, <1>5, <2>6, <3>1, <3>2 DEF ReadVcards
  <2> QED BY <2>5, <2>6
<1> QED BY <1>3, <1>4, <1>5

\* The settings read so far, with the next namespace or without it.
LEMMA NamespaceFollows ==
  ASSUME NEW n \in 1..3, NEW read \in NamespacesRead(n)
  PROVE  /\ read \in NamespacesRead(n + 1)
         /\ read \o Device[Namespaces[n]] \in NamespacesRead(n + 1)
<1> DEFINE D(b, x) == IF b THEN Device[x] ELSE <<>>
           All(m, a, b, c) == (D(a /\ m > 1, "system") \o D(b /\ m > 2, "secure"))
                                \o D(c /\ m > 3, "global")
<1>1. ASSUME NEW m \in Nat, NEW a \in BOOLEAN, NEW b \in BOOLEAN, NEW c \in BOOLEAN
      PROVE  All(m, a, b, c) \in NamespacesRead(m)
  <2>1. <<a, b, c>> \in BOOLEAN \X BOOLEAN \X BOOLEAN
    OBVIOUS
  <2> QED BY <2>1 DEF NamespacesRead
<1>2. PICK a \in BOOLEAN, b \in BOOLEAN, c \in BOOLEAN : read = All(n, a, b, c)
  <2>1. PICK s \in BOOLEAN \X BOOLEAN \X BOOLEAN : read = All(n, s[1], s[2], s[3])
    BY DEF NamespacesRead
  <2>2. s[1] \in BOOLEAN /\ s[2] \in BOOLEAN /\ s[3] \in BOOLEAN
    OBVIOUS
  <2> QED BY <2>1, <2>2
<1>3. /\ Device["system"] \in Seq(Item) /\ Device["secure"] \in Seq(Item)
      /\ Device["global"] \in Seq(Item) /\ <<>> \in Seq(Item)
  BY DeviceType DEF Questions
<1>4. Namespaces[1] = "system" /\ Namespaces[2] = "secure" /\ Namespaces[3] = "global"
  BY DEF Namespaces
<1>5. \A s \in Seq(Item) : s \o <<>> = s /\ <<>> \o s = s
  BY ConcatEmptySeq
<1>6. CASE n = 1
  <2>1. read = <<>>
    BY <1>2, <1>3, <1>5, <1>6
  <2>2. All(2, FALSE, FALSE, FALSE) = <<>> /\ All(2, TRUE, FALSE, FALSE) = Device["system"]
    BY <1>3, <1>5
  <2>3. <<>> \in NamespacesRead(2) /\ Device["system"] \in NamespacesRead(2)
    <3> HIDE DEF All
    <3> QED BY <1>1, <2>2
  <2>4. read \o Device[Namespaces[n]] = Device["system"] /\ n + 1 = 2
    BY <1>3, <1>4, <1>5, <1>6, <2>1
  <2> QED BY <2>1, <2>3, <2>4
<1>7. CASE n = 2
  <2> DEFINE p == D(a, "system")
  <2>0. p \in Seq(Item)
    BY <1>3
  <2>1. read = p
    BY <1>2, <1>3, <1>5, <1>7
  <2>2. All(3, a, FALSE, FALSE) = p /\ All(3, a, TRUE, FALSE) = p \o Device["secure"]
    <3>1. D(a /\ 3 > 1, "system") = p
      OBVIOUS
    <3>2. p \o Device["secure"] \in Seq(Item)
      <4> HIDE DEF p
      <4> QED BY <1>3, <2>0
    <3> QED BY <1>3, <1>5, <2>0, <3>1, <3>2
  <2>3. p \in NamespacesRead(3) /\ p \o Device["secure"] \in NamespacesRead(3)
    <3> HIDE DEF All
    <3> QED BY <1>1, <2>2
  <2>4. read \o Device[Namespaces[n]] = p \o Device["secure"] /\ n + 1 = 3
    <3> HIDE DEF p
    <3> QED BY <1>4, <1>7, <2>1
  <2> QED BY <2>1, <2>3, <2>4
<1>8. CASE n = 3
  <2> DEFINE p == D(a, "system") \o D(b, "secure")
  <2>0. p \in Seq(Item)
    <3>1. D(a, "system") \in Seq(Item) /\ D(b, "secure") \in Seq(Item)
      BY <1>3
    <3> QED BY <3>1
  <2>1. read = p
    <3>1. /\ D(a /\ 3 > 1, "system") = D(a, "system") /\ D(b /\ 3 > 2, "secure") = D(b, "secure")
          /\ D(c /\ 3 > 3, "global") = <<>>
      OBVIOUS
    <3> HIDE DEF D
    <3> QED BY <1>2, <1>5, <1>8, <2>0, <3>1
  <2>2. All(4, a, b, FALSE) = p /\ All(4, a, b, TRUE) = p \o Device["global"]
    <3>1. /\ D(a /\ 4 > 1, "system") = D(a, "system") /\ D(b /\ 4 > 2, "secure") = D(b, "secure")
          /\ D(FALSE /\ 4 > 3, "global") = <<>> /\ D(TRUE /\ 4 > 3, "global") = Device["global"]
      OBVIOUS
    <3> HIDE DEF D
    <3> QED BY <1>5, <2>0, <3>1
  <2>3. p \in NamespacesRead(4) /\ p \o Device["global"] \in NamespacesRead(4)
    <3> HIDE DEF All
    <3> QED BY <1>1, <2>2
  <2>4. read \o Device[Namespaces[n]] = p \o Device["global"] /\ n + 1 = 4
    <3> HIDE DEF p
    <3> QED BY <1>4, <1>8, <2>1
  <2> QED BY <2>1, <2>3, <2>4
<1> QED BY <1>6, <1>7, <1>8

LEMMA ListSettingsKeeps ==
  ASSUME IInv, ListSettings
  PROVE  IInv'
<1>1. /\ pc = "namespace" /\ pc \in Exporting /\ UNCHANGED <<flag, Outside>>
      /\ k = 6 /\ k \in 1..7 /\ Kinds[k] = "settings" /\ refs = {}
      /\ at \in 1..4 /\ Len(Namespaces) = 3
  BY KindsAre, OutsideFacts
     DEF ListSettings, Exporting, Listing, KindsAt, IInv, PlacesFit, Recording, Namespaces
<1>2. Kinds[k] \notin cut => text \in NamespacesRead(at)
  BY <1>1 DEF IInv, TextIsWhole, Listing
<1>3. CASE at > Len(Namespaces)
  <2>1. at = 4 /\ UNCHANGED <<cut, troubles>>
    BY <1>1, <1>3 DEF ListSettings
  <2>2. NamespacesRead(4) = Wholes("settings")
    <3>1. \A s \in BOOLEAN \X BOOLEAN \X BOOLEAN :
            s[1] \in BOOLEAN /\ s[2] \in BOOLEAN /\ s[3] \in BOOLEAN
      OBVIOUS
    <3> QED BY <3>1 DEF NamespacesRead, Wholes
  <2>3. CASE Skip
    BY <1>1, <2>1, <2>3, OutsideFacts, SkipStep
  <2>4. CASE Goto("open") /\ UNCHANGED <<k, docVars>>
    <3>1. pc' = "open" /\ UNCHANGED <<k, at, rows, text, refs, works>>
      BY <2>4 DEF Goto, docVars
    <3> QED BY <1>1, <1>2, <2>1, <2>2, <3>1, OutsideFacts, OpenStep
  <2> QED BY <1>3, <2>3, <2>4 DEF ListSettings
<1>4. CASE at <= Len(Namespaces)
  <2>1. /\ at \in 1..3 /\ at' = at + 1 /\ at' \in 2..4 /\ at' \in Nat \ {0}
        /\ UNCHANGED <<pc, k, rows, refs, works>>
    BY <1>1, <1>4 DEF ListSettings
  <2>2. Device[Namespaces[at]] \in Seq(Item)
    <3>1. at \in {1, 2, 3}
      BY <2>1
    <3>2. Namespaces[at] \in Questions
      BY <3>1 DEF Namespaces, Questions
    <3> QED BY <3>2, DeviceType
  <2>3. ASSUME text' \in Seq(Item), cut \subseteq cut', cut' \subseteq Kind,
               troubles' \in troubles..MaxTroubles,
               Kinds[k] \notin cut' => text' \in NamespacesRead(at')
        PROVE  IInv'
    <3>1. TextIsWhole'
      BY <1>1, <2>1, <2>3 DEF TextIsWhole, Recording
    <3>2. k \in KindsAt[pc']
      BY <1>1, <2>1, OutsideFacts
    <3> QED BY <1>1, <2>1, <2>3, <3>1, <3>2, OutsideFacts, OnwardStep
  <2>4. CASE Refuses /\ UNCHANGED text
    <3>1. Kinds[k] \notin cut' => text' \in NamespacesRead(at')
      BY <1>2, <2>1, <2>4, NamespaceFollows DEF Refuses
    <3> QED BY <1>1, <2>3, <2>4, <3>1, OutsideFacts, FailsCosts DEF Refuses
  <2>5. ASSUME NEW answer, Answers(Device[Namespaces[at]], answer), text' = text \o answer
        PROVE  IInv'
    <3>1. /\ answer \in Seq(Item)
          /\ troubles' \in troubles..MaxTroubles /\ cut \subseteq cut' /\ cut' \subseteq Kind
          /\ (answer = Device[Namespaces[at]] /\ cut' = cut) \/ Kinds[k] \in cut'
      BY <1>1, <2>2, <2>5, OutsideFacts, AnswersAre
    <3>2. text' \in Seq(Item)
      BY <1>1, <2>5, <3>1, OutsideFacts, ConcatProperties
    <3>3. Kinds[k] \notin cut' => text' \in NamespacesRead(at')
      BY <1>2, <2>1, <2>5, <3>1, NamespaceFollows
    <3> QED BY <2>3, <3>1, <3>2, <3>3
  <2> QED BY <1>1, <1>4, <2>4, <2>5 DEF ListSettings
<1> QED BY <1>1, <1>3, <1>4

\* The parts of a phone without messages.
LEMMA NoMessagesNoFiles ==
  ASSUME Device["messages"] = <<>>
  PROVE  Files = {}
<1>1. Device["parts"] = <<>>
  BY PersonalAssumption
<1>2. Items(<<>>) = {}
  BY DEF Items
<1>3. Parts = {}
  BY <1>1, <1>2, PersonalAssumption
<1> QED BY <1>3 DEF Files

LEMMA ListMessagesKeeps ==
  ASSUME IInv, ListMessages
  PROVE  IInv'
<1>1. /\ pc = "messages" /\ pc \in Exporting /\ UNCHANGED <<flag, Outside>>
      /\ k = 3 /\ k \in 1..7 /\ Kinds[k] = "mms" /\ "messages" \in Questions
      /\ refs = {} /\ works /\ at = 1 /\ rows = <<>>
  BY KindsAre, OutsideFacts
     DEF ListMessages, Exporting, Listing, KindsAt, Questions, IInv, PlacesFit, Recording
<1>2. CASE Refuses /\ Skip
  BY <1>1, <1>2, OutsideFacts, FailsCosts, SkipStep DEF Refuses
<1>3. ASSUME NEW answer, Answers(Device["messages"], answer), text' = answer,
             Goto(IF answer = <<>> THEN "open" ELSE "parts"), UNCHANGED <<k, at, rows, refs, works>>
      PROVE  IInv'
  <2>1. /\ answer \in Seq(Item)
        /\ troubles' \in troubles..MaxTroubles /\ cut \subseteq cut' /\ cut' \subseteq Kind
        /\ answer = Device["messages"] \/ (Kinds[k] \in cut' /\ troubles' > 0)
    BY <1>1, <1>3, OutsideFacts, DeviceType, AnswersAre
  <2>2. /\ pc' \in {"open", "parts"} /\ pc' \in Exporting /\ k' \in KindsAt[pc']
        /\ pc' = "open" => answer = <<>>
    BY <1>1, <1>3 DEF Goto, Exporting, Recording, Listing, KindsAt
  <2>3. PlacesFit'
    BY <1>1, <1>3, <2>2, OutsideFacts DEF PlacesFit, Exporting, Recording
  <2>4. TextIsWhole'
    BY <1>1, <1>3, <2>1, <2>2, WholesAre DEF TextIsWhole, Recording
  <2>5. RefsResolve'
    <3>1. pc' = "open" /\ troubles' = 0 => Files = {}
      BY <2>1, <2>2, NoMessagesNoFiles
    <3> QED BY <1>1, <1>3, <2>2, <3>1 DEF RefsResolve, Recording
  <2> QED BY <1>1, <1>3, <2>1, <2>2, <2>3, <2>4, <2>5, OutsideFacts, ReadingStep
<1> QED BY <1>2, <1>3 DEF ListMessages

LEMMA ListPartsKeeps ==
  ASSUME IInv, ListParts
  PROVE  IInv'
<1>1. /\ pc = "parts" /\ pc \in Exporting /\ UNCHANGED <<k, at, text, refs, works, flag, Outside>>
      /\ pc' = "part" /\ k = 3 /\ k \in 1..7 /\ Kinds[k] = "mms" /\ "parts" \in Questions
      /\ refs = {} /\ works /\ at = 1
  BY KindsAre, OutsideFacts
     DEF ListParts, Goto, Exporting, Listing, KindsAt, Questions, IInv, PlacesFit, Recording
<1>2. Kinds[k] \notin cut => text = Device["messages"]
  BY <1>1 DEF IInv, TextIsWhole, Listing
<1>3. Device["parts"] \in Seq(Item) /\ Len(Device["parts"]) \in Nat
  BY <1>1, DeviceType
<1>4. /\ rows' \in Seq(Item) /\ Len(rows') <= Len(Device["parts"])
      /\ \A n \in 1..Len(rows') : rows'[n] = Device["parts"][n]
      /\ troubles' \in troubles..MaxTroubles /\ cut \subseteq cut' /\ cut' \subseteq Kind
      /\ ~flag => rows' = Device["parts"] \/ troubles' > 0
  <2>1. CASE Refuses /\ rows' = <<>>
    BY <1>3, <2>1, OutsideFacts, FailsCosts, <1>1 DEF Refuses
  <2>2. ASSUME NEW answer, Answers(Device["parts"], answer), rows' = answer
        PROVE  /\ rows' \in Seq(Item) /\ Len(rows') <= Len(Device["parts"])
               /\ \A n \in 1..Len(rows') : rows'[n] = Device["parts"][n]
               /\ troubles' \in troubles..MaxTroubles /\ cut \subseteq cut' /\ cut' \subseteq Kind
               /\ rows' = Device["parts"] \/ troubles' > 0
    BY <1>1, <1>3, <2>2, OutsideFacts, AnswersAre
  <2> QED BY <2>1, <2>2 DEF ListParts
<1>5. /\ pc' \in Exporting /\ k' \in KindsAt[pc'] /\ Len(rows') \in Nat
  BY <1>1, <1>4 DEF Exporting, Listing, KindsAt
<1>6. PlacesFit'
  BY <1>1, <1>5, OutsideFacts DEF PlacesFit, Exporting, Recording
<1>7. TextIsWhole'
  BY <1>1, <1>2, <1>4 DEF TextIsWhole, Recording
<1>8. RefsResolve'
  <2>1. at' = 1 /\ at' <= Len(rows') + 1 /\ 1..(at' - 1) = {}
    BY <1>1, <1>5
  <2>2. /\ refs' = {} /\ ~flag' /\ troubles' = 0 => works' /\ rows' = Device["parts"]
    BY <1>1, <1>4
  <2> QED BY <1>1, <1>4, <2>1, <2>2 DEF RefsResolve, Recording
<1> QED BY <1>1, <1>4, <1>5, <1>6, <1>7, <1>8, OutsideFacts, ReadingStep

\* The attachment being taken, and those taken before it.
LEMMA PartFacts ==
  ASSUME IInv, pc \in {"part", "attachment"}, at <= Len(rows)
  PROVE  /\ rows[at] \in Parts /\ rows[at] \notin refs /\ at + 1 <= Len(rows) + 1
         /\ at \in 1..Len(rows)
         /\ \A x \in refs \cup {rows[at]} : \E n \in 1..((at + 1) - 1) : rows[n] = x
         /\ {x \in Files : \E n \in 1..((at + 1) - 1) : rows[n] = x}
              = {x \in Files : \E n \in 1..(at - 1) : rows[n] = x} \cup (Files \cap {rows[at]})
<1>1. /\ Len(rows) <= Len(Device["parts"])
      /\ \A n \in 1..Len(rows) : rows[n] = Device["parts"][n]
      /\ \A x \in refs : \E n \in 1..(at - 1) : rows[n] = x
  BY DEF IInv, RefsResolve
<1>2. /\ at \in Nat \ {0} /\ Len(rows) \in Nat /\ Len(Device["parts"]) \in Nat
      /\ at \in 1..Len(rows) /\ at \in 1..Len(Device["parts"]) /\ at + 1 <= Len(rows) + 1
      /\ \A n \in 1..(at - 1) : n \in 1..Len(rows) /\ n \in 1..Len(Device["parts"]) /\ n # at
      /\ 1..((at + 1) - 1) = 1..(at - 1) \cup {at}
  <2>1. at \in Nat \ {0} /\ rows \in Seq(Item) /\ Device["parts"] \in Seq(Item)
    BY DeviceType DEF IInv, Types, Questions
  <2> QED BY <1>1, <2>1
<1>3. rows[at] = Device["parts"][at] /\ rows[at] \in Parts
  <2>1. rows[at] = Device["parts"][at]
    BY <1>1, <1>2
  <2>2. Device["parts"][at] \in Items(Device["parts"])
    BY <1>2 DEF Items
  <2> QED BY <2>1, <2>2, PersonalAssumption
<1>4. \A n \in 1..(at - 1) : rows[n] # rows[at]
  BY <1>1, <1>2, <1>3, PersonalAssumption DEF HasNoTwins
<1> QED BY <1>1, <1>2, <1>3, <1>4

\* A part gone through, with its attachment or without.
LEMMA PartStep ==
  ASSUME IInv, pc \in {"part", "attachment"}, pc' \in {"part", "attachment"},
         UNCHANGED <<k, rows, text, flag, entries, disk, manifest, outcome, countVars,
                     restoreVars, cut>>,
         troubles' \in troubles..MaxTroubles, at' \in Nat \ {0}, works' \in BOOLEAN,
         refs' \subseteq Parts, parts' \in [Parts -> {Absent, Torn, [is |-> "whole"]}],
         RefsResolve'
  PROVE  IInv'
<1>1. /\ pc \in Exporting /\ pc' \in Exporting /\ k = 3 /\ k' = 3 /\ k' \in KindsAt[pc']
      /\ Kinds[3] = "mms"
  BY KindsAre DEF IInv, PlacesFit, Exporting, Listing, KindsAt
<1>2. PlacesFit'
  <2>1. paths' = {} /\ runs' > 0 /\ outcome' = "none"
    BY <1>1 DEF IInv, PlacesFit, countVars, restoreVars
  <2> QED BY <1>1, <2>1 DEF PlacesFit, Exporting, Recording
<1>3. TextIsWhole'
  BY <1>1 DEF TextIsWhole, IInv, Listing, Recording
<1>4. "mms" \notin DOMAIN entries
  <2>1. \A x \in DOMAIN entries : \E n \in 1..(k - 1) : x = Kinds[n]
    BY <1>1 DEF IInv, EntriesAreTrue
  <2>2. \A n \in 1..(k - 1) : Kinds[n] # "mms"
    <3>1. \A n \in 1..(k - 1) : n \in 1..7 /\ n # 3 /\ 3 \in 1..7
      BY <1>1
    <3> QED BY <1>1, <3>1, KindsDiffer
  <2> QED BY <2>1, <2>2
<1>5. /\ rows' \in Seq(Item) /\ text' \in Seq(Item) /\ cut \subseteq cut' /\ cut' \subseteq Kind
      /\ k' \in k..8 /\ ManifestTyped'
  BY <1>1 DEF IInv, Types, ManifestTyped, Describes, IsDocumentOf
<1> QED BY <1>1, <1>2, <1>3, <1>4, <1>5, ExportingStep

LEMMA NextPartKeeps ==
  ASSUME IInv, NextPart
  PROVE  IInv'
<1>1. /\ pc = "part" /\ pc \in Exporting /\ k = 3 /\ k \in 1..7 /\ Kinds[k] = "mms"
      /\ UNCHANGED <<k, rows, text, flag, entries, disk, manifest, outcome, countVars, restoreVars,
                     cut, troubles>>
  BY KindsAre DEF NextPart, Exporting, Listing, IInv, PlacesFit, KindsAt
<1>2. /\ Len(rows) <= Len(Device["parts"])
      /\ \A n \in 1..Len(rows) : rows[n] = Device["parts"][n]
      /\ at <= Len(rows) + 1
      /\ \A x \in refs : \E n \in 1..(at - 1) : rows[n] = x
      /\ ~flag /\ troubles = 0 =>
           /\ works /\ rows = Device["parts"]
           /\ refs = {x \in Files : \E n \in 1..(at - 1) : rows[n] = x}
      /\ \A x \in refs : parts[x] = [is |-> "whole"]
  BY <1>1 DEF IInv, RefsResolve
<1>3. /\ at \in Nat \ {0} /\ works \in BOOLEAN /\ rows \in Seq(Item) /\ refs \subseteq Parts
      /\ text \in Seq(Item)
      /\ parts \in [Parts -> {Absent, Torn, [is |-> "whole"]}] /\ cut \subseteq Kind
      /\ troubles \in troubles..MaxTroubles /\ Len(rows) \in Nat
      /\ flag \in BOOLEAN /\ ManifestTyped'
  BY <1>1, PersonalAssumption DEF IInv, Types, ManifestTyped, Describes, IsDocumentOf
<1>4. CASE at > Len(rows)
  <2>1. pc' = "open" /\ UNCHANGED <<at, refs, works, parts>>
    BY <1>4 DEF NextPart, Goto
  <2>2. pc' \in Exporting /\ k' \in KindsAt[pc'] /\ k' \in k..8
    BY <1>1, <2>1 DEF Exporting, Recording, KindsAt
  <2>3. PlacesFit'
    <3>1. paths' = {} /\ runs' > 0 /\ outcome' = "none"
      BY <1>1 DEF IInv, PlacesFit, countVars, restoreVars
    <3> QED BY <1>1, <2>1, <2>2, <3>1 DEF PlacesFit, Exporting, Recording
  <2>4. TextIsWhole'
    BY <1>1, <2>1, WholesAre DEF TextIsWhole, IInv, Listing, Recording
  <2>5. ~flag /\ troubles = 0 => refs = Files
    <3>1. SUFFICES ASSUME ~flag, troubles = 0, NEW x \in Files
                   PROVE  \E n \in 1..(at - 1) : rows[n] = x
      BY <1>2
    <3>2. x \in Items(rows)
      BY <1>2, <3>1, PersonalAssumption DEF Files
    <3>3. 1..(at - 1) = 1..Len(rows)
      BY <1>2, <1>3, <1>4
    <3> QED BY <3>2, <3>3 DEF Items
  <2>6. RefsResolve'
    BY <1>1, <1>2, <2>1, <2>5 DEF RefsResolve, Recording
  <2> QED BY <1>1, <1>3, <2>1, <2>2, <2>3, <2>4, <2>6, ExportingStep
<1>5. CASE at <= Len(rows)
  <2>1. /\ rows[at] \in Parts /\ rows[at] \notin refs /\ at + 1 <= Len(rows) + 1
        /\ at \in 1..Len(rows) /\ at + 1 \in Nat \ {0}
        /\ \A x \in refs : \E n \in 1..((at + 1) - 1) : rows[n] = x
        /\ {x \in Files : \E n \in 1..((at + 1) - 1) : rows[n] = x}
             = {x \in Files : \E n \in 1..(at - 1) : rows[n] = x} \cup (Files \cap {rows[at]})
    BY <1>1, <1>3, <1>5, PartFacts
  <2>2. CASE PartType[Part] # "file" \/ ~works
    <3>1. at' = at + 1 /\ UNCHANGED <<pc, refs, works, parts>>
      BY <1>3, <1>5, <2>2 DEF NextPart
    <3>2. Files \cap {rows[at]} = {} \/ ~works
      BY <2>2 DEF Files, Part
    <3>3. RefsResolve'
      BY <1>1, <1>2, <2>1, <3>1, <3>2 DEF RefsResolve, Recording
    <3> QED BY <1>1, <1>3, <2>1, <3>1, <3>3, PartStep
  <2>3. CASE PartType[Part] = "file" /\ works /\ flag
    <3>0. NoAttachment
      <4>1. ~(at > Len(rows)) /\ ~(PartType[Part] # "file" \/ ~works)
        BY <1>3, <1>5, <2>3
      <4> QED BY <2>3, <4>1 DEF NextPart
    <3>1. /\ parts' = [parts EXCEPT ![rows[at]] = Absent] /\ at' = at + 1 /\ pc' = "part"
          /\ refs' = refs /\ works' \in BOOLEAN
      BY <1>3, <3>0 DEF NoAttachment, Goto, Part
    <3>2. /\ parts' \in [Parts -> {Absent, Torn, [is |-> "whole"]}]
          /\ \A x \in refs : parts'[x] = [is |-> "whole"]
      BY <1>2, <1>3, <2>1, <3>1
    <3>3. RefsResolve'
      BY <1>1, <1>2, <2>1, <2>3, <3>1, <3>2 DEF RefsResolve, Recording
    <3> QED BY <1>1, <1>3, <2>1, <3>1, <3>2, <3>3, PartStep
  <2>4. CASE PartType[Part] = "file" /\ works /\ ~flag
    <3>1. /\ parts' = [parts EXCEPT ![rows[at]] = Torn] /\ pc' = "attachment"
          /\ UNCHANGED <<at, refs, works>>
      <4>1. ~(at > Len(rows)) /\ ~(PartType[Part] # "file" \/ ~works)
        BY <1>3, <1>5, <2>4
      <4> QED BY <2>4, <4>1 DEF NextPart, Goto, Part
    <3>2. /\ parts' \in [Parts -> {Absent, Torn, [is |-> "whole"]}]
          /\ \A x \in refs : parts'[x] = [is |-> "whole"]
      BY <1>2, <1>3, <2>1, <3>1
    <3>3. RefsResolve'
      <4>1. at' <= Len(rows') /\ PartType'[rows'[at']] = "file" /\ works'
        BY <1>1, <1>5, <2>4, <3>1 DEF Part
      <4> QED BY <1>1, <1>2, <3>1, <3>2, <4>1 DEF RefsResolve, Recording
    <3> QED BY <1>1, <1>3, <3>1, <3>2, <3>3, PartStep
  <2> QED BY <1>3, <2>2, <2>3, <2>4
<1> QED BY <1>3, <1>4, <1>5

LEMMA EndAttachmentKeeps ==
  ASSUME IInv, EndAttachment
  PROVE  IInv'
<1>1. /\ pc = "attachment" /\ k = 3 /\ k \in 1..7
      /\ UNCHANGED <<k, rows, text, flag, entries, disk, manifest, outcome, countVars, restoreVars,
                     cut>>
  BY DEF EndAttachment, IInv, PlacesFit, KindsAt, Exporting, Listing
<1>2. /\ Len(rows) <= Len(Device["parts"])
      /\ \A n \in 1..Len(rows) : rows[n] = Device["parts"][n]
      /\ at <= Len(rows) /\ PartType[rows[at]] = "file" /\ works
      /\ ~flag /\ troubles = 0 =>
           /\ rows = Device["parts"]
           /\ refs = {x \in Files : \E n \in 1..(at - 1) : rows[n] = x}
      /\ \A x \in refs : parts[x] = [is |-> "whole"]
  BY <1>1 DEF IInv, RefsResolve
<1>3. /\ at \in Nat \ {0} /\ rows \in Seq(Item) /\ refs \subseteq Parts
      /\ parts \in [Parts -> {Absent, Torn, [is |-> "whole"]}]
      /\ troubles \in 0..MaxTroubles /\ troubles \in troubles..MaxTroubles
      /\ flag \in BOOLEAN
  BY PersonalAssumption DEF IInv, Types
<1>4. /\ rows[at] \in Parts /\ rows[at] \notin refs /\ at + 1 <= Len(rows) + 1
      /\ at + 1 \in Nat \ {0}
      /\ \A x \in refs \cup {rows[at]} : \E n \in 1..((at + 1) - 1) : rows[n] = x
      /\ {x \in Files : \E n \in 1..((at + 1) - 1) : rows[n] = x}
           = {x \in Files : \E n \in 1..(at - 1) : rows[n] = x} \cup (Files \cap {rows[at]})
  BY <1>1, <1>2, <1>3, PartFacts
<1>5. CASE Attached
  <2>1. /\ parts' = [parts EXCEPT ![rows[at]] = [is |-> "whole"]] /\ at' = at + 1 /\ pc' = "part"
        /\ refs' = refs \cup {rows[at]} /\ UNCHANGED <<works, troubles>>
    BY <1>5 DEF Attached, Goto, Part
  <2>2. /\ parts' \in [Parts -> {Absent, Torn, [is |-> "whole"]}]
        /\ \A x \in refs' : parts'[x] = [is |-> "whole"]
    BY <1>2, <1>3, <1>4, <2>1
  <2>3. Files \cap {rows[at]} = {rows[at]}
    BY <1>2, <1>4 DEF Files
  <2>4. RefsResolve'
    BY <1>1, <1>2, <1>4, <2>1, <2>2, <2>3 DEF RefsResolve, Recording
  <2> QED BY <1>1, <1>2, <1>3, <1>4, <2>1, <2>2, <2>4, PartStep
<1>6. CASE NoAttachment /\ Fails
  <2>1. /\ parts' = [parts EXCEPT ![rows[at]] = Absent] /\ at' = at + 1 /\ pc' = "part"
        /\ refs' = refs /\ works' \in BOOLEAN
    BY <1>2, <1>6 DEF NoAttachment, Goto, Part
  <2>2. /\ parts' \in [Parts -> {Absent, Torn, [is |-> "whole"]}]
        /\ \A x \in refs' : parts'[x] = [is |-> "whole"]
    BY <1>2, <1>3, <1>4, <2>1
  <2>3. troubles' \in troubles..MaxTroubles /\ (~flag => troubles' > 0)
    BY <1>3, <1>6, FailsCosts
  <2>4. RefsResolve'
    BY <1>1, <1>2, <1>4, <2>1, <2>2, <2>3 DEF RefsResolve, Recording
  <2> QED BY <1>1, <1>3, <1>4, <2>1, <2>2, <2>3, <2>4, PartStep
<1> QED BY <1>5, <1>6 DEF EndAttachment

-----------------------------------------------------------------------------
(* Recording an export.                                                    *)

\* What stands before a document is written.
LEMMA RecordingFacts ==
  ASSUME IInv, pc \in Recording
  PROVE  /\ pc \in Exporting /\ k \in 1..7 /\ Kinds[k] \in Kind /\ (Kinds[k] = "wifi" => k = 7)
         /\ (Kinds[k] = "mms" => k = 3)
         /\ runs > 0 /\ paths = {} /\ outcome = "none"
         /\ troubles \in 0..MaxTroubles /\ troubles \in troubles..MaxTroubles
         /\ text \in Seq(Item) /\ refs \subseteq Parts /\ runs \in 0..MaxRuns
         /\ \A x \in DOMAIN entries :
              /\ x # Kinds[k] /\ x \in Kind /\ Describes(entries[x], x) /\ Recorded(x, entries[x])
              /\ \E n \in 1..(k - 1) : x = Kinds[n]
         /\ DOMAIN disk = Kind
         /\ \A x \in Kind : disk[x] \in Broken \/ IsDocumentOf(x, disk[x])
<1>1. pc \in Exporting /\ pc # "idle"
  BY DEF Recording, Exporting
<1>2. k \in 1..7
  BY <1>1 DEF IInv, PlacesFit, KindsAt, Recording
<1>3. ASSUME NEW n \in 1..7, Kinds[n] = Kinds[k] PROVE n = k
  BY <1>2, <1>3, KindsDiffer
<1>4. Kinds[k] \in Kind /\ (Kinds[k] = "wifi" => k = 7) /\ (Kinds[k] = "mms" => k = 3)
  <2>1. 7 \in 1..7 /\ 3 \in 1..7
    OBVIOUS
  <2> QED BY <1>2, <1>3, <2>1, KindsAre DEF Kind
<1>5. ASSUME NEW x \in DOMAIN entries
      PROVE  /\ x # Kinds[k] /\ x \in Kind /\ Describes(entries[x], x) /\ Recorded(x, entries[x])
             /\ \E n \in 1..(k - 1) : x = Kinds[n]
  <2>1. Recorded(x, entries[x]) /\ \E n \in 1..(k - 1) : x = Kinds[n]
    BY <1>1 DEF IInv, EntriesAreTrue
  <2>2. \A n \in 1..(k - 1) : n \in 1..7 /\ n # k
    BY <1>2
  <2>3. x # Kinds[k]
    BY <1>3, <2>1, <2>2
  <2> QED BY <2>1, <2>3 DEF IInv, Types
<1> QED BY <1>1, <1>2, <1>4, <1>5, PersonalAssumption DEF IInv, Types, PlacesFit

LEMMA OpenDocumentKeeps ==
  ASSUME IInv, OpenDocument
  PROVE  IInv'
<1>1. /\ pc = "open" /\ pc \in Recording
      /\ UNCHANGED <<flag, entries, parts, manifest, outcome, countVars, restoreVars, cut>>
  BY DEF OpenDocument, Recording
<1>2. CASE Trouble /\ Skip /\ UNCHANGED disk
  <2>1. UNCHANGED <<flag, Outside>> /\ cut' = cut
    BY <1>1, <1>2 DEF Outside, dirVars
  <2> QED BY <1>1, <1>2, <2>1, RecordingFacts, TroubleCosts, SkipStep
<1>3. CASE /\ disk' = [disk EXCEPT ![Kinds[k]] = Torn]
           /\ Goto("fill") /\ UNCHANGED <<k, docVars, troubles>>
  <2>1. /\ pc' = "fill" /\ pc' \in Recording /\ pc' \in Exporting /\ k' = k /\ k' \in KindsAt[pc']
        /\ UNCHANGED <<at, rows, text, refs, works>>
    BY <1>1, <1>3, RecordingFacts DEF Goto, Recording, Exporting, KindsAt, docVars
  <2>2. /\ DOMAIN disk' = Kind /\ disk'[Kinds[k]] = Torn
        /\ \A x \in Kind \ {Kinds[k]} : disk'[x] = disk[x]
    BY <1>1, <1>3, RecordingFacts
  <2>3. Types'
    <3>1. \A x \in Kind : disk'[x] \in Broken \/ IsDocumentOf(x, disk'[x])
      BY <1>1, <2>2, RecordingFacts DEF Broken
    <3>2. \A x \in DOMAIN entries' : Describes(entries'[x], x)
      BY <1>1 DEF IInv, Types
    <3>3. ManifestTyped'
      BY <1>1 DEF IInv, Types, ManifestTyped, Describes, IsDocumentOf
    <3> QED BY <1>1, <1>3, <2>1, <2>2, <3>1, <3>2, <3>3
            DEF IInv, Types, countVars, restoreVars, Describes, IsDocumentOf
  <2>4. PlacesFit'
    <3>1. paths' = {} /\ runs' > 0 /\ outcome' = "none"
      BY <1>1, RecordingFacts DEF countVars, restoreVars
    <3>2. k # 3 => refs' = {}
      BY <1>1, <2>1, RecordingFacts DEF IInv, PlacesFit
    <3> QED BY <2>1, <3>1, <3>2 DEF PlacesFit
  <2>5. TextIsWhole' /\ RefsResolve'
    BY <1>1, <1>3, <2>1 DEF IInv, TextIsWhole, RefsResolve, Listing
  <2>6. EntriesAreTrue'
    <3>1. ASSUME NEW x \in DOMAIN entries'
          PROVE  Recorded(x, entries[x])' /\ \E n \in 1..(k' - 1) : x = Kinds[n]
      BY <1>1, <2>1, <2>2, <3>1, RecordingFacts DEF Recorded
    <3>2. "mms" \in DOMAIN entries' =>
            /\ MmsRecorded(entries["mms"])'
            /\ ~flag' /\ troubles' = 0 /\ entries'["mms"].content.is # "short"
                 => entries'["mms"].content.refs = Files
      BY <1>1, <1>3, RecordingFacts DEF IInv, EntriesAreTrue, MmsRecorded
    <3> QED BY <3>1, <3>2 DEF EntriesAreTrue
  <2>7. paths' = {} /\ outcome' = "none"
    BY <1>1, RecordingFacts DEF restoreVars
  <2>8. /\ RestoreAddsUp' /\ ListedIsWhole' /\ AttachmentsResolve' /\ ImportIsTheRecorded'
        /\ WifiAddsUp'
    BY <2>1, <2>7 DEF RestoreAddsUp, ListedIsWhole, AttachmentsResolve, Finished,
                      ImportIsTheRecorded, WifiAddsUp
  <2> QED BY <2>3, <2>4, <2>5, <2>6, <2>8 DEF IInv
<1> QED BY <1>2, <1>3 DEF OpenDocument

LEMMA FillDocumentKeeps ==
  ASSUME IInv, FillDocument
  PROVE  IInv'
<1>1. /\ pc = "fill" /\ pc \in Recording /\ Skip
      /\ UNCHANGED <<flag, parts, manifest, outcome, countVars, restoreVars, cut>>
  BY DEF FillDocument, Recording
<1>2. CASE Trouble /\ UNCHANGED <<disk, entries>>
  <2>1. UNCHANGED <<flag, Outside>> /\ cut' = cut
    BY <1>1, <1>2 DEF Outside, dirVars
  <2> QED BY <1>1, <1>2, <2>1, RecordingFacts, TroubleCosts, SkipStep
<1>3. ASSUME NEW written \in {Document, CutShort}, NEW summed \in BOOLEAN,
             disk' = [disk EXCEPT ![Kinds[k]] = written],
             entries' = [x \in DOMAIN entries \cup {Kinds[k]} |->
                           IF x = Kinds[k] THEN Entry(written, summed) ELSE entries[x]],
             IF written = Document /\ summed THEN UNCHANGED troubles ELSE Trouble
      PROVE  IInv'
  <2>1. /\ pc' = "kind" /\ pc' \in Exporting /\ k' = k + 1 /\ k' \in 1..8 /\ k' \in KindsAt[pc']
        /\ at' = 1 /\ rows' = <<>> /\ text' = <<>> /\ refs' = {} /\ works' = TRUE
    BY <1>1, RecordingFacts DEF Skip, Goto, Fresh, Exporting, KindsAt
  <2>2. troubles' \in troubles..MaxTroubles /\ troubles' \in 0..MaxTroubles
        /\ (troubles' = 0 => troubles = 0)
    <3>1. troubles' \in troubles..MaxTroubles
      BY <1>1, <1>3, RecordingFacts, TroubleCosts
    <3> QED BY <1>1, <3>1, RecordingFacts, PersonalAssumption
  <2>3. /\ DOMAIN disk' = Kind /\ disk'[Kinds[k]] = written
        /\ \A x \in Kind \ {Kinds[k]} : disk'[x] = disk[x]
    BY <1>1, <1>3, RecordingFacts
  <2>4. /\ DOMAIN entries' = DOMAIN entries \cup {Kinds[k]}
        /\ entries'[Kinds[k]] = Entry(written, summed)
        /\ \A x \in DOMAIN entries : entries'[x] = entries[x]
    BY <1>1, <1>3, RecordingFacts
  <2>5. /\ Kinds[k] \notin cut => text \in Wholes(Kinds[k])
        /\ k = 7 => text \in StoreLists
        /\ \A x \in refs : parts[x] = [is |-> "whole"]
        /\ k = 3 /\ ~flag /\ troubles = 0 => refs = Files
    BY <1>1 DEF IInv, TextIsWhole, RefsResolve
  <2>6. /\ Document \in Docs /\ Document.items = text /\ Document.refs = refs
        /\ CutShort \in Shorts
    <3>1. (IF Kinds[k] \in Stamped THEN runs ELSE 0) \in 0..MaxRuns
      BY <1>1, RecordingFacts, PersonalAssumption
    <3>2. Document \in Docs /\ Document.items = text /\ Document.refs = refs
      BY <1>1, <3>1, RecordingFacts DEF Document, Docs
    <3> QED BY <3>2 DEF CutShort, Shorts
  <2>7. /\ written \in Broken \/ IsDocumentOf(Kinds[k], written)
        /\ written.is # "short" => /\ IsDocumentOf(Kinds[k], written)
                                   /\ written.items = text /\ written.refs = refs
    <3>1. CutShort.is = "short" /\ CutShort \in Broken
      BY <2>6 DEF CutShort, Broken
    <3>2. IsDocumentOf(Kinds[k], Document)
      BY <1>1, <2>5, <2>6, RecordingFacts DEF IsDocumentOf
    <3> QED BY <2>6, <3>1, <3>2
  <2>8. /\ Describes(Entry(written, summed), Kinds[k]) /\ Entry(written, summed).content = written
    <3>1. written \in Docs \cup Shorts /\ text \in Seq(Item)
      BY <1>1, <2>6, RecordingFacts
    <3> QED BY <2>7, <3>1 DEF Entry, Describes
  <2>9. Types'
    <3>1. \A x \in Kind : disk'[x] \in Broken \/ IsDocumentOf(x, disk'[x])
      BY <1>1, <2>3, <2>7, RecordingFacts
    <3>2. DOMAIN entries' \subseteq Kind /\ \A x \in DOMAIN entries' : Describes(entries'[x], x)
      BY <1>1, <2>4, <2>8, RecordingFacts
    <3>3. ManifestTyped'
      BY <1>1 DEF IInv, Types, ManifestTyped, Describes, IsDocumentOf
    <3>4. rows' \in Seq(Item) /\ text' \in Seq(Item)
      BY <2>1
    <3> QED BY <1>1, <2>1, <2>2, <2>3, <3>1, <3>2, <3>3, <3>4
            DEF IInv, Types, countVars, restoreVars, Describes, IsDocumentOf
  <2>10. paths' = {} /\ runs' > 0 /\ outcome' = "none"
    BY <1>1, RecordingFacts DEF countVars, restoreVars
  <2>11. PlacesFit'
    BY <2>1, <2>10 DEF PlacesFit
  <2>12. TextIsWhole' /\ RefsResolve'
    BY <2>1 DEF TextIsWhole, RefsResolve, Listing, Recording
  <2>13. EntriesAreTrue'
    <3>1. ASSUME NEW x \in DOMAIN entries
          PROVE  Recorded(x, entries[x])' /\ \E n \in 1..(k' - 1) : x = Kinds[n]
      <4>1. /\ x # Kinds[k] /\ x \in Kind /\ Recorded(x, entries[x])
        BY <1>1, RecordingFacts
      <4>2. PICK n \in Int : n \in 1..(k - 1) /\ x = Kinds[n]
        BY <1>1, RecordingFacts
      <4>3. n \in 1..(k' - 1)
        BY <1>1, <2>1, <4>2, RecordingFacts
      <4>4. Recorded(x, entries[x])'
        BY <1>1, <2>3, <2>4, <4>1 DEF Recorded
      <4> QED BY <4>2, <4>3, <4>4
    <3>2. /\ disk'[Kinds[k]] = written
          /\ Kinds[k] \notin cut' /\ written.is # "short" => written.items \in Wholes(Kinds[k])
          /\ \E n \in 1..(k' - 1) : Kinds[k] = Kinds[n]
      <4>1. k \in 1..(k' - 1)
        BY <1>1, <2>1, RecordingFacts
      <4> QED BY <1>1, <2>3, <2>5, <2>7, <4>1
    <3>3. "mms" \in DOMAIN entries' /\ entries'["mms"].content.is # "short" =>
            /\ \A x \in entries'["mms"].content.refs : parts'[x] = [is |-> "whole"]
            /\ ~flag' /\ troubles' = 0 => entries'["mms"].content.refs = Files
      <4>1. CASE "mms" = Kinds[k]
        <5>1. k = 3
          BY <1>1, <4>1, RecordingFacts
        <5>2. entries'["mms"].content.is # "short" => entries'["mms"].content.refs = refs
          BY <2>4, <2>7, <2>8, <4>1
        <5> QED BY <1>1, <2>2, <2>5, <5>1, <5>2
      <4>2. CASE "mms" # Kinds[k] /\ "mms" \in DOMAIN entries
        <5>1. entries'["mms"] = entries["mms"]
          BY <2>4, <4>2
        <5> QED BY <1>1, <2>2, <4>2, <5>1, RecordingFacts DEF IInv, EntriesAreTrue, MmsRecorded
      <4> QED BY <2>4, <4>1, <4>2
    <3>4. ASSUME NEW x \in DOMAIN entries'
          PROVE  Recorded(x, entries[x])' /\ \E n \in 1..(k' - 1) : x = Kinds[n]
      <4>1. CASE x \in DOMAIN entries
        BY <3>1, <4>1
      <4>2. CASE x = Kinds[k]
        <5>1. entries'[x].content = written
          BY <2>4, <2>8, <4>2
        <5> QED BY <3>2, <4>2, <5>1 DEF Recorded
      <4> QED BY <2>4, <4>1, <4>2
    <3> QED BY <3>3, <3>4 DEF EntriesAreTrue, MmsRecorded
  <2>14. /\ RestoreAddsUp' /\ ListedIsWhole' /\ AttachmentsResolve' /\ ImportIsTheRecorded'
         /\ WifiAddsUp'
    BY <2>1, <2>10 DEF RestoreAddsUp, ListedIsWhole, AttachmentsResolve, Finished,
                       ImportIsTheRecorded, WifiAddsUp
  <2> QED BY <2>9, <2>11, <2>12, <2>13, <2>14 DEF IInv
<1> QED BY <1>1, <1>2, <1>3 DEF FillDocument

-----------------------------------------------------------------------------
(* The manifest, and the ends of a run.                                    *)

\* A process that is over leaves nothing but what is on disk and on the phone.
LEMMA ForgetStep ==
  ASSUME IInv, Forget, UNCHANGED <<disk, parts, countVars, restoreVars, cut>>,
         ManifestTyped', troubles' \in troubles..MaxTroubles,
         outcome' \in {"none", "success", "cancelled", "failed", "killed", "rotted", "restored"},
         ListedIsWhole', AttachmentsResolve', ImportIsTheRecorded', WifiAddsUp'
  PROVE  IInv'
<1>1. /\ pc' = "idle" /\ flag' = FALSE /\ k' = 1 /\ entries' = NoEntries
      /\ at' = 1 /\ rows' = <<>> /\ text' = <<>> /\ refs' = {} /\ works' = TRUE
  BY DEF Forget, Goto, Fresh
<1>2. Types'
  <2>1. troubles' \in 0..MaxTroubles
    <3>1. troubles \in 0..MaxTroubles
      BY DEF IInv, Types
    <3> QED BY <3>1, PersonalAssumption
  <2>2. DOMAIN entries' = {} /\ rows' \in Seq(Item) /\ text' \in Seq(Item)
    BY <1>1 DEF NoEntries
  <2>3. \A x \in Kind : disk'[x] \in Broken \/ IsDocumentOf(x, disk'[x])
    BY DEF IInv, Types
  <2>4. DOMAIN entries' \subseteq Kind /\ \A x \in DOMAIN entries' : Describes(entries[x], x)'
    BY <2>2
  <2>5. /\ pc' \in Exporting \cup Restoring \cup {"idle"}
        /\ k' \in 1..8 /\ at' \in Nat \ {0} /\ refs' \subseteq Parts
    BY <1>1
  <2>6. flag' \in BOOLEAN /\ works' \in BOOLEAN
    BY <1>1
  <2> QED BY <2>1, <2>2, <2>3, <2>4, <2>5, <2>6
          DEF IInv, Types, countVars, restoreVars, IsDocumentOf
<1>3. PlacesFit'
  BY <1>1 DEF PlacesFit, Exporting, Listing, Recording
<1>4. TextIsWhole' /\ RefsResolve' /\ EntriesAreTrue' /\ RestoreAddsUp'
  BY <1>1 DEF TextIsWhole, RefsResolve, EntriesAreTrue, RestoreAddsUp, Exporting, Listing,
              Recording
<1> QED BY <1>2, <1>3, <1>4 DEF IInv

LEMMA StartManifestKeeps ==
  ASSUME IInv, StartManifest
  PROVE  IInv'
<1>1. /\ pc = "write" /\ pc \in Exporting /\ UNCHANGED <<disk, parts, countVars, restoreVars, cut>>
  BY DEF StartManifest, Exporting
<1>2. paths = {} /\ runs > 0 /\ outcome = "none" /\ ManifestTyped /\ k \in 1..8
  BY <1>1 DEF IInv, Types, PlacesFit
<1>3. CASE Trouble /\ Forget /\ outcome' = "failed" /\ UNCHANGED manifest
  <2>1. pc' = "idle" /\ paths' = {}
    BY <1>1, <1>2, <1>3 DEF Forget, Goto, restoreVars
  <2>2. ListedIsWhole' /\ AttachmentsResolve' /\ ImportIsTheRecorded' /\ WifiAddsUp'
    BY <1>3, <2>1 DEF ListedIsWhole, AttachmentsResolve, Finished, ImportIsTheRecorded, WifiAddsUp
  <2>3. troubles' \in troubles..MaxTroubles
    <3>1. troubles \in 0..MaxTroubles
      BY DEF IInv, Types
    <3> QED BY <1>3, <3>1, TroubleCosts
  <2>4. ManifestTyped'
    BY <1>2, <1>3 DEF ManifestTyped, Describes, IsDocumentOf
  <2> QED BY <1>1, <1>3, <2>2, <2>3, <2>4, ForgetStep
<1>4. CASE /\ manifest' = NoManifest
           /\ Goto("writing") /\ UNCHANGED <<flag, k, docVars, entries, outcome, troubles>>
  <2>1. /\ pc' = "writing" /\ pc' \in Exporting /\ k' \in KindsAt[pc'] /\ k' \in k..8
        /\ UNCHANGED <<at, rows, text, refs, works>>
    BY <1>2, <1>4 DEF Goto, Exporting, KindsAt, docVars
  <2>2. ManifestTyped' /\ DOMAIN manifest'.entries = {}
    <3>1. DOMAIN manifest'.entries = {} /\ manifest'.run = 0
      BY <1>4 DEF NoManifest, NoEntries
    <3> QED BY <3>1, PersonalAssumption DEF ManifestTyped
  <2>3. PlacesFit'
    <3>1. refs = {}
      BY <1>1 DEF IInv, PlacesFit, Recording
    <3> QED BY <1>1, <1>2, <1>4, <2>1, <2>2, <3>1
            DEF PlacesFit, countVars, restoreVars, Exporting, Recording
  <2>4. TextIsWhole' /\ RefsResolve'
    BY <2>1 DEF TextIsWhole, RefsResolve, Listing, Recording
  <2>5. /\ rows' \in Seq(Item) /\ text' \in Seq(Item) /\ refs' \subseteq Parts
        /\ at' \in Nat \ {0} /\ works' \in BOOLEAN /\ cut \subseteq cut' /\ cut' \subseteq Kind
        /\ parts' \in [Parts -> {Absent, Torn, [is |-> "whole"]}]
        /\ troubles' \in troubles..MaxTroubles
    BY <1>1, <1>4, <2>1, PersonalAssumption DEF IInv, Types
  <2> QED BY <1>1, <1>4, <2>1, <2>2, <2>3, <2>4, <2>5, ExportingStep
<1> QED BY <1>3, <1>4 DEF StartManifest

LEMMA EndManifestKeeps ==
  ASSUME IInv, EndManifest
  PROVE  IInv'
<1>1. /\ pc = "writing" /\ pc \in Exporting /\ Forget
      /\ UNCHANGED <<disk, parts, countVars, restoreVars, cut>>
  BY DEF EndManifest, Exporting
<1>2. /\ paths = {} /\ ManifestTyped /\ troubles \in 0..MaxTroubles /\ runs \in 0..MaxRuns
      /\ DOMAIN entries \subseteq Kind /\ \A x \in DOMAIN entries : Describes(entries[x], x)
  BY <1>1 DEF IInv, Types, PlacesFit
<1>3. pc' = "idle" /\ paths' = {}
  BY <1>1, <1>2 DEF Forget, Goto, restoreVars
<1>4. CASE Trouble /\ outcome' = "failed" /\ UNCHANGED manifest
  <2>1. ListedIsWhole' /\ AttachmentsResolve' /\ ImportIsTheRecorded' /\ WifiAddsUp'
    BY <1>3, <1>4 DEF ListedIsWhole, AttachmentsResolve, Finished, ImportIsTheRecorded, WifiAddsUp
  <2>2. ManifestTyped'
    BY <1>2, <1>4 DEF ManifestTyped, Describes, IsDocumentOf
  <2> QED BY <1>1, <1>2, <1>4, <2>1, <2>2, TroubleCosts, ForgetStep
<1>5. CASE /\ UNCHANGED manifest /\ Trouble
           /\ outcome' = IF flag THEN "cancelled" ELSE "success"
  <2>1. DOMAIN manifest.entries = {}
    BY <1>1 DEF IInv, PlacesFit
  <2>2. ListedIsWhole' /\ AttachmentsResolve' /\ ImportIsTheRecorded' /\ WifiAddsUp'
    BY <1>3, <1>5, <2>1
       DEF ListedIsWhole, AttachmentsResolve, Listed, ImportIsTheRecorded, WifiAddsUp
  <2>3. ManifestTyped'
    BY <1>2, <1>5 DEF ManifestTyped, Describes, IsDocumentOf
  <2>4. outcome' \in {"cancelled", "success"}
    BY <1>5
  <2> QED BY <1>1, <1>2, <1>5, <2>2, <2>3, <2>4, TroubleCosts, ForgetStep
<1>6. CASE /\ manifest' = [run |-> runs, entries |-> entries]
           /\ outcome' = IF flag THEN "cancelled" ELSE "success"
           /\ UNCHANGED troubles
  <2>1. ManifestTyped'
    BY <1>2, <1>6 DEF ManifestTyped, Describes, IsDocumentOf
  <2>2. ASSUME NEW x \in DOMAIN entries
        PROVE  /\ disk'[x] = entries[x].content
               /\ disk'[x].is # "short" =>
                    /\ entries[x].count = Len(disk'[x].items)
                    /\ x \notin cut' => disk'[x].items \in Wholes(x)
    <3>1. Recorded(x, entries[x]) /\ Describes(entries[x], x)
      BY <1>1, <1>2 DEF IInv, EntriesAreTrue
    <3> QED BY <1>1, <3>1 DEF Recorded, Describes
  <2>3. ListedIsWhole'
    BY <1>6, <2>2 DEF ListedIsWhole, Export
  <2>4. AttachmentsResolve'
    <3>1. SUFFICES ASSUME "mms" \in DOMAIN entries,
                          disk'["mms"].is # "short"
                   PROVE  /\ \A x \in disk'["mms"].refs : parts'[x] = [is |-> "whole"]
                          /\ outcome' = "success" /\ troubles' = 0
                               => disk'["mms"].refs = {x \in Parts : PartType[x] = "file"}
      BY <1>6 DEF AttachmentsResolve, Listed
    <3>2. disk'["mms"] = entries["mms"].content
      BY <2>2, <3>1
    <3>3. /\ MmsRecorded(entries["mms"])
          /\ ~flag /\ troubles = 0 /\ entries["mms"].content.is # "short"
               => entries["mms"].content.refs = Files
      BY <1>1, <3>1 DEF IInv, EntriesAreTrue
    <3>4. outcome' = "success" => ~flag
      BY <1>6
    <3> QED BY <1>1, <1>6, <3>1, <3>2, <3>3, <3>4 DEF MmsRecorded, Files
  <2>5. outcome' \in {"cancelled", "success"}
    BY <1>6
  <2>6. ImportIsTheRecorded' /\ WifiAddsUp'
    BY <1>3, <2>5 DEF ImportIsTheRecorded, WifiAddsUp
  <2>7. troubles' \in troubles..MaxTroubles
    BY <1>2, <1>6, PersonalAssumption
  <2> QED BY <1>1, <2>1, <2>3, <2>4, <2>5, <2>6, <2>7, ForgetStep
<1> QED BY <1>1, <1>4, <1>5, <1>6 DEF EndManifest

LEMMA BeginKeeps ==
  ASSUME IInv, Begin
  PROVE  IInv'
<1>1. /\ pc = "idle" /\ pc' = "kind" /\ pc' \in Exporting /\ flag' = FALSE /\ outcome' = "none"
      /\ entries' = NoEntries /\ cut' = {} /\ at' = 1 /\ rows' = <<>> /\ text' = <<>>
      /\ refs' = {} /\ works' = TRUE /\ paths' = {} /\ wifiRestored' = -1 /\ wifiSkipped' = 0
      /\ joined' = {} /\ unheard' = {} /\ UNCHANGED <<disk, parts, manifest, restores, imported>>
  BY DEF Begin, Goto, Fresh, Exporting, dirVars
<1>2. k' \in {1, 8} /\ k' \in KindsAt[pc'] /\ troubles' \in 0..MaxTroubles
  <2>1. troubles \in 0..MaxTroubles /\ Len(Kinds) = 7
    BY KindsAre DEF IInv, Types
  <2>2. k' \in {1, 8} /\ troubles' \in 0..MaxTroubles
    BY <2>1, PersonalAssumption, TroubleCosts DEF Begin
  <2> QED BY <1>1, <2>2 DEF KindsAt
<1>3. runs' \in 0..MaxRuns /\ runs' > 0
  <2>1. runs \in 0..MaxRuns /\ runs < MaxRuns /\ runs' = runs + 1
    BY DEF IInv, Types, Begin
  <2> QED BY <2>1, PersonalAssumption
<1>4. Types'
  <2>1. DOMAIN entries' = {} /\ rows' \in Seq(Item) /\ text' \in Seq(Item)
    BY <1>1 DEF NoEntries
  <2>2. \A x \in Kind : disk'[x] \in Broken \/ IsDocumentOf(x, disk'[x])
    BY <1>1 DEF IInv, Types
  <2>3. ManifestTyped'
    BY <1>1 DEF IInv, Types, ManifestTyped, Describes, IsDocumentOf
  <2>4. DOMAIN entries' \subseteq Kind /\ \A x \in DOMAIN entries' : Describes(entries[x], x)'
    BY <2>1
  <2>5. /\ pc' \in Exporting \cup Restoring \cup {"idle"}
        /\ k' \in 1..8 /\ at' \in Nat \ {0}
        /\ refs' \subseteq Parts /\ cut' \subseteq Kind /\ paths' \subseteq DOMAIN imported'
        /\ wifiRestored' \in Nat \cup {-1} /\ wifiSkipped' \in Nat /\ joined' \subseteq Expressible
        /\ unheard' \subseteq joined'
    BY <1>1, <1>2
  <2>6. flag' \in BOOLEAN /\ works' \in BOOLEAN
    BY <1>1
  <2> QED BY <1>1, <1>2, <1>3, <2>1, <2>2, <2>3, <2>4, <2>5, <2>6
          DEF IInv, Types, IsDocumentOf
<1>5. PlacesFit'
  BY <1>1, <1>2, <1>3 DEF PlacesFit
<1>6. TextIsWhole' /\ RefsResolve' /\ RestoreAddsUp'
  BY <1>1 DEF TextIsWhole, RefsResolve, RestoreAddsUp, Listing, Recording
<1>7. EntriesAreTrue'
  BY <1>1 DEF EntriesAreTrue, NoEntries
<1>8. ListedIsWhole' /\ AttachmentsResolve' /\ ImportIsTheRecorded' /\ WifiAddsUp'
  BY <1>1 DEF ListedIsWhole, AttachmentsResolve, Finished, ImportIsTheRecorded, WifiAddsUp
<1> QED BY <1>4, <1>5, <1>6, <1>7, <1>8 DEF IInv

-----------------------------------------------------------------------------
(* A restore.                                                              *)

LEMMA ImportsAre ==
  /\ Len(Imports) = 2 /\ Imports[1] = "contacts" /\ Imports[2] = "calendar"
  /\ \A m, n \in 1..2 : m # n => Imports[m] # Imports[n]
  /\ \A n \in 1..2 : Imports[n] \in {"contacts", "calendar"}
<1>1. Len(Imports) = 2 /\ Imports[1] = "contacts" /\ Imports[2] = "calendar"
  BY DEF Imports
<1>2. 1..2 = {1, 2}
  OBVIOUS
<1> QED BY <1>1, <1>2

\* What a step of a restore leaves alone, or a place outside the exports makes
\* empty.
LEMMA AwayStep ==
  ASSUME IInv, pc' \in Restoring \cup {"idle"}, Types', PlacesFit', RestoreAddsUp',
         ListedIsWhole', AttachmentsResolve', ImportIsTheRecorded', WifiAddsUp'
  PROVE  IInv'
<1>1. TextIsWhole' /\ RefsResolve' /\ EntriesAreTrue'
  BY DEF TextIsWhole, RefsResolve, EntriesAreTrue, Exporting, Listing, Recording, Restoring
<1> QED BY <1>1 DEF IInv

LEMMA BeginRestoreKeeps ==
  ASSUME IInv, BeginRestore
  PROVE  IInv'
<1>1. /\ pc = "idle" /\ pc' = "push" /\ flag' = FALSE /\ outcome' = "none"
      /\ restores < MaxRestores /\ restores' = restores + 1
      /\ paths' = {} /\ wifiRestored' = -1 /\ wifiSkipped' = 0 /\ joined' = {} /\ unheard' = {}
      /\ UNCHANGED <<k, at, rows, text, refs, works, entries, disk, parts, manifest, runs,
                     imported, cut, troubles>>
  BY DEF BeginRestore, Goto, docVars, dirVars
<1>2. k = 1 /\ entries = NoEntries /\ at = 1 /\ rows = <<>>
  BY <1>1 DEF IInv, PlacesFit
<1>3. Types'
  <2>1. restores' \in 0..MaxRestores
    <3>1. restores \in 0..MaxRestores
      BY DEF IInv, Types
    <3> QED BY <1>1, <3>1, PersonalAssumption
  <2>2. /\ \A x \in Kind : disk'[x] \in Broken \/ IsDocumentOf(x, disk'[x])
        /\ \A x \in DOMAIN entries' : Describes(entries'[x], x)
    BY <1>1 DEF IInv, Types
  <2>3. ManifestTyped'
    BY <1>1 DEF IInv, Types, ManifestTyped, Describes, IsDocumentOf
  <2>4. flag' \in BOOLEAN /\ pc' \in Restoring
    BY <1>1 DEF Restoring
  <2> QED BY <1>1, <2>1, <2>2, <2>3, <2>4 DEF IInv, Types, Describes, IsDocumentOf
<1>4. PlacesFit'
  BY <1>1, <1>2 DEF PlacesFit, Exporting, Listing, Recording
<1>5. RestoreAddsUp'
  BY <1>1, <1>2 DEF RestoreAddsUp
<1>6. ListedIsWhole' /\ AttachmentsResolve' /\ ImportIsTheRecorded' /\ WifiAddsUp'
  BY <1>1 DEF ListedIsWhole, AttachmentsResolve, Finished, ImportIsTheRecorded, WifiAddsUp
<1> QED BY <1>1, <1>3, <1>4, <1>5, <1>6, AwayStep DEF Restoring

LEMMA PushForImportKeeps ==
  ASSUME IInv, PushForImport
  PROVE  IInv'
<1>1. /\ pc = "push" /\ pc' = "push" /\ k <= 2 /\ k' = k + 1
      /\ UNCHANGED <<flag, at, rows, text, refs, works, entries, disk, parts, manifest, outcome,
                     runs, restores, wifiRestored, wifiSkipped, joined, unheard, cut>>
  BY ImportsAre DEF PushForImport, docVars, dirVars, countVars
<1>2. /\ k \in 1..3 /\ paths \subseteq {Imports[n] : n \in 1..(k - 1)}
      /\ wifiRestored = -1 /\ wifiSkipped = 0 /\ joined = {} /\ unheard = {}
      /\ outcome = "none" /\ at = 1 /\ rows = <<>>
  BY <1>1 DEF IInv, RestoreAddsUp, PlacesFit
<1> DEFINE x == Imports[k]
<1>3. /\ k \in 1..2 /\ x \in {"contacts", "calendar"} /\ x \in Kind /\ x \notin paths
      /\ k' \in 1..3 /\ k \in 1..(k' - 1) /\ \A n \in 1..(k - 1) : n \in 1..(k' - 1)
  <2>1. /\ k \in 1..2 /\ k' \in 1..3 /\ k \in 1..(k' - 1)
        /\ \A n \in 1..(k - 1) : n \in 1..(k' - 1) /\ n \in 1..2 /\ n # k
    BY <1>1, <1>2
  <2>2. x \in {"contacts", "calendar"}
    BY <2>1, ImportsAre
  <2>3. x \notin paths
    BY <1>2, <2>1, ImportsAre
  <2> QED BY <2>1, <2>2, <2>3, KindsAre
<1>4. /\ DOMAIN imported = {"contacts", "calendar"} /\ troubles \in 0..MaxTroubles
      /\ \A y \in DOMAIN imported : imported[y] \in Broken \/ imported[y] \in Docs
      /\ paths \subseteq DOMAIN imported
      /\ disk[x] \in Broken \/ disk[x] \in Docs
      /\ \A y \in paths : Listed(y) /\ Export(y).summed => imported[y] = Export(y).content
  <2>1. \A y \in paths : Listed(y) /\ Export(y).summed => imported[y] = Export(y).content
    BY DEF IInv, ImportIsTheRecorded
  <2>2. \A y \in Kind : disk[y] \in Broken \/ disk[y] \in Docs
    BY DEF IInv, Types, IsDocumentOf
  <2> HIDE DEF x
  <2> QED BY <1>3, <2>1, <2>2 DEF IInv, Types
<1> HIDE DEF x
\* What the step may do, whatever is in the manifest.
<1>5. /\ troubles' \in 0..MaxTroubles
      /\ \/ UNCHANGED <<imported, paths>>
         \/ /\ imported' = [imported EXCEPT ![x] = disk[x]] /\ paths' = paths \cup {x}
            /\ Matches(x)
         \/ imported' = [imported EXCEPT ![x] = Torn] /\ paths' = paths
  <2>1. Fails => troubles' \in 0..MaxTroubles
    BY <1>4, FailsCosts, PersonalAssumption DEF IInv, Types
  <2> QED BY <1>4, <2>1 DEF PushForImport, x
<1>6. /\ DOMAIN imported' = {"contacts", "calendar"} /\ paths' \subseteq paths \cup {x}
      /\ \A y \in DOMAIN imported' :
           imported'[y] \in Broken \/ imported'[y] \in Docs
      /\ \A y \in paths : imported'[y] = imported[y]
  BY <1>3, <1>4, <1>5 DEF Broken
<1>7. Types'
  <2>1. /\ \A y \in Kind : disk'[y] \in Broken \/ IsDocumentOf(y, disk'[y])
        /\ \A y \in DOMAIN entries' : Describes(entries'[y], y)
    BY <1>1 DEF IInv, Types
  <2>2. ManifestTyped'
    BY <1>1 DEF IInv, Types, ManifestTyped, Describes, IsDocumentOf
  <2>3. paths' \subseteq DOMAIN imported' /\ k' \in 1..8
    BY <1>3, <1>4, <1>6
  <2> QED BY <1>1, <1>5, <1>6, <2>1, <2>2, <2>3 DEF IInv, Types, Describes, IsDocumentOf
<1>8. PlacesFit'
  BY <1>1, <1>2 DEF PlacesFit, Exporting, Listing, Recording
<1>9. RestoreAddsUp'
  <2> DEFINE pushed == {Imports[n] : n \in 1..(k' - 1)}
  <2>1. paths' \subseteq pushed
    <3>1. x \in pushed
      BY <1>3 DEF x
    <3>2. ASSUME NEW y \in paths
          PROVE  y \in pushed
      <4>1. PICK n \in 1..(k - 1) : y = Imports[n]
        BY <1>2
      <4>2. n \in 1..(k' - 1)
        BY <1>3
      <4> QED BY <4>1, <4>2
    <3> HIDE DEF pushed
    <3> QED BY <1>6, <3>1, <3>2
  <2> QED BY <1>1, <1>2, <1>3, <2>1 DEF RestoreAddsUp
<1>10. ImportIsTheRecorded'
  <2>1. \A y : Listed(y)' = Listed(y) /\ Export(y)' = Export(y)
    BY <1>1 DEF Listed, Export
  <2>2. ASSUME x \in paths', Listed(x), Export(x).summed PROVE imported'[x] = Export(x).content
    BY <1>3, <1>4, <1>5, <2>2 DEF Matches
  <2> QED BY <1>4, <1>6, <2>1, <2>2 DEF ImportIsTheRecorded
<1>11. ListedIsWhole' /\ AttachmentsResolve' /\ WifiAddsUp'
  BY <1>1, <1>2 DEF ListedIsWhole, AttachmentsResolve, Finished, WifiAddsUp
<1> QED BY <1>1, <1>7, <1>8, <1>9, <1>10, <1>11, AwayStep DEF Restoring

LEMMA StartWifiKeeps ==
  ASSUME IInv, StartWifi
  PROVE  IInv'
<1>1. /\ pc = "push" /\ pc' = "network" /\ at' = 1
      /\ UNCHANGED <<flag, k, text, refs, works, entries, disk, parts, manifest, outcome, runs,
                     restores, imported, paths, wifiSkipped, joined, unheard, cut, troubles>>
  BY DEF StartWifi, Goto, dirVars, countVars
<1>2. /\ wifiRestored = -1 /\ wifiSkipped = 0 /\ joined = {} /\ unheard = {}
      /\ outcome = "none" /\ rows = <<>>
  BY <1>1 DEF IInv, RestoreAddsUp, PlacesFit
<1>3. /\ "wifi" \in Kind
      /\ disk["wifi"] \in Broken \/ IsDocumentOf("wifi", disk["wifi"])
      /\ ManifestTyped
  BY KindsAre DEF IInv, Types
<1>4. /\ rows' \in Seq(Item) /\ HasNoTwins(rows') /\ Len(rows') \in Nat
      /\ \/ wifiRestored' = -1 /\ rows' = <<>>
         \/ /\ wifiRestored' = 0 /\ Listed("wifi")
            /\ Export("wifi").summed /\ Export("wifi").content.is # "short"
                 => Len(rows') = Export("wifi").count
  <2>1. HasNoTwins(<<>>) /\ <<>> \in Seq(Item)
    BY DEF HasNoTwins
  <2>2. CASE UNCHANGED <<wifiRestored, rows>>
    BY <1>2, <2>1, <2>2
  <2>3. CASE /\ Listed("wifi") /\ (Export("wifi").summed => Matches("wifi"))
             /\ wifiRestored' = 0
             /\ rows' = IF disk["wifi"].is = "document" THEN disk["wifi"].items ELSE <<>>
    <3>1. CASE IsDocumentOf("wifi", disk["wifi"])
      <4>1. rows' = disk["wifi"].items /\ rows' \in StoreLists
        BY <2>3, <3>1 DEF IsDocumentOf, Docs
      <4>2. rows' \in Seq(Item) /\ HasNoTwins(rows')
        BY <4>1, StoreType DEF StoreLists
      <4>3. Export("wifi").summed /\ Export("wifi").content.is # "short"
              => Len(rows') = Export("wifi").count
        BY <1>3, <2>3, <4>1 DEF Matches, ManifestTyped, Describes, Listed, Export
      <4> QED BY <2>3, <4>2, <4>3
    <3>2. CASE disk["wifi"] \in Broken
      <4>1. rows' = <<>>
        BY <2>3, <3>2 DEF Broken, Shorts, Absent, Torn, Rotten
      <4>2. ~(Export("wifi").summed /\ Export("wifi").content.is # "short")
        <5>1. SUFFICES ASSUME Export("wifi").summed, Export("wifi").content.is # "short"
                       PROVE  FALSE
          OBVIOUS
        <5>2. disk["wifi"] = Export("wifi").content
          BY <2>3, <5>1 DEF Matches
        <5>3. Export("wifi").content \in Docs
          BY <1>3, <2>3, <5>1 DEF ManifestTyped, Describes, IsDocumentOf, Listed, Export
        <5> QED BY <3>2, <5>1, <5>2, <5>3 DEF Docs, Broken, Shorts, Absent, Torn, Rotten
      <4> QED BY <2>1, <2>3, <4>1, <4>2
    <3> QED BY <1>3, <3>1, <3>2
  <2> QED BY <2>2, <2>3 DEF StartWifi
<1>5. Types'
  <2>1. /\ \A y \in Kind : disk'[y] \in Broken \/ IsDocumentOf(y, disk'[y])
        /\ \A y \in DOMAIN entries' : Describes(entries'[y], y)
    BY <1>1 DEF IInv, Types
  <2>2. ManifestTyped'
    BY <1>1, <1>3 DEF ManifestTyped, Describes, IsDocumentOf
  <2>3. wifiRestored' \in Nat \cup {-1} /\ pc' \in Restoring /\ at' \in Nat \ {0}
    BY <1>1, <1>4 DEF Restoring
  <2> QED BY <1>1, <1>4, <2>1, <2>2, <2>3 DEF IInv, Types, Describes, IsDocumentOf
<1>6. PlacesFit'
  BY <1>1, <1>2 DEF PlacesFit, Exporting, Listing, Recording
<1>7. RestoreAddsUp'
  <2>1. /\ at' <= Len(rows') + 1 /\ wifiSkipped' = at' - 1
        /\ joined' = {} /\ joined' \ unheard' = {}
        /\ IsFiniteSet(joined' \ unheard') /\ Cardinality(joined' \ unheard') = 0
    BY <1>1, <1>2, <1>4, FS_EmptySet
  <2>2. Listed("wifi")' = Listed("wifi") /\ Export("wifi")' = Export("wifi")
    BY <1>1 DEF Listed, Export
  <2>3. wifiRestored' # -1 => wifiRestored' = 0 /\ wifiRestored' + wifiSkipped' = at' - 1
    BY <1>1, <1>2, <1>4
  <2> QED BY <1>1, <1>4, <2>1, <2>2, <2>3 DEF RestoreAddsUp
<1>8. ListedIsWhole' /\ AttachmentsResolve' /\ WifiAddsUp'
  BY <1>1, <1>2 DEF ListedIsWhole, AttachmentsResolve, Finished, WifiAddsUp
<1>9. ImportIsTheRecorded'
  BY <1>1 DEF IInv, ImportIsTheRecorded, Listed, Export
<1> QED BY <1>1, <1>5, <1>6, <1>7, <1>8, <1>9, AwayStep DEF Restoring

LEMMA AddNetworkKeeps ==
  ASSUME IInv, AddNetwork
  PROVE  IInv'
<1>1. /\ pc = "network" /\ pc' = "network" /\ at <= Len(rows) /\ at' = at + 1
      /\ Join \/ Miss \/ Lose
      /\ UNCHANGED <<k, rows, text, refs, works, entries, disk, parts, manifest, outcome,
                     runs, restores, imported, paths, cut>>
  BY DEF AddNetwork, dirVars, countVars
<1>2. /\ HasNoTwins(rows) /\ rows \in Seq(Item) /\ Len(rows) \in Nat /\ at \in Nat \ {0}
      /\ at \in 1..Len(rows) /\ outcome = "none"
  BY <1>1 DEF IInv, Types, RestoreAddsUp, PlacesFit
<1>3. /\ Listed("wifi")
      /\ Export("wifi").summed /\ Export("wifi").content.is # "short"
           => Len(rows) = Export("wifi").count
      /\ wifiRestored + wifiSkipped = at - 1 /\ wifiRestored \in Nat /\ wifiSkipped \in Nat
      /\ wifiRestored = Cardinality(joined \ unheard) /\ IsFiniteSet(joined \ unheard)
      /\ unheard \subseteq joined
      /\ \A x \in joined : \E n \in 1..(at - 1) : rows[n] = x
  <2>1. rows # <<>>
    BY <1>2
  <2> QED BY <1>1, <2>1 DEF IInv, Types, RestoreAddsUp
<1> DEFINE x == rows[at]
<1>4. x \notin joined
  <2>1. \A n \in 1..(at - 1) : n \in 1..Len(rows) /\ n # at
    BY <1>2
  <2>2. \A n \in 1..(at - 1) : rows[n] # x
    BY <1>2, <2>1 DEF HasNoTwins
  <2> HIDE DEF x
  <2> QED BY <1>3, <2>2
<1>5. /\ troubles' \in 0..MaxTroubles
      /\ flag' \in BOOLEAN /\ joined' \subseteq joined \cup {x} /\ joined' \subseteq Expressible
      /\ \/ /\ joined' = joined \cup {x} /\ wifiRestored' = wifiRestored + 1
            /\ wifiSkipped' = wifiSkipped /\ unheard' = unheard
         \/ /\ joined' \ unheard' = joined \ unheard /\ unheard' \subseteq joined'
            /\ wifiRestored' = wifiRestored /\ wifiSkipped' = wifiSkipped + 1
  <2>1. troubles \in 0..MaxTroubles /\ flag \in BOOLEAN
    BY DEF IInv, Types
  <2>2. Fails => troubles' \in 0..MaxTroubles
    BY <2>1, FailsCosts, PersonalAssumption
  <2>3. joined \subseteq Expressible
    BY DEF IInv, Types
  <2>4. CASE Join
    BY <2>1, <2>3, <2>4 DEF Join, Network
  <2>5. CASE Miss
    BY <1>3, <2>1, <2>2, <2>3, <2>5 DEF Miss
  <2>6. CASE Lose
    <3>1. troubles' \in 0..MaxTroubles
      BY <2>1, <2>6, TroubleCosts, PersonalAssumption DEF Lose
    <3>2. joined' = joined \cup {x} /\ unheard' = unheard \cup {x} /\ x \in Expressible
      BY <2>6 DEF Lose, Network
    <3> HIDE DEF x
    <3>3. joined' \ unheard' = joined \ unheard /\ unheard' \subseteq joined'
      BY <1>3, <1>4, <3>2
    <3>4. flag' \in BOOLEAN /\ wifiRestored' = wifiRestored /\ wifiSkipped' = wifiSkipped + 1
      BY <2>1, <2>6 DEF Lose
    <3> QED BY <2>3, <3>1, <3>2, <3>3, <3>4
  <2> QED BY <1>1, <2>4, <2>5, <2>6
<1> HIDE DEF x
<1>6. /\ wifiRestored' \in Nat /\ wifiSkipped' \in Nat /\ wifiRestored' + wifiSkipped' = at' - 1
      /\ wifiRestored' # -1 /\ at' \in Nat \ {0} /\ at' <= Len(rows') + 1
  BY <1>1, <1>2, <1>3, <1>5
<1>7. wifiRestored' = Cardinality(joined' \ unheard') /\ IsFiniteSet(joined' \ unheard')
  <2>1. CASE joined' \ unheard' = joined \ unheard /\ wifiRestored' = wifiRestored
    BY <1>3, <2>1
  <2>2. CASE joined' = joined \cup {x} /\ unheard' = unheard /\ wifiRestored' = wifiRestored + 1
    <3>1. joined' \ unheard' = (joined \ unheard) \cup {x} /\ x \notin joined \ unheard
      BY <1>3, <1>4, <2>2
    <3>2. /\ IsFiniteSet((joined \ unheard) \cup {x})
          /\ Cardinality((joined \ unheard) \cup {x}) = Cardinality(joined \ unheard) + 1
      BY <1>3, <3>1, FS_AddElement
    <3> QED BY <1>3, <2>2, <3>1, <3>2
  <2> QED BY <1>5, <2>1, <2>2
<1>8. \A y \in joined' : \E n \in 1..(at' - 1) : rows'[n] = y
  <2>1. at \in 1..(at' - 1) /\ \A n \in 1..(at - 1) : n \in 1..(at' - 1)
    BY <1>1, <1>2
  <2> QED BY <1>1, <1>3, <1>5, <2>1 DEF x
<1>9. Types'
  <2>1. /\ \A y \in Kind : disk'[y] \in Broken \/ IsDocumentOf(y, disk'[y])
        /\ \A y \in DOMAIN entries' : Describes(entries'[y], y)
    BY <1>1 DEF IInv, Types
  <2>2. ManifestTyped'
    BY <1>1 DEF IInv, Types, ManifestTyped, Describes, IsDocumentOf
  <2>3. flag' \in BOOLEAN /\ joined' \subseteq Expressible /\ unheard' \subseteq joined'
    BY <1>3, <1>5
  <2> QED BY <1>1, <1>5, <1>6, <2>1, <2>2, <2>3 DEF IInv, Types, Describes, IsDocumentOf
<1>10. PlacesFit'
  BY <1>1, <1>2 DEF PlacesFit, Exporting, Listing, Recording
<1>11. RestoreAddsUp'
  <2>1. Listed("wifi")' = Listed("wifi") /\ Export("wifi")' = Export("wifi")
    BY <1>1 DEF Listed, Export
  <2> QED BY <1>1, <1>2, <1>3, <1>6, <1>7, <1>8, <2>1 DEF RestoreAddsUp
<1>12. ListedIsWhole' /\ AttachmentsResolve' /\ WifiAddsUp'
  BY <1>1, <1>2 DEF ListedIsWhole, AttachmentsResolve, Finished, WifiAddsUp
<1>13. ImportIsTheRecorded'
  BY <1>1 DEF IInv, ImportIsTheRecorded, Listed, Export
<1> QED BY <1>1, <1>9, <1>10, <1>11, <1>12, <1>13, AwayStep DEF Restoring

LEMMA EndRestoreKeeps ==
  ASSUME IInv, EndRestore
  PROVE  IInv'
<1>1. /\ pc = "network" /\ at > Len(rows) /\ Forget /\ outcome' = "restored"
      /\ UNCHANGED <<disk, parts, manifest, countVars, restoreVars, cut, troubles>>
      /\ UNCHANGED <<imported, paths, wifiRestored, wifiSkipped, joined, unheard>>
  BY DEF EndRestore, dirVars, restoreVars
<1>2. ManifestTyped' /\ troubles' \in troubles..MaxTroubles
  BY <1>1, PersonalAssumption DEF IInv, Types, ManifestTyped, Describes, IsDocumentOf
<1>3. ListedIsWhole' /\ AttachmentsResolve'
  BY <1>1 DEF ListedIsWhole, AttachmentsResolve, Finished
<1>4. ImportIsTheRecorded'
  BY <1>1 DEF IInv, ImportIsTheRecorded, Listed, Export
<1>5. WifiAddsUp'
  <2>1. Export("wifi")' = Export("wifi")
    BY <1>1 DEF Export
  <2>2. wifiRestored >= 0 => wifiRestored # -1
    OBVIOUS
  <2>3. /\ at <= Len(rows) + 1
        /\ wifiRestored # -1 =>
             /\ Export("wifi").summed /\ Export("wifi").content.is # "short"
                  => Len(rows) = Export("wifi").count
             /\ wifiRestored + wifiSkipped = at - 1
             /\ wifiRestored = Cardinality(joined \ unheard)
    BY <1>1 DEF IInv, RestoreAddsUp
  <2>4. at - 1 = Len(rows)
    <3>1. at \in Nat /\ Len(rows) \in Nat
      BY DEF IInv, Types
    <3> QED BY <1>1, <2>3, <3>1
  <2> QED BY <1>1, <2>1, <2>2, <2>3, <2>4 DEF WifiAddsUp
<1> QED BY <1>1, <1>2, <1>3, <1>4, <1>5, ForgetStep

LEMMA KillKeeps ==
  ASSUME IInv, Kill
  PROVE  IInv'
<1>1. /\ Forget /\ outcome' = "killed"
      /\ UNCHANGED <<disk, parts, manifest, countVars, restoreVars, cut, troubles>>
      /\ UNCHANGED <<imported, paths>>
  BY DEF Kill, dirVars, restoreVars
<1>2. ManifestTyped' /\ troubles' \in troubles..MaxTroubles
  BY <1>1, PersonalAssumption DEF IInv, Types, ManifestTyped, Describes, IsDocumentOf
<1>3. ListedIsWhole' /\ AttachmentsResolve' /\ WifiAddsUp'
  BY <1>1 DEF ListedIsWhole, AttachmentsResolve, Finished, WifiAddsUp
<1>4. ImportIsTheRecorded'
  BY <1>1 DEF IInv, ImportIsTheRecorded, Listed, Export
<1> QED BY <1>1, <1>2, <1>3, <1>4, ForgetStep

LEMMA RotKeeps ==
  ASSUME IInv, Rot
  PROVE  IInv'
<1>1. /\ pc = "idle" /\ Trouble /\ outcome' = "rotted"
      /\ UNCHANGED <<pc, flag, k, entries, parts, manifest, runs, restores, imported, paths,
                     wifiRestored, wifiSkipped, joined, unheard, cut, at, rows, text, refs, works>>
  BY DEF Rot, docVars, countVars, restoreVars
<1>2. PICK x \in Kind, now \in {Rotten, Absent} : disk' = [disk EXCEPT ![x] = now]
  BY DEF Rot
<1>3. Types'
  <2>1. troubles' \in 0..MaxTroubles
    <3>1. troubles \in 0..MaxTroubles
      BY DEF IInv, Types
    <3> QED BY <1>1, <3>1, TroubleCosts, PersonalAssumption
  <2>2. /\ DOMAIN disk' = Kind
        /\ \A y \in Kind : disk'[y] \in Broken \/ IsDocumentOf(y, disk'[y])
    BY <1>2 DEF IInv, Types, Broken
  <2>3. ManifestTyped' /\ \A y \in DOMAIN entries' : Describes(entries'[y], y)
    BY <1>1 DEF IInv, Types, ManifestTyped, Describes, IsDocumentOf
  <2> QED BY <1>1, <2>1, <2>2, <2>3 DEF IInv, Types, Describes, IsDocumentOf
<1>4. PlacesFit'
  BY <1>1 DEF IInv, PlacesFit, Exporting, Listing, Recording
<1>5. RestoreAddsUp' /\ ListedIsWhole' /\ AttachmentsResolve' /\ WifiAddsUp'
  BY <1>1 DEF RestoreAddsUp, ListedIsWhole, AttachmentsResolve, Finished, WifiAddsUp
<1>6. ImportIsTheRecorded'
  BY <1>1 DEF IInv, ImportIsTheRecorded, Listed, Export
<1> QED BY <1>1, <1>3, <1>4, <1>5, <1>6, AwayStep

\* A step that changes nothing, or only raises the cancel flag.
LEMMA FlagStep ==
  ASSUME IInv, flag' = flag \/ flag' = TRUE,
         UNCHANGED <<pc, k, docVars, entries, dirVars, outcome, countVars, restoreVars, cut,
                     troubles>>
  PROVE  IInv'
<1>1. UNCHANGED <<pc, k, at, rows, text, refs, works, entries, disk, parts, manifest, outcome,
                  runs, restores, imported, paths, wifiRestored, wifiSkipped, joined, unheard, cut,
                  troubles>>
  BY DEF docVars, dirVars, countVars, restoreVars
<1>2. ~flag' => ~flag
  OBVIOUS
<1>3. Types'
  <2>1. flag' \in BOOLEAN
    BY DEF IInv, Types
  <2>2. /\ \A y \in Kind : disk'[y] \in Broken \/ IsDocumentOf(y, disk'[y])
        /\ \A y \in DOMAIN entries' : Describes(entries'[y], y)
    BY <1>1 DEF IInv, Types
  <2>3. ManifestTyped'
    BY <1>1 DEF IInv, Types, ManifestTyped, Describes, IsDocumentOf
  <2> QED BY <1>1, <2>1, <2>2, <2>3 DEF IInv, Types, Describes, IsDocumentOf
<1>4. PlacesFit'
  BY <1>1 DEF IInv, PlacesFit
<1>5. TextIsWhole'
  BY <1>1 DEF IInv, TextIsWhole
<1>6. RefsResolve'
  BY <1>1, <1>2 DEF IInv, RefsResolve
<1>7. EntriesAreTrue'
  BY <1>1, <1>2 DEF IInv, EntriesAreTrue, Recorded, MmsRecorded
<1>8. RestoreAddsUp'
  BY <1>1 DEF IInv, RestoreAddsUp, Listed, Export
<1>9. ListedIsWhole' /\ AttachmentsResolve' /\ ImportIsTheRecorded' /\ WifiAddsUp'
  BY <1>1 DEF IInv, ListedIsWhole, AttachmentsResolve, Finished, ImportIsTheRecorded, WifiAddsUp,
              Listed, Export
<1> QED BY <1>3, <1>4, <1>5, <1>6, <1>7, <1>8, <1>9 DEF IInv

-----------------------------------------------------------------------------
(* The theorems.                                                           *)

LEMMA InitIInv == Init => IInv
<1> SUFFICES ASSUME Init PROVE IInv
  OBVIOUS
<1>1. /\ pc = "idle" /\ k = 1 /\ at = 1 /\ rows = <<>> /\ text = <<>> /\ refs = {}
      /\ entries = NoEntries /\ disk = [x \in Kind |-> Absent] /\ parts = [x \in Parts |-> Absent]
      /\ manifest = NoManifest /\ outcome = "none" /\ runs = 0 /\ restores = 0
      /\ imported = [x \in {"contacts", "calendar"} |-> Absent] /\ paths = {}
      /\ wifiRestored = -1 /\ wifiSkipped = 0 /\ joined = {} /\ unheard = {} /\ cut = {}
      /\ troubles = 0
  BY DEF Init
<1>2. flag \in BOOLEAN /\ works \in BOOLEAN
  BY DEF Init
<1>3. ManifestTyped
  <2>1. DOMAIN manifest.entries = {} /\ manifest.run = 0
    BY <1>1 DEF NoManifest, NoEntries
  <2> QED BY <2>1, PersonalAssumption DEF ManifestTyped
<1>4. Types
  <2>1. DOMAIN entries = {} /\ rows \in Seq(Item) /\ text \in Seq(Item)
    BY <1>1 DEF NoEntries
  <2> QED BY <1>1, <1>2, <1>3, <2>1, PersonalAssumption DEF Types, Broken
<1>5. PlacesFit
  BY <1>1 DEF PlacesFit, Exporting, Listing, Recording
<1>6. TextIsWhole /\ RefsResolve /\ EntriesAreTrue /\ RestoreAddsUp
  BY <1>1 DEF TextIsWhole, RefsResolve, EntriesAreTrue, RestoreAddsUp, Exporting, Listing,
              Recording
<1>7. ListedIsWhole /\ AttachmentsResolve /\ ImportIsTheRecorded /\ WifiAddsUp
  BY <1>1 DEF ListedIsWhole, AttachmentsResolve, Finished, ImportIsTheRecorded, WifiAddsUp
<1> QED BY <1>4, <1>5, <1>6, <1>7 DEF IInv

LEMMA NextIInv == IInv /\ [Next]_vars => IInv'
<1> SUFFICES ASSUME IInv, [Next]_vars PROVE IInv'
  OBVIOUS
<1>1. CASE Begin
  BY <1>1, BeginKeeps
<1>2. CASE ExportStep
  <2>1. CASE NextKind
    BY <2>1, NextKindKeeps
  <2>2. CASE ListRows \/ ListContacts \/ ReadVcards \/ BuildVcards
    BY <2>2, ListRowsKeeps, ListContactsKeeps, ReadVcardsKeeps, BuildVcardsKeeps
  <2>3. CASE ListCalendars \/ ListEvents \/ ListSettings \/ ReadStore
    BY <2>3, ListCalendarsKeeps, ListEventsKeeps, ListSettingsKeeps, ReadStoreKeeps
  <2>4. CASE ListMessages \/ ListParts \/ NextPart \/ EndAttachment
    BY <2>4, ListMessagesKeeps, ListPartsKeeps, NextPartKeeps, EndAttachmentKeeps
  <2>5. CASE OpenDocument \/ FillDocument \/ StartManifest \/ EndManifest
    BY <2>5, OpenDocumentKeeps, FillDocumentKeeps, StartManifestKeeps, EndManifestKeeps
  <2> QED BY <1>2, <2>1, <2>2, <2>3, <2>4, <2>5 DEF ExportStep
<1>3. CASE BeginRestore
  BY <1>3, BeginRestoreKeeps
<1>4. CASE RestoreStep
  BY <1>4, PushForImportKeeps, StartWifiKeeps, AddNetworkKeeps, EndRestoreKeeps DEF RestoreStep
<1>5. CASE Cancel
  BY <1>5, FlagStep DEF Cancel, Outside
<1>6. CASE Kill
  BY <1>6, KillKeeps
<1>7. CASE Rot
  BY <1>7, RotKeeps
<1>8. CASE UNCHANGED vars
  BY <1>8, FlagStep DEF vars
<1> QED BY <1>1, <1>2, <1>3, <1>4, <1>5, <1>6, <1>7, <1>8 DEF Next

LEMMA Invariant == Spec => []IInv
<1>1. Init => IInv
  BY InitIInv
<1>2. IInv /\ [Next]_vars => IInv'
  BY NextIInv
<1> QED BY <1>1, <1>2, PTL DEF Spec

\* exportPersonalData, restorePersonalData: every variable keeps its type over
\* any number of runs, restores and failures; a run's step is one the kind being
\* exported has, and what a manifest lists is a kind of export.
THEOREM TypeCorrect == Spec => []TypeOK
<1>1. IInv => TypeOK
  <2> SUFFICES ASSUME IInv PROVE TypeOK
    OBVIOUS
  <2>1. pc \in {"idle", "kind", "write", "writing", "push", "network", "open", "fill", "vcards",
                "data", "events", "parts", "part", "attachment"} \cup {FirstStep[x] : x \in Kind}
    <3>1. {"contacts", "rows", "messages", "calendars", "namespace", "store"}
            \subseteq {FirstStep[x] : x \in Kind}
      <4>1. /\ FirstStep["contacts"] = "contacts" /\ FirstStep["sms"] = "rows"
            /\ FirstStep["mms"] = "messages" /\ FirstStep["calendar"] = "calendars"
            /\ FirstStep["settings"] = "namespace" /\ FirstStep["wifi"] = "store"
        BY DEF FirstStep
      <4>2. {"contacts", "sms", "mms", "calendar", "settings", "wifi"} \subseteq Kind
        BY KindsAre
      <4> QED BY <4>1, <4>2
    <3>2. pc \in Exporting \cup Restoring \cup {"idle"}
      BY DEF IInv, Types
    <3> QED BY <3>1, <3>2 DEF Exporting, Restoring, Listing, Recording
  <2>2. \A x \in Kind : disk[x].is \in {"absent", "torn", "rotten", "short", "document"}
    <3>1. \A x \in Kind : disk[x] \in Broken \/ disk[x] \in Docs
      BY DEF IInv, Types, IsDocumentOf
    <3> QED BY <3>1 DEF Broken, Shorts, Absent, Torn, Rotten, Docs
  <2>3. \A x \in Parts : parts[x].is \in {"absent", "torn", "whole"}
    <3>1. \A x \in Parts : parts[x] \in {Absent, Torn, [is |-> "whole"]}
      BY DEF IInv, Types
    <3> QED BY <3>1 DEF Absent, Torn
  <2>4. DOMAIN manifest.entries \subseteq Kind /\ manifest.run \in 0..MaxRuns
    BY DEF IInv, Types, ManifestTyped
  <2>5. k \in 1..(Len(Kinds) + 1)
    BY KindsAre DEF IInv, Types
  <2>6. wifiRestored >= -1
    <3>1. wifiRestored \in Nat \cup {-1}
      BY DEF IInv, Types
    <3> QED BY <3>1
  <2> QED BY <2>1, <2>2, <2>3, <2>4, <2>5, <2>6 DEF IInv, Types, TypeOK
<1> QED BY <1>1, Invariant, PTL

\* recordExport: when a run has ended, what its manifest lists of a kind is the
\* file in personal/, counted right, and (unless a tool broke off in its answer)
\* all the phone had of it, however many keys a vCard read takes, however many
\* namespaces answer, whatever was refused, cancelled or left by earlier runs.
THEOREM ExportsAreWhole == Spec => []ListedIsWhole
<1>1. IInv => ListedIsWhole
  BY DEF IInv
<1> QED BY <1>1, Invariant, PTL

\* exportMms: mms.json of a finished run names no attachment that is not in its
\* file, for every number of parts and every order of failures.
THEOREM AttachmentsAreThere == Spec => []AttachmentsResolve
<1>1. IInv => AttachmentsResolve
  BY DEF IInv
<1> QED BY <1>1, Invariant, PTL

\* pushForImport: what RestoreResult says is on the phone for import is the
\* export the manifest records, whatever was killed or damaged before.
THEOREM ImportsAreRecorded == Spec => []ImportIsTheRecorded
<1>1. IInv => ImportIsTheRecorded
  BY DEF IInv
<1> QED BY <1>1, Invariant, PTL

\* restoreWifi: the networks counted as re-added are the ones the phone took,
\* and with those counted as skipped they are all that the run exported.
THEOREM NetworksAddUp == Spec => []WifiAddsUp
<1>1. IInv => WifiAddsUp
  BY DEF IInv
<1> QED BY <1>1, Invariant, PTL
=============================================================================
