--------------------------- MODULE TarIndex_proofs --------------------------
(***************************************************************************)
(* Theorems about TarIndex for every archive, every damage to a size or a  *)
(* checksum, every cut and every growth: that the walk is well typed, that *)
(* what it lists lies inside the file, that of an undamaged archive it     *)
(* lists what was archived, and that its folders show what they add up to. *)
(***************************************************************************)
EXTENDS TarIndex, SequenceTheorems, FiniteSetTheorems, WellFoundedInduction, TLAPS

\* The file on disk is some prefix of blocks as Sound has them, damaged or not.
FileIsSound == Sound(archive)

\* A pax size pending for the next member is a word.
PaxIsWell == PaxSaysWell(pax)

EntriesAreListed == entries \in Seq({entries[i] : i \in DOMAIN entries})

\* The file ends where it ended when its size was taken, and so does the data of
\* every entry so far.
LengthIsFileSize == growths = 0 => length = fileSize

EntriesAreInside ==
  growths = 0 => \A i \in DOMAIN entries : entries[i].offset + entries[i].size <= fileSize

EntriesAreTyped ==
  \A i \in DOMAIN entries : entries[i].offset \in Nat /\ entries[i].size \in Nat

IInv ==
  /\ TypeOK
  /\ FileIsSound
  /\ PaxIsWell
  /\ EntriesAreListed
  /\ EntriesAreTyped
  /\ LengthIsFileSize
  /\ EntriesAreInside

-----------------------------------------------------------------------------
\* Damage to a header leaves a file that tar might have written.
LEMMA DamageIsSound ==
  ASSUME NEW blocks, Sound(blocks), NEW i \in HeadersOf(blocks)
  PROVE  /\ Sound([blocks EXCEPT ![i] = [is |-> "bytes"]])
         /\ \A s \in CorruptSizes : Sound([blocks EXCEPT ![i].size = s])
<1> DEFINE Cell == {blocks[j] : j \in DOMAIN blocks}
<1>1. /\ blocks \in Seq(Cell) /\ Len(blocks) \in Nat /\ DOMAIN blocks = 1..Len(blocks)
      /\ i \in DOMAIN blocks /\ blocks[i].is = "header"
  BY LenProperties DEF Sound, HeadersOf
<1>2. ASSUME NEW b
      PROVE  LET new == [blocks EXCEPT ![i] = b] IN
             /\ new \in Seq({new[j] : j \in DOMAIN new})
             /\ Len(new) = Len(blocks) /\ DOMAIN new = DOMAIN blocks
             /\ new[i] = b /\ \A j \in DOMAIN blocks \ {i} : new[j] = blocks[j]
  <2> DEFINE new == [blocks EXCEPT ![i] = b]
             S == {new[j] : j \in DOMAIN new}
  <2>1. DOMAIN new = 1..Len(blocks) /\ new = [j \in 1..Len(blocks) |-> new[j]]
    BY <1>1
  <2>2. \A j \in 1..Len(blocks) : new[j] \in S
    BY <2>1
  <2>3. new \in Seq(S) /\ Len(new) = Len(blocks)
    <3> HIDE DEF S, new
    <3>1. [j \in 1..Len(blocks) |-> new[j]] \in Seq(S)
      BY <1>1, <2>2, IsASeq
    <3>2. new \in Seq(S)
      BY <2>1, <3>1
    <3> QED  BY <1>1, <2>1, <3>2, LenProperties
  <2> QED  BY <1>1, <2>1, <2>3
<1>3. Sound([blocks EXCEPT ![i] = [is |-> "bytes"]])
  <2> DEFINE new == [blocks EXCEPT ![i] = [is |-> "bytes"]]
  <2>1. /\ new \in Seq({new[j] : j \in DOMAIN new})
        /\ Len(new) = Len(blocks) /\ DOMAIN new = DOMAIN blocks
        /\ new[i] = [is |-> "bytes"] /\ \A j \in DOMAIN blocks \ {i} : new[j] = blocks[j]
    BY <1>2
  <2>2. new[i].is = "bytes"
    BY <2>1
  <2> HIDE DEF new
  <2>3. ASSUME NEW j \in DOMAIN new, new[j].is = "header" PROVE HeaderIsSound(new, j)
    <3>1. j # i /\ new[j] = blocks[j] /\ HeaderIsSound(blocks, j)
      BY <2>1, <2>2, <2>3 DEF Sound
    <3>2. blocks[j].type = "x" => j + 1 # i
      BY <1>1, <3>1 DEF HeaderIsSound
    <3> QED  BY <2>1, <3>1, <3>2 DEF HeaderIsSound
  <2>4. Sound(new)
    BY <2>1, <2>3 DEF Sound
  <2> QED  BY <2>4 DEF new
<1>4. ASSUME NEW s \in CorruptSizes PROVE Sound([blocks EXCEPT ![i].size = s])
  <2> DEFINE b == [blocks[i] EXCEPT !.size = s]
             new == [blocks EXCEPT ![i] = b]
  <2>1. /\ new \in Seq({new[j] : j \in DOMAIN new})
        /\ Len(new) = Len(blocks) /\ DOMAIN new = DOMAIN blocks
        /\ new[i] = b /\ \A j \in DOMAIN blocks \ {i} : new[j] = blocks[j]
    BY <1>2
  <2>2. HeaderIsSound(blocks, i)
    BY <1>1 DEF Sound
  <2>3. /\ DOMAIN b = DOMAIN blocks[i] /\ b.size \in 0..(Word - 1)
        /\ b.is = blocks[i].is /\ b.type = blocks[i].type
    BY <2>2, ArchivesAssumption DEF HeaderIsSound
  <2>4. [blocks EXCEPT ![i].size = s] = new
    OBVIOUS
  <2> HIDE DEF b, new
  <2>5. ASSUME NEW j \in DOMAIN new, new[j].is = "header" PROVE HeaderIsSound(new, j)
    <3>1. HeaderIsSound(blocks, j)
      BY <1>1, <2>1, <2>2, <2>5 DEF Sound
    <3>2. blocks[j].type = "x" => j + 1 # i
      BY <1>1, <3>1 DEF HeaderIsSound
    <3> QED  BY <2>1, <2>2, <2>3, <3>1, <3>2 DEF HeaderIsSound
  <2>6. Sound(new)
    BY <2>1, <2>5 DEF Sound
  <2> QED  BY <2>4, <2>6
<1> QED  BY <1>3, <1>4

LEMMA InitMakesIInv == Init => IInv
<1> SUFFICES ASSUME Init PROVE IInv
  OBVIOUS
<1>1. FileIsSound
  <2>1. PICK a \in Archives :
          \/ archive = a.blocks
          \/ \E i \in HeadersOf(a.blocks) :
               \/ archive = [a.blocks EXCEPT ![i] = [is |-> "bytes"]]
               \/ \E s \in CorruptSizes : archive = [a.blocks EXCEPT ![i].size = s]
    BY DEF Init
  <2>2. Sound(a.blocks)
    BY ArchivesAssumption
  <2>3. CASE archive = a.blocks
    BY <2>2, <2>3 DEF FileIsSound
  <2>4. ASSUME NEW i \in HeadersOf(a.blocks), archive = [a.blocks EXCEPT ![i] = [is |-> "bytes"]]
        PROVE  FileIsSound
    <3>1. Sound([a.blocks EXCEPT ![i] = [is |-> "bytes"]])
      BY <2>2, DamageIsSound
    <3> QED  BY <2>4, <3>1 DEF FileIsSound
  <2>5. ASSUME NEW i \in HeadersOf(a.blocks), NEW s \in CorruptSizes,
               archive = [a.blocks EXCEPT ![i].size = s]
        PROVE  FileIsSound
    <3>1. Sound([a.blocks EXCEPT ![i].size = s])
      BY <2>2, DamageIsSound
    <3> QED  BY <2>5, <3>1 DEF FileIsSound
  <2> QED  BY <2>1, <2>3, <2>4, <2>5
<1>2. TypeOK
  <2>1. Len(archive) \in Nat
    BY <1>1, LenProperties DEF FileIsSound, Sound
  <2>2. damaged \in BOOLEAN
    BY DEF Init
  <2> QED  BY <2>1, <2>2, ArchivesAssumption DEF Init, TypeOK, Block
<1>3. PaxIsWell
  BY DEF Init, PaxIsWell, PaxSaysWell
<1>4. EntriesAreListed
  BY EmptySeq DEF Init, EntriesAreListed
<1> QED  BY <1>1, <1>2, <1>3, <1>4
         DEF Init, IInv, EntriesAreTyped, LengthIsFileSize, EntriesAreInside

-----------------------------------------------------------------------------
\* Where the walk reads a header, there is a block.
LEMMA HeaderIsThere ==
  ASSUME IInv, HeaderRead
  PROVE  /\ position \div Block + 1 \in DOMAIN archive
         /\ DOMAIN archive = 1..Len(archive) /\ Len(archive) \in Nat
         /\ position \in Nat /\ position % Block = 0 /\ DataOffset \in Nat
         /\ length \in Nat /\ length < Word /\ fileSize \in 0..length
         /\ growths = 0 => DataOffset <= fileSize
         /\ Header.is = "header" => Header.type \in AnyType /\ Header.size \in 0..(Word - 1)
<1>1. Len(archive) \in Nat /\ DOMAIN archive = 1..Len(archive)
  BY LenProperties DEF IInv, FileIsSound, Sound
<1>2. /\ position \in Nat /\ position % 2 = 0 /\ position + 2 <= length
      /\ length \in 0..(2 * Len(archive)) /\ fileSize \in 0..length
      /\ 2 * Len(archive) < 64
  BY DEF IInv, TypeOK, FileIsSound, Sound, HeaderRead, DataOffset, Block, Word
<1>3. position \div 2 + 1 \in 1..Len(archive)
  BY <1>1, <1>2
<1>4. growths = 0 => position + 2 <= fileSize
  BY <1>2 DEF IInv, LengthIsFileSize
<1>5. Header.is = "header" => HeaderIsSound(archive, position \div 2 + 1)
  BY <1>1, <1>3 DEF IInv, FileIsSound, Sound, Header, Block
<1> QED
  BY <1>1, <1>2, <1>3, <1>4, <1>5 DEF HeaderIsSound, Header, DataOffset, Block, Word

\* The comparison by subtraction is what it stands for.
LEMMA FitsIsInside ==
  ASSUME NEW size \in 0..(Word - 1), IInv, HeaderRead, growths = 0, ~PastEnd(size)
  PROVE  DataOffset + size <= fileSize
<1>1. /\ fileSize \in Nat /\ fileSize < 64 /\ DataOffset \in Nat /\ DataOffset <= fileSize
  BY HeaderIsThere DEF Word
<1>2. (fileSize - DataOffset) % 64 = fileSize - DataOffset
  BY <1>1
<1> QED  BY <1>1, <1>2 DEF PastEnd, Word

\* The walk goes on at a block.
LEMMA NextIsABlock ==
  ASSUME NEW size \in 0..(Word - 1), IInv, HeaderRead
  PROVE  /\ AfterData(size) \in Nat /\ AfterData(size) % Block = 0
         /\ DataOffset \in Nat /\ DataOffset % Block = 0
<1>1. position \in Nat /\ position % 2 = 0 /\ size \in Nat
  BY HeaderIsThere DEF Block, Word
<1> QED  BY <1>1 DEF AfterData, BlocksFor, DataOffset, Block
-----------------------------------------------------------------------------
(* Each step keeps IInv.                                                   *)

LEMMA ReturnKeepsIInv ==
  ASSUME IInv, NEW how \in {"listed", "error"}, Return(how)
  PROVE  IInv'
BY DEF Return, file, said, IInv, TypeOK, FileIsSound, PaxIsWell, EntriesAreListed, EntriesAreTyped,
       LengthIsFileSize, EntriesAreInside

\* Steps that read on without a member.
LEMMA SkippingKeepsIInv ==
  ASSUME IInv, position' \in Nat, position' % Block = 0, PaxSaysWell(pax)',
         UNCHANGED <<file, length, growths, fileSize, entries, status>>
  PROVE  IInv'
<1>1. TypeOK'
  BY DEF IInv, TypeOK, PaxSaysWell, file
<1> QED
  BY <1>1 DEF file, IInv, FileIsSound, PaxIsWell, EntriesAreListed, EntriesAreTyped, LengthIsFileSize,
              EntriesAreInside

LEMMA MetadataKeepsIInv ==
  ASSUME IInv, Metadata
  PROVE  IInv'
<1>1. HeaderRead /\ Header.is = "header" /\ Header.type \in {"L", "K", "x"} /\ Header.size \in 0..(Word - 1)
  BY HeaderIsThere DEF Metadata, IsHeader
<1>2. position' \in Nat /\ position' % Block = 0
  BY <1>1, NextIsABlock DEF Metadata
<1>3. PaxSaysWell(pax)'
  <2>1. CASE Header.type \in {"L", "K"}
    BY <2>1 DEF Metadata, IInv, PaxIsWell, PaxSaysWell
  <2>2. CASE Header.type = "x"
    <3> DEFINE text == archive[DataOffset \div Block + 1].text
    <3>1. pax' = Parsed(text)
      BY <2>2 DEF Metadata
    <3>2. DataOffset \div Block + 1 = (position \div Block + 1) + 1
      BY <1>1, HeaderIsThere DEF DataOffset, Block
    <3>3. PaxSaysWell(text)
      BY <1>1, <2>2, <3>2, HeaderIsThere DEF IInv, FileIsSound, Sound, HeaderIsSound, Header
    <3> HIDE DEF text
    <3> QED  BY <3>1, <3>3 DEF IInv, PaxIsWell, PaxSaysWell, Parsed
  <2> QED  BY <1>1, <2>1, <2>2
<1> QED  BY <1>2, <1>3, SkippingKeepsIInv DEF Metadata

LEMMA GlobalHeaderKeepsIInv ==
  ASSUME IInv, GlobalHeader
  PROVE  IInv'
<1>1. HeaderRead /\ Header.is = "header" /\ Header.size \in 0..(Word - 1)
  BY HeaderIsThere DEF GlobalHeader, IsHeader
<1>2. position' \in Nat /\ position' % Block = 0
  BY <1>1, NextIsABlock DEF GlobalHeader
<1>3. PaxSaysWell(pax)'
  BY DEF GlobalHeader, said, IInv, PaxIsWell, PaxSaysWell
<1> QED  BY <1>2, <1>3, SkippingKeepsIInv DEF GlobalHeader

\* What a member's header says of its size fits in the file.
LEMMA SizeSaidIsInside ==
  ASSUME IInv, Member
  PROVE  /\ SizeSaid \in 0..(Word - 1)
         /\ growths = 0 /\ HasData(Header.type) => DataOffset + SizeSaid <= fileSize
<1>1. HeaderRead /\ Header.is = "header" /\ Header.size \in 0..(Word - 1)
  BY HeaderIsThere DEF Member, IsHeader
<1>2. "size" \in DOMAIN pax => pax["size"] \in 0..(Word - 1) /\ ~PastEnd(pax["size"])
  BY DEF IInv, PaxIsWell, PaxSaysWell, Member
<1>3. HasData(Header.type) => ~PastEnd(Header.size)
  BY DEF Member, Fits
<1> QED  BY <1>1, <1>2, <1>3, FitsIsInside DEF SizeSaid

\* The entry of a member is typed and inside.
LEMMA EntryIsInside ==
  ASSUME IInv, Member
  PROVE  /\ Entry.type \in {"file", "directory", "symlink", "other"}
         /\ Entry.size \in Nat /\ Entry.offset \in Nat
         /\ growths = 0 => Entry.offset + Entry.size <= fileSize
<1>1. HeaderRead /\ Header.is = "header" /\ Header.type \in MemberTypes
  BY DEF Member, IsHeader
<1>2. /\ DataOffset \in Nat /\ fileSize \in Nat
      /\ growths = 0 => DataOffset <= fileSize
  BY <1>1, HeaderIsThere
<1>3. Entry.offset = DataOffset /\ Entry.type \in {"file", "directory", "symlink", "other"}
  BY <1>1 DEF Entry, MemberTypes
<1>4. CASE Entry.type = "file"
  <2>1. HasData(Header.type) /\ Entry.size = SizeSaid
    BY <1>4 DEF Entry, HasData
  <2>2. SizeSaid \in Nat /\ (growths = 0 => DataOffset + SizeSaid <= fileSize)
    BY <2>1, SizeSaidIsInside DEF Word
  <2> QED  BY <1>2, <1>3, <2>1, <2>2
<1>5. CASE Entry.type # "file"
  <2>1. Entry.size = 0
    BY <1>5 DEF Entry
  <2> QED  BY <1>2, <1>3, <2>1
<1> QED  BY <1>4, <1>5

LEMMA MemberKeepsIInv ==
  ASSUME IInv, Member
  PROVE  IInv'
<1> DEFINE S == {entries[i] : i \in DOMAIN entries} \cup {Entry}
<1>1. HeaderRead /\ Header.is = "header" /\ Header.size \in 0..(Word - 1)
  BY HeaderIsThere DEF Member, IsHeader
<1>2. position' \in Nat /\ position' % Block = 0
  BY <1>1, SizeSaidIsInside, NextIsABlock DEF Member, NextHeader
<1>3. /\ entries \in Seq(S) /\ Entry \in S
      /\ DOMAIN entries = 1..Len(entries) /\ Len(entries) \in Nat
  BY SeqMonotonic, LenProperties DEF IInv, EntriesAreListed
<1>4. CASE entries' = entries
  BY <1>2, <1>4, SkippingKeepsIInv, EmptySeq DEF Member, PaxSaysWell
<1>5. CASE entries' = Append(entries, Entry)
  <2>1. /\ entries' \in Seq(S) /\ DOMAIN entries' = 1..(Len(entries) + 1)
        /\ \A i \in DOMAIN entries : entries'[i] = entries[i]
        /\ entries'[Len(entries) + 1] = Entry
    BY <1>3, <1>5, AppendProperties, LenProperties
  <2>2. {entries'[i] : i \in DOMAIN entries'} = S
    BY <1>3, <2>1
  <2>3. EntriesAreListed'
    BY <2>1, <2>2 DEF EntriesAreListed
  <2>4. \A i \in DOMAIN entries' :
          /\ entries'[i].type \in {"file", "directory", "symlink", "other"}
          /\ entries'[i].offset \in Nat /\ entries'[i].size \in Nat
          /\ growths = 0 => entries'[i].offset + entries'[i].size <= fileSize
    <3> TAKE i \in DOMAIN entries'
    <3>1. i \in DOMAIN entries \/ i = Len(entries) + 1
      BY <1>3, <2>1
    <3>2. CASE i \in DOMAIN entries
      <4>1. entries'[i] = entries[i]
        BY <2>1, <3>2
      <4> QED BY <3>2, <4>1 DEF IInv, TypeOK, EntriesAreTyped, EntriesAreInside
    <3>3. CASE i = Len(entries) + 1
      <4>1. entries'[i] = Entry
        BY <2>1, <3>3
      <4> QED BY <4>1, EntryIsInside
    <3> QED BY <3>1, <3>2, <3>3
  <2>5. TypeOK'
    BY <1>2, <2>4 DEF Member, file, IInv, TypeOK
  <2>6. PaxIsWell' /\ FileIsSound' /\ LengthIsFileSize'
    BY DEF Member, file, IInv, PaxIsWell, PaxSaysWell, FileIsSound, LengthIsFileSize
  <2>7. EntriesAreTyped' /\ EntriesAreInside'
    BY <2>4 DEF Member, EntriesAreTyped, EntriesAreInside
  <2> QED  BY <2>3, <2>5, <2>6, <2>7 DEF IInv
<1> QED  BY <1>4, <1>5 DEF Member

\* The file only grows, and a file that has grown is held to nothing.
LEMMA GrowKeepsIInv ==
  ASSUME IInv, Grow
  PROVE  IInv'
<1>1. TypeOK'
  <2>1. Len(archive) \in Nat
    BY LenProperties DEF IInv, FileIsSound, Sound
  <2> QED  BY <2>1, ArchivesAssumption DEF Grow, file, said, IInv, TypeOK, Block
<1>2. growths' # 0
  BY DEF Grow, IInv, TypeOK
<1> QED
  BY <1>1, <1>2 DEF Grow, file, said, IInv, FileIsSound, PaxIsWell, EntriesAreListed, EntriesAreTyped,
                    LengthIsFileSize, EntriesAreInside

LEMMA NextKeepsIInv == IInv /\ [Next]_vars => IInv'
<1> SUFFICES ASSUME IInv, [Next]_vars PROVE IInv'
  OBVIOUS
<1>1. CASE UNCHANGED vars
  BY <1>1 DEF vars, file, said, IInv, TypeOK, FileIsSound, PaxIsWell, EntriesAreListed, EntriesAreTyped,
              LengthIsFileSize, EntriesAreInside
<1>2. CASE EndOfFile \/ ShortHeader \/ EndOfArchive \/ BadHeader \/ CutShort \/ BadMetadata \/ PaxCutShort
  BY <1>2, ReturnKeepsIInv
     DEF EndOfFile, ShortHeader, EndOfArchive, BadHeader, CutShort, BadMetadata, PaxCutShort
<1>3. CASE Metadata
  BY <1>3, MetadataKeepsIInv
<1>4. CASE GlobalHeader
  BY <1>4, GlobalHeaderKeepsIInv
<1>5. CASE Member
  BY <1>5, MemberKeepsIInv
<1>6. CASE Grow
  BY <1>6, GrowKeepsIInv
<1> QED  BY <1>1, <1>2, <1>3, <1>4, <1>5, <1>6 DEF Next

\* IInv is an invariant of the walk.
THEOREM Invariant == Spec => []IInv
<1> QED  BY InitMakesIInv, NextKeepsIInv, PTL DEF Spec

-----------------------------------------------------------------------------
(* What follows from it.                                                   *)

\* Every reachable state is well typed, whatever the archive and its damage.
THEOREM TypeCorrect == Spec => []TypeOK
<1>1. IInv => TypeOK
  BY DEF IInv
<1> QED  BY <1>1, Invariant, PTL

\* The data of every entry that index() returns lies inside the file, for every
\* archive, every size a damaged header may hold and every length the file may
\* be cut to (the comparison by subtraction, TarArchive.cpp:132-136).
THEOREM SlicesStayInside == Spec => []SlicesAreInside
<1>1. IInv => SlicesAreInside
  BY DEF IInv, EntriesAreInside, SlicesAreInside
<1> QED  BY <1>1, Invariant, PTL

-----------------------------------------------------------------------------
(* Names, as they are cleaned.                                             *)

\* How many pieces of a kind come first.
LEMMA LeadingIs ==
  ASSUME NEW A, NEW s \in Seq(A), NEW p, NEW c \in 0..Len(s),
         \A n \in 1..c : s[n] = p, c = Len(s) \/ s[c + 1] # p
  PROVE  Leading(s, p) = c
<1> DEFINE L == Len(s)
           runs == {j \in 0..L : \A i \in 1..j : s[i] = p}
<1>1. L \in Nat
  BY LenProperties
<1> HIDE DEF L
<1>2. c \in Nat /\ c <= L /\ c \in runs
  BY <1>1 DEF L
<1>3. ASSUME NEW j \in runs PROVE j <= c
  <2> SUFFICES ASSUME ~(j <= c) PROVE FALSE
    OBVIOUS
  <2>1. j \in Nat /\ j <= L
    BY <1>1
  <2> HIDE DEF runs
  <2>2. c + 1 \in 1..j /\ c # L
    BY <1>1, <1>2, <2>1
  <2>3. s[c + 1] = p
    BY <2>2 DEF runs
  <2> QED BY <2>2, <2>3 DEF L
<1>4. \A x \in runs : (\A j \in runs : j <= x) => x = c
  <2> TAKE x \in runs
  <2> SUFFICES ASSUME \A j \in runs : j <= x PROVE x = c
    OBVIOUS
  <2>1. x \in Nat
    BY <1>1
  <2> HIDE DEF runs
  <2>2. x <= c /\ c <= x
    BY <1>2, <1>3
  <2> QED BY <1>2, <2>1, <2>2
<1>5. (CHOOSE x \in runs : \A j \in runs : j <= x) = c
  BY <1>2, <1>3, <1>4
<1> QED BY <1>5 DEF Leading, L

\* Two lists of the same length with the same items are the same.
LEMMA SameList ==
  ASSUME NEW A, NEW s \in Seq(A), NEW t \in Seq(A), NEW L \in Nat, Len(s) = L, Len(t) = L,
         \A n \in 1..L : s[n] = t[n]
  PROVE  s = t
BY SeqEqual

\* The end of a list.
LEMMA RestIs ==
  ASSUME NEW A, NEW s \in Seq(A), NEW c \in 0..Len(s)
  PROVE  LET r == SubSeq(s, c + 1, Len(s))
         IN  /\ r \in Seq(A) /\ Len(r) = Len(s) - c
             /\ \A n \in 1..(Len(s) - c) : r[n] = s[c + n]
<1>1. Len(s) \in Nat /\ \A i \in 1..Len(s) : s[i] \in A
  BY ElementOfSeq
<1> DEFINE L == Len(s)
<1> HIDE DEF L
<1>2. L \in Nat /\ c \in Nat /\ c <= L /\ \A i \in (c + 1)..L : s[i] \in A
  BY <1>1 DEF L
<1>3. /\ SubSeq(s, c + 1, L) \in Seq(A)
      /\ Len(SubSeq(s, c + 1, L)) = IF c + 1 <= L THEN L - (c + 1) + 1 ELSE 0
      /\ \A i \in 1..(L - (c + 1) + 1) : SubSeq(s, c + 1, L)[i] = s[c + 1 + i - 1]
  BY <1>2, SubSeqProperties
<1>4. (IF c + 1 <= L THEN L - (c + 1) + 1 ELSE 0) = L - c /\ L - (c + 1) + 1 = L - c
  BY <1>2
<1>5. \A i \in 1..(L - c) : c + 1 + i - 1 = c + i
  BY <1>2
<1> QED BY <1>3, <1>4, <1>5 DEF L

\* cleanName takes off what is before the name.
LEMMA CleanIs ==
  ASSUME NEW A, NEW s \in Seq(A), NEW from \in 0..Len(s), NEW dots \in 0..from,
         \A n \in 1..dots : s[n] = "./", \A n \in (dots + 1)..from : s[n] = "/",
         from = Len(s) \/ s[from + 1] \notin {"./", "/"}
  PROVE  Clean(s) = SubSeq(s, from + 1, Len(s))
<1> DEFINE L == Len(s)
           plain == SubSeq(s, dots + 1, L)
<1>1. L \in Nat
  BY LenProperties
<1>2. dots \in Nat /\ from \in Nat /\ dots <= from /\ from <= L
  BY <1>1
<1>3. Leading(s, "./") = dots
  <2> HIDE DEF L
  <2>1. dots \in 0..L
    BY <1>1, <1>2
  <2>2. CASE dots = from
    BY <1>2, <2>1, <2>2, LeadingIs DEF L
  <2>3. CASE dots # from
    <3>1. dots + 1 \in (dots + 1)..from
      BY <1>2, <2>3
    <3>2. s[dots + 1] # "./"
      BY <3>1
    <3> QED BY <2>1, <3>2, LeadingIs DEF L
  <2> QED BY <2>2, <2>3
<1>4. /\ plain \in Seq(A) /\ Len(plain) = L - dots
      /\ \A n \in 1..(L - dots) : plain[n] = s[dots + n]
  <2>1. dots \in 0..L
    BY <1>1, <1>2
  <2> QED BY <2>1, RestIs
<1> HIDE DEF plain, L
<1>5. from - dots \in 0..(L - dots)
  BY <1>1, <1>2
<1>6. Leading(plain, "/") = from - dots
  <2>1. \A n \in 1..(from - dots) : n \in 1..(L - dots) /\ dots + n \in (dots + 1)..from
    BY <1>1, <1>2
  <2>2. \A n \in 1..(from - dots) : plain[n] = "/"
    BY <1>4, <2>1
  <2>3. from = L \/ (s[from + 1] # "/" /\ from + 1 <= L)
    BY <1>1, <1>2 DEF L
  <2>4. from = L => from - dots = Len(plain)
    BY <1>4
  <2>5. from + 1 <= L => /\ from - dots + 1 \in 1..(L - dots) /\ dots + (from - dots + 1) = from + 1
    BY <1>1, <1>2
  <2>6. from - dots = Len(plain) \/ plain[from - dots + 1] # "/"
    BY <1>4, <2>3, <2>4, <2>5
  <2>7. from - dots \in 0..Len(plain)
    BY <1>4, <1>5
  <2> HIDE DEF plain
  <2> QED BY <1>4, <2>2, <2>6, <2>7, LeadingIs
<1>7. SubSeq(plain, from - dots + 1, Len(plain)) = SubSeq(s, from + 1, L)
  <2> DEFINE r == SubSeq(plain, from - dots + 1, Len(plain))
             t == SubSeq(s, from + 1, L)
             M == L - from
  <2>1. /\ r \in Seq(A) /\ Len(r) = Len(plain) - (from - dots)
        /\ \A n \in 1..(Len(plain) - (from - dots)) : r[n] = plain[(from - dots) + n]
    <3> DEFINE c == from - dots
    <3>1. plain \in Seq(A) /\ c \in 0..Len(plain)
      BY <1>4, <1>5
    <3> HIDE DEF c
    <3>2. LET rest == SubSeq(plain, c + 1, Len(plain)) IN
          /\ rest \in Seq(A) /\ Len(rest) = Len(plain) - c
          /\ \A n \in 1..(Len(plain) - c) : rest[n] = plain[c + n]
      BY <3>1, RestIs
    <3> QED BY <3>2 DEF c
  <2>2. t \in Seq(A) /\ Len(t) = M /\ \A n \in 1..M : t[n] = s[from + n]
    <3>1. from \in 0..Len(s)
      OBVIOUS
    <3> QED BY <3>1, RestIs DEF L
  <2> HIDE DEF r, t
  <2>3. (L - dots) - (from - dots) = M /\ M \in Nat
    BY <1>1, <1>2
  <2>4. \A n \in 1..M : (from - dots) + n \in 1..(L - dots) /\ dots + ((from - dots) + n) = from + n
    BY <1>1, <1>2
  <2> HIDE DEF M
  <2>5. Len(r) = M
    BY <1>4, <2>1, <2>3
  <2>6. ASSUME NEW n \in 1..M PROVE r[n] = t[n]
    <3>1. r[n] = plain[(from - dots) + n]
      BY <1>4, <2>1, <2>3
    <3>2. plain[(from - dots) + n] = s[dots + ((from - dots) + n)]
      BY <1>4, <2>4
    <3> QED BY <2>2, <2>4, <3>1, <3>2
  <2>7. r = t
    BY <2>1, <2>2, <2>3, <2>5, <2>6, SameList
  <2> QED BY <2>7 DEF r, t
<1> QED BY <1>3, <1>6, <1>7 DEF Clean, plain, L

\* A directory's name loses the slashes after it.
LEMMA WithoutSlashesIs ==
  ASSUME NEW A, NEW s \in Seq(A), NEW to \in 1..Len(s), s[to] # "/",
         \A n \in (to + 1)..Len(s) : s[n] = "/"
  PROVE  WithoutSlashes(s) = SubSeq(s, 1, to)
<1> DEFINE L == Len(s)
           b == Reverse(s)
           r == SubSeq(b, L - to + 1, L)
<1>1. L \in Nat /\ \A i \in 1..L : s[i] \in A
  BY ElementOfSeq
<1>2. \A i \in 1..L : (L - i) + 1 \in 1..L
  BY <1>1
<1>3. b \in Seq(A) /\ Len(b) = L /\ \A i \in 1..L : b[i] = s[(L - i) + 1]
  <2>1. b = [i \in 1..L |-> s[(L - i) + 1]]
    BY DEF Reverse
  <2> HIDE DEF L, b
  <2>2. b \in [1..L -> A] /\ DOMAIN b = 1..L
    BY <1>1, <1>2, <2>1
  <2>3. b \in Seq(A)
    BY <1>1, <2>2, SeqDef
  <2> QED BY <1>1, <2>1, <2>2, <2>3, LenProperties
<1> HIDE DEF L, b
<1>4. to \in Nat /\ 1 <= to /\ to <= L /\ L - to \in 0..L
  BY <1>1 DEF L
<1>5. Leading(b, "/") = L - to
  <2>1. \A n \in 1..(L - to) : n \in 1..L /\ (L - n) + 1 \in (to + 1)..L
    BY <1>1, <1>4
  <2>2. \A n \in 1..(L - to) : b[n] = "/"
    BY <1>3, <2>1 DEF L
  <2>3. L - to + 1 \in 1..L /\ (L - (L - to + 1)) + 1 = to
    BY <1>1, <1>4
  <2>4. b[L - to + 1] # "/"
    BY <1>3, <2>3
  <2> QED BY <1>3, <1>4, <2>2, <2>4, LeadingIs
<1>6. r \in Seq(A) /\ Len(r) = to /\ \A n \in 1..to : r[n] = b[(L - to) + n]
  <2> DEFINE c == L - to
  <2>1. c \in 0..L /\ L - c = to
    BY <1>1, <1>4
  <2>2. r = SubSeq(b, c + 1, L)
    BY DEF r
  <2> HIDE DEF c, r
  <2>3. LET rest == SubSeq(b, c + 1, L) IN
        rest \in Seq(A) /\ Len(rest) = L - c /\ \A n \in 1..(L - c) : rest[n] = b[c + n]
    <3>1. b \in Seq(A) /\ c \in 0..Len(b)
      BY <1>3, <2>1
    <3>2. LET rest == SubSeq(b, c + 1, Len(b)) IN
          /\ rest \in Seq(A) /\ Len(rest) = Len(b) - c
          /\ \A n \in 1..(Len(b) - c) : rest[n] = b[c + n]
      BY <3>1, RestIs
    <3> QED BY <1>3, <3>2
  <2>4. r \in Seq(A) /\ Len(r) = to /\ \A n \in 1..to : r[n] = b[c + n]
    BY <2>1, <2>2, <2>3
  <2> QED BY <2>4 DEF c
<1> HIDE DEF r
<1>7. Reverse(r) = [i \in 1..to |-> s[i]]
  <2>1. Reverse(r) = [i \in 1..to |-> r[(to - i) + 1]]
    BY <1>6 DEF Reverse
  <2>2. ASSUME NEW i \in 1..to PROVE r[(to - i) + 1] = s[i]
    <3>1. (to - i) + 1 \in 1..to /\ (L - to) + ((to - i) + 1) = L - i + 1 /\ L - i + 1 \in 1..L
          /\ (L - (L - i + 1)) + 1 = i
      BY <1>1, <1>4
    <3>2. r[(to - i) + 1] = b[L - i + 1]
      BY <1>6, <3>1
    <3>3. b[L - i + 1] = s[(L - (L - i + 1)) + 1]
      BY <1>3, <3>1
    <3> QED BY <3>1, <3>2, <3>3
  <2> QED BY <2>1, <2>2
<1>8. SubSeq(s, 1, to) = [i \in 1..to |-> s[i]]
  <2> DEFINE t == SubSeq(s, 1, to)
  <2>1. \A i \in 1..to : s[i] \in A
    BY <1>1, <1>4
  <2>2. /\ t \in Seq(A) /\ Len(t) = (IF 1 <= to THEN to - 1 + 1 ELSE 0)
        /\ \A i \in 1..(to - 1 + 1) : t[i] = s[1 + i - 1]
    BY <1>4, <2>1, SubSeqProperties
  <2>3. (IF 1 <= to THEN to - 1 + 1 ELSE 0) = to /\ to - 1 + 1 = to /\ \A i \in 1..to : 1 + i - 1 = i
    BY <1>4
  <2> HIDE DEF t
  <2>4. t \in Seq(A) /\ Len(t) = to /\ \A i \in 1..to : t[i] = s[i]
    BY <2>2, <2>3
  <2>5. t \in [1..to -> A]
    BY <2>4, LenProperties
  <2>6. t = [i \in 1..to |-> s[i]]
    BY <2>4, <2>5
  <2> QED BY <2>6 DEF t
<1> QED BY <1>5, <1>7, <1>8 DEF WithoutSlashes, b, r, L

\* What cleanName makes of a name as tar writes it.
CleanSpells(written, name, isDirectory) ==
  LET clean == Clean(written) IN
  /\ name = <<>> => clean = <<>>
  /\ name # <<>> => /\ clean # <<>> /\ Last(clean) = Last(written)
                    /\ name = IF isDirectory THEN WithoutSlashes(clean) ELSE clean

\* cleanName undoes what tar puts around a name.
LEMMA SpelledIsClean ==
  ASSUME NEW written, NEW name, NEW isDirectory \in BOOLEAN, Spells(written, name, isDirectory)
  PROVE  CleanSpells(written, name, isDirectory)
<1> DEFINE A == {written[n] : n \in DOMAIN written}
           L == Len(written)
           clean == Clean(written)
<1>1. written \in Seq(A) /\ L \in Nat
  BY LenProperties DEF Spells
<1>2. PICK from \in 0..L : \E to \in from..L :
        /\ name = SubSeq(written, from + 1, to)
        /\ \E dots \in 0..from : /\ \A n \in 1..dots : written[n] = "./"
                                 /\ \A n \in (dots + 1)..from : written[n] = "/"
        /\ \A n \in (to + 1)..L : isDirectory /\ written[n] = "/"
        /\ from < to => /\ written[from + 1] \notin {"./", "/"}
                        /\ isDirectory => written[to] # "/"
  BY DEF Spells
<1>3. PICK to \in from..L :
        /\ name = SubSeq(written, from + 1, to)
        /\ \E dots \in 0..from : /\ \A n \in 1..dots : written[n] = "./"
                                 /\ \A n \in (dots + 1)..from : written[n] = "/"
        /\ \A n \in (to + 1)..L : isDirectory /\ written[n] = "/"
        /\ from < to => /\ written[from + 1] \notin {"./", "/"}
                        /\ isDirectory => written[to] # "/"
  BY <1>2
<1>4. PICK dots \in 0..from : /\ \A n \in 1..dots : written[n] = "./"
                              /\ \A n \in (dots + 1)..from : written[n] = "/"
  BY <1>3
<1> HIDE DEF A, L, clean
<1>5. /\ from \in Nat /\ to \in Nat /\ dots \in Nat /\ dots <= from /\ from <= to /\ to <= L
  BY <1>1
<1>6. \A i \in 1..L : written[i] \in A
  BY <1>1, ElementOfSeq DEF L
<1>7. Len(name) = (IF from + 1 <= to THEN to - (from + 1) + 1 ELSE 0) /\ name \in Seq(A)
  <2>1. \A i \in (from + 1)..to : written[i] \in A
    BY <1>1, <1>5, <1>6
  <2>2. from + 1 \in Int /\ to \in Int
    BY <1>5
  <2> QED BY <1>3, <2>1, <2>2, SubSeqProperties
<1>8. CASE from = to
  <2>1. name = <<>>
    <3>1. from + 1 \in Int /\ to \in Int /\ to < from + 1
      BY <1>5, <1>8
    <3> QED BY <1>3, <3>1, SubSeqEmpty
  <2>2. \A n \in (dots + 1)..L : written[n] = "/"
    <3>1. \A n \in (dots + 1)..L : n \in (dots + 1)..from \/ n \in (to + 1)..L
      BY <1>1, <1>5, <1>8
    <3> QED BY <1>3, <1>4, <3>1
  <2>3. dots \in 0..L /\ L \in 0..L
    BY <1>1, <1>5
  <2>4. clean = SubSeq(written, L + 1, L)
    BY <1>1, <1>4, <2>2, <2>3, CleanIs DEF L, clean
  <2>5. L + 1 \in Int /\ L \in Int /\ L < L + 1
    BY <1>1
  <2>6. clean = <<>>
    BY <2>4, <2>5, SubSeqEmpty
  <2> QED BY <2>1, <2>6 DEF CleanSpells, clean
<1>9. CASE from < to
  <2>1. clean = SubSeq(written, from + 1, L)
    <3>1. from \in 0..L /\ written[from + 1] \notin {"./", "/"}
      BY <1>1, <1>3, <1>5, <1>9
    <3> QED BY <1>1, <1>4, <3>1, CleanIs DEF L, clean
  <2>2. /\ clean \in Seq(A) /\ Len(clean) = L - from
        /\ \A n \in 1..(L - from) : clean[n] = written[from + n]
    BY <1>1, <2>1, RestIs DEF L
  <2>3. L - from \in Nat /\ L - from >= 1 /\ from + (L - from) = L
    BY <1>1, <1>5, <1>9
  <2>4. clean # <<>>
    BY <2>2, <2>3
  <2>5. Last(clean) = Last(written)
    <3>1. L - from \in 1..(L - from)
      BY <2>3
    <3>2. clean[Len(clean)] = written[L]
      BY <2>2, <2>3, <3>1
    <3> QED BY <3>2 DEF Last, L
  <2>6. name # <<>>
    <3>1. (IF from + 1 <= to THEN to - (from + 1) + 1 ELSE 0) > 0
      BY <1>5, <1>9
    <3> QED BY <1>7, <3>1
  <2>7. CASE ~isDirectory
    <3>1. to = L
      <4> SUFFICES ASSUME to # L PROVE FALSE
        OBVIOUS
      <4>1. to + 1 \in (to + 1)..L
        BY <1>1, <1>5
      <4> QED BY <1>3, <2>7, <4>1
    <3> QED BY <1>3, <2>1, <2>4, <2>5, <2>6, <2>7, <3>1 DEF CleanSpells, clean
  <2>8. CASE isDirectory
    <3> DEFINE c == to - from
               r == SubSeq(clean, 1, c)
    <3>1. c \in 1..(L - from) /\ from + c = to /\ c \in Nat
      BY <1>1, <1>5, <1>9
    <3> HIDE DEF c
    <3>2. clean[c] # "/"
      BY <1>3, <1>9, <2>2, <2>8, <3>1
    <3>3. \A n \in (c + 1)..(L - from) : n \in 1..(L - from) /\ from + n \in (to + 1)..L
      BY <1>1, <1>5, <3>1
    <3>4. \A n \in (c + 1)..Len(clean) : clean[n] = "/"
      BY <1>3, <2>2, <3>3
    <3>5. WithoutSlashes(clean) = r
      BY <2>2, <3>1, <3>2, <3>4, WithoutSlashesIs
    <3>6. r \in Seq(A) /\ Len(r) = c /\ \A n \in 1..c : r[n] = written[from + n]
      <4>1. \A i \in 1..c : clean[i] \in A /\ i \in 1..(L - from)
        BY <2>2, <2>3, <3>1, ElementOfSeq
      <4>2. /\ r \in Seq(A) /\ Len(r) = (IF 1 <= c THEN c - 1 + 1 ELSE 0)
            /\ \A i \in 1..(c - 1 + 1) : r[i] = clean[1 + i - 1]
        BY <3>1, <4>1, SubSeqProperties
      <4>3. (IF 1 <= c THEN c - 1 + 1 ELSE 0) = c /\ c - 1 + 1 = c /\ \A i \in 1..c : 1 + i - 1 = i
        BY <3>1
      <4> HIDE DEF r
      <4> QED BY <2>2, <4>1, <4>2, <4>3
    <3>7. Len(name) = c /\ \A n \in 1..c : name[n] = written[from + n]
      <4>1. \A i \in (from + 1)..to : written[i] \in A
        BY <1>1, <1>5, <1>6
      <4>2. \A i \in 1..(to - (from + 1) + 1) : name[i] = written[(from + 1) + i - 1]
        BY <1>3, <1>5, <4>1, SubSeqProperties
      <4>3. to - (from + 1) + 1 = c /\ from + 1 <= to /\ \A i \in 1..c : (from + 1) + i - 1 = from + i
        BY <1>5, <1>9, <3>1
      <4> QED BY <1>7, <4>2, <4>3
    <3> HIDE DEF r
    <3>8. name = r
      <4>1. c \in Nat /\ \A n \in 1..c : name[n] = r[n]
        BY <3>1, <3>6, <3>7
      <4> QED BY <1>7, <3>6, <3>7, <4>1, SameList
    <3> QED BY <2>4, <2>5, <2>6, <2>8, <3>5, <3>8 DEF CleanSpells, clean
  <2> QED BY <2>7, <2>8
<1> QED BY <1>5, <1>8, <1>9

\* What index() makes of a member's header, once the fields are right.
LEMMA EntryIsTheMember ==
  ASSUME Header.type \in MemberTypes, NEW m,
         MemberIsSound(m, Header.type, NameSaid, SizeSaid, LinkSaid, DataOffset)
  PROVE  Entry = m /\ Entry.name # <<>>
<1> DEFINE clean == Clean(NameSaid)
<1>1. /\ m.name # <<>> /\ Spells(NameSaid, m.name, m.type = "directory")
      /\ Header.type = "0" => (m.type = "directory" <=> Last(NameSaid) = "/")
      /\ m = [name |-> m.name, type |-> m.type, size |-> IF m.type = "file" THEN SizeSaid ELSE 0,
              offset |-> DataOffset, link |-> LinkSaid]
  BY DEF MemberIsSound
<1>2. CleanSpells(NameSaid, m.name, m.type = "directory")
  BY <1>1, SpelledIsClean
<1>3. /\ clean # <<>> /\ Last(clean) = Last(NameSaid)
      /\ m.name = IF m.type = "directory" THEN WithoutSlashes(clean) ELSE clean
  BY <1>1, <1>2 DEF CleanSpells
<1>4. m.type = Entry.type
  <2>1. Header.type = "0" => m.type \in {"file", "directory"}
    BY DEF MemberIsSound
  <2>2. Header.type = "5" => m.type = "directory"
    BY DEF MemberIsSound
  <2>3. Header.type = "2" => m.type = "symlink"
    BY DEF MemberIsSound
  <2>4. Header.type \in {"1", "6"} => m.type = "other"
    BY DEF MemberIsSound
  <2> HIDE DEF clean
  <2>5. Entry.type = CASE Header.type = "5" -> "directory"
                       [] Header.type = "2" -> "symlink"
                       [] Header.type = "0" -> IF EndsInSlash(clean) THEN "directory" ELSE "file"
                       [] OTHER -> "other"
    BY DEF Entry, clean
  <2> QED BY <1>1, <1>3, <2>1, <2>2, <2>3, <2>4, <2>5 DEF EndsInSlash, MemberTypes
<1>5. Entry = [name |-> IF m.type = "directory" THEN WithoutSlashes(clean) ELSE clean,
               type |-> m.type, size |-> IF m.type = "file" THEN SizeSaid ELSE 0,
               offset |-> DataOffset, link |-> LinkSaid]
  BY <1>4 DEF Entry
<1> HIDE DEF clean
<1> QED BY <1>1, <1>3, <1>5

\* The root's own part has no entry.
LEMMA RootHasNoEntry ==
  ASSUME Spells(NameSaid, <<>>, TRUE)
  PROVE  Entry.name = <<>>
<1>1. Clean(NameSaid) = <<>>
  BY SpelledIsClean DEF CleanSpells
<1>2. WithoutSlashes(<<>>) = <<>>
  <2>1. Reverse(<<>>) = <<>>
    BY DEF Reverse
  <2>2. <<>> \in Seq({}) /\ Len(<<>>) = 0
    OBVIOUS
  <2>3. Leading(<<>>, "/") = 0
    <3>1. {j \in 0..0 : \A i \in 1..j : <<>>[i] = "/"} = {0}
      OBVIOUS
    <3>2. \A x \in {0} : (\A j \in {0} : j <= x) => x = 0
      OBVIOUS
    <3>3. (CHOOSE x \in {0} : \A j \in {0} : j <= x) = 0
      BY <3>2
    <3> QED BY <2>2, <3>1, <3>3 DEF Leading
  <2>4. SubSeq(<<>>, 0 + 1, 0) = <<>>
    BY SubSeqEmpty
  <2> QED BY <2>1, <2>2, <2>3, <2>4 DEF WithoutSlashes
<1> QED BY <1>1, <1>2 DEF Entry

-----------------------------------------------------------------------------
(* Where the parts of an archive and its members are.                      *)

\* The library's well-foundedness of the naturals, as the proofs below use it.
LEMMA NatSet ==
  ASSUME NEW S, 0 \in S, \A n \in Nat : n \in S => n + 1 \in S
  PROVE  Nat \subseteq S
<1>1. IsWellFoundedOn(OpToRel(<, Nat), Nat)
  BY NatLessThanWellFounded
<1>2. SUFFICES ASSUME NEW x \in Nat, x \notin S PROVE FALSE
  OBVIOUS
<1>3. \E y \in Nat \ S : \A z \in Nat \ S : ~(<<z, y>> \in OpToRel(<, Nat))
  BY <1>1, <1>2, WFMin
<1>4. PICK y \in Nat \ S : \A z \in Nat \ S : ~(z < y)
  BY <1>3 DEF OpToRel
<1>5. y # 0 /\ y - 1 \in Nat
  BY <1>4
<1>6. y - 1 \in S
  BY <1>4, <1>5
<1> QED BY <1>4, <1>5, <1>6

SizeOf(a, p) == Recorded(a.blocks, a.parts[p], "size", a.blocks[a.parts[p].own].size)
NameOf(a, p) == Recorded(a.blocks, a.parts[p], "path", FullName(a.blocks[a.parts[p].own]))
LinkOf(a, p) == Recorded(a.blocks, a.parts[p], "linkpath", a.blocks[a.parts[p].own].link)

\* An archive and its parts, typed; the last part is the end mark.
LEMMA PartsAre ==
  ASSUME NEW a, Sound(a.blocks), WrittenByTar(a)
  PROVE  /\ Len(a.parts) \in Nat \ {0} /\ Len(a.members) \in Nat /\ Len(a.blocks) \in Nat
         /\ DOMAIN a.members = 1..Len(a.members) /\ DOMAIN a.blocks = 1..Len(a.blocks)
         /\ \A p \in 1..Len(a.parts) : /\ a.parts[p].first \in Nat /\ a.parts[p].own \in Nat
                                       /\ a.parts[p].before \in Nat
         /\ a.parts[Len(a.parts)].before = Len(a.members)
         /\ a.parts[Len(a.parts)].first \in 1..Len(a.blocks)
         /\ a.blocks[a.parts[Len(a.parts)].first].is = "zeros"
<1>1. /\ a.parts \in Seq([first : Nat, own : Nat, before : Nat]) /\ a.parts # <<>>
      /\ a.members \in Seq({a.members[i] : i \in DOMAIN a.members})
      /\ a.blocks \in Seq({a.blocks[i] : i \in DOMAIN a.blocks})
  BY DEF Sound, WrittenByTar
<1>2. /\ Len(a.parts) \in Nat /\ Len(a.members) \in Nat /\ Len(a.blocks) \in Nat
      /\ DOMAIN a.members = 1..Len(a.members) /\ DOMAIN a.blocks = 1..Len(a.blocks)
  BY <1>1, LenProperties
<1>3. Len(a.parts) # 0
  BY <1>1, EmptySeq
<1>4. \A p \in 1..Len(a.parts) : a.parts[p] \in [first : Nat, own : Nat, before : Nat]
  BY <1>1, ElementOfSeq
<1>6. \A p \in 1..Len(a.parts) : a.parts[p].first \in Nat /\ a.parts[p].own \in Nat /\ a.parts[p].before \in Nat
  BY <1>4
<1>5. Last(a.parts) = a.parts[Len(a.parts)]
  BY DEF Last
<1>7. /\ a.parts[Len(a.parts)].before = Len(a.members)
      /\ a.parts[Len(a.parts)].first \in DOMAIN a.blocks
      /\ a.blocks[a.parts[Len(a.parts)].first].is = "zeros"
  BY <1>5 DEF WrittenByTar
<1> QED BY <1>2, <1>3, <1>6, <1>7

\* A part's size is a word, and fits in the blocks that are there for it.
LEMMA SizeIsAWord ==
  ASSUME NEW a, Sound(a.blocks), WrittenByTar(a), NEW p \in 1..(Len(a.parts) - 1)
  PROVE  SizeOf(a, p) \in 0..(Word - 1) /\ a.blocks[a.parts[p].own].size \in 0..(Word - 1)
<1> DEFINE part == a.parts[p]
           own == a.blocks[part.own]
           by == {i \in Announcing(a.blocks, part) : Announces(a.blocks, i, "size")}
<1>0. PartIsSound(a, p)
  BY DEF WrittenByTar
<1>1. /\ part.own \in DOMAIN a.blocks /\ own.is = "header" /\ part.first \in 1..part.own
      /\ DOMAIN a.blocks = 1..Len(a.blocks) /\ Len(a.blocks) \in Nat /\ part.own \in Nat
  <2>1. part.own \in DOMAIN a.blocks /\ own.is = "header" /\ part.first \in 1..part.own
    BY <1>0 DEF PartIsSound
  <2>2. DOMAIN a.blocks = 1..Len(a.blocks) /\ Len(a.blocks) \in Nat
    BY PartsAre
  <2> QED BY <2>1, <2>2
<1>2. own.size \in 0..(Word - 1)
  BY <1>1 DEF Sound, HeaderIsSound
<1>3. CASE by = {}
  BY <1>2, <1>3 DEF SizeOf, Recorded
<1>4. CASE by # {}
  <2> DEFINE i == CHOOSE x \in by : TRUE
  <2>1. i \in by
    BY <1>4
  <2> HIDE DEF i
  <2>2. i \in Announcing(a.blocks, part) /\ Announces(a.blocks, i, "size")
    BY <2>1
  <2>3. /\ a.blocks[i].type = "x" /\ "size" \in DOMAIN a.blocks[i + 1].text
        /\ a.blocks[i].is = "header" /\ i \in part.first..(part.own - 1)
    BY <2>2 DEF Announcing, Announces
  <2>4. i \in DOMAIN a.blocks
    <3> DEFINE first == part.first
               last == part.own
               L == Len(a.blocks)
    <3>1. /\ i \in first..(last - 1) /\ first \in 1..last
          /\ last \in 1..L /\ L \in Nat /\ last \in Nat
      BY <1>1, <2>3
    <3> HIDE DEF first, last, L, part
    <3>2. i \in 1..L
      BY <3>1
    <3> QED BY <1>1, <3>2 DEF L
  <2>5. PaxSaysWell(a.blocks[i + 1].text)
    BY <2>3, <2>4 DEF Sound, HeaderIsSound
  <2>6. SizeOf(a, p) = a.blocks[i + 1].text["size"]
    BY <1>4, <2>3 DEF SizeOf, Recorded, Announced, i
  <2> QED BY <1>2, <2>3, <2>5, <2>6 DEF PaxSaysWell
<1> QED BY <1>3, <1>4

\* A word is a natural number.
LEMMA WordIsNat ==
  ASSUME NEW s \in 0..63
  PROVE  s \in Nat
OBVIOUS

\* A member's record, field by field.
LEMMA RecordedIs ==
  ASSUME NEW m, NEW n, NEW t, NEW s, NEW o, NEW l,
         m = [name |-> n, type |-> t, size |-> s, offset |-> o, link |-> l]
  PROVE  m.name = n /\ m.type = t /\ m.size = s /\ m.offset = o /\ m.link = l
OBVIOUS

\* Where a member's data is and how much of it counts.
Counted(type, size) == IF type = "file" THEN size ELSE 0

LEMMA SoundMemberIs ==
  ASSUME NEW m, NEW type, NEW written, NEW size, NEW link, NEW offset,
         MemberIsSound(m, type, written, size, link, offset)
  PROVE  /\ m.offset = offset /\ m.size = Counted(m.type, size)
         /\ m.type # "file" /\ HasData(type) => size = 0
<1> DEFINE r == [name |-> m.name, type |-> m.type, size |-> Counted(m.type, size),
                 offset |-> offset, link |-> link]
<1>1. m = r /\ (m.type # "file" /\ HasData(type) => size = 0)
  BY DEF MemberIsSound, Counted
<1>2. r.offset = offset /\ r.size = Counted(m.type, size)
  OBVIOUS
<1> HIDE DEF r
<1> QED BY <1>1, <1>2

\* One more, or no more, when one is behind.
LEMMA JustBehind ==
  ASSUME NEW b \in Nat, NEW c, c = b \/ c = b + 1, NEW k \in Nat, k > b, ~(k > c)
  PROVE  k = c /\ c = b + 1
OBVIOUS

\* As many blocks as a size needs.
LEMMA BlocksAre ==
  ASSUME NEW s \in 0..63
  PROVE  BlocksFor(s) \in Nat /\ Block * BlocksFor(s) >= s /\ Block * BlocksFor(s) <= s + 1
BY DEF BlocksFor, Block

\* What PartIsSound says of a part, as far as places go.
LEMMA PartIs ==
  ASSUME NEW a, Sound(a.blocks), WrittenByTar(a), NEW p \in 1..(Len(a.parts) - 1)
  PROVE  /\ p \in 1..Len(a.parts) /\ p + 1 \in 1..Len(a.parts)
         /\ a.parts[p].own \in DOMAIN a.blocks /\ a.parts[p].first \in 1..a.parts[p].own
         /\ a.parts[p + 1].first >= a.parts[p].own + 1
         /\ HasData(a.blocks[a.parts[p].own].type) =>
              Block * (a.parts[p + 1].first - 1) >= Block * a.parts[p].own + SizeOf(a, p)
         /\ \/ a.parts[p + 1].before = a.parts[p].before
            \/ /\ a.parts[p + 1].before = a.parts[p].before + 1
               /\ MemberIsSound(a.members[a.parts[p + 1].before], a.blocks[a.parts[p].own].type,
                                NameOf(a, p), SizeOf(a, p), LinkOf(a, p), Block * a.parts[p].own)
<1>0. Len(a.parts) \in Nat /\ p \in Nat
  BY PartsAre
<1>0a. p \in 1..Len(a.parts) /\ p + 1 \in 1..Len(a.parts)
  BY <1>0
<1>1. /\ p \in 1..Len(a.parts) /\ p + 1 \in 1..Len(a.parts) /\ a.parts[p].own \in Nat
      /\ a.parts[p + 1].first \in Nat
  BY <1>0a, PartsAre
<1>2. SizeOf(a, p) \in 0..63
  <2>1. SizeOf(a, p) \in 0..(Word - 1)
    BY SizeIsAWord, Zenon
  <2> QED BY <2>1 DEF Word
<1>3. PartIsSound(a, p)
  BY DEF WrittenByTar
<1>4. a.parts[p + 1].first =
        a.parts[p].own + 1 + IF HasData(a.blocks[a.parts[p].own].type) THEN BlocksFor(SizeOf(a, p)) ELSE 0
  BY <1>3 DEF PartIsSound, SizeOf
<1>5. /\ BlocksFor(SizeOf(a, p)) \in Nat /\ Block * BlocksFor(SizeOf(a, p)) >= SizeOf(a, p)
      /\ SizeOf(a, p) \in Nat
  <2>1. BlocksFor(SizeOf(a, p)) \in Nat /\ Block * BlocksFor(SizeOf(a, p)) >= SizeOf(a, p)
    BY <1>2, BlocksAre, Zenon
  <2>2. SizeOf(a, p) \in Nat
    BY <1>2, WordIsNat, Zenon
  <2> QED BY <2>1, <2>2, Zenon
<1> DEFINE after == a.parts[p + 1].first
           own == a.parts[p].own
           blocks == BlocksFor(SizeOf(a, p))
           size == SizeOf(a, p)
           data == HasData(a.blocks[a.parts[p].own].type)
<1>a. /\ after \in Nat /\ own \in Nat /\ blocks \in Nat /\ size \in Nat /\ 2 * blocks >= size
      /\ after = own + 1 + IF data THEN blocks ELSE 0
  BY <1>1, <1>4, <1>5 DEF Block
<1>b. after >= own + 1 /\ (data => 2 * (after - 1) >= 2 * own + size)
  <2> HIDE DEF after, own, blocks, size, data
  <2>1. CASE data
    BY <1>a, <2>1
  <2>2. CASE ~data
    BY <1>a, <2>2
  <2> QED BY <2>1, <2>2
<1>6. a.parts[p + 1].first >= a.parts[p].own + 1
  BY <1>b
<1>7. HasData(a.blocks[a.parts[p].own].type) =>
        2 * (a.parts[p + 1].first - 1) >= 2 * a.parts[p].own + SizeOf(a, p)
  BY <1>b
<1>8. \/ a.parts[p + 1].before = a.parts[p].before
      \/ /\ a.parts[p + 1].before = a.parts[p].before + 1
         /\ MemberIsSound(a.members[a.parts[p + 1].before], a.blocks[a.parts[p].own].type,
                          NameOf(a, p), SizeOf(a, p), LinkOf(a, p), Block * a.parts[p].own)
  BY <1>3 DEF PartIsSound, SizeOf, NameOf, LinkOf
<1>9. a.parts[p].own \in DOMAIN a.blocks /\ a.parts[p].first \in 1..a.parts[p].own
  BY <1>3 DEF PartIsSound
<1> QED BY <1>1, <1>6, <1>7, <1>8, <1>9 DEF Block

\* The members that no part before p holds are in the part p or behind it.
Behind(a, p) ==
  \A k \in 1..Len(a.members) :
    k > a.parts[p].before => /\ a.members[k].offset \in Nat /\ a.members[k].size \in Nat
                             /\ a.members[k].offset >= Block * a.parts[p].first
                             /\ a.members[k].offset >= Block * a.parts[p].own

\* By induction from the end mark back to the first part.
LEMMA MembersAreBehind ==
  ASSUME NEW a, Sound(a.blocks), WrittenByTar(a), NEW p \in 1..Len(a.parts)
  PROVE  Behind(a, p) /\ a.parts[p].before <= Len(a.members)
<1> DEFINE L == Len(a.parts)
           Covers(q) == Behind(a, q) /\ a.parts[q].before <= Len(a.members)
           S == {n \in Nat : \A q \in 1..L : L - q = n => Covers(q)}
<1>1. L \in Nat \ {0} /\ Len(a.members) \in Nat
  BY PartsAre
<1> HIDE DEF L
<1>2. 0 \in S
  <2> SUFFICES ASSUME NEW q \in 1..L, L - q = 0 PROVE Covers(q)
    OBVIOUS
  <2>1. q = L
    BY <1>1
  <2>2. a.parts[q].before = Len(a.members)
    BY <2>1, PartsAre DEF L
  <2>3. \A k \in 1..Len(a.members) : ~(k > a.parts[q].before)
    BY <1>1, <2>2
  <2> QED BY <1>1, <2>2, <2>3 DEF Behind
<1>3. ASSUME NEW n \in Nat, n \in S PROVE n + 1 \in S
  <2> SUFFICES ASSUME NEW q \in 1..L, L - q = n + 1 PROVE Covers(q)
    OBVIOUS
  <2>1. q \in 1..(L - 1) /\ q + 1 \in 1..L /\ L - (q + 1) = n
    BY <1>1
  <2>2. Covers(q + 1)
    BY <1>3, <2>1
  <2>3. /\ a.parts[q].own \in Nat /\ a.parts[q].first \in 1..a.parts[q].own
        /\ a.parts[q + 1].first >= a.parts[q].own + 1
        /\ a.parts[q + 1].first \in Nat /\ a.parts[q].before \in Nat
    <3>1. q \in 1..(Len(a.parts) - 1) /\ q \in 1..Len(a.parts) /\ q + 1 \in 1..Len(a.parts)
      BY <2>1 DEF L
    <3>2. /\ a.parts[q].own \in Nat /\ a.parts[q + 1].first \in Nat /\ a.parts[q].before \in Nat
      BY <3>1, PartsAre
    <3>3. a.parts[q].first \in 1..a.parts[q].own /\ a.parts[q + 1].first >= a.parts[q].own + 1
      BY <3>1, PartIs
    <3> QED BY <3>2, <3>3
  <2>4. \/ a.parts[q + 1].before = a.parts[q].before
        \/ /\ a.parts[q + 1].before = a.parts[q].before + 1
           /\ MemberIsSound(a.members[a.parts[q + 1].before], a.blocks[a.parts[q].own].type,
                            NameOf(a, q), SizeOf(a, q), LinkOf(a, q), Block * a.parts[q].own)
    BY <2>1, PartIs DEF L
  <2>5. a.parts[q].before <= Len(a.members)
    <3>1. a.parts[q + 1].before <= Len(a.members)
      BY <2>2
    <3>2. a.parts[q + 1].before = a.parts[q].before \/ a.parts[q + 1].before = a.parts[q].before + 1
      BY <2>4
    <3> QED BY <1>1, <2>3, <3>1, <3>2
  <2>6. ASSUME NEW k \in 1..Len(a.members), k > a.parts[q].before
        PROVE  /\ a.members[k].offset \in Nat /\ a.members[k].size \in Nat
               /\ a.members[k].offset >= Block * a.parts[q].first
               /\ a.members[k].offset >= Block * a.parts[q].own
    <3>1. CASE k > a.parts[q + 1].before
      <4>1. /\ a.members[k].offset \in Nat /\ a.members[k].size \in Nat
            /\ a.members[k].offset >= Block * a.parts[q + 1].first
        BY <2>2, <3>1 DEF Behind
      <4> DEFINE o == a.members[k].offset
                 f == a.parts[q].first
                 w == a.parts[q].own
                 g == a.parts[q + 1].first
      <4>2. /\ o \in Nat /\ f \in 1..w /\ w \in Nat /\ g \in Nat /\ g >= w + 1 /\ o >= 2 * g
        BY <2>3, <4>1 DEF Block
      <4>3. o >= 2 * f /\ o >= 2 * w
        <5> HIDE DEF o, f, w, g
        <5> QED BY <4>2
      <4> QED BY <4>1, <4>3 DEF Block
    <3>2. CASE ~(k > a.parts[q + 1].before)
      <4>1. k = a.parts[q + 1].before /\ a.parts[q + 1].before = a.parts[q].before + 1
        <5>1. a.parts[q + 1].before = a.parts[q].before \/ a.parts[q + 1].before = a.parts[q].before + 1
          BY <2>4
        <5>2. a.parts[q].before \in Nat /\ k \in Nat
          BY <1>1, <2>3
        <5> QED BY <2>6, <3>2, <5>1, <5>2, JustBehind, Zenon
      <4>2. MemberIsSound(a.members[k], a.blocks[a.parts[q].own].type,
                          NameOf(a, q), SizeOf(a, q), LinkOf(a, q), Block * a.parts[q].own)
        BY <2>3, <2>4, <4>1
      <4>3. /\ a.members[k].offset = Block * a.parts[q].own
            /\ a.members[k].size = SizeOf(a, q) \/ a.members[k].size = 0
        <5>1. /\ a.members[k].size = Counted(a.members[k].type, SizeOf(a, q))
              /\ a.members[k].offset = Block * a.parts[q].own
          BY <4>2, SoundMemberIs
        <5> QED BY <5>1 DEF Counted
      <4>4. SizeOf(a, q) \in Nat
        <5>1. q \in 1..(Len(a.parts) - 1)
          BY <2>1 DEF L
        <5>2. SizeOf(a, q) \in 0..(Word - 1)
          BY <5>1, SizeIsAWord, Zenon
        <5>3. Word - 1 = 63
          BY DEF Word
        <5> QED BY <5>2, <5>3, WordIsNat, Zenon
      <4> DEFINE f == a.parts[q].first
                 w == a.parts[q].own
      <4>5. 2 * w \in Nat /\ 2 * w >= 2 * f
        <5>1. f \in 1..w /\ w \in Nat
          BY <2>3
        <5> HIDE DEF f, w
        <5> QED BY <5>1
      <4> DEFINE o == a.members[k].offset
                 z == a.members[k].size
                 size == SizeOf(a, q)
      <4>6. o = 2 * w /\ (z = size \/ z = 0) /\ size \in Nat
        BY <4>3, <4>4 DEF Block
      <4> HIDE DEF o, z, size, f, w
      <4>7. o \in Nat /\ z \in Nat /\ o >= 2 * f /\ o >= 2 * w
        BY <4>5, <4>6
      <4> QED BY <4>7 DEF o, z, f, w, Block
    <3> QED BY <3>1, <3>2
  <2> QED BY <2>5, <2>6 DEF Behind
<1> HIDE DEF S
<1>4. Nat \subseteq S
  BY <1>2, <1>3, NatSet
<1>5. L - p \in S /\ p \in 1..L
  BY <1>1, <1>4 DEF L
<1> QED BY <1>5 DEF S

-----------------------------------------------------------------------------
(* How far the walk has come.                                              *)

\* What the headers of the part before block i say of its member, and nothing else.
Says(name, link, records, blocks, part, i) ==
  LET Before == {j \in Announcing(blocks, part) : j < i} IN
  /\ \A j \in Before : blocks[j].type = "L" => name = blocks[j + 1].text
  /\ (\A j \in Before : blocks[j].type # "L") => name = <<>>
  /\ \A j \in Before : blocks[j].type = "K" => link = blocks[j + 1].text
  /\ (\A j \in Before : blocks[j].type # "K") => link = <<>>
  /\ \A j \in Before : blocks[j].type = "x" => \A field \in DOMAIN blocks[j + 1].text :
                          field \in DOMAIN records /\ records[field] = blocks[j + 1].text[field]
  /\ \A field \in DOMAIN records :
       \E j \in Before : blocks[j].type = "x" /\ field \in DOMAIN blocks[j + 1].text

SaidFits(blocks, part, i) == Says(longName, longLink, pax, blocks, part, i)

\* The next read is at block i, a header of part p or the end mark, and every
\* member before that part has been listed.
Place(a, p, i) ==
  /\ i \in Nat /\ position = Block * (i - 1)
  /\ Len(entries) = a.parts[p].before
  /\ p = Len(a.parts) => i = a.parts[p].first
  /\ p # Len(a.parts) => /\ i \in Announcing(a.blocks, a.parts[p]) \cup {a.parts[p].own}
                         /\ SaidFits(a.blocks, a.parts[p], i)

\* The entries are the first of the members.
Begins(a) == /\ Len(entries) <= Len(a.members)
             /\ \A n \in 1..Len(entries) : entries[n] = a.members[n]

\* No member that is not listed was complete.
RestIsCut(a) == \A k \in 1..Len(a.members) :
                  k > Len(entries) => a.members[k].offset + a.members[k].size > fileSize

\* An error with all of the file there: it ends in no member's data.
EndsInAHeader(a) == \/ growths > 0
                    \/ /\ fileSize % Block # 0
                       /\ \A k \in 1..Len(a.members) : ~EndsInDataOf(a.members[k])

\* How far the walk has come in the archive a.
Walk(a) ==
  /\ archive = a.blocks /\ members = a.members
  /\ Begins(a)
  /\ status = "reading" => \E p \in 1..Len(a.parts) : \E i \in 1..Len(a.blocks) : Place(a, p, i)
  /\ status = "listed" => RestIsCut(a)
  /\ status = "error" => EndsInAHeader(a)

\* The walk is through an archive that tar wrote, unless it was damaged.
FromTar == ~damaged => \E a \in Archives : Walk(a)

\* The walk is about to read block i, in part p.
Reading(a, p, i) ==
  /\ a \in Archives /\ archive = a.blocks /\ members = a.members /\ Begins(a)
  /\ p \in 1..Len(a.parts) /\ i \in 1..Len(a.blocks) /\ Place(a, p, i)

AtMember(a, p, i) ==
  /\ p \in 1..(Len(a.parts) - 1) /\ PartIsSound(a, p) /\ i = a.parts[p].own
  /\ Header.is = "header" /\ Header.type \in MemberTypes
  /\ SaidFits(a.blocks, a.parts[p], i)

AtAnnouncement(a, p, i) ==
  /\ p \in 1..(Len(a.parts) - 1) /\ PartIsSound(a, p)
  /\ i \in Announcing(a.blocks, a.parts[p]) /\ i < a.parts[p].own
  /\ AnnouncementIsSound(a.blocks, a.parts[p], i)
  /\ Header.is = "header" /\ Header.type \in {"L", "K", "x", "g"}
  /\ SaidFits(a.blocks, a.parts[p], i)

\* What the walk finds there.
LEMMA HereIs ==
  ASSUME NEW a, NEW p, NEW i, Reading(a, p, i)
  PROVE  /\ Sound(a.blocks) /\ WrittenByTar(a)
         /\ Header = a.blocks[i] /\ position = Block * (i - 1) /\ DataOffset = Block * i /\ i \in Nat \ {0}
         /\ \/ p = Len(a.parts) /\ Header.is = "zeros"
            \/ AtMember(a, p, i)
            \/ AtAnnouncement(a, p, i)
<1>1. Sound(a.blocks) /\ WrittenByTar(a)
  BY ArchivesAssumption DEF Reading
<1>2. /\ Len(a.parts) \in Nat /\ Len(a.blocks) \in Nat
      /\ a.blocks[a.parts[Len(a.parts)].first].is = "zeros"
  BY <1>1, PartsAre
<1>3. i \in Nat \ {0} /\ position = Block * (i - 1)
  BY <1>2 DEF Reading, Place
<1>4. position \div Block + 1 = i /\ DataOffset = Block * i
  BY <1>3 DEF Block, DataOffset
<1>5. Header = a.blocks[i]
  BY <1>4 DEF Header, Reading
<1>6. CASE p = Len(a.parts)
  BY <1>1, <1>2, <1>3, <1>4, <1>5, <1>6 DEF Reading, Place
<1>7. CASE p # Len(a.parts)
  <2>1. p \in 1..(Len(a.parts) - 1)
    BY <1>2, <1>7 DEF Reading
  <2>2. PartIsSound(a, p)
    BY <1>1, <2>1 DEF WrittenByTar
  <2>3. /\ i \in Announcing(a.blocks, a.parts[p]) \cup {a.parts[p].own}
        /\ SaidFits(a.blocks, a.parts[p], i)
    BY <1>7 DEF Reading, Place
  <2>4. CASE i = a.parts[p].own
    <3>1. Header.is = "header" /\ Header.type \in MemberTypes
      BY <1>5, <2>2, <2>4 DEF PartIsSound
    <3> QED BY <1>1, <1>3, <1>4, <1>5, <2>1, <2>2, <2>3, <2>4, <3>1 DEF AtMember
  <2>5. CASE i \in Announcing(a.blocks, a.parts[p])
    <3>1. AnnouncementIsSound(a.blocks, a.parts[p], i)
      BY <2>2, <2>5 DEF PartIsSound
    <3>2. i \in a.parts[p].first..(a.parts[p].own - 1) /\ Header.is = "header"
      BY <1>5, <2>5 DEF Announcing
    <3>3. a.parts[p].own \in Nat /\ a.parts[p].first \in Nat
      <4>1. p \in 1..Len(a.parts)
        BY DEF Reading
      <4> QED BY <1>1, <4>1, PartsAre
    <3>4. i < a.parts[p].own
      BY <3>2, <3>3
    <3>5. Header.type \in {"L", "K", "x", "g"}
      BY <1>5, <3>1 DEF AnnouncementIsSound
    <3> QED BY <1>1, <1>3, <1>4, <1>5, <2>1, <2>2, <2>3, <2>5, <3>1, <3>2, <3>4, <3>5 DEF AtAnnouncement
  <2> QED BY <2>3, <2>4, <2>5
<1> QED BY <1>6, <1>7

\* A field is announced once.
LEMMA OnceOnly ==
  ASSUME NEW a, NEW p, PartIsSound(a, p), NEW field \in {"path", "linkpath", "size"},
         NEW i \in Announcing(a.blocks, a.parts[p]), NEW j \in Announcing(a.blocks, a.parts[p]),
         Announces(a.blocks, i, field), Announces(a.blocks, j, field)
  PROVE  i = j
<1>1. AnnouncementIsSound(a.blocks, a.parts[p], i)
  BY DEF PartIsSound
<1> QED BY <1>1 DEF AnnouncementIsSound

\* A field that a header announces is recorded as that header says.
LEMMA RecordedBy ==
  ASSUME NEW a, NEW p, PartIsSound(a, p), NEW field \in {"path", "linkpath", "size"}, NEW inHeader,
         NEW i \in Announcing(a.blocks, a.parts[p]), Announces(a.blocks, i, field)
  PROVE  Recorded(a.blocks, a.parts[p], field, inHeader) = Announced(a.blocks, i, field)
<1> DEFINE by == {j \in Announcing(a.blocks, a.parts[p]) : Announces(a.blocks, j, field)}
           c == CHOOSE j \in by : TRUE
<1>1. i \in by
  OBVIOUS
<1>2. c \in by
  BY <1>1
<1>3. c = i
  <2> HIDE DEF c
  <2> QED BY <1>2, OnceOnly
<1> QED BY <1>1, <1>3 DEF Recorded

\* A field that none announces is recorded in the member's own header.
LEMMA RecordedInHeader ==
  ASSUME NEW blocks, NEW part, NEW field, NEW inHeader,
         \A i \in Announcing(blocks, part) : ~Announces(blocks, i, field)
  PROVE  Recorded(blocks, part, field, inHeader) = inHeader
BY DEF Recorded

\* Once the walk is at the member's own header, what has been said is what is
\* recorded, whichever header it is recorded in.
SaidIsRecorded(a, p) ==
  /\ NameSaid = NameOf(a, p) /\ LinkSaid = LinkOf(a, p) /\ SizeSaid = SizeOf(a, p)
  /\ "size" \in DOMAIN pax => ~\A j \in Announcing(a.blocks, a.parts[p]) : ~Announces(a.blocks, j, "size")

\* By cases on which header, if any, announces the field.
LEMMA SaidAtTheMember ==
  ASSUME NEW a, NEW p, NEW i, Reading(a, p, i), AtMember(a, p, i)
  PROVE  SaidIsRecorded(a, p)
<1> DEFINE blocks == a.blocks
           part == a.parts[p]
           headers == Announcing(blocks, part)
<1>1. PartIsSound(a, p) /\ i = part.own /\ Header = blocks[part.own] /\ SaidFits(blocks, part, i)
  BY HereIs DEF AtMember
<1>2. \A j \in headers : j < i
  <2>1. part.own \in Nat /\ part.first \in Nat
    <3>1. Sound(a.blocks) /\ WrittenByTar(a) /\ p \in 1..Len(a.parts)
      BY HereIs DEF Reading
    <3> QED BY <3>1, PartsAre
  <2> QED BY <1>1, <2>1 DEF Announcing
<1>3. \A j \in headers : /\ blocks[j].type \in {"L", "K", "x", "g"}
                         /\ blocks[j].type \in {"L", "K"} => blocks[j + 1].text # <<>>
  BY <1>1 DEF PartIsSound, AnnouncementIsSound
<1>4. /\ \A j \in headers : blocks[j].type = "L" => longName = blocks[j + 1].text
      /\ (\A j \in headers : blocks[j].type # "L") => longName = <<>>
  BY <1>1, <1>2 DEF SaidFits, Says
<1>5. /\ \A j \in headers : blocks[j].type = "K" => longLink = blocks[j + 1].text
      /\ (\A j \in headers : blocks[j].type # "K") => longLink = <<>>
  BY <1>1, <1>2 DEF SaidFits, Says
<1>6. \A j \in headers : blocks[j].type = "x" => \A field \in DOMAIN blocks[j + 1].text :
                           field \in DOMAIN pax /\ pax[field] = blocks[j + 1].text[field]
  BY <1>1, <1>2 DEF SaidFits, Says
<1>7. \A field \in DOMAIN pax : \E j \in headers : blocks[j].type = "x" /\ field \in DOMAIN blocks[j + 1].text
  BY <1>1 DEF SaidFits, Says
<1>8. NameSaid = NameOf(a, p)
  <2>1. CASE \A j \in headers : ~Announces(blocks, j, "path")
    <3>1. longName = <<>> /\ "path" \notin DOMAIN pax
      BY <1>4, <1>7, <2>1 DEF Announces
    <3>2. NameOf(a, p) = FullName(Header)
      BY <1>1, <2>1, RecordedInHeader DEF NameOf
    <3> QED BY <3>1, <3>2 DEF NameSaid
  <2>2. ASSUME NEW j \in headers, Announces(blocks, j, "path")
        PROVE  NameSaid = NameOf(a, p)
    <3>1. NameOf(a, p) = Announced(blocks, j, "path")
      BY <1>1, <2>2, RecordedBy DEF NameOf
    <3>2. CASE blocks[j].type = "x"
      BY <1>6, <2>2, <3>1, <3>2 DEF NameSaid, Announced, Announces
    <3>3. CASE blocks[j].type = "L"
      <4>1. \A k \in headers : blocks[k].type = "x" => "path" \notin DOMAIN blocks[k + 1].text
        BY <1>1, <2>2, <3>3, OnceOnly DEF Announces
      <4>2. "path" \notin DOMAIN pax
        BY <1>7, <4>1
      <4> QED BY <1>3, <1>4, <3>1, <3>3, <4>2 DEF NameSaid, Announced
    <3> QED BY <2>2, <3>2, <3>3 DEF Announces
  <2> QED BY <2>1, <2>2
<1>9. LinkSaid = LinkOf(a, p)
  <2>1. CASE \A j \in headers : ~Announces(blocks, j, "linkpath")
    <3>1. longLink = <<>> /\ "linkpath" \notin DOMAIN pax
      BY <1>5, <1>7, <2>1 DEF Announces
    <3>2. LinkOf(a, p) = Header.link
      BY <1>1, <2>1, RecordedInHeader DEF LinkOf
    <3> QED BY <3>1, <3>2 DEF LinkSaid
  <2>2. ASSUME NEW j \in headers, Announces(blocks, j, "linkpath")
        PROVE  LinkSaid = LinkOf(a, p)
    <3>1. LinkOf(a, p) = Announced(blocks, j, "linkpath")
      BY <1>1, <2>2, RecordedBy DEF LinkOf
    <3>2. CASE blocks[j].type = "x"
      <4>1. \A k \in headers : blocks[k].type # "K"
        BY <1>1, <2>2, <3>2, OnceOnly DEF Announces
      <4> QED BY <1>5, <1>6, <2>2, <3>1, <3>2, <4>1 DEF LinkSaid, Announced, Announces
    <3>3. CASE blocks[j].type = "K"
      BY <1>3, <1>5, <3>1, <3>3 DEF LinkSaid, Announced
    <3> QED BY <2>2, <3>2, <3>3 DEF Announces
  <2> QED BY <2>1, <2>2
<1>10. "size" \in DOMAIN pax => ~\A j \in headers : ~Announces(blocks, j, "size")
  BY <1>7 DEF Announces
<1>11. SizeSaid = SizeOf(a, p)
  <2>1. CASE \A j \in headers : ~Announces(blocks, j, "size")
    <3>1. SizeOf(a, p) = Header.size
      BY <1>1, <2>1, RecordedInHeader DEF SizeOf
    <3> QED BY <1>10, <2>1, <3>1 DEF SizeSaid
  <2>2. ASSUME NEW j \in headers, Announces(blocks, j, "size")
        PROVE  SizeSaid = SizeOf(a, p)
    <3>1. SizeOf(a, p) = Announced(blocks, j, "size")
      BY <1>1, <2>2, RecordedBy DEF SizeOf
    <3>2. blocks[j].type = "x" /\ "size" \in DOMAIN blocks[j + 1].text
      BY <2>2 DEF Announces
    <3> QED BY <1>6, <3>1, <3>2 DEF SizeSaid, Announced
  <2> QED BY <2>1, <2>2
<1> QED BY <1>8, <1>9, <1>10, <1>11 DEF SaidIsRecorded

\* Before the first header of a part nothing has been said of its member.
LEMMA NothingSaid ==
  ASSUME NEW blocks, NEW part, NEW i, \A j \in Announcing(blocks, part) : ~(j < i)
  PROVE  Says(<<>>, <<>>, <<>>, blocks, part, i)
BY DEF Says

\* A part begins where nothing has been said.
LEMMA PartBegins ==
  ASSUME NEW a, Sound(a.blocks), WrittenByTar(a), NEW p \in 1..(Len(a.parts) - 1)
  PROVE  /\ a.parts[p].first \in Announcing(a.blocks, a.parts[p]) \cup {a.parts[p].own}
         /\ a.parts[p].first \in 1..Len(a.blocks)
         /\ Says(<<>>, <<>>, <<>>, a.blocks, a.parts[p], a.parts[p].first)
<1> DEFINE first == a.parts[p].first
           own == a.parts[p].own
<1>1. PartIsSound(a, p)
  BY DEF WrittenByTar
<1>2. /\ first \in 1..own /\ own \in 1..Len(a.blocks) /\ a.blocks[first].is = "header"
      /\ own \in Nat /\ Len(a.blocks) \in Nat
  <2>1. p \in 1..Len(a.parts)
    BY PartIs
  <2>2. /\ own \in Nat /\ Len(a.blocks) \in Nat /\ DOMAIN a.blocks = 1..Len(a.blocks)
    BY <2>1, PartsAre
  <2> QED BY <1>1, <2>2 DEF PartIsSound
<1>3. first \in 1..Len(a.blocks) /\ (first = own \/ first \in first..(own - 1))
  <2> HIDE DEF first, own
  <2> QED BY <1>2
<1>4. first \in Announcing(a.blocks, a.parts[p]) \cup {own}
  BY <1>2, <1>3 DEF Announcing
<1>5. \A j \in first..(own - 1) : ~(j < first)
  <2> HIDE DEF first, own
  <2> QED BY <1>2
<1>6. \A j \in Announcing(a.blocks, a.parts[p]) : ~(j < first)
  BY <1>5 DEF Announcing
<1>7. Says(<<>>, <<>>, <<>>, a.blocks, a.parts[p], first)
  <2> HIDE DEF first
  <2> QED BY <1>6, NothingSaid
<1> QED BY <1>3, <1>4, <1>7

\* The header that follows an announcement.
Following(a, i) == i + 1 + BlocksFor(a.blocks[i].size)

FollowsOn(a, p, i, next) ==
  /\ next \in Announcing(a.blocks, a.parts[p]) \cup {a.parts[p].own}
  /\ next \in 1..Len(a.blocks) /\ next <= a.parts[p].own
  /\ \A j \in Announcing(a.blocks, a.parts[p]) : j < next <=> (j < i \/ j = i)

\* The walk goes from an announcement to the header after its text.
LEMMA AnnouncementIsFollowed ==
  ASSUME NEW a, NEW p, NEW i, Reading(a, p, i), AtAnnouncement(a, p, i)
  PROVE  /\ FollowsOn(a, p, i, Following(a, i)) /\ Header.size \in 0..63
         /\ AfterData(Header.size) = Block * (Following(a, i) - 1)
         /\ Following(a, i) \in Nat
<1> DEFINE next == Following(a, i)
           first == a.parts[p].first
           own == a.parts[p].own
           many == BlocksFor(a.blocks[i].size)
<1>1. /\ Sound(a.blocks) /\ WrittenByTar(a) /\ Header = a.blocks[i] /\ DataOffset = Block * i
      /\ i \in Nat \ {0} /\ p \in 1..Len(a.parts) /\ p \in 1..(Len(a.parts) - 1)
      /\ AnnouncementIsSound(a.blocks, a.parts[p], i) /\ i \in Announcing(a.blocks, a.parts[p])
      /\ i < own /\ i \in DOMAIN a.blocks /\ Header.is = "header"
  <2>1. p \in 1..Len(a.parts) /\ i \in 1..Len(a.blocks) /\ Sound(a.blocks) /\ WrittenByTar(a)
    BY HereIs DEF Reading
  <2>2. DOMAIN a.blocks = 1..Len(a.blocks)
    BY <2>1, PartsAre
  <2> QED BY <2>1, <2>2, HereIs DEF AtAnnouncement
<1>2. a.blocks[i].size \in 0..63
  <2>1. a.blocks[i].size \in 0..(Word - 1)
    BY <1>1 DEF Sound, HeaderIsSound
  <2> QED BY <2>1 DEF Word
<1>3. many \in Nat
  BY <1>2, BlocksAre
<1>4. /\ own \in 1..Len(a.blocks) /\ own \in Nat /\ first \in Nat /\ Len(a.blocks) \in Nat
      /\ first \in 1..own
  <2>1. own \in DOMAIN a.blocks /\ first \in 1..own
    BY <1>1, PartIs
  <2> QED BY <1>1, <2>1, PartsAre
<1>5. /\ next = i + 1 + many /\ next <= own /\ a.blocks[next].is = "header"
      /\ \A j \in (i + 1)..(next - 1) : a.blocks[j].is # "header"
  BY <1>1 DEF AnnouncementIsSound, Following
<1>6. i \in first..(own - 1)
  BY <1>1 DEF Announcing
<1>7. /\ next \in Nat /\ next \in 1..Len(a.blocks) /\ (next = own \/ next \in first..(own - 1))
      /\ \A j \in first..(own - 1) : j < next <=> (j < i \/ j = i \/ j \in (i + 1)..(next - 1))
      /\ 2 * i + many * 2 = 2 * (next - 1)
  <2>1. next = i + 1 + many /\ next <= own
    BY <1>5
  <2> HIDE DEF next, first, own, many
  <2> QED BY <1>1, <1>3, <1>4, <1>6, <2>1
<1>8. next \in Announcing(a.blocks, a.parts[p]) \cup {own}
  BY <1>5, <1>7 DEF Announcing
<1>9. \A j \in Announcing(a.blocks, a.parts[p]) : j < next <=> (j < i \/ j = i)
  BY <1>5, <1>7 DEF Announcing
<1>10. FollowsOn(a, p, i, next)
  BY <1>5, <1>7, <1>8, <1>9 DEF FollowsOn
<1>11. AfterData(Header.size) = Block * (next - 1)
  <2>1. AfterData(Header.size) = 2 * i + many * 2
    BY <1>1 DEF AfterData, Block
  <2> QED BY <1>7, <2>1 DEF Block
<1> QED BY <1>1, <1>2, <1>7, <1>10, <1>11

\* What it says is added to what was said.
LEMMA SaysMore ==
  ASSUME NEW a, NEW p, PartIsSound(a, p), NEW i \in Announcing(a.blocks, a.parts[p]), NEW next,
         FollowsOn(a, p, i, next), NEW name, NEW link, NEW records,
         Says(name, link, records, a.blocks, a.parts[p], i)
  PROVE  LET text == a.blocks[i + 1].text
             more == [field \in DOMAIN text \cup DOMAIN records |->
                        IF field \in DOMAIN text THEN text[field] ELSE records[field]]
         IN  CASE a.blocks[i].type = "L" -> Says(text, link, records, a.blocks, a.parts[p], next)
               [] a.blocks[i].type = "K" -> Says(name, text, records, a.blocks, a.parts[p], next)
               [] a.blocks[i].type = "x" -> DOMAIN text \subseteq {"path", "linkpath", "size"} =>
                                              Says(name, link, more, a.blocks, a.parts[p], next)
               [] a.blocks[i].type = "g" -> Says(name, link, records, a.blocks, a.parts[p], next)
               [] OTHER -> TRUE
<1> DEFINE blocks == a.blocks
           part == a.parts[p]
           headers == Announcing(blocks, part)
           text == blocks[i + 1].text
           more == [field \in DOMAIN text \cup DOMAIN records |->
                      IF field \in DOMAIN text THEN text[field] ELSE records[field]]
<1>1. \A j \in headers : j < next <=> (j < i \/ j = i)
  BY DEF FollowsOn
<1>2. /\ \A j \in headers : j < i => (blocks[j].type = "L" => name = blocks[j + 1].text)
      /\ (\A j \in headers : j < i => blocks[j].type # "L") => name = <<>>
      /\ \A j \in headers : j < i => (blocks[j].type = "K" => link = blocks[j + 1].text)
      /\ (\A j \in headers : j < i => blocks[j].type # "K") => link = <<>>
  BY DEF Says
<1>3. \A j \in headers : j < i /\ blocks[j].type = "x" => \A field \in DOMAIN blocks[j + 1].text :
        field \in DOMAIN records /\ records[field] = blocks[j + 1].text[field]
  BY DEF Says
<1>4. \A field \in DOMAIN records :
        \E j \in headers : j < i /\ blocks[j].type = "x" /\ field \in DOMAIN blocks[j + 1].text
  BY DEF Says
<1>5. CASE blocks[i].type = "g"
  <2>1. Says(name, link, records, blocks, part, next)
    BY <1>1, <1>2, <1>3, <1>4, <1>5 DEF Says
  <2> QED BY <1>5, <2>1
<1>6. CASE blocks[i].type = "L"
  <2>1. \A j \in headers : blocks[j].type = "L" => j = i
    BY <1>6, OnceOnly DEF Announces
  <2>2. Says(text, link, records, blocks, part, next)
    BY <1>1, <1>2, <1>3, <1>4, <1>6, <2>1 DEF Says
  <2> QED BY <1>6, <2>2
<1>7. CASE blocks[i].type = "K"
  <2>1. \A j \in headers : blocks[j].type = "K" => j = i
    BY <1>7, OnceOnly DEF Announces
  <2>2. Says(name, text, records, blocks, part, next)
    BY <1>1, <1>2, <1>3, <1>4, <1>7, <2>1 DEF Says
  <2> QED BY <1>7, <2>2
<1>8. CASE blocks[i].type = "x"
  <2>1. SUFFICES ASSUME DOMAIN text \subseteq {"path", "linkpath", "size"}
                 PROVE  Says(name, link, more, blocks, part, next)
    BY <1>8
  <2>2. \A j \in headers : blocks[j].type = "x" => \A field \in DOMAIN text :
          field \in DOMAIN blocks[j + 1].text => j = i
    BY <1>8, <2>1, OnceOnly DEF Announces
  <2>3. /\ DOMAIN more = DOMAIN text \cup DOMAIN records
        /\ \A field \in DOMAIN text : more[field] = text[field]
        /\ \A field \in DOMAIN records \ DOMAIN text : more[field] = records[field]
    OBVIOUS
  <2> HIDE DEF more
  <2>4. \A j \in headers : j < next /\ blocks[j].type = "x" => \A field \in DOMAIN blocks[j + 1].text :
          field \in DOMAIN more /\ more[field] = blocks[j + 1].text[field]
    <3> SUFFICES ASSUME NEW j \in headers, j < next, blocks[j].type = "x", NEW field \in DOMAIN blocks[j + 1].text
                 PROVE  field \in DOMAIN more /\ more[field] = blocks[j + 1].text[field]
      OBVIOUS
    <3>1. CASE j = i
      BY <2>3, <3>1
    <3>2. CASE j # i
      <4>1. field \in DOMAIN records /\ records[field] = blocks[j + 1].text[field]
        BY <1>1, <1>3, <3>2
      <4>2. field \notin DOMAIN text
        BY <2>2, <3>2
      <4> QED BY <2>3, <4>1, <4>2
    <3> QED BY <3>1, <3>2
  <2>5. \A field \in DOMAIN more :
          \E j \in headers : j < next /\ blocks[j].type = "x" /\ field \in DOMAIN blocks[j + 1].text
    BY <1>1, <1>4, <1>8, <2>3
  <2>6. /\ \A j \in headers : j < next => (blocks[j].type = "L" => name = blocks[j + 1].text)
        /\ (\A j \in headers : j < next => blocks[j].type # "L") => name = <<>>
        /\ \A j \in headers : j < next => (blocks[j].type = "K" => link = blocks[j + 1].text)
        /\ (\A j \in headers : j < next => blocks[j].type # "K") => link = <<>>
    BY <1>1, <1>2, <1>8
  <2> QED BY <2>4, <2>5, <2>6 DEF Says
<1> QED BY <1>5, <1>6, <1>7, <1>8

-----------------------------------------------------------------------------
(* Each step keeps FromTar.                                                *)

LEMMA InitMakesFromTar == Init => FromTar
<1> SUFFICES ASSUME Init, ~damaged PROVE \E a \in Archives : Walk(a)
  BY DEF FromTar
<1>1. PICK a \in Archives : archive = a.blocks /\ members = a.members
  BY DEF Init
<1>2. Sound(a.blocks) /\ WrittenByTar(a)
  BY ArchivesAssumption
<1>3. /\ Len(a.parts) \in Nat \ {0} /\ Len(a.members) \in Nat /\ Len(a.blocks) \in Nat
      /\ a.parts[Len(a.parts)].first \in 1..Len(a.blocks)
      /\ a.parts[1].first = 1 /\ a.parts[1].before = 0
  BY <1>2, PartsAre DEF WrittenByTar
<1>4. /\ entries = <<>> /\ position = 0 /\ longName = <<>> /\ longLink = <<>> /\ pax = <<>>
      /\ status = "reading" /\ Len(entries) = 0
  BY DEF Init
<1>5. Begins(a)
  BY <1>3, <1>4 DEF Begins
<1>6. 1 \in 1..Len(a.parts) /\ position = Block * (1 - 1)
  BY <1>3, <1>4 DEF Block
<1>7. 1 \in 1..Len(a.blocks) /\ Place(a, 1, 1)
  <2>1. CASE Len(a.parts) = 1
    BY <1>3, <1>4, <1>6, <2>1 DEF Place
  <2>2. CASE Len(a.parts) # 1
    <3>1. 1 \in 1..(Len(a.parts) - 1)
      <4> DEFINE L == Len(a.parts)
      <4>1. L \in Nat \ {0} /\ L # 1
        BY <1>3, <2>2
      <4> HIDE DEF L
      <4>2. 1 \in 1..(L - 1)
        BY <4>1
      <4> QED BY <4>2 DEF L
    <3>2. /\ 1 \in Announcing(a.blocks, a.parts[1]) \cup {a.parts[1].own}
          /\ 1 \in 1..Len(a.blocks)
          /\ Says(<<>>, <<>>, <<>>, a.blocks, a.parts[1], 1)
      BY <1>2, <1>3, <3>1, PartBegins
    <3> QED BY <1>3, <1>4, <1>6, <2>2, <3>2 DEF Place, SaidFits
  <2> QED BY <2>1, <2>2
<1>8. Walk(a)
  BY <1>1, <1>4, <1>5, <1>6, <1>7 DEF Walk
<1> QED BY <1>8

\* The ways on: to another block, or to an end.
LEMMA WalksOn ==
  ASSUME NEW a, NEW p, NEW i, Reading(a, p, i), status = "reading", ~damaged,
         UNCHANGED <<file, status>>, Begins(a)',
         NEW q \in 1..Len(a.parts), NEW k \in 1..Len(a.blocks), Place(a, q, k)'
  PROVE  FromTar'
<1>1. a \in Archives /\ Walk(a)'
  BY DEF Reading, Walk, file
<1> QED BY <1>1 DEF FromTar

\* An end is one where nothing whole is missing, or one an error is excused at.
LEMMA WalkEnds ==
  ASSUME NEW a, NEW p, NEW i, Reading(a, p, i), ~damaged,
         \/ Return("listed") /\ RestIsCut(a)
         \/ Return("error") /\ EndsInAHeader(a)
  PROVE  FromTar'
<1>1. a \in Archives /\ UNCHANGED <<file, entries, fileSize, growths>> /\ status' \in {"listed", "error"}
  BY DEF Reading, Return
<1>2. Begins(a)'
  BY <1>1 DEF Reading, Begins
<1>3. status' = "listed" => RestIsCut(a)'
  BY <1>1 DEF Return, RestIsCut
<1>4. status' = "error" => EndsInAHeader(a)'
  BY <1>1 DEF Return, EndsInAHeader, EndsInDataOf
<1>5. Walk(a)'
  BY <1>1, <1>2, <1>3, <1>4 DEF Reading, Walk, file
<1> QED BY <1>1, <1>5 DEF FromTar

\* What a metadata header says is pending for its own member.
LEMMA MetadataKeepsFromTar ==
  ASSUME IInv, NEW a, NEW p, NEW i, Reading(a, p, i), ~damaged, Metadata \/ GlobalHeader
  PROVE  FromTar'
<1> DEFINE next == Following(a, i)
           text == a.blocks[i + 1].text
<1>1. /\ Header.is = "header" /\ Header.type \in {"L", "K", "x", "g"} /\ status = "reading"
      /\ Metadata => Header.type # "g"
  BY DEF Metadata, GlobalHeader, IsHeader, HeaderRead
<1>2. AtAnnouncement(a, p, i)
  <2>1. Header.is # "zeros" /\ Header.type \notin MemberTypes
    BY <1>1 DEF MemberTypes
  <2> QED BY <2>1, HereIs DEF AtMember
<1>3. /\ FollowsOn(a, p, i, next) /\ position' = Block * (next - 1) /\ next \in Nat
      /\ next \in 1..Len(a.blocks)
  BY <1>2, AnnouncementIsFollowed DEF Metadata, GlobalHeader, FollowsOn
<1>4. /\ p \in 1..(Len(a.parts) - 1) /\ PartIsSound(a, p) /\ i \in Announcing(a.blocks, a.parts[p])
      /\ Says(longName, longLink, pax, a.blocks, a.parts[p], i)
      /\ p \in 1..Len(a.parts) /\ p # Len(a.parts) /\ Header = a.blocks[i]
  <2>1. Len(a.parts) \in Nat
    BY HereIs, PartsAre
  <2>2. p \in 1..(Len(a.parts) - 1)
    BY <1>2 DEF AtAnnouncement
  <2>3. p # Len(a.parts)
    BY <2>1, <2>2
  <2> QED BY <1>2, <2>2, <2>3, HereIs DEF AtAnnouncement, SaidFits, Reading
<1>5. Says(longName', longLink', pax', a.blocks, a.parts[p], next)
  <2>1. CASE GlobalHeader
    <3>1. Header.type = "g" /\ UNCHANGED <<longName, longLink, pax>>
      BY <2>1 DEF GlobalHeader, IsHeader, said
    <3> QED BY <1>3, <1>4, <3>1, SaysMore
  <2>2. CASE Metadata
    <3>1. archive[DataOffset \div Block + 1].text = text
      <4>1. DataOffset = Block * i /\ i \in Nat /\ archive = a.blocks
        BY HereIs DEF Reading
      <4>2. DataOffset \div Block + 1 = i + 1
        BY <4>1 DEF Block
      <4> QED BY <4>1, <4>2
    <3>2. CASE Header.type = "L"
      <4>1. longName' = text /\ UNCHANGED <<longLink, pax>>
        BY <2>2, <3>1, <3>2 DEF Metadata
      <4> QED BY <1>3, <1>4, <3>2, <4>1, SaysMore
    <3>3. CASE Header.type = "K"
      <4>1. longLink' = text /\ UNCHANGED <<longName, pax>>
        BY <2>2, <3>1, <3>3 DEF Metadata
      <4> QED BY <1>3, <1>4, <3>3, <4>1, SaysMore
    <3>4. CASE Header.type = "x"
      <4>1. pax' = Parsed(text) /\ UNCHANGED <<longName, longLink>>
        BY <2>2, <3>1, <3>4 DEF Metadata
      <4>2. DOMAIN text \subseteq {"path", "linkpath", "size"}
        <5>1. i \in DOMAIN a.blocks /\ Sound(a.blocks)
          BY HereIs, PartsAre DEF Reading
        <5>2. HeaderIsSound(a.blocks, i)
          BY <1>1, <1>4, <5>1 DEF Sound
        <5> QED BY <1>4, <3>4, <5>2 DEF HeaderIsSound, PaxSaysWell
      <4>3. pax' = [field \in DOMAIN text \cup DOMAIN pax |->
                      IF field \in DOMAIN text THEN text[field] ELSE pax[field]]
        BY <4>1 DEF Parsed
      <4>4. a.blocks[i].type = "x"
        BY <1>4, <3>4
      <4>5. Says(longName, longLink,
                 [field \in DOMAIN text \cup DOMAIN pax |->
                    IF field \in DOMAIN text THEN text[field] ELSE pax[field]],
                 a.blocks, a.parts[p], next)
        BY <1>3, <1>4, <4>2, <4>4, SaysMore
      <4> QED BY <4>1, <4>3, <4>5
    <3> QED BY <1>1, <2>2, <3>2, <3>3, <3>4
  <2> QED BY <2>1, <2>2
<1>6. UNCHANGED <<file, entries, status>>
  BY DEF Metadata, GlobalHeader
<1>7. Begins(a)'
  BY <1>6 DEF Reading, Begins
<1>8. Place(a, p, next)'
  BY <1>3, <1>4, <1>5, <1>6 DEF Reading, Place, SaidFits, FollowsOn
<1> QED BY <1>1, <1>3, <1>4, <1>6, <1>7, <1>8, WalksOn

\* A member's own header is where the part says.
LEMMA HereIsAMember ==
  ASSUME NEW a, NEW p, NEW i, Reading(a, p, i), IsHeader(MemberTypes)
  PROVE  AtMember(a, p, i) /\ SaidIsRecorded(a, p)
<1>1. Header.is # "zeros" /\ Header.type \notin {"L", "K", "x", "g"}
  BY DEF IsHeader, MemberTypes
<1> QED BY <1>1, HereIs, SaidAtTheMember DEF AtAnnouncement

\* What the walk does with it.
LEMMA MemberIsTaken ==
  ASSUME NEW a, NEW p, NEW i, Reading(a, p, i), Member
  PROVE  /\ position' = Block * (a.parts[p + 1].first - 1)
         /\ \/ entries' = entries /\ a.parts[p + 1].before = a.parts[p].before
            \/ /\ entries' = Append(entries, Entry)
               /\ a.parts[p + 1].before = a.parts[p].before + 1
               /\ Entry = a.members[a.parts[p + 1].before]
<1> DEFINE after == a.parts[p + 1]
           own == a.blocks[a.parts[p].own]
<1>1. /\ AtMember(a, p, i) /\ SaidIsRecorded(a, p) /\ Header = own /\ DataOffset = Block * a.parts[p].own
      /\ Header.type \in MemberTypes /\ Sound(a.blocks) /\ WrittenByTar(a)
      /\ p \in 1..(Len(a.parts) - 1) /\ PartIsSound(a, p)
  BY HereIs, HereIsAMember DEF Member, AtMember
<1>2. /\ after.first = a.parts[p].own + 1 + IF HasData(Header.type) THEN BlocksFor(SizeSaid) ELSE 0
      /\ \/ after.before = a.parts[p].before /\ Spells(NameSaid, <<>>, TRUE)
         \/ /\ after.before = a.parts[p].before + 1
            /\ MemberIsSound(a.members[after.before], Header.type, NameSaid, SizeSaid, LinkSaid, DataOffset)
  BY <1>1 DEF PartIsSound, SaidIsRecorded, NameOf, LinkOf, SizeOf
<1>3. position' = Block * (after.first - 1)
  <2> DEFINE f == after.first
             w == a.parts[p].own
             many == BlocksFor(SizeSaid)
             data == HasData(Header.type)
  <2>1. /\ w \in Nat /\ many \in Nat /\ f = w + 1 + (IF data THEN many ELSE 0)
        /\ position' = IF data THEN 2 * w + many * 2 ELSE 2 * w
    <3>1. p \in 1..Len(a.parts)
      BY DEF Reading
    <3>2. SizeSaid \in 0..63
      <4>1. SizeOf(a, p) \in 0..(Word - 1)
        BY <1>1, SizeIsAWord
      <4> QED BY <1>1, <4>1 DEF SaidIsRecorded, Word
    <3>3. many \in Nat /\ w \in Nat
      BY <1>1, <3>1, <3>2, BlocksAre, PartsAre
    <3> QED BY <1>1, <1>2, <3>3 DEF Member, NextHeader, AfterData, Block
  <2> HIDE DEF f, w, many, data
  <2>2. position' = 2 * (f - 1)
    <3>1. CASE data
      BY <2>1, <3>1
    <3>2. CASE ~data
      BY <2>1, <3>2
    <3> QED BY <3>1, <3>2
  <2> QED BY <2>2 DEF f, Block
<1>4. CASE after.before = a.parts[p].before /\ Spells(NameSaid, <<>>, TRUE)
  BY <1>3, <1>4, RootHasNoEntry DEF Member
<1>5. CASE /\ after.before = a.parts[p].before + 1
           /\ MemberIsSound(a.members[after.before], Header.type, NameSaid, SizeSaid, LinkSaid, DataOffset)
  <2>1. Entry = a.members[after.before] /\ Entry.name # <<>>
    BY <1>1, <1>5, EntryIsTheMember
  <2> QED BY <1>3, <1>5, <2>1 DEF Member
<1> QED BY <1>2, <1>4, <1>5

\* A member is listed as it was archived, and the walk is at the next part.
LEMMA MemberKeepsFromTar ==
  ASSUME IInv, NEW a, NEW p, NEW i, Reading(a, p, i), ~damaged, Member
  PROVE  FromTar'
<1> DEFINE L == Len(a.parts)
           q == p + 1
           first == a.parts[q].first
           before == a.parts[q].before
           listed == Len(entries)
<1>1. /\ Sound(a.blocks) /\ WrittenByTar(a) /\ p \in 1..(L - 1) /\ L \in Nat
      /\ Len(a.members) \in Nat /\ a.parts[L].first \in 1..Len(a.blocks)
      /\ Begins(a) /\ listed = a.parts[p].before
  <2>1. AtMember(a, p, i)
    BY HereIsAMember DEF Member
  <2> QED BY <2>1, HereIs, PartsAre DEF AtMember, Reading, Place
<1>2. /\ listed \in Nat /\ DOMAIN entries = 1..listed
      /\ entries \in Seq({entries[n] : n \in DOMAIN entries} \cup {Entry})
  BY LenProperties, SeqMonotonic DEF IInv, EntriesAreListed
<1>3. q \in 1..L /\ (q # L => q \in 1..(L - 1)) /\ before <= Len(a.members)
  <2>1. q \in 1..L /\ (q # L => q \in 1..(L - 1))
    <3> HIDE DEF L
    <3> QED BY <1>1
  <2> QED BY <1>1, <2>1, MembersAreBehind
<1>4. Len(entries') = before /\ Begins(a)'
  <2>1. CASE entries' = entries /\ before = a.parts[p].before
    BY <1>1, <2>1 DEF Begins, Reading
  <2>2. CASE /\ entries' = Append(entries, Entry) /\ before = a.parts[p].before + 1
             /\ Entry = a.members[before]
    <3>1. /\ Len(entries') = listed + 1 /\ entries'[listed + 1] = Entry
          /\ \A n \in 1..listed : entries'[n] = entries[n]
      BY <1>2, <2>2, AppendProperties
    <3>2. \A n \in 1..(listed + 1) : n \in 1..listed \/ n = listed + 1
      BY <1>2
    <3>3. before = listed + 1
      BY <1>1, <2>2
    <3>4. \A n \in 1..Len(entries') : entries'[n] = a.members[n]
      BY <1>1, <2>2, <3>1, <3>2, <3>3 DEF Begins
    <3> QED BY <1>3, <3>1, <3>3, <3>4 DEF Begins
  <2> QED BY <2>1, <2>2, MemberIsTaken
<1>5. first \in 1..Len(a.blocks) /\ first \in Nat
  <2>1. CASE q = L
    BY <1>1, <2>1, PartsAre
  <2>2. CASE q # L
    BY <1>1, <1>3, <2>2, PartBegins, PartsAre
  <2> QED BY <2>1, <2>2
<1>6. /\ longName' = <<>> /\ longLink' = <<>> /\ pax' = <<>> /\ status = "reading"
      /\ UNCHANGED <<file, status>>
  BY DEF Member, IsHeader, HeaderRead
<1>7. Place(a, q, first)'
  <2>1. position' = Block * (first - 1)
    BY MemberIsTaken
  <2>2. q # L => /\ first \in Announcing(a.blocks, a.parts[q]) \cup {a.parts[q].own}
                 /\ Says(<<>>, <<>>, <<>>, a.blocks, a.parts[q], first)
    BY <1>1, <1>3, PartBegins
  <2> QED BY <1>4, <1>5, <1>6, <2>1, <2>2 DEF Place, SaidFits
<1> QED BY <1>3, <1>4, <1>5, <1>6, <1>7, WalksOn

\* A file that grows is the same archive.
LEMMA GrowKeepsFromTar ==
  ASSUME NEW a, NEW p, NEW i, Reading(a, p, i), ~damaged, Grow
  PROVE  FromTar'
<1>1. status = "reading" /\ UNCHANGED <<file, status>> /\ p \in 1..Len(a.parts) /\ i \in 1..Len(a.blocks)
  BY DEF Grow, Reading
<1>2. Begins(a)' /\ Place(a, p, i)'
  BY DEF Grow, Reading, Begins, Place, SaidFits, said
<1> QED BY <1>1, <1>2, WalksOn

-----------------------------------------------------------------------------
(* The ends of the walk.                                                   *)

\* The data of what is not listed yet comes after the header that is read.
LEMMA RestIsBehind ==
  ASSUME NEW a, NEW p, NEW i, Reading(a, p, i), NEW k \in 1..Len(a.members), k > Len(entries)
  PROVE  /\ a.members[k].offset \in Nat /\ a.members[k].size \in Nat
         /\ a.members[k].offset >= DataOffset
         /\ p \in 1..(Len(a.parts) - 1) /\ k > a.parts[p].before
<1>1. /\ Sound(a.blocks) /\ WrittenByTar(a) /\ p \in 1..Len(a.parts) /\ Len(entries) = a.parts[p].before
      /\ DataOffset = Block * i /\ i \in Nat
  BY HereIs DEF Reading, Place
<1>2. Len(a.members) \in Nat /\ a.parts[Len(a.parts)].before = Len(a.members) /\ Len(a.parts) \in Nat
  BY <1>1, PartsAre
<1>3. p \in 1..(Len(a.parts) - 1)
  <2>1. p # Len(a.parts)
    BY <1>1, <1>2
  <2> DEFINE L == Len(a.parts)
  <2>2. p \in 1..L /\ p # L /\ L \in Nat
    BY <1>1, <1>2, <2>1
  <2> HIDE DEF L
  <2>3. p \in 1..(L - 1)
    BY <2>2
  <2> QED BY <2>3 DEF L
<1>4. /\ a.members[k].offset \in Nat /\ a.members[k].size \in Nat
      /\ a.members[k].offset >= Block * a.parts[p].own
  BY <1>1, MembersAreBehind DEF Behind
<1>5. i <= a.parts[p].own /\ a.parts[p].own \in Nat
  <2>1. a.parts[p].own \in Nat
    BY <1>1, PartsAre
  <2>2. p # Len(a.parts)
    BY <1>2, <1>3
  <2>3. i = a.parts[p].own \/ i < a.parts[p].own
    BY <2>2, HereIs DEF AtMember, AtAnnouncement
  <2> QED BY <1>1, <2>1, <2>3
<1> DEFINE o == a.members[k].offset
           w == a.parts[p].own
<1>6. o >= 2 * i
  <2>1. o \in Nat /\ o >= 2 * w /\ i <= w /\ w \in Nat /\ i \in Nat
    BY <1>1, <1>4, <1>5 DEF Block
  <2> HIDE DEF o, w
  <2> QED BY <2>1
<1> QED BY <1>1, <1>3, <1>4, <1>6 DEF Block

\* What a size that runs past the end says of the file.
LEMMA PastEndIs ==
  ASSUME IInv, HeaderRead, NEW s \in 0..63, PastEnd(s), DataOffset <= fileSize
  PROVE  DataOffset + s > fileSize /\ s > 0
<1>1. fileSize \in 0..63 /\ DataOffset \in Nat
  <2>1. length \in Nat /\ length < Word /\ fileSize \in 0..length /\ DataOffset \in Nat
    BY HeaderIsThere
  <2>2. length < 64
    BY <2>1 DEF Word
  <2> QED BY <2>1, <2>2
<1>2. (fileSize - DataOffset) % 64 = fileSize - DataOffset /\ fileSize - DataOffset >= 0
  BY <1>1
<1>3. s > fileSize - DataOffset
  BY <1>2 DEF PastEnd, Word
<1> QED BY <1>1, <1>2, <1>3

\* A size that runs past the end cuts off every member not listed yet.
LEMMA RestIsPastEnd ==
  ASSUME IInv, NEW a, NEW p, NEW i, Reading(a, p, i), HeaderRead, NEW s \in 0..63, PastEnd(s),
         \/ AtAnnouncement(a, p, i) /\ s = Header.size
         \/ AtMember(a, p, i) /\ HasData(Header.type) /\ s <= SizeOf(a, p)
  PROVE  RestIsCut(a)
<1> SUFFICES ASSUME NEW k \in 1..Len(a.members), k > Len(entries)
             PROVE  a.members[k].offset + a.members[k].size > fileSize
  BY DEF RestIsCut
<1> DEFINE o == a.members[k].offset
           z == a.members[k].size
           d == DataOffset
           own == a.parts[p].own
<1>1. /\ o \in Nat /\ z \in Nat /\ o >= d /\ p \in 1..(Len(a.parts) - 1) /\ k > a.parts[p].before
      /\ d \in Nat /\ fileSize \in Nat /\ d = 2 * i /\ i \in Nat
      /\ Sound(a.blocks) /\ WrittenByTar(a) /\ p \in 1..Len(a.parts) /\ p + 1 \in 1..Len(a.parts)
  <2>1. d \in Nat /\ fileSize \in Nat
    BY HeaderIsThere
  <2>2. d = 2 * i /\ i \in Nat /\ Sound(a.blocks) /\ WrittenByTar(a)
    BY HereIs DEF Block
  <2> QED BY <2>1, <2>2, RestIsBehind, PartIs
<1>2. CASE d > fileSize
  <2> HIDE DEF o, z, d
  <2>1. o + z > fileSize
    BY <1>1, <1>2
  <2> QED BY <2>1 DEF o, z
<1>3. CASE ~(d > fileSize)
  <2>1. d + s > fileSize /\ s > 0
    <3>1. DataOffset <= fileSize
      BY <1>1, <1>3
    <3> QED BY <3>1, PastEndIs
  <2>2. CASE AtAnnouncement(a, p, i) /\ s = Header.size
    <3> DEFINE next == Following(a, i)
               many == BlocksFor(Header.size)
    <3>1. /\ AfterData(Header.size) = 2 * (next - 1) /\ next <= own /\ next \in Nat
          /\ o >= 2 * own /\ many \in Nat /\ 2 * many >= s /\ AfterData(Header.size) = d + many * 2
          /\ own \in Nat
      <4>1. /\ AfterData(Header.size) = 2 * (next - 1) /\ next <= own /\ next \in Nat
            /\ Header.size \in 0..63
        BY <2>2, AnnouncementIsFollowed DEF FollowsOn, Block
      <4>2. many \in Nat /\ 2 * many >= s
        BY <2>2, <4>1, BlocksAre DEF Block
      <4>3. o >= 2 * own /\ own \in Nat
        BY <1>1, MembersAreBehind, PartsAre DEF Behind, Block
      <4> QED BY <4>1, <4>2, <4>3 DEF AfterData, Block
    <3> DEFINE e == AfterData(Header.size)
    <3> HIDE DEF o, z, d, own, next, many, e
    <3>2. e = 2 * (next - 1) /\ e = d + many * 2
      BY <3>1 DEF e
    <3>3. o \in Nat /\ z \in Nat /\ d \in Nat /\ fileSize \in Nat /\ many \in Nat /\ next \in Nat /\ own \in Nat
      BY <1>1, <3>1
    <3>4. 2 * next <= 2 * own /\ 2 * (next - 1) = 2 * next - 2
      BY <3>1, <3>3
    <3>5. o >= d + many * 2 + 2
      BY <3>1, <3>2, <3>3, <3>4
    <3>6. d + 2 * many >= d + s
      BY <3>1, <3>3
    <3>7. o + z > fileSize
      BY <2>1, <3>3, <3>5, <3>6
    <3> QED BY <3>7 DEF o, z
  <2>3. CASE AtMember(a, p, i) /\ HasData(Header.type) /\ s <= SizeOf(a, p)
    <3> DEFINE g == a.parts[p + 1].first
               size == SizeOf(a, p)
               before == a.parts[p + 1].before
    <3>1. /\ i = own /\ Header = a.blocks[own] /\ own \in Nat /\ g \in Nat /\ size \in Nat
      <4>1. SizeOf(a, p) \in 0..(Word - 1)
        BY <1>1, SizeIsAWord
      <4>2. size \in Nat
        <5>1. Word - 1 = 63
          BY DEF Word
        <5> QED BY <4>1, <5>1, WordIsNat, Zenon
      <4> QED BY <1>1, <2>3, <4>2, HereIs, PartsAre DEF AtMember
    <3>2. 2 * (g - 1) >= 2 * own + size
      BY <1>1, <2>3, <3>1, PartIs DEF Block
    <3>3. CASE k > before
      <4>1. o >= 2 * g
        BY <1>1, <3>3, MembersAreBehind DEF Behind, Block
      <4> HIDE DEF o, z, d, own, g, size
      <4>2. s <= size
        BY <2>3 DEF size
      <4>3. /\ o \in Nat /\ z \in Nat /\ d \in Nat /\ fileSize \in Nat /\ g \in Nat /\ size \in Nat
            /\ own \in Nat
        BY <1>1, <3>1
      <4>4. d = 2 * own
        BY <1>1, <3>1
      <4>5. o >= d + size
        BY <3>2, <4>1, <4>3, <4>4
      <4>6. o + z > fileSize
        BY <2>1, <4>2, <4>3, <4>5
      <4> QED BY <4>6 DEF o, z
    <3>4. CASE ~(k > before)
      <4>1. /\ k = before
            /\ MemberIsSound(a.members[k], Header.type, NameOf(a, p), size, LinkOf(a, p), Block * own)
        <5>1. \/ before = a.parts[p].before
              \/ /\ before = a.parts[p].before + 1
                 /\ MemberIsSound(a.members[before], a.blocks[own].type, NameOf(a, p), size,
                                  LinkOf(a, p), Block * own)
          BY <1>1, PartIs
        <5>2. a.parts[p].before \in Nat /\ k \in Nat
          <6>1. a.parts[p].before \in Nat /\ Len(a.members) \in Nat
            BY <1>1, PartsAre
          <6> QED BY <6>1
        <5>3. before = a.parts[p].before \/ before = a.parts[p].before + 1
          BY <5>1
        <5>4. k = before /\ before = a.parts[p].before + 1
          <6> DEFINE b == a.parts[p].before
          <6>1. b \in Nat /\ k \in Nat /\ k > b /\ ~(k > before) /\ (before = b \/ before = b + 1)
            BY <1>1, <3>4, <5>2, <5>3
          <6> HIDE DEF b, before
          <6>2. k = before /\ before = b + 1
            BY <6>1, JustBehind
          <6> QED BY <6>2 DEF b
        <5>5. before # a.parts[p].before
          BY <5>2, <5>4
        <5> QED BY <3>1, <5>1, <5>4, <5>5
      <4>2. /\ o = Block * own /\ z = Counted(a.members[k].type, size)
            /\ a.members[k].type # "file" /\ HasData(Header.type) => size = 0
        <5> DEFINE m == a.members[k]
                   at == Block * own
        <5>1. MemberIsSound(m, Header.type, NameOf(a, p), size, LinkOf(a, p), at)
          BY <4>1
        <5> HIDE DEF m, at, size
        <5>2. /\ m.offset = at /\ m.size = Counted(m.type, size)
              /\ m.type # "file" /\ HasData(Header.type) => size = 0
          BY <5>1, SoundMemberIs
        <5> QED BY <5>2 DEF m, at
      <4>3. o = d
        BY <1>1, <3>1, <4>2 DEF Block
      <4>4. HasData(Header.type) /\ s <= size
        BY <2>3
      <4>5. a.members[k].type # "file" => size = 0
        BY <4>2, <4>4
      <4>6. a.members[k].type = "file" => z = size
        BY <4>2 DEF Counted
      <4> DEFINE isFile == a.members[k].type = "file"
      <4>7. /\ d + s > fileSize /\ s > 0 /\ s <= size /\ o = d
            /\ d \in Nat /\ fileSize \in Nat /\ size \in Nat
            /\ isFile \/ size = 0
            /\ isFile => z = size
        BY <1>1, <2>1, <3>1, <4>3, <4>4, <4>5, <4>6
      <4> HIDE DEF o, z, d, size, isFile
      <4>8. isFile
        BY <4>7
      <4>9. o + z > fileSize
        BY <4>7, <4>8
      <4> QED BY <4>9 DEF o, z
    <3> QED BY <3>3, <3>4
  <2> QED BY <2>2, <2>3
<1> QED BY <1>2, <1>3

\* A prefix, element by element.
LEMMA PrefixIs ==
  ASSUME NEW A, NEW s \in Seq(A), NEW t \in Seq(A)
  PROVE  IsPrefix(s, t) <=> Len(s) <= Len(t) /\ \A n \in 1..Len(s) : s[n] = t[n]
<1>1. Len(s) \in Nat /\ Len(t) \in Nat /\ SubSeq(s, 1, Len(s)) = s
  BY SubSeqFull, LenProperties
<1>2. SUFFICES ASSUME Len(s) <= Len(t)
               PROVE  SubSeq(s, 1, Len(s)) = SubSeq(t, 1, Len(s)) <=> \A n \in 1..Len(s) :
                          s[n] = t[n]
  BY DEF IsPrefix
<1> DEFINE p == SubSeq(t, 1, Len(s))
<1>3. p \in Seq(A) /\ Len(p) = Len(s) /\ \A n \in 1..Len(s) : p[n] = t[n]
  <2>1. \A n \in 1..Len(s) : t[n] \in A
    BY <1>1, <1>2, ElementOfSeq
  <2> DEFINE m == Len(s)
  <2>2. m \in Nat
    BY <1>1
  <2>3. /\ SubSeq(t, 1, m) \in Seq(A)
        /\ Len(SubSeq(t, 1, m)) = IF 1 <= m THEN m - 1 + 1 ELSE 0
        /\ \A n \in 1..(m - 1 + 1) : SubSeq(t, 1, m)[n] = t[1 + n - 1]
    BY <2>1, <2>2, SubSeqProperties
  <2> HIDE DEF m
  <2>4. Len(SubSeq(t, 1, m)) = m /\ \A n \in 1..m : SubSeq(t, 1, m)[n] = t[n]
    BY <2>2, <2>3
  <2> QED BY <2>3, <2>4 DEF m
<1> HIDE DEF p
<1>4. s = p <=> \A n \in 1..Len(s) : s[n] = t[n]
  BY <1>3, SeqEqual
<1> QED BY <1>1, <1>4 DEF p

\* The walk stops behind the end of the file, or behind the last part.
LEMMA EndKeepsFromTar ==
  ASSUME IInv, NEW a, NEW p, NEW i, Reading(a, p, i), ~damaged, EndOfFile \/ EndOfArchive
  PROVE  FromTar'
<1>1. Return("listed")
  BY DEF EndOfFile, EndOfArchive
<1>2. RestIsCut(a)
  <2> SUFFICES ASSUME NEW k \in 1..Len(a.members), k > Len(entries)
               PROVE  a.members[k].offset + a.members[k].size > fileSize
    BY DEF RestIsCut
  <2> DEFINE o == a.members[k].offset
             z == a.members[k].size
  <2>1. o \in Nat /\ z \in Nat /\ o >= DataOffset /\ p \in 1..(Len(a.parts) - 1)
    BY RestIsBehind
  <2>2. CASE EndOfFile
    <3>1. /\ position >= length /\ length \in Nat /\ fileSize \in Nat /\ fileSize <= length /\ position \in Nat
      <4>1. Len(archive) \in Nat
        BY LenProperties DEF IInv, FileIsSound, Sound
      <4> QED BY <2>2, <4>1 DEF EndOfFile, IInv, TypeOK, Block
    <3>2. o >= position + 2
      BY <2>1 DEF DataOffset, Block
    <3> HIDE DEF o, z
    <3>3. o + z > fileSize
      BY <2>1, <3>1, <3>2
    <3> QED BY <3>3 DEF o, z
  <2>3. CASE EndOfArchive
    <3>1. Header.is = "zeros"
      BY <2>3 DEF EndOfArchive
    <3>2. p = Len(a.parts)
      BY <3>1, HereIs DEF AtMember, AtAnnouncement
    <3>3. Len(a.parts) \in Nat
      BY HereIs, PartsAre
    <3> QED BY <2>1, <3>2, <3>3
  <2> QED BY <2>2, <2>3
<1> QED BY <1>1, <1>2, WalkEnds

\* A header's size, or the size it was given, runs past the end.
LEMMA CutKeepsFromTar ==
  ASSUME IInv, NEW a, NEW p, NEW i, Reading(a, p, i), ~damaged, CutShort \/ PaxCutShort
  PROVE  FromTar'
<1>1. Return("listed") /\ HeaderRead /\ Header.is = "header"
  BY DEF CutShort, PaxCutShort, IsHeader
<1>2. Header.size \in 0..63
  <2>1. Header.size \in 0..(Word - 1)
    BY <1>1, HeaderIsThere
  <2> QED BY <2>1 DEF Word
<1>3. AtMember(a, p, i) \/ AtAnnouncement(a, p, i)
  BY <1>1, HereIs
<1>4. RestIsCut(a)
  <2>1. CASE CutShort
    <3>1. HasData(Header.type) /\ PastEnd(Header.size)
      BY <2>1 DEF CutShort
    <3>2. CASE AtAnnouncement(a, p, i)
      BY <1>1, <1>2, <3>1, <3>2, RestIsPastEnd
    <3>3. CASE AtMember(a, p, i)
      <4>1. Header.size <= SizeOf(a, p)
        BY <3>1, <3>3, HereIs DEF AtMember, PartIsSound, SizeOf
      <4> QED BY <1>1, <1>2, <3>1, <3>3, <4>1, RestIsPastEnd
    <3> QED BY <1>3, <3>2, <3>3
  <2>2. CASE PaxCutShort
    <3>1. IsHeader(MemberTypes) /\ "size" \in DOMAIN pax /\ PastEnd(pax["size"])
      BY <2>2 DEF PaxCutShort
    <3>2. AtMember(a, p, i) /\ SaidIsRecorded(a, p)
      BY <3>1, HereIsAMember
    <3>3. HasData(Header.type)
      BY <3>1, <3>2, HereIs DEF AtMember, PartIsSound, SaidIsRecorded
    <3>4. SizeOf(a, p) = pax["size"]
      BY <3>1, <3>2 DEF SaidIsRecorded, SizeSaid
    <3>5. SizeOf(a, p) \in 0..63
      <4>1. SizeOf(a, p) \in 0..(Word - 1)
        BY <3>2, HereIs, SizeIsAWord DEF AtMember
      <4> QED BY <4>1 DEF Word
    <3>6. SizeOf(a, p) <= SizeOf(a, p)
      BY <3>5
    <3> QED BY <1>1, <3>1, <3>2, <3>3, <3>4, <3>5, <3>6, RestIsPastEnd
  <2> QED BY <2>1, <2>2
<1> QED BY <1>1, <1>4, WalkEnds

\* Where an undamaged archive has a header or the end mark there are no other bytes.
LEMMA NoBadHeader ==
  ASSUME NEW a, NEW p, NEW i, Reading(a, p, i), BadHeader
  PROVE  FALSE
<1>1. Header.is \notin {"zeros", "header"}
  BY DEF BadHeader
<1> QED BY <1>1, HereIs DEF AtMember, AtAnnouncement

\* Half a header is the end of a file that was cut between two members' data.
LEMMA ShortHeaderKeepsFromTar ==
  ASSUME IInv, NEW a, NEW p, NEW i, Reading(a, p, i), ~damaged, ShortHeader
  PROVE  FromTar'
<1>1. Return("error") /\ length - position \in 1..1
  BY DEF ShortHeader, Block
<1>2. /\ length \in Nat /\ position \in Nat /\ position % 2 = 0 /\ growths \in Nat
      /\ growths = 0 => length = fileSize
  <2>1. Len(archive) \in Nat
    BY LenProperties DEF IInv, FileIsSound, Sound
  <2> QED BY <2>1, ArchivesAssumption DEF IInv, TypeOK, LengthIsFileSize, Block
<1>3. ASSUME growths = 0 PROVE EndsInAHeader(a)
  <2>1. fileSize = position + 1 /\ fileSize \in Nat /\ fileSize % 2 # 0
    BY <1>1, <1>2, <1>3
  <2>2. ASSUME NEW k \in 1..Len(a.members) PROVE ~EndsInDataOf(a.members[k])
    <3> DEFINE o == a.members[k].offset
               z == a.members[k].size
               listed == Len(entries)
    <3>1. listed \in Nat /\ DOMAIN entries = 1..listed /\ k \in Nat
      <4>1. listed \in Nat /\ DOMAIN entries = 1..listed
        BY LenProperties DEF IInv, EntriesAreListed
      <4>2. Len(a.members) \in Nat
        BY HereIs, PartsAre
      <4> QED BY <4>1, <4>2
    <3>2. CASE k > listed
      <4>1. o \in Nat /\ z \in Nat /\ o >= position + 2
        BY <3>2, RestIsBehind DEF DataOffset, Block
      <4> HIDE DEF o, z
      <4>2. ~(fileSize \in (o + 1)..(o + z - 1))
        BY <1>2, <2>1, <4>1
      <4> QED BY <4>2 DEF o, z, EndsInDataOf
    <3>3. CASE ~(k > listed)
      <4>1. k \in 1..listed
        BY <3>1, <3>3
      <4>2. entries[k] = a.members[k]
        BY <4>1 DEF Reading, Begins
      <4>3. o \in Nat /\ z \in Nat /\ o + z <= fileSize
        BY <1>3, <3>1, <4>1, <4>2 DEF IInv, EntriesAreTyped, EntriesAreInside
      <4> HIDE DEF o, z
      <4>4. ~(fileSize \in (o + 1)..(o + z - 1))
        BY <2>1, <4>3
      <4> QED BY <4>4 DEF o, z, EndsInDataOf
    <3> QED BY <3>2, <3>3
  <2> QED BY <2>1, <2>2 DEF EndsInAHeader, Block
<1>4. EndsInAHeader(a)
  BY <1>2, <1>3 DEF EndsInAHeader
<1> QED BY <1>1, <1>4, WalkEnds

\* The text of a metadata header is there, unless the file is still growing.
LEMMA BadMetadataKeepsFromTar ==
  ASSUME IInv, NEW a, NEW p, NEW i, Reading(a, p, i), ~damaged, BadMetadata
  PROVE  FromTar'
<1>1. /\ Return("error") /\ HeaderRead /\ Header.is = "header" /\ Header.type \in {"L", "K", "x"}
      /\ Fits /\ (Header.size > MaxMetadataBytes \/ DataOffset + Header.size > length)
  BY DEF BadMetadata, IsHeader
<1>2. AtAnnouncement(a, p, i)
  <2>1. Header.is # "zeros" /\ Header.type \notin MemberTypes
    BY <1>1 DEF MemberTypes
  <2> QED BY <2>1, HereIs DEF AtMember
<1>3. Header.size <= MaxMetadataBytes
  <2>1. AnnouncementIsSound(a.blocks, a.parts[p], i) /\ Header = a.blocks[i]
    BY <1>2, HereIs DEF AtAnnouncement
  <2> QED BY <1>1, <2>1 DEF AnnouncementIsSound
<1>4. Header.size \in 0..(Word - 1) /\ Header.size \in Nat
  <2>1. Header.size \in 0..(Word - 1)
    BY <1>1, HeaderIsThere
  <2> QED BY <2>1 DEF Word
<1>5. DataOffset + Header.size > length
  BY <1>1, <1>3, <1>4 DEF MaxMetadataBytes
<1>6. growths \in Nat
  BY ArchivesAssumption DEF IInv, TypeOK
<1>7. growths # 0
  <2> SUFFICES ASSUME growths = 0 PROVE FALSE
    OBVIOUS
  <2>1. ~PastEnd(Header.size)
    BY <1>1 DEF Fits, HasData
  <2>2. DataOffset + Header.size <= fileSize
    BY <1>1, <1>4, <2>1, FitsIsInside
  <2>3. DataOffset \in Nat /\ length \in Nat /\ fileSize \in 0..length
    BY <1>1, HeaderIsThere
  <2> QED BY <1>4, <1>5, <2>2, <2>3
<1>8. EndsInAHeader(a)
  BY <1>6, <1>7 DEF EndsInAHeader
<1> QED BY <1>1, <1>8, WalkEnds

LEMMA NextKeepsFromTar == IInv /\ FromTar /\ [Next]_vars => FromTar'
<1> SUFFICES ASSUME IInv, FromTar, [Next]_vars PROVE FromTar'
  OBVIOUS
<1>1. CASE UNCHANGED vars
  BY <1>1 DEF vars, file, said, FromTar, Walk, Begins, Place, SaidFits, RestIsCut, EndsInAHeader, EndsInDataOf
<1>2. CASE Next
  <2>1. UNCHANGED damaged /\ status = "reading"
    BY <1>2 DEF Next, EndOfFile, ShortHeader, EndOfArchive, BadHeader, CutShort, BadMetadata, Metadata,
                GlobalHeader, PaxCutShort, Member, Grow, Return, file, IsHeader, HeaderRead
  <2>2. CASE damaged
    BY <2>1, <2>2 DEF FromTar
  <2>3. CASE ~damaged
    <3>1. PICK a \in Archives : Walk(a)
      BY <2>3 DEF FromTar
    <3>2. PICK p \in 1..Len(a.parts), i \in 1..Len(a.blocks) : Place(a, p, i)
      BY <2>1, <3>1 DEF Walk
    <3>3. Reading(a, p, i)
      BY <3>1, <3>2 DEF Walk, Reading
    <3> QED
      BY <1>2, <2>3, <3>3, EndKeepsFromTar, CutKeepsFromTar, NoBadHeader, ShortHeaderKeepsFromTar,
         BadMetadataKeepsFromTar, MetadataKeepsFromTar, MemberKeepsFromTar, GrowKeepsFromTar DEF Next
  <2> QED BY <2>2, <2>3
<1> QED BY <1>1, <1>2

\* The invariant IInv and FromTar hold together.
THEOREM WalkFollowsTar == Spec => []FromTar
<1>1. Init => FromTar
  BY InitMakesFromTar
<1>2. IInv /\ FromTar /\ [Next]_vars => FromTar'
  BY NextKeepsFromTar
<1> QED BY <1>1, <1>2, Invariant, PTL DEF Spec

\* Of every undamaged archive tar may write, cut anywhere or still growing,
\* index() lists the first members under the names, kinds, sizes, offsets and
\* links they were archived with, and every one whose data was complete; an
\* error means that the file ended in a header or was still being written
\* (TarArchive.cpp:90-199).
THEOREM WhatWasArchivedIsListed == Spec => []WholeMembersAreListed
<1>1. IInv /\ FromTar => WholeMembersAreListed
  <2> SUFFICES ASSUME IInv, FromTar, ~damaged PROVE WholeMembersAreListed
    BY DEF WholeMembersAreListed
  <2>1. PICK a \in Archives : Walk(a)
    BY DEF FromTar
  <2> DEFINE A == {entries[n] : n \in DOMAIN entries} \cup {a.members[n] : n \in DOMAIN a.members}
  <2>2. /\ entries \in Seq(A) /\ a.members \in Seq(A) /\ members = a.members
        /\ DOMAIN members = 1..Len(members) /\ Len(members) \in Nat /\ Len(entries) \in Nat
    <3>1. Sound(a.blocks) /\ WrittenByTar(a)
      BY ArchivesAssumption
    <3>2. a.members \in Seq({a.members[n] : n \in DOMAIN a.members})
      BY <3>1 DEF WrittenByTar
    <3> QED BY <2>1, <3>2, SeqMonotonic, LenProperties DEF IInv, EntriesAreListed, Walk
  <2>3. IsPrefix(entries, members)
    <3> HIDE DEF A
    <3> QED BY <2>1, <2>2, PrefixIs DEF Walk, Begins
  <2>4. ASSUME status = "listed", NEW k \in DOMAIN members,
               members[k].offset + members[k].size <= fileSize
        PROVE  k <= Len(entries)
    <3>1. k > Len(entries) => members[k].offset + members[k].size > fileSize
      BY <2>1, <2>2, <2>4 DEF Walk, RestIsCut
    <3>2. k \in Nat
      BY <2>2
    <3>3. fileSize \in Nat
      <4>1. Len(archive) \in Nat
        BY LenProperties DEF IInv, FileIsSound, Sound
      <4> QED BY <4>1 DEF IInv, TypeOK, Block
    <3>4. members[k].offset \in Nat /\ members[k].size \in Nat
      <4>1. /\ Sound(a.blocks) /\ WrittenByTar(a) /\ Len(a.parts) \in Nat \ {0}
            /\ a.parts[1].before = 0
        BY ArchivesAssumption, PartsAre DEF WrittenByTar
      <4>2. 1 \in 1..Len(a.parts)
        BY <4>1
      <4>3. Behind(a, 1)
        BY <4>1, <4>2, MembersAreBehind
      <4>4. k \in 1..Len(a.members) /\ k > a.parts[1].before
        BY <2>2, <3>2, <4>1
      <4> QED BY <2>2, <4>3, <4>4 DEF Behind
    <3>5. ~(k > Len(entries))
      <4> DEFINE o == members[k].offset
                 z == members[k].size
      <4>1. o \in Nat /\ z \in Nat /\ o + z <= fileSize
        BY <2>4, <3>4
      <4>2. k > Len(entries) => o + z > fileSize
        BY <3>1
      <4> HIDE DEF o, z
      <4> QED BY <3>3, <4>1, <4>2
    <3> QED BY <2>2, <3>2, <3>5
  <2>5. status = "error" => \/ growths > 0
                            \/ fileSize % Block # 0 /\ ~\E k \in DOMAIN members : EndsInDataOf(members[k])
    BY <2>1, <2>2 DEF Walk, EndsInAHeader
  <2> QED BY <2>3, <2>4, <2>5 DEF WholeMembersAreListed
<1> QED BY <1>1, Invariant, WalkFollowsTar, PTL

-----------------------------------------------------------------------------
(* What the folds are.                                                     *)

\* Finite sets, taken apart one by one.
LEMMA OneLess ==
  ASSUME NEW D, IsFiniteSet(D), NEW s \in SUBSET D
  PROVE  /\ IsFiniteSet(s) /\ Cardinality(s) \in Nat /\ Cardinality(s) <= Cardinality(D)
         /\ Cardinality(s) = 0 <=> s = {}
         /\ \A x \in s : s \ {x} \in SUBSET D /\ Cardinality(s \ {x}) = Cardinality(s) - 1
<1>1. IsFiniteSet(s) /\ Cardinality(s) <= Cardinality(D)
  BY FS_Subset
<1>2. Cardinality(s) \in Nat /\ (Cardinality(s) = 0 <=> s = {})
  BY <1>1, FS_CardinalityType, FS_EmptySet
<1>3. ASSUME NEW x \in s PROVE Cardinality(s \ {x}) = Cardinality(s) - 1
  BY <1>1, FS_RemoveElement
<1> QED BY <1>1, <1>2, <1>3

SomeOf(s) == CHOOSE x \in s : TRUE

\* t has the total of every set of children.
Totals(c, t) ==
  t = [s \in SUBSET DOMAIN c |-> IF s = {} THEN 0 ELSE c[SomeOf(s)].size + t[s \ {SomeOf(s)}]]

LEMMA TotalsExist ==
  ASSUME NEW c, IsFiniteSet(DOMAIN c)
  PROVE  \E t : Totals(c, t)
<1> DEFINE D == DOMAIN c
           Few(n) == {s \in SUBSET D : Cardinality(s) <= n}
           Upto(n, g) == /\ g = [s \in Few(n) |-> g[s]]
                         /\ \A s \in Few(n) : g[s] = IF s = {} THEN 0 ELSE c[SomeOf(s)].size + g[s \ {SomeOf(s)}]
           S == {n \in Nat : \E g : Upto(n, g)}
<1>1. \A s \in SUBSET D : /\ Cardinality(s) \in Nat /\ Cardinality(s) <= Cardinality(D)
                          /\ Cardinality(s) = 0 <=> s = {}
                          /\ s # {} => /\ s \ {SomeOf(s)} \in SUBSET D
                                       /\ Cardinality(s \ {SomeOf(s)}) = Cardinality(s) - 1
  BY OneLess DEF SomeOf
<1>2. Cardinality(D) \in Nat /\ D \in SUBSET D
  BY <1>1
<1> HIDE DEF D
<1>3. 0 \in S
  <2> DEFINE e == [s \in Few(0) |-> 0]
  <2>1. ASSUME NEW s \in Few(0) PROVE s = {}
    <3>1. s \in SUBSET D /\ Cardinality(s) <= 0
      OBVIOUS
    <3>2. Cardinality(s) \in Nat /\ (Cardinality(s) = 0 <=> s = {})
      BY <1>1, <3>1
    <3> QED BY <3>1, <3>2
  <2>2. Upto(0, e)
    BY <2>1
  <2> HIDE DEF Upto, e
  <2> QED BY <2>2
<1>4. ASSUME NEW n \in Nat, n \in S PROVE n + 1 \in S
  <2>1. PICK g : Upto(n, g)
    <3> HIDE DEF Upto
    <3> QED BY <1>4
  <2> DEFINE h == [s \in Few(n + 1) |-> IF s = {} THEN 0 ELSE c[SomeOf(s)].size + g[s \ {SomeOf(s)}]]
  <2>2. \A s \in Few(n + 1) : s # {} => s \ {SomeOf(s)} \in Few(n)
    BY <1>1
  <2>3. ASSUME NEW s \in Few(n) PROVE s \in Few(n + 1) /\ h[s] = g[s]
    <3>1. s \in SUBSET D /\ Cardinality(s) <= n /\ Cardinality(s) \in Nat
      BY <1>1
    <3>2. s \in Few(n + 1)
      BY <3>1
    <3>3. g[s] = IF s = {} THEN 0 ELSE c[SomeOf(s)].size + g[s \ {SomeOf(s)}]
      BY <2>1
    <3> HIDE DEF Few
    <3> QED BY <3>2, <3>3
  <2>4. Upto(n + 1, h)
    BY <2>2, <2>3
  <2> HIDE DEF Upto, h
  <2> QED BY <2>4
<1>5. Cardinality(D) \in S
  <2> HIDE DEF S
  <2> QED BY <1>2, <1>3, <1>4, NatSet
<1>6. PICK g : Upto(Cardinality(D), g)
  <2> HIDE DEF Upto
  <2> QED BY <1>5
<1>7. Few(Cardinality(D)) = SUBSET D
  BY <1>1
<1>8. g = [s \in SUBSET D |-> IF s = {} THEN 0 ELSE c[SomeOf(s)].size + g[s \ {SomeOf(s)}]]
  BY <1>6, <1>7
<1> QED BY <1>8 DEF Totals, D

\* TotalOf is what adding up the children one by one gives.
LEMMA TotalIs ==
  ASSUME NEW c, IsFiniteSet(DOMAIN c)
  PROVE  \E t : Totals(c, t) /\ TotalOf(c) = t[DOMAIN c]
<1> DEFINE Step(g) == [s \in SUBSET DOMAIN c |-> IF s = {} THEN 0 ELSE c[SomeOf(s)].size + g[s \ {SomeOf(s)}]]
           total == CHOOSE g : g = Step(g)
<1>1. TotalOf(c) = total[DOMAIN c]
  BY DEF TotalOf, FoldFunction, FoldFunctionOnSet, MapThenFoldSet, SomeOf
<1>2. PICK t : t = Step(t)
  BY TotalsExist DEF Totals
<1> HIDE DEF Step
<1>3. total = Step(total)
  BY <1>2
<1> HIDE DEF total
<1> QED BY <1>1, <1>3 DEF Totals, Step

\* t has what With makes of every part of the list.
Children(list, g, t) ==
  t = [s \in SUBSET DOMAIN list |-> IF s = {} THEN <<>> ELSE With(t[s \ {Max(s)}], g, list[Max(s)])]

LEMMA ChildrenExist ==
  ASSUME NEW list, NEW prefix, IsFiniteSet(DOMAIN list),
         \A s \in SUBSET DOMAIN list : s # {} => Max(s) \in s
  PROVE  \E t : Children(list, prefix, t)
<1> DEFINE D == DOMAIN list
           Few(n) == {s \in SUBSET D : Cardinality(s) <= n}
           Value(g, s) == IF s = {} THEN <<>> ELSE With(g[s \ {Max(s)}], prefix, list[Max(s)])
           Upto(n, g) == /\ g = [s \in Few(n) |-> g[s]]
                         /\ \A s \in Few(n) : g[s] = Value(g, s)
           S == {n \in Nat : \E g : Upto(n, g)}
<1>1. \A s \in SUBSET D : /\ Cardinality(s) \in Nat /\ Cardinality(s) <= Cardinality(D)
                          /\ Cardinality(s) = 0 <=> s = {}
                          /\ s # {} => /\ s \ {Max(s)} \in SUBSET D
                                       /\ Cardinality(s \ {Max(s)}) = Cardinality(s) - 1
  BY OneLess
<1>2. Cardinality(D) \in Nat /\ D \in SUBSET D
  BY <1>1
<1> HIDE DEF D
<1>3. 0 \in S
  <2> DEFINE e == [s \in Few(0) |-> <<>>]
  <2>1. ASSUME NEW s \in Few(0) PROVE s = {}
    <3>1. s \in SUBSET D /\ Cardinality(s) <= 0
      OBVIOUS
    <3>2. Cardinality(s) \in Nat /\ (Cardinality(s) = 0 <=> s = {})
      BY <1>1, <3>1
    <3> QED BY <3>1, <3>2
  <2>2. Upto(0, e)
    BY <2>1
  <2> HIDE DEF Upto, e
  <2> QED BY <2>2
<1>4. ASSUME NEW n \in Nat, n \in S PROVE n + 1 \in S
  <2>1. PICK g : Upto(n, g)
    <3> HIDE DEF Upto
    <3> QED BY <1>4
  <2> DEFINE h == [s \in Few(n + 1) |-> Value(g, s)]
  <2>2. \A s \in Few(n + 1) : s # {} => s \ {Max(s)} \in Few(n)
    BY <1>1
  <2>3. ASSUME NEW s \in Few(n) PROVE s \in Few(n + 1) /\ h[s] = g[s]
    <3>1. s \in SUBSET D /\ Cardinality(s) <= n /\ Cardinality(s) \in Nat
      BY <1>1
    <3>2. s \in Few(n + 1)
      BY <3>1
    <3>3. g[s] = Value(g, s)
      BY <2>1
    <3> HIDE DEF Value, Few
    <3> QED BY <3>2, <3>3
  <2>4. Upto(n + 1, h)
    BY <2>2, <2>3
  <2> HIDE DEF Upto, h
  <2> QED BY <2>4
<1>5. Cardinality(D) \in S
  <2> HIDE DEF S
  <2> QED BY <1>2, <1>3, <1>4, NatSet
<1>6. PICK g : Upto(Cardinality(D), g)
  <2> HIDE DEF Upto
  <2> QED BY <1>5
<1>7. Few(Cardinality(D)) = SUBSET D
  BY <1>1
<1>8. g = [s \in SUBSET D |-> Value(g, s)]
  BY <1>6, <1>7
<1> QED BY <1>8 DEF Children, D

LEMMA ListChildrenIs ==
  ASSUME NEW list, NEW prefix, IsFiniteSet(DOMAIN list),
         \A s \in SUBSET DOMAIN list : s # {} => Max(s) \in s
  PROVE  \E t : Children(list, prefix, t) /\ ListChildren(list, prefix) = t[DOMAIN list]
<1> DEFINE Step(g) == [s \in SUBSET DOMAIN list |->
                         IF s = {} THEN <<>> ELSE With(g[s \ {Max(s)}], prefix, list[Max(s)])]
           listed == CHOOSE g : g = Step(g)
<1>1. ListChildren(list, prefix) = listed[DOMAIN list]
  BY DEF ListChildren, FoldLeft, MapThenFoldSet
<1>2. PICK t : t = Step(t)
  <2>1. PICK t : Children(list, prefix, t)
    BY ChildrenExist
  <2> QED BY <2>1 DEF Children
<1> HIDE DEF Step
<1>3. listed = Step(listed)
  BY <1>2
<1> HIDE DEF listed
<1> QED BY <1>1, <1>3 DEF Children, Step

\* So far(n) is what the folder shows of the first n of the list.
Shows(list, L, prefix, far) ==
  /\ far[0] = <<>>
  /\ \A n \in 1..L : far[n] = With(far[n - 1], prefix, list[n])
  /\ ListChildren(list, prefix) = far[L]

LEMMA MaxIs ==
  ASSUME NEW n \in Nat \ {0}
  PROVE  Max(1..n) = n
<1>1. n \in 1..n /\ \A y \in 1..n : n >= y
  OBVIOUS
<1>2. \A x \in 1..n : (\A y \in 1..n : x >= y) => x = n
  OBVIOUS
<1> QED BY <1>1, <1>2 DEF Max

LEMMA MaxIsOneOf ==
  ASSUME NEW L \in Nat, NEW s \in SUBSET (1..L), s # {}
  PROVE  Max(s) \in s /\ \A y \in s : Max(s) >= y
<1> DEFINE HasMost(r) == \E x \in r : \A y \in r : x >= y
           T == {n \in Nat : \A r \in SUBSET (1..n) : r # {} => HasMost(r)}
<1>1. 0 \in T
  <2>1. 1..0 = {}
    OBVIOUS
  <2> QED BY <2>1
<1>2. ASSUME NEW n \in Nat, n \in T PROVE n + 1 \in T
  <2> SUFFICES ASSUME NEW r \in SUBSET (1..(n + 1)), r # {} PROVE HasMost(r)
    OBVIOUS
  <2>1. CASE n + 1 \in r
    <3>1. \A y \in r : n + 1 >= y
      OBVIOUS
    <3> QED BY <2>1, <3>1
  <2>2. CASE n + 1 \notin r
    <3>1. \A y \in r : y \in 1..n
      <4>1. \A y \in 1..(n + 1) : y # n + 1 => y \in 1..n
        OBVIOUS
      <4> QED BY <2>2, <4>1
    <3> QED BY <1>2, <3>1
  <2> QED BY <2>1, <2>2
<1>3. L \in T
  <2> HIDE DEF T
  <2> QED BY <1>1, <1>2, NatSet
<1>4. HasMost(s)
  BY <1>3
<1> QED BY <1>4 DEF Max

\* The folder is looked at item by item.
LEMMA OneByOne ==
  ASSUME NEW list, NEW prefix, NEW L \in Nat, DOMAIN list = 1..L
  PROVE  \E far : Shows(list, L, prefix, far)
<1>1. IsFiniteSet(1..L)
  BY FS_Interval
<1>2. \A s \in SUBSET (1..L) : s # {} => Max(s) \in s
  BY MaxIsOneOf
<1>3. PICK t : Children(list, prefix, t) /\ ListChildren(list, prefix) = t[1..L]
  BY <1>1, <1>2, ListChildrenIs
<1> DEFINE far == [n \in 0..L |-> t[1..n]]
<1>4. \A s \in SUBSET (1..L) :
        t[s] = IF s = {} THEN <<>> ELSE With(t[s \ {Max(s)}], prefix, list[Max(s)])
  BY <1>3 DEF Children
<1>5. far[0] = <<>>
  <2>1. 0 \in 0..L /\ 1..0 = {} /\ {} \in SUBSET (1..L)
    OBVIOUS
  <2> QED BY <1>4, <2>1
<1>6. ASSUME NEW n \in 1..L PROVE far[n] = With(far[n - 1], prefix, list[n])
  <2>1. /\ n \in Nat \ {0} /\ n \in 0..L /\ n - 1 \in 0..L /\ n \in 1..n
        /\ 1..n \in SUBSET (1..L) /\ (1..n) \ {n} = 1..(n - 1)
    OBVIOUS
  <2>2. Max(1..n) = n
    BY <2>1, MaxIs
  <2>3. t[1..n] = With(t[1..(n - 1)], prefix, list[n])
    BY <1>4, <2>1, <2>2
  <2> QED BY <2>1, <2>3
<1>7. ListChildren(list, prefix) = far[L]
  <2>1. L \in 0..L
    OBVIOUS
  <2> QED BY <1>3, <2>1
<1> HIDE DEF far
<1> QED BY <1>5, <1>6, <1>7 DEF Shows

-----------------------------------------------------------------------------
(* Totals.                                                                 *)

Sized(c) == IsFiniteSet(DOMAIN c) /\ \A p \in DOMAIN c : c[p].size \in Nat

\* Whichever child is taken first.
LEMMA SumSplit ==
  ASSUME NEW c, Sized(c), NEW t, Totals(c, t), NEW s \in SUBSET DOMAIN c
  PROVE  t[s] \in Nat /\ \A q \in s : t[s] = c[q].size + t[s \ {q}]
<1> DEFINE D == DOMAIN c
           Splits(r) == t[r] \in Nat /\ \A q \in r : t[r] = c[q].size + t[r \ {q}]
           T == {n \in Nat : \A r \in SUBSET D : Cardinality(r) <= n => Splits(r)}
<1>1. /\ IsFiniteSet(D)
      /\ \A q \in D : c[q].size \in Nat
      /\ \A r \in SUBSET D : t[r] = IF r = {} THEN 0 ELSE c[SomeOf(r)].size + t[r \ {SomeOf(r)}]
  BY DEF Sized, Totals
<1>2. \A r \in SUBSET D : /\ Cardinality(r) \in Nat
                          /\ Cardinality(r) = 0 <=> r = {}
                          /\ \A x \in r : r \ {x} \in SUBSET D /\ Cardinality(r \ {x}) = Cardinality(r) - 1
  BY <1>1, OneLess
<1>3. ASSUME NEW r \in SUBSET D, r # {},
             \A x \in SUBSET D : Cardinality(x) < Cardinality(r) => Splits(x)
      PROVE  Splits(r)
  <2> DEFINE p == SomeOf(r)
  <2>1. p \in r
    BY <1>3 DEF SomeOf
  <2>2. \A q \in r : /\ r \ {q} \in SUBSET D /\ Splits(r \ {q})
                     /\ (r \ {p}) \ {q} \in SUBSET D /\ Splits((r \ {p}) \ {q})
    <3> SUFFICES ASSUME NEW q \in r
                 PROVE  /\ r \ {q} \in SUBSET D /\ Splits(r \ {q})
                        /\ (r \ {p}) \ {q} \in SUBSET D /\ Splits((r \ {p}) \ {q})
      OBVIOUS
    <3>1. r \ {q} \in SUBSET D /\ Cardinality(r \ {q}) < Cardinality(r)
      BY <1>2
    <3>2. r \ {p} \in SUBSET D /\ Cardinality(r \ {p}) < Cardinality(r) /\ Cardinality(r \ {p}) \in Nat
      BY <1>2, <2>1
    <3>3. (r \ {p}) \ {q} \in SUBSET D /\ Cardinality((r \ {p}) \ {q}) < Cardinality(r)
      <4>1. CASE q = p
        <5>1. (r \ {p}) \ {q} = r \ {p}
          BY <4>1
        <5> QED BY <3>2, <5>1
      <4>2. CASE q # p
        <5>1. Cardinality((r \ {p}) \ {q}) = Cardinality(r \ {p}) - 1
          BY <1>2, <3>2, <4>2
        <5> QED BY <1>2, <3>2, <5>1
      <4> QED BY <4>1, <4>2
    <3> HIDE DEF Splits, p
    <3> QED BY <1>3, <3>1, <3>3
  <2>3. t[r] = c[p].size + t[r \ {p}] /\ c[p].size \in Nat
    BY <1>1, <1>3, <2>1
  <2>4. t[r] \in Nat
    <3>1. t[r \ {p}] \in Nat
      BY <2>1, <2>2
    <3> HIDE DEF p
    <3> QED BY <2>3, <3>1
  <2>5. ASSUME NEW q \in r, q # p PROVE t[r] = c[q].size + t[r \ {q}]
    <3>1. t[r \ {p}] = c[q].size + t[(r \ {p}) \ {q}]
      BY <2>1, <2>2, <2>5
    <3>2. t[r \ {q}] = c[p].size + t[(r \ {q}) \ {p}]
      BY <2>1, <2>2, <2>5
    <3>3. (r \ {p}) \ {q} = (r \ {q}) \ {p}
      OBVIOUS
    <3> DEFINE u == t[(r \ {p}) \ {q}]
               x == t[r \ {p}]
               y == t[r \ {q}]
               z == t[r]
               a == c[p].size
               b == c[q].size
    <3>4. a \in Nat /\ b \in Nat /\ u \in Nat /\ x = b + u /\ y = a + u /\ z = a + x
      BY <1>1, <2>2, <2>3, <3>1, <3>2, <3>3
    <3> HIDE DEF u, x, y, z, a, b
    <3>5. z = b + y
      BY <3>4
    <3> QED BY <3>5 DEF z, b, y
  <2> QED BY <2>3, <2>4, <2>5
<1>4. Splits({})
  <2>1. {} \in SUBSET D
    OBVIOUS
  <2>2. t[{}] = 0
    BY <1>1, <2>1
  <2> QED BY <2>2
<1> HIDE DEF Splits
<1>5. 0 \in T
  <2>1. ASSUME NEW r \in SUBSET D, Cardinality(r) <= 0 PROVE r = {}
    BY <1>2, <2>1
  <2> QED BY <1>4, <2>1
<1>6. ASSUME NEW n \in Nat, n \in T PROVE n + 1 \in T
  <2> SUFFICES ASSUME NEW r \in SUBSET D, Cardinality(r) <= n + 1 PROVE Splits(r)
    OBVIOUS
  <2>1. \A x \in SUBSET D : Cardinality(x) < Cardinality(r) => Splits(x)
    <3> SUFFICES ASSUME NEW x \in SUBSET D, Cardinality(x) < Cardinality(r) PROVE Splits(x)
      OBVIOUS
    <3>1. Cardinality(x) \in Nat /\ Cardinality(r) \in Nat
      BY <1>2
    <3>2. Cardinality(x) <= n
      BY <3>1
    <3> QED BY <1>6, <3>2
  <2> QED BY <1>3, <1>4, <2>1
<1>7. Cardinality(s) \in T
  <2>1. Cardinality(s) \in Nat
    BY <1>2
  <2> HIDE DEF T
  <2> QED BY <1>5, <1>6, <2>1, NatSet
<1>8. Splits(s)
  <2>1. Cardinality(s) \in Nat
    BY <1>2
  <2> QED BY <1>7, <2>1
<1> QED BY <1>8 DEF Splits

\* Two folders that show the same children have the same total of them.
LEMMA SumSame ==
  ASSUME NEW c, NEW d, NEW D, IsFiniteSet(D), D \subseteq DOMAIN c, D \subseteq DOMAIN d,
         \A p \in D : c[p] = d[p], NEW t, Totals(c, t), NEW u, Totals(d, u)
  PROVE  t[D] = u[D]
<1> DEFINE T == {n \in Nat : \A r \in SUBSET D : Cardinality(r) <= n => t[r] = u[r]}
<1>1. \A r \in SUBSET D : /\ t[r] = IF r = {} THEN 0 ELSE c[SomeOf(r)].size + t[r \ {SomeOf(r)}]
                          /\ u[r] = IF r = {} THEN 0 ELSE d[SomeOf(r)].size + u[r \ {SomeOf(r)}]
  BY DEF Totals
<1>2. \A r \in SUBSET D : /\ Cardinality(r) \in Nat
                          /\ Cardinality(r) = 0 <=> r = {}
                          /\ \A x \in r : r \ {x} \in SUBSET D /\ Cardinality(r \ {x}) = Cardinality(r) - 1
  BY OneLess
<1>3. 0 \in T
  <2> SUFFICES ASSUME NEW r \in SUBSET D, Cardinality(r) <= 0 PROVE t[r] = u[r]
    OBVIOUS
  <2>1. r = {}
    BY <1>2
  <2> QED BY <1>1, <2>1
<1>4. ASSUME NEW n \in Nat, n \in T PROVE n + 1 \in T
  <2> SUFFICES ASSUME NEW r \in SUBSET D, Cardinality(r) <= n + 1 PROVE t[r] = u[r]
    OBVIOUS
  <2>1. CASE r = {}
    BY <1>1, <2>1
  <2>2. CASE r # {}
    <3>1. SomeOf(r) \in r
      BY <2>2 DEF SomeOf
    <3>2. r \ {SomeOf(r)} \in SUBSET D /\ Cardinality(r \ {SomeOf(r)}) <= n
      BY <1>2, <3>1
    <3>3. t[r \ {SomeOf(r)}] = u[r \ {SomeOf(r)}] /\ c[SomeOf(r)] = d[SomeOf(r)]
      BY <1>4, <3>1, <3>2
    <3> QED BY <1>1, <2>2, <3>3
  <2> QED BY <2>1, <2>2
<1>5. Cardinality(D) \in T
  <2>1. Cardinality(D) \in Nat
    BY <1>2
  <2> HIDE DEF T
  <2> QED BY <1>3, <1>4, <2>1, NatSet
<1>6. Cardinality(D) \in Nat /\ D \in SUBSET D
  BY <1>2
<1> QED BY <1>5, <1>6

\* What a folder adds up to, with one child new or another.
LEMMA TotalWith ==
  ASSUME NEW c, Sized(c), c = [p \in DOMAIN c |-> c[p]], NEW q, NEW r, r.size \in Nat
  PROVE  LET d == [p \in DOMAIN c \cup {q} |-> IF p = q THEN r ELSE c[p]] IN
         /\ DOMAIN d = DOMAIN c \cup {q} /\ d[q] = r /\ \A p \in DOMAIN c \ {q} : d[p] = c[p]
         /\ d = [p \in DOMAIN d |-> d[p]] /\ Sized(d) /\ TotalOf(c) \in Nat
         /\ q \notin DOMAIN c => TotalOf(d) = TotalOf(c) + r.size
         /\ q \in DOMAIN c => TotalOf(d) + c[q].size = TotalOf(c) + r.size
<1> DEFINE d == [p \in DOMAIN c \cup {q} |-> IF p = q THEN r ELSE c[p]]
           D == DOMAIN c \ {q}
<1>1. /\ DOMAIN d = DOMAIN c \cup {q} /\ d[q] = r /\ \A p \in D : d[p] = c[p]
      /\ d = [p \in DOMAIN d |-> d[p]]
  OBVIOUS
<1> HIDE DEF d
<1>2. IsFiniteSet(DOMAIN c) /\ IsFiniteSet(DOMAIN d) /\ IsFiniteSet(D)
  BY <1>1, FS_AddElement, FS_RemoveElement DEF Sized
<1>3. Sized(d)
  BY <1>1, <1>2 DEF Sized
<1>4. PICK t : Totals(c, t) /\ TotalOf(c) = t[DOMAIN c]
  BY <1>2, TotalIs
<1>5. PICK u : Totals(d, u) /\ TotalOf(d) = u[DOMAIN d]
  BY <1>2, TotalIs
<1>6. t[D] = u[D]
  <2>1. D \subseteq DOMAIN c /\ D \subseteq DOMAIN d /\ \A p \in D : c[p] = d[p]
    BY <1>1
  <2> HIDE DEF D
  <2> QED BY <1>2, <1>4, <1>5, <2>1, SumSame
<1>7. t[D] \in Nat /\ t[DOMAIN c] \in Nat /\ (q \in DOMAIN c => t[DOMAIN c] = c[q].size + t[D])
  <2>1. D \in SUBSET DOMAIN c /\ DOMAIN c \in SUBSET DOMAIN c
    OBVIOUS
  <2> QED BY <1>4, <2>1, SumSplit
<1>8. u[DOMAIN d] = r.size + u[D]
  <2>1. DOMAIN d \in SUBSET DOMAIN d /\ q \in DOMAIN d /\ DOMAIN d \ {q} = D
    BY <1>1
  <2>2. u[DOMAIN d] = d[q].size + u[DOMAIN d \ {q}]
    BY <1>3, <1>5, <2>1, SumSplit
  <2> QED BY <1>1, <2>1, <2>2
<1>9. q \notin DOMAIN c => D = DOMAIN c
  OBVIOUS
<1> DEFINE x == TotalOf(c)
           y == TotalOf(d)
           a == r.size
           b == c[q].size
           v == t[D]
<1>10. /\ v \in Nat /\ x \in Nat /\ y = a + v /\ a \in Nat
       /\ q \notin DOMAIN c => x = v
       /\ q \in DOMAIN c => x = b + v /\ b \in Nat
  BY <1>4, <1>5, <1>6, <1>7, <1>8, <1>9 DEF Sized
<1> HIDE DEF x, y, a, b, v
<1>11. /\ q \notin DOMAIN c => y = x + a
       /\ q \in DOMAIN c => y + b = x + a
  BY <1>10
<1> QED BY <1>1, <1>3, <1>10, <1>11 DEF d, x, y, a, b

-----------------------------------------------------------------------------
(* Where a name goes.                                                      *)

Plain(s) == s # <<>> /\ Last(s) # "/" /\ \A n \in 1..(Len(s) - 1) : s[n] # "/" => s[n + 1] = "/"

PathOf(g, s) == g \o Segment(g, s)

\* What is under a folder begins as its prefix does, and goes on.
LEMMA UnderIs ==
  ASSUME NEW A, NEW g \in Seq(A), NEW s \in Seq(A)
  PROVE  IsUnderPrefix(g, s) <=> Len(s) > Len(g) /\ \A n \in 1..Len(g) : s[n] = g[n]
<1>1. Len(s) \in Nat /\ Len(g) \in Nat
  BY LenProperties
<1>2. IsPrefix(g, s) <=> Len(g) <= Len(s) /\ \A n \in 1..Len(g) : g[n] = s[n]
  BY PrefixIs
<1> QED BY <1>1, <1>2 DEF IsUnderPrefix

\* Under the prefix of the folder named p.
LEMMA UnderSlashIs ==
  ASSUME NEW A, "/" \in A, NEW p \in Seq(A), NEW s \in Seq(A)
  PROVE  /\ p \o <<"/">> \in Seq(A)
         /\ IsUnderPrefix(p \o <<"/">>, s) <=> /\ Len(s) > Len(p) + 1 /\ s[Len(p) + 1] = "/"
                                               /\ \A n \in 1..Len(p) : s[n] = p[n]
<1> DEFINE q == p \o <<"/">>
           L == Len(p)
<1>1. /\ <<"/">> \in Seq(A) /\ Len(<<"/">>) = 1 /\ <<"/">>[1] = "/" /\ L \in Nat
  BY LenProperties
<1>2. /\ q \in Seq(A) /\ Len(q) = L + 1
      /\ \A n \in 1..L : q[n] = p[n]
      /\ q[L + 1] = "/"
  <2> DEFINE e == <<"/">>
  <2>1. e \in Seq(A) /\ Len(e) = 1 /\ e[1] = "/"
    BY <1>1
  <2> HIDE DEF e
  <2>2. /\ p \o e \in Seq(A) /\ Len(p \o e) = Len(p) + Len(e)
        /\ \A i \in 1..(Len(p) + Len(e)) : (p \o e)[i] = IF i <= Len(p) THEN p[i] ELSE e[i - Len(p)]
    BY <2>1, ConcatProperties
  <2>3. q = p \o e
    BY DEF e
  <2> HIDE DEF q
  <2> QED BY <1>1, <2>1, <2>2, <2>3
<1> HIDE DEF q
<1>3. IsUnderPrefix(q, s) <=> Len(s) > L + 1 /\ \A n \in 1..(L + 1) : s[n] = q[n]
  <2>1. IsUnderPrefix(q, s) <=> Len(s) > Len(q) /\ \A n \in 1..Len(q) : s[n] = q[n]
    BY <1>2, UnderIs
  <2> QED BY <1>2, <2>1
<1>4. (\A n \in 1..(L + 1) : s[n] = q[n]) <=> s[L + 1] = "/" /\ \A n \in 1..L : s[n] = p[n]
  <2> HIDE DEF L
  <2>1. \A n \in 1..(L + 1) : n = L + 1 \/ n \in 1..L
    BY <1>1
  <2>2. L + 1 \in 1..(L + 1) /\ \A n \in 1..L : n \in 1..(L + 1)
    BY <1>1
  <2> QED BY <1>2, <2>1, <2>2
<1> QED BY <1>2, <1>3, <1>4 DEF q

\* The path of the child that a name below the folder goes through, or is.
LEMMA PathIs ==
  ASSUME NEW A, NEW g \in Seq(A), NEW s \in Seq(A), IsUnderPrefix(g, s)
  PROVE  LET p == PathOf(g, s)
             k == Len(g) + 1
         IN  /\ p \in Seq(A) /\ k \in 1..Len(s) /\ \A n \in 1..Len(g) : p[n] = g[n] /\ s[n] = g[n]
             /\ \/ s[k] = "/" /\ p = g
                \/ s[k] # "/" /\ Len(p) = k /\ p[k] = s[k]
<1> DEFINE p == PathOf(g, s)
           k == Len(g) + 1
<1>1. /\ Len(g) \in Nat /\ Len(s) \in Nat /\ k \in 1..Len(s) /\ s[k] \in A
      /\ \A n \in 1..Len(g) : s[n] = g[n]
  <2>1. Len(g) \in Nat /\ Len(s) \in Nat
    BY LenProperties
  <2>2. Len(s) > Len(g) /\ \A n \in 1..Len(g) : s[n] = g[n]
    BY UnderIs
  <2>3. k \in 1..Len(s)
    BY <2>1, <2>2
  <2> QED BY <2>1, <2>2, <2>3, ElementOfSeq
<1>2. CASE s[k] = "/"
  <2>1. p = g
    <3>1. Segment(g, s) = <<>>
      BY <1>2 DEF Segment
    <3> QED BY <3>1 DEF PathOf
  <2> HIDE DEF p, k
  <2> QED BY <1>1, <1>2, <2>1 DEF p, k
<1>3. CASE s[k] # "/"
  <2> DEFINE e == <<s[k]>>
  <2>1. Segment(g, s) = e
    BY <1>3 DEF Segment
  <2>2. e \in Seq(A) /\ Len(e) = 1 /\ e[1] = s[k]
    BY <1>1
  <2> HIDE DEF e
  <2>3. /\ g \o e \in Seq(A) /\ Len(g \o e) = Len(g) + Len(e)
        /\ \A i \in 1..(Len(g) + Len(e)) : (g \o e)[i] = IF i <= Len(g) THEN g[i] ELSE e[i - Len(g)]
    BY <2>2, ConcatProperties
  <2>4. p = g \o e
    BY <2>1 DEF PathOf
  <2>5. /\ p \in Seq(A) /\ Len(p) = k
        /\ \A n \in 1..Len(g) : p[n] = g[n]
    <3> HIDE DEF p
    <3> QED BY <1>1, <2>2, <2>3, <2>4
  <2>6. p[k] = s[k]
    <3>1. k \in 1..(Len(g) + 1) /\ ~(k <= Len(g)) /\ k - Len(g) = 1
      BY <1>1
    <3> HIDE DEF p, k
    <3> QED BY <2>2, <2>3, <2>4, <3>1
  <2> HIDE DEF p, k
  <2> QED BY <1>1, <1>3, <2>5, <2>6 DEF p, k
<1> QED BY <1>2, <1>3

\* A name below the folder is its child's or goes deeper.
LEMMA ChildOrDeeper ==
  ASSUME NEW A, "/" \in A, NEW g \in Seq(A), NEW s \in Seq(A), Plain(s), IsUnderPrefix(g, s)
  PROVE  \/ s = PathOf(g, s) /\ ~GoesDeeper(g, s)
         \/ IsUnderPrefix(PathOf(g, s) \o <<"/">>, s) /\ GoesDeeper(g, s)
<1> DEFINE p == PathOf(g, s)
           k == Len(g) + 1
           L == Len(s)
<1>1. /\ p \in Seq(A) /\ k \in 1..L /\ \A n \in 1..Len(g) : p[n] = g[n] /\ s[n] = g[n]
      /\ \/ s[k] = "/" /\ p = g
         \/ s[k] # "/" /\ Len(p) = k /\ p[k] = s[k]
  BY PathIs
<1>2. /\ L \in Nat /\ Len(g) \in Nat
      /\ s[L] # "/" /\ \A n \in 1..(L - 1) : s[n] # "/" => s[n + 1] = "/"
  BY LenProperties DEF Plain, Last
<1>3. GoesDeeper(g, s) <=> \E i \in k..L : s[i] = "/"
  BY DEF GoesDeeper
<1>4. IsUnderPrefix(p \o <<"/">>, s) <=> /\ L > Len(p) + 1 /\ s[Len(p) + 1] = "/"
                                         /\ \A n \in 1..Len(p) : s[n] = p[n]
  BY <1>1, UnderSlashIs
<1> HIDE DEF p, L
<1>5. CASE s[k] = "/"
  <2>1. p = g /\ k # L /\ k \in k..L
    BY <1>1, <1>2, <1>5
  <2> QED BY <1>1, <1>2, <1>3, <1>4, <1>5, <2>1 DEF p
<1>6. CASE s[k] # "/" /\ k = L
  <2>1. ~GoesDeeper(g, s)
    BY <1>1, <1>2, <1>3, <1>6
  <2>2. Len(p) = L /\ \A n \in 1..L : s[n] = p[n]
    <3>1. \A n \in 1..L : n = L \/ n \in 1..Len(g)
      BY <1>2, <1>6
    <3> QED BY <1>1, <1>6, <3>1
  <2>3. s = p
    BY <1>1, <1>2, <2>2, SeqEqual DEF L
  <2> QED BY <2>1, <2>3 DEF p
<1>7. CASE s[k] # "/" /\ k # L
  <2>1. s[k + 1] = "/" /\ k + 1 \in k..L /\ k + 1 # L
    BY <1>1, <1>2, <1>7
  <2>2. Len(p) = k /\ \A n \in 1..k : s[n] = p[n]
    <3>1. \A n \in 1..k : n = k \/ n \in 1..Len(g)
      BY <1>2
    <3> QED BY <1>1, <1>7, <3>1
  <2>3. L > k + 1
    BY <1>2, <2>1
  <2> HIDE DEF k
  <2> QED BY <1>3, <1>4, <2>1, <2>2, <2>3 DEF p
<1> QED BY <1>5, <1>6, <1>7

\* What is under a child is under the folder, through that child.
LEMMA ThroughTheChild ==
  ASSUME NEW A, "/" \in A, NEW g \in Seq(A), NEW x \in Seq(A), IsUnderPrefix(g, x),
         NEW s \in Seq(A), IsUnderPrefix(PathOf(g, x) \o <<"/">>, s)
  PROVE  IsUnderPrefix(g, s) /\ PathOf(g, s) = PathOf(g, x) /\ GoesDeeper(g, s)
<1> DEFINE p == PathOf(g, x)
           q == PathOf(g, s)
           k == Len(g) + 1
<1>1. /\ p \in Seq(A) /\ \A n \in 1..Len(g) : p[n] = g[n]
      /\ \/ x[k] = "/" /\ p = g
         \/ x[k] # "/" /\ Len(p) = k /\ p[k] = x[k]
  BY PathIs
<1>2. Len(s) > Len(p) + 1 /\ s[Len(p) + 1] = "/" /\ \A n \in 1..Len(p) : s[n] = p[n]
  BY <1>1, UnderSlashIs
<1>3. Len(g) \in Nat /\ Len(s) \in Nat /\ Len(p) \in Nat
  BY <1>1, LenProperties
<1> HIDE DEF p, q
<1>4. Len(s) > Len(g) /\ \A n \in 1..Len(g) : s[n] = g[n]
  BY <1>1, <1>2, <1>3
<1>5. IsUnderPrefix(g, s)
  BY <1>4, UnderIs
<1>6. GoesDeeper(g, s)
  <2>1. Len(p) + 1 \in (Len(g) + 1)..Len(s)
    BY <1>1, <1>2, <1>3
  <2> QED BY <1>2, <2>1 DEF GoesDeeper
<1>7. /\ q \in Seq(A) /\ \A n \in 1..Len(g) : q[n] = g[n]
      /\ \/ s[k] = "/" /\ q = g
         \/ s[k] # "/" /\ Len(q) = k /\ q[k] = s[k]
  BY <1>5, PathIs DEF q
<1>8. q = p
  <2>1. CASE x[k] = "/" /\ p = g
    BY <1>2, <1>7, <2>1
  <2>2. CASE x[k] # "/" /\ Len(p) = k /\ p[k] = x[k]
    <3>1. s[k] = p[k]
      BY <1>2, <1>3, <2>2
    <3>2. Len(q) = k /\ \A n \in 1..k : q[n] = p[n]
      <4>1. \A n \in 1..k : n = k \/ n \in 1..Len(g)
        BY <1>3
      <4> QED BY <1>1, <1>7, <2>2, <3>1, <4>1
    <3>3. Len(q) = Len(p) /\ \A n \in 1..Len(q) : q[n] = p[n]
      BY <2>2, <3>2
    <3> QED BY <1>1, <1>7, <3>3, SeqEqual
  <2> QED BY <1>1, <2>1, <2>2
<1> QED BY <1>5, <1>6, <1>8 DEF p, q

-----------------------------------------------------------------------------
(* A folder, looked at entry by entry.                                     *)

Deep(g, e) == GoesDeeper(g, e.name) \/ e.type = "directory"

\* A list of L entries that may be shown in folders.
Showable(list, L, A) ==
  /\ L \in Nat /\ DOMAIN list = 1..L /\ "/" \in A
  /\ \A i \in 1..L : /\ list[i].name \in Seq(A) /\ Plain(list[i].name)
                     /\ list[i].size \in Nat /\ (list[i].type # "file" => list[i].size = 0)
  /\ \A i, j \in 1..L : /\ list[i].name = list[j].name => i = j
                        /\ IsPrefix(list[i].name \o <<"/">>, list[j].name) => list[i].type = "directory"

\* Only what has children shares its path with another entry.
LEMMA Alone ==
  ASSUME NEW list, NEW L, NEW A, Showable(list, L, A), NEW g \in Seq(A),
         NEW i \in 1..L, IsUnderPrefix(g, list[i].name), ~Deep(g, list[i]),
         NEW j \in 1..L, IsUnderPrefix(g, list[j].name),
         PathOf(g, list[j].name) = PathOf(g, list[i].name)
  PROVE  i = j
<1> DEFINE x == list[i].name
           y == list[j].name
           p == PathOf(g, x)
<1>1. /\ "/" \in A /\ x \in Seq(A) /\ y \in Seq(A) /\ Plain(x) /\ Plain(y)
      /\ x = y => i = j
      /\ IsPrefix(x \o <<"/">>, y) => list[i].type = "directory"
  BY DEF Showable
<1>2. ~GoesDeeper(g, x) /\ list[i].type # "directory"
  BY DEF Deep
<1>3. x = p
  <2>1. \/ x = PathOf(g, x) /\ ~GoesDeeper(g, x)
        \/ IsUnderPrefix(PathOf(g, x) \o <<"/">>, x) /\ GoesDeeper(g, x)
    BY <1>1, ChildOrDeeper
  <2> QED BY <1>2, <2>1
<1>4. \/ y = PathOf(g, y)
      \/ IsUnderPrefix(PathOf(g, y) \o <<"/">>, y)
  BY <1>1, ChildOrDeeper
<1>5. ~IsUnderPrefix(x \o <<"/">>, y)
  BY <1>1, <1>2 DEF IsUnderPrefix
<1> QED BY <1>1, <1>3, <1>4, <1>5

\* A map from paths to children.
IsShown(c) == c = [p \in DOMAIN c |-> c[p]] /\ Sized(c) /\ TotalOf(c) \in Nat

SizeBefore(c, q) == IF q \in DOMAIN c THEN c[q].size ELSE 0

\* One more entry: its child, the folder's other children and what they add up to.
Adds(c, g, e, d) ==
  LET q == PathOf(g, e.name) IN
  /\ DOMAIN d = DOMAIN c \cup {q} /\ \A p \in DOMAIN c \ {q} : d[p] = c[p]
  /\ d[q].isDirectory <=> Deep(g, e) \/ (q \in DOMAIN c /\ c[q].isDirectory)
  /\ d[q].size = IF Deep(g, e) THEN SizeBefore(c, q) + e.size ELSE e.size
  /\ Deep(g, e) \/ q \notin DOMAIN c => TotalOf(d) = TotalOf(c) + e.size

LEMMA WithIs ==
  ASSUME NEW c, IsShown(c), NEW g, NEW e, e.size \in Nat
  PROVE  LET d == With(c, g, e) IN
         /\ IsShown(d)
         /\ ~IsUnderPrefix(g, e.name) => d = c
         /\ IsUnderPrefix(g, e.name) => Adds(c, g, e, d)
<1> DEFINE d == With(c, g, e)
           q == PathOf(g, e.name)
           deeper == GoesDeeper(g, e.name) \/ e.type = "directory"
           child == IF q \in DOMAIN c THEN c[q] ELSE [isDirectory |-> FALSE, size |-> 0]
           seen == [isDirectory |-> child.isDirectory \/ deeper, size |-> SizeWith(child, deeper, e)]
<1>1. d = IF IsUnderPrefix(g, e.name) THEN [p \in DOMAIN c \cup {q} |-> IF p = q THEN seen ELSE c[p]] ELSE c
  BY DEF With, PathOf
<1>2. CASE ~IsUnderPrefix(g, e.name)
  BY <1>1, <1>2
<1>3. CASE IsUnderPrefix(g, e.name)
  <2>1. /\ child.size = SizeBefore(c, q) /\ SizeBefore(c, q) \in Nat
        /\ child.isDirectory <=> q \in DOMAIN c /\ c[q].isDirectory
    <3>1. CASE q \in DOMAIN c
      <4>1. c[q].size \in Nat
        BY <3>1 DEF IsShown, Sized
      <4> HIDE DEF q
      <4> QED BY <3>1, <4>1 DEF SizeBefore
    <3>2. CASE q \notin DOMAIN c
      <4> HIDE DEF q
      <4> QED BY <3>2 DEF SizeBefore
    <3> QED BY <3>1, <3>2
  <2> HIDE DEF child, q
  <2>2. seen.size = IF deeper THEN SizeBefore(c, q) + e.size ELSE e.size
    BY <2>1 DEF SizeWith
  <2>3. seen.isDirectory <=> deeper \/ (q \in DOMAIN c /\ c[q].isDirectory)
    BY <2>1
  <2> HIDE DEF seen, d
  <2>4. seen.size \in Nat
    BY <2>1, <2>2
  <2>5. d = [p \in DOMAIN c \cup {q} |-> IF p = q THEN seen ELSE c[p]]
    BY <1>1, <1>3
  <2>6. /\ DOMAIN d = DOMAIN c \cup {q} /\ d[q] = seen /\ \A p \in DOMAIN c \ {q} : d[p] = c[p]
        /\ d = [p \in DOMAIN d |-> d[p]] /\ Sized(d) /\ TotalOf(c) \in Nat
        /\ q \notin DOMAIN c => TotalOf(d) = TotalOf(c) + seen.size
        /\ q \in DOMAIN c => TotalOf(d) + c[q].size = TotalOf(c) + seen.size
    <3> DEFINE f == [p \in DOMAIN c \cup {q} |-> IF p = q THEN seen ELSE c[p]]
    <3>1. Sized(c) /\ c = [p \in DOMAIN c |-> c[p]]
      BY DEF IsShown
    <3>2. /\ DOMAIN f = DOMAIN c \cup {q} /\ f[q] = seen /\ \A p \in DOMAIN c \ {q} : f[p] = c[p]
          /\ f = [p \in DOMAIN f |-> f[p]] /\ Sized(f) /\ TotalOf(c) \in Nat
          /\ q \notin DOMAIN c => TotalOf(f) = TotalOf(c) + seen.size
          /\ q \in DOMAIN c => TotalOf(f) + c[q].size = TotalOf(c) + seen.size
      BY <2>4, <3>1, TotalWith
    <3>3. d = f
      BY <2>5
    <3> HIDE DEF f
    <3> QED BY <3>2, <3>3
  <2>7. d = [p \in DOMAIN d |-> d[p]] /\ Sized(d)
    BY <2>6
  <2>8. TotalOf(d) \in Nat
    <3>1. PICK t : Totals(d, t) /\ TotalOf(d) = t[DOMAIN d]
      BY <2>7, TotalIs DEF Sized
    <3>2. DOMAIN d \in SUBSET DOMAIN d
      OBVIOUS
    <3> QED BY <2>7, <3>1, <3>2, SumSplit
  <2>9. deeper \/ q \notin DOMAIN c => TotalOf(d) = TotalOf(c) + e.size
    <3> DEFINE x == TotalOf(c)
               y == TotalOf(d)
               a == e.size
               b == SizeBefore(c, q)
               z == seen.size
    <3>1. /\ x \in Nat /\ y \in Nat /\ a \in Nat /\ b \in Nat /\ z \in Nat
          /\ z = IF deeper THEN b + a ELSE a
          /\ q \notin DOMAIN c => y = x + z /\ b = 0
          /\ q \in DOMAIN c => y + b = x + z
      <4>1. q \in DOMAIN c => b = c[q].size
        BY DEF SizeBefore
      <4>2. q \notin DOMAIN c => b = 0
        BY DEF SizeBefore
      <4> HIDE DEF b, deeper
      <4> QED BY <2>1, <2>2, <2>4, <2>6, <2>8, <4>1, <4>2 DEF b
    <3> HIDE DEF x, y, a, b, z, deeper
    <3>2. deeper \/ q \notin DOMAIN c => y = x + a
      BY <3>1
    <3> QED BY <3>2 DEF x, y, a
  <2>10. Adds(c, g, e, d)
    <3>1. Deep(g, e) <=> deeper
      BY DEF Deep
    <3> HIDE DEF deeper
    <3>2. d[q].isDirectory <=> Deep(g, e) \/ (q \in DOMAIN c /\ c[q].isDirectory)
      BY <2>3, <2>6, <3>1
    <3>3. d[q].size = IF Deep(g, e) THEN SizeBefore(c, q) + e.size ELSE e.size
      BY <2>2, <2>6, <3>1
    <3> QED BY <2>6, <2>9, <3>1, <3>2, <3>3 DEF Adds, q
  <2> QED BY <1>3, <2>7, <2>8, <2>10 DEF IsShown, d
<1> QED BY <1>2, <1>3

LEMMA NothingShown == IsShown(<<>>) /\ TotalOf(<<>>) = 0 /\ DOMAIN <<>> = {}
<1> DEFINE c == <<>>
<1>1. DOMAIN c = {} /\ c = [p \in {} |-> c[p]]
  OBVIOUS
<1> HIDE DEF c
<1>2. IsFiniteSet(DOMAIN c)
  BY <1>1, FS_EmptySet
<1>3. PICK t : Totals(c, t) /\ TotalOf(c) = t[DOMAIN c]
  BY <1>2, TotalIs
<1>4. t[{}] = 0
  <2>1. {} \in SUBSET DOMAIN c
    OBVIOUS
  <2> QED BY <1>3, <2>1 DEF Totals
<1>5. TotalOf(c) = 0
  BY <1>1, <1>3, <1>4
<1>6. IsShown(c)
  BY <1>1, <1>2, <1>5 DEF IsShown, Sized
<1> QED BY <1>1, <1>5, <1>6 DEF c

\* c is what the folder shows of the first n: a child for each entry below it, and
\* none without one.
ShowsFirst(list, g, c, n) ==
  /\ IsShown(c)
  /\ \A i \in 1..n : IsUnderPrefix(g, list[i].name) => PathOf(g, list[i].name) \in DOMAIN c
  /\ \A q \in DOMAIN c : \E i \in 1..n : /\ IsUnderPrefix(g, list[i].name) /\ PathOf(g, list[i].name) = q
                                         /\ c[q].isDirectory \/ ~Deep(g, list[i])

LEMMA ShowsOneMore ==
  ASSUME NEW list, NEW L, NEW A, Showable(list, L, A), NEW g, NEW n \in 1..L,
         NEW c, ShowsFirst(list, g, c, n - 1)
  PROVE  ShowsFirst(list, g, With(c, g, list[n]), n)
<1> DEFINE e == list[n]
           d == With(c, g, e)
           q == PathOf(g, e.name)
<1>1. IsShown(c) /\ e.size \in Nat
  BY DEF ShowsFirst, Showable
<1>2. /\ IsShown(d)
      /\ ~IsUnderPrefix(g, e.name) => d = c
      /\ IsUnderPrefix(g, e.name) => Adds(c, g, e, d)
  BY <1>1, WithIs
<1>3. n \in 1..n /\ \A i \in 1..n : i = n \/ i \in 1..(n - 1)
  BY DEF Showable
<1>4. \A i \in 1..(n - 1) : i \in 1..n
  BY DEF Showable
<1> HIDE DEF d, e
<1>5. CASE ~IsUnderPrefix(g, e.name)
  BY <1>2, <1>3, <1>4, <1>5 DEF ShowsFirst, d, e
<1>6. CASE IsUnderPrefix(g, e.name)
  <2>1. /\ DOMAIN d = DOMAIN c \cup {q} /\ \A p \in DOMAIN c \ {q} : d[p] = c[p]
        /\ d[q].isDirectory <=> Deep(g, e) \/ (q \in DOMAIN c /\ c[q].isDirectory)
    BY <1>2, <1>6 DEF Adds
  <2>2. ASSUME NEW i \in 1..n, IsUnderPrefix(g, list[i].name) PROVE PathOf(g, list[i].name) \in DOMAIN d
    <3>1. CASE i = n
      BY <2>1, <3>1 DEF e
    <3>2. CASE i \in 1..(n - 1)
      BY <2>1, <2>2, <3>2 DEF ShowsFirst
    <3> QED BY <1>3, <3>1, <3>2
  <2>3. ASSUME NEW p \in DOMAIN d
        PROVE  \E i \in 1..n : /\ IsUnderPrefix(g, list[i].name) /\ PathOf(g, list[i].name) = p
                               /\ d[p].isDirectory \/ ~Deep(g, list[i])
    <3>1. CASE p = q
      <4>1. d[q].isDirectory \/ ~Deep(g, e)
        BY <2>1
      <4> QED BY <1>3, <1>6, <3>1, <4>1 DEF e
    <3>2. CASE p # q
      <4>1. p \in DOMAIN c /\ d[p] = c[p]
        BY <2>1, <3>2
      <4>2. PICK i \in 1..(n - 1) : /\ IsUnderPrefix(g, list[i].name) /\ PathOf(g, list[i].name) = p
                                    /\ c[p].isDirectory \/ ~Deep(g, list[i])
        BY <4>1 DEF ShowsFirst
      <4> QED BY <1>4, <4>1, <4>2
    <3> QED BY <3>1, <3>2
  <2> QED BY <1>2, <2>2, <2>3 DEF ShowsFirst, d, e
<1> QED BY <1>5, <1>6

LEMMA FarShows ==
  ASSUME NEW list, NEW L, NEW A, Showable(list, L, A), NEW g, NEW far, Shows(list, L, g, far)
  PROVE  \A n \in 0..L : ShowsFirst(list, g, far[n], n)
<1> DEFINE T == {n \in Nat : n <= L => ShowsFirst(list, g, far[n], n)}
<1>1. 0 \in T
  <2>1. far[0] = <<>> /\ 1..0 = {}
    BY DEF Shows
  <2>2. ShowsFirst(list, g, <<>>, 0)
    BY <2>1, NothingShown DEF ShowsFirst
  <2> QED BY <2>1, <2>2
<1>2. ASSUME NEW n \in Nat, n \in T PROVE n + 1 \in T
  <2> SUFFICES ASSUME n + 1 <= L PROVE ShowsFirst(list, g, far[n + 1], n + 1)
    OBVIOUS
  <2>1. L \in Nat /\ n + 1 \in 1..L /\ (n + 1) - 1 = n /\ n <= L
    BY DEF Showable
  <2>2. ShowsFirst(list, g, far[n], n)
    BY <1>2, <2>1
  <2>3. far[n + 1] = With(far[n], g, list[n + 1])
    BY <2>1 DEF Shows
  <2>4. ShowsFirst(list, g, far[n], (n + 1) - 1)
    BY <2>1, <2>2
  <2>5. ShowsFirst(list, g, With(far[n], g, list[n + 1]), n + 1)
    BY <2>1, <2>4, ShowsOneMore
  <2> QED BY <2>3, <2>5
<1>3. Nat \subseteq T
  <2> HIDE DEF T
  <2> QED BY <1>1, <1>2, NatSet
<1> QED BY <1>3 DEF Showable

\* A folder's total grows by each entry below it.
LEMMA TotalGrows ==
  ASSUME NEW list, NEW L, NEW A, Showable(list, L, A), NEW g \in Seq(A), NEW n \in 1..L,
         NEW c, ShowsFirst(list, g, c, n - 1)
  PROVE  TotalOf(With(c, g, list[n])) =
           TotalOf(c) + IF IsUnderPrefix(g, list[n].name) THEN list[n].size ELSE 0
<1> DEFINE e == list[n]
           d == With(c, g, e)
           q == PathOf(g, e.name)
<1>1. IsShown(c) /\ e.size \in Nat
  BY DEF ShowsFirst, Showable
<1>2. /\ ~IsUnderPrefix(g, e.name) => d = c
      /\ IsUnderPrefix(g, e.name) => Adds(c, g, e, d)
  BY <1>1, WithIs
<1>3. CASE ~IsUnderPrefix(g, e.name)
  <2>1. TotalOf(c) \in Nat
    BY <1>1 DEF IsShown
  <2> HIDE DEF d, e
  <2> QED BY <1>2, <1>3, <2>1 DEF d, e
<1>4. CASE IsUnderPrefix(g, e.name)
  <2>1. ~Deep(g, e) => q \notin DOMAIN c
    <3> SUFFICES ASSUME ~Deep(g, e), q \in DOMAIN c PROVE FALSE
      OBVIOUS
    <3>1. PICK i \in 1..(n - 1) : IsUnderPrefix(g, list[i].name) /\ PathOf(g, list[i].name) = q
      BY DEF ShowsFirst
    <3>2. i \in 1..L /\ i # n
      BY DEF Showable
    <3> HIDE DEF q
    <3>3. n = i
      BY <1>4, <3>1, <3>2, Alone DEF q
    <3> QED BY <3>2, <3>3
  <2>2. TotalOf(d) = TotalOf(c) + e.size
    BY <1>2, <1>4, <2>1 DEF Adds
  <2> HIDE DEF d, e
  <2> QED BY <1>4, <2>2 DEF d, e
<1> QED BY <1>3, <1>4

-----------------------------------------------------------------------------
(* A folder and the folder it is shown in.                                 *)

\* The child p of one folder against what opening it shows.
AddsUp(p, c, below) ==
  IF p \in DOMAIN c THEN c[p].isDirectory => c[p].size = TotalOf(below) ELSE TotalOf(below) = 0

LEMMA OneMoreAddsUp ==
  ASSUME NEW list, NEW L, NEW A, Showable(list, L, A), NEW g \in Seq(A), NEW x \in Seq(A),
         IsUnderPrefix(g, x), NEW n \in 1..L,
         NEW c, ShowsFirst(list, g, c, n - 1),
         NEW below, ShowsFirst(list, PathOf(g, x) \o <<"/">>, below, n - 1),
         AddsUp(PathOf(g, x), c, below)
  PROVE  AddsUp(PathOf(g, x), With(c, g, list[n]), With(below, PathOf(g, x) \o <<"/">>, list[n]))
<1> DEFINE e == list[n]
           p == PathOf(g, x)
           h == p \o <<"/">>
           d == With(c, g, e)
           b == With(below, h, e)
<1>1. /\ IsShown(c) /\ e.size \in Nat /\ "/" \in A /\ e.name \in Seq(A) /\ Plain(e.name)
      /\ e.type = "directory" => e.size = 0
  BY DEF ShowsFirst, Showable
<1>2. p \in Seq(A) /\ h \in Seq(A)
  BY <1>1, PathIs, UnderSlashIs
<1>3. /\ ~IsUnderPrefix(g, e.name) => d = c
      /\ IsUnderPrefix(g, e.name) => Adds(c, g, e, d)
  BY <1>1, WithIs
<1>4. TotalOf(b) = TotalOf(below) + IF IsUnderPrefix(h, e.name) THEN e.size ELSE 0
  <2>1. ShowsFirst(list, h, below, n - 1)
    OBVIOUS
  <2> HIDE DEF h, p
  <2> QED BY <1>2, <2>1, TotalGrows
<1>5. TotalOf(below) \in Nat
  BY DEF ShowsFirst, IsShown
\* A child that more goes through was a directory.
<1>6. ASSUME NEW q, q = PathOf(g, e.name), q \in DOMAIN c, IsUnderPrefix(g, e.name)
      PROVE  c[q].isDirectory /\ Deep(g, e)
  <2>1. PICK i \in 1..(n - 1) : /\ IsUnderPrefix(g, list[i].name) /\ PathOf(g, list[i].name) = q
                                /\ c[q].isDirectory \/ ~Deep(g, list[i])
    BY <1>6 DEF ShowsFirst
  <2>2. i \in 1..L /\ i # n
    BY DEF Showable
  <2>3. Deep(g, list[i])
    <3> SUFFICES ASSUME ~Deep(g, list[i]) PROVE FALSE
      OBVIOUS
    <3>1. i = n
      BY <1>6, <2>1, <2>2, Alone
    <3> QED BY <2>2, <3>1
  <2>4. Deep(g, e)
    <3> SUFFICES ASSUME ~Deep(g, e) PROVE FALSE
      OBVIOUS
    <3>1. n = i
      BY <1>6, <2>1, <2>2, Alone
    <3> QED BY <2>2, <3>1
  <2> QED BY <2>1, <2>3, <2>4
<1>7. AddsUp(p, c, below)
  OBVIOUS
<1> SUFFICES AddsUp(p, d, b)
  OBVIOUS
<1> HIDE DEF d, b, e, h, p
<1>8. CASE IsUnderPrefix(h, e.name)
  <2>1. IsUnderPrefix(g, e.name) /\ PathOf(g, e.name) = p /\ GoesDeeper(g, e.name)
    BY <1>1, <1>8, ThroughTheChild DEF h, p
  <2>2. p \in DOMAIN d /\ d[p].size = SizeBefore(c, p) + e.size
    BY <1>3, <2>1 DEF Adds, Deep
  <2>3. SizeBefore(c, p) = TotalOf(below)
    <3>1. CASE p \in DOMAIN c
      <4>1. c[p].isDirectory
        BY <1>6, <2>1, <3>1
      <4> QED BY <1>7, <3>1, <4>1 DEF AddsUp, SizeBefore
    <3>2. CASE p \notin DOMAIN c
      BY <1>7, <3>2 DEF AddsUp, SizeBefore
    <3> QED BY <3>1, <3>2
  <2> QED BY <1>4, <1>8, <2>2, <2>3 DEF AddsUp
<1>9. CASE ~IsUnderPrefix(h, e.name) /\ IsUnderPrefix(g, e.name) /\ PathOf(g, e.name) = p
  <2>1. ~GoesDeeper(g, e.name)
    BY <1>1, <1>9, ChildOrDeeper DEF h
  <2>2. TotalOf(b) = TotalOf(below)
    BY <1>4, <1>5, <1>9
  <2>3. /\ p \in DOMAIN d
        /\ d[p].isDirectory <=> Deep(g, e) \/ (p \in DOMAIN c /\ c[p].isDirectory)
        /\ Deep(g, e) => d[p].size = SizeBefore(c, p) + e.size
    BY <1>3, <1>9 DEF Adds
  <2>4. CASE Deep(g, e)
    <3>1. e.size = 0
      BY <1>1, <2>1, <2>4 DEF Deep
    <3>2. SizeBefore(c, p) = TotalOf(below)
      <4>1. CASE p \in DOMAIN c
        <5>1. c[p].isDirectory
          BY <1>6, <1>9, <4>1
        <5> QED BY <1>7, <4>1, <5>1 DEF AddsUp, SizeBefore
      <4>2. CASE p \notin DOMAIN c
        BY <1>7, <4>2 DEF AddsUp, SizeBefore
      <4> QED BY <4>1, <4>2
    <3>3. d[p].size = TotalOf(b)
      BY <1>5, <2>2, <2>3, <2>4, <3>1, <3>2
    <3> QED BY <2>3, <3>3 DEF AddsUp
  <2>5. CASE ~Deep(g, e)
    <3>1. p \notin DOMAIN c
      BY <1>6, <1>9, <2>5
    <3> QED BY <2>3, <2>5, <3>1 DEF AddsUp
  <2> QED BY <2>4, <2>5
<1>10. CASE /\ ~IsUnderPrefix(h, e.name)
            /\ ~(IsUnderPrefix(g, e.name) /\ PathOf(g, e.name) = p)
  <2>1. TotalOf(b) = TotalOf(below)
    BY <1>4, <1>5, <1>10
  <2>2. /\ p \in DOMAIN d <=> p \in DOMAIN c
        /\ p \in DOMAIN c => d[p] = c[p]
    BY <1>3, <1>10 DEF Adds
  <2> QED BY <1>7, <2>1, <2>2 DEF AddsUp
<1> QED BY <1>8, <1>9, <1>10

\* A folder's size is the total of what opening it shows.
LEMMA FolderAddsUp ==
  ASSUME NEW list, NEW L, NEW A, Showable(list, L, A), NEW g \in Seq(A),
         NEW path \in DOMAIN ListChildren(list, g), ListChildren(list, g)[path].isDirectory
  PROVE  ListChildren(list, g)[path].size = TotalOf(ListChildren(list, path \o <<"/">>))
<1> DEFINE h == path \o <<"/">>
<1>1. L \in Nat /\ DOMAIN list = 1..L /\ \A i \in 1..L : list[i].name \in Seq(A)
  BY DEF Showable
<1>2. PICK far : Shows(list, L, g, far)
  BY <1>1, OneByOne
<1>3. PICK below : Shows(list, L, h, below)
  BY <1>1, OneByOne
<1>4. /\ ListChildren(list, g) = far[L] /\ ListChildren(list, h) = below[L]
      /\ far[0] = <<>> /\ below[0] = <<>>
      /\ \A n \in 1..L : /\ far[n] = With(far[n - 1], g, list[n])
                         /\ below[n] = With(below[n - 1], h, list[n])
  BY <1>2, <1>3 DEF Shows
<1>5. \A n \in 0..L : ShowsFirst(list, g, far[n], n)
  BY <1>2, FarShows
<1>6. \A n \in 0..L : ShowsFirst(list, h, below[n], n)
  BY <1>3, FarShows
<1>7. PICK i \in 1..L : IsUnderPrefix(g, list[i].name) /\ PathOf(g, list[i].name) = path
  <2>1. path \in DOMAIN far[L] /\ L \in 0..L
    BY <1>1, <1>4
  <2> QED BY <1>5, <2>1 DEF ShowsFirst
<1> DEFINE x == list[i].name
<1>8. x \in Seq(A) /\ IsUnderPrefix(g, x) /\ path = PathOf(g, x)
  BY <1>1, <1>7
<1> HIDE DEF x
<1> DEFINE T == {n \in Nat : n <= L => AddsUp(path, far[n], below[n])}
<1>9. 0 \in T
  BY <1>4, NothingShown DEF AddsUp
<1>10. ASSUME NEW n \in Nat, n \in T PROVE n + 1 \in T
  <2> SUFFICES ASSUME n + 1 <= L PROVE AddsUp(path, far[n + 1], below[n + 1])
    OBVIOUS
  <2>1. n + 1 \in 1..L /\ n \in 0..L /\ (n + 1) - 1 = n /\ n <= L
    BY <1>1
  <2>2. /\ ShowsFirst(list, g, far[n], (n + 1) - 1) /\ ShowsFirst(list, h, below[n], (n + 1) - 1)
        /\ AddsUp(path, far[n], below[n])
    BY <1>5, <1>6, <1>10, <2>1
  <2>3. far[n + 1] = With(far[n], g, list[n + 1]) /\ below[n + 1] = With(below[n], h, list[n + 1])
    BY <1>4, <2>1
  <2>4. AddsUp(path, With(far[n], g, list[n + 1]), With(below[n], h, list[n + 1]))
    BY <1>8, <2>1, <2>2, OneMoreAddsUp
  <2> QED BY <2>3, <2>4
<1>11. L \in T
  <2> HIDE DEF T
  <2> QED BY <1>1, <1>9, <1>10, NatSet
<1>12. AddsUp(path, far[L], below[L])
  BY <1>1, <1>11
<1> HIDE DEF h
<1> QED BY <1>4, <1>12 DEF AddsUp, h

\* A name is a child of the folder its last slash ends.
LEMMA ShownInItsFolder ==
  ASSUME NEW A, "/" \in A, NEW s \in Seq(A), Plain(s)
  PROVE  \E k \in 0..Len(s) : LET f == SubSeq(s, 1, k) IN
           /\ (k = 0 /\ f = <<>>) \/ (k \in DOMAIN s /\ s[k] = "/")
           /\ f \in Seq(A) /\ IsUnderPrefix(f, s) /\ PathOf(f, s) = s
<1> DEFINE L == Len(s)
           slashes == {j \in 1..L : s[j] = "/"}
           k == IF slashes = {} THEN 0 ELSE Max(slashes)
           f == SubSeq(s, 1, k)
<1>1. L \in Nat /\ DOMAIN s = 1..L /\ \A n \in 1..L : s[n] \in A
  BY LenProperties, ElementOfSeq
<1>2. L # 0 /\ s[L] # "/"
  BY EmptySeq DEF Plain, Last
<1>3. /\ (slashes = {} /\ k = 0) \/ k \in slashes
      /\ \A y \in slashes : k >= y
  <2> slashes \in SUBSET (1..L)
    OBVIOUS
  <2> HIDE DEF slashes
  <2>1. slashes # {} => Max(slashes) \in slashes /\ \A y \in slashes : Max(slashes) >= y
    BY <1>1, MaxIsOneOf
  <2> QED BY <2>1
<1> HIDE DEF k, L
<1>4. /\ k \in Nat /\ k < L /\ (k = 0 \/ (k \in 1..L /\ s[k] = "/"))
      /\ \A n \in (k + 1)..L : s[n] # "/"
  <2>1. k = 0 \/ (k \in 1..L /\ s[k] = "/")
    BY <1>3
  <2>2. ASSUME NEW n \in (k + 1)..L, s[n] = "/" PROVE FALSE
    <3>1. n \in 1..L /\ ~(k >= n)
      BY <1>1, <2>1
    <3> QED BY <1>3, <2>2, <3>1
  <2> QED BY <1>1, <1>2, <2>1, <2>2
<1>5. f \in Seq(A) /\ Len(f) = k /\ \A n \in 1..k : f[n] = s[n]
  <2>1. \A n \in 1..k : s[n] \in A
    BY <1>1, <1>4
  <2>2. /\ f \in Seq(A) /\ Len(f) = (IF 1 <= k THEN k - 1 + 1 ELSE 0)
        /\ \A n \in 1..(k - 1 + 1) : f[n] = s[1 + n - 1]
    BY <1>4, <2>1, SubSeqProperties
  <2> HIDE DEF f
  <2> QED BY <1>4, <2>2
<1>6. k = 0 => f = <<>>
  BY <1>5, EmptySeq
<1> HIDE DEF f
<1>7. IsUnderPrefix(f, s)
  BY <1>4, <1>5, UnderIs DEF L
<1>8. ~GoesDeeper(f, s)
  BY <1>4, <1>5 DEF GoesDeeper, L
<1>9. PathOf(f, s) = s
  BY <1>5, <1>7, <1>8, ChildOrDeeper
<1>10. k \in 0..L
  BY <1>1, <1>4
<1>11. (k = 0 /\ f = <<>>) \/ (k \in DOMAIN s /\ s[k] = "/")
  <2>1. DOMAIN s = 1..L
    BY <1>1
  <2>2. k = 0 \/ (k \in 1..L /\ s[k] = "/")
    BY <1>4
  <2> QED BY <1>6, <2>1, <2>2
<1> QED BY <1>5, <1>7, <1>9, <1>10, <1>11 DEF f, L

\* Every entry is a child of some folder.
LEMMA EachIsShown ==
  ASSUME NEW list, NEW L, NEW A, Showable(list, L, A), NEW i \in 1..L, NEW g,
         IsUnderPrefix(g, list[i].name), PathOf(g, list[i].name) = list[i].name
  PROVE  list[i].name \in DOMAIN ListChildren(list, g)
<1>1. L \in Nat /\ DOMAIN list = 1..L
  BY DEF Showable
<1>2. PICK far : Shows(list, L, g, far)
  BY <1>1, OneByOne
<1>3. ShowsFirst(list, g, far[L], L)
  <2>1. \A n \in 0..L : ShowsFirst(list, g, far[n], n)
    BY <1>2, FarShows
  <2> QED BY <1>1, <2>1
<1> QED BY <1>2, <1>3 DEF Shows, ShowsFirst

\* What the folders of a list like this add up to.
LEMMA FoldersOfEntries ==
  ASSUME NEW L, NEW A, Showable(entries, L, A)
  PROVE  /\ \A i \in DOMAIN entries : \E f \in Folders : entries[i].name \in DOMAIN ListChildren(entries, f)
         /\ \A f \in Folders : LET children == ListChildren(entries, f) IN
              \A path \in DOMAIN children :
                children[path].isDirectory => children[path].size = TotalOf(ListChildren(entries, path \o <<"/">>))
<1>1. /\ L \in Nat /\ DOMAIN entries = 1..L /\ "/" \in A
      /\ \A i \in 1..L : entries[i].name \in Seq(A) /\ Plain(entries[i].name)
  BY DEF Showable
<1>2. ASSUME NEW i \in 1..L PROVE \E f \in Folders : entries[i].name \in DOMAIN ListChildren(entries, f)
  <2> DEFINE s == entries[i].name
  <2>1. PICK k \in 0..Len(s) : LET f == SubSeq(s, 1, k) IN
          /\ (k = 0 /\ f = <<>>) \/ (k \in DOMAIN s /\ s[k] = "/")
          /\ f \in Seq(A) /\ IsUnderPrefix(f, s) /\ PathOf(f, s) = s
    BY <1>1, ShownInItsFolder
  <2> DEFINE f == SubSeq(s, 1, k)
  <2>2. f \in Folders
    <3>1. CASE f = <<>>
      BY <3>1 DEF Folders
    <3>2. CASE k \in DOMAIN s /\ s[k] = "/"
      <4>1. f \in {SubSeq(s, 1, n) : n \in {j \in DOMAIN s : s[j] = "/"}}
        BY <3>2
      <4>2. s \in {entries[n].name : n \in DOMAIN entries}
        BY <1>1
      <4> HIDE DEF f, s
      <4> QED BY <4>1, <4>2 DEF Folders
    <3> QED BY <2>1, <3>1, <3>2
  <2>3. s \in DOMAIN ListChildren(entries, f)
    <3>1. IsUnderPrefix(f, s) /\ PathOf(f, s) = s
      BY <2>1
    <3> HIDE DEF f
    <3> QED BY <3>1, EachIsShown
  <2> QED BY <2>2, <2>3
<1>3. ASSUME NEW f \in Folders PROVE f \in Seq(A)
  <2>1. CASE f = <<>>
    BY <2>1, EmptySeq
  <2>2. CASE f # <<>>
    <3>1. PICK i \in 1..L : \E k \in DOMAIN entries[i].name : f = SubSeq(entries[i].name, 1, k)
      BY <1>1, <2>2 DEF Folders
    <3> DEFINE s == entries[i].name
    <3>2. PICK k \in DOMAIN s : f = SubSeq(s, 1, k)
      BY <3>1
    <3>3. s \in Seq(A)
      BY <1>1
    <3> HIDE DEF s
    <3>4. k \in 1..Len(s) /\ Len(s) \in Nat
      BY <3>3, <3>2, LenProperties
    <3>5. \A n \in 1..Len(s) : s[n] \in A
      BY <3>3, ElementOfSeq
    <3> QED BY <3>2, <3>3, <3>4, <3>5, SubSeqProperties
  <2> QED BY <2>1, <2>2
<1>4. ASSUME NEW f \in Folders, NEW path \in DOMAIN ListChildren(entries, f),
             ListChildren(entries, f)[path].isDirectory
      PROVE  ListChildren(entries, f)[path].size = TotalOf(ListChildren(entries, path \o <<"/">>))
  <2>1. f \in Seq(A)
    BY <1>3
  <2> QED BY <1>4, <2>1, FolderAddsUp
<1> QED BY <1>1, <1>2, <1>4

-----------------------------------------------------------------------------
\* Only a file has data that counts.
OnlyFilesAreSized == \A i \in DOMAIN entries : entries[i].type # "file" => entries[i].size = 0

LEMMA NextKeepsOnlyFilesSized == IInv /\ OnlyFilesAreSized /\ [Next]_vars => OnlyFilesAreSized'
<1> SUFFICES ASSUME IInv, OnlyFilesAreSized, [Next]_vars PROVE OnlyFilesAreSized'
  OBVIOUS
<1>1. CASE entries' = entries
  BY <1>1 DEF OnlyFilesAreSized
<1>2. CASE entries' = Append(entries, Entry)
  <2> DEFINE S == {entries[i] : i \in DOMAIN entries} \cup {Entry}
  <2>1. entries \in Seq(S) /\ Entry \in S
    BY SeqMonotonic DEF IInv, EntriesAreListed
  <2>2. /\ DOMAIN entries' = 1..(Len(entries) + 1) /\ DOMAIN entries = 1..Len(entries)
        /\ Len(entries) \in Nat
        /\ \A i \in DOMAIN entries : entries'[i] = entries[i]
        /\ entries'[Len(entries) + 1] = Entry
    BY <1>2, <2>1, AppendProperties, LenProperties
  <2>3. Entry.type # "file" => Entry.size = 0
    BY DEF Entry
  <2>4. ASSUME NEW i \in DOMAIN entries', entries'[i].type # "file" PROVE entries'[i].size = 0
    <3>1. i \in DOMAIN entries \/ i = Len(entries) + 1
      BY <2>2
    <3> QED BY <2>2, <2>3, <2>4, <3>1 DEF OnlyFilesAreSized
  <2> QED BY <2>4 DEF OnlyFilesAreSized
<1> QED
  BY <1>1, <1>2
     DEF Next, vars, EndOfFile, ShortHeader, EndOfArchive, BadHeader, CutShort, BadMetadata, PaxCutShort,
         Return, Metadata, GlobalHeader, Member, Grow

\* The folder listing of every index: opening folder after folder shows every
\* entry, and what a folder shows as its size is what opening it adds up to
\* (listChildren, TarArchive.cpp:209-234).  The listing looks at the entries one
\* by one; OneMoreAddsUp is the invariant of a folder and the folder it is in.
THEOREM FoldersAreTheirTotals == Spec => []FoldersAddUp
<1>1. Init => OnlyFilesAreSized
  BY DEF Init, OnlyFilesAreSized
<1>2. IInv /\ OnlyFilesAreSized => FoldersAddUp
  <2> SUFFICES ASSUME IInv, OnlyFilesAreSized, NamesArePlain, NamesAreDistinct PROVE FoldersAddUp
    BY DEF FoldersAddUp
  <2> DEFINE L == Len(entries)
             Pieces(i) == {entries[i].name[n] : n \in DOMAIN entries[i].name}
             A == (UNION {Pieces(i) : i \in 1..L}) \cup {"/"}
  <2>1. L \in Nat /\ DOMAIN entries = 1..L
    BY LenProperties DEF IInv, EntriesAreListed
  <2>2. \A i \in 1..L : entries[i].name \in Seq(A) /\ Plain(entries[i].name)
    <3> SUFFICES ASSUME NEW i \in 1..L PROVE entries[i].name \in Seq(A) /\ Plain(entries[i].name)
      OBVIOUS
    <3>1. entries[i].name \in Seq(Pieces(i)) /\ Plain(entries[i].name)
      BY <2>1 DEF NamesArePlain, Plain
    <3>2. Pieces(i) \subseteq A
      <4> HIDE DEF Pieces
      <4> QED OBVIOUS
    <3> HIDE DEF A, Pieces
    <3> QED BY <3>1, <3>2, SeqMonotonic
  <2>3. "/" \in A
    OBVIOUS
  <2> HIDE DEF A, L
  <2>4. \A i \in 1..L : entries[i].size \in Nat /\ (entries[i].type # "file" => entries[i].size = 0)
    BY <2>1 DEF IInv, EntriesAreTyped, OnlyFilesAreSized
  <2>5. \A i, j \in 1..L : /\ entries[i].name = entries[j].name => i = j
                           /\ IsPrefix(entries[i].name \o <<"/">>, entries[j].name) => entries[i].type = "directory"
    BY <2>1 DEF NamesAreDistinct
  <2>6. Showable(entries, L, A)
    BY <2>1, <2>2, <2>3, <2>4, <2>5 DEF Showable
  <2> QED BY <2>6, FoldersOfEntries DEF FoldersAddUp
<1> QED BY <1>1, <1>2, Invariant, NextKeepsOnlyFilesSized, PTL DEF Spec
=============================================================================
