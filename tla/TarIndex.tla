------------------------------ MODULE TarIndex ------------------------------
(***************************************************************************)
(* The index of an uncompressed tar archive (TarArchive.cpp): one walk     *)
(* over the headers that yields, for every member, its name, its kind and  *)
(* the slice of the file that holds its data, and the folder listing the   *)
(* explorer derives from it.                                               *)
(*                                                                         *)
(* A file is a sequence of blocks of Block bytes and a length in bytes, so *)
(* that it can be cut anywhere.  A block is a header, the text a metadata  *)
(* header announces, zeros, or bytes that are no header.  Names are        *)
(* sequences of pieces: "./", "/", and whole path segments.  Times are     *)
(* left out.                                                               *)
(***************************************************************************)
EXTENDS Integers, SequencesExt

CONSTANTS
    Archives,      \* what may lie on disk: [blocks, members, parts], members being what
                   \* was archived and parts where each of it is in the blocks
    CorruptSizes,  \* what a damaged size field may say
    MaxGrowths     \* bound: how often the file grows while it is read

Block == 2         \* kBlock, 512 in the code: one full and one odd size are enough
Word  == 64        \* unsigned long long: every sum and difference wraps here
MaxMetadataBytes == 3

AnyType == {"0", "1", "2", "5", "6", "L", "K", "x", "g"}

PaxSaysWell(text) == /\ DOMAIN text \subseteq {"path", "linkpath", "size"}
                     /\ "size" \in DOMAIN text => text["size"] \in 0..(Word - 1)

\* A header holds a size of one word; a pax header is followed by its records.
HeaderIsSound(blocks, i) ==
    /\ {"is", "type", "size"} \subseteq DOMAIN blocks[i]
    /\ blocks[i].type \in AnyType
    /\ blocks[i].size \in 0..(Word - 1)
    /\ blocks[i].type = "x" => /\ i + 1 \in DOMAIN blocks
                               /\ blocks[i + 1].is = "text"
                               /\ PaxSaysWell(blocks[i + 1].text)

\* A file is shorter than a word can say.
Sound(blocks) ==
    /\ blocks \in Seq({blocks[i] : i \in DOMAIN blocks})
    /\ Block * Len(blocks) < Word
    /\ \A i \in DOMAIN blocks : blocks[i].is = "header" => HeaderIsSound(blocks, i)

-----------------------------------------------------------------------------
(* What tar writes.  There is a part of the archive for each member: the   *)
(* headers with what does not fit into the member's own, each followed by  *)
(* its text, then the member's own header and its data.                    *)

HasData(type) == type \notin {"1", "2", "5"}

MemberTypes == {"0", "1", "2", "5", "6"}

BlocksFor(size) == (size + Block - 1) \div Block

FullName(header) == IF header.ustar /\ header.prefix # <<>> THEN header.prefix \o <<"/">> \o header.name
                                                           ELSE header.name

\* The headers before the member's own, and which of its fields they have.
Announcing(blocks, part) == {i \in part.first..(part.own - 1) : blocks[i].is = "header"}

Announces(blocks, i, field) ==
    \/ blocks[i].type = "L" /\ field = "path"
    \/ blocks[i].type = "K" /\ field = "linkpath"
    \/ blocks[i].type = "x" /\ field \in DOMAIN blocks[i + 1].text

Announced(blocks, i, field) ==
    IF blocks[i].type = "x" THEN blocks[i + 1].text[field] ELSE blocks[i + 1].text

\* A field is announced once, and the next header comes after the text.
AnnouncementIsSound(blocks, part, i) ==
    LET next == i + 1 + BlocksFor(blocks[i].size) IN
    /\ blocks[i].type \in {"L", "K", "x", "g"} /\ blocks[i].size > 0
    /\ blocks[i].type # "g" => blocks[i].size <= MaxMetadataBytes /\ blocks[i + 1].is = "text"
    /\ blocks[i].type \in {"L", "K"} => blocks[i + 1].text # <<>>
    /\ next <= part.own /\ blocks[next].is = "header"
    /\ \A j \in (i + 1)..(next - 1) : blocks[j].is # "header"
    /\ \A j \in Announcing(blocks, part), field \in {"path", "linkpath", "size"} :
         Announces(blocks, i, field) /\ Announces(blocks, j, field) => i = j

Recorded(blocks, part, field, inHeader) ==
    LET by == {i \in Announcing(blocks, part) : Announces(blocks, i, field)}
    IN  IF by = {} THEN inHeader ELSE Announced(blocks, CHOOSE i \in by : TRUE, field)

\* A name is written with any "./" and "/" before it and, if it is a directory's,
\* any "/" after it.
Spells(written, name, isDirectory) ==
    /\ written \in Seq({written[n] : n \in DOMAIN written})
    /\ \E from \in 0..Len(written) : \E to \in from..Len(written) :
         /\ name = SubSeq(written, from + 1, to)
         /\ \E dots \in 0..from : /\ \A n \in 1..dots : written[n] = "./"
                                  /\ \A n \in (dots + 1)..from : written[n] = "/"
         /\ \A n \in (to + 1)..Len(written) : isDirectory /\ written[n] = "/"
         /\ from < to => /\ written[from + 1] \notin {"./", "/"}
                         /\ isDirectory => written[to] # "/"

\* Only files have data that counts, and only a directory's name ends in a slash.
MemberIsSound(member, type, written, size, link, offset) ==
    /\ member.type \in CASE type = "5" -> {"directory"} [] type = "2" -> {"symlink"}
                         [] type = "0" -> {"file", "directory"} [] OTHER -> {"other"}
    /\ member.name # <<>> /\ Spells(written, member.name, member.type = "directory")
    /\ type = "0" => (member.type = "directory" <=> Last(written) = "/")
    /\ member.type # "file" /\ HasData(type) => size = 0
    /\ member = [name |-> member.name, type |-> member.type,
                 size |-> IF member.type = "file" THEN size ELSE 0, offset |-> offset, link |-> link]

\* A part with its member, or without one if it is the root's; `before` is how
\* many members came before it.
PartIsSound(a, p) ==
    LET part    == a.parts[p]
        next    == a.parts[p + 1]
        own     == a.blocks[part.own]
        size    == Recorded(a.blocks, part, "size", own.size)
        written == Recorded(a.blocks, part, "path", FullName(own))
        link    == Recorded(a.blocks, part, "linkpath", own.link)
    IN  /\ part.first \in 1..part.own /\ part.own \in DOMAIN a.blocks
        /\ a.blocks[part.first].is = "header" /\ own.is = "header" /\ own.type \in MemberTypes
        /\ \A i \in Announcing(a.blocks, part) : AnnouncementIsSound(a.blocks, part, i)
        /\ IF HasData(own.type) THEN own.size <= size
           ELSE \A i \in Announcing(a.blocks, part) : ~Announces(a.blocks, i, "size")
        /\ next.first = part.own + 1 + IF HasData(own.type) THEN BlocksFor(size) ELSE 0
        /\ \/ next.before = part.before /\ Spells(written, <<>>, TRUE)
           \/ /\ next.before = part.before + 1
              /\ MemberIsSound(a.members[next.before], own.type, written, size, link, Block * part.own)

\* The last of the parts is the end mark.
WrittenByTar(a) ==
    /\ a.parts \in Seq([first : Nat, own : Nat, before : Nat]) /\ a.parts # <<>>
    /\ a.members \in Seq({a.members[i] : i \in DOMAIN a.members})
    /\ a.parts[1].first = 1 /\ a.parts[1].before = 0
    /\ \A p \in 1..(Len(a.parts) - 1) : PartIsSound(a, p)
    /\ Last(a.parts).before = Len(a.members)
    /\ Last(a.parts).first \in DOMAIN a.blocks /\ a.blocks[Last(a.parts).first].is = "zeros"

ASSUME ArchivesAssumption ==
    /\ \A a \in Archives : Sound(a.blocks) /\ WrittenByTar(a)
    /\ CorruptSizes \subseteq 0..(Word - 1)
    /\ MaxGrowths \in Nat

VARIABLES
    archive,   \* the blocks of the file once it is complete
    members,   \* history: the entries of what was archived
    length,    \* how many of its bytes are on disk
    damaged,   \* a header was altered after it was written
    growths,
    fileSize,  \* file_size() at the start
    position,  \* of the next read
    longName, longLink, pax,   \* what the metadata read so far says of the next member
    entries,
    status     \* "reading", "listed" or "error" (an exception)

file == <<archive, members, damaged>>
said == <<longName, longLink, pax>>
vars == <<file, length, growths, fileSize, position, said, entries, status>>

-----------------------------------------------------------------------------
(* Names.                                                                  *)

\* How many pieces equal to p the name begins with.
Leading(name, p) ==
    LET runs == {k \in 0..Len(name) : \A i \in 1..k : name[i] = p}
    IN  CHOOSE k \in runs : \A j \in runs : j <= k

\* cleanName
Clean(name) ==
    LET plain == SubSeq(name, Leading(name, "./") + 1, Len(name))
    IN  SubSeq(plain, Leading(plain, "/") + 1, Len(plain))

EndsInSlash(name) == name # <<>> /\ Last(name) = "/"

WithoutSlashes(name) == Reverse(SubSeq(Reverse(name), Leading(Reverse(name), "/") + 1, Len(name)))

-----------------------------------------------------------------------------
(* Sizes.                                                                  *)

DataOffset == position + Block

\* A bug: the end of the data wraps.
PastEndByAddition(size) == (DataOffset + size) % Word > fileSize

\* The data runs past the end of the file, as it was when it was opened.
PastEnd(size) == size > (fileSize - DataOffset) % Word

AfterData(size) == DataOffset + BlocksFor(size) * Block

-----------------------------------------------------------------------------
(* The walk.                                                               *)

HeadersOf(blocks) == {i \in DOMAIN blocks : blocks[i].is = "header"}

\* index() opens a file that is complete, cut short anywhere, still being
\* written, or damaged in one header's size or elsewhere (a wrong checksum).
Init ==
    /\ \E a \in Archives :
       /\ members = a.members
       /\ \/ archive = a.blocks /\ damaged = FALSE
          \/ /\ damaged = TRUE
             /\ \E i \in HeadersOf(a.blocks) :
                  \/ archive = [a.blocks EXCEPT ![i] = [is |-> "bytes"]]
                  \/ \E s \in CorruptSizes : archive = [a.blocks EXCEPT ![i].size = s]
    /\ length \in 0..(Block * Len(archive))
    /\ growths = 0
    /\ fileSize = length
    /\ position = 0
    /\ longName = <<>> /\ longLink = <<>> /\ pax = <<>>
    /\ entries = <<>>
    /\ status = "reading"

Return(how) == /\ status' = how
               /\ UNCHANGED <<file, length, growths, fileSize, position, said, entries>>

Header == archive[position \div Block + 1]

EndOfFile   == status = "reading" /\ position >= length /\ Return("listed")

ShortHeader == status = "reading" /\ length - position \in 1..(Block - 1) /\ Return("error")

HeaderRead  == status = "reading" /\ DataOffset <= length

EndOfArchive == HeaderRead /\ Header.is = "zeros" /\ Return("listed")

BadHeader == HeaderRead /\ Header.is \in {"bytes", "text"} /\ Return("error")

IsHeader(types) == HeaderRead /\ Header.is = "header" /\ Header.type \in types

CutShort == /\ IsHeader(AnyType)
            /\ HasData(Header.type)
            /\ PastEnd(Header.size)
            /\ Return("listed")

Fits == HasData(Header.type) => ~PastEnd(Header.size)

\* Larger than any metadata, or (the file grew past the size it was opened
\* with) not on disk yet.
BadMetadata == /\ IsHeader({"L", "K", "x"})
               /\ Fits
               /\ \/ Header.size > MaxMetadataBytes
                  \/ DataOffset + Header.size > length
               /\ Return("error")

\* parsePax into what was said before: a later record replaces an earlier one.
Parsed(text) == [field \in DOMAIN text \cup DOMAIN pax |->
                   IF field \in DOMAIN text THEN text[field] ELSE pax[field]]

Metadata == /\ IsHeader({"L", "K", "x"})
            /\ Fits
            /\ Header.size <= MaxMetadataBytes
            /\ DataOffset + Header.size <= length
            /\ LET text == archive[DataOffset \div Block + 1].text IN
               CASE Header.type = "L" -> longName' = text /\ UNCHANGED <<longLink, pax>>
                 [] Header.type = "K" -> longLink' = text /\ UNCHANGED <<longName, pax>>
                 [] Header.type = "x" -> pax' = Parsed(text) /\ UNCHANGED <<longName, longLink>>
            /\ position' = AfterData(Header.size)
            /\ UNCHANGED <<file, length, growths, fileSize, entries, status>>

GlobalHeader == /\ IsHeader({"g"})
                /\ Fits
                /\ position' = AfterData(Header.size)
                /\ UNCHANGED <<file, length, growths, fileSize, said, entries, status>>

-----------------------------------------------------------------------------
(* A member.                                                               *)

\* The header's name, unless a long name was read, unless a pax path was.
NameSaid == IF "path" \in DOMAIN pax THEN pax["path"]
            ELSE IF longName # <<>> THEN longName ELSE FullName(Header)

LinkSaid == IF longLink # <<>> THEN longLink
            ELSE IF "linkpath" \in DOMAIN pax THEN pax["linkpath"] ELSE Header.link

SizeSaid == IF "size" \in DOMAIN pax THEN pax["size"] ELSE Header.size

Entry == LET name == Clean(NameSaid)
             type == CASE Header.type = "5" -> "directory"
                       [] Header.type = "2" -> "symlink"
                       [] Header.type = "0" -> IF EndsInSlash(name) THEN "directory" ELSE "file"
                       [] OTHER -> "other"
         IN  [name   |-> IF type = "directory" THEN WithoutSlashes(name) ELSE name,
              type   |-> type,
              size   |-> IF type = "file" THEN SizeSaid ELSE 0,
              offset |-> DataOffset,
              link   |-> LinkSaid]

\* A bug: the header's own size is what is skipped.
SkipHeaderSize == IF HasData(Header.type) THEN AfterData(Header.size) ELSE DataOffset

\* Where the next header is: links carry no data even when they have a size.
NextHeader == IF HasData(Header.type) THEN AfterData(SizeSaid) ELSE DataOffset

\* The pax size runs past the end of the file, for a link as well.
PaxCutShort == /\ IsHeader(MemberTypes)
               /\ Fits
               /\ "size" \in DOMAIN pax /\ PastEnd(pax["size"])
               /\ Return("listed")

Member == /\ IsHeader(MemberTypes)
          /\ Fits
          /\ "size" \in DOMAIN pax => ~PastEnd(pax["size"])
          /\ entries' = IF Entry.name = <<>> THEN entries ELSE Append(entries, Entry)
          /\ longName' = <<>> /\ longLink' = <<>> /\ pax' = <<>>
          /\ position' = NextHeader
          /\ UNCHANGED <<file, length, growths, fileSize, status>>

\* A backup still running appends to the file.
Grow == /\ status = "reading"
        /\ growths < MaxGrowths
        /\ growths' = growths + 1
        /\ length' \in (length + 1)..(Block * Len(archive))
        /\ UNCHANGED <<file, fileSize, position, said, entries, status>>

Next == \/ EndOfFile \/ ShortHeader \/ EndOfArchive \/ BadHeader \/ CutShort
        \/ BadMetadata \/ Metadata \/ GlobalHeader \/ PaxCutShort \/ Member \/ Grow

Spec == Init /\ [][Next]_vars /\ WF_vars(Next)

-----------------------------------------------------------------------------
(* The listing of one folder.                                              *)

IsUnderPrefix(prefix, name) == Len(name) > Len(prefix) /\ IsPrefix(prefix, name)

\* The piece of the name right below the folder, and whether more follows.
Segment(prefix, name) == LET next == name[Len(prefix) + 1] IN IF next = "/" THEN <<>> ELSE <<next>>
GoesDeeper(prefix, name) == \E i \in (Len(prefix) + 1)..Len(name) : name[i] = "/"

\* A bug: a folder shows the size of the last file under it.
LastCounts(child, deeper, e) == e.size

\* A folder's size adds up, a file seen again is the later one.
SizeWith(child, deeper, e) == IF deeper THEN child.size + e.size ELSE e.size

\* The folder's children once e was looked at: it adds to the child its path goes
\* through, or is one.
With(children, prefix, e) ==
  LET path   == prefix \o Segment(prefix, e.name)
      deeper == GoesDeeper(prefix, e.name) \/ e.type = "directory"
      child  == IF path \in DOMAIN children THEN children[path] ELSE [isDirectory |-> FALSE, size |-> 0]
      seen   == [isDirectory |-> child.isDirectory \/ deeper, size |-> SizeWith(child, deeper, e)]
  IN  IF IsUnderPrefix(prefix, e.name)
      THEN [p \in DOMAIN children \cup {path} |-> IF p = path THEN seen ELSE children[p]]
      ELSE children

\* listChildren, a map from child path to child; its order of display is left out.
ListChildren(list, prefix) == FoldLeft(LAMBDA children, e : With(children, prefix, e), <<>>, list)

-----------------------------------------------------------------------------
(* Properties.                                                             *)

EndsInDataOf(m) == fileSize \in (m.offset + 1)..(m.offset + m.size - 1)

\* What an undamaged archive lists is what was archived, under the names, kinds,
\* sizes and offsets it was archived with, from the first member on, and none
\* whose data was complete is missing -- whichever way its name and size are
\* recorded and whatever its data looks like.  An error means that the file ended
\* inside a header or the end mark, never in the data of a member, or that it was
\* still being written (TarArchive.cpp:117-120, 132-136: of an interrupted backup
\* what came before the cut is kept).
WholeMembersAreListed ==
    ~damaged =>
      /\ IsPrefix(entries, members)
      /\ status = "listed" => \A i \in DOMAIN members :
                                members[i].offset + members[i].size <= fileSize => i <= Len(entries)
      /\ status = "error" => \/ growths > 0
                             \/ fileSize % Block # 0 /\ ~\E i \in DOMAIN members : EndsInDataOf(members[i])

\* Whatever a damaged header says, the data of every entry lies inside the
\* file, which is what the explorer serves from it without looking again
\* (TarArchive.cpp:132-136); a file that grew is not held to it.
SlicesAreInside ==
    (status = "listed" /\ growths = 0) =>
      \A i \in DOMAIN entries : entries[i].offset + entries[i].size <= fileSize

Folders == {<<>>} \cup UNION {{SubSeq(name, 1, i) : i \in {j \in DOMAIN name : name[j] = "/"}} :
                               name \in {entries[i].name : i \in DOMAIN entries}}

NamesAreDistinct ==
    \A i, j \in DOMAIN entries :
      /\ entries[i].name = entries[j].name => i = j
      /\ IsPrefix(entries[i].name \o <<"/">>, entries[j].name) => entries[i].type = "directory"

\* No name ends in a slash, or has two pieces in a row that are one.
NamesArePlain ==
  \A i \in DOMAIN entries :
    LET name == entries[i].name IN
    /\ name \in Seq({name[n] : n \in DOMAIN name}) /\ name # <<>> /\ Last(name) # "/"
    /\ \A n \in 1..(Len(name) - 1) : name[n] # "/" => name[n + 1] = "/"

TotalOf(children) == FoldFunction(LAMBDA child, sum : child.size + sum, 0, children)

\* Opening folder after folder from the top shows every entry, and a folder's
\* size is the total of what opening it shows, folders with no member of their
\* own included, as long as no name was archived twice or as both a file and
\* a folder, and no name ends in a slash of its own (TarArchive.cpp:209-234).
FoldersAddUp ==
    (status = "listed" /\ NamesArePlain /\ NamesAreDistinct) =>
      /\ \A i \in DOMAIN entries : \E f \in Folders : entries[i].name \in DOMAIN ListChildren(entries, f)
      /\ \A f \in Folders : LET children == ListChildren(entries, f) IN
           \A path \in DOMAIN children :
             children[path].isDirectory => children[path].size = TotalOf(ListChildren(entries, path \o <<"/">>))

TypeOK ==
    /\ length \in 0..(Block * Len(archive)) /\ fileSize \in 0..length
    /\ position \in Nat /\ position % Block = 0
    /\ damaged \in BOOLEAN /\ growths \in 0..MaxGrowths
    /\ \A i \in DOMAIN entries : entries[i].type \in {"file", "directory", "symlink", "other"} /\ entries[i].size \in Nat
    /\ DOMAIN pax \subseteq {"path", "linkpath", "size"}
    /\ status \in {"reading", "listed", "error"}
=============================================================================
