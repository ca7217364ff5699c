------------------------------ MODULE MCTarIndex -----------------------------
EXTENDS TarIndex

\* Archives as Android's and the host's tar write them, member by member.
Hdr(type, name, size) == [is |-> "header", type |-> type, name |-> name, prefix |-> <<>>, ustar |-> TRUE,
                           size |-> size, link |-> <<>>]
Text(value) == [is |-> "text", text |-> value]
Zeros == [is |-> "zeros"]
Bytes == [is |-> "bytes"]
Inner == Hdr("0", <<"inner">>, 0)   \* a block of an archive within the archive

Data(fill, size) == [i \in 1..((size + 1) \div 2) |-> fill]

\* A member: its blocks, its entry with the offset counted from its start, and
\* the block of its own header, which the data follows.
Part(blocks, name, type, size, link, at) ==
  [blocks |-> blocks, own |-> at \div Block,
   list |-> <<[name |-> name, type |-> type, size |-> size, offset |-> at, link |-> link]>>]

Photo == <<"d", "/", "photo">>
Deep == <<"d", "/", "e", "/", "long">>
Song == <<"song">>
Plain(name, fill, size) == Part(<<Hdr("0", <<"./">> \o name, size)>> \o Data(fill, size), name, "file", size, <<>>, 2)

Samples ==
  {Plain(Photo, Bytes, 3), Plain(Song, Inner, 2), Plain(<<"d", "/", "z">>, Zeros, 1), Plain(<<"empty">>, Bytes, 0),
   Part(<<Hdr("5", <<"./", "d", "/">>, 0)>>, <<"d">>, "directory", 0, <<>>, 2),
   [blocks |-> <<Hdr("5", <<"./">>, 0)>>, own |-> 1, list |-> <<>>],
   Part(<<Hdr("0", <<"/", "old", "/">>, 0)>>, <<"old">>, "directory", 0, <<>>, 2),
   Part(<<[Hdr("2", <<"ln">>, 0) EXCEPT !.link = Song]>>, <<"ln">>, "symlink", 0, Song, 2),
   Part(<<[Hdr("1", <<"hard">>, 3) EXCEPT !.link = Photo]>>, <<"hard">>, "other", 0, Photo, 2),
   Part(<<Hdr("K", <<"@">>, 1), Text(Deep), Hdr("2", <<"ln2">>, 0)>>, <<"ln2">>, "symlink", 0, Deep, 6),
   Part(<<Hdr("L", <<"@">>, 2), Text(<<"./">> \o Deep), Hdr("0", <<"cut">>, 2), Inner>>, Deep, "file", 2, <<>>, 6),
   Part(<<Hdr("x", <<"@">>, 2), Text(("path" :> Deep) @@ ("size" :> 4)), Hdr("0", <<"cut">>, 0), Inner, Inner>>,
        Deep, "file", 4, <<>>, 6),
   Part(<<Hdr("g", <<"@">>, 2), Text(<<>>), [Hdr("0", <<"v">>, 1) EXCEPT !.prefix = <<"d">>], Bytes>>,
        <<"d", "/", "v">>, "file", 1, <<>>, 6),
   Part(<<[Hdr("0", <<"v7">>, 1) EXCEPT !.prefix = <<"junk">>, !.ustar = FALSE], Bytes>>, <<"v7">>, "file", 1, <<>>, 2),
   Part(<<Hdr("6", <<"fifo">>, 0)>>, <<"fifo">>, "other", 0, <<>>, 2)}

Joined(parts) ==
  FoldLeft(LAMBDA a, part :
             [blocks  |-> a.blocks \o part.blocks,
              members |-> a.members \o [i \in DOMAIN part.list |->
                                          [part.list[i] EXCEPT !.offset = @ + Block * Len(a.blocks)]],
              parts   |-> Append(a.parts, [first |-> Len(a.blocks) + 1, own |-> Len(a.blocks) + part.own,
                                           before |-> Len(a.members)])],
           [blocks |-> <<>>, members |-> <<>>, parts |-> <<>>], parts)

Ended(a) == LET end == Len(a.blocks) + 1 IN
            [a EXCEPT !.blocks = @ \o <<Zeros, Zeros>>,
                      !.parts = Append(@, [first |-> end, own |-> end, before |-> Len(a.members)])]

MCArchives == {Ended(Joined(parts)) : parts \in UNION {[1..n -> Samples] : n \in 0..2}}
MCCorruptSizes == {3, 5, Word - 2}
=============================================================================
