----------------------------- MODULE MCExplorer -----------------------------
EXTENDS Explorer, TLC

Header(first, last) == [first |-> first, last |-> last]

\* Every write may bring the archive back to the size it had.
SizeHere == [n \in 0..MaxWrites |-> IF n = 1 THEN 1 ELSE 2]

\* No bytes and a few; no header, a suffix shorter and one longer than the
\* file, an open end.
EdgeLengths == {0, 2}
EdgeRanges == {Header(Blank, Blank), Header(Blank, 1), Header(Blank, 3), Header(1, Blank)}

Interchangeable == Permutations(Requests)
=============================================================================
