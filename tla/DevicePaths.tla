----------------------------- MODULE DevicePaths ----------------------------
(***************************************************************************)
(* DevicePaths.cpp: which device paths may be pulled, and which of a list  *)
(* are worth pulling.                                                      *)
(*                                                                         *)
(* A path is a sequence of pieces of text.  The separator "/", the blank   *)
(* " " and ".." are pieces of their own; every other piece stands for some *)
(* characters of a name, so that a name may begin like another one:        *)
(* /system is <<"/","system">>, /system_ext is <<"/","system","_ext">>.    *)
(***************************************************************************)
EXTENDS Naturals, SequencesExt

PseudoFilesystems ==
  {<<"/", "proc">>, <<"/", "sys">>, <<"/", "dev">>, <<"/", "acct">>, <<"/", "config">>,
   <<"/", "debug_ramdisk">>, <<"/", "mnt", "/", "runtime">>, <<"/", "apex">>,
   <<"/", "storage", "/", "self">>}

\* What --all-files pulls.
DefaultCaptureRoots ==
  << <<"/", "data">>, <<"/", "sdcard">>, <<"/", "system">>, <<"/", "system", "_ext">>,
     <<"/", "vendor">>, <<"/", "product">>, <<"/", "odm">>, <<"/", "oem">>,
     <<"/", "metadata">> >>

-----------------------------------------------------------------------------
Trim(text) ==
  LET solid == {i \in DOMAIN text : text[i] # " "}
  IN  IF solid = {} THEN <<>> ELSE SubSeq(text, Min(solid), Max(solid))

\* A separator right after another is not copied.
Squeeze(path) ==
  LET copied[n \in 0..Len(path)] ==
        IF n = 0 THEN <<>>
        ELSE IF path[n] = "/" /\ n > 1 /\ path[n - 1] = "/" THEN copied[n - 1]
        ELSE Append(copied[n - 1], path[n])
  IN  copied[Len(path)]

\* Runs of separators become one; a trailing one goes, unless it is the path.
Normalize(path) ==
  LET once == Squeeze(path)
  IN  IF Len(once) > 1 /\ Last(once) = "/" THEN Front(once) ELSE once

\* Mutant of IsUnder: no look at the segment boundary.
PrefixIsUnder(candidate, ancestor) ==
  \/ Normalize(ancestor) = <<"/">>
  \/ IsPrefix(Normalize(ancestor), Normalize(candidate))

IsUnder(candidate, ancestor) ==
  LET a == Normalize(candidate)
      b == Normalize(ancestor)
  IN  \/ b = <<"/">>
      \/ a = b
      \/ IsStrictPrefix(b, a) /\ a[Len(b) + 1] = "/"

HasTraversal(path) ==
  \E i \in DOMAIN path : /\ path[i] = ".."
                         /\ i > 1 => path[i - 1] = "/"
                         /\ i < Len(path) => path[i + 1] = "/"

Classify(path) ==
  LET p == Normalize(Trim(path))
  IN  IF p = <<>> THEN "Empty"
      ELSE IF Head(p) # "/" THEN "NotAbsolute"
      ELSE IF p = <<"/">> THEN "Root"
      ELSE IF HasTraversal(p) THEN "Traversal"
      ELSE IF \E q \in PseudoFilesystems : IsUnder(p, q) THEN "PseudoFilesystem"
      ELSE "Ok"

IsPullable(path) == Classify(path) = "Ok"

-----------------------------------------------------------------------------
(* collapseRedundant: normalised, without repetitions and without paths    *)
(* another one covers, in the caller's order.  Every piece counts as one   *)
(* character in the sort, which only has to put an ancestor before what it *)
(* covers; of two paths as long as each other neither covers the other     *)
(* unless one is the root, which no list that gets here has, so that which *)
(* of them comes first does not matter.                                    *)

\* Mutant of Keep: the sort's comparison the wrong way round.
KeepLongestFirst(clean) ==
  LET kept[path \in clean] ==
        ~\E other \in clean : Len(other) > Len(path) /\ kept[other] /\ IsUnder(path, other)
  IN  {path \in clean : kept[path]}

\* A path is kept unless one that was before it, and was kept, covers it.
Keep(clean) ==
  LET kept[path \in clean] ==
        ~\E other \in clean : Len(other) < Len(path) /\ kept[other] /\ IsUnder(path, other)
  IN  {path \in clean : kept[path]}

\* The paths of a list that are kept, each where the list first has it.
InOrder(list, kept) ==
  LET ordered[n \in 0..Len(list)] ==
        IF n = 0 THEN <<>>
        ELSE LET before == ordered[n - 1]
             IN  IF list[n] \in kept /\ ~Contains(before, list[n])
                   THEN Append(before, list[n]) ELSE before
  IN  ordered[Len(list)]

Cleaned(paths) == [n \in 1..Len(paths) |-> Normalize(Trim(paths[n]))]
CollapseRedundant(paths) == InOrder(Cleaned(paths), Keep(ToSet(Cleaned(paths)) \ {<<>>}))

-----------------------------------------------------------------------------
(* sanitizeForFilename, on the path without its leading separator: the     *)
(* separators become underscores, so /data/app and /data_app share a name. *)

Sanitize(path) == [k \in 1..(Len(path) - 1) |-> IF path[k + 1] = "/" THEN "_" ELSE path[k + 1]]
=============================================================================
