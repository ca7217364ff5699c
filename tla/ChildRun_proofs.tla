--------------------------- MODULE ChildRun_proofs --------------------------
(***************************************************************************)
(* Theorems about ChildRun for every amount of input, of complaints and    *)
(* every capacity of a pipe: nothing is lost in either direction, and the  *)
(* verdict is true.                                                        *)
(***************************************************************************)
EXTENDS ChildRun, TLAPS

Outputs == {"out", "err"}

\* Every unit is counted where it is: read by the child, on its way, or read by
\* the parent.
UnitsAddUp ==
  /\ offset = taken + pipe["in"]
  /\ taken = gave["out"] + (IF owed THEN 1 ELSE 0)
  /\ gave["err"] <= ErrLen
  /\ \A s \in Outputs : gave[s] = got[s] + pipe[s]

\* The child exists from Spawn on, and the parent leaves the poll loop with
\* every stream closed.
StagesFollow ==
  /\ ppc = "start" => child = "none" /\ open = {} /\ \A s \in Outputs : pipe[s] = 0
  /\ ppc \notin {"start", "done"} => child # "none"
  /\ ppc \in {"reap", "done"} => open = {}

\* An output is closed only when it is drained and its writer gone.
ClosedIsDrained ==
  ppc # "start" => \A s \in Outputs \ open : pipe[s] = 0 /\ child # "running"

\* The input is closed only when all of it is written or its reader gone.
ClosedIsWritten ==
  ppc # "start" /\ "in" \notin open => offset = InLen \/ ~ChildLives

\* A signal goes back to a cancel, a killed child to a signal.
KillWasAsked ==
  /\ flag => asked
  /\ watch # "none" => asked
  /\ child = "killed" => watch # "none"
  /\ ended = "cancelled" => asked

IInv ==
  /\ TypeOK
  /\ UnitsAddUp
  /\ StagesFollow
  /\ ClosedIsDrained
  /\ ClosedIsWritten
  /\ KillWasAsked
  /\ EndOfInputIsTheEnd
  /\ CancelledIsTruthful

-----------------------------------------------------------------------------
LEMMA InitMakesIInv == Init => IInv
<1> SUFFICES ASSUME Init PROVE IInv
  OBVIOUS
<1>1. TypeOK
  <2>1. got \in [Outputs -> 0..(InLen + ErrLen)] /\ gave \in [Outputs -> 0..(InLen + ErrLen)]
    BY ChildAssumption DEF Init, Nothing, Outputs
  <2>2. pipe \in [Streams -> 0..Capacity]
    BY ChildAssumption DEF Init
  <2>3. offset \in 0..InLen /\ taken \in 0..InLen
    BY ChildAssumption DEF Init
  <2> QED  BY <2>1, <2>2, <2>3 DEF Init, TypeOK, Outputs
<1>2. UnitsAddUp
  BY ChildAssumption DEF Init, UnitsAddUp, Streams, Nothing, Outputs
<1> QED
  BY <1>1, <1>2
     DEF Init, IInv, StagesFollow, ClosedIsDrained, ClosedIsWritten, KillWasAsked,
         EndOfInputIsTheEnd,
         CancelledIsTruthful, Streams, Outputs

-----------------------------------------------------------------------------
(* The parent's steps.                                                     *)

LEMMA SpawnKeepsIInv ==
  ASSUME IInv, Spawn
  PROVE  IInv'
<1>1. /\ ppc = "start" /\ child = "none" /\ open = {} /\ ppc' \in {"poll", "done"}
      /\ UNCHANGED <<ready, offset, got, watch, flag, asked, pipe, taken, owed, gave, eof, heir, sibling>>
  BY DEF Spawn, IInv, StagesFollow
<1>2. CASE ppc' = "done"
  <2>1. open' = {} /\ child' = "none" /\ ended' = IF flag THEN "cancelled" ELSE "unspawned"
    BY <1>1, <1>2 DEF Spawn
  <2>2. TypeOK' /\ UnitsAddUp'
    BY <1>1, <1>2, <2>1 DEF IInv, TypeOK, UnitsAddUp
  <2>3. \A s \in Outputs : pipe[s] = 0
    BY <1>1 DEF IInv, StagesFollow
  <2> QED
    BY <1>1, <1>2, <2>1, <2>2, <2>3
       DEF IInv, StagesFollow, ClosedIsDrained, ClosedIsWritten, KillWasAsked, EndOfInputIsTheEnd,
           CancelledIsTruthful, ChildLives
<1>3. CASE ppc' = "poll"
  <2>1. open' = Streams /\ child' = "running" /\ ended' = ended
    BY <1>1, <1>3 DEF Spawn
  <2>2. TypeOK' /\ UnitsAddUp'
    BY <1>1, <1>3, <2>1 DEF IInv, TypeOK, UnitsAddUp
  <2> QED
    BY <1>1, <1>3, <2>1, <2>2
       DEF IInv, StagesFollow, ClosedIsDrained, ClosedIsWritten, KillWasAsked, EndOfInputIsTheEnd,
           CancelledIsTruthful, ChildLives, Streams, Outputs
<1> QED  BY <1>1, <1>2, <1>3

\* What CancelWatch::check may do to the child.
LEMMA CheckIsHarmless ==
  ASSUME IInv, Check
  PROVE  /\ watch' \in {"none", "term", "kill"}
         /\ watch' # "none" => asked
         /\ child' = child \/ (ChildLives /\ child' = "killed" /\ watch' # "none")
         /\ watch # "none" => watch' # "none"
BY DEF Check, IInv, TypeOK, KillWasAsked

\* Steps that do no more than that to the data and the child.
LEMMA CheckKeepsIInv ==
  ASSUME IInv, Check, ppc' \in {"in", "reap"}, ppc \notin {"start", "done"}, ppc' = "reap" => open = {},
         ready' \subseteq Streams,
         UNCHANGED <<open, offset, got, ended, flag, asked, pipe, taken, owed, gave, eof, heir, sibling>>
  PROVE  IInv'
BY CheckIsHarmless
   DEF IInv, TypeOK, UnitsAddUp, StagesFollow, ClosedIsDrained, ClosedIsWritten,
         KillWasAsked, EndOfInputIsTheEnd, CancelledIsTruthful, ChildLives

LEMMA PollKeepsIInv ==
  ASSUME IInv, Poll
  PROVE  IInv'
<1>1. CASE open = {}
  BY <1>1
     DEF Poll, IInv, TypeOK, UnitsAddUp, StagesFollow, ClosedIsDrained, ClosedIsWritten,
         KillWasAsked, EndOfInputIsTheEnd, CancelledIsTruthful, ChildLives
<1>2. CASE open # {}
  <2>1. /\ ppc = "poll" /\ ppc' = "in" /\ ready' = Ready /\ Check
        /\ UNCHANGED <<open, offset, got, ended, flag, asked, pipe, taken, owed, gave, eof, heir, sibling>>
    BY <1>2 DEF Poll
  <2>2. ready' \subseteq Streams
    BY <2>1 DEF Ready, IInv, TypeOK
  <2> QED  BY <2>1, <2>2, CheckKeepsIInv
<1> QED  BY <1>1, <1>2

LEMMA WriteInputKeepsIInv ==
  ASSUME IInv, WriteInput
  PROVE  IInv'
<1>1. CASE "in" \notin ready
  BY <1>1
     DEF WriteInput, childVars, IInv, TypeOK, UnitsAddUp, StagesFollow, ClosedIsDrained,
         ClosedIsWritten,
         KillWasAsked, EndOfInputIsTheEnd, CancelledIsTruthful, ChildLives
<1>2. CASE "in" \in ready /\ (offset = InLen \/ ~InputReader)
  BY <1>2
     DEF WriteInput, childVars, IInv, TypeOK, UnitsAddUp, StagesFollow, ClosedIsDrained,
         ClosedIsWritten,
         KillWasAsked, EndOfInputIsTheEnd, CancelledIsTruthful, ChildLives, InputReader, Outputs
<1>3. CASE "in" \in ready /\ ~(offset = InLen \/ ~InputReader)
  <2>1. PICK n \in 0..(Capacity - pipe["in"]) :
          /\ offset + n <= InLen
          /\ pipe' = [pipe EXCEPT !["in"] = @ + n] /\ offset' = offset + n
          /\ UNCHANGED open
    BY <1>3 DEF WriteInput
  <2>2. /\ pipe' \in [Streams -> 0..Capacity] /\ offset' \in 0..InLen
        /\ offset' = taken + pipe'["in"] /\ \A s \in Outputs : pipe'[s] = pipe[s]
    BY <2>1, ChildAssumption DEF IInv, TypeOK, UnitsAddUp, Streams, Outputs
  <2>3. /\ ppc = "in" /\ ppc' = "out"
        /\ UNCHANGED <<ready, got, watch, ended, flag, asked, child, taken, owed, gave, eof, heir,
                       sibling>>
    BY DEF WriteInput, childVars
  <2>4. "in" \notin open => ~ChildLives
    BY <1>3, <2>3 DEF IInv, ClosedIsWritten
  <2> QED
    BY <2>1, <2>2, <2>3, <2>4
       DEF IInv, TypeOK, UnitsAddUp, StagesFollow, ClosedIsDrained, ClosedIsWritten,
         KillWasAsked, EndOfInputIsTheEnd, CancelledIsTruthful, ChildLives, Outputs
<1> QED  BY <1>1, <1>2, <1>3

LEMMA ReadOutputKeepsIInv ==
  ASSUME IInv, NEW s \in Outputs, ReadOutput(s)
  PROVE  IInv'
<1>1. CASE s \notin ready
  BY <1>1
     DEF ReadOutput, After, Outputs, childVars, IInv, TypeOK, UnitsAddUp, StagesFollow,
         ClosedIsDrained, ClosedIsWritten,
         KillWasAsked, EndOfInputIsTheEnd, CancelledIsTruthful, ChildLives
<1>2. CASE s \in ready /\ pipe[s] > 0
  <2>1. /\ got' = [got EXCEPT ![s] = @ + pipe[s]] /\ pipe' = [pipe EXCEPT ![s] = 0]
        /\ ppc = s /\ ppc' = After(s)
        /\ UNCHANGED <<open, ready, offset, watch, ended, flag, asked, child, taken, owed, gave, eof,
                       heir, sibling>>
    BY <1>2 DEF ReadOutput, childVars
  <2>2. /\ \A t \in Outputs : gave[t] = got'[t] + pipe'[t]
        /\ pipe' \in [Streams -> 0..Capacity] /\ pipe'["in"] = pipe["in"]
        /\ \A t \in Outputs : pipe[t] = 0 => pipe'[t] = 0
    BY <2>1, ChildAssumption DEF IInv, TypeOK, UnitsAddUp, Streams, Outputs
  <2>3. got'[s] = gave[s]
    BY <2>1, <2>2 DEF IInv, TypeOK, UnitsAddUp, Streams, Outputs
  <2>4. got' \in [Outputs -> 0..(InLen + ErrLen)]
    BY <2>1, <2>3, ChildAssumption DEF IInv, TypeOK, Outputs
  <2>5. TypeOK'
    BY <2>1, <2>2, <2>4 DEF IInv, TypeOK, After, Outputs
  <2> QED
    BY <2>1, <2>2, <2>5
       DEF IInv, UnitsAddUp, StagesFollow, ClosedIsDrained, ClosedIsWritten, KillWasAsked,
           EndOfInputIsTheEnd,
           CancelledIsTruthful, ChildLives, After, Outputs
<1>3. CASE s \in ready /\ ~(pipe[s] > 0)
  <2>1. pipe[s] = 0
    BY <1>3, ChildAssumption DEF IInv, TypeOK, Streams, Outputs
  <2>2. /\ ppc = s /\ ppc' = After(s) /\ open' = IF OutputWriter THEN open ELSE open \ {s}
        /\ UNCHANGED <<got, pipe, ready, offset, watch, ended, flag, asked, child, taken, owed, gave,
                       eof, heir, sibling>>
    BY <1>3 DEF ReadOutput, childVars
  <2>3. /\ open' \subseteq open /\ ("in" \in open' <=> "in" \in open)
        /\ open' # open => child # "running"
    BY <2>2 DEF OutputWriter, Outputs
  <2>4. ppc \notin {"start", "done"} /\ ppc' \notin {"start", "reap", "done"}
    BY <2>2 DEF After, Outputs
  <2>5. TypeOK' /\ UnitsAddUp'
    BY <2>2, <2>3 DEF IInv, TypeOK, UnitsAddUp, After, Outputs
  <2>6. ClosedIsDrained'
    BY <2>1, <2>2, <2>3, <2>4 DEF IInv, ClosedIsDrained
  <2> QED
    BY <2>2, <2>3, <2>4, <2>5, <2>6
       DEF IInv, StagesFollow, ClosedIsWritten, KillWasAsked, EndOfInputIsTheEnd,
           CancelledIsTruthful, ChildLives
<1> QED  BY <1>1, <1>2, <1>3

LEMMA ReapKeepsIInv ==
  ASSUME IInv, Reap
  PROVE  IInv'
<1>1. CASE ChildLives
  <2>1. /\ Check /\ ppc = "reap"
        /\ UNCHANGED <<ppc, ended, ready, open, offset, got, flag, asked, pipe, taken, owed, gave, eof,
                       heir, sibling>>
    BY <1>1 DEF Reap
  <2>2. open = {} /\ ready' \subseteq Streams
    BY <2>1 DEF IInv, TypeOK, StagesFollow
  <2> QED  BY <2>1, <2>2, CheckKeepsIInv
<1>2. CASE ~ChildLives
  <2>1. /\ ppc = "reap" /\ ppc' = "done" /\ ended' = IF watch # "none" THEN "cancelled" ELSE child
        /\ UNCHANGED <<watch, child, ready, open, offset, got, flag, asked, pipe, taken, owed, gave,
                       eof, heir, sibling>>
    BY <1>2 DEF Reap
  <2> QED
    BY <1>2, <2>1
       DEF IInv, TypeOK, UnitsAddUp, StagesFollow, ClosedIsDrained, ClosedIsWritten,
         KillWasAsked, EndOfInputIsTheEnd, CancelledIsTruthful, ChildLives
<1> QED  BY <1>1, <1>2

-----------------------------------------------------------------------------
(* Everybody else's.                                                       *)

LEMMA ChildReadsKeepsIInv ==
  ASSUME IInv, ChildReads
  PROVE  IInv'
<1>1. CASE pipe["in"] > 0
  <2>1. /\ pipe' = [pipe EXCEPT !["in"] = @ - 1] /\ taken' = taken + 1 /\ owed' = TRUE /\ ~owed
        /\ UNCHANGED <<ppc, ready, open, offset, got, watch, ended, flag, asked, child, gave, eof,
                       heir, sibling>>
    BY <1>1 DEF ChildReads, parentVars
  <2>2. /\ pipe' \in [Streams -> 0..Capacity] /\ taken' \in 0..InLen
        /\ offset = taken' + pipe'["in"] /\ \A s \in Outputs : pipe'[s] = pipe[s]
    BY <1>1, <2>1, ChildAssumption DEF IInv, TypeOK, UnitsAddUp, Streams, Outputs
  <2>3. taken' = gave["out"] + 1
    BY <2>1, ChildAssumption DEF IInv, TypeOK, UnitsAddUp, Outputs
  <2>4. ~eof
    BY DEF ChildReads
  <2> QED
    BY <2>1, <2>2, <2>3, <2>4
       DEF IInv, TypeOK, UnitsAddUp, StagesFollow, ClosedIsDrained, ClosedIsWritten,
         KillWasAsked, EndOfInputIsTheEnd, CancelledIsTruthful, ChildLives
<1>2. CASE ~(pipe["in"] > 0)
  <2>1. /\ ~InputWriter /\ eof' = TRUE /\ child = "running"
        /\ UNCHANGED <<pipe, taken, owed, ppc, ready, open, offset, got, watch, ended, flag, asked,
                       child, gave, heir,
                       sibling>>
    BY <1>2 DEF ChildReads, parentVars
  <2>2. offset = InLen
    BY <2>1 DEF InputWriter, ChildLives, IInv, StagesFollow, ClosedIsWritten
  <2>3. taken = InLen
    BY <1>2, <2>2, ChildAssumption DEF IInv, TypeOK, UnitsAddUp, Streams
  <2> QED
    BY <2>1, <2>3
       DEF IInv, TypeOK, UnitsAddUp, StagesFollow, ClosedIsDrained, ClosedIsWritten,
         KillWasAsked, EndOfInputIsTheEnd, CancelledIsTruthful, ChildLives
<1> QED  BY <1>1, <1>2

\* A unit written is in its pipe.
LEMMA WritingAddsUp ==
  ASSUME IInv, NEW s \in Outputs, pipe[s] < Capacity, gave[s] < InLen + ErrLen,
         pipe' = [pipe EXCEPT ![s] = @ + 1], gave' = [gave EXCEPT ![s] = @ + 1],
         UNCHANGED <<got>>
  PROVE  /\ pipe' \in [Streams -> 0..Capacity] /\ pipe'["in"] = pipe["in"]
         /\ gave' \in [Outputs -> 0..(InLen + ErrLen)] /\ gave'[s] = gave[s] + 1
         /\ \A t \in Outputs : gave'[t] = got'[t] + pipe'[t]
         /\ \A t \in Outputs \ {s} : gave'[t] = gave[t]
BY ChildAssumption DEF IInv, TypeOK, UnitsAddUp, Streams, Outputs

LEMMA ChildWritesKeepsIInv ==
  ASSUME IInv, ChildWrites
  PROVE  IInv'
<1>1. /\ child = "running" /\ owed /\ pipe["out"] < Capacity /\ owed' = FALSE
      /\ pipe' = [pipe EXCEPT !["out"] = @ + 1] /\ gave' = [gave EXCEPT !["out"] = @ + 1]
      /\ UNCHANGED <<ppc, ready, open, offset, got, watch, ended, flag, asked, child, taken, eof, heir,
                     sibling>>
  BY DEF ChildWrites, parentVars
<1>2. taken = gave["out"] + 1 /\ gave["out"] < InLen + ErrLen
  BY <1>1, ChildAssumption DEF IInv, TypeOK, UnitsAddUp
<1>3. /\ pipe' \in [Streams -> 0..Capacity] /\ pipe'["in"] = pipe["in"]
      /\ gave' \in [Outputs -> 0..(InLen + ErrLen)] /\ gave'["out"] = gave["out"] + 1
      /\ \A t \in Outputs : gave'[t] = got'[t] + pipe'[t]
      /\ gave'["err"] = gave["err"]
  BY <1>1, <1>2, WritingAddsUp DEF Outputs
<1>4. UnitsAddUp'
  BY <1>1, <1>2, <1>3 DEF IInv, UnitsAddUp
<1>5. TypeOK'
  <2>1. gave' \in [{"out", "err"} -> 0..(InLen + ErrLen)] /\ pipe' \in [Streams -> 0..Capacity]
    BY <1>3 DEF Outputs
  <2>2. owed' \in BOOLEAN
    BY <1>1
  <2> QED BY <1>1, <2>1, <2>2 DEF IInv, TypeOK
<1> QED
  BY <1>1, <1>4, <1>5
     DEF IInv, StagesFollow, ClosedIsDrained, ClosedIsWritten, KillWasAsked, EndOfInputIsTheEnd,
         CancelledIsTruthful, ChildLives

LEMMA ChildComplainsKeepsIInv ==
  ASSUME IInv, ChildComplains
  PROVE  IInv'
<1>1. /\ child = "running" /\ gave["err"] < ErrLen /\ pipe["err"] < Capacity
      /\ pipe' = [pipe EXCEPT !["err"] = @ + 1] /\ gave' = [gave EXCEPT !["err"] = @ + 1]
      /\ UNCHANGED <<ppc, ready, open, offset, got, watch, ended, flag, asked, child, taken, owed, eof,
                     heir, sibling>>
  BY DEF ChildComplains, parentVars
<1>2. gave["err"] < InLen + ErrLen /\ gave["err"] + 1 <= ErrLen
  BY <1>1, ChildAssumption DEF IInv, TypeOK
<1>3. /\ pipe' \in [Streams -> 0..Capacity] /\ pipe'["in"] = pipe["in"]
      /\ gave' \in [Outputs -> 0..(InLen + ErrLen)] /\ gave'["err"] = gave["err"] + 1
      /\ \A t \in Outputs : gave'[t] = got'[t] + pipe'[t]
      /\ gave'["out"] = gave["out"]
  BY <1>1, <1>2, WritingAddsUp DEF Outputs
<1>4. UnitsAddUp'
  BY <1>1, <1>2, <1>3 DEF IInv, UnitsAddUp
<1>5. TypeOK'
  BY <1>1, <1>3 DEF IInv, TypeOK, Outputs
<1> QED
  BY <1>1, <1>4, <1>5
     DEF IInv, StagesFollow, ClosedIsDrained, ClosedIsWritten, KillWasAsked, EndOfInputIsTheEnd,
         CancelledIsTruthful, ChildLives

\* The child ends or hangs, others come and go, a cancel comes in or is taken back.
LEMMA OthersKeepIInv ==
  ASSUME IInv, \/ ChildExits \/ ChildHangs \/ HeirEnds
               \/ SiblingForks \/ SiblingExecs \/ Cancel \/ ClearCancel
  PROVE  IInv'
<1>1. CASE ChildExits \/ ChildHangs
  BY <1>1
     DEF ChildExits, ChildHangs, parentVars, IInv, TypeOK, UnitsAddUp, StagesFollow,
         ClosedIsDrained, ClosedIsWritten,
         KillWasAsked, EndOfInputIsTheEnd, CancelledIsTruthful, ChildLives
<1>2. CASE HeirEnds \/ SiblingForks \/ SiblingExecs
  <2>1. /\ heir' \in BOOLEAN /\ sibling' \in {"none", "forked", "execed"}
        /\ UNCHANGED <<parentVars, flag, asked, pipe, childVars>>
    BY <1>2 DEF HeirEnds, SiblingForks, SiblingExecs, IInv, TypeOK
  <2> QED
    BY <2>1
       DEF parentVars, childVars, IInv, TypeOK, UnitsAddUp, StagesFollow, ClosedIsDrained,
           ClosedIsWritten,
           KillWasAsked, EndOfInputIsTheEnd, CancelledIsTruthful, ChildLives
<1>3. CASE Cancel \/ ClearCancel
  <2>1. /\ flag' \in BOOLEAN /\ asked' = TRUE
        /\ UNCHANGED <<parentVars, pipe, childVars, heir, sibling>>
    BY <1>3 DEF Cancel, ClearCancel, IInv, KillWasAsked
  <2> QED
    BY <2>1
       DEF parentVars, childVars, IInv, TypeOK, UnitsAddUp, StagesFollow, ClosedIsDrained,
           ClosedIsWritten,
           KillWasAsked, EndOfInputIsTheEnd, CancelledIsTruthful, ChildLives
<1> QED  BY <1>1, <1>2, <1>3

LEMMA NextKeepsIInv == IInv /\ [Next]_vars => IInv'
<1> SUFFICES ASSUME IInv, [Next]_vars PROVE IInv'
  OBVIOUS
<1>1. CASE UNCHANGED vars
  BY <1>1
     DEF vars, IInv, TypeOK, UnitsAddUp, StagesFollow, ClosedIsDrained, ClosedIsWritten,
         KillWasAsked, EndOfInputIsTheEnd, CancelledIsTruthful, ChildLives
<1>2. CASE Parent
  BY <1>2, SpawnKeepsIInv, PollKeepsIInv, WriteInputKeepsIInv, ReadOutputKeepsIInv, ReapKeepsIInv
     DEF Parent, Outputs
<1>3. CASE ChildReads \/ ChildWrites \/ ChildComplains
  BY <1>3, ChildReadsKeepsIInv, ChildWritesKeepsIInv, ChildComplainsKeepsIInv
<1>4. CASE \/ ChildExits \/ ChildHangs \/ HeirEnds
           \/ SiblingForks \/ SiblingExecs \/ Cancel \/ ClearCancel
  BY <1>4, OthersKeepIInv
<1> QED  BY <1>1, <1>2, <1>3, <1>4 DEF Next

THEOREM Invariant == Spec => []IInv
<1> QED  BY InitMakesIInv, NextKeepsIInv, PTL DEF Spec

-----------------------------------------------------------------------------
(* What follows from it.                                                   *)

\* Every reachable state is well typed, for any amount of data and any pipe.
THEOREM TypeCorrect == Spec => []TypeOK
<1>1. IInv => TypeOK
  BY DEF IInv
<1> QED  BY <1>1, Invariant, PTL

\* The result holds all the child wrote, on both streams, whoever hung up first
\* (the loop reads on after POLLHUP until read() returns 0, Process.cpp:294-306).
THEOREM NoOutputIsLost == Spec => []OutputIsWhole
<1>1. IInv => OutputIsWhole
  <2> SUFFICES ASSUME IInv, ppc = "done" PROVE got = gave
    BY DEF OutputIsWhole
  <2>1. \A s \in Outputs : gave[s] = got[s] + 0
    BY DEF IInv, StagesFollow, ClosedIsDrained, UnitsAddUp
  <2>2. \A s \in Outputs : gave[s] = got[s]
    BY <2>1, ChildAssumption DEF IInv, TypeOK, Outputs
  <2> QED  BY <2>2 DEF IInv, TypeOK, Outputs
<1> QED  BY <1>1, Invariant, PTL

\* A child that reads on to the end of its input was given all of it, however
\* short the writes were (stdinOffset, Process.cpp:281-292).
THEOREM NoInputIsCut == Spec => []EndOfInputIsTheEnd
<1>1. IInv => EndOfInputIsTheEnd
  BY DEF IInv
<1> QED  BY <1>1, Invariant, PTL

\* "cancelled" is reported exactly of calls a cancel may have ended, and of every
\* one whose child it killed.
THEOREM VerdictIsTrue == Spec => []CancelledIsTruthful
<1>1. IInv => CancelledIsTruthful
  BY DEF IInv
<1> QED  BY <1>1, Invariant, PTL
=============================================================================
