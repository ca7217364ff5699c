------------------------------ MODULE ChildRun ------------------------------
(***************************************************************************)
(* One Process::run (src/src/util/Process.cpp): the pipes to a child, the  *)
(* poll loop that feeds and drains them, the CancelWatch and the reaping,  *)
(* against a child that filters its input, may hang, may ignore SIGTERM,   *)
(* or may leave a descendant behind on its streams; and a sibling another  *)
(* thread forks while the pipes are open.                                  *)
(*                                                                         *)
(* Data is counted in units.  poll() reports what is ready at once, the    *)
(* three streams are served after it one by one, the child runs between.   *)
(***************************************************************************)
EXTENDS Naturals

CONSTANTS
  InLen,      \* units of stdinData
  ErrLen,     \* bound: units the child may write to stderr
  Capacity    \* what a pipe holds

ASSUME ChildAssumption == InLen \in Nat /\ ErrLen \in Nat /\ Capacity \in Nat \ {0}

VARIABLES
  ppc,          \* where the parent is
  ready,        \* the revents of the last poll()
  open,         \* stdinOpen, stdoutOpen, stderrOpen
  offset,       \* stdinOffset
  got,          \* what result.stdOut and result.stdErr hold
  watch,        \* the CancelWatch: nothing sent, SIGTERM sent, SIGKILL sent
  ended,        \* the ProcessResult: how the call ended
  flag,         \* g_cancelRequested
  asked,        \* history: it has been set
  pipe,         \* the units in each pipe
  child,        \* running, hung, hung with its outputs closed, exited, killed, none
  taken,        \* units the child has read
  owed,         \* it holds a unit it has read and not yet written
  gave,         \* units it has written to each stream
  eof,          \* it has seen the end of its input
  heir,         \* a descendant keeps its stdout and stderr open
  sibling       \* a child of another thread: none, forked, or past its exec

parentVars == <<ppc, ready, open, offset, got, watch, ended>>
childVars == <<child, taken, owed, gave, eof>>
vars == <<ppc, ready, open, offset, got, watch, ended, flag, asked, pipe, child, taken, owed, gave,
          eof, heir, sibling>>

Streams == {"in", "out", "err"}
Nothing == [s \in {"out", "err"} |-> 0]

Init ==
  /\ ppc = "start" /\ ready = {} /\ open = {} /\ offset = 0 /\ got = Nothing
  /\ watch = "none" /\ ended = "pending" /\ flag = FALSE /\ asked = FALSE
  /\ pipe = [s \in Streams |-> 0]
  /\ child = "none" /\ taken = 0 /\ owed = FALSE /\ gave = Nothing /\ eof = FALSE
  /\ heir = FALSE /\ sibling = "none"

-----------------------------------------------------------------------------
(* Who has which end open.                                                 *)

ChildLives == child \in {"running", "hung", "detached"}

\* A sibling forked while the pipes are open has both ends of them until its
\* exec, which closes them: they are close-on-exec.  The mutation is without.
SiblingKeeps == sibling \in {"forked", "execed"}
SiblingHolds == sibling = "forked"

InputReader == ChildLives \/ SiblingHolds
InputWriter == "in" \in open \/ SiblingHolds
OutputWriter == child \in {"running", "hung"} \/ heir \/ SiblingHolds

-----------------------------------------------------------------------------
(* The parent.                                                             *)

\* Process::run up to pumpIo.
Spawn ==
  /\ ppc = "start"
  /\ \/ /\ ended' = IF flag THEN "cancelled" ELSE "unspawned"
        /\ ppc' = "done"
        /\ UNCHANGED <<open, child>>
     \/ /\ ~flag
        /\ ppc' = "poll" /\ open' = Streams /\ child' = "running"
        /\ UNCHANGED ended
  /\ UNCHANGED <<ready, offset, got, watch, flag, asked, pipe, taken, owed, gave, eof, heir, sibling>>

\* CancelWatch::check, which does nothing while the flag is down, whatever it
\* has sent before.  SIGTERM may be ignored, SIGKILL cannot.
Check ==
  LET next == IF ~flag THEN watch ELSE IF watch = "none" THEN "term" ELSE "kill"
  IN /\ watch' \in {watch, next}
     /\ flag /\ watch = "none" => watch' = "term"
     /\ child' \in IF ~ChildLives \/ watch' = watch THEN {child}
                   ELSE IF watch' = "kill" THEN {"killed"} ELSE {child, "killed"}

Ready ==
  {s \in open : IF s = "in" THEN pipe[s] < Capacity \/ ~InputReader
                            ELSE pipe[s] > 0 \/ ~OutputWriter}

\* poll() with its timeout, then cancel.check(); no stream left ends the loop.
Poll ==
  /\ ppc = "poll"
  /\ IF open = {}
       THEN ppc' = "reap" /\ UNCHANGED <<ready, watch, child>>
       ELSE ppc' = "in" /\ ready' = Ready /\ Check
  /\ UNCHANGED <<open, offset, got, ended, flag, asked, pipe, taken, owed, gave, eof, heir, sibling>>

\* The mutation that takes one write for all of it.
WriteOnce ==
  /\ ppc = "in" /\ ppc' = "out"
  /\ IF "in" \in ready /\ InputReader /\ pipe["in"] < Capacity /\ offset < InLen
       THEN pipe' = [pipe EXCEPT !["in"] = @ + 1] /\ offset' = offset + 1
       ELSE UNCHANGED <<pipe, offset>>
  /\ open' = IF "in" \in ready THEN open \ {"in"} ELSE open
  /\ UNCHANGED <<ready, got, watch, ended, flag, asked, childVars, heir, sibling>>

\* All written, or nobody reads any more (EPIPE): close.  Else write what fits.
WriteInput ==
  /\ ppc = "in" /\ ppc' = "out"
  /\ IF "in" \notin ready
       THEN UNCHANGED <<pipe, offset, open>>
     ELSE IF offset = InLen \/ ~InputReader
       THEN open' = open \ {"in"} /\ UNCHANGED <<pipe, offset>>
     ELSE \E n \in 0..(Capacity - pipe["in"]) :
            /\ offset + n <= InLen
            /\ pipe["in"] < Capacity => n > 0
            /\ pipe' = [pipe EXCEPT !["in"] = @ + n] /\ offset' = offset + n
            /\ UNCHANGED open
  /\ UNCHANGED <<ready, got, watch, ended, flag, asked, childVars, heir, sibling>>

After(s) == IF s = "out" THEN "err" ELSE "poll"

\* The mutation that closes a stream on a hangup without draining it.
ReadUntilHangup(s) ==
  /\ ppc = s /\ ppc' = After(s)
  /\ IF s \notin ready
       THEN UNCHANGED <<got, pipe, open>>
     ELSE IF OutputWriter
       THEN /\ got' = [got EXCEPT ![s] = @ + pipe[s]]
            /\ pipe' = [pipe EXCEPT ![s] = 0]
            /\ UNCHANGED open
     ELSE open' = open \ {s} /\ UNCHANGED <<got, pipe>>
  /\ UNCHANGED <<ready, offset, watch, ended, flag, asked, childVars, heir, sibling>>

\* A read returns what is there, or the end once the last writer is gone.
ReadOutput(s) ==
  /\ ppc = s /\ ppc' = After(s)
  /\ IF s \notin ready
       THEN UNCHANGED <<got, pipe, open>>
     ELSE IF pipe[s] > 0
       THEN /\ got' = [got EXCEPT ![s] = @ + pipe[s]]
            /\ pipe' = [pipe EXCEPT ![s] = 0]
            /\ UNCHANGED open
     ELSE /\ open' = IF OutputWriter THEN open ELSE open \ {s}
          /\ UNCHANGED <<got, pipe>>
  /\ UNCHANGED <<ready, offset, watch, ended, flag, asked, childVars, heir, sibling>>

\* The mutation whose waitpid() blocks, with no more checks for a cancel.
ReapBlocking ==
  /\ ppc = "reap" /\ ~ChildLives
  /\ ppc' = "done" /\ ended' = IF watch # "none" THEN "cancelled" ELSE child
  /\ UNCHANGED <<watch, child, ready, open, offset, got, flag, asked, pipe, taken, owed, gave, eof,
                 heir, sibling>>

\* The mutation that goes by the wait status alone.
ReapByStatus ==
  /\ ppc = "reap"
  /\ IF ChildLives
       THEN Check /\ UNCHANGED <<ppc, ended>>
       ELSE ppc' = "done" /\ ended' = child /\ UNCHANGED <<watch, child>>
  /\ UNCHANGED <<ready, open, offset, got, flag, asked, pipe, taken, owed, gave, eof, heir, sibling>>

\* waitpid(WNOHANG) and cancel.check(), until the child is gone.
Reap ==
  /\ ppc = "reap"
  /\ IF ChildLives
       THEN Check /\ UNCHANGED <<ppc, ended>>
       ELSE /\ ppc' = "done" /\ ended' = IF watch # "none" THEN "cancelled" ELSE child
            /\ UNCHANGED <<watch, child>>
  /\ UNCHANGED <<ready, open, offset, got, flag, asked, pipe, taken, owed, gave, eof, heir, sibling>>

-----------------------------------------------------------------------------
(* The child: any program adb stands for.                                  *)

ChildReads ==
  /\ child = "running" /\ ~owed /\ ~eof
  /\ IF pipe["in"] > 0
       THEN /\ pipe' = [pipe EXCEPT !["in"] = @ - 1]
            /\ taken' = taken + 1 /\ owed' = TRUE
            /\ UNCHANGED eof
       ELSE ~InputWriter /\ eof' = TRUE /\ UNCHANGED <<pipe, taken, owed>>
  /\ UNCHANGED <<parentVars, flag, asked, child, gave, heir, sibling>>

ChildWrites ==
  /\ child = "running" /\ owed
  /\ pipe["out"] < Capacity
  /\ pipe' = [pipe EXCEPT !["out"] = @ + 1]
  /\ gave' = [gave EXCEPT !["out"] = @ + 1]
  /\ owed' = FALSE
  /\ UNCHANGED <<parentVars, flag, asked, child, taken, eof, heir, sibling>>

ChildComplains ==
  /\ child = "running" /\ gave["err"] < ErrLen
  /\ pipe["err"] < Capacity
  /\ pipe' = [pipe EXCEPT !["err"] = @ + 1]
  /\ gave' = [gave EXCEPT !["err"] = @ + 1]
  /\ UNCHANGED <<parentVars, flag, asked, child, taken, owed, eof, heir, sibling>>

\* It ends by itself: at the end of its input, or early, in error.
ChildExits ==
  /\ child = "running"
  /\ child' = "exited"
  /\ heir' \in BOOLEAN
  /\ UNCHANGED <<parentVars, flag, asked, pipe, taken, owed, gave, eof, sibling>>

\* adb waiting for a device that does not answer, its outputs open or closed.
ChildHangs ==
  /\ child = "running"
  /\ child' \in {"hung", "detached"}
  /\ UNCHANGED <<parentVars, flag, asked, pipe, taken, owed, gave, eof, heir, sibling>>

\* The descendant ends, and with it the last copy of the streams.
HeirEnds ==
  /\ heir /\ heir' = FALSE
  /\ UNCHANGED <<parentVars, flag, asked, pipe, childVars, sibling>>

SiblingForks ==
  /\ sibling = "none" /\ ppc \notin {"start", "done"}
  /\ sibling' = "forked"
  /\ UNCHANGED <<parentVars, flag, asked, pipe, childVars, heir>>

SiblingExecs ==
  /\ sibling = "forked"
  /\ sibling' = "execed"
  /\ UNCHANGED <<parentVars, flag, asked, pipe, childVars, heir>>

Cancel ==
  /\ ~flag /\ flag' = TRUE /\ asked' = TRUE
  /\ UNCHANGED <<parentVars, pipe, childVars, heir, sibling>>

\* The flag is the process's: the thread of a job that ends takes it back, and
\* so does the next start, while the call of a request's thread is still going.
ClearCancel ==
  /\ flag /\ flag' = FALSE
  /\ UNCHANGED <<asked, parentVars, pipe, childVars, heir, sibling>>

Parent == Spawn \/ Poll \/ WriteInput \/ (\E s \in {"out", "err"} : ReadOutput(s)) \/ Reap
ChildWorks == ChildReads \/ ChildWrites \/ (eof /\ ~owed /\ ChildExits)

Next == Parent \/ ChildReads \/ ChildWrites \/ ChildComplains \/ ChildExits \/ ChildHangs
               \/ HeirEnds \/ SiblingForks \/ SiblingExecs \/ Cancel \/ ClearCancel

\* The parent runs; the child does what it is there for unless it hangs; the
\* grace period ends, so a check after SIGTERM sends SIGKILL in the end; fork
\* is followed by exec.  Nothing is assumed of hung children and heirs.
Fairness ==
  /\ WF_vars(Parent) /\ WF_vars(ChildWorks) /\ WF_vars(SiblingExecs)
  /\ SF_vars(Poll /\ watch' # watch) /\ SF_vars(Reap /\ watch' # watch)

Spec == Init /\ [][Next]_vars /\ Fairness

-----------------------------------------------------------------------------
\* The type of every variable.
TypeOK ==
  /\ ppc \in {"start", "poll", "in", "out", "err", "reap", "done"}
  /\ ready \subseteq Streams /\ open \subseteq Streams /\ offset \in 0..InLen
  /\ got \in [{"out", "err"} -> 0..(InLen + ErrLen)]
  /\ gave \in [{"out", "err"} -> 0..(InLen + ErrLen)]
  /\ watch \in {"none", "term", "kill"}
  /\ ended \in {"pending", "unspawned", "cancelled", "exited", "killed"}
  /\ flag \in BOOLEAN /\ asked \in BOOLEAN /\ pipe \in [Streams -> 0..Capacity]
  /\ child \in {"none", "running", "hung", "detached", "exited", "killed"}
  /\ taken \in 0..InLen /\ owed \in BOOLEAN /\ eof \in BOOLEAN /\ heir \in BOOLEAN
  /\ sibling \in {"none", "forked", "execed"}

\* When the call has returned, the result holds everything the child wrote,
\* however it ended and whatever hung up first.
OutputIsWhole == ppc = "done" => got = gave

\* A child that runs to the end of its input has been given all of it: the
\* pipe is never closed over a short write.
EndOfInputIsTheEnd == eof => taken = InLen

\* A child that a cancel killed is never taken for one that ended, and no call
\* is reported cancelled unless somebody asked for it.
CancelledIsTruthful ==
  ppc = "done" => /\ child = "killed" => ended = "cancelled"
                  /\ ended = "cancelled" => asked

\* run() comes back: feeding and draining never lock up with the child, a
\* sibling's copies of the pipes do not hold it, and it waits only for a child
\* that hangs with no cancel, or for a descendant on the streams.
RunReturns == ppc = "poll" ~> ppc = "done" \/ heir \/ (child \in {"hung", "detached"} /\ ~flag)

\* After a cancel that nobody takes back it comes back, whatever the child does
\* with SIGTERM.
CancelReturns == flag /\ ppc # "start" ~> ppc = "done" \/ heir \/ ~flag

\* "sends the running child SIGTERM, then SIGKILL after a grace period"
\* (docs/ARCHITECTURE.md:175): a child that was sent the one ends or is sent the
\* other.  It is not once another thread has taken the cancel back.
TermThenKill == watch = "term" ~> watch = "kill" \/ ~ChildLives

=============================================================================
