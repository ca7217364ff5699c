----------------------------- MODULE SingleJob -----------------------------
(***************************************************************************)
(* What the GUI's job runner promises its clients, without threads, locks  *)
(* or flags: at most one job at a time, each with its own number; a job    *)
(* ends at most once; it is called cancelled only when somebody asked for  *)
(* that; and a job that was asked to stop does stop, unless the process is *)
(* closing by then.                                                        *)
(***************************************************************************)
EXTENDS Naturals

VARIABLES
  number,       \* how many jobs were started; the number of the current one
  status,       \* "idle" | "running" | one of Outcomes
  asked,        \* a client asked for the current job to be cancelled
  interrupted,  \* the process was sent SIGINT or SIGTERM
  shown,        \* the current job is reported to clients
  closing,      \* the server is about to return; cancels are not promised any more
  up            \* the process has not exited

vars == <<number, status, asked, interrupted, shown, closing, up>>

Outcomes == {"succeeded", "failed", "cancelled"}

Init ==
  /\ number = 0
  /\ status = "idle"
  /\ asked = FALSE
  /\ interrupted = FALSE
  /\ shown = FALSE
  /\ closing = FALSE
  /\ up = TRUE

Begin ==
  /\ up
  /\ status # "running"
  /\ number' = number + 1
  /\ status' = "running"
  /\ asked' = FALSE
  /\ shown' = TRUE
  /\ UNCHANGED <<interrupted, closing, up>>

Ask ==
  /\ up
  /\ status = "running"
  /\ asked' = TRUE
  /\ UNCHANGED <<number, status, interrupted, shown, closing, up>>

Interrupt ==
  /\ up
  /\ interrupted' = TRUE
  /\ UNCHANGED <<number, status, asked, shown, closing, up>>

\* A request to cancel may come too late to change the outcome, but nothing
\* but a request or an interrupt makes the outcome "cancelled".
End(outcome) ==
  /\ up
  /\ status = "running"
  /\ outcome = "cancelled" => asked \/ interrupted
  /\ status' = outcome
  /\ UNCHANGED <<number, asked, interrupted, shown, closing, up>>

Forget ==
  /\ up
  /\ status # "running"
  /\ shown' = FALSE
  /\ UNCHANGED <<number, status, asked, interrupted, closing, up>>

Close ==
  /\ up
  /\ closing' = TRUE
  /\ UNCHANGED <<number, status, asked, interrupted, shown, up>>

Exit ==
  /\ up
  /\ closing' = TRUE
  /\ up' = FALSE
  /\ UNCHANGED <<number, status, asked, interrupted, shown>>

Next ==
  \/ Begin
  \/ Ask
  \/ Interrupt
  \/ \E outcome \in Outcomes : End(outcome)
  \/ Forget
  \/ Close
  \/ Exit

Safety == Init /\ [][Next]_vars

\* A job whose cancellation was accepted ends, if the process stays open.
EndWhenAsked == ~closing /\ asked /\ \E outcome \in Outcomes : End(outcome)

Spec == Safety /\ WF_vars(EndWhenAsked)
=============================================================================
