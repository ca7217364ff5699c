------------------------------- MODULE JobPage ------------------------------
(***************************************************************************)
(* A browser page of the GUI (index.html) following the server's one job   *)
(* through its log: what JobRunner's snapshots say (GuiServer.cpp), the    *)
(* calls in flight between the two, in any order, answered or lost, and    *)
(* the page's chain of polls.  Other pages and clients act on the server   *)
(* only, at any moment; what goes on inside the runner is JobRunner's.     *)
(*                                                                         *)
(* A log line is its job and its place in that job's log.  JavaScript runs *)
(* to the next await in one step, so each handler is one action per await. *)
(***************************************************************************)
EXTENDS Integers, FiniteSets, Sequences

CONSTANTS
  MaxJobs, MaxLines,    \* bounds: jobs started, lines one of them logs
  Slots,        \* bound: the calls a page has in flight
  MaxClicks,    \* bound: calls a user makes from this page
  MaxLost       \* bound: calls that fail on the way

ASSUME PageAssumption ==
  /\ MaxJobs \in Nat /\ MaxLines \in Nat /\ MaxClicks \in Nat /\ MaxLost \in Nat
  /\ IsFiniteSet(Slots)

VARIABLES
  \* JobRunner
  present, id, state, cancelling,
  logSize,      \* the lines of log_ are <<id, 0>> to <<id, logSize - 1>>
  \* the page
  jobId, logShown,      \* state.jobId, state.logShown
  view,         \* what the panel shows: "hidden", "running", "cancelling" or "ended"
  lines,        \* #job-log
  polling,      \* state.polling: "null", "timer" while its timeout is pending, "fired" after
  strays,       \* pending timeouts that state.polling no longer names
  calls,        \* the calls in flight, by slot
  clicks, lost

serverVars == <<present, id, state, cancelling, logSize>>
panelVars == <<jobId, logShown, view, lines>>
chainVars == <<polling, strays>>
vars == <<serverVars, panelVars, chainVars, calls, clicks, lost>>

NoCall == [kind |-> "none"]
Refused == [refused |-> TRUE]

\* snapshot(since), as jobJson puts it: the log from `from` up to `size`.
Snapshot(since) ==
  [refused |-> FALSE, present |-> present, id |-> id, state |-> state, cancelling |-> cancelling,
   from |-> IF since < logSize THEN since ELSE logSize, size |-> logSize]

\* A page that has just been loaded asks for the job's status.
FirstLoad == [s \in Slots |-> IF s = CHOOSE t \in Slots : TRUE
                               THEN [kind |-> "status", since |-> 0] ELSE NoCall]

Init ==
  /\ present = FALSE /\ id = 0 /\ state = "idle" /\ cancelling = FALSE /\ logSize = 0
  /\ jobId = 0 /\ logShown = 0 /\ view = "hidden" /\ lines = <<>>
  /\ polling = "null" /\ strays = 0
  /\ calls = FirstLoad
  /\ clicks = 0 /\ lost = 0

-----------------------------------------------------------------------------
(* The server: JobRunner's critical sections as the page sees them.        *)

Running == state = "running"

\* start(): whoever asks, and only when nothing runs.
Starts == /\ ~Running
          /\ id < MaxJobs
          /\ id' = id + 1 /\ state' = "running" /\ present' = TRUE
          /\ cancelling' = FALSE /\ logSize' = 0

Cancels == Running /\ cancelling' = TRUE /\ UNCHANGED <<present, id, state, logSize>>

Dismisses == /\ ~Running
             /\ present' = FALSE /\ logSize' = 0
             /\ UNCHANGED <<id, state, cancelling>>

Logs == /\ Running /\ logSize < MaxLines
        /\ logSize' = logSize + 1
        /\ UNCHANGED <<present, id, state, cancelling, panelVars, chainVars, calls, clicks, lost>>

Finishes == /\ Running
            /\ state' = "ended"
            /\ UNCHANGED <<present, id, cancelling, logSize, panelVars, chainVars, calls, clicks, lost>>

\* Another page, or the user's other browser.
Elsewhere == /\ Starts \/ Cancels \/ Dismisses
             /\ UNCHANGED <<panelVars, chainVars, calls, clicks, lost>>

-----------------------------------------------------------------------------
(* The page's calls.                                                       *)

Send(kind) == \E s \in Slots :
  /\ calls[s] = NoCall
  /\ calls' = [calls EXCEPT ![s] = [kind |-> kind, since |-> logShown]]

\* A button: what is offered depends on what the panel shows, except that a
\* backup or restore may always be started.
Click(kind) ==
  /\ clicks < MaxClicks
  /\ clicks' = clicks + 1
  /\ kind = "cancel" => view = "running"
  /\ kind = "dismiss" => view = "ended"
  /\ Send(kind)
  /\ UNCHANGED <<serverVars, panelVars, chainVars, lost>>

\* A reload forgets everything, the calls in flight included, and asks again.
Reload ==
  /\ clicks < MaxClicks
  /\ clicks' = clicks + 1
  /\ jobId' = 0 /\ logShown' = 0 /\ view' = "hidden" /\ lines' = <<>>
  /\ polling' = "null" /\ strays' = 0
  /\ calls' = FirstLoad
  /\ UNCHANGED <<serverVars, lost>>

\* tick(): a timeout fires and asks for what comes after the last line shown.
Tick ==
  /\ \/ polling = "timer" /\ polling' = "fired" /\ UNCHANGED strays
     \/ strays > 0 /\ strays' = strays - 1 /\ UNCHANGED polling
  /\ Send("poll")
  /\ UNCHANGED <<serverVars, panelVars, clicks, lost>>

Asked(s, kinds) == calls[s].kind \in kinds /\ "reply" \notin DOMAIN calls[s]
Reply(s, reply) == calls' = [calls EXCEPT ![s] = [kind |-> @.kind, reply |-> reply]]

\* The handlers' answers; a start or a cancel answers with a snapshot of its own.
ServeRead(s) ==
  /\ Asked(s, {"status", "poll", "started", "cancelled"})
  /\ Reply(s, Snapshot(IF calls[s].kind = "poll" THEN calls[s].since ELSE 0))
  /\ UNCHANGED <<serverVars, panelVars, chainVars, clicks, lost>>

\* Refused for what it asks for (400), or because a job runs (409).
ServeStart(s) ==
  /\ Asked(s, {"start"})
  /\ \/ Starts /\ calls' = [calls EXCEPT ![s].kind = "started"]
     \/ Reply(s, Refused) /\ UNCHANGED serverVars
  /\ UNCHANGED <<panelVars, chainVars, clicks, lost>>

ServeCancel(s) ==
  /\ Asked(s, {"cancel"})
  /\ \/ Cancels /\ calls' = [calls EXCEPT ![s].kind = "cancelled"]
     \/ ~Running /\ Reply(s, Refused) /\ UNCHANGED serverVars
  /\ UNCHANGED <<panelVars, chainVars, clicks, lost>>

ServeDismiss(s) ==
  /\ Asked(s, {"dismiss"})
  /\ \/ Dismisses /\ Reply(s, [refused |-> FALSE])
     \/ Running /\ Reply(s, Refused) /\ UNCHANGED serverVars
  /\ UNCHANGED <<panelVars, chainVars, clicks, lost>>

-----------------------------------------------------------------------------
(* The page's handlers of what comes back.                                 *)

Answered(s, kinds) == calls[s].kind \in kinds /\ "reply" \in DOMAIN calls[s]
Arrived(s) == calls' = [calls EXCEPT ![s] = NoCall]

LinesFrom(job, first) == [n \in 1..(job.size - first) |-> <<job.id, first + n - 1>>]

\* A bug: every line that comes is printed.
EveryLine(job, shown) == LinesFrom(job, job.from)

\* The lines of a batch that are not on screen yet.
NewLines(job, shown) == LinesFrom(job, IF job.from < shown THEN shown ELSE job.from)

\* startPolling, on a page whose state.polling is `chain`.
StartPolling(chain) == IF chain = "null" THEN "timer" ELSE chain

\* applyJob(job), with state.polling already `chain`.
ApplyJob(job, chain) ==
  IF ~job.present
  THEN view' = "hidden" /\ polling' = "null" /\ UNCHANGED <<jobId, logShown, lines>>
  ELSE LET same  == job.id = jobId
           shown == IF same THEN logShown ELSE 0
       IN  /\ jobId' = job.id
           /\ view' = IF job.state # "running" THEN "ended"
                      ELSE IF job.cancelling THEN "cancelling" ELSE "running"
           /\ lines' = (IF same THEN lines ELSE <<>>) \o NewLines(job, shown)
           /\ logShown' = IF job.size > shown THEN job.size ELSE shown
           /\ polling' = IF job.state = "running" THEN StartPolling(chain) ELSE "null"

\* The poll's own answer: dropped when nothing is being polled any more;
\* otherwise a timeout that state.polling named meanwhile goes on unnamed.
PollAnswered(s) ==
  /\ Answered(s, {"poll"})
  /\ IF polling = "null"
     THEN UNCHANGED <<panelVars, chainVars>>
     ELSE /\ ApplyJob(calls[s].reply, "null")
          /\ strays' = strays + (IF polling = "timer" THEN 1 ELSE 0)
  /\ Arrived(s)
  /\ UNCHANGED <<serverVars, clicks, lost>>

\* The answer to a start, a cancel or the first load.
JobAnswered(s) ==
  /\ Answered(s, {"status", "started", "cancelled"})
  /\ ApplyJob(calls[s].reply, polling)
  /\ Arrived(s)
  /\ UNCHANGED <<serverVars, strays, clicks, lost>>

DismissAnswered(s) ==
  /\ Answered(s, {"dismiss"})
  /\ IF calls[s].reply.refused THEN UNCHANGED panelVars
     ELSE jobId' = 0 /\ logShown' = 0 /\ view' = "hidden" /\ lines' = <<>>
  /\ Arrived(s)
  /\ UNCHANGED <<serverVars, chainVars, clicks, lost>>

\* The page says so, and that is all.
RefusalArrives(s) ==
  /\ Answered(s, {"start", "cancel"})
  /\ Arrived(s)
  /\ UNCHANGED <<serverVars, panelVars, chainVars, clicks, lost>>

\* A bug: a poll that fails is the last.
NoRetry(chain) == chain

\* A poll that fails is tried again, unless nothing is being polled any more.
Retry(chain) == IF chain = "null" THEN chain ELSE "timer"

\* A call fails, before or after it was served; any but a poll is only reported.
Lose(s) ==
  /\ calls[s] # NoCall
  /\ lost < MaxLost
  /\ lost' = lost + 1
  /\ IF calls[s].kind = "poll"
     THEN polling' = Retry(polling) /\ strays' = strays + (IF polling = "timer" THEN 1 ELSE 0)
     ELSE UNCHANGED chainVars
  /\ Arrived(s)
  /\ UNCHANGED <<serverVars, panelVars, clicks>>

Serve(s) == ServeRead(s) \/ ServeStart(s) \/ ServeCancel(s) \/ ServeDismiss(s)
Receive(s) == PollAnswered(s) \/ JobAnswered(s) \/ DismissAnswered(s) \/ RefusalArrives(s)

Next ==
  \/ Logs \/ Finishes \/ Elsewhere
  \/ \E kind \in {"start", "cancel", "dismiss"} : Click(kind)
  \/ Reload \/ Tick
  \/ \E s \in Slots : Serve(s) \/ Receive(s) \/ Lose(s)

\* A job ends; timeouts fire, calls are served and answered.
Fairness ==
  /\ WF_vars(Finishes)
  /\ WF_vars(Tick)
  /\ \A s \in Slots : WF_vars(Serve(s)) /\ WF_vars(Receive(s))

Spec == Init /\ [][Next]_vars /\ Fairness

-----------------------------------------------------------------------------
(* Properties.                                                             *)

\* The log on screen is one job's, in the order it was written and no line
\* twice, whatever polls, loads, cancels and starts overlap and in whatever
\* order their answers arrive (index.html:2003-2005).
LogReadsInOrder ==
  /\ \A n \in DOMAIN lines : lines[n][1] = jobId
  /\ \A n \in DOMAIN lines \ {1} : lines[n - 1][2] < lines[n][2]

\* A panel that shows a job as running comes to show how it ended, or goes
\* away: no interleaving of its polls with cancels, starts, other pages and
\* failing calls leaves it with nothing in flight (index.html:2111-2134).
RunningPanelEnds == view \in {"running", "cancelling"} ~> view \in {"ended", "hidden"}

\* The log on screen has no gap.  The code does not keep it: a poll asks for
\* what comes after the last line shown, and is answered from there on by the
\* log of the job another client has started meanwhile.
LogHasNoGap == \A n \in DOMAIN lines : lines[n][2] = n - 1

\* What a call holds: the question, or the answer to it; only a snapshot answers
\* a load or a poll.
Snapshots == [refused : {FALSE}, present : BOOLEAN, id : 0..MaxJobs,
              state : {"idle", "running", "ended"}, cancelling : BOOLEAN,
              from : 0..MaxLines, size : 0..MaxLines]
Reads == {"status", "poll", "started", "cancelled"}
Orders == {"start", "cancel", "dismiss"}
CallIsTyped(c) ==
  \/ c = NoCall
  \/ \E kind \in Reads \cup Orders, since \in 0..MaxLines :
       c = [kind |-> kind, since |-> since]
  \/ \E kind \in Reads, reply \in Snapshots : c = [kind |-> kind, reply |-> reply]
  \/ \E kind \in Orders, reply \in {Refused, [refused |-> FALSE]} :
       c = [kind |-> kind, reply |-> reply]

TypeOK ==
  /\ present \in BOOLEAN /\ cancelling \in BOOLEAN
  /\ id \in 0..MaxJobs /\ jobId \in 0..MaxJobs
  /\ state \in {"idle", "running", "ended"}
  /\ logSize \in 0..MaxLines /\ logShown \in 0..MaxLines
  /\ view \in {"hidden", "running", "cancelling", "ended"}
  /\ polling \in {"null", "timer", "fired"} /\ strays \in Nat
  /\ lines \in Seq((0..MaxJobs) \X (0..MaxLines))
  /\ DOMAIN calls = Slots /\ \A s \in Slots : CallIsTyped(calls[s])
  /\ clicks \in 0..MaxClicks /\ lost \in 0..MaxLost
=============================================================================
