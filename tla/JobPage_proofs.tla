---------------------------- MODULE JobPage_proofs ---------------------------
(***************************************************************************)
(* Theorems about JobPage for every number of jobs, lines, calls in        *)
(* flight, clicks and lost calls.                                          *)
(***************************************************************************)
EXTENDS JobPage, SequenceTheorems, TLAPS

\* What is on screen comes before what is still to be shown, and is of the
\* page's job: what makes the filter of applyJob enough.
ShownIsBehind ==
  /\ \A n \in DOMAIN lines : lines[n][1] = jobId /\ lines[n][2] < logShown
  /\ \A n \in DOMAIN lines \ {1} : lines[n - 1][2] < lines[n][2]

IInv == TypeOK /\ ShownIsBehind

Line == (0..MaxJobs) \X (0..MaxLines)

-----------------------------------------------------------------------------
(* What the operators compute.                                             *)

\* The answer to a read is a snapshot.
LEMMA AnswerIsSnapshot ==
  ASSUME NEW c, CallIsTyped(c), c.kind \in Reads, "reply" \in DOMAIN c
  PROVE  c.reply \in Snapshots
<1>1. c # NoCall
  BY DEF NoCall, Reads
<1>2. ASSUME NEW kind, NEW since, c = [kind |-> kind, since |-> since]
      PROVE  FALSE
  BY <1>2
<1>3. ASSUME NEW kind \in Orders, NEW reply, c = [kind |-> kind, reply |-> reply]
      PROVE  FALSE
  BY <1>3 DEF Orders, Reads
<1> QED BY <1>1, <1>2, <1>3 DEF CallIsTyped

\* A question is answered in its slot, and stays a question otherwise.
LEMMA AskedIsTyped ==
  ASSUME NEW c, CallIsTyped(c), c.kind \in Reads \cup Orders, "reply" \notin DOMAIN c
  PROVE  \E kind \in Reads \cup Orders, since \in 0..MaxLines :
           c = [kind |-> kind, since |-> since]
<1>1. c # NoCall
  BY DEF NoCall, Reads, Orders
<1>2. ASSUME NEW kind, NEW reply, c = [kind |-> kind, reply |-> reply]
      PROVE  FALSE
  BY <1>2
<1> QED BY <1>1, <1>2 DEF CallIsTyped

\* The lines of a batch: consecutive, of its job, from the first on.
LEMMA LinesFromAre ==
  ASSUME PageAssumption, NEW job \in Snapshots, NEW first \in 0..MaxLines
  PROVE  /\ LinesFrom(job, first) \in Seq(Line)
         /\ Len(LinesFrom(job, first)) = IF first < job.size THEN job.size - first ELSE 0
         /\ \A n \in 1..Len(LinesFrom(job, first)) :
              LinesFrom(job, first)[n] = <<job.id, first + n - 1>>
<1> DEFINE m == IF first < job.size THEN job.size - first ELSE 0
<1>1. /\ job.size \in 0..MaxLines /\ job.id \in 0..MaxJobs /\ MaxLines \in Nat
      /\ first \in Nat /\ m \in Nat
  BY DEF Snapshots, PageAssumption
<1>2. 1..(job.size - first) = 1..m
  BY <1>1
<1>3. LinesFrom(job, first) = [n \in 1..m |-> <<job.id, first + n - 1>>]
  BY <1>2 DEF LinesFrom
<1>4. \A n \in 1..m : <<job.id, first + n - 1>> \in Line
  BY <1>1 DEF Line
<1>5. LinesFrom(job, first) \in [1..m -> Line]
  BY <1>3, <1>4
<1>6. LinesFrom(job, first) \in Seq(Line)
  BY <1>1, <1>5
<1>7. Len(LinesFrom(job, first)) = m
  BY <1>1, <1>5, <1>6, LenProperties
<1> QED BY <1>3, <1>6, <1>7

-----------------------------------------------------------------------------
(* applyJob prints nothing twice and nothing out of order, whatever job the *)
(* page has followed so far and however old the answer is.                 *)
LEMMA ApplyJobKeeps ==
  ASSUME PageAssumption, IInv, NEW job \in Snapshots, NEW chain \in {"null", "timer", "fired"},
         ApplyJob(job, chain), UNCHANGED <<serverVars, clicks, lost>>,
         strays' \in Nat,
         DOMAIN calls' = Slots, \A s \in Slots : CallIsTyped(calls[s])'
  PROVE  TypeOK' /\ ShownIsBehind'
<1> USE DEF IInv
<1>1. CASE ~job.present
  BY <1>1 DEF ApplyJob, TypeOK, ShownIsBehind, serverVars
<1>2. CASE job.present
  <2> DEFINE same  == job.id = jobId
             shown == IF same THEN logShown ELSE 0
             first == IF job.from < shown THEN shown ELSE job.from
             kept  == IF same THEN lines ELSE <<>>
             fresh == LinesFrom(job, first)
  <2>1. /\ jobId' = job.id /\ lines' = kept \o fresh
        /\ logShown' = IF job.size > shown THEN job.size ELSE shown
        /\ view' \in {"ended", "cancelling", "running"}
        /\ polling' \in {"null", "timer", "fired"}
    BY <1>2 DEF ApplyJob, NewLines, StartPolling
  <2>2. /\ job.id \in 0..MaxJobs /\ job.size \in 0..MaxLines /\ job.from \in 0..MaxLines
        /\ MaxLines \in Nat /\ shown \in 0..MaxLines /\ first \in 0..MaxLines
    BY DEF Snapshots, TypeOK, PageAssumption
  <2>3. /\ kept \in Seq(Line) /\ Len(kept) \in Nat
        /\ \A n \in 1..Len(kept) : kept[n][1] = job.id /\ kept[n][2] < shown
        /\ \A n \in 1..Len(kept) : n # 1 => kept[n - 1][2] < kept[n][2]
    <3>1. CASE same
      <4>1. lines \in Seq(Line) /\ DOMAIN lines = 1..Len(lines) /\ Len(lines) \in Nat
        BY DEF TypeOK, Line
      <4> QED BY <3>1, <4>1 DEF ShownIsBehind
    <3>2. CASE ~same
      BY <3>2, EmptySeq
    <3> QED BY <3>1, <3>2
  <2>4. /\ fresh \in Seq(Line) /\ Len(fresh) \in Nat
        /\ Len(fresh) = IF first < job.size THEN job.size - first ELSE 0
        /\ \A n \in 1..Len(fresh) : fresh[n] = <<job.id, first + n - 1>>
    BY <2>2, LinesFromAre, LenProperties
  <2> HIDE DEF same, shown, kept, fresh
  <2>5. /\ lines' \in Seq(Line) /\ DOMAIN lines' = 1..(Len(kept) + Len(fresh))
        /\ \A n \in 1..Len(kept) : lines'[n] = kept[n]
        /\ \A n \in 1..Len(fresh) : lines'[Len(kept) + n] = fresh[n]
    <3>1. /\ lines' \in Seq(Line) /\ Len(lines') = Len(kept) + Len(fresh)
          /\ \A n \in 1..(Len(kept) + Len(fresh)) :
               lines'[n] = IF n <= Len(kept) THEN kept[n] ELSE fresh[n - Len(kept)]
      BY <2>1, <2>3, <2>4, ConcatProperties
    <3>2. DOMAIN lines' = 1..(Len(kept) + Len(fresh))
      BY <3>1, LenProperties
    <3>3. ASSUME NEW n \in 1..Len(kept)
          PROVE  lines'[n] = kept[n]
      <4>1. n \in 1..(Len(kept) + Len(fresh)) /\ n <= Len(kept)
        BY <2>3, <2>4
      <4> QED BY <3>1, <4>1
    <3>4. ASSUME NEW n \in 1..Len(fresh)
          PROVE  lines'[Len(kept) + n] = fresh[n]
      <4>1. /\ Len(kept) + n \in 1..(Len(kept) + Len(fresh)) /\ ~(Len(kept) + n <= Len(kept))
            /\ (Len(kept) + n) - Len(kept) = n
        BY <2>3, <2>4
      <4> QED BY <3>1, <4>1
    <3> QED BY <3>1, <3>2, <3>3, <3>4
  <2>6. first >= shown /\ logShown' >= shown /\ logShown' >= job.size
    BY <2>1, <2>2
  <2>7. ASSUME NEW n \in DOMAIN lines'
        PROVE  /\ lines'[n][1] = job.id /\ lines'[n][2] < logShown'
               /\ n # 1 => lines'[n - 1][2] < lines'[n][2]
    <3>1. CASE n <= Len(kept)
      <4>1. n \in 1..Len(kept) /\ (n # 1 => n - 1 \in 1..Len(kept))
        BY <2>3, <2>5, <3>1
      <4>2. kept[n][2] \in Nat
        BY <2>3, <4>1, ElementOfSeq DEF Line
      <4>3. lines'[n] = kept[n] /\ (n # 1 => lines'[n - 1] = kept[n - 1])
        BY <2>5, <4>1
      <4>4. kept[n][1] = job.id /\ kept[n][2] < shown
            /\ (n # 1 => kept[n - 1][2] < kept[n][2])
        BY <2>3, <4>1
      <4>5. lines'[n][1] = job.id /\ (n # 1 => lines'[n - 1][2] < lines'[n][2])
        BY <4>3, <4>4
      <4>6. lines'[n][2] < logShown'
        <5>1. kept[n][2] < shown /\ shown <= logShown' /\ logShown' \in Int /\ shown \in Int
          BY <2>1, <2>2, <2>6, <4>4
        <5> DEFINE v == kept[n][2]
                   most == logShown'
        <5>2. v \in Int /\ v < shown /\ shown <= most /\ most \in Int /\ shown \in Int
          BY <4>2, <5>1
        <5> HIDE DEF v, most
        <5>3. v < most
          BY <5>2
        <5> QED BY <4>3, <5>3 DEF v, most
      <4> QED BY <4>5, <4>6
    <3>2. CASE n > Len(kept)
      <4> DEFINE m == n - Len(kept)
      <4>1. m \in 1..Len(fresh) /\ n = Len(kept) + m
        BY <2>3, <2>4, <2>5, <3>2
      <4>2. lines'[n] = <<job.id, first + m - 1>> /\ first + m - 1 < job.size
        <5> HIDE DEF m
        <5>1. lines'[n] = fresh[m]
          BY <2>5, <4>1
        <5>2. fresh[m] = <<job.id, first + m - 1>>
          BY <2>4, <4>1
        <5> DEFINE l == Len(fresh)
                   size == job.size
        <5>3. /\ l = (IF first < size THEN size - first ELSE 0)
              /\ m \in 1..l /\ first \in Nat /\ size \in Nat
          BY <2>2, <2>4, <4>1
        <5> HIDE DEF first, l, size
        <5>4. first + m - 1 < size
          BY <5>3
        <5> QED BY <5>1, <5>2, <5>4 DEF size
      <4>0. lines'[n][1] = job.id /\ lines'[n][2] = first + m - 1 /\ lines'[n][2] < logShown'
        <5> DEFINE v == first + m - 1
                   most == logShown'
        <5>1. lines'[n][1] = job.id /\ lines'[n][2] = v
          BY <4>2
        <5>2. v \in Int
          <6>1. first \in Int /\ m \in Int
            BY <2>2, <2>4, <4>1
          <6> HIDE DEF first, m
          <6> QED BY <6>1
        <5>3. v < job.size
          BY <4>2
        <5> HIDE DEF v
        <5>4. job.size <= most /\ job.size \in Int /\ most \in Int
          BY <2>1, <2>2, <2>6
        <5> HIDE DEF most
        <5>5. v < most
          BY <5>2, <5>3, <5>4
        <5> QED BY <5>1, <5>5 DEF v, most
      <4>3. CASE n = Len(kept) + 1
        <5>1. n # 1 => n - 1 \in 1..Len(kept) /\ lines'[n - 1] = kept[n - 1]
          BY <2>3, <2>5, <4>3
        <5>2. n # 1 => kept[n - 1][2] \in Nat /\ kept[n - 1][2] < shown
          <6>1. ASSUME NEW l \in 1..Len(kept)
                PROVE  kept[l][2] \in Nat /\ kept[l][2] < shown
            <7>1. kept[l] \in Line
              BY <2>3, ElementOfSeq
            <7> QED BY <2>3, <7>1 DEF Line
          <6> QED BY <5>1, <6>1
        <5>3. m = 1
          <6> DEFINE k == Len(kept)
          <6>1. k \in Nat /\ n = k + 1
            BY <2>3, <4>3
          <6> HIDE DEF k
          <6>2. n - k = 1
            BY <6>1
          <6> QED BY <6>2 DEF k
        <5> HIDE DEF m
        <5>4. lines'[n][2] = first
          <6> HIDE DEF first
          <6> QED BY <2>2, <4>0, <5>3
        <5>5. n # 1 => lines'[n - 1][2] < lines'[n][2]
          <6> HIDE DEF first, shown
          <6>1. first >= shown /\ first \in Int /\ shown \in Int
            BY <2>2, <2>6
          <6>2. n # 1 => kept[n - 1][2] < first
            <7> DEFINE v == kept[n - 1][2]
            <7>1. n # 1 => v \in Nat /\ v < shown
              BY <5>2
            <7> HIDE DEF v
            <7>2. n # 1 => v < first
              BY <6>1, <7>1
            <7> QED BY <7>2 DEF v
          <6> QED BY <5>1, <5>4, <6>2
        <5> QED BY <4>0, <5>5
      <4>4. CASE n > Len(kept) + 1
        <5>1. m - 1 \in 1..Len(fresh) /\ n - 1 = Len(kept) + (m - 1)
          <6> DEFINE k == Len(kept)
                     l == Len(fresh)
          <6>1. /\ k \in Nat /\ l \in Nat /\ m \in 1..l /\ n = k + m /\ n > k + 1
            BY <2>3, <2>4, <4>1, <4>4
          <6> HIDE DEF k, l, m
          <6>2. m - 1 \in 1..l /\ n - 1 = k + (m - 1)
            BY <6>1
          <6> QED BY <6>2 DEF k, l
        <5>2. lines'[n - 1] = <<job.id, first + (m - 1) - 1>>
          BY <2>4, <2>5, <5>1
        <5>3. lines'[n - 1][2] = first + (m - 1) - 1
          BY <5>2
        <5>4. m \in Int /\ first \in Int
          BY <2>2, <2>4, <4>1
        <5>5. first + (m - 1) - 1 < first + m - 1
          <6> HIDE DEF m, first
          <6> QED BY <5>4
        <5> QED BY <4>0, <5>3, <5>5
      <4> QED BY <2>3, <3>2, <4>3, <4>4, <2>5
    <3> QED BY <2>3, <2>5, <3>1, <3>2
  <2>8. ShownIsBehind'
    BY <2>1, <2>7 DEF ShownIsBehind
  <2>9. logShown' \in 0..MaxLines
    BY <2>1, <2>2
  <2> QED BY <2>1, <2>2, <2>5, <2>8, <2>9 DEF TypeOK, serverVars, Line
<1> QED BY <1>1, <1>2 DEF Snapshots

-----------------------------------------------------------------------------
(* The server, and what other pages do to it.                              *)

LEMMA OrdersKeepServer ==
  ASSUME PageAssumption, TypeOK, Starts \/ Cancels \/ Dismisses \/ UNCHANGED serverVars
  PROVE  /\ present' \in BOOLEAN /\ cancelling' \in BOOLEAN /\ id' \in 0..MaxJobs
         /\ state' \in {"idle", "running", "ended"} /\ logSize' \in 0..MaxLines
<1>1. CASE Starts
  <2>1. id' \in 0..MaxJobs /\ logSize' \in 0..MaxLines
    BY <1>1 DEF Starts, TypeOK, PageAssumption
  <2>2. present' = TRUE /\ cancelling' = FALSE /\ state' = "running"
    BY <1>1 DEF Starts
  <2> QED BY <2>1, <2>2
<1>2. CASE Cancels
  BY <1>2 DEF Cancels, TypeOK
<1>3. CASE Dismisses
  <2>1. id' \in 0..MaxJobs /\ logSize' \in 0..MaxLines
    BY <1>3 DEF Dismisses, TypeOK, PageAssumption
  <2>2. present' = FALSE
    BY <1>3 DEF Dismisses
  <2> QED BY <1>3, <2>1, <2>2 DEF Dismisses, TypeOK
<1>4. CASE UNCHANGED serverVars
  BY <1>4 DEF serverVars, TypeOK
<1> QED BY <1>1, <1>2, <1>3, <1>4

LEMMA ServerKeeps ==
  ASSUME PageAssumption, IInv, Logs \/ Finishes \/ Elsewhere
  PROVE  IInv'
<1>1. /\ present' \in BOOLEAN /\ cancelling' \in BOOLEAN /\ id' \in 0..MaxJobs
      /\ state' \in {"idle", "running", "ended"} /\ logSize' \in 0..MaxLines
  BY OrdersKeepServer DEF IInv, TypeOK, PageAssumption, Logs, Finishes, Elsewhere
<1>2. UNCHANGED <<panelVars, chainVars, calls, clicks, lost>>
  BY DEF Logs, Finishes, Elsewhere
<1>3. TypeOK'
  BY <1>1, <1>2 DEF IInv, TypeOK, panelVars, chainVars, CallIsTyped, Snapshots
<1>4. ShownIsBehind'
  BY <1>2 DEF IInv, ShownIsBehind, panelVars
<1> QED BY <1>3, <1>4 DEF IInv

-----------------------------------------------------------------------------
(* The page's calls go out.                                                *)

LEMMA FirstLoadIsTyped ==
  ASSUME PageAssumption
  PROVE  DOMAIN FirstLoad = Slots /\ \A s \in Slots : CallIsTyped(FirstLoad[s])
BY DEF FirstLoad, CallIsTyped, PageAssumption, Reads

LEMMA SendKeepsCalls ==
  ASSUME TypeOK, NEW kind \in Reads \cup Orders, Send(kind)
  PROVE  DOMAIN calls' = Slots /\ \A s \in Slots : CallIsTyped(calls'[s])
<1>1. PICK s \in Slots : calls' = [calls EXCEPT ![s] = [kind |-> kind, since |-> logShown]]
  BY DEF Send
<1>2. CallIsTyped([kind |-> kind, since |-> logShown])
  BY DEF TypeOK, CallIsTyped
<1> QED BY <1>1, <1>2 DEF TypeOK

LEMMA ClickKeeps ==
  ASSUME PageAssumption, IInv, NEW kind \in {"start", "cancel", "dismiss"}, Click(kind)
  PROVE  IInv'
<1>1. DOMAIN calls' = Slots /\ \A s \in Slots : CallIsTyped(calls'[s])
  BY SendKeepsCalls DEF Click, IInv, Orders
<1>2. clicks' \in 0..MaxClicks
  BY DEF Click, IInv, TypeOK, PageAssumption
<1>3. TypeOK'
  BY <1>1, <1>2 DEF Click, IInv, TypeOK, serverVars, panelVars, chainVars, CallIsTyped
<1>4. ShownIsBehind'
  BY DEF Click, IInv, ShownIsBehind, panelVars
<1> QED BY <1>3, <1>4 DEF IInv

LEMMA ReloadKeeps ==
  ASSUME PageAssumption, IInv, Reload
  PROVE  IInv'
<1>1. DOMAIN calls' = Slots /\ \A s \in Slots : CallIsTyped(calls'[s])
  BY FirstLoadIsTyped DEF Reload
<1>2. lines' = <<>> /\ lines' \in Seq(Line) /\ DOMAIN lines' = {}
  BY EmptySeq DEF Reload
<1>3. TypeOK'
  BY <1>1, <1>2 DEF Reload, IInv, TypeOK, PageAssumption, serverVars, CallIsTyped, Line
<1>4. ShownIsBehind'
  BY <1>2 DEF ShownIsBehind
<1> QED BY <1>3, <1>4 DEF IInv

LEMMA TickKeeps ==
  ASSUME PageAssumption, IInv, Tick
  PROVE  IInv'
<1>1. DOMAIN calls' = Slots /\ \A s \in Slots : CallIsTyped(calls'[s])
  BY SendKeepsCalls DEF Tick, IInv, Reads
<1>2. polling' \in {"null", "timer", "fired"} /\ strays' \in Nat
  BY DEF Tick, IInv, TypeOK
<1>3. TypeOK'
  BY <1>1, <1>2 DEF Tick, IInv, TypeOK, serverVars, panelVars, CallIsTyped
<1>4. ShownIsBehind'
  BY DEF Tick, IInv, ShownIsBehind, panelVars
<1> QED BY <1>3, <1>4 DEF IInv

-----------------------------------------------------------------------------
(* The server's answers.                                                   *)

\* Steps that leave the panel alone need to keep the calls and the server typed.
LEMMA QuietKeeps ==
  ASSUME PageAssumption, IInv, UNCHANGED <<panelVars, clicks>>,
         present' \in BOOLEAN, cancelling' \in BOOLEAN, id' \in 0..MaxJobs,
         state' \in {"idle", "running", "ended"}, logSize' \in 0..MaxLines,
         polling' \in {"null", "timer", "fired"}, strays' \in Nat, lost' \in 0..MaxLost,
         NEW s \in Slots, NEW c, CallIsTyped(c), calls' = [calls EXCEPT ![s] = c]
  PROVE  IInv'
<1>1. DOMAIN calls' = Slots /\ \A t \in Slots : CallIsTyped(calls'[t])
  BY DEF IInv, TypeOK
<1>2. TypeOK'
  BY <1>1 DEF IInv, TypeOK, panelVars, CallIsTyped
<1>3. ShownIsBehind'
  BY DEF IInv, ShownIsBehind, panelVars
<1> QED BY <1>2, <1>3 DEF IInv

LEMMA ServeKeeps ==
  ASSUME PageAssumption, IInv, NEW s \in Slots, Serve(s)
  PROVE  IInv'
<1>1. TypeOK /\ CallIsTyped(calls[s])
  BY DEF IInv, TypeOK
<1>2. PICK kind \in Reads \cup Orders, since \in 0..MaxLines :
        calls[s] = [kind |-> kind, since |-> since]
  BY <1>1, AskedIsTyped DEF Serve, ServeRead, ServeStart, ServeCancel, ServeDismiss, Asked,
                            Reads, Orders
<1>3. /\ present' \in BOOLEAN /\ cancelling' \in BOOLEAN /\ id' \in 0..MaxJobs
      /\ state' \in {"idle", "running", "ended"} /\ logSize' \in 0..MaxLines
  BY <1>1, OrdersKeepServer DEF Serve, ServeRead, ServeStart, ServeCancel, ServeDismiss
<1>4. /\ polling' \in {"null", "timer", "fired"} /\ strays' \in Nat /\ lost' \in 0..MaxLost
      /\ UNCHANGED <<panelVars, clicks>>
  BY <1>1 DEF TypeOK, Serve, ServeRead, ServeStart, ServeCancel, ServeDismiss, chainVars
<1>5. \E c : CallIsTyped(c) /\ calls' = [calls EXCEPT ![s] = c]
  <2>1. CASE ServeRead(s)
    <3> DEFINE since2 == IF calls[s].kind = "poll" THEN calls[s].since ELSE 0
               c == [kind |-> kind, reply |-> Snapshot(since2)]
    <3>1. since2 \in 0..MaxLines
      BY <1>2 DEF PageAssumption
    <3>2. Snapshot(since2) \in Snapshots
      BY <1>1, <3>1 DEF Snapshot, Snapshots, TypeOK
    <3>3. kind \in Reads
      BY <1>2, <2>1 DEF ServeRead, Asked, Reads
    <3>4. calls' = [calls EXCEPT ![s] = c]
      BY <1>1, <1>2, <2>1 DEF ServeRead, Reply
    <3>5. CallIsTyped(c)
      BY <3>2, <3>3 DEF CallIsTyped
    <3> QED BY <3>4, <3>5
  <2>2. ASSUME kind \in Orders, NEW reply \in {Refused, [refused |-> FALSE]}, Reply(s, reply)
        PROVE  \E c : CallIsTyped(c) /\ calls' = [calls EXCEPT ![s] = c]
    <3>1. calls' = [calls EXCEPT ![s] = [kind |-> kind, reply |-> reply]]
      BY <1>2, <2>2 DEF Reply
    <3>2. CallIsTyped([kind |-> kind, reply |-> reply])
      BY <2>2 DEF CallIsTyped
    <3> QED BY <3>1, <3>2
  <2>3. ASSUME NEW to \in Reads, calls' = [calls EXCEPT ![s].kind = to]
        PROVE  \E c : CallIsTyped(c) /\ calls' = [calls EXCEPT ![s] = c]
    <3> DEFINE d == [kind |-> kind, since |-> since]
    <3>1. calls' = [calls EXCEPT ![s] = [d EXCEPT !.kind = to]]
      BY <1>1, <1>2, <2>3 DEF TypeOK
    <3>2. [d EXCEPT !.kind = to] = [kind |-> to, since |-> since]
      OBVIOUS
    <3>3. calls' = [calls EXCEPT ![s] = [kind |-> to, since |-> since]]
      BY <3>1, <3>2
    <3>4. CallIsTyped([kind |-> to, since |-> since])
      BY DEF CallIsTyped
    <3> QED BY <3>3, <3>4
  <2>4. CASE ServeStart(s)
    BY <1>2, <2>2, <2>3, <2>4 DEF ServeStart, Asked, Orders, Reads
  <2>5. CASE ServeCancel(s)
    BY <1>2, <2>2, <2>3, <2>5 DEF ServeCancel, Asked, Orders, Reads
  <2>6. CASE ServeDismiss(s)
    BY <1>2, <2>2, <2>6 DEF ServeDismiss, Asked, Orders
  <2> QED BY <2>1, <2>4, <2>5, <2>6 DEF Serve
<1> QED BY <1>3, <1>4, <1>5, QuietKeeps

-----------------------------------------------------------------------------
(* The page's handlers.                                                    *)

LEMMA ArrivedKeepsCalls ==
  ASSUME TypeOK, NEW s \in Slots, Arrived(s)
  PROVE  DOMAIN calls' = Slots /\ \A t \in Slots : CallIsTyped(calls'[t])
BY DEF TypeOK, Arrived, CallIsTyped

LEMMA ReceiveKeeps ==
  ASSUME PageAssumption, IInv, NEW s \in Slots, Receive(s)
  PROVE  IInv'
<1>1. TypeOK /\ CallIsTyped(calls[s])
  BY DEF IInv, TypeOK
<1>2. DOMAIN calls' = Slots /\ \A t \in Slots : CallIsTyped(calls[t])'
  <2>1. Arrived(s)
    BY DEF Receive, PollAnswered, JobAnswered, DismissAnswered, RefusalArrives
  <2> QED BY <1>1, <2>1, ArrivedKeepsCalls DEF CallIsTyped
<1>3. UNCHANGED panelVars /\ polling' \in {"null", "timer", "fired"} /\ strays' \in Nat
        /\ UNCHANGED <<serverVars, clicks, lost>> => IInv'
  BY <1>1, <1>2 DEF IInv, TypeOK, ShownIsBehind, panelVars, serverVars
<1>4. CASE PollAnswered(s)
  <2>1. CASE polling = "null"
    BY <1>1, <1>3, <1>4, <2>1 DEF PollAnswered, chainVars, TypeOK
  <2>2. CASE polling # "null"
    <3>1. calls[s].reply \in Snapshots
      BY <1>1, <1>4, AnswerIsSnapshot DEF PollAnswered, Answered, Reads
    <3>2. strays' \in Nat
      BY <1>1, <1>4, <2>2 DEF PollAnswered, TypeOK
    <3> QED BY <1>2, <1>4, <2>2, <3>1, <3>2, ApplyJobKeeps DEF PollAnswered, IInv
  <2> QED BY <2>1, <2>2
<1>5. CASE JobAnswered(s)
  <2>1. calls[s].reply \in Snapshots
    BY <1>1, <1>5, AnswerIsSnapshot DEF JobAnswered, Answered, Reads
  <2>2. strays' \in Nat /\ polling \in {"null", "timer", "fired"}
    BY <1>1, <1>5 DEF JobAnswered, TypeOK
  <2> QED BY <1>2, <1>5, <2>1, <2>2, ApplyJobKeeps DEF JobAnswered, IInv
<1>6. CASE DismissAnswered(s)
  <2>1. CASE UNCHANGED panelVars
    BY <1>1, <1>3, <1>6, <2>1 DEF DismissAnswered, chainVars, TypeOK
  <2>2. CASE jobId' = 0 /\ logShown' = 0 /\ view' = "hidden" /\ lines' = <<>>
    <3>1. lines' \in Seq(Line) /\ DOMAIN lines' = {}
      BY <2>2, EmptySeq
    <3>2. TypeOK'
      BY <1>1, <1>2, <1>6, <2>2, <3>1
      DEF DismissAnswered, TypeOK, chainVars, serverVars, Line, PageAssumption
    <3> QED BY <3>1, <3>2 DEF IInv, ShownIsBehind
  <2> QED BY <1>6, <2>1, <2>2 DEF DismissAnswered
<1>7. CASE RefusalArrives(s)
  BY <1>1, <1>3, <1>7 DEF RefusalArrives, chainVars, TypeOK
<1> QED BY <1>4, <1>5, <1>6, <1>7 DEF Receive

LEMMA LoseKeeps ==
  ASSUME PageAssumption, IInv, NEW s \in Slots, Lose(s)
  PROVE  IInv'
<1>1. /\ polling' \in {"null", "timer", "fired"} /\ strays' \in Nat /\ lost' \in 0..MaxLost
  <2>1. lost' \in 0..MaxLost
    BY DEF Lose, IInv, TypeOK, PageAssumption
  <2>2. polling' \in {"null", "timer", "fired"} /\ strays' \in Nat
    BY DEF Lose, IInv, TypeOK, Retry, chainVars
  <2> QED BY <2>1, <2>2
<1>2. /\ present' \in BOOLEAN /\ cancelling' \in BOOLEAN /\ id' \in 0..MaxJobs
      /\ state' \in {"idle", "running", "ended"} /\ logSize' \in 0..MaxLines
  BY DEF Lose, IInv, TypeOK, serverVars
<1>3. CallIsTyped(NoCall) /\ calls' = [calls EXCEPT ![s] = NoCall]
  BY DEF CallIsTyped, Lose, Arrived
<1> QED BY <1>1, <1>2, <1>3, QuietKeeps DEF Lose

-----------------------------------------------------------------------------
(* The theorems.                                                           *)

LEMMA InitHolds ==
  ASSUME PageAssumption, Init
  PROVE  IInv
<1>1. lines \in Seq(Line) /\ DOMAIN lines = {}
  BY EmptySeq DEF Init
<1>2. DOMAIN calls = Slots /\ \A s \in Slots : CallIsTyped(calls[s])
  <2>1. calls = FirstLoad
    BY DEF Init
  <2> QED BY <2>1, FirstLoadIsTyped
<1>3. TypeOK
  <2>1. /\ id \in 0..MaxJobs /\ jobId \in 0..MaxJobs /\ logSize \in 0..MaxLines
        /\ logShown \in 0..MaxLines /\ strays \in Nat
        /\ clicks \in 0..MaxClicks /\ lost \in 0..MaxLost
    BY DEF Init, PageAssumption
  <2>2. present = FALSE /\ cancelling = FALSE
    BY DEF Init
  <2>3. state = "idle" /\ view = "hidden" /\ polling = "null"
    BY DEF Init
  <2> QED BY <1>1, <1>2, <2>1, <2>2, <2>3 DEF TypeOK, Line
<1> QED BY <1>1, <1>3 DEF IInv, ShownIsBehind

\* Everything holds at every moment of every page's life.
LEMMA Invariant == Spec => []IInv
<1>1. Init => IInv
  BY PageAssumption, InitHolds
<1>2. IInv /\ [Next]_vars => IInv'
  <2> SUFFICES ASSUME IInv, [Next]_vars
               PROVE  IInv'
    OBVIOUS
  <2>1. CASE UNCHANGED vars
    BY <2>1 DEF vars, serverVars, panelVars, chainVars, IInv, TypeOK, ShownIsBehind,
                CallIsTyped
  <2>2. CASE Next
    BY <2>2, PageAssumption, ServerKeeps, ClickKeeps, ReloadKeeps, TickKeeps, ServeKeeps,
       ReceiveKeeps, LoseKeeps DEF Next
  <2> QED BY <2>1, <2>2
<1> QED BY <1>1, <1>2, PTL DEF Spec

\* Every variable keeps its type, for any number of jobs, lines and calls.
THEOREM TypeCorrect == Spec => []TypeOK
<1>1. IInv => TypeOK
  BY DEF IInv
<1> QED BY <1>1, Invariant, PTL

\* The log on the page is one job's, in order and without repetition, for any
\* number of calls in flight, answered or lost in any order (applyJob).
THEOREM LogsReadInOrder == Spec => []LogReadsInOrder
<1>1. IInv => LogReadsInOrder
  BY DEF IInv, ShownIsBehind, LogReadsInOrder
<1> QED BY <1>1, Invariant, PTL
=============================================================================
