--------------------------- MODULE LlmClientProofs ---------------------------
(***************************************************************************)
(* Proofs about LlmClient, for any number of callers and any interval,     *)
(* backoff, retry count and hints: its types, the spacing of the request   *)
(* slots, the respect for a Retry-After in seconds, the bound on a wait,    *)
(* that every step is one of Completer or none, and how many requests,     *)
(* steps and units of time a call takes at most.                           *)
(***************************************************************************)
EXTENDS LlmClient, FiniteSetTheorems, WellFoundedInduction, TLAPS

-----------------------------------------------------------------------------
(* The inductive invariant.                                                *)

\* A caller backs off only while it has retries left.
TriesInv == \A c \in Callers : pc[c] = "backoff" => TriesLeft(c)

\* A caller that was told to stay away sleeps at least that long.
HoldInv == \A c \in Callers : hold[c] > 0 => pc[c] = "backoff" /\ hold[c] =< left[c]

\* A call that began after the cancellation gets no further than the head of
\* the loop.
LiveInv == \A c \in Callers : pc[c] # "idle" /\ ~live[c] => ctxDone /\ pc[c] = "loop"

\* A call has sent one request for each attempt, and maybe that of this one.
RequestsInv ==
  \A c \in Callers :
    requests[c] =< IF pc[c] \in {"idle", "sent", "backoff"} THEN attempt[c] + 1 ELSE attempt[c]

IInv == TypeOK /\ TriesInv /\ HoldInv /\ LiveInv /\ RequestsInv /\ SlotsSpaced

-----------------------------------------------------------------------------
(* Lemmas about the arithmetic of the client.                              *)

\* A backoff is a time of maxBackoff at most, and no shorter than the seconds
\* of the header, up to maxBackoff.
LEMMA PauseType ==
  ASSUME TypeOK, NEW c \in Callers, NEW h \in Headers, NEW hint \in Understood(h)
  PROVE  /\ Pause(c, hint) \in Nat /\ Pause(c, hint) =< MaxBackoff
         /\ Least(h.ticks, MaxBackoff) \in Nat
         /\ Least(h.ticks, MaxBackoff) =< Pause(c, hint)
<1>1. h.ticks \in Nat /\ hint \in Nat /\ delay[c] \in Nat /\ MaxBackoff \in Nat
  BY ClientAssumption DEF TypeOK, Headers, Understood
<1>2. h.ticks = 0 \/ hint = h.ticks
  BY DEF Headers, Understood
<1>. QED
  BY <1>1, <1>2 DEF Pause, Least, Most

\* The sleep that a failed attempt with retries left brings.
LEMMA RetrySleeps ==
  ASSUME TypeOK, NEW c \in Callers, NEW h \in Headers, Retry(c, h), TriesLeft(c)
  PROVE  \E pause \in Nat : /\ left' = [left EXCEPT ![c] = pause]
                            /\ pause =< MaxBackoff
                            /\ Least(h.ticks, MaxBackoff) \in Nat
                            /\ Least(h.ticks, MaxBackoff) =< pause
<1>1. PICK hint \in Understood(h) : left' = [left EXCEPT ![c] = Pause(c, hint)]
  BY DEF Retry
<1>. QED
  BY <1>1, PauseType

\* Intervals and delays are numbers.
LEMMA DelayType ==
  ASSUME TypeOK, NEW c \in Callers
  PROVE  /\ Most(Interval, Second) \in Nat
         /\ NextDelay(c) \in Nat
BY ClientAssumption DEF TypeOK, NextDelay, Least, Most

\* What a failed attempt goes by is a header.
LEMMA HintType == NoHeader \in Headers /\ \A r \in Replies : Hint(r) \in Headers
BY DEF Replies, Hint, NoHeader, Headers

\* A reply is judged in one of three ways.
LEMMA JudgeType == \A r \in Replies : Judge(r) \in {"value", "overload", "error"}
BY DEF Judge

-----------------------------------------------------------------------------
(* Types.                                                                  *)

\* The return of a call keeps the types.
LEMMA ReturnType ==
  ASSUME TypeOK, NEW c \in Callers, NEW v \in {"value", "overload", "error"}, Return(c, v)
  PROVE  TypeOK'
BY DEF TypeOK, Return

\* So does the decision to try again.
LEMMA RetryType ==
  ASSUME TypeOK, NEW c \in Callers, NEW h \in Headers, Retry(c, h)
  PROVE  TypeOK'
<1>1. CASE TriesLeft(c)
  <2>1. /\ \E pause \in Nat : left' = [left EXCEPT ![c] = pause]
        /\ Least(h.ticks, MaxBackoff) \in Nat
    BY <1>1, RetrySleeps
  <2>. QED
    BY <1>1, <2>1 DEF TypeOK, Retry, callVars
<1>2. CASE ~TriesLeft(c)
  BY <1>2, ReturnType DEF Retry
<1>. QED
  BY <1>1, <1>2

\* The types hold at the start.
LEMMA TypeInit == Init => TypeOK
<1>. SUFFICES ASSUME Init PROVE TypeOK
  OBVIOUS
<1>1. Most(Interval, Second) \in Nat /\ 0 \in 0..MaxRetries
  BY ClientAssumption DEF Most
<1>2. ctxDone \in BOOLEAN /\ live \in [Callers -> BOOLEAN]
  BY Zenon DEF Init
<1>. QED
  BY <1>1, <1>2 DEF Init, TypeOK

\* Every step keeps the types.
LEMMA TypeStep == TypeOK /\ TriesInv /\ [Next]_vars => TypeOK'
<1>. SUFFICES ASSUME TypeOK, TriesInv, [Next]_vars PROVE TypeOK'
  OBVIOUS
<1>1. CASE Cancel
  BY <1>1 DEF TypeOK, Cancel, callVars
<1>2. CASE Tick
  BY <1>2 DEF TypeOK, Tick, Elapsed, callVars
<1>3. ASSUME NEW c \in Callers, Begin(c) PROVE TypeOK'
  <2>1. live' \in [Callers -> BOOLEAN]
    BY <1>3, Zenon DEF TypeOK, Begin
  <2>2. 0 \in 0..MaxRetries
    BY ClientAssumption
  <2>. QED
    BY <1>3, <2>1, <2>2, DelayType DEF TypeOK, Begin
<1>4. ASSUME NEW c \in Callers, Run(c) PROVE TypeOK'
  <2>1. CASE CheckContext(c)
    BY <2>1, ReturnType DEF TypeOK, CheckContext, callVars
  <2>2. CASE Claim(c)
    BY <2>2, ClientAssumption DEF TypeOK, Claim, SlotAfter, callVars
  <2>3. CASE PassGate(c) \/ Send(c)
    BY <2>3 DEF TypeOK, PassGate, Send, callVars
  <2>4. CASE LeaveGate(c) \/ LeaveBackoff(c)
    BY <2>4, ReturnType DEF LeaveGate, LeaveBackoff
  <2>5. CASE Abort(c)
    BY <2>5, RetryType, HintType DEF Abort
  <2>6. CASE Resume(c)
    <3>1. attempt[c] + 1 \in 0..MaxRetries
      BY <2>6, ClientAssumption DEF TypeOK, Resume, TriesInv, TriesLeft
    <3>. QED
      BY <2>6, <3>1, DelayType DEF TypeOK, Resume, NextAttempt
  <2>. QED
    BY <1>4, <2>1, <2>2, <2>3, <2>4, <2>5, <2>6 DEF Run
<1>5. ASSUME NEW c \in Callers, Served(c) PROVE TypeOK'
  BY <1>5, RetryType, ReturnType, HintType, JudgeType DEF Served, NetworkError, Reply
<1>6. CASE UNCHANGED vars
  BY <1>6 DEF TypeOK, vars, callVars
<1>. QED
  BY <1>1, <1>2, <1>3, <1>4, <1>5, <1>6 DEF Next

-----------------------------------------------------------------------------
(* The rest of the invariant.  Few actions touch what a part is about: the *)
(* lemmas say what the others have in common.                              *)

\* Every step keeps the retries, the hints and the calls made too late in order.
LEMMA OthersInv ==
  ASSUME IInv, TypeOK', [Next]_vars
  PROVE  TriesInv' /\ HoldInv' /\ LiveInv'
<1>1. CASE Cancel
  BY <1>1 DEF IInv, TriesInv, HoldInv, LiveInv, TriesLeft, Cancel, callVars
<1>2. CASE Tick
  BY <1>2 DEF IInv, TypeOK, TriesInv, HoldInv, LiveInv, TriesLeft, Tick, Elapsed, callVars
<1>3. ASSUME NEW c \in Callers, Begin(c) PROVE TriesInv' /\ HoldInv' /\ LiveInv'
  <2>1. TriesInv'
    BY <1>3 DEF IInv, TypeOK, TriesInv, TriesLeft, Begin
  <2>2. HoldInv'
    BY <1>3 DEF IInv, TypeOK, HoldInv, Begin
  <2>3. LiveInv'
    <3>. SUFFICES ASSUME NEW d \in Callers, pc'[d] # "idle", ~live'[d]
                  PROVE  ctxDone' /\ pc'[d] = "loop"
      BY DEF LiveInv
    <3>1. CASE d = c
      <4>1. live'[c] = ~ctxDone
        BY <1>3 DEF IInv, TypeOK, Begin
      <4>2. ctxDone
        BY <3>1, <4>1, Zenon
      <4>3. pc'[c] = "loop" /\ ctxDone' = ctxDone
        BY <1>3 DEF IInv, TypeOK, Begin
      <4>. QED
        BY <3>1, <4>2, <4>3, Zenon
    <3>2. CASE d # c
      BY <1>3, <3>2 DEF IInv, TypeOK, LiveInv, Begin
    <3>. QED
      BY <3>1, <3>2
  <2>. QED
    BY <2>1, <2>2, <2>3
<1>4. ASSUME NEW c \in Callers, NEW v, Return(c, v) PROVE TriesInv' /\ HoldInv' /\ LiveInv'
  BY <1>4 DEF IInv, TypeOK, TriesInv, HoldInv, LiveInv, TriesLeft, Return
<1>5. ASSUME NEW c \in Callers, NEW h \in Headers, Retry(c, h), pc[c] \in {"post", "sent"}
      PROVE  TriesInv' /\ HoldInv' /\ LiveInv'
  <2>1. CASE TriesLeft(c)
    <3>1. PICK pause \in Nat : /\ left' = [left EXCEPT ![c] = pause]
                                /\ Least(h.ticks, MaxBackoff) =< pause
      BY <1>5, <2>1, RetrySleeps DEF IInv
    <3>. QED
      BY <1>5, <2>1, <3>1 DEF IInv, TypeOK, TriesInv, HoldInv, LiveInv, TriesLeft, Retry,
                              callVars
  <2>2. CASE ~TriesLeft(c)
    BY <1>4, <1>5, <2>2 DEF Retry
  <2>. QED
    BY <2>1, <2>2
<1>6. ASSUME NEW c \in Callers, Run(c) PROVE TriesInv' /\ HoldInv' /\ LiveInv'
  <2>1. CASE CheckContext(c)
    BY <1>4, <2>1 DEF IInv, TypeOK, TriesInv, HoldInv, LiveInv, TriesLeft, CheckContext, callVars
  <2>2. CASE Claim(c)
    BY <2>2 DEF IInv, TypeOK, TriesInv, HoldInv, LiveInv, TriesLeft, Claim, callVars
  <2>3. CASE PassGate(c) \/ Send(c)
    BY <2>3 DEF IInv, TypeOK, TriesInv, HoldInv, LiveInv, TriesLeft, PassGate, Send, callVars
  <2>4. CASE LeaveGate(c) \/ LeaveBackoff(c)
    BY <1>4, <2>4 DEF LeaveGate, LeaveBackoff
  <2>5. CASE Abort(c)
    BY <1>5, <2>5, HintType DEF Abort
  <2>6. CASE Resume(c)
    BY <2>6 DEF IInv, TypeOK, TriesInv, HoldInv, LiveInv, TriesLeft, Resume
  <2>. QED
    BY <1>6, <2>1, <2>2, <2>3, <2>4, <2>5, <2>6 DEF Run
<1>7. ASSUME NEW c \in Callers, Served(c) PROVE TriesInv' /\ HoldInv' /\ LiveInv'
  BY <1>4, <1>5, <1>7, HintType DEF Served, NetworkError, Reply
<1>8. CASE UNCHANGED vars
  BY <1>8 DEF IInv, TriesInv, HoldInv, LiveInv, TriesLeft, vars, callVars
<1>. QED
  BY <1>1, <1>2, <1>3, <1>6, <1>7, <1>8 DEF Next

\* A call sends once for each attempt.
LEMMA RequestsStep ==
  ASSUME IInv, TypeOK', [Next]_vars
  PROVE  RequestsInv'
<1>1. CASE Cancel \/ Tick \/ UNCHANGED vars
  BY <1>1 DEF IInv, RequestsInv, Cancel, Tick, vars, callVars
<1>2. ASSUME NEW c \in Callers, NEW v, Return(c, v) PROVE RequestsInv'
  BY <1>2 DEF IInv, TypeOK, RequestsInv, Return
<1>3. ASSUME NEW c \in Callers, NEW h, Retry(c, h) PROVE RequestsInv'
  BY <1>2, <1>3 DEF IInv, TypeOK, RequestsInv, Retry, callVars
<1>4. ASSUME NEW c \in Callers, Begin(c) PROVE RequestsInv'
  BY <1>4 DEF IInv, TypeOK, RequestsInv, Begin
<1>5. ASSUME NEW c \in Callers, Run(c) PROVE RequestsInv'
  <2>1. CASE CheckContext(c)
    BY <1>2, <2>1 DEF IInv, TypeOK, RequestsInv, CheckContext, callVars
  <2>2. CASE Claim(c) \/ PassGate(c)
    BY <2>2 DEF IInv, TypeOK, RequestsInv, Claim, PassGate, callVars
  <2>3. CASE Send(c)
    BY <2>3 DEF IInv, TypeOK, RequestsInv, Send
  <2>4. CASE Resume(c)
    BY <2>4 DEF IInv, TypeOK, RequestsInv, Resume, NextAttempt
  <2>5. CASE LeaveGate(c) \/ LeaveBackoff(c) \/ Abort(c)
    BY <1>2, <1>3, <2>5 DEF LeaveGate, LeaveBackoff, Abort
  <2> QED
    BY <1>5, <2>1, <2>2, <2>3, <2>4, <2>5 DEF Run
<1>6. ASSUME NEW c \in Callers, Served(c) PROVE RequestsInv'
  BY <1>2, <1>3, <1>6 DEF Served, NetworkError, Reply
<1> QED
  BY <1>1, <1>4, <1>5, <1>6 DEF Next

\* A step in which the last slot stays, no slot still to come moves, and
\* nobody joins the queue keeps the slots apart.
LEMMA QueueShrinks ==
  ASSUME SlotsSpaced, gate' = gate, Queue' \subseteq Queue,
         \A c \in Queue' : left'[c] = left[c]
  PROVE  SlotsSpaced'
BY DEF SlotsSpaced

\* Every step keeps the slots apart.
LEMMA SlotsStep ==
  ASSUME IInv, [Next]_vars
  PROVE  SlotsSpaced'
<1>1. CASE Cancel
  BY <1>1, QueueShrinks DEF IInv, Cancel, Queue, callVars
<1>2. CASE Tick
  BY <1>2, ClientAssumption DEF IInv, TypeOK, SlotsSpaced, Queue, Tick, Elapsed, callVars
<1>3. ASSUME NEW c \in Callers, Return(c, "error") \/ Return(c, "value") \/ Return(c, "overload")
      PROVE  SlotsSpaced'
  BY <1>3, QueueShrinks DEF IInv, TypeOK, Return, Queue
<1>4. ASSUME NEW c \in Callers, NEW h, Retry(c, h) PROVE SlotsSpaced'
  BY <1>3, <1>4, QueueShrinks DEF IInv, TypeOK, Retry, Queue, callVars
<1>5. ASSUME NEW c \in Callers, Claim(c) PROVE SlotsSpaced'
  BY <1>5, ClientAssumption DEF IInv, TypeOK, SlotsSpaced, Queue, Claim, SlotAfter, callVars
<1>6. ASSUME NEW c \in Callers, Begin(c) \/ PassGate(c) \/ Send(c) \/ Resume(c)
      PROVE  SlotsSpaced'
  BY <1>6, QueueShrinks DEF IInv, TypeOK, Begin, PassGate, Send, Resume, Queue, callVars
<1>7. ASSUME NEW c \in Callers, CheckContext(c) PROVE SlotsSpaced'
  BY <1>3, <1>7, QueueShrinks DEF IInv, TypeOK, CheckContext, Queue, callVars
<1>8. ASSUME NEW c \in Callers, LeaveGate(c) \/ LeaveBackoff(c) \/ Abort(c)
      PROVE  SlotsSpaced'
  BY <1>3, <1>4, <1>8 DEF LeaveGate, LeaveBackoff, Abort
<1>9. ASSUME NEW c \in Callers, Served(c) PROVE SlotsSpaced'
  BY <1>3, <1>4, <1>9, HintType, JudgeType DEF Served, NetworkError, Reply
<1>10. CASE UNCHANGED vars
  BY <1>10, QueueShrinks DEF IInv, Queue, vars, callVars
<1>. QED
  BY <1>1, <1>2, <1>5, <1>6, <1>7, <1>8, <1>9, <1>10 DEF Next, Run

\* The invariant holds of every behaviour.
LEMMA Inductive == Spec => []IInv
<1>1. Init => IInv
  <2>. SUFFICES ASSUME Init PROVE IInv
    OBVIOUS
  <2>1. TypeOK
    BY TypeInit
  <2>. QED
    BY <2>1, ClientAssumption
       DEF Init, IInv, TriesInv, HoldInv, LiveInv, RequestsInv, SlotsSpaced, Queue
<1>2. IInv /\ [Next]_vars => IInv'
  <2>. SUFFICES ASSUME IInv, [Next]_vars PROVE IInv'
    OBVIOUS
  <2>1. TypeOK'
    BY TypeStep DEF IInv
  <2>. QED
    BY <2>1, OthersInv, RequestsStep, SlotsStep DEF IInv
<1>. QED
  BY <1>1, <1>2, PTL DEF Spec

-----------------------------------------------------------------------------
(* The length of the queue.                                                *)

\* While the run goes on the slots still to come follow each other without a
\* gap, from one that is at most an interval away.
Compact ==
  ~ctxDone =>
    /\ gate =< Interval \/ \E d \in Queue : gate = left[d] + Interval
    /\ \A c \in Queue : left[c] =< Interval \/ \E d \in Queue : left[c] = left[d] + Interval

\* A step that leaves the queue alone leaves it without gaps.
LEMMA QueueStays ==
  ASSUME Compact, gate' = gate, ctxDone' = ctxDone, Queue' = Queue,
         \A c \in Queue : left'[c] = left[c]
  PROVE  Compact'
BY DEF Compact

\* Every step keeps the queue without gaps.
LEMMA CompactStep ==
  ASSUME IInv, Compact, [Next]_vars
  PROVE  Compact'
<1>1. CASE ctxDone'
  BY <1>1 DEF Compact
<1>2. CASE Tick
  <2>1. ASSUME ~ctxDone PROVE Compact'
    <3>1. /\ gate \in Nat /\ gate' = IF gate > 0 THEN gate - 1 ELSE 0
          /\ \A c \in Callers : left[c] \in Nat /\ left'[c] = IF left[c] > 0 THEN left[c] - 1 ELSE 0
          /\ Queue' = {c \in Callers : pc[c] = "gate" /\ left'[c] > 0}
      BY <1>2 DEF IInv, TypeOK, Tick, Elapsed, Queue, callVars
    <3>2. ASSUME NEW n \in Nat, n > 0, n =< Interval \/ \E d \in Queue : n = left[d] + Interval
          PROVE  n - 1 =< Interval \/ \E d \in Queue' : n - 1 = left'[d] + Interval
      <4>1. CASE n =< Interval
        BY <4>1, ClientAssumption
      <4>2. ASSUME NEW d \in Queue, n = left[d] + Interval
            PROVE  n - 1 =< Interval \/ \E e \in Queue' : n - 1 = left'[e] + Interval
        <5>1. d \in Callers /\ pc[d] = "gate" /\ left[d] > 0 /\ left[d] \in Nat
          BY <3>1 DEF Queue
        <5>2. CASE left[d] = 1
          BY <4>2, <5>2, ClientAssumption
        <5>3. CASE left[d] # 1
          <6>1. d \in Queue' /\ left'[d] = left[d] - 1
            BY <3>1, <5>1, <5>3
          <6> QED
            BY <4>2, <5>1, <6>1, ClientAssumption
        <5> QED
          BY <5>2, <5>3
      <4> QED
        BY <3>2, <4>1, <4>2
    <3>3. gate' =< Interval \/ \E d \in Queue' : gate' = left'[d] + Interval
      BY <2>1, <3>1, <3>2, ClientAssumption DEF Compact
    <3>4. ASSUME NEW c \in Queue'
          PROVE  left'[c] =< Interval \/ \E d \in Queue' : left'[c] = left'[d] + Interval
      <4>1. /\ c \in Queue /\ left[c] \in Nat /\ left[c] > 0 /\ left'[c] = left[c] - 1
        BY <3>1 DEF Queue
      <4> QED
        BY <2>1, <3>2, <4>1 DEF Compact
    <3> QED
      BY <3>3, <3>4 DEF Compact
  <2> QED
    BY <1>1, <1>2, <2>1 DEF Tick
<1>3. ASSUME NEW c \in Callers, Claim(c), ~ctxDone' PROVE Compact'
  <2>1. /\ gate \in Nat /\ left' = [left EXCEPT ![c] = gate] /\ gate' = gate + Interval
        /\ pc' = [pc EXCEPT ![c] = IF gate > 0 THEN "gate" ELSE "post"] /\ pc[c] = "claim"
        /\ left \in [Callers -> Nat] /\ DOMAIN pc = Callers /\ ~ctxDone
    BY <1>3 DEF IInv, TypeOK, Claim, SlotAfter
  <2>2. c \notin Queue /\ \A d \in Queue : left'[d] = left[d]
    BY <2>1 DEF Queue
  <2>3. CASE gate > 0
    <3>1. Queue' = Queue \cup {c}
      BY <2>1, <2>3 DEF Queue
    <3>2. left'[c] = gate
      BY <2>1
    <3> QED
      BY <2>1, <2>2, <3>1, <3>2, ClientAssumption DEF Compact
  <2>4. CASE gate = 0
    <3>1. Queue' = Queue
      BY <2>1, <2>4 DEF Queue
    <3> QED
      BY <2>1, <2>2, <2>4, <3>1, ClientAssumption DEF Compact
  <2> QED
    BY <2>1, <2>3, <2>4
<1>4. ASSUME NEW c \in Callers, NEW v, Return(c, v), pc[c] # "gate" PROVE Compact'
  BY <1>4, QueueStays DEF IInv, TypeOK, Return, Queue
<1>5. ASSUME NEW c \in Callers, NEW h, Retry(c, h), pc[c] \in {"post", "sent"}
      PROVE  Compact'
  BY <1>4, <1>5, QueueStays DEF IInv, TypeOK, Retry, Queue, callVars
<1>6. ASSUME NEW c \in Callers, Begin(c) \/ PassGate(c) \/ Send(c) \/ Resume(c)
      PROVE  Compact'
  BY <1>6, QueueStays DEF IInv, TypeOK, Begin, PassGate, Send, Resume, Queue, callVars
<1>7. ASSUME NEW c \in Callers, CheckContext(c) \/ LeaveBackoff(c) PROVE Compact'
  BY <1>4, <1>7, QueueStays
     DEF IInv, TypeOK, CheckContext, LeaveBackoff, Queue, callVars
<1>8. ASSUME NEW c \in Callers, LeaveGate(c) PROVE Compact'
  BY <1>1, <1>8 DEF LeaveGate, Return
<1>9. ASSUME NEW c \in Callers, Abort(c) \/ Served(c) PROVE Compact'
  BY <1>4, <1>5, <1>9 DEF Abort, Served, NetworkError, Reply
<1>10. CASE Cancel
  BY <1>1, <1>10 DEF Cancel
<1>11. CASE UNCHANGED vars
  BY <1>11, QueueStays DEF Queue, vars, callVars
<1> QED
  BY <1>1, <1>2, <1>3, <1>6, <1>7, <1>8, <1>9, <1>10, <1>11 DEF Next, Run

\* A nonempty set of numbers has a least.
LEMMA Smallest ==
  ASSUME NEW S, S \subseteq Nat, S # {}
  PROVE  \E m \in S : \A n \in S : m =< n
<1>1. PICK m \in S : \A n \in S : ~(<<n, m>> \in OpToRel(<, Nat))
  BY NatLessThanWellFounded, WFMin, Zenon
<1>2. ASSUME NEW n \in S, n < m PROVE FALSE
  <2>1. <<n, m>> \in Nat \X Nat /\ <<n, m>>[1] < <<n, m>>[2]
    BY <1>2
  <2>2. <<n, m>> \in OpToRel(<, Nat)
    BY <2>1, Zenon DEF OpToRel
  <2> QED
    BY <1>1, <2>2
<1> QED
  BY <1>2

\* Two facts about products, which the provers do not find in context.
LEMMA Products ==
  \A i, m, n \in Nat : /\ i * (m + 1) = i * m + i
                       /\ m =< n => i * m =< i * n
<1>1. ASSUME NEW i \in Nat, NEW m \in Nat, NEW n \in Nat, m =< n
      PROVE  i * m =< i * n
  <2>1. PICK k \in Nat : n = m + k
    <3>1. n - m \in Nat /\ n = m + (n - m)
      BY <1>1
    <3> QED
      BY <3>1
  <2>2. i * k \in Nat /\ i * n = i * m + i * k
    BY <2>1
  <2> QED
    BY <2>2
<1> QED
  BY <1>1

\* Of slots without a gap, one waits for no more than those up to its own.
LEMMA CompactBound ==
  ASSUME TypeOK, Compact, ~ctxDone, NEW c \in Queue
  PROVE  left[c] =< Interval * Cardinality(Queue)
<1> DEFINE UpTo(d) == {e \in Queue : left[e] =< left[d]}
           Late == {d \in Queue : ~(left[d] =< Interval * Cardinality(UpTo(d)))}
<1>1. Queue \subseteq Callers /\ IsFiniteSet(Queue) /\ \A d \in Queue : left[d] \in Nat
  BY ClientAssumption, FS_Subset DEF TypeOK, Queue
<1>2. \A d \in Queue : /\ IsFiniteSet(UpTo(d)) /\ Cardinality(UpTo(d)) \in Nat
                       /\ Cardinality(UpTo(d)) =< Cardinality(Queue)
  BY <1>1, FS_Subset, FS_CardinalityType
<1>3. Interval \in Nat
  BY ClientAssumption
<1>4. ASSUME Late # {} PROVE FALSE
  <2>1. PICK m \in {left[d] : d \in Late} : \A n \in {left[d] : d \in Late} : m =< n
    <3>1. {left[d] : d \in Late} \subseteq Nat /\ {left[d] : d \in Late} # {}
      BY <1>1, <1>4
    <3> QED
      BY <3>1, Smallest
  <2>2. PICK d \in Late : m = left[d]
    BY <2>1
  <2>3. d \in Queue /\ \A e \in Late : left[d] =< left[e]
    BY <2>1, <2>2
  <2>4. d \in UpTo(d)
    BY <1>1, <2>3
  <2>5. CASE left[d] =< Interval
    <3>1. Cardinality(UpTo(d)) # 0
      BY <1>2, <2>3, <2>4, FS_EmptySet
    <3>2. Interval * 1 =< Interval * Cardinality(UpTo(d))
      BY <1>2, <1>3, <2>3, <3>1, Products
    <3> QED
      BY <1>1, <1>2, <1>3, <2>2, <2>3, <2>5, <3>2
  <2>6. ASSUME NEW e \in Queue, left[d] = left[e] + Interval PROVE FALSE
    <3>1. e \notin Late /\ d \notin UpTo(e)
      BY <1>1, <2>3, <2>6, ClientAssumption
    <3>2. left[e] =< Interval * Cardinality(UpTo(e))
      BY <3>1
    <3>3. UpTo(e) \cup {d} \subseteq UpTo(d)
      BY <1>1, <2>3, <2>4, <2>6, ClientAssumption
    <3>4. Cardinality(UpTo(e) \cup {d}) = Cardinality(UpTo(e)) + 1
      BY <1>2, <3>1, FS_AddElement
    <3>5. Cardinality(UpTo(e)) + 1 =< Cardinality(UpTo(d))
      BY <1>2, <2>3, <3>3, <3>4, FS_Subset
    <3>6. PICK j, n \in Nat : j = Cardinality(UpTo(e)) /\ n = Cardinality(UpTo(d))
      BY <1>2, <2>3
    <3>7. Interval * (j + 1) =< Interval * n /\ Interval * (j + 1) = Interval * j + Interval
      BY <1>3, <3>5, <3>6, Products
    <3>8. ~(left[d] =< Interval * n)
      BY <2>2, <3>6
    <3> QED
      BY <1>1, <1>3, <2>3, <2>6, <3>2, <3>6, <3>7, <3>8
  <2> QED
    BY <2>3, <2>5, <2>6 DEF Compact
<1>5. left[c] =< Interval * Cardinality(UpTo(c))
  BY <1>4
<1>6. Interval * Cardinality(UpTo(c)) =< Interval * Cardinality(Queue)
  BY <1>1, <1>2, <1>3, FS_CardinalityType, Products
<1>7. PICK j, n \in Nat : j = Cardinality(UpTo(c)) /\ n = Cardinality(Queue)
  BY <1>1, <1>2, FS_CardinalityType
<1>8. left[c] =< Interval * j /\ Interval * j =< Interval * n
  BY <1>5, <1>6, <1>7
<1>9. left[c] =< Interval * n
  BY <1>1, <1>3, <1>8
<1> QED
  BY <1>7, <1>9

-----------------------------------------------------------------------------
(* How long a call takes.                                                  *)

\* The longest a caller waits for its slot: one interval for each caller.
TurnWait == Interval * Cardinality(Callers)

\* The longest it sleeps between a failed attempt and the next request.
RoundWait == TurnWait + MaxBackoff

Rest(c) == MaxRetries - attempt[c]

\* The steps that a call still takes, at most.
StagesLeft(c) ==
  CASE pc[c] = "idle" -> 0
    [] pc[c] = "loop" -> 6 * Rest(c) + 6
    [] pc[c] = "claim" -> 6 * Rest(c) + 5
    [] pc[c] = "gate" -> 6 * Rest(c) + 4
    [] pc[c] = "post" -> 6 * Rest(c) + 3
    [] pc[c] = "sent" -> 6 * Rest(c) + 2
    [] pc[c] = "backoff" -> 6 * Rest(c) + 1

\* The ticks that it still sleeps, at most.
WaitLeft(c) ==
  CASE pc[c] = "idle" -> 0
    [] pc[c] \in {"loop", "claim"} -> TurnWait + Rest(c) * RoundWait
    [] pc[c] = "gate" -> left[c] + Rest(c) * RoundWait
    [] pc[c] \in {"post", "sent"} -> Rest(c) * RoundWait
    [] pc[c] = "backoff" -> left[c] + TurnWait + (Rest(c) - 1) * RoundWait

\* Every step of a call lowers its number of steps and none adds to its
\* sleep; whatever the others do, its timer only runs down, and each tick it
\* sleeps is one it will not sleep again.
CallCounts ==
  \A c \in Callers : pc[c] # "idle" =>
    \/ /\ StagesLeft(c)' < StagesLeft(c)
       /\ WaitLeft(c)' =< WaitLeft(c)
    \/ /\ UNCHANGED <<pc[c], attempt[c]>>
       /\ IF pc[c] \in {"gate", "backoff"}
          THEN /\ left'[c] =< left[c]
               /\ WaitLeft(c)' = WaitLeft(c) - (left[c] - left'[c])
          ELSE WaitLeft(c)' = WaitLeft(c)

CallsWindDown == [][CallCounts]_vars

\* A caller that gives up its wait leaves its slot unused, so that after a
\* cancellation the queue no longer says how far off the next slot is; but
\* nobody comes to the gate any more who is not on the way.
Claimers == {c \in Callers : pc[c] = "claim"}
Owed == ctxDone => gate + Interval * Cardinality(Claimers)
                     =< Interval * (Cardinality(Callers) + 1)

\* Sets of callers are finite, and the longest waits are times.
LEMMA CallerSets ==
  /\ \A S : S \subseteq Callers => /\ IsFiniteSet(S) /\ Cardinality(S) \in Nat
                                  /\ Cardinality(S) =< Cardinality(Callers)
  /\ IsFiniteSet(Callers) /\ Cardinality(Callers) \in Nat
  /\ TurnWait \in Nat /\ RoundWait \in Nat /\ RoundWait = TurnWait + MaxBackoff
<1>1. IsFiniteSet(Callers) /\ Cardinality(Callers) \in Nat
  BY ClientAssumption, FS_CardinalityType
<1>2. TurnWait \in Nat
  BY <1>1, ClientAssumption DEF TurnWait
<1>. QED
  BY <1>1, <1>2, FS_Subset, FS_CardinalityType, ClientAssumption DEF RoundWait

\* While the run goes on the next slot is an interval away for each caller
\* in the queue, and one more.
LEMMA GateBound ==
  ASSUME TypeOK, Compact, ~ctxDone
  PROVE  gate =< Interval * (Cardinality(Queue) + 1)
<1>1. Cardinality(Queue) \in Nat /\ Interval \in Nat /\ gate \in Nat
  BY CallerSets, ClientAssumption DEF Queue, TypeOK
<1>2. PICK n, k \in Nat : n = Cardinality(Queue) /\ k = Interval * n
  BY <1>1
<1>3. Interval * (n + 1) = k + Interval
  BY <1>1, <1>2, Products
<1>4. CASE gate =< Interval
  BY <1>1, <1>2, <1>3, <1>4
<1>5. ASSUME NEW d \in Queue, gate = left[d] + Interval
      PROVE  gate =< Interval * (Cardinality(Queue) + 1)
  <2>1. left[d] \in Nat /\ left[d] =< k
    BY <1>2, CompactBound DEF Queue, TypeOK
  <2>. QED
    BY <1>1, <1>2, <1>3, <1>5, <2>1
<1>. QED
  BY <1>4, <1>5 DEF Compact

\* The callers in the queue and those on the way to it are different ones.
LEMMA QueueAndClaimers ==
  Cardinality(Queue) + Cardinality(Claimers) =< Cardinality(Callers)
<1>1. /\ Queue \subseteq Callers /\ Claimers \subseteq Callers
      /\ Queue \cap Claimers = {}
  BY DEF Queue, Claimers
<1>2. IsFiniteSet(Queue) /\ IsFiniteSet(Claimers) /\ Cardinality(Queue \cap Claimers) = 0
  BY <1>1, CallerSets, FS_EmptySet
<1>3. Cardinality(Queue \cup Claimers)
        = Cardinality(Queue) + Cardinality(Claimers) - Cardinality(Queue \cap Claimers)
  BY <1>2, FS_Union
<1>4. Cardinality(Queue \cup Claimers) =< Cardinality(Callers)
  BY <1>1, CallerSets
<1>. QED
  BY <1>1, <1>2, <1>3, <1>4, CallerSets

\* So much for the moment of the cancellation.
LEMMA NothingOwed ==
  ASSUME TypeOK, Compact, ~ctxDone
  PROVE  gate + Interval * Cardinality(Claimers) =< Interval * (Cardinality(Callers) + 1)
<1>1. PICK q, k, n \in Nat : /\ q = Cardinality(Queue) /\ k = Cardinality(Claimers)
                             /\ n = Cardinality(Callers)
  BY CallerSets DEF Queue, Claimers
<1>2. Interval \in Nat /\ gate \in Nat
  BY ClientAssumption DEF TypeOK
<1>3. gate =< Interval * (q + 1) /\ q + k =< n
  BY <1>1, GateBound, QueueAndClaimers
<1>4. Interval * (q + 1) + Interval * k = Interval * ((q + 1) + k)
  BY <1>1, <1>2
<1>5. (q + 1) + k =< n + 1
  BY <1>1, <1>3
<1>6. Interval * ((q + 1) + k) =< Interval * (n + 1)
  BY <1>1, <1>2, <1>5, Products
<1>7. /\ Interval * (q + 1) \in Nat /\ Interval * k \in Nat
      /\ Interval * ((q + 1) + k) \in Nat /\ Interval * (n + 1) \in Nat
  BY <1>1, <1>2
<1>8. gate + Interval * k =< Interval * (n + 1)
  BY <1>2, <1>3, <1>4, <1>6, <1>7
<1>. QED
  BY <1>1, <1>8

\* After it, a step that lets nobody on the way moves no slot further off.
LEMMA OwedStays ==
  ASSUME Owed, ctxDone, TypeOK, TypeOK', gate' =< gate, Claimers' \subseteq Claimers
  PROVE  Owed'
<1>1. PICK j, k, n \in Nat : /\ j = Cardinality(Claimers') /\ k = Cardinality(Claimers)
                             /\ n = Cardinality(Callers) /\ j =< k
  <2>1. Claimers \subseteq Callers
    BY DEF Claimers
  <2>. QED
    BY <2>1, CallerSets, FS_Subset
<1>2. /\ Interval \in Nat /\ Interval * j \in Nat /\ Interval * k \in Nat
      /\ Interval * (n + 1) \in Nat /\ Interval * j =< Interval * k
      /\ gate \in Nat /\ gate' \in Nat
  BY <1>1, ClientAssumption, Products DEF TypeOK
<1>3. gate + Interval * k =< Interval * (n + 1)
  BY <1>1 DEF Owed
<1>4. PICK a, b, m \in Nat : a = Interval * j /\ b = Interval * k /\ m = Interval * (n + 1)
  BY <1>2
<1>5. /\ gate + b =< m /\ gate' =< gate /\ a =< b
      /\ gate \in Nat /\ gate' \in Nat
  BY <1>2, <1>3, <1>4
<1>6. \A x, y \in Nat : x + b =< m /\ y =< x => y + a =< m
  BY <1>5
<1>7. gate' + a =< m
  BY <1>5, <1>6
<1>. QED
  BY <1>1, <1>4, <1>7 DEF Owed

\* Nor does any other step.
LEMMA OwedStep ==
  ASSUME IInv, TypeOK', Compact, Owed, [Next]_vars
  PROVE  Owed'
<1>1. CASE Cancel
  <2>1. gate' = gate /\ Claimers' = Claimers /\ ~ctxDone
    BY <1>1 DEF Cancel, Claimers
  <2>. QED
    BY <2>1, NothingOwed DEF IInv, Owed
<1>2. CASE ~ctxDone'
  BY <1>2 DEF Owed
<1>3. ASSUME ctxDone, gate' = gate, Claimers' \subseteq Claimers PROVE Owed'
  BY <1>3, OwedStays DEF IInv, TypeOK
<1>4. CASE Tick
  <2>1. gate' =< gate /\ Claimers' = Claimers /\ ctxDone' = ctxDone
    BY <1>4 DEF Tick, Elapsed, Claimers, IInv, TypeOK
  <2>. QED
    BY <1>2, <2>1, OwedStays DEF IInv
<1>5. ASSUME NEW c \in Callers, Claim(c), ctxDone PROVE Owed'
  <2>1. /\ c \in Claimers /\ Claimers' = Claimers \ {c} /\ gate' = gate + Interval
        /\ gate \in Nat /\ Claimers \subseteq Callers
    BY <1>5 DEF Claim, SlotAfter, Claimers, IInv, TypeOK
  <2>2. PICK j, n \in Nat : /\ j = Cardinality(Claimers') /\ j + 1 = Cardinality(Claimers)
                            /\ n = Cardinality(Callers)
    <3>1. Cardinality(Claimers') = Cardinality(Claimers) - 1 /\ Cardinality(Claimers') \in Nat
      BY <2>1, CallerSets, FS_RemoveElement, FS_CardinalityType
    <3>. QED
      BY <3>1, <2>1, CallerSets
  <2>3. gate + Interval * (j + 1) =< Interval * (n + 1)
    BY <1>5, <2>2 DEF Owed
  <2>4. /\ Interval \in Nat /\ Interval * j \in Nat /\ Interval * (n + 1) \in Nat
        /\ Interval * (j + 1) = Interval * j + Interval
    BY <2>2, ClientAssumption, Products
  <2>5. gate' + Interval * j =< Interval * (n + 1)
    BY <2>1, <2>3, <2>4
  <2>. QED
    BY <2>2, <2>5 DEF Owed
<1>6. ASSUME NEW c \in Callers, NEW v, Return(c, v), ctxDone PROVE Owed'
  BY <1>3, <1>6 DEF Return, Claimers, IInv, TypeOK
<1>7. ASSUME NEW c \in Callers, NEW h, Retry(c, h), ctxDone PROVE Owed'
  BY <1>3, <1>6, <1>7 DEF Retry, Claimers, IInv, TypeOK
<1>8. ASSUME NEW c \in Callers, Begin(c) \/ PassGate(c) \/ Send(c) \/ Resume(c), ctxDone
      PROVE  Owed'
  BY <1>3, <1>8 DEF Begin, PassGate, Send, Resume, Claimers, IInv, TypeOK
<1>9. ASSUME NEW c \in Callers, CheckContext(c) \/ LeaveGate(c) \/ LeaveBackoff(c), ctxDone
      PROVE  Owed'
  BY <1>6, <1>9 DEF CheckContext, LeaveGate, LeaveBackoff
<1>10. ASSUME NEW c \in Callers, Abort(c) \/ Served(c), ctxDone PROVE Owed'
  BY <1>6, <1>7, <1>10 DEF Abort, Served, NetworkError, Reply
<1>11. CASE UNCHANGED vars
  BY <1>11 DEF Owed, Claimers, vars
<1>12. ctxDone' /\ ~Cancel => ctxDone \/ UNCHANGED vars
  BY DEF Next, Tick, Begin, Run, Served, CheckContext, Claim, PassGate, LeaveGate, Send, Abort,
         Resume, LeaveBackoff, NetworkError, Reply, Return, Retry
<1>. QED
  BY <1>1, <1>2, <1>4, <1>5, <1>8, <1>9, <1>10, <1>11, <1>12 DEF Next, Run

\* A caller that claims a slot gets one within an interval for each caller,
\* before the cancellation and after it.
LEMMA ClaimBound ==
  ASSUME TypeOK, Compact, Owed, NEW c \in Callers, pc[c] = "claim"
  PROVE  gate =< TurnWait
<1>1. c \in Claimers /\ Claimers \subseteq Callers
  BY DEF Claimers
<1>2. Cardinality(Claimers) # 0
  BY <1>1, CallerSets, FS_EmptySet
<1>3. PICK k, n \in Nat : k + 1 = Cardinality(Claimers) /\ n = Cardinality(Callers)
  BY <1>1, <1>2, CallerSets
<1>4. gate + Interval * (k + 1) =< Interval * (n + 1)
  BY <1>3, NothingOwed DEF Owed
<1>5. /\ Interval \in Nat /\ gate \in Nat /\ Interval * k \in Nat /\ Interval * n \in Nat
      /\ Interval * (k + 1) = Interval * k + Interval
      /\ Interval * (n + 1) = Interval * n + Interval
  BY <1>3, ClientAssumption, Products DEF TypeOK
<1>6. gate =< Interval * n
  BY <1>4, <1>5
<1>. QED
  BY <1>3, <1>6 DEF TurnWait

\* What is left of a call are numbers, zero when there is none under way.
LEMMA LeftTypes ==
  ASSUME IInv, NEW c \in Callers
  PROVE  /\ Rest(c) \in Nat /\ Rest(c) =< MaxRetries
         /\ Rest(c) * RoundWait \in Nat
         /\ pc[c] = "backoff" =>
              /\ Rest(c) > 0 /\ (Rest(c) - 1) * RoundWait \in Nat
         /\ Rest(c) > 0 =>
               Rest(c) * RoundWait = (Rest(c) - 1) * RoundWait + RoundWait
         /\ StagesLeft(c) \in Nat /\ WaitLeft(c) \in Nat
         /\ (StagesLeft(c) = 0) <=> (pc[c] = "idle")
<1>1. /\ attempt[c] \in 0..MaxRetries /\ left[c] \in Nat /\ MaxRetries \in Nat
      /\ pc[c] \in {"idle", "loop", "claim", "gate", "post", "sent", "backoff"}
  BY ClientAssumption DEF IInv, TypeOK
<1>2. Rest(c) \in Nat /\ Rest(c) =< MaxRetries
  BY <1>1 DEF Rest
<1>3. pc[c] = "backoff" => Rest(c) > 0
  BY <1>1 DEF IInv, TriesInv, TriesLeft, Rest
<1>4. \A m \in Nat : m * RoundWait \in Nat /\ (m + 1) * RoundWait = m * RoundWait + RoundWait
  BY CallerSets
<1>5. Rest(c) > 0 => \E m \in Nat : m + 1 = Rest(c) /\ m = Rest(c) - 1
  BY <1>2
<1>6. Rest(c) > 0 => /\ (Rest(c) - 1) * RoundWait \in Nat
                     /\ Rest(c) * RoundWait = (Rest(c) - 1) * RoundWait + RoundWait
  BY <1>4, <1>5
<1>7. StagesLeft(c) \in Nat /\ ((StagesLeft(c) = 0) <=> (pc[c] = "idle"))
  BY <1>1, <1>2 DEF StagesLeft
<1>8. WaitLeft(c) \in Nat
  <2>1. PICK m \in Nat : m = Rest(c) * RoundWait
    BY <1>2, <1>4
  <2>2. CASE pc[c] # "backoff"
    BY <1>1, <2>1, <2>2, CallerSets DEF WaitLeft
  <2>3. CASE pc[c] = "backoff"
    <3>1. PICK n \in Nat : n = (Rest(c) - 1) * RoundWait
      BY <1>3, <1>6, <2>3
    <3>. QED
      BY <1>1, <2>3, <3>1, CallerSets DEF WaitLeft
  <2>. QED
    BY <2>2, <2>3
<1>. QED
  BY <1>2, <1>3, <1>4, <1>6, <1>7, <1>8

\* The same of the sleep that is left after a step.
LEMMA LeftTypesNext ==
  ASSUME IInv', NEW c \in Callers
  PROVE  WaitLeft(c)' \in Nat
<1>. DEFINE n == MaxRetries - attempt'[c]
<1>1. /\ attempt'[c] \in 0..MaxRetries /\ left'[c] \in Nat /\ MaxRetries \in Nat
      /\ pc'[c] \in {"idle", "loop", "claim", "gate", "post", "sent", "backoff"}
      /\ n \in Nat /\ Rest(c)' = n
  BY ClientAssumption DEF IInv, TypeOK, Rest
<1>2. pc'[c] = "backoff" => n > 0
  BY <1>1 DEF IInv, TriesInv, TriesLeft
<1>. HIDE DEF n
<1>3. RoundWait' = RoundWait /\ TurnWait' = TurnWait
  BY DEF RoundWait, TurnWait
<1>4. \A i \in Nat : i * RoundWait \in Nat
  BY CallerSets
<1>5. CASE pc'[c] = "backoff"
  <2>1. n - 1 \in Nat
    BY <1>1, <1>2, <1>5
  <2>2. PICK m \in Nat : m = (n - 1) * RoundWait
    BY <1>4, <2>1
  <2>. QED
    BY <1>1, <1>3, <1>5, <2>2, CallerSets DEF WaitLeft
<1>6. CASE pc'[c] # "backoff"
  <2>1. PICK m \in Nat : m = n * RoundWait
    BY <1>1, <1>4
  <2>. QED
    BY <1>1, <1>3, <1>6, <2>1, CallerSets DEF WaitLeft
<1>. QED
  BY <1>5, <1>6

\* A step of the clock, of the run or of another caller leaves a call where
\* it is, but for its timer.
LEMMA OthersLeaveIt ==
  ASSUME IInv, TypeOK', NEW c \in Callers, pc[c] # "idle",
         pc'[c] = pc[c], attempt'[c] = attempt[c], left'[c] =< left[c]
  PROVE  IF pc[c] \in {"gate", "backoff"}
         THEN WaitLeft(c)' = WaitLeft(c) - (left[c] - left'[c])
         ELSE WaitLeft(c)' = WaitLeft(c)
<1>1. /\ left[c] \in Nat /\ left'[c] \in Nat
      /\ pc[c] \in {"idle", "loop", "claim", "gate", "post", "sent", "backoff"}
  BY DEF IInv, TypeOK
<1>2. Rest(c)' = Rest(c) /\ TurnWait' = TurnWait /\ RoundWait' = RoundWait
  BY DEF Rest, TurnWait, RoundWait
<1>3. PICK m \in Nat : m = Rest(c) * RoundWait
  BY LeftTypes
<1>4. CASE pc[c] = "backoff"
  <2>1. PICK n \in Nat : n = TurnWait + (Rest(c) - 1) * RoundWait
    BY <1>4, LeftTypes, CallerSets
  <2>2. WaitLeft(c) = left[c] + n /\ WaitLeft(c)' = left'[c] + n
    BY <1>1, <1>2, <1>4, <2>1, LeftTypes, CallerSets DEF WaitLeft
  <2>. QED
    BY <1>1, <1>4, <2>2
<1>5. CASE pc[c] = "gate"
  <2>1. WaitLeft(c) = left[c] + m /\ WaitLeft(c)' = left'[c] + m
    BY <1>2, <1>3, <1>5 DEF WaitLeft
  <2>. QED
    BY <1>1, <1>5, <2>1
<1>6. CASE pc[c] \notin {"gate", "backoff"}
  BY <1>1, <1>2, <1>6 DEF WaitLeft
<1>. QED
  BY <1>4, <1>5, <1>6

\* A call that ends has nothing left of it, and had something.
LEMMA ReturnCounts ==
  ASSUME IInv, NEW c \in Callers, NEW v, Return(c, v), pc[c] # "idle"
  PROVE  StagesLeft(c)' < StagesLeft(c) /\ WaitLeft(c)' =< WaitLeft(c)
<1>1. pc'[c] = "idle"
  BY DEF IInv, TypeOK, Return
<1>2. StagesLeft(c)' = 0 /\ WaitLeft(c)' = 0
  BY <1>1 DEF StagesLeft, WaitLeft
<1>. QED
  BY <1>2, LeftTypes

\* A failed attempt is followed by a backoff that its round has room for.
LEMMA RetryCounts ==
  ASSUME IInv, NEW c \in Callers, NEW h \in Headers, Retry(c, h),
         pc[c] \in {"post", "sent"}
  PROVE  StagesLeft(c)' < StagesLeft(c) /\ WaitLeft(c)' =< WaitLeft(c)
<1>1. CASE ~TriesLeft(c)
  BY <1>1, ReturnCounts DEF Retry
<1>2. CASE TriesLeft(c)
  <2>1. /\ pc'[c] = "backoff" /\ attempt'[c] = attempt[c]
        /\ Rest(c)' = Rest(c) /\ TurnWait' = TurnWait /\ RoundWait' = RoundWait
    BY <1>2 DEF IInv, TypeOK, Retry, callVars, Rest, TurnWait, RoundWait
  <2>2. left'[c] \in Nat /\ left'[c] =< MaxBackoff /\ MaxBackoff \in Nat
    BY <1>2, RetrySleeps, ClientAssumption DEF IInv, TypeOK
  <2>3. Rest(c) > 0
    BY <1>2, ClientAssumption DEF TriesLeft, Rest, IInv, TypeOK
  <2>4. PICK m \in Nat : /\ m = (Rest(c) - 1) * RoundWait
                         /\ Rest(c) * RoundWait = m + RoundWait
    <3>1. (Rest(c) - 1) \in Nat
      BY <2>3, LeftTypes
    <3>. QED
      BY <2>3, <3>1, LeftTypes, CallerSets
  <2>5. WaitLeft(c) = m + RoundWait
    BY <2>4 DEF WaitLeft
  <2>6. WaitLeft(c)' = left'[c] + TurnWait + m
    BY <2>1, <2>4 DEF WaitLeft
  <2>7. WaitLeft(c)' =< WaitLeft(c)
    BY <2>1, <2>2, <2>5, <2>6, CallerSets
  <2>8. StagesLeft(c)' < StagesLeft(c)
    BY <2>1, LeftTypes DEF StagesLeft
  <2>. QED
    BY <2>7, <2>8
<1>. QED
  BY <1>1, <1>2

\* What a caller does itself brings its call on.
LEMMA OwnStepCounts ==
  ASSUME IInv, Compact, Owed, NEW c \in Callers, pc[c] # "idle", Run(c) \/ Served(c)
  PROVE  StagesLeft(c)' < StagesLeft(c) /\ WaitLeft(c)' =< WaitLeft(c)
<1>1. /\ TurnWait' = TurnWait /\ RoundWait' = RoundWait
      /\ left[c] \in Nat /\ attempt[c] \in Nat /\ MaxRetries \in Nat
  BY ClientAssumption DEF TurnWait, RoundWait, IInv, TypeOK
<1>2. ASSUME attempt'[c] = attempt[c] PROVE Rest(c)' = Rest(c)
  BY <1>2 DEF Rest
<1>3. PICK m \in Nat : m = Rest(c) * RoundWait
  BY LeftTypes
<1>4. CASE CheckContext(c)
  <2>1. CASE ctxDone
    BY <1>4, <2>1, ReturnCounts DEF CheckContext
  <2>2. CASE ~ctxDone
    <3>1. pc[c] = "loop" /\ pc'[c] = "claim" /\ attempt'[c] = attempt[c]
      BY <1>4, <2>2 DEF CheckContext, IInv, TypeOK, callVars
    <3>2. StagesLeft(c)' < StagesLeft(c)
      BY <1>2, <3>1, LeftTypes DEF StagesLeft
    <3>3. WaitLeft(c) = TurnWait + m /\ WaitLeft(c)' = TurnWait + m
      BY <1>1, <1>2, <1>3, <3>1 DEF WaitLeft
    <3>. QED
      BY <3>2, <3>3, CallerSets
  <2>. QED
    BY <2>1, <2>2
<1>5. CASE Claim(c)
  <2>1. /\ pc[c] = "claim" /\ pc'[c] = (IF gate > 0 THEN "gate" ELSE "post")
        /\ left'[c] = gate /\ attempt'[c] = attempt[c] /\ gate \in Nat
    BY <1>5 DEF Claim, IInv, TypeOK, callVars
  <2>2. gate =< TurnWait
    BY <2>1, ClaimBound DEF IInv
  <2>3. StagesLeft(c)' < StagesLeft(c)
    BY <1>2, <2>1, LeftTypes DEF StagesLeft
  <2>4. WaitLeft(c) = TurnWait + m /\ WaitLeft(c)' = gate + m
    <3>1. WaitLeft(c) = TurnWait + m
      BY <1>3, <2>1 DEF WaitLeft
    <3>2. CASE gate > 0
      BY <1>1, <1>2, <1>3, <2>1, <3>2 DEF WaitLeft
    <3>3. CASE gate = 0
      BY <1>1, <1>2, <1>3, <2>1, <3>3 DEF WaitLeft
    <3>. QED
      BY <2>1, <3>1, <3>2, <3>3
  <2>. QED
    BY <2>1, <2>2, <2>3, <2>4, CallerSets
<1>6. CASE PassGate(c) \/ Send(c)
  <2>1. /\ attempt'[c] = attempt[c]
        /\ \/ pc[c] = "gate" /\ pc'[c] = "post" /\ left[c] = 0
           \/ pc[c] = "post" /\ pc'[c] = "sent"
    BY <1>6 DEF PassGate, Send, IInv, TypeOK, callVars
  <2>2. StagesLeft(c)' < StagesLeft(c)
    BY <1>2, <2>1, LeftTypes DEF StagesLeft
  <2>3. WaitLeft(c)' = m /\ WaitLeft(c) = m
    BY <1>1, <1>2, <1>3, <2>1 DEF WaitLeft
  <2>. QED
    BY <2>2, <2>3
<1>7. CASE Resume(c)
  <2>1. /\ pc[c] = "backoff" /\ pc'[c] = "loop" /\ left[c] = 0
        /\ attempt'[c] = attempt[c] + 1
    BY <1>7 DEF Resume, NextAttempt, IInv, TypeOK
  <2>2. Rest(c)' = Rest(c) - 1
    BY <1>1, <2>1 DEF Rest
  <2>3. StagesLeft(c)' < StagesLeft(c)
    BY <2>1, <2>2, LeftTypes DEF StagesLeft
  <2>4. PICK n \in Nat : n = (Rest(c) - 1) * RoundWait
    BY <2>1, LeftTypes
  <2>5. WaitLeft(c) = TurnWait + n /\ WaitLeft(c)' = TurnWait + n
    BY <1>1, <2>1, <2>2, <2>4, CallerSets DEF WaitLeft
  <2>. QED
    BY <2>3, <2>5, CallerSets
<1>8. CASE LeaveGate(c) \/ LeaveBackoff(c)
  BY <1>8, ReturnCounts DEF LeaveGate, LeaveBackoff
<1>9. CASE Abort(c) \/ Served(c)
  BY <1>9, ReturnCounts, RetryCounts, HintType DEF Abort, Served, NetworkError, Reply
<1>. QED
  BY <1>4, <1>5, <1>6, <1>7, <1>8, <1>9 DEF Run

\* A step of one caller touches no other.
LEMMA OnlyOwnState ==
  ASSUME IInv, NEW c \in Callers, NEW d \in Callers, c # d,
         Begin(d) \/ Run(d) \/ Served(d)
  PROVE  pc'[c] = pc[c] /\ attempt'[c] = attempt[c] /\ left'[c] = left[c]
<1>1. ASSUME NEW v, Return(d, v)
      PROVE  pc'[c] = pc[c] /\ attempt'[c] = attempt[c] /\ left'[c] = left[c]
  BY <1>1 DEF IInv, TypeOK, Return
<1>2. ASSUME NEW h, Retry(d, h)
      PROVE  pc'[c] = pc[c] /\ attempt'[c] = attempt[c] /\ left'[c] = left[c]
  BY <1>1, <1>2 DEF IInv, TypeOK, Retry, callVars
<1>3. CASE Begin(d) \/ Claim(d) \/ PassGate(d) \/ Send(d) \/ Resume(d)
  BY <1>3 DEF IInv, TypeOK, Begin, Claim, PassGate, Send, Resume, callVars
<1>4. CASE CheckContext(d) \/ LeaveGate(d) \/ LeaveBackoff(d)
  BY <1>1, <1>4 DEF IInv, TypeOK, CheckContext, LeaveGate, LeaveBackoff, callVars
<1>5. CASE Abort(d) \/ Served(d)
  BY <1>1, <1>2, <1>5 DEF Abort, Served, NetworkError, Reply
<1>. QED
  BY <1>3, <1>4, <1>5 DEF Run

\* Every step brings a call on or leaves it be.
LEMMA CallsCount ==
  ASSUME IInv, TypeOK', Compact, Owed, [Next]_vars
  PROVE  CallCounts
<1>. SUFFICES ASSUME NEW c \in Callers, pc[c] # "idle"
              PROVE  \/ /\ StagesLeft(c)' < StagesLeft(c)
                        /\ WaitLeft(c)' =< WaitLeft(c)
                     \/ pc'[c] = pc[c] /\ attempt'[c] = attempt[c] /\ left'[c] =< left[c]
  BY OthersLeaveIt DEF CallCounts
<1>1. left[c] \in Nat
  BY DEF IInv, TypeOK
<1>2. CASE Cancel \/ UNCHANGED vars
  BY <1>1, <1>2 DEF Cancel, vars, callVars
<1>3. CASE Tick
  BY <1>1, <1>3 DEF Tick, Elapsed, callVars
<1>4. ASSUME NEW d \in Callers, d # c, Begin(d) \/ Run(d) \/ Served(d)
      PROVE  pc'[c] = pc[c] /\ attempt'[c] = attempt[c] /\ left'[c] =< left[c]
  BY <1>1, <1>4, OnlyOwnState
<1>5. CASE Run(c) \/ Served(c)
  BY <1>5, OwnStepCounts
<1>6. ~Begin(c)
  BY DEF Begin
<1>. QED
  BY <1>2, <1>3, <1>4, <1>5, <1>6 DEF Next

\* No step lets a caller come to the gate, or stay there, for longer.
LEMMA WaitStep ==
  ASSUME IInv, Compact, Owed, WaitBound, [Next]_vars
  PROVE  WaitBound'
<1>. SUFFICES ASSUME NEW c \in Callers, pc'[c] = "gate"
              PROVE  left'[c] =< TurnWait
  BY DEF WaitBound, TurnWait
<1>1. TurnWait \in Nat /\ left[c] \in Nat /\ gate \in Nat /\ (pc[c] = "gate" => left[c] =< TurnWait)
  BY CallerSets DEF IInv, TypeOK, WaitBound, TurnWait
<1>2. CASE Cancel \/ Tick \/ UNCHANGED vars
  BY <1>1, <1>2 DEF Cancel, Tick, Elapsed, vars, callVars
<1>3. ASSUME NEW d \in Callers, d # c, Begin(d) \/ Run(d) \/ Served(d)
      PROVE  left'[c] =< TurnWait
  BY <1>1, <1>3, OnlyOwnState
<1>4. CASE Claim(c)
  BY <1>4, ClaimBound DEF Claim, IInv, TypeOK
<1>5. ASSUME Begin(c) \/ Run(c) \/ Served(c), ~Claim(c) PROVE FALSE
  <2>1. ~\E v : Return(c, v)
    BY DEF Return, IInv, TypeOK
  <2>2. ~\E h : Retry(c, h)
    BY <2>1 DEF Retry, IInv, TypeOK
  <2>. QED
    BY <1>5, <2>1, <2>2 DEF Begin, Run, Served, CheckContext, PassGate, LeaveGate, Send, Abort,
                            Resume, LeaveBackoff, NetworkError, Reply, IInv, TypeOK
<1>. QED
  BY <1>2, <1>3, <1>4, <1>5 DEF Next

\* The longest sleep of a call is a time.
LEMMA MostWait ==
  TurnWait + MaxRetries * RoundWait \in Nat
  BY CallerSets, ClientAssumption

\* A call that begins has the longest sleep before it, and none gains any.
Within == \A c \in Callers :
  pc[c] # "idle" => WaitLeft(c) =< TurnWait + MaxRetries * RoundWait

\* No step gives a call more sleep than it may have in all.
LEMMA WithinStep ==
  ASSUME IInv, IInv', Within, [Next]_vars, CallCounts
  PROVE  Within'
<1>. SUFFICES ASSUME NEW c \in Callers, pc'[c] # "idle"
              PROVE  WaitLeft(c)' =< TurnWait + MaxRetries * RoundWait
  BY DEF Within, TurnWait, RoundWait
<1>1. CASE pc[c] # "idle"
  <2>1. WaitLeft(c) \in Nat /\ WaitLeft(c)' \in Int /\ left[c] \in Nat /\ left'[c] \in Nat
    <3>1. WaitLeft(c)' \in Nat
      BY LeftTypesNext
    <3>. QED
      BY <3>1, LeftTypes DEF IInv, TypeOK
  <2>2. WaitLeft(c)' =< WaitLeft(c)
    BY <1>1, <2>1 DEF CallCounts
  <2>3. PICK m \in Nat : m = TurnWait + MaxRetries * RoundWait
    BY MostWait
  <2>4. WaitLeft(c) =< m
    BY <1>1, <2>3 DEF Within
  <2>. QED
    BY <2>1, <2>2, <2>3, <2>4
<1>2. CASE pc[c] = "idle"
  <2>1. Begin(c)
    <3>1. ~Run(c) /\ ~Served(c)
      BY <1>2 DEF Run, Served, CheckContext, Claim, PassGate, LeaveGate, Send, Abort, Resume,
                  LeaveBackoff, NetworkError, Reply
    <3>2. ~(Cancel \/ Tick \/ UNCHANGED vars)
      BY <1>2 DEF Cancel, Tick, vars
    <3>3. \A d \in Callers : d # c => ~(Begin(d) \/ Run(d) \/ Served(d))
      BY <1>2, OnlyOwnState
    <3>. QED
      BY <3>1, <3>2, <3>3 DEF Next
  <2>2. pc'[c] = "loop" /\ attempt'[c] = 0
    BY <2>1 DEF Begin, IInv, TypeOK
  <2>3. WaitLeft(c)' = TurnWait + MaxRetries * RoundWait
    BY <2>2, ClientAssumption DEF WaitLeft, Rest, TurnWait, RoundWait
  <2>. QED
    BY <2>3, MostWait
<1>. QED
  BY <1>1, <1>2

-----------------------------------------------------------------------------
(* Theorems.                                                               *)

\* The variables of the client have the types TypeOK gives them; above all,
\* a call makes no more than maxRetries + 1 attempts.
THEOREM TypeCorrect == Spec => []TypeOK
<1>1. IInv => TypeOK
  BY DEF IInv
<1>. QED
  BY <1>1, Inductive, PTL

\* The slots throttle hands out are an interval apart, whoever claims them
\* and in whatever order the callers run.
THEOREM SlotsAreSpaced == Spec => []SlotsSpaced
<1>1. IInv => SlotsSpaced
  BY DEF IInv
<1>. QED
  BY <1>1, Inductive, PTL

\* While the run goes on, a caller waits one interval at most for each of those
\* in the queue.
THEOREM QueueIsBounded == Spec => []QueueBound
<1>1. Init => Compact
  BY ClientAssumption DEF Init, Compact, Queue
<1>2. IInv /\ Compact /\ [Next]_vars => Compact'
  BY CompactStep
<1>3. IInv /\ Compact => QueueBound
  BY CompactBound DEF IInv, QueueBound
<1> QED
  BY <1>1, <1>2, <1>3, Inductive, PTL DEF Spec

\* Nobody at the gate, whether the run goes on or is cancelled, waits for more
\* than one interval for each caller: the slots of those who gave up are no
\* more than the others will be given.
THEOREM WaitIsBounded == Spec => []WaitBound
<1>1. Init => Compact /\ Owed /\ WaitBound
  BY ClientAssumption DEF Init, Compact, Queue, Owed, WaitBound
<1>2. IInv /\ TypeOK' /\ Compact /\ Owed /\ [Next]_vars => Compact' /\ Owed'
  BY CompactStep, OwedStep
<1>3. IInv /\ Compact /\ Owed /\ WaitBound /\ [Next]_vars => WaitBound'
  BY WaitStep
<1>4. IInv => TypeOK
  BY DEF IInv
<1>. QED
  BY <1>1, <1>2, <1>3, <1>4, Inductive, PTL DEF Spec

\* A call takes no more than 6 * (maxRetries + 1) steps of its own and
\* sleeps no longer than maxRetries backoffs of maxBackoff and, for each of
\* its attempts, one interval for each caller: a queue that only grows, a
\* slot that is lost, or a retry that starts over would break it.
THEOREM CallsTakeBoundedTime ==
  Spec => /\ CallsWindDown
          /\ [](\A c \in Callers :
                 /\ StagesLeft(c) \in 0..(6 * (MaxRetries + 1))
                 /\ (StagesLeft(c) = 0) <=> (pc[c] = "idle")
                 /\ WaitLeft(c) \in 0..(TurnWait + MaxRetries * RoundWait))
<1>1. Init => Compact /\ Owed
  BY ClientAssumption DEF Init, Compact, Queue, Owed
<1>2. IInv /\ TypeOK' /\ Compact /\ Owed /\ [Next]_vars => Compact' /\ Owed'
  BY CompactStep, OwedStep
<1>3. IInv /\ TypeOK' /\ Compact /\ Owed /\ [Next]_vars => CallCounts
  BY CallsCount
<1>4. Init => Within
  BY DEF Init, Within
<1>5. IInv /\ IInv' /\ Within /\ [Next]_vars /\ CallCounts => Within'
  BY WithinStep
<1>6. IInv /\ Within => \A c \in Callers :
        /\ StagesLeft(c) \in 0..(6 * (MaxRetries + 1))
        /\ (StagesLeft(c) = 0) <=> (pc[c] = "idle")
        /\ WaitLeft(c) \in 0..(TurnWait + MaxRetries * RoundWait)
  <2>. SUFFICES ASSUME IInv, Within, NEW c \in Callers
                PROVE  /\ StagesLeft(c) \in 0..(6 * (MaxRetries + 1))
                       /\ (StagesLeft(c) = 0) <=> (pc[c] = "idle")
                       /\ WaitLeft(c) \in 0..(TurnWait + MaxRetries * RoundWait)
    OBVIOUS
  <2>1. StagesLeft(c) =< 6 * (MaxRetries + 1)
    BY LeftTypes, ClientAssumption DEF StagesLeft, IInv, TypeOK
  <2>2. PICK m \in Nat : m = TurnWait + MaxRetries * RoundWait
    BY MostWait
  <2>3. WaitLeft(c) \in 0..m
    <3>1. pc[c] = "idle" => WaitLeft(c) = 0
      BY DEF WaitLeft
    <3>2. WaitLeft(c) =< m
      BY <2>2, <3>1 DEF Within
    <3>. QED
      BY <3>2, LeftTypes
  <2>. QED
    BY <2>1, <2>2, <2>3, LeftTypes, ClientAssumption
<1>7. IInv => TypeOK
  BY DEF IInv
<1>. QED
  BY <1>1, <1>2, <1>3, <1>4, <1>5, <1>6, <1>7, Inductive, PTL
     DEF Spec, CallsWindDown, CallCounts

\* A caller the endpoint told to stay away, by a Retry-After of any number of
\* seconds that fits a time.Duration, sends nothing before that time or
\* maxBackoff is over.  Of a date, or a number that does not fit, the theorem
\* says nothing: those may come to no time at all.
THEOREM HintHonoured == Spec => []RetryAfterHonoured
<1>1. IInv => RetryAfterHonoured
  BY DEF IInv, HoldInv, RetryAfterHonoured
<1>. QED
  BY <1>1, Inductive, PTL

\* However often an answer is lost, one call sends maxRetries + 1 requests at
\* most.
THEOREM CallsAreBounded == Spec => []RequestsBounded
<1>1. IInv => RequestsBounded
  BY ClientAssumption DEF IInv, TypeOK, RequestsInv, RequestsBounded
<1>. QED
  BY <1>1, Inductive, PTL

-----------------------------------------------------------------------------
(* Refinement.                                                             *)

\* Steps that leave pc between "idle" and the rest alone are stutters.
LEMMA StepsMap ==
  ASSUME IInv, [Next]_vars
  PROVE  [C!Next]_(C!vars)
<1>1. ASSUME NEW c \in Callers, NEW v \in {"value", "overload", "error"}, Return(c, v),
             pc[c] # "idle", live[c] \/ v = "error"
      PROVE  C!Return(c)
  <2>1. Completed[c] = IF live[c] THEN "open" ELSE "void"
    BY <1>1 DEF Completed
  <2>2. Completed' = [Completed EXCEPT ![c] = v]
    BY <1>1 DEF IInv, TypeOK, Completed, Return
  <2>3. UNCHANGED ctxDone
    BY <1>1 DEF Return
  <2>4. CASE live[c]
    BY <2>1, <2>2, <2>3, <2>4 DEF C!Return, C!Underway, C!Verdicts
  <2>5. CASE ~live[c]
    BY <1>1, <2>1, <2>2, <2>3, <2>5 DEF C!Return, C!Underway, C!Verdicts
  <2>. QED
    BY <2>4, <2>5
<1>2. ASSUME NEW c \in Callers, NEW d, d # "idle", pc[c] # "idle", pc' = [pc EXCEPT ![c] = d],
             UNCHANGED <<ctxDone, verdict, live>>
      PROVE  UNCHANGED C!vars
  <2>1. Completed' = Completed
    BY <1>2 DEF IInv, TypeOK, Completed
  <2>. QED
    BY <1>2, <2>1 DEF C!vars
<1>3. ASSUME NEW c \in Callers, NEW h, Retry(c, h), pc[c] \in {"post", "sent"}
      PROVE  [C!Next]_(C!vars)
  <2>1. live[c]
    BY <1>3 DEF IInv, LiveInv
  <2>2. CASE TriesLeft(c)
    BY <1>2, <1>3, <2>2 DEF Retry, callVars
  <2>3. CASE ~TriesLeft(c)
    BY <1>1, <1>3, <2>1, <2>3 DEF Retry, C!Next
  <2>. QED
    BY <2>2, <2>3
<1>4. CASE Cancel
  <2>1. Completed' = Completed
    BY <1>4 DEF Cancel, Completed, callVars
  <2>. QED
    BY <1>4, <2>1 DEF Cancel, C!Next, C!Cancel
<1>5. CASE Tick \/ UNCHANGED vars
  <2>1. Completed' = Completed /\ ctxDone' = ctxDone
    BY <1>5 DEF Tick, Completed, vars, callVars
  <2>. QED
    BY <2>1 DEF C!vars
<1>6. ASSUME NEW c \in Callers, Begin(c) PROVE [C!Next]_(C!vars)
  <2>1. Completed[c] = verdict[c] /\ verdict[c] \in {"value", "overload", "error"}
    BY <1>6 DEF IInv, TypeOK, Begin, Completed
  <2>2. pc' = [pc EXCEPT ![c] = "loop"] /\ live' = [live EXCEPT ![c] = ~ctxDone]
        /\ UNCHANGED <<ctxDone, verdict>>
    BY <1>6 DEF Begin
  <2>3. Completed' = [Completed EXCEPT ![c] = IF ctxDone THEN "void" ELSE "open"]
    BY <2>2 DEF IInv, TypeOK, Completed
  <2>. QED
    BY <2>1, <2>2, <2>3 DEF C!Next, C!Begin, C!Verdicts
<1>7. ASSUME NEW c \in Callers, Run(c) PROVE [C!Next]_(C!vars)
  <2>1. CASE CheckContext(c) \/ LeaveGate(c) \/ LeaveBackoff(c)
    BY <1>1, <1>2, <2>1 DEF CheckContext, LeaveGate, LeaveBackoff, callVars, C!Next
  <2>2. CASE Claim(c) \/ PassGate(c) \/ Send(c) \/ Resume(c)
    BY <1>2, <2>2 DEF Claim, PassGate, Send, Resume, callVars
  <2>3. CASE Abort(c)
    BY <1>3, <2>3 DEF Abort
  <2>. QED
    BY <1>7, <2>1, <2>2, <2>3 DEF Run
<1>8. ASSUME NEW c \in Callers, Served(c) PROVE [C!Next]_(C!vars)
  <2>1. pc[c] = "sent" /\ live[c]
    BY <1>8 DEF IInv, LiveInv, Served, NetworkError, Reply
  <2>2. CASE NetworkError(c)
    BY <1>3, <2>1, <2>2 DEF NetworkError
  <2>3. CASE Reply(c)
    BY <1>1, <1>3, <2>1, <2>3, JudgeType DEF Reply, C!Next
  <2>. QED
    BY <1>8, <2>2, <2>3 DEF Served
<1>. QED
  BY <1>4, <1>5, <1>6, <1>7, <1>8 DEF Next

\* Every behaviour of the client is one of the interface the stages rely on,
\* its fairness aside: in particular, a call that begins after the
\* cancellation never returns a value.
THEOREM ClientIsCompleter == Spec => C!SafeSpec
<1>1. Init => C!Init
  BY DEF Init, Completed, C!Init
<1>2. IInv /\ [Next]_vars => [C!Next]_(C!vars)
  BY StepsMap
<1>. QED
  BY <1>1, <1>2, Inductive, PTL DEF Spec, C!SafeSpec
=============================================================================
