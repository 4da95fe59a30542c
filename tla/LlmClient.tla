------------------------------ MODULE LlmClient ------------------------------
(***************************************************************************)
(* The model client the workers of a run share (internal/llm/llm.go):      *)
(* Complete with its retries, the request slots that throttle hands out    *)
(* under the mutex, the backoff, and the classification of what the        *)
(* endpoint answers.  A caller begins a new call whenever its last one has *)
(* returned; all of them use the context of the run.                       *)
(*                                                                         *)
(* Time is relative: a timer is the number of ticks until it fires, and    *)
(* the last slot is known by the ticks until the slot after it.  Nothing   *)
(* makes a goroutine run as soon as its timer fires.                       *)
(***************************************************************************)
EXTENDS Integers, FiniteSets

CONSTANTS
  Callers,        \* the goroutines that share the client
  Interval,       \* the request interval, in ticks
  Second,         \* one second, in ticks
  MaxBackoff,     \* the constant maxBackoff, in ticks
  MaxRetries,     \* the constant maxRetries
  RetryAfters     \* the numbers of seconds a Retry-After states, in ticks

\* NewClient replaces an interval that is not positive by the default.
ASSUME ClientAssumption ==
  /\ Interval \in Nat \ {0}
  /\ Second \in Nat \ {0}
  /\ MaxBackoff \in Nat \ {0}
  /\ MaxRetries \in Nat
  /\ RetryAfters \subseteq Nat
  /\ IsFiniteSet(Callers)

VARIABLES
  ctxDone,        \* the context of the run is cancelled
  gate,           \* ticks until lastSlot + interval; 0 when that is past
  pc,             \* where each caller is in Complete
  attempt,        \* the caller's attempt
  delay,          \* the backoff of its next failure
  left,           \* ticks until the timer it sleeps on fires
  verdict,        \* what its last call returned
  \* Bookkeeping of the model.
  live,           \* its call began before the cancellation
  hold,           \* ticks it was told, in seconds, to stay away, still to come
  requests        \* the requests its call has sent

callVars == <<attempt, delay, verdict, live, requests>>
vars == <<ctxDone, gate, pc, left, hold, callVars>>

Least(a, b) == IF a =< b THEN a ELSE b
Most(a, b) == IF a =< b THEN b ELSE a

Init ==
  /\ ctxDone = FALSE
  /\ gate = 0
  /\ pc = [c \in Callers |-> "idle"]
  /\ attempt = [c \in Callers |-> 0]
  /\ delay = [c \in Callers |-> Most(Interval, Second)]
  /\ left = [c \in Callers |-> 0]
  /\ verdict = [c \in Callers |-> "error"]
  /\ live = [c \in Callers |-> FALSE]
  /\ hold = [c \in Callers |-> 0]
  /\ requests = [c \in Callers |-> 0]

-----------------------------------------------------------------------------
(* Classification of what comes back, as post and parseChatResponse do it. *)

Statuses == {"below400", "tooLarge", "transient", "refused"}

\* What a Retry-After may be: seconds that fit a time.Duration (less than
\* none is none), a number that does not fit, or a text that is no number,
\* which a date, the header's other form, is too, and no header at all.
Headers == [form : {"seconds"}, ticks : RetryAfters]
           \cup [form : {"excess", "text"}, ticks : {0}]
NoHeader == [form |-> "text", ticks |-> 0]

\* saysTooLong: the body has one of the phrasings mentionsTooLong knows.
Replies == [status : Statuses, saysTooLong : BOOLEAN, readable : BOOLEAN,
            wellFormed : BOOLEAN, retryAfter : Headers]

IsOverload(r) ==
  r.status # "below400" /\ (r.status = "tooLarge" \/ r.saysTooLong)

IsTransient(r) ==
  ~IsOverload(r) /\ (r.status = "transient" \/ (r.status = "below400" /\ ~r.readable))

\* Only a refusal by status carries the Retry-After hint.
Hint(r) == IF r.status = "transient" THEN r.retryAfter ELSE NoHeader

\* What the conversion of the header may yield.  A text that is no number is
\* passed over; seconds that overflow become what the build makes of them, the
\* least Duration or the greatest, which count as nothing or as maxBackoff.
Understood(h) == CASE h.form = "seconds" -> {h.ticks}
                   [] h.form = "excess" -> {0, MaxBackoff}
                   [] h.form = "text" -> {0}

Judge(r) == IF IsOverload(r) THEN "overload"
            ELSE IF r.status = "below400" /\ r.wellFormed THEN "value" ELSE "error"

-----------------------------------------------------------------------------
(* Complete.                                                               *)

\* Mistake: one retry more than maxRetries.
TriesLeftOneMore(c) == attempt[c] =< MaxRetries

TriesLeft(c) == attempt[c] < MaxRetries

\* Mistake: the failed attempt is not counted.
NextAttemptUncounted(c) == attempt[c]

NextAttempt(c) == attempt[c] + 1

NextDelay(c) == Least(2 * delay[c], MaxBackoff)

\* Mistake: the hint of the endpoint is not looked at.
PauseUnhinted(c, hint) == Least(delay[c], MaxBackoff)

\* How long the caller sleeps before its next attempt.
Pause(c, hint) == Least(Most(delay[c], Least(hint, MaxBackoff)), MaxBackoff)

\* Mistake: the request is built without the context of the run.
AbortsNever == FALSE

\* net/http neither starts nor waits for a request whose context is done.
Aborts == ctxDone

Return(c, v) ==
  /\ pc' = [pc EXCEPT ![c] = "idle"]
  /\ verdict' = [verdict EXCEPT ![c] = v]
  /\ left' = [left EXCEPT ![c] = 0]
  /\ hold' = [hold EXCEPT ![c] = 0]
  /\ UNCHANGED <<ctxDone, gate, attempt, delay, live, requests>>

Begin(c) ==
  /\ pc[c] = "idle"
  /\ pc' = [pc EXCEPT ![c] = "loop"]
  /\ attempt' = [attempt EXCEPT ![c] = 0]
  /\ delay' = [delay EXCEPT ![c] = Most(Interval, Second)]
  /\ live' = [live EXCEPT ![c] = ~ctxDone]
  /\ requests' = [requests EXCEPT ![c] = 0]
  /\ UNCHANGED <<ctxDone, gate, left, verdict, hold>>

\* Mistake: the loop goes on whatever the context says.
CheckContextUnheeded(c) ==
  /\ pc[c] = "loop"
  /\ pc' = [pc EXCEPT ![c] = "claim"]
  /\ UNCHANGED <<ctxDone, gate, left, hold, callVars>>

\* The head of the retry loop.
CheckContext(c) ==
  /\ pc[c] = "loop"
  /\ \/ ctxDone /\ Return(c, "error")
     \/ /\ ~ctxDone
        /\ pc' = [pc EXCEPT ![c] = "claim"]
        /\ UNCHANGED <<ctxDone, gate, left, hold, callVars>>

\* Mistakes: a caller that has to wait does not move the last slot on; it
\* moves it on twice.
SlotAfterShared == Most(gate, Interval)
SlotAfterTwice == gate + 2 * Interval

\* Ticks until the slot that follows the one claimed now.
SlotAfter == gate + Interval

\* The critical section of throttle: the caller takes the next slot, which
\* is now when the last one is at least an interval old.
Claim(c) ==
  /\ pc[c] = "claim"
  /\ left' = [left EXCEPT ![c] = gate]
  /\ gate' = SlotAfter
  /\ pc' = [pc EXCEPT ![c] = IF gate > 0 THEN "gate" ELSE "post"]
  /\ UNCHANGED <<ctxDone, hold, callVars>>

\* Mistake: a caller whose turn has come waits until nobody holds a slot.
PassGateWhenClear(c) ==
  /\ pc[c] = "gate"
  /\ left[c] = 0 /\ gate = 0
  /\ pc' = [pc EXCEPT ![c] = "post"]
  /\ UNCHANGED <<ctxDone, gate, left, hold, callVars>>

\* The timer of the slot fires, whatever the context is by then.
PassGate(c) ==
  /\ pc[c] = "gate"
  /\ left[c] = 0
  /\ pc' = [pc EXCEPT ![c] = "post"]
  /\ UNCHANGED <<ctxDone, gate, left, hold, callVars>>

\* A caller that gives up keeps the slot it claimed.
LeaveGate(c) ==
  /\ pc[c] = "gate"
  /\ ctxDone
  /\ Return(c, "error")

Send(c) ==
  /\ pc[c] = "post"
  /\ ~Aborts
  /\ pc' = [pc EXCEPT ![c] = "sent"]
  /\ requests' = [requests EXCEPT ![c] = @ + 1]
  /\ UNCHANGED <<ctxDone, gate, left, hold, attempt, delay, verdict, live>>

\* The attempt failed in a way that may pass; h is the Retry-After header.
Retry(c, h) ==
  IF TriesLeft(c)
  THEN /\ pc' = [pc EXCEPT ![c] = "backoff"]
       /\ \E hint \in Understood(h) : left' = [left EXCEPT ![c] = Pause(c, hint)]
       /\ hold' = [hold EXCEPT ![c] = Least(h.ticks, MaxBackoff)]
       /\ UNCHANGED <<ctxDone, gate, callVars>>
  ELSE Return(c, "error")

\* The context aborts the request, before or after it went out.  To post it
\* is a network error like any other.
Abort(c) ==
  /\ pc[c] \in {"post", "sent"}
  /\ Aborts
  /\ Retry(c, NoHeader)

NetworkError(c) == pc[c] = "sent" /\ Retry(c, NoHeader)

Reply(c) ==
  /\ pc[c] = "sent"
  /\ \E r \in Replies : IF IsTransient(r) THEN Retry(c, Hint(r))
                                          ELSE Return(c, Judge(r))

\* The timer of the backoff fires.
Resume(c) ==
  /\ pc[c] = "backoff"
  /\ left[c] = 0
  /\ pc' = [pc EXCEPT ![c] = "loop"]
  /\ attempt' = [attempt EXCEPT ![c] = NextAttempt(c)]
  /\ delay' = [delay EXCEPT ![c] = NextDelay(c)]
  /\ UNCHANGED <<ctxDone, gate, left, verdict, live, hold, requests>>

LeaveBackoff(c) ==
  /\ pc[c] = "backoff"
  /\ ctxDone
  /\ Return(c, "error")

-----------------------------------------------------------------------------
(* The run and the clock.                                                  *)

Cancel ==
  /\ ~ctxDone
  /\ ctxDone' = TRUE
  /\ UNCHANGED <<gate, pc, left, hold, callVars>>

Elapsed(t) == IF t > 0 THEN t - 1 ELSE 0

Tick ==
  /\ gate > 0 \/ \E c \in Callers : left[c] > 0 \/ hold[c] > 0
  /\ gate' = Elapsed(gate)
  /\ left' = [c \in Callers |-> Elapsed(left[c])]
  /\ hold' = [c \in Callers |-> Elapsed(hold[c])]
  /\ UNCHANGED <<ctxDone, pc, callVars>>

\* What a caller does without waiting for the endpoint.
Run(c) ==
  \/ CheckContext(c) \/ Claim(c) \/ PassGate(c) \/ LeaveGate(c) \/ Send(c)
  \/ Abort(c) \/ Resume(c) \/ LeaveBackoff(c)

\* What the endpoint, or the network, does for it.
Served(c) == NetworkError(c) \/ Reply(c)

Next == Cancel \/ Tick \/ \E c \in Callers : Begin(c) \/ Run(c) \/ Served(c)

Spec == Init /\ [][Next]_vars

(***************************************************************************)
(* Fairness.  Time passes and goroutines are scheduled.  That every        *)
(* request is answered, or fails, is a separate assumption.                *)
(***************************************************************************)
FairSpec == Spec /\ WF_vars(Tick) /\ \A c \in Callers : WF_vars(Run(c))

Endpoint == \A c \in Callers : WF_vars(Served(c))

-----------------------------------------------------------------------------
(* Types.                                                                  *)

TypeOK ==
  /\ ctxDone \in BOOLEAN
  /\ gate \in Nat
  /\ pc \in [Callers -> {"idle", "loop", "claim", "gate", "post", "sent", "backoff"}]
  /\ attempt \in [Callers -> 0..MaxRetries]
  /\ delay \in [Callers -> Nat]
  /\ left \in [Callers -> Nat]
  /\ verdict \in [Callers -> {"value", "overload", "error"}]
  /\ live \in [Callers -> BOOLEAN]
  /\ hold \in [Callers -> Nat]
  /\ requests \in [Callers -> Nat]

-----------------------------------------------------------------------------
(* Safety.                                                                 *)

\* The callers whose slot is still to come.
Queue == {c \in Callers : pc[c] = "gate" /\ left[c] > 0}

\* Concurrent callers queue behind each other "rather than letting them
\* sleep the same interval": any two slots still to come, and the last of
\* them and the next one to be claimed, are at least an interval apart.
SlotsSpaced ==
  /\ \A c \in Queue : left[c] + Interval =< gate
  /\ \A c, d \in Queue : c # d => left[c] + Interval =< left[d]
                                  \/ left[d] + Interval =< left[c]

\* Nor do they wait longer than the rate asks for: while the run goes on, a
\* caller waits at most one interval for each caller in the queue.
QueueBound ==
  ~ctxDone => \A c \in Queue : left[c] =< Interval * Cardinality(Queue)

\* Nor do the slots of callers that gave up pile up in front of the others:
\* whoever is still at the gate, after a cancellation too, waits at most one
\* interval for each caller there is.
WaitBound ==
  \A c \in Callers : pc[c] = "gate" => left[c] =< Interval * Cardinality(Callers)

\* A caller told by a number of seconds to stay away does so for as long as
\* it was told, up to maxBackoff, however the slots fall.  This is not so of
\* every Retry-After, as docs/extraction.md:101 has it: a date is passed over
\* (internal/llm/llm.go:280), and a number too large for a time.Duration may be.
RetryAfterHonoured == \A c \in Callers : hold[c] > 0 => pc[c] = "backoff"

\* The endpoint may charge for a request whose answer is lost: however often
\* that happens, one call asks it at most maxRetries + 1 times
\* (internal/llm/llm.go:210-213).
RequestsBounded == \A c \in Callers : requests[c] =< MaxRetries + 1

\* The client is a Completer: a call that begins after the cancellation
\* ends with an error, and the cancellation ends every call.
Completed == [c \in Callers |-> IF pc[c] = "idle" THEN verdict[c]
                                ELSE IF live[c] THEN "open" ELSE "void"]
C == INSTANCE Completer WITH call <- Completed, cancelled <- ctxDone
ImplementsCompleter == C!Spec

-----------------------------------------------------------------------------
(* Liveness.                                                               *)

\* With an endpoint that ends every request, every call returns: retries run
\* out, and no caller is left behind in the queue for a slot.
CallsReturn == Endpoint => \A c \in Callers : pc[c] # "idle" ~> pc[c] = "idle"

\* "AITimeout bounds a single model call": a request ends, even when the
\* endpoint never answers it.
RequestTimesOut == \A c \in Callers : pc[c] = "sent" ~> pc[c] # "sent"
=============================================================================
