------------------------------ MODULE Completer ------------------------------
(***************************************************************************)
(* What the pipeline stages rely on when they share one llm.Completer      *)
(* between goroutines under one context: a call ends with a value or with  *)
(* an error, a call that begins after the cancellation can only end with   *)
(* an error, and once the context is cancelled every call ends.  The calls *)
(* of ExtractRun, whose job is live while its call may still be answered,  *)
(* are calls of this interface.                                            *)
(***************************************************************************)

CONSTANTS
  Callers         \* the goroutines that call

VARIABLES
  call,           \* what each caller's call is, or what the last one came to
  cancelled       \* the shared context is cancelled

vars == <<call, cancelled>>

\* A call is open when it began before the cancellation, and void otherwise.
Underway == {"open", "void"}
Verdicts == {"value", "overload", "error"}

Init ==
  /\ call = [c \in Callers |-> "error"]
  /\ cancelled = FALSE

Begin(c) ==
  /\ call[c] \in Verdicts
  /\ call' = [call EXCEPT ![c] = IF cancelled THEN "void" ELSE "open"]
  /\ UNCHANGED cancelled

Return(c) ==
  /\ call[c] \in Underway
  /\ \E v \in IF call[c] = "open" THEN Verdicts ELSE {"error"} :
       call' = [call EXCEPT ![c] = v]
  /\ UNCHANGED cancelled

Cancel ==
  /\ ~cancelled
  /\ cancelled' = TRUE
  /\ UNCHANGED call

Next == Cancel \/ \E c \in Callers : Begin(c) \/ Return(c)

SafeSpec == Init /\ [][Next]_vars

Spec == SafeSpec /\ \A c \in Callers : WF_vars(cancelled /\ Return(c))
=============================================================================
