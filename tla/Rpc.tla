-------------------------------- MODULE Rpc --------------------------------
(***************************************************************************)
(* What the testing interface promises to the user of testing_client,      *)
(* whatever the transport: a request is executed once, as it was sent, its *)
(* response comes back to the call that sent it, and one request is        *)
(* handled at a time.  send_request returns true exactly for STATUS_OK,    *)
(* and then hands out the data the handler produced.                       *)
(***************************************************************************)
EXTENDS VptiTypes

CONSTANTS Requests,   \* the requests a client may send
          Answers     \* the responses the handlers of the VP may produce

VARIABLES phase,      \* of the call: "idle", "called" or "executed"
          call,       \* the request of the latest call
          exec,       \* the request the VP has executed for it
          answer,     \* the response the VP has produced for it
          result      \* what send_request has returned to its caller

vars == <<phase, call, exec, answer, result>>

NoResult == [ok |-> FALSE, message |-> NullMessage]

\* The status is always reported; data only reaches the caller with STATUS_OK.
Outcome(a) ==
    IF a.code = StatusOK THEN [ok |-> TRUE, message |-> a]
                         ELSE [ok |-> FALSE, message |-> Message(a.code, << >>)]

Init ==
    /\ phase = "idle"
    /\ call = NullMessage
    /\ exec = NullMessage
    /\ answer = NullMessage
    /\ result = NoResult

Call(q) ==
    /\ phase = "idle"
    /\ phase' = "called"
    /\ call' = q
    /\ result' = NoResult
    /\ UNCHANGED <<exec, answer>>

Execute(a) ==
    /\ phase = "called"
    /\ phase' = "executed"
    /\ exec' = call
    /\ answer' = a
    /\ UNCHANGED <<call, result>>

Return ==
    /\ phase = "executed"
    /\ phase' = "idle"
    /\ result' = Outcome(answer)
    /\ exec' = NullMessage
    /\ answer' = NullMessage
    /\ UNCHANGED call

Next ==
    \/ \E q \in Requests : Call(q)
    \/ \E a \in Answers : Execute(a)
    \/ Return

SafeSpec == Init /\ [][Next]_vars

\* A call that has been made is executed, and returns.  (As Execute and Return
\* stay enabled until they happen, this is their weak fairness.)
Progress ==
    /\ phase = "called" ~> phase = "executed"
    /\ phase = "executed" ~> phase = "idle"

Spec == SafeSpec /\ Progress

=============================================================================
