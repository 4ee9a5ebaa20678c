--------------------------------- MODULE Mq ---------------------------------
(***************************************************************************)
(* mq_testing_client and mq_testing_communication over two POSIX message   *)
(* queues, which all clients and all VPs share: the first four bytes of a  *)
(* message are the pid of the VP it goes to or comes from, and a process   *)
(* that takes a message of another one is to put it back.                  *)
(***************************************************************************)
EXTENDS VptiTypes, FiniteSets

CONSTANTS
    Clients,        \* client processes
    Caller,         \* any one of them: the client the refinement is about
    Vps,            \* VP processes, named by their pids
    Receivers,      \* for each client, the pids it passes to set_receiver
    Patient,        \* whether users wait for a VP's ready message before they call it
    Requests,       \* requests a client sends
    Answers,        \* responses of the VPs' handlers
    Ready,          \* what follows the pid in a ready message
    MaxMsg,         \* MQ_MAX_MSG
    MaxLength,      \* MQ_MAX_LENGTH
    MayExit,        \* processes that may end
    MaxExits        \* bound: ends of processes in a behaviour

Broadcast == 0      \* the receiver_id of a new client; no process has it

PidLength == 4      \* sizeof(pid_t)

ASSUME MqAssumption ==
    /\ Caller \in Clients
    /\ IsFiniteSet(Vps) /\ Broadcast \notin Vps
    /\ Receivers \in [Clients -> SUBSET (Vps \cup {Broadcast})]
    /\ Patient \in BOOLEAN
    /\ \A m \in Requests \cup Answers \cup {Ready} : m.len = Len(m.data) /\ m.len \in Nat
    /\ \A a \in Answers : a.code \in {StatusOK, StatusError, StatusMalformed}
    /\ Ready \notin Answers
    /\ MaxMsg \in Nat \ {0} /\ MaxLength \in Nat /\ MaxExits \in Nat
    /\ MayExit \subseteq Clients \cup Vps

VARIABLES
    requests,   \* the request queue
    responses,  \* the response queue
    cpc,        \* where each client is
    receiver,   \* m_receiver_id of each client
    started,    \* m_started of each client
    met,        \* the VPs whose ready message each client has received
    call,       \* the request of each client's latest send_request
    res,        \* the response struct of send_request's caller
    outcome,    \* what each client's latest send_request returned
    spc,        \* where the receiver thread of each VP is
    held,       \* a message of another VP that receive_request has taken
    sreq,       \* m_current_req of each VP
    sres,       \* m_current_res of each VP
    gone,       \* processes that have ended
    executed    \* history: VPs that have handled a call which has not returned

queueVars  == <<requests, responses>>
clientVars == <<cpc, receiver, started, met, call, res, outcome>>
serverVars == <<spc, held, sreq, sres>>
vars == <<queueVars, clientVars, serverVars, gone, executed>>

ClientStates == {"idle", "ready", "send", "recv"}
ServerStates == {"off", "recv", "put_back", "handle", "send"}

Envelope(pid, m) == [pid |-> pid, body |-> m]

\* Mutant of HasRoom: the limit is the one of an open descriptor, not checked.
AlwaysRoom(queue) == TRUE

\* mq_send blocks while the queue is full.
HasRoom(queue) == Len(queue) < MaxMsg

\* A longer message is refused with EMSGSIZE.
Fits(m) == PidLength + 1 + m.len <= MaxLength

-----------------------------------------------------------------------------
(***************************************************************************)
(* The client.                                                             *)
(***************************************************************************)
\* The put-back of the client.  Its descriptor of the response queue is opened
\* O_RDONLY: mq_send fails with EBADF, nobody looks, and the message is lost.
PutBackResponse(queue, m) == queue

\* The user of a client turns to another VP.
SetReceiver(c, pid) ==
    /\ cpc[c] = "idle"
    /\ receiver' = [receiver EXCEPT ![c] = pid]
    /\ UNCHANGED <<queueVars, cpc, started, met, call, res, outcome, serverVars, executed>>

ResetReady(c) ==
    /\ cpc[c] = "idle"
    /\ started' = [started EXCEPT ![c] = FALSE]
    /\ UNCHANGED <<queueVars, cpc, receiver, met, call, res, outcome, serverVars, executed>>

\* Mutant of CheckForReady: it receives without a look at the number of messages.
CheckWithoutLook(c) ==
    /\ cpc[c] = "idle"
    /\ cpc' = [cpc EXCEPT ![c] = "ready"]
    /\ UNCHANGED <<queueVars, receiver, started, met, call, res, outcome, serverVars,
                   executed>>

\* check_for_ready up to its look at the number of messages; wait_for_ready
\* repeats it.  With an empty queue it returns and nothing has happened.
CheckForReady(c) ==
    /\ cpc[c] = "idle"
    /\ responses # << >>
    /\ cpc' = [cpc EXCEPT ![c] = "ready"]
    /\ UNCHANGED <<queueVars, receiver, started, met, call, res, outcome, serverVars,
                   executed>>

\* The rest of it: the receive would block if another client was faster.
ReceiveReady(c) ==
    /\ cpc[c] = "ready"
    /\ responses # << >>
    /\ cpc' = [cpc EXCEPT ![c] = "idle"]
    /\ LET m == Head(responses)
       IN  \/ /\ m.pid # receiver[c]
              /\ responses' = PutBackResponse(Tail(responses), m)
              /\ UNCHANGED <<started, met>>
           \/ /\ m.pid = receiver[c]
              /\ responses' = Tail(responses)
              /\ IF m.body = Ready
                 THEN /\ started' = [started EXCEPT ![c] = TRUE]
                      /\ met' = [met EXCEPT ![c] = @ \cup {m.pid}]
                 ELSE UNCHANGED <<started, met>>
    /\ UNCHANGED <<requests, receiver, call, res, outcome, serverVars, executed>>

\* The code asks for started only, which any VP's ready message has set; a user
\* who is patient has received that of the VP he sends to.  A request that is too
\* long is logged and then copied behind the end of a buffer, which is undefined
\* behaviour: whatever comes of it, there is no such call here.
SendRequest(c, q) ==
    /\ cpc[c] = "idle"
    /\ started[c]
    /\ Patient => receiver[c] \in met[c]
    /\ Fits(q)
    /\ cpc' = [cpc EXCEPT ![c] = "send"]
    /\ call' = [call EXCEPT ![c] = q]
    /\ outcome' = [outcome EXCEPT ![c] = "none"]
    /\ UNCHANGED <<queueVars, receiver, started, met, res, serverVars, executed>>

Return(c, how, struct) ==
    /\ cpc' = [cpc EXCEPT ![c] = "idle"]
    /\ outcome' = [outcome EXCEPT ![c] = how]
    /\ res' = [res EXCEPT ![c] = struct]

\* mq_send of the request.
Send(c) ==
    /\ cpc[c] = "send"
    /\ HasRoom(requests)
    /\ requests' = Append(requests, Envelope(receiver[c], call[c]))
    /\ cpc' = [cpc EXCEPT ![c] = "recv"]
    /\ UNCHANGED <<responses, receiver, started, met, call, res, outcome, serverVars,
                   executed>>

\* Mutant of IsFor: whatever comes is taken for the response.
IsForAnyone(m, pid) == TRUE

IsFor(m, pid) == m.pid = pid

\* One round of the receive loop.
Receive(c) ==
    /\ cpc[c] = "recv"
    /\ responses # << >>
    /\ LET m == Head(responses)
           failure == [code |-> m.body.code, len |-> res[c].len, data |-> << >>]
       IN  \/ /\ ~IsFor(m, receiver[c])
              /\ responses' = PutBackResponse(Tail(responses), m)
              /\ UNCHANGED <<cpc, outcome, res, executed>>
           \/ /\ IsFor(m, receiver[c])
              /\ responses' = Tail(responses)
              /\ IF m.body.code \in {StatusError, StatusMalformed}
                 THEN Return(c, "failed", failure)
                 ELSE Return(c, "ok", m.body)
              /\ executed' = executed \ {receiver[c]}
    /\ UNCHANGED <<requests, receiver, started, met, call, serverVars>>

-----------------------------------------------------------------------------
(***************************************************************************)
(* The VP.                                                                 *)
(***************************************************************************)
Start(v) ==
    /\ spc[v] = "off"
    /\ HasRoom(responses)
    /\ responses' = Append(responses, Envelope(v, Ready))
    /\ spc' = [spc EXCEPT ![v] = "recv"]
    /\ UNCHANGED <<requests, clientVars, held, sreq, sres, executed>>

\* Mutant of Accepts: the VP does not look at the pid.
AcceptsAll(v, m) == TRUE

Accepts(v, m) == m.pid \in {Broadcast, v}

\* Mutant of ReceiveRequest: the message of another VP is copied, not taken.
CopyRequest(v) ==
    /\ spc[v] = "recv"
    /\ requests # << >>
    /\ LET m == Head(requests)
       IN  \/ /\ Accepts(v, m)
              /\ requests' = Tail(requests)
              /\ sreq' = [sreq EXCEPT ![v] = m.body]
              /\ spc' = [spc EXCEPT ![v] = "handle"]
              /\ UNCHANGED held
           \/ /\ ~Accepts(v, m)
              /\ held' = [held EXCEPT ![v] = m]
              /\ spc' = [spc EXCEPT ![v] = "put_back"]
              /\ UNCHANGED <<requests, sreq>>
    /\ UNCHANGED <<responses, clientVars, sres, executed>>

ReceiveRequest(v) ==
    /\ spc[v] = "recv"
    /\ requests # << >>
    /\ requests' = Tail(requests)
    /\ LET m == Head(requests)
       IN  \/ /\ Accepts(v, m)
              /\ sreq' = [sreq EXCEPT ![v] = m.body]
              /\ spc' = [spc EXCEPT ![v] = "handle"]
              /\ UNCHANGED held
           \/ /\ ~Accepts(v, m)
              /\ held' = [held EXCEPT ![v] = m]
              /\ spc' = [spc EXCEPT ![v] = "put_back"]
              /\ UNCHANGED sreq
    /\ UNCHANGED <<responses, clientVars, sres, executed>>

\* The put-back of the VP, whose descriptor is opened O_RDWR, works.
PutBackRequest(v) ==
    /\ spc[v] = "put_back"
    /\ HasRoom(requests)
    /\ requests' = Append(requests, held[v])
    /\ spc' = [spc EXCEPT ![v] = "recv"]
    /\ UNCHANGED <<responses, clientVars, held, sreq, sres, executed>>

HandleRequest(v, a) ==
    /\ spc[v] = "handle"
    /\ spc' = [spc EXCEPT ![v] = "send"]
    /\ sres' = [sres EXCEPT ![v] = a]
    /\ executed' = executed \cup {v}
    /\ UNCHANGED <<queueVars, clientVars, held, sreq>>

\* Mutant of SendResponse: a full queue loses the response.
SendOrDrop(v) ==
    /\ spc[v] = "send"
    /\ responses' = IF HasRoom(responses)
                    THEN Append(responses, Envelope(v, sres[v])) ELSE responses
    /\ spc' = [spc EXCEPT ![v] = "recv"]
    /\ UNCHANGED <<requests, clientVars, held, sreq, sres, executed>>

\* A response that is too long is only logged; mq_send then refuses it.
SendResponse(v) ==
    /\ spc[v] = "send"
    /\ \/ ~Fits(sres[v]) /\ UNCHANGED responses
       \/ /\ Fits(sres[v])
          /\ HasRoom(responses)
          /\ responses' = Append(responses, Envelope(v, sres[v]))
    /\ spc' = [spc EXCEPT ![v] = "recv"]
    /\ UNCHANGED <<requests, clientVars, held, sreq, sres, executed>>

-----------------------------------------------------------------------------
\* A process ends.  The queues outlive it, and start does not clear them.
Exit(p) ==
    /\ p \in MayExit \ gone
    /\ Cardinality(gone) < MaxExits
    /\ gone' = gone \cup {p}
    /\ UNCHANGED <<queueVars, clientVars, serverVars, executed>>

Init ==
    /\ requests = << >> /\ responses = << >>
    /\ cpc = [c \in Clients |-> "idle"]
    /\ receiver = [c \in Clients |-> Broadcast]
    /\ started = [c \in Clients |-> FALSE]
    /\ met = [c \in Clients |-> {}]
    /\ call = [c \in Clients |-> NullMessage]
    /\ res = [c \in Clients |-> NullMessage]
    /\ outcome = [c \in Clients |-> "none"]
    /\ spc = [v \in Vps |-> "off"]
    /\ held = [v \in Vps |-> Envelope(v, NullMessage)]
    /\ sreq = [v \in Vps |-> NullMessage]
    /\ sres = [v \in Vps |-> NullMessage]
    /\ gone = {} /\ executed = {}

\* What a client does once it has called check_for_ready or send_request.
ClientStep(c) ==
    /\ c \notin gone /\ UNCHANGED gone
    /\ ReceiveReady(c) \/ Send(c) \/ Receive(c)

UserStep(c) ==
    /\ c \notin gone /\ UNCHANGED gone
    /\ \/ \E pid \in Receivers[c] : SetReceiver(c, pid)
       \/ ResetReady(c)
       \/ CheckForReady(c)
       \/ \E q \in Requests : SendRequest(c, q)

TakeRequest(v) == v \notin gone /\ UNCHANGED gone /\ ReceiveRequest(v)

ServerStep(v) ==
    /\ v \notin gone /\ UNCHANGED gone
    /\ \/ PutBackRequest(v)
       \/ \E a \in Answers : HandleRequest(v, a)
       \/ SendResponse(v)

StartStep(v) == v \notin gone /\ UNCHANGED gone /\ Start(v)

Next ==
    \/ \E c \in Clients : UserStep(c) \/ ClientStep(c)
    \/ \E v \in Vps : StartStep(v) \/ TakeRequest(v) \/ ServerStep(v)
    \/ \E p \in Clients \cup Vps : Exit(p)

Spec == Init /\ [][Next]_vars

\* Every process is scheduled and every handler returns.  A message that is put
\* back goes to the process that has waited longest, so a VP that waits is not
\* passed over for ever: strong fairness of its receive.
FairSpec ==
    /\ Spec
    /\ \A c \in Clients : WF_vars(ClientStep(c))
    /\ \A v \in Vps : WF_vars(ServerStep(v)) /\ SF_vars(TakeRequest(v))

-----------------------------------------------------------------------------
(***************************************************************************)
(* Properties.                                                             *)
(***************************************************************************)
Envelopes(bodies) == [pid : Vps, body : bodies]

\* What send_request makes of the response struct when it fails: the length is
\* not assigned.
Failures == [code : {StatusError, StatusMalformed}, len : Nat, data : {<< >>}]

\* Every variable holds values of its kind, no queue holds more messages, or
\* longer ones, than it was created for, and each message has the pid of a VP.
TypeOK ==
    /\ requests \in Seq(Envelopes(Requests)) /\ Len(requests) <= MaxMsg
    /\ responses \in Seq(Envelopes(Answers \cup {Ready})) /\ Len(responses) <= MaxMsg
    /\ \A i \in 1 .. Len(requests) : Fits(requests[i].body)
    /\ cpc \in [Clients -> ClientStates]
    /\ receiver \in [Clients -> Vps \cup {Broadcast}]
    /\ started \in [Clients -> BOOLEAN]
    /\ met \in [Clients -> SUBSET Vps]
    /\ call \in [Clients -> Requests \cup {NullMessage}]
    /\ res \in [Clients -> Answers \cup Failures \cup {NullMessage}]
    /\ outcome \in [Clients -> {"none", "ok", "failed"}]
    /\ spc \in [Vps -> ServerStates]
    /\ held \in [Vps -> Envelopes(Requests \cup {NullMessage})]
    /\ sreq \in [Vps -> Requests \cup {NullMessage}]
    /\ sres \in [Vps -> Answers \cup {NullMessage}]
    /\ gone \subseteq Clients \cup Vps
    /\ executed \subseteq Vps

Waiting(c) == cpc[c] = "recv"

Executed(c) == Waiting(c) /\ receiver[c] \in executed

InRequests(v)  == {i \in 1 .. Len(requests) : requests[i].pid = v}
Holders(v)     == {w \in Vps : spc[w] = "put_back" /\ held[w].pid = v}
InResponses(v) == {i \in 1 .. Len(responses) :
                     responses[i].pid = v /\ responses[i].body # Ready}

\* A request that was sent and is not yet executed exists exactly once: in the
\* queue, in the hands of a VP that puts it back, or with the VP it was sent to.
\* VPs that take each other's requests neither lose nor double one.
RequestsKept ==
    \A c \in Clients : Waiting(c) /\ ~Executed(c) /\ receiver[c] \in Vps =>
        LET v == receiver[c]
        IN  Cardinality(InRequests(v)) + Cardinality(Holders(v))
              + (IF spc[v] = "handle" THEN 1 ELSE 0) = 1

\* A client waits for a response that was made and that nobody has any more: it
\* waits for ever.
ResponseLost(c) ==
    Executed(c) /\ spc[receiver[c]] # "send" /\ InResponses(receiver[c]) = {}

\* A response that was made and has not been received by the client that waits
\* for it is on its way: not yet sent, or in the queue.  ("Put message back into
\* the queue", and "it will send the data in multiple messages".)
ResponsesKept == \A c \in Clients : ~ResponseLost(c)

\* Another client than c takes a message out of the queue, in its receive loop or
\* in check_for_ready.
AnotherTakes(c) ==
    /\ responses # << >> /\ responses' = Tail(responses)
    /\ \E d \in Clients \ (gone \cup {c}) : cpc[d] \in {"ready", "recv"}

\* The one it takes is the response that c waits for.
TakenByAnother(c) == AnotherTakes(c) /\ Head(responses).pid = receiver[c]

\* The two ways in which a response is lost: it is longer than a message, or
\* another client takes it.  Nothing else that clients and VPs do to the queues
\* they share loses one, a full queue, a put-back or an end of a process.
LossesExplained ==
    [][\A c \in Clients : ResponseLost(c)' =>
          \/ ResponseLost(c)
          \/ spc[receiver[c]] = "send" /\ ~Fits(sres[receiver[c]])
          \/ TakenByAnother(c)]_vars

\* check_for_ready waits in its receive.
Blocks(c) == cpc[c] = "ready" /\ responses = << >>

\* "Check for the ready message once, without blocking": it does block, but in one
\* way only, when another client takes the message that it has seen before it
\* receives it.  With one client it never blocks.
BlocksByOthersOnly ==
    [][\A c \in Clients : Blocks(c)' => Blocks(c) \/ AnotherTakes(c)]_vars

\* While a request is in the queue some VP waits to receive from it: never do all
\* VPs execute, or wait to put a message back with the mq_send of
\* receive_request, which blocks.  A VP is used by the client that got its one
\* ready message, so there are never more requests than VPs.
NeverStuck == requests # << >> => \E v \in Vps : spc[v] = "recv"

\* Clients and VPs whose next system call does not block.
ClientGoes(c) ==
    /\ c \notin gone
    /\ \/ cpc[c] \in {"ready", "recv"} /\ responses # << >>
       \/ cpc[c] = "send" /\ HasRoom(requests)

VpGoes(v) ==
    /\ v \notin gone
    /\ \/ spc[v] = "recv" /\ requests # << >>
       \/ spc[v] = "put_back" /\ HasRoom(requests)
       \/ spc[v] = "handle"
       \/ spc[v] = "send" /\ (HasRoom(responses) \/ ~Fits(sres[v]))

\* Nobody waits for everybody: as long as no VP has ended, a client inside
\* send_request, whose response is not lost, can go on itself or there is a VP
\* that can, whatever the other clients do, and though both queues be full and
\* VPs hold requests of each other in their hands.
CallsGoOn ==
    gone \cap Vps = {} =>
        \A c \in Clients \ gone : cpc[c] \in {"send", "recv"} /\ ~ResponseLost(c) =>
            ClientGoes(c) \/ \E v \in Vps : VpGoes(v)

\* The Caller and the VPs together implement the calls of module Rpc.
Phase ==
    IF cpc[Caller] \in {"idle", "ready"} THEN "idle"
    ELSE IF Executed(Caller) THEN "executed" ELSE "called"

Shown(m) == IF Executed(Caller) THEN m[receiver[Caller]] ELSE NullMessage

Returned ==
    CASE outcome[Caller] = "none" -> [ok |-> FALSE, message |-> NullMessage]
      [] outcome[Caller] = "ok" -> [ok |-> TRUE, message |-> res[Caller]]
      [] outcome[Caller] = "failed" ->
           [ok |-> FALSE, message |-> Message(res[Caller].code, << >>)]

R == INSTANCE Rpc WITH
        phase <- Phase, call <- call[Caller], exec <- Shown(sreq),
        answer <- Shown(sres), result <- Returned

\* Every call is executed once, as it was sent and by the VP it was sent to, and
\* its own response is what it returns, whatever other clients and VPs do with
\* the two queues they all share.
ImplementsRpcSafely == R!SafeSpec

\* With one client every call is also executed, and returns.
ImplementsRpc == R!Spec

=============================================================================
