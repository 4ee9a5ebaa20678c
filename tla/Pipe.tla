-------------------------------- MODULE Pipe --------------------------------
(***************************************************************************)
(* pipe_testing_client and pipe_testing_communication over two pipes, with *)
(* the receiver loop of testing_receiver that drives the latter.           *)
(*                                                                         *)
(* A pipe is a byte stream: what one side writes as a header and data, the *)
(* other side must cut apart again by itself.  reqs and resps hold the     *)
(* bytes written and not yet read.  Each process is a program counter and  *)
(* the variables of the function it is in; a step is one system call.      *)
(***************************************************************************)
EXTENDS Codec, VptiTypes, FiniteSets

CONSTANTS
    Requests,       \* requests a client sends: messages with a command code
    Answers,        \* responses of the VP's handlers: messages with a status
    Ready,          \* the bytes of the ready message, "ready" and a 0
    Capacity,       \* bytes a pipe holds
    MaxErrors,      \* PIPE_READ_ERROR_MAX
    Failing,        \* which reads and writes may return -1
    MaxFaults,      \* bound: such failures in a behaviour
    ExitAt,         \* client states in which the VP process may end
    MaxExits        \* bound: ends of the VP process in a behaviour

HeaderLen == 5      \* sizeof(uint32_t) + 1

IsMessage(m) ==
    /\ m = [code |-> m.code, len |-> m.len, data |-> m.data]
    /\ m.code \in Byte
    /\ m.data \in Seq(Byte)
    /\ m.len = Len(m.data)
    /\ m.len \in UInt32

Statuses == {StatusOK, StatusError, StatusMalformed}

ASSUME PipeAssumption ==
    /\ \A q \in Requests : IsMessage(q)
    /\ \A a \in Answers : IsMessage(a) /\ a.code \in Statuses
    /\ Ready \in Seq(Byte) /\ Ready # << >>
    /\ Capacity \in Nat /\ Capacity >= HeaderLen /\ Capacity >= Len(Ready)
    /\ MaxErrors \in Nat \ {0}
    /\ Failing \subseteq {"c_send_header", "c_send_data", "c_recv_header", "c_recv_data",
                       "s_send_header", "s_send_data", "s_recv_header", "s_recv_data"}
    /\ MaxFaults \in Nat /\ MaxExits \in Nat

VARIABLES
    reqs,       \* bytes in the request pipe
    resps,      \* bytes in the response pipe
    cpc,        \* where the client is
    call,       \* the request of send_request
    cpend,      \* request data not yet written
    res,        \* the response struct of send_request's caller
    cerr,       \* error_count of send_request's read loop
    outcome,    \* what the latest send_request returned
    spc,        \* where the receiver thread is
    sreq,       \* m_current_req
    serr,       \* error_count of receive_request's read loop
    sres,       \* m_current_res
    spend,      \* response data not yet written
    faults,     \* failed reads and writes so far
    exits,      \* ends of the VP process so far
    executed    \* history: the current call has been handled

clientVars == <<cpc, call, cpend, res, cerr, outcome>>
serverVars == <<spc, sreq, serr, sres, spend>>
boundVars  == <<faults, exits>>
vars == <<reqs, resps, clientVars, serverVars, boundVars, executed>>

ClientStates == {"waiting", "idle", "send_header", "send_data",
                 "recv_header", "recv_data"}
ServerStates == {"off", "recv_header", "recv_data", "handle",
                 "send_header", "send_data"}

-----------------------------------------------------------------------------
(***************************************************************************)
(* Pipes.  A read blocks while the pipe is empty and then returns what is  *)
(* there, up to n bytes.  A header is written at once (it is shorter than  *)
(* PIPE_BUF); data is written as far as there is room.                     *)
(***************************************************************************)
\* Mutant of Rest: an off-by-one, the last byte is written or read again.
RestFromLast(n, s) == SubSeq(s, n, Len(s))

First(n, s) == SubSeq(s, 1, n)
Rest(n, s)  == SubSeq(s, n + 1, Len(s))

ReadSize(n, s) == IF Len(s) < n THEN Len(s) ELSE n

HasRoom(n, s) == Len(s) + n <= Capacity

Header(m) == <<m.code>> \o Int32ToBytes(m.len)

HeaderMessage(b) == [code |-> b[1], len |-> BytesToInt32(b, 1), data |-> << >>]

\* Mutant of DataExpected: an off-by-one in the test of the length.
MoreThanTwo(len) == len > 2

\* The condition under which either side reads data after a header.
DataExpected(len) == len > 1

\* Mutant of Complete: one read without the loop around it.
AnyRead(m) == TRUE

\* The loop condition of both read loops, negated.
Complete(m) == Len(m.data) = m.len

\* One read of a data loop: what is missing, as far as it is there.
Missing(m) == m.len - Len(m.data)
Extend(m, s) ==
    [code |-> m.code, len |-> m.len,
     data |-> m.data \o First(ReadSize(Missing(m), s), s)]

-----------------------------------------------------------------------------
(***************************************************************************)
(* The client.                                                             *)
(***************************************************************************)
\* send_request returns.  The history variable forgets the call.
Return(how, struct) ==
    /\ cpc' = "idle"
    /\ outcome' = how
    /\ res' = struct
    /\ executed' = FALSE

\* Mutant of CheckForReady: the terminator of the ready message is not read.
ReadyWithoutTerminator ==
    /\ cpc = "waiting"
    /\ Len(resps) >= HeaderLen
    /\ resps' = Rest(HeaderLen, resps)
    /\ cpc' = "idle"
    /\ UNCHANGED <<reqs, call, cpend, res, cerr, outcome, serverVars, boundVars, executed>>

\* One round of wait_for_ready: a message of six bytes that is not the ready
\* message is consumed, too.
CheckForReady ==
    /\ cpc = "waiting"
    /\ Len(resps) >= Len(Ready)
    /\ resps' = Rest(Len(Ready), resps)
    /\ cpc' = IF First(Len(Ready), resps) = Ready THEN "idle" ELSE "waiting"
    /\ UNCHANGED <<reqs, call, cpend, res, cerr, outcome, serverVars, boundVars, executed>>

\* The user of the client calls reset_ready before it starts the VP anew.
ResetReady ==
    /\ cpc = "idle"
    /\ spc = "off"
    /\ cpc' = "waiting"
    /\ UNCHANGED <<reqs, resps, call, cpend, res, cerr, outcome, serverVars, boundVars,
                   executed>>

SendRequest(q) ==
    /\ cpc = "idle"
    /\ cpc' = "send_header"
    /\ call' = q
    /\ outcome' = "none"
    /\ UNCHANGED <<reqs, resps, cpend, res, cerr, serverVars, boundVars, executed>>

WriteRequestHeader ==
    /\ cpc = "send_header"
    /\ HasRoom(HeaderLen, reqs)
    /\ reqs' = reqs \o Header(call)
    /\ cpend' = call.data
    /\ cpc' = IF call.data = << >> THEN "recv_header" ELSE "send_data"
    /\ UNCHANGED <<resps, call, res, cerr, outcome, serverVars, boundVars, executed>>

\* The write of the data puts as much into the pipe as the reader makes room for.
WriteRequestData ==
    /\ cpc = "send_data"
    /\ \E n \in 1 .. Len(cpend) :
         /\ HasRoom(n, reqs)
         /\ reqs' = reqs \o First(n, cpend)
         /\ cpend' = Rest(n, cpend)
         /\ cpc' = IF n = Len(cpend) THEN "recv_header" ELSE "send_data"
    /\ UNCHANGED <<resps, call, res, cerr, outcome, serverVars, boundVars, executed>>

\* A header that comes short is dropped and leaves the response struct as it
\* was.  With an error status the length is neither stored nor used.
ReadResponseHeader ==
    /\ cpc = "recv_header"
    /\ resps # << >>
    /\ LET n == ReadSize(HeaderLen, resps)
           m == HeaderMessage(resps)
       IN  /\ resps' = Rest(n, resps)
           /\ \/ /\ n < HeaderLen
                 /\ Return("failed", res)
                 /\ UNCHANGED cerr
              \/ /\ n = HeaderLen
                 /\ m.code \in {StatusError, StatusMalformed}
                 /\ Return("failed", [code |-> m.code, len |-> res.len, data |-> << >>])
                 /\ UNCHANGED cerr
              \/ /\ n = HeaderLen
                 /\ m.code \notin {StatusError, StatusMalformed}
                 /\ ~DataExpected(m.len)
                 /\ Return("ok", m)
                 /\ UNCHANGED cerr
              \/ /\ n = HeaderLen
                 /\ m.code \notin {StatusError, StatusMalformed}
                 /\ DataExpected(m.len)
                 /\ cpc' = "recv_data"
                 /\ res' = m
                 /\ cerr' = 0
                 /\ UNCHANGED <<outcome, executed>>
    /\ UNCHANGED <<reqs, call, cpend, serverVars, boundVars>>

ReadResponseData ==
    /\ cpc = "recv_data"
    /\ resps # << >>
    /\ resps' = Rest(ReadSize(Missing(res), resps), resps)
    /\ LET m == Extend(res, resps)
       IN  \/ /\ Complete(m)
              /\ Return("ok", m)
           \/ /\ ~Complete(m)
              /\ res' = m
              /\ UNCHANGED <<cpc, outcome, executed>>
    /\ UNCHANGED <<reqs, call, cpend, cerr, serverVars, boundVars>>

-----------------------------------------------------------------------------
(***************************************************************************)
(* The VP: start, and the receiver loop around receive_request,            *)
(* handle_request and send_response.                                       *)
(***************************************************************************)
\* The VP is started while the client waits for it.
Start ==
    /\ spc = "off"
    /\ cpc = "waiting"
    /\ HasRoom(Len(Ready), resps)
    /\ resps' = resps \o Ready
    /\ spc' = "recv_header"
    /\ UNCHANGED <<reqs, clientVars, sreq, serr, sres, spend, boundVars, executed>>

\* receive_request up to its read loop.  A header that comes short is dropped.
ReceiveHeader ==
    /\ spc = "recv_header"
    /\ reqs # << >>
    /\ LET n == ReadSize(HeaderLen, reqs)
           m == HeaderMessage(reqs)
       IN  /\ reqs' = Rest(n, reqs)
           /\ \/ /\ n < HeaderLen
                 /\ UNCHANGED <<spc, sreq, serr>>
              \/ /\ n = HeaderLen
                 /\ spc' = IF DataExpected(m.len) THEN "recv_data" ELSE "handle"
                 /\ sreq' = m
                 /\ serr' = 0
    /\ UNCHANGED <<resps, clientVars, sres, spend, boundVars, executed>>

ReceiveData ==
    /\ spc = "recv_data"
    /\ reqs # << >>
    /\ reqs' = Rest(ReadSize(Missing(sreq), reqs), reqs)
    /\ sreq' = Extend(sreq, reqs)
    /\ spc' = IF Complete(sreq') THEN "handle" ELSE "recv_data"
    /\ UNCHANGED <<resps, clientVars, serr, sres, spend, boundVars, executed>>

\* handle_request, whichever handler it calls.
HandleRequest(a) ==
    /\ spc = "handle"
    /\ spc' = "send_header"
    /\ sres' = a
    /\ executed' = TRUE
    /\ UNCHANGED <<reqs, resps, clientVars, sreq, serr, spend, boundVars>>

SendHeader ==
    /\ spc = "send_header"
    /\ HasRoom(HeaderLen, resps)
    /\ resps' = resps \o Header(sres)
    /\ spend' = sres.data
    /\ spc' = IF sres.data = << >> THEN "recv_header" ELSE "send_data"
    /\ UNCHANGED <<reqs, clientVars, sreq, serr, sres, boundVars, executed>>

SendData ==
    /\ spc = "send_data"
    /\ \E n \in 1 .. Len(spend) :
         /\ HasRoom(n, resps)
         /\ resps' = resps \o First(n, spend)
         /\ spend' = Rest(n, spend)
         /\ spc' = IF n = Len(spend) THEN "recv_header" ELSE "send_data"
    /\ UNCHANGED <<reqs, clientVars, sreq, serr, sres, boundVars, executed>>

\* The VP process ends.  The client holds both ends of both pipes, so their
\* bytes stay and no read ever sees an end of file.
VpExit ==
    /\ spc # "off"
    /\ cpc \in ExitAt
    /\ exits < MaxExits
    /\ exits' = exits + 1
    /\ spc' = "off"
    /\ sreq' = NullMessage /\ serr' = 0
    /\ sres' = NullMessage /\ spend' = << >>
    /\ UNCHANGED <<reqs, resps, clientVars, faults, executed>>

-----------------------------------------------------------------------------
(***************************************************************************)
(* System calls that return -1: a signal, or an error of the pipe.         *)
(***************************************************************************)
Fail(what) ==
    /\ what \in Failing
    /\ faults < MaxFaults
    /\ faults' = faults + 1

\* Mutant of GiveUp: the first error ends the loop.
GiveUpAtOnce(errors) == errors >= 1

\* Mutant of GiveUp: an off-by-one, one more error is tolerated.
GiveUpLate(errors) == errors > MaxErrors

GiveUp(errors) == errors >= MaxErrors

\* send_request returns before anything of the request is written, or before
\* anything of its response is read.  The struct keeps what it held.
ClientHeaderFails ==
    /\ \/ cpc = "send_header" /\ Fail("c_send_header")
       \/ cpc = "recv_header" /\ Fail("c_recv_header")
    /\ Return("failed", res)
    /\ UNCHANGED <<reqs, resps, call, cpend, cerr, serverVars, exits>>

\* A write that fails half way returns the bytes it has written, which is not
\* the -1 the code looks for: it goes on as if the rest were written, too.
ClientWriteFails ==
    /\ cpc = "send_data"
    /\ Fail("c_send_data")
    /\ cpend' = << >>
    /\ \/ cpend = call.data /\ Return("failed", res)
       \/ cpend # call.data /\ cpc' = "recv_header" /\ UNCHANGED <<res, outcome, executed>>
    /\ UNCHANGED <<reqs, resps, call, cerr, serverVars, exits>>

ClientReadFails ==
    /\ cpc = "recv_data"
    /\ Fail("c_recv_data")
    /\ cerr' = cerr + 1
    /\ \/ GiveUp(cerr') /\ Return("failed", Message(StatusError, << >>))
       \/ ~GiveUp(cerr') /\ UNCHANGED <<cpc, res, outcome, executed>>
    /\ UNCHANGED <<reqs, resps, call, cpend, serverVars, exits>>

\* receive_request returns false, and the loop calls it again.
ReceiveHeaderFails ==
    /\ spc = "recv_header"
    /\ Fail("s_recv_header")
    /\ UNCHANGED <<reqs, resps, clientVars, serverVars, exits, executed>>

\* A read that returns 0 counts as an error, too: the client is gone.  (That the
\* client ends, and nobody is left to whom anything is promised, is not modelled.)
ReceiveDataFails ==
    /\ spc = "recv_data"
    /\ Fail("s_recv_data")
    /\ serr' = serr + 1
    /\ \/ GiveUp(serr') /\ spc' = "recv_header"
          /\ sreq' = Message(sreq.code, << >>)
       \/ ~GiveUp(serr') /\ UNCHANGED <<spc, sreq>>
    /\ UNCHANGED <<reqs, resps, clientVars, sres, spend, exits, executed>>

\* send_response gives up, after the header or half way through the data, too.
SendFails ==
    /\ \/ spc = "send_header" /\ Fail("s_send_header")
       \/ spc = "send_data" /\ Fail("s_send_data")
    /\ spc' = "recv_header"
    /\ spend' = << >>
    /\ UNCHANGED <<reqs, resps, clientVars, sreq, serr, sres, exits, executed>>

-----------------------------------------------------------------------------
Init ==
    /\ reqs = << >> /\ resps = << >>
    /\ cpc = "waiting" /\ call = NullMessage /\ cpend = << >>
    /\ res = NullMessage /\ cerr = 0 /\ outcome = "none"
    /\ spc = "off" /\ sreq = NullMessage /\ serr = 0
    /\ sres = NullMessage /\ spend = << >>
    /\ faults = 0 /\ exits = 0 /\ executed = FALSE

\* What the client does of its own accord once it waits or has sent a request.
ClientStep ==
    \/ CheckForReady
    \/ WriteRequestHeader \/ WriteRequestData
    \/ ReadResponseHeader \/ ReadResponseData

ServerStep ==
    \/ Start
    \/ ReceiveHeader \/ ReceiveData
    \/ \E a \in Answers : HandleRequest(a)
    \/ SendHeader \/ SendData

Failure ==
    \/ ClientHeaderFails \/ ClientWriteFails \/ ClientReadFails
    \/ ReceiveHeaderFails \/ ReceiveDataFails \/ SendFails

Next ==
    \/ \E q \in Requests : SendRequest(q)
    \/ ResetReady
    \/ ClientStep
    \/ ServerStep
    \/ Failure
    \/ VpExit

Spec == Init /\ [][Next]_vars

\* Both processes are scheduled, the VP is started, and every handler returns.
FairSpec == Spec /\ WF_vars(ClientStep) /\ WF_vars(ServerStep)

-----------------------------------------------------------------------------
(***************************************************************************)
(* Properties.                                                             *)
(***************************************************************************)
\* The use of the interface under which it keeps its promise; the findings
\* show what happens outside.  No payload has exactly one byte, a response
\* with an error status carries no data, only reads that a read loop repeats
\* fail, and fewer often than the loop tolerates, and the VP ends between calls.
Clean ==
    /\ \A m \in Requests \cup Answers : Len(m.data) # 1
    /\ \A a \in Answers : a.code # StatusOK => a.data = << >>
    /\ Failing \subseteq {"c_recv_data", "s_recv_header", "s_recv_data"}
    /\ MaxFaults < MaxErrors
    /\ ExitAt \subseteq {"idle"}

\* What a reader has put together of a message.
PartialMessage == [code : Byte, len : UInt32, data : Seq(Byte)]

Received(m) == Len(m.data) <= m.len

\* Every variable holds values of its kind, no pipe holds more bytes than fit,
\* and neither read loop stores more bytes than its buffer was allocated for or
\* goes on after its last tolerated error.
TypeOK ==
    /\ reqs \in Seq(Byte) /\ Len(reqs) <= Capacity
    /\ resps \in Seq(Byte) /\ Len(resps) <= Capacity
    /\ cpc \in ClientStates /\ spc \in ServerStates
    /\ call \in Requests \cup {NullMessage}
    /\ sres \in Answers \cup {NullMessage}
    /\ cpend \in Seq(Byte) /\ spend \in Seq(Byte)
    /\ res \in PartialMessage /\ sreq \in PartialMessage
    /\ cpc = "recv_data" => Received(res) /\ cerr < MaxErrors
    /\ spc = "recv_data" => Received(sreq) /\ serr < MaxErrors
    /\ cerr \in 0 .. MaxErrors /\ serr \in 0 .. MaxErrors
    /\ outcome \in {"none", "ok", "failed"}
    /\ faults \in 0 .. MaxFaults /\ exits \in 0 .. MaxExits
    /\ executed \in BOOLEAN

\* Every byte of the current call is where it belongs: what the reader has,
\* what the pipe holds and what the writer has left make up the message that is
\* being transferred, and nothing else is in any pipe.
NothingOnItsWay ==
    /\ reqs = << >> /\ resps = << >>
    /\ spc \in {"off", "recv_header"}
    /\ ~executed

RequestOnItsWay ==
    /\ resps = << >>
    /\ spc \notin {"send_header", "send_data"}
    /\ spc \in {"off", "recv_header"} =>
         /\ reqs \o cpend = Header(call) \o call.data
         /\ Len(reqs) >= HeaderLen
    /\ spc = "recv_data" =>
         /\ sreq.code = call.code /\ sreq.len = call.len
         /\ (sreq.data \o reqs) \o cpend = call.data
    /\ spc = "handle" => sreq = call /\ reqs = << >> /\ cpend = << >>

ResponseOnItsWay ==
    /\ reqs = << >> /\ cpend = << >>
    /\ sreq = call
    /\ sres \in Answers
    /\ \/ /\ spc = "send_header"
          /\ cpc = "recv_header"
          /\ resps = << >>
       \/ /\ spc \in {"recv_header", "send_data"}
          /\ cpc = "recv_header"
          /\ resps \o spend = Header(sres) \o sres.data
          /\ Len(resps) >= HeaderLen
       \/ /\ spc \in {"recv_header", "send_data"}
          /\ cpc = "recv_data"
          /\ sres.code = StatusOK
          /\ res.code = sres.code /\ res.len = sres.len
          /\ (res.data \o resps) \o spend = sres.data

Framing ==
    /\ cpend # << >> <=> cpc = "send_data"
    /\ spend # << >> <=> spc = "send_data"
    /\ cpc = "waiting" =>
         \/ NothingOnItsWay /\ spc = "off"
         \/ reqs = << >> /\ resps = Ready /\ spc = "recv_header" /\ ~executed
    /\ cpc \in {"idle", "send_header"} => NothingOnItsWay
    /\ cpc \in {"send_data", "recv_header"} /\ ~executed => RequestOnItsWay
    /\ executed => ResponseOnItsWay
    /\ cpc = "recv_data" => executed

\* The VP answers only when it has taken the request in whole: never are both
\* pipes in use, which could block each side on the other's full pipe.
HalfDuplex == reqs = << >> \/ resps = << >>

\* What the next system call of either side waits for.
ClientGoes ==
    \/ cpc = "waiting" /\ Len(resps) >= Len(Ready)
    \/ cpc = "send_header" /\ HasRoom(HeaderLen, reqs)
    \/ cpc = "send_data" /\ HasRoom(1, reqs)
    \/ cpc \in {"recv_header", "recv_data"} /\ resps # << >>

ServerGoes ==
    \/ spc = "off" /\ cpc = "waiting" /\ HasRoom(Len(Ready), resps)
    \/ spc \in {"recv_header", "recv_data"} /\ reqs # << >>
    \/ spc = "handle"
    \/ spc = "send_header" /\ HasRoom(HeaderLen, resps)
    \/ spc = "send_data" /\ HasRoom(1, resps)

\* The two sides never both wait for the other: while the client waits for the
\* VP to come up, or is in a call to a VP that runs, one of the blocking reads
\* and writes can return, however short the pipes and however long the data.
NeverBlocked ==
    cpc # "idle" /\ (spc # "off" \/ cpc = "waiting") => ClientGoes \/ ServerGoes

\* The work left in this half of a call: a byte has to be written and read, and
\* reads may fail as often as the bound has it.
Work(unsent, unread) == 2 * Len(unsent) + Len(unread)

RequestWork ==
    IF cpc = "send_header" THEN 1 + HeaderLen + Work(call.data, << >>) ELSE Work(cpend, reqs)

ResponseWork ==
    IF spc = "send_header" THEN 1 + HeaderLen + Work(sres.data, << >>) ELSE Work(spend, resps)

ToGo == (MaxFaults - faults) + (IF executed THEN ResponseWork ELSE RequestWork)

InCall == cpc \notin {"waiting", "idle"}

\* No call goes on for ever: each step of either side, also a read that fails,
\* ends the call, executes it, or leaves less of the same half of it to do.
\* (There is no round of the two read loops, or of the receiver loop, in which
\* nothing is achieved; with NeverBlocked every call comes to its end.)
CallAdvances ==
    [][InCall =>
         \/ cpc' = "idle"
         \/ ~executed /\ executed'
         \/ executed' = executed /\ ToGo' \in 0 .. ToGo - 1]_vars

\* Whatever fails, a read loop hands on all of the data the header announced or
\* none: send_request returns true, and a request is handled, with whole data.
WholeData ==
    /\ cpc = "idle" /\ outcome = "ok" /\ DataExpected(res.len) => Len(res.data) = res.len
    /\ spc = "handle" /\ DataExpected(sreq.len) => Len(sreq.data) = sreq.len

\* The client and the VP together implement the calls of module Rpc.  What the
\* VP has is of interest only from the execution of a call to its return.
Phase ==
    IF cpc \in {"waiting", "idle"} THEN "idle"
    ELSE IF executed THEN "executed" ELSE "called"

Shown(m) == IF executed THEN m ELSE NullMessage

Returned ==
    CASE outcome = "none" -> [ok |-> FALSE, message |-> NullMessage]
      [] outcome = "ok" -> [ok |-> TRUE, message |-> res]
      [] outcome = "failed" -> [ok |-> FALSE, message |-> Message(res.code, << >>)]

R == INSTANCE Rpc WITH
        phase <- Phase, exec <- Shown(sreq), answer <- Shown(sres), result <- Returned

\* Every call is executed once and as it was sent, and its own response is what
\* send_request returns.
ImplementsRpcSafely == R!SafeSpec

\* And every call is executed and returns, across partial and failing reads and
\* across the lives of the VP, unless the VP has ended and nobody starts it again.
CallsReturn == R!Progress \/ <>[](spc = "off")

\* What the comments promise of both read loops ("Receive data if data is
\* expected"): send_request returns true with all data the response announces.
ResponseDataReceived ==
    cpc = "idle" /\ outcome = "ok" => Len(res.data) = res.len

\* Every response carries the status of its own request: what the user sees
\* after a call is what the handler has returned for it.
OwnStatus ==
    cpc = "idle" /\ outcome # "none" => res.code = sres.code

=============================================================================
