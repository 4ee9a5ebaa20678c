# A formal model of the Virtual Platform Testing Interface

A *client* (a fuzzer, a test tool) controls the simulation in a *VP* process with
requests: a command and data. The VP executes one request at a time and answers each with a
status and data. The two talk over a pair of pipes, or over a pair of POSIX message
queues that several clients and VPs may share. This directory holds TLA+ modules of that
interface, their TLC configurations, and proofs for TLAPS.

## 1. Inventory

| Component | Source | State | Operations | Modelled in |
|---|---|---|---|---|
| message types | `include/types.h` | - | `request`, `response`, `status` | `VptiTypes` |
| wire codec | `testing_communication.cpp` | - | `int32_to_bytes`, `bytes_to_int32`; the 64 bit ones only occur inside payloads | `Codec` |
| pipe client | `pipe_testing_client.cpp` | `m_started`, the two descriptors, the read loop of `send_request` | `check_for_ready`, `wait_for_ready`, `reset_ready`, `send_request` | `Pipe` |
| pipe communication | `pipe_testing_communication.cpp` | `m_started`, `m_current_req`, the read loop | `start`, `receive_request`, `send_response` | `Pipe` |
| receiver loop | `testing_receiver.cpp:152-181` | `m_current_req`, `m_current_res` | receive, handle, send, for ever | `Pipe`, `Mq` |
| queue client | `mq_testing_client.cpp` | `m_started`, `m_receiver_id` | the same as the pipe's, and `set_receiver` | `Mq` |
| queue communication | `mq_testing_communication.cpp` | `m_current_req`, a message of another VP in hand | `start`, `receive_request`, `send_response` | `Mq` |
| abstract interface | `README.md`, `testing_client.h` | the call in progress | call, execute, return | `Rpc` |
| event queue | `testing_receiver.cpp:191-255` | `m_event_queue`, `m_full_slots`, `m_empty_slots` | `notify_event` and its callers, `wait_for_event`, `continue_to_next_event`, `wait_for_events_processes`, `get_and_remove_first_event` | `Events` |
| code coverage | `testing_receiver.cpp:257-276` | `m_bb_array`, `m_prev_bb_loc` | `set_block`, `reset_code_coverage`, `get_code_coverage` | `Events` |
| request dispatch | `testing_receiver.cpp:278-719` | `m_current_req`, `m_current_res` | one case per command | `Dispatch` |
| shared memory handlers | `testing_receiver.cpp:72-143` | attached segments | `handle_do_run_shm`, `handle_get_code_coverage_shm` | `Dispatch` |
| example programs | `test/` | - | - | not modelled: examples with constant answers |

**Interaction.** The user's thread is inside `send_request` until the response has come. In the
VP the receiver thread runs `receiver_loop`, which calls the communication and
`handle_request`; the handlers are virtual functions of the concrete VP, and meet the
simulation thread at the event queue. Client and VP share nothing but the pipes or the queues.

**What is hard.** A pipe is a byte stream: a reader must find the end of each message by
itself, over partial reads and writes, failing system calls, a pipe shorter than the
message, and a VP that ends and is started anew. A message queue keeps messages apart but is
shared by all: a process that takes a message of another one has to put it back, into a
queue that may be full, while others send. The event queue is used by two threads without a
lock. `PROJECT.json` lists these hazards one by one, each at its line.

**What makes the components correct.**

- *Pipe*: every byte goes to the message it was written for; a call leaves nothing for the
  next one; the two sides never block each other; each call is executed once and returns its
  own response.
- *Mq*: a message is never lost nor doubled while it passes through foreign hands; a response
  goes to the client that waits for it; VPs that put messages back do not block each other;
  whatever a call returns is its own response.
- *Events*: events are returned in the order in which they occurred, none is lost; the
  semaphores count the deque; the simulation does not get ahead of the client; the coverage map
  holds what the program did. That two threads are never in the deque, or in the map during a
  reset, would belong here, but the code does not ensure it (section 5).
- *Dispatch*: a handler gets exactly the bytes of the request, with four exceptions that are named; a malformed request
  reaches no handler; the shared memory handlers stay inside the segment, which holds exactly when the offset is inside it.
  That they detach the segment, and that `GET_CODE_COVERAGE` returns one, is not so.

## 2. Modules

```
VptiTypes   codes, messages      Codec   lengths as bytes     (used by the modules below)

abstract:        Rpc                    Stepping
                ^   ^  refined by           ^  refined by
detailed:    Pipe   Mq                   Events         Dispatch
               |     |                      |               |
checked:   MCPipe  MCMq                 MCEvents        MCDispatch
proved:  PipeProofs  MqProofs         EventsProofs    DispatchProofs      CodecProofs
             |
         PipeProgressProofs
```

**Rpc** is the abstract specification: `Call(q)`, then `Execute(a)` by the VP, then `Return`,
whose result is `[ok |-> TRUE, message |-> a]` only for `STATUS_OK`. Both transports are
shown to implement it.

**Pipe** models both processes with a step per system call. `reqs` and `resps` are the bytes
in the two pipes; `cpc` and `spc` say where client and VP are, and the other variables are
the locals of `send_request` and `receive_request`:

| Action | Code |
|---|---|
| `CheckForReady` | one round of `wait_for_ready`: read six bytes, compare |
| `SendRequest`, `WriteRequestHeader`, `WriteRequestData` | `send_request` up to its last write |
| `ReadResponseHeader`, `ReadResponseData` | the header of five bytes, and one round of the read loop |
| `Start` | `start` of the communication: the ready message |
| `ReceiveHeader`, `ReceiveData` | `receive_request` |
| `HandleRequest` | `handle_request`: any of the possible answers |
| `SendHeader`, `SendData` | `send_response` |
| `...Fails` | the error path of each read and write |
| `VpExit`, `ResetReady` | the VP process ends; the user calls `reset_ready` |

A read returns what is there, up to what was asked for; a write of data goes on as far as
there is room. As a write may be cut anywhere, so may the reads of the other side. A header is
written in one piece (five bytes are less than `PIPE_BUF`). The six bytes of the ready message
are waited for as a whole. Bytes have `Radix` values; the code's `Radix` is 256.

**Mq** models any number of clients and VPs on one pair of queues. A message is a record of
the pid in front and the request or response behind it. `Send`, `Receive`, `ReceiveReady` are
the system calls of the client; `Start`, `ReceiveRequest`, `PutBackRequest`, `HandleRequest`,
`SendResponse` those of the VP. Taking a message and putting it back are two steps in the VP,
whose put-back may block. In the client they are one: its put-back always fails
(`PutBackResponse`), so the message is just gone. A message that does not fit is refused
(`Fits`). A request of that kind is first copied behind the end of a buffer, which is undefined
behaviour, so `SendRequest` excludes it. `started` is `m_started`, and all that the code asks for.
The constant `Patient` says whether the users wait for the ready message of each VP before they
send to it; `met` remembers whose they have received. All runs and all theorems are about
patient users, `NeverStuck` and `CallsGoOn` in particular: they rest on each VP being called by one client
only. Section 5 says what the code does with a user who is not.

`Executed` and `executed` are history variables of both modules: whether the current call
has been handled. No guard reads them; the refinement mapping needs them.

**Stepping** is the abstract `CONTINUE`: what has occurred is `pending`, the simulation is
standing or running, and the call returns the head of `pending`. The simulation goes on when all events
have been returned, but for as many as have not come alone: later ones of the same stop of the
simulation, and those from elsewhere, which `extra` counts.

**Events** models the threads that meet in `testing_receiver`:

| Action | Code |
|---|---|
| `NotifyEvent`, `NotifyAnother` | `notify_MMIO_READ_event` and its like; `NotifiedType` is the type they push |
| `NotifyError` | `notify_VP_ERROR_event`, in any thread |
| `Push`, `Post` | the two statements of `notify_event` |
| `Suspend`, `Resume` | the simulation is in, and returns from, `wait_for_events_processes` |
| `LoadBlock`, `StoreBlock` | `set_block` up to its read of the counter, and the rest |
| `Continue`, `Look`, `ContinueToNextEvent`, `WaitForEvent`, `GetAndRemoveFirstEvent` | `handle_continue`; `AfterLook` and `AfterTake` are its order |
| `CoverageCommand`, `ResetCodeCoverage`, `CopyCodeCoverage` | the coverage commands |

`handle_continue` belongs to the concrete VP, which is not in this repository, and the two places that
describe the order of its calls do not agree. `src/README.md:33` has `CONTINUE` continue the simulation *to* the next
event, and a `SET_MMIO_VALUE` that is to answer an intercepted access come before the next `CONTINUE`: so the
simulation is let go on at the beginning of the call, if no event is left, and the call then waits
("resume_first"). The comment at `src/include/testing_receiver.h:126` has the event removed first, and
the simulation resumed if the queue is empty *after* the call: it waits, removes, and then lets the
simulation go on, which runs while no `CONTINUE` waits and while other commands are served ("take_first"). The constant
`Orders` says which of them a VP may have; `order` is chosen at the start and kept. All theorems and
invariants hold for both unless they say otherwise. In "take_first" the simulation runs from the start, as
otherwise the first `CONTINUE` would wait for ever.

After `VP_END` the simulation is "ended" and does nothing any more; a further `CONTINUE` waits for ever.
Two statements of different threads on the deque at once are undefined behaviour in C++. `Push`, `Look`
and `GetAndRemoveFirstEvent` are atomic all the same: the model says what the deque holds if each of them takes effect,
and `DequeAlone` (run `events_any_context`) that the code does not ensure that they do. The map's size,
the size of a counter, the location of a block and the operator `^` are constants. `m_bb_array` is
never initialised, so it begins as any of `InitialMaps`.

**Dispatch** models `receiver_loop` around `handle_request`: `Receive`, one action for each kind
of command, `RespondMalformed`, `HandleUnknown`, `SendResponse`. Of a request it keeps the
length and those bytes that decide how the data is cut: the announced data length, the lengths of
names, the number of fixed reads, and for shared memory the segment, the offset and the option to
stop at a zero byte. An argument of a handler is the piece of the data it is read from, so `got` says what
the handler was given. `Accepts` is the tests of `check_exact_request_length` and
`check_min_request_length`, with sums of 32 bits. `Given` is how much of the data there is. `HandleDoRunShm`, `HandleGetCodeCoverageShm` and the two
`...Fails` are the handlers that attach shared memory; `Remaining` and `RunLength` are their
arithmetic in the width of a `size_t`, and `access` is what they touch. `MinData` says which data a
request comes with: over a queue all of it (1), over a pipe only if there are two bytes at least (2).

What `Pipe` assumes of the answers in `Clean` (no data of one byte, none behind an error status) can be read off
the definitions: only `HandleContinue` and `HandleValue` attach data to a response. For those commands
(`CONTINUE`, `GET_RETURN_CODE`, `GET_CPU_PC`) it is up to the VP, whose handlers must return `STATUS_OK` (and, for `CONTINUE`,
events with additional data).

## 3. Runs

| Run | Module | Shows |
|---|---|---|
| `pipe` | MCPipe | in clean use (below), with reads that fail twice, transfers longer than the pipe, and a VP that ends between calls and is started again: framing over every cut of the stream, half duplex, no mutual blocking, each step of a call leaves less to do, the refinement of `Rpc`, and every call returns unless the VP has ended for good |
| `pipe_faults` | MCPipe | any two system calls fail anywhere and the VP ends anywhere: buffers are not overfilled, loops give up in time, and data is handed on in whole or not at all |
| `pipe_one_byte` | MCPipe | *violated*: a response with one byte of data comes without it |
| `pipe_error_data` | MCPipe | *violated*: the data of a response with an error status is taken for the next response |
| `mq` | MCMq | one client, two VPs: every call is executed by the right VP and returns, though the VPs take each other's requests |
| `mq_many` | MCMq | two clients, one of which may end anywhere, three VPs, an answer that is too long: no request is lost or doubled, the VPs never block each other, a call goes on unless its response is lost, responses are lost in two ways only, `check_for_ready` blocks in one way only, every result is that of the call |
| `mq_put_back` | MCMq | *violated*: a client loses the response of another one |
| `events` | MCEvents | simulation, receiver thread and another notifier on the deque, the semaphores and the map, in both orders of `handle_continue`: counting, no lost wake-up, the simulation never ahead of the client, coverage ("resume_first"), the refinement of `Stepping`, and a `CONTINUE` returns if there is an event |
| `events_any_context` | MCEvents | *violated*: two threads in the deque |
| `dispatch` | MCDispatch | every command around each of its limits: an accepted request is cut without rest with exactly four exceptions, and shared memory is not exceeded exactly if the offset is inside |
| `dispatch_run_wraps` | MCDispatch | *violated*: a `DO_RUN` whose sum of lengths wraps is cut behind its data |
| `dispatch_map_outside` | MCDispatch | *violated*: the map is written behind the segment |

**Clean use** (`Clean` in Pipe) is the condition under which the pipe protocol keeps its
promise. Each conjunct is there because without it the promise fails, two of them as the
violated runs show: no payload has exactly one byte; a response with an error status carries
no data; only those reads fail that the code repeats, and fewer than `PIPE_READ_ERROR_MAX`
of them; the VP ends between calls.

**Bounds.** Pipes hold 6 bytes in `pipe` and `pipe_faults`, one more than a
header, so that every payload of more than one byte may have to be written in parts, and one of eight bytes
always is; `pipe_error_data` has 13, a header and the eight bytes of a number. Payloads have
0, 2, 3 or 8 bytes: below, at and above the test `> 1`, and longer than the pipe. `Radix` is
4, enough for the three status codes and for lengths that need two digits.
`MaxErrors` and `MaxFaults` are chosen such that the loops come to their last tolerated error and,
in `pipe_faults`, beyond it. Queues have one message in the Mq runs, the case in which each send
and put-back may block; `MaxLength` is 9, so that an answer of four bytes is the longest that fits.
Two VPs are enough for messages to be taken by the wrong one, three let the put-backs form
a cycle. `MaxExits` is 2 in run `pipe`, 1 in `pipe_faults` and `mq_many`, 0 elsewhere. Calls, their order and the choice of the VP are not bounded.
In `events` both orders are possible (`Orders`), and one event may not come alone (`MaxExtra`), which is enough for a second token in each
semaphore, for two notifiers at once and for a `CONTINUE` that finds an event before it resumes; the
number of other events is not bounded. The map has four counters that wrap at 2, and two
blocks of which three run between two resets (`MaxTrace`), so that edges repeat and a counter wraps.
In `dispatch` a byte has four values: a length has 256, a name at most three bytes, and sums
wrap at 256 where the code's wrap at 2^32; `MCRequests` has lengths below, at and above each limit and
announced lengths whose sum just wraps. The segment has five bytes, one more than the map, so that the map
fits at two offsets; offsets are before, at and behind the end, and the first zero byte (`Terminators`) is at once, inside the
segment or behind it. `MinData` is 2 in `dispatch`, the rule of the pipe; in the violated runs it is 1. `MaxAttached` is 2: the leak of failing
calls reaches the limit, and `shmat` then fails.

**Deadlock** is checked except where the system really can stop: when a VP has ended and
the client waits for it (`pipe_faults`, `pipe`), when a response has been lost (`mq_many`, `mq_put_back`), when the
simulation has ended and a `CONTINUE` waits for its next event (the runs of `Events`). The code has no timeout.

**Fairness.** `Pipe`: each process is scheduled, so a system call that can be done is done,
and every handler returns. That is weak fairness of the steps of each side. Failures and new
requests are not fair. `Mq`: the same for each process, and strong fairness for a VP's receive.
Linux hands a message to the receiver that has waited longest, so a VP that waits for its
request is not passed over for ever by another VP that takes the request and puts it back.
With two clients liveness does not hold, even under strong fairness of every step and even for calls whose response is not lost: two VPs that have taken each
other's requests may put them back, and take them again crosswise, for ever. So `ImplementsRpc` is checked for one client. `Events`: the receiver thread, and a thread
inside `notify_event`, are scheduled (weak fairness of their steps). Nothing is assumed of the simulation: a program
that loops never notifies anything, and `CONTINUE` then does not return, so `EventReturned` only speaks of events that
are in the deque or on their way. `Dispatch` is checked for safety only.

## 4. What is proved

The theorems hold for all values of the constants that meet the named assumptions
(`RadixAssumption`, `PipeAssumption`, `MqAssumption`, `EventsAssumption`, `DispatchAssumption`),
which TLC evaluates in the runs.

**Codec.** `LengthRoundTrip`: a length sent as four bytes is read as the same number.

**Pipe**, for all payloads, capacities and cuts of the stream.
`TypeCorrect` needs no `Clean`: whatever fails, no loop stores more than it has allocated, and none
goes on after its last tolerated error. `WholeDataCorrect` does not need it either: data is handed on in whole or not
at all, by an invariant that adds where a call cannot have succeeded yet. `FramingCorrect`,
`HalfDuplexCorrect` and `Refinement` (the refinement of `Rpc`) hold under `Clean`. The inductive
invariant is `IInv == TypeOK /\ Framing /\ Bookkeeping`. `Framing` alone is not inductive: it
does not say why a read loop never gives up under `Clean`. For that one needs `Bookkeeping`, by
which the errors of the two loops are among the `faults` so far, so that they stay below `MaxErrors`.
And it speaks of sequences, so `TypeOK` is needed to take them apart. The lemmas about
cutting a sequence (`Cut`, `Regroup`), and `LengthRoundTrip` for the header, carry the steps in which bytes
move. Only `SendRequest`, `HandleRequest` and the last read of a response are steps of `Rpc`, all others stutter.

`PipeProgressProofs` has the two halves of "every call returns" that need no fairness. `NobodyWaitsForEver`: the blocking
reads and writes of the two sides never all wait (`NeverBlocked`; the exception it names is a VP that has ended).
`EveryStepAdvances`: each step inside a call returns it, executes it, or lowers the number `ToGo`, which counts two for each byte
not yet written, one for each byte in the pipe and one for each failed read that `MaxFaults` still allows (`CallAdvances`).
So no call takes infinitely
many steps and none stops half way. Both need `Unfinished` beside `IInv`: a read loop goes on only while data is
missing. `Framing` says where the bytes are, but would allow a side to read on when there are none to come.

**Mq**, for any numbers of clients and VPs and any size of the queues.
`TypeCorrect`, `RequestsAreKept`, `NeverAllStuck`, `SomebodyGoesOn`, `LossesAreExplained`, `BlocksBecauseOfOthers` and
`RpcRefinement` hold for patient users; `OneClientsResponsesAreKept` in addition for a single client and
answers that fit into a message (`LossesAreExplained` shows why: with several clients, or longer answers, responses are lost). The invariant is
`IInv == TypeOK /\ Meetings /\ Hands /\ Sessions`, and its argument is one chain: a VP sends one
ready message, which one client receives (`Meetings`), and only that client sends to it. A client has
one call at a time, so what is under way about a VP is one call, and `Sessions` says it is
in exactly one of six places: queued, in the hands of another VP, with its VP to be
handled or to be answered, answered, or lost. If nobody calls the VP, there is nothing about
it anywhere. A step is about one VP; lemma `SessionsKept` takes care of all the others. `NeverAllStuck` is
then a pigeonhole argument (`SomeVpReceives`): were no VP receiving while a request is in the queue, the VPs that hold requests would
include all those the requests are for, and the VP of the one in the queue: more VPs than requests. `SomebodyGoesOn`
goes through the six places: in each of them but `Lost` somebody has a system call that can return. And `LossesAreExplained` says
how a call comes to be lost: its response was longer than a message, or another client took it (run `mq_put_back`), and `OneClientsResponsesAreKept` follows by excluding both.

**Events**, for every map, hash, size of a counter and number of extra events: `TypeCorrect`, `TokensCount`,
`NoWakeupIsLost`, `ClientKeepsUp` and `SteppingRefinement` for both orders of `handle_continue`, and `CoverageIsExact` for
"resume_first" and events that come alone; in the other order a counter may survive a reset (section 5).
All of them take the statements on the deque as atomic, which the code does not ensure (run `events_any_context`).
The invariant is `IInv == TypeOK /\ Counted /\ Places /\ Baton`. `Counted` relates the deque to `m_full_slots`, and
`Places` says which steps of a notifier go with which place of the simulation. `Baton` counts whatever can let
the simulation run or give the receiver an event: a token of `m_empty_slots`, an event in the deque, the running simulation, an
event of another origin about to be pushed, and a receiver that has taken an event and still owes the simulation its
right to run (`Holding`, the one definition that depends on the order). There is one of these at the start, and no step
adds one but the events that do not come alone. So the deque is bounded, and the simulation not ahead of the client
(`ClientKeepsUp`, `SteppingRefinement`). `NoWakeupIsLost` adds `Expected`, which looks at the same places from below: not all of
them are empty, so a `CONTINUE` that waits has somebody to wait for. For the map, `CInv` adds that
`m_prev_bb_loc` is the shifted location of the last block and that the counter `set_block` has read is still
the one in the map when it writes.

**Dispatch**, for every radix of a byte, every set of requests and all segments: `TypeCorrect`,
`RequestsAreCut`, `SegmentAccess`. The last two are equivalences. An accepted request is cut without rest if *and only if* it is
none of four: a `DO_RUN` whose sum of lengths wraps, a request of one byte over a pipe, `SET_MMIO_VALUE` and
`SET_RETURN_CODE_ADDRESS`. And what a handler touches ends inside the segment if *and only if* the offset lies in it. So they give
the exact extent of what goes wrong there; the runs `dispatch_run_wraps` and `dispatch_map_outside` show two of the cases.
The invariant is the checked ones and `Fresh`: before a request is handled there are no arguments and no access, which is why
an early return leaves none. The lemmas are arithmetic: what a sum of 32 bits is after it wraps
(`WrappedSum`); that the one of `ADD_TO_MMIO_READ_QUEUE` cannot wrap in an accepted request (`QueueTotal`), while that of `DO_RUN`
is exact only if it does not (`RunTotal`); unsigned differences (`UnsignedRange`, `RunLengthFits`); and that the pieces of each
command tile.

**Only model-checked**: liveness under fairness, which TLAPS does not reach: `CallsReturn` of the pipe,
`ImplementsRpc` of the queues and `EventReturned`. What is proved of it is its safety part, that nobody waits for ever (`NeverBlocked`, `CallsGoOn`, `NoLostWakeup`)
and, for the pipe, that a call has finitely many steps; that a step which can be done is done is fairness. `CallsGoOn` does not exclude
that VPs pass a request round for ever; with one client the strong fairness of `Mq` does, with two nothing does. Every invariant and every
action property of the passing runs is proved.

## 5. Findings

Six runs are expected to be violated. Each shows that the code differs from a comment of its own or from its
README; `PROJECT.json` has the lines and the quotations.

| Run | The code |
|---|---|
| `pipe_one_byte` | reads no data of one byte, so an event without additional data arrives without its type |
| `pipe_error_data` | leaves the data behind an error status in the pipe, where the next call takes it for its header |
| `mq_put_back` | puts a foreign response back through a descriptor that was opened for reading only |
| `events_any_context` | has two threads in the deque without a lock |
| `dispatch_run_wraps` | accepts a `DO_RUN` whose sum of lengths wraps, and cuts it behind its data |
| `dispatch_map_outside` | copies the map behind the segment when the offset is behind its end |

Some more are the exceptions that a checked property names, which says that there are no others:

- `check_for_ready` of the queue client, which is to look once "without blocking" (`src/include/testing_client.h:79`), blocks
  when another client is faster (`BlocksByOthersOnly`).
- A response that is too long for a queue is logged and not sent at all; `src/include/testing_communication.h:107`
  says that it is sent in several messages (`LossesExplained`).
- `SET_MMIO_VALUE` passes its handler the length of the empty response, and `SET_RETURN_CODE_ADDRESS` takes the register
  name from the middle of the address; `KILL` reads its byte through a null pointer over a pipe (`ArgumentsTile`).
- With an offset at the very end of the segment `DO_RUN_SHM` looks for a zero byte without a limit (`InsideSegment`).
- If the VP resumes the simulation as `src/include/testing_receiver.h:126` says, the program writes to the map while it is
  reset, and a counter may survive (`CoverageExact`, which speaks of the other order).

Further differences, visible in the definitions:

- `send_request` of the queue client asks for `m_started` only. A user who turns to a VP whose ready message he has not received
  (`Patient` FALSE) may get that message as the response.
- `notify_MMIO_WRITE_event` pushes an event of the type `MMIO_READ` (`NotifiedType`), against the comment at
  `src/include/testing_receiver.h:88`.
- `GET_CODE_COVERAGE` always answers `STATUS_ERROR`: the handler gets the pointer it is to set by value.
- The shared memory handlers leave the segment attached on the error paths (`ShmFails`).
- `src/README.md:33` and `src/include/testing_receiver.h:126` do not agree on when `handle_continue` resumes the
  simulation (section 2). Both orders are modelled.
- `ADD_TO_MMIO_READ_QUEUE` and `DO_RUN` carry a field for a data length that the README does not mention.
- An unknown command is answered with `STATUS_OK` (`HandleUnknown`).
- The headers say that `start` clears the queues and the pipes (`src/include/testing_client.h:76`); the calls for the queues
  are commented out (`src/src/mq_testing_client.cpp:50`), so what an earlier session left is still there.

## 6. What is not modelled

The end of a pipe client: a read of the VP that returns 0 is treated by the code like one that fails, and is modelled as one
(`ReceiveDataFails`), but not that it does so for ever. Signals and failing calls of the message queue; the destructors; `clear_pipe` and `clear_mq`, which
nothing calls; a `start` that fails (`receiver_loop` then spins without effect); a failing `shmdt` and
allocation; logging; memory layout (the writes behind a buffer in both `check_for_ready`, and in
`send_request` of the queue client when a request is too long). The behaviour of the concrete VP behind the
virtual handlers is any answer from a set, and any status. The example programs under `test/` answer with
constants. The conversions of 64 bit numbers occur only inside arguments, whose values no guard tests.

## 7. What is left

- A queue client whose receive is interrupted, and the late response it leaves; VPs that end and are started under
  a new pid.
- One module that composes `Pipe` with `Dispatch`, so that the answers of the former are those the latter
  computes; today the conditions of `Clean` on answers are read off the definitions of Dispatch.
- `Mq` with messages of an earlier session in the queues, which `start` does not clear.
