------------------------------- MODULE Events -------------------------------
(***************************************************************************)
(* The event queue and the coverage map of testing_receiver, and the       *)
(* threads that share them: the simulation, which runs until it has events *)
(* to notify and then waits for them to be processed; the receiver thread, *)
(* which serves CONTINUE and the coverage commands; and any other context, *)
(* which may call notify_VP_ERROR_event.                                   *)
(***************************************************************************)
EXTENDS Integers, Sequences, FiniteSets

CONSTANTS
    Kinds,          \* what the simulation notifies
    Blocks,         \* basic blocks of the program that is simulated
    Loc,            \* curr_bb_loc of each of them
    Mix(_, _),      \* the operator ^ on indices of the map
    MapSize,        \* MAP_SIZE
    CounterSize,    \* values of a uint8_t
    InitialMaps,    \* what m_bb_array, never initialised, may hold at first
    Orders,         \* in which handle_continue may make its calls
    MaxExtra,       \* bound: events that do not come alone
    MaxTrace        \* bound: blocks run between two resets of the map

Indices  == 0 .. MapSize - 1
Counters == 0 .. CounterSize - 1

ASSUME EventsAssumption ==
    /\ Kinds \subseteq {"MMIO_READ", "MMIO_WRITE", "VP_END", "BREAKPOINT_HIT"}
    /\ MapSize \in Nat \ {0} /\ CounterSize \in Nat \ {0}
    /\ Loc \in [Blocks -> Indices]
    /\ \A i, j \in Indices : Mix(i, j) \in Indices
    /\ InitialMaps \subseteq [Indices -> Counters]
    /\ Orders \subseteq {"resume_first", "take_first"}
    /\ MaxExtra \in Nat /\ MaxTrace \in Nat

VARIABLES
    queue,      \* m_event_queue, the types of its events
    full,       \* m_full_slots
    empty,      \* m_empty_slots
    notify,     \* where a thread is that notifies
    msg,        \* the event it notifies
    sim,        \* where the simulation thread is
    rcv,        \* where the receiver thread is
    reported,   \* the event the latest CONTINUE has returned
    bb,         \* m_bb_array
    prev,       \* m_prev_bb_loc
    block,      \* of set_block: curr_bb_loc, and the counter it has read
    order,      \* the order of the calls of handle_continue; never changes
    extra,      \* history: events so far that did not come alone
    cleared,    \* history: the map has been reset
    trace       \* history: prev at the last reset, and the blocks since

semaphores == <<full, empty>>
coverage   == <<bb, prev, block, cleared, trace>>
vars == <<queue, semaphores, notify, msg, sim, rcv, reported, coverage, extra, order>>

Notifiers == {"simulation", "other"}

SimStates == {"waiting", "running", "block", "stopping", "ended"}
RcvStates == {"idle", "look", "resume", "wait", "take", "reset", "copy"}

\* The type under which an event of some kind is put into the queue.
NotifiedType(kind) == IF kind = "MMIO_WRITE" THEN "MMIO_READ" ELSE kind

Types == {NotifiedType(k) : k \in Kinds} \cup {"VP_ERROR"}

NoEvent == "none"

-----------------------------------------------------------------------------
(***************************************************************************)
(* notify_event, in whatever thread: push_back, then sem_post.             *)
(***************************************************************************)
Notify(t, type) ==
    /\ notify[t] = "none"
    /\ notify' = [notify EXCEPT ![t] = "push"]
    /\ msg' = [msg EXCEPT ![t] = type]

Push(t) ==
    /\ notify[t] = "push"
    /\ notify' = [notify EXCEPT ![t] = "post"]
    /\ queue' = Append(queue, msg[t])
    /\ sim' = IF t = "simulation" THEN "stopping" ELSE sim
    /\ UNCHANGED <<semaphores, msg, rcv, reported, coverage, extra, order>>

\* Mutant of Post: the semaphore is binary.
PostBinary(t) ==
    /\ notify[t] = "post"
    /\ notify' = [notify EXCEPT ![t] = "none"]
    /\ full' = 1
    /\ UNCHANGED <<queue, empty, msg, sim, rcv, reported, coverage, extra, order>>

Post(t) ==
    /\ notify[t] = "post"
    /\ notify' = [notify EXCEPT ![t] = "none"]
    /\ full' = full + 1
    /\ UNCHANGED <<queue, empty, msg, sim, rcv, reported, coverage, extra, order>>

-----------------------------------------------------------------------------
(***************************************************************************)
(* The simulation thread.                                                  *)
(***************************************************************************)
\* Mutant of Resume: the simulation does not take the token.
ResumeFreely ==
    /\ sim = "waiting"
    /\ empty > 0
    /\ sim' = "running"
    /\ UNCHANGED <<queue, semaphores, notify, msg, rcv, reported, coverage, extra, order>>

\* wait_for_events_processes returns.
Resume ==
    /\ sim = "waiting"
    /\ empty > 0
    /\ empty' = empty - 1
    /\ sim' = "running"
    /\ UNCHANGED <<queue, full, notify, msg, rcv, reported, coverage, extra, order>>

\* set_block up to its read of the counter.
LoadBlock(b) ==
    /\ sim = "running"
    /\ notify["simulation"] = "none"
    /\ Len(trace) <= MaxTrace
    /\ sim' = "block"
    /\ block' = [loc |-> Loc[b], seen |-> bb[Mix(Loc[b], prev)]]
    /\ UNCHANGED <<queue, semaphores, notify, msg, rcv, reported, bb, prev, cleared, trace,
                   extra, order>>

\* Mutant of StoreBlock: the location is stored without the shift.
StoreBlockUnshifted ==
    /\ sim = "block"
    /\ sim' = "running"
    /\ bb' = [bb EXCEPT ![Mix(block.loc, prev)] = (block.seen + 1) % CounterSize]
    /\ prev' = block.loc
    /\ trace' = Append(trace, block.loc)
    /\ UNCHANGED <<queue, semaphores, notify, msg, rcv, reported, block, cleared, extra,
                   order>>

\* The rest of it.
StoreBlock ==
    /\ sim = "block"
    /\ sim' = "running"
    /\ bb' = [bb EXCEPT ![Mix(block.loc, prev)] = (block.seen + 1) % CounterSize]
    /\ prev' = block.loc \div 2
    /\ trace' = Append(trace, block.loc)
    /\ UNCHANGED <<queue, semaphores, notify, msg, rcv, reported, block, cleared, extra,
                   order>>

\* The program does something that is to be notified.
NotifyEvent(kind) ==
    /\ sim = "running"
    /\ Notify("simulation", NotifiedType(kind))
    /\ UNCHANGED <<queue, semaphores, sim, rcv, reported, coverage, extra, order>>

\* Another event of the same stop, as the interface allows.
NotifyAnother(kind) ==
    /\ sim = "stopping"
    /\ msg["simulation"] # "VP_END"
    /\ extra < MaxExtra
    /\ Notify("simulation", NotifiedType(kind))
    /\ extra' = extra + 1
    /\ UNCHANGED <<queue, semaphores, sim, rcv, reported, coverage, order>>

\* The simulation waits for its events to be processed, or has come to its end.
Suspend ==
    /\ sim = "stopping"
    /\ notify["simulation"] = "none"
    /\ sim' = IF msg["simulation"] = "VP_END" THEN "ended" ELSE "waiting"
    /\ UNCHANGED <<queue, semaphores, notify, msg, rcv, reported, coverage, extra, order>>

\* notify_VP_ERROR_event, from any context.
NotifyError ==
    /\ extra < MaxExtra
    /\ Notify("other", "VP_ERROR")
    /\ extra' = extra + 1
    /\ UNCHANGED <<queue, semaphores, sim, rcv, reported, coverage, order>>

-----------------------------------------------------------------------------
(***************************************************************************)
(* The receiver thread.  handle_continue belongs to the VP.  README.md of  *)
(* the sources describes one order of its calls (order = "resume_first"):  *)
(* if no event is left it lets the simulation go on, then it waits for the *)
(* next event and returns it.  The comment at handle_continue describes    *)
(* another one ("take_first"): it waits for an event, removes it, and lets *)
(* the simulation go on if none is left.                                   *)
(***************************************************************************)
Continue ==
    /\ rcv = "idle"
    /\ rcv' = IF order = "resume_first" THEN "look" ELSE "wait"
    /\ UNCHANGED <<queue, semaphores, notify, msg, sim, reported, coverage, extra, order>>

\* What follows the look at the deque.
AfterLook == IF order = "resume_first" THEN "wait" ELSE "idle"

\* is_event_queue_empty
Look ==
    /\ rcv = "look"
    /\ rcv' = IF queue = << >> THEN "resume" ELSE AfterLook
    /\ UNCHANGED <<queue, semaphores, notify, msg, sim, reported, coverage, extra, order>>

ContinueToNextEvent ==
    /\ rcv = "resume"
    /\ rcv' = AfterLook
    /\ empty' = empty + 1
    /\ UNCHANGED <<queue, full, notify, msg, sim, reported, coverage, extra, order>>

WaitForEvent ==
    /\ rcv = "wait"
    /\ full > 0
    /\ full' = full - 1
    /\ rcv' = "take"
    /\ UNCHANGED <<queue, empty, notify, msg, sim, reported, coverage, extra, order>>

\* What follows the removal of the event.
AfterTake == IF order = "resume_first" THEN "idle" ELSE "look"

\* Mutant of GetAndRemoveFirstEvent: the deque is used from the wrong end.
GetAndRemoveLastEvent ==
    /\ rcv = "take"
    /\ queue # << >>
    /\ reported' = queue[Len(queue)]
    /\ queue' = SubSeq(queue, 1, Len(queue) - 1)
    /\ rcv' = AfterTake
    /\ UNCHANGED <<semaphores, notify, msg, sim, coverage, extra, order>>

\* front and pop_front; undefined when the queue is empty.
GetAndRemoveFirstEvent ==
    /\ rcv = "take"
    /\ queue # << >>
    /\ reported' = Head(queue)
    /\ queue' = Tail(queue)
    /\ rcv' = AfterTake
    /\ UNCHANGED <<semaphores, notify, msg, sim, coverage, extra, order>>

CoverageCommand ==
    /\ rcv = "idle"
    /\ rcv' \in {"reset", "copy"}
    /\ UNCHANGED <<queue, semaphores, notify, msg, sim, reported, coverage, extra, order>>

ResetCodeCoverage ==
    /\ rcv = "reset"
    /\ rcv' = "idle"
    /\ bb' = [i \in Indices |-> 0]
    /\ cleared' = TRUE
    /\ trace' = <<prev>>
    /\ UNCHANGED <<queue, semaphores, notify, msg, sim, reported, prev, block, extra, order>>

\* The memcpy of handle_get_code_coverage_shm, or of get_code_coverage.
CopyCodeCoverage ==
    /\ rcv = "copy"
    /\ rcv' = "idle"
    /\ UNCHANGED <<queue, semaphores, notify, msg, sim, reported, coverage, extra, order>>

-----------------------------------------------------------------------------
Init ==
    /\ queue = << >> /\ full = 0 /\ empty = 0
    /\ notify = [t \in Notifiers |-> "none"]
    /\ msg = [t \in Notifiers |-> NoEvent]
    /\ order \in Orders
    /\ sim = IF order = "resume_first" THEN "waiting" ELSE "running"
    /\ rcv = "idle" /\ reported = NoEvent
    /\ bb \in InitialMaps /\ prev = 0
    /\ block = [loc |-> 0, seen |-> 0]
    /\ extra = 0 /\ cleared = FALSE /\ trace = <<0>>

SimStep ==
    \/ Resume
    \/ \E b \in Blocks : LoadBlock(b)
    \/ StoreBlock
    \/ Suspend

Occurrence == \E k \in Kinds : NotifyEvent(k)

NotifyStep(t) == Push(t) \/ Post(t)

\* What the receiver thread does once it has a request.
RcvStep ==
    \/ Look \/ ContinueToNextEvent \/ WaitForEvent \/ GetAndRemoveFirstEvent
    \/ ResetCodeCoverage \/ CopyCodeCoverage

Next ==
    \/ SimStep
    \/ Occurrence
    \/ \E k \in Kinds : NotifyAnother(k)
    \/ NotifyError
    \/ \E t \in Notifiers : NotifyStep(t)
    \/ RcvStep
    \/ Continue \/ CoverageCommand

Spec == Init /\ [][Next]_vars

\* The receiver thread is scheduled, and so is a thread that notifies.  Nothing
\* is assumed of the simulation: it may run for ever without an event.
FairSpec ==
    /\ Spec
    /\ WF_vars(RcvStep)
    /\ \A t \in Notifiers : WF_vars(NotifyStep(t))

-----------------------------------------------------------------------------
(***************************************************************************)
(* Properties.                                                             *)
(***************************************************************************)
\* Every variable holds values of its kind.  Tokens of m_empty_slots only pile
\* up with events that do not come alone.
TypeOK ==
    /\ queue \in Seq(Types)
    /\ full \in Nat
    /\ empty \in 0 .. 1 + extra
    /\ notify \in [Notifiers -> {"none", "push", "post"}]
    /\ msg \in [Notifiers -> Types \cup {NoEvent}]
    /\ sim \in SimStates /\ rcv \in RcvStates
    /\ reported \in Types \cup {NoEvent}
    /\ bb \in [Indices -> Counters] /\ prev \in Indices
    /\ block \in [loc : Indices, seen : Counters]
    /\ extra \in 0 .. MaxExtra /\ order \in Orders
    /\ cleared \in BOOLEAN
    /\ trace \in Seq(Indices) /\ Len(trace) \in 1 .. MaxTrace + 1

Posting == {t \in Notifiers : notify[t] = "post"}

\* Every event in the queue has one token of m_full_slots, or is being posted,
\* or is about to be taken: the receiver never takes an event that is not there
\* and never waits for one that is.
TokensMatchEvents ==
    Len(queue) = full + Cardinality(Posting) + (IF rcv = "take" THEN 1 ELSE 0)

\* "VP_ERROR event from any context": no two threads are inside the deque, which
\* has no lock, at once.  The code does not keep this.
DequeAlone ==
    LET Pushing == {t \in Notifiers : notify[t] = "push"}
    IN  /\ Pushing # {} => rcv \notin {"look", "take"}
        /\ Cardinality(Pushing) <= 1

\* Until the simulation has come to its end, a CONTINUE never waits for an event that
\* nobody will bring: its token is there or is being posted, or the simulation runs
\* or can be resumed.  That holds in spite of the gap between the look at the deque
\* and sem_wait, in both orders, and however many events do not come alone.
NoLostWakeup ==
    rcv = "wait" /\ sim # "ended" =>
        full > 0 \/ Posting # {} \/ sim \in {"running", "block"} \/ empty > 0

\* The events not yet returned, and one more while the simulation runs, are at
\* most one but for those that did not come alone: the simulation never gets
\* ahead of the client, nor does the deque grow.
NeverAhead ==
    Len(queue) + (IF sim \in {"running", "block"} THEN 1 ELSE 0) <= 1 + extra

\* Reference definition of the map: how often one location followed another.
Edges(i) == {n \in 2 .. Len(trace) :
                Mix(trace[n], IF n = 2 THEN trace[1] ELSE trace[n-1] \div 2) = i}

\* The map holds what the program did since its last reset, modulo the size of a
\* counter.  (The edge into the first block comes from the last one before the
\* reset, which leaves m_prev_bb_loc.)  Where the simulation runs during a reset, as
\* it may in the order of the comment at handle_continue, the code does not keep this.
CoverageCounts ==
    cleared => \A i \in Indices : bb[i] = Cardinality(Edges(i)) % CounterSize

\* In the order of src/README.md it does, as long as events come alone.
CoverageExact == order = "resume_first" /\ extra = 0 => CoverageCounts

\* Events and CONTINUE implement module Stepping.
S ==
    INSTANCE Stepping WITH
        Events <- Types, pending <- queue,
        sim <- IF sim \in {"running", "block"} THEN "running" ELSE "standing",
        call <- IF rcv \in {"wait", "take"}
                   \/ (order = "resume_first" /\ rcv \in {"look", "resume"})
                THEN "waiting" ELSE "idle"

\* In both orders: events are returned in the order in which they occurred, none
\* is lost, and the simulation goes on only when all have been returned, but for
\* those that do not come alone.
ImplementsSteppingSafely == S!SafeSpec

\* A CONTINUE in progress while an event is in the deque, or on its way into it, comes
\* to its end, whatever the simulation does.
EventReturned ==
    rcv # "idle" /\ (queue # << >> \/ \E t \in Notifiers : notify[t] # "none")
        ~> rcv = "idle"

=============================================================================
