---------------------------- MODULE EventsProofs ----------------------------
(***************************************************************************)
(* Theorems about module Events, for all kinds of events, programs, sizes  *)
(* of the coverage map and of its counters, and however many events do not *)
(* come alone.                                                             *)
(***************************************************************************)
EXTENDS Events, FiniteSetTheorems, SequenceTheorems, TLAPS

(***************************************************************************)
(* The inductive invariant.  Whatever can make the simulation run or the   *)
(* receiver take an event is counted once: a token of m_empty_slots, an    *)
(* event in the queue, the running simulation, a receiver that has taken   *)
(* an event and not yet passed on the right to run, and an event of        *)
(* another origin that is about to be pushed.  No step creates one, except *)
(* the events that do not come alone.                                      *)
(***************************************************************************)
Running == sim \in {"running", "block"}

\* The receiver holds the right to run: it still owes it to the simulation, in one
\* order until its next CONTINUE, in the other until the end of this one.
Holding ==
    \/ rcv \in {"look", "resume"}
    \/ order = "resume_first" /\ rcv \in {"idle", "reset", "copy"}

Pushing(t) == notify[t] = "push"

Tokens ==
    empty + Len(queue)
        + (IF Running THEN 1 ELSE 0)
        + (IF Holding THEN 1 ELSE 0)
        + (IF Pushing("other") THEN 1 ELSE 0)
        + (IF Pushing("simulation") /\ sim = "stopping" THEN 1 ELSE 0)

Baton == Tokens <= 1 + extra

\* Where a thread may stand when it notifies, and what it notifies.
Places ==
    /\ \A t \in Notifiers : Pushing(t) => msg[t] \in Types
    /\ notify["other"] # "none" => extra > 0
    /\ Pushing("simulation") => sim = "running" \/ (sim = "stopping" /\ extra > 0)
    /\ notify["simulation"] = "post" => sim = "stopping"
    /\ sim = "block" => Len(trace) <= MaxTrace

\* Tokens of m_full_slots, with the cardinality spelled out.
Counted ==
    Len(queue) = full + (IF notify["simulation"] = "post" THEN 1 ELSE 0)
                      + (IF notify["other"] = "post" THEN 1 ELSE 0)
                      + (IF rcv = "take" THEN 1 ELSE 0)

IInv == TypeOK /\ Counted /\ Places /\ Baton

\* What notify_event is called with is an event.
LEMMA TypesFacts ==
  /\ NoEvent \notin Types
  /\ \A k \in Kinds : NotifiedType(k) \in Types
  /\ "VP_ERROR" \in Types
<1>1. NoEvent \notin Types
  BY EventsAssumption DEF Types, NotifiedType, NoEvent
<1> QED BY <1>1 DEF Types

\* The events being posted are counted one by one.
LEMMA PostingCount ==
  Cardinality(Posting) =
      (IF notify["simulation"] = "post" THEN 1 ELSE 0)
          + (IF notify["other"] = "post" THEN 1 ELSE 0)
<1>1. "simulation" # "other" /\ IsFiniteSet({}) /\ Cardinality({}) = 0
  BY FS_EmptySet
<1>2. \A t : IsFiniteSet({t}) /\ Cardinality({t}) = 1
  BY FS_Singleton
<1>3. /\ IsFiniteSet({"simulation"} \cup {"other"})
      /\ Cardinality({"simulation"} \cup {"other"}) = 2
  <2>1. IsFiniteSet({"simulation"}) /\ Cardinality({"simulation"}) = 1 /\ "other" \notin {"simulation"}
    BY <1>2
  <2>2. Cardinality({"simulation"} \cup {"other"}) = Cardinality({"simulation"}) + 1
    BY <2>1, FS_AddElement, Zenon
  <2> QED BY <2>1, <2>2, FS_AddElement
<1>4. CASE notify["simulation"] = "post" /\ notify["other"] = "post"
  <2>1. Posting = {"simulation"} \cup {"other"}
    BY <1>4 DEF Posting, Notifiers
  <2> QED BY <1>3, <1>4, <2>1
<1>5. CASE notify["simulation"] = "post" /\ notify["other"] # "post"
  <2>1. Posting = {"simulation"}
    BY <1>5 DEF Posting, Notifiers
  <2>2. Cardinality(Posting) = 1
    BY <1>2, <2>1, Zenon
  <2> QED BY <1>5, <2>2
<1>6. CASE notify["simulation"] # "post" /\ notify["other"] = "post"
  <2>1. Posting = {"other"}
    BY <1>6 DEF Posting, Notifiers
  <2>2. Cardinality(Posting) = 1
    BY <1>2, <2>1, Zenon
  <2> QED BY <1>6, <2>2
<1>7. CASE notify["simulation"] # "post" /\ notify["other"] # "post"
  <2>1. Posting = {}
    BY <1>7 DEF Posting, Notifiers
  <2> QED BY <1>1, <1>7, <2>1
<1> QED BY <1>4, <1>5, <1>6, <1>7

\* The initial states.
LEMMA InitIInv == Init => IInv
<1> SUFFICES ASSUME Init PROVE IInv
  OBVIOUS
<1> USE EventsAssumption DEF Init
<1>1. TypeOK
  <2>1. << >> \in Seq(Types) /\ <<0>> \in Seq(Indices) /\ Len(<<0>>) = 1 /\ 0 \in Indices
    BY DEF Indices
  <2>2. bb \in [Indices -> Counters]
    OBVIOUS
  <2>3. block \in [loc : Indices, seen : Counters]
    BY <2>1 DEF Counters
  <2>4. /\ notify \in [Notifiers -> {"none", "push", "post"}]
        /\ msg \in [Notifiers -> Types \cup {NoEvent}]
        /\ sim \in SimStates /\ rcv \in RcvStates /\ reported \in Types \cup {NoEvent}
        /\ queue \in Seq(Types) /\ trace \in Seq(Indices)
    BY <2>1 DEF SimStates, RcvStates
  <2>5. /\ full \in Nat /\ empty \in 0 .. 1 + extra /\ extra \in 0 .. MaxExtra
        /\ Len(trace) \in 1 .. MaxTrace + 1 /\ prev \in Indices
    BY <2>1
  <2>6. cleared \in BOOLEAN
    OBVIOUS
  <2> QED BY <2>2, <2>3, <2>4, <2>5, <2>6, Zenon DEF TypeOK
<1>2. Counted
  BY DEF Counted, Notifiers
<1>3. Places
  BY DEF Places, Pushing, Notifiers
<1>4. Baton
  BY DEF Baton, Tokens, Pushing, Running, Holding, Notifiers
<1> QED BY <1>1, <1>2, <1>3, <1>4 DEF IInv

(***************************************************************************)
(* Every step preserves the invariant.                                     *)
(***************************************************************************)
LEMMA QueueFacts ==
  ASSUME queue \in Seq(Types)
  PROVE  /\ Len(queue) \in Nat
         /\ queue = << >> <=> Len(queue) = 0
         /\ \A e \in Types : /\ Append(queue, e) \in Seq(Types)
                             /\ Len(Append(queue, e)) = Len(queue) + 1
         /\ queue # << >> => /\ Head(queue) \in Types /\ Tail(queue) \in Seq(Types)
                             /\ Len(Tail(queue)) = Len(queue) - 1
  BY EmptySeq, LenProperties, AppendProperties, HeadTailProperties

\* A thread enters notify_event, in one of three ways.
LEMMA NotifyIInv ==
  ASSUME IInv, NEW t \in Notifiers, NEW e \in Types, Notify(t, e),
         UNCHANGED <<queue, full, empty, sim, rcv, reported, bb, prev, block, cleared, trace, order>>,
         \/ t = "simulation" /\ sim = "running" /\ extra' = extra
         \/ t = "simulation" /\ sim = "stopping" /\ extra' = extra + 1 /\ extra' \in 0 .. MaxExtra
         \/ t = "other" /\ extra' = extra + 1 /\ extra' \in 0 .. MaxExtra
  PROVE  IInv'
<1> USE DEF IInv, Notify
<1>1. TypeOK'
  BY DEF TypeOK
<1>2. Counted'
  BY DEF Counted, TypeOK, Notifiers
<1>3. Places'
  BY DEF Places, TypeOK, Notifiers, Pushing
<1>4. Baton'
  BY QueueFacts DEF Baton, Tokens, TypeOK, Pushing, Running, Holding, Notifiers
<1> QED BY <1>1, <1>2, <1>3, <1>4

\* push_back: the event is there, its token is not yet.
LEMMA PushIInv ==
  ASSUME IInv, NEW t \in Notifiers, Push(t)
  PROVE  IInv'
<1> USE DEF IInv, Push, semaphores, coverage
<1>0. msg[t] \in Types
  BY DEF Places, Pushing
<1>1. TypeOK'
  BY <1>0, QueueFacts DEF TypeOK, SimStates
<1>2. Counted'
  BY <1>0, QueueFacts DEF Counted, TypeOK, Notifiers
<1>3. Places'
  BY DEF Places, TypeOK, Notifiers, Pushing
<1>4. Baton'
  BY <1>0, QueueFacts DEF Baton, Tokens, TypeOK, Pushing, Places, Running, Holding, Notifiers
<1> QED BY <1>1, <1>2, <1>3, <1>4

\* sem_post of m_full_slots: the token of an event that is there.
LEMMA PostIInv ==
  ASSUME IInv, NEW t \in Notifiers, Post(t)
  PROVE  IInv'
<1> USE DEF IInv, Post, coverage
<1>1. TypeOK'
  BY DEF TypeOK
<1>2. Counted'
  BY QueueFacts DEF Counted, TypeOK, Notifiers
<1>3. Places'
  BY DEF Places, TypeOK, Notifiers, Pushing
<1>4. Baton'
  BY QueueFacts DEF Baton, Tokens, TypeOK, Pushing, Running, Holding, Notifiers
<1> QED BY <1>1, <1>2, <1>3, <1>4

\* The simulation takes its token, and may run.
LEMMA ResumeIInv ==
  ASSUME IInv, Resume
  PROVE  IInv'
<1> USE DEF IInv, Resume, semaphores, coverage
<1>1. TypeOK'
  BY QueueFacts DEF TypeOK, SimStates, Baton, Tokens, Running, Holding, Pushing
<1>2. Counted'
  BY QueueFacts DEF Counted, TypeOK
<1>3. Places'
  BY DEF Places, TypeOK, Notifiers, Pushing
<1>4. Baton'
  BY QueueFacts DEF Baton, Tokens, TypeOK, Places, Pushing, Running, Holding
<1> QED BY <1>1, <1>2, <1>3, <1>4

\* The simulation waits for its token.
LEMMA SuspendIInv ==
  ASSUME IInv, Suspend
  PROVE  IInv'
<1> USE DEF IInv, Suspend, semaphores, coverage
<1>1. TypeOK'
  BY DEF TypeOK, SimStates
<1>2. Counted'
  BY QueueFacts DEF Counted, TypeOK
<1>3. Places'
  BY DEF Places, TypeOK, Notifiers, Pushing
<1>4. Baton'
  BY QueueFacts DEF Baton, Tokens, TypeOK, Places, Pushing, Running, Holding
<1> QED BY <1>1, <1>2, <1>3, <1>4

\* CONTINUE sees an empty queue, or an event to return.
LEMMA LookIInv ==
  ASSUME IInv, Look
  PROVE  IInv'
<1> USE DEF IInv, Look, AfterLook, semaphores, coverage
<1>1. TypeOK'
  BY DEF TypeOK, RcvStates
<1>2. Counted'
  BY QueueFacts DEF Counted, TypeOK
<1>3. Places'
  BY DEF Places, TypeOK, Notifiers, Pushing
<1>4. Baton'
  BY QueueFacts DEF Baton, Tokens, TypeOK, Places, Pushing, Running, Holding
<1> QED BY <1>1, <1>2, <1>3, <1>4

\* A CONTINUE is received.
LEMMA ContinueIInv ==
  ASSUME IInv, Continue
  PROVE  IInv'
<1> USE DEF IInv, Continue, semaphores, coverage
<1>1. TypeOK'
  BY DEF TypeOK, RcvStates
<1>2. Counted'
  BY QueueFacts DEF Counted, TypeOK
<1>3. Places'
  BY DEF Places, TypeOK, Notifiers, Pushing
<1>4. Baton'
  BY QueueFacts DEF Baton, Tokens, TypeOK, Places, Pushing, Running, Holding
<1> QED BY <1>1, <1>2, <1>3, <1>4

\* The token for the simulation: nobody else holds one.
LEMMA ContinueToNextEventIInv ==
  ASSUME IInv, ContinueToNextEvent
  PROVE  IInv'
<1> USE DEF IInv, ContinueToNextEvent, AfterLook, semaphores, coverage
<1>0. empty + 1 <= 1 + extra
  BY QueueFacts DEF TypeOK, Baton, Tokens, Running, Holding, Pushing
<1>1. TypeOK'
  BY <1>0 DEF TypeOK, RcvStates
<1>2. Counted'
  BY QueueFacts DEF Counted, TypeOK
<1>3. Places'
  BY DEF Places, TypeOK, Notifiers, Pushing
<1>4. Baton'
  BY QueueFacts DEF Baton, Tokens, TypeOK, Places, Pushing, Running, Holding
<1> QED BY <1>1, <1>2, <1>3, <1>4

\* CONTINUE takes the token of an event.
LEMMA WaitForEventIInv ==
  ASSUME IInv, WaitForEvent
  PROVE  IInv'
<1> USE DEF IInv, WaitForEvent, semaphores, coverage
<1>1. TypeOK'
  BY DEF TypeOK, RcvStates
<1>2. Counted'
  BY QueueFacts DEF Counted, TypeOK
<1>3. Places'
  BY DEF Places, TypeOK, Notifiers, Pushing
<1>4. Baton'
  BY QueueFacts DEF Baton, Tokens, TypeOK, Places, Pushing, Running, Holding
<1> QED BY <1>1, <1>2, <1>3, <1>4

\* And the event, which must be there.
LEMMA GetAndRemoveFirstEventIInv ==
  ASSUME IInv, GetAndRemoveFirstEvent
  PROVE  IInv'
<1> USE DEF IInv, GetAndRemoveFirstEvent, AfterTake, semaphores, coverage
<1>1. TypeOK'
  BY QueueFacts DEF TypeOK, RcvStates
<1>2. Counted'
  BY QueueFacts DEF Counted, TypeOK
<1>3. Places'
  BY DEF Places, TypeOK, Notifiers, Pushing
<1>4. Baton'
  BY QueueFacts DEF Baton, Tokens, TypeOK, Places, Pushing, Running, Holding
<1> QED BY <1>1, <1>2, <1>3, <1>4

\* The commands about coverage do not touch the queue.
LEMMA CoverageCommandIInv ==
  ASSUME IInv, CoverageCommand
  PROVE  IInv'
<1> USE DEF IInv, CoverageCommand, semaphores, coverage
<1>1. TypeOK'
  BY DEF TypeOK, RcvStates
<1>2. Counted'
  BY QueueFacts DEF Counted, TypeOK
<1>3. Places'
  BY DEF Places, TypeOK, Notifiers, Pushing
<1>4. Baton'
  BY QueueFacts DEF Baton, Tokens, TypeOK, Places, Pushing, Running, Holding
<1> QED BY <1>1, <1>2, <1>3, <1>4

\* Neither does the copy,
LEMMA CopyCodeCoverageIInv ==
  ASSUME IInv, CopyCodeCoverage
  PROVE  IInv'
<1> USE DEF IInv, CopyCodeCoverage, semaphores, coverage
<1>1. TypeOK'
  BY DEF TypeOK, RcvStates
<1>2. Counted'
  BY QueueFacts DEF Counted, TypeOK
<1>3. Places'
  BY DEF Places, TypeOK, Notifiers, Pushing
<1>4. Baton'
  BY QueueFacts DEF Baton, Tokens, TypeOK, Places, Pushing, Running, Holding
<1> QED BY <1>1, <1>2, <1>3, <1>4

\* nor the reset,
LEMMA ResetCodeCoverageIInv ==
  ASSUME IInv, ResetCodeCoverage
  PROVE  IInv'
<1> USE DEF IInv, ResetCodeCoverage, semaphores, coverage
<1>0. /\ bb' \in [Indices -> Counters] /\ trace' \in Seq(Indices) /\ Len(trace') = 1
      /\ cleared' \in BOOLEAN
  BY EventsAssumption DEF TypeOK, Counters
<1>1. TypeOK'
  BY <1>0, EventsAssumption DEF TypeOK, RcvStates
<1>2. Counted'
  BY QueueFacts DEF Counted, TypeOK
<1>3. Places'
  BY <1>0, EventsAssumption DEF Places, TypeOK, Notifiers, Pushing
<1>4. Baton'
  BY QueueFacts DEF Baton, Tokens, TypeOK, Places, Pushing, Running, Holding
<1> QED BY <1>1, <1>2, <1>3, <1>4

\* nor set_block.
LEMMA LoadBlockIInv ==
  ASSUME IInv, NEW b \in Blocks, LoadBlock(b)
  PROVE  IInv'
<1> USE DEF IInv, LoadBlock, semaphores, coverage
<1>0. block' \in [loc : Indices, seen : Counters]
  BY EventsAssumption DEF TypeOK
<1>1. TypeOK'
  BY <1>0 DEF TypeOK, SimStates
<1>2. Counted'
  BY QueueFacts DEF Counted, TypeOK
<1>3. Places'
  BY DEF Places, TypeOK, Notifiers, Pushing
<1>4. Baton'
  BY QueueFacts DEF Baton, Tokens, TypeOK, Places, Pushing, Running, Holding
<1> QED BY <1>1, <1>2, <1>3, <1>4

\* The shift of a location to the right.
LEMMA Halving ==
  ASSUME NEW n \in Nat
  PROVE  n \div 2 \in Nat /\ n \div 2 <= n
  BY SMT

\* The second half of set_block.
LEMMA StoreBlockIInv ==
  ASSUME IInv, StoreBlock
  PROVE  IInv'
<1> USE DEF IInv, StoreBlock, semaphores, coverage
<1>0. /\ bb' \in [Indices -> Counters] /\ trace' \in Seq(Indices)
      /\ Len(trace') \in 1 .. MaxTrace + 1 /\ prev' \in Indices
  <2>1. block.loc \in Indices /\ block.seen \in Counters
    BY DEF TypeOK
  <2>2. (block.seen + 1) % CounterSize \in Counters
    BY <2>1, EventsAssumption DEF Counters
  <2>3. block.loc \div 2 \in Indices
    <3> DEFINE n == block.loc
    <3>1. n \in 0 .. MapSize - 1 /\ MapSize \in Nat
      BY <2>1, EventsAssumption DEF Indices
    <3> HIDE DEF n
    <3>2. n \div 2 \in 0 .. MapSize - 1
      BY <3>1, Halving
    <3> QED BY <3>2 DEF n, Indices
  <2>4. trace' \in Seq(Indices) /\ Len(trace') = Len(trace) + 1
    BY <2>1, AppendProperties DEF TypeOK
  <2>5. Len(trace) <= MaxTrace
    BY DEF Places
  <2> QED BY <2>2, <2>3, <2>4, <2>5, EventsAssumption DEF TypeOK
<1>1. TypeOK'
  BY <1>0 DEF TypeOK, SimStates
<1>2. Counted'
  BY QueueFacts DEF Counted, TypeOK
<1>3. Places'
  BY <1>0 DEF Places, TypeOK, Notifiers, Pushing
<1>4. Baton'
  BY QueueFacts DEF Baton, Tokens, TypeOK, Places, Pushing, Running, Holding
<1> QED BY <1>1, <1>2, <1>3, <1>4

\* Every step keeps the invariant.
LEMMA NextIInv == IInv /\ [Next]_vars => IInv'
<1> SUFFICES ASSUME IInv, [Next]_vars PROVE IInv'
  OBVIOUS
<1> USE DEF semaphores, coverage
<1>1. CASE SimStep
  BY <1>1, ResumeIInv, LoadBlockIInv, StoreBlockIInv, SuspendIInv DEF SimStep
<1>2. CASE Occurrence
  <2>1. PICK k \in Kinds : NotifyEvent(k)
    BY <1>2 DEF Occurrence
  <2> QED BY <2>1, NotifyIInv, TypesFacts DEF NotifyEvent, Notifiers
<1>3. ASSUME NEW k \in Kinds, NotifyAnother(k) PROVE IInv'
  <2>1. extra' = extra + 1 /\ extra' \in 0 .. MaxExtra
    BY <1>3, EventsAssumption DEF NotifyAnother, IInv, TypeOK
  <2> QED BY <1>3, <2>1, NotifyIInv, TypesFacts DEF NotifyAnother, Notifiers
<1>4. CASE NotifyError
  <2>1. extra' = extra + 1 /\ extra' \in 0 .. MaxExtra
    BY <1>4, EventsAssumption DEF NotifyError, IInv, TypeOK
  <2> QED BY <1>4, <2>1, NotifyIInv, TypesFacts DEF NotifyError, Notifiers
<1>5. ASSUME NEW t \in Notifiers, NotifyStep(t) PROVE IInv'
  BY <1>5, PushIInv, PostIInv DEF NotifyStep
<1>6. CASE RcvStep
  BY <1>6, LookIInv, ContinueToNextEventIInv, WaitForEventIInv, GetAndRemoveFirstEventIInv,
     ResetCodeCoverageIInv, CopyCodeCoverageIInv DEF RcvStep
<1>7. CASE Continue \/ CoverageCommand
  BY <1>7, ContinueIInv, CoverageCommandIInv
<1>8. CASE UNCHANGED vars
  BY <1>8 DEF vars, IInv, TypeOK, Counted, Places, Baton, Tokens, Pushing, Running, Holding
<1> QED BY <1>1, <1>2, <1>3, <1>4, <1>5, <1>6, <1>7, <1>8 DEF Next

\* So it holds all along.
LEMMA Invariance == Spec => []IInv
  BY InitIInv, NextIInv, PTL DEF Spec

(***************************************************************************)
(* The variables hold values of their types; in particular no token of     *)
(* m_empty_slots is left over as long as events come alone.                *)
(***************************************************************************)
THEOREM TypeCorrect == Spec => []TypeOK
<1>1. IInv => TypeOK
  BY DEF IInv
<1> QED BY <1>1, Invariance, PTL

(***************************************************************************)
(* m_full_slots counts the events of the queue: the receiver never takes   *)
(* an event from an empty deque and never waits for one that is there.     *)
(***************************************************************************)
THEOREM TokensCount == Spec => []TokensMatchEvents
<1>1. IInv => TokensMatchEvents
  BY PostingCount, QueueFacts DEF IInv, TypeOK, Counted, TokensMatchEvents
<1> QED BY <1>1, Invariance, PTL

(***************************************************************************)
(* The client is never more than one event behind, not counting those that *)
(* do not come alone.                                                      *)
(***************************************************************************)
THEOREM ClientKeepsUp == Spec => []NeverAhead
<1>1. ASSUME IInv PROVE NeverAhead
  BY <1>1, QueueFacts
     DEF IInv, TypeOK, Baton, Tokens, Pushing, Running, Holding, NeverAhead
<1> QED BY <1>1, Invariance, PTL

(***************************************************************************)
(* No wake-up is lost.  Somebody always has what it takes to go on: an     *)
(* event is in the deque, a token is there for the simulation, the         *)
(* simulation runs, or the receiver has yet to pass the right on.          *)
(***************************************************************************)
Expected == queue # << >> \/ empty > 0 \/ Running \/ Holding

LEMMA ExpectedStep == IInv /\ Expected /\ [Next]_vars => Expected'
<1> SUFFICES ASSUME IInv, Expected, [Next]_vars PROVE Expected'
  OBVIOUS
<1> USE DEF semaphores, coverage, Expected, Running, Holding
<1>1. CASE SimStep
  BY <1>1 DEF SimStep, Resume, LoadBlock, StoreBlock, Suspend
<1>2. CASE Occurrence \/ (\E k \in Kinds : NotifyAnother(k)) \/ NotifyError
  BY <1>2 DEF Occurrence, NotifyEvent, NotifyAnother, NotifyError
<1>3. ASSUME NEW t \in Notifiers, Push(t) PROVE Expected'
  <2>1. msg[t] \in Types /\ queue \in Seq(Types)
    BY <1>3 DEF Push, IInv, TypeOK, Places, Pushing
  <2>2. queue' # << >>
    BY <1>3, <2>1, AppendProperties, EmptySeq DEF Push
  <2> QED BY <2>2
<1>4. ASSUME NEW t \in Notifiers, Post(t) PROVE Expected'
  BY <1>4 DEF Post
<1>5. CASE RcvStep
  <2>1. CASE Look
    BY <2>1 DEF Look, AfterLook
  <2>2. CASE ContinueToNextEvent
    <3>1. empty' > 0
      BY <2>2 DEF ContinueToNextEvent, IInv, TypeOK
    <3> QED BY <3>1
  <2>3. CASE WaitForEvent \/ GetAndRemoveFirstEvent \/ ResetCodeCoverage \/ CopyCodeCoverage
    BY <2>3
       DEF WaitForEvent, GetAndRemoveFirstEvent, AfterTake, ResetCodeCoverage, CopyCodeCoverage
  <2> QED BY <1>5, <2>1, <2>2, <2>3 DEF RcvStep
<1>6. CASE Continue \/ CoverageCommand
  BY <1>6 DEF Continue, CoverageCommand
<1>7. CASE UNCHANGED vars
  BY <1>7 DEF vars
<1> QED BY <1>1, <1>2, <1>3, <1>4, <1>5, <1>6, <1>7 DEF Next, NotifyStep

\* The event that is in the deque has its token there, or with a notifier.
THEOREM NoWakeupIsLost == Spec => []NoLostWakeup
<1>1. Init => Expected
  BY DEF Init, Expected, Running, Holding
<1>2. ASSUME IInv, Expected PROVE NoLostWakeup
  <2> SUFFICES ASSUME rcv = "wait", queue # << >>, Posting = {} PROVE full > 0
    BY <1>2 DEF Expected, Running, Holding, NoLostWakeup
  <2>1. \A t \in Notifiers : notify[t] # "post"
    BY DEF Posting
  <2>2. Len(queue) = full
    BY <1>2, <2>1, QueueFacts DEF IInv, TypeOK, Counted, Notifiers
  <2>3. Len(queue) \in Nat /\ Len(queue) # 0
    BY <1>2, EmptySeq, LenProperties DEF IInv, TypeOK
  <2> QED BY <2>2, <2>3
<1> QED BY <1>1, <1>2, ExpectedStep, Invariance, PTL DEF Spec

\* The initial states are those of Stepping.
LEMMA SteppingInit == Init => S!Init
  BY DEF Init, S!Init, S!NoEvent, NoEvent

\* Every step is one of Stepping, or changes nothing it speaks of.
LEMMA SteppingStep == IInv /\ [Next]_vars => [S!Next]_S!vars
<1> SUFFICES ASSUME IInv, [Next]_vars PROVE [S!Next]_S!vars
  OBVIOUS
<1> USE DEF semaphores, coverage, S!Next, S!vars
<1>1. CASE SimStep
  <2>1. CASE Resume
    <3>1. Len(queue) <= extra
      BY <2>1, QueueFacts
         DEF Resume, IInv, TypeOK, Baton, Tokens, Running, Holding, Pushing
    <3>2. S!Go
      BY <2>1, <3>1 DEF Resume, S!Go
    <3> QED BY <3>2
  <2>2. ASSUME NEW b \in Blocks, LoadBlock(b) PROVE UNCHANGED S!vars
    BY <2>2 DEF LoadBlock
  <2>3. CASE StoreBlock
    BY <2>3 DEF StoreBlock
  <2>4. CASE Suspend
    BY <2>4 DEF Suspend
  <2> QED BY <1>1, <2>1, <2>2, <2>3, <2>4 DEF SimStep
<1>2. CASE Occurrence
  BY <1>2 DEF Occurrence, NotifyEvent, Notify
<1>3. ASSUME NEW k \in Kinds, NotifyAnother(k) PROVE S!Extra
  BY <1>3 DEF NotifyAnother, S!Extra
<1>4. CASE NotifyError
  BY <1>4 DEF NotifyError, S!Extra
<1>5. ASSUME NEW t \in Notifiers, Push(t) PROVE \E e \in Types : S!Occur(e)
  <2>1. msg[t] \in Types
    BY <1>5 DEF Push, IInv, Places, Pushing
  <2>2. \/ t = "simulation" /\ sim = "running" /\ sim' = "stopping"
        \/ extra > 0 /\ (sim \in {"running", "block"} <=> sim' \in {"running", "block"})
    BY <1>5 DEF Push, IInv, TypeOK, Places, Pushing, Notifiers
  <2>3. S!Occur(msg[t])
    BY <1>5, <2>1, <2>2 DEF Push, S!Occur
  <2> QED BY <2>1, <2>3
<1>6. ASSUME NEW t \in Notifiers, Post(t) PROVE UNCHANGED S!vars
  BY <1>6 DEF Post
<1>7. CASE RcvStep
  <2>1. CASE Look \/ ContinueToNextEvent \/ WaitForEvent
    BY <2>1 DEF Look, ContinueToNextEvent, WaitForEvent, AfterLook
  <2>2. CASE GetAndRemoveFirstEvent
    BY <2>2 DEF GetAndRemoveFirstEvent, AfterTake, S!Report
  <2>3. CASE ResetCodeCoverage \/ CopyCodeCoverage
    BY <2>3 DEF ResetCodeCoverage, CopyCodeCoverage
  <2> QED BY <1>7, <2>1, <2>2, <2>3 DEF RcvStep
<1>8. CASE Continue
  BY <1>8 DEF Continue, S!Continue
<1>9. CASE CoverageCommand
  BY <1>9 DEF CoverageCommand
<1>10. CASE UNCHANGED vars
  BY <1>10 DEF vars
<1> QED BY <1>1, <1>2, <1>3, <1>4, <1>5, <1>6, <1>7, <1>8, <1>9, <1>10 DEF Next, NotifyStep

(***************************************************************************)
(* Events and CONTINUE implement module Stepping, whichever order the      *)
(* calls of handle_continue have: the events are returned in their order,  *)
(* none is lost, and the simulation goes on only when all have been        *)
(* returned but for those that do not come alone.                          *)
(***************************************************************************)
THEOREM SteppingRefinement == Spec => ImplementsSteppingSafely
  BY SteppingInit, SteppingStep, Invariance, PTL DEF Spec, ImplementsSteppingSafely, S!SafeSpec

(***************************************************************************)
(* The coverage map.  Besides its value the invariant needs the place of   *)
(* the previous block, and that nobody has changed the counter since       *)
(* set_block has read it.                                                  *)
(***************************************************************************)
Previous == prev = IF Len(trace) = 1 THEN trace[1] ELSE trace[Len(trace)] \div 2

SeenIsCurrent ==
    order = "resume_first" /\ extra = 0 /\ sim = "block" =>
        block.seen = bb[Mix(block.loc, prev)]

CInv == Previous /\ SeenIsCurrent /\ CoverageExact

\* The edges into the blocks of a trace that is one block longer.
LEMMA EdgesAppend ==
  ASSUME trace \in Seq(Indices), Len(trace) \in Nat \ {0}, NEW l \in Indices, Previous,
         trace' = Append(trace, l), NEW i
  PROVE  Edges(i)' = IF Mix(l, prev) = i THEN Edges(i) \cup {Len(trace) + 1} ELSE Edges(i)
<1> DEFINE n == Len(trace)
<1>1. /\ Len(trace') = n + 1 /\ trace'[n + 1] = l
      /\ \A j \in 1 .. n : trace'[j] = trace[j]
  BY AppendProperties
<1>2. \A j \in 2 .. n : j \in Edges(i)' <=> j \in Edges(i)
  BY <1>1 DEF Edges
<1>3. n + 1 \in Edges(i)' <=> Mix(l, prev) = i
  <2>1. (IF n + 1 = 2 THEN trace'[1] ELSE trace'[n] \div 2) = prev
    <3>1. trace'[1] = trace[1] /\ trace'[n] = trace[n] /\ n \in Nat \ {0}
      BY <1>1
    <3>2. prev = IF n = 1 THEN trace[1] ELSE trace[n] \div 2
      BY Zenon DEF Previous
    <3> HIDE DEF n
    <3>3. n + 1 = 2 <=> n = 1
      BY <3>1
    <3> QED BY <3>1, <3>2, <3>3
  <2> QED BY <1>1, <2>1 DEF Edges
<1>4. Edges(i)' \subseteq 2 .. n + 1 /\ Edges(i) \subseteq 2 .. n
  BY <1>1 DEF Edges
<1>5. 2 .. n + 1 = (2 .. n) \cup {n + 1} /\ n + 1 \notin 2 .. n
  OBVIOUS
<1> HIDE DEF n
<1>6. CASE Mix(l, prev) = i
  <2>1. Edges(i)' = Edges(i) \cup {n + 1}
    BY <1>2, <1>3, <1>4, <1>5, <1>6
  <2> QED BY <1>6, <2>1 DEF n
<1>7. CASE Mix(l, prev) # i
  <2>1. Edges(i)' = Edges(i)
    BY <1>2, <1>3, <1>4, <1>5, <1>7
  <2> QED BY <1>7, <2>1
<1> QED BY <1>6, <1>7

\* They are finitely many.
LEMMA EdgesFinite ==
  ASSUME trace \in Seq(Indices), NEW i
  PROVE  /\ IsFiniteSet(Edges(i)) /\ Cardinality(Edges(i)) \in Nat
         /\ Len(trace) + 1 \notin Edges(i)
<1>1. Len(trace) \in Nat /\ IsFiniteSet(2 .. Len(trace))
  BY LenProperties, FS_Interval
<1>2. Edges(i) \subseteq 2 .. Len(trace)
  BY DEF Edges
<1>3. IsFiniteSet(Edges(i))
  BY <1>1, <1>2, FS_Subset
<1> QED BY <1>1, <1>2, <1>3, FS_CardinalityType

\* A remainder is determined by its range.
LEMMA RemainderUnique ==
  ASSUME NEW m \in Nat \ {0}, NEW u \in Nat, NEW w \in 0 .. m-1
  PROVE  (m * u + w) % m = w
  BY SMT

\* Counting on, modulo the size of a counter.
LEMMA CountOn ==
  ASSUME NEW n \in Nat, NEW c \in Nat \ {0}
  PROVE  ((n % c) + 1) % c = (n + 1) % c
<1> DEFINE r == n % c
           q == n \div c
<1>1. q \in Nat /\ r \in 0 .. c - 1 /\ n = c * q + r
  BY SMT
<1> HIDE DEF q, r
<1>2. CASE r + 1 < c
  <2>1. r + 1 \in 0 .. c - 1 /\ n + 1 = c * q + (r + 1)
    BY <1>1, <1>2, SMT
  <2>2. (n + 1) % c = r + 1
    BY <1>1, <2>1, RemainderUnique
  <2>3. (r + 1) % c = r + 1
    BY <2>1, SMT
  <2> QED BY <2>2, <2>3 DEF r
<1>3. CASE r + 1 = c
  <2>1. q + 1 \in Nat /\ 0 \in 0 .. c - 1 /\ n + 1 = c * (q + 1) + 0
    BY <1>1, <1>3, SMT
  <2>2. (n + 1) % c = 0
    BY <2>1, RemainderUnique
  <2>3. (r + 1) % c = 0
    BY <1>3, SMT
  <2> QED BY <2>2, <2>3 DEF r
<1> QED BY <1>1, <1>2, <1>3, SMT

\* No step but these three changes what the coverage invariant is about.
LEMMA CoverageUntouched ==
  ASSUME CInv, UNCHANGED <<bb, prev, block, cleared, trace, order>>,
         sim' = "block" => sim = "block", extra' = 0 => extra = 0
  PROVE  CInv'
  BY DEF CInv, Previous, SeenIsCurrent, CoverageExact, CoverageCounts, Edges

\* The counter that set_block has read is the current one.
LEMMA LoadBlockCInv ==
  ASSUME IInv, CInv, NEW b \in Blocks, LoadBlock(b)
  PROVE  CInv'
<1> USE DEF LoadBlock, CInv
<1>1. Previous'
  BY DEF Previous
<1>2. SeenIsCurrent'
  BY DEF SeenIsCurrent
<1>3. CoverageExact'
  BY DEF CoverageExact, CoverageCounts, Edges
<1> QED BY <1>1, <1>2, <1>3

\* A reset starts the count anew, from the same previous block.
LEMMA ResetCodeCoverageCInv ==
  ASSUME IInv, CInv, ResetCodeCoverage
  PROVE  CInv'
<1> USE DEF ResetCodeCoverage, CInv
<1>1. Previous'
  BY DEF Previous
<1>2. SeenIsCurrent'
  BY QueueFacts
     DEF SeenIsCurrent, IInv, TypeOK, Baton, Tokens, Running, Holding, Pushing
<1>3. CoverageExact'
  <2>1. \A i \in Indices : Edges(i)' = {}
    BY DEF Edges
  <2>2. 0 % CounterSize = 0
    BY EventsAssumption, SMT
  <2> QED BY <2>1, <2>2, FS_EmptySet DEF CoverageExact, CoverageCounts
<1> QED BY <1>1, <1>2, <1>3

\* What set_block writes counts one more edge, and only that one.
LEMMA StoreBlockCInv ==
  ASSUME IInv, CInv, StoreBlock
  PROVE  CInv'
<1> USE DEF StoreBlock, CInv
<1> DEFINE l == block.loc
           e == Mix(l, prev)
<1>1. /\ l \in Indices /\ e \in Indices /\ trace \in Seq(Indices)
      /\ Len(trace) \in Nat \ {0} /\ bb \in [Indices -> Counters]
  BY EventsAssumption DEF IInv, TypeOK
<1>2. Previous'
  <2>1. Len(trace') = Len(trace) + 1 /\ trace'[Len(trace) + 1] = l
    BY <1>1, AppendProperties
  <2> QED BY <1>1, <2>1 DEF Previous
<1>3. SeenIsCurrent'
  BY DEF SeenIsCurrent
<1>4. CoverageExact'
  <2> SUFFICES ASSUME order = "resume_first", extra = 0, cleared, NEW i \in Indices
               PROVE  bb'[i] = Cardinality(Edges(i)') % CounterSize
    BY DEF CoverageExact, CoverageCounts
  <2>1. bb[i] = Cardinality(Edges(i)) % CounterSize
    BY DEF CoverageExact, CoverageCounts
  <2>2. CASE i = e
    <3>1. Edges(i)' = Edges(i) \cup {Len(trace) + 1}
      BY <1>1, <2>2, EdgesAppend
    <3>2. Cardinality(Edges(i)') = Cardinality(Edges(i)) + 1
      BY <1>1, <3>1, EdgesFinite, FS_AddElement
    <3>3. bb'[i] = (bb[i] + 1) % CounterSize
      BY <1>1, <2>2 DEF SeenIsCurrent
    <3> QED BY <1>1, <2>1, <3>2, <3>3, EdgesFinite, CountOn, EventsAssumption
  <2>3. CASE i # e
    <3>1. Edges(i)' = Edges(i)
      BY <1>1, <2>3, EdgesAppend
    <3>2. bb'[i] = bb[i]
      BY <1>1, <2>3
    <3> QED BY <2>1, <3>1, <3>2
  <2> QED BY <2>2, <2>3
<1> QED BY <1>2, <1>3, <1>4

\* Every step keeps the coverage invariant.
LEMMA NextCInv == IInv /\ CInv /\ [Next]_vars => CInv'
<1> SUFFICES ASSUME IInv, CInv, [Next]_vars PROVE CInv'
  OBVIOUS
<1> USE DEF semaphores, coverage
<1>0. extra \in Nat
  BY DEF IInv, TypeOK
<1>1. CASE SimStep
  <2>1. CASE Resume \/ Suspend
    BY <2>1, CoverageUntouched DEF Resume, Suspend
  <2> QED BY <1>1, <2>1, LoadBlockCInv, StoreBlockCInv DEF SimStep
<1>2. CASE Occurrence
  BY <1>2, CoverageUntouched DEF Occurrence, NotifyEvent
<1>3. ASSUME NEW k \in Kinds, NotifyAnother(k) PROVE CInv'
  BY <1>0, <1>3, CoverageUntouched DEF NotifyAnother
<1>4. CASE NotifyError
  BY <1>0, <1>4, CoverageUntouched DEF NotifyError
<1>5. ASSUME NEW t \in Notifiers, NotifyStep(t) PROVE CInv'
  BY <1>5, CoverageUntouched DEF NotifyStep, Push, Post
<1>6. CASE RcvStep
  <2>1. CASE Look \/ ContinueToNextEvent \/ WaitForEvent \/ GetAndRemoveFirstEvent
             \/ CopyCodeCoverage
    BY <2>1, CoverageUntouched
       DEF Look, ContinueToNextEvent, WaitForEvent, GetAndRemoveFirstEvent, CopyCodeCoverage
  <2> QED BY <1>6, <2>1, ResetCodeCoverageCInv DEF RcvStep
<1>7. CASE Continue \/ CoverageCommand
  BY <1>7, CoverageUntouched DEF Continue, CoverageCommand
<1>8. CASE UNCHANGED vars
  BY <1>8, CoverageUntouched DEF vars
<1> QED BY <1>1, <1>2, <1>3, <1>4, <1>5, <1>6, <1>7, <1>8 DEF Next

(***************************************************************************)
(* In the order of src/README.md, between a reset of the coverage map and  *)
(* an event that does not come alone, every counter holds how often its    *)
(* edge was taken, modulo the size of a counter: set_block loses nothing   *)
(* and counts nothing twice.                                               *)
(***************************************************************************)
THEOREM CoverageIsExact == Spec => []CoverageExact
<1>1. Init => CInv
  BY DEF Init, CInv, Previous, SeenIsCurrent, CoverageExact, CoverageCounts
<1>2. CInv => CoverageExact
  BY DEF CInv
<1> QED BY <1>1, <1>2, NextCInv, Invariance, PTL DEF Spec

=============================================================================
