------------------------------ MODULE Stepping ------------------------------
(***************************************************************************)
(* What CONTINUE promises the client of a VP: events are returned in the   *)
(* order in which they occurred, none is lost, and the simulation does not *)
(* go on before all of them have been returned.                            *)
(*                                                                         *)
(* Every event is the first one of a stop of the simulation, with which it *)
(* stops, or does not come alone: a later one of the same stop, or one     *)
(* from elsewhere.  The simulation may leave behind as many events as have *)
(* not come alone.                                                         *)
(***************************************************************************)
EXTENDS Naturals, Sequences

CONSTANT Events     \* what may occur in the simulation

VARIABLES sim,      \* the simulation is "standing" or "running"
          call,     \* CONTINUE is "idle" or "waiting" for an event
          pending,  \* events that occurred and were not yet returned
          reported, \* what the latest CONTINUE has returned
          extra     \* number of events that did not come alone

vars == <<sim, call, pending, reported, extra>>

NoEvent == "none"

Init ==
    /\ sim \in {"standing", "running"} /\ call = "idle"
    /\ pending = << >> /\ reported = NoEvent
    /\ extra = 0

Continue ==
    /\ call = "idle"
    /\ call' = "waiting"
    /\ UNCHANGED <<sim, pending, reported, extra>>

Go ==
    /\ sim = "standing"
    /\ Len(pending) <= extra
    /\ sim' = "running"
    /\ UNCHANGED <<call, pending, reported, extra>>

Occur(e) ==
    /\ \/ sim = "running" /\ sim' = "standing"
       \/ extra > 0 /\ sim' = sim
    /\ pending' = Append(pending, e)
    /\ UNCHANGED <<call, reported, extra>>

\* An event that does not come alone is announced before it occurs.
Extra ==
    /\ extra' = extra + 1
    /\ UNCHANGED <<sim, call, pending, reported>>

Report ==
    /\ call = "waiting"
    /\ pending # << >>
    /\ reported' = Head(pending)
    /\ pending' = Tail(pending)
    /\ call' = "idle"
    /\ UNCHANGED <<sim, extra>>

Next == Continue \/ Go \/ (\E e \in Events : Occur(e)) \/ Extra \/ Report

SafeSpec == Init /\ [][Next]_vars

=============================================================================
