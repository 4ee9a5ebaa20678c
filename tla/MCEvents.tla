------------------------------ MODULE MCEvents ------------------------------
(***************************************************************************)
(* Constants for the model checker: a map of four counters that wrap at    *)
(* two, and two blocks whose locations differ before and after the shift.  *)
(***************************************************************************)
EXTENDS Events, Bitwise

MCXor(a, b) == a ^^ b

\* (pc >> 4) ^ (pc << 8), masked
MCLoc == [pc \in Blocks |-> MCXor(pc \div 16, pc * 256) % MapSize]

\* A map of zeros, and one that holds something else.
MCMaps == {[i \in Indices |-> 0], [i \in Indices |-> CounterSize - 1]}

=============================================================================
