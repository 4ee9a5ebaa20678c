----------------------------- MODULE MCDispatch -----------------------------
(***************************************************************************)
(* Constants for the model checker.  With four values of a byte, a length  *)
(* has 256 values and a name at most three bytes; the sums of lengths wrap *)
(* at 256 instead of 2^32.                                                 *)
(***************************************************************************)
EXTENDS Dispatch

Plain(command, len) ==
    [command |-> command, len |-> len, announced |-> 0, names |-> <<0, 0, 0>>, count |-> 0,
     segment |-> "small", offset |-> 0, stop |-> FALSE]

MCNames == {<<0, 0, 0>>, <<1, 0, 2>>, <<3, 3, 3>>}

\* Every command around every length it tests, and one that does not exist.
PlainRequests ==
    {Plain(c, n) : c \in Commands \cup {"UNKNOWN"}, n \in {0, 1, 2, 4, 5, 8, 9, 16, 17, 18}}

QueueRequests ==
    {[Plain("ADD_TO_MMIO_READ_QUEUE", n) EXCEPT !.announced = a] :
        n \in 16 .. 19, a \in {0, 1, 2, 3, 240, 241, 255}}

RunRequests ==
    {[Plain("DO_RUN", n) EXCEPT !.announced = a, !.names = names] :
        n \in {19, 20, 21, 22, 23, 28, 29}, a \in {0, 1, 2, 237, 248, 255},
        names \in MCNames}

ReadRequests ==
    {[Plain("SET_FIXED_READ", n) EXCEPT !.count = k] :
        n \in {1, 9, 10, 11, 19, 28}, k \in Byte}

\* Offsets before, at and behind the end of a segment of five bytes.
ShmFields(q) ==
    {[q EXCEPT !.segment = id, !.offset = o, !.stop = t] :
        id \in {"small", "unknown"}, o \in {0, 1, 2, 5, 6, 255}, t \in BOOLEAN}

RunShmRequests ==
    UNION {ShmFields([Plain("DO_RUN_SHM", n) EXCEPT !.names = names]) :
        n \in {24, 25, 27}, names \in {<<1, 0, 0>>, <<1, 0, 2>>}}

CoverageRequests == UNION {ShmFields(Plain("GET_CODE_COVERAGE_SHM", n)) : n \in {7, 8}}

MCRequests ==
    PlainRequests \cup QueueRequests \cup RunRequests \cup ReadRequests
        \cup RunShmRequests \cup CoverageRequests

MCSegments == [small |-> 5]

=============================================================================
