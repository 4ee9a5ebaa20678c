------------------------------ MODULE Dispatch ------------------------------
(***************************************************************************)
(* handle_request of testing_receiver: how a request is tested, cut into   *)
(* the arguments of a handler, and answered; and the two handlers that     *)
(* work on shared memory.  The handlers themselves belong to the VP: they  *)
(* return any status and any event.                                        *)
(*                                                                         *)
(* Of the data of a request only its length is kept, and what the bytes    *)
(* say that decide how it is cut.  An argument is the piece of the data it *)
(* is taken from.                                                          *)
(***************************************************************************)
EXTENDS Codec, VptiTypes

CONSTANTS
    Requests,       \* what may be received
    AdditionalData, \* lengths of the additional data of events
    Segments,       \* sizes of the shared memory segments, by their ids
    MapSize,        \* MAP_SIZE
    Terminators,    \* how far after an offset the first zero byte may be
    MinData,        \* the shortest data that the communication receives
    MaxAttached     \* how many segments a process can attach

\* The values of a size_t.
WordSize == R4 * R4

\* The fields are the data_length, and what the data says: the data length it
\* announces, the lengths of three names, the number of fixed reads, and the
\* segment, offset and option for shared memory.
IsRequest(q) ==
    /\ q.len \in UInt32 /\ q.announced \in UInt32 /\ q.offset \in UInt32
    /\ q.names \in [1 .. 3 -> Byte] /\ q.count \in Byte
    /\ q.stop \in BOOLEAN

ASSUME DispatchAssumption ==
    /\ \A q \in Requests : IsRequest(q)
    /\ AdditionalData \subseteq UInt32
    /\ \A id \in DOMAIN Segments : Segments[id] \in 1 .. WordSize - 1
    /\ MapSize \in Nat \ {0} /\ Terminators \subseteq 0 .. WordSize - 2
    /\ MinData \in {1, 2} /\ MaxAttached \in Nat

VARIABLES
    pc,         \* where receiver_loop is
    req,        \* m_current_req
    res,        \* m_current_res, with the number of bytes data points to
    got,        \* the arguments of the handler called for this request
    access,     \* the shared memory it was given
    attached    \* segments of shared memory that are attached

vars == <<pc, req, res, got, access, attached>>

Statuses == {StatusOK, StatusError, StatusMalformed}

Response(status, len, bytes) == [status |-> status, len |-> len, bytes |-> bytes]

NullResponse == Response(StatusOK, 0, 0)

Piece(from, len) == [from |-> from, len |-> len]

NoAccess == Piece(0, 0)

-----------------------------------------------------------------------------
(***************************************************************************)
(* The tests of the length of a request.                                   *)
(***************************************************************************)
\* The only test of these commands is check_exact_request_length.
FixedLength ==
    [CONTINUE |-> 0, KILL |-> 1, ENABLE_MMIO_TRACKING |-> 17, DISABLE_MMIO_TRACKING |-> 0,
     SET_CPU_INTERRUPT_TRIGGER |-> 16, ENABLE_CODE_COVERAGE |-> 0,
     DISABLE_CODE_COVERAGE |-> 0, GET_CODE_COVERAGE |-> 0, GET_CODE_COVERAGE_SHM |-> 8,
     RESET_CODE_COVERAGE |-> 0, GET_RETURN_CODE |-> 0, GET_CPU_PC |-> 0,
     JUMP_CPU_TO |-> 8, STORE_CPU_REGISTERS |-> 0, RESTORE_CPU_REGISTERS |-> 0]

\* These begin with check_min_request_length.
MinLength ==
    [SET_BREAKPOINT |-> 2, REMOVE_BREAKPOINT |-> 1, SET_MMIO_VALUE |-> 1,
     ADD_TO_MMIO_READ_QUEUE |-> 17, SET_RETURN_CODE_ADDRESS |-> 5, DO_RUN |-> 20,
     DO_RUN_SHM |-> 25, SET_ERROR_SYMBOL |-> 1, SET_FIXED_READ |-> 10]

Commands == DOMAIN FixedLength \cup DOMAIN MinLength

\* How many bytes the data of a request points to: over a pipe data of one byte is
\* not received, and the pointer is a null pointer.
Given(q) == IF q.len >= MinData THEN q.len ELSE 0

NamesLength(q) == q.names[1] + q.names[2] + q.names[3]

\* And some go on with check_exact_request_length, a sum of 32 bits.
Total(q) ==
    [ADD_TO_MMIO_READ_QUEUE |-> (16 + q.announced) % R4,
     DO_RUN |-> (19 + NamesLength(q) + q.announced) % R4,
     DO_RUN_SHM |-> 24 + NamesLength(q),
     SET_FIXED_READ |-> 1 + q.count * 9]

\* Mutant of Accepts: only the first test is made.
AcceptsByFirstTest(q) ==
    /\ q.command \in DOMAIN FixedLength => q.len = FixedLength[q.command]
    /\ q.command \in DOMAIN MinLength => q.len >= MinLength[q.command]

Accepts(q) ==
    /\ q.command \in DOMAIN FixedLength => q.len = FixedLength[q.command]
    /\ q.command \in DOMAIN MinLength => q.len >= MinLength[q.command]
    /\ q.command \in DOMAIN Total(q) => q.len = Total(q)[q.command]

-----------------------------------------------------------------------------
(***************************************************************************)
(* The arguments, in the order in which they are taken from the data.      *)
(***************************************************************************)
\* The name of number k, where the names begin at some byte.
Name(q, at, k) ==
    Piece(at + (IF k > 1 THEN q.names[1] ELSE 0) + (IF k > 2 THEN q.names[2] ELSE 0),
          q.names[k])

\* Of the commands whose response is a status only.  SET_MMIO_VALUE takes its
\* length from the response.
PlainArguments(q) ==
    [KILL |-> <<Piece(0, 1)>>,
     SET_BREAKPOINT |-> <<Piece(0, 1), Piece(1, q.len - 1)>>,
     REMOVE_BREAKPOINT |-> <<Piece(0, q.len)>>,
     ENABLE_MMIO_TRACKING |-> <<Piece(0, 8), Piece(8, 8), Piece(16, 1)>>,
     DISABLE_MMIO_TRACKING |-> << >>,
     SET_MMIO_VALUE |-> <<Piece(4, NullResponse.len)>>,
     ADD_TO_MMIO_READ_QUEUE |->
        <<Piece(0, 8), Piece(8, 4), Piece(12, 4), Piece(16, q.announced)>>,
     SET_CPU_INTERRUPT_TRIGGER |-> <<Piece(0, 8), Piece(8, 8)>>,
     ENABLE_CODE_COVERAGE |-> << >>,
     DISABLE_CODE_COVERAGE |-> << >>,
     RESET_CODE_COVERAGE |-> << >>,
     SET_RETURN_CODE_ADDRESS |-> <<Piece(0, 8), Piece(4, q.len - 4)>>,
     SET_ERROR_SYMBOL |-> <<Piece(0, q.len)>>,
     SET_FIXED_READ |-> <<Piece(0, 1), Piece(1, 9 * q.count)>>,
     JUMP_CPU_TO |-> <<Piece(0, 8)>>,
     STORE_CPU_REGISTERS |-> << >>,
     RESTORE_CPU_REGISTERS |-> << >>]

DoRunArguments(q) ==
    <<Piece(0, 8), Piece(8, 4), Piece(12, 4), Piece(16, 1), Piece(17, 1), Piece(18, 1),
      Name(q, 19, 1), Name(q, 19, 2), Name(q, 19, 3),
      Piece(19 + NamesLength(q), q.announced)>>

DoRunShmArguments(q) ==
    <<Piece(0, 8), Piece(8, 4), Piece(12, 4), Piece(16, 4), Piece(20, 1),
      Piece(21, 1), Piece(22, 1), Piece(23, 1),
      Name(q, 24, 1), Name(q, 24, 2), Name(q, 24, 3)>>

-----------------------------------------------------------------------------
(***************************************************************************)
(* The receiver loop, and the cases of handle_request.                     *)
(***************************************************************************)
Receive(q) ==
    /\ pc = "receive"
    /\ pc' = "handle"
    /\ req' = q
    /\ res' = NullResponse
    /\ got' = << >>
    /\ access' = NoAccess
    /\ UNCHANGED attached

\* The response is sent, and its data freed.
SendResponse ==
    /\ pc = "send"
    /\ pc' = "receive"
    /\ res' = [res EXCEPT !.bytes = 0]
    /\ UNCHANGED <<req, got, access, attached>>

Handle(commands) ==
    /\ pc = "handle"
    /\ req.command \in commands
    /\ Accepts(req)
    /\ pc' = "send"
    /\ UNCHANGED req

RespondMalformed ==
    /\ pc = "handle"
    /\ req.command \in Commands
    /\ ~Accepts(req)
    /\ pc' = "send"
    /\ res' = Response(StatusMalformed, 0, 0)
    /\ UNCHANGED <<req, got, access, attached>>

\* The type of the event, and its additional data.
HandleContinue ==
    /\ Handle({"CONTINUE"})
    /\ got' = << >>
    /\ \E status \in Statuses, n \in AdditionalData :
          res' = Response(status, (n + 1) % R4, (n + 1) % R4)
    /\ UNCHANGED <<access, attached>>

HandlePlain ==
    /\ Handle(DOMAIN PlainArguments(req))
    /\ got' = PlainArguments(req)[req.command]
    /\ \E status \in Statuses : res' = Response(status, 0, 0)
    /\ UNCHANGED <<access, attached>>

\* The handler gets the pointer by value, which stays a null pointer.
HandleGetCodeCoverage ==
    /\ Handle({"GET_CODE_COVERAGE"})
    /\ got' = << >>
    /\ res' = Response(StatusError, 0, 0)
    /\ UNCHANGED <<access, attached>>

\* A uint64_t, whatever the status.
HandleValue ==
    /\ Handle({"GET_RETURN_CODE", "GET_CPU_PC"})
    /\ got' = << >>
    /\ \E status \in Statuses : res' = Response(status, 8, 8)
    /\ UNCHANGED <<access, attached>>

HandleDoRun ==
    /\ Handle({"DO_RUN"})
    /\ got' = DoRunArguments(req)
    /\ \E status \in Statuses : res' = Response(status, 0, 0)
    /\ UNCHANGED <<access, attached>>

\* No case of the switch.
HandleUnknown ==
    /\ pc = "handle"
    /\ req.command \notin Commands
    /\ pc' = "send"
    /\ UNCHANGED <<req, res, got, access, attached>>

-----------------------------------------------------------------------------
(***************************************************************************)
(* The handlers that attach shared memory.  shmat fails for an unknown id  *)
(* and when the process cannot attach more, shmctl may fail any time, and  *)
(* shmdt does not fail, as the segment is attached.                        *)
(***************************************************************************)
CanAttach(id) == id \in DOMAIN Segments /\ attached < MaxAttached

\* Mutant of Remaining: the difference is signed.
RemainingSigned(q) == Segments[q.segment] - q.offset

\* What is left of the segment after the offset, in the width of a size_t.
Remaining(q) == (Segments[q.segment] - q.offset) % WordSize

\* strnlen: up to the first zero byte, and at most limit.
StringLength(limit, zero) == IF zero < limit THEN zero ELSE limit

\* Mutant of RunLength: the termination character comes on top.
RunLengthAndOne(q, zero) ==
    IF q.stop THEN (StringLength(Remaining(q), zero) + 1) % WordSize
              ELSE Remaining(q)

\* The data of a run, with its termination character if that is what ends it.
RunLength(q, zero) ==
    IF q.stop THEN (StringLength((Remaining(q) - 1) % WordSize, zero) + 1) % WordSize
              ELSE Remaining(q)

\* A call that ends early: the segment stays attached, if it has been.
ShmFails(commands, arguments, left) ==
    /\ Handle(commands)
    /\ got' = arguments
    /\ res' = Response(StatusError, 0, 0)
    /\ attached' = attached + left
    /\ UNCHANGED access

HandleDoRunShm ==
    /\ Handle({"DO_RUN_SHM"})
    /\ CanAttach(req.segment)
    /\ got' = DoRunShmArguments(req)
    /\ \E zero \in Terminators : access' = Piece(req.offset, RunLength(req, zero))
    /\ \E status \in Statuses : res' = Response(status, 0, 0)
    /\ UNCHANGED attached

\* shmat or shmctl fails.
DoRunShmFails ==
    \/ /\ ~CanAttach(req.segment)
       /\ ShmFails({"DO_RUN_SHM"}, DoRunShmArguments(req), 0)
    \/ /\ CanAttach(req.segment)
       /\ ShmFails({"DO_RUN_SHM"}, DoRunShmArguments(req), 1)

CoverageArguments == <<Piece(0, 4), Piece(4, 4)>>

MapFits(q) == MapSize <= Remaining(q)

HandleGetCodeCoverageShm ==
    /\ Handle({"GET_CODE_COVERAGE_SHM"})
    /\ CanAttach(req.segment)
    /\ MapFits(req)
    /\ got' = CoverageArguments
    /\ access' = Piece(req.offset, MapSize)
    /\ res' = Response(StatusOK, 0, 0)
    /\ UNCHANGED attached

\* shmat or shmctl fails, or the map does not fit.
CoverageShmFails ==
    \/ /\ ~CanAttach(req.segment)
       /\ ShmFails({"GET_CODE_COVERAGE_SHM"}, CoverageArguments, 0)
    \/ /\ CanAttach(req.segment)
       /\ ShmFails({"GET_CODE_COVERAGE_SHM"}, CoverageArguments, 1)

-----------------------------------------------------------------------------
Init ==
    /\ pc = "receive"
    /\ req \in Requests     \* m_current_req, never initialised
    /\ res = NullResponse /\ got = << >> /\ access = NoAccess
    /\ attached = 0

Next ==
    \/ \E q \in Requests : Receive(q)
    \/ RespondMalformed
    \/ HandleContinue \/ HandlePlain \/ HandleGetCodeCoverage \/ HandleValue
    \/ HandleDoRun \/ HandleUnknown
    \/ HandleDoRunShm \/ DoRunShmFails
    \/ HandleGetCodeCoverageShm \/ CoverageShmFails
    \/ SendResponse

Spec == Init /\ [][Next]_vars

-----------------------------------------------------------------------------
(***************************************************************************)
(* Properties.                                                             *)
(***************************************************************************)
\* Every variable holds values of its kind.  No argument begins before the
\* data or has a negative length, and no more segments are attached than a
\* process may attach.
TypeOK ==
    /\ pc \in {"receive", "handle", "send"}
    /\ req \in Requests
    /\ res \in [status : Statuses, len : UInt32, bytes : UInt32]
    /\ got \in Seq([from : Nat, len : Nat])
    /\ access \in [from : Nat, len : Nat]
    /\ attached \in 0 .. MaxAttached

\* The pieces begin where the previous one ends, and the last at the end.
Tiles(pieces, len) ==
    \A i \in 0 .. Len(pieces) :
        (IF i = 0 THEN 0 ELSE pieces[i].from + pieces[i].len)
            = (IF i = Len(pieces) THEN len ELSE pieces[i + 1].from)

\* The sum of the lengths in a request for a run exceeds 32 bits.
Wraps(q) == q.command = "DO_RUN" /\ 19 + NamesLength(q) + q.announced >= R4

\* The two commands whose arguments are taken from other places than src/README.md
\* says: the value of SET_MMIO_VALUE, which has no length and begins at byte 4, and
\* the register name of SET_RETURN_CODE_ADDRESS, inside the address.
MisCut == {"SET_MMIO_VALUE", "SET_RETURN_CODE_ADDRESS"}

\* What the tests of the length achieve.  The arguments of a handler are the whole
\* data of the request, each byte that has come in one of them and none behind it,
\* with four exceptions, and in those never: the sum of a run that wraps, a request
\* of one byte over a pipe, which comes without it, and the two commands above.
\* (The sum of ADD_TO_MMIO_READ_QUEUE wraps as well, but then the minimum excludes
\* it.)  A request that is malformed reaches no handler.
ArgumentsTile ==
    pc = "send" /\ req.command \in Commands =>
        IF Accepts(req)
        THEN Tiles(got, Given(req))
               <=> ~Wraps(req) /\ Given(req) = req.len /\ req.command \notin MisCut
        ELSE got = << >> /\ res.status = StatusMalformed

\* "Check again with all length combined": an accepted request for a run holds the
\* names and the data whose lengths it announces.  The sum that wraps breaks this.
RunIsCutWhole ==
    pc = "send" /\ req.command = "DO_RUN" /\ Accepts(req) => Tiles(got, req.len)

\* An offset inside the segment; at its very end, unless a terminated string is
\* to be read from there.
OffsetFits(q) ==
    \/ q.offset < Segments[q.segment]
    \/ q.offset = Segments[q.segment] /\ ~q.stop

\* What the unsigned sizes of both handlers achieve: they stay inside the segment,
\* wherever the zero bytes are, exactly if the offset is inside.
InsideSegment ==
    access # NoAccess =>
        (access.from + access.len <= Segments[req.segment] <=> OffsetFits(req))

\* "Coverage map does not fit into the shared memory!": a map that is written fits.
\* The difference that wraps breaks this.
MapIsInside ==
    req.command = "GET_CODE_COVERAGE_SHM" /\ access # NoAccess =>
        access.from + access.len <= Segments[req.segment]

=============================================================================
