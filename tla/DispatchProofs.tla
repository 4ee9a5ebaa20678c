--------------------------- MODULE DispatchProofs ---------------------------
(***************************************************************************)
(* Theorems about module Dispatch, for all requests, sizes of a byte and   *)
(* of the segments of shared memory.                                       *)
(***************************************************************************)
EXTENDS Dispatch, CodecProofs

Pieces == [from : Nat, len : Nat]

\* The widths are large enough for the sums of small constants.
LEMMA Widths ==
  /\ R4 \in Nat /\ R4 >= 81 /\ WordSize \in Nat /\ WordSize >= 81 * R4
<1>1. \A a, b, c, d \in Nat : a >= c /\ b >= d => a * b >= c * d /\ a * b \in Nat
  <2> SUFFICES ASSUME NEW a \in Nat, NEW b \in Nat, NEW c \in Nat, NEW d \in Nat, a >= c, b >= d
               PROVE  a * b >= c * d /\ a * b \in Nat
    OBVIOUS
  <2>1. a * b >= c * b
    BY SMT
  <2>2. c * b >= c * d
    BY SMT
  <2> QED BY <2>1, <2>2, SMT
<1>2. Radix \in Nat /\ Radix >= 3
  BY RadixAssumption
<1>3. R2 \in Nat /\ R2 >= 9
  BY <1>1, <1>2 DEF R2
<1>4. R3 \in Nat /\ R3 >= 27
  BY <1>1, <1>2, <1>3 DEF R3
<1>5. R4 \in Nat /\ R4 >= 81
  BY <1>1, <1>2, <1>4 DEF R4
<1> QED BY <1>1, <1>5 DEF WordSize

\* A sum that wraps once.
LEMMA WrappedSum ==
  ASSUME NEW m \in Nat \ {0}, NEW n \in 0 .. 2 * m - 1
  PROVE  n % m = IF n < m THEN n ELSE n - m
<1>1. CASE n < m
  BY <1>1, SMT
<1>2. CASE n >= m
  <2>1. n = m * 1 + (n - m) /\ n - m \in 0 .. m - 1
    BY <1>2, SMT
  <2> QED BY <2>1, RemainderUnique, <1>2
<1> QED BY <1>1, <1>2

\* The total of ADD_TO_MMIO_READ_QUEUE cannot wrap in an accepted request.
LEMMA QueueTotal ==
  ASSUME NEW q, IsRequest(q), Accepts(q), q.command = "ADD_TO_MMIO_READ_QUEUE"
  PROVE  q.len = 16 + q.announced
<1>1. q.len >= 17 /\ q.len = (16 + q.announced) % R4
  BY DEF Accepts, MinLength, Total
<1>2. /\ R4 \in Nat \ {0} /\ R4 >= 81 /\ q.announced \in 0 .. R4 - 1
      /\ 16 + q.announced \in 0 .. 2 * R4 - 1
  BY Widths DEF IsRequest, UInt32
<1>3. q.len = IF 16 + q.announced < R4 THEN 16 + q.announced ELSE 16 + q.announced - R4
  <2> DEFINE s == 16 + q.announced
  <2>1. q.len = s % R4 /\ s \in 0 .. 2 * R4 - 1
    BY <1>1, <1>2
  <2> HIDE DEF s
  <2>2. s % R4 = IF s < R4 THEN s ELSE s - R4
    BY <1>2, <2>1, WrappedSum
  <2>3. q.len = IF s < R4 THEN s ELSE s - R4
    BY <2>1, <2>2
  <2> QED BY <1>2, <2>3 DEF s
<1> QED BY <1>1, <1>2, <1>3

\* That of DO_RUN is exact if it does not wrap, and cannot be if it does.
LEMMA RunTotal ==
  ASSUME NEW q, IsRequest(q), Accepts(q), q.command = "DO_RUN"
  PROVE  q.len = 19 + NamesLength(q) + q.announced <=> ~Wraps(q)
<1> DEFINE s == 19 + NamesLength(q) + q.announced
<1>1. q.len = s % R4 /\ (Wraps(q) <=> s >= R4)
  BY DEF Accepts, Total, Wraps
<1>2. s \in Nat /\ R4 \in Nat \ {0} /\ q.len \in 0 .. R4 - 1
  BY RadixAssumption, Widths DEF IsRequest, UInt32, Byte, NamesLength
<1> HIDE DEF s
<1>3. ASSUME s >= R4 PROVE q.len = s <=> ~Wraps(q)
  BY <1>1, <1>2, <1>3
<1>4. ASSUME s < R4 PROVE q.len = s <=> ~Wraps(q)
  <2>1. s \in 0 .. 2 * R4 - 1
    BY <1>2, <1>4
  <2>2. s % R4 = s
    BY <1>2, <1>4, <2>1, WrappedSum
  <2> QED BY <1>1, <1>2, <1>4, <2>2
<1>5. q.len = s <=> ~Wraps(q)
  BY <1>2, <1>3, <1>4
<1> QED BY <1>5 DEF s

\* The arguments of one command at a time.
LEMMA PlainTiles ==
  ASSUME NEW q, IsRequest(q), Accepts(q), q.command \in DOMAIN PlainArguments(q)
  PROVE  /\ PlainArguments(q)[q.command] \in Seq(Pieces)
         /\ q.command \notin MisCut => Tiles(PlainArguments(q)[q.command], q.len)
<1> USE DEF Piece, Pieces, Tiles
<1>0. q.len \in Nat /\ q.announced \in Nat /\ q.count \in Nat
  BY RadixAssumption, Widths DEF IsRequest, UInt32, Byte
<1>1. CASE q.command \in {"DISABLE_MMIO_TRACKING", "ENABLE_CODE_COVERAGE",
                          "DISABLE_CODE_COVERAGE", "RESET_CODE_COVERAGE",
                          "STORE_CPU_REGISTERS", "RESTORE_CPU_REGISTERS"}
  <2>1. PlainArguments(q)[q.command] = << >> /\ q.len = 0
    BY <1>1 DEF PlainArguments, Accepts, FixedLength
  <2> QED BY <2>1
<1>2. CASE q.command = "KILL"
  <2>1. PlainArguments(q)[q.command] = <<Piece(0, 1)>> /\ q.len = 1
    BY <1>2 DEF PlainArguments, Accepts, FixedLength
  <2> QED BY <2>1
<1>3. CASE q.command = "SET_BREAKPOINT"
  <2>1. PlainArguments(q)[q.command] = <<Piece(0, 1), Piece(1, q.len - 1)>> /\ q.len >= 2
    BY <1>3 DEF PlainArguments, Accepts, MinLength
  <2> QED BY <1>0, <2>1
<1>4. CASE q.command \in {"REMOVE_BREAKPOINT", "SET_ERROR_SYMBOL"}
  <2>1. PlainArguments(q)[q.command] = <<Piece(0, q.len)>>
    BY <1>4 DEF PlainArguments
  <2> QED BY <1>0, <2>1
<1>5. CASE q.command = "ENABLE_MMIO_TRACKING"
  <2>1. PlainArguments(q)[q.command] = <<Piece(0, 8), Piece(8, 8), Piece(16, 1)>> /\ q.len = 17
    BY <1>5 DEF PlainArguments, Accepts, FixedLength
  <2> QED BY <2>1
<1>6. CASE q.command = "SET_MMIO_VALUE"
  <2>1. PlainArguments(q)[q.command] = <<Piece(4, 0)>>
    BY <1>6 DEF PlainArguments, NullResponse, Response
  <2> QED BY <1>6, <2>1 DEF MisCut
<1>7. CASE q.command = "ADD_TO_MMIO_READ_QUEUE"
  <2>1. PlainArguments(q)[q.command]
          = <<Piece(0, 8), Piece(8, 4), Piece(12, 4), Piece(16, q.announced)>>
    BY <1>7 DEF PlainArguments
  <2> QED BY <1>0, <1>7, <2>1, QueueTotal
<1>8. CASE q.command = "SET_CPU_INTERRUPT_TRIGGER"
  <2>1. PlainArguments(q)[q.command] = <<Piece(0, 8), Piece(8, 8)>> /\ q.len = 16
    BY <1>8 DEF PlainArguments, Accepts, FixedLength
  <2> QED BY <2>1
<1>9. CASE q.command = "SET_RETURN_CODE_ADDRESS"
  <2>1. PlainArguments(q)[q.command] = <<Piece(0, 8), Piece(4, q.len - 4)>> /\ q.len >= 5
    BY <1>9 DEF PlainArguments, Accepts, MinLength
  <2> QED BY <1>0, <1>9, <2>1 DEF MisCut
<1>10. CASE q.command = "SET_FIXED_READ"
  <2>1. PlainArguments(q)[q.command] = <<Piece(0, 1), Piece(1, 9 * q.count)>>
        /\ q.len = 1 + q.count * 9
    BY <1>10 DEF PlainArguments, Accepts, Total
  <2> QED BY <1>0, <2>1
<1>11. CASE q.command = "JUMP_CPU_TO"
  <2>1. PlainArguments(q)[q.command] = <<Piece(0, 8)>> /\ q.len = 8
    BY <1>11 DEF PlainArguments, Accepts, FixedLength
  <2> QED BY <2>1
<1> QED BY <1>1, <1>2, <1>3, <1>4, <1>5, <1>6, <1>7, <1>8, <1>9, <1>10, <1>11 DEF PlainArguments

\* Those of the two commands of MisCut tile nothing.
LEMMA MisCutTilesNothing ==
  ASSUME NEW q, IsRequest(q), Accepts(q), q.command \in MisCut, NEW n \in Nat
  PROVE  ~Tiles(PlainArguments(q)[q.command], n)
<1> USE DEF Piece, Tiles
<1>0. q.len \in Nat
  BY Widths DEF IsRequest, UInt32
<1>1. CASE q.command = "SET_MMIO_VALUE"
  <2>1. PlainArguments(q)[q.command] = <<Piece(4, 0)>>
    BY <1>1 DEF PlainArguments, NullResponse, Response
  <2> QED BY <2>1
<1>2. CASE q.command = "SET_RETURN_CODE_ADDRESS"
  <2>1. PlainArguments(q)[q.command] = <<Piece(0, 8), Piece(4, q.len - 4)>>
    BY <1>2 DEF PlainArguments
  <2> QED BY <1>0, <2>1
<1> QED BY <1>1, <1>2 DEF MisCut

LEMMA RunTiles ==
  ASSUME NEW q, IsRequest(q), Accepts(q), q.command = "DO_RUN"
  PROVE  /\ DoRunArguments(q) \in Seq(Pieces)
         /\ Tiles(DoRunArguments(q), q.len) <=> ~Wraps(q)
<1> DEFINE a == q.names[1]
           b == q.names[2]
           c == q.names[3]
<1>0. /\ a \in Nat /\ b \in Nat /\ c \in Nat /\ q.announced \in Nat
      /\ NamesLength(q) = a + b + c
  BY RadixAssumption, Widths DEF IsRequest, UInt32, Byte, NamesLength
<1>1. DoRunArguments(q) =
        <<Piece(0, 8), Piece(8, 4), Piece(12, 4), Piece(16, 1), Piece(17, 1), Piece(18, 1),
          Piece(19, a), Piece(19 + a, b), Piece(19 + a + b, c),
          Piece(19 + (a + b + c), q.announced)>>
  BY <1>0 DEF DoRunArguments, Name
<1>2. q.len = 19 + (a + b + c) + q.announced <=> ~Wraps(q)
  BY <1>0, RunTotal
<1> HIDE DEF a, b, c
<1> USE DEF Piece, Pieces
<1>3. DoRunArguments(q) \in Seq(Pieces)
  BY <1>0, <1>1
<1>4. Tiles(DoRunArguments(q), q.len) <=> q.len = 19 + (a + b + c) + q.announced
  BY <1>0, <1>1 DEF Tiles
<1> QED BY <1>2, <1>3, <1>4

LEMMA RunShmTiles ==
  ASSUME NEW q, IsRequest(q), Accepts(q), q.command = "DO_RUN_SHM"
  PROVE  DoRunShmArguments(q) \in Seq(Pieces) /\ Tiles(DoRunShmArguments(q), q.len)
<1> DEFINE a == q.names[1]
           b == q.names[2]
           c == q.names[3]
<1>0. /\ a \in Nat /\ b \in Nat /\ c \in Nat /\ q.len = 24 + (a + b + c)
  BY RadixAssumption DEF IsRequest, Byte, NamesLength, Accepts, Total
<1>1. DoRunShmArguments(q) =
        <<Piece(0, 8), Piece(8, 4), Piece(12, 4), Piece(16, 4), Piece(20, 1),
          Piece(21, 1), Piece(22, 1), Piece(23, 1),
          Piece(24, a), Piece(24 + a, b), Piece(24 + a + b, c)>>
  BY <1>0 DEF DoRunShmArguments, Name
<1> HIDE DEF a, b, c
<1> USE DEF Piece, Pieces
<1>3. DoRunShmArguments(q) \in Seq(Pieces)
  BY <1>0, <1>1
<1>4. Tiles(DoRunShmArguments(q), q.len)
  BY <1>0, <1>1 DEF Tiles
<1> QED BY <1>3, <1>4

\* Pieces tile one length only, and what has come of a request is all, or nothing
\* of one byte.
LEMMA TilesOnce ==
  ASSUME NEW p \in Seq(Pieces), NEW m \in Nat, NEW n \in Nat, Tiles(p, m), Tiles(p, n)
  PROVE  m = n
<1>1. Len(p) \in Nat /\ Len(p) \in 0 .. Len(p)
  BY SMT
<1> QED BY <1>1 DEF Tiles

LEMMA Arrived ==
  ASSUME NEW q, IsRequest(q)
  PROVE  q.len \in Nat /\ Given(q) \in Nat /\ (Given(q) # q.len => q.len = 1)
BY DispatchAssumption, Widths DEF IsRequest, UInt32, Given

\* Arguments that tile the request tile what has come of it if that is all.
LEMMA CutIsExact ==
  ASSUME NEW q, IsRequest(q), NEW p \in Seq(Pieces), q.command \notin MisCut,
         Tiles(p, q.len) <=> ~Wraps(q), Wraps(q) => q.len # 1
  PROVE  Tiles(p, Given(q))
           <=> ~Wraps(q) /\ Given(q) = q.len /\ q.command \notin MisCut
<1>1. CASE Wraps(q)
  <2>1. Given(q) = q.len
    BY <1>1, Arrived
  <2> QED BY <1>1, <2>1
<1>2. CASE ~Wraps(q)
  <2>1. Tiles(p, Given(q)) => Given(q) = q.len
    BY <1>2, Arrived, TilesOnce
  <2> QED BY <1>2, <2>1
<1> QED BY <1>1, <1>2

-----------------------------------------------------------------------------
(***************************************************************************)
(* The unsigned sizes of the shared memory handlers.                       *)
(***************************************************************************)
\* The remainder by a width, also of a negative difference.
LEMMA UnsignedRange ==
  ASSUME NEW m \in Nat \ {0}, NEW n \in Int
  PROVE  n % m \in 0 .. m - 1 /\ (n \in 0 .. m - 1 => n % m = n)
<1>1. n % m \in 0 .. m - 1
  BY SMT
<1>2. ASSUME n \in 0 .. m - 1 PROVE n % m = n
  <2>1. n = m * 0 + n
    BY SMT
  <2> QED BY <1>2, <2>1, RemainderUnique
<1> QED BY <1>1, <1>2

LEMMA MinusOne ==
  ASSUME NEW m \in Nat \ {0}
  PROVE  (0 - 1) % m = m - 1
<1>1. 0 - 1 = m * (0 - 1) + (m - 1)
  BY SMT
<1> QED BY <1>1, SMT

\* An offset that fits leaves exactly the rest of the segment.
LEMMA RemainingFits ==
  ASSUME NEW q, IsRequest(q), q.segment \in DOMAIN Segments
  PROVE  /\ Remaining(q) \in 0 .. WordSize - 1
         /\ OffsetFits(q) => Remaining(q) = Segments[q.segment] - q.offset
<1> DEFINE d == Segments[q.segment] - q.offset
<1>1. /\ WordSize \in Nat \ {0} /\ d \in Int
      /\ OffsetFits(q) => d \in 0 .. WordSize - 1
  BY DispatchAssumption, Widths DEF IsRequest, UInt32, OffsetFits
<1>2. Remaining(q) = d % WordSize
  BY DEF Remaining
<1> HIDE DEF d
<1>3. d % WordSize \in 0 .. WordSize - 1 /\ (d \in 0 .. WordSize - 1 => d % WordSize = d)
  BY <1>1, UnsignedRange
<1>4. /\ Remaining(q) \in 0 .. WordSize - 1
      /\ OffsetFits(q) => Remaining(q) = d
  BY <1>1, <1>2, <1>3
<1> QED BY <1>4 DEF d

\* What a run reads ends in the segment exactly if its offset is inside.
LEMMA RunLengthFits ==
  ASSUME NEW q, IsRequest(q), q.segment \in DOMAIN Segments, NEW zero \in Nat
  PROVE  /\ RunLength(q, zero) \in Nat
         /\ zero <= WordSize - 2 =>
               (q.offset + RunLength(q, zero) <= Segments[q.segment] <=> OffsetFits(q))
<1> DEFINE r == Remaining(q)
           b == (r - 1) % WordSize
           s == StringLength(b, zero) + 1
<1>1. /\ r \in 0 .. WordSize - 1 /\ WordSize \in Nat \ {0}
      /\ q.offset \in Nat /\ Segments[q.segment] \in Nat
      /\ OffsetFits(q) => r = Segments[q.segment] - q.offset /\ (q.stop => r > 0)
  BY RemainingFits, DispatchAssumption, Widths DEF IsRequest, UInt32, OffsetFits
<1> HIDE DEF r
<1>2. b \in 0 .. WordSize - 1 /\ (r > 0 => b = r - 1)
  <2>1. r - 1 \in Int /\ (r > 0 => r - 1 \in 0 .. WordSize - 1)
    BY <1>1
  <2> QED BY <1>1, <2>1, UnsignedRange
<1> HIDE DEF b
<1>3. s \in Nat /\ (r > 0 => s <= r)
  BY <1>1, <1>2 DEF StringLength
<1> HIDE DEF s
<1>4. s % WordSize \in Nat /\ (r > 0 => s % WordSize <= r)
  <2>0. s \in Int /\ WordSize \in Nat \ {0}
    BY <1>1, <1>3
  <2>1. s % WordSize \in 0 .. WordSize - 1
        /\ (s \in 0 .. WordSize - 1 => s % WordSize = s)
    BY <2>0, UnsignedRange
  <2> QED BY <1>1, <1>3, <2>1
<1>5. RunLength(q, zero) = IF q.stop THEN s % WordSize ELSE r
  BY DEF RunLength, r, b, s
<1>6. RunLength(q, zero) \in Nat
  BY <1>1, <1>4, <1>5
<1>7. CASE OffsetFits(q)
  BY <1>1, <1>4, <1>5, <1>7
<1>8. CASE q.offset > Segments[q.segment]
  BY <1>1, <1>6, <1>8 DEF OffsetFits
\* Nothing is left to read, but the limit is the largest there is.
<1>9. CASE q.offset = Segments[q.segment] /\ q.stop
  <2>1. b = WordSize - 1
    <3>1. r = 0
      <4>1. Remaining(q) = 0 % WordSize
        BY <1>1, <1>9 DEF Remaining
      <4>2. 0 \in Int /\ 0 \in 0 .. WordSize - 1
        BY <1>1
      <4> QED BY <1>1, <4>1, <4>2, UnsignedRange DEF r
    <3>2. (0 - 1) % WordSize = WordSize - 1
      BY <1>1, MinusOne
    <3> QED BY <3>1, <3>2 DEF b
  <2>2. ASSUME zero <= WordSize - 2 PROVE s % WordSize > 0
    <3>1. s = zero + 1 /\ s \in 0 .. WordSize - 1
      BY <1>1, <2>1, <2>2 DEF s, StringLength
    <3>2. s \in Int /\ WordSize \in Nat \ {0}
      BY <1>1, <1>3
    <3>3. s \in 0 .. WordSize - 1 => s % WordSize = s
      BY <3>2, UnsignedRange
    <3> QED BY <2>2, <3>1, <3>3
  <2> QED BY <1>1, <1>4, <1>5, <1>9, <2>2 DEF OffsetFits
<1>10. OffsetFits(q) \/ q.offset > Segments[q.segment]
          \/ (q.offset = Segments[q.segment] /\ q.stop)
  BY <1>1 DEF OffsetFits, IsRequest
<1> QED BY <1>6, <1>7, <1>8, <1>9, <1>10

-----------------------------------------------------------------------------
(***************************************************************************)
(* The inductive invariant: what the runs check, and that the answer and   *)
(* the arguments are reset before a request is handled, which is why one   *)
(* that is malformed or unknown leaves them so.                            *)
(***************************************************************************)
Fresh == pc = "handle" => got = << >> /\ access = NoAccess /\ res = NullResponse

IInv == TypeOK /\ ArgumentsTile /\ InsideSegment /\ Fresh

\* The kinds of responses.
LEMMA Answers ==
  ASSUME NEW status \in Statuses, NEW n \in UInt32
  PROVE  /\ Response(status, n, n) \in [status : Statuses, len : UInt32, bytes : UInt32]
         /\ 0 \in UInt32 /\ 8 \in UInt32
         /\ StatusOK \in Statuses /\ StatusError \in Statuses
         /\ StatusMalformed \in Statuses
BY Widths DEF Response, UInt32, Statuses

\* Of what the received requests are.
LEMMA Received == IInv => IsRequest(req)
BY DispatchAssumption DEF IInv, TypeOK

LEMMA InitIInv == Init => IInv
<1> SUFFICES ASSUME Init PROVE IInv
  OBVIOUS
<1>1. 0 \in UInt32 /\ StatusOK \in Statuses
  BY Widths DEF UInt32, Statuses
<1>2. TypeOK
  BY <1>1, DispatchAssumption DEF Init, TypeOK, NullResponse, Response, NoAccess, Piece
<1> QED BY <1>2 DEF Init, IInv, ArgumentsTile, InsideSegment, Fresh

LEMMA ReceiveIInv ==
  ASSUME IInv, NEW q \in Requests, Receive(q)
  PROVE  IInv'
<1>1. 0 \in UInt32 /\ StatusOK \in Statuses
  BY Widths DEF UInt32, Statuses
<1>2. TypeOK'
  BY <1>1 DEF IInv, Receive, TypeOK, NullResponse, Response, NoAccess, Piece
<1> QED BY <1>2 DEF Receive, IInv, ArgumentsTile, InsideSegment, Fresh

LEMMA SendResponseIInv ==
  ASSUME IInv, SendResponse
  PROVE  IInv'
<1>1. 0 \in UInt32
  BY Widths DEF UInt32
<1>2. TypeOK'
  BY <1>1 DEF IInv, SendResponse, TypeOK
<1> QED BY <1>2 DEF SendResponse, IInv, ArgumentsTile, InsideSegment, OffsetFits, Fresh

\* A request that is refused.
LEMMA RefusedIInv ==
  ASSUME IInv, RespondMalformed \/ HandleUnknown
  PROVE  IInv'
<1>0. pc = "handle" /\ got = << >> /\ access = NoAccess /\ res = NullResponse
  BY DEF IInv, Fresh, RespondMalformed, HandleUnknown
<1>1. CASE RespondMalformed
  <2>1. TypeOK'
    BY <1>1, Answers DEF IInv, TypeOK, RespondMalformed, Response, UInt32
  <2>2. ArgumentsTile' /\ InsideSegment' /\ Fresh'
    BY <1>0, <1>1 DEF RespondMalformed, ArgumentsTile, InsideSegment, Fresh, Response
  <2> QED BY <2>1, <2>2 DEF IInv
<1>2. CASE HandleUnknown
  <2>1. TypeOK'
    BY <1>2 DEF IInv, TypeOK, HandleUnknown
  <2>2. ArgumentsTile' /\ InsideSegment' /\ Fresh'
    BY <1>0, <1>2 DEF HandleUnknown, ArgumentsTile, InsideSegment, Fresh,
                      NullResponse, Response
  <2> QED BY <2>1, <2>2 DEF IInv
<1> QED BY <1>1, <1>2

\* The step of a handler keeps the invariant if its arguments tile the data, its
\* answer is whole, and the memory it is given is inside the segment.
LEMMA HandledIInv ==
  ASSUME IInv, NEW commands, Handle(commands),
         got' \in Seq(Pieces),
         req.command \in MisCut => \A n \in Nat : ~Tiles(got', n),
         req.command \notin MisCut => (Tiles(got', req.len) <=> ~Wraps(req)),
         NEW status \in Statuses, NEW n \in UInt32, res' = Response(status, n, n),
         access' \in Pieces,
         access' # NoAccess =>
            (access'.from + access'.len <= Segments[req.segment] <=> OffsetFits(req)),
         attached' \in 0 .. MaxAttached
  PROVE  IInv'
<1> USE DEF Handle
<1>1. TypeOK'
  BY Answers DEF IInv, TypeOK, Pieces
<1>2. Tiles(got', Given(req))
         <=> ~Wraps(req) /\ Given(req) = req.len /\ req.command \notin MisCut
  <2>1. IsRequest(req)
    BY Received
  <2>2. CASE req.command \in MisCut
    BY <2>1, <2>2, Arrived
  <2>3. CASE req.command \notin MisCut
    <3>1. Wraps(req) => req.len # 1
      BY <2>1 DEF Wraps, Accepts, MinLength, IsRequest
    <3> QED BY <2>1, <2>3, <3>1, CutIsExact
  <2> QED BY <2>2, <2>3
<1>4. ArgumentsTile'
  <2>1. req' = req /\ Accepts(req)
    OBVIOUS
  <2> QED BY <1>2, <2>1 DEF ArgumentsTile, Tiles, Wraps, NamesLength, Accepts, Total, Given
<1>3. InsideSegment' /\ Fresh'
  BY DEF InsideSegment, OffsetFits, Fresh
<1> QED BY <1>1, <1>3, <1>4 DEF IInv

\* The commands answered with a status only, and those without arguments.
LEMMA PlainIInv ==
  ASSUME IInv, HandlePlain \/ HandleDoRun \/ HandleContinue \/ HandleGetCodeCoverage
                \/ HandleValue
  PROVE  IInv'
<1>0. /\ IsRequest(req) /\ 0 \in UInt32 /\ 8 \in UInt32 /\ StatusError \in Statuses
      /\ access \in Pieces /\ attached \in 0 .. MaxAttached
  BY Received, Answers, Widths DEF IInv, TypeOK, Pieces, UInt32, Statuses
<1>1. access # NoAccess =>
         (access.from + access.len <= Segments[req.segment] <=> OffsetFits(req))
  BY DEF IInv, InsideSegment
<1>2. CASE HandlePlain
  <2>1. /\ Handle(DOMAIN PlainArguments(req)) /\ Accepts(req)
        /\ req.command \in DOMAIN PlainArguments(req)
        /\ got' = PlainArguments(req)[req.command]
    BY <1>2 DEF HandlePlain, Handle
  <2>2. PICK status \in Statuses : res' = Response(status, 0, 0)
    BY <1>2 DEF HandlePlain
  <2>3. access' = access /\ attached' = attached
    BY <1>2 DEF HandlePlain
  <2>4. /\ got' \in Seq(Pieces)
        /\ req.command \notin MisCut => Tiles(got', req.len)
        /\ req.command \in MisCut => \A n \in Nat : ~Tiles(got', n)
    BY <1>0, <2>1, PlainTiles, MisCutTilesNothing
  <2>5. ~Wraps(req)
    BY <2>1 DEF Wraps, PlainArguments
  <2> QED BY <1>0, <1>1, <2>1, <2>2, <2>3, <2>4, <2>5, HandledIInv
<1>3. CASE HandleDoRun
  <2>1. /\ Handle({"DO_RUN"}) /\ Accepts(req) /\ req.command = "DO_RUN"
        /\ got' = DoRunArguments(req)
    BY <1>3 DEF HandleDoRun, Handle
  <2>2. PICK status \in Statuses : res' = Response(status, 0, 0)
    BY <1>3 DEF HandleDoRun
  <2>3. access' = access /\ attached' = attached
    BY <1>3 DEF HandleDoRun
  <2>4. /\ got' \in Seq(Pieces) /\ (Tiles(got', req.len) <=> ~Wraps(req))
        /\ req.command \notin MisCut
    BY <1>0, <2>1, RunTiles DEF MisCut
  <2> QED BY <1>0, <1>1, <2>1, <2>2, <2>3, <2>4, HandledIInv
<1>4. ASSUME NEW commands, Handle(commands), got' = << >>,
             req.command \in {"CONTINUE", "GET_CODE_COVERAGE", "GET_RETURN_CODE", "GET_CPU_PC"}
      PROVE  /\ got' \in Seq(Pieces) /\ Tiles(got', req.len) /\ ~Wraps(req)
             /\ req.command \notin MisCut
  <2>1. req.len = 0
    BY <1>4 DEF Handle, Accepts, FixedLength
  <2> QED BY <1>4, <2>1 DEF Tiles, Wraps, MisCut
<1>5. CASE HandleContinue
  <2>1. Handle({"CONTINUE"}) /\ req.command = "CONTINUE" /\ got' = << >>
    BY <1>5 DEF HandleContinue, Handle
  <2>2. PICK status \in Statuses, n \in AdditionalData :
           res' = Response(status, (n + 1) % R4, (n + 1) % R4)
    BY <1>5 DEF HandleContinue
  <2>3. access' = access /\ attached' = attached
    BY <1>5 DEF HandleContinue
  <2>4. (n + 1) % R4 \in UInt32
    <3>1. n + 1 \in Int /\ R4 \in Nat \ {0}
      BY DispatchAssumption, Widths DEF UInt32
    <3> QED BY <3>1, UnsignedRange DEF UInt32
  <2> DEFINE k == (n + 1) % R4
  <2>5. res' = Response(status, k, k) /\ k \in UInt32
    BY <2>2, <2>4
  <2> HIDE DEF k
  <2> QED BY <1>0, <1>1, <1>4, <2>1, <2>3, <2>5, HandledIInv
<1>6. CASE HandleGetCodeCoverage
  <2>1. /\ Handle({"GET_CODE_COVERAGE"}) /\ req.command = "GET_CODE_COVERAGE" /\ got' = << >>
        /\ res' = Response(StatusError, 0, 0) /\ access' = access /\ attached' = attached
    BY <1>6 DEF HandleGetCodeCoverage, Handle
  <2> QED BY <1>0, <1>1, <1>4, <2>1, HandledIInv
<1>7. CASE HandleValue
  <2>1. /\ Handle({"GET_RETURN_CODE", "GET_CPU_PC"})
        /\ req.command \in {"GET_RETURN_CODE", "GET_CPU_PC"} /\ got' = << >>
        /\ access' = access /\ attached' = attached
    BY <1>7 DEF HandleValue, Handle
  <2>2. PICK status \in Statuses : res' = Response(status, 8, 8)
    BY <1>7 DEF HandleValue
  <2> QED BY <1>0, <1>1, <1>4, <2>1, <2>2, HandledIInv
<1> QED BY <1>2, <1>3, <1>5, <1>6, <1>7

\* The two that attach shared memory.
LEMMA ShmIInv ==
  ASSUME IInv, HandleDoRunShm \/ DoRunShmFails \/ HandleGetCodeCoverageShm \/ CoverageShmFails
  PROVE  IInv'
<1>0. /\ IsRequest(req) /\ 0 \in UInt32 /\ StatusOK \in Statuses /\ StatusError \in Statuses
      /\ access \in Pieces /\ attached \in 0 .. MaxAttached
  BY Received, Answers DEF IInv, TypeOK, Pieces
<1>1. access # NoAccess =>
         (access.from + access.len <= Segments[req.segment] <=> OffsetFits(req))
  BY DEF IInv, InsideSegment
<1>2. ASSUME NEW commands, Handle(commands), req.command = "GET_CODE_COVERAGE_SHM"
      PROVE  /\ CoverageArguments \in Seq(Pieces) /\ Tiles(CoverageArguments, req.len)
             /\ ~Wraps(req) /\ req.command \notin MisCut
  <2>1. req.len = 8
    BY <1>2 DEF Handle, Accepts, FixedLength
  <2>2. ~Wraps(req) /\ req.command \notin MisCut
    BY <1>2 DEF Wraps, MisCut
  <2> QED BY <2>1, <2>2 DEF CoverageArguments, Piece, Pieces, Tiles
<1>3. CanAttach(req.segment) => attached + 1 \in 0 .. MaxAttached
  BY <1>0, DispatchAssumption DEF CanAttach
<1>4. ASSUME NEW commands, NEW arguments, NEW left \in {0, 1},
             ShmFails(commands, arguments, left), left = 1 => CanAttach(req.segment),
             arguments \in Seq(Pieces),
             Tiles(arguments, req.len), ~Wraps(req), req.command \notin MisCut
      PROVE  IInv'
  <2>1. /\ Handle(commands) /\ got' = arguments /\ res' = Response(StatusError, 0, 0)
        /\ access' = access /\ attached' = attached + left
    BY <1>4 DEF ShmFails
  <2>2. attached' \in 0 .. MaxAttached
    BY <1>0, <1>3, <1>4, <2>1
  <2> QED BY <1>0, <1>1, <1>4, <2>1, <2>2, HandledIInv
<1>5. CASE HandleDoRunShm
  <2>1. /\ Handle({"DO_RUN_SHM"}) /\ req.command = "DO_RUN_SHM" /\ Accepts(req)
        /\ req.segment \in DOMAIN Segments /\ got' = DoRunShmArguments(req)
        /\ attached' = attached
    BY <1>5 DEF HandleDoRunShm, Handle, CanAttach
  <2>2. PICK zero \in Terminators : access' = Piece(req.offset, RunLength(req, zero))
    BY <1>5 DEF HandleDoRunShm
  <2>3. PICK status \in Statuses : res' = Response(status, 0, 0)
    BY <1>5 DEF HandleDoRunShm
  <2>4. /\ RunLength(req, zero) \in Nat /\ req.offset \in Nat
        /\ req.offset + RunLength(req, zero) <= Segments[req.segment] <=> OffsetFits(req)
    <3>1. zero \in Nat /\ zero <= WordSize - 2 /\ req.offset \in Nat
      BY <1>0, DispatchAssumption, Widths DEF IsRequest, UInt32
    <3> QED BY <1>0, <2>1, <3>1, RunLengthFits
  <2>5. /\ access' \in Pieces
        /\ access'.from + access'.len <= Segments[req.segment] <=> OffsetFits(req)
    BY <2>2, <2>4 DEF Piece, Pieces
  <2>6. /\ got' \in Seq(Pieces) /\ Tiles(got', req.len) /\ ~Wraps(req)
        /\ req.command \notin MisCut
    BY <1>0, <2>1, RunShmTiles DEF Wraps, MisCut
  <2> QED BY <1>0, <2>1, <2>3, <2>5, <2>6, HandledIInv
<1>6. CASE DoRunShmFails
  <2>1. PICK left \in {0, 1} :
           /\ ShmFails({"DO_RUN_SHM"}, DoRunShmArguments(req), left)
           /\ left = 1 => CanAttach(req.segment)
    BY <1>6 DEF DoRunShmFails
  <2>2. /\ req.command = "DO_RUN_SHM" /\ Accepts(req) /\ ~Wraps(req)
        /\ req.command \notin MisCut
    BY <2>1 DEF ShmFails, Handle, Wraps, MisCut
  <2> QED BY <1>0, <1>4, <2>1, <2>2, RunShmTiles
<1>7. CASE HandleGetCodeCoverageShm
  <2>1. /\ Handle({"GET_CODE_COVERAGE_SHM"}) /\ req.command = "GET_CODE_COVERAGE_SHM"
        /\ req.segment \in DOMAIN Segments /\ MapSize <= Remaining(req)
        /\ got' = CoverageArguments /\ access' = Piece(req.offset, MapSize)
        /\ res' = Response(StatusOK, 0, 0) /\ attached' = attached
    BY <1>7 DEF HandleGetCodeCoverageShm, Handle, CanAttach, MapFits
  <2>2. /\ Remaining(req) \in Nat /\ req.offset \in Nat /\ MapSize \in Nat \ {0}
        /\ OffsetFits(req) => Remaining(req) = Segments[req.segment] - req.offset
        /\ Segments[req.segment] \in Nat
    BY <1>0, <2>1, RemainingFits, DispatchAssumption, Widths DEF IsRequest, UInt32
  <2>3. /\ access' \in Pieces
        /\ access'.from + access'.len <= Segments[req.segment] <=> OffsetFits(req)
    BY <2>1, <2>2 DEF Piece, Pieces, OffsetFits
  <2> QED BY <1>0, <1>2, <2>1, <2>3, HandledIInv
<1>8. CASE CoverageShmFails
  <2>1. PICK left \in {0, 1} :
           /\ ShmFails({"GET_CODE_COVERAGE_SHM"}, CoverageArguments, left)
           /\ left = 1 => CanAttach(req.segment)
    BY <1>8 DEF CoverageShmFails
  <2>2. Handle({"GET_CODE_COVERAGE_SHM"}) /\ req.command = "GET_CODE_COVERAGE_SHM"
    BY <2>1 DEF ShmFails, Handle
  <2> QED BY <1>2, <1>4, <2>1, <2>2
<1> QED BY <1>5, <1>6, <1>7, <1>8

\* Every step keeps the invariant.
LEMMA NextIInv == IInv /\ [Next]_vars => IInv'
<1> SUFFICES ASSUME IInv, [Next]_vars PROVE IInv'
  OBVIOUS
<1>1. CASE \E q \in Requests : Receive(q)
  BY <1>1, ReceiveIInv
<1>2. CASE RespondMalformed \/ HandleUnknown
  BY <1>2, RefusedIInv
<1>3. CASE HandleContinue \/ HandlePlain \/ HandleGetCodeCoverage \/ HandleValue \/ HandleDoRun
  BY <1>3, PlainIInv
<1>4. CASE HandleDoRunShm \/ DoRunShmFails \/ HandleGetCodeCoverageShm \/ CoverageShmFails
  BY <1>4, ShmIInv
<1>5. CASE SendResponse
  BY <1>5, SendResponseIInv
<1>6. CASE UNCHANGED vars
  BY <1>6 DEF vars, IInv, TypeOK, ArgumentsTile, Tiles, Wraps, NamesLength, Accepts, Total, Given,
              InsideSegment, OffsetFits, Fresh
<1> QED BY <1>1, <1>2, <1>3, <1>4, <1>5, <1>6 DEF Next

\* So it holds all along.
LEMMA Invariance == Spec => []IInv
BY InitIInv, NextIInv, PTL DEF Spec

(***************************************************************************)
(* Every variable stays in its type: no argument handed to a handler has a *)
(* negative start or length, and no more segments are attached than can be.*)
(***************************************************************************)
THEOREM TypeCorrect == Spec => []TypeOK
<1>1. IInv => TypeOK
  BY DEF IInv
<1> QED BY <1>1, Invariance, PTL

(***************************************************************************)
(* The tests of handle_request cut an accepted request completely, each    *)
(* byte of the data into one argument, whatever lengths the data           *)
(* announces, with exactly these exceptions: the sum of a run that wraps   *)
(* at 32 bits, one byte of data over a pipe, and the two commands that     *)
(* take their arguments from other places than documented.  A request that *)
(* fails its test reaches no handler.                                      *)
(***************************************************************************)
THEOREM RequestsAreCut == Spec => []ArgumentsTile
<1>1. IInv => ArgumentsTile
  BY DEF IInv
<1> QED BY <1>1, Invariance, PTL

(***************************************************************************)
(* Whatever the sizes of the segments and wherever the zero bytes are, the *)
(* unsigned arithmetic of both handlers keeps them inside the segment if   *)
(* and only if the offset is itself inside.                                *)
(***************************************************************************)
THEOREM SegmentAccess == Spec => []InsideSegment
<1>1. IInv => InsideSegment
  BY DEF IInv
<1> QED BY <1>1, Invariance, PTL

=============================================================================
