----------------------------- MODULE PipeProofs -----------------------------
(***************************************************************************)
(* Theorems about module Pipe, for all requests, responses, capacities and *)
(* byte sizes.                                                             *)
(***************************************************************************)
EXTENDS Pipe, CodecProofs, SequenceTheorems

(***************************************************************************)
(* Facts about byte strings and headers.                                   *)
(***************************************************************************)

\* Cutting a byte string in two.
LEMMA Cut ==
  ASSUME NEW s \in Seq(Byte), NEW n \in 0 .. Len(s)
  PROVE  /\ First(n, s) \in Seq(Byte) /\ Rest(n, s) \in Seq(Byte)
         /\ Len(First(n, s)) = n /\ Len(Rest(n, s)) = Len(s) - n
         /\ First(n, s) \o Rest(n, s) = s
         /\ \A i \in 1 .. n : First(n, s)[i] = s[i]
<1>1. /\ First(n, s) \in Seq(Byte) /\ Len(First(n, s)) = n
      /\ \A i \in 1 .. n : First(n, s)[i] = s[i]
  BY SubSeqProperties DEF First
<1>2. Rest(n, s) \in Seq(Byte) /\ Len(Rest(n, s)) = Len(s) - n
  BY SubSeqProperties DEF Rest
<1>3. First(n, s) \o Rest(n, s) = s
  <2>1. /\ 1 \in 1 .. Len(s) + 1 /\ n \in 1 - 1 .. Len(s)
        /\ Len(s) \in n .. Len(s)
    BY LenProperties
  <2>2. SubSeq(s, 1, n) \o SubSeq(s, n + 1, Len(s)) = SubSeq(s, 1, Len(s))
    BY <2>1, ConcatAdjacentSubSeq
  <2>3. QED BY <2>2, SubSeqFull DEF First, Rest
<1> QED BY <1>1, <1>2, <1>3

\* Concatenation is associative.
LEMMA Regroup ==
  ASSUME NEW s \in Seq(Byte), NEW t \in Seq(Byte), NEW u \in Seq(Byte)
  PROVE  (s \o t) \o u = s \o (t \o u)
  BY ConcatAssociative

\* A read returns at most what is there and what was asked for.
LEMMA ReadSizeBounds ==
  ASSUME NEW s \in Seq(Byte), NEW n \in Nat
  PROVE  /\ ReadSize(n, s) \in 0 .. Len(s)
         /\ ReadSize(n, s) \in 0 .. n
         /\ Len(s) >= n => ReadSize(n, s) = n
         /\ Len(s) <= n => ReadSize(n, s) = Len(s)
  BY LenProperties DEF ReadSize

\* The requests, the responses and the null message are messages.
LEMMA Messages ==
  \A m \in Requests \cup Answers \cup {NullMessage} : IsMessage(m)
<1>1. IsMessage(NullMessage)
  <2>1. 0 \in Byte /\ 0 \in UInt32
    BY RadixPowers DEF Byte, UInt32
  <2>2. QED BY <2>1, EmptySeq DEF IsMessage, NullMessage, Message
<1>2. QED BY <1>1, PipeAssumption

\* A header is five bytes long.
LEMMA HeaderIsBytes ==
  ASSUME NEW m, m.code \in Byte, m.len \in UInt32
  PROVE  Header(m) \in Seq(Byte) /\ Len(Header(m)) = HeaderLen
<1>1. <<m.code>> \in Seq(Byte) /\ Len(<<m.code>>) = 1
  OBVIOUS
<1> DEFINE a == <<m.code>>
           b == Int32ToBytes(m.len)
<1>2. b \in Seq(Byte) /\ Len(b) = 4
  BY BytesAreBytes
<1>3. Header(m) = a \o b
  BY DEF Header
<1> HIDE DEF a, b
<1>4. a \o b \in Seq(Byte) /\ Len(a \o b) = Len(a) + Len(b)
  BY <1>1, <1>2, ConcatProperties DEF a
<1>5. QED BY <1>1, <1>2, <1>3, <1>4 DEF HeaderLen, a

\* Whatever five bytes are taken for a header, they make a header.
LEMMA HeaderMessageType ==
  ASSUME NEW b \in Seq(Byte), Len(b) >= HeaderLen
  PROVE  /\ HeaderMessage(b) \in PartialMessage
         /\ HeaderMessage(b).data = << >>
         /\ HeaderMessage(b).len \in Nat
<1>1. b[1] \in Byte
  BY ElementOfSeq, LenProperties DEF HeaderLen
<1>2. BytesToInt32(b, 1) \in UInt32
  BY LengthIsUInt32, LenProperties DEF HeaderLen
<1>3. BytesToInt32(b, 1) \in Nat
  BY <1>2, RadixPowers DEF UInt32
<1> QED BY <1>1, <1>2, <1>3, EmptySeq DEF HeaderMessage, PartialMessage

(***************************************************************************)
(* The reader of a stream that starts with a header reads the message the  *)
(* writer sent, and finds its data, and nothing else, in the rest.         *)
(***************************************************************************)
LEMMA HeaderRead ==
  \A m \in Requests \cup Answers \cup {NullMessage}, b \in Seq(Byte), p \in Seq(Byte) :
    Len(b) >= HeaderLen /\ b \o p = Header(m) \o m.data
      => /\ HeaderMessage(b) = [code |-> m.code, len |-> m.len, data |-> << >>]
         /\ Rest(HeaderLen, b) \o p = m.data
<1> SUFFICES ASSUME NEW m \in Requests \cup Answers \cup {NullMessage},
                    NEW b \in Seq(Byte), NEW p \in Seq(Byte),
                    Len(b) >= HeaderLen, b \o p = Header(m) \o m.data
             PROVE  /\ HeaderMessage(b) = [code |-> m.code, len |-> m.len, data |-> << >>]
                    /\ Rest(HeaderLen, b) \o p = m.data
  OBVIOUS
<1> DEFINE d == m.data
<1>0. m.code \in Byte /\ m.len \in UInt32 /\ d \in Seq(Byte)
  BY Messages DEF IsMessage
<1>d. b \o p = Header(m) \o d
  OBVIOUS
<1> HIDE DEF d
<1> DEFINE h == Header(m)
           f == First(HeaderLen, b)
           r == Rest(HeaderLen, b)
<1>1. h \in Seq(Byte) /\ Len(h) = HeaderLen
  BY <1>0, HeaderIsBytes
<1>2. HeaderLen \in 0 .. Len(b)
  BY LenProperties DEF HeaderLen
<1>3. /\ f \in Seq(Byte) /\ r \in Seq(Byte) /\ Len(f) = HeaderLen /\ f \o r = b
      /\ \A i \in 1 .. HeaderLen : f[i] = b[i]
  BY <1>2, Cut
<1>4. \A i \in 1 .. HeaderLen : b[i] = h[i]
  <2> HIDE DEF h
  <2>1. \A i \in 1 .. HeaderLen : (b \o p)[i] = b[i]
    BY <1>2, ConcatProperties, LenProperties DEF HeaderLen
  <2>2. \A i \in 1 .. HeaderLen : (h \o d)[i] = h[i]
    <3>1. \A i \in 1 .. Len(h) + Len(d) :
            (h \o d)[i] = IF i <= Len(h) THEN h[i] ELSE d[i - Len(h)]
      BY <1>0, <1>1, ConcatProperties
    <3>2. Len(d) \in Nat
      BY <1>0
    <3>3. 1 .. HeaderLen \subseteq 1 .. Len(h) + Len(d)
      BY <1>1, <3>2 DEF HeaderLen
    <3>4. \A i \in 1 .. HeaderLen : i <= Len(h)
      BY <1>1 DEF HeaderLen
    <3>5. QED BY <3>1, <3>3, <3>4
  <2>3. b \o p = h \o d
    BY <1>d DEF h
  <2>4. QED BY <2>1, <2>2, <2>3
<1>6. f = h
  BY <1>1, <1>3, <1>4, SeqEqual
<1>7. r \o p = d
  <2>1. b \o p = h \o d
    BY <1>d
  <2> HIDE DEF f, r, h
  <2>2. (h \o r) \o p = h \o (r \o p)
    BY <1>1, <1>3, Regroup
  <2>3. h \o (r \o p) = h \o d
    BY <1>3, <1>6, <2>1, <2>2
  <2>4. r \o p \in Seq(Byte)
    BY <1>3, ConcatProperties
  <2>5. QED BY <1>0, <1>1, <2>3, <2>4, ConcatSimplifications
<1>8. b[1] = m.code
  BY <1>0, <1>4, BytesAreBytes DEF Header, HeaderLen
<1>9. BytesToInt32(b, 1) = m.len
  <2>1. \A i \in 1 .. 4 : h[1 + i] = Int32ToBytes(m.len)[i]
    BY <1>0, BytesAreBytes, ConcatProperties DEF Header
  <2>2. \A i \in 1 .. 4 : b[1 + i] = Int32ToBytes(m.len)[i]
    BY <1>4, <2>1 DEF HeaderLen
  <2>3. Len(b) >= 1 + 4
    BY DEF HeaderLen
  <2>4. QED BY <1>0, <2>2, <2>3, LengthRoundTrip
<1>10. QED BY <1>7, <1>8, <1>9 DEF HeaderMessage, d

\* One read of a data loop takes bytes over in order and in full.
LEMMA ExtendProperties ==
  ASSUME NEW m \in PartialMessage, NEW s \in Seq(Byte), Len(m.data) <= m.len
  PROVE  /\ Extend(m, s) \in PartialMessage
         /\ Extend(m, s).code = m.code /\ Extend(m, s).len = m.len
         /\ Len(Extend(m, s).data) <= m.len
         /\ ReadSize(Missing(m), s) \in 0 .. Len(s)
         /\ Extend(m, s).data = m.data \o First(ReadSize(Missing(m), s), s)
<1> DEFINE n == ReadSize(Missing(m), s)
           f == First(n, s)
<1>1. m.len \in Nat /\ Len(m.data) \in Nat /\ m.data \in Seq(Byte)
  BY RadixPowers, LenProperties DEF PartialMessage, UInt32
<1>2. Missing(m) \in Nat /\ Missing(m) + Len(m.data) = m.len
  BY <1>1 DEF Missing
<1>3. n \in 0 .. Len(s) /\ n \in 0 .. Missing(m)
  BY <1>2, ReadSizeBounds
<1>4. f \in Seq(Byte) /\ Len(f) = n
  BY <1>3, Cut
<1>5. m.data \o f \in Seq(Byte) /\ Len(m.data \o f) = Len(m.data) + n
  <2> DEFINE d == m.data
  <2>1. d \in Seq(Byte)
    BY <1>1
  <2> HIDE DEF d, f, n
  <2>2. d \o f \in Seq(Byte) /\ Len(d \o f) = Len(d) + Len(f)
    BY <1>4, <2>1, ConcatProperties
  <2>3. QED BY <1>4, <2>2 DEF d
<1>6. Extend(m, s) = [code |-> m.code, len |-> m.len, data |-> m.data \o f]
  BY DEF Extend
<1>7. Len(m.data \o f) <= m.len
  BY <1>1, <1>2, <1>3, <1>5
<1> HIDE DEF f, n
<1>8. QED BY <1>3, <1>5, <1>6, <1>7 DEF PartialMessage, n, f

(***************************************************************************)
(* Type correctness.  The lengths of the pipes and of the read buffers are *)
(* the part that takes an argument: a write waits for room, and a read     *)
(* asks for no more than is missing.                                       *)
(***************************************************************************)

\* A write that waits for room does not overfill a pipe.
LEMMA WriteFits ==
  ASSUME NEW s \in Seq(Byte), NEW b \in Seq(Byte), HasRoom(Len(b), s)
  PROVE  s \o b \in Seq(Byte) /\ Len(s \o b) <= Capacity
<1>1. s \o b \in Seq(Byte) /\ Len(s \o b) = Len(s) + Len(b)
  BY ConcatProperties
<1>2. QED BY <1>1 DEF HasRoom

\* A read leaves no more in a pipe than was there.
LEMMA ReadShrinks ==
  ASSUME NEW s \in Seq(Byte), NEW n \in 0 .. Len(s), Len(s) <= Capacity
  PROVE  Rest(n, s) \in Seq(Byte) /\ Len(Rest(n, s)) <= Capacity
<1>1. Rest(n, s) \in Seq(Byte) /\ Len(Rest(n, s)) = Len(s) - n
  BY Cut
<1>2. QED BY <1>1, LenProperties, PipeAssumption

\* The parts of a write of data.
LEMMA WritePart ==
  ASSUME NEW s \in Seq(Byte), NEW p \in Seq(Byte), NEW n \in 1 .. Len(p), HasRoom(n, s)
  PROVE  /\ s \o First(n, p) \in Seq(Byte) /\ Len(s \o First(n, p)) <= Capacity
         /\ Rest(n, p) \in Seq(Byte)
<1>1. First(n, p) \in Seq(Byte) /\ Len(First(n, p)) = n /\ Rest(n, p) \in Seq(Byte)
  BY Cut
<1>2. QED BY <1>1, WriteFits

LEMMA InitType == Init => TypeOK
<1> SUFFICES ASSUME Init PROVE TypeOK
  OBVIOUS
<1>1. << >> \in Seq(Byte) /\ Len(<< >>) = 0 /\ Capacity \in Nat
  BY EmptySeq, PipeAssumption
<1>2. NullMessage \in PartialMessage
  BY Messages DEF IsMessage, PartialMessage, NullMessage, Message
<1>3. /\ 0 \in 0 .. MaxErrors /\ 0 \in 0 .. MaxFaults /\ 0 \in 0 .. MaxExits
  BY PipeAssumption
<1>4. /\ reqs \in Seq(Byte) /\ Len(reqs) <= Capacity
      /\ resps \in Seq(Byte) /\ Len(resps) <= Capacity
      /\ cpend \in Seq(Byte) /\ spend \in Seq(Byte)
  BY <1>1 DEF Init
<1>5. QED BY <1>2, <1>3, <1>4 DEF Init, TypeOK, ClientStates, ServerStates

LEMMA ClientTypes ==
  TypeOK /\ (\/ \E q \in Requests : SendRequest(q)
             \/ ResetReady \/ ClientStep) => TypeOK'
<1> SUFFICES ASSUME TypeOK,
                    \/ \E q \in Requests : SendRequest(q)
                    \/ ResetReady \/ ClientStep
             PROVE  TypeOK'
  OBVIOUS
<1> USE DEF clientVars, serverVars, boundVars
<1>1. ASSUME NEW q \in Requests, SendRequest(q) PROVE TypeOK'
  BY <1>1 DEF TypeOK, SendRequest, ClientStates
<1>2. CASE ResetReady
  BY <1>2 DEF TypeOK, ResetReady, ClientStates
<1>3. CASE CheckForReady
  <2>1. Len(Ready) \in 0 .. Len(resps)
    BY <1>3, PipeAssumption, LenProperties DEF TypeOK, CheckForReady
  <2>2. resps' \in Seq(Byte) /\ Len(resps') <= Capacity
    BY <1>3, <2>1, ReadShrinks DEF TypeOK, CheckForReady
  <2>3. cpc' \in {"waiting", "idle"}
    BY <1>3 DEF CheckForReady
  <2>4. QED BY <1>3, <2>2, <2>3 DEF TypeOK, CheckForReady, ClientStates
<1>4. CASE WriteRequestHeader
  <2>1. IsMessage(call)
    BY Messages DEF TypeOK
  <2>2. Header(call) \in Seq(Byte) /\ Len(Header(call)) = HeaderLen
    BY <2>1, HeaderIsBytes DEF IsMessage
  <2>3. reqs' \in Seq(Byte) /\ Len(reqs') <= Capacity
    BY <1>4, <2>2, WriteFits DEF TypeOK, WriteRequestHeader
  <2>4. cpend' \in Seq(Byte)
    BY <1>4, <2>1 DEF WriteRequestHeader, IsMessage
  <2>5. cpc' \in {"recv_header", "send_data"}
    BY <1>4 DEF WriteRequestHeader
  <2>6. QED BY <1>4, <2>3, <2>4, <2>5 DEF TypeOK, WriteRequestHeader, ClientStates
<1>5. CASE WriteRequestData
  <2>1. PICK n \in 1 .. Len(cpend) :
          /\ HasRoom(n, reqs)
          /\ reqs' = reqs \o First(n, cpend)
          /\ cpend' = Rest(n, cpend)
          /\ cpc' = IF n = Len(cpend) THEN "recv_header" ELSE "send_data"
    BY <1>5 DEF WriteRequestData
  <2>2. reqs' \in Seq(Byte) /\ Len(reqs') <= Capacity /\ cpend' \in Seq(Byte)
    BY <2>1, WritePart DEF TypeOK
  <2>3. cpc' \in {"recv_header", "send_data"}
    BY <2>1
  <2>4. QED BY <1>5, <2>2, <2>3 DEF TypeOK, WriteRequestData, ClientStates
<1>6. CASE ReadResponseHeader
  <2> DEFINE n == ReadSize(HeaderLen, resps)
             m == HeaderMessage(resps)
  <2>1. HeaderLen \in Nat
    BY DEF HeaderLen
  <2>2. n \in 0 .. Len(resps) /\ n \in 0 .. HeaderLen
    BY <2>1, ReadSizeBounds DEF TypeOK
  <2>3. resps' = Rest(n, resps)
    BY <1>6 DEF ReadResponseHeader
  <2>4. resps' \in Seq(Byte) /\ Len(resps') <= Capacity
    BY <2>2, <2>3, ReadShrinks DEF TypeOK
  <2>5. /\ n = HeaderLen => m \in PartialMessage /\ m.data = << >> /\ m.len \in Nat
    <3>1. n = HeaderLen => Len(resps) >= HeaderLen
      BY <2>2, LenProperties DEF TypeOK, HeaderLen
    <3>2. QED BY <3>1, HeaderMessageType DEF TypeOK
  <2>6. /\ cpc' \in {"idle", "recv_data"}
        /\ outcome' \in {"none", "ok", "failed"}
        /\ executed' \in BOOLEAN
    BY <1>6 DEF ReadResponseHeader, Return, TypeOK
  <2>7. cerr' \in 0 .. MaxErrors
    BY <1>6, PipeAssumption DEF ReadResponseHeader, TypeOK
  <2>8. res' \in PartialMessage
    <3>1. CASE res' = res
      BY <3>1 DEF TypeOK
    <3>2. CASE n = HeaderLen /\ res' = m
      BY <3>2, <2>5
    <3>3. CASE n = HeaderLen /\ res' = [code |-> m.code, len |-> res.len, data |-> << >>]
      BY <3>3, <2>5, EmptySeq DEF PartialMessage, TypeOK
    <3>4. QED BY <1>6, <3>1, <3>2, <3>3 DEF ReadResponseHeader, Return
  <2>9. cpc' = "recv_data" => Received(res') /\ cerr' < MaxErrors
    <3> SUFFICES ASSUME cpc' = "recv_data" PROVE Received(res') /\ cerr' < MaxErrors
      OBVIOUS
    <3>1. res' = m /\ cerr' = 0 /\ n = HeaderLen
      BY <1>6 DEF ReadResponseHeader, Return
    <3>2. QED BY <2>5, <3>1, EmptySeq, PipeAssumption DEF Received
  <2> HIDE DEF n, m
  <2>10. QED BY <1>6, <2>4, <2>6, <2>7, <2>8, <2>9
            DEF TypeOK, ReadResponseHeader, ClientStates
<1>7. CASE ReadResponseData
  <2> DEFINE n == ReadSize(Missing(res), resps)
             m == Extend(res, resps)
  <2>1. /\ m \in PartialMessage /\ Len(m.data) <= m.len
        /\ n \in 0 .. Len(resps)
    BY <1>7, ExtendProperties DEF TypeOK, ReadResponseData, Received
  <2>2. resps' \in Seq(Byte) /\ Len(resps') <= Capacity
    BY <1>7, <2>1, ReadShrinks DEF TypeOK, ReadResponseData
  <2>3. /\ res' = m
        /\ cpc' \in {"idle", "recv_data"}
        /\ outcome' \in {"none", "ok", "failed"}
        /\ executed' \in BOOLEAN
    BY <1>7 DEF ReadResponseData, Return, TypeOK
  <2> HIDE DEF n, m
  <2>4. QED BY <1>7, <2>1, <2>2, <2>3 DEF TypeOK, ReadResponseData, Received, ClientStates
<1>8. QED BY <1>1, <1>2, <1>3, <1>4, <1>5, <1>6, <1>7 DEF ClientStep

LEMMA ServerTypes == TypeOK /\ (ServerStep \/ VpExit) => TypeOK'
<1> SUFFICES ASSUME TypeOK, ServerStep \/ VpExit PROVE TypeOK'
  OBVIOUS
<1> USE DEF clientVars, serverVars, boundVars
<1>1. CASE Start
  <2>1. resps' \in Seq(Byte) /\ Len(resps') <= Capacity
    BY <1>1, WriteFits, PipeAssumption DEF TypeOK, Start
  <2>2. QED BY <1>1, <2>1 DEF TypeOK, Start, ServerStates
<1>2. CASE ReceiveHeader
  <2> DEFINE n == ReadSize(HeaderLen, reqs)
             m == HeaderMessage(reqs)
  <2>1. HeaderLen \in Nat
    BY DEF HeaderLen
  <2>2. n \in 0 .. Len(reqs) /\ n \in 0 .. HeaderLen
    BY <2>1, ReadSizeBounds DEF TypeOK
  <2>3. reqs' \in Seq(Byte) /\ Len(reqs') <= Capacity
    BY <1>2, <2>2, ReadShrinks DEF TypeOK, ReceiveHeader
  <2>4. n = HeaderLen => m \in PartialMessage /\ m.data = << >> /\ m.len \in Nat
    <3>1. n = HeaderLen => Len(reqs) >= HeaderLen
      BY <2>2, LenProperties DEF TypeOK, HeaderLen
    <3>2. QED BY <3>1, HeaderMessageType DEF TypeOK
  <2>5. \/ UNCHANGED <<spc, sreq, serr>>
        \/ /\ n = HeaderLen /\ sreq' = m /\ serr' = 0
           /\ spc' \in {"recv_data", "handle"}
    BY <1>2 DEF ReceiveHeader
  <2>6. /\ spc' \in ServerStates /\ sreq' \in PartialMessage /\ serr' \in 0 .. MaxErrors
        /\ spc' = "recv_data" => Received(sreq') /\ serr' < MaxErrors
    <3>1. CASE UNCHANGED <<spc, sreq, serr>>
      BY <3>1 DEF TypeOK, Received
    <3>2. CASE /\ n = HeaderLen /\ sreq' = m /\ serr' = 0
               /\ spc' \in {"recv_data", "handle"}
      BY <3>2, <2>4, EmptySeq, PipeAssumption DEF Received, ServerStates
    <3>3. QED BY <2>5, <3>1, <3>2
  <2> HIDE DEF n, m
  <2>7. QED BY <1>2, <2>3, <2>6 DEF TypeOK, ReceiveHeader, Received
<1>3. CASE ReceiveData
  <2>1. /\ Extend(sreq, reqs) \in PartialMessage
        /\ Len(Extend(sreq, reqs).data) <= Extend(sreq, reqs).len
        /\ ReadSize(Missing(sreq), reqs) \in 0 .. Len(reqs)
    BY <1>3, ExtendProperties DEF TypeOK, ReceiveData, Received
  <2>2. reqs' \in Seq(Byte) /\ Len(reqs') <= Capacity
    BY <1>3, <2>1, ReadShrinks DEF TypeOK, ReceiveData
  <2>3. spc' \in {"handle", "recv_data"}
    BY <1>3 DEF ReceiveData
  <2>4. sreq' = Extend(sreq, reqs)
    BY <1>3 DEF ReceiveData
  <2>5. QED BY <1>3, <2>1, <2>2, <2>3, <2>4 DEF TypeOK, ReceiveData, Received, ServerStates
<1>4. ASSUME NEW a \in Answers, HandleRequest(a) PROVE TypeOK'
  BY <1>4 DEF TypeOK, HandleRequest, ServerStates, Received
<1>5. CASE SendHeader
  <2>1. IsMessage(sres)
    BY Messages DEF TypeOK
  <2>2. Header(sres) \in Seq(Byte) /\ Len(Header(sres)) = HeaderLen
    BY <2>1, HeaderIsBytes DEF IsMessage
  <2>3. resps' \in Seq(Byte) /\ Len(resps') <= Capacity
    BY <1>5, <2>2, WriteFits DEF TypeOK, SendHeader
  <2>4. spend' \in Seq(Byte)
    BY <1>5, <2>1 DEF SendHeader, IsMessage
  <2>5. spc' \in {"recv_header", "send_data"}
    BY <1>5 DEF SendHeader
  <2>6. QED BY <1>5, <2>3, <2>4, <2>5 DEF TypeOK, SendHeader, ServerStates
<1>6. CASE SendData
  <2>1. PICK n \in 1 .. Len(spend) :
          /\ HasRoom(n, resps)
          /\ resps' = resps \o First(n, spend)
          /\ spend' = Rest(n, spend)
          /\ spc' = IF n = Len(spend) THEN "recv_header" ELSE "send_data"
    BY <1>6 DEF SendData
  <2>2. resps' \in Seq(Byte) /\ Len(resps') <= Capacity /\ spend' \in Seq(Byte)
    BY <2>1, WritePart DEF TypeOK
  <2>3. spc' \in {"recv_header", "send_data"}
    BY <2>1
  <2>4. QED BY <1>6, <2>2, <2>3 DEF TypeOK, SendData, ServerStates
<1>7. CASE VpExit
  <2>1. NullMessage \in PartialMessage /\ << >> \in Seq(Byte)
    BY Messages, EmptySeq DEF IsMessage, PartialMessage, NullMessage, Message
  <2>2. exits' \in 0 .. MaxExits /\ 0 \in 0 .. MaxErrors
    BY <1>7, PipeAssumption DEF TypeOK, VpExit
  <2>3. QED BY <1>7, <2>1, <2>2 DEF TypeOK, VpExit, ServerStates
<1>8. QED BY <1>1, <1>2, <1>3, <1>4, <1>5, <1>6, <1>7 DEF ServerStep

LEMMA FailureTypes == TypeOK /\ Failure => TypeOK'
<1> SUFFICES ASSUME TypeOK, Failure PROVE TypeOK'
  OBVIOUS
<1> USE DEF clientVars, serverVars, boundVars
<1>1. \A w : Fail(w) => faults' \in 0 .. MaxFaults
  BY PipeAssumption DEF Fail, TypeOK
<1>2. << >> \in Seq(Byte)
  BY EmptySeq
<1>3. CASE ClientHeaderFails
  BY <1>1, <1>3 DEF TypeOK, ClientHeaderFails, Return, ClientStates
<1>4. CASE ClientWriteFails
  <2>1. cpc' \in {"idle", "recv_header"} /\ outcome' \in {"none", "ok", "failed"}
        /\ executed' \in BOOLEAN /\ res' = res
    BY <1>4 DEF ClientWriteFails, Return, TypeOK
  <2>2. QED BY <1>1, <1>2, <1>4, <2>1 DEF TypeOK, ClientWriteFails, ClientStates
<1>5. CASE ClientReadFails
  <2>1. cerr' \in 0 .. MaxErrors /\ (~GiveUp(cerr') => cerr' < MaxErrors)
    BY <1>5, PipeAssumption DEF ClientReadFails, TypeOK, GiveUp
  <2>2. Message(StatusError, << >>) \in PartialMessage
    <3>1. StatusError \in Byte /\ 0 \in UInt32
      BY RadixPowers, RadixAssumption DEF StatusError, Byte, UInt32
    <3>2. QED BY <1>2, <3>1, EmptySeq DEF Message, PartialMessage
  <2>3. \/ GiveUp(cerr') /\ Return("failed", Message(StatusError, << >>))
        \/ ~GiveUp(cerr') /\ UNCHANGED <<cpc, res, outcome, executed>>
    BY <1>5 DEF ClientReadFails
  <2>4. QED BY <1>1, <1>5, <2>1, <2>2, <2>3
            DEF TypeOK, ClientReadFails, Return, ClientStates, Received
<1>6. CASE ReceiveHeaderFails
  BY <1>1, <1>6 DEF TypeOK, ReceiveHeaderFails
<1>7. CASE ReceiveDataFails
  <2>1. serr' \in 0 .. MaxErrors /\ (~GiveUp(serr') => serr' < MaxErrors)
    BY <1>7, PipeAssumption DEF ReceiveDataFails, TypeOK, GiveUp
  <2>2. Message(sreq.code, << >>) \in PartialMessage
    <3>1. sreq.code \in Byte /\ 0 \in UInt32
      BY RadixPowers DEF TypeOK, PartialMessage, UInt32
    <3>2. QED BY <1>2, <3>1, EmptySeq DEF Message, PartialMessage
  <2>3. \/ GiveUp(serr') /\ spc' = "recv_header" /\ sreq' = Message(sreq.code, << >>)
        \/ ~GiveUp(serr') /\ UNCHANGED <<spc, sreq>>
    BY <1>7 DEF ReceiveDataFails
  <2>4. QED BY <1>1, <1>7, <2>1, <2>2, <2>3
            DEF TypeOK, ReceiveDataFails, ServerStates, Received
<1>8. CASE SendFails
  BY <1>1, <1>2, <1>8 DEF TypeOK, SendFails, ServerStates, Received
<1>9. QED BY <1>3, <1>4, <1>5, <1>6, <1>7, <1>8 DEF Failure

LEMMA TypeStep == TypeOK /\ [Next]_vars => TypeOK'
<1> SUFFICES ASSUME TypeOK, [Next]_vars PROVE TypeOK'
  OBVIOUS
<1>1. CASE Next
  BY <1>1, ClientTypes, ServerTypes, FailureTypes DEF Next
<1>2. CASE UNCHANGED vars
  BY <1>2 DEF TypeOK, vars, clientVars, serverVars, boundVars, Received
<1>3. QED BY <1>1, <1>2

(***************************************************************************)
(* TypeOK holds in every run of the two processes, whatever fails and      *)
(* whatever the payloads: in particular a pipe never holds more than its   *)
(* capacity and no read loop writes past the buffer it has allocated.      *)
(***************************************************************************)
THEOREM TypeCorrect == Spec => []TypeOK
<1>1. Init => TypeOK
  BY InitType
<1>2. TypeOK /\ [Next]_vars => TypeOK'
  BY TypeStep
<1>3. QED BY <1>1, <1>2, PTL DEF Spec

(***************************************************************************)
(* Framing.  It is not inductive alone: that a read loop never gives up    *)
(* follows from counting its errors against all failures so far.           *)
(***************************************************************************)
Bookkeeping ==
  /\ cerr <= faults /\ serr <= faults
  /\ cpc \notin {"waiting", "idle"} => outcome = "none"

IInv == TypeOK /\ Framing /\ Bookkeeping

\* Moving bytes from a writer's buffer into the stream changes neither the
\* stream's end nor what a reader, who holds d, will have at the end.
LEMMA WriteKeeps ==
  ASSUME NEW d \in Seq(Byte), NEW s \in Seq(Byte), NEW p \in Seq(Byte), NEW n \in 1 .. Len(p)
  PROVE  /\ (s \o First(n, p)) \o Rest(n, p) = s \o p
         /\ (d \o (s \o First(n, p))) \o Rest(n, p) = (d \o s) \o p
         /\ Len(s \o First(n, p)) >= Len(s)
         /\ Rest(n, p) = << >> <=> n = Len(p)
<1> DEFINE f == First(n, p)
           r == Rest(n, p)
<1>1. n \in 0 .. Len(p)
  BY LenProperties
<1>2. f \in Seq(Byte) /\ r \in Seq(Byte) /\ f \o r = p /\ Len(r) = Len(p) - n
  BY <1>1, Cut
<1> HIDE DEF f, r
<1>3. (s \o f) \o r = s \o p
  BY <1>2, Regroup, ZenonT(40)
<1>4. (d \o (s \o f)) \o r = (d \o s) \o p
  <2> DEFINE e == d \o s
  <2>1. f \in Seq(Byte) /\ r \in Seq(Byte) /\ e \in Seq(Byte)
    BY <1>2, ConcatProperties
  <2>2. e \o f = d \o (s \o f)
    BY <2>1, Regroup, ZenonT(40)
  <2> HIDE DEF e
  <2>3. (e \o f) \o r = e \o (f \o r)
    BY <2>1, Regroup, ZenonT(40)
  <2>4. QED BY <1>2, <2>2, <2>3 DEF e
<1>5. Len(s \o f) >= Len(s)
  <2>1. Len(s \o f) = Len(s) + Len(f)
    BY <1>2, ConcatProperties
  <2>2. QED BY <1>2, <2>1, LenProperties
<1>6. r = << >> <=> n = Len(p)
  BY <1>2, EmptySeq, LenProperties
<1>7. QED BY <1>3, <1>4, <1>5, <1>6 DEF f, r

\* While a message is on its way a read takes all that is in the pipe, and the
\* reader is done exactly when the writer is.
LEMMA ReadKeeps ==
  \A m \in PartialMessage, s \in Seq(Byte), p \in Seq(Byte), t \in Seq(Byte) :
    m.len = Len(t) /\ (m.data \o s) \o p = t
      => /\ Rest(ReadSize(Missing(m), s), s) = << >>
         /\ Extend(m, s).data \in Seq(Byte)
         /\ (Extend(m, s).data \o << >>) \o p = t
         /\ Complete(Extend(m, s)) <=> p = << >>
         /\ p = << >> => Extend(m, s).data = t
<1> TAKE m \in PartialMessage, s \in Seq(Byte), p \in Seq(Byte), t \in Seq(Byte)
<1> HAVE m.len = Len(t) /\ (m.data \o s) \o p = t
<1> DEFINE d == m.data
           n == ReadSize(Missing(m), s)
<1>1. d \in Seq(Byte)
  BY DEF PartialMessage
<1>2. /\ Extend(m, s).data = d \o First(n, s) /\ Extend(m, s).len = m.len
      /\ Missing(m) = Len(t) - Len(d)
      /\ (d \o s) \o p = t
  BY DEF Extend, Missing
<1> HIDE DEF d
<1>3. d \o s \in Seq(Byte) /\ Len(d \o s) = Len(d) + Len(s)
  BY <1>1, ConcatProperties
<1>4. Len(t) = Len(d) + Len(s) + Len(p)
  <2>1. Len((d \o s) \o p) = Len(d \o s) + Len(p)
    BY <1>3, ConcatProperties
  <2>2. QED BY <1>2, <1>3, <2>1
<1>5. n = Len(s)
  <2>1. Missing(m) \in Nat /\ Len(s) <= Missing(m)
    BY <1>1, <1>2, <1>4, LenProperties
  <2>2. QED BY <2>1, ReadSizeBounds
<1>6. First(n, s) = s /\ Rest(n, s) = << >>
  <2>1. n \in 0 .. Len(s)
    BY <1>5, LenProperties
  <2>2. First(n, s) = s
    BY <1>5, SubSeqFull DEF First
  <2>3. Rest(n, s) \in Seq(Byte) /\ Len(Rest(n, s)) = Len(s) - n
    BY <2>1, Cut
  <2>4. QED BY <1>5, <2>2, <2>3, EmptySeq, LenProperties
<1> HIDE DEF n
<1>7. Extend(m, s).data = d \o s
  BY <1>2, <1>6
<1>8. (Extend(m, s).data \o << >>) \o p = t
  BY <1>2, <1>3, <1>7, ConcatEmptySeq
<1>9. Complete(Extend(m, s)) <=> p = << >>
  <2>1. Complete(Extend(m, s)) <=> Len(d \o s) = Len(t)
    BY <1>2, <1>7 DEF Complete
  <2>2. QED BY <1>1, <1>3, <1>4, <2>1, EmptySeq, LenProperties
<1>10. p = << >> => Extend(m, s).data = t
  BY <1>2, <1>3, <1>7, ConcatEmptySeq
<1>11. QED BY <1>3, <1>6, <1>7, <1>8, <1>9, <1>10 DEF n

\* A message is the record of its fields, and a length above one means data,
\* if no message has one byte.
LEMMA MessageFields ==
  ASSUME Clean, NEW m \in Requests \cup Answers \cup {NullMessage}
  PROVE  /\ m = [code |-> m.code, len |-> m.len, data |-> m.data]
         /\ m.code \in Byte /\ m.len \in UInt32 /\ m.data \in Seq(Byte)
         /\ m.len = Len(m.data)
         /\ ~DataExpected(m.len) => m.data = << >>
<1>1. IsMessage(m)
  BY Messages
<1>2. Len(m.data) # 1
  BY EmptySeq DEF Clean, NullMessage, Message
<1>3. ~DataExpected(m.len) => m.data = << >>
  <2> DEFINE d == m.data
  <2>1. d \in Seq(Byte) /\ Len(d) # 1 /\ m.len = Len(d)
    BY <1>1, <1>2 DEF IsMessage
  <2> HIDE DEF d
  <2>2. Len(d) \in Nat /\ (Len(d) = 0 => d = << >>)
    BY <2>1, EmptySeq, LenProperties
  <2>3. Len(d) > 1 \/ d = << >>
    <3>1. \A k \in Nat : k # 1 /\ k # 0 => k > 1
      OBVIOUS
    <3>2. QED BY <2>1, <2>2, <3>1, Zenon
  <2>4. DataExpected(Len(d)) \/ d = << >>
    BY <2>3 DEF DataExpected
  <2>5. QED BY <2>1, <2>4 DEF d
<1>4. QED BY <1>1, <1>3 DEF IsMessage

LEMMA InitFraming == Init => Framing /\ Bookkeeping
  BY DEF Init, Framing, Bookkeeping, NothingOnItsWay

\* A request is being transferred whenever the VP has bytes of it to read.
LEMMA WhereRequestIs ==
  ASSUME IInv, reqs # << >>
  PROVE  /\ RequestOnItsWay /\ ~executed
         /\ cpc \in {"send_data", "recv_header"}
<1>1. ~executed /\ cpc \notin {"waiting", "idle", "send_header", "recv_data"}
  BY DEF IInv, Framing, ResponseOnItsWay, NothingOnItsWay
<1>2. cpc \in {"send_data", "recv_header"}
  BY <1>1 DEF IInv, TypeOK, ClientStates
<1>3. QED BY <1>1, <1>2 DEF IInv, Framing

\* The steps of the client that neither read nor write data.
LEMMA ClientControlFraming ==
  ASSUME Clean, IInv,
         \/ CheckForReady \/ ResetReady \/ \E q \in Requests : SendRequest(q)
         \/ WriteRequestHeader
  PROVE  Framing'
<1> USE DEF clientVars, serverVars, boundVars
<1>1. CASE CheckForReady
  <2>1. Len(Ready) \in Nat \ {0} /\ Ready \in Seq(Byte)
    BY PipeAssumption, EmptySeq
  <2>2. resps = Ready /\ reqs = << >> /\ spc = "recv_header" /\ ~executed
    BY <1>1, <2>1, EmptySeq DEF CheckForReady, IInv, Framing, NothingOnItsWay
  <2>3. First(Len(Ready), Ready) = Ready
    BY <2>1, SubSeqFull DEF First
  <2>4. Rest(Len(Ready), Ready) = << >>
    BY <2>1, SubSeqEmpty DEF Rest
  <2>5. resps' = << >> /\ cpc' = "idle"
    BY <1>1, <2>2, <2>3, <2>4 DEF CheckForReady
  <2>6. QED BY <1>1, <2>2, <2>5 DEF CheckForReady, IInv, Framing, NothingOnItsWay
<1>2. CASE ResetReady
  BY <1>2 DEF ResetReady, IInv, Framing, NothingOnItsWay
<1>3. ASSUME NEW q \in Requests, SendRequest(q) PROVE Framing'
  BY <1>3 DEF SendRequest, IInv, Framing, NothingOnItsWay
<1>4. CASE WriteRequestHeader
  <2>1. /\ IsMessage(call) /\ call.data \in Seq(Byte)
        /\ Header(call) \in Seq(Byte) /\ Len(Header(call)) = HeaderLen
    BY Messages, HeaderIsBytes DEF IInv, TypeOK, IsMessage
  <2>2. NothingOnItsWay /\ spend = << >> /\ spc # "send_data"
    BY <1>4 DEF WriteRequestHeader, IInv, Framing, NothingOnItsWay
  <2>3. reqs' = Header(call) /\ cpend' = call.data /\ call' = call
    BY <1>4, <2>1, <2>2, ConcatEmptySeq DEF WriteRequestHeader, NothingOnItsWay
  <2>4. RequestOnItsWay'
    <3>1. reqs' \o cpend' = Header(call') \o call'.data
      BY <2>3
    <3>4. Len(reqs') >= HeaderLen
      <4>1. HeaderLen >= HeaderLen
        BY DEF HeaderLen
      <4>2. Len(reqs') = HeaderLen
        BY <2>1, <2>3
      <4>3. QED BY <4>1, <4>2
    <3>2. resps' = << >> /\ spc' \in {"off", "recv_header"}
      BY <1>4, <2>2 DEF WriteRequestHeader, NothingOnItsWay
    <3>3. QED BY <3>1, <3>2, <3>4 DEF RequestOnItsWay
  <2>5. /\ cpc' \in {"send_data", "recv_header"}
        /\ cpend' # << >> <=> cpc' = "send_data"
    BY <1>4, <2>3 DEF WriteRequestHeader
  <2>6. QED BY <1>4, <2>2, <2>4, <2>5 DEF WriteRequestHeader, Framing, NothingOnItsWay
<1>5. QED BY <1>1, <1>2, <1>3, <1>4

LEMMA WriteRequestDataFraming ==
  ASSUME Clean, IInv, WriteRequestData
  PROVE  Framing'
<1>1. RequestOnItsWay /\ ~executed /\ cpend # << >> /\ spc # "handle"
  BY DEF WriteRequestData, IInv, Framing, ResponseOnItsWay, RequestOnItsWay
<1>2. PICK n \in 1 .. Len(cpend) :
        /\ reqs' = reqs \o First(n, cpend)
        /\ cpend' = Rest(n, cpend)
        /\ cpc' = IF n = Len(cpend) THEN "recv_header" ELSE "send_data"
  BY DEF WriteRequestData
<1>3. sreq.data \in Seq(Byte) /\ reqs \in Seq(Byte) /\ cpend \in Seq(Byte)
  BY DEF IInv, TypeOK, PartialMessage
<1>4. /\ reqs' \o cpend' = reqs \o cpend
      /\ (sreq.data \o reqs') \o cpend' = (sreq.data \o reqs) \o cpend
      /\ Len(reqs') >= Len(reqs)
      /\ cpend' = << >> <=> n = Len(cpend)
  <2> DEFINE d == sreq.data
  <2>1. d \in Seq(Byte)
    BY <1>3
  <2> HIDE DEF d
  <2>2. /\ (reqs \o First(n, cpend)) \o Rest(n, cpend) = reqs \o cpend
        /\ (d \o (reqs \o First(n, cpend))) \o Rest(n, cpend) = (d \o reqs) \o cpend
        /\ Len(reqs \o First(n, cpend)) >= Len(reqs)
        /\ Rest(n, cpend) = << >> <=> n = Len(cpend)
    BY <1>3, <2>1, WriteKeeps
  <2>3. QED BY <1>2, <2>2 DEF d
<1>5. UNCHANGED <<resps, call, serverVars, executed>>
  BY DEF WriteRequestData
<1>6. cpc' \in {"send_data", "recv_header"} /\ (cpend' # << >> <=> cpc' = "send_data")
  BY <1>2, <1>4
<1>7. Len(reqs) >= HeaderLen => Len(reqs') >= HeaderLen
  <2>1. Len(reqs) \in Nat /\ Len(reqs') \in Nat
    <3>1. reqs' \in Seq(Byte)
      BY <1>2, <1>3, Cut, ConcatProperties, LenProperties
    <3>2. QED BY <1>3, <3>1, LenProperties
  <2>2. QED BY <1>4, <2>1 DEF HeaderLen
<1>8. RequestOnItsWay'
  BY <1>1, <1>4, <1>5, <1>7 DEF RequestOnItsWay, serverVars
<1>9. QED BY <1>1, <1>5, <1>6, <1>8 DEF IInv, Framing, serverVars

\* The header of the response: its status and length are the handler's, and
\* the rest of the stream is its data.
LEMMA ResponseHeaderRead ==
  ASSUME Clean, IInv, ReadResponseHeader
  PROVE  LET m == HeaderMessage(resps)
             r == Rest(HeaderLen, resps)
         IN  /\ executed /\ ResponseOnItsWay /\ spc \in {"recv_header", "send_data"}
             /\ ReadSize(HeaderLen, resps) = HeaderLen
             /\ m = [code |-> sres.code, len |-> sres.len, data |-> << >>]
             /\ r \in Seq(Byte) /\ r \o spend = sres.data
             /\ resps' = r
<1>1. /\ cpc = "recv_header" /\ resps # << >>
      /\ resps' = Rest(ReadSize(HeaderLen, resps), resps)
  BY DEF ReadResponseHeader
<1>2. executed /\ ResponseOnItsWay
  BY <1>1 DEF IInv, Framing, RequestOnItsWay
<1>3. /\ spc \in {"recv_header", "send_data"} /\ sres \in Answers
      /\ resps \o spend = Header(sres) \o sres.data
      /\ Len(resps) >= HeaderLen
  BY <1>1, <1>2 DEF ResponseOnItsWay
<1>4. resps \in Seq(Byte) /\ spend \in Seq(Byte)
  BY DEF IInv, TypeOK
<1>5. sres.code \in Byte /\ sres.len \in UInt32 /\ sres.data \in Seq(Byte)
  BY <1>3, Messages DEF IsMessage
<1>6. ReadSize(HeaderLen, resps) = HeaderLen
  BY <1>3, <1>4, ReadSizeBounds DEF HeaderLen
<1>7. Rest(HeaderLen, resps) \in Seq(Byte)
  BY <1>3, <1>4, Cut, LenProperties DEF HeaderLen
<1>8. /\ HeaderMessage(resps) = [code |-> sres.code, len |-> sres.len, data |-> << >>]
      /\ Rest(HeaderLen, resps) \o spend = sres.data
  <2>1. sres \in Requests \cup Answers \cup {NullMessage}
    BY <1>3
  <2>2. QED BY <1>3, <1>4, <2>1, HeaderRead, Zenon
<1>9. QED BY <1>1, <1>2, <1>3, <1>6, <1>7, <1>8

\* A response without data leaves nothing behind.
LEMMA NoDataLeft ==
  ASSUME IInv, NEW r \in Seq(Byte), r \o spend = << >>
  PROVE  r = << >> /\ spend = << >> /\ spc # "send_data"
<1>1. r = << >> /\ spend = << >>
  BY ConcatEqualIffEmpty DEF IInv, TypeOK
<1>2. QED BY <1>1 DEF IInv, Framing

LEMMA ReadResponseHeaderFraming ==
  ASSUME Clean, IInv, ReadResponseHeader
  PROVE  Framing'
<1> DEFINE m == HeaderMessage(resps)
           r == Rest(HeaderLen, resps)
<1>1. /\ executed /\ ResponseOnItsWay /\ spc \in {"recv_header", "send_data"}
      /\ ReadSize(HeaderLen, resps) = HeaderLen
      /\ m = [code |-> sres.code, len |-> sres.len, data |-> << >>]
      /\ r \in Seq(Byte) /\ r \o spend = sres.data
      /\ resps' = r
  BY ResponseHeaderRead
<1>2. sres \in Answers /\ reqs = << >> /\ cpend = << >>
  BY <1>1 DEF ResponseOnItsWay
<1>3. UNCHANGED <<reqs, call, cpend, serverVars>>
  BY DEF ReadResponseHeader
<1>4. ~DataExpected(sres.len) => sres.data = << >>
  BY <1>2, MessageFields
<1>5. sres.code \in {StatusError, StatusMalformed} => sres.data = << >>
  BY <1>2 DEF Clean, StatusOK, StatusError, StatusMalformed
<1>6. CASE cpc' = "idle" /\ executed' = FALSE /\ sres.data = << >>
  <2>1. resps' = << >> /\ spend = << >> /\ spc # "send_data"
    BY <1>1, <1>6, NoDataLeft
  <2>2. QED BY <1>1, <1>2, <1>3, <1>6, <2>1 DEF Framing, NothingOnItsWay, serverVars
<1>7. CASE /\ cpc' = "recv_data" /\ res' = m /\ executed' = executed
           /\ m.code \notin {StatusError, StatusMalformed}
  <2>1. sres.code = StatusOK
    BY <1>1, <1>2, <1>7, PipeAssumption DEF Statuses
  <2>2. res' = [code |-> sres.code, len |-> sres.len, data |-> << >>]
    BY <1>1, <1>7
  <2>3. (res'.data \o resps') \o spend = sres.data
    BY <1>1, <2>2, ConcatEmptySeq
  <2> HIDE DEF m, r
  <2>4. ResponseOnItsWay'
    BY <1>1, <1>2, <1>3, <1>7, <2>1, <2>2, <2>3 DEF ResponseOnItsWay, serverVars
  <2>5. QED BY <1>1, <1>2, <1>3, <1>7, <2>4 DEF IInv, Framing, serverVars
<1>8. \/ cpc' = "idle" /\ executed' = FALSE /\ sres.data = << >>
      \/ /\ cpc' = "recv_data" /\ res' = m /\ executed' = executed
         /\ m.code \notin {StatusError, StatusMalformed}
  <2>1. m.code = sres.code /\ m.len = sres.len
    BY <1>1
  <2>2. ~(HeaderLen < HeaderLen)
    BY DEF HeaderLen
  <2>3. \/ m.code \in {StatusError, StatusMalformed} /\ cpc' = "idle" /\ executed' = FALSE
        \/ ~DataExpected(m.len) /\ cpc' = "idle" /\ executed' = FALSE
        \/ /\ m.code \notin {StatusError, StatusMalformed}
           /\ cpc' = "recv_data" /\ res' = m /\ executed' = executed
    BY <1>1, <2>2 DEF ReadResponseHeader, Return
  <2> HIDE DEF m
  <2>4. QED BY <1>4, <1>5, <2>1, <2>3
<1>9. QED BY <1>6, <1>7, <1>8

LEMMA ReadResponseDataFraming ==
  ASSUME Clean, IInv, ReadResponseData
  PROVE  /\ Framing'
         /\ Complete(Extend(res, resps)) => Extend(res, resps) = sres
         /\ sres \in Answers /\ sres.code = StatusOK /\ executed
<1> DEFINE m == Extend(res, resps)
           n == ReadSize(Missing(res), resps)
<1>1. cpc = "recv_data" /\ resps' = Rest(n, resps)
  BY DEF ReadResponseData
<1>2. executed /\ ResponseOnItsWay
  BY <1>1 DEF IInv, Framing
<1>3. /\ reqs = << >> /\ cpend = << >> /\ sreq = call /\ sres \in Answers
      /\ spc \in {"recv_header", "send_data"}
      /\ sres.code = StatusOK /\ res.code = sres.code /\ res.len = sres.len
      /\ (res.data \o resps) \o spend = sres.data
  BY <1>1, <1>2 DEF ResponseOnItsWay
<1>4. /\ sres = [code |-> sres.code, len |-> sres.len, data |-> sres.data]
      /\ sres.data \in Seq(Byte) /\ sres.len = Len(sres.data)
  BY <1>3, MessageFields
<1>5. res \in PartialMessage /\ resps \in Seq(Byte) /\ spend \in Seq(Byte)
  BY DEF IInv, TypeOK
<1>6. /\ resps' = << >>
      /\ m.data \in Seq(Byte)
      /\ (m.data \o << >>) \o spend = sres.data
      /\ Complete(m) <=> spend = << >>
      /\ spend = << >> => m.data = sres.data
  <2>1. /\ Rest(ReadSize(Missing(res), resps), resps) = << >>
        /\ Extend(res, resps).data \in Seq(Byte)
        /\ (Extend(res, resps).data \o << >>) \o spend = sres.data
        /\ Complete(Extend(res, resps)) <=> spend = << >>
        /\ spend = << >> => Extend(res, resps).data = sres.data
    <3>1. sres.data \in Seq(Byte) /\ res.len = Len(sres.data)
      BY <1>3, <1>4
    <3>2. res.len = Len(sres.data) /\ (res.data \o resps) \o spend = sres.data
      BY <1>3, <3>1
    <3>3. res \in PartialMessage /\ resps \in Seq(Byte) /\ spend \in Seq(Byte)
      BY <1>5
    <3>4. \A p \in Seq(Byte), t \in Seq(Byte) :
            res.len = Len(t) /\ (res.data \o resps) \o p = t
              => /\ Rest(ReadSize(Missing(res), resps), resps) = << >>
                 /\ Extend(res, resps).data \in Seq(Byte)
                 /\ (Extend(res, resps).data \o << >>) \o p = t
                 /\ Complete(Extend(res, resps)) <=> p = << >>
                 /\ p = << >> => Extend(res, resps).data = t
      BY ONLY <3>3, ReadKeeps, Zenon
    <3>5. QED BY ONLY <3>1, <3>2, <3>3, <3>4, Zenon
  <2>2. QED BY <1>1, <2>1
<1>7. m.code = sres.code /\ m.len = sres.len /\ m = [code |-> m.code, len |-> m.len, data |-> m.data]
  BY <1>3 DEF Extend
<1>8. UNCHANGED <<reqs, call, cpend, serverVars>>
  BY DEF ReadResponseData
<1>9. \/ Complete(m) /\ cpc' = "idle" /\ executed' = FALSE
      \/ ~Complete(m) /\ res' = m /\ cpc' = cpc /\ executed' = executed
  BY DEF ReadResponseData, Return
<1> HIDE DEF m, n
<1>10. ASSUME Complete(m) /\ cpc' = "idle" /\ executed' = FALSE PROVE Framing'
  <2>1. spend = << >> /\ spc = "recv_header"
    BY <1>3, <1>6, <1>10 DEF IInv, Framing
  <2>2. QED BY <1>3, <1>6, <1>8, <1>10, <2>1 DEF Framing, NothingOnItsWay, serverVars
<1>11. ASSUME ~Complete(m) /\ res' = m /\ cpc' = cpc /\ executed' = executed
       PROVE  Framing'
  <2>1. ResponseOnItsWay'
    BY <1>1, <1>3, <1>6, <1>7, <1>8, <1>11 DEF ResponseOnItsWay, serverVars
  <2>2. QED BY <1>1, <1>2, <1>3, <1>8, <1>11, <2>1 DEF IInv, Framing, serverVars
<1>12. Framing'
  BY <1>9, <1>10, <1>11
<1>13. Complete(m) => m = sres
  BY <1>4, <1>6, <1>7
<1>14. QED BY <1>2, <1>3, <1>12, <1>13 DEF m


\* The steps of the VP that neither read nor write data of a request.
LEMMA StartFraming ==
  ASSUME IInv, Start
  PROVE  Framing'
<1> USE DEF clientVars, serverVars, boundVars
<1>1. NothingOnItsWay /\ cpc = "waiting" /\ spc = "off"
  BY DEF Start, IInv, Framing
<1>2. resps' = Ready
  BY <1>1, PipeAssumption, ConcatEmptySeq DEF Start, NothingOnItsWay
<1>3. QED BY <1>1, <1>2 DEF Start, IInv, Framing, NothingOnItsWay

\* A request that is handled is the request that was sent.
LEMMA WhereRequestIsHandled ==
  ASSUME IInv, spc = "handle"
  PROVE  /\ RequestOnItsWay /\ ~executed
         /\ cpc = "recv_header"
         /\ sreq = call /\ reqs = << >> /\ resps = << >> /\ cpend = << >>
<1>1. ~executed /\ cpc \notin {"waiting", "idle", "send_header", "recv_data"}
  BY DEF IInv, Framing, ResponseOnItsWay, NothingOnItsWay
<1>2. cpc \in {"send_data", "recv_header"}
  BY <1>1 DEF IInv, TypeOK, ClientStates
<1>3. RequestOnItsWay
  BY <1>1, <1>2 DEF IInv, Framing
<1>4. sreq = call /\ reqs = << >> /\ resps = << >> /\ cpend = << >>
  BY <1>3 DEF RequestOnItsWay
<1>5. QED BY <1>1, <1>2, <1>3, <1>4 DEF IInv, Framing

LEMMA HandleRequestFraming ==
  ASSUME IInv, NEW a \in Answers, HandleRequest(a)
  PROVE  Framing'
<1>1. spc = "handle"
  BY DEF HandleRequest
<1>2. /\ cpc = "recv_header"
      /\ sreq = call /\ reqs = << >> /\ resps = << >> /\ cpend = << >>
  BY <1>1, WhereRequestIsHandled
<1>3. /\ spc' = "send_header" /\ sres' = a /\ executed'
      /\ UNCHANGED <<reqs, resps, clientVars, sreq, serr, spend, boundVars>>
  BY DEF HandleRequest
<1>4. ResponseOnItsWay'
  BY <1>2, <1>3 DEF ResponseOnItsWay, clientVars
<1>5. QED BY <1>1, <1>2, <1>3, <1>4 DEF IInv, Framing, clientVars

LEMMA SendHeaderFraming ==
  ASSUME IInv, SendHeader
  PROVE  Framing'
<1>1. spc = "send_header"
  BY DEF SendHeader
<1>2. executed
  <2>1. cpc \notin {"waiting", "idle", "send_header"}
    BY <1>1 DEF IInv, Framing, NothingOnItsWay
  <2>2. cpc \in {"send_data", "recv_header", "recv_data"}
    BY <2>1 DEF IInv, TypeOK, ClientStates
  <2>3. QED BY <1>1, <2>2 DEF IInv, Framing, RequestOnItsWay
<1>3. /\ cpc = "recv_header" /\ resps = << >> /\ sres \in Answers
      /\ reqs = << >> /\ cpend = << >> /\ sreq = call
  BY <1>1, <1>2 DEF IInv, Framing, ResponseOnItsWay
<1>4. /\ Header(sres) \in Seq(Byte) /\ Len(Header(sres)) = HeaderLen
  BY <1>3, Messages, HeaderIsBytes DEF IsMessage
<1>5. resps' = Header(sres) /\ spend' = sres.data
  BY <1>3, <1>4, ConcatEmptySeq DEF SendHeader
<1>6. /\ UNCHANGED <<reqs, clientVars, sreq, serr, sres, boundVars, executed>>
      /\ spc' = IF sres.data = << >> THEN "recv_header" ELSE "send_data"
  BY DEF SendHeader
<1>7. ResponseOnItsWay'
  <2>1. resps' \o spend' = Header(sres') \o sres'.data
    BY <1>5, <1>6
  <2>2. Len(resps') >= HeaderLen
    <3>1. HeaderLen >= HeaderLen
      BY DEF HeaderLen
    <3>2. Len(resps') = HeaderLen
      BY <1>4, <1>5
    <3>3. QED BY <3>1, <3>2
  <2>3. QED BY <1>3, <1>6, <2>1, <2>2 DEF ResponseOnItsWay, clientVars
<1>8. spend' # << >> <=> spc' = "send_data"
  BY <1>5, <1>6
<1>9. QED BY <1>2, <1>3, <1>6, <1>7, <1>8 DEF Framing, clientVars

LEMMA SendDataFraming ==
  ASSUME IInv, SendData
  PROVE  Framing'
<1>1. spc = "send_data"
  BY DEF SendData
<1>2. executed
  <2>1. cpc \notin {"waiting", "idle", "send_header"}
    BY <1>1 DEF IInv, Framing, NothingOnItsWay
  <2>2. cpc \in {"send_data", "recv_header", "recv_data"}
    BY <2>1 DEF IInv, TypeOK, ClientStates
  <2>3. QED BY <1>1, <2>2 DEF IInv, Framing, RequestOnItsWay
<1>3. ResponseOnItsWay
  BY <1>2 DEF IInv, Framing
<1>4. PICK n \in 1 .. Len(spend) :
        /\ resps' = resps \o First(n, spend)
        /\ spend' = Rest(n, spend)
        /\ spc' = IF n = Len(spend) THEN "recv_header" ELSE "send_data"
  BY DEF SendData
<1>5. res.data \in Seq(Byte) /\ resps \in Seq(Byte) /\ spend \in Seq(Byte)
  BY DEF IInv, TypeOK, PartialMessage
<1>6. /\ resps' \o spend' = resps \o spend
      /\ (res.data \o resps') \o spend' = (res.data \o resps) \o spend
      /\ Len(resps') >= Len(resps)
      /\ spend' = << >> <=> n = Len(spend)
  <2> DEFINE d == res.data
  <2>1. d \in Seq(Byte)
    BY <1>5
  <2> HIDE DEF d
  <2>2. /\ (resps \o First(n, spend)) \o Rest(n, spend) = resps \o spend
        /\ (d \o (resps \o First(n, spend))) \o Rest(n, spend) = (d \o resps) \o spend
        /\ Len(resps \o First(n, spend)) >= Len(resps)
        /\ Rest(n, spend) = << >> <=> n = Len(spend)
    BY <1>5, <2>1, WriteKeeps
  <2>3. QED BY <1>4, <2>2 DEF d
<1>7. UNCHANGED <<reqs, clientVars, sreq, serr, sres, boundVars, executed>>
  BY DEF SendData
<1>8. spc' \in {"recv_header", "send_data"} /\ (spend' # << >> <=> spc' = "send_data")
  BY <1>4, <1>6
<1>9. Len(resps) >= HeaderLen => Len(resps') >= HeaderLen
  <2>1. Len(resps) \in Nat /\ Len(resps') \in Nat
    <3>1. resps' \in Seq(Byte)
      BY <1>4, <1>5, Cut, ConcatProperties, LenProperties
    <3>2. QED BY <1>5, <3>1, LenProperties
  <2>2. QED BY <1>6, <2>1 DEF HeaderLen
<1>10. ResponseOnItsWay'
  BY <1>1, <1>3, <1>6, <1>7, <1>8, <1>9 DEF ResponseOnItsWay, clientVars
<1>11. QED BY <1>2, <1>7, <1>8, <1>10 DEF IInv, Framing, NothingOnItsWay, clientVars

\* The VP reads the header of the request, or the header and all there is.
LEMMA ReceiveHeaderFraming ==
  ASSUME Clean, IInv, ReceiveHeader
  PROVE  Framing'
<1>1. spc = "recv_header" /\ reqs # << >>
  BY DEF ReceiveHeader
<1>2. RequestOnItsWay /\ ~executed /\ cpc \in {"send_data", "recv_header"}
  BY <1>1, WhereRequestIs
<1>3. /\ resps = << >> /\ Len(reqs) >= HeaderLen
      /\ reqs \o cpend = Header(call) \o call.data
  BY <1>1, <1>2 DEF RequestOnItsWay
<1>4. reqs \in Seq(Byte) /\ cpend \in Seq(Byte)
  BY DEF IInv, TypeOK
<1>5. call \in Requests \cup Answers \cup {NullMessage}
  BY DEF IInv, TypeOK
<1>6. ReadSize(HeaderLen, reqs) = HeaderLen
  BY <1>3, <1>4, ReadSizeBounds DEF HeaderLen
<1>7. Rest(HeaderLen, reqs) \in Seq(Byte)
  BY <1>3, <1>4, Cut, LenProperties DEF HeaderLen
<1>8. /\ HeaderMessage(reqs) = [code |-> call.code, len |-> call.len, data |-> << >>]
      /\ Rest(HeaderLen, reqs) \o cpend = call.data
  BY <1>3, <1>4, <1>5, HeaderRead, Zenon
<1> DEFINE m == HeaderMessage(reqs)
           r == Rest(HeaderLen, reqs)
<1>9. /\ reqs' = r /\ sreq' = m
      /\ spc' = IF DataExpected(m.len) THEN "recv_data" ELSE "handle"
  <2>1. ~(HeaderLen < HeaderLen)
    BY DEF HeaderLen
  <2>2. QED BY <1>6, <2>1 DEF ReceiveHeader
<1>10. UNCHANGED <<resps, clientVars, sres, spend, executed>>
  BY DEF ReceiveHeader
<1>11. sreq'.code = call.code /\ sreq'.len = call.len /\ sreq'.data = << >>
  BY <1>8, <1>9
<1>12. /\ ~DataExpected(call.len) => call.data = << >>
       /\ call = [code |-> call.code, len |-> call.len, data |-> call.data]
  BY <1>5, MessageFields
<1> HIDE DEF m, r
<1>13. r \in Seq(Byte) /\ r \o cpend = call.data
  BY <1>7, <1>8 DEF r
<1>14. sreq' = [code |-> call.code, len |-> call.len, data |-> << >>]
       /\ spc' = IF DataExpected(call.len) THEN "recv_data" ELSE "handle"
  BY <1>8, <1>9 DEF m
<1>15. ASSUME DataExpected(call.len) PROVE RequestOnItsWay'
  <2>1. (sreq'.data \o reqs') \o cpend' = call'.data
    BY <1>9, <1>10, <1>11, <1>13, ConcatEmptySeq DEF clientVars
  <2>2. spc' = "recv_data" /\ resps' = << >> /\ call' = call
    BY <1>3, <1>10, <1>14, <1>15 DEF clientVars
  <2>3. QED BY <1>11, <2>1, <2>2 DEF RequestOnItsWay
<1>16. ASSUME ~DataExpected(call.len) PROVE RequestOnItsWay'
  <2>1. r = << >> /\ cpend = << >>
    BY <1>4, <1>12, <1>13, <1>16, ConcatEqualIffEmpty
  <2>2. sreq' = call
    BY <1>12, <1>14, <1>16
  <2>3. spc' = "handle" /\ resps' = << >> /\ call' = call /\ reqs' = << >> /\ cpend' = << >>
    BY <1>3, <1>9, <1>10, <1>14, <1>16, <2>1 DEF clientVars
  <2>4. QED BY <2>2, <2>3 DEF RequestOnItsWay
<1>17. spc' \in {"recv_data", "handle"} /\ spend = << >>
  BY <1>1, <1>14 DEF IInv, Framing
<1>18. QED BY <1>2, <1>10, <1>15, <1>16, <1>17 DEF IInv, Framing, clientVars

LEMMA ReceiveDataFraming ==
  ASSUME Clean, IInv, ReceiveData
  PROVE  Framing'
<1>1. spc = "recv_data" /\ reqs # << >>
  BY DEF ReceiveData
<1>2. RequestOnItsWay /\ ~executed /\ cpc \in {"send_data", "recv_header"}
  BY <1>1, WhereRequestIs
<1>3. /\ resps = << >> /\ sreq.code = call.code /\ sreq.len = call.len
      /\ (sreq.data \o reqs) \o cpend = call.data
  BY <1>1, <1>2 DEF RequestOnItsWay
<1>4. /\ sreq \in PartialMessage /\ reqs \in Seq(Byte) /\ cpend \in Seq(Byte)
      /\ call \in Requests \cup Answers \cup {NullMessage}
  BY DEF IInv, TypeOK
<1>5. /\ call = [code |-> call.code, len |-> call.len, data |-> call.data]
      /\ call.data \in Seq(Byte) /\ call.len = Len(call.data)
  BY <1>4, MessageFields
<1>6. /\ Rest(ReadSize(Missing(sreq), reqs), reqs) = << >>
      /\ Extend(sreq, reqs).data \in Seq(Byte)
      /\ (Extend(sreq, reqs).data \o << >>) \o cpend = call.data
      /\ Complete(Extend(sreq, reqs)) <=> cpend = << >>
      /\ cpend = << >> => Extend(sreq, reqs).data = call.data
  <2>1. sreq.len = Len(call.data) /\ (sreq.data \o reqs) \o cpend = call.data
    BY <1>3, <1>5
  <2>2. call.data \in Seq(Byte)
    BY <1>5
  <2>3. sreq \in PartialMessage /\ reqs \in Seq(Byte) /\ cpend \in Seq(Byte)
    BY <1>4
  <2>4. \A p \in Seq(Byte), t \in Seq(Byte) :
          sreq.len = Len(t) /\ (sreq.data \o reqs) \o p = t
            => /\ Rest(ReadSize(Missing(sreq), reqs), reqs) = << >>
               /\ Extend(sreq, reqs).data \in Seq(Byte)
               /\ (Extend(sreq, reqs).data \o << >>) \o p = t
               /\ Complete(Extend(sreq, reqs)) <=> p = << >>
               /\ p = << >> => Extend(sreq, reqs).data = t
    BY ONLY <2>3, ReadKeeps, Zenon
  <2>5. QED BY ONLY <2>1, <2>2, <2>3, <2>4, Zenon
<1> DEFINE m == Extend(sreq, reqs)
<1>7. /\ reqs' = << >> /\ sreq' = m
      /\ spc' = IF Complete(m) THEN "handle" ELSE "recv_data"
  BY <1>6 DEF ReceiveData
<1>8. m = [code |-> call.code, len |-> call.len, data |-> m.data]
  BY <1>3 DEF Extend
<1>9. UNCHANGED <<resps, clientVars, sres, spend, executed>>
  BY DEF ReceiveData
<1>10. /\ m.data \in Seq(Byte)
       /\ (m.data \o << >>) \o cpend = call.data
       /\ Complete(m) <=> cpend = << >>
       /\ cpend = << >> => m.data = call.data
  BY <1>6
<1> HIDE DEF m
<1>11. RequestOnItsWay'
  <2>1. resps' = << >> /\ call' = call /\ cpend' = cpend
    BY <1>3, <1>9 DEF clientVars
  <2>2. CASE Complete(m)
    <3>1. sreq' = call /\ cpend' = << >> /\ spc' = "handle"
      BY <1>5, <1>7, <1>8, <1>10, <2>1, <2>2
    <3>2. QED BY <1>7, <2>1, <3>1 DEF RequestOnItsWay
  <2>3. CASE ~Complete(m)
    <3>1. spc' = "recv_data" /\ sreq'.code = call'.code /\ sreq'.len = call'.len
      BY <1>7, <1>8, <2>1, <2>3
    <3>2. (sreq'.data \o reqs') \o cpend' = call'.data
      BY <1>7, <1>10, <2>1
    <3>3. QED BY <2>1, <3>1, <3>2 DEF RequestOnItsWay
  <2>4. QED BY <2>2, <2>3
<1>12. spc' \in {"recv_data", "handle"} /\ spend = << >>
  BY <1>1, <1>7 DEF IInv, Framing
<1>13. QED BY <1>2, <1>9, <1>11, <1>12 DEF IInv, Framing, clientVars

\* The VP ends only between calls.
LEMMA VpExitFraming ==
  ASSUME Clean, IInv, VpExit
  PROVE  Framing'
<1>1. cpc = "idle"
  BY DEF Clean, VpExit
<1>2. NothingOnItsWay
  BY <1>1 DEF IInv, Framing
<1>3. QED BY <1>1, <1>2 DEF VpExit, IInv, Framing, NothingOnItsWay, clientVars, boundVars

\* No read loop gives up: it counts fewer errors than there have been.
LEMMA FailureKeeps ==
  ASSUME Clean, IInv, Failure
  PROVE  /\ UNCHANGED <<reqs, resps, cpc, call, cpend, res, outcome, spc, sreq, sres, spend,
                        executed>>
         /\ faults' = faults + 1
         /\ cerr' \in {cerr, cerr + 1} /\ serr' \in {serr, serr + 1}
<1> USE DEF clientVars, serverVars, boundVars
<1>1. \A e \in Nat : e <= faults /\ faults < MaxFaults => ~GiveUp(e + 1)
  BY PipeAssumption DEF GiveUp, Clean, IInv, TypeOK
<1>2. cerr \in Nat /\ serr \in Nat /\ cerr <= faults /\ serr <= faults
  BY PipeAssumption DEF IInv, TypeOK, Bookkeeping
<1>3. /\ ~ClientHeaderFails /\ ~ClientWriteFails /\ ~SendFails
  BY DEF ClientHeaderFails, ClientWriteFails, SendFails, Fail, Clean
<1>4. CASE ClientReadFails
  <2>1. faults < MaxFaults /\ faults' = faults + 1 /\ cerr' = cerr + 1
    BY <1>4 DEF ClientReadFails, Fail
  <2>2. ~GiveUp(cerr')
    BY <1>1, <1>2, <2>1
  <2>3. QED BY <1>4, <2>1, <2>2 DEF ClientReadFails
<1>5. CASE ReceiveHeaderFails
  BY <1>5 DEF ReceiveHeaderFails, Fail
<1>6. CASE ReceiveDataFails
  <2>1. faults < MaxFaults /\ faults' = faults + 1 /\ serr' = serr + 1
    BY <1>6 DEF ReceiveDataFails, Fail
  <2>2. ~GiveUp(serr')
    BY <1>1, <1>2, <2>1
  <2>3. QED BY <1>6, <2>1, <2>2 DEF ReceiveDataFails
<1>7. QED BY <1>3, <1>4, <1>5, <1>6 DEF Failure

LEMMA FramingUnchanged ==
  ASSUME Framing,
         UNCHANGED <<reqs, resps, cpc, call, cpend, res, outcome, spc, sreq, sres, spend,
                     executed>>
  PROVE  Framing'
  BY DEF Framing, NothingOnItsWay, RequestOnItsWay, ResponseOnItsWay

\* The error counters stay behind the count of all failures.
LEMMA BookkeepingStep ==
  ASSUME Clean, IInv, [Next]_vars
  PROVE  Bookkeeping'
<1> USE DEF clientVars, serverVars, boundVars
<1>1. /\ cerr \in Nat /\ serr \in Nat /\ faults \in Nat
      /\ cerr <= faults /\ serr <= faults
      /\ cpc \notin {"waiting", "idle"} => outcome = "none"
  BY PipeAssumption DEF IInv, TypeOK, Bookkeeping
<1>2. CASE Failure
  BY <1>1, <1>2, FailureKeeps DEF Bookkeeping
<1>3. CASE \E q \in Requests : SendRequest(q)
  BY <1>1, <1>3 DEF SendRequest, Bookkeeping
<1>4. CASE ResetReady \/ CheckForReady
  BY <1>1, <1>4 DEF ResetReady, CheckForReady, Bookkeeping
<1>5. CASE WriteRequestHeader \/ WriteRequestData
  BY <1>1, <1>5 DEF WriteRequestHeader, WriteRequestData, Bookkeeping
<1>6. CASE ReadResponseHeader
  <2>1. /\ cerr' \in {cerr, 0} /\ UNCHANGED <<serr, faults>>
        /\ \/ cpc' = "idle"
           \/ cpc = "recv_header" /\ UNCHANGED outcome
    BY <1>6 DEF ReadResponseHeader, Return
  <2>2. QED BY <1>1, <2>1 DEF Bookkeeping
<1>7. CASE ReadResponseData
  BY <1>1, <1>7 DEF ReadResponseData, Return, Bookkeeping
<1>8. CASE Start \/ (\E a \in Answers : HandleRequest(a)) \/ SendHeader \/ SendData
  BY <1>1, <1>8 DEF Start, HandleRequest, SendHeader, SendData, Bookkeeping
<1>9. CASE ReceiveHeader \/ ReceiveData
  <2>1. serr' \in {serr, 0} /\ UNCHANGED <<cerr, faults, cpc, outcome>>
    BY <1>9 DEF ReceiveHeader, ReceiveData
  <2>2. QED BY <1>1, <2>1 DEF Bookkeeping
<1>10. CASE VpExit
  BY <1>1, <1>10 DEF VpExit, Bookkeeping
<1>11. CASE UNCHANGED vars
  BY <1>1, <1>11 DEF vars, Bookkeeping
<1>12. QED BY <1>2, <1>3, <1>4, <1>5, <1>6, <1>7, <1>8, <1>9, <1>10, <1>11
          DEF Next, ClientStep, ServerStep

LEMMA FramingStep ==
  ASSUME Clean, IInv, [Next]_vars
  PROVE  Framing'
<1>1. CASE (\E q \in Requests : SendRequest(q)) \/ ResetReady \/ CheckForReady
           \/ WriteRequestHeader
  BY <1>1, ClientControlFraming
<1>2. CASE WriteRequestData \/ ReadResponseHeader \/ ReadResponseData
  BY <1>2, WriteRequestDataFraming, ReadResponseHeaderFraming, ReadResponseDataFraming
<1>3. CASE Start \/ ReceiveHeader \/ ReceiveData
  BY <1>3, StartFraming, ReceiveHeaderFraming, ReceiveDataFraming
<1>4. CASE (\E a \in Answers : HandleRequest(a)) \/ SendHeader \/ SendData
  BY <1>4, HandleRequestFraming, SendHeaderFraming, SendDataFraming
<1>5. CASE VpExit
  BY <1>5, VpExitFraming
<1>6. CASE Failure
  BY <1>6, FailureKeeps, FramingUnchanged DEF IInv
<1>7. CASE UNCHANGED vars
  BY <1>7, FramingUnchanged DEF IInv, vars, clientVars, serverVars
<1>8. QED BY <1>1, <1>2, <1>3, <1>4, <1>5, <1>6, <1>7 DEF Next, ClientStep, ServerStep

(***************************************************************************)
(* IInv is inductive under the conditions of Clean.                        *)
(***************************************************************************)
THEOREM InvariantHolds == Clean => (Spec => []IInv)
<1> SUFFICES ASSUME Clean PROVE Spec => []IInv
  OBVIOUS
<1>1. Init => IInv
  BY InitType, InitFraming DEF IInv
<1>2. IInv /\ [Next]_vars => IInv'
  BY TypeStep, FramingStep, BookkeepingStep DEF IInv
<1>3. QED BY <1>1, <1>2, PTL DEF Spec

(***************************************************************************)
(* Framing: in every clean use of the interface, for any requests, any     *)
(* responses and any capacity of the pipes, every byte in a pipe belongs   *)
(* to the call in progress and is where the reader expects it, however the *)
(* reads and writes cut the messages into pieces.                          *)
(***************************************************************************)
THEOREM FramingCorrect == Clean => (Spec => []Framing)
<1> SUFFICES ASSUME Clean PROVE Spec => []Framing
  OBVIOUS
<1>1. IInv => Framing
  BY DEF IInv
<1>2. Spec => []IInv
  BY InvariantHolds
<1>3. QED BY <1>1, <1>2, PTL

(***************************************************************************)
(* HalfDuplex: the two pipes are never in use at the same time.            *)
(***************************************************************************)
THEOREM HalfDuplexCorrect == Clean => (Spec => []HalfDuplex)
<1> SUFFICES ASSUME Clean PROVE Spec => []HalfDuplex
  OBVIOUS
<1>1. IInv => HalfDuplex
  <2> SUFFICES ASSUME IInv, reqs # << >> PROVE resps = << >>
    BY DEF HalfDuplex
  <2>1. RequestOnItsWay
    BY WhereRequestIs
  <2>2. QED BY <2>1 DEF RequestOnItsWay
<1>2. Spec => []IInv
  BY InvariantHolds
<1>3. QED BY <1>1, <1>2, PTL

(***************************************************************************)
(* The two processes implement module Rpc.                                 *)
(***************************************************************************)
Stutter == UNCHANGED <<Phase, call, Shown(sreq), Shown(sres), Returned>>

\* Pipe and Rpc use the same vocabulary.
LEMMA Vocabulary ==
  /\ R!NullMessage = NullMessage /\ R!StatusOK = StatusOK
  /\ R!NoResult = [ok |-> FALSE, message |-> NullMessage]
  /\ \A a : R!Outcome(a) =
            IF a.code = StatusOK THEN [ok |-> TRUE, message |-> a]
                                 ELSE [ok |-> FALSE, message |-> Message(a.code, << >>)]
  BY DEF NullMessage, R!NullMessage, Message, R!Message, StatusOK, R!StatusOK, R!NoResult,
         R!Outcome

\* The VP has executed nothing while no call is waiting for its response.
LEMMA NotExecuted ==
  ASSUME IInv, cpc \in {"waiting", "idle", "send_header"} \/ reqs # << >>
  PROVE  ~executed
  BY DEF IInv, Framing, NothingOnItsWay, ResponseOnItsWay

LEMMA SendRequestMaps ==
  ASSUME IInv, NEW q \in Requests, SendRequest(q)
  PROVE  R!Call(q)
<1>1. cpc = "idle" /\ cpc' = "send_header" /\ call' = q /\ outcome' = "none"
      /\ UNCHANGED <<sreq, sres, executed>>
  BY DEF SendRequest, serverVars
<1>2. ~executed
  BY <1>1, NotExecuted
<1>3. /\ Phase = "idle" /\ Phase' = "called"
      /\ Shown(sreq) = NullMessage /\ Shown(sreq)' = NullMessage
      /\ Shown(sres) = NullMessage /\ Shown(sres)' = NullMessage
  BY <1>1, <1>2 DEF Phase, Shown
<1>4. Returned' = R!NoResult
  BY <1>1, Vocabulary DEF Returned
<1>5. QED BY <1>1, <1>3, <1>4 DEF R!Call

LEMMA HandleRequestMaps ==
  ASSUME IInv, NEW a \in Answers, HandleRequest(a)
  PROVE  R!Execute(a)
<1>1. /\ spc = "handle" /\ sres' = a /\ executed'
      /\ UNCHANGED <<cpc, call, res, outcome, sreq>>
  BY DEF HandleRequest, clientVars
<1>2. ~executed /\ cpc = "recv_header" /\ sreq = call
  BY <1>1, WhereRequestIsHandled
<1>3. Phase = "called" /\ Phase' = "executed"
  BY <1>1, <1>2 DEF Phase
<1>4. Shown(sreq)' = call /\ Shown(sres)' = a
  BY <1>1, <1>2 DEF Shown
<1>5. Returned' = Returned
  BY <1>1 DEF Returned
<1>6. QED BY <1>1, <1>3, <1>4, <1>5 DEF R!Execute

\* send_request returns the response of the handler and its status.
LEMMA ReturnMaps ==
  ASSUME executed, ~executed', cpc \notin {"waiting", "idle"}, cpc' = "idle",
         call' = call, sres \in Answers,
         \/ outcome' = "ok" /\ res' = sres /\ sres.code = StatusOK
         \/ outcome' = "failed" /\ res'.code = sres.code /\ sres.code # StatusOK
  PROVE  R!Return
<1>1. Phase = "executed" /\ Phase' = "idle"
  BY DEF Phase
<1>2. Shown(sreq)' = NullMessage /\ Shown(sres)' = NullMessage /\ Shown(sres) = sres
  BY DEF Shown
<1>3. Returned' = R!Outcome(sres)
  <2>1. CASE outcome' = "ok" /\ res' = sres /\ sres.code = StatusOK
    BY <2>1, Vocabulary DEF Returned
  <2>2. CASE outcome' = "failed" /\ res'.code = sres.code /\ sres.code # StatusOK
    BY <2>2, Vocabulary DEF Returned
  <2>3. QED BY <2>1, <2>2
<1>4. QED BY <1>1, <1>2, <1>3, Vocabulary DEF R!Return

LEMMA ReadResponseHeaderMaps ==
  ASSUME Clean, IInv, ReadResponseHeader
  PROVE  R!Return \/ Stutter
<1> DEFINE m == HeaderMessage(resps)
<1>1. /\ executed /\ ResponseOnItsWay
      /\ ReadSize(HeaderLen, resps) = HeaderLen
      /\ m = [code |-> sres.code, len |-> sres.len, data |-> << >>]
  BY ResponseHeaderRead
<1>2. sres \in Answers
  BY <1>1 DEF ResponseOnItsWay
<1>3. /\ cpc = "recv_header" /\ outcome = "none"
      /\ UNCHANGED <<call, sreq, sres>>
  BY DEF ReadResponseHeader, serverVars, IInv, Bookkeeping
<1>4. /\ ~DataExpected(sres.len) => sres.data = << >>
      /\ sres = [code |-> sres.code, len |-> sres.len, data |-> sres.data]
  BY <1>2, MessageFields
<1>5. sres.code \notin {StatusError, StatusMalformed} => sres.code = StatusOK
  BY <1>2, PipeAssumption DEF Statuses
<1>6. ~(HeaderLen < HeaderLen)
  BY DEF HeaderLen
<1>7. \/ /\ m.code \in {StatusError, StatusMalformed}
         /\ cpc' = "idle" /\ ~executed' /\ outcome' = "failed" /\ res'.code = m.code
      \/ /\ m.code \notin {StatusError, StatusMalformed} /\ ~DataExpected(m.len)
         /\ cpc' = "idle" /\ ~executed' /\ outcome' = "ok" /\ res' = m
      \/ cpc' = "recv_data" /\ UNCHANGED <<outcome, executed>>
  <2>1. \/ /\ m.code \in {StatusError, StatusMalformed}
           /\ Return("failed", [code |-> m.code, len |-> res.len, data |-> << >>])
        \/ /\ m.code \notin {StatusError, StatusMalformed} /\ ~DataExpected(m.len)
           /\ Return("ok", m)
        \/ cpc' = "recv_data" /\ UNCHANGED <<outcome, executed>>
    BY <1>1, <1>6 DEF ReadResponseHeader
  <2> HIDE DEF m
  <2>2. QED BY <2>1 DEF Return
<1>8. m.code = sres.code /\ m.len = sres.len
  BY <1>1
<1> HIDE DEF m
<1>9. CASE /\ m.code \in {StatusError, StatusMalformed}
           /\ cpc' = "idle" /\ ~executed' /\ outcome' = "failed" /\ res'.code = m.code
  <2>1. sres.code # StatusOK
    BY <1>8, <1>9 DEF StatusOK, StatusError, StatusMalformed
  <2>2. QED BY <1>1, <1>2, <1>3, <1>8, <1>9, <2>1, ReturnMaps
<1>10. CASE /\ m.code \notin {StatusError, StatusMalformed} /\ ~DataExpected(m.len)
            /\ cpc' = "idle" /\ ~executed' /\ outcome' = "ok" /\ res' = m
  <2>1. sres.code = StatusOK /\ res' = sres
    BY <1>1, <1>4, <1>5, <1>8, <1>10
  <2>2. QED BY <1>1, <1>2, <1>3, <1>10, <2>1, ReturnMaps
<1>11. CASE cpc' = "recv_data" /\ UNCHANGED <<outcome, executed>>
  BY <1>3, <1>11 DEF Stutter, Phase, Shown, Returned
<1>12. QED BY <1>7, <1>9, <1>10, <1>11

LEMMA ReadResponseDataMaps ==
  ASSUME Clean, IInv, ReadResponseData
  PROVE  R!Return \/ Stutter
<1> DEFINE m == Extend(res, resps)
<1>1. /\ Complete(m) => m = sres
      /\ sres \in Answers /\ sres.code = StatusOK /\ executed
  BY ReadResponseDataFraming
<1>2. /\ cpc = "recv_data" /\ outcome = "none"
      /\ UNCHANGED <<call, sreq, sres>>
      /\ \/ Complete(m) /\ Return("ok", m)
         \/ ~Complete(m) /\ UNCHANGED <<cpc, outcome, executed>>
  BY DEF ReadResponseData, serverVars, IInv, Bookkeeping
<1> HIDE DEF m
<1>3. CASE Complete(m) /\ Return("ok", m)
  BY <1>1, <1>2, <1>3, ReturnMaps DEF Return
<1>4. CASE ~Complete(m) /\ UNCHANGED <<cpc, outcome, executed>>
  BY <1>2, <1>4 DEF Stutter, Phase, Shown, Returned
<1>5. QED BY <1>2, <1>3, <1>4

\* Every other step is one the user of the client does not see.
LEMMA OthersStutter ==
  ASSUME Clean, IInv,
         \/ ResetReady \/ CheckForReady \/ WriteRequestHeader \/ WriteRequestData
         \/ Start \/ ReceiveHeader \/ ReceiveData \/ SendHeader \/ SendData
         \/ VpExit \/ Failure \/ UNCHANGED vars
  PROVE  Stutter
<1> USE DEF clientVars, serverVars
<1>1. CASE ResetReady \/ CheckForReady
  <2>1. /\ cpc \in {"waiting", "idle"} /\ cpc' \in {"waiting", "idle"}
        /\ UNCHANGED <<call, sreq, sres, res, outcome, executed>>
    BY <1>1 DEF ResetReady, CheckForReady
  <2>2. QED BY <2>1 DEF Stutter, Phase, Shown, Returned
<1>2. CASE WriteRequestHeader \/ WriteRequestData
  <2>1. /\ cpc \notin {"waiting", "idle"} /\ cpc' \notin {"waiting", "idle"}
        /\ UNCHANGED <<call, sreq, sres, res, outcome, executed>>
    BY <1>2 DEF WriteRequestHeader, WriteRequestData
  <2>2. QED BY <2>1 DEF Stutter, Phase, Shown, Returned
<1>3. CASE Start \/ ReceiveHeader \/ ReceiveData
  <2>1. /\ cpc = "waiting" \/ reqs # << >>
        /\ UNCHANGED <<cpc, call, sres, res, outcome, executed>>
    BY <1>3 DEF Start, ReceiveHeader, ReceiveData
  <2>2. ~executed
    BY <2>1, NotExecuted
  <2>3. QED BY <2>1, <2>2 DEF Stutter, Phase, Shown, Returned
<1>4. CASE SendHeader \/ SendData
  <2>1. UNCHANGED <<cpc, call, sreq, sres, res, outcome, executed>>
    BY <1>4 DEF SendHeader, SendData
  <2>2. QED BY <2>1 DEF Stutter, Phase, Shown, Returned
<1>5. CASE VpExit
  <2>1. cpc = "idle" /\ UNCHANGED <<cpc, call, res, outcome, executed>>
    BY <1>5 DEF VpExit, Clean
  <2>2. ~executed
    BY <2>1, NotExecuted
  <2>3. QED BY <2>1, <2>2 DEF Stutter, Phase, Shown, Returned
<1>6. CASE Failure
  <2>1. UNCHANGED <<cpc, call, sreq, sres, res, outcome, executed>>
    BY <1>6, FailureKeeps
  <2>2. QED BY <2>1 DEF Stutter, Phase, Shown, Returned
<1>7. CASE UNCHANGED vars
  BY <1>7 DEF vars, Stutter, Phase, Shown, Returned
<1>8. QED BY <1>1, <1>2, <1>3, <1>4, <1>5, <1>6, <1>7

(***************************************************************************)
(* Every clean use of the pipe transport is a use of the abstract          *)
(* interface: a request is executed once and as it was sent, and its call  *)
(* returns the status and the data of its own execution, for all payloads, *)
(* pipe capacities and ways the system calls cut the stream into pieces.   *)
(***************************************************************************)
THEOREM Refinement == Clean => (Spec => ImplementsRpcSafely)
<1> SUFFICES ASSUME Clean PROVE Spec => ImplementsRpcSafely
  OBVIOUS
<1>1. Init => R!Init
  BY Vocabulary DEF Init, R!Init, Phase, Shown, Returned
<1>2. IInv /\ [Next]_vars => [R!Next]_(R!vars)
  <2> SUFFICES ASSUME IInv, [Next]_vars PROVE R!Next \/ Stutter
    BY DEF Stutter, R!vars
  <2>1. CASE \E q \in Requests : SendRequest(q)
    BY <2>1, SendRequestMaps DEF R!Next
  <2>2. CASE \E a \in Answers : HandleRequest(a)
    BY <2>2, HandleRequestMaps DEF R!Next
  <2>3. CASE ReadResponseHeader \/ ReadResponseData
    BY <2>3, ReadResponseHeaderMaps, ReadResponseDataMaps DEF R!Next
  <2>4. CASE \/ ResetReady \/ CheckForReady \/ WriteRequestHeader \/ WriteRequestData
             \/ Start \/ ReceiveHeader \/ ReceiveData \/ SendHeader \/ SendData
             \/ VpExit \/ Failure \/ UNCHANGED vars
    BY <2>4, OthersStutter
  <2>5. QED BY <2>1, <2>2, <2>3, <2>4 DEF Next, ClientStep, ServerStep
<1>3. Spec => []IInv
  BY InvariantHolds
<1>4. QED BY <1>1, <1>2, <1>3, PTL DEF Spec, ImplementsRpcSafely, R!SafeSpec

(***************************************************************************)
(* The data of a message is handed on in whole or not at all.  The flag of *)
(* the last call stays until the next one, so the invariant also says that *)
(* a call which is not over has not succeeded.                             *)
(***************************************************************************)
Whole ==
  /\ outcome = "ok" => cpc \in {"idle", "waiting"}
  /\ outcome = "ok" /\ DataExpected(res.len) => Len(res.data) = res.len
  /\ spc = "handle" /\ DataExpected(sreq.len) => Len(sreq.data) = sreq.len

\* The client's steps, and what fails of them.
LEMMA ClientWhole ==
  ASSUME Whole,
         \/ \E q \in Requests : SendRequest(q)
         \/ ResetReady \/ ClientStep
         \/ ClientHeaderFails \/ ClientWriteFails \/ ClientReadFails
  PROVE  Whole'
<1> USE DEF serverVars, boundVars, Whole
<1>1. UNCHANGED <<spc, sreq>>
  BY DEF SendRequest, ResetReady, ClientStep, CheckForReady, WriteRequestHeader, WriteRequestData,
         ReadResponseHeader, ReadResponseData, ClientHeaderFails, ClientWriteFails,
         ClientReadFails
<1>2. CASE (\E q \in Requests : SendRequest(q)) \/ ResetReady \/ CheckForReady
           \/ WriteRequestHeader \/ WriteRequestData
  BY <1>1, <1>2 DEF SendRequest, ResetReady, CheckForReady, WriteRequestHeader, WriteRequestData
<1>3. CASE ReadResponseHeader
  BY <1>1, <1>3 DEF ReadResponseHeader, Return
<1>4. CASE ReadResponseData
  BY <1>1, <1>4 DEF ReadResponseData, Return, Complete
<1>5. CASE ClientHeaderFails \/ ClientWriteFails \/ ClientReadFails
  BY <1>1, <1>5 DEF ClientHeaderFails, ClientWriteFails, ClientReadFails, Return
<1> QED BY <1>2, <1>3, <1>4, <1>5 DEF ClientStep

\* The VP's steps, its end, and what fails of them.
LEMMA ServerWhole ==
  ASSUME Whole,
         \/ ServerStep \/ VpExit
         \/ ReceiveHeaderFails \/ ReceiveDataFails \/ SendFails
  PROVE  Whole'
<1> USE DEF clientVars, boundVars, Whole
<1>1. UNCHANGED <<cpc, outcome, res>>
  BY DEF ServerStep, Start, ReceiveHeader, ReceiveData, HandleRequest, SendHeader, SendData,
         VpExit, ReceiveHeaderFails, ReceiveDataFails, SendFails
<1>2. CASE Start \/ (\E a \in Answers : HandleRequest(a)) \/ SendHeader \/ SendData \/ VpExit
           \/ ReceiveHeaderFails \/ ReceiveDataFails \/ SendFails
  <2>1. CASE Start \/ SendHeader \/ SendData \/ VpExit
    BY <1>1, <2>1 DEF Start, SendHeader, SendData, VpExit
  <2>2. CASE \E a \in Answers : HandleRequest(a)
    BY <1>1, <2>2 DEF HandleRequest
  <2>3. CASE ReceiveHeaderFails
    BY <1>1, <2>3 DEF ReceiveHeaderFails, serverVars
  <2>4. CASE ReceiveDataFails
    <3>1. spc = "recv_data" /\ (spc' = "recv_header" \/ spc' = spc)
      BY <2>4 DEF ReceiveDataFails
    <3> QED BY <1>1, <3>1
  <2>5. CASE SendFails
    <3>1. spc' = "recv_header"
      BY <2>5 DEF SendFails
    <3> QED BY <1>1, <3>1
  <2> QED BY <1>2, <2>1, <2>2, <2>3, <2>4, <2>5
<1>3. CASE ReceiveHeader
  BY <1>1, <1>3 DEF ReceiveHeader
<1>4. CASE ReceiveData
  BY <1>1, <1>4 DEF ReceiveData, Complete
<1> QED BY <1>2, <1>3, <1>4 DEF ServerStep

\* Whatever fails and whenever the VP ends, send_request returns true, and a
\* request is handled, with all of the data that the header has announced.
THEOREM WholeDataCorrect == Spec => []WholeData
<1>1. Init => Whole
  BY DEF Init, Whole, DataExpected, NullMessage, Message
<1>2. Whole /\ [Next]_vars => Whole'
  <2> SUFFICES ASSUME Whole, [Next]_vars PROVE Whole'
    OBVIOUS
  <2>1. CASE UNCHANGED vars
    BY <2>1 DEF vars, clientVars, serverVars, Whole
  <2> QED BY <2>1, ClientWhole, ServerWhole DEF Next, Failure
<1>3. Whole => WholeData
  BY DEF Whole, WholeData
<1> QED BY <1>1, <1>2, <1>3, PTL DEF Spec

=============================================================================
