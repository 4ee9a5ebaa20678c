------------------------ MODULE PipeProgressProofs ------------------------
(***************************************************************************)
(* Every call over the pipes comes to its end, for all payloads,           *)
(* capacities and ways the stream is cut: it never blocks, and no step of  *)
(* it is in vain.  Both need the invariant of module PipeProofs, which     *)
(* says where the bytes of a call are.                                     *)
(***************************************************************************)
EXTENDS PipeProofs

-----------------------------------------------------------------------------
(***************************************************************************)
(* A read loop goes on only while something is missing.  Framing does not  *)
(* say so, and without it a side could read on in a pipe in which nothing  *)
(* will come.                                                              *)
(***************************************************************************)
Unfinished ==
  /\ cpc = "recv_data" => ~Complete(res)
  /\ spc = "recv_data" => ~Complete(sreq)

LEMMA HeaderAlone ==
  ASSUME NEW b \in Seq(Byte), DataExpected(HeaderMessage(b).len)
  PROVE  ~Complete(HeaderMessage(b))
<1>1. HeaderMessage(b).data = << >>
  BY DEF HeaderMessage
<1>2. Len(<< >>) = 0
  BY EmptySeq
<1>3. HeaderMessage(b).len # 0
  BY DEF DataExpected
<1> QED BY <1>1, <1>2, <1>3 DEF Complete

LEMMA UnfinishedStep == TypeOK /\ Unfinished /\ [Next]_vars => Unfinished'
<1> SUFFICES ASSUME TypeOK, Unfinished, [Next]_vars PROVE Unfinished'
  OBVIOUS
<1> USE DEF clientVars, serverVars, boundVars, Unfinished
<1>1. CASE UNCHANGED vars
  BY <1>1 DEF vars, Complete
<1>2. CASE (\E q \in Requests : SendRequest(q)) \/ ResetReady \/ CheckForReady
           \/ WriteRequestHeader \/ WriteRequestData
  BY <1>2 DEF SendRequest, ResetReady, CheckForReady, WriteRequestHeader, WriteRequestData,
              Complete
<1>3. CASE ReadResponseHeader
  <2>1. UNCHANGED <<spc, sreq>>
    BY <1>3 DEF ReadResponseHeader
  <2>2. cpc' = "recv_data" => res' = HeaderMessage(resps) /\ DataExpected(HeaderMessage(resps).len)
    BY <1>3 DEF ReadResponseHeader, Return
  <2>3. cpc' = "recv_data" => ~Complete(res')
    BY <2>2, HeaderAlone DEF TypeOK
  <2> QED BY <2>1, <2>3 DEF Complete
<1>4. CASE ReadResponseData
  BY <1>4 DEF ReadResponseData, Return, Complete
<1>5. CASE Start \/ (\E a \in Answers : HandleRequest(a)) \/ SendHeader \/ SendData \/ VpExit
  BY <1>5 DEF Start, HandleRequest, SendHeader, SendData, VpExit, Complete
<1>6. CASE ReceiveHeader
  <2>1. UNCHANGED <<cpc, res>>
    BY <1>6 DEF ReceiveHeader
  <2>2. spc' = "recv_data" =>
          sreq' = HeaderMessage(reqs) /\ DataExpected(HeaderMessage(reqs).len)
    BY <1>6 DEF ReceiveHeader
  <2>3. spc' = "recv_data" => ~Complete(sreq')
    BY <2>2, HeaderAlone DEF TypeOK
  <2> QED BY <2>1, <2>3 DEF Complete
<1>7. CASE ReceiveData
  BY <1>7 DEF ReceiveData, Complete
<1>8. CASE ClientHeaderFails \/ ClientWriteFails \/ ClientReadFails
  BY <1>8 DEF ClientHeaderFails, ClientWriteFails, ClientReadFails, Return, Complete
<1>9. CASE ReceiveHeaderFails \/ ReceiveDataFails \/ SendFails
  BY <1>9 DEF ReceiveHeaderFails, ReceiveDataFails, SendFails, Complete
<1> QED BY <1>1, <1>2, <1>3, <1>4, <1>5, <1>6, <1>7, <1>8, <1>9
        DEF Next, ClientStep, ServerStep, Failure

-----------------------------------------------------------------------------
(***************************************************************************)
(* Nobody waits for ever.  Where the client is decides what can go on.     *)
(***************************************************************************)
\* An empty pipe takes a header, a ready message or a byte of data.
LEMMA EmptyHasRoom ==
  /\ HasRoom(HeaderLen, << >>) /\ HasRoom(Len(Ready), << >>) /\ HasRoom(1, << >>)
<1>1. Len(<< >>) = 0 /\ Len(Ready) \in Nat
  BY EmptySeq, LenProperties, PipeAssumption
<1> QED BY <1>1, PipeAssumption DEF HasRoom, HeaderLen

LEMMA FullIsNotEmpty ==
  ASSUME NEW s \in Seq(Byte), ~HasRoom(1, s) PROVE s # << >>
  BY EmptyHasRoom


LEMMA WaitingGoes ==
  ASSUME IInv, cpc = "waiting" PROVE ClientGoes \/ ServerGoes
<1>1. CASE NothingOnItsWay /\ spc = "off"
  BY <1>1, EmptyHasRoom DEF ServerGoes, NothingOnItsWay
<1>2. CASE resps = Ready
  <2>1. Len(Ready) \in Nat
    BY LenProperties, PipeAssumption
  <2> QED BY <1>2, <2>1 DEF ClientGoes
<1> QED BY <1>1, <1>2 DEF IInv, Framing

LEMMA SendHeaderGoes ==
  ASSUME IInv, cpc = "send_header" PROVE ClientGoes
  BY EmptyHasRoom DEF IInv, Framing, NothingOnItsWay, ClientGoes

LEMMA SendDataGoes ==
  ASSUME IInv, cpc = "send_data", spc # "off" PROVE ClientGoes \/ ServerGoes
<1>1. CASE HasRoom(1, reqs)
  BY <1>1 DEF ClientGoes
<1>2. CASE ~HasRoom(1, reqs)
  <2>1. reqs # << >>
    BY <1>2, FullIsNotEmpty DEF IInv, TypeOK
  <2>2. RequestOnItsWay
    BY <2>1, WhereRequestIs
  <2>3. spc \in {"recv_header", "recv_data", "handle"}
    BY <2>2 DEF RequestOnItsWay, IInv, TypeOK, ServerStates
  <2> QED BY <2>1, <2>3 DEF ServerGoes
<1> QED BY <1>1, <1>2

LEMMA CalledGoes ==
  ASSUME IInv, Unfinished, cpc = "recv_header", ~executed, spc # "off"
  PROVE  ServerGoes
<1>1. RequestOnItsWay /\ cpend = << >>
  BY DEF IInv, Framing
<1>2. spc \in {"recv_header", "recv_data", "handle"}
  BY <1>1 DEF RequestOnItsWay, IInv, TypeOK, ServerStates
<1>3. CASE spc = "recv_header"
  <2>1. Len(reqs) >= HeaderLen
    BY <1>1, <1>3 DEF RequestOnItsWay
  <2>2. reqs # << >>
    BY <2>1, EmptySeq DEF HeaderLen
  <2> QED BY <1>3, <2>2 DEF ServerGoes
<1>4. CASE spc = "recv_data"
  <2>1. sreq.len = call.len /\ (sreq.data \o reqs) \o << >> = call.data
    BY <1>1, <1>4 DEF RequestOnItsWay
  <2>2. call.data \in Seq(Byte) /\ call.len = Len(call.data) /\ sreq.data \in Seq(Byte)
    <3>1. call \in Requests \cup Answers \cup {NullMessage} /\ sreq \in PartialMessage
      BY DEF IInv, TypeOK
    <3> QED BY <3>1, Messages DEF PartialMessage, IsMessage
  <2>3. Len(sreq.data) # sreq.len
    BY <1>4 DEF Unfinished, Complete
  <2>4. reqs # << >>
    <3> SUFFICES ASSUME reqs = << >> PROVE FALSE
      OBVIOUS
    <3>1. (sreq.data \o << >>) \o << >> = call.data
      BY <2>1
    <3>2. (sreq.data \o << >>) \o << >> = sreq.data
      BY <2>2, ConcatEmptySeq
    <3> QED BY <2>1, <2>2, <2>3, <3>1, <3>2
  <2> QED BY <1>4, <2>4 DEF ServerGoes
<1>5. CASE spc = "handle"
  BY <1>5 DEF ServerGoes
<1> QED BY <1>2, <1>3, <1>4, <1>5

LEMMA ExecutedGoes ==
  ASSUME IInv, Unfinished, executed PROVE ClientGoes \/ ServerGoes
<1>1. ResponseOnItsWay
  BY DEF IInv, Framing
<1>2. CASE spc = "send_header" /\ resps = << >>
  BY <1>2, EmptyHasRoom DEF ServerGoes
<1>3. CASE cpc = "recv_header" /\ Len(resps) >= HeaderLen
  <2>1. resps # << >>
    BY <1>3, EmptySeq DEF HeaderLen
  <2> QED BY <1>3, <2>1 DEF ClientGoes
<1>4. CASE /\ spc \in {"recv_header", "send_data"}
           /\ cpc = "recv_data" /\ res.len = sres.len
           /\ (res.data \o resps) \o spend = sres.data
  <2>1. CASE resps # << >>
    BY <1>4, <2>1 DEF ClientGoes
  <2>2. CASE resps = << >> /\ spend # << >>
    <3>1. spc = "send_data"
      BY <2>2 DEF IInv, Framing
    <3> QED BY <2>2, <3>1, EmptyHasRoom DEF ServerGoes
  <2>3. CASE resps = << >> /\ spend = << >>
    <3>1. sres.data \in Seq(Byte) /\ sres.len = Len(sres.data) /\ res.data \in Seq(Byte)
      <4>1. sres \in Requests \cup Answers \cup {NullMessage} /\ res \in PartialMessage
        BY DEF IInv, TypeOK
      <4> QED BY <4>1, Messages DEF PartialMessage, IsMessage
    <3>2. Len(res.data) # res.len
      BY <1>4 DEF Unfinished, Complete
    <3>3. (res.data \o << >>) \o << >> = sres.data
      BY <1>4, <2>3
    <3>4. (res.data \o << >>) \o << >> = res.data
      BY <3>1, ConcatEmptySeq
    <3> QED BY <1>4, <3>1, <3>2, <3>3, <3>4
  <2> QED BY <2>1, <2>2, <2>3
<1> QED BY <1>1, <1>2, <1>3, <1>4 DEF ResponseOnItsWay

\* In clean use the client and the VP never both wait for the other, whatever
\* the capacity of the pipes and however long a request and its response are.
THEOREM NobodyWaitsForEver == Clean => (Spec => []NeverBlocked)
<1> SUFFICES ASSUME Clean PROVE Spec => []NeverBlocked
  OBVIOUS
<1>1. Init => Unfinished
  BY DEF Init, Unfinished
<1>2. IInv /\ Unfinished /\ [Next]_vars => Unfinished'
  BY UnfinishedStep DEF IInv
<1>3. IInv /\ Unfinished => NeverBlocked
  <2> SUFFICES ASSUME IInv, Unfinished, cpc # "idle", spc # "off" \/ cpc = "waiting"
               PROVE  ClientGoes \/ ServerGoes
    BY DEF NeverBlocked
  <2>1. cpc \in {"waiting", "send_header", "send_data", "recv_header", "recv_data"}
    BY DEF IInv, TypeOK, ClientStates
  <2>2. cpc = "recv_data" => executed
    BY DEF IInv, Framing
  <2> QED BY <2>1, <2>2, WaitingGoes, SendHeaderGoes, SendDataGoes, CalledGoes, ExecutedGoes
<1>4. Spec => []IInv
  BY InvariantHolds
<1> QED BY <1>1, <1>2, <1>3, <1>4, PTL DEF Spec

-----------------------------------------------------------------------------
(***************************************************************************)
(* Nothing is done in vain.                                                *)
(***************************************************************************)
Advanced ==
  \/ cpc' = "idle"
  \/ ~executed /\ executed'
  \/ executed' = executed /\ ToGo' \in 0 .. ToGo - 1

\* Writing some of what is unsent, or reading some of what is unread, leaves
\* less to do.
LEMMA WorkShrinks ==
  ASSUME NEW p \in Seq(Byte), NEW s \in Seq(Byte)
  PROVE  /\ Work(p, s) \in Nat
         /\ \A n \in 1 .. Len(p) : /\ Work(Rest(n, p), s \o First(n, p)) \in Nat
                                  /\ Work(Rest(n, p), s \o First(n, p)) < Work(p, s)
         /\ \A n \in 1 .. Len(s) : /\ Work(p, Rest(n, s)) \in Nat
                                  /\ Work(p, Rest(n, s)) < Work(p, s)
<1>1. Len(p) \in Nat /\ Len(s) \in Nat
  BY LenProperties
<1>2. ASSUME NEW n \in 1 .. Len(p)
      PROVE  /\ Work(Rest(n, p), s \o First(n, p)) \in Nat
             /\ Work(Rest(n, p), s \o First(n, p)) < Work(p, s)
  <2>1. First(n, p) \in Seq(Byte) /\ Len(First(n, p)) = n /\ Len(Rest(n, p)) = Len(p) - n
    BY <1>1, Cut
  <2>2. Len(s \o First(n, p)) = Len(s) + n
    BY <2>1, ConcatProperties
  <2> QED BY <1>1, <2>1, <2>2 DEF Work
<1>3. ASSUME NEW n \in 1 .. Len(s)
      PROVE  /\ Work(p, Rest(n, s)) \in Nat
             /\ Work(p, Rest(n, s)) < Work(p, s)
  <2>1. Len(Rest(n, s)) = Len(s) - n
    BY <1>1, Cut
  <2> QED BY <1>1, <2>1 DEF Work
<1> QED BY <1>1, <1>2, <1>3 DEF Work

\* A read of a pipe that is not empty takes something.
LEMMA ReadTakes ==
  ASSUME NEW s \in Seq(Byte), s # << >>, NEW n \in Nat \ {0}
  PROVE  ReadSize(n, s) \in 1 .. Len(s)
<1>1. Len(s) \in Nat /\ Len(s) # 0
  BY EmptySeq, LenProperties
<1> QED BY <1>1 DEF ReadSize

LEMMA MissingSome ==
  ASSUME NEW m \in PartialMessage, Received(m), ~Complete(m)
  PROVE  Missing(m) \in Nat \ {0}
<1>1. m.len \in Nat /\ Len(m.data) \in Nat
  BY RadixPowers, LenProperties DEF PartialMessage, UInt32
<1> QED BY <1>1 DEF Received, Complete, Missing

\* What the work of a step that is no failure is compared with.
LEMMA WorkDecides ==
  ASSUME IInv, UNCHANGED <<faults, executed>>,
         executed => ResponseWork \in Nat /\ ResponseWork' \in Nat /\ ResponseWork' < ResponseWork,
         ~executed => RequestWork \in Nat /\ RequestWork' \in Nat /\ RequestWork' < RequestWork
  PROVE  Advanced
<1>1. MaxFaults - faults \in Nat
  BY PipeAssumption DEF IInv, TypeOK
<1>2. CASE executed
  <2>1. executed'
    BY <1>2
  <2> QED BY <1>1, <1>2, <2>1 DEF Advanced, ToGo
<1>3. CASE ~executed
  <2>1. ~executed'
    BY <1>3
  <2> QED BY <1>1, <1>3, <2>1 DEF Advanced, ToGo
<1> QED BY <1>2, <1>3

\* The writing of a header, which counts one more than its bytes.
LEMMA HeaderWork ==
  ASSUME NEW m, IsMessage(m)
  PROVE  /\ 1 + HeaderLen + Work(m.data, << >>) \in Nat
         /\ Work(m.data, << >> \o Header(m)) \in Nat
         /\ Work(m.data, << >> \o Header(m)) < 1 + HeaderLen + Work(m.data, << >>)
<1>1. Len(m.data) \in Nat /\ Len(<< >>) = 0
  BY EmptySeq, LenProperties DEF IsMessage
<1>2. Header(m) \in Seq(Byte) /\ Len(Header(m)) = HeaderLen
  BY HeaderIsBytes DEF IsMessage
<1>3. << >> \o Header(m) = Header(m)
  BY <1>2, ConcatEmptySeq
<1> DEFINE l == Len(m.data)
<1>4. Work(m.data, << >>) = 2 * l + 0
  BY <1>1 DEF Work
<1>5. Work(m.data, << >> \o Header(m)) = 2 * l + HeaderLen
  BY <1>2, <1>3 DEF Work
<1> HIDE DEF l
<1>6. l \in Nat
  BY <1>1 DEF l
<1> QED BY <1>4, <1>5, <1>6 DEF HeaderLen

LEMMA WriteRequestAdvances ==
  ASSUME IInv, WriteRequestHeader \/ WriteRequestData
  PROVE  Advanced
<1> USE DEF clientVars, serverVars, boundVars
<1>1. UNCHANGED <<faults, executed>>
  BY DEF WriteRequestHeader, WriteRequestData
<1>2. ~executed
  BY DEF IInv, Framing, ResponseOnItsWay, WriteRequestHeader, WriteRequestData
<1>3. CASE WriteRequestHeader
  <2>1. reqs = << >>
    BY <1>3 DEF WriteRequestHeader, IInv, Framing, NothingOnItsWay
  <2>2. IsMessage(call)
    BY Messages DEF IInv, TypeOK
  <2>3. RequestWork = 1 + HeaderLen + Work(call.data, << >>)
    BY <1>3 DEF RequestWork, WriteRequestHeader
  <2>4. cpc' # "send_header" /\ cpend' = call.data /\ reqs' = << >> \o Header(call)
    BY <1>3, <2>1 DEF WriteRequestHeader
  <2>5. RequestWork' = Work(call.data, << >> \o Header(call))
    BY <2>4 DEF RequestWork, Work
  <2> QED BY <1>1, <1>2, <2>2, <2>3, <2>5, HeaderWork, WorkDecides
<1>4. CASE WriteRequestData
  <2>1. PICK n \in 1 .. Len(cpend) :
          /\ reqs' = reqs \o First(n, cpend) /\ cpend' = Rest(n, cpend)
          /\ cpc' = IF n = Len(cpend) THEN "recv_header" ELSE "send_data"
    BY <1>4 DEF WriteRequestData
  <2>2. RequestWork = Work(cpend, reqs)
    BY <1>4 DEF RequestWork, WriteRequestData
  <2>3. RequestWork' = Work(Rest(n, cpend), reqs \o First(n, cpend))
    BY <2>1 DEF RequestWork, Work
  <2>4. cpend \in Seq(Byte) /\ reqs \in Seq(Byte)
    BY DEF IInv, TypeOK
  <2> QED BY <1>1, <1>2, <2>2, <2>3, <2>4, WorkShrinks, WorkDecides
<1> QED BY <1>3, <1>4

LEMMA ReadRequestAdvances ==
  ASSUME IInv, Unfinished, ReceiveHeader \/ ReceiveData
  PROVE  Advanced
<1> USE DEF clientVars, serverVars, boundVars
<1>1. UNCHANGED <<faults, executed, cpc, cpend>> /\ reqs # << >> /\ reqs \in Seq(Byte)
  BY DEF ReceiveHeader, ReceiveData, IInv, TypeOK
<1>2. ~executed /\ cpc # "send_header"
  BY <1>1, WhereRequestIs
<1>3. PICK n \in 1 .. Len(reqs) : reqs' = Rest(n, reqs)
  <2>1. CASE ReceiveHeader
    <3>1. HeaderLen \in Nat \ {0}
      BY DEF HeaderLen
    <3> QED BY <1>1, <2>1, <3>1, ReadTakes DEF ReceiveHeader
  <2>2. CASE ReceiveData
    <3>1. Missing(sreq) \in Nat \ {0}
      BY <2>2, MissingSome DEF ReceiveData, Unfinished, IInv, TypeOK
    <3> QED BY <1>1, <2>2, <3>1, ReadTakes DEF ReceiveData
  <2> QED BY <2>1, <2>2
<1>4. RequestWork = Work(cpend, reqs) /\ RequestWork' = Work(cpend, Rest(n, reqs))
  BY <1>1, <1>2, <1>3 DEF RequestWork, Work
<1>5. cpend \in Seq(Byte)
  BY DEF IInv, TypeOK
<1> QED BY <1>1, <1>2, <1>4, <1>5, WorkShrinks, WorkDecides

LEMMA WriteResponseAdvances ==
  ASSUME IInv, SendHeader \/ SendData, InCall
  PROVE  Advanced
<1> USE DEF clientVars, serverVars, boundVars
<1>1. UNCHANGED <<faults, executed>>
  BY DEF SendHeader, SendData
<1>2. executed
  <2>1. spc \in {"send_header", "send_data"}
    BY DEF SendHeader, SendData
  <2>2. cpc \in {"send_header", "send_data", "recv_header", "recv_data"}
    BY DEF InCall, IInv, TypeOK, ClientStates
  <2> QED BY <2>1, <2>2 DEF IInv, Framing, NothingOnItsWay, RequestOnItsWay
<1>3. CASE SendHeader
  <2>1. resps = << >>
    BY <1>2, <1>3 DEF SendHeader, IInv, Framing, ResponseOnItsWay
  <2>2. IsMessage(sres)
    BY Messages DEF IInv, TypeOK
  <2>3. ResponseWork = 1 + HeaderLen + Work(sres.data, << >>)
    BY <1>3 DEF ResponseWork, SendHeader
  <2>4. spc' # "send_header" /\ spend' = sres.data /\ resps' = << >> \o Header(sres)
    BY <1>3, <2>1 DEF SendHeader
  <2>5. ResponseWork' = Work(sres.data, << >> \o Header(sres))
    BY <2>4 DEF ResponseWork, Work
  <2> QED BY <1>1, <1>2, <2>2, <2>3, <2>5, HeaderWork, WorkDecides
<1>4. CASE SendData
  <2>1. PICK n \in 1 .. Len(spend) :
          /\ resps' = resps \o First(n, spend) /\ spend' = Rest(n, spend)
          /\ spc' = IF n = Len(spend) THEN "recv_header" ELSE "send_data"
    BY <1>4 DEF SendData
  <2>2. ResponseWork = Work(spend, resps)
    BY <1>4 DEF ResponseWork, SendData
  <2>3. ResponseWork' = Work(Rest(n, spend), resps \o First(n, spend))
    BY <2>1 DEF ResponseWork, Work
  <2>4. spend \in Seq(Byte) /\ resps \in Seq(Byte)
    BY DEF IInv, TypeOK
  <2> QED BY <1>1, <1>2, <2>2, <2>3, <2>4, WorkShrinks, WorkDecides
<1> QED BY <1>3, <1>4

LEMMA ReadResponseAdvances ==
  ASSUME IInv, Unfinished, ReadResponseHeader \/ ReadResponseData, InCall
  PROVE  Advanced
<1> USE DEF clientVars, serverVars, boundVars
<1>1. /\ UNCHANGED <<faults, spc, spend>> /\ resps # << >> /\ resps \in Seq(Byte)
      /\ cpc' = "idle" \/ executed' = executed
  BY DEF ReadResponseHeader, ReadResponseData, Return, IInv, TypeOK
<1>2. executed
  <2>1. cpc \in {"recv_header", "recv_data"}
    BY DEF ReadResponseHeader, ReadResponseData
  <2> QED BY <1>1, <2>1 DEF IInv, Framing, RequestOnItsWay
<1>3. spc # "send_header"
  BY <1>1, <1>2 DEF IInv, Framing, ResponseOnItsWay
<1>4. PICK n \in 1 .. Len(resps) : resps' = Rest(n, resps)
  <2>1. CASE ReadResponseHeader
    <3>1. HeaderLen \in Nat \ {0}
      BY DEF HeaderLen
    <3> QED BY <1>1, <2>1, <3>1, ReadTakes DEF ReadResponseHeader
  <2>2. CASE ReadResponseData
    <3>1. Missing(res) \in Nat \ {0}
      BY <2>2, MissingSome DEF ReadResponseData, Unfinished, IInv, TypeOK
    <3> QED BY <1>1, <2>2, <3>1, ReadTakes DEF ReadResponseData
  <2> QED BY <2>1, <2>2
<1>5. ResponseWork = Work(spend, resps) /\ ResponseWork' = Work(spend, Rest(n, resps))
  BY <1>1, <1>3, <1>4 DEF ResponseWork, Work
<1>6. spend \in Seq(Byte)
  BY DEF IInv, TypeOK
<1>7. CASE cpc' = "idle"
  BY <1>7 DEF Advanced
<1>8. CASE executed' = executed
  BY <1>1, <1>2, <1>5, <1>6, <1>8, WorkShrinks, WorkDecides
<1> QED BY <1>1, <1>7, <1>8

\* A read that fails leaves fewer that may.
LEMMA FailureAdvances ==
  ASSUME Clean, IInv, Failure, InCall
  PROVE  Advanced
<1>1. /\ UNCHANGED <<reqs, resps, cpc, call, cpend, res, outcome, spc, sreq, sres, spend,
                     executed>>
      /\ faults' = faults + 1
  BY FailureKeeps
<1> DEFINE w == IF executed THEN ResponseWork ELSE RequestWork
<1>2. w' = w
  BY <1>1 DEF ResponseWork, RequestWork, Work
<1>3. w \in Nat
  <2>1. IsMessage(call) /\ IsMessage(sres)
    BY Messages DEF IInv, TypeOK
  <2>2. /\ spend \in Seq(Byte) /\ resps \in Seq(Byte)
        /\ cpend \in Seq(Byte) /\ reqs \in Seq(Byte)
    BY DEF IInv, TypeOK
  <2> QED BY <2>1, <2>2, HeaderWork, WorkShrinks DEF ResponseWork, RequestWork
<1>4. ToGo = (MaxFaults - faults) + w /\ ToGo' = (MaxFaults - faults') + w'
  BY DEF ToGo
<1> HIDE DEF w
<1>5. faults \in Nat /\ faults' \in 0 .. MaxFaults /\ MaxFaults \in Nat
  <2>1. TypeOK'
    BY FailureTypes DEF IInv
  <2> QED BY <2>1, PipeAssumption DEF IInv, TypeOK
<1>6. ToGo' \in 0 .. ToGo - 1
  BY <1>1, <1>2, <1>3, <1>4, <1>5
<1> QED BY <1>1, <1>6 DEF Advanced

\* In clean use every step of a call ends it, executes it, or brings the end of
\* one of these two halves nearer, by a measure that is a natural number: with
\* NobodyWaitsForEver, a call has finitely many steps, and then has returned.
THEOREM EveryStepAdvances == Clean => (Spec => CallAdvances)
<1> SUFFICES ASSUME Clean PROVE Spec => CallAdvances
  OBVIOUS
<1>1. Init => Unfinished
  BY DEF Init, Unfinished
<1>2. IInv /\ Unfinished /\ [Next]_vars => Unfinished'
  BY UnfinishedStep DEF IInv
<1>3. IInv /\ Unfinished /\ [Next]_vars =>
        [InCall => \/ cpc' = "idle"
                   \/ ~executed /\ executed'
                   \/ executed' = executed /\ ToGo' \in 0 .. ToGo - 1]_vars
  <2> SUFFICES ASSUME IInv, Unfinished, Next, InCall PROVE Advanced
    BY DEF Advanced
  <2>1. cpc \notin {"waiting", "idle"}
    BY DEF InCall
  <2>2. CASE \/ (\E q \in Requests : SendRequest(q)) \/ ResetReady \/ CheckForReady
             \/ Start \/ VpExit
    BY <2>1, <2>2 DEF SendRequest, ResetReady, CheckForReady, Start, VpExit, Clean
  <2>3. CASE \E a \in Answers : HandleRequest(a)
    <3>1. spc = "handle" /\ executed'
      BY <2>3 DEF HandleRequest
    <3> QED BY <3>1, WhereRequestIsHandled DEF Advanced
  <2> QED BY <2>2, <2>3, WriteRequestAdvances, ReadRequestAdvances, WriteResponseAdvances,
             ReadResponseAdvances, FailureAdvances DEF Next, ClientStep, ServerStep
<1>4. Spec => []IInv
  BY InvariantHolds
<1> QED BY <1>1, <1>2, <1>3, <1>4, PTL DEF Spec, CallAdvances

=============================================================================
