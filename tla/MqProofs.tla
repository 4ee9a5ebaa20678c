------------------------------ MODULE MqProofs ------------------------------
(***************************************************************************)
(* Theorems about module Mq, for all numbers of clients and VPs, sizes of  *)
(* the queues, requests and answers.                                       *)
(***************************************************************************)
EXTENDS Mq, FiniteSetTheorems, SequenceTheorems, TLAPS

-----------------------------------------------------------------------------
(***************************************************************************)
(* Messages of one kind in a queue: none, or exactly one.                  *)
(***************************************************************************)
Nowhere(s, M) == \A i \in 1 .. Len(s) : s[i] \notin M

Once(s, M) ==
    \E i \in 1 .. Len(s) : s[i] \in M /\ \A j \in 1 .. Len(s) : s[j] \in M => j = i

\* A message is sent.
LEMMA Appended ==
  ASSUME NEW E, NEW s \in Seq(E), NEW e \in E, NEW M
  PROVE  /\ Append(s, e) \in Seq(E) /\ Len(Append(s, e)) = Len(s) + 1
         /\ \A i \in 1 .. Len(s) : Append(s, e)[i] = s[i]
         /\ Append(s, e)[Len(s) + 1] = e
         /\ Nowhere(s, M) /\ e \notin M => Nowhere(Append(s, e), M)
         /\ Nowhere(s, M) /\ e \in M => Once(Append(s, e), M)
         /\ Once(s, M) /\ e \notin M => Once(Append(s, e), M)
<1> DEFINE t == Append(s, e)
<1>1. /\ t \in Seq(E) /\ Len(t) = Len(s) + 1 /\ Len(s) \in Nat
      /\ \A i \in 1 .. Len(s) : t[i] = s[i]
      /\ t[Len(s) + 1] = e
  BY AppendProperties, LenProperties
<1> HIDE DEF t
<1>2. Nowhere(s, M) /\ e \notin M => Nowhere(t, M)
  BY <1>1 DEF Nowhere
<1>3. Nowhere(s, M) /\ e \in M => Once(t, M)
  <2> SUFFICES ASSUME Nowhere(s, M), e \in M PROVE Once(t, M)
    OBVIOUS
  <2>1. Len(s) + 1 \in 1 .. Len(t) /\ t[Len(s) + 1] \in M
    BY <1>1
  <2>2. \A j \in 1 .. Len(t) : t[j] \in M => j = Len(s) + 1
    BY <1>1 DEF Nowhere
  <2> QED BY <2>1, <2>2 DEF Once
<1>4. Once(s, M) /\ e \notin M => Once(t, M)
  <2> SUFFICES ASSUME Once(s, M), e \notin M PROVE Once(t, M)
    OBVIOUS
  <2>1. PICK i \in 1 .. Len(s) : s[i] \in M /\ \A j \in 1 .. Len(s) : s[j] \in M => j = i
    BY DEF Once
  <2>2. i \in 1 .. Len(t) /\ t[i] \in M /\ \A j \in 1 .. Len(t) : t[j] \in M => j = i
    BY <1>1, <2>1
  <2> QED BY <2>2 DEF Once
<1> QED BY <1>1, <1>2, <1>3, <1>4 DEF t

\* The first message is received.
LEMMA Taken ==
  ASSUME NEW E, NEW s \in Seq(E), s # << >>, NEW M
  PROVE  /\ Head(s) \in E /\ Tail(s) \in Seq(E) /\ Len(Tail(s)) = Len(s) - 1
         /\ Len(s) \in Nat \ {0} /\ Head(s) = s[1]
         /\ \A i \in 1 .. Len(s) - 1 : Tail(s)[i] = s[i + 1]
         /\ Nowhere(s, M) => Head(s) \notin M /\ Nowhere(Tail(s), M)
         /\ Once(s, M) /\ Head(s) \in M => Nowhere(Tail(s), M)
         /\ Once(s, M) /\ Head(s) \notin M => Once(Tail(s), M)
<1> DEFINE t == Tail(s)
           h == Head(s)
<1>1. /\ h \in E /\ h = s[1] /\ t \in Seq(E)
      /\ Len(s) \in Nat \ {0} /\ Len(t) = Len(s) - 1
      /\ \A i \in 1 .. Len(t) : t[i] = s[i + 1]
  BY HeadTailProperties, EmptySeq
<1> HIDE DEF t, h
<1>2. Nowhere(s, M) => h \notin M /\ Nowhere(t, M)
  BY <1>1 DEF Nowhere
<1>3. Once(s, M) /\ h \in M => Nowhere(t, M)
  BY <1>1 DEF Once, Nowhere
<1>4. Once(s, M) /\ h \notin M => Once(t, M)
  <2> SUFFICES ASSUME Once(s, M), h \notin M PROVE Once(t, M)
    OBVIOUS
  <2>1. PICK i \in 1 .. Len(s) : s[i] \in M /\ \A j \in 1 .. Len(s) : s[j] \in M => j = i
    BY DEF Once
  <2>2. i - 1 \in 1 .. Len(t) /\ t[i - 1] = s[i]
    BY <1>1, <2>1
  <2>3. \A j \in 1 .. Len(t) : t[j] \in M => j = i - 1
    BY <1>1, <2>1
  <2> QED BY <2>1, <2>2, <2>3 DEF Once
<1> QED BY <1>1, <1>2, <1>3, <1>4 DEF t, h

-----------------------------------------------------------------------------
(***************************************************************************)
(* The inductive invariant.  A VP has one ready message, so at most one    *)
(* client ever meets it; only who has met a VP calls it; and a client does *)
(* one call at a time.  So all that is under way about a VP is one call,   *)
(* and that is in exactly one of six places.                               *)
(***************************************************************************)
To(v) == [pid : {v}, body : Requests]
From(v) == [pid : {v}, body : Answers]
Greeting(v) == {Envelope(v, Ready)}

\* No request to v, or only the request q; and the same for its response.
NoRequest(v) == Nowhere(requests, To(v))
OneRequest(v, q) == Once(requests, To(v)) /\ Nowhere(requests, To(v) \ {Envelope(v, q)})
NoResponse(v) == Nowhere(responses, From(v))
OneResponse(v) == Once(responses, From(v)) /\ Nowhere(responses, From(v) \ {Envelope(v, sres[v])})

Holds(w, v) == spc[w] = "put_back" /\ held[w].pid = v
NoHolder(v) == \A w \in Vps : ~Holds(w, v)
OneHolder(v, q) ==
    \E w \in Vps : /\ Holds(w, v) /\ held[w] = Envelope(v, q)
                   /\ \A x \in Vps : Holds(x, v) => x = w

Busy(v) == spc[v] \in {"handle", "send"}

Unused(v) == NoRequest(v) /\ NoHolder(v) /\ ~Busy(v) /\ NoResponse(v) /\ v \notin executed

Queued(v, q) ==
    OneRequest(v, q) /\ NoHolder(v) /\ ~Busy(v) /\ NoResponse(v) /\ v \notin executed
InTransit(v, q) ==
    NoRequest(v) /\ OneHolder(v, q) /\ ~Busy(v) /\ NoResponse(v) /\ v \notin executed
Handling(v, q) ==
    /\ NoRequest(v) /\ NoHolder(v) /\ NoResponse(v) /\ v \notin executed
    /\ spc[v] = "handle" /\ sreq[v] = q
Answering(v, q) ==
    /\ NoRequest(v) /\ NoHolder(v) /\ NoResponse(v) /\ v \in executed
    /\ spc[v] = "send" /\ sreq[v] = q
Answered(v, q) ==
    /\ NoRequest(v) /\ NoHolder(v) /\ OneResponse(v) /\ v \in executed
    /\ ~Busy(v) /\ sreq[v] = q
Lost(v, q) ==
    /\ NoRequest(v) /\ NoHolder(v) /\ NoResponse(v) /\ v \in executed
    /\ ~Busy(v) /\ sreq[v] = q

InCall(v, q) ==
    \/ Queued(v, q) \/ InTransit(v, q) \/ Handling(v, q)
    \/ Answering(v, q) \/ Answered(v, q) \/ Lost(v, q)

Calls(c, v) == Waiting(c) /\ receiver[c] = v

\* Who has met whom.
Meetings ==
    /\ \A c \in Clients : cpc[c] \in {"send", "recv"} =>
          receiver[c] \in met[c] /\ call[c] \in Requests /\ Fits(call[c])
    /\ \A c, d \in Clients, v \in Vps : v \in met[c] /\ v \in met[d] => c = d
    /\ \A v \in Vps : Nowhere(responses, Greeting(v)) \/ Once(responses, Greeting(v))
    /\ \A v \in Vps : spc[v] = "off" => Nowhere(responses, Greeting(v))
    /\ \A v \in Vps, c \in Clients : v \in met[c] =>
          spc[v] # "off" /\ Nowhere(responses, Greeting(v))

\* What the VPs have in their hands.
Hands ==
    \A v \in Vps :
        /\ spc[v] = "put_back" => held[v] \in Envelopes(Requests) /\ Fits(held[v].body)
        /\ spc[v] = "send" => sres[v] \in Answers

Sessions ==
    /\ \A v \in Vps : (\A c \in Clients : ~Calls(c, v)) => Unused(v)
    /\ \A c \in Clients, v \in Vps, q \in Requests :
          Calls(c, v) /\ call[c] = q => InCall(v, q)

IInv == TypeOK /\ Meetings /\ Hands /\ Sessions

\* A VP is called by at most one client, which has met it.
LEMMA OneCaller ==
  ASSUME Meetings, NEW c \in Clients, NEW d \in Clients, NEW v \in Vps, v \in met[c]
  PROVE  cpc[d] \in {"send", "recv"} /\ receiver[d] = v => d = c
BY DEF Meetings

\* What a step leaves alone of a VP and a call of it.
Undisturbed(v) ==
    /\ NoRequest(v) => NoRequest(v)'
    /\ \A q \in Requests : OneRequest(v, q) => OneRequest(v, q)'
    /\ NoResponse(v) => NoResponse(v)'
    /\ OneResponse(v) => OneResponse(v)'
    /\ NoHolder(v) => NoHolder(v)'
    /\ \A q \in Requests : OneHolder(v, q) => OneHolder(v, q)'
    /\ spc'[v] = spc[v] \/ (~Busy(v) /\ ~Busy(v)')
    /\ sreq'[v] = sreq[v]
    /\ (v \in executed)' <=> v \in executed

\* A call of a VP that a step leaves alone stays where it is.
LEMMA Frame ==
  ASSUME NEW v \in Vps, NEW q \in Requests, Undisturbed(v), InCall(v, q)
  PROVE  InCall(v, q)'
<1> USE DEF Undisturbed, InCall
<1>2. Queued(v, q) => Queued(v, q)'
  BY DEF Queued, Busy
<1>3. InTransit(v, q) => InTransit(v, q)'
  BY DEF InTransit, Busy
<1>4. Handling(v, q) => Handling(v, q)'
  BY DEF Handling, Busy
<1>5. Answering(v, q) => Answering(v, q)'
  BY DEF Answering, Busy
<1>6. Answered(v, q) => Answered(v, q)'
  BY DEF Answered, Busy
<1>7. Lost(v, q) => Lost(v, q)'
  BY DEF Lost, Busy
<1> QED BY <1>2, <1>3, <1>4, <1>5, <1>6, <1>7

\* It is enough to look at the one VP p that a step is about.
LEMMA SessionsKept ==
  ASSUME Sessions, NEW p,
         \A v \in Vps : v # p => Undisturbed(v),
         \A c \in Clients, v \in Vps : v # p =>
            /\ Calls(c, v)' <=> Calls(c, v)
            /\ Calls(c, v) => call'[c] = call[c],
         p \in Vps =>
            /\ (\A c \in Clients : ~Calls(c, p)') => Unused(p)'
            /\ \A c \in Clients, q \in Requests : Calls(c, p)' /\ call'[c] = q => InCall(p, q)'
  PROVE  Sessions'
<1>1. ASSUME NEW v \in Vps, \A c \in Clients : ~Calls(c, v)' PROVE Unused(v)'
  <2>1. CASE v = p
    BY <1>1, <2>1
  <2>2. CASE v # p
    <3>1. Unused(v)
      BY <1>1, <2>2 DEF Sessions
    <3> QED BY <2>2, <3>1 DEF Undisturbed, Unused, Busy
  <2> QED BY <2>1, <2>2
<1>2. ASSUME NEW c \in Clients, NEW v \in Vps, NEW q \in Requests, Calls(c, v)', call'[c] = q
      PROVE  InCall(v, q)'
  <2>1. CASE v = p
    BY <1>2, <2>1
  <2>2. CASE v # p
    <3>1. Calls(c, v) /\ call[c] = q
      BY <1>2, <2>2
    <3>2. InCall(v, q)
      BY <3>1 DEF Sessions
    <3> QED BY <2>2, <3>2, Frame
  <2> QED BY <2>1, <2>2
<1> QED BY <1>1, <1>2 DEF Sessions

\* A step that is about no VP keeps it all.
LEMMA SessionsUntouched ==
  ASSUME Sessions, \A v \in Vps : Undisturbed(v),
         \A c \in Clients, v \in Vps : /\ Calls(c, v)' <=> Calls(c, v)
                                       /\ Calls(c, v) => call'[c] = call[c]
  PROVE  Sessions'
BY SessionsKept, MqAssumption

-----------------------------------------------------------------------------
(***************************************************************************)
(* What taking and adding a message does to the invariant.                 *)
(***************************************************************************)
\* mq_receive of a VP: a message about v was the only one about v.
LEMMA RequestTaken ==
  ASSUME TypeOK, requests # << >>, requests' = Tail(requests), NEW v \in Vps
  PROVE  /\ Head(requests) \in Envelopes(Requests) /\ Fits(Head(requests).body)
         /\ requests' \in Seq(Envelopes(Requests)) /\ Len(requests') < Len(requests)
         /\ Len(requests') \in Nat
         /\ \A i \in 1 .. Len(requests') : Fits(requests'[i].body)
         /\ Head(requests).pid # v =>
               /\ NoRequest(v) => NoRequest(v)'
               /\ \A q \in Requests : OneRequest(v, q) => OneRequest(v, q)'
         /\ Head(requests).pid = v =>
               /\ ~NoRequest(v)
               /\ \A q \in Requests : OneRequest(v, q) =>
                     NoRequest(v)' /\ Head(requests) = Envelope(v, q)
<1> DEFINE m == Head(requests)
<1>1. requests \in Seq(Envelopes(Requests)) /\ requests # << >>
  BY DEF TypeOK
<1>2. /\ m \in Envelopes(Requests) /\ m = requests[1]
      /\ requests' \in Seq(Envelopes(Requests)) /\ Len(requests') = Len(requests) - 1
      /\ Len(requests) \in Nat \ {0}
      /\ \A i \in 1 .. Len(requests) - 1 : requests'[i] = requests[i + 1]
  BY <1>1, Taken
<1>3. \A M : /\ Nowhere(requests, M) => m \notin M /\ Nowhere(requests', M)
             /\ Once(requests, M) /\ m \in M => Nowhere(requests', M)
             /\ Once(requests, M) /\ m \notin M => Once(requests', M)
  BY <1>1, Taken
<1>4. Fits(m.body) /\ \A i \in 1 .. Len(requests') : Fits(requests'[i].body)
  BY <1>2 DEF TypeOK
<1>5. m.pid # v => m \notin To(v)
  BY DEF To
<1>6. m.pid = v => m \in To(v) /\ \A q \in Requests : m \notin To(v) \ {Envelope(v, q)} => m = Envelope(v, q)
  BY <1>2 DEF To, Envelopes, Envelope
<1> HIDE DEF m
<1>7. m.pid # v => /\ NoRequest(v) => NoRequest(v)'
                   /\ \A q \in Requests : OneRequest(v, q) => OneRequest(v, q)'
  BY <1>3, <1>5 DEF NoRequest, OneRequest
<1>8. m.pid = v => /\ ~NoRequest(v)
                   /\ \A q \in Requests : OneRequest(v, q) => NoRequest(v)' /\ m = Envelope(v, q)
  BY <1>3, <1>6 DEF NoRequest, OneRequest
<1> QED BY <1>2, <1>4, <1>7, <1>8 DEF m

\* mq_send of a client, or of a VP that puts a request back.
LEMMA RequestAdded ==
  ASSUME TypeOK, NEW e \in Envelopes(Requests), Fits(e.body), HasRoom(requests),
         requests' = Append(requests, e), NEW v \in Vps
  PROVE  /\ requests' \in Seq(Envelopes(Requests)) /\ Len(requests') <= MaxMsg
         /\ \A i \in 1 .. Len(requests') : Fits(requests'[i].body)
         /\ e.pid # v =>
               /\ NoRequest(v) => NoRequest(v)'
               /\ \A q \in Requests : OneRequest(v, q) => OneRequest(v, q)'
         /\ \A q \in Requests : e = Envelope(v, q) /\ NoRequest(v) => OneRequest(v, q)'
<1>1. requests \in Seq(Envelopes(Requests)) /\ Len(requests) \in Nat
  BY LenProperties DEF TypeOK
<1>2. /\ requests' \in Seq(Envelopes(Requests)) /\ Len(requests') = Len(requests) + 1
      /\ \A i \in 1 .. Len(requests) : requests'[i] = requests[i]
      /\ requests'[Len(requests) + 1] = e
  BY <1>1, Appended
<1>3. \A M : /\ Nowhere(requests, M) /\ e \notin M => Nowhere(requests', M)
             /\ Nowhere(requests, M) /\ e \in M => Once(requests', M)
             /\ Once(requests, M) /\ e \notin M => Once(requests', M)
  BY <1>1, Appended
<1>4. Len(requests') <= MaxMsg
  BY <1>1, <1>2, MqAssumption DEF HasRoom
<1>5. ASSUME NEW i \in 1 .. Len(requests') PROVE Fits(requests'[i].body)
  <2>1. CASE i = Len(requests) + 1
    BY <1>2, <2>1
  <2>2. CASE i # Len(requests) + 1
    <3>1. i \in 1 .. Len(requests) /\ requests'[i] = requests[i]
      BY <1>1, <1>2, <2>2
    <3> QED BY <3>1 DEF TypeOK
  <2> QED BY <2>1, <2>2
<1>6. e.pid # v => e \notin To(v)
  BY DEF To
<1>7. \A q \in Requests : e = Envelope(v, q) => e \in To(v)
  BY DEF To, Envelope
<1>8. NoRequest(v) => \A q : Nowhere(requests, To(v) \ {Envelope(v, q)})
  BY DEF NoRequest, Nowhere
<1>9. e.pid # v => /\ NoRequest(v) => NoRequest(v)'
                   /\ \A q \in Requests : OneRequest(v, q) => OneRequest(v, q)'
  BY <1>3, <1>6 DEF NoRequest, OneRequest
<1>10. \A q \in Requests : e = Envelope(v, q) /\ NoRequest(v) => OneRequest(v, q)'
  BY <1>3, <1>7, <1>8 DEF NoRequest, OneRequest
<1> QED BY <1>2, <1>4, <1>5, <1>9, <1>10

\* mq_receive of a client: ready messages and responses are told apart.
LEMMA ResponseTaken ==
  ASSUME TypeOK, responses # << >>, responses' = Tail(responses), NEW v \in Vps
  PROVE  /\ Head(responses) \in Envelopes(Answers \cup {Ready})
         /\ Head(responses).pid = v =>
               Head(responses) \in From(v) \/ Head(responses) \in Greeting(v)
         /\ responses' \in Seq(Envelopes(Answers \cup {Ready})) /\ Len(responses') <= MaxMsg
         /\ Head(responses) \notin From(v) =>
               /\ NoResponse(v) => NoResponse(v)'
               /\ OneResponse(v) /\ sres'[v] = sres[v] => OneResponse(v)'
         /\ Head(responses) \in From(v) =>
               /\ ~NoResponse(v)
               /\ OneResponse(v) => NoResponse(v)' /\ Head(responses) = Envelope(v, sres[v])
         /\ Nowhere(responses, Greeting(v)) =>
               Head(responses) \notin Greeting(v) /\ Nowhere(responses', Greeting(v))
         /\ Once(responses, Greeting(v)) =>
               IF Head(responses) \in Greeting(v) THEN Nowhere(responses', Greeting(v))
                                                  ELSE Once(responses', Greeting(v))
<1> DEFINE m == Head(responses)
           E == Envelopes(Answers \cup {Ready})
<1>1. responses \in Seq(E) /\ responses # << >> /\ Len(responses) <= MaxMsg
  BY DEF TypeOK
<1>2. /\ m \in E /\ responses' \in Seq(E) /\ Len(responses') = Len(responses) - 1
      /\ Len(responses) \in Nat \ {0}
  BY <1>1, Taken
<1>3. \A M : /\ Nowhere(responses, M) => m \notin M /\ Nowhere(responses', M)
             /\ Once(responses, M) /\ m \in M => Nowhere(responses', M)
             /\ Once(responses, M) /\ m \notin M => Once(responses', M)
  BY <1>1, Taken
<1>4. Len(responses') <= MaxMsg
  BY <1>1, <1>2, MqAssumption
<1>5. m.pid = v => m \in From(v) \/ m \in Greeting(v)
  BY <1>2 DEF From, Greeting, Envelopes, Envelope
<1> HIDE DEF m
<1>6. m \notin From(v) => /\ NoResponse(v) => NoResponse(v)'
                          /\ OneResponse(v) /\ sres'[v] = sres[v] => OneResponse(v)'
  BY <1>3 DEF NoResponse, OneResponse
<1>7. m \in From(v) => /\ ~NoResponse(v)
                       /\ OneResponse(v) => NoResponse(v)' /\ m = Envelope(v, sres[v])
  BY <1>3 DEF NoResponse, OneResponse
<1> QED BY <1>2, <1>3, <1>4, <1>5, <1>6, <1>7 DEF m

\* mq_send of a VP's ready message or response.
LEMMA ResponseAdded ==
  ASSUME TypeOK, NEW e \in Envelopes(Answers \cup {Ready}), HasRoom(responses),
         responses' = Append(responses, e), UNCHANGED sres, NEW v \in Vps
  PROVE  /\ responses' \in Seq(Envelopes(Answers \cup {Ready})) /\ Len(responses') <= MaxMsg
         /\ e \notin From(v) => /\ NoResponse(v) => NoResponse(v)'
                                /\ OneResponse(v) => OneResponse(v)'
         /\ e = Envelope(v, sres[v]) /\ sres[v] \in Answers /\ NoResponse(v) => OneResponse(v)'
         /\ e \notin Greeting(v) =>
               /\ Nowhere(responses, Greeting(v)) => Nowhere(responses', Greeting(v))
               /\ Once(responses, Greeting(v)) => Once(responses', Greeting(v))
         /\ e \in Greeting(v) /\ Nowhere(responses, Greeting(v)) => Once(responses', Greeting(v))
<1> DEFINE E == Envelopes(Answers \cup {Ready})
<1>1. responses \in Seq(E) /\ Len(responses) \in Nat
  BY LenProperties DEF TypeOK
<1>2. responses' \in Seq(E) /\ Len(responses') = Len(responses) + 1
  BY <1>1, Appended
<1>3. \A M : /\ Nowhere(responses, M) /\ e \notin M => Nowhere(responses', M)
             /\ Nowhere(responses, M) /\ e \in M => Once(responses', M)
             /\ Once(responses, M) /\ e \notin M => Once(responses', M)
  BY <1>1, Appended
<1>4. Len(responses') <= MaxMsg
  BY <1>1, <1>2, MqAssumption DEF HasRoom
<1>5. e \notin From(v) => /\ NoResponse(v) => NoResponse(v)'
                          /\ OneResponse(v) => OneResponse(v)'
  BY <1>3 DEF NoResponse, OneResponse
<1>6. NoResponse(v) => Nowhere(responses, From(v) \ {Envelope(v, sres[v])})
  BY DEF NoResponse, Nowhere
<1>7. sres[v] \in Answers => Envelope(v, sres[v]) \in From(v)
  BY DEF From, Envelope
<1>8. e = Envelope(v, sres[v]) /\ sres[v] \in Answers /\ NoResponse(v) => OneResponse(v)'
  BY <1>3, <1>6, <1>7 DEF NoResponse, OneResponse
<1> QED BY <1>2, <1>3, <1>4, <1>5, <1>8

-----------------------------------------------------------------------------
(***************************************************************************)
(* The steps keep the invariant: first the user's and the client's.        *)
(***************************************************************************)
\* Before any process starts the queues are empty and no VP is called.
LEMMA InitIInv == Init => IInv
<1> SUFFICES ASSUME Init PROVE IInv
  OBVIOUS
<1>1. TypeOK
  BY MqAssumption
     DEF Init, TypeOK, ClientStates, ServerStates, Envelopes, Envelope, NullMessage
<1>2. Len(requests) = 0 /\ Len(responses) = 0
  BY DEF Init
<1>3. Meetings
  BY <1>2 DEF Init, Meetings, Nowhere
<1>4. Hands
  BY DEF Init, Hands
<1>5. Sessions
  BY <1>2 DEF Init, Sessions, Unused, NoRequest, NoResponse, NoHolder, Holds, Busy, Nowhere,
              Calls, Waiting
<1> QED BY <1>1, <1>3, <1>4, <1>5 DEF IInv

\* A step that changes neither a queue nor a VP disturbs none.
LEMMA Untouched ==
  ASSUME UNCHANGED <<requests, responses, spc, held, sreq, sres, executed>>, NEW v \in Vps
  PROVE  Undisturbed(v)
BY DEF Undisturbed, NoRequest, OneRequest, NoResponse, OneResponse, NoHolder, OneHolder, Holds,
       Busy

\* The user chooses a VP, asks whether it is ready, or calls send_request.
LEMMA UserIInv ==
  ASSUME Patient, IInv, NEW c \in Clients, UserStep(c)
  PROVE  IInv'
<1> USE DEF queueVars, clientVars, serverVars
<1>1. /\ UNCHANGED <<requests, responses, met, res, spc, held, sreq, sres, executed, gone>>
      /\ cpc[c] = "idle"
      /\ cpc' \in [Clients -> ClientStates] /\ cpc'[c] \in {"idle", "ready", "send"}
      /\ \A d \in Clients : d # c => cpc'[d] = cpc[d] /\ receiver'[d] = receiver[d]
                                     /\ call'[d] = call[d]
      /\ receiver' \in [Clients -> Vps \cup {Broadcast}]
      /\ started' \in [Clients -> BOOLEAN]
      /\ call' \in [Clients -> Requests \cup {NullMessage}]
      /\ outcome' \in [Clients -> {"none", "ok", "failed"}]
      /\ cpc'[c] = "send" =>
            receiver'[c] \in met[c] /\ call'[c] \in Requests /\ Fits(call'[c])
  <2>1. CASE \E pid \in Receivers[c] : SetReceiver(c, pid)
    <3>1. PICK pid \in Receivers[c] : SetReceiver(c, pid)
      BY <2>1
    <3>2. pid \in Vps \cup {Broadcast}
      BY MqAssumption
    <3> QED BY <3>1, <3>2 DEF UserStep, SetReceiver, IInv, TypeOK, ClientStates
  <2>2. CASE ResetReady(c)
    BY <2>2 DEF UserStep, ResetReady, IInv, TypeOK, ClientStates
  <2>3. CASE CheckForReady(c)
    BY <2>3 DEF UserStep, CheckForReady, IInv, TypeOK, ClientStates
  <2>4. CASE \E q \in Requests : SendRequest(c, q)
    BY <2>4 DEF UserStep, SendRequest, IInv, TypeOK, ClientStates
  <2> QED BY <2>1, <2>2, <2>3, <2>4 DEF UserStep
<1>2. TypeOK'
  BY <1>1 DEF IInv, TypeOK
<1>3. Meetings'
  BY <1>1 DEF IInv, Meetings
<1>4. Hands'
  BY <1>1 DEF IInv, Hands
<1>5. Sessions'
  <2>1. \A v \in Vps : Undisturbed(v)
    BY <1>1, Untouched
  <2>2. \A d \in Clients : /\ cpc'[d] = "recv" <=> cpc[d] = "recv"
                           /\ cpc[d] = "recv" => receiver'[d] = receiver[d] /\ call'[d] = call[d]
    BY <1>1
  <2> QED BY <2>1, <2>2, SessionsUntouched DEF IInv, Calls, Waiting
<1> QED BY <1>2, <1>3, <1>4, <1>5 DEF IInv

\* A message is taken by a client whose call it is not about: a ready message,
\* or the response to another client, which is lost.
LEMMA ForeignTaken ==
  ASSUME IInv, responses # << >>, responses' = Tail(responses),
         UNCHANGED <<requests, spc, held, sreq, sres, executed, receiver, call>>,
         \A c \in Clients : Waiting(c)' <=> Waiting(c)
  PROVE  Sessions'
<1>1. PICK m \in Envelopes(Answers \cup {Ready}) : m = Head(responses)
  BY ResponseTaken, HeadTailProperties DEF IInv, TypeOK
<1>2. PICK p \in Vps : p = m.pid
  BY DEF Envelopes
<1>3. ASSUME NEW v \in Vps
      PROVE  /\ m \notin From(v) => /\ NoResponse(v) => NoResponse(v)'
                                    /\ OneResponse(v) => OneResponse(v)'
             /\ m \in From(v) => ~NoResponse(v) /\ (OneResponse(v) => NoResponse(v)')
  BY <1>1, ResponseTaken DEF IInv
<1>4. ASSUME NEW v \in Vps, m \notin From(v)
      PROVE  Undisturbed(v)
  BY <1>3, <1>4 DEF Undisturbed, NoRequest, OneRequest, NoHolder, OneHolder, Holds, Busy
<1>5. \A v \in Vps : v # p => m \notin From(v)
  BY <1>2 DEF From
<1>6. CASE m \notin From(p)
  <2>1. \A v \in Vps : m \notin From(v)
    BY <1>5, <1>6
  <2> QED BY <1>4, <2>1, SessionsUntouched DEF IInv, Calls, Waiting
<1>7. CASE m \in From(p)
  <2>1. ASSUME \A c \in Clients : ~Calls(c, p)'
        PROVE  Unused(p)'
    <3>1. \A c \in Clients : ~Calls(c, p)
      BY <2>1 DEF Calls, Waiting
    <3>2. Unused(p)
      BY <3>1 DEF IInv, Sessions
    <3> QED BY <1>3, <1>7, <3>2 DEF Unused
  <2>2. ASSUME NEW c \in Clients, NEW q \in Requests, Calls(c, p)', call'[c] = q
        PROVE  InCall(p, q)'
    <3>1. InCall(p, q)
      BY <2>2 DEF IInv, Sessions, Calls, Waiting
    <3>2. Answered(p, q) /\ NoResponse(p)'
      BY <1>3, <1>7, <3>1 DEF InCall, Queued, InTransit, Handling, Answering, Answered, Lost
    <3>3. Lost(p, q)'
      BY <3>2 DEF Answered, Lost, NoRequest, NoHolder, Holds, Busy
    <3> QED BY <3>3 DEF InCall
  <2>3. \A v \in Vps : v # p => Undisturbed(v)
    BY <1>4, <1>5
  <2> QED BY <2>1, <2>2, <2>3, SessionsKept DEF IInv, Calls, Waiting
<1> QED BY <1>6, <1>7

\* check_for_ready: the ready message is received by one client, which has then
\* met the VP; any other message of the queue is lost.
LEMMA ReceiveReadyIInv ==
  ASSUME IInv, NEW c \in Clients, ReceiveReady(c), UNCHANGED gone
  PROVE  IInv'
<1>1. /\ responses # << >> /\ responses' = Tail(responses)
      /\ UNCHANGED <<requests, receiver, call, res, outcome, spc, held, sreq, sres, executed, gone>>
      /\ cpc[c] = "ready" /\ cpc' = [cpc EXCEPT ![c] = "idle"]
      /\ started' \in [Clients -> BOOLEAN]
      /\ \/ met' = met
         \/ /\ met' = [met EXCEPT ![c] = @ \cup {Head(responses).pid}]
            /\ Head(responses).body = Ready
  BY DEF ReceiveReady, PutBackResponse, serverVars, IInv, TypeOK
<1>2. PICK m \in Envelopes(Answers \cup {Ready}) : m = Head(responses)
  BY <1>1, ResponseTaken, HeadTailProperties DEF IInv, TypeOK
<1>3. PICK p \in Vps : p = m.pid
  BY DEF Envelopes
<1>4. /\ responses' \in Seq(Envelopes(Answers \cup {Ready})) /\ Len(responses') <= MaxMsg
  BY <1>1, <1>3, ResponseTaken DEF IInv
<1>5. met' \in [Clients -> SUBSET Vps]
  BY <1>1, <1>2, <1>3 DEF IInv, TypeOK
<1>6. TypeOK'
  BY <1>1, <1>4, <1>5 DEF IInv, TypeOK, ClientStates
<1>7. ASSUME NEW v \in Vps
      PROVE  /\ Nowhere(responses, Greeting(v)) =>
                  m \notin Greeting(v) /\ Nowhere(responses, Greeting(v))'
             /\ m \in Greeting(v) => Nowhere(responses, Greeting(v))'
             /\ Nowhere(responses, Greeting(v))' \/ Once(responses, Greeting(v))'
  <2>1. Nowhere(responses, Greeting(v)) \/ Once(responses, Greeting(v))
    BY DEF IInv, Meetings
  <2>2. Greeting(v)' = Greeting(v)
    BY DEF Greeting, Envelope
  <2>3. /\ Nowhere(responses, Greeting(v)) =>
              m \notin Greeting(v) /\ Nowhere(responses', Greeting(v))
        /\ Once(responses, Greeting(v)) =>
              IF m \in Greeting(v) THEN Nowhere(responses', Greeting(v))
                                   ELSE Once(responses', Greeting(v))
    BY <1>1, <1>2, ResponseTaken DEF IInv
  <2> QED BY <2>1, <2>2, <2>3 DEF Nowhere, Once
<1>8. ASSUME NEW d \in Clients, NEW v \in Vps, v \in met'[d]
      PROVE  v \in met[d] \/ (d = c /\ v = p /\ m \in Greeting(v))
  BY <1>1, <1>2, <1>3, <1>8 DEF Greeting, Envelope, Envelopes, IInv, TypeOK
<1>9. Meetings'
  <2>1. \A d \in Clients : cpc'[d] \in {"send", "recv"} =>
           receiver'[d] \in met'[d] /\ call'[d] \in Requests /\ Fits(call'[d])
    BY <1>1 DEF IInv, TypeOK, Meetings
  <2>2. \A d, e \in Clients, v \in Vps : v \in met'[d] /\ v \in met'[e] => d = e
    BY <1>7, <1>8 DEF IInv, Meetings
  <2>3. \A v \in Vps : Nowhere(responses', Greeting(v)) \/ Once(responses', Greeting(v))
    BY <1>7 DEF Greeting, Envelope
  <2>4. \A v \in Vps : spc'[v] = "off" => Nowhere(responses', Greeting(v))
    BY <1>1, <1>7 DEF IInv, Meetings, Greeting, Envelope
  <2>5. \A v \in Vps, d \in Clients : v \in met'[d] =>
           spc'[v] # "off" /\ Nowhere(responses', Greeting(v))
    BY <1>1, <1>7, <1>8 DEF IInv, Meetings, Greeting, Envelope
  <2> QED BY <2>1, <2>2, <2>3, <2>4, <2>5 DEF Meetings, Greeting, Envelope
<1>10. Hands'
  BY <1>1 DEF IInv, Hands
<1>11. \A d \in Clients : Waiting(d)' <=> Waiting(d)
  BY <1>1 DEF Waiting, IInv, TypeOK
<1>12. Sessions'
  BY <1>1, <1>11, ForeignTaken
<1> QED BY <1>6, <1>9, <1>10, <1>12 DEF IInv

\* send_request sends: the VP, which the client has met, was unused.
LEMMA SendIInv ==
  ASSUME IInv, NEW c \in Clients, Send(c), UNCHANGED gone
  PROVE  IInv'
<1>1. /\ cpc[c] = "send" /\ cpc' = [cpc EXCEPT ![c] = "recv"]
      /\ HasRoom(requests) /\ requests' = Append(requests, Envelope(receiver[c], call[c]))
      /\ UNCHANGED <<responses, receiver, started, met, call, res, outcome, spc, held, sreq,
                     sres, executed, gone>>
  BY DEF Send, serverVars
<1>2. PICK p \in Vps : p = receiver[c] /\ p \in met[c]
  BY <1>1 DEF IInv, Meetings, TypeOK
<1>3. PICK q \in Requests : q = call[c] /\ Fits(q)
  BY <1>1 DEF IInv, Meetings
<1>4. PICK e \in Envelopes(Requests) : e = Envelope(p, q)
  BY DEF Envelopes, Envelope
<1>5. e.pid = p /\ e.body = q
  BY <1>4 DEF Envelope
<1>6. /\ requests' \in Seq(Envelopes(Requests)) /\ Len(requests') <= MaxMsg
      /\ \A i \in 1 .. Len(requests') : Fits(requests'[i].body)
  BY <1>1, <1>2, <1>3, <1>4, <1>5, RequestAdded DEF IInv
<1>7. TypeOK'
  BY <1>1, <1>6 DEF IInv, TypeOK, ClientStates
<1>8. Meetings' /\ Hands'
  BY <1>1 DEF IInv, Meetings, Hands, TypeOK
<1>9. Unused(p)
  <2>1. \A d \in Clients : ~Calls(d, p)
    BY <1>1, <1>2, OneCaller DEF IInv, Calls, Waiting
  <2> QED BY <2>1 DEF IInv, Sessions
<1>10. ASSUME NEW v \in Vps, v # p PROVE Undisturbed(v)
  <2>1. /\ NoRequest(v) => NoRequest(v)'
        /\ \A r \in Requests : OneRequest(v, r) => OneRequest(v, r)'
    BY <1>1, <1>2, <1>3, <1>4, <1>5, <1>10, RequestAdded DEF IInv
  <2> QED BY <1>1, <2>1
          DEF Undisturbed, NoResponse, OneResponse, NoHolder, OneHolder, Holds, Busy
<1>11. Queued(p, q)'
  <2>1. OneRequest(p, q)'
    BY <1>1, <1>2, <1>3, <1>4, <1>5, <1>9, RequestAdded DEF IInv, Unused
  <2> QED BY <1>1, <1>9, <2>1 DEF Queued, Unused, NoResponse, NoHolder, Holds, Busy
<1>12. Sessions'
  <2>1. Calls(c, p)'
    BY <1>1, <1>2 DEF Calls, Waiting, IInv, TypeOK
  <2>2. ASSUME NEW d \in Clients, NEW r \in Requests, Calls(d, p)', call'[d] = r
        PROVE  InCall(p, r)'
    <3>1. d = c
      BY <1>1, <1>2, <2>2, OneCaller DEF IInv, Calls, Waiting, TypeOK
    <3> QED BY <1>1, <1>3, <1>11, <2>2, <3>1 DEF InCall
  <2>3. \A d \in Clients : d # c =>
           (cpc'[d] = cpc[d] /\ receiver'[d] = receiver[d] /\ call'[d] = call[d])
    BY <1>1 DEF IInv, TypeOK
  <2>4. receiver'[c] = p /\ receiver[c] = p
    BY <1>1, <1>2
  <2> QED BY <1>10, <2>1, <2>2, <2>3, <2>4, SessionsKept DEF IInv, Calls, Waiting
<1> QED BY <1>7, <1>8, <1>12 DEF IInv

\* send_request receives: what it takes for its response is the answer of the VP
\* it has called; any other message is lost.
LEMMA ReceiveIInv ==
  ASSUME IInv, NEW c \in Clients, Receive(c), UNCHANGED gone
  PROVE  IInv'
<1>1. /\ responses # << >> /\ responses' = Tail(responses)
      /\ UNCHANGED <<requests, receiver, started, met, call, spc, held, sreq, sres, gone>>
      /\ cpc[c] = "recv"
      /\ outcome' \in [Clients -> {"none", "ok", "failed"}]
      /\ \/ Head(responses).pid # receiver[c] /\ UNCHANGED <<cpc, executed>>
         \/ /\ Head(responses).pid = receiver[c]
            /\ cpc' = [cpc EXCEPT ![c] = "idle"]
            /\ executed' = executed \ {receiver[c]}
  BY DEF Receive, PutBackResponse, IsFor, Return, serverVars, IInv, TypeOK
<1>2. PICK m \in Envelopes(Answers \cup {Ready}) : m = Head(responses)
  BY <1>1, ResponseTaken, HeadTailProperties DEF IInv, TypeOK
<1>3. PICK p \in Vps : p = receiver[c] /\ p \in met[c]
  BY <1>1 DEF IInv, Meetings, TypeOK
<1>4. responses' \in Seq(Envelopes(Answers \cup {Ready})) /\ Len(responses') <= MaxMsg
  BY <1>1, <1>3, ResponseTaken DEF IInv
<1>5. TypeOK'
  <2>1. res[c] \in Answers \cup Failures \cup {NullMessage} /\ res[c].len \in Nat
    BY MqAssumption DEF IInv, TypeOK, Failures, NullMessage, Message
  <2>2. CASE m.pid # receiver[c]
    BY <1>1, <1>2, <1>4, <2>2 DEF Receive, IsFor, IInv, TypeOK, ClientStates
  <2>3. CASE m.pid = receiver[c]
    <3>1. Nowhere(responses, Greeting(p))
      BY <1>3 DEF IInv, Meetings
    <3>2. m \in From(p)
      BY <1>1, <1>2, <1>3, <2>3, <3>1, ResponseTaken DEF IInv
    <3>3. m.body \in Answers
      BY <3>2 DEF From
    <3>4. \/ res' = [res EXCEPT ![c] = m.body]
          \/ \E code \in {StatusError, StatusMalformed} :
                res' = [res EXCEPT ![c] = [code |-> code, len |-> res[c].len, data |-> << >>]]
      BY <1>2, <2>3 DEF Receive, IsFor, Return
    <3>5. \A code \in {StatusError, StatusMalformed} :
             [code |-> code, len |-> res[c].len, data |-> << >>] \in Failures
      BY <2>1 DEF Failures
    <3>6. \E r \in Answers \cup Failures : res' = [res EXCEPT ![c] = r]
      BY <3>3, <3>4, <3>5
    <3>7. res' \in [Clients -> Answers \cup Failures \cup {NullMessage}]
      BY <3>6 DEF IInv, TypeOK
    <3> QED BY <1>1, <1>4, <3>7 DEF IInv, TypeOK, ClientStates
  <2> QED BY <2>2, <2>3
<1>6. Meetings'
  <2>1. \A v \in Vps : /\ Nowhere(responses', Greeting(v)) \/ Once(responses', Greeting(v))
                       /\ Nowhere(responses, Greeting(v)) => Nowhere(responses', Greeting(v))
    BY <1>1, ResponseTaken DEF IInv, Meetings
  <2>2. \A d \in Clients : cpc'[d] \in {"send", "recv"} => cpc[d] \in {"send", "recv"}
    BY <1>1 DEF IInv, TypeOK
  <2> QED BY <1>1, <2>1, <2>2 DEF IInv, Meetings, Greeting, Envelope
<1>7. Hands'
  BY <1>1 DEF IInv, Hands
<1>8. CASE m.pid # receiver[c]
  <2>1. UNCHANGED <<cpc, executed>>
    BY <1>1, <1>2, <1>8
  <2>2. \A d \in Clients : Waiting(d)' <=> Waiting(d)
    BY <2>1 DEF Waiting
  <2>3. Sessions'
    BY <1>1, <2>1, <2>2, ForeignTaken
  <2> QED BY <1>5, <1>6, <1>7, <2>3 DEF IInv
<1>9. CASE m.pid = receiver[c]
  <2>1. cpc' = [cpc EXCEPT ![c] = "idle"] /\ executed' = executed \ {p}
    BY <1>1, <1>2, <1>3, <1>9
  <2>2. m \in From(p)
    <3>1. Nowhere(responses, Greeting(p))
      BY <1>3 DEF IInv, Meetings
    <3> QED BY <1>1, <1>2, <1>3, <1>9, <3>1, ResponseTaken DEF IInv
  <2>3. ~NoResponse(p) /\ (OneResponse(p) => NoResponse(p)')
    BY <1>1, <1>2, <2>2, ResponseTaken DEF IInv
  <2>4. PICK q \in Requests : q = call[c]
    BY <1>1 DEF IInv, Meetings
  <2>5. Answered(p, q)
    <3>1. InCall(p, q)
      BY <1>1, <1>3, <2>4 DEF IInv, Sessions, Calls, Waiting
    <3> QED BY <2>3, <3>1 DEF InCall, Queued, InTransit, Handling, Answering, Answered, Lost
  <2>6. Unused(p)'
    BY <1>1, <2>1, <2>3, <2>5 DEF Answered, Unused, NoRequest, NoHolder, Holds, Busy
  <2>7. ASSUME NEW v \in Vps, v # p PROVE Undisturbed(v)
    <3>1. m \notin From(v)
      BY <1>3, <1>9, <2>7 DEF From
    <3>2. /\ NoResponse(v) => NoResponse(v)'
          /\ OneResponse(v) => OneResponse(v)'
      BY <1>1, <1>2, <3>1, ResponseTaken DEF IInv
    <3> QED BY <1>1, <2>1, <2>7, <3>2
            DEF Undisturbed, NoRequest, OneRequest, NoHolder, OneHolder, Holds, Busy
  <2>8. ASSUME NEW d \in Clients, NEW r \in Requests, Calls(d, p)', call'[d] = r
        PROVE  InCall(p, r)'
    <3>1. d = c
      BY <1>1, <1>3, <2>1, <2>8, OneCaller DEF IInv, Calls, Waiting, TypeOK
    <3> QED BY <2>1, <2>8, <3>1 DEF IInv, Calls, Waiting, TypeOK
  <2>9. \A d \in Clients : d # c =>
           (cpc'[d] = cpc[d] /\ receiver'[d] = receiver[d] /\ call'[d] = call[d])
    BY <1>1, <2>1 DEF IInv, TypeOK
  <2>10. receiver'[c] = p /\ receiver[c] = p
    BY <1>1, <1>3
  <2>11. Sessions'
    BY <2>6, <2>7, <2>8, <2>9, <2>10, SessionsKept DEF IInv, Calls, Waiting
  <2> QED BY <1>5, <1>6, <1>7, <2>11 DEF IInv
<1> QED BY <1>8, <1>9

-----------------------------------------------------------------------------
(***************************************************************************)
(* The VP's steps.                                                         *)
(***************************************************************************)
\* start: a VP that was off sends its only ready message.
LEMMA StartIInv ==
  ASSUME IInv, NEW v \in Vps, Start(v), UNCHANGED gone
  PROVE  IInv'
<1>1. /\ spc[v] = "off" /\ HasRoom(responses)
      /\ responses' = Append(responses, Envelope(v, Ready))
      /\ spc' = [spc EXCEPT ![v] = "recv"]
      /\ UNCHANGED <<requests, cpc, receiver, started, met, call, res, outcome, held, sreq,
                     sres, executed, gone>>
  BY DEF Start, clientVars
<1>2. PICK e \in Envelopes(Answers \cup {Ready}) : e = Envelope(v, Ready)
  BY DEF Envelopes, Envelope
<1>3. /\ e \in Greeting(v)
      /\ \A w \in Vps : e \notin From(w) /\ (w # v => e \notin Greeting(w))
  BY <1>2, MqAssumption DEF Greeting, From, Envelope
<1>4. /\ responses' \in Seq(Envelopes(Answers \cup {Ready})) /\ Len(responses') <= MaxMsg
  BY <1>1, <1>2, ResponseAdded DEF IInv
<1>5. TypeOK'
  BY <1>1, <1>4 DEF IInv, TypeOK, ServerStates
<1>6. Meetings'
  <2>1. \A w \in Vps : w # v =>
           /\ Nowhere(responses, Greeting(w)) => Nowhere(responses', Greeting(w))
           /\ Once(responses, Greeting(w)) => Once(responses', Greeting(w))
    BY <1>1, <1>2, <1>3, ResponseAdded DEF IInv
  <2>2. Nowhere(responses, Greeting(v)) => Once(responses', Greeting(v))
    BY <1>1, <1>2, <1>3, ResponseAdded DEF IInv
  <2>3. \A w \in Vps : w # v => spc'[w] = spc[w]
    BY <1>1 DEF IInv, TypeOK
  <2>4. spc'[v] = "recv"
    BY <1>1 DEF IInv, TypeOK
  <2> QED BY <1>1, <2>1, <2>2, <2>3, <2>4 DEF IInv, Meetings, Greeting, Envelope
<1>7. Hands'
  BY <1>1 DEF IInv, Hands, TypeOK
<1>8. ASSUME NEW w \in Vps PROVE Undisturbed(w)
  <2>1. /\ NoResponse(w) => NoResponse(w)'
        /\ OneResponse(w) => OneResponse(w)'
    BY <1>1, <1>2, <1>3, ResponseAdded DEF IInv
  <2> QED BY <1>1, <2>1 DEF Undisturbed, NoRequest, OneRequest, NoHolder, OneHolder, Holds, Busy,
                            IInv, TypeOK
<1>9. Sessions'
  BY <1>1, <1>8, SessionsUntouched DEF IInv, Calls, Waiting
<1> QED BY <1>5, <1>6, <1>7, <1>9 DEF IInv

\* receive_request takes the request of a call, which it is to handle or to put back.
LEMMA ReceiveRequestIInv ==
  ASSUME IInv, NEW v \in Vps, ReceiveRequest(v), UNCHANGED gone
  PROVE  IInv'
<1>1. /\ spc[v] = "recv" /\ requests # << >> /\ requests' = Tail(requests)
      /\ UNCHANGED <<responses, cpc, receiver, started, met, call, res, outcome, sres,
                     executed, gone>>
      /\ \/ /\ Accepts(v, Head(requests))
            /\ sreq' = [sreq EXCEPT ![v] = Head(requests).body]
            /\ spc' = [spc EXCEPT ![v] = "handle"]
            /\ UNCHANGED held
         \/ /\ ~Accepts(v, Head(requests))
            /\ held' = [held EXCEPT ![v] = Head(requests)]
            /\ spc' = [spc EXCEPT ![v] = "put_back"]
            /\ UNCHANGED sreq
  BY DEF ReceiveRequest, clientVars
<1>2. PICK m \in Envelopes(Requests) : m = Head(requests) /\ Fits(m.body)
  BY <1>1, RequestTaken DEF IInv
<1>3. PICK p \in Vps : p = m.pid
  BY DEF Envelopes
<1>4. /\ requests' \in Seq(Envelopes(Requests)) /\ Len(requests') <= MaxMsg
      /\ \A i \in 1 .. Len(requests') : Fits(requests'[i].body)
  <2>1. /\ requests' \in Seq(Envelopes(Requests)) /\ Len(requests') < Len(requests)
        /\ Len(requests') \in Nat
        /\ \A i \in 1 .. Len(requests') : Fits(requests'[i].body)
    BY <1>1, <1>3, RequestTaken DEF IInv
  <2>2. Len(requests) \in Nat /\ Len(requests) <= MaxMsg
    BY LenProperties DEF IInv, TypeOK
  <2> QED BY <2>1, <2>2, MqAssumption
<1>5. Accepts(v, m) <=> p = v
  BY <1>3, MqAssumption DEF Accepts
<1>6. m.body \in Requests
  BY DEF Envelopes
<1>7. TypeOK'
  <2>1. CASE p = v
    <3>1. sreq' = [sreq EXCEPT ![v] = m.body] /\ spc' = [spc EXCEPT ![v] = "handle"] /\ held' = held
      BY <1>1, <1>2, <1>5, <2>1
    <3>2. sreq' \in [Vps -> Requests \cup {NullMessage}]
      BY <1>6, <3>1 DEF IInv, TypeOK
    <3> QED BY <1>1, <1>4, <3>1, <3>2 DEF IInv, TypeOK, ServerStates
  <2>2. CASE p # v
    <3>1. held' = [held EXCEPT ![v] = m] /\ spc' = [spc EXCEPT ![v] = "put_back"] /\ sreq' = sreq
      BY <1>1, <1>2, <1>5, <2>2
    <3>2. m \in Envelopes(Requests \cup {NullMessage})
      BY DEF Envelopes
    <3>3. held' \in [Vps -> Envelopes(Requests \cup {NullMessage})]
      BY <3>1, <3>2 DEF IInv, TypeOK
    <3> QED BY <1>1, <1>4, <3>1, <3>3 DEF IInv, TypeOK, ServerStates
  <2> QED BY <2>1, <2>2
<1>8. spc'[v] # "off" /\ \A w \in Vps : w # v => spc'[w] = spc[w]
  BY <1>1 DEF IInv, TypeOK
<1>9. Meetings'
  BY <1>1, <1>8 DEF IInv, Meetings, Greeting, Envelope
<1>10. Hands'
  BY <1>1, <1>2 DEF IInv, Hands, TypeOK
<1>11. ASSUME NEW w \in Vps, w # p PROVE Undisturbed(w)
  <2>1. /\ NoRequest(w) => NoRequest(w)'
        /\ \A r \in Requests : OneRequest(w, r) => OneRequest(w, r)'
    BY <1>1, <1>2, <1>3, <1>11, RequestTaken DEF IInv
  <2>2. CASE p = v
    <3>1. /\ \A x \in Vps : x # v => spc'[x] = spc[x] /\ sreq'[x] = sreq[x]
          /\ spc'[v] = "handle" /\ held' = held
      BY <1>1, <1>2, <1>5, <2>2 DEF IInv, TypeOK
    <3>2. \A x \in Vps : (spc'[x] = "put_back" /\ held'[x].pid = w) <=> Holds(x, w)
      BY <1>1, <3>1 DEF Holds
    <3>3. /\ NoHolder(w) => NoHolder(w)'
          /\ \A r \in Requests : OneHolder(w, r) => OneHolder(w, r)'
      BY <3>1, <3>2 DEF NoHolder, OneHolder, Holds
    <3> QED BY <1>1, <1>11, <2>1, <2>2, <3>1, <3>3
            DEF Undisturbed, NoResponse, OneResponse, Busy
  <2>3. CASE p # v
    <3>1. \A x \in Vps : /\ x # v => spc'[x] = spc[x] /\ held'[x] = held[x]
                         /\ x = v => spc'[x] = "put_back" /\ held'[x] = m
      BY <1>1, <1>2, <1>5, <2>3 DEF IInv, TypeOK
    <3>2. \A x \in Vps : (spc'[x] = "put_back" /\ held'[x].pid = w) <=> Holds(x, w)
      BY <1>1, <1>3, <1>11, <3>1 DEF Holds
    <3>3. /\ NoHolder(w) => NoHolder(w)'
          /\ \A r \in Requests : OneHolder(w, r) => OneHolder(w, r)'
      BY <1>1, <3>1, <3>2 DEF NoHolder, OneHolder, Holds
    <3> QED BY <1>1, <1>2, <1>5, <2>1, <2>3, <3>1, <3>3
            DEF Undisturbed, NoResponse, OneResponse, Busy
  <2> QED BY <2>2, <2>3
<1>12. ASSUME NEW r \in Requests, InCall(p, r)
       PROVE  InCall(p, r)'
  <2>1. /\ ~NoRequest(p)
        /\ OneRequest(p, r) => NoRequest(p)' /\ m = Envelope(p, r)
    BY <1>1, <1>2, <1>3, RequestTaken DEF IInv
  <2>2. Queued(p, r)
    BY <1>12, <2>1 DEF InCall, Queued, InTransit, Handling, Answering, Answered, Lost
  <2>3. NoRequest(p)' /\ m = Envelope(p, r) /\ m.body = r
    BY <2>1, <2>2 DEF Queued, Envelope
  <2>4. CASE p = v
    <3>1. Handling(p, r)'
      BY <1>1, <1>2, <1>5, <2>2, <2>3, <2>4
         DEF Queued, Handling, NoResponse, NoHolder, Holds, Busy, IInv, TypeOK
    <3> QED BY <3>1 DEF InCall
  <2>5. CASE p # v
    <3>1. \A x \in Vps : /\ x # v => spc'[x] = spc[x] /\ held'[x] = held[x]
                         /\ x = v => spc'[x] = "put_back" /\ held'[x] = m
      BY <1>1, <1>2, <1>5, <2>5 DEF IInv, TypeOK
    <3>2. OneHolder(p, r)'
      BY <1>3, <2>2, <2>3, <3>1 DEF Queued, NoHolder, OneHolder, Holds, Envelope
    <3>3. InTransit(p, r)'
      BY <1>1, <2>2, <2>3, <2>5, <3>1, <3>2 DEF Queued, InTransit, NoResponse, Busy
    <3> QED BY <3>3 DEF InCall
  <2> QED BY <2>4, <2>5
<1>13. PICK c \in Clients : Calls(c, p)
  <2>1. ~NoRequest(p)
    BY <1>1, <1>2, <1>3, RequestTaken DEF IInv
  <2> QED BY <2>1 DEF IInv, Sessions, Unused
<1>14. Sessions'
  <2>1. ASSUME NEW d \in Clients, NEW r \in Requests, Calls(d, p)', call'[d] = r
        PROVE  InCall(p, r)'
    BY <1>1, <1>12, <2>1 DEF IInv, Sessions, Calls, Waiting
  <2>2. Calls(c, p)'
    BY <1>1, <1>13 DEF Calls, Waiting
  <2> QED BY <1>1, <1>11, <2>1, <2>2, SessionsKept DEF IInv, Calls, Waiting
<1> QED BY <1>7, <1>9, <1>10, <1>14 DEF IInv

\* receive_request puts the request of another VP back.
LEMMA PutBackRequestIInv ==
  ASSUME IInv, NEW v \in Vps, PutBackRequest(v), UNCHANGED gone
  PROVE  IInv'
<1>1. /\ spc[v] = "put_back" /\ HasRoom(requests) /\ requests' = Append(requests, held[v])
      /\ spc' = [spc EXCEPT ![v] = "recv"]
      /\ UNCHANGED <<responses, cpc, receiver, started, met, call, res, outcome, held, sreq,
                     sres, executed, gone>>
  BY DEF PutBackRequest, clientVars
<1>2. PICK e \in Envelopes(Requests) : e = held[v] /\ Fits(e.body)
  BY <1>1 DEF IInv, Hands
<1>3. PICK p \in Vps : p = e.pid
  BY DEF Envelopes
<1>4. /\ requests' \in Seq(Envelopes(Requests)) /\ Len(requests') <= MaxMsg
      /\ \A i \in 1 .. Len(requests') : Fits(requests'[i].body)
  BY <1>1, <1>2, <1>3, RequestAdded DEF IInv
<1>5. TypeOK'
  BY <1>1, <1>4 DEF IInv, TypeOK, ServerStates
<1>6. \A x \in Vps : /\ x # v => spc'[x] = spc[x]
                     /\ x = v => spc'[x] = "recv"
  BY <1>1 DEF IInv, TypeOK
<1>7. Meetings' /\ Hands'
  BY <1>1, <1>6 DEF IInv, Meetings, Hands, Greeting, Envelope
<1>8. ASSUME NEW w \in Vps, w # p PROVE Undisturbed(w)
  <2>1. /\ NoRequest(w) => NoRequest(w)'
        /\ \A r \in Requests : OneRequest(w, r) => OneRequest(w, r)'
    BY <1>1, <1>2, <1>3, <1>8, RequestAdded DEF IInv
  <2>2. \A x \in Vps : (spc'[x] = "put_back" /\ held'[x].pid = w) <=> Holds(x, w)
    BY <1>1, <1>2, <1>3, <1>6, <1>8 DEF Holds
  <2>3. /\ NoHolder(w) => NoHolder(w)'
        /\ \A r \in Requests : OneHolder(w, r) => OneHolder(w, r)'
    BY <1>1, <2>2 DEF NoHolder, OneHolder, Holds
  <2> QED BY <1>1, <1>6, <2>1, <2>3 DEF Undisturbed, NoResponse, OneResponse, Busy
<1>9. Holds(v, p)
  BY <1>1, <1>2, <1>3 DEF Holds
<1>10. ASSUME NEW r \in Requests, InCall(p, r)
       PROVE  InCall(p, r)'
  <2>1. InTransit(p, r)
    BY <1>9, <1>10 DEF InCall, Queued, InTransit, Handling, Answering, Answered, Lost, NoHolder
  <2>2. e = Envelope(p, r) /\ \A x \in Vps : Holds(x, p) => x = v
    BY <1>2, <1>9, <2>1 DEF InTransit, OneHolder
  <2>3. OneRequest(p, r)'
    BY <1>1, <1>2, <2>1, <2>2, RequestAdded DEF InTransit, IInv
  <2>4. NoHolder(p)'
    BY <1>1, <1>6, <2>2 DEF NoHolder, Holds
  <2>5. Queued(p, r)'
    BY <1>1, <1>6, <2>1, <2>3, <2>4 DEF InTransit, Queued, NoResponse, Busy
  <2> QED BY <2>5 DEF InCall
<1>11. PICK c \in Clients : Calls(c, p)
  BY <1>9 DEF IInv, Sessions, Unused, NoHolder
<1>12. Sessions'
  <2>1. ASSUME NEW d \in Clients, NEW r \in Requests, Calls(d, p)', call'[d] = r
        PROVE  InCall(p, r)'
    BY <1>1, <1>10, <2>1 DEF IInv, Sessions, Calls, Waiting
  <2>2. Calls(c, p)'
    BY <1>1, <1>11 DEF Calls, Waiting
  <2> QED BY <1>1, <1>8, <2>1, <2>2, SessionsKept DEF IInv, Calls, Waiting
<1> QED BY <1>5, <1>7, <1>12 DEF IInv

\* The handler of a VP runs for the call that is with it.
LEMMA HandleRequestIInv ==
  ASSUME IInv, NEW v \in Vps, NEW a \in Answers, HandleRequest(v, a), UNCHANGED gone
  PROVE  IInv'
<1>1. /\ spc[v] = "handle" /\ spc' = [spc EXCEPT ![v] = "send"]
      /\ sres' = [sres EXCEPT ![v] = a] /\ executed' = executed \cup {v}
      /\ UNCHANGED <<requests, responses, cpc, receiver, started, met, call, res, outcome,
                     held, sreq, gone>>
  BY DEF HandleRequest, queueVars, clientVars
<1>2. TypeOK'
  BY <1>1 DEF IInv, TypeOK, ServerStates
<1>3. /\ \A x \in Vps : x # v => spc'[x] = spc[x] /\ sres'[x] = sres[x]
      /\ spc'[v] = "send" /\ sres'[v] = a
  BY <1>1 DEF IInv, TypeOK
<1>4. Meetings' /\ Hands'
  BY <1>1, <1>3 DEF IInv, Meetings, Hands, Greeting, Envelope
<1>5. ASSUME NEW w \in Vps
      PROVE  /\ NoHolder(w) => NoHolder(w)'
             /\ \A r \in Requests : OneHolder(w, r) => OneHolder(w, r)'
  <2>1. \A x \in Vps : (spc'[x] = "put_back" /\ held'[x].pid = w) <=> Holds(x, w)
    BY <1>1, <1>3 DEF Holds
  <2> QED BY <1>1, <2>1 DEF NoHolder, OneHolder, Holds
<1>6. ASSUME NEW w \in Vps, w # v PROVE Undisturbed(w)
  BY <1>1, <1>3, <1>5, <1>6 DEF Undisturbed, NoRequest, OneRequest, NoResponse, OneResponse, Busy
<1>7. ASSUME NEW r \in Requests, InCall(v, r)
      PROVE  InCall(v, r)'
  <2>1. Handling(v, r)
    BY <1>1, <1>7 DEF InCall, Queued, InTransit, Handling, Answering, Answered, Lost, Busy
  <2>2. Answering(v, r)'
    BY <1>1, <1>3, <1>5, <2>1 DEF Handling, Answering, NoRequest, NoResponse
  <2> QED BY <2>2 DEF InCall
<1>8. PICK c \in Clients : Calls(c, v)
  BY <1>1 DEF IInv, Sessions, Unused, Busy
<1>9. Sessions'
  <2>1. ASSUME NEW d \in Clients, NEW r \in Requests, Calls(d, v)', call'[d] = r
        PROVE  InCall(v, r)'
    BY <1>1, <1>7, <2>1 DEF IInv, Sessions, Calls, Waiting
  <2>2. Calls(c, v)'
    BY <1>1, <1>8 DEF Calls, Waiting
  <2> QED BY <1>1, <1>6, <2>1, <2>2, SessionsKept DEF IInv, Calls, Waiting
<1> QED BY <1>2, <1>4, <1>9 DEF IInv

\* send_response sends the answer, or loses it when it is too long.
LEMMA SendResponseIInv ==
  ASSUME IInv, NEW v \in Vps, SendResponse(v), UNCHANGED gone
  PROVE  IInv'
<1>1. /\ spc[v] = "send" /\ spc' = [spc EXCEPT ![v] = "recv"]
      /\ \/ UNCHANGED responses
         \/ HasRoom(responses) /\ responses' = Append(responses, Envelope(v, sres[v]))
      /\ UNCHANGED <<requests, cpc, receiver, started, met, call, res, outcome, held, sreq,
                     sres, executed, gone>>
  BY DEF SendResponse, clientVars
<1>2. PICK a \in Answers : a = sres[v]
  BY <1>1 DEF IInv, Hands
<1>3. PICK e \in Envelopes(Answers \cup {Ready}) : e = Envelope(v, a)
  BY DEF Envelopes, Envelope
<1>4. \A w \in Vps : e \notin Greeting(w) /\ (w # v => e \notin From(w))
  BY <1>3, MqAssumption DEF Greeting, From, Envelope
<1>5. /\ responses' \in Seq(Envelopes(Answers \cup {Ready})) /\ Len(responses') <= MaxMsg
  <2>1. CASE UNCHANGED responses
    BY <2>1 DEF IInv, TypeOK
  <2>2. CASE HasRoom(responses) /\ responses' = Append(responses, Envelope(v, sres[v]))
    BY <1>1, <1>2, <1>3, <2>2, ResponseAdded DEF IInv
  <2> QED BY <1>1, <2>1, <2>2
<1>6. TypeOK'
  BY <1>1, <1>5 DEF IInv, TypeOK, ServerStates
<1>7. \A x \in Vps : /\ x # v => spc'[x] = spc[x]
                     /\ x = v => spc'[x] = "recv"
  BY <1>1 DEF IInv, TypeOK
<1>8. Meetings' /\ Hands'
  <2>1. \A w \in Vps : /\ Nowhere(responses, Greeting(w)) => Nowhere(responses', Greeting(w))
                       /\ Once(responses, Greeting(w)) => Once(responses', Greeting(w))
    <3>1. CASE UNCHANGED responses
      BY <3>1
    <3>2. CASE HasRoom(responses) /\ responses' = Append(responses, Envelope(v, sres[v]))
      BY <1>1, <1>2, <1>3, <1>4, <3>2, ResponseAdded DEF IInv
    <3> QED BY <1>1, <3>1, <3>2
  <2> QED BY <1>1, <1>7, <2>1 DEF IInv, Meetings, Hands, Greeting, Envelope
<1>9. ASSUME NEW w \in Vps
      PROVE  /\ NoHolder(w) => NoHolder(w)'
             /\ \A r \in Requests : OneHolder(w, r) => OneHolder(w, r)'
  <2>1. \A x \in Vps : (spc'[x] = "put_back" /\ held'[x].pid = w) <=> Holds(x, w)
    BY <1>1, <1>7 DEF Holds
  <2> QED BY <1>1, <2>1 DEF NoHolder, OneHolder, Holds
<1>10. ASSUME NEW w \in Vps, w # v PROVE Undisturbed(w)
  <2>1. /\ NoResponse(w) => NoResponse(w)'
        /\ OneResponse(w) => OneResponse(w)'
    <3>1. CASE UNCHANGED responses
      BY <1>1, <3>1 DEF NoResponse, OneResponse
    <3>2. CASE HasRoom(responses) /\ responses' = Append(responses, Envelope(v, sres[v]))
      BY <1>1, <1>2, <1>3, <1>4, <1>10, <3>2, ResponseAdded DEF IInv
    <3> QED BY <1>1, <3>1, <3>2
  <2> QED BY <1>1, <1>7, <1>9, <1>10, <2>1 DEF Undisturbed, NoRequest, OneRequest, Busy
<1>11. ASSUME NEW r \in Requests, InCall(v, r)
       PROVE  InCall(v, r)'
  <2>1. Answering(v, r)
    BY <1>1, <1>11 DEF InCall, Queued, InTransit, Handling, Answering, Answered, Lost, Busy
  <2>2. NoResponse(v)' \/ OneResponse(v)'
    <3>1. CASE UNCHANGED responses
      BY <1>1, <2>1, <3>1 DEF Answering, NoResponse
    <3>2. CASE HasRoom(responses) /\ responses' = Append(responses, Envelope(v, sres[v]))
      BY <1>1, <1>2, <1>3, <2>1, <3>2, ResponseAdded DEF IInv, Answering
    <3> QED BY <1>1, <3>1, <3>2
  <2>3. /\ NoRequest(v)' /\ NoHolder(v)' /\ v \in executed' /\ ~Busy(v)' /\ sreq'[v] = r
    BY <1>1, <1>7, <1>9, <2>1 DEF Answering, NoRequest, Busy
  <2>4. Answered(v, r)' \/ Lost(v, r)'
    BY <2>2, <2>3 DEF Answered, Lost
  <2> QED BY <2>4 DEF InCall
<1>12. PICK c \in Clients : Calls(c, v)
  BY <1>1 DEF IInv, Sessions, Unused, Busy
<1>13. Sessions'
  <2>1. ASSUME NEW d \in Clients, NEW r \in Requests, Calls(d, v)', call'[d] = r
        PROVE  InCall(v, r)'
    BY <1>1, <1>11, <2>1 DEF IInv, Sessions, Calls, Waiting
  <2>2. Calls(c, v)'
    BY <1>1, <1>12 DEF Calls, Waiting
  <2> QED BY <1>1, <1>10, <2>1, <2>2, SessionsKept DEF IInv, Calls, Waiting
<1> QED BY <1>6, <1>8, <1>13 DEF IInv

-----------------------------------------------------------------------------
(***************************************************************************)
(* The invariant.                                                          *)
(***************************************************************************)
\* A step that changes at most who has ended, or nothing.
LEMMA QuietIInv ==
  ASSUME IInv, UNCHANGED <<queueVars, clientVars, serverVars, executed>>,
         gone' \subseteq Clients \cup Vps
  PROVE  IInv'
<1> USE DEF queueVars, clientVars, serverVars
<1>1. TypeOK' /\ Meetings' /\ Hands'
  BY DEF IInv, TypeOK, Meetings, Hands
<1>2. \A v \in Vps : Undisturbed(v)
  BY Untouched
<1>3. Sessions'
  BY <1>2, SessionsUntouched DEF IInv, Calls, Waiting
<1> QED BY <1>1, <1>3 DEF IInv

\* Every step keeps the invariant.
LEMMA NextIInv ==
  ASSUME Patient, IInv, [Next]_vars
  PROVE  IInv'
<1>1. CASE \E c \in Clients : UserStep(c)
  BY <1>1, UserIInv
<1>2. CASE \E c \in Clients : ClientStep(c)
  BY <1>2, ReceiveReadyIInv, SendIInv, ReceiveIInv DEF ClientStep
<1>3. CASE \E v \in Vps : StartStep(v) \/ TakeRequest(v) \/ ServerStep(v)
  BY <1>3, StartIInv, ReceiveRequestIInv, PutBackRequestIInv, HandleRequestIInv,
     SendResponseIInv DEF StartStep, TakeRequest, ServerStep
<1>4. CASE \E p \in Clients \cup Vps : Exit(p)
  BY <1>4, QuietIInv DEF Exit, IInv, TypeOK
<1>5. CASE UNCHANGED vars
  BY <1>5, QuietIInv DEF vars, IInv, TypeOK
<1> QED BY <1>1, <1>2, <1>3, <1>4, <1>5 DEF Next

\* In every state of every behaviour.
LEMMA Invariance ==
  ASSUME Patient
  PROVE  Spec => []IInv
<1>1. IInv /\ [Next]_vars => IInv'
  BY NextIInv
<1> QED BY InitIInv, <1>1, PTL DEF Spec

\* Every variable holds values of its kind: no message gets into a queue that
\* is full or that it is too long for, and all have the pid of a VP.
THEOREM TypeCorrect ==
  ASSUME Patient
  PROVE  Spec => []TypeOK
<1>1. IInv => TypeOK
  BY DEF IInv
<1>9. Spec => []IInv
  BY Invariance
<1> QED BY <1>1, <1>9, PTL

\* A call that a client waits for is in one of the six places.
LEMMA CallIsSomewhere ==
  ASSUME IInv, NEW c \in Clients, Waiting(c)
  PROVE  /\ receiver[c] \in Vps /\ receiver[c] \in met[c]
         /\ call[c] \in Requests /\ InCall(receiver[c], call[c])
<1>1. receiver[c] \in Vps /\ receiver[c] \in met[c] /\ call[c] \in Requests
  BY DEF IInv, Meetings, TypeOK, Waiting
<1> QED BY <1>1 DEF IInv, Sessions, Calls

\* A request under way about a VP is the request of a call.
LEMMA UsedIsCalled ==
  ASSUME IInv, NEW v \in Vps, ~Unused(v)
  PROVE  \E c \in Clients, q \in Requests : Calls(c, v) /\ InCall(v, q)
<1>1. PICK c \in Clients : Calls(c, v)
  BY DEF IInv, Sessions
<1> QED BY <1>1, CallIsSomewhere DEF Calls

\* A request that was sent and is not yet executed exists exactly once, whatever
\* the VPs that take each other's requests do.
THEOREM RequestsAreKept ==
  ASSUME Patient
  PROVE  Spec => []RequestsKept
<1>1. ASSUME IInv, NEW c \in Clients, Waiting(c), ~Executed(c), receiver[c] \in Vps
      PROVE  Cardinality(InRequests(receiver[c])) + Cardinality(Holders(receiver[c]))
               + (IF spc[receiver[c]] = "handle" THEN 1 ELSE 0) = 1
  <2>1. PICK v \in Vps : v = receiver[c]
    BY <1>1
  <2>2. PICK q \in Requests : InCall(v, q) /\ v \notin executed
    BY <1>1, <2>1, CallIsSomewhere DEF Executed
  <2>3. \A i \in 1 .. Len(requests) : requests[i].pid = v <=> requests[i] \in To(v)
    <3>1. \A i \in 1 .. Len(requests) : requests[i] \in Envelopes(Requests)
      BY <1>1, ElementOfSeq DEF IInv, TypeOK
    <3> QED BY <3>1 DEF Envelopes, To
  <2>4. NoRequest(v) => Cardinality(InRequests(v)) = 0
    BY <2>3, FS_EmptySet DEF NoRequest, Nowhere, InRequests
  <2>5. OneRequest(v, q) => Cardinality(InRequests(v)) = 1
    <3> SUFFICES ASSUME OneRequest(v, q) PROVE Cardinality(InRequests(v)) = 1
      OBVIOUS
    <3>1. PICK i \in 1 .. Len(requests) :
             requests[i] \in To(v) /\ \A j \in 1 .. Len(requests) : requests[j] \in To(v) => j = i
      BY DEF OneRequest, Once
    <3>2. InRequests(v) = {i}
      BY <2>3, <3>1 DEF InRequests
    <3> QED BY <3>2, FS_Singleton
  <2>6. NoHolder(v) => Cardinality(Holders(v)) = 0
    BY FS_EmptySet DEF NoHolder, Holders, Holds
  <2>7. OneHolder(v, q) => Cardinality(Holders(v)) = 1
    <3> SUFFICES ASSUME OneHolder(v, q) PROVE Cardinality(Holders(v)) = 1
      OBVIOUS
    <3>1. PICK w \in Vps : Holds(w, v) /\ \A x \in Vps : Holds(x, v) => x = w
      BY DEF OneHolder
    <3>2. Holders(v) = {w}
      BY <3>1 DEF Holders, Holds
    <3> QED BY <3>2, FS_Singleton
  <2>8. \/ Queued(v, q) \/ InTransit(v, q) \/ Handling(v, q)
    BY <2>2 DEF InCall, Answering, Answered, Lost
  <2> QED BY <2>1, <2>4, <2>5, <2>6, <2>7, <2>8 DEF Queued, InTransit, Handling, Busy
<1>2. IInv => RequestsKept
  BY <1>1 DEF RequestsKept
<1>9. Spec => []IInv
  BY Invariance
<1> QED BY <1>2, <1>9, PTL

\* A VP that is called has received its ready message: it has started.
LEMMA CalledHasStarted ==
  ASSUME IInv, NEW v \in Vps, ~Unused(v)
  PROVE  spc[v] # "off"
<1>1. PICK c \in Clients : Calls(c, v)
  BY DEF IInv, Sessions
<1>2. v \in met[c]
  BY <1>1, CallIsSomewhere DEF Calls
<1> QED BY <1>1, <1>2 DEF IInv, Meetings

\* A message in the request queue is the request of a call.
LEMMA RequestIsCalled ==
  ASSUME IInv, NEW i \in 1 .. Len(requests)
  PROVE  \E v \in Vps, q \in Requests : ~NoRequest(v) /\ InCall(v, q) /\ Queued(v, q)
<1>1. requests[i] \in Envelopes(Requests)
  BY ElementOfSeq DEF IInv, TypeOK
<1>2. PICK v \in Vps : requests[i] \in To(v)
  BY <1>1 DEF Envelopes, To
<1>3. ~NoRequest(v)
  BY <1>2 DEF NoRequest, Nowhere
<1>4. PICK q \in Requests : InCall(v, q)
  BY <1>3, UsedIsCalled DEF Unused
<1> QED BY <1>3, <1>4 DEF InCall, InTransit, Handling, Answering, Answered, Lost

\* While a request is in the queue some VP receives.  Else the VPs that hold a
\* message for another one would include the VPs those messages are for, and the
\* VP of the request in the queue: more VPs than messages.
LEMMA SomeVpReceives ==
  ASSUME IInv, requests # << >>
  PROVE  \E v \in Vps : spc[v] = "recv"
<1> SUFFICES ASSUME \A v \in Vps : spc[v] # "recv" PROVE FALSE
  OBVIOUS
<1>1. 1 \in 1 .. Len(requests)
  BY EmptySeq, LenProperties DEF IInv, TypeOK
<1>2. PICK p \in Vps, q \in Requests : ~NoRequest(p) /\ Queued(p, q)
  BY <1>1, RequestIsCalled
<1> DEFINE Holding == {w \in Vps : spc[w] = "put_back"}
           f == [w \in Holding |-> held[w].pid]
<1>3. ASSUME NEW v \in Vps, ~Unused(v), ~Busy(v) PROVE v \in Holding
  BY <1>3, CalledHasStarted DEF IInv, TypeOK, ServerStates, Busy
<1>4. p \in Holding
  BY <1>2, <1>3 DEF Queued, Unused
<1>5. ASSUME NEW w \in Holding
      PROVE  \E u \in Vps, r \in Requests : u = f[w] /\ Holds(w, u) /\ InTransit(u, r)
  <2>1. PICK u \in Vps : u = held[w].pid /\ Holds(w, u)
    BY DEF IInv, Hands, Envelopes, Holds
  <2>2. PICK r \in Requests : InCall(u, r)
    BY <2>1, UsedIsCalled DEF Unused, NoHolder
  <2>3. InTransit(u, r)
    BY <2>1, <2>2 DEF InCall, Queued, Handling, Answering, Answered, Lost, NoHolder
  <2> QED BY <2>1, <2>3
<1>6. ASSUME NEW w \in Holding PROVE f[w] \in Holding \ {p}
  <2>1. PICK u \in Vps, r \in Requests : u = f[w] /\ Holds(w, u) /\ InTransit(u, r)
    BY <1>5
  <2>2. u \in Holding
    BY <1>3, <2>1 DEF InTransit, Unused, NoHolder
  <2>3. u # p
    BY <1>2, <2>1 DEF InTransit
  <2> QED BY <2>1, <2>2, <2>3
<1>7. /\ IsFiniteSet(Holding) /\ IsFiniteSet(Holding \ {p})
      /\ Cardinality(Holding \ {p}) < Cardinality(Holding)
  <2>1. IsFiniteSet(Holding)
    BY MqAssumption, FS_Subset
  <2> HIDE DEF Holding
  <2>2. IsFiniteSet(Holding \ {p}) /\ Cardinality(Holding \ {p}) = Cardinality(Holding) - 1
    BY <1>4, <2>1, FS_RemoveElement
  <2>3. Cardinality(Holding) \in Nat
    BY <2>1, FS_CardinalityType
  <2> QED BY <2>1, <2>2, <2>3
<1>8. f \in [Holding -> Holding \ {p}]
  BY <1>6
<1>9. PICK w \in Holding, x \in Holding : w # x /\ f[w] = f[x]
  <2> HIDE DEF f, Holding
  <2> QED BY <1>7, <1>8, FS_PigeonHole
<1>10. PICK u \in Vps, r \in Requests : u = f[w] /\ Holds(w, u) /\ InTransit(u, r)
  BY <1>5
<1>11. Holds(x, u)
  BY <1>5, <1>9, <1>10
<1> QED BY <1>9, <1>10, <1>11 DEF InTransit, OneHolder

\* The VPs never all execute or hold a message while a request is in the queue: no
\* ring of put-backs blocks them, whatever the size of the queue.
THEOREM NeverAllStuck ==
  ASSUME Patient
  PROVE  Spec => []NeverStuck
<1>1. IInv => NeverStuck
  BY SomeVpReceives DEF NeverStuck
<1>9. Spec => []IInv
  BY Invariance
<1> QED BY <1>1, <1>9, PTL

\* While no VP has ended, a client inside send_request goes on, or some VP does,
\* with any numbers of clients and VPs and queues of any size.
THEOREM SomebodyGoesOn ==
  ASSUME Patient
  PROVE  Spec => []CallsGoOn
<1>1. ASSUME IInv, gone \cap Vps = {}, NEW c \in Clients \ gone, cpc[c] \in {"send", "recv"},
             ~ResponseLost(c), ~ClientGoes(c)
      PROVE  \E v \in Vps : VpGoes(v)
  <2>1. \A v \in Vps : v \notin gone
    BY <1>1
  <2>2. CASE requests # << >>
    BY <1>1, <2>1, <2>2, SomeVpReceives DEF VpGoes
  <2>3. CASE requests = << >>
    <3>1. HasRoom(requests)
      BY <2>3, MqAssumption DEF HasRoom
    <3>2. Waiting(c) /\ responses = << >>
      BY <1>1, <3>1 DEF ClientGoes, Waiting
    <3>3. HasRoom(responses)
      BY <3>2, MqAssumption DEF HasRoom
    <3>4. PICK v \in Vps, q \in Requests : v = receiver[c] /\ InCall(v, q)
      BY <1>1, <3>2, CallIsSomewhere
    <3>5. NoRequest(v) /\ NoResponse(v)
      BY <2>3, <3>2 DEF NoRequest, NoResponse, Nowhere
    <3>6. CASE InTransit(v, q)
      BY <2>1, <3>1, <3>6 DEF InTransit, OneHolder, Holds, VpGoes
    <3>7. CASE Handling(v, q) \/ Answering(v, q)
      BY <2>1, <3>3, <3>7 DEF Handling, Answering, VpGoes
    <3>8. ~Lost(v, q)
      <4>1. InResponses(v) = {}
        BY <3>2 DEF InResponses
      <4> QED BY <1>1, <3>2, <3>4, <4>1 DEF Lost, Busy, ResponseLost, Executed
    <3>9. ~Queued(v, q) /\ ~Answered(v, q)
      BY <2>3, <3>2 DEF Queued, OneRequest, Answered, OneResponse, Once
    <3> QED BY <3>4, <3>6, <3>7, <3>8, <3>9 DEF InCall
  <2> QED BY <2>2, <2>3
<1>2. IInv => CallsGoOn
  BY <1>1 DEF CallsGoOn
<1>9. Spec => []IInv
  BY Invariance
<1> QED BY <1>2, <1>9, PTL

-----------------------------------------------------------------------------
(***************************************************************************)
(* The Caller and the VPs implement module Rpc, for all the other clients, *)
(* that use the same two queues and may end at any place, do.              *)
(***************************************************************************)
\* What Rpc sees of a state is unchanged.
LEMMA Unseen ==
  ASSUME Phase' = Phase, Executed(Caller)' <=> Executed(Caller),
         call'[Caller] = call[Caller], outcome'[Caller] = outcome[Caller],
         outcome[Caller] # "none" => res'[Caller] = res[Caller],
         Executed(Caller) => /\ receiver'[Caller] = receiver[Caller]
                             /\ sreq'[receiver[Caller]] = sreq[receiver[Caller]]
                             /\ sres'[receiver[Caller]] = sres[receiver[Caller]]
  PROVE  UNCHANGED R!vars
BY DEF R!vars, Shown, Returned

\* A step that leaves the Caller and its VP alone is not seen.
LEMMA UnseenStep ==
  ASSUME UNCHANGED <<call, outcome>>,
         cpc'[Caller] = cpc[Caller], receiver'[Caller] = receiver[Caller],
         res'[Caller] = res[Caller],
         Waiting(Caller) =>
            (receiver[Caller] \in executed' <=> receiver[Caller] \in executed),
         Executed(Caller) => /\ sreq'[receiver[Caller]] = sreq[receiver[Caller]]
                             /\ sres'[receiver[Caller]] = sres[receiver[Caller]]
  PROVE  UNCHANGED R!vars
<1>1. (Executed(Caller)' <=> Executed(Caller)) /\ Phase' = Phase
  BY DEF Executed, Waiting, Phase
<1> QED BY <1>1, Unseen

\* Only send_request of the Caller is seen of what users do.
LEMMA UserRefines ==
  ASSUME IInv, NEW c \in Clients, UserStep(c)
  PROVE  [R!Next]_(R!vars)
<1> USE DEF queueVars, clientVars, serverVars
<1>1. Caller \in Clients
  BY MqAssumption
<1>2. CASE c # Caller
  <2>1. /\ UNCHANGED <<res, sreq, sres, executed>>
        /\ cpc'[Caller] = cpc[Caller] /\ receiver'[Caller] = receiver[Caller]
        /\ call'[Caller] = call[Caller] /\ outcome'[Caller] = outcome[Caller]
    BY <1>1, <1>2 DEF UserStep, SetReceiver, ResetReady, CheckForReady, SendRequest, IInv, TypeOK
  <2>2. (Executed(Caller)' <=> Executed(Caller)) /\ Phase' = Phase
    BY <2>1 DEF Executed, Waiting, Phase
  <2> QED BY <2>1, <2>2, Unseen
<1>3. CASE c = Caller /\ ~\E q \in Requests : SendRequest(c, q)
  <2>1. /\ UNCHANGED <<call, outcome, res, sreq, sres, executed>>
        /\ cpc[Caller] = "idle" /\ cpc'[Caller] \in {"idle", "ready"}
    BY <1>1, <1>3 DEF UserStep, SetReceiver, ResetReady, CheckForReady, IInv, TypeOK
  <2>2. ~Executed(Caller)' /\ ~Executed(Caller) /\ Phase' = Phase
    BY <2>1 DEF Executed, Waiting, Phase
  <2> QED BY <2>1, <2>2, Unseen
<1>4. CASE c = Caller /\ \E q \in Requests : SendRequest(c, q)
  <2>1. PICK q \in Requests : SendRequest(Caller, q)
    BY <1>4
  <2>2. /\ cpc[Caller] = "idle" /\ cpc'[Caller] = "send" /\ call'[Caller] = q
        /\ outcome'[Caller] = "none"
    BY <1>1, <2>1 DEF SendRequest, IInv, TypeOK
  <2>3. ~Executed(Caller) /\ ~Executed(Caller)'
    BY <2>2 DEF Executed, Waiting
  <2>4. R!Call(q)
    BY <2>2, <2>3 DEF R!Call, R!NoResult, R!NullMessage, R!Message, NullMessage, Message,
                        Phase, Shown, Returned
  <2> QED BY <2>4 DEF R!Next
<1> QED BY <1>2, <1>3, <1>4

\* The Caller's receive returns the answer of the VP it has called.
LEMMA ReceiveRefines ==
  ASSUME IInv, Receive(Caller)
  PROVE  [R!Next]_(R!vars)
<1>1. Caller \in Clients
  BY MqAssumption
<1>2. /\ cpc[Caller] = "recv" /\ responses # << >> /\ responses' = Tail(responses)
      /\ UNCHANGED <<receiver, call, sreq, sres>>
  BY DEF Receive, PutBackResponse, serverVars
<1>3. PICK m \in Envelopes(Answers \cup {Ready}) : m = Head(responses)
  BY <1>2, ResponseTaken, HeadTailProperties DEF IInv, TypeOK
<1>4. PICK p \in Vps, q \in Requests :
         p = receiver[Caller] /\ p \in met[Caller] /\ q = call[Caller] /\ InCall(p, q)
  BY <1>1, <1>2, CallIsSomewhere DEF Waiting
<1>5. CASE m.pid # p
  <2>1. UNCHANGED <<cpc, outcome, res, executed>>
    BY <1>3, <1>4, <1>5 DEF Receive, IsFor
  <2> QED BY <1>2, <2>1, UnseenStep
<1>6. CASE m.pid = p
  <2>1. m \in From(p)
    <3>1. Nowhere(responses, Greeting(p))
      BY <1>1, <1>4 DEF IInv, Meetings
    <3> QED BY <1>2, <1>3, <1>6, <3>1, ResponseTaken DEF IInv
  <2>2. ~NoResponse(p) /\ (OneResponse(p) => m = Envelope(p, sres[p]))
    BY <1>2, <1>3, <2>1, ResponseTaken DEF IInv
  <2>3. Answered(p, q) /\ m = Envelope(p, sres[p])
    BY <1>4, <2>2 DEF InCall, Queued, InTransit, Handling, Answering, Answered, Lost
  <2>4. PICK a \in Answers : a = sres[p] /\ m.body = a
    BY <2>1, <2>3 DEF From, Envelope
  <2>5. Executed(Caller) /\ Phase = "executed" /\ Shown(sres) = a
    BY <1>2, <1>4, <2>3, <2>4 DEF Executed, Waiting, Phase, Shown, Answered
  <2>6. /\ cpc' = [cpc EXCEPT ![Caller] = "idle"]
        /\ IF a.code \in {StatusError, StatusMalformed}
           THEN /\ outcome' = [outcome EXCEPT ![Caller] = "failed"]
                /\ \E n : res' = [res EXCEPT ![Caller] = [code |-> a.code, len |-> n, data |-> << >>]]
           ELSE /\ outcome' = [outcome EXCEPT ![Caller] = "ok"]
                /\ res' = [res EXCEPT ![Caller] = a]
    BY <1>3, <1>4, <1>6, <2>4 DEF Receive, IsFor, Return
  <2>7. cpc'[Caller] = "idle"
    BY <1>1, <2>6 DEF IInv, TypeOK
  <2>8. ~Executed(Caller)' /\ Phase' = "idle"
    BY <2>7 DEF Executed, Waiting, Phase
  <2>9. Returned' = R!Outcome(a)
    <3>1. a.code \in {StatusOK, StatusError, StatusMalformed}
      BY MqAssumption
    <3>2. CASE a.code = StatusOK
      BY <1>1, <2>6, <3>2
         DEF Returned, R!Outcome, R!StatusOK, StatusOK, StatusError, StatusMalformed, IInv, TypeOK
    <3>3. CASE a.code # StatusOK
      <4>1. PICK n : /\ outcome' = [outcome EXCEPT ![Caller] = "failed"]
                     /\ res' = [res EXCEPT ![Caller] = [code |-> a.code, len |-> n, data |-> << >>]]
        BY <2>6, <3>1, <3>3
      <4>2. outcome'[Caller] = "failed" /\ res'[Caller].code = a.code
        BY <1>1, <4>1 DEF IInv, TypeOK
      <4>3. Returned' = [ok |-> FALSE, message |-> Message(a.code, << >>)]
        BY <4>2 DEF Returned
      <4> QED BY <3>3, <4>3 DEF R!Outcome, R!StatusOK, R!Message, Message, StatusOK
    <3> QED BY <3>2, <3>3
  <2>10. R!Return
    BY <1>2, <2>5, <2>8, <2>9 DEF R!Return, R!NullMessage, R!Message, NullMessage, Message, Shown
  <2> QED BY <2>10 DEF R!Next
<1> QED BY <1>5, <1>6

\* The steps of the clients.
LEMMA ClientRefines ==
  ASSUME IInv, NEW c \in Clients, ClientStep(c)
  PROVE  [R!Next]_(R!vars)
<1> USE DEF queueVars, clientVars, serverVars
<1>1. Caller \in Clients
  BY MqAssumption
<1>2. CASE ReceiveReady(c)
  <2>1. /\ UNCHANGED <<receiver, call, outcome, res, sreq, sres, executed>>
        /\ c = Caller => cpc[Caller] = "ready" /\ cpc'[Caller] = "idle"
        /\ c # Caller => cpc'[Caller] = cpc[Caller]
    BY <1>1, <1>2 DEF ReceiveReady, IInv, TypeOK
  <2>2. (Executed(Caller)' <=> Executed(Caller)) /\ Phase' = Phase
    BY <2>1 DEF Executed, Waiting, Phase
  <2> QED BY <2>1, <2>2, Unseen
<1>3. CASE Send(c) /\ c # Caller
  <2>1. /\ UNCHANGED <<receiver, call, outcome, res, sreq, sres, executed>>
        /\ cpc'[Caller] = cpc[Caller]
    BY <1>1, <1>3 DEF Send, IInv, TypeOK
  <2> QED BY <2>1, UnseenStep
<1>4. CASE Send(c) /\ c = Caller
  <2>1. /\ UNCHANGED <<receiver, call, outcome, res, sreq, sres, executed>>
        /\ cpc[Caller] = "send" /\ cpc'[Caller] = "recv"
    BY <1>1, <1>4 DEF Send, IInv, TypeOK
  <2>2. PICK p \in Vps : p = receiver[Caller] /\ p \in met[Caller]
    BY <1>1, <2>1 DEF IInv, Meetings, TypeOK
  <2>3. \A d \in Clients : ~Calls(d, p)
    BY <1>1, <2>1, <2>2, OneCaller DEF IInv, Calls, Waiting
  <2>4. p \notin executed
    BY <2>3 DEF IInv, Sessions, Unused
  <2>5. (Executed(Caller)' <=> Executed(Caller)) /\ Phase' = Phase
    BY <2>1, <2>2, <2>4 DEF Executed, Waiting, Phase
  <2> QED BY <2>1, <2>5, Unseen
<1>5. CASE Receive(c) /\ c = Caller
  BY <1>5, ReceiveRefines
<1>6. CASE Receive(c) /\ c # Caller
  <2>1. /\ UNCHANGED <<receiver, call, sreq, sres>>
        /\ cpc[c] = "recv" /\ cpc'[Caller] = cpc[Caller]
        /\ outcome'[Caller] = outcome[Caller] /\ res'[Caller] = res[Caller]
        /\ executed' = executed \/ executed' = executed \ {receiver[c]}
    BY <1>1, <1>6 DEF Receive, Return, IInv, TypeOK
  <2>2. receiver[c] \in Vps /\ receiver[c] \in met[c]
    BY <2>1, CallIsSomewhere DEF Waiting
  <2>3. Waiting(Caller) => receiver[Caller] # receiver[c]
    BY <1>1, <1>6, <2>2, OneCaller DEF IInv, Waiting
  <2>4. Waiting(Caller) => (receiver[Caller] \in executed' <=> receiver[Caller] \in executed)
    BY <2>1, <2>3
  <2>5. (Executed(Caller)' <=> Executed(Caller)) /\ Phase' = Phase
    BY <2>1, <2>4 DEF Executed, Waiting, Phase
  <2> QED BY <2>1, <2>5, Unseen
<1> QED BY <1>2, <1>3, <1>4, <1>5, <1>6 DEF ClientStep

\* The VP that the Caller has called executes its request; what another VP
\* receives and executes is not seen.
LEMMA VpRefines ==
  ASSUME IInv, NEW v \in Vps, StartStep(v) \/ TakeRequest(v) \/ ServerStep(v)
  PROVE  [R!Next]_(R!vars)
<1> USE DEF queueVars, clientVars, serverVars
<1>1. Caller \in Clients
  BY MqAssumption
<1>2. CASE Start(v) \/ PutBackRequest(v) \/ SendResponse(v)
  <2>1. UNCHANGED <<cpc, receiver, call, outcome, res, sreq, sres, executed>>
    BY <1>2 DEF Start, PutBackRequest, SendResponse
  <2> QED BY <2>1, UnseenStep
<1>3. CASE ReceiveRequest(v)
  <2>1. /\ UNCHANGED <<cpc, receiver, call, outcome, res, sres, executed>>
        /\ requests # << >> /\ requests' = Tail(requests)
        /\ Accepts(v, Head(requests)) \/ UNCHANGED sreq
        /\ \A w \in Vps : w # v => sreq'[w] = sreq[w]
    BY <1>3 DEF ReceiveRequest, IInv, TypeOK
  <2>2. Executed(Caller) => sreq'[receiver[Caller]] = sreq[receiver[Caller]]
    <3> SUFFICES ASSUME Executed(Caller), receiver[Caller] = v, Accepts(v, Head(requests))
                 PROVE  FALSE
      BY <1>1, <2>1, CallIsSomewhere DEF Executed
    <3>1. PICK q \in Requests : InCall(v, q) /\ v \in executed
      BY <1>1, CallIsSomewhere DEF Executed
    <3>2. NoRequest(v)
      BY <3>1 DEF InCall, Queued, InTransit, Handling, Answering, Answered, Lost
    <3>3. Head(requests).pid = v
      <4>1. Head(requests) \in Envelopes(Requests)
        BY <2>1, RequestTaken DEF IInv
      <4> QED BY <4>1, MqAssumption DEF Accepts, Envelopes
    <3> QED BY <2>1, <3>2, <3>3, RequestTaken DEF IInv
  <2> QED BY <2>1, <2>2, UnseenStep
<1>4. ASSUME NEW a \in Answers, HandleRequest(v, a)
      PROVE  [R!Next]_(R!vars)
  <2>1. /\ UNCHANGED <<cpc, receiver, call, outcome, res, sreq>>
        /\ spc[v] = "handle" /\ executed' = executed \cup {v} /\ sres'[v] = a
        /\ \A w \in Vps : w # v => sres'[w] = sres[w]
    BY <1>4 DEF HandleRequest, IInv, TypeOK
  <2>2. CASE ~Waiting(Caller)
    BY <2>1, <2>2, UnseenStep DEF Executed
  <2>3. CASE Waiting(Caller) /\ receiver[Caller] # v
    BY <1>1, <2>1, <2>3, UnseenStep, CallIsSomewhere DEF Executed
  <2>4. CASE Waiting(Caller) /\ receiver[Caller] = v
    <3>1. InCall(v, call[Caller])
      BY <1>1, <2>4, CallIsSomewhere
    <3>2. v \notin executed /\ sreq[v] = call[Caller]
      BY <2>1, <3>1 DEF InCall, Queued, InTransit, Handling, Answering, Answered, Lost, Busy
    <3>3. ~Executed(Caller) /\ Executed(Caller)' /\ Phase = "called" /\ Phase' = "executed"
      BY <2>1, <2>4, <3>2 DEF Executed, Waiting, Phase
    <3>4. Shown(sreq)' = call[Caller] /\ Shown(sres)' = a
      BY <2>1, <2>4, <3>2, <3>3 DEF Shown
    <3>5. Returned' = Returned
      BY <2>1 DEF Returned
    <3>6. R!Execute(a)
      BY <2>1, <3>3, <3>4, <3>5 DEF R!Execute
    <3> QED BY <3>6 DEF R!Next
  <2> QED BY <2>2, <2>3, <2>4
<1> QED BY <1>2, <1>3, <1>4 DEF StartStep, TakeRequest, ServerStep

\* A call is executed once, as it was sent and by the VP it was sent to, and
\* returns its own response, with any number of clients and VPs on the two queues.
THEOREM RpcRefinement ==
  ASSUME Patient
  PROVE  Spec => ImplementsRpcSafely
<1>1. Init => R!Init
  BY MqAssumption
     DEF Init, R!Init, R!NullMessage, R!NoResult, R!Message, Phase, Shown, Returned, Executed,
         Waiting, NullMessage, Message
<1>2. IInv /\ [Next]_vars => [R!Next]_(R!vars)
  <2> SUFFICES ASSUME IInv, [Next]_vars PROVE [R!Next]_(R!vars)
    OBVIOUS
  <2>1. CASE \E p \in Clients \cup Vps : Exit(p)
    <3>1. UNCHANGED <<cpc, receiver, call, outcome, res, sreq, sres, executed>>
      BY <2>1 DEF Exit, clientVars, serverVars
    <3> QED BY <3>1, UnseenStep
  <2>2. CASE UNCHANGED vars
    BY <2>2, UnseenStep DEF vars, clientVars, serverVars
  <2> QED BY <2>1, <2>2, UserRefines, ClientRefines, VpRefines DEF Next
<1>9. Spec => []IInv
  BY Invariance
<1> QED BY <1>1, <1>2, <1>9, PTL DEF Spec, ImplementsRpcSafely, R!SafeSpec

-----------------------------------------------------------------------------
(***************************************************************************)
(* How a response can be lost, with any number of clients and VPs.         *)
(***************************************************************************)
\* Taking a message of another VP leaves the responses of a VP in the queue.
LEMMA OthersTaken ==
  ASSUME TypeOK, responses # << >>, responses' = Tail(responses), NEW p,
         Head(responses).pid # p, InResponses(p) # {}
  PROVE  InResponses(p)' # {}
<1>1. /\ Head(responses) = responses[1] /\ Len(responses) \in Nat \ {0}
      /\ Len(Tail(responses)) = Len(responses) - 1
      /\ \A i \in 1 .. Len(responses) - 1 : Tail(responses)[i] = responses[i + 1]
  BY Taken DEF TypeOK
<1>2. PICK i \in 1 .. Len(responses) : responses[i].pid = p /\ responses[i].body # Ready
  BY DEF InResponses
<1>3. i - 1 \in 1 .. Len(responses') /\ responses'[i - 1] = responses[i]
  BY <1>1, <1>2
<1> QED BY <1>2, <1>3 DEF InResponses

\* Sending a message leaves what is in the queue there, and adds the message.
LEMMA ResponseStays ==
  ASSUME TypeOK, NEW e \in Envelopes(Answers \cup {Ready}),
         responses' = Append(responses, e), NEW p,
         InResponses(p) # {} \/ (e.pid = p /\ e.body # Ready)
  PROVE  InResponses(p)' # {}
<1>1. Len(responses) \in Nat
  BY LenProperties DEF TypeOK
<1>2. /\ Len(responses') = Len(responses) + 1
      /\ \A i \in 1 .. Len(responses) : responses'[i] = responses[i]
      /\ responses'[Len(responses) + 1] = e
  BY Appended DEF TypeOK
<1>3. CASE InResponses(p) # {}
  <2>1. PICK i \in 1 .. Len(responses) : responses[i].pid = p /\ responses[i].body # Ready
    BY <1>3 DEF InResponses
  <2>2. i \in 1 .. Len(responses') /\ responses'[i] = responses[i]
    BY <1>1, <1>2
  <2> QED BY <2>1, <2>2 DEF InResponses
<1>4. CASE e.pid = p /\ e.body # Ready
  <2>1. Len(responses) + 1 \in 1 .. Len(responses')
    BY <1>1, <1>2
  <2> QED BY <1>2, <1>4, <2>1 DEF InResponses
<1> QED BY <1>3, <1>4

\* The two ways for the steps of the clients: only a receive takes a response.
LEMMA ClientLoses ==
  ASSUME IInv, NEW c \in Clients, ResponseLost(c)', NEW d \in Clients, ClientStep(d)
  PROVE  ResponseLost(c) \/ TakenByAnother(c)
<1> USE DEF queueVars, clientVars, serverVars
<1>1. cpc'[c] = "recv" /\ receiver' = receiver /\ spc' = spc /\ receiver[c] \in executed'
  BY DEF ResponseLost, Executed, Waiting, ClientStep, ReceiveReady, Send, Receive
<1>2. CASE Send(d)
  <2>1. UNCHANGED <<responses, executed>>
    BY <1>2 DEF Send
  <2>2. d # c
    <3> SUFFICES ASSUME d = c PROVE FALSE
      OBVIOUS
    <3>1. cpc[c] = "send"
      BY <1>2 DEF Send
    <3>2. PICK p \in Vps : p = receiver[c] /\ p \in met[c]
      BY <3>1 DEF IInv, Meetings, TypeOK
    <3>3. Unused(p)
      BY <3>1, <3>2, OneCaller DEF IInv, Sessions, Calls, Waiting
    <3> QED BY <1>1, <2>1, <3>2, <3>3 DEF Unused
  <2>3. cpc[c] = "recv"
    BY <1>1, <1>2, <2>2 DEF Send, IInv, TypeOK
  <2> QED BY <1>1, <2>1, <2>3 DEF ResponseLost, Executed, Waiting, InResponses
<1>3. CASE ReceiveReady(d) \/ Receive(d)
  <2>1. /\ d \notin gone /\ cpc[d] \in {"ready", "recv"}
        /\ responses # << >> /\ responses' = Tail(responses)
        /\ executed' \subseteq executed
    BY <1>3 DEF ClientStep, ReceiveReady, Receive, PutBackResponse
  <2>2. cpc[c] = "recv"
    BY <1>1, <1>3 DEF ReceiveReady, Receive, Return, IInv, TypeOK
  <2>3. CASE Head(responses).pid = receiver[c]
    <3>1. d # c
      BY <1>1, <1>3, <2>2, <2>3 DEF ReceiveReady, Receive, Return, IsFor, IInv, TypeOK
    <3> QED BY <2>1, <2>3, <3>1 DEF TakenByAnother, AnotherTakes
  <2>4. CASE Head(responses).pid # receiver[c]
    <3>1. PICK p : p = receiver[c]
      OBVIOUS
    <3>2. InResponses(p) = {}
      <4>1. InResponses(p)' = {}
        BY <1>1, <3>1 DEF ResponseLost, InResponses
      <4> QED BY <2>1, <2>4, <3>1, <4>1, OthersTaken DEF IInv
    <3> QED BY <1>1, <2>1, <2>2, <3>1, <3>2 DEF ResponseLost, Executed, Waiting
  <2> QED BY <2>3, <2>4
<1> QED BY <1>2, <1>3 DEF ClientStep

\* And for the steps of the VPs: only a response that is too long is not sent.
LEMMA VpLoses ==
  ASSUME IInv, NEW c \in Clients, ResponseLost(c)',
         NEW w \in Vps, StartStep(w) \/ TakeRequest(w) \/ ServerStep(w)
  PROVE  \/ ResponseLost(c)
         \/ receiver[c] \in Vps /\ spc[receiver[c]] = "send" /\ ~Fits(sres[receiver[c]])
<1> USE DEF queueVars, clientVars, serverVars
<1>1. cpc' = cpc /\ receiver' = receiver
  BY DEF StartStep, TakeRequest, ServerStep, Start, ReceiveRequest, PutBackRequest,
         HandleRequest, SendResponse
<1>2. PICK p \in Vps : p = receiver[c]
  BY <1>1, CallIsSomewhere DEF ResponseLost, Executed, Waiting
<1>3. /\ Waiting(c) /\ p \in executed' /\ spc'[p] # "send" /\ InResponses(p)' = {}
  BY <1>1, <1>2 DEF ResponseLost, Executed, Waiting, InResponses
<1>4. p \in executed /\ spc[p] # "send" /\ InResponses(p) = {} => ResponseLost(c)
  BY <1>2, <1>3 DEF ResponseLost, Executed
<1>5. CASE Start(w)
  <2>1. Envelope(w, Ready) \in Envelopes(Answers \cup {Ready})
    BY DEF Envelope, Envelopes
  <2>2. /\ executed' = executed /\ responses' = Append(responses, Envelope(w, Ready))
        /\ spc[p] # "send"
    BY <1>3, <1>5 DEF Start, IInv, TypeOK
  <2> QED BY <1>3, <1>4, <2>1, <2>2, ResponseStays DEF IInv
<1>6. CASE ReceiveRequest(w) \/ PutBackRequest(w)
  <2>1. executed' = executed /\ responses' = responses /\ spc[p] # "send"
    BY <1>3, <1>6 DEF ReceiveRequest, PutBackRequest, IInv, TypeOK
  <2> QED BY <1>3, <1>4, <2>1 DEF InResponses
<1>7. CASE \E a \in Answers : HandleRequest(w, a)
  <2>1. w # p
    BY <1>3, <1>7 DEF HandleRequest, IInv, TypeOK
  <2>2. p \in executed /\ responses' = responses /\ spc[p] # "send"
    BY <1>3, <1>7, <2>1 DEF HandleRequest, IInv, TypeOK
  <2> QED BY <1>3, <1>4, <2>2 DEF InResponses
<1>8. CASE SendResponse(w)
  <2>1. sres[w] \in Answers /\ spc[w] = "send" /\ executed' = executed
    BY <1>8 DEF SendResponse, IInv, Hands
  <2>2. CASE ~Fits(sres[w]) /\ UNCHANGED responses
    <3>1. w = p \/ spc[p] # "send"
      BY <1>3, <1>8 DEF SendResponse, IInv, TypeOK
    <3> QED BY <1>2, <1>3, <1>4, <2>1, <2>2, <3>1 DEF InResponses
  <2>3. CASE responses' = Append(responses, Envelope(w, sres[w]))
    <3> DEFINE e == Envelope(w, sres[w])
    <3>1. e \in Envelopes(Answers \cup {Ready}) /\ e.pid = w /\ e.body # Ready
      BY <2>1, MqAssumption DEF Envelope, Envelopes
    <3> HIDE DEF e
    <3>2. InResponses(p) = {} /\ w # p
      BY <1>3, <2>3, <3>1, ResponseStays DEF IInv, e
    <3>3. spc[p] # "send"
      BY <1>3, <1>8, <3>2 DEF SendResponse, IInv, TypeOK
    <3> QED BY <1>3, <1>4, <2>1, <3>2, <3>3
  <2> QED BY <1>8, <2>2, <2>3 DEF SendResponse
<1> QED BY <1>5, <1>6, <1>7, <1>8 DEF StartStep, TakeRequest, ServerStep

\* A response that is lost was longer than a message, or another client has taken
\* it: there is no third way in any interleaving.
LEMMA LossStep ==
  ASSUME IInv, [Next]_vars, NEW c \in Clients, ResponseLost(c)'
  PROVE  \/ ResponseLost(c)
         \/ receiver[c] \in Vps /\ spc[receiver[c]] = "send" /\ ~Fits(sres[receiver[c]])
         \/ TakenByAnother(c)
<1> USE DEF queueVars, clientVars, serverVars
<1>1. CASE \E d \in Clients : UserStep(d)
  <2>1. cpc'[c] = "recv" /\ UNCHANGED <<responses, spc, executed>>
    BY <1>1 DEF ResponseLost, Executed, Waiting, UserStep, SetReceiver, ResetReady,
                CheckForReady, SendRequest
  <2>2. cpc[c] = "recv" /\ receiver'[c] = receiver[c]
    BY <1>1, <2>1 DEF UserStep, SetReceiver, ResetReady, CheckForReady, SendRequest, IInv, TypeOK
  <2> QED BY <2>1, <2>2 DEF ResponseLost, Executed, Waiting, InResponses
<1>2. CASE (\E p \in Clients \cup Vps : Exit(p)) \/ UNCHANGED vars
  <2>1. UNCHANGED <<cpc, receiver, responses, spc, executed>>
    BY <1>2 DEF Exit, vars
  <2> QED BY <2>1 DEF ResponseLost, Executed, Waiting, InResponses
<1> QED BY <1>1, <1>2, ClientLoses, VpLoses DEF Next

THEOREM LossesAreExplained ==
  ASSUME Patient
  PROVE  Spec => LossesExplained
<1>1. ASSUME IInv, [Next]_vars
      PROVE  \A c \in Clients : ResponseLost(c)' =>
                \/ ResponseLost(c)
                \/ spc[receiver[c]] = "send" /\ ~Fits(sres[receiver[c]])
                \/ TakenByAnother(c)
  BY <1>1, LossStep
<1>9. Spec => []IInv
  BY Invariance
<1> QED BY <1>1, <1>9, PTL DEF Spec, LossesExplained

\* check_for_ready blocks only because of another client: it has seen a message, and
\* none but a client takes one.
LEMMA BlocksStep ==
  ASSUME IInv, [Next]_vars, NEW c \in Clients, Blocks(c)'
  PROVE  Blocks(c) \/ AnotherTakes(c)
<1> USE DEF queueVars, clientVars, serverVars
<1>1. cpc'[c] = "ready" /\ responses' = << >>
  BY DEF Blocks
<1>2. CASE responses' = responses
  <2>1. cpc[c] = "ready"
    <3>1. CASE \E d \in Clients : UserStep(d)
      <4>1. PICK d \in Clients : UserStep(d)
        BY <3>1
      <4>2. ~CheckForReady(d)
        BY <1>1, <1>2 DEF CheckForReady
      <4> QED BY <1>1, <4>1, <4>2 DEF UserStep, SetReceiver, ResetReady, SendRequest, IInv, TypeOK
    <3>2. CASE \E d \in Clients : ClientStep(d)
      BY <1>1, <3>2 DEF ClientStep, ReceiveReady, Send, Receive, Return, IInv, TypeOK
    <3>3. CASE \E w \in Vps : StartStep(w) \/ TakeRequest(w) \/ ServerStep(w)
      BY <1>1, <3>3 DEF StartStep, TakeRequest, ServerStep, Start, ReceiveRequest,
                        PutBackRequest, HandleRequest, SendResponse
    <3>4. CASE (\E p \in Clients \cup Vps : Exit(p)) \/ UNCHANGED vars
      BY <1>1, <3>4 DEF Exit, vars
    <3> QED BY <3>1, <3>2, <3>3, <3>4 DEF Next
  <2> QED BY <1>1, <1>2, <2>1 DEF Blocks
<1>3. CASE responses' # responses
  <2>1. PICK d \in Clients : ClientStep(d) /\ (ReceiveReady(d) \/ Receive(d))
    <3>1. ASSUME NEW w \in Vps, StartStep(w) \/ TakeRequest(w) \/ ServerStep(w) PROVE FALSE
      <4>1. PICK e \in Envelopes(Answers \cup {Ready}) : responses' = Append(responses, e)
        BY <1>3, <3>1 DEF StartStep, TakeRequest, ServerStep, Start, ReceiveRequest,
                          PutBackRequest, HandleRequest, SendResponse, IInv, Hands,
                          Envelope, Envelopes
      <4>2. Len(responses') = Len(responses) + 1 /\ Len(responses) \in Nat
        BY <4>1, Appended, LenProperties DEF IInv, TypeOK
      <4>3. Len(<< >>) = 0
        OBVIOUS
      <4> QED BY <1>1, <4>2, <4>3
    <3> QED BY <1>3, <3>1 DEF Next, UserStep, SetReceiver, ResetReady, CheckForReady,
               SendRequest, ClientStep, Send, Exit, vars
  <2>2. /\ d \notin gone /\ cpc[d] \in {"ready", "recv"}
        /\ responses # << >> /\ responses' = Tail(responses)
    BY <2>1 DEF ClientStep, ReceiveReady, Receive, PutBackResponse
  <2>3. d # c
    BY <1>1, <2>1 DEF ReceiveReady, Receive, Return, IInv, TypeOK
  <2> QED BY <2>2, <2>3 DEF AnotherTakes
<1> QED BY <1>2, <1>3

THEOREM BlocksBecauseOfOthers ==
  ASSUME Patient
  PROVE  Spec => BlocksByOthersOnly
<1>1. ASSUME IInv, [Next]_vars
      PROVE  \A c \in Clients : Blocks(c)' => Blocks(c) \/ AnotherTakes(c)
  BY <1>1, BlocksStep
<1>9. Spec => []IInv
  BY Invariance
<1> QED BY <1>1, <1>9, PTL DEF Spec, BlocksByOthersOnly

-----------------------------------------------------------------------------
(***************************************************************************)
(* What holds as long as there is one client.                              *)
(***************************************************************************)
\* The only client's response is never lost, when every answer fits into a
\* message: it is the VP's, or in the queue, until the client receives it.
THEOREM OneClientsResponsesAreKept ==
  ASSUME Patient, Clients = {Caller}, \A a \in Answers : Fits(a)
  PROVE  Spec => []ResponsesKept
<1>1. Init => ResponsesKept
  BY DEF Init, ResponsesKept, ResponseLost, Executed
<1>2. ASSUME IInv, ResponsesKept, [Next]_vars PROVE ResponsesKept'
  <2> SUFFICES ASSUME ResponseLost(Caller)' PROVE FALSE
    BY DEF ResponsesKept
  <2>1. ~ResponseLost(Caller) /\ ~TakenByAnother(Caller)
    BY <1>2 DEF ResponsesKept, TakenByAnother, AnotherTakes
  <2>2. /\ receiver[Caller] \in Vps
        /\ spc[receiver[Caller]] = "send" /\ ~Fits(sres[receiver[Caller]])
    BY <1>2, <2>1, LossStep
  <2> QED BY <1>2, <2>2 DEF IInv, Hands
<1>9. Spec => []IInv
  BY Invariance
<1> QED BY <1>1, <1>2, <1>9, PTL DEF Spec

=============================================================================
