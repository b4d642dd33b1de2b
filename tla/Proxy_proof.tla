---------------------------- MODULE Proxy_proof -----------------------------
(***************************************************************************)
(* Proofs about the proxy, for any set of requests, whatever they consist   *)
(* of, and either setting of --allow-partial: its types, what it never      *)
(* sends, the abstract gate it implements; then what it sends, what the     *)
(* backend takes for the query, and the headers that tell what a            *)
(* translation cost.                                                        *)
(***************************************************************************)
EXTENDS Proxy, TLAPS

USE PolicyAssumption, ContentsAssumption

(* What a caller does while its request is handled. *)
CallerStep(r) == DeliverBody(r) \/ Disconnect(r) \/ Stall(r)

-----------------------------------------------------------------------------
(* Type correctness. *)

(* Reading a request yields parameters of the right type. *)
LEMMA ReceivedType == ASSUME NEW c \in Contents PROVE Received(c) \in Inbound
  BY DEF Received, Inbound, Content, Absent, Texts, Queries

(* Rewriting one parameter keeps the others, and their types. *)
LEMMA SetType ==
  ASSUME NEW in \in Inbound, NEW param, NEW value \in Texts
  PROVE  set(in, param, value) \in Inbound
  BY DEF set, Inbound

(* What the translator writes is a text a parameter may hold. *)
LEMMA TranslationType ==
  ASSUME NEW q \in DOMAIN Translation PROVE Translation[q] \in Texts
  BY DEF Outputs, Texts

(* Every variable has its type to begin with. *)
LEMMA TypeInit == Init => TypeOK
<1>1. Absent \in [Params -> Texts]
  BY DEF Absent, Texts
<1>2. Unread \in Inbound
  BY <1>1 DEF Unread, Inbound
<1>3. NotSent \in [sent : BOOLEAN, in : Inbound]
  BY <1>2 DEF NotSent
<1>4. NoAnswer \in AnswerRecord
  BY DEF NoAnswer, AnswerRecord
<1> QED BY <1>2, <1>3, <1>4 DEF Init, TypeOK

(* An answer remains one as it comes in. *)
LEMMA AnswerTypes ==
  ASSUME NEW a \in AnswerRecord
  PROVE  /\ FromBackend(a) \in AnswerRecord /\ CutShort(a) \in AnswerRecord
         /\ CutShort(a).by = a.by
  BY DEF AnswerRecord, FromBackend, CutShort

(* An answer of the proxy's own is an answer. *)
LEMMA ConcludeType ==
  ASSUME TypeOK, NEW r \in Request, NEW status \in {"200", "400", "502"},
         NEW costed \in BOOLEAN, Conclude(r, status, costed)
  PROVE  /\ phase' \in [Request -> Handling \cup {"idle", "answered", "cut off"}]
         /\ answer' \in [Request -> AnswerRecord]
<1>1. ByProxy(status, costed) \in AnswerRecord
  BY DEF ByProxy, AnswerRecord
<1> QED BY <1>1 DEF TypeOK, Conclude

(* Every step keeps the types: one case per action. *)
LEMMA TypeNext == TypeOK /\ [Next]_vars => TypeOK'
<1> SUFFICES ASSUME TypeOK, [Next]_vars PROVE TypeOK'
  OBVIOUS
<1>1. ASSUME NEW r \in Request, Accept(r) \/ CallerStep(r)
      PROVE  TypeOK'
  BY <1>1 DEF TypeOK, Accept, CallerStep, DeliverBody, Disconnect, Stall, Handling
<1>2. ASSUME NEW r \in Request,
             HandleHealth(r) \/ RejectRequest(r) \/ FailTranslation(r) \/ Refuse(r)
      PROVE  TypeOK'
  <2>1. \E status \in {"200", "400"}, costed \in BOOLEAN : Conclude(r, status, costed)
    BY <1>2 DEF HandleHealth, RejectRequest, FailTranslation, Refuse
  <2>2. /\ phase' \in [Request -> Handling \cup {"idle", "answered", "cut off"}]
        /\ answer' \in [Request -> AnswerRecord]
    BY <2>1, ConcludeType
  <2> QED
    BY <1>2, <2>2 DEF TypeOK, HandleHealth, RejectRequest, FailTranslation, Refuse
<1>3. ASSUME NEW r \in Request, FailUpstream(r) PROVE TypeOK'
  <2>1. answer[r].costed \in BOOLEAN
    BY DEF TypeOK, AnswerRecord
  <2>2. /\ phase' \in [Request -> Handling \cup {"idle", "answered", "cut off"}]
        /\ answer' \in [Request -> AnswerRecord]
    BY <1>3, <2>1, ConcludeType DEF FailUpstream
  <2> QED BY <1>3, <2>2 DEF TypeOK, FailUpstream
<1>4. ASSUME NEW r \in Request, ReadRequest(r) PROVE TypeOK'
  <2>1. Received(content[r]) \in Inbound
    BY ReceivedType DEF TypeOK
  <2> QED BY <1>4, <2>1 DEF TypeOK, ReadRequest, Handling
<1>5. ASSUME NEW r \in Request, Translate(r) PROVE TypeOK'
  <2>1. inbound[r] \in Inbound
    BY DEF TypeOK
  <2>2. Translation[Query(inbound[r])] \in Texts
    BY <1>5, TranslationType DEF Translate
  <2>3. set(inbound[r], findQuery(inbound[r])[2], Translation[Query(inbound[r])]) \in Inbound
    BY <2>1, <2>2, SetType
  <2>4. inbound' \in [Request -> Inbound]
    BY <1>5, <2>3 DEF Translate, TypeOK
  <2>5. answer' \in [Request -> AnswerRecord]
    <3>1. answer[r] \in AnswerRecord
      BY DEF TypeOK
    <3>2. Costed(answer[r]) \in AnswerRecord
      BY <3>1 DEF AnswerRecord, Costed
    <3> QED BY <1>5, <3>2 DEF Translate, TypeOK
  <2>6. phase' \in [Request -> Handling \cup {"idle", "answered", "cut off"}]
    BY <1>5 DEF Translate, TypeOK, Handling
  <2>7. UNCHANGED <<content, delivered, client, upstream, framing, server>>
    BY <1>5 DEF Translate
  <2> QED BY <2>4, <2>5, <2>6, <2>7 DEF TypeOK
<1>6. ASSUME NEW r \in Request, PassThrough(r) \/ FinishResponse(r) PROVE TypeOK'
  BY <1>6 DEF TypeOK, PassThrough, FinishResponse, Handling
<1>7. ASSUME NEW r \in Request, Send(r) PROVE TypeOK'
  BY <1>7 DEF TypeOK, Send, Handling
<1>8. ASSUME NEW r \in Request, StartResponse(r) PROVE TypeOK'
  <2>1. FromBackend(answer[r]) \in AnswerRecord
    BY AnswerTypes DEF TypeOK
  <2>2. answer' \in [Request -> AnswerRecord]
    BY <1>8, <2>1 DEF TypeOK, StartResponse
  <2>3. framing' \in [Request -> {"none", "length", "chunked"}]
    BY <1>8 DEF TypeOK, StartResponse
  <2> QED BY <1>8, <2>2, <2>3 DEF TypeOK, StartResponse, Handling
<1>12. ASSUME NEW r \in Request, BreakResponse(r) PROVE TypeOK'
  <2>1. CutShort(answer[r]) \in AnswerRecord
    BY AnswerTypes DEF TypeOK
  <2>2. answer' \in [Request -> AnswerRecord]
    BY <1>12, <2>1 DEF TypeOK, BreakResponse
  <2> QED BY <1>12, <2>2 DEF TypeOK, BreakResponse
<1>9. ASSUME Signal \/ Drained PROVE TypeOK'
  BY <1>9 DEF TypeOK, Signal, Drained
<1>10. ASSUME GraceExpires PROVE TypeOK'
  BY <1>10 DEF TypeOK, GraceExpires
<1>11. ASSUME UNCHANGED vars PROVE TypeOK'
  BY <1>11 DEF TypeOK, vars
<1> QED
  BY <1>1, <1>2, <1>3, <1>4, <1>5, <1>6, <1>7, <1>8, <1>9, <1>10, <1>11, <1>12
  DEF Next, CallerStep, Step, Exited

(* Every variable of the proxy keeps its type (server.go, main.go serve). *)
THEOREM TypeCorrect == Spec => []TypeOK
  BY TypeInit, TypeNext, PTL DEF Spec

-----------------------------------------------------------------------------
(* The gate.  FailClosed speaks of what the caller sent and what the backend  *)
(* received; between the two lie the handler's own copy of the parameters,    *)
(* which must still be what was read when it is judged, and the decision,     *)
(* which must still hold when the request is sent.                            *)

Judged == {"sending", "awaiting", "copying"}

Gated(r) ==
    /\ phase[r] = "read" =>
          inbound[r] = Received(content[r]) /\ ~Unreadable(content[r])
    /\ phase[r] \in Judged => Posed(content[r]) \in MayBeAsked
    /\ upstream[r].sent => /\ Posed(content[r]) \in MayBeAsked
                           /\ phase[r] \in {"awaiting", "copying", "answered", "cut off"}
    /\ phase[r] \in {"awaiting", "copying"} => upstream[r].sent
    /\ phase[r] = "copying" => answer[r].by = "backend"
    /\ (phase[r] = "answered" /\ ~upstream[r].sent) => answer[r].by = "proxy"
    /\ phase[r] = "answered" => answer[r].by \in {"proxy", "backend"}

GateInv == \A r \in Request : Gated(r)

(* A query that translates may be asked just when the policy lets it through. *)
LEMMA AllowedMayBeAsked ==
  ASSUME NEW q \in DOMAIN Translation PROVE q \in MayBeAsked <=> Allowed(q)
  BY DEF Translation, Allowed, MayBeAsked

(* Nothing has been sent or answered to begin with. *)
LEMMA GateInit == Init => GateInv
<1> SUFFICES ASSUME Init, NEW r \in Request PROVE Gated(r)
  BY DEF GateInv
<1>1. phase[r] = "idle" /\ upstream[r] = NotSent
  BY DEF Init
<1>2. ~upstream[r].sent
  BY <1>1 DEF NotSent
<1> QED BY <1>1, <1>2 DEF Gated, Judged

(* A request keeps its part of the invariant while its handler is where it was. *)
LEMMA GateFrame ==
  ASSUME NEW r \in Request, Gated(r),
         content' = content, phase'[r] = phase[r], inbound'[r] = inbound[r],
         upstream'[r] = upstream[r], answer'[r] = answer[r]
  PROVE  Gated(r)'
  BY DEF Gated

(* A request the proxy answers itself keeps it too. *)
LEMMA GateConclude ==
  ASSUME TypeOK, NEW r \in Request, Gated(r), NEW status, NEW costed,
         Conclude(r, status, costed), content' = content, upstream' = upstream
  PROVE  Gated(r)'
<1>1. phase'[r] = "answered" /\ answer'[r] = ByProxy(status, costed)
  BY DEF Conclude, TypeOK
<1>2. answer'[r].by = "proxy"
  BY <1>1 DEF ByProxy
<1> QED BY <1>1, <1>2 DEF Gated, Judged

(* What a handler's step leaves alone: every other request. *)
LEMMA StepFrame ==
  ASSUME TypeOK, NEW r \in Request, NEW s \in Request, s # r,
         Accept(r) \/ CallerStep(r) \/ Step(r)
  PROVE  /\ content' = content /\ phase'[s] = phase[s] /\ inbound'[s] = inbound[s]
         /\ upstream'[s] = upstream[s] /\ answer'[s] = answer[s] /\ client'[s] = client[s]
<1>1. CASE Accept(r) \/ CallerStep(r)
  BY <1>1 DEF TypeOK, Accept, CallerStep, DeliverBody, Disconnect, Stall
<1>2. CASE HandleHealth(r) \/ RejectRequest(r) \/ FailTranslation(r) \/ Refuse(r)
             \/ FailUpstream(r)
  BY <1>2 DEF TypeOK, HandleHealth, RejectRequest, FailTranslation, Refuse, FailUpstream,
              Conclude
<1>3. CASE ReadRequest(r) \/ PassThrough(r) \/ Translate(r)
  BY <1>3 DEF TypeOK, ReadRequest, PassThrough, Translate
<1>4. CASE Send(r) \/ StartResponse(r) \/ FinishResponse(r) \/ BreakResponse(r)
  BY <1>4 DEF TypeOK, Send, StartResponse, FinishResponse, BreakResponse
<1> QED BY <1>1, <1>2, <1>3, <1>4 DEF Step

(* What it does to its own. *)
LEMMA GateStep ==
  ASSUME TypeOK, NEW r \in Request, Gated(r),
         Accept(r) \/ CallerStep(r) \/ Step(r)
  PROVE  Gated(r)'
<1>1. CASE Accept(r)
  BY <1>1 DEF Accept, TypeOK, Gated, Judged
<1>2. CASE CallerStep(r)
  BY <1>2, GateFrame DEF CallerStep, DeliverBody, Disconnect, Stall
<1>3. CASE HandleHealth(r) \/ RejectRequest(r) \/ FailTranslation(r) \/ Refuse(r)
             \/ FailUpstream(r)
  BY <1>3, GateConclude DEF HandleHealth, RejectRequest, FailTranslation, Refuse, FailUpstream
<1>4. CASE ReadRequest(r)
  BY <1>4 DEF ReadRequest, AtRead, TypeOK, Gated, Judged
<1>5. CASE PassThrough(r)
  <2>1. Posed(content[r]) = "no query"
    BY <1>5 DEF PassThrough, CarriesQuery, Posed, Gated
  <2>2. Posed(content[r]) \in MayBeAsked
    BY <2>1 DEF MayBeAsked
  <2> QED BY <1>5, <2>2 DEF PassThrough, TypeOK, Gated, Judged
<1>6. CASE Translate(r)
  <2>1. inbound[r] = Received(content[r])
    BY <1>6 DEF Translate, Gated
  <2>2. Posed(content[r]) = Query(inbound[r])
    BY <1>6, <2>1 DEF Translate, CarriesQuery, Posed
  <2>3. Posed(content[r]) \in MayBeAsked
    BY <1>6, <2>2, AllowedMayBeAsked DEF Translate
  <2>4. phase'[r] = "sending" /\ content' = content /\ upstream' = upstream
    BY <1>6 DEF Translate, TypeOK
  <2>5. ~upstream[r].sent
    BY <1>6 DEF Translate, Gated
  <2> QED BY <2>3, <2>4, <2>5 DEF Gated, Judged
<1>7. CASE Send(r)
  <2>1. Posed(content[r]) \in MayBeAsked
    BY <1>7 DEF Send, Gated, Judged
  <2>2. upstream'[r].sent /\ phase'[r] = "awaiting" /\ content' = content
    BY <1>7 DEF Send, TypeOK
  <2> QED BY <2>1, <2>2 DEF Gated, Judged
<1>8. CASE StartResponse(r)
  <2>1. phase'[r] = "copying" /\ content' = content /\ upstream' = upstream
    BY <1>8 DEF StartResponse, TypeOK
  <2>2. answer'[r].by = "backend"
    BY <1>8 DEF StartResponse, TypeOK, AnswerRecord, FromBackend
  <2>3. upstream[r].sent
    BY <1>8 DEF StartResponse, Gated
  <2> QED BY <2>1, <2>2, <2>3 DEF Gated, Judged
<1>9. CASE FinishResponse(r) \/ BreakResponse(r)
  <2>1. /\ phase[r] = "copying" /\ phase'[r] = "answered"
        /\ content' = content /\ upstream' = upstream
    BY <1>9 DEF FinishResponse, BreakResponse, TypeOK
  <2>2. answer'[r].by = answer[r].by
    <3>1. CASE FinishResponse(r)
      BY <3>1 DEF FinishResponse
    <3>2. CASE BreakResponse(r)
      <4>1. answer[r] \in AnswerRecord /\ answer'[r] = CutShort(answer[r])
        BY <3>2 DEF BreakResponse, TypeOK
      <4> QED BY <4>1 DEF AnswerRecord, CutShort
    <3> QED BY <1>9, <3>1, <3>2
  <2> QED BY <2>1, <2>2 DEF Gated, Judged
<1> QED BY <1>1, <1>2, <1>3, <1>4, <1>5, <1>6, <1>7, <1>8, <1>9 DEF Step

(* Every step keeps the invariant. *)
LEMMA GateNextInv == TypeOK /\ GateInv /\ [Next]_vars => GateInv'
<1> SUFFICES ASSUME TypeOK, GateInv, [Next]_vars, NEW s \in Request PROVE Gated(s)'
  BY DEF GateInv
<1>0. Gated(s)
  BY DEF GateInv
<1>1. ASSUME NEW r \in Request, Accept(r) \/ CallerStep(r) \/ Step(r)
      PROVE  Gated(s)'
  <2>1. CASE s = r
    BY <1>0, <1>1, <2>1, GateStep
  <2>2. CASE s # r
    BY <1>0, <1>1, <2>2, StepFrame, GateFrame
  <2> QED BY <2>1, <2>2
<1>2. CASE Signal \/ Drained \/ UNCHANGED vars
  BY <1>0, <1>2, GateFrame DEF Signal, Drained, vars
<1>3. CASE GraceExpires
  <2>1. CASE Active(s)
    BY <1>0, <1>3, <2>1 DEF GraceExpires, Active, Handling, Gated, Judged
  <2>2. CASE ~Active(s)
    BY <1>0, <1>3, <2>2, GateFrame DEF GraceExpires
  <2> QED BY <2>1, <2>2
<1> QED BY <1>1, <1>2, <1>3 DEF Next, CallerStep, Exited

(* The types and the invariant hold together throughout. *)
LEMMA Invariant == Spec => [](TypeOK /\ GateInv)
  BY TypeInit, TypeNext, GateInit, GateNextInv, PTL DEF Spec

(* The proxy fails closed: however many requests there are and whatever they  *)
(* carry, the backend never receives anything of a query that does not        *)
(* translate, nor, unless --allow-partial was given, of one the target cannot *)
(* fully express (server.go handleQuery).                                     *)
THEOREM FailsClosed == Spec => []FailClosed
<1>1. GateInv => FailClosed
  BY DEF GateInv, Gated, FailClosed
<1> QED BY <1>1, Invariant, PTL

(* Once a request is answered nothing more happens to it, and what went       *)
(* upstream is never changed, whatever the other requests do.                 *)
THEOREM AnswersAreFinal == Spec => AnswerIsFinal
<1> DEFINE Final(r) ==
      /\ phase[r] \in {"answered", "cut off"} =>
            /\ phase'[r] = phase[r] /\ answer'[r] = answer[r]
            /\ upstream'[r] = upstream[r]
      /\ upstream[r].sent => upstream'[r] = upstream[r]
<1>1. TypeOK /\ GateInv /\ [Next]_vars => [\A r \in Request : Final(r)]_vars
  <2> SUFFICES ASSUME TypeOK, GateInv, Next, NEW s \in Request PROVE Final(s)
    OBVIOUS
  <2>0. Gated(s)
    BY DEF GateInv
  <2>1. ASSUME NEW r \in Request, s # r,
               Accept(r) \/ CallerStep(r) \/ Step(r)
        PROVE  Final(s)
    BY <2>1, StepFrame
  <2>2. CASE Accept(s) \/ CallerStep(s)
    BY <2>2 DEF Accept, CallerStep, DeliverBody, Disconnect, Stall
  <2>3. CASE Step(s)
    <3>1. phase[s] \in Handling /\ (upstream'[s] = upstream[s] \/ phase[s] = "sending")
      <4>1. CASE HandleHealth(s) \/ RejectRequest(s) \/ ReadRequest(s)
        BY <4>1 DEF HandleHealth, RejectRequest, ReadRequest, AtRead, Handling
      <4>2. CASE FailTranslation(s) \/ Refuse(s) \/ PassThrough(s) \/ Translate(s)
        BY <4>2 DEF FailTranslation, Refuse, PassThrough, Translate, Handling
      <4>3. CASE Send(s) \/ FailUpstream(s) \/ StartResponse(s) \/ FinishResponse(s)
                  \/ BreakResponse(s)
        BY <4>3 DEF Send, FailUpstream, StartResponse, FinishResponse, BreakResponse, Handling
      <4> QED BY <2>3, <4>1, <4>2, <4>3 DEF Step
    <3> QED BY <2>0, <3>1 DEF Gated, Handling
  <2>4. CASE Signal \/ Drained \/ Exited
    BY <2>4 DEF Signal, Drained, Exited, vars
  <2>5. CASE GraceExpires
    BY <2>5 DEF GraceExpires, Active, Handling
  <2> QED BY <2>1, <2>2, <2>3, <2>4, <2>5 DEF Next, CallerStep
<1> QED BY <1>1, Invariant, PTL DEF Spec, AnswerIsFinal

-----------------------------------------------------------------------------
(* The proxy implements the gate: accepting a request poses its question,     *)
(* sending it asks, a handler that returns answers, and all else is the       *)
(* gate's stuttering.                                                         *)

posedNow == [r \in Request |-> IF Arrived(r) THEN Posed(content[r]) ELSE "nothing"]
askedNow == {r \in Request : upstream[r].sent}
answerNow == [r \in Request |-> IF phase[r] = "answered" THEN answer[r].by ELSE "nobody"]

(* The first slot that holds a query holds one. *)
LEMMA QueryFound ==
  ASSUME NEW in, found(in)
  PROVE  \E i \in 1..4 : Query(in) = At(in, Slots[i]) /\ Query(in) \notin {"", "blank"}
<1> DEFINE H == Holding(in)
           first == CHOOSE i \in H : \A j \in H : i <= j
<1>1. H \subseteq 1..4 /\ H # {}
  BY DEF Holding, found
<1>2. \E i \in H : \A j \in H : i <= j
  <2>1. CASE 1 \in H
    BY <1>1, <2>1
  <2>2. CASE 1 \notin H /\ 2 \in H
    BY <1>1, <2>2
  <2>3. CASE 1 \notin H /\ 2 \notin H /\ 3 \in H
    BY <1>1, <2>3
  <2>4. CASE 1 \notin H /\ 2 \notin H /\ 3 \notin H
    BY <1>1, <2>4
  <2> QED BY <2>1, <2>2, <2>3, <2>4
<1>3. first \in H
  BY <1>2
<1>4. Query(in) = At(in, Slots[first])
  BY DEF Query, findQuery
<1>5. At(in, Slots[first]) \notin {"", "blank"}
  BY <1>3 DEF Holding
<1> QED BY <1>1, <1>3, <1>4, <1>5

(* What a request poses is a question the gate knows. *)
LEMMA PosedIsQuestion ==
  ASSUME NEW c \in Contents PROVE Posed(c) \in Queries \cup {"no query"}
<1>1. CASE ~(c.route \in QueryRoutes /\ found(Received(c)))
  BY <1>1 DEF Posed
<1>2. CASE c.route \in QueryRoutes /\ found(Received(c))
  <2> DEFINE in == Received(c)
  <2>1. PICK i \in 1..4 : Query(in) = At(in, Slots[i]) /\ Query(in) \notin {"", "blank"}
    BY <1>2, QueryFound
  <2>2. /\ in.url \in [Params -> Texts \ Outputs]
        /\ in.form \in [Params -> Texts \ Outputs]
    <3>1. "" \notin Outputs
      <4>1. /\ Translation["exact"] # "" /\ Translation["approximate"] # ""
            /\ Translation["lossy"] # ""
        BY DEF Translation
      <4>2. DOMAIN Translation = {"exact", "approximate", "lossy"}
        BY DEF Translation
      <4> QED BY <4>1, <4>2 DEF Outputs
    <3>2. Absent \in [Params -> Texts \ Outputs]
      BY <3>1 DEF Absent, Texts
    <3>3. /\ c.url \in [Params -> Texts \ Outputs]
          /\ c.form \in [Params -> Texts \ Outputs]
      BY DEF Content
    <3> QED BY <3>2, <3>3 DEF Received
  <2>3. \A p \in {"query", "q"} : in.url[p] \in Texts \ Outputs /\ in.form[p] \in Texts \ Outputs
    BY <2>2 DEF Params
  <2>4. At(in, Slots[i]) \in Texts \ Outputs
    <3> HIDE DEF in
    <3>1. CASE i = 1
      BY <2>3, <3>1 DEF At, Slots
    <3>2. CASE i = 2
      BY <2>3, <3>2 DEF At, Slots
    <3>3. CASE i = 3
      BY <2>3, <3>3 DEF At, Slots
    <3>4. CASE i = 4
      BY <2>3, <3>4 DEF At, Slots
    <3> QED BY <3>1, <3>2, <3>3, <3>4
  <2>5. Query(in) \in Queries
    BY <2>1, <2>4 DEF Texts
  <2> QED BY <1>2, <2>5 DEF Posed
<1> QED BY <1>1, <1>2

(* A step that arrives, asks and answers nothing is a stutter of the gate. *)
LEMMA GateStutter ==
  ASSUME content' = content,
         \A r \in Request :
            /\ Arrived(r)' <=> Arrived(r)
            /\ upstream'[r].sent <=> upstream[r].sent
            /\ phase'[r] = "answered" <=> phase[r] = "answered"
            /\ phase[r] = "answered" => answer'[r] = answer[r]
  PROVE  UNCHANGED <<posedNow, askedNow, answerNow>>
<1>1. posedNow' = posedNow
  BY DEF posedNow
<1>2. askedNow' = askedNow
  BY DEF askedNow
<1>3. answerNow' = answerNow
  BY DEF answerNow
<1> QED BY <1>1, <1>2, <1>3

(* The proxy starts as the gate does. *)
LEMMA GateRefinesInit == Init => TheGate!GateInit
<1> SUFFICES ASSUME Init PROVE TheGate!GateInit
  OBVIOUS
<1>1. \A r \in Request : phase[r] = "idle" /\ ~upstream[r].sent
  BY DEF Init, NotSent
<1> QED BY <1>1 DEF TheGate!GateInit, Arrived

(* A handler that returns answers its request. *)
LEMMA GateAnswer ==
  ASSUME TypeOK, NEW r \in Request, NEW who,
         phase[r] \in Handling, phase' = [phase EXCEPT ![r] = "answered"],
         \A s \in Request \ {r} : answer'[s] = answer[s],
         answer'[r].by = who, who = "backend" => upstream[r].sent,
         content' = content, upstream' = upstream
  PROVE  TheGate!Answer(r, who)
<1>1. Arrived(r) /\ phase[r] # "answered"
  BY DEF Arrived, Handling
<1>2. Posed(content[r]) # "nothing"
  BY PosedIsQuestion DEF TypeOK, Queries
<1>3. posedNow[r] # "nothing" /\ answerNow[r] = "nobody"
  BY <1>1, <1>2 DEF posedNow, answerNow
<1>4. answerNow' = [answerNow EXCEPT ![r] = who]
  BY DEF TypeOK, answerNow
<1>5. posedNow' = posedNow /\ askedNow' = askedNow
  <2>1. posedNow' = posedNow
    BY <1>1 DEF TypeOK, posedNow, Arrived
  <2>2. askedNow' = askedNow
    BY DEF askedNow
  <2> QED BY <2>1, <2>2
<1>6. who = "backend" => r \in askedNow
  BY DEF askedNow
<1> QED
  BY <1>3, <1>4, <1>5, <1>6 DEF TheGate!Answer, TheGate!Open, posedNow, askedNow, answerNow

(* Every step of the proxy is a step of the gate or a stutter. *)
LEMMA GateRefinesNext ==
  TypeOK /\ GateInv /\ [Next]_vars => [TheGate!GateNext]_(TheGate!gateVars)
<1> SUFFICES ASSUME TypeOK, GateInv, [Next]_vars
             PROVE  TheGate!GateNext \/ UNCHANGED <<posedNow, askedNow, answerNow>>
  BY DEF TheGate!gateVars, posedNow, askedNow, answerNow
<1>1. ASSUME NEW r \in Request, Accept(r)
      PROVE  TheGate!Pose(r, Posed(content[r]))
  <2>1. posedNow[r] = "nothing" /\ posedNow' = [posedNow EXCEPT ![r] = Posed(content[r])]
    BY <1>1 DEF Accept, TypeOK, posedNow, Arrived
  <2>2. askedNow' = askedNow
    BY <1>1 DEF Accept, askedNow
  <2>3. answerNow' = answerNow
    BY <1>1 DEF Accept, TypeOK, answerNow
  <2> QED BY <2>1, <2>2, <2>3 DEF TheGate!Pose, posedNow, askedNow, answerNow
<1>2. ASSUME NEW r \in Request, Send(r)
      PROVE  TheGate!Ask(r)
  <2>1. Posed(content[r]) \in MayBeAsked /\ Posed(content[r]) # "nothing"
    <3>1. Posed(content[r]) \in MayBeAsked
      BY <1>2 DEF Send, GateInv, Gated, Judged
    <3> QED BY <3>1 DEF MayBeAsked
  <2>2. TheGate!Open(r)
    BY <1>2, <2>1 DEF Send, TheGate!Open, Arrived
  <2>3. posedNow[r] \in MayBeAsked
    BY <1>2, <2>1 DEF Send, posedNow, Arrived
  <2>4. askedNow' = askedNow \cup {r}
    BY <1>2 DEF Send, TypeOK, askedNow
  <2>5. posedNow' = posedNow /\ answerNow' = answerNow
    <3>1. posedNow' = posedNow
      BY <1>2 DEF Send, TypeOK, posedNow, Arrived
    <3>2. answerNow' = answerNow
      BY <1>2 DEF Send, TypeOK, answerNow
    <3> QED BY <3>1, <3>2
  <2> QED BY <2>2, <2>3, <2>4, <2>5 DEF TheGate!Ask, posedNow, askedNow, answerNow
<1>3. ASSUME NEW r \in Request,
             HandleHealth(r) \/ RejectRequest(r) \/ FailTranslation(r) \/ Refuse(r)
               \/ FailUpstream(r)
      PROVE  TheGate!Answer(r, "proxy")
  <2>1. PICK status, costed : Conclude(r, status, costed)
    BY <1>3 DEF HandleHealth, RejectRequest, FailTranslation, Refuse, FailUpstream
  <2>2. phase[r] \in Handling /\ content' = content /\ upstream' = upstream
    BY <1>3 DEF HandleHealth, RejectRequest, AtRead, FailTranslation, Refuse, FailUpstream,
                Handling
  <2>3. /\ phase' = [phase EXCEPT ![r] = "answered"]
        /\ \A s \in Request \ {r} : answer'[s] = answer[s]
        /\ answer'[r] = ByProxy(status, costed)
    BY <2>1 DEF Conclude, TypeOK
  <2>4. answer'[r].by = "proxy"
    BY <2>3 DEF ByProxy
  <2> QED BY <2>2, <2>3, <2>4, GateAnswer
<1>4. ASSUME NEW r \in Request, FinishResponse(r) \/ BreakResponse(r)
      PROVE  TheGate!Answer(r, "backend")
  <2>1. /\ phase[r] = "copying" /\ phase' = [phase EXCEPT ![r] = "answered"]
        /\ content' = content /\ upstream' = upstream
    BY <1>4 DEF FinishResponse, BreakResponse
  <2>2. upstream[r].sent /\ answer[r].by = "backend"
    BY <2>1 DEF GateInv, Gated
  <2>3. \A s \in Request \ {r} : answer'[s] = answer[s]
    BY <1>4, StepFrame DEF Step
  <2>4. answer'[r] = answer[r] \/ answer'[r] = CutShort(answer[r])
    BY <1>4 DEF FinishResponse, BreakResponse, TypeOK
  <2>5. answer'[r].by = "backend"
    BY <2>2, <2>4, AnswerTypes DEF TypeOK
  <2>6. phase[r] \in Handling
    BY <2>1 DEF Handling
  <2> QED BY <2>1, <2>2, <2>3, <2>5, <2>6, GateAnswer
<1>5. ASSUME NEW r \in Request,
             CallerStep(r) \/ ReadRequest(r) \/ PassThrough(r)
               \/ Translate(r) \/ StartResponse(r)
      PROVE  UNCHANGED <<posedNow, askedNow, answerNow>>
  <2>1. CASE CallerStep(r)
    BY <2>1, GateStutter DEF CallerStep, DeliverBody, Disconnect, Stall, Arrived
  <2>2. CASE ReadRequest(r) \/ PassThrough(r)
    BY <2>2, GateStutter DEF ReadRequest, AtRead, PassThrough, TypeOK, Arrived
  <2>3. CASE Translate(r) \/ StartResponse(r)
    BY <2>3, GateStutter DEF Translate, StartResponse, TypeOK, Arrived
  <2> QED BY <1>5, <2>1, <2>2, <2>3
<1>6. CASE Signal \/ Drained \/ UNCHANGED vars
  BY <1>6, GateStutter DEF Signal, Drained, vars, Arrived
<1>7. CASE GraceExpires
  BY <1>7, GateStutter DEF GraceExpires, TypeOK, Active, Handling, Arrived
<1>8. \A r \in Request : Posed(content[r]) \in Queries \cup {"no query"}
  BY PosedIsQuestion DEF TypeOK
<1> QED
  BY <1>1, <1>2, <1>3, <1>4, <1>5, <1>6, <1>7, <1>8
  DEF Next, CallerStep, Step, Exited, TheGate!GateNext

(* The proxy implements the gate: whatever the handlers, callers and backend  *)
(* do, what an outsider sees of them is requests posed, let through only as   *)
(* the policy allows, and answered once, with the backend's answer only when  *)
(* the backend was asked (server.go handleQuery, forward).                    *)
THEOREM ProxyImplementsGate == Spec => ImplementsGate
<1>1. Init => TheGate!GateInit
  BY GateRefinesInit
<1>2. TypeOK /\ GateInv /\ [Next]_vars => [TheGate!GateNext]_(TheGate!gateVars)
  BY GateRefinesNext
<1> QED BY <1>1, <1>2, Invariant, PTL DEF Spec, ImplementsGate, TheGate!GateSpec

-----------------------------------------------------------------------------
(* What lies between a request as read and as sent, for the handler alone.    *)

Carries(c) == c.route \in QueryRoutes /\ found(Received(c))

(* The parameters of a request, once its query has been rewritten. *)
Rewritten(in) == set(in, findQuery(in)[2], Translation[Query(in)])
Sendable(c) == IF Carries(c) THEN Rewritten(Received(c)) ELSE Received(c)

(* Parameters as a caller can send them: nothing the translator wrote, and no *)
(* form where the body is none.                                               *)
AsSent(in) ==
    /\ \A p \in Params : in.url[p] \in Texts \ Outputs /\ in.form[p] \in Texts \ Outputs
    /\ in.body # "form" => in.form = Absent

(* What is read is as a caller can send it. *)
LEMMA ReceivedAsSent ==
  ASSUME NEW c \in Contents PROVE AsSent(Received(c)) /\ Received(c) \in Inbound
<1>1. "" \in Texts \ Outputs
  <2>1. /\ Translation["exact"] # "" /\ Translation["approximate"] # ""
        /\ Translation["lossy"] # ""
    BY DEF Translation
  <2>2. DOMAIN Translation = {"exact", "approximate", "lossy"}
    BY DEF Translation
  <2> QED BY <2>1, <2>2 DEF Outputs, Texts
<1>2. c \in Content
  BY ContentsAssumption
<1>3. /\ c.url \in [Params -> Texts \ Outputs] /\ c.form \in [Params -> Texts \ Outputs]
  BY <1>2 DEF Content
<1>4. Absent \in [Params -> Texts \ Outputs]
  BY <1>1 DEF Absent
<1>5. /\ Received(c).url = c.url
      /\ Received(c).form = IF c.method = "POST" /\ c.body = "form" THEN c.form ELSE Absent
      /\ Received(c).body = IF c.method = "POST" THEN c.body ELSE "none"
  BY DEF Received
<1> QED BY <1>3, <1>4, <1>5, ReceivedType DEF AsSent

(* Where the query was found. *)
LEMMA FoundWhere ==
  ASSUME NEW in, found(in)
  PROVE  \E i \in 1..4 : /\ findQuery(in) = Slots[i]
                         /\ At(in, Slots[i]) \notin {"", "blank"}
                         /\ \A j \in 1..4 : j < i => At(in, Slots[j]) \in {"", "blank"}
<1> DEFINE H == Holding(in)
           first == CHOOSE i \in H : \A j \in H : i <= j
<1>1. H \subseteq 1..4 /\ H # {}
  BY DEF Holding, found
<1>2. \E i \in H : \A j \in H : i <= j
  <2>1. CASE 1 \in H
    BY <1>1, <2>1
  <2>2. CASE 1 \notin H /\ 2 \in H
    BY <1>1, <2>2
  <2>3. CASE 1 \notin H /\ 2 \notin H /\ 3 \in H
    BY <1>1, <2>3
  <2>4. CASE 1 \notin H /\ 2 \notin H /\ 3 \notin H
    BY <1>1, <2>4
  <2> QED BY <2>1, <2>2, <2>3, <2>4
<1>3. first \in H /\ \A j \in H : first <= j
  BY <1>2
<1>4. findQuery(in) = Slots[first]
  BY DEF findQuery
<1>5. \A j \in 1..4 : j < first => j \notin H
  BY <1>1, <1>3
<1> HIDE DEF first
<1>6. At(in, Slots[first]) \notin {"", "blank"}
  BY <1>3 DEF Holding
<1>7. \A j \in 1..4 : j < first => At(in, Slots[j]) \in {"", "blank"}
  BY <1>5 DEF Holding
<1> QED BY <1>1, <1>3, <1>4, <1>6, <1>7

(* The four places by name. *)
LEMMA Places ==
  ASSUME NEW in
  PROVE  /\ At(in, Slots[1]) = in.form["query"] /\ At(in, Slots[2]) = in.form["q"]
         /\ At(in, Slots[3]) = in.url["query"] /\ At(in, Slots[4]) = in.url["q"]
         /\ Slots[1][2] = "query" /\ Slots[2][2] = "q"
         /\ Slots[3][2] = "query" /\ Slots[4][2] = "q"
  BY DEF At, Slots

(* What a parameter that carries nothing holds. *)
Empty(text) == text = ""
Blank(text) == text \in {"", "blank"}

(* Whether the form is where set writes. *)
InForm(in, param) == in.body = "form" /\ in.form[param] # ""

(* set changes one place and writes the value there. *)
LEMMA SetPlaces ==
  ASSUME NEW in \in Inbound, NEW param \in Params, NEW value, NEW out,
         out = set(in, param, value)
  PROVE  /\ out.form["query"] =
               IF InForm(in, param) /\ param = "query" THEN value ELSE in.form["query"]
         /\ out.form["q"] = IF InForm(in, param) /\ param = "q" THEN value ELSE in.form["q"]
         /\ out.url["query"] =
               IF ~InForm(in, param) /\ param = "query" THEN value ELSE in.url["query"]
         /\ out.url["q"] = IF ~InForm(in, param) /\ param = "q" THEN value ELSE in.url["q"]
<1>1. /\ in.form \in [Params -> Texts] /\ in.url \in [Params -> Texts]
  BY DEF Inbound
<1>2. CASE InForm(in, param)
  <2>1. /\ out.form = [in.form EXCEPT ![param] = value]
        /\ out.url = in.url
    BY <1>2 DEF set, Inbound, InForm
  <2> QED BY <1>1, <1>2, <2>1 DEF Params
<1>3. CASE ~InForm(in, param)
  <2>1. /\ out.url = [in.url EXCEPT ![param] = value]
        /\ out.form = in.form
    BY <1>3 DEF set, Inbound, InForm
  <2> QED BY <1>1, <1>3, <2>1 DEF Params
<1> QED BY <1>2, <1>3

(* Rewriting the query found puts its translation in one place and leaves the *)
(* other three as they came.                                                  *)
LEMMA RewritesOne ==
  ASSUME NEW in \in Inbound, AsSent(in), found(in), Query(in) \in DOMAIN Translation
  PROVE  \E i \in 1..4 :
            /\ At(Rewritten(in), Slots[i]) = Translation[Query(in)]
            /\ At(in, Slots[i]) # Translation[Query(in)]
            /\ \A j \in 1..4 \ {i} : At(Rewritten(in), Slots[j]) = At(in, Slots[j])
<1>1. PICK k \in 1..4 : findQuery(in) = Slots[k]
  BY FoundWhere
<1>2. PICK param \in Params : param = Slots[k][2] /\ param \in {"query", "q"}
  BY <1>1, Places DEF Params
<1>3. PICK value \in Outputs : value = Translation[Query(in)]
  BY DEF Outputs
<1>4. PICK out : out = Rewritten(in) /\ out = set(in, param, value)
  BY <1>1, <1>2, <1>3 DEF Rewritten
<1>5. \A i \in 1..4 : At(in, Slots[i]) \notin Outputs
  BY Places DEF AsSent, Params
<1>6. \E i \in 1..4 : /\ At(out, Slots[i]) = value
                     /\ \A j \in 1..4 \ {i} : At(out, Slots[j]) = At(in, Slots[j])
  <2>1. CASE InForm(in, param) /\ param = "query"
    <3>1. /\ out.form["query"] = value /\ out.form["q"] = in.form["q"]
          /\ out.url["query"] = in.url["query"] /\ out.url["q"] = in.url["q"]
      BY <1>4, <2>1, SetPlaces
    <3>2. At(out, Slots[1]) = value /\ \A j \in 1..4 \ {1} : At(out, Slots[j]) = At(in, Slots[j])
      BY <3>1, Places
    <3> QED BY <3>2
  <2>2. CASE InForm(in, param) /\ param = "q"
    <3>1. /\ out.form["q"] = value /\ out.form["query"] = in.form["query"]
          /\ out.url["query"] = in.url["query"] /\ out.url["q"] = in.url["q"]
      BY <1>4, <2>2, SetPlaces
    <3>2. At(out, Slots[2]) = value /\ \A j \in 1..4 \ {2} : At(out, Slots[j]) = At(in, Slots[j])
      BY <3>1, Places
    <3> QED BY <3>2
  <2>3. CASE ~InForm(in, param) /\ param = "query"
    <3>1. /\ out.form["query"] = in.form["query"] /\ out.form["q"] = in.form["q"]
          /\ out.url["query"] = value /\ out.url["q"] = in.url["q"]
      BY <1>4, <2>3, SetPlaces
    <3>2. At(out, Slots[3]) = value /\ \A j \in 1..4 \ {3} : At(out, Slots[j]) = At(in, Slots[j])
      BY <3>1, Places
    <3> QED BY <3>2
  <2>4. CASE ~InForm(in, param) /\ param = "q"
    <3>1. /\ out.form["query"] = in.form["query"] /\ out.form["q"] = in.form["q"]
          /\ out.url["query"] = in.url["query"] /\ out.url["q"] = value
      BY <1>4, <2>4, SetPlaces
    <3>2. At(out, Slots[4]) = value /\ \A j \in 1..4 \ {4} : At(out, Slots[j]) = At(in, Slots[j])
      BY <3>1, Places
    <3> QED BY <3>2
  <2> QED BY <1>2, <2>1, <2>2, <2>3, <2>4
<1> QED BY <1>3, <1>4, <1>5, <1>6

(* Translations are not blank. *)
LEMMA OutputsWritten == "" \notin Outputs
<1>1. /\ Translation["exact"] # "" /\ Translation["approximate"] # ""
      /\ Translation["lossy"] # ""
  BY DEF Translation
<1>2. DOMAIN Translation = {"exact", "approximate", "lossy"}
  BY DEF Translation
<1> QED BY <1>1, <1>2 DEF Outputs

(* The one place that holds something, by name. *)
LEMMA AloneByName ==
  ASSUME NEW in \in Inbound, NEW k \in 1..4,
         ~Empty(At(in, Slots[k])), \A i \in 1..4 \ {k} : Empty(At(in, Slots[i]))
  PROVE  LET other == IF Slots[k][2] = "query" THEN "q" ELSE "query"
         IN  /\ Slots[k][2] \in {"query", "q"}
             /\ Empty(in.form[other]) /\ Empty(in.url[other])
             /\ Empty(in.form[Slots[k][2]]) \/ Empty(in.url[Slots[k][2]])
<1>1. /\ At(in, Slots[1]) = in.form["query"] /\ At(in, Slots[2]) = in.form["q"]
      /\ At(in, Slots[3]) = in.url["query"] /\ At(in, Slots[4]) = in.url["q"]
  BY Places
<1>2. /\ Slots[1][2] = "query" /\ Slots[2][2] = "q"
      /\ Slots[3][2] = "query" /\ Slots[4][2] = "q"
  BY Places
<1>3. /\ 1 # k => Empty(in.form["query"])
      /\ 2 # k => Empty(in.form["q"])
      /\ 3 # k => Empty(in.url["query"])
      /\ 4 # k => Empty(in.url["q"])
  BY <1>1
<1>4. k = 1 \/ k = 2 \/ k = 3 \/ k = 4
  OBVIOUS
<1> QED BY <1>2, <1>3, <1>4

(* What the backend takes for the query, once it is rewritten where it alone  *)
(* was found.                                                                 *)
LEMMA BackendSeesRewritten ==
  ASSUME NEW in \in Inbound, AsSent(in), NEW param \in {"query", "q"},
         NEW value \in Outputs, NEW out, out = set(in, param, value),
         NEW other, other = IF param = "query" THEN "q" ELSE "query",
         Empty(in.form[other]), Empty(in.url[other]),
         Empty(in.form[param]) \/ Empty(in.url[param]), NEW route \in QueryRoutes
  PROVE  BackendReads(route, out) \in Outputs \cup {""}
<1>1. in.body # "form" => in.form["query"] = "" /\ in.form["q"] = ""
  BY DEF AsSent, Absent, Params
<1>2. /\ out.form["query"] =
            IF InForm(in, param) /\ param = "query" THEN value ELSE in.form["query"]
      /\ out.url["query"] =
            IF ~InForm(in, param) /\ param = "query" THEN value ELSE in.url["query"]
      /\ out.url["q"] = IF ~InForm(in, param) /\ param = "q" THEN value ELSE in.url["q"]
  BY SetPlaces DEF Params
<1>3. CASE param = "query" /\ InForm(in, param)
  <2>1. out.form["query"] = value /\ out.url["q"] = in.url["q"]
    BY <1>2, <1>3
  <2>2. in.url["q"] = ""
    BY <1>3 DEF Empty
  <2> QED BY <2>1, <2>2, OutputsWritten DEF BackendReads, QueryRoutes
<1>4. CASE param = "query" /\ ~InForm(in, param)
  <2>1. out.form["query"] = in.form["query"] /\ out.url["q"] = in.url["q"] /\ out.url["query"] = value
    BY <1>2, <1>4
  <2>2. in.url["q"] = "" /\ in.form["query"] = ""
    BY <1>1, <1>4 DEF Empty, InForm
  <2> QED BY <2>1, <2>2 DEF BackendReads, QueryRoutes
<1>5. CASE param = "q" /\ InForm(in, param)
  <2>1. /\ out.form["query"] = in.form["query"] /\ out.url["q"] = in.url["q"]
        /\ out.url["query"] = in.url["query"]
    BY <1>2, <1>5
  <2>2. in.url["q"] = "" /\ in.form["query"] = "" /\ in.url["query"] = ""
    BY <1>5 DEF Empty, InForm
  <2> QED BY <2>1, <2>2 DEF BackendReads, QueryRoutes
<1>6. CASE param = "q" /\ ~InForm(in, param)
  <2>1. /\ out.form["query"] = in.form["query"] /\ out.url["q"] = value
        /\ out.url["query"] = in.url["query"]
    BY <1>2, <1>6
  <2>2. in.form["query"] = "" /\ in.url["query"] = ""
    BY <1>6 DEF Empty
  <2> QED BY <2>1, <2>2 DEF BackendReads, QueryRoutes
<1> QED BY <1>3, <1>4, <1>5, <1>6

(* What the backend takes for the query is blank, or what the translator      *)
(* wrote, when the caller put text in one place at most.                      *)
LEMMA BackendSees ==
  ASSUME NEW c \in Contents, OneParameter(c),
         Carries(c) => Query(Received(c)) \in DOMAIN Translation
  PROVE  BackendReads(c.route, Sendable(c)) \in Outputs \cup {"", "blank"}
<1>1. PICK in \in Inbound : in = Received(c) /\ AsSent(in)
  BY ReceivedAsSent
<1>2. \A i, j \in 1..4 : At(in, Slots[i]) # "" /\ At(in, Slots[j]) # "" => i = j
  BY <1>1 DEF OneParameter
<1>3. CASE c.route \notin QueryRoutes
  BY <1>3 DEF BackendReads, QueryRoutes
<1>4. CASE c.route \in QueryRoutes /\ ~found(in)
  <2>1. \A i \in 1..4 : Blank(At(in, Slots[i]))
    BY <1>4 DEF found, Holding, Blank
  <2>2. /\ At(in, Slots[1]) = in.form["query"]
        /\ At(in, Slots[3]) = in.url["query"] /\ At(in, Slots[4]) = in.url["q"]
    BY Places
  <2>3. Blank(in.form["query"]) /\ Blank(in.url["query"]) /\ Blank(in.url["q"])
    BY <2>1, <2>2
  <2>4. Sendable(c) = in
    BY <1>1, <1>4 DEF Sendable, Carries
  <2> QED BY <1>4, <2>3, <2>4 DEF BackendReads, QueryRoutes, Blank
<1>5. CASE c.route \in QueryRoutes /\ found(in)
  <2>1. PICK k \in 1..4 : findQuery(in) = Slots[k] /\ ~Empty(At(in, Slots[k]))
    BY <1>5, FoundWhere DEF Empty
  <2>2. PICK value \in Outputs : value = Translation[Query(in)]
    BY <1>1, <1>5 DEF Outputs, Carries
  <2>3. Sendable(c) = set(in, Slots[k][2], value)
    BY <1>1, <1>5, <2>1, <2>2 DEF Sendable, Carries, Rewritten
  <2>4. \A i \in 1..4 \ {k} : Empty(At(in, Slots[i]))
    BY <1>2, <2>1 DEF Empty
  <2>5. PICK param \in {"query", "q"} : param = Slots[k][2]
    BY <2>1, <2>4, AloneByName
  <2>6. PICK other : other = IF param = "query" THEN "q" ELSE "query"
    OBVIOUS
  <2>7. /\ Empty(in.form[other]) /\ Empty(in.url[other])
        /\ Empty(in.form[param]) \/ Empty(in.url[param])
    BY <2>1, <2>4, <2>5, <2>6, AloneByName
  <2>8. BackendReads(c.route, Sendable(c)) \in Outputs \cup {""}
    BY <1>1, <1>5, <2>3, <2>5, <2>6, <2>7, BackendSeesRewritten
  <2> QED BY <2>8
<1> QED BY <1>3, <1>4, <1>5

-----------------------------------------------------------------------------
(* What a handler has sent, and told its caller, when it comes to a phase.    *)
(* Once the query is rewritten what was read is gone, so the invariant says   *)
(* what the handler holds in terms of what the caller sent.                   *)

Told(r) == answer[r].costed <=> Carries(content[r])

(* What the answer tells of the cost, and what it is when it is a refusal. *)
Reported(r) ==
    /\ answer[r].status \in {"upstream's", "502"} => Told(r)
    /\ Refusable(r) /\ client[r] # "gone" => answer[r].status = "400" /\ answer[r].costed
    /\ answer[r].status = "400" /\ answer[r].costed => Refusable(r) /\ ~upstream[r].sent
    /\ answer[r].status = "200" => ~answer[r].costed

Sends(r) ==
    /\ phase[r] \in {"idle", "accepted", "read"} => ~answer[r].costed
    /\ phase[r] \in Judged => inbound[r] = Sendable(content[r]) /\ Told(r)
    /\ phase[r] = "copying" => answer[r].status = "upstream's"
    /\ upstream[r].sent => upstream[r].in = Sendable(content[r])
    /\ phase[r] = "answered" => Reported(r)

ContentInv == \A r \in Request : Sends(r)

(* Nothing has been read, told or sent to begin with. *)
LEMMA ContentInit == Init => ContentInv
<1> SUFFICES ASSUME Init, NEW r \in Request PROVE Sends(r)
  BY DEF ContentInv
<1>1. phase[r] = "idle" /\ upstream[r] = NotSent /\ answer[r] = NoAnswer
  BY DEF Init
<1>2. ~upstream[r].sent /\ ~answer[r].costed
  BY <1>1 DEF NotSent, NoAnswer
<1> QED BY <1>1, <1>2 DEF Sends, Judged

(* A request keeps its part while its handler stays where it was. *)
LEMMA ContentFrame ==
  ASSUME NEW r \in Request, Sends(r),
         content' = content, phase'[r] = phase[r], inbound'[r] = inbound[r],
         upstream'[r] = upstream[r], answer'[r] = answer[r],
         phase[r] = "answered" => client'[r] = client[r]
  PROVE  Sends(r)'
  BY DEF Sends, Told, Reported, Refusable

(* A handler that writes an answer of its own keeps it, provided that what it *)
(* says of the cost is so.                                                    *)
LEMMA ContentConclude ==
  ASSUME TypeOK, NEW r \in Request, Sends(r),
         NEW status \in {"200", "400", "502"}, NEW costed \in BOOLEAN,
         Conclude(r, status, costed),
         content' = content, upstream' = upstream, client' = client,
         status = "400" /\ costed => Refusable(r) /\ ~upstream[r].sent,
         Refusable(r) /\ client[r] # "gone" => status = "400" /\ costed,
         status = "502" => (costed <=> Carries(content[r])),
         status = "200" => ~costed
  PROVE  Sends(r)'
<1>1. phase'[r] = "answered" /\ answer'[r] = ByProxy(status, costed)
  BY DEF Conclude, TypeOK
<1>2. answer'[r].by = "proxy" /\ answer'[r].status = status /\ answer'[r].costed = costed
  BY <1>1 DEF ByProxy
<1>3. upstream'[r].sent => upstream'[r].in = Sendable(content'[r])
  BY DEF Sends
<1>4. Reported(r)'
  BY <1>2 DEF Reported, Told, Refusable
<1> QED BY <1>1, <1>3, <1>4 DEF Sends, Judged

(* What passing on the backend's answer changes of it. *)
LEMMA AnswerFields ==
  ASSUME NEW a \in AnswerRecord
  PROVE  /\ FromBackend(a).by = "backend" /\ FromBackend(a).status = "upstream's"
         /\ FromBackend(a).costed = a.costed
         /\ CutShort(a).by = a.by /\ CutShort(a).status = a.status
         /\ CutShort(a).costed = a.costed
         /\ Costed(a).costed
  BY DEF AnswerRecord, FromBackend, CutShort, Costed

(* What a handler's step does to its own request. *)
LEMMA ContentStep ==
  ASSUME TypeOK, NEW r \in Request, Gated(r), Sends(r),
         Accept(r) \/ CallerStep(r) \/ Step(r)
  PROVE  Sends(r)'
<1>1. CASE Accept(r)
  BY <1>1 DEF Accept, TypeOK, Sends, Told, Judged
<1>2. CASE CallerStep(r)
  BY <1>2, ContentFrame DEF CallerStep, DeliverBody, Disconnect, Stall, Active, Handling
<1>3. CASE HandleHealth(r)
  <2>1. /\ Conclude(r, "200", FALSE) /\ content[r].route = "health"
        /\ content' = content /\ upstream' = upstream /\ client' = client
    BY <1>3 DEF HandleHealth
  <2>2. ~Refusable(r)
    BY <2>1 DEF Refusable, Posed, QueryRoutes, Translation
  <2> QED BY <2>1, <2>2, ContentConclude
<1>12. CASE RejectRequest(r)
  <2>1. /\ Conclude(r, "400", FALSE)
        /\ Unreadable(content[r]) \/ client[r] = "gone"
        /\ content' = content /\ upstream' = upstream /\ client' = client
    BY <1>12 DEF RejectRequest, Unreadable
  <2>2. ~(Refusable(r) /\ client[r] # "gone")
    BY <2>1 DEF Refusable
  <2> QED BY <2>1, <2>2, ContentConclude
<1>13. CASE FailTranslation(r)
  <2>1. /\ Conclude(r, "400", FALSE) /\ phase[r] = "read"
        /\ Query(inbound[r]) \notin DOMAIN Translation \/ client[r] = "gone"
        /\ content' = content /\ upstream' = upstream /\ client' = client
    BY <1>13 DEF FailTranslation
  <2>2. Posed(content[r]) = Query(inbound[r])
    BY <1>13, <2>1 DEF FailTranslation, CarriesQuery, Posed, Gated
  <2>3. ~(Refusable(r) /\ client[r] # "gone")
    BY <2>1, <2>2 DEF Refusable
  <2> QED BY <2>1, <2>3, ContentConclude
<1>4. CASE Refuse(r)
  <2>1. /\ Conclude(r, "400", TRUE) /\ phase[r] = "read"
        /\ content' = content /\ upstream' = upstream /\ client' = client
    BY <1>4 DEF Refuse
  <2>2. Posed(content[r]) = Query(inbound[r])
    BY <1>4, <2>1 DEF Refuse, CarriesQuery, Posed, Gated
  <2>3. Posed(content[r]) \in DOMAIN Translation \ MayBeAsked
    BY <1>4, <2>2, AllowedMayBeAsked DEF Refuse
  <2>4. ~Unreadable(content[r])
    BY <2>1 DEF Gated
  <2>5. ~upstream[r].sent
    BY <2>1 DEF Gated
  <2> QED BY <2>1, <2>3, <2>4, <2>5, ContentConclude DEF Refusable
<1>5. CASE FailUpstream(r)
  <2>1. /\ Conclude(r, "502", answer[r].costed) /\ phase[r] \in Judged
        /\ content' = content /\ upstream' = upstream /\ client' = client
    BY <1>5 DEF FailUpstream, Judged
  <2>2. Told(r)
    BY <2>1 DEF Sends
  <2>3. answer[r].costed \in BOOLEAN
    BY DEF TypeOK, AnswerRecord
  <2>4. ~Refusable(r)
    BY <2>1 DEF Gated, Refusable
  <2> QED BY <2>1, <2>2, <2>3, <2>4, ContentConclude DEF Told
<1>6. CASE ReadRequest(r)
  <2>1. /\ phase[r] = "accepted" /\ phase'[r] = "read" /\ content' = content
        /\ upstream' = upstream /\ answer' = answer
    BY <1>6 DEF ReadRequest, AtRead, TypeOK
  <2> QED BY <2>1 DEF Sends, Judged
<1>7. CASE PassThrough(r)
  <2>1. /\ phase[r] = "read" /\ phase'[r] = "sending" /\ content' = content
        /\ upstream' = upstream /\ answer' = answer /\ inbound' = inbound
    BY <1>7 DEF PassThrough, TypeOK
  <2>2. ~Carries(content[r]) /\ inbound[r] = Received(content[r])
    BY <1>7, <2>1 DEF PassThrough, CarriesQuery, Carries, Gated
  <2>3. inbound'[r] = Sendable(content'[r])
    BY <2>1, <2>2 DEF Sendable
  <2>4. Told(r)'
    BY <2>1, <2>2 DEF Told, Sends
  <2> QED BY <2>1, <2>3, <2>4 DEF Sends, Judged
<1>8. CASE Translate(r)
  <2>1. /\ phase[r] = "read" /\ phase'[r] = "sending" /\ content' = content
        /\ upstream' = upstream
        /\ answer'[r] = Costed(answer[r]) /\ inbound'[r] = Rewritten(inbound[r])
    BY <1>8 DEF Translate, TypeOK, Rewritten
  <2>2. Carries(content[r]) /\ inbound[r] = Received(content[r])
    BY <1>8, <2>1 DEF Translate, CarriesQuery, Carries, Gated
  <2>3. inbound'[r] = Sendable(content'[r])
    BY <2>1, <2>2 DEF Sendable
  <2>4. answer'[r].costed
    <3>1. answer[r] \in AnswerRecord
      BY DEF TypeOK
    <3> QED BY <2>1, <3>1, AnswerFields
  <2>5. Told(r)'
    BY <2>1, <2>2, <2>4 DEF Told
  <2> QED BY <2>1, <2>3, <2>5 DEF Sends, Judged
<1>9. CASE Send(r)
  <2>1. /\ phase[r] = "sending" /\ phase'[r] = "awaiting" /\ content' = content
        /\ inbound' = inbound /\ answer' = answer
        /\ upstream'[r] = [sent |-> TRUE, in |-> inbound[r]]
    BY <1>9 DEF Send, TypeOK
  <2>2. inbound[r] = Sendable(content[r]) /\ Told(r)
    BY <2>1 DEF Sends, Judged
  <2>3. upstream'[r].in = Sendable(content'[r]) /\ inbound'[r] = Sendable(content'[r])
    BY <2>1, <2>2
  <2>4. Told(r)'
    BY <2>1, <2>2 DEF Told
  <2> QED BY <2>1, <2>3, <2>4 DEF Sends, Judged
<1>10. CASE StartResponse(r)
  <2>1. /\ phase[r] = "awaiting" /\ phase'[r] = "copying" /\ content' = content
        /\ inbound' = inbound /\ upstream' = upstream
        /\ answer'[r] = FromBackend(answer[r])
    BY <1>10 DEF StartResponse, TypeOK
  <2>2. answer'[r].status = "upstream's" /\ answer'[r].costed = answer[r].costed
    <3>1. answer[r] \in AnswerRecord
      BY DEF TypeOK
    <3> QED BY <2>1, <3>1, AnswerFields
  <2>3. inbound[r] = Sendable(content[r]) /\ Told(r)
    BY <2>1 DEF Sends, Judged
  <2>4. inbound'[r] = Sendable(content'[r]) /\ Told(r)'
    BY <2>1, <2>2, <2>3 DEF Told
  <2> QED BY <2>1, <2>2, <2>4 DEF Sends, Judged
<1>11. CASE FinishResponse(r) \/ BreakResponse(r)
  <2>1. /\ phase[r] = "copying" /\ phase'[r] = "answered" /\ content' = content
        /\ upstream' = upstream
        /\ answer'[r] \in {answer[r], CutShort(answer[r])}
    BY <1>11 DEF FinishResponse, BreakResponse, TypeOK
  <2>2. answer'[r].status = answer[r].status /\ answer'[r].costed = answer[r].costed
    <3>1. answer[r] \in AnswerRecord
      BY DEF TypeOK
    <3> QED BY <2>1, <3>1, AnswerFields
  <2>3. Told(r) /\ answer[r].status = "upstream's"
    BY <2>1 DEF Sends, Judged
  <2>4. Told(r)'
    BY <2>1, <2>2, <2>3 DEF Told
  <2>5. ~Refusable(r)'
    BY <2>1 DEF Gated, Judged, Refusable
  <2>6. Reported(r)'
    BY <2>1, <2>2, <2>3, <2>4, <2>5 DEF Reported
  <2> QED BY <2>1, <2>6 DEF Sends, Judged
<1> QED
  BY <1>1, <1>2, <1>3, <1>4, <1>5, <1>6, <1>7, <1>8, <1>9, <1>10, <1>11, <1>12, <1>13
  DEF Step

(* Every step keeps the invariant. *)
LEMMA ContentNext == TypeOK /\ GateInv /\ ContentInv /\ [Next]_vars => ContentInv'
<1> SUFFICES ASSUME TypeOK, GateInv, ContentInv, [Next]_vars, NEW s \in Request
             PROVE  Sends(s)'
  BY DEF ContentInv
<1>0. Gated(s) /\ Sends(s)
  BY DEF GateInv, ContentInv
<1>1. ASSUME NEW r \in Request, Accept(r) \/ CallerStep(r) \/ Step(r)
      PROVE  Sends(s)'
  <2>1. CASE s = r
    BY <1>0, <1>1, <2>1, ContentStep
  <2>2. CASE s # r
    BY <1>0, <1>1, <2>2, StepFrame, ContentFrame
  <2> QED BY <2>1, <2>2
<1>2. CASE Signal \/ Drained \/ UNCHANGED vars
  BY <1>0, <1>2, ContentFrame DEF Signal, Drained, vars
<1>3. CASE GraceExpires
  <2>1. CASE Active(s)
    BY <1>0, <1>3, <2>1 DEF GraceExpires, Active, Sends, Judged
  <2>2. CASE ~Active(s)
    BY <1>0, <1>3, <2>2, ContentFrame DEF GraceExpires
  <2> QED BY <2>1, <2>2
<1> QED BY <1>1, <1>2, <1>3 DEF Next, CallerStep, Exited

(* The types, the gate and what is sent hold together throughout. *)
LEMMA ContentInvariant == Spec => [](TypeOK /\ GateInv /\ ContentInv)
  BY ContentInit, ContentNext, Invariant, PTL DEF Spec

-----------------------------------------------------------------------------
(* A request poses a question just when it carries a query, and what may be   *)
(* asked can be translated.                                                   *)
LEMMA PosedWhenCarried ==
  ASSUME NEW c \in Contents
  PROVE  /\ Posed(c) # "no query" <=> Carries(c)
         /\ Carries(c) => Posed(c) = Query(Received(c))
         /\ Posed(c) \in MayBeAsked /\ Carries(c) => Query(Received(c)) \in DOMAIN Translation
<1>1. CASE ~Carries(c)
  BY <1>1 DEF Posed, Carries
<1>2. CASE Carries(c)
  <2>1. Posed(c) = Query(Received(c))
    BY <1>2 DEF Posed, Carries
  <2>2. PICK i \in 1..4 : Query(Received(c)) = At(Received(c), Slots[i])
    BY <1>2, QueryFound DEF Carries
  <2>3. At(Received(c), Slots[i]) \in Texts \ Outputs
    BY ReceivedAsSent, Places DEF AsSent, Params
  <2>4. Posed(c) # "no query"
    <3>1. Posed(c) \in {"", "blank"} \cup Queries
      BY <2>1, <2>2, <2>3 DEF Texts
    <3> QED BY <3>1 DEF Queries
  <2>5. Posed(c) \in MayBeAsked => Posed(c) \in DOMAIN Translation
    BY <2>4 DEF MayBeAsked, Translation
  <2> QED BY <1>2, <2>1, <2>4, <2>5
<1> QED BY <1>1, <1>2

(* The backend never runs the caller's own text, however many requests there  *)
(* are and whatever happens to them: for a caller that put its query in one   *)
(* place, what the backend takes for the query is what the translator wrote   *)
(* (server.go findQuery, set).                                                *)
THEOREM BackendNeverRunsTheOriginal == Spec => []BackendRunsTranslation
<1>1. TypeOK /\ GateInv /\ ContentInv => BackendRunsTranslation
  <2> SUFFICES ASSUME TypeOK, GateInv, ContentInv, NEW r \in Request,
                      upstream[r].sent, OneParameter(content[r])
               PROVE  AsksTranslation(r)
    BY DEF BackendRunsTranslation
  <2>1. PICK c \in Contents : c = content[r]
    BY DEF TypeOK
  <2>2. upstream[r].in = Sendable(c) /\ Posed(c) \in MayBeAsked
    BY <2>1 DEF ContentInv, Sends, GateInv, Gated
  <2>3. BackendReads(c.route, Sendable(c)) \in Outputs \cup {"", "blank"}
    BY <2>1, <2>2, PosedWhenCarried, BackendSees
  <2> QED BY <2>1, <2>2, <2>3 DEF AsksTranslation
<1> QED BY <1>1, ContentInvariant, PTL

(* What goes upstream differs from what came in at one parameter, which holds *)
(* the translation of the query the request posed, and at none when it posed  *)
(* no query (server.go set, handlePassthrough).                               *)
THEOREM RewritesOneParameter == Spec => []OneParameterRewritten
<1>1. TypeOK /\ GateInv /\ ContentInv => OneParameterRewritten
  <2> SUFFICES ASSUME TypeOK, GateInv, ContentInv, NEW r \in Request, upstream[r].sent
               PROVE  LET sent == upstream[r].in
                          came == Received(content[r])
                          changed == {i \in 1..4 : At(sent, Slots[i]) # At(came, Slots[i])}
                      IN  IF Posed(content[r]) = "no query" THEN sent = came
                          ELSE \E i \in 1..4 :
                                  /\ changed = {i}
                                  /\ At(sent, Slots[i]) = Translation[Posed(content[r])]
    BY DEF OneParameterRewritten
  <2>1. PICK c \in Contents : c = content[r]
    BY DEF TypeOK
  <2>2. upstream[r].in = Sendable(c) /\ Posed(c) \in MayBeAsked
    BY <2>1 DEF ContentInv, Sends, GateInv, Gated
  <2>3. CASE ~Carries(c)
    BY <2>1, <2>2, <2>3, PosedWhenCarried DEF Sendable
  <2>4. CASE Carries(c)
    <3>1. PICK came \in Inbound : came = Received(c) /\ AsSent(came)
      BY ReceivedAsSent
    <3>2. /\ found(came) /\ Query(came) \in DOMAIN Translation
          /\ Posed(c) = Query(came) /\ Posed(c) # "no query"
      BY <2>2, <2>4, <3>1, PosedWhenCarried DEF Carries
    <3>3. PICK sent : sent = upstream[r].in /\ sent = Rewritten(came)
      BY <2>2, <2>4, <3>1 DEF Sendable
    <3>4. \E i \in 1..4 :
             /\ At(Rewritten(came), Slots[i]) = Translation[Query(came)]
             /\ At(came, Slots[i]) # Translation[Query(came)]
             /\ \A j \in 1..4 \ {i} : At(Rewritten(came), Slots[j]) = At(came, Slots[j])
      BY <3>1, <3>2, RewritesOne
    <3>5. PICK i \in 1..4 :
             /\ At(sent, Slots[i]) = Translation[Query(came)]
             /\ At(came, Slots[i]) # Translation[Query(came)]
             /\ \A j \in 1..4 \ {i} : At(sent, Slots[j]) = At(came, Slots[j])
      BY <3>3, <3>4
    <3>6. {j \in 1..4 : At(sent, Slots[j]) # At(came, Slots[j])} = {i}
      BY <3>5
    <3> QED BY <2>1, <3>1, <3>2, <3>3, <3>5, <3>6
  <2> QED BY <2>3, <2>4
<1> QED BY <1>1, ContentInvariant, PTL

(* Every answer that comes of a translated query says what the translation    *)
(* cost: the backend's, the proxy's when the backend fails, and the refusal,  *)
(* which is how every query the policy withholds is answered unless its       *)
(* caller left first.  No other answer does (server.go handleQuery,           *)
(* setFidelityHeaders).                                                       *)
THEOREM CostsAreTold == Spec => []CostIsReported
<1>1. TypeOK /\ ContentInv => CostIsReported
  <2> SUFFICES ASSUME TypeOK, ContentInv, NEW r \in Request, phase[r] = "answered"
               PROVE  /\ answer[r].status \in {"upstream's", "502"} =>
                            (answer[r].costed <=> Posed(content[r]) # "no query")
                      /\ Refusable(r) /\ client[r] # "gone" =>
                            answer[r].status = "400" /\ answer[r].costed
                      /\ answer[r].status = "400" /\ answer[r].costed =>
                            Refusable(r) /\ ~upstream[r].sent
                      /\ answer[r].status = "200" => ~answer[r].costed
    BY DEF CostIsReported
  <2>1. Reported(r)
    BY DEF ContentInv, Sends
  <2>2. Carries(content[r]) <=> Posed(content[r]) # "no query"
    BY PosedWhenCarried DEF TypeOK
  <2> QED BY <2>1, <2>2 DEF Reported, Told
<1> QED BY <1>1, ContentInvariant, PTL

=============================================================================
