-------------------------------- MODULE Proxy --------------------------------
(***************************************************************************)
(* polyql-proxy: each request is handled by a goroutine of its own, which   *)
(* reads it, finds the parameter holding the query, translates it, decides  *)
(* whether it may be forwarded, forwards it and copies the answer back,     *)
(* while callers disconnect, the backend fails or stops halfway through an  *)
(* answer, and a signal drains the server.                                  *)
(*                                                                         *)
(* A query is abstracted to what compiler.Translate makes of it.            *)
(***************************************************************************)
EXTENDS Naturals

CONSTANTS Request,        \* requests clients make, each once
          Contents,       \* what a request may consist of
          AllowPartial    \* the --allow-partial flag

ASSUME PolicyAssumption == AllowPartial \in BOOLEAN

Params == {"query", "q"}                    \* queryParams
QueryRoutes == {"metrics", "search"}        \* Prometheus and Loki; Tempo
Routes == QueryRoutes \cup {"health", "other"}

(* The text of a parameter: absent, white space, or a query the translator    *)
(* expresses exactly, approximately, with something missing, or not at all;   *)
(* and what it wrote for each of the first three.                             *)
Queries == {"exact", "approximate", "lossy", "unparseable"}
Translation ==
    [exact |-> "exact, translated", approximate |-> "approximate, translated",
     lossy |-> "lossy, translated"]
Outputs == {Translation[q] : q \in DOMAIN Translation}
Texts == {"", "blank"} \cup Queries \cup Outputs

Absent == [p \in Params |-> ""]

Content ==
    [route : Routes, method : {"GET", "POST"}, malformed : {"nothing", "url", "form"},
     url : [Params -> Texts \ Outputs], form : [Params -> Texts \ Outputs],
     body : {"none", "form", "opaque"}, oversize : BOOLEAN]

ASSUME ContentsAssumption == Contents \subseteq Content

VARIABLES
    content,    \* what each request consists of
    phase,      \* where its handler is
    inbound,    \* inboundRequest: the parameters as the handler holds them
    delivered,  \* whether the client has sent the whole body
    client,     \* waiting for its answer, no longer reading it, or gone
    upstream,   \* what the backend received for each request
    framing,    \* how the backend frames the body of its answer
    answer,     \* what the client got
    server      \* the process

vars == <<content, phase, inbound, delivered, client, upstream, framing, answer, server>>

-----------------------------------------------------------------------------
(* Reading a request. *)

Unread == [url |-> Absent, form |-> Absent, body |-> "none", whole |-> TRUE]

(* readRequest: the body of a GET is left alone, and no more than maxFormBytes *)
(* of any other is read.  An oversized form is one that goes over after the    *)
(* parameters modelled here.                                                   *)
Received(c) ==
    [url |-> c.url,
     form |-> IF c.method = "POST" /\ c.body = "form" THEN c.form ELSE Absent,
     body |-> IF c.method = "POST" THEN c.body ELSE "none",
     whole |-> ~(c.method = "POST" /\ c.oversize)]

HasBody(c) == c.method = "POST" /\ c.body # "none"
Unreadable(c) ==
    c.malformed = "url" \/ (c.malformed = "form" /\ HasBody(c) /\ c.body = "form")

(* findQuery: the form before the URL, "query" before "q", and nothing that   *)
(* is only white space.                                                       *)
Slots == << <<"form", "query">>, <<"form", "q">>, <<"url", "query">>, <<"url", "q">> >>
At(in, slot) == in[slot[1]][slot[2]]
Holding(in) == {i \in 1..4 : At(in, Slots[i]) \notin {"", "blank"}}
found(in) == Holding(in) # {}
findQuery(in) == Slots[CHOOSE i \in Holding(in) : \A j \in Holding(in) : i <= j]
Query(in) == At(in, findQuery(in))

(* Mutants: the URL is always the one written to... *)
setURL(in, param, value) == [in EXCEPT !.url[param] = value]

(* ...and the form is made anew with nothing but the query. *)
setNewForm(in, param, value) ==
    IF in.body = "form" /\ in.form[param] # ""
    THEN [in EXCEPT !.form = [Absent EXCEPT ![param] = value]]
    ELSE [in EXCEPT !.url[param] = value]

(* set: where the parameter was found, unless the form holds one of the name. *)
set(in, param, value) ==
    IF in.body = "form" /\ in.form[param] # ""
    THEN [in EXCEPT !.form[param] = value]
    ELSE [in EXCEPT !.url[param] = value]

(* Mutant: whatever translates is let through. *)
AllowedAll(query) == query \in DOMAIN Translation

(* Translator.Translate: completeness is the gate. *)
Allowed(query) == query # "lossy" \/ AllowPartial

-----------------------------------------------------------------------------
NoAnswer == [by |-> "nobody", status |-> "none", whole |-> TRUE, costed |-> FALSE]
ByProxy(status, costed) ==
    [by |-> "proxy", status |-> status, whole |-> TRUE, costed |-> costed]
FromBackend(a) == [a EXCEPT !.by = "backend", !.status = "upstream's"]
CutShort(a) == [a EXCEPT !.whole = FALSE]
Costed(a) == [a EXCEPT !.costed = TRUE]

NotSent == [sent |-> FALSE, in |-> Unread]

Handling == {"accepted", "read", "sending", "awaiting", "copying"}
Active(r) == phase[r] \in Handling
Running == server # "exited"

Init ==
    /\ content \in [Request -> Contents]
    /\ phase = [r \in Request |-> "idle"]
    /\ inbound = [r \in Request |-> Unread]
    /\ delivered = [r \in Request |-> FALSE]
    /\ client = [r \in Request |-> "waiting"]
    /\ upstream = [r \in Request |-> NotSent]
    /\ framing = [r \in Request |-> "none"]
    /\ answer = [r \in Request |-> NoAnswer]
    /\ server = "serving"

(* Shutdown closes the listener, so a draining server accepts nothing. *)
Accept(r) ==
    /\ server = "serving" /\ phase[r] = "idle"
    /\ phase' = [phase EXCEPT ![r] = "accepted"]
    /\ UNCHANGED <<content, inbound, delivered, client, upstream, framing, answer, server>>

DeliverBody(r) ==
    /\ phase[r] = "accepted" /\ client[r] = "waiting"
    /\ ~delivered[r] /\ HasBody(content[r])
    /\ delivered' = [delivered EXCEPT ![r] = TRUE]
    /\ UNCHANGED <<content, phase, inbound, client, upstream, framing, answer, server>>

Disconnect(r) ==
    /\ Active(r) /\ client[r] # "gone"
    /\ client' = [client EXCEPT ![r] = "gone"]
    /\ UNCHANGED <<content, phase, inbound, delivered, upstream, framing, answer, server>>

(* The caller stays connected and stops reading the backend's answer; an      *)
(* answer of the proxy's own is short enough not to wait for its reader.      *)
Stall(r) ==
    /\ phase[r] = "copying" /\ client[r] = "waiting"
    /\ client' = [client EXCEPT ![r] = "stalled"]
    /\ UNCHANGED <<content, phase, inbound, delivered, upstream, framing, answer, server>>

(* The handler returns, having written an answer of its own. *)
Conclude(r, status, costed) ==
    /\ phase' = [phase EXCEPT ![r] = "answered"]
    /\ answer' = [answer EXCEPT ![r] = ByProxy(status, costed)]

HandleHealth(r) ==
    /\ Running /\ phase[r] = "accepted" /\ content[r].route = "health"
    /\ Conclude(r, "200", FALSE)
    /\ UNCHANGED <<content, inbound, delivered, client, upstream, framing, server>>

AtRead(r) == Running /\ phase[r] = "accepted" /\ content[r].route # "health"

ReadRequest(r) ==
    /\ AtRead(r) /\ ~Unreadable(content[r])
    /\ HasBody(content[r]) => delivered[r]
    /\ inbound' = [inbound EXCEPT ![r] = Received(content[r])]
    /\ phase' = [phase EXCEPT ![r] = "read"]
    /\ UNCHANGED <<content, delivered, client, upstream, framing, answer, server>>

(* Mutant: a body its client stopped sending is waited for. *)
RejectMalformed(r) ==
    /\ AtRead(r) /\ Unreadable(content[r])
    /\ (content[r].malformed = "form" => delivered[r])
    /\ Conclude(r, "400", FALSE)
    /\ UNCHANGED <<content, inbound, delivered, client, upstream, framing, server>>

(* A query string that does not parse, a form that does not, once it is here, *)
(* or a body the client stopped sending.                                      *)
RejectRequest(r) ==
    /\ AtRead(r)
    /\ \/ content[r].malformed = "url"
       \/ Unreadable(content[r]) /\ delivered[r]
       \/ HasBody(content[r]) /\ ~delivered[r] /\ client[r] = "gone"
    /\ Conclude(r, "400", FALSE)
    /\ UNCHANGED <<content, inbound, delivered, client, upstream, framing, server>>

-----------------------------------------------------------------------------
(* handleQuery once the request is read, and handlePassthrough. *)

CarriesQuery(r) == content[r].route \in QueryRoutes /\ found(inbound[r])

PassThrough(r) ==
    /\ Running /\ phase[r] = "read" /\ ~CarriesQuery(r)
    /\ phase' = [phase EXCEPT ![r] = "sending"]
    /\ UNCHANGED <<content, inbound, delivered, client, upstream, framing, answer, server>>

(* Translate fails on a query it cannot parse and for a caller that has left. *)
FailTranslation(r) ==
    /\ Running /\ phase[r] = "read" /\ CarriesQuery(r)
    /\ Query(inbound[r]) \notin DOMAIN Translation \/ client[r] = "gone"
    /\ Conclude(r, "400", FALSE)
    /\ UNCHANGED <<content, inbound, delivered, client, upstream, framing, server>>

(* Mutant: the handler writes its refusal and does not return. *)
RefuseAndGoOn(r) ==
    /\ Running /\ phase[r] = "read" /\ CarriesQuery(r)
    /\ Query(inbound[r]) \in DOMAIN Translation /\ ~Allowed(Query(inbound[r]))
    /\ phase' = [phase EXCEPT ![r] = "sending"]
    /\ UNCHANGED <<content, inbound, delivered, client, upstream, framing, answer, server>>

(* Mutant: the refusal is written before the fidelity headers are set. *)
RefuseUntold(r) ==
    /\ Running /\ phase[r] = "read" /\ CarriesQuery(r)
    /\ Query(inbound[r]) \in DOMAIN Translation /\ ~Allowed(Query(inbound[r]))
    /\ Conclude(r, "400", FALSE)
    /\ UNCHANGED <<content, inbound, delivered, client, upstream, framing, server>>

Refuse(r) ==
    /\ Running /\ phase[r] = "read" /\ CarriesQuery(r)
    /\ Query(inbound[r]) \in DOMAIN Translation /\ ~Allowed(Query(inbound[r]))
    /\ Conclude(r, "400", TRUE)
    /\ UNCHANGED <<content, inbound, delivered, client, upstream, framing, server>>

Translate(r) ==
    /\ Running /\ phase[r] = "read" /\ CarriesQuery(r)
    /\ Query(inbound[r]) \in DOMAIN Translation /\ Allowed(Query(inbound[r]))
    /\ inbound' = [inbound EXCEPT ![r] =
                      set(@, findQuery(@)[2], Translation[Query(@)])]
    /\ answer' = [answer EXCEPT ![r] = Costed(@)]       \* setFidelityHeaders
    /\ phase' = [phase EXCEPT ![r] = "sending"]
    /\ UNCHANGED <<content, delivered, client, upstream, framing, server>>

-----------------------------------------------------------------------------
(* forward. *)

Send(r) ==
    /\ Running /\ phase[r] = "sending"
    /\ upstream' = [upstream EXCEPT ![r] = [sent |-> TRUE, in |-> inbound[r]]]
    /\ phase' = [phase EXCEPT ![r] = "awaiting"]
    /\ UNCHANGED <<content, inbound, delivered, client, framing, answer, server>>

(* Mutant: a status the proxy never promised. *)
FailUpstreamAsTimeout(r) ==
    /\ Running /\ phase[r] \in {"sending", "awaiting"}
    /\ Conclude(r, "504", answer[r].costed)
    /\ UNCHANGED <<content, inbound, delivered, client, upstream, framing, server>>

(* The backend refused the connection, broke it, or did not answer within the *)
(* client's timeout, or the caller left and took the context with it.  The    *)
(* backend may have received the request or not.                              *)
FailUpstream(r) ==
    /\ Running /\ phase[r] \in {"sending", "awaiting"}
    /\ Conclude(r, "502", answer[r].costed)
    /\ UNCHANGED <<content, inbound, delivered, client, upstream, framing, server>>

(* The backend's status and headers are passed on before its body. *)
StartResponse(r) ==
    /\ Running /\ phase[r] = "awaiting"
    /\ \E f \in {"length", "chunked"} : framing' = [framing EXCEPT ![r] = f]
    /\ answer' = [answer EXCEPT ![r] = FromBackend(@)]
    /\ phase' = [phase EXCEPT ![r] = "copying"]
    /\ UNCHANGED <<content, inbound, delivered, client, upstream, server>>

FinishResponse(r) ==
    /\ Running /\ phase[r] = "copying"
    /\ phase' = [phase EXCEPT ![r] = "answered"]
    /\ UNCHANGED <<content, inbound, delivered, client, upstream, framing, answer, server>>

(* io.Copy stops short: the backend broke off, its time ran out while the body *)
(* was being read, or the caller left.  The handler returns all the same.     *)
BreakResponse(r) ==
    /\ Running /\ phase[r] = "copying"
    /\ phase' = [phase EXCEPT ![r] = "answered"]
    /\ answer' = [answer EXCEPT ![r] = CutShort(@)]
    /\ UNCHANGED <<content, inbound, delivered, client, upstream, framing, server>>

-----------------------------------------------------------------------------
(* serve: a signal drains the server, for as long as shutdownGrace allows. *)

Signal ==
    /\ server = "serving" /\ server' = "draining"
    /\ UNCHANGED <<content, phase, inbound, delivered, client, upstream, framing, answer>>

Drained ==
    /\ server = "draining" /\ \A r \in Request : ~Active(r)
    /\ server' = "exited"
    /\ UNCHANGED <<content, phase, inbound, delivered, client, upstream, framing, answer>>

(* Mutants: the end of the grace period takes finished requests with it... *)
GraceCutsAll ==
    /\ server = "draining" /\ \E r \in Request : Active(r)
    /\ server' = "exited" /\ phase' = [r \in Request |-> "cut off"]
    /\ UNCHANGED <<content, inbound, delivered, client, upstream, framing, answer>>

(* ...and a drain without a deadline. *)
GraceNever == FALSE

GraceExpires ==
    /\ server = "draining" /\ \E r \in Request : Active(r)
    /\ server' = "exited"
    /\ phase' = [r \in Request |-> IF Active(r) THEN "cut off" ELSE phase[r]]
    /\ UNCHANGED <<content, inbound, delivered, client, upstream, framing, answer>>

(* A process that has exited stays so. *)
Exited == server = "exited" /\ UNCHANGED vars

-----------------------------------------------------------------------------
(* A handler's own steps, and those its timeouts take for it. *)
Step(r) ==
    \/ HandleHealth(r) \/ ReadRequest(r) \/ RejectRequest(r)
    \/ PassThrough(r) \/ FailTranslation(r) \/ Refuse(r) \/ Translate(r)
    \/ Send(r) \/ FailUpstream(r) \/ StartResponse(r)
    \/ FinishResponse(r) \/ BreakResponse(r)

Next ==
    \/ \E r \in Request :
          Accept(r) \/ DeliverBody(r) \/ Disconnect(r) \/ Stall(r) \/ Step(r)
    \/ Signal \/ Drained \/ GraceExpires \/ Exited

(* The handler writes the answer for a caller that does not read it: io.Copy  *)
(* waits in Write, which has no deadline (the server sets no WriteTimeout and *)
(* the client's timeout ends reads from the backend only).                    *)
Stalled(r) == phase[r] = "copying" /\ client[r] = "stalled"

(* A goroutine that can run does; the client's timeout ends every wait for    *)
(* the backend, and the grace period every drain.  Nothing makes a caller     *)
(* send its body or read its answer, or a signal arrive.                      *)
Fairness ==
    /\ \A r \in Request : WF_vars(Step(r) /\ ~Stalled(r))
    /\ WF_vars(Drained \/ GraceExpires)

Spec == Init /\ [][Next]_vars /\ Fairness

-----------------------------------------------------------------------------
Inbound ==
    [url : [Params -> Texts], form : [Params -> Texts], body : {"none", "form", "opaque"},
     whole : BOOLEAN]
AnswerRecord ==
    [by : {"nobody", "proxy", "backend"}, status : {"none", "200", "400", "502", "upstream's"},
     whole : BOOLEAN, costed : BOOLEAN]

(* Every variable keeps its type. *)
TypeOK ==
    /\ content \in [Request -> Contents]
    /\ phase \in [Request -> Handling \cup {"idle", "answered", "cut off"}]
    /\ inbound \in [Request -> Inbound]
    /\ delivered \in [Request -> BOOLEAN]
    /\ client \in [Request -> {"waiting", "stalled", "gone"}]
    /\ upstream \in [Request -> [sent : BOOLEAN, in : Inbound]]
    /\ framing \in [Request -> {"none", "length", "chunked"}]
    /\ answer \in [Request -> AnswerRecord]
    /\ server \in {"serving", "draining", "exited"}

(* What a request asks, from what the caller sent. *)
Posed(c) ==
    IF c.route \in QueryRoutes /\ found(Received(c)) THEN Query(Received(c)) ELSE "no query"
MayBeAsked ==
    {"no query", "exact", "approximate"} \cup {q \in {"lossy"} : AllowPartial}

(* The proxy fails closed: whatever interleaving of callers, failures and     *)
(* drains led there, the backend has received nothing of a query that would   *)
(* not translate, nor, unless the deployment opted in, of one the target      *)
(* cannot fully express (server.go handleQuery, proxy.go Translate).          *)
FailClosed ==
    \A r \in Request : upstream[r].sent => Posed(content[r]) \in MayBeAsked

(* What the backend takes for the query: "query", in the body before the URL, *)
(* for Prometheus and Loki; the URL's "q" for Tempo.                          *)
BackendReads(route, in) ==
    CASE route = "search" -> in.url["q"]
      [] route = "metrics" -> IF in.form["query"] # "" THEN in.form["query"]
                              ELSE in.url["query"]
      [] OTHER -> ""

OneParameter(c) ==
    \A i, j \in 1..4 :
       (At(Received(c), Slots[i]) # "" /\ At(Received(c), Slots[j]) # "") => i = j

AsksTranslation(r) ==
    BackendReads(content[r].route, upstream[r].in)
       \in Outputs \cup {"", "blank"}

(* The backend never runs the caller's own text: what it takes for the query  *)
(* is what the translator wrote, when the caller sent the query in one place  *)
(* (server.go findQuery and set).                                             *)
BackendRunsTranslation ==
    \A r \in Request :
       (upstream[r].sent /\ OneParameter(content[r])) => AsksTranslation(r)

(* The query a request poses is the one whose translation is sent, and every  *)
(* other parameter goes on as it came; a request without a query goes on as   *)
(* it was read, cut short past maxFormBytes (server.go set,                   *)
(* handlePassthrough).                                                        *)
OneParameterRewritten ==
    \A r \in Request :
       upstream[r].sent =>
          LET sent == upstream[r].in
              came == Received(content[r])
              changed == {i \in 1..4 : At(sent, Slots[i]) # At(came, Slots[i])}
          IN  IF Posed(content[r]) = "no query" THEN sent = came
              ELSE \E i \in 1..4 :
                      /\ changed = {i}
                      /\ At(sent, Slots[i]) = Translation[Posed(content[r])]

(* A readable request whose query translates to less than it asks. *)
Refusable(r) ==
    /\ ~Unreadable(content[r])
    /\ Posed(content[r]) \in DOMAIN Translation \ MayBeAsked

(* A translated query's answer says what the translation cost: the backend's  *)
(* answer, the failure to get one, and the refusal, which is what every query *)
(* the policy withholds is answered with, unless its caller left first (it    *)
(* may then be an answer to nobody, without the cost).  No other answer does  *)
(* (server.go handleQuery, setFidelityHeaders).                               *)
CostIsReported ==
    \A r \in Request :
       phase[r] = "answered" =>
          /\ answer[r].status \in {"upstream's", "502"} =>
                (answer[r].costed <=> Posed(content[r]) # "no query")
          /\ Refusable(r) /\ client[r] # "gone" =>
                answer[r].status = "400" /\ answer[r].costed
          /\ answer[r].status = "400" /\ answer[r].costed =>
                Refusable(r) /\ ~upstream[r].sent
          /\ answer[r].status = "200" => ~answer[r].costed

(* A caller that was told its answer is complete has the backend's whole      *)
(* body: a short body is only ever seen as a broken connection.               *)
SeenAsComplete(r) ==
    phase[r] = "answered" /\ client[r] # "gone"
      /\ (answer[r].whole \/ framing[r] = "chunked")
AnswersAreVerbatim ==
    \A r \in Request : SeenAsComplete(r) => answer[r].whole

(* Once a request is answered nothing more happens to it or on its behalf,    *)
(* and what went upstream is never taken back or changed.                     *)
AnswerIsFinal ==
    [][\A r \in Request :
          /\ phase[r] \in {"answered", "cut off"} =>
                /\ phase'[r] = phase[r] /\ answer'[r] = answer[r]
                /\ upstream'[r] = upstream[r]
          /\ upstream[r].sent => upstream'[r] = upstream[r]]_vars

(* A request whose caller has sent all of it, or left, is concluded, unless   *)
(* the caller stops reading the answer: main.go:183 says that a slow client   *)
(* must not hold a connection open indefinitely, and one that does not read   *)
(* can, since only the headers of a request are given a time.                 *)
RequestConcluded ==
    \A r \in Request :
       (Active(r) /\ (~HasBody(content[r]) \/ delivered[r] \/ client[r] = "gone"))
          ~> (~Active(r) \/ client[r] = "stalled")

(* A server told to stop stops, callers that never send or never read         *)
(* notwithstanding.                                                           *)
DrainEnds == (server = "draining") ~> (server = "exited")

-----------------------------------------------------------------------------
(* The proxy implements the gate. *)

Arrived(r) == phase[r] # "idle"
TheGate == INSTANCE Gate WITH
    Question <- Queries \cup {"no query"},
    Forwardable <- MayBeAsked,
    posed <- [r \in Request |-> IF Arrived(r) THEN Posed(content[r]) ELSE "nothing"],
    asked <- {r \in Request : upstream[r].sent},
    answer <- [r \in Request |-> IF phase[r] = "answered" THEN answer[r].by ELSE "nobody"]
ImplementsGate == TheGate!GateSpec
=============================================================================
