-------------------------------- MODULE Gate --------------------------------
(***************************************************************************)
(* What the translating proxy promises, whatever it does in between: it asks *)
(* the backend only what the policy lets it ask, it shows the backend's      *)
(* answer only to a caller whose question it asked, and an answer is final.  *)
(***************************************************************************)
CONSTANTS Request,      \* requests callers make
          Question,     \* what a request may be asking, as the policy sees it
          Forwardable   \* the questions the policy lets through

VARIABLES posed,   \* what each request asks, or "nothing" before it arrives
          asked,   \* the requests that went on to the backend
          answer   \* who answered each request, "nobody" while open

gateVars == <<posed, asked, answer>>

GateInit ==
    /\ posed = [r \in Request |-> "nothing"]
    /\ asked = {}
    /\ answer = [r \in Request |-> "nobody"]

Open(r) == posed[r] # "nothing" /\ answer[r] = "nobody"

Pose(r, q) ==
    /\ posed[r] = "nothing"
    /\ posed' = [posed EXCEPT ![r] = q]
    /\ UNCHANGED <<asked, answer>>

Ask(r) ==
    /\ Open(r) /\ posed[r] \in Forwardable
    /\ asked' = asked \cup {r}
    /\ UNCHANGED <<posed, answer>>

Answer(r, who) ==
    /\ Open(r) /\ (who = "backend" => r \in asked)
    /\ answer' = [answer EXCEPT ![r] = who]
    /\ UNCHANGED <<posed, asked>>

GateNext ==
    \E r \in Request :
       \/ \E q \in Question : Pose(r, q)
       \/ Ask(r)
       \/ \E who \in {"proxy", "backend"} : Answer(r, who)

GateSpec == GateInit /\ [][GateNext]_gateVars
=============================================================================
