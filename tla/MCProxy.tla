------------------------------ MODULE MCProxy ------------------------------
(***************************************************************************)
(* The proxy with one request of every kind, and with a few that overlap.   *)
(***************************************************************************)
EXTENDS Proxy

CONSTANTS r1, r2

Typical ==
    [route |-> "metrics", method |-> "GET", malformed |-> "nothing",
     url |-> [Absent EXCEPT !["query"] = "exact"], form |-> Absent,
     body |-> "none", oversize |-> FALSE]

(* Every route, method and body, with queries of every kind in "query" and a  *)
(* second one in "q", in the URL and in a form.                               *)
EveryContent ==
    {c \in [route : Routes, method : {"GET", "POST"}, malformed : {"nothing"},
            url : [Params -> Texts \ Outputs], form : [Params -> Texts \ Outputs],
            body : {"none", "form", "opaque"}, oversize : {FALSE}] :
        /\ c.url["q"] \in {"", "exact"} /\ c.form["q"] \in {"", "exact"}
        /\ c.url["query"] # "approximate"
        /\ c.body # "form" => c.form = Absent}
      \cup {[Typical EXCEPT !.method = "POST", !.body = "form", !.malformed = part] :
               part \in {"url", "form"}}
      \cup {[Typical EXCEPT !.route = rt, !.method = "POST", !.url = Absent,
                            !.body = "opaque", !.oversize = TRUE] : rt \in Routes}

(* Enough kinds for two handlers to be caught by a drain in different places. *)
FewContents ==
    {Typical, [Typical EXCEPT !.url["query"] = "lossy"],
     [Typical EXCEPT !.method = "POST", !.body = "form", !.url = Absent,
                     !.form["query"] = "exact"],
     [Typical EXCEPT !.route = "other", !.method = "POST", !.body = "opaque", !.url = Absent]}

TypicalOnly == {Typical}
=============================================================================
