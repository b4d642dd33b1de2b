-------------------------- MODULE DefinitionStore --------------------------
(***************************************************************************)
(* What the process-wide registry promises the goroutines that share it:    *)
(* definitions are replaced as one set, holding each language once, and     *)
(* every question is answered from one such set, in force at some moment    *)
(* while it was being asked.                                                *)
(***************************************************************************)
CONSTANTS Caller,     \* goroutines
          Language    \* the names a definition may be asked for by

VARIABLES inForce,  \* the set of definitions in force
          asked,    \* what each caller asks, or "nothing"
          told      \* what it was told, or NoReply

storeVars == <<inForce, asked, told>>

Questions == Language \cup {"all names", "all definitions", "nothing"}

Names(set) == {d.dsl : d \in set}

NoReply == [says |-> "nothing", defs |-> {}, names |-> {}]

(* A question about a language is answered with its definition or, if there   *)
(* is none, with the names there are.                                         *)
Reply(set, q) ==
    CASE q = "all names" -> [says |-> "names", defs |-> {}, names |-> Names(set)]
      [] q = "all definitions" -> [says |-> "definitions", defs |-> set, names |-> {}]
      [] OTHER ->
            IF q \in Names(set)
            THEN [says |-> "definitions", defs |-> {d \in set : d.dsl = q}, names |-> {}]
            ELSE [says |-> "missing", defs |-> {}, names |-> Names(set)]

StoreInit ==
    /\ inForce = {}
    /\ asked = [t \in Caller |-> "nothing"]
    /\ told = [t \in Caller |-> NoReply]

Replace ==
    /\ inForce' # {} /\ \A d, e \in inForce' : d.dsl = e.dsl => d = e
    /\ UNCHANGED <<asked, told>>

Ask(t, q) ==
    /\ asked' = [asked EXCEPT ![t] = q]
    /\ told' = [told EXCEPT ![t] = NoReply]
    /\ UNCHANGED inForce

Answer(t) ==
    /\ asked[t] # "nothing"
    /\ told' = [told EXCEPT ![t] = Reply(inForce, asked[t])]
    /\ asked' = [asked EXCEPT ![t] = "nothing"]
    /\ UNCHANGED inForce

StoreNext ==
    \/ Replace
    \/ \E t \in Caller : Answer(t) \/ \E q \in Questions : Ask(t, q)

StoreSpec == StoreInit /\ [][StoreNext]_storeVars
=============================================================================
