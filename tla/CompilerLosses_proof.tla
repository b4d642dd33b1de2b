------------------------ MODULE CompilerLosses_proof ------------------------
(***************************************************************************)
(* Proofs about what resolution leaves in the tree: the modifiers it keeps  *)
(* and those it loses, and the shapes of the pipelines it builds, which the *)
(* sort preserves.                                                          *)
(***************************************************************************)
EXTENDS CompilerOrder_proof

-----------------------------------------------------------------------------
(* What resolution has recorded.  A log range sets the offset of its query     *)
(* outright, and loses none only because a log expression has had none given  *)
(* to it, which holds because no two operands share a query.                  *)

LogTypes == {"log", "unwrapping"}

(* Operands stand in the order their queries were allocated. *)
OperandsAscend == \A i, j \in DOMAIN stack : i < j => stack[i].q < stack[j].q

Homed == {"offset", "@", "subquery"}
HomesOK ==
    \A k \in DOMAIN authored : authored[k].construct \in Homed => authored[k].home \in DOMAIN query

NoOffset(q) ==
    \A k \in DOMAIN authored : ~(authored[k].construct = "offset" /\ authored[k].home = q)

LogsUnset == \A i \in DOMAIN stack : stack[i].is \in LogTypes => NoOffset(stack[i].q)

ModifiersOK == OperandsAscend /\ HomesOK /\ LogsUnset /\ LossesAreKnown

-----------------------------------------------------------------------------
(* What one step of the resolver does to the operands, to the record of what   *)
(* was written and to the fields that hold it.                                *)

New == Len(query) + 1
Last1 == Len(stack')

(* The step leaves one operand on top, with its own query or a fresh one.     *)
Settles(q, type) ==
    /\ Last1 \in 1..(Len(stack) + 1)
    /\ \A i \in 1..(Last1 - 1) : stack'[i] = stack[i]
    /\ stack'[Last1].q = q /\ stack'[Last1].is = type
    /\ q = New \/ (Last1 \in DOMAIN stack /\ q = stack[Last1].q)

(* What was written is added at the end, for that operand's query, and the    *)
(* operand is then no log expression.                                         *)
Added == DOMAIN authored' \ DOMAIN authored

Records(q, type) ==
    /\ DOMAIN authored \subseteq DOMAIN authored'
    /\ \A k \in DOMAIN authored : authored'[k] = authored[k]
    /\ \A k \in Added : authored'[k].construct \in Homed => authored'[k].home = q
    /\ type \in LogTypes =>
          /\ authored' = authored
          /\ q = New \/ stack[Last1].is \in LogTypes

(* A field that changes has been written again, and what is written is kept.  *)
Again(construct, p) ==
    \E j \in Added : authored'[j].construct = construct /\ authored'[j].home = p

Lossy == {"less", "bool between series"}

FieldsTracked ==
    \A p \in DOMAIN query :
       /\ query'[p].offset = query[p].offset \/ Again("offset", p) \/ NoOffset(p)
       /\ query'[p].pinned = query[p].pinned \/ Again("@", p)
       /\ query'[p].subquery = query[p].subquery \/ Again("subquery", p)

Tracks == FieldsTracked /\ \A k \in Added : Kept(k)' \/ authored'[k].construct \in Lossy

Resolves == Tracks /\ \E q \in Nat, type \in OperandTypes : Settles(q, type) /\ Records(q, type)

(* No stage is taken out of the heap. *)
LEMMA StagesStay ==
  ASSUME HeapOK, StackOK, Moves
  PROVE  DOMAIN stage \subseteq DOMAIN stage'
<1>1. stage \in Seq(StageRecord) /\ DOMAIN stage = 1..Len(stage) /\ Len(stage) \in Nat
  BY HeapDomains DEF HeapOK
<1>2. CASE Begins \/ Folds
  <2>1. PICK st \in StageRecord : stage' = Append(stage, st)
    BY <1>2 DEF Begins, Folds, PushStage, AppendStage
  <2>2. DOMAIN stage' = 1..(Len(stage) + 1)
    BY <1>1, <2>1, AppendProperties
  <2> QED BY <1>1, <2>2
<1>3. CASE ResolveJoin
  <2> DEFINE a == Join(Top.q)
             b == BinaryOp(None, None)
  <2>1. stage' = stage \o <<a, b>>
    BY <1>3 DEF ResolveJoin
  <2>2. a \in StageRecord /\ b \in StageRecord
    <3>1. Len(stack) >= 2
      BY <1>3 DEF ResolveJoin
    <3>2. stack # << >>
      BY <3>1
    <3> QED BY <3>2, TopOfStack, OperatorsMade
  <2> HIDE DEF a, b
  <2>3. <<a, b>> \in Seq(StageRecord) /\ Len(<<a, b>>) = 2
    BY <2>2
  <2>4. stage' \in Seq(StageRecord) /\ Len(stage') = Len(stage) + 2
    BY <1>1, <2>1, <2>3, ConcatProperties
  <2> QED BY <1>1, <2>4
<1>4. CASE Fetches \/ Modifies \/ (Retypes /\ UNCHANGED heap)
  BY <1>4 DEF Fetches, PushQuery, Modifies, heap
<1> QED BY <1>2, <1>3, <1>4 DEF Moves

(* A modifier is its construct and its home. *)
LEMMA SameModifier ==
  ASSUME NEW m \in Modifier, NEW n \in Modifier, m.construct = n.construct, m.home = n.home
  PROVE  m = n
<1>1. m = [construct |-> m.construct, home |-> m.home]
  BY DEF Modifier
<1>2. n = [construct |-> n.construct, home |-> n.home]
  BY DEF Modifier
<1> QED BY <1>1, <1>2

(* Such a step keeps what is known of the losses. *)
LEMMA ResolvesKeeps ==
  ASSUME HeapOK, StackOK, AuthoredOK, Moves, HeapOK', StackOK', AuthoredOK',
         ModifiersOK, Resolves
  PROVE  ModifiersOK'
<1>1. PICK q \in Nat, type \in OperandTypes : Settles(q, type) /\ Records(q, type)
  BY DEF Resolves
<1>2. /\ DOMAIN query = 1..Len(query) /\ Len(query) \in Nat /\ DOMAIN query \subseteq DOMAIN query'
      /\ DOMAIN stack = 1..Len(stack) /\ Len(stack) \in Nat
      /\ DOMAIN stack' = 1..Last1 /\ Last1 \in Nat
      /\ DOMAIN authored = 1..Len(authored) /\ Len(authored) \in Nat
      /\ DOMAIN authored' = 1..Len(authored') /\ Len(authored') \in Nat
      /\ authored \in Seq(Modifier)
  BY MovesExtend, HeapDomains DEF Extended, StackOK, AuthoredOK, Last1
<1>3. /\ \A i \in DOMAIN stack : stack[i].q \in DOMAIN query /\ stack[i].q \in Nat /\ stack[i].q # New
      /\ Last1 \in DOMAIN stack' /\ q \in DOMAIN query'
      /\ \A i \in DOMAIN stack' : i # Last1 => i \in DOMAIN stack /\ i < Last1 /\ stack'[i] = stack[i]
  <2>1. \A i \in DOMAIN stack : stack[i].q \in DOMAIN query /\ stack[i].q \in Nat /\ stack[i].q # New
    BY <1>2 DEF StackOK, New
  <2>2. Last1 \in DOMAIN stack' /\ stack'[Last1].q = q /\ stack'[Last1].q \in DOMAIN query'
    <3>1. Last1 \in DOMAIN stack'
      BY <1>1, <1>2 DEF Settles
    <3>2. stack'[Last1].q = q
      BY <1>1 DEF Settles
    <3> QED BY <3>1, <3>2 DEF StackOK
  <2>3. ASSUME NEW i \in DOMAIN stack', i # Last1
        PROVE  i \in DOMAIN stack /\ i < Last1 /\ stack'[i] = stack[i]
    <3>1. i \in 1..(Last1 - 1) /\ Last1 \in 1..(Len(stack) + 1)
      BY <1>1, <1>2, <2>3 DEF Settles
    <3> QED BY <1>1, <1>2, <3>1 DEF Settles
  <2> QED BY <2>1, <2>2, <2>3
<1> HIDE DEF Last1
<1>4. OperandsAscend'
  <2> SUFFICES ASSUME NEW i \in DOMAIN stack', NEW j \in DOMAIN stack', i < j
               PROVE  stack'[i].q < stack'[j].q
    BY DEF OperandsAscend
  <2>1. i # Last1 /\ i \in DOMAIN stack /\ stack'[i] = stack[i]
    BY <1>2, <1>3
  <2>2. CASE j # Last1
    BY <1>3, <2>1, <2>2 DEF ModifiersOK, OperandsAscend
  <2>3. CASE j = Last1 /\ q = New
    BY <1>1, <1>2, <1>3, <2>1, <2>3 DEF Settles, New
  <2>4. CASE j = Last1 /\ Last1 \in DOMAIN stack /\ q = stack[Last1].q
    BY <1>1, <2>1, <2>4 DEF Settles, ModifiersOK, OperandsAscend
  <2> QED BY <1>1, <2>2, <2>3, <2>4 DEF Settles
<1>5. HomesOK'
  <2> SUFFICES ASSUME NEW k \in DOMAIN authored', authored'[k].construct \in Homed
               PROVE  authored'[k].home \in DOMAIN query'
    BY DEF HomesOK
  <2>1. CASE k \in DOMAIN authored
    BY <1>1, <1>2, <2>1 DEF Records, ModifiersOK, HomesOK
  <2>2. CASE k \in Added
    BY <1>1, <1>3, <2>2 DEF Records
  <2> QED BY <2>1, <2>2 DEF Added
<1>6. LogsUnset'
  <2> SUFFICES ASSUME NEW i \in DOMAIN stack', stack'[i].is \in LogTypes, NEW k \in DOMAIN authored',
                      authored'[k].construct = "offset", authored'[k].home = stack'[i].q
               PROVE  FALSE
    BY DEF LogsUnset, NoOffset
  <2>1. CASE i = Last1
    <3>1. type \in LogTypes /\ stack'[i].q = q
      BY <1>1, <2>1 DEF Settles
    <3>2. authored' = authored /\ (q = New \/ stack[Last1].is \in LogTypes)
      BY <1>1, <3>1 DEF Records
    <3>3. authored[k].home \in DOMAIN query
      BY <3>2 DEF ModifiersOK, HomesOK, Homed
    <3>4. q # New
      BY <1>2, <3>1, <3>2, <3>3 DEF New
    <3>5. Last1 \in DOMAIN stack /\ q = stack[Last1].q /\ stack[Last1].is \in LogTypes
      BY <1>1, <3>2, <3>4 DEF Settles
    <3> QED BY <3>1, <3>2, <3>5 DEF ModifiersOK, LogsUnset, NoOffset
  <2>2. CASE i # Last1
    <3>1. i \in DOMAIN stack /\ i < Last1 /\ stack'[i] = stack[i]
      BY <1>3, <2>2
    <3>2. NoOffset(stack[i].q)
      BY <3>1 DEF ModifiersOK, LogsUnset
    <3>3. k \in Added
      BY <1>1, <3>1, <3>2 DEF NoOffset, Records, Added
    <3>4. stack[i].q = q
      BY <1>1, <3>1, <3>3 DEF Records, Homed
    <3>5. Last1 \in DOMAIN stack /\ q = stack[Last1].q
      BY <1>1, <1>3, <3>1, <3>4 DEF Settles
    <3>6. stack[i].q < stack[Last1].q
      BY <3>1, <3>5 DEF ModifiersOK, OperandsAscend
    <3> QED BY <1>3, <3>4, <3>5, <3>6
  <2> QED BY <2>1, <2>2
<1>7. LossesAreKnown'
  <2> SUFFICES ASSUME NEW k \in DOMAIN authored'
               PROVE  \/ Kept(k)' \/ authored'[k].construct \in Lossy
                      \/ \E j \in DOMAIN authored' : j > k /\ authored'[j] = authored'[k]
    BY DEF LossesAreKnown, Lossy
  <2>1. CASE k \in Added
    BY <2>1 DEF Resolves, Tracks, FieldsTracked
  <2>2. ASSUME k \in DOMAIN authored, NEW j \in DOMAIN authored, j > k, authored[j] = authored[k]
        PROVE  \E l \in DOMAIN authored' : l > k /\ authored'[l] = authored'[k]
    BY <1>1, <2>2 DEF Records
  <2>3. ASSUME k \in DOMAIN authored, NEW j \in Added,
               authored'[j].construct = authored[k].construct, authored'[j].home = authored[k].home
        PROVE  \E l \in DOMAIN authored' : l > k /\ authored'[l] = authored'[k]
    <3>1. j \in DOMAIN authored' /\ j \notin DOMAIN authored
      BY <2>3 DEF Added
    <3>2. j > k
      BY <1>1, <1>2, <2>3, <3>1
    <3>3. authored'[j] \in Modifier /\ authored[k] \in Modifier /\ authored'[k] = authored[k]
      BY <1>1, <1>2, <2>3, <3>1 DEF AuthoredOK, Records
    <3>4. authored'[j] = authored[k]
      BY <2>3, <3>3, SameModifier
    <3> QED BY <3>1, <3>2, <3>3, <3>4
  <2>4. CASE k \in DOMAIN authored /\ Kept(k)
    <3> DEFINE m == authored[k]
    <3>1. authored'[k] = m /\ m \in Modifier
      BY <1>1, <1>2, <2>4 DEF Records
    <3>2. m.construct \in Homed => m.home \in DOMAIN query
      BY <2>4 DEF ModifiersOK, HomesOK
    <3>3. CASE m.construct = "offset"
      <4>1. m.home \in DOMAIN query /\ query[m.home].offset = k
        BY <2>4, <3>2, <3>3 DEF Kept, Homed
      <4>2. ~NoOffset(m.home)
        BY <2>4, <3>3 DEF NoOffset
      <4>3. query'[m.home].offset = query[m.home].offset \/ Again("offset", m.home)
        BY <4>1, <4>2 DEF Resolves, Tracks, FieldsTracked
      <4> QED BY <2>3, <2>4, <3>1, <3>3, <4>1, <4>3 DEF Again, Kept
    <3>4. CASE m.construct = "@"
      <4>1. m.home \in DOMAIN query /\ query[m.home].pinned = k
        BY <2>4, <3>2, <3>4 DEF Kept, Homed
      <4>3. query'[m.home].pinned = query[m.home].pinned \/ Again("@", m.home)
        BY <4>1 DEF Resolves, Tracks, FieldsTracked
      <4> QED BY <2>3, <2>4, <3>1, <3>4, <4>1, <4>3 DEF Again, Kept
    <3>5. CASE m.construct = "subquery"
      <4>1. m.home \in DOMAIN query /\ query[m.home].subquery = k
        BY <2>4, <3>2, <3>5 DEF Kept, Homed
      <4>3. query'[m.home].subquery = query[m.home].subquery \/ Again("subquery", m.home)
        BY <4>1 DEF Resolves, Tracks, FieldsTracked
      <4> QED BY <2>3, <2>4, <3>1, <3>5, <4>1, <4>3 DEF Again, Kept
    <3>6. CASE m.construct = "bool"
      <4>1. \E s \in DOMAIN stage : stage[s].bool = k
        BY <2>4, <3>6 DEF Kept
      <4>2. \E s \in DOMAIN stage' : stage'[s].bool = k
        BY <4>1, StagesStay, MovesExtend DEF Extended
      <4> QED BY <3>1, <3>6, <4>2 DEF Kept
    <3>7. CASE m.construct \in Lossy
      BY <3>1, <3>7
    <3> QED BY <3>1, <3>3, <3>4, <3>5, <3>6, <3>7 DEF Modifier, Lossy
  <2>5. CASE k \in DOMAIN authored /\ authored[k].construct \in Lossy
    BY <1>1, <2>5 DEF Records
  <2>6. k \in DOMAIN authored \/ k \in Added
    BY DEF Added
  <2> QED BY <2>1, <2>2, <2>4, <2>5, <2>6 DEF ModifiersOK, LossesAreKnown, Lossy
<1> QED BY <1>4, <1>5, <1>6, <1>7 DEF ModifiersOK

-----------------------------------------------------------------------------
(* The operands after each kind of step. *)

(* A query fetched goes on top. *)
LEMMA FetchSettles ==
  ASSUME HeapOK, StackOK, NEW type \in OperandTypes,
         stack' = Append(stack, [q |-> New, is |-> type])
  PROVE  Settles(New, type) /\ New \in Nat
<1> DEFINE x == [q |-> New, is |-> type]
<1>1. stack \in Seq(Pending) /\ Len(stack) \in Nat /\ New \in Nat
  BY HeapDomains DEF StackOK, New
<1>2. x \in Pending /\ x.q = New /\ x.is = type
  BY <1>1 DEF Pending
<1>3. stack' = Append(stack, x)
  OBVIOUS
<1> HIDE DEF x
<1>4. /\ Last1 = Len(stack) + 1 /\ stack'[Len(stack) + 1] = x
      /\ \A i \in 1..Len(stack) : stack'[i] = stack[i]
  BY <1>1, <1>2, <1>3, AppendProperties DEF Last1
<1> QED BY <1>1, <1>2, <1>4 DEF Settles

(* A query begun takes the place of its operands. *)
LEMMA BeginSettles ==
  ASSUME HeapOK, StackOK, NEW n \in 0..Len(stack), NEW type \in OperandTypes,
         stack' = Append(Pop(n), [q |-> New, is |-> type])
  PROVE  Settles(New, type) /\ New \in Nat
<1> DEFINE x == [q |-> New, is |-> type]
<1>1. Len(stack) \in Nat /\ New \in Nat
  BY HeapDomains DEF StackOK, New
<1>2. x \in Pending /\ x.q = New /\ x.is = type
  BY <1>1 DEF Pending
<1>3. /\ Pop(n) \in Seq(Pending) /\ Len(Pop(n)) = Len(stack) - n
      /\ \A i \in 1..(Len(stack) - n) : Pop(n)[i] = stack[i]
  BY PopKeeps
<1>4. stack' = Append(Pop(n), x)
  OBVIOUS
<1> HIDE DEF x
<1>5. /\ Last1 = Len(stack) - n + 1 /\ stack'[Last1] = x
      /\ \A i \in 1..(Len(stack) - n) : stack'[i] = Pop(n)[i]
  BY <1>2, <1>3, <1>4, AppendProperties DEF Last1
<1> QED BY <1>1, <1>2, <1>3, <1>5 DEF Settles

(* An operand changes its type. *)
LEMMA RetypeSettles ==
  ASSUME HeapOK, StackOK, NEW type \in OperandTypes, stack # << >>,
         stack' = [stack EXCEPT ![Len(stack)].is = type]
  PROVE  /\ Settles(Top.q, type) /\ Top.q \in Nat
         /\ Last1 = Len(stack) /\ stack[Last1].is = Top.is
<1> DEFINE n == Len(stack)
           e == [stack[n] EXCEPT !.is = type]
<1>1. n \in DOMAIN stack /\ stack[n] \in Pending /\ DOMAIN stack = 1..n /\ n \in Nat \ {0}
      /\ stack \in Seq(Pending)
  BY DEF StackOK
<1>2. e \in Pending /\ e.q = stack[n].q /\ e.is = type /\ Top = stack[n] /\ stack[n].q \in Nat
  BY <1>1 DEF Pending, Top
<1>3. stack' = [stack EXCEPT ![n] = e]
  OBVIOUS
<1> HIDE DEF e
<1>4. Len(stack') = n /\ \A i \in 1..n : stack'[i] = IF i = n THEN e ELSE stack[i]
  BY <1>1, <1>2, <1>3, ExceptSeq
<1> HIDE DEF n
<1> QED BY <1>1, <1>2, <1>4 DEF Settles, Last1, n

(* The right side of a join is taken off. *)
LEMMA JoinSettles ==
  ASSUME HeapOK, StackOK, Len(stack) >= 2, stack' = Pop(1)
  PROVE  Settles(Below.q, Below.is) /\ Below \in Pending
<1>1. Len(stack) \in Nat /\ DOMAIN stack = 1..Len(stack) /\ \A i \in 1..Len(stack) : stack[i] \in Pending
  BY DEF StackOK
<1>2. /\ Len(stack') = Len(stack) - 1 /\ \A i \in 1..(Len(stack) - 1) : stack'[i] = stack[i]
  <2>1. 1 \in 0..Len(stack)
    BY <1>1
  <2> QED BY <2>1, PopKeeps
<1> QED BY <1>1, <1>2 DEF Settles, Last1, Below

-----------------------------------------------------------------------------
(* The fields of the queries there are. *)

FieldsStay ==
    \A p \in DOMAIN query :
       /\ query'[p].offset = query[p].offset /\ query'[p].pinned = query[p].pinned
       /\ query'[p].subquery = query[p].subquery

(* Only a subquery and a log range change them. *)
LEMMA OthersKeepFields ==
  ASSUME HeapOK, StackOK, Fetches \/ Begins \/ Folds \/ ResolveJoin \/ UNCHANGED query
  PROVE  FieldsStay
<1>0. /\ DOMAIN query = 1..Len(query) /\ Len(query) \in Nat /\ query \in Seq(QueryRecord)
      /\ \A q \in DOMAIN query : query[q] \in QueryRecord
  BY HeapDomains DEF HeapOK
<1>1. ASSUME NEW q, q \in QueryRecord, query' = Append(query, q)
      PROVE  FieldsStay
  <2>1. /\ Len(query') = Len(query) + 1 /\ query'[Len(query) + 1] = q
        /\ \A p \in 1..Len(query) : query'[p] = query[p]
    <3>1. query \in Seq(QueryRecord)
      BY <1>0
    <3> QED BY <1>1, <3>1, AppendProperties
  <2>2. \A p \in DOMAIN query : query'[p] = query[p]
    BY <1>0, <2>1
  <2> QED BY <2>2 DEF FieldsStay
<1>2. ASSUME NEW q \in DOMAIN query, NEW ids,
             query' = [query EXCEPT ![q] = [query[q] EXCEPT !.pipeline = ids]]
      PROVE  FieldsStay
  <2> SUFFICES ASSUME NEW p \in DOMAIN query
               PROVE  /\ query'[p].offset = query[p].offset /\ query'[p].pinned = query[p].pinned
                      /\ query'[p].subquery = query[p].subquery
    BY DEF FieldsStay
  <2>1. CASE p = q
    <3>1. query'[p] = [query[p] EXCEPT !.pipeline = ids] /\ query[p] \in QueryRecord
      BY <1>0, <1>2, <2>1
    <3> QED BY <3>1 DEF QueryRecord
  <2>2. CASE p # q
    BY <1>2, <2>2
  <2> QED BY <2>1, <2>2
<1>3. CASE Fetches
  BY <1>1, <1>3 DEF Fetches, PushQuery
<1>4. CASE Begins
  <2> DEFINE s == Len(stage) + 1
             q == [NewQuery(MetricSignal, "none") EXCEPT !.pipeline = <<s>>]
  <2>1. query' = Append(query, q)
    BY <1>4 DEF Begins, PushStage
  <2>2. q \in QueryRecord
    <3>1. s \in StageId
      <4>1. Len(stage) + 1 <= MaxStages
        BY <1>4 DEF Begins
      <4> QED BY <4>1, HeapDomains DEF StageId
    <3>2. <<s>> \in Seq(StageId)
      BY <3>1
    <3> HIDE DEF s
    <3> QED BY <3>2, BareQuery
  <2> HIDE DEF q
  <2> QED BY <1>1, <2>1, <2>2
<1>5. CASE Folds
  <2>1. Top.q \in DOMAIN query
        /\ query' = [query EXCEPT ![Top.q].pipeline = Append(@, Len(stage) + 1)]
    BY <1>5, TopOfStack DEF Folds, AppendStage
  <2>2. query' = [query EXCEPT ![Top.q] = [query[Top.q] EXCEPT !.pipeline = Append(@, Len(stage) + 1)]]
    BY <2>1
  <2> QED BY <1>2, <2>1, <2>2
<1>6. CASE ResolveJoin
  <2>1. Below.q \in DOMAIN query
    <3>1. Len(stack) >= 2
      BY <1>6 DEF ResolveJoin
    <3>2. stack # << >>
      BY <3>1
    <3> QED BY <3>1, <3>2, TopOfStack
  <2>2. query' = [query EXCEPT ![Below.q] = [query[Below.q] EXCEPT !.pipeline = @ \o <<Len(stage) + 1, Len(stage) + 2>>]]
    BY <1>6, <2>1 DEF ResolveJoin
  <2> QED BY <1>2, <2>1, <2>2
<1>7. CASE UNCHANGED query
  BY <1>7 DEF FieldsStay
<1> QED BY <1>3, <1>4, <1>5, <1>6, <1>7

-----------------------------------------------------------------------------
(* Steps that write no modifier. *)

(* Nothing is written and no field is lost. *)
LEMMA QuietResolves ==
  ASSUME FieldsStay, UNCHANGED authored, NEW q \in Nat, NEW type \in OperandTypes,
         Settles(q, type), type \in LogTypes => q = New \/ stack[Last1].is \in LogTypes
  PROVE  Resolves
<1>1. Added = {}
  BY DEF Added
<1>2. Records(q, type)
  BY <1>1 DEF Records
<1>3. Tracks
  BY <1>1 DEF Tracks, FieldsTracked, FieldsStay
<1> QED BY <1>2, <1>3 DEF Resolves

(* A stage folded into a log expression, or giving something else. *)
LEMMA FoldResolves ==
  ASSUME HeapOK, StackOK, Folds, UNCHANGED authored, NEW type \in OperandTypes, stack # << >>,
         stack' = [stack EXCEPT ![Len(stack)].is = type], type \in LogTypes => Top.is \in LogTypes
  PROVE  Resolves
<1>1. FieldsStay
  BY OthersKeepFields
<1>2. Settles(Top.q, type) /\ Top.q \in Nat /\ stack[Last1].is = Top.is
  BY RetypeSettles
<1> QED BY <1>1, <1>2, QuietResolves

(* Range functions, calls and aggregations. *)
LEMMA CallsResolve ==
  ASSUME HeapOK, StackOK,
         NEW op \in {"RATE", "SUM", "QUANTILE", "COUNT_DISTINCT", "bytes_rate",
                     "stdvar_over_time", "sort", "abs", "histogram_fraction"},
         ResolveRangeFunction(op) \/ ResolveAggregateExpr(op) \/ ResolveCall(op)
  PROVE  Resolves
<1>1. Folds
  BY CallsFold
<1>2. /\ stack # << >> /\ UNCHANGED authored
      /\ stack' = [stack EXCEPT ![Len(stack)].is = "vector"]
  BY DEF ResolveRangeFunction, ResolveAggregateExpr, ResolveCall, AppendStage, Operand
<1>3. "vector" \in OperandTypes /\ "vector" \notin LogTypes
  BY DEF OperandTypes, LogTypes
<1> QED BY <1>1, <1>2, <1>3, FoldResolves

(* The stages of a log pipeline. *)
LEMMA StagesResolve ==
  ASSUME HeapOK, StackOK,
         (\E st \in LogStage : ResolveStage(st)) \/ ResolveUnwrap \/ ResolvePostFilter
  PROVE  Resolves
<1>1. Folds
  BY StagesFold
<1>2. /\ stack # << >> /\ UNCHANGED authored /\ Top.is \in LogTypes
      /\ \/ stack' = [stack EXCEPT ![Len(stack)].is = "log"]
         \/ stack' = [stack EXCEPT ![Len(stack)].is = "unwrapping"]
  BY DEF ResolveStage, ResolveUnwrap, ResolvePostFilter, AppendStage, Operand, LogTypes
<1>3. "log" \in OperandTypes /\ "unwrapping" \in OperandTypes
  BY DEF OperandTypes
<1> QED BY <1>1, <1>2, <1>3, FoldResolves

(* Selecting a log stream. *)
LEMMA StreamResolves ==
  ASSUME HeapOK, StackOK, AuthoredOK, NEW m \in AllowedSources, ResolveStreamSelector(m)
  PROVE  Resolves
<1>1. Fetches
  <2>1. m \in SourceKinds \cup {"name"} /\ TRUE \in BOOLEAN
    BY DEF AllowedSources
  <2> QED BY <2>1, SelectorsFetch
<1>2. FieldsStay
  BY <1>1, OthersKeepFields
<1>3. UNCHANGED authored /\ stack' = Append(stack, [q |-> New, is |-> "log"])
  BY DEF ResolveStreamSelector, PushQuery, New
<1>4. "log" \in OperandTypes
  BY DEF OperandTypes
<1>5. Settles(New, "log") /\ New \in Nat
  BY <1>3, <1>4, FetchSettles
<1> QED BY <1>2, <1>3, <1>4, <1>5, QuietResolves

(* Numbers, and the operator over one operand. *)
LEMMA LiteralsResolve ==
  ASSUME HeapOK, StackOK, ResolveLiteral \/ ResolveUnaryExpr
  PROVE  Resolves
<1>1. FieldsStay
  BY OperatorsBegin, OthersKeepFields
<1>2. {"literal", "vector", "scalar"} \subseteq OperandTypes \ LogTypes
  BY DEF OperandTypes, LogTypes
<1>3. PICK n \in 0..Len(stack), type \in {"literal", "vector", "scalar"} :
         stack' = Append(Pop(n), [q |-> New, is |-> type])
  <2>1. CASE ResolveLiteral
    <3>1. stack' = Append(Pop(0), [q |-> New, is |-> "literal"])
      BY <2>1 DEF ResolveLiteral, PushStage, New
    <3>2. 0 \in 0..Len(stack)
      BY DEF StackOK
    <3> QED BY <3>1, <3>2
  <2>2. CASE ResolveUnaryExpr
    <3> DEFINE type == IF Top.is = "vector" THEN "vector" ELSE ScalarType
    <3>1. stack' = Append(Pop(1), [q |-> New, is |-> type]) /\ stack # << >>
      BY <2>2 DEF ResolveUnaryExpr, PushStage, New, Operand
    <3>2. 1 \in 0..Len(stack)
      BY <3>1, TopOfStack
    <3>3. type \in {"literal", "vector", "scalar"}
      BY DEF ScalarType
    <3> HIDE DEF type
    <3> QED BY <3>1, <3>2, <3>3
  <2> QED BY <2>1, <2>2
<1>4. Settles(New, type) /\ New \in Nat
  BY <1>2, <1>3, BeginSettles
<1>5. UNCHANGED authored
  BY DEF ResolveLiteral, ResolveUnaryExpr
<1> QED BY <1>1, <1>2, <1>3, <1>4, <1>5, QuietResolves

(* A join. *)
LEMMA JoinResolves ==
  ASSUME HeapOK, StackOK, ResolveJoin
  PROVE  Resolves
<1>1. FieldsStay
  BY OthersKeepFields
<1>2. Len(stack) >= 2 /\ stack' = Pop(1) /\ UNCHANGED authored /\ Below.is = "vector"
  BY DEF ResolveJoin
<1>3. Settles(Below.q, Below.is) /\ Below \in Pending
  BY <1>2, JoinSettles
<1>4. Below.q \in Nat /\ Below.is \in OperandTypes
  BY <1>3 DEF Pending
<1>5. Below.is \notin LogTypes
  BY <1>2 DEF LogTypes
<1> QED BY <1>1, <1>2, <1>3, <1>4, <1>5, QuietResolves

(* Parentheses around a number. *)
LEMMA ParenResolves ==
  ASSUME HeapOK, StackOK, ResolveParenExpr
  PROVE  Resolves
<1>1. FieldsStay
  <2>1. UNCHANGED query
    BY DEF ResolveParenExpr, heap
  <2> QED BY <2>1, OthersKeepFields
<1>2. /\ stack # << >> /\ UNCHANGED authored
      /\ stack' = [stack EXCEPT ![Len(stack)].is = ScalarType]
  BY DEF ResolveParenExpr, Operand
<1>3. ScalarType \in OperandTypes /\ ScalarType \notin LogTypes
  BY DEF ScalarType, OperandTypes, LogTypes
<1>4. Settles(Top.q, ScalarType) /\ Top.q \in Nat
  BY <1>2, <1>3, RetypeSettles
<1> QED BY <1>1, <1>2, <1>3, <1>4, QuietResolves

-----------------------------------------------------------------------------
(* Steps that write modifiers. *)

(* One more modifier, or none. *)
With(s, c, x) == s \o Given(c, <<x>>)

(* What that does to what was written before. *)
LEMMA GivenAdds ==
  ASSUME NEW s \in Seq(Modifier), NEW x \in Modifier, NEW c \in BOOLEAN
  PROVE  /\ With(s, c, x) \in Seq(Modifier) /\ \A k \in 1..Len(s) : With(s, c, x)[k] = s[k]
         /\ c => Len(With(s, c, x)) = Len(s) + 1 /\ With(s, c, x)[Len(s) + 1] = x
         /\ ~c => Len(With(s, c, x)) = Len(s)
<1>0. s \in Seq(Modifier) /\ Len(s) \in Nat
  OBVIOUS
<1>1. CASE c
  <2> DEFINE u == <<x>>
  <2>1. With(s, c, x) = s \o u
    BY <1>1 DEF With, Given
  <2>2. u \in Seq(Modifier) /\ Len(u) = 1 /\ u[1] = x
    OBVIOUS
  <2> HIDE DEF u
  <2>3. /\ s \o u \in Seq(Modifier) /\ Len(s \o u) = Len(s) + Len(u)
        /\ \A k \in 1..(Len(s) + Len(u)) : (s \o u)[k] = IF k <= Len(s) THEN s[k] ELSE u[k - Len(s)]
    BY <1>0, <2>2, ConcatProperties
  <2>4. With(s, c, x)[Len(s) + 1] = x
    <3>1. Len(s) + 1 \in 1..(Len(s) + 1) /\ ~(Len(s) + 1 <= Len(s)) /\ (Len(s) + 1) - Len(s) = 1
      BY <1>0
    <3> QED BY <2>1, <2>2, <2>3, <3>1
  <2>5. /\ With(s, c, x) \in Seq(Modifier) /\ Len(With(s, c, x)) = Len(s) + 1
        /\ \A k \in 1..Len(s) : With(s, c, x)[k] = s[k]
    BY <1>0, <2>1, <2>2, <2>3
  <2> QED BY <1>1, <2>4, <2>5
<1>2. CASE ~c
  <2> DEFINE u == << >>
  <2>1. With(s, c, x) = s \o u
    BY <1>2 DEF With, Given
  <2>2. u \in Seq(Modifier) /\ Len(u) = 0
    OBVIOUS
  <2> HIDE DEF u
  <2>3. /\ s \o u \in Seq(Modifier) /\ Len(s \o u) = Len(s) + Len(u)
        /\ \A k \in 1..(Len(s) + Len(u)) : (s \o u)[k] = IF k <= Len(s) THEN s[k] ELSE u[k - Len(s)]
    BY <1>0, <2>2, ConcatProperties
  <2>4. /\ With(s, c, x) \in Seq(Modifier) /\ Len(With(s, c, x)) = Len(s)
        /\ \A k \in 1..Len(s) : With(s, c, x)[k] = s[k]
    BY <1>0, <2>1, <2>2, <2>3
  <2> QED BY <1>2, <2>4
<1> QED BY <1>1, <1>2

(* Where an offset and a pinned instant are recorded. *)
WrittenAt(m, offset, pinned, q) ==
    \A k \in 1..Len(m) : k > Len(authored) =>
       \/ offset /\ k = Occurrence(offset, 1, 0) /\ m[k] = Wrote("offset", q)
       \/ pinned /\ k = PinOccurrence(offset, pinned, 0) /\ m[k] = Wrote("@", q)

OffsetWritten(m, offset, q) ==
    offset => Len(authored) + 1 \in 1..Len(m) /\ m[Len(authored) + 1] = Wrote("offset", q)
PinWritten(m, pinned, q) == pinned => \E k \in 1..Len(m) : k > Len(authored) /\ m[k] = Wrote("@", q)

(* They are, in that order, after what was there. *)
LEMMA ModifiersAt ==
  ASSUME AuthoredOK, NEW offset \in BOOLEAN, NEW pinned \in BOOLEAN, NEW q \in Nat
  PROVE  LET m == Modifiers(offset, pinned, q) IN
         /\ m \in Seq(Modifier) /\ Len(m) \in Nat /\ Len(m) >= Len(authored) /\ Len(authored) \in Nat
         /\ \A k \in 1..Len(authored) : m[k] = authored[k]
         /\ WrittenAt(m, offset, pinned, q)
         /\ OffsetWritten(m, offset, q) /\ PinWritten(m, pinned, q)
<1> DEFINE m == Modifiers(offset, pinned, q)
           s == With(authored, offset, Wrote("offset", q))
           x == Wrote("offset", q)
           y == Wrote("@", q)
<1>1. authored \in Seq(Modifier) /\ Len(authored) \in Nat /\ x \in Modifier /\ y \in Modifier
  <2>1. x \in Modifier /\ y \in Modifier
    BY WroteType
  <2>2. authored \in Seq(Modifier) /\ Len(authored) \in Nat
    BY DEF AuthoredOK
  <2> QED BY <2>1, <2>2
<1>2. m = With(s, pinned, y) /\ s = With(authored, offset, x)
  BY DEF Modifiers, With
<1> HIDE DEF m, s, x, y
<1>3. /\ s \in Seq(Modifier) /\ \A k \in 1..Len(authored) : s[k] = authored[k]
      /\ offset => Len(s) = Len(authored) + 1 /\ s[Len(authored) + 1] = x
      /\ ~offset => Len(s) = Len(authored)
  BY <1>1, <1>2, GivenAdds
<1>4. /\ m \in Seq(Modifier) /\ \A k \in 1..Len(s) : m[k] = s[k]
      /\ pinned => Len(m) = Len(s) + 1 /\ m[Len(s) + 1] = y
      /\ ~pinned => Len(m) = Len(s)
  <2>1. s \in Seq(Modifier) /\ y \in Modifier
    BY <1>1, <1>3
  <2>2. /\ With(s, pinned, y) \in Seq(Modifier) /\ \A k \in 1..Len(s) : With(s, pinned, y)[k] = s[k]
        /\ pinned => /\ Len(With(s, pinned, y)) = Len(s) + 1
                     /\ With(s, pinned, y)[Len(s) + 1] = y
        /\ ~pinned => Len(With(s, pinned, y)) = Len(s)
    BY <2>1, GivenAdds
  <2> QED BY <1>2, <2>2
<1>5. Len(m) \in Nat /\ Len(m) >= Len(authored) /\ \A k \in 1..Len(authored) : m[k] = authored[k]
  BY <1>1, <1>3, <1>4
<1>6. offset => /\ Len(authored) + 1 \in 1..Len(m) /\ m[Len(authored) + 1] = x
  BY <1>1, <1>3, <1>4
<1>7. pinned => /\ PinOccurrence(offset, pinned, 0) = Len(s) + 1 /\ Len(s) + 1 > Len(authored)
                /\ Len(s) + 1 \in 1..Len(m) /\ m[Len(s) + 1] = y
  <2> SUFFICES ASSUME pinned
               PROVE  /\ PinOccurrence(offset, pinned, 0) = Len(s) + 1 /\ Len(s) + 1 > Len(authored)
                      /\ Len(s) + 1 \in 1..Len(m) /\ m[Len(s) + 1] = y
    OBVIOUS
  <2>1. PinOccurrence(offset, pinned, 0) = Len(authored) + (IF offset THEN 2 ELSE 1)
    BY DEF PinOccurrence, Occurrence
  <2>2. Len(s) \in Nat /\ Len(m) = Len(s) + 1 /\ m[Len(s) + 1] = y /\ Len(authored) \in Nat
    BY <1>1, <1>3, <1>4
  <2> DEFINE z == PinOccurrence(offset, pinned, 0)
             more == IF offset THEN 2 ELSE 1
  <2> HIDE DEF z
  <2>3. Len(s) = Len(authored) + more - 1
    BY <1>3, <2>2
  <2>4. more \in {1, 2} /\ z = Len(authored) + more
    BY <2>1 DEF z
  <2> HIDE DEF more
  <2>5. z = Len(s) + 1 /\ Len(s) + 1 > Len(authored) /\ Len(s) + 1 \in 1..Len(m)
    BY <2>2, <2>3, <2>4
  <2> QED BY <2>2, <2>5 DEF z
<1>8. ASSUME NEW k \in 1..Len(m), k > Len(authored)
      PROVE  \/ offset /\ k = Occurrence(offset, 1, 0) /\ m[k] = x
             \/ pinned /\ k = PinOccurrence(offset, pinned, 0) /\ m[k] = y
  <2>1. CASE pinned /\ k = Len(s) + 1
    BY <1>7, <2>1
  <2>2. CASE ~(pinned /\ k = Len(s) + 1)
    <3>1. offset /\ k = Len(authored) + 1
      BY <1>1, <1>3, <1>4, <1>8, <2>2
    <3> QED BY <1>6, <3>1 DEF Occurrence
  <2> QED BY <2>1, <2>2
<1>9. OffsetWritten(m, offset, q) /\ PinWritten(m, pinned, q)
  BY <1>6, <1>7 DEF OffsetWritten, PinWritten, x, y
<1> QED BY <1>1, <1>4, <1>5, <1>8, <1>9 DEF m, x, y, WrittenAt

(* What is written is recorded for the operand on top, which is no log        *)
(* expression.                                                                *)
LEMMA WritingResolves ==
  ASSUME AuthoredOK, NEW q \in Nat, NEW type \in OperandTypes \ LogTypes, Settles(q, type),
         authored' \in Seq(Modifier), Len(authored) <= Len(authored'),
         \A k \in 1..Len(authored) : authored'[k] = authored[k],
         FieldsTracked,
         \A k \in 1..Len(authored') : k > Len(authored) =>
            /\ authored'[k].construct \in Homed => authored'[k].home = q
            /\ Kept(k)' \/ authored'[k].construct \in Lossy
  PROVE  Resolves
<1>1. /\ DOMAIN authored = 1..Len(authored) /\ Len(authored) \in Nat
      /\ DOMAIN authored' = 1..Len(authored') /\ Len(authored') \in Nat
  BY DEF AuthoredOK
<1>2. \A k \in Added : k \in 1..Len(authored') /\ k > Len(authored)
  BY <1>1 DEF Added
<1>3. Records(q, type)
  BY <1>1, <1>2 DEF Records
<1>4. Tracks
  BY <1>2 DEF Tracks
<1> QED BY <1>3, <1>4 DEF Resolves

(* What has been written is in the fields it belongs to. *)
LEMMA ModifiersKept ==
  ASSUME AuthoredOK, NEW offset \in BOOLEAN, NEW pinned \in BOOLEAN, NEW q \in Nat,
         NEW k \in 1..Len(Modifiers(offset, pinned, q)), k > Len(authored),
         authored'[k] = Modifiers(offset, pinned, q)[k],
         offset => query'[q].offset = Occurrence(offset, 1, 0),
         pinned => query'[q].pinned = PinOccurrence(offset, pinned, 0)
  PROVE  authored'[k].home = q /\ Kept(k)'
<1> DEFINE m == Modifiers(offset, pinned, q)
<1>1. \/ offset /\ k = Occurrence(offset, 1, 0) /\ m[k] = Wrote("offset", q)
      \/ pinned /\ k = PinOccurrence(offset, pinned, 0) /\ m[k] = Wrote("@", q)
  <2>1. WrittenAt(m, offset, pinned, q)
    BY ModifiersAt
  <2> HIDE DEF m
  <2> QED BY <2>1 DEF WrittenAt, m
<1> HIDE DEF m
<1>4. authored'[k] = m[k]
  BY DEF m
<1>2. CASE offset /\ k = Occurrence(offset, 1, 0) /\ m[k] = Wrote("offset", q)
  <2>0. authored'[k] = Wrote("offset", q)
    BY <1>2, <1>4
  <2>1. authored'[k].construct = "offset" /\ authored'[k].home = q
    BY <2>0 DEF Wrote
  <2> QED BY <1>2, <2>1 DEF Kept
<1>3. CASE pinned /\ k = PinOccurrence(offset, pinned, 0) /\ m[k] = Wrote("@", q)
  <2>0. authored'[k] = Wrote("@", q)
    BY <1>3, <1>4
  <2>1. authored'[k].construct = "@" /\ authored'[k].home = q
    BY <2>0 DEF Wrote
  <2> QED BY <1>3, <2>1 DEF Kept
<1> QED BY <1>1, <1>2, <1>3

(* Arithmetic, and a comparison between two series. *)
LEMMA ArithmeticResolves ==
  ASSUME HeapOK, StackOK, AuthoredOK, NEW bool \in BOOLEAN, ResolveArithmetic(bool)
  PROVE  Resolves
<1> DEFINE type == IF "vector" \in {Top.is, Below.is} THEN "vector" ELSE ScalarType
           x == Wrote("bool between series", New)
<1>1. FieldsTracked
  <2>1. Begins
    BY OperatorsBegin
  <2> QED BY <2>1, OthersKeepFields DEF FieldsTracked, FieldsStay
<1>2. type \in OperandTypes \ LogTypes
  BY DEF OperandTypes, LogTypes, ScalarType
<1>3. Len(stack) >= 2 /\ stack' = Append(Pop(2), [q |-> New, is |-> type])
  BY DEF ResolveArithmetic, PushStage, New
<1>4. authored' = With(authored, bool, x)
  BY DEF ResolveArithmetic, With, New
<1> HIDE DEF type
<1>5. Settles(New, type) /\ New \in Nat
  <2>1. 2 \in 0..Len(stack)
    BY <1>3 DEF StackOK
  <2> QED BY <1>2, <1>3, <2>1, BeginSettles
<1>6. x \in Modifier /\ x.construct = "bool between series"
  <2>1. x \in Modifier
    BY <1>5, WroteType
  <2> QED BY <2>1 DEF Wrote
<1> HIDE DEF x
<1>7. /\ authored' \in Seq(Modifier) /\ \A k \in 1..Len(authored) : authored'[k] = authored[k]
      /\ bool => Len(authored') = Len(authored) + 1 /\ authored'[Len(authored) + 1] = x
      /\ ~bool => Len(authored') = Len(authored)
  <2>1. authored \in Seq(Modifier)
    BY DEF AuthoredOK
  <2> QED BY <1>4, <1>6, <2>1, GivenAdds
<1>8. Len(authored) \in Nat
  BY DEF AuthoredOK
<1>9. ASSUME NEW k \in 1..Len(authored'), k > Len(authored)
      PROVE  authored'[k].construct \in Lossy /\ authored'[k].construct \notin Homed
  <2>1. k = Len(authored) + 1 /\ authored'[k] = x
    BY <1>7, <1>8, <1>9
  <2> QED BY <1>6, <2>1 DEF Lossy, Homed
<1>10. Len(authored) <= Len(authored')
  BY <1>7, <1>8
<1> QED BY <1>1, <1>2, <1>5, <1>7, <1>9, <1>10, WritingResolves

(* A comparison with a number: its bool is the stage's. *)
LEMMA ComparisonResolves ==
  ASSUME HeapOK, StackOK, AuthoredOK, NEW numberFirst \in BOOLEAN, NEW bool \in BOOLEAN,
         ResolveComparisonFilter(numberFirst, bool)
  PROVE  Resolves
<1> DEFINE x == Wrote("bool", Top.q)
           y == Wrote("less", Len(stage) + 1)
           s == With(authored, bool, x)
           st == Filter(FieldValue, "greater", Occurrence(bool, 1, 0))
<1>1. FieldsTracked
  <2>1. Folds
    BY ComparisonFolds
  <2> QED BY <2>1, OthersKeepFields DEF FieldsTracked, FieldsStay
<1>2. /\ stack # << >> /\ Top.is \in MetricTypes
      /\ stack' = [stack EXCEPT ![Len(stack)].is = Top.is]
      /\ stage' = Append(stage, st)
  BY DEF ResolveComparisonFilter, AppendStage, Operand
<1>3. Top.is \in OperandTypes \ LogTypes
  BY <1>2 DEF MetricTypes, OperandTypes, LogTypes
<1>4. Settles(Top.q, Top.is) /\ Top.q \in Nat
  BY <1>2, <1>3, RetypeSettles
<1>5. authored' = With(s, numberFirst, y)
  BY DEF ResolveComparisonFilter, With
<1>6. x \in Modifier /\ x.construct = "bool" /\ y \in Modifier /\ y.construct = "less"
  <2>1. Len(stage) + 1 \in Nat
    BY HeapDomains
  <2>2. x \in Modifier /\ y \in Modifier
    BY <1>4, <2>1, WroteType
  <2> QED BY <2>2 DEF Wrote
<1> HIDE DEF x, y, s
<1>7. authored \in Seq(Modifier) /\ Len(authored) \in Nat
  BY DEF AuthoredOK
<1>8. /\ s \in Seq(Modifier) /\ \A k \in 1..Len(authored) : s[k] = authored[k]
      /\ bool => Len(s) = Len(authored) + 1 /\ s[Len(authored) + 1] = x
      /\ ~bool => Len(s) = Len(authored)
  BY <1>6, <1>7, GivenAdds DEF s
<1>9. /\ authored' \in Seq(Modifier) /\ \A k \in 1..Len(s) : authored'[k] = s[k]
      /\ numberFirst => Len(authored') = Len(s) + 1 /\ authored'[Len(s) + 1] = y
      /\ ~numberFirst => Len(authored') = Len(s)
  <2>1. s \in Seq(Modifier)
    BY <1>8
  <2>2. /\ With(s, numberFirst, y) \in Seq(Modifier)
        /\ \A k \in 1..Len(s) : With(s, numberFirst, y)[k] = s[k]
        /\ numberFirst => /\ Len(With(s, numberFirst, y)) = Len(s) + 1
                          /\ With(s, numberFirst, y)[Len(s) + 1] = y
        /\ ~numberFirst => Len(With(s, numberFirst, y)) = Len(s)
    BY <1>6, <2>1, GivenAdds
  <2> QED BY <1>5, <2>2
<1>10. Len(s) \in Nat /\ Len(authored) <= Len(s) /\ Len(s) <= Len(authored')
       /\ Len(authored) <= Len(authored')
  BY <1>7, <1>8, <1>9
<1>11. \A k \in 1..Len(authored) : authored'[k] = authored[k]
  BY <1>7, <1>8, <1>9, <1>10
<1>12. bool => \E t \in DOMAIN stage' : stage'[t].bool = Len(authored) + 1
  <2> SUFFICES ASSUME bool PROVE \E t \in DOMAIN stage' : stage'[t].bool = Len(authored) + 1
    OBVIOUS
  <2>1. Occurrence(bool, 1, 0) = Len(authored) + 1
    BY DEF Occurrence
  <2>2. FieldValue \in StageNames /\ "greater" \in Comparisons /\ FieldValue \notin {"unwrap", "literal"}
    BY DEF StageNames, Comparisons, FieldValue
  <2>3. st \in StageRecord
    <3> DEFINE b == Occurrence(bool, 1, 0)
    <3>1. b \in Nat
      BY OccurrenceType
    <3> HIDE DEF b
    <3>2. Filter(FieldValue, "greater", b) \in StageRecord
      BY <2>2, <3>1, FilterMade
    <3> QED BY <3>2 DEF b
  <2>4. st.bool = Len(authored) + 1
    BY <2>1 DEF Filter, Blank
  <2> HIDE DEF st
  <2>5. stage \in Seq(StageRecord) /\ Len(stage) \in Nat
    BY HeapDomains DEF HeapOK
  <2>6. Len(stage') = Len(stage) + 1 /\ stage'[Len(stage) + 1] = st /\ stage' \in Seq(StageRecord)
    BY <1>2, <2>3, <2>5, AppendProperties
  <2>7. Len(stage) + 1 \in DOMAIN stage'
    BY <2>5, <2>6
  <2> QED BY <2>4, <2>6, <2>7
<1>13. ASSUME NEW k \in 1..Len(authored'), k > Len(authored)
       PROVE  /\ authored'[k].construct \notin Homed
              /\ Kept(k)' \/ authored'[k].construct \in Lossy
  <2>1. CASE k <= Len(s)
    <3>1. bool /\ k = Len(authored) + 1 /\ authored'[k] = x
      BY <1>7, <1>8, <1>9, <1>10, <1>13, <2>1
    <3>2. authored'[k].construct = "bool"
      BY <1>6, <3>1
    <3>3. \E t \in DOMAIN stage' : stage'[t].bool = k
      BY <1>12, <3>1
    <3> QED BY <3>2, <3>3 DEF Kept, Homed
  <2>2. CASE k > Len(s)
    <3>1. authored'[k] = y
      BY <1>9, <1>10, <1>13, <2>2
    <3> QED BY <1>6, <3>1 DEF Lossy, Homed
  <2> QED BY <1>10, <2>1, <2>2
<1> QED BY <1>1, <1>3, <1>4, <1>9, <1>10, <1>11, <1>13, WritingResolves

(* A selector has the modifiers written after it. *)
LEMMA SelectorResolves ==
  ASSUME HeapOK, StackOK, AuthoredOK, NEW m \in AllowedSources \cup {"name"},
         NEW offset \in BOOLEAN, NEW pinned \in BOOLEAN,
         ResolveVectorSelector(m, offset, pinned) \/ ResolveMatrixSelector(m, offset, pinned)
  PROVE  Resolves
<1> DEFINE ms == Modifiers(offset, pinned, New)
<1>1. m \in SourceKinds \cup {"name"}
  BY DEF AllowedSources
<1>2. FieldsTracked
  <2>1. Fetches
    BY <1>1, SelectorsFetch
  <2> QED BY <2>1, OthersKeepFields DEF FieldsTracked, FieldsStay
<1>3. PICK q \in QueryRecord, type \in {"vector", "range"} :
         /\ PushQuery(WithModifiers(q, offset, pinned), type) /\ q.pipeline = << >>
  <2>1. NewQuery("METRIC", m) \in QueryRecord /\ NewQuery("METRIC", m).pipeline = << >>
        /\ [NewQuery("METRIC", m) EXCEPT !.step = TRUE] \in QueryRecord
        /\ [NewQuery("METRIC", m) EXCEPT !.step = TRUE].pipeline = << >>
    BY <1>1, SelectorMade
  <2>2. \/ PushQuery(WithModifiers(NewQuery("METRIC", m), offset, pinned), "vector")
        \/ PushQuery(WithModifiers([NewQuery("METRIC", m) EXCEPT !.step = TRUE], offset, pinned), "range")
    BY DEF ResolveVectorSelector, ResolveMatrixSelector
  <2> QED BY <2>1, <2>2
<1>4. authored' = ms
  BY DEF ResolveVectorSelector, ResolveMatrixSelector, New
<1>5. type \in OperandTypes \ LogTypes
  BY DEF OperandTypes, LogTypes
<1>6. Settles(New, type) /\ New \in Nat
  <2>1. stack' = Append(stack, [q |-> New, is |-> type])
    BY <1>3 DEF PushQuery, New
  <2> QED BY <1>5, <2>1, FetchSettles
<1> DEFINE r == WithModifiers(q, offset, pinned)
<1>7. query'[New] = r
  <2>1. r \in QueryRecord
    BY <1>3, SelectorModified
  <2>2. query' = Append(query, r) /\ query \in Seq(QueryRecord)
    BY <1>3 DEF PushQuery, HeapOK
  <2> HIDE DEF r
  <2> QED BY <2>1, <2>2, AppendProperties DEF New
<1>8. r.offset = Occurrence(offset, 1, 0) /\ r.pinned = PinOccurrence(offset, pinned, 0)
  <2> DEFINE a == Occurrence(offset, 1, 0)
             b == PinOccurrence(offset, pinned, 0)
  <2>1. r = [q EXCEPT !.offset = a, !.pinned = b]
    BY DEF WithModifiers
  <2> HIDE DEF a, b
  <2>2. r.offset = a /\ r.pinned = b
    BY <2>1 DEF QueryRecord
  <2> QED BY <2>2 DEF a, b
<1> HIDE DEF r
<1>9. /\ ms \in Seq(Modifier) /\ Len(ms) >= Len(authored)
      /\ Len(authored) \in Nat /\ Len(ms) \in Nat
      /\ \A k \in 1..Len(authored) : ms[k] = authored[k]
  BY <1>6, ModifiersAt
<1>10. ASSUME NEW k \in 1..Len(authored'), k > Len(authored)
       PROVE  authored'[k].home = New /\ Kept(k)'
  <2>1. k \in 1..Len(ms) /\ authored'[k] = ms[k]
    BY <1>4
  <2>2. /\ query'[New].offset = Occurrence(offset, 1, 0)
        /\ query'[New].pinned = PinOccurrence(offset, pinned, 0)
    BY <1>7, <1>8
  <2> QED BY <1>6, <1>10, <2>1, <2>2, ModifiersKept
<1> HIDE DEF ms
<1>11. /\ authored' \in Seq(Modifier) /\ Len(authored) <= Len(authored')
       /\ \A k \in 1..Len(authored) : authored'[k] = authored[k]
  BY <1>4, <1>9
<1> QED BY <1>2, <1>5, <1>6, <1>10, <1>11, WritingResolves

(* A log range sets its query's offset, which had none.                       *)
LEMMA LogRangeResolves ==
  ASSUME HeapOK, StackOK, AuthoredOK, LogsUnset, NEW offset \in BOOLEAN, ResolveLogRange(offset)
  PROVE  Resolves
<1> DEFINE p == Top.q
           ms == Modifiers(offset, FALSE, p)
           a == Occurrence(offset, 1, 0)
           r == [query[p] EXCEPT !.step = TRUE, !.offset = a]
           type == IF Top.is = "log" THEN "range" ELSE "unwrapped range"
<1>1. stack # << >> /\ Top.is \in LogTypes /\ authored' = ms
  BY DEF ResolveLogRange, Operand, LogTypes
<1>2. /\ p \in DOMAIN query /\ p \in Nat /\ query[p] \in QueryRecord
      /\ Len(stack) \in DOMAIN stack /\ Top \in Pending
  <2>1. p \in DOMAIN query /\ Len(stack) \in DOMAIN stack /\ Top \in Pending
    BY <1>1, TopOfStack
  <2> QED BY <2>1, HeapDomains DEF Pending
<1>3. query' = [query EXCEPT ![p] = r]
  BY <1>2 DEF ResolveLogRange
<1>4. stack' = [stack EXCEPT ![Len(stack)].is = type]
  BY <1>2 DEF ResolveLogRange, Top
<1>5. type \in OperandTypes \ LogTypes
  BY DEF OperandTypes, LogTypes
<1> HIDE DEF type
<1>6. Settles(p, type)
  BY <1>1, <1>4, <1>5, RetypeSettles
<1>7. r.offset = a /\ r.pinned = query[p].pinned /\ r.subquery = query[p].subquery
  <2> HIDE DEF a, p
  <2> QED BY <1>2 DEF QueryRecord
<1> HIDE DEF r
<1>8. query'[p] = r /\ \A o \in DOMAIN query : o # p => query'[o] = query[o]
  BY <1>2, <1>3
<1>9. NoOffset(p)
  BY <1>1, <1>2 DEF LogsUnset, Top
<1>10. FieldsTracked
  <2> HIDE DEF p, a
  <2> SUFFICES ASSUME NEW o \in DOMAIN query
               PROVE  /\ query'[o].offset = query[o].offset \/ NoOffset(o)
                      /\ query'[o].pinned = query[o].pinned /\ query'[o].subquery = query[o].subquery
    BY DEF FieldsTracked
  <2>1. CASE o = p
    BY <1>7, <1>8, <1>9, <2>1
  <2>2. CASE o # p
    BY <1>8, <2>2
  <2> QED BY <2>1, <2>2
<1>11. /\ ms \in Seq(Modifier) /\ Len(ms) >= Len(authored)
       /\ Len(authored) \in Nat /\ Len(ms) \in Nat
       /\ \A k \in 1..Len(authored) : ms[k] = authored[k]
  <2>1. FALSE \in BOOLEAN
    OBVIOUS
  <2> HIDE DEF p
  <2> QED BY <1>2, <2>1, ModifiersAt
<1>12. ASSUME NEW k \in 1..Len(authored'), k > Len(authored)
       PROVE  authored'[k].home = p /\ Kept(k)'
  <2>1. k \in 1..Len(ms) /\ authored'[k] = ms[k] /\ FALSE \in BOOLEAN
    BY <1>1
  <2>2. query'[p].offset = a
    BY <1>7, <1>8
  <2> HIDE DEF p
  <2> QED BY <1>2, <1>12, <2>1, <2>2, ModifiersKept
<1> HIDE DEF ms, p
<1>13. /\ authored' \in Seq(Modifier) /\ Len(authored) <= Len(authored')
       /\ \A k \in 1..Len(authored) : authored'[k] = authored[k]
  BY <1>1, <1>11
<1> QED BY <1>2, <1>5, <1>6, <1>10, <1>12, <1>13, WritingResolves

(* A subquery writes its range over what its query holds, and its offset and  *)
(* pinned instant where it has them.                                          *)
LEMMA SubqueryResolves ==
  ASSUME HeapOK, StackOK, AuthoredOK, NEW offset \in BOOLEAN, NEW pinned \in BOOLEAN,
         ResolveSubqueryExpr(offset, pinned)
  PROVE  Resolves
<1> DEFINE p == Top.q
           ms == Modifiers(offset, pinned, p)
           x == Wrote("subquery", p)
           a == Occurrence(offset, 1, query[p].offset)
           b == PinOccurrence(offset, pinned, query[p].pinned)
           c == Len(ms) + 1
           r == [query[p] EXCEPT !.offset = a, !.pinned = b, !.subquery = c]
<1>1. /\ stack # << >> /\ authored' = Append(ms, x)
      /\ stack' = [stack EXCEPT ![Len(stack)].is = "range"]
  BY DEF ResolveSubqueryExpr, Operand
<1>2. p \in DOMAIN query /\ p \in Nat /\ query[p] \in QueryRecord
  <2>1. p \in DOMAIN query /\ Top \in Pending
    BY <1>1, TopOfStack
  <2> QED BY <2>1, HeapDomains DEF Pending
<1>3. query' = [query EXCEPT ![p] = r]
  BY <1>2 DEF ResolveSubqueryExpr
<1>4. "range" \in OperandTypes \ LogTypes
  BY DEF OperandTypes, LogTypes
<1>5. Settles(p, "range")
  BY <1>1, <1>4, RetypeSettles
<1>6. r.offset = a /\ r.pinned = b /\ r.subquery = c
  <2> HIDE DEF a, b, c, p
  <2> QED BY <1>2 DEF QueryRecord
<1> HIDE DEF r
<1>7. query'[p] = r /\ \A o \in DOMAIN query : o # p => query'[o] = query[o]
  BY <1>2, <1>3
<1>8. /\ offset => a = Occurrence(offset, 1, 0)
      /\ ~offset => a = query[p].offset
      /\ pinned => b = PinOccurrence(offset, pinned, 0)
      /\ ~pinned => b = query[p].pinned
  <2> HIDE DEF p
  <2> QED BY DEF Occurrence, PinOccurrence
<1> HIDE DEF a, b
<1>9. /\ ms \in Seq(Modifier) /\ Len(ms) \in Nat /\ Len(ms) >= Len(authored) /\ Len(authored) \in Nat
      /\ \A k \in 1..Len(authored) : ms[k] = authored[k]
      /\ offset => /\ Len(authored) + 1 \in 1..Len(ms)
                   /\ ms[Len(authored) + 1] = Wrote("offset", p)
      /\ pinned => \E k \in 1..Len(ms) : k > Len(authored) /\ ms[k] = Wrote("@", p)
  <2> HIDE DEF p
  <2>1. /\ ms \in Seq(Modifier) /\ Len(ms) \in Nat /\ Len(ms) >= Len(authored)
        /\ Len(authored) \in Nat /\ \A k \in 1..Len(authored) : ms[k] = authored[k]
    BY <1>2, ModifiersAt
  <2>2. OffsetWritten(ms, offset, p)
    BY <1>2, ModifiersAt
  <2>3. PinWritten(ms, pinned, p)
    BY <1>2, ModifiersAt
  <2> HIDE DEF ms
  <2> QED BY <2>1, <2>2, <2>3 DEF OffsetWritten, PinWritten
<1>10. x \in Modifier /\ x.construct = "subquery" /\ x.home = p
  <2> HIDE DEF p
  <2>1. x \in Modifier
    BY <1>2, WroteType
  <2> QED BY <2>1 DEF Wrote
<1> DEFINE Late(k) == k \in 1..Len(authored') /\ k > Len(authored)
<1>11. ASSUME NEW k \in 1..Len(ms), k > Len(authored), authored'[k] = ms[k]
       PROVE  authored'[k].home = p /\ Kept(k)'
  <2>1. /\ offset => query'[p].offset = Occurrence(offset, 1, 0)
        /\ pinned => query'[p].pinned = PinOccurrence(offset, pinned, 0)
    BY <1>6, <1>7, <1>8
  <2> HIDE DEF p
  <2> QED BY <1>2, <1>11, <2>1, ModifiersKept
<1> HIDE DEF x, ms, p
<1>12. /\ authored' \in Seq(Modifier) /\ Len(authored') = Len(ms) + 1
       /\ authored'[Len(ms) + 1] = x /\ \A k \in 1..Len(ms) : authored'[k] = ms[k]
  BY <1>1, <1>9, <1>10, AppendProperties
<1>13. /\ Len(authored) <= Len(authored')
       /\ \A k \in 1..Len(authored) : authored'[k] = authored[k]
  BY <1>9, <1>12
<1>14. \A k : Late(k) => k \in Added
  <2>1. DOMAIN authored = 1..Len(authored) /\ DOMAIN authored' = 1..Len(authored')
    BY <1>12 DEF AuthoredOK
  <2> QED BY <1>9, <2>1 DEF Added
<1>15. /\ Late(c) /\ authored'[c].construct = "subquery" /\ authored'[c].home = p
       /\ query'[p].subquery = c
  <2>1. Late(c) /\ authored'[c] = x
    BY <1>9, <1>12
  <2>2. query'[p].subquery = c
    BY <1>6, <1>7
  <2> HIDE DEF c
  <2> QED BY <1>10, <2>1, <2>2
<1>16. offset => Again("offset", p)
  <2> SUFFICES ASSUME offset PROVE Again("offset", p)
    OBVIOUS
  <2>1. Late(Len(authored) + 1) /\ authored'[Len(authored) + 1] = Wrote("offset", p)
    BY <1>9, <1>12
  <2> QED BY <1>14, <2>1 DEF Again, Wrote
<1>17. pinned => Again("@", p)
  <2> SUFFICES ASSUME pinned PROVE Again("@", p)
    OBVIOUS
  <2>1. PICK k \in 1..Len(ms) : k > Len(authored) /\ ms[k] = Wrote("@", p)
    BY <1>9
  <2>2. Late(k) /\ authored'[k] = Wrote("@", p)
    BY <1>9, <1>12, <2>1
  <2> QED BY <1>14, <2>2 DEF Again, Wrote
<1>18. FieldsTracked
  <2> SUFFICES ASSUME NEW o \in DOMAIN query
               PROVE  /\ query'[o].offset = query[o].offset \/ Again("offset", o)
                      /\ query'[o].pinned = query[o].pinned \/ Again("@", o)
                      /\ query'[o].subquery = query[o].subquery \/ Again("subquery", o)
    BY DEF FieldsTracked
  <2>1. CASE o = p
    <3>1. Again("subquery", p)
      BY <1>14, <1>15 DEF Again
    <3>2. query'[p].offset = query[p].offset \/ offset
      BY <1>6, <1>7, <1>8
    <3>3. query'[p].pinned = query[p].pinned \/ pinned
      BY <1>6, <1>7, <1>8
    <3> QED BY <1>16, <1>17, <2>1, <3>1, <3>2, <3>3
  <2>2. CASE o # p
    BY <1>7, <2>2
  <2> QED BY <2>1, <2>2
<1>19. ASSUME NEW k \in 1..Len(authored'), k > Len(authored)
       PROVE  authored'[k].home = p /\ Kept(k)'
  <2>1. CASE k = c
    <3>1. /\ authored'[k].construct = "subquery" /\ authored'[k].home = p
          /\ query'[p].subquery = k
      BY <1>15, <2>1
    <3> QED BY <3>1 DEF Kept
  <2>2. CASE k # c
    <3>1. k \in 1..Len(ms) /\ authored'[k] = ms[k]
      BY <1>9, <1>12, <2>2
    <3> QED BY <1>11, <1>19, <3>1
  <2> QED BY <2>1, <2>2
<1> QED BY <1>2, <1>4, <1>5, <1>12, <1>13, <1>18, <1>19, WritingResolves

(* Every step of the resolver is one of these. *)
LEMMA ResolverResolves ==
  ASSUME HeapOK, StackOK, AuthoredOK, LogsUnset, ResolverNext
  PROVE  Resolves
<1>1. ASSUME NEW op \in {"RATE", "SUM", "QUANTILE", "COUNT_DISTINCT", "bytes_rate",
                  "stdvar_over_time"},
             ResolveRangeFunction(op) \/ ResolveAggregateExpr(op)
      PROVE  Resolves
  BY <1>1, CallsResolve
<1>2. ASSUME NEW name \in {"sort", "abs", "histogram_fraction"}, ResolveCall(name)
      PROVE  Resolves
  BY <1>2, CallsResolve
<1>3. CASE (\E st \in LogStage : ResolveStage(st)) \/ ResolveUnwrap \/ ResolvePostFilter
  BY <1>3, StagesResolve
<1> QED
  BY <1>1, <1>2, <1>3, SelectorResolves, SubqueryResolves, StreamResolves, LogRangeResolves,
     ArithmeticResolves, ComparisonResolves, LiteralsResolve, JoinResolves, ParenResolves
     DEF ResolverNext

-----------------------------------------------------------------------------
(* The whole translation. *)

(* Sorting a pipeline leaves every modifier where it is. *)
LEMMA SortingKeeps ==
  ASSUME HeapOK, ModifiersOK, NEW q \in DOMAIN query, stage' = stage, stack' = stack,
         authored' = authored,
         query' = [query EXCEPT ![q].pipeline = Reordered(Pipeline(q), def)]
  PROVE  ModifiersOK'
<1>1. /\ DOMAIN query' = DOMAIN query
      /\ \A p \in DOMAIN query : p # q => query'[p] = query[p]
  BY VisitQueryHeap
<1>2. query[q] \in QueryRecord
  BY HeapDomains
<1>3. query'[q] = [query[q] EXCEPT !.pipeline = Reordered(Pipeline(q), def)]
  OBVIOUS
<1>4. /\ query'[q].offset = query[q].offset /\ query'[q].pinned = query[q].pinned
      /\ query'[q].subquery = query[q].subquery
  BY <1>2, <1>3 DEF QueryRecord
<1>5. \A p \in DOMAIN query :
         /\ query'[p].offset = query[p].offset /\ query'[p].pinned = query[p].pinned
         /\ query'[p].subquery = query[p].subquery
  BY <1>1, <1>4
<1>6. OperandsAscend' /\ HomesOK' /\ LogsUnset'
  BY <1>1 DEF ModifiersOK, OperandsAscend, HomesOK, LogsUnset, NoOffset
<1>7. ASSUME NEW k \in DOMAIN authored, Kept(k)
      PROVE  Kept(k)'
  <2>1. authored[k].construct \in Homed => authored[k].home \in DOMAIN query
    BY DEF ModifiersOK, HomesOK
  <2> QED BY <1>5, <1>7, <2>1 DEF Kept, Homed
<1>8. LossesAreKnown'
  BY <1>7 DEF ModifiersOK, LossesAreKnown
<1> QED BY <1>6, <1>8 DEF ModifiersOK

(* A translation begins with nothing written. *)
LEMMA NothingWritten ==
  ASSUME stack = << >>, authored = << >>
  PROVE  ModifiersOK
<1>1. DOMAIN stack = {} /\ DOMAIN authored = {}
  OBVIOUS
<1> QED BY <1>1 DEF ModifiersOK, OperandsAscend, HomesOK, LogsUnset, LossesAreKnown

(* Every step keeps them. *)
LEMMA ModifiersSteps ==
  Typed /\ ModifiersOK /\ [Next]_vars => ModifiersOK'
<1> SUFFICES ASSUME Typed, ModifiersOK, [Next]_vars PROVE ModifiersOK'
  OBVIOUS
<1>0. HeapOK /\ StackOK /\ AuthoredOK /\ WalkOK /\ LogsUnset
  BY DEF Typed, ModifiersOK
<1>1. CASE Resolve
  <2>1. ResolverNext
    BY <1>1 DEF Resolve
  <2>2. Moves /\ Resolves
    BY <1>0, <2>1, ResolverMoves, ResolverResolves
  <2>3. HeapOK' /\ StackOK' /\ AuthoredOK'
    BY <1>0, <2>1, ResolverTypes
  <2> QED BY <1>0, <2>2, <2>3, ResolvesKeeps
<1>2. CASE Fail
  <2>1. stack' = << >> /\ authored' = << >>
    BY <1>2 DEF Fail
  <2>2. DOMAIN stack' = {} /\ DOMAIN authored' = {}
    BY <2>1
  <2> QED BY <2>2 DEF ModifiersOK, OperandsAscend, HomesOK, LogsUnset, LossesAreKnown
<1>3. CASE Validate /\ VisitQuery
  <2> DEFINE q == Head(toVisit)[2]
  <2>1. stage' = stage /\ stack' = stack /\ authored' = authored
    BY <1>3 DEF Validate, VisitQuery
  <2>2. query' = [query EXCEPT ![q].pipeline = Reordered(Pipeline(q), def)]
    BY <1>3 DEF VisitQuery
  <2>3. q \in DOMAIN query
    BY <1>0, <1>3, VisitSorts DEF Validate
  <2> QED BY <1>0, <2>1, <2>2, <2>3, SortingKeeps
<1>4. CASE UNCHANGED resolverVars
  <2>1. query' = query /\ stage' = stage /\ stack' = stack /\ authored' = authored
    BY <1>4 DEF resolverVars, heap
  <2> QED BY <2>1 DEF ModifiersOK, OperandsAscend, HomesOK, LogsUnset, NoOffset, LossesAreKnown,
                      Kept
<1>5. Resolve \/ Fail \/ (Validate /\ VisitQuery) \/ UNCHANGED resolverVars
  BY DEF Next, Proceed, BeginValidation, Validate, ValidatorNext, VisitStage, VisitMatcher,
         VisitWindow, VisitOther, Report, BeginEmission, Emit, GenerateReport, Returned, vars,
         resolverVars
<1> QED BY <1>1, <1>2, <1>3, <1>4, <1>5

(* However selectors, subqueries, comparisons and operators nest, every       *)
(* modifier the author wrote is in the IR at the query it was written for,    *)
(* but for those the IR has no field for and those written again around the   *)
(* same query; the sort takes none away (resolve_promql.go, resolve_logql.go). *)
THEOREM ModifiersSurvive ==
  Spec => []LossesAreKnown
<1>1. Init => ModifiersOK
  BY NothingWritten DEF Init, ResolverInit
<1>2. Typed /\ ModifiersOK /\ [Next]_vars => ModifiersOK'
  BY ModifiersSteps
<1>3. ModifiersOK => LossesAreKnown
  BY DEF ModifiersOK
<1>4. Spec => []Typed
  BY TranslationTyped
<1> QED BY <1>1, <1>2, <1>3, <1>4, PTL DEF Spec

-----------------------------------------------------------------------------
(* The shapes of pipelines: what may stand in one, and what has to be there. *)

(* A stage that yields samples from nothing: a bare number, an operator over  *)
(* queries of its own.                                                        *)
Origin(st) == HasOperands(st) \/ st.what = "literal"

(* A stage that turns records into samples. *)
Yields(st) ==
    \/ st.type = "Aggregation" /\ st.scope = "TEMPORAL"
    \/ st.type = "Function" /\ ReadsRangeOperand(def, st.what)

(* A stage that can only be written on a log expression. *)
ReadsLog(st) ==
    \/ st.type = "Filter" /\ st.what # FieldValue
    \/ st.type = "Function" /\ st.what \in LogStages

Producers(q) == {s \in InPipeline(q) : Yields(stage[s])}
Sourced(q) == query[q].source # "none"

(* Every stage belongs to a query. *)
AllHoused == \A s \in DOMAIN stage : \E q \in DOMAIN query : s \in InPipeline(q)

(* An origin is the first stage written of a query that selects nothing. *)
OriginsFirst ==
    \A q \in DOMAIN query : \A s, t \in InPipeline(q) :
       Origin(stage[s]) => s <= t /\ ~Sourced(q)

(* One stage turns records into samples, and there are records to turn. *)
OneRange ==
    \A q \in DOMAIN query : query[q].subquery = 0 =>
       \A s \in Producers(q) : Sourced(q) /\ \A t \in Producers(q) : s = t

LogStagesSourced ==
    \A q \in DOMAIN query : \A s \in InPipeline(q) : ReadsLog(stage[s]) => Sourced(q)

RangeTypes == {"range", "unwrapped range"}

(* An operand that still is records has some, and no stage has turned them    *)
(* into samples.                                                              *)
Open(q, type) ==
    /\ type \in LogTypes => Sourced(q)
    /\ (type \in LogTypes \cup RangeTypes /\ query[q].subquery = 0)
          => Sourced(q) /\ Producers(q) = {}
OperandsOpen == \A i \in DOMAIN stack : Open(stack[i].q, stack[i].is)

ShapesOK == AllHoused /\ OriginsFirst /\ OneRange /\ LogStagesSourced /\ OperandsOpen

-----------------------------------------------------------------------------
(* What a step of the resolver adds. *)

(* The stages added to q's pipeline, in a query there was or a new one. *)
Adds(q, added) ==
    /\ DOMAIN query' = DOMAIN query \cup {q}
    /\ DOMAIN stage' = DOMAIN stage \cup added /\ added \subseteq Nat
    /\ \A s \in DOMAIN stage : stage'[s] = stage[s] /\ \A t \in added : s < t
    /\ \A p \in DOMAIN query : p # q => query'[p] = query[p]
    /\ \A s : s \in InPipeline(q)' <=> s \in added \/ (q \in DOMAIN query /\ s \in InPipeline(q))
    /\ q \in DOMAIN query =>
          /\ query'[q].source = query[q].source
          /\ query'[q].subquery = query[q].subquery \/ query'[q].subquery # 0

(* ... and why they may be. *)
Suits(q, added, type) ==
    /\ \A s \in added : Origin(stage'[s]) => added = {s} /\ q \notin DOMAIN query /\ ~Sourced(q)'
    /\ \A s \in added : ReadsLog(stage'[s]) => Sourced(q)'
    /\ \A s \in added : Yields(stage'[s]) =>
          /\ added = {s} /\ q \in DOMAIN query
          /\ Open(q, "range") /\ type \notin LogTypes \cup RangeTypes
    /\ (q \in DOMAIN query /\ type \in LogTypes) => Open(q, type)
    /\ (q \in DOMAIN query /\ type \in RangeTypes) => Open(q, type) \/ query'[q].subquery # 0
    /\ (q \notin DOMAIN query /\ type \in LogTypes \cup RangeTypes) => Sourced(q)'

(* What a stage is does not depend on the state. *)
LEMMA StagesKeepKind ==
  \A st : (Origin(st)' <=> Origin(st)) /\ (Yields(st)' <=> Yields(st)) /\ (ReadsLog(st)' <=> ReadsLog(st))
  BY DEF Origin, Yields, ReadsLog, def

(* The queries a step leaves alone keep their shape. *)
LEMMA OthersKeepShape ==
  ASSUME HeapOK, NEW q, NEW added, Adds(q, added), NEW p \in DOMAIN query, p # q
  PROVE  /\ query'[p] = query[p]
         /\ InPipeline(p)' = InPipeline(p) /\ Producers(p)' = Producers(p)
         /\ Sourced(p)' = Sourced(p)
<1>1. query'[p] = query[p]
  BY DEF Adds
<1>2. InPipeline(p)' = InPipeline(p)
  BY <1>1 DEF InPipeline, Pipeline
<1>3. \A s \in InPipeline(p) : s \in DOMAIN stage
  BY DEF InPipeline, HeapOK
<1>4. \A s \in InPipeline(p) : stage'[s] = stage[s]
  BY <1>3 DEF Adds
<1>5. Producers(p)' = Producers(p)
  BY <1>2, <1>4 DEF Producers, Yields, def
<1> QED BY <1>1, <1>2, <1>5 DEF Sourced

(* What the query that grows holds. *)
LEMMA HomeGrows ==
  ASSUME HeapOK, NEW q, NEW added, Adds(q, added)
  PROVE  /\ q \in DOMAIN query'
         /\ \A s \in InPipeline(q)' :
               \/ s \in added
               \/ q \in DOMAIN query /\ s \in InPipeline(q) /\ s \in DOMAIN stage /\ stage'[s] = stage[s]
         /\ \A s \in Producers(q)' :
               \/ s \in added /\ Yields(stage'[s])
               \/ q \in DOMAIN query /\ s \in Producers(q)
         /\ q \in DOMAIN query => Sourced(q)' = Sourced(q)
<1>1. q \in DOMAIN query => \A s \in InPipeline(q) : s \in DOMAIN stage
  BY DEF InPipeline, HeapOK
<1>2. \A s \in InPipeline(q)' :
         \/ s \in added
         \/ q \in DOMAIN query /\ s \in InPipeline(q) /\ s \in DOMAIN stage /\ stage'[s] = stage[s]
  BY <1>1 DEF Adds
<1>3. \A s \in Producers(q)' : s \in InPipeline(q)' /\ Yields(stage'[s])
  BY DEF Producers, Yields, def
<1>4. \A s \in Producers(q)' : s \in added \/ (q \in DOMAIN query /\ s \in Producers(q))
  BY <1>2, <1>3 DEF Producers
<1> QED BY <1>2, <1>3, <1>4 DEF Adds, Sourced

(* A step that adds what suits keeps the shapes of queries. *)
LEMMA HeapKeepsShape ==
  ASSUME HeapOK, ShapesOK, NEW q, NEW added, NEW type, Adds(q, added), Suits(q, added, type)
  PROVE  AllHoused' /\ OriginsFirst' /\ OneRange' /\ LogStagesSourced'
<1>0. /\ q \in DOMAIN query'
      /\ \A s \in InPipeline(q)' :
            \/ s \in added
            \/ q \in DOMAIN query /\ s \in InPipeline(q) /\ s \in DOMAIN stage /\ stage'[s] = stage[s]
      /\ \A s \in Producers(q)' :
            \/ s \in added /\ Yields(stage'[s])
            \/ q \in DOMAIN query /\ s \in Producers(q)
      /\ q \in DOMAIN query => Sourced(q)' = Sourced(q)
  BY HomeGrows
<1>1. AllHoused'
  <2> SUFFICES ASSUME NEW s \in DOMAIN stage' PROVE \E p \in DOMAIN query' : s \in InPipeline(p)'
    BY DEF AllHoused
  <2>1. CASE s \in added
    BY <2>1 DEF Adds
  <2>2. CASE s \in DOMAIN stage
    <3>1. PICK p \in DOMAIN query : s \in InPipeline(p)
      BY <2>2 DEF ShapesOK, AllHoused
    <3>2. CASE p = q
      BY <3>1, <3>2 DEF Adds
    <3>3. CASE p # q
      <4>1. InPipeline(p)' = InPipeline(p) /\ p \in DOMAIN query'
        BY <3>1, <3>3, OthersKeepShape DEF Adds
      <4> QED BY <3>1, <4>1
    <3> QED BY <3>2, <3>3
  <2> QED BY <2>1, <2>2 DEF Adds
<1>2. OriginsFirst'
  <2> SUFFICES ASSUME NEW p \in DOMAIN query', NEW s \in InPipeline(p)', NEW t \in InPipeline(p)',
                      Origin(stage'[s])
               PROVE  s <= t /\ ~Sourced(p)'
    BY DEF OriginsFirst, Origin, HasOperands, IsOperator
  <2>1. CASE p # q
    <3>1. p \in DOMAIN query
      BY <2>1 DEF Adds
    <3>2. InPipeline(p)' = InPipeline(p) /\ Sourced(p)' = Sourced(p)
      BY <2>1, <3>1, OthersKeepShape
    <3>3. s \in DOMAIN stage /\ stage'[s] = stage[s]
      <4>1. s \in DOMAIN stage
        BY <3>1, <3>2 DEF InPipeline, HeapOK
      <4> QED BY <4>1 DEF Adds
    <3> QED BY <3>1, <3>2, <3>3 DEF ShapesOK, OriginsFirst
  <2>2. CASE p = q /\ s \in added
    <3>1. added = {s} /\ q \notin DOMAIN query /\ ~Sourced(q)'
      BY <2>2 DEF Suits
    <3>2. t = s /\ s \in DOMAIN stage'
      BY <1>0, <2>2, <3>1 DEF Adds
    <3>3. s \in Nat
      BY <2>2 DEF Adds
    <3> QED BY <2>2, <3>1, <3>2, <3>3
  <2>3. CASE p = q /\ s \notin added
    <3>1. q \in DOMAIN query /\ s \in InPipeline(q) /\ s \in DOMAIN stage /\ Origin(stage[s])
      BY <1>0, <2>3
    <3>2. ~Sourced(q)'
      BY <1>0, <3>1 DEF ShapesOK, OriginsFirst
    <3>3. s <= t
      <4>0. s \in Nat
        BY <3>1, HeapDomains
      <4>1. CASE t \in added
        <5>1. s < t /\ t \in Nat
          BY <3>1, <4>1 DEF Adds
        <5> QED BY <4>0, <5>1
      <4>2. CASE t \notin added
        BY <1>0, <2>3, <3>1, <4>2 DEF ShapesOK, OriginsFirst
      <4> QED BY <4>1, <4>2
    <3> QED BY <2>3, <3>2, <3>3
  <2> QED BY <2>1, <2>2, <2>3
<1>3. OneRange'
  <2> SUFFICES ASSUME NEW p \in DOMAIN query', query'[p].subquery = 0, NEW s \in Producers(p)'
               PROVE  Sourced(p)' /\ \A t \in Producers(p)' : s = t
    BY DEF OneRange
  <2>1. CASE p # q
    <3>1. p \in DOMAIN query
      BY <2>1 DEF Adds
    <3>2. query'[p] = query[p] /\ Producers(p)' = Producers(p) /\ Sourced(p)' = Sourced(p)
      BY <2>1, <3>1, OthersKeepShape
    <3> QED BY <3>1, <3>2 DEF ShapesOK, OneRange
  <2>2. CASE p = q /\ \E u \in added : Yields(stage'[u])
    <3>1. PICK u \in added : Yields(stage'[u])
      BY <2>2
    <3>2. added = {u} /\ q \in DOMAIN query /\ Open(q, "range")
      BY <3>1 DEF Suits
    <3>3. query[q].subquery = 0
      BY <2>2, <3>2 DEF Adds
    <3>4. Sourced(q) /\ Producers(q) = {}
      BY <3>2, <3>3 DEF Open, RangeTypes
    <3> QED BY <1>0, <2>2, <3>2, <3>4
  <2>3. CASE p = q /\ ~\E u \in added : Yields(stage'[u])
    <3>1. q \in DOMAIN query /\ \A t \in Producers(q)' : t \in Producers(q)
      BY <1>0, <2>3
    <3>2. query[q].subquery = 0
      BY <2>3, <3>1 DEF Adds
    <3> QED BY <1>0, <2>3, <3>1, <3>2 DEF ShapesOK, OneRange
  <2> QED BY <2>1, <2>2, <2>3
<1>4. LogStagesSourced'
  <2> SUFFICES ASSUME NEW p \in DOMAIN query', NEW s \in InPipeline(p)', ReadsLog(stage'[s])
               PROVE  Sourced(p)'
    BY DEF LogStagesSourced, ReadsLog
  <2>1. CASE p # q
    <3>1. p \in DOMAIN query
      BY <2>1 DEF Adds
    <3>2. InPipeline(p)' = InPipeline(p) /\ Sourced(p)' = Sourced(p)
      BY <2>1, <3>1, OthersKeepShape
    <3>3. stage'[s] = stage[s]
      <4>1. s \in DOMAIN stage
        BY <3>1, <3>2 DEF InPipeline, HeapOK
      <4> QED BY <4>1 DEF Adds
    <3> QED BY <3>1, <3>2, <3>3 DEF ShapesOK, LogStagesSourced
  <2>2. CASE p = q /\ s \in added
    BY <2>2 DEF Suits
  <2>3. CASE p = q /\ s \notin added
    BY <1>0, <2>3 DEF ShapesOK, LogStagesSourced
  <2> QED BY <2>1, <2>2, <2>3
<1> QED BY <1>1, <1>2, <1>3, <1>4

(* ... and the operands open that were. *)
LEMMA ShapesGrow ==
  ASSUME HeapOK, StackOK, OperandsAscend, ShapesOK, NEW q \in Nat, NEW added,
         NEW type \in OperandTypes, Settles(q, type), Adds(q, added), Suits(q, added, type)
  PROVE  ShapesOK'
<1>0. /\ \A s \in Producers(q)' :
            \/ s \in added /\ Yields(stage'[s])
            \/ q \in DOMAIN query /\ s \in Producers(q)
      /\ q \in DOMAIN query => Sourced(q)' = Sourced(q)
  BY HomeGrows
<1>1. ASSUME NEW i \in DOMAIN stack', i # Last1, NEW p, NEW is, p = stack'[i].q, is = stack'[i].is
      PROVE  Open(p, is)'
  <2>1. i \in 1..(Last1 - 1) /\ i \in DOMAIN stack /\ stack'[i] = stack[i] /\ i < Last1
    BY <1>1 DEF Settles, Last1, StackOK
  <2>2. stack[i].q # q /\ stack[i].q \in DOMAIN query
    <3>1. stack[i].q \in DOMAIN query /\ stack[i].q \in Nat
      BY <2>1, HeapDomains DEF StackOK
    <3>2. CASE q = New
      BY <3>1, <3>2, HeapDomains DEF New
    <3>3. CASE Last1 \in DOMAIN stack /\ q = stack[Last1].q
      <4>1. stack[i].q < stack[Last1].q
        BY <2>1, <3>3 DEF OperandsAscend
      <4> QED BY <3>1, <3>3, <4>1
    <3> QED BY <3>1, <3>2, <3>3 DEF Settles
  <2>2a. p \in DOMAIN query /\ p # q /\ p = stack[i].q /\ is = stack[i].is
    BY <1>1, <2>1, <2>2
  <2>3. Open(p, is)
    BY <2>1, <2>2a DEF ShapesOK, OperandsOpen
  <2>4. query'[p] = query[p] /\ Producers(p)' = Producers(p) /\ Sourced(p)' = Sourced(p)
    BY <2>2a, OthersKeepShape
  <2> QED BY <2>3, <2>4 DEF Open
<1>2. Open(q, type)'
  <2>1. (type \in LogTypes) => Sourced(q)'
    BY <1>0 DEF Suits, Open
  <2>2. ASSUME type \in LogTypes \cup RangeTypes, query'[q].subquery = 0
        PROVE  Sourced(q)' /\ Producers(q)' = {}
    <3>1. \A s \in added : ~Yields(stage'[s])
      BY <2>2 DEF Suits
    <3>2. CASE q \in DOMAIN query
      <4>1. Open(q, type) /\ query[q].subquery = 0
        BY <2>2, <3>2 DEF Suits, Adds
      <4>2. Sourced(q) /\ Producers(q) = {}
        BY <2>2, <4>1 DEF Open
      <4> QED BY <1>0, <3>1, <3>2, <4>2
    <3>3. CASE q \notin DOMAIN query
      BY <1>0, <2>2, <3>1, <3>3 DEF Suits
    <3> QED BY <3>2, <3>3
  <2> QED BY <2>1, <2>2 DEF Open
<1>3. OperandsOpen'
  <2>1. ASSUME NEW i \in DOMAIN stack', NEW p, NEW is, p = stack'[i].q, is = stack'[i].is
        PROVE  Open(p, is)'
    <3>1. CASE i = Last1
      <4>1. p = q /\ is = type
        BY <2>1, <3>1 DEF Settles
      <4> QED BY <1>2, <4>1
    <3> QED BY <1>1, <2>1, <3>1
  <2> QED BY <2>1 DEF OperandsOpen
<1> QED BY <1>3, HeapKeepsShape DEF ShapesOK

-----------------------------------------------------------------------------
(* What each kind of step adds. *)

(* A query is added. *)
LEMMA QueryAdded ==
  ASSUME HeapOK, NEW r \in QueryRecord, query' = Append(query, r), NEW q, q = New
  PROVE  /\ q \in Nat /\ q \notin DOMAIN query /\ query'[q] = r
         /\ DOMAIN query' = DOMAIN query \cup {q}
         /\ \A p \in DOMAIN query : query'[p] = query[p]
<1>1. query \in Seq(QueryRecord) /\ DOMAIN query = 1..Len(query) /\ Len(query) \in Nat
  BY HeapDomains DEF HeapOK
<1>2. /\ Len(query') = Len(query) + 1 /\ query' \in Seq(QueryRecord)
      /\ query'[Len(query) + 1] = r
      /\ \A p \in 1..Len(query) : query'[p] = query[p]
  BY <1>1, AppendProperties
<1> QED BY <1>1, <1>2 DEF New

(* A stage is added to those there are. *)
LEMMA StageAdded ==
  ASSUME HeapOK, NEW st \in StageRecord, Len(stage) + 1 <= MaxStages,
         stage' = Append(stage, st)
  PROVE  LET s == Len(stage) + 1 IN
         /\ s \in StageId /\ s \in Nat /\ s \notin DOMAIN stage /\ stage'[s] = st
         /\ DOMAIN stage' = DOMAIN stage \cup {s}
         /\ \A t \in DOMAIN stage : stage'[t] = stage[t] /\ t < s
<1>1. DOMAIN stage = 1..Len(stage) /\ Len(stage) \in Nat
  BY HeapDomains
<1>2. /\ DOMAIN stage' = 1..(Len(stage) + 1) /\ Len(stage) + 1 \in StageId
      /\ \A i \in DOMAIN stage : stage'[i] = stage[i]
      /\ stage'[Len(stage) + 1] = st
  BY NewStage
<1> QED BY <1>1, <1>2

(* A selector brings no stage. *)
LEMMA FetchAdds ==
  ASSUME HeapOK, NEW r \in QueryRecord, r.pipeline = << >>, query' = Append(query, r),
         stage' = stage, NEW q, q = New
  PROVE  Adds(q, {}) /\ query'[q] = r /\ q \notin DOMAIN query
<1>1. /\ q \in Nat /\ q \notin DOMAIN query /\ query'[q] = r
      /\ DOMAIN query' = DOMAIN query \cup {q}
      /\ \A p \in DOMAIN query : query'[p] = query[p]
  BY QueryAdded
<1>2. \A s : ~(s \in InPipeline(q)')
  BY <1>1 DEF InPipeline, Pipeline
<1> QED BY <1>1, <1>2 DEF Adds

(* An expression that is its own stage brings that one, to a query of its own. *)
LEMMA BeginAdds ==
  ASSUME HeapOK, NEW st \in StageRecord, Len(stage) + 1 <= MaxStages, NEW n, NEW type,
         PushStage(st, n, type), NEW q, q = New
  PROVE  /\ Adds(q, {Len(stage) + 1}) /\ q \notin DOMAIN query
         /\ ~Sourced(q)' /\ stage'[Len(stage) + 1] = st
         /\ query'[q] = [NewQuery(MetricSignal, "none") EXCEPT !.pipeline = <<Len(stage) + 1>>]
<1> DEFINE s == Len(stage) + 1
           r == [NewQuery(MetricSignal, "none") EXCEPT !.pipeline = <<s>>]
<1>1. stage' = Append(stage, st) /\ query' = Append(query, r)
  BY DEF PushStage
<1>2. /\ s \in StageId /\ s \in Nat /\ s \notin DOMAIN stage /\ stage'[s] = st
      /\ DOMAIN stage' = DOMAIN stage \cup {s}
      /\ \A t \in DOMAIN stage : stage'[t] = stage[t] /\ t < s
  BY <1>1, StageAdded
<1>3. r \in QueryRecord /\ r.pipeline = <<s>>
  <2>1. <<s>> \in Seq(StageId)
    BY <1>2
  <2> HIDE DEF s
  <2> QED BY <2>1, BareQuery
<1>4. r.source = "none"
  BY DEF NewQuery
<1> HIDE DEF r, s
<1>5. /\ q \in Nat /\ q \notin DOMAIN query /\ query'[q] = r
      /\ DOMAIN query' = DOMAIN query \cup {q}
      /\ \A p \in DOMAIN query : query'[p] = query[p]
  BY <1>1, <1>3, QueryAdded
<1>6. \A t : t \in InPipeline(q)' <=> t \in {s}
  <2>1. query'[q].pipeline = <<s>>
    BY <1>3, <1>5
  <2>2. DOMAIN <<s>> = {1} /\ <<s>>[1] = s
    OBVIOUS
  <2> QED BY <2>1, <2>2 DEF InPipeline, Pipeline
<1>7. Adds(q, {s})
  BY <1>2, <1>5, <1>6 DEF Adds
<1>8. ~Sourced(q)'
  BY <1>4, <1>5 DEF Sourced
<1> QED BY <1>2, <1>5, <1>7, <1>8 DEF s, r

(* What a query holds besides its stages is changed. *)
LEMMA ModifyAdds ==
  ASSUME HeapOK, NEW q \in DOMAIN query, NEW r \in QueryRecord,
         r.pipeline = query[q].pipeline, r.source = query[q].source,
         r.subquery = query[q].subquery \/ r.subquery # 0,
         query' = [query EXCEPT ![q] = r], stage' = stage
  PROVE  Adds(q, {}) /\ query'[q] = r
<1>1. /\ DOMAIN query' = DOMAIN query /\ query'[q] = r
      /\ \A p \in DOMAIN query : p # q => query'[p] = query[p]
  OBVIOUS
<1>2. InPipeline(q)' = InPipeline(q)
  BY <1>1 DEF InPipeline, Pipeline
<1> QED BY <1>1, <1>2 DEF Adds

(* Stages appended to a pipeline are in it. *)
LEMMA PipelineGrows ==
  ASSUME HeapOK, NEW q \in DOMAIN query, NEW more \in Seq(Nat),
         query' = [query EXCEPT ![q].pipeline = @ \o more]
  PROVE  /\ DOMAIN query' = DOMAIN query
         /\ \A p \in DOMAIN query : p # q => query'[p] = query[p]
         /\ query'[q].source = query[q].source /\ query'[q].subquery = query[q].subquery
         /\ \A s : s \in InPipeline(q)' <=>
               s \in InPipeline(q) \/ \E i \in DOMAIN more : s = more[i]
<1> DEFINE ids == Pipeline(q)
           both == ids \o more
<1>1. query[q] \in QueryRecord /\ ids \in Seq(Nat) /\ ids = query[q].pipeline
  <2>1. query[q] \in QueryRecord /\ ids \in Seq(StageId)
    BY PipelineType
  <2>2. StageId \subseteq Nat
    BY DEF StageId
  <2> HIDE DEF ids
  <2>3. ids \in Seq(Nat)
    BY <2>1, <2>2, SeqMonotonic
  <2> QED BY <2>1, <2>3 DEF ids, Pipeline
<1>2. /\ DOMAIN query' = DOMAIN query
      /\ \A p \in DOMAIN query : p # q => query'[p] = query[p]
      /\ query'[q] = [query[q] EXCEPT !.pipeline = @ \o more]
  OBVIOUS
<1>3. /\ query'[q].source = query[q].source /\ query'[q].subquery = query[q].subquery
      /\ query'[q].pipeline = both
  BY <1>1, <1>2 DEF QueryRecord
<1> HIDE DEF ids
<1>4. /\ both \in Seq(Nat) /\ Len(both) = Len(ids) + Len(more)
      /\ \A j \in 1..(Len(ids) + Len(more)) :
            both[j] = IF j <= Len(ids) THEN ids[j] ELSE more[j - Len(ids)]
  BY <1>1, ConcatProperties
<1> HIDE DEF both
<1>5. /\ DOMAIN ids = 1..Len(ids) /\ Len(ids) \in Nat /\ DOMAIN more = 1..Len(more)
      /\ Len(more) \in Nat /\ DOMAIN both = 1..(Len(ids) + Len(more))
  BY <1>1, <1>4
<1>6. ASSUME NEW j \in DOMAIN both
      PROVE  \/ \E i \in DOMAIN ids : both[j] = ids[i]
             \/ \E i \in DOMAIN more : both[j] = more[i]
  <2>1. CASE j <= Len(ids)
    <3>1. j \in DOMAIN ids /\ both[j] = ids[j]
      BY <1>4, <1>5, <2>1
    <3> QED BY <3>1
  <2>2. CASE ~(j <= Len(ids))
    <3>1. j - Len(ids) \in DOMAIN more /\ both[j] = more[j - Len(ids)]
      BY <1>4, <1>5, <2>2
    <3> QED BY <3>1
  <2> QED BY <2>1, <2>2
<1>7. ASSUME NEW i \in DOMAIN ids PROVE \E j \in DOMAIN both : both[j] = ids[i]
  <2>1. i \in DOMAIN both /\ both[i] = ids[i]
    BY <1>4, <1>5
  <2> QED BY <2>1
<1>8. ASSUME NEW i \in DOMAIN more PROVE \E j \in DOMAIN both : both[j] = more[i]
  <2> DEFINE j == Len(ids) + i
  <2>1. j \in DOMAIN both /\ ~(j <= Len(ids)) /\ j - Len(ids) = i /\ j \in 1..(Len(ids) + Len(more))
    BY <1>5
  <2> HIDE DEF j
  <2>2. both[j] = more[i]
    BY <1>4, <2>1
  <2> QED BY <2>1, <2>2
<1>9. \A s : s \in InPipeline(q)' <=> \E j \in DOMAIN both : s = both[j]
  BY <1>3 DEF InPipeline, Pipeline
<1>10. \A s : s \in InPipeline(q) <=> \E i \in DOMAIN ids : s = ids[i]
  BY DEF InPipeline, ids
<1>11. \A s : s \in InPipeline(q)' <=>
          s \in InPipeline(q) \/ \E i \in DOMAIN more : s = more[i]
  BY <1>6, <1>7, <1>8, <1>9, <1>10
<1> QED BY <1>2, <1>3, <1>11

(* What a fold and a join do to the heap. *)
Folded(q, st) ==
    /\ stage' = Append(stage, st)
    /\ query' = [query EXCEPT ![q].pipeline = Append(@, Len(stage) + 1)]
Joined(q, right) ==
    /\ stage' = stage \o <<Join(right), BinaryOp(None, None)>>
    /\ query' = [query EXCEPT ![q].pipeline = @ \o <<Len(stage) + 1, Len(stage) + 2>>]

(* A construct folded into its operand's query. *)
LEMMA FoldAdds ==
  ASSUME HeapOK, NEW st \in StageRecord, Len(stage) + 1 <= MaxStages, NEW q \in DOMAIN query,
         Folded(q, st)
  PROVE  /\ Adds(q, {Len(stage) + 1})
         /\ stage'[Len(stage) + 1] = st
         /\ query'[q].subquery = query[q].subquery
         /\ Sourced(q)' = Sourced(q)
<1> DEFINE s == Len(stage) + 1
<1>1. q \in DOMAIN query
  OBVIOUS
<1>2. /\ s \in StageId /\ s \in Nat /\ s \notin DOMAIN stage /\ stage'[s] = st
      /\ DOMAIN stage' = DOMAIN stage \cup {s}
      /\ \A t \in DOMAIN stage : stage'[t] = stage[t] /\ t < s
  BY StageAdded DEF Folded
<1>3. query' = [query EXCEPT ![q].pipeline = @ \o <<s>>]
  <2>1. query' = [query EXCEPT ![q].pipeline = Append(@, s)]
    BY DEF Folded
  <2>2. query[q].pipeline \in Seq(StageId)
    BY <1>1, PipelineType DEF Pipeline
  <2> HIDE DEF s
  <2>3. Append(query[q].pipeline, s) = query[q].pipeline \o <<s>>
    BY <1>2, <2>2, AppendIsConcat
  <2> QED BY <2>1, <2>3
<1> DEFINE more == <<s>>
<1>4. more \in Seq(Nat) /\ DOMAIN more = {1} /\ more[1] = s
  BY <1>2
<1>4a. query' = [query EXCEPT ![q].pipeline = @ \o more]
  BY <1>3
<1> HIDE DEF s, more
<1>5. /\ DOMAIN query' = DOMAIN query
      /\ \A p \in DOMAIN query : p # q => query'[p] = query[p]
      /\ query'[q].source = query[q].source /\ query'[q].subquery = query[q].subquery
      /\ \A t : t \in InPipeline(q)' <=>
            t \in InPipeline(q) \/ \E i \in DOMAIN more : t = more[i]
  BY <1>1, <1>4, <1>4a, PipelineGrows
<1>5a. \A t : t \in InPipeline(q)' <=> t \in InPipeline(q) \/ t = s
  BY <1>4, <1>5
<1>5b. \A t : t \in InPipeline(q)' <=> t \in {s} \/ (q \in DOMAIN query /\ t \in InPipeline(q))
  BY <1>1, <1>5a
<1>5c. DOMAIN query' = DOMAIN query \cup {q} /\ {s} \subseteq Nat
  <2>1. DOMAIN query' = DOMAIN query
    BY <1>5
  <2>2. DOMAIN query \cup {q} = DOMAIN query
    BY <1>1, Zenon
  <2>3. s \in Nat
    BY <1>2
  <2> QED BY <2>1, <2>2, <2>3, Zenon
<1>5d. \A t \in DOMAIN stage : stage'[t] = stage[t] /\ \A u \in {s} : t < u
  BY <1>2
<1>6. Adds(q, {s})
  BY <1>2, <1>5, <1>5b, <1>5c, <1>5d DEF Adds
<1> QED BY <1>1, <1>2, <1>5, <1>6 DEF s, Sourced

(* A join leaves itself and its operator in its left side's query. *)
LEMMA JoinAdds ==
  ASSUME HeapOK, NEW q \in DOMAIN query, NEW right \in QueryId, Joined(q, right)
  PROVE  LET s == Len(stage) + 1 IN
         /\ Adds(q, {s, s + 1})
         /\ stage'[s].type = "Join" /\ stage'[s].what = ""
         /\ stage'[s + 1] = BinaryOp(None, None)
<1> DEFINE s == Len(stage) + 1
<1>1. q \in DOMAIN query /\ right \in QueryId
  OBVIOUS
<1>2. Join(right) \in StageRecord /\ BinaryOp(None, None) \in StageRecord
  BY <1>1, OperatorsMade
<1> DEFINE a == Join(right)
           b == BinaryOp(None, None)
<1>3. stage' = stage \o <<a, b>> /\ query' = [query EXCEPT ![q].pipeline = @ \o <<s, s + 1>>]
  <2>1. Len(stage) + 2 = Len(stage) + 1 + 1
    BY HeapDomains
  <2> QED BY <2>1 DEF Joined
<1>4. a.type = "Join" /\ a.what = ""
  BY DEF Join, Blank
<1> HIDE DEF a, b
<1>5. stage \in Seq(StageRecord) /\ DOMAIN stage = 1..Len(stage) /\ Len(stage) \in Nat
  BY HeapDomains DEF HeapOK
<1>6. <<a, b>> \in Seq(StageRecord) /\ Len(<<a, b>>) = 2 /\ <<a, b>>[1] = a /\ <<a, b>>[2] = b
  BY <1>2 DEF a, b
<1>7. /\ stage' \in Seq(StageRecord) /\ Len(stage') = Len(stage) + 2
      /\ \A i \in 1..(Len(stage) + 2) :
            stage'[i] = IF i <= Len(stage) THEN stage[i] ELSE <<a, b>>[i - Len(stage)]
  BY <1>3, <1>5, <1>6, ConcatProperties
<1>8. /\ s \in Nat /\ stage'[s] = a /\ stage'[s + 1] = b
      /\ DOMAIN stage' = DOMAIN stage \cup {s, s + 1}
      /\ \A t \in DOMAIN stage : stage'[t] = stage[t] /\ t < s /\ t < s + 1
  <2>1. Len(stage) + 1 - Len(stage) = 1 /\ Len(stage) + 1 + 1 - Len(stage) = 2
    BY <1>5
  <2>2. stage'[s] = <<a, b>>[Len(stage) + 1 - Len(stage)] /\ stage'[s + 1] = <<a, b>>[Len(stage) + 1 + 1 - Len(stage)]
    BY <1>5, <1>7
  <2>3. stage'[s] = a /\ stage'[s + 1] = b
    BY <1>6, <2>1, <2>2
  <2>4. DOMAIN stage' = 1..(Len(stage) + 2)
    BY <1>7
  <2> QED BY <1>5, <1>7, <2>3, <2>4
<1> DEFINE more == <<s, s + 1>>
<1>9. more \in Seq(Nat) /\ DOMAIN more = {1, 2} /\ more[1] = s /\ more[2] = s + 1
  BY <1>8
<1>9a. query' = [query EXCEPT ![q].pipeline = @ \o more]
  BY <1>3
<1> HIDE DEF s, more
<1>10. /\ DOMAIN query' = DOMAIN query
       /\ \A p \in DOMAIN query : p # q => query'[p] = query[p]
       /\ query'[q].source = query[q].source /\ query'[q].subquery = query[q].subquery
       /\ \A t : t \in InPipeline(q)' <=>
             t \in InPipeline(q) \/ \E i \in DOMAIN more : t = more[i]
  BY <1>1, <1>9, <1>9a, PipelineGrows
<1>11. \A t : t \in InPipeline(q)' <=> t \in InPipeline(q) \/ t \in {s, s + 1}
  BY <1>9, <1>10
<1>11a. q \in DOMAIN query
  OBVIOUS
<1>11b. \A t : t \in InPipeline(q)'
                  <=> t \in {s, s + 1} \/ (q \in DOMAIN query /\ t \in InPipeline(q))
  BY <1>11, <1>11a
<1>11c. DOMAIN query' = DOMAIN query \cup {q} /\ {s, s + 1} \subseteq Nat
  <2>1. DOMAIN query' = DOMAIN query
    BY <1>10
  <2>2. DOMAIN query \cup {q} = DOMAIN query
    BY <1>11a, Zenon
  <2>3. s \in Nat
    BY <1>8
  <2>4. s + 1 \in Nat
    BY <2>3
  <2> QED BY <2>1, <2>2, <2>3, <2>4, Zenon
<1>11d. \A t \in DOMAIN stage : stage'[t] = stage[t] /\ \A u \in {s, s + 1} : t < u
  BY <1>8
<1>12. Adds(q, {s, s + 1})
  BY <1>8, <1>10, <1>11b, <1>11c, <1>11d DEF Adds
<1> QED BY <1>1, <1>4, <1>8, <1>12 DEF s, b

-----------------------------------------------------------------------------
(* The resolver's steps, by what they add. *)

LogFold(st) ==
    \/ st.type = "Filter" /\ st.what # FieldValue
    \/ st.type = "Function" /\ st.what \in LogStages
RangeFold(st) ==
    \/ st.type = "Aggregation" /\ st.scope = "TEMPORAL"
         /\ <<st.what, "TEMPORAL">> \in Dialect[Source].aggregations
    \/ st.type = "Function" /\ st.what \in Dialect[Source].rangeFunctions
SampleFold(st) ==
    \/ st.type = "Filter" /\ st.what = FieldValue
    \/ st.type = "Function" /\ st.what \in Dialect[Source].functions \ (RangeFunctions \cup LogStages)
    \/ st.type = "Aggregation" /\ st.scope = "GROUP"
         /\ <<st.what, "GROUP">> \in Dialect[Source].aggregations

(* What may be folded into an operand of one type, and the type it then has. *)
FoldFits(st, was, type) ==
    \/ LogFold(st) /\ was \in LogTypes /\ type \in LogTypes
    \/ RangeFold(st) /\ was \in RangeTypes /\ type = "vector"
    \/ SampleFold(st) /\ was \in MetricTypes /\ type \in MetricTypes

(* A query keeps its modifiers. *)
Unmodified(q) ==
    /\ query'[q].subquery = query[q].subquery
    /\ query'[q].offset = query[q].offset /\ query'[q].pinned = query[q].pinned

Selected(q, type) ==
    /\ q \notin DOMAIN query /\ Adds(q, {}) /\ Sourced(q)' /\ Last1 = Len(stack) + 1
    /\ query'[q].subquery = 0 /\ type \in {"log", "vector", "range"}
    /\ Source = "logql" => query'[q].offset = 0 /\ query'[q].pinned = 0 /\ type = "log"

Number == {"literal", "arithmetic", "unary", "join"}

Begun(q, s, type) ==
    /\ q \notin DOMAIN query /\ Adds(q, {s}) /\ ~Sourced(q)'
    /\ Origin(stage'[s]) /\ ~Yields(stage'[s]) /\ ~ReadsLog(stage'[s])
    /\ type \in MetricTypes \cup {"literal"} /\ Constructs \cap Number # {}

Into(q, s, type) ==
    /\ q \in DOMAIN query /\ Adds(q, {s}) /\ Unmodified(q)
    /\ stage'[s].args = << >> /\ Shaped(stage'[s])
    /\ stack # << >> /\ q = Top.q /\ FoldFits(stage'[s], Top.is, type)

Repeated(q, type) ==
    /\ q \in DOMAIN query /\ Adds(q, {}) /\ query'[q].subquery # 0 /\ type = "range"
    /\ Source = "promql"

Windowed(q, type) ==
    /\ q \in DOMAIN query /\ Adds(q, {}) /\ query'[q].subquery = query[q].subquery
    /\ query'[q].pinned = query[q].pinned
    /\ stack # << >> /\ q = Top.q /\ Top.is \in LogTypes /\ type \in RangeTypes

Enclosed(q, type) ==
    /\ q \in DOMAIN query /\ Adds(q, {}) /\ UNCHANGED heap
    /\ stack # << >> /\ q = Top.q /\ Top.is = "literal" /\ type = ScalarType

Matched(q, s, type) ==
    /\ q \in DOMAIN query /\ Adds(q, {s, s + 1}) /\ type = "vector" /\ Constructs \cap Number # {}
    /\ stage'[s].type = "Join" /\ stage'[s].what = ""
    /\ stage'[s + 1] = BinaryOp(None, None)

Placing(q, s, type) ==
    \/ Selected(q, type) \/ Begun(q, s, type) \/ Into(q, s, type) \/ Repeated(q, type)
    \/ Windowed(q, type) \/ Enclosed(q, type) \/ Matched(q, s, type)

Places ==
    \E q \in Nat, s \in Nat, type \in OperandTypes : Settles(q, type) /\ Placing(q, s, type)

(* A selector. *)
LEMMA SelectorPlaces ==
  ASSUME HeapOK, StackOK, NEW r \in QueryRecord, r.pipeline = << >>, r.source # "none",
         r.subquery = 0, NEW type \in {"log", "vector", "range"},
         Source = "logql" => r.offset = 0 /\ r.pinned = 0 /\ type = "log",
         PushQuery(r, type), NEW q, q = New
  PROVE  Places
<1>1. query' = Append(query, r) /\ stage' = stage
  BY DEF PushQuery
<1>2. Adds(q, {}) /\ query'[q] = r /\ q \notin DOMAIN query
  BY <1>1, FetchAdds
<1>3. type \in OperandTypes
  BY DEF OperandTypes
<1>4. Settles(q, type) /\ q \in Nat
  BY <1>3, FetchSettles DEF PushQuery, New
<1>5. Sourced(q)'
  BY <1>2 DEF Sourced
<1>6. Last1 = Len(stack) + 1
  <2>1. PICK x : x = [q |-> New, is |-> type]
    OBVIOUS
  <2>2. x \in Pending
    BY <1>3, <1>4, <2>1 DEF Pending
  <2>3. stack' = Append(stack, x)
    BY <2>1 DEF PushQuery, New
  <2> QED BY <2>2, <2>3, AppendProperties DEF Last1, StackOK
<1>7. Selected(q, type)
  BY <1>2, <1>5, <1>6 DEF Selected
<1> QED BY <1>3, <1>4, <1>7 DEF Places, Placing

(* An expression that is its own stage. *)
LEMMA BeginPlaces ==
  ASSUME HeapOK, StackOK, NEW st \in StageRecord, Len(stage) + 1 <= MaxStages,
         Origin(st), ~Yields(st), ~ReadsLog(st), NEW n \in 0..Len(stack),
         NEW type \in MetricTypes \cup {"literal"}, PushStage(st, n, type),
         Constructs \cap Number # {}, NEW q, q = New
  PROVE  Places
<1>1. /\ Adds(q, {Len(stage) + 1}) /\ q \notin DOMAIN query
      /\ ~Sourced(q)' /\ stage'[Len(stage) + 1] = st
  BY BeginAdds
<1>2. type \in OperandTypes
  BY DEF OperandTypes, MetricTypes
<1>3. Settles(q, type) /\ q \in Nat
  BY <1>2, BeginSettles DEF PushStage, New
<1>4. Len(stage) + 1 \in Nat
  BY HeapDomains
<1>5. Begun(q, Len(stage) + 1, type)
  BY <1>1 DEF Begun
<1> QED BY <1>2, <1>3, <1>4, <1>5 DEF Places, Placing

(* A construct folded into its operand. *)
LEMMA FoldPlaces ==
  ASSUME HeapOK, StackOK, NEW st \in StageRecord, Room(0, 1), st.args = << >>, Shaped(st),
         stack # << >>, NEW type \in OperandTypes, AppendStage(st, type),
         FoldFits(st, Top.is, type), NEW q, q = Top.q
  PROVE  Places
<1>1. q \in DOMAIN query /\ query[q] \in QueryRecord
  BY TopOfStack, HeapDomains
<1>2. Folded(q, st) /\ stack' = [stack EXCEPT ![Len(stack)].is = type]
  BY DEF AppendStage, Folded
<1>3. Len(stage) + 1 <= MaxStages /\ Len(stage) + 1 \in Nat
  BY HeapDomains DEF Room
<1>4. Adds(q, {Len(stage) + 1}) /\ stage'[Len(stage) + 1] = st
  BY <1>1, <1>2, <1>3, FoldAdds
<1>5. Settles(q, type) /\ q \in Nat
  BY <1>2, RetypeSettles
<1>6. Unmodified(q)
  <2> DEFINE s == Len(stage) + 1
  <2>1. query'[q] = [query[q] EXCEPT !.pipeline = Append(@, s)]
    BY <1>1, <1>2 DEF Folded
  <2> HIDE DEF s
  <2> QED BY <1>1, <2>1 DEF Unmodified, QueryRecord
<1>7. Into(q, Len(stage) + 1, type)
  BY <1>1, <1>4, <1>6 DEF Into
<1> QED BY <1>3, <1>5, <1>7 DEF Places, Placing

(* The selectors of the two languages. *)
LEMMA SelectorsPlace ==
  ASSUME HeapOK, StackOK, AuthoredOK, NEW m \in AllowedSources \cup {"name"},
         NEW offset \in BOOLEAN, NEW pinned \in BOOLEAN,
         \/ ResolveVectorSelector(m, offset, pinned) \/ ResolveMatrixSelector(m, offset, pinned)
         \/ m \in AllowedSources /\ ResolveStreamSelector(m)
  PROVE  Places
<1>0. m \in SourceKinds \cup {"name"} /\ m # "none"
  BY DEF AllowedSources, SourceKinds
<1>1. PICK q : q = New
  OBVIOUS
<1>2. CASE ResolveVectorSelector(m, offset, pinned)
  <2> DEFINE b == NewQuery("METRIC", m)
             r == WithModifiers(b, offset, pinned)
  <2>1. b \in QueryRecord /\ b.pipeline = << >>
    BY <1>0, SelectorMade
  <2>2. b.source = m /\ b.subquery = 0
    BY DEF NewQuery
  <2>3. PushQuery(r, "vector") /\ Source = "promql"
    BY <1>2 DEF ResolveVectorSelector
  <2> HIDE DEF b
  <2>4. r \in QueryRecord /\ r.pipeline = << >>
    BY <2>1, SelectorModified
  <2>5. r.source = b.source /\ r.subquery = b.subquery
    BY <2>1 DEF WithModifiers, QueryRecord
  <2> HIDE DEF r
  <2> QED BY <1>0, <1>1, <2>2, <2>3, <2>4, <2>5, SelectorPlaces
<1>3. CASE ResolveMatrixSelector(m, offset, pinned)
  <2> DEFINE b == [NewQuery("METRIC", m) EXCEPT !.step = TRUE]
             r == WithModifiers(b, offset, pinned)
  <2>1. b \in QueryRecord /\ b.pipeline = << >>
    BY <1>0, SelectorMade
  <2>2. b.source = m /\ b.subquery = 0
    BY DEF NewQuery
  <2>3. PushQuery(r, "range") /\ Source = "promql"
    BY <1>3 DEF ResolveMatrixSelector
  <2> HIDE DEF b
  <2>4. r \in QueryRecord /\ r.pipeline = << >>
    BY <2>1, SelectorModified
  <2>5. r.source = b.source /\ r.subquery = b.subquery
    BY <2>1 DEF WithModifiers, QueryRecord
  <2> HIDE DEF r
  <2> QED BY <1>0, <1>1, <2>2, <2>3, <2>4, <2>5, SelectorPlaces
<1>4. CASE ResolveStreamSelector(m)
  <2> DEFINE b == NewQuery("LOG", m)
  <2>1. b \in QueryRecord /\ b.pipeline = << >>
    BY <1>0, SelectorMade
  <2>2. b.source = m /\ b.subquery = 0 /\ b.offset = 0 /\ b.pinned = 0
    BY DEF NewQuery
  <2>3. PushQuery(b, "log")
    BY <1>4 DEF ResolveStreamSelector
  <2> HIDE DEF b
  <2> QED BY <1>0, <1>1, <2>1, <2>2, <2>3, SelectorPlaces
<1> QED BY <1>2, <1>3, <1>4

(* The kinds of the expressions that are their own stage. *)
LEMMA OriginKinds ==
  ASSUME NEW p \in QueryId, NEW q \in QueryId
  PROVE  /\ \A st \in {Function("literal"), UnaryOp(q), BinaryOp(p, q)} :
               Origin(st) /\ ~Yields(st) /\ ~ReadsLog(st)
<1>1. p # None /\ q # None /\ <<q>> # << >> /\ <<p, q>> # << >>
  BY DEF QueryId, None
<1>2. def.rangeFunctions = RangeFunctions
  BY EmittedTarget DEF def, Dialect, Logql
<1>3. "literal" \notin RangeFunctions /\ "literal" \notin LogStages
  BY DEF RangeFunctions, LogStages, Parsers, LabelFormatters, LineFormatters
<1>4. /\ Function("literal").type = "Function" /\ Function("literal").what = "literal"
      /\ UnaryOp(q).type = "UnaryOp" /\ UnaryOp(q).args = <<q>>
      /\ BinaryOp(p, q).type = "BinaryOp" /\ BinaryOp(p, q).args = <<p, q>>
  BY <1>1 DEF Function, UnaryOp, BinaryOp, Blank
<1> QED BY <1>1, <1>2, <1>3, <1>4
        DEF Origin, Yields, ReadsLog, HasOperands, IsOperator, ReadsRangeOperand

(* Numbers and operators. *)
LEMMA OperatorsPlace ==
  ASSUME HeapOK, StackOK,
         ResolveLiteral \/ ResolveUnaryExpr \/ \E bool \in BOOLEAN : ResolveArithmetic(bool)
  PROVE  Places
<1>0. {"vector", "scalar", "literal", ScalarType} \subseteq MetricTypes \cup {"literal"}
  BY DEF MetricTypes, ScalarType
<1>1. PICK q : q = New
  OBVIOUS
<1>2. CASE ResolveLiteral
  <2>1. /\ Len(stage) + 1 <= MaxStages /\ PushStage(Function("literal"), 0, "literal")
        /\ Constructs \cap Number # {}
    BY <1>2 DEF ResolveLiteral, Room, Allow, Number
  <2>2. 0 \in 0..Len(stack)
    BY DEF StackOK
  <2>3. Function("literal") \in StageRecord
    <3>1. "literal" \in StageNames
      BY DEF StageNames
    <3> QED BY <3>1, FunctionMade
  <2>4. Origin(Function("literal")) /\ ~Yields(Function("literal")) /\ ~ReadsLog(Function("literal"))
    <3>1. /\ Function("literal").type = "Function" /\ Function("literal").what = "literal"
      BY DEF Function, Blank
    <3>2. def.rangeFunctions = RangeFunctions
      BY EmittedTarget DEF def, Dialect, Logql
    <3>3. "literal" \notin RangeFunctions /\ "literal" \notin LogStages
      BY DEF RangeFunctions, LogStages, Parsers, LabelFormatters, LineFormatters
    <3> QED BY <3>1, <3>2, <3>3 DEF Origin, Yields, ReadsLog, ReadsRangeOperand
  <2> QED BY <1>0, <1>1, <2>1, <2>2, <2>3, <2>4, BeginPlaces
<1>3. CASE ResolveUnaryExpr
  <2> DEFINE type == IF Top.is = "vector" THEN "vector" ELSE ScalarType
             st == UnaryOp(Top.q)
  <2>0. stack # << >>
    BY <1>3 DEF ResolveUnaryExpr, Operand
  <2>1. Len(stage) + 1 <= MaxStages /\ PushStage(st, 1, type) /\ Constructs \cap Number # {}
    BY <1>3 DEF ResolveUnaryExpr, Room, Allow, Number
  <2>2. 1 \in 0..Len(stack) /\ Top.q \in QueryId
    BY <2>0, TopOfStack
  <2>3. st \in StageRecord /\ Origin(st) /\ ~Yields(st) /\ ~ReadsLog(st)
    BY <2>2, OperatorsMade, OriginKinds
  <2>4. type \in MetricTypes \cup {"literal"}
    BY <1>0
  <2> HIDE DEF type, st
  <2> QED BY <1>1, <2>1, <2>2, <2>3, <2>4, BeginPlaces
<1>4. ASSUME NEW bool \in BOOLEAN, ResolveArithmetic(bool) PROVE Places
  <2> DEFINE type == IF "vector" \in {Top.is, Below.is} THEN "vector" ELSE ScalarType
             st == BinaryOp(Below.q, Top.q)
  <2>0. Len(stack) >= 2
    BY <1>4 DEF ResolveArithmetic
  <2>0a. stack # << >>
    BY <2>0
  <2>1. Len(stage) + 1 <= MaxStages /\ PushStage(st, 2, type) /\ Constructs \cap Number # {}
    BY <1>4 DEF ResolveArithmetic, Room, Allow, Number
  <2>2. 2 \in 0..Len(stack) /\ Top.q \in QueryId /\ Below.q \in QueryId
    BY <2>0, <2>0a, TopOfStack
  <2>3. st \in StageRecord /\ Origin(st) /\ ~Yields(st) /\ ~ReadsLog(st)
    BY <2>2, OperatorsMade, OriginKinds
  <2>4. type \in MetricTypes \cup {"literal"}
    BY <1>0
  <2> HIDE DEF type, st
  <2> QED BY <1>1, <2>1, <2>2, <2>3, <2>4, BeginPlaces
<1> QED BY <1>2, <1>3, <1>4

(* Functions and aggregations. *)
LEMMA CallsPlace ==
  ASSUME HeapOK, StackOK,
         NEW op \in {"RATE", "SUM", "QUANTILE", "COUNT_DISTINCT", "bytes_rate",
                     "stdvar_over_time", "sort", "abs", "histogram_fraction"},
         ResolveRangeFunction(op) \/ ResolveAggregateExpr(op) \/ ResolveCall(op)
  PROVE  Places
<1>0. op \in StageNames /\ op \notin {"unwrap", "literal"}
  BY DEF StageNames, RangeFunctions
<1>1. "vector" \in OperandTypes /\ "vector" \in MetricTypes
  BY DEF OperandTypes, MetricTypes
<1>2. PICK q : q = Top.q
  OBVIOUS
<1>3. /\ Function(op).type = "Function" /\ Function(op).what = op
      /\ \A scope : /\ Aggregation(op, scope).type = "Aggregation"
                    /\ Aggregation(op, scope).what = op /\ Aggregation(op, scope).scope = scope
  BY DEF Function, Aggregation, Blank
<1>4. stack # << >> /\ Room(0, 1)
  BY DEF ResolveRangeFunction, ResolveAggregateExpr, ResolveCall, Operand
<1>5. CASE ResolveRangeFunction(op)
  <2>1. Top.is \in RangeTypes
    BY <1>5 DEF ResolveRangeFunction, Operand, RangeTypes
  <2>2. CASE /\ <<op, "TEMPORAL">> \in Dialect[Source].aggregations
             /\ AppendStage(Aggregation(op, "TEMPORAL"), "vector")
    <3>1. FoldFits(Aggregation(op, "TEMPORAL"), Top.is, "vector")
      BY <1>3, <2>1, <2>2 DEF FoldFits, RangeFold
    <3> QED BY <1>0, <1>1, <1>2, <1>4, <2>2, <3>1, AggregationMade, FoldPlaces
  <2>3. CASE op \in Dialect[Source].rangeFunctions /\ AppendStage(Function(op), "vector")
    <3>1. FoldFits(Function(op), Top.is, "vector")
      BY <1>3, <2>1, <2>3 DEF FoldFits, RangeFold
    <3> QED BY <1>0, <1>1, <1>2, <1>4, <2>3, <3>1, FunctionMade, FoldPlaces
  <2> QED BY <1>5, <2>2, <2>3 DEF ResolveRangeFunction
<1>6. CASE ResolveAggregateExpr(op)
  <2>1. /\ Top.is \in MetricTypes /\ <<op, "GROUP">> \in Dialect[Source].aggregations
        /\ AppendStage(Aggregation(op, "GROUP"), "vector")
    BY <1>6 DEF ResolveAggregateExpr, Operand, MetricTypes
  <2>2. FoldFits(Aggregation(op, "GROUP"), Top.is, "vector")
    BY <1>1, <1>3, <2>1 DEF FoldFits, SampleFold
  <2> QED BY <1>0, <1>1, <1>2, <1>4, <2>1, <2>2, AggregationMade, FoldPlaces
<1>7. CASE ResolveCall(op)
  <2>1. /\ Top.is \in MetricTypes
        /\ op \in Dialect[Source].functions \ (RangeFunctions \cup LogStages)
        /\ AppendStage(Function(op), "vector")
    BY <1>7 DEF ResolveCall, Operand, MetricTypes
  <2>2. FoldFits(Function(op), Top.is, "vector")
    BY <1>1, <1>3, <2>1 DEF FoldFits, SampleFold
  <2> QED BY <1>0, <1>1, <1>2, <1>4, <2>1, <2>2, FunctionMade, FoldPlaces
<1> QED BY <1>5, <1>6, <1>7

(* The stages of a log pipeline. *)
LEMMA StagesPlace ==
  ASSUME HeapOK, StackOK,
         (\E st \in LogStage : ResolveStage(st)) \/ ResolveUnwrap \/ ResolvePostFilter
  PROVE  Places
<1>0. {"log", "unwrapping"} \subseteq OperandTypes /\ {"log", "unwrapping"} = LogTypes
  BY DEF OperandTypes, LogTypes
<1>1. /\ {FieldBody, "label", "parse_json", "label_format", "line_format", "unwrap"} \subseteq StageNames
      /\ {"contains", "equal", "regex"} \subseteq Comparisons
      /\ FieldBody \notin {"unwrap", "literal"} /\ "label" \notin {"unwrap", "literal"}
      /\ FieldBody # FieldValue /\ "label" # FieldValue
      /\ {"parse_json", "label_format", "line_format", "unwrap"} \subseteq LogStages
  BY DEF StageNames, Comparisons, FieldBody, FieldValue, LogStages, Parsers, LabelFormatters,
         LineFormatters
<1>2. PICK q : q = Top.q
  OBVIOUS
<1>3. /\ \A name : Function(name).type = "Function" /\ Function(name).what = name
      /\ \A field, op, bool : /\ Filter(field, op, bool).type = "Filter"
                              /\ Filter(field, op, bool).what = field
  BY DEF Function, Filter, Blank
<1>4. ASSUME NEW st \in StageRecord, st.args = << >>, Shaped(st), LogFold(st), stack # << >>,
             Room(0, 1), NEW type \in LogTypes, AppendStage(st, type), Top.is \in LogTypes
      PROVE  Places
  <2>1. FoldFits(st, Top.is, type)
    BY <1>4 DEF FoldFits
  <2>2. type \in OperandTypes
    BY <1>0
  <2> QED BY <1>2, <1>4, <2>1, <2>2, FoldPlaces
<1>5. ASSUME NEW st \in LogStage, ResolveStage(st) PROVE Places
  <2>1. st \in StageRecord /\ st.args = << >> /\ Shaped(st)
    BY <1>1, FilterMade, FunctionMade DEF LogStage
  <2>2. stack # << >> /\ Room(0, 1) /\ AppendStage(st, "log") /\ Top.is \in LogTypes
    BY <1>5 DEF ResolveStage, Operand, LogTypes
  <2>3. LogFold(st)
    BY <1>1, <1>3 DEF LogStage, LogFold
  <2> QED BY <1>0, <1>4, <2>1, <2>2, <2>3
<1>6. CASE ResolveUnwrap
  <2>1. Function("unwrap") \in StageRecord /\ Function("unwrap").args = << >> /\ Shaped(Function("unwrap"))
    BY <1>1, FunctionMade
  <2>2. /\ stack # << >> /\ Room(0, 1) /\ AppendStage(Function("unwrap"), "unwrapping")
        /\ Top.is \in LogTypes
    BY <1>6 DEF ResolveUnwrap, Operand, LogTypes
  <2>3. LogFold(Function("unwrap"))
    BY <1>1, <1>3 DEF LogFold
  <2> QED BY <1>0, <1>4, <2>1, <2>2, <2>3
<1>7. CASE ResolvePostFilter
  <2> DEFINE st == Filter("label", "equal", 0)
  <2>1. st \in StageRecord /\ st.args = << >> /\ Shaped(st)
    BY <1>1, FilterMade
  <2>2. /\ stack # << >> /\ Room(0, 1) /\ AppendStage(st, "unwrapping") /\ Top.is \in LogTypes
    BY <1>7 DEF ResolvePostFilter, Operand, LogTypes
  <2>3. LogFold(st)
    BY <1>1, <1>3 DEF LogFold
  <2> HIDE DEF st
  <2> QED BY <1>0, <1>4, <2>1, <2>2, <2>3
<1> QED BY <1>5, <1>6, <1>7

(* A comparison with a number. *)
LEMMA ComparisonPlaces ==
  ASSUME HeapOK, StackOK, AuthoredOK, NEW numberFirst \in BOOLEAN, NEW bool \in BOOLEAN,
         ResolveComparisonFilter(numberFirst, bool)
  PROVE  Places
<1> DEFINE b == Occurrence(bool, 1, 0)
           st == Filter(FieldValue, "greater", b)
<1>1. b \in Nat
  BY OccurrenceType
<1>2. FieldValue \in StageNames /\ "greater" \in Comparisons /\ FieldValue \notin {"unwrap", "literal"}
  BY DEF StageNames, Comparisons, FieldValue
<1>3. stack # << >> /\ Room(0, 1) /\ AppendStage(st, Top.is) /\ Top.is \in MetricTypes
  BY DEF ResolveComparisonFilter, Operand
<1>4. Top.is \in OperandTypes
  BY <1>3, TopOfStack DEF Pending
<1>5. SampleFold(st)
  BY DEF SampleFold, Filter, Blank
<1> HIDE DEF b
<1>6. st \in StageRecord /\ st.args = << >> /\ Shaped(st)
  BY <1>1, <1>2, FilterMade
<1> HIDE DEF st
<1>7. PICK q, type : q = Top.q /\ type = Top.is
  OBVIOUS
<1>8. FoldFits(st, Top.is, type)
  BY <1>3, <1>5, <1>7 DEF FoldFits
<1> QED BY <1>3, <1>4, <1>6, <1>7, <1>8, FoldPlaces

(* A subquery. *)
LEMMA SubqueryPlaces ==
  ASSUME HeapOK, StackOK, AuthoredOK, NEW offset \in BOOLEAN, NEW pinned \in BOOLEAN,
         ResolveSubqueryExpr(offset, pinned)
  PROVE  Places
<1>1. /\ stack # << >> /\ Source = "promql" /\ stage' = stage
      /\ stack' = [stack EXCEPT ![Len(stack)].is = "range"]
  BY DEF ResolveSubqueryExpr, Operand
<1>2. PICK q : q = Top.q
  OBVIOUS
<1>3. q \in DOMAIN query /\ q \in Nat /\ query[q] \in QueryRecord
  BY <1>1, <1>2, TopOfStack, HeapDomains
<1> DEFINE ms == Modifiers(offset, pinned, q)
           a == Occurrence(offset, 1, query[q].offset)
           b == PinOccurrence(offset, pinned, query[q].pinned)
           c == Len(ms) + 1
           r == [query[q] EXCEPT !.offset = a, !.pinned = b, !.subquery = c]
<1>4. query' = [query EXCEPT ![q] = r]
  BY <1>2, <1>3 DEF ResolveSubqueryExpr
<1>5. Len(ms) \in Nat
  <2> HIDE DEF ms
  <2>1. Modifiers(offset, pinned, q) \in Seq(Modifier)
    BY <1>3, ModifiersType
  <2> QED BY <2>1 DEF ms
<1> HIDE DEF ms
<1>6. a \in Nat /\ b \in Nat /\ c \in Nat /\ c # 0
  <2>1. query[q].offset \in Nat /\ query[q].pinned \in Nat
    BY <1>3 DEF QueryRecord
  <2>2. a \in Nat
    BY <2>1, OccurrenceType
  <2>3. b \in Nat
    BY <2>1, PinOccurrenceType
  <2> QED BY <1>5, <2>2, <2>3
<1> HIDE DEF a, b, c
<1>7. /\ r \in QueryRecord /\ r.pipeline = query[q].pipeline /\ r.source = query[q].source
      /\ r.subquery # 0
  BY <1>3, <1>6 DEF QueryRecord
<1> HIDE DEF r
<1>8. Adds(q, {}) /\ query'[q] = r
  BY <1>1, <1>3, <1>4, <1>7, ModifyAdds
<1>9. "range" \in OperandTypes
  BY DEF OperandTypes
<1>10. Settles(q, "range")
  BY <1>1, <1>2, <1>9, RetypeSettles
<1>11. Repeated(q, "range")
  BY <1>1, <1>3, <1>7, <1>8 DEF Repeated
<1> QED BY <1>3, <1>9, <1>10, <1>11 DEF Places, Placing

(* A range over a log expression. *)
LEMMA LogRangePlaces ==
  ASSUME HeapOK, StackOK, AuthoredOK, NEW offset \in BOOLEAN, ResolveLogRange(offset)
  PROVE  Places
<1>1. stack # << >> /\ stage' = stage /\ Top.is \in LogTypes
  BY DEF ResolveLogRange, Operand, LogTypes
<1>2. PICK q : q = Top.q
  OBVIOUS
<1>2a. PICK type : type = IF Top.is = "log" THEN "range" ELSE "unwrapped range"
  OBVIOUS
<1>3. q \in DOMAIN query /\ q \in Nat /\ query[q] \in QueryRecord /\ Len(stack) \in DOMAIN stack
  BY <1>1, <1>2, TopOfStack, HeapDomains
<1>4. stack' = [stack EXCEPT ![Len(stack)].is = type]
  BY <1>2a, <1>3 DEF ResolveLogRange, Top
<1> DEFINE a == Occurrence(offset, 1, 0)
           r == [query[q] EXCEPT !.step = TRUE, !.offset = a]
<1>5. query' = [query EXCEPT ![q] = r]
  BY <1>2, <1>3 DEF ResolveLogRange
<1>6. a \in Nat
  BY OccurrenceType
<1> HIDE DEF a
<1>7. /\ r \in QueryRecord /\ r.pipeline = query[q].pipeline /\ r.source = query[q].source
      /\ r.subquery = query[q].subquery /\ r.pinned = query[q].pinned
  BY <1>3, <1>6 DEF QueryRecord
<1> HIDE DEF r
<1>8. Adds(q, {}) /\ query'[q] = r
  BY <1>1, <1>3, <1>5, <1>7, ModifyAdds
<1>9. type \in OperandTypes /\ type \in RangeTypes
  BY <1>2a DEF OperandTypes, RangeTypes
<1>10. Settles(q, type)
  BY <1>1, <1>2, <1>4, <1>9, RetypeSettles
<1>11. Windowed(q, type)
  BY <1>1, <1>2, <1>3, <1>7, <1>8, <1>9 DEF Windowed
<1> QED BY <1>3, <1>9, <1>10, <1>11 DEF Places, Placing

(* Parentheses around a number. *)
LEMMA ParenPlaces ==
  ASSUME HeapOK, StackOK, ResolveParenExpr
  PROVE  Places
<1>1. /\ stack # << >> /\ UNCHANGED heap /\ Top.is = "literal"
      /\ stack' = [stack EXCEPT ![Len(stack)].is = ScalarType]
  BY DEF ResolveParenExpr, Operand
<1>2. PICK q : q = Top.q
  OBVIOUS
<1>3. q \in DOMAIN query /\ q \in Nat
  BY <1>1, <1>2, TopOfStack, HeapDomains
<1>4. ScalarType \in OperandTypes
  BY DEF ScalarType, OperandTypes
<1>5. Settles(q, ScalarType)
  BY <1>1, <1>2, <1>4, RetypeSettles
<1>6. Adds(q, {})
  BY <1>1, <1>3 DEF Adds, heap, InPipeline, Pipeline
<1>7. Enclosed(q, ScalarType)
  BY <1>1, <1>2, <1>3, <1>6 DEF Enclosed
<1> QED BY <1>3, <1>4, <1>5, <1>7 DEF Places, Placing

(* A join. *)
LEMMA JoinPlaces ==
  ASSUME HeapOK, StackOK, ResolveJoin
  PROVE  Places
<1>1. /\ Len(stack) >= 2 /\ stack' = Pop(1) /\ Below.is = "vector"
      /\ Constructs \cap Number # {}
  BY DEF ResolveJoin, Allow, Number
<1>1a. stack # << >>
  BY <1>1
<1>2. PICK q, right : q = Below.q /\ right = Top.q
  OBVIOUS
<1>3. q \in DOMAIN query /\ q \in Nat /\ right \in QueryId
  BY <1>1, <1>1a, <1>2, TopOfStack, HeapDomains
<1>4. Joined(q, right)
  BY <1>2 DEF ResolveJoin, Joined
<1> DEFINE s == Len(stage) + 1
<1>5. /\ Adds(q, {s, s + 1}) /\ stage'[s].type = "Join" /\ stage'[s].what = ""
      /\ stage'[s + 1] = BinaryOp(None, None)
  BY <1>3, <1>4, JoinAdds
<1>6. s \in Nat /\ "vector" \in OperandTypes
  BY HeapDomains DEF OperandTypes
<1>7. Settles(q, "vector")
  BY <1>1, <1>2, JoinSettles
<1> HIDE DEF s
<1>8. Matched(q, s, "vector")
  BY <1>1, <1>3, <1>5 DEF Matched
<1> QED BY <1>3, <1>6, <1>7, <1>8 DEF Places, Placing

(* Every step of the resolver is one of these. *)
LEMMA ResolverPlaces ==
  ASSUME HeapOK, StackOK, AuthoredOK, ResolverNext
  PROVE  Places
<1>1. ASSUME NEW op \in {"RATE", "SUM", "QUANTILE", "COUNT_DISTINCT", "bytes_rate",
                  "stdvar_over_time"},
             ResolveRangeFunction(op) \/ ResolveAggregateExpr(op)
      PROVE  Places
  BY <1>1, CallsPlace
<1>2. ASSUME NEW name \in {"sort", "abs", "histogram_fraction"}, ResolveCall(name)
      PROVE  Places
  BY <1>2, CallsPlace
<1>3. CASE (\E st \in LogStage : ResolveStage(st)) \/ ResolveUnwrap \/ ResolvePostFilter
  BY <1>3, StagesPlace
<1>4. ASSUME NEW m \in AllowedSources, ResolveStreamSelector(m) PROVE Places
  BY <1>4, SelectorsPlace
<1> QED
  BY <1>1, <1>2, <1>3, <1>4, SelectorsPlace, SubqueryPlaces, LogRangePlaces, OperatorsPlace,
     ComparisonPlaces, JoinPlaces, ParenPlaces
     DEF ResolverNext

(* The kinds of the stages that are folded in. *)
LEMMA FoldedKinds ==
  ASSUME NEW st, st.args = << >>, Shaped(st), NEW was, NEW type, FoldFits(st, was, type)
  PROVE  /\ ~Origin(st)
         /\ LogFold(st) => ~Yields(st)
         /\ RangeFold(st) => Yields(st) /\ ~ReadsLog(st)
         /\ SampleFold(st) => ~Yields(st) /\ ~ReadsLog(st)
<1>1. /\ def.rangeFunctions = RangeFunctions
      /\ Dialect[Source].rangeFunctions \subseteq RangeFunctions
      /\ "literal" \notin Dialect[Source].functions
      /\ FieldValue # "literal" /\ RangeFunctions \cap LogStages = {} /\ "literal" \notin LogStages
      /\ "literal" \notin RangeFunctions
  BY EmittedTarget, ModelledSource
     DEF def, Dialect, Logql, Promql, RangeFunctions, LogStages, Parsers, LabelFormatters,
         LineFormatters, FieldValue
<1>2. CASE LogFold(st)
  <2>1. ~HasOperands(st) /\ ~Yields(st)
    BY <1>1, <1>2 DEF LogFold, HasOperands, Yields, ReadsRangeOperand
  <2>2. st.what # "literal"
    BY <1>1, <1>2 DEF LogFold, Shaped
  <2>3. ~RangeFold(st) /\ ~SampleFold(st)
    BY <1>1, <1>2 DEF LogFold, RangeFold, SampleFold
  <2> QED BY <2>1, <2>2, <2>3 DEF Origin
<1>3. CASE RangeFold(st)
  <2>1. ~HasOperands(st) /\ Yields(st) /\ ~ReadsLog(st)
    BY <1>1, <1>3 DEF RangeFold, HasOperands, Yields, ReadsRangeOperand, ReadsLog
  <2>2. st.what # "literal"
    BY <1>1, <1>3 DEF RangeFold, Shaped
  <2>3. ~LogFold(st) /\ ~SampleFold(st)
    BY <1>1, <1>3 DEF LogFold, RangeFold, SampleFold
  <2> QED BY <2>1, <2>2, <2>3 DEF Origin
<1>4. CASE SampleFold(st)
  <2>1. ~HasOperands(st) /\ ~Yields(st) /\ ~ReadsLog(st)
    BY <1>1, <1>4 DEF SampleFold, HasOperands, Yields, ReadsRangeOperand, ReadsLog
  <2>2. st.what # "literal"
    BY <1>1, <1>4 DEF SampleFold, Shaped
  <2>3. ~LogFold(st) /\ ~RangeFold(st)
    BY <1>1, <1>4 DEF LogFold, RangeFold, SampleFold
  <2> QED BY <2>1, <2>2, <2>3 DEF Origin
<1> QED BY <1>2, <1>3, <1>4 DEF FoldFits

(* What they add suits. *)
LEMMA PlacesSuit ==
  ASSUME HeapOK, StackOK, OperandsAscend, ShapesOK, Places
  PROVE  ShapesOK'
<1>1. PICK q \in Nat, s \in Nat, type \in OperandTypes : Settles(q, type) /\ Placing(q, s, type)
  BY DEF Places
<1>2. ASSUME NEW added, Adds(q, added), Suits(q, added, type) PROVE ShapesOK'
  BY <1>1, <1>2, ShapesGrow
<1>3. stack # << >> => Open(Top.q, Top.is)
  BY TopOfStack DEF ShapesOK, OperandsOpen, Top
<1>3a. ASSUME stack # << >>, q = Top.q PROVE Open(q, Top.is)
  BY <1>3, <1>3a
<1>4. LogTypes \cap RangeTypes = {} /\ MetricTypes \cap (LogTypes \cup RangeTypes) = {}
      /\ "literal" \notin LogTypes \cup RangeTypes /\ ScalarType \in MetricTypes
      /\ "range" \in RangeTypes /\ "vector" \in MetricTypes /\ "log" \in LogTypes
  BY DEF LogTypes, RangeTypes, MetricTypes, ScalarType
<1>5. CASE Selected(q, type)
  <2>1. Suits(q, {}, type)
    BY <1>5 DEF Selected, Suits
  <2> QED BY <1>2, <1>5, <2>1 DEF Selected
<1>6. CASE Begun(q, s, type)
  <2>1. Suits(q, {s}, type)
    BY <1>4, <1>6 DEF Begun, Suits
  <2> QED BY <1>2, <1>6, <2>1 DEF Begun
<1>7. CASE Into(q, s, type)
  <2> DEFINE st == stage'[s]
  <2>1. /\ q \in DOMAIN query /\ Adds(q, {s}) /\ FoldFits(st, Top.is, type) /\ Open(q, Top.is)
        /\ st.args = << >> /\ Shaped(st) /\ Unmodified(q)
    BY <1>3a, <1>7 DEF Into
  <2>2. Sourced(q)' = Sourced(q)
    BY <2>1 DEF Adds, Sourced
  <2>3. /\ ~Origin(st)
        /\ LogFold(st) => ~Yields(st)
        /\ RangeFold(st) => Yields(st) /\ ~ReadsLog(st)
        /\ SampleFold(st) => ~Yields(st) /\ ~ReadsLog(st)
    BY <2>1, FoldedKinds
  <2> HIDE DEF st
  <2>4. CASE LogFold(st) /\ Top.is \in LogTypes /\ type \in LogTypes
    <3>1. Open(q, type)
      BY <2>1, <2>4 DEF Open
    <3>2. Sourced(q)'
      BY <2>1, <2>2, <2>4 DEF Open
    <3>3. Suits(q, {s}, type)
      BY <1>4, <2>1, <2>3, <2>4, <3>1, <3>2 DEF Suits, st
    <3> QED BY <1>2, <2>1, <3>3
  <2>5. CASE RangeFold(st) /\ Top.is \in RangeTypes /\ type = "vector"
    <3>1. Open(q, "range")
      BY <1>4, <2>1, <2>5 DEF Open
    <3>2. Suits(q, {s}, type)
      BY <1>4, <2>1, <2>3, <2>5, <3>1 DEF Suits, st
    <3> QED BY <1>2, <2>1, <3>2
  <2>6. CASE SampleFold(st) /\ Top.is \in MetricTypes /\ type \in MetricTypes
    <3>1. Suits(q, {s}, type)
      BY <1>4, <2>1, <2>3, <2>6 DEF Suits, st
    <3> QED BY <1>2, <2>1, <3>1
  <2> QED BY <2>1, <2>4, <2>5, <2>6 DEF FoldFits
<1>8. CASE Repeated(q, type)
  <2>1. Suits(q, {}, type)
    BY <1>4, <1>8 DEF Repeated, Suits
  <2> QED BY <1>2, <1>8, <2>1 DEF Repeated
<1>9. CASE Windowed(q, type)
  <2>1. Open(q, type)
    BY <1>3a, <1>4, <1>9 DEF Windowed, Open
  <2>2. Suits(q, {}, type)
    BY <1>4, <1>9, <2>1 DEF Windowed, Suits
  <2> QED BY <1>2, <1>9, <2>2 DEF Windowed
<1>10. CASE Enclosed(q, type)
  <2>1. Suits(q, {}, type)
    BY <1>4, <1>10 DEF Enclosed, Suits
  <2> QED BY <1>2, <1>10, <2>1 DEF Enclosed
<1>11. CASE Matched(q, s, type)
  <2>1. \A t \in {s, s + 1} : ~Origin(stage'[t]) /\ ~Yields(stage'[t]) /\ ~ReadsLog(stage'[t])
    <3>1. /\ BinaryOp(None, None).type = "BinaryOp" /\ BinaryOp(None, None).args = << >>
          /\ BinaryOp(None, None).what = ""
      BY DEF BinaryOp, Blank, None
    <3> QED BY <1>11, <3>1 DEF Matched, Origin, Yields, ReadsLog, HasOperands, IsOperator
  <2>2. Suits(q, {s, s + 1}, type)
    BY <1>4, <1>11, <2>1 DEF Matched, Suits
  <2> QED BY <1>2, <1>11, <2>2 DEF Matched
<1> QED BY <1>1, <1>5, <1>6, <1>7, <1>8, <1>9, <1>10, <1>11 DEF Placing

-----------------------------------------------------------------------------
(* The shapes throughout a translation. *)

(* The sort moves stages within a query and touches nothing else of it. *)
LEMMA SortKeepsQueries ==
  ASSUME HeapOK, NEW q \in DOMAIN query, stage' = stage,
         query' = [query EXCEPT ![q].pipeline = Reordered(Pipeline(q), def)]
  PROVE  /\ DOMAIN query' = DOMAIN query
         /\ \A p \in DOMAIN query :
               /\ InPipeline(p)' = InPipeline(p) /\ Producers(p)' = Producers(p)
               /\ query'[p].source = query[p].source /\ query'[p].signal = query[p].signal
               /\ query'[p].subquery = query[p].subquery
               /\ query'[p].offset = query[p].offset /\ query'[p].pinned = query[p].pinned
<1>1. /\ DOMAIN query' = DOMAIN query
      /\ query'[q].pipeline = Reordered(Pipeline(q), def)
      /\ \A p \in DOMAIN query : p # q => query'[p] = query[p]
  BY VisitQueryHeap
<1>2. Pipeline(q) \in Seq(StageId) /\ query[q] \in QueryRecord
  BY PipelineType
<1>3. query'[q] = [query[q] EXCEPT !.pipeline = Reordered(Pipeline(q), def)]
  OBVIOUS
<1>4. /\ query'[q].source = query[q].source /\ query'[q].signal = query[q].signal
      /\ query'[q].subquery = query[q].subquery
      /\ query'[q].offset = query[q].offset /\ query'[q].pinned = query[q].pinned
  BY <1>2, <1>3 DEF QueryRecord
<1> DEFINE ids == Pipeline(q)
           new == Reordered(ids, def)
<1>5. ids \in Seq(StageId) /\ DOMAIN new = DOMAIN ids
      /\ \A i \in DOMAIN ids : new[i] \in InPipeline(q)
  <2>1. \A i \in DOMAIN ids : ids[i] \in InPipeline(q)
    BY DEF InPipeline
  <2> HIDE DEF ids
  <2> QED BY <1>2, <2>1, ReorderedType DEF ids
<1>6. \A i \in DOMAIN ids : \E k \in DOMAIN new : new[k] = ids[i]
  <2> HIDE DEF ids
  <2> QED BY <1>5, SortLosesNone
<1>7. InPipeline(q)' = {new[k] : k \in DOMAIN new}
  BY <1>1 DEF InPipeline, Pipeline
<1>8. InPipeline(q) = {ids[i] : i \in DOMAIN ids}
  BY DEF InPipeline
<1> HIDE DEF ids, new
<1>9. InPipeline(q)' = InPipeline(q)
  BY <1>5, <1>6, <1>7, <1>8
<1>10. ASSUME NEW p \in DOMAIN query
       PROVE  /\ InPipeline(p)' = InPipeline(p) /\ Producers(p)' = Producers(p)
              /\ query'[p].source = query[p].source /\ query'[p].signal = query[p].signal
              /\ query'[p].subquery = query[p].subquery
              /\ query'[p].offset = query[p].offset /\ query'[p].pinned = query[p].pinned
  <2>1. InPipeline(p)' = InPipeline(p)
    <3>1. CASE p = q
      BY <1>9, <3>1
    <3>2. CASE p # q
      BY <1>1, <3>2 DEF InPipeline, Pipeline
    <3> QED BY <3>1, <3>2
  <2>2. Producers(p)' = Producers(p)
    BY <2>1 DEF Producers, Yields, def
  <2>3. /\ query'[p].source = query[p].source /\ query'[p].signal = query[p].signal
        /\ query'[p].subquery = query[p].subquery
        /\ query'[p].offset = query[p].offset /\ query'[p].pinned = query[p].pinned
    BY <1>1, <1>4
  <2> QED BY <2>1, <2>2, <2>3
<1> QED BY <1>1, <1>10

(* ... so it keeps their shapes. *)
LEMMA SortKeepsShapes ==
  ASSUME HeapOK, StackOK, ShapesOK, NEW q \in DOMAIN query, stage' = stage, stack' = stack,
         query' = [query EXCEPT ![q].pipeline = Reordered(Pipeline(q), def)]
  PROVE  ShapesOK'
<1>1. /\ DOMAIN query' = DOMAIN query
      /\ \A p \in DOMAIN query :
            /\ InPipeline(p)' = InPipeline(p) /\ Producers(p)' = Producers(p)
            /\ query'[p].source = query[p].source /\ query'[p].subquery = query[p].subquery
  BY SortKeepsQueries
<1>2. \A p \in DOMAIN query :
         /\ InPipeline(p)' = InPipeline(p) /\ Producers(p)' = Producers(p)
         /\ Sourced(p)' = Sourced(p) /\ query'[p].subquery = query[p].subquery
  BY <1>1 DEF Sourced
<1>3. AllHoused'
  BY <1>1, <1>2 DEF ShapesOK, AllHoused
<1>4. OriginsFirst'
  BY <1>1, <1>2 DEF ShapesOK, OriginsFirst, Origin, HasOperands, IsOperator
<1>5. OneRange'
  BY <1>1, <1>2 DEF ShapesOK, OneRange
<1>6. LogStagesSourced'
  BY <1>1, <1>2 DEF ShapesOK, LogStagesSourced, ReadsLog
<1>7. OperandsOpen'
  <2>1. ASSUME NEW i \in DOMAIN stack, NEW p, NEW is, p = stack[i].q, is = stack[i].is
        PROVE  Open(p, is)'
    <3>1. p \in DOMAIN query /\ Open(p, is)
      BY <2>1 DEF StackOK, ShapesOK, OperandsOpen
    <3> QED BY <1>2, <3>1 DEF Open
  <2> QED BY <2>1 DEF OperandsOpen
<1> QED BY <1>3, <1>4, <1>5, <1>6, <1>7 DEF ShapesOK

(* Pipelines keep their shapes in every step of a translation. *)
LEMMA ShapesSteps ==
  Typed /\ OperandsAscend /\ ShapesOK /\ [Next]_vars => ShapesOK'
<1> SUFFICES ASSUME Typed, OperandsAscend, ShapesOK, [Next]_vars PROVE ShapesOK'
  OBVIOUS
<1>0. HeapOK /\ StackOK /\ AuthoredOK /\ WalkOK
  BY DEF Typed
<1>1. CASE Resolve
  BY <1>0, <1>1, ResolverPlaces, PlacesSuit DEF Resolve
<1>2. CASE Fail
  <2>1. query' = << >> /\ stage' = << >> /\ stack' = << >>
    BY <1>2 DEF Fail
  <2> QED BY <2>1 DEF ShapesOK, AllHoused, OriginsFirst, OneRange, LogStagesSourced, OperandsOpen
<1>3. CASE Validate /\ VisitQuery
  <2> DEFINE q == Head(toVisit)[2]
  <2>1. stage' = stage /\ stack' = stack
    BY <1>3 DEF Validate, VisitQuery
  <2>2. query' = [query EXCEPT ![q].pipeline = Reordered(Pipeline(q), def)]
    BY <1>3 DEF VisitQuery
  <2>3. q \in DOMAIN query
    BY <1>0, <1>3, VisitSorts DEF Validate
  <2> QED BY <1>0, <2>1, <2>2, <2>3, SortKeepsShapes
<1>4. CASE UNCHANGED resolverVars
  <2>1. query' = query /\ stage' = stage /\ stack' = stack
    BY <1>4 DEF resolverVars, heap
  <2> QED BY <2>1 DEF ShapesOK, AllHoused, OriginsFirst, OneRange, LogStagesSourced, OperandsOpen,
                      Open, Producers, InPipeline, Pipeline, Sourced, Origin, HasOperands,
                      IsOperator, Yields, ReadsLog, def
<1>5. Resolve \/ Fail \/ (Validate /\ VisitQuery) \/ UNCHANGED resolverVars
  BY DEF Next, Proceed, BeginValidation, Validate, ValidatorNext, VisitStage, VisitMatcher,
         VisitWindow, VisitOther, Report, BeginEmission, Emit, GenerateReport, Returned, vars,
         resolverVars
<1> QED BY <1>1, <1>2, <1>3, <1>4, <1>5

Shaping == Typed /\ ModifiersOK /\ ShapesOK

(* Pipelines have their shapes throughout. *)
LEMMA ShapesThroughout ==
  Spec => []Shaping
<1>1. Init => ModifiersOK /\ ShapesOK
  <2> SUFFICES ASSUME Init PROVE ModifiersOK /\ ShapesOK
    OBVIOUS
  <2>1. query = << >> /\ stage = << >> /\ stack = << >> /\ authored = << >>
    BY DEF Init, ResolverInit
  <2>2. ModifiersOK
    BY <2>1, NothingWritten
  <2>3. ShapesOK
    BY <2>1 DEF ShapesOK, AllHoused, OriginsFirst, OneRange, LogStagesSourced, OperandsOpen
  <2> QED BY <2>2, <2>3
<1>2. Typed /\ ModifiersOK /\ ShapesOK /\ [Next]_vars => (ModifiersOK /\ ShapesOK)'
  BY ModifiersSteps, ShapesSteps DEF ModifiersOK
<1>3. Spec => []Typed
  BY TranslationTyped
<1> QED BY <1>1, <1>2, <1>3, PTL DEF Spec, Shaping

=============================================================================
