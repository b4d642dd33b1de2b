--------------------------- MODULE Registry_proof ---------------------------
(***************************************************************************)
(* Proofs about the registry, for any number of goroutines, any files, any  *)
(* definitions and any number of edits.                                     *)
(***************************************************************************)
EXTENDS Registry, WellFoundedInduction, TLAPS

-----------------------------------------------------------------------------
(* The inductive invariant. *)

Fields == DOMAIN NoCall
Languages == {Canonical[name] : name \in Spelling}
Whole(defs) == defs # {} /\ UsableTogether(defs)

(* What is known of a call at each place it may have come to.  A load has     *)
(* told nothing yet, and what it is about to install is whole.                *)
LoadInv(t) ==
    /\ call[t].at \in {"opening", "reading"} =>
          call[t].op \in Loaders /\ answer[t] = NoReply
    /\ call[t].at \in {"locking", "locked"} =>
          call[t].op = "Load" /\ answer[t] = NoReply /\ Whole(call[t].defs)

(* A question is one of the store's.  Who is under way to give the lock up    *)
(* holds it, so what it is about to reply is still what is installed, and so  *)
(* is it that there is no such language while the names are put together.     *)
QuestionInv(t) ==
    /\ call[t].at \in {"asking", "holding", "leaving"} =>
          \/ call[t].op \in {"List", "Default"}
          \/ call[t].op \in {"Get", "Miss"} /\ call[t].name \in Languages
    /\ call[t].at = "asking" => call[t].op # "Miss"
    /\ call[t].at = "holding" /\ call[t].op = "Miss" =>
          t \in readers /\ Definition(call[t].name) = {}
    /\ call[t].at = "leaving" =>
          t \in readers /\ call[t].reply = Store!Reply(installed, AskedBy(t))

LockInv(t) == t \in readers \cup shutOut => call[t].at \in {"holding", "leaving"}

CallInv(t) == DOMAIN call[t] = Fields /\ LoadInv(t) /\ QuestionInv(t) /\ LockInv(t)

RegistryInv ==
    /\ DOMAIN call = Caller /\ DOMAIN answer = Caller
    /\ readers \subseteq Caller /\ shutOut \subseteq Caller
    /\ NeverWaitsOnItself /\ InstalledUsable
    /\ \A t \in Caller : CallInv(t)

-----------------------------------------------------------------------------
(* Lemmas. *)

(* A file that loads defines a language that can do what it claims to. *)
LEMMA DefinitionUsable ==
  ASSUME NEW raw, WellFormed(raw), NEW d, d = parseDefinition(raw)
  PROVE  /\ d.dsl # ""
         /\ \A op \in StructuralOps :
               /\ SupportsStructuralOp(d, op) <=> StructuralOperatorForIROp(d, op) # {}
               /\ "" \notin StructuralOperatorForIROp(d, op)
         /\ \A op \in TemporalOnly : FunctionForAggregation(d, op, "GROUP") = {}
<1>1. d.dsl # ""
  BY DEF parseDefinition, WellFormed
<1>2. ASSUME NEW op \in StructuralOps
      PROVE  /\ SupportsStructuralOp(d, op) <=> StructuralOperatorForIROp(d, op) # {}
             /\ "" \notin StructuralOperatorForIROp(d, op)
  <2>1. d.claims = raw.claims /\ d.spells = raw.spells
    BY DEF parseDefinition
  <2>2. op \in raw.claims <=> \E s \in raw.spells : s[1] = op
    BY DEF WellFormed, StructuralResolve, Claimed, Spelled
  <2>3. \A s \in raw.spells : s[2] # ""
    BY DEF WellFormed, StructuralResolve
  <2> QED BY <2>1, <2>2, <2>3 DEF SupportsStructuralOp, StructuralOperatorForIROp
<1>3. ASSUME NEW op \in TemporalOnly, NEW fn \in FunctionForAggregation(d, op, "GROUP")
      PROVE  FALSE
  <2>1. fn \in d.functions /\ fn.isAggregation /\ fn.op = op /\ fn.scope = "GROUP"
    BY <1>3 DEF FunctionForAggregation, FunctionsForAggOp
  <2>2. PICK f \in raw.functions : fn = FunctionDef(f)
    BY <2>1 DEF parseDefinition
  <2>3. f.kind = op /\ f.kind # "" /\ AggScope(f) = "GROUP"
    BY <1>3, <2>1, <2>2 DEF FunctionDef, TemporalOnly
  <2>4. FunctionResolves(raw, f)
    BY DEF WellFormed
  <2> QED BY <1>3, <2>3, <2>4 DEF FunctionResolves
<1> QED BY <1>1, <1>2, <1>3

(* What loads is there and can be used together. *)
LEMMA LoadedIsWhole ==
  ASSUME NEW files, Loads(files), Parsed(files) # {}
  PROVE  Whole(Parsed(files))
<1>1. ASSUME NEW d \in Parsed(files), NEW e \in Parsed(files), d.dsl = e.dsl
      PROVE  d = e
  <2>1. PICK i \in DOMAIN files : d = parseDefinition(files[i])
    BY DEF Parsed
  <2>2. PICK j \in DOMAIN files : e = parseDefinition(files[j])
    BY DEF Parsed
  <2>3. Canonical[files[i].dsl] = Canonical[files[j].dsl]
    BY <1>1, <2>1, <2>2 DEF parseDefinition
  <2> QED BY <2>1, <2>2, <2>3 DEF Loads
<1>2. ASSUME NEW d \in Parsed(files)
      PROVE  /\ d.dsl # ""
             /\ \A op \in StructuralOps :
                   /\ SupportsStructuralOp(d, op) <=> StructuralOperatorForIROp(d, op) # {}
                   /\ "" \notin StructuralOperatorForIROp(d, op)
             /\ \A op \in TemporalOnly : FunctionForAggregation(d, op, "GROUP") = {}
  <2>1. PICK i \in DOMAIN files : d = parseDefinition(files[i])
    BY DEF Parsed
  <2>2. WellFormed(files[i])
    BY DEF Loads
  <2> QED BY <2>1, <2>2, DefinitionUsable
<1> QED BY <1>1, <1>2 DEF Whole, UsableTogether

(* A name asked for is no other question. *)
LEMMA LanguageNames ==
  \A name \in Languages : name \notin {"all names", "all definitions", "nothing"}
  BY NamesAssumption DEF Languages

(* What a call asks is settled by what was called and the name given. *)
LEMMA AskedByFields ==
  ASSUME NEW t \in Caller, call'[t].op = call[t].op, call'[t].name = call[t].name
  PROVE  AskedBy(t)' = AskedBy(t)
  BY DEF AskedBy

(* A caller nobody steps for keeps its part of the invariant. *)
LEMMA Others ==
  ASSUME NEW u \in Caller, CallInv(u), call'[u] = call[u], answer'[u] = answer[u],
         UNCHANGED installed,
         u \in readers' <=> u \in readers, u \in shutOut' <=> u \in shutOut
  PROVE  CallInv(u)'
<1>1. AskedBy(u)' = AskedBy(u)
  BY AskedByFields
<1> QED BY <1>1 DEF CallInv, LoadInv, QuestionInv, LockInv, Definition, Store!Reply, Store!Names

(* So do all the others when a step of t's changes the lock for t only. *)
LEMMA StepOf ==
  ASSUME RegistryInv, NEW t \in Caller,
         DOMAIN call' = Caller, DOMAIN answer' = Caller,
         \A u \in Caller \ {t} : call'[u] = call[u] /\ answer'[u] = answer[u],
         UNCHANGED installed, NeverWaitsOnItself',
         readers' \subseteq Caller, shutOut' \subseteq Caller,
         \A u \in Caller \ {t} : (u \in readers' <=> u \in readers)
                               /\ (u \in shutOut' <=> u \in shutOut),
         CallInv(t)'
  PROVE  RegistryInv'
<1>1. \A u \in Caller \ {t} : CallInv(u)'
  <2> SUFFICES ASSUME NEW u \in Caller \ {t} PROVE CallInv(u)'
    OBVIOUS
  <2>1. call'[u] = call[u] /\ answer'[u] = answer[u] /\ CallInv(u)
    BY DEF RegistryInv
  <2> QED BY <2>1, Others
<1> QED BY <1>1 DEF RegistryInv, InstalledUsable

-----------------------------------------------------------------------------
(* The invariant is inductive: one lemma for each place a call may be in. *)

(* Nobody calls anything and nothing is installed to begin with. *)
LEMMA InvInit == Init => RegistryInv
<1> SUFFICES ASSUME Init PROVE RegistryInv
  OBVIOUS
<1>1. NoCall.at = "idle"
  BY DEF NoCall
<1>2. \A t \in Caller : LoadInv(t) /\ LockInv(t)
  BY <1>1 DEF Init, LoadInv, LockInv
<1>3. \A t \in Caller : QuestionInv(t)
  BY <1>1 DEF Init, QuestionInv
<1>4. \A t \in Caller : DOMAIN call[t] = Fields
  BY DEF Init, Fields
<1> QED BY <1>2, <1>3, <1>4
        DEF Init, RegistryInv, CallInv, NeverWaitsOnItself, InstalledUsable, UsableTogether

(* An edit is noticed by the loads in progress and changes nothing else. *)
LEMMA InvEdit ==
  ASSUME RegistryInv, NEW f \in File, NEW v, Edit(f, v) PROVE RegistryInv'
<1>1. ASSUME NEW t \in Caller
      PROVE  /\ call'[t].at = call[t].at /\ call'[t].op = call[t].op
             /\ call'[t].name = call[t].name /\ call'[t].defs = call[t].defs
             /\ call'[t].reply = call[t].reply /\ DOMAIN call'[t] = Fields
  BY <1>1 DEF RegistryInv, CallInv, Edit, Fields, NoCall
<1>2. DOMAIN call' = Caller /\ UNCHANGED <<installed, readers, writer, shutOut, answer>>
  BY DEF Edit
<1>3. ASSUME NEW t \in Caller PROVE CallInv(t)'
  <2>1. AskedBy(t)' = AskedBy(t)
    BY <1>1, <1>3, AskedByFields
  <2>2. LoadInv(t)' /\ LockInv(t)'
    BY <1>1, <1>2, <1>3 DEF RegistryInv, CallInv, LoadInv, LockInv
  <2>3. Store!Reply(installed, AskedBy(t))' = Store!Reply(installed, AskedBy(t))
    BY <1>2, <2>1 DEF Store!Reply, Store!Names
  <2>4. QuestionInv(t)'
    BY <1>1, <1>2, <1>3, <2>3 DEF RegistryInv, CallInv, QuestionInv, Definition
  <2> QED BY <1>1, <1>3, <2>2, <2>4 DEF CallInv
<1> QED BY <1>2, <1>3 DEF RegistryInv, NeverWaitsOnItself, InstalledUsable

(* What a call looks like that has just begun. *)
LEMMA Begun ==
  ASSUME RegistryInv, NEW t \in Caller, NEW op, NEW name, NEW where, Begin(t, op, name, where)
  PROVE  /\ call'[t].at = where /\ call'[t].op = op /\ call'[t].name = name
         /\ DOMAIN call'[t] = Fields /\ answer'[t] = NoReply
         /\ t \notin readers \cup shutOut
<1>1. t \notin readers \cup shutOut
  BY DEF RegistryInv, CallInv, LockInv, Begin, At
<1> QED BY <1>1 DEF RegistryInv, Begin, NoCall, Fields

(* What a call that is to install definitions looks like. *)
LEMMA ToInstall ==
  ASSUME RegistryInv, NEW t \in Caller, NEW defs, BeginInstall(t, defs)
  PROVE  /\ call'[t].at = "locking" /\ call'[t].op = "Load" /\ call'[t].defs = defs
         /\ DOMAIN call'[t] = Fields
  BY DEF RegistryInv, BeginInstall, NoCall, Fields

(* A call that has returned. *)
LEMMA Returned ==
  ASSUME RegistryInv, NEW t \in Caller, NEW reply, Return(t, reply)
  PROVE  call'[t].at = "idle" /\ call'[t].op = "none" /\ DOMAIN call'[t] = Fields
  BY DEF RegistryInv, Return, NoCall, Fields

(* Calls begin. *)
LEMMA InvBegin ==
  ASSUME RegistryInv, NEW t \in Caller, NEW op, NEW name, NEW where, Begin(t, op, name, where),
         \/ op \in Loaders /\ where = "opening"
         \/ op = "Get" /\ name \in Languages /\ where = "asking"
         \/ op \in {"List", "Default"} /\ where = "asking"
  PROVE  RegistryInv'
<1>1. LoadInv(t)' /\ LockInv(t)'
  BY Begun DEF Begin, LoadInv, LockInv
<1>2. QuestionInv(t)'
  BY Begun DEF QuestionInv
<1>3. CallInv(t)'
  BY <1>1, <1>2, Begun DEF CallInv
<1> QED BY <1>3, StepOf DEF RegistryInv, Begin, NeverWaitsOnItself

(* A load of the definitions compiled in: they are whole, the package's tests *)
(* having read them.                                                          *)
LEMMA InvLoadEmbedded ==
  ASSUME RegistryInv, NEW t \in Caller, LoadEmbedded(t) PROVE RegistryInv'
<1>1. BeginInstall(t, Parsed(Embedded)) /\ Whole(Parsed(Embedded))
  BY EmbeddedAssumption, LoadedIsWhole DEF LoadEmbedded
<1>2. t \notin readers \cup shutOut /\ answer'[t] = NoReply
  BY DEF RegistryInv, CallInv, LockInv, LoadEmbedded, At
<1>3. LoadInv(t)' /\ LockInv(t)'
  BY <1>1, <1>2, ToInstall DEF LoadInv, LockInv, LoadEmbedded
<1>4. QuestionInv(t)'
  BY <1>1, ToInstall DEF QuestionInv
<1>5. CallInv(t)'
  BY <1>1, <1>3, <1>4, ToInstall DEF CallInv
<1> QED BY <1>5, StepOf DEF RegistryInv, LoadEmbedded, BeginInstall, NeverWaitsOnItself

(* A load lists its directory and reads it. *)
LEMMA InvRead ==
  ASSUME RegistryInv, NEW t \in Caller, ListDirectory(t) \/ ReadFile(t) PROVE RegistryInv'
<1>1. /\ call'[t].at = "reading" /\ call'[t].op = call[t].op /\ DOMAIN call'[t] = Fields
      /\ call[t].at \in {"opening", "reading"}
  <2>1. CASE ListDirectory(t)
    BY <2>1 DEF RegistryInv, CallInv, ListDirectory, At, Fields, NoCall
  <2>2. CASE ReadFile(t)
    BY <2>2 DEF RegistryInv, CallInv, ReadFile, At, Fields, NoCall
  <2> QED BY <2>1, <2>2
<1>2. /\ UNCHANGED <<installed, readers, shutOut, answer>> /\ DOMAIN call' = Caller
      /\ \A u \in Caller \ {t} : call'[u] = call[u]
  BY DEF RegistryInv, ListDirectory, ReadFile
<1>3. LoadInv(t)' /\ LockInv(t)'
  BY <1>1, <1>2 DEF RegistryInv, CallInv, LoadInv, LockInv
<1>4. QuestionInv(t)'
  BY <1>1 DEF QuestionInv
<1>5. CallInv(t)'
  BY <1>1, <1>3, <1>4 DEF CallInv
<1> QED BY <1>2, <1>5, StepOf DEF RegistryInv, NeverWaitsOnItself

(* A call returns that does not hold the lock. *)
LEMMA InvReturn ==
  ASSUME RegistryInv, NEW t \in Caller, NEW reply, Return(t, reply),
         call[t].at \in {"opening", "reading"}, UNCHANGED <<installed, readers, shutOut>>
  PROVE  RegistryInv'
<1>1. t \notin readers \cup shutOut
  BY DEF RegistryInv, CallInv, LockInv
<1>2. LoadInv(t)' /\ LockInv(t)'
  BY <1>1, Returned DEF LoadInv, LockInv
<1>3. QuestionInv(t)'
  BY Returned DEF QuestionInv
<1>4. CallInv(t)'
  BY <1>2, <1>3, Returned DEF CallInv
<1> QED BY <1>4, StepOf DEF RegistryInv, Return, NeverWaitsOnItself

(* What a load has read is adopted. *)
LEMMA InvAdopt ==
  ASSUME RegistryInv, NEW t \in Caller, Adopt(t) PROVE RegistryInv'
<1>1. call[t].at = "reading"
  BY DEF Adopt, Read, At
<1>2. CASE call[t].op # "Load"
  BY <1>1, <1>2, InvReturn DEF Adopt
<1>3. CASE call[t].op = "Load"
  <2>1. Whole(Parsed(call[t].data)) /\ BeginInstall(t, Parsed(call[t].data))
    BY <1>3, LoadedIsWhole DEF Adopt, Usable
  <2>2. t \notin readers \cup shutOut /\ answer[t] = NoReply
    BY <1>1 DEF RegistryInv, CallInv, LockInv, LoadInv
  <2>3. UNCHANGED <<installed, readers, shutOut, answer>>
    BY <1>3 DEF Adopt
  <2>4. LoadInv(t)' /\ LockInv(t)'
    BY <2>1, <2>2, <2>3, ToInstall DEF LoadInv, LockInv
  <2>5. QuestionInv(t)'
    BY <2>1, ToInstall DEF QuestionInv
  <2>6. CallInv(t)'
    BY <2>1, <2>4, <2>5, ToInstall DEF CallInv
  <2> QED BY <2>1, <2>3, <2>6, StepOf DEF RegistryInv, BeginInstall, NeverWaitsOnItself
<1> QED BY <1>2, <1>3

(* A question takes the read lock, or waits for it. *)
LEMMA InvRLock ==
  ASSUME RegistryInv, NEW t \in Caller, RLock(t) PROVE RegistryInv'
<1>1. /\ call[t].at = "asking" /\ call'[t].at = "holding" /\ call'[t].op = call[t].op
      /\ call'[t].name = call[t].name /\ DOMAIN call'[t] = Fields
  BY DEF RegistryInv, CallInv, RLock, Step, At, Fields, NoCall
<1>2. t \notin readers \cup shutOut
  BY <1>1 DEF RegistryInv, CallInv, LockInv
<1>3. LoadInv(t)' /\ LockInv(t)'
  BY <1>1 DEF LoadInv, LockInv
<1>4. QuestionInv(t)'
  BY <1>1 DEF RegistryInv, CallInv, QuestionInv
<1>5. CallInv(t)'
  BY <1>1, <1>3, <1>4 DEF CallInv
<1>6. /\ readers' \subseteq Caller /\ shutOut' \subseteq Caller /\ NeverWaitsOnItself'
      /\ \A u \in Caller \ {t} : (u \in readers' <=> u \in readers)
                               /\ (u \in shutOut' <=> u \in shutOut)
  BY <1>2 DEF RegistryInv, RLock, TakeReadLock, NeverWaitsOnItself
<1> QED BY <1>5, <1>6, StepOf DEF RegistryInv, RLock, Step

(* Who waits for the write lock gets it. *)
LEMMA InvLock ==
  ASSUME RegistryInv, NEW t \in Caller, Lock(t) PROVE RegistryInv'
<1>1. /\ call[t].at = "locking" /\ call'[t].at = "locked" /\ call'[t].op = call[t].op
      /\ call'[t].defs = call[t].defs /\ DOMAIN call'[t] = Fields
  BY DEF RegistryInv, CallInv, Lock, Step, At, Fields, NoCall
<1>2. t \notin readers \cup shutOut
  BY <1>1 DEF RegistryInv, CallInv, LockInv
<1>3. LoadInv(t)' /\ LockInv(t)'
  BY <1>1, <1>2 DEF RegistryInv, CallInv, LoadInv, LockInv, Lock
<1>4. QuestionInv(t)'
  BY <1>1 DEF QuestionInv
<1>5. CallInv(t)'
  BY <1>1, <1>3, <1>4 DEF CallInv
<1> QED BY <1>5, StepOf DEF RegistryInv, Lock, Step, NeverWaitsOnItself

(* Installing: nobody holds the lock, so nothing anybody knows of what is     *)
(* installed is lost; those who were shut out hold it from here on.           *)
LEMMA InvInstall ==
  ASSUME RegistryInv, NEW t \in Caller, Install(t) PROVE RegistryInv'
<1>1. /\ call[t].at = "locked" /\ readers = {} /\ readers' = shutOut /\ shutOut' = {}
      /\ Return(t, Loaded)
  BY DEF Install, At
<1>2. t \notin shutOut
  BY <1>1 DEF RegistryInv, CallInv, LockInv
<1>3. CallInv(t)'
  <2>1. LoadInv(t)' /\ LockInv(t)'
    BY <1>1, <1>2, Returned DEF LoadInv, LockInv
  <2>2. QuestionInv(t)'
    BY <1>1, Returned DEF QuestionInv
  <2> QED BY <1>1, <2>1, <2>2, Returned DEF CallInv
<1>4. ASSUME NEW u \in Caller \ {t} PROVE CallInv(u)'
  <2>1. /\ call'[u] = call[u] /\ answer'[u] = answer[u]
        /\ LoadInv(u) /\ QuestionInv(u) /\ LockInv(u) /\ DOMAIN call[u] = Fields
    BY <1>1, <1>4 DEF RegistryInv, CallInv, Return
  <2>2. LoadInv(u)' /\ LockInv(u)'
    BY <1>1, <2>1 DEF LoadInv, LockInv
  <2>3. QuestionInv(u)'
    BY <1>1, <2>1 DEF QuestionInv
  <2> QED BY <2>1, <2>2, <2>3 DEF CallInv
<1>5. InstalledUsable'
  BY <1>1 DEF RegistryInv, CallInv, LoadInv, Install, Whole, InstalledUsable
<1> QED BY <1>1, <1>3, <1>4, <1>5 DEF RegistryInv, Return, NeverWaitsOnItself

(* What the store would reply to a question is what the registry replies. *)
LEMMA RepliesAgree ==
  ASSUME NEW t \in Caller
  PROVE  /\ (call[t].op \in {"Get", "Miss"} /\ call[t].name \in Languages
               /\ Definition(call[t].name) # {})
              => Store!Reply(installed, AskedBy(t))
                   = Told("definitions", Definition(call[t].name), {})
         /\ (call[t].op \in {"Get", "Miss"} /\ call[t].name \in Languages
               /\ Definition(call[t].name) = {})
              => Store!Reply(installed, AskedBy(t)) = Told("missing", {}, DSLs(installed))
         /\ call[t].op = "List"
              => Store!Reply(installed, AskedBy(t)) = Told("names", {}, DSLs(installed))
         /\ call[t].op = "Default"
              => Store!Reply(installed, AskedBy(t)) = Told("definitions", installed, {})
<1>1. call[t].op \in {"Get", "Miss"} => AskedBy(t) = call[t].name
  BY DEF AskedBy
<1>2. call[t].op = "List" => AskedBy(t) = "all names"
  BY DEF AskedBy
<1>3. call[t].op = "Default" => AskedBy(t) = "all definitions"
  BY DEF AskedBy
<1>4. call[t].name \in Languages =>
         (call[t].name \in DSLs(installed) <=> Definition(call[t].name) # {})
  BY DEF DSLs, Definition
<1>5. ASSUME NEW q, q \notin {"all names", "all definitions"}
      PROVE  Store!Reply(installed, q) =
               IF q \in DSLs(installed)
               THEN Told("definitions", {d \in installed : d.dsl = q}, {})
               ELSE Told("missing", {}, DSLs(installed))
  BY <1>5 DEF Store!Reply, Store!Names, DSLs, Told
<1>6. Store!Reply(installed, "all names") = Told("names", {}, DSLs(installed))
  BY DEF Store!Reply, Store!Names, DSLs, Told
<1>7. Store!Reply(installed, "all definitions") = Told("definitions", installed, {})
  BY DEF Store!Reply, Store!Names, DSLs, Told
<1>8. ASSUME call[t].op \in {"Get", "Miss"}, call[t].name \in Languages
      PROVE  Store!Reply(installed, AskedBy(t)) =
               IF call[t].name \in DSLs(installed)
               THEN Told("definitions", Definition(call[t].name), {})
               ELSE Told("missing", {}, DSLs(installed))
  <2>1. call[t].name \notin {"all names", "all definitions"}
    BY <1>8, LanguageNames
  <2> QED BY <1>1, <1>5, <1>8, <2>1 DEF Definition
<1>9. call[t].op = "List" =>
         Store!Reply(installed, AskedBy(t)) = Told("names", {}, DSLs(installed))
  BY <1>2, <1>6
<1>10. call[t].op = "Default" =>
         Store!Reply(installed, AskedBy(t)) = Told("definitions", installed, {})
  BY <1>3, <1>7
<1> QED BY <1>4, <1>8, <1>9, <1>10

(* A question that is answered gives the lock up next. *)
LEMMA InvAnswer ==
  ASSUME RegistryInv, NEW t \in Caller, NEW reply, RUnlockWith(t, reply),
         call[t].at = "holding", t \in readers, reply = Store!Reply(installed, AskedBy(t))
  PROVE  RegistryInv'
<1>1. /\ call'[t].at = "leaving" /\ call'[t].op = call[t].op /\ call'[t].name = call[t].name
      /\ call'[t].reply = reply /\ DOMAIN call'[t] = Fields
  BY DEF RegistryInv, CallInv, RUnlockWith, Fields, NoCall
<1>2. UNCHANGED <<installed, readers, shutOut, answer>>
  BY DEF RUnlockWith
<1>3. Store!Reply(installed, AskedBy(t))' = reply
  <2>1. AskedBy(t)' = AskedBy(t)
    BY <1>1, AskedByFields
  <2> QED BY <1>2, <2>1 DEF Store!Reply, Store!Names
<1>4. LoadInv(t)' /\ LockInv(t)'
  BY <1>1 DEF LoadInv, LockInv
<1>5. QuestionInv(t)'
  BY <1>1, <1>2, <1>3 DEF RegistryInv, CallInv, QuestionInv
<1>6. CallInv(t)'
  BY <1>1, <1>4, <1>5 DEF CallInv
<1> QED BY <1>2, <1>6, StepOf DEF RegistryInv, RUnlockWith, NeverWaitsOnItself

(* A question is looked up. *)
LEMMA InvAsk ==
  ASSUME RegistryInv, NEW t \in Caller, Find(t) \/ NameAll(t) \/ CopyAll(t)
  PROVE  RegistryInv'
<1>1. QuestionInv(t)
  BY DEF RegistryInv, CallInv
<1>2. CASE Find(t)
  <2>1. /\ call[t].at = "holding" /\ t \in readers
        /\ RUnlockWith(t, Told("definitions", Definition(call[t].name), {}))
        /\ call[t].op = "Get" /\ Definition(call[t].name) # {}
    BY <1>2 DEF Find, Holding, At
  <2> QED BY <1>1, <2>1, RepliesAgree, InvAnswer DEF QuestionInv
<1>3. CASE NameAll(t) /\ call[t].op = "List"
  <2>1. /\ call[t].at = "holding" /\ t \in readers
        /\ RUnlockWith(t, Told("names", {}, DSLs(installed)))
    BY <1>3 DEF NameAll, Holding, At
  <2> QED BY <1>3, <2>1, RepliesAgree, InvAnswer
<1>4. CASE NameAll(t) /\ call[t].op # "List"
  <2>1. /\ call[t].at = "holding" /\ t \in readers /\ call[t].op = "Miss"
        /\ RUnlockWith(t, Told("missing", {}, DSLs(installed)))
    BY <1>4 DEF NameAll, Holding, At
  <2> QED BY <1>1, <2>1, RepliesAgree, InvAnswer DEF QuestionInv
<1>5. CASE CopyAll(t)
  <2>1. /\ call[t].at = "holding" /\ t \in readers /\ call[t].op = "Default"
        /\ RUnlockWith(t, Told("definitions", installed, {}))
    BY <1>5 DEF CopyAll, Holding, At
  <2> QED BY <2>1, RepliesAgree, InvAnswer
<1> QED BY <1>2, <1>3, <1>4, <1>5

(* A Get that finds nothing keeps the lock. *)
LEMMA InvMiss ==
  ASSUME RegistryInv, NEW t \in Caller, Miss(t) PROVE RegistryInv'
<1>1. /\ call[t].at = "holding" /\ call[t].op = "Get" /\ t \in readers
      /\ Definition(call[t].name) = {}
      /\ call'[t].at = "holding" /\ call'[t].op = "Miss" /\ call'[t].name = call[t].name
      /\ DOMAIN call'[t] = Fields
  BY DEF RegistryInv, CallInv, Miss, Holding, At, Fields, NoCall
<1>2. UNCHANGED <<installed, readers, shutOut, answer>>
  BY DEF Miss
<1>3. LoadInv(t)' /\ LockInv(t)'
  BY <1>1 DEF LoadInv, LockInv
<1>4. QuestionInv(t)'
  BY <1>1, <1>2 DEF RegistryInv, CallInv, QuestionInv, Definition
<1>5. CallInv(t)'
  BY <1>1, <1>3, <1>4 DEF CallInv
<1> QED BY <1>2, <1>5, StepOf DEF RegistryInv, Miss, NeverWaitsOnItself

(* The lock is given up. *)
LEMMA InvRUnlock ==
  ASSUME RegistryInv, NEW t \in Caller, RUnlock(t) PROVE RegistryInv'
<1>1. /\ call[t].at = "leaving" /\ Return(t, call[t].reply) /\ readers' = readers \ {t}
      /\ UNCHANGED <<installed, shutOut>>
  BY DEF RUnlock, At
<1>2. t \notin shutOut
  BY <1>1 DEF RegistryInv, CallInv, QuestionInv, NeverWaitsOnItself
<1>3. LoadInv(t)' /\ LockInv(t)'
  BY <1>1, <1>2, Returned DEF LoadInv, LockInv
<1>4. QuestionInv(t)'
  BY <1>1, Returned DEF QuestionInv
<1>5. CallInv(t)'
  BY <1>1, <1>3, <1>4, Returned DEF CallInv
<1> QED BY <1>1, <1>5, StepOf DEF RegistryInv, Return, NeverWaitsOnItself

(* Every step keeps the invariant: one case per action. *)
LEMMA InvNext == RegistryInv /\ [Next]_vars => RegistryInv'
<1> SUFFICES ASSUME RegistryInv, [Next]_vars PROVE RegistryInv'
  OBVIOUS
<1>1. CASE \E f \in File, v \in Version \cup {NoFile} : Edit(f, v)
  BY <1>1, InvEdit
<1>2. ASSUME NEW t \in Caller, \E op \in Loaders : BeginLoad(t, op) PROVE RegistryInv'
  BY <1>2, InvBegin DEF BeginLoad
<1>3. ASSUME NEW t \in Caller, \E name \in Spelling : BeginGet(t, name) PROVE RegistryInv'
  BY <1>3, InvBegin DEF BeginGet, Languages
<1>4. ASSUME NEW t \in Caller, BeginList(t) \/ BeginDefault(t) PROVE RegistryInv'
  BY <1>4, InvBegin DEF BeginList, BeginDefault
<1>5. ASSUME NEW t \in Caller, FailToRead(t) \/ Reject(t) PROVE RegistryInv'
  BY <1>5, InvReturn DEF FailToRead, Reject, Read, At
<1>6. CASE UNCHANGED vars
  <2>1. UNCHANGED <<installed, readers, shutOut, call, answer>>
    BY <1>6 DEF vars
  <2>2. \A t \in Caller : CallInv(t)'
    BY <2>1, Others DEF RegistryInv
  <2> QED BY <2>1, <2>2 DEF RegistryInv, NeverWaitsOnItself, InstalledUsable
<1> QED BY <1>1, <1>2, <1>3, <1>4, <1>5, <1>6, InvLoadEmbedded, InvRead, InvAdopt, InvLock,
           InvInstall, InvRLock, InvAsk, InvMiss, InvRUnlock DEF Next, Proceed

(* So it holds throughout. *)
LEMMA Invariant == Spec => []RegistryInv
  BY InvInit, InvNext, PTL DEF Spec

(* No goroutine ever waits for the read lock with the read lock in hand       *)
(* (registry.go Get, which lists what is there without asking for it again).  *)
THEOREM NobodyWaitsOnItself == Spec => []NeverWaitsOnItself
<1>1. RegistryInv => NeverWaitsOnItself
  BY DEF RegistryInv
<1> QED BY <1>1, Invariant, PTL

(* Whatever files are edited, and whenever, what is installed can be used     *)
(* together (registry.go Load, which installs what loadFiles accepted whole). *)
THEOREM WhatIsInstalledIsUsable == Spec => []InstalledUsable
<1>1. RegistryInv => InstalledUsable
  BY DEF RegistryInv
<1> QED BY <1>1, Invariant, PTL

-----------------------------------------------------------------------------
(* The registry implements the store. *)

(* What the store is told, of a caller's answer. *)
Heard(t) == IF answer[t].says \in {"loaded", "error"} THEN NoReply ELSE answer[t]

(* The initial states are the store's. *)
LEMMA StoreRefinesInit == Init => Store!StoreInit
<1> SUFFICES ASSUME Init PROVE Store!StoreInit
  OBVIOUS
<1>1. ASSUME NEW t \in Caller PROVE AskedBy(t) = "nothing" /\ Heard(t) = NoReply
  BY <1>1 DEF Init, AskedBy, NoCall, Heard, NoReply
<1> QED BY <1>1 DEF Init, Store!StoreInit, Store!NoReply, NoReply, Heard

(* A step that leaves what is asked and told alone is a stutter. *)
LEMMA StoreStutters ==
  ASSUME UNCHANGED installed, \A t \in Caller : AskedBy(t)' = AskedBy(t) /\ Heard(t)' = Heard(t)
  PROVE  UNCHANGED Store!storeVars
  BY DEF Store!storeVars, Heard

(* A caller's new question, or its call's end, is one of the store's Asks. *)
LEMMA StoreAsks ==
  ASSUME NEW t \in Caller, NEW q \in Languages \cup {"all names", "all definitions", "nothing"},
         UNCHANGED installed, AskedBy(t)' = q, Heard(t)' = NoReply,
         \A u \in Caller \ {t} : AskedBy(u)' = AskedBy(u) /\ Heard(u)' = Heard(u)
  PROVE  Store!StoreNext
<1>1. Store!Ask(t, q)
  BY DEF Store!Ask, Store!NoReply, NoReply, Heard
<1> QED BY <1>1 DEF Store!StoreNext, Store!Questions, Languages

(* A step of one caller's leaves what the others ask and heard alone. *)
LEMMA OthersHeard ==
  ASSUME NEW u \in Caller, call'[u] = call[u], answer'[u] = answer[u]
  PROVE  AskedBy(u)' = AskedBy(u) /\ Heard(u)' = Heard(u)
  BY AskedByFields DEF Heard

(* What the new call of a caller asks. *)
LEMMA NewQuestion ==
  ASSUME RegistryInv, NEW t \in Caller, NEW op, NEW name, NEW where, Begin(t, op, name, where)
  PROVE  /\ op \in Loaders => AskedBy(t)' = "nothing"
         /\ op = "Get" => AskedBy(t)' = name
         /\ op = "List" => AskedBy(t)' = "all names"
         /\ op = "Default" => AskedBy(t)' = "all definitions"
         /\ Heard(t)' = NoReply /\ UNCHANGED installed
         /\ \A u \in Caller \ {t} : AskedBy(u)' = AskedBy(u) /\ Heard(u)' = Heard(u)
<1>1. call'[t].op = op /\ call'[t].name = name /\ answer'[t] = NoReply
  BY Begun
<1>2. \A u \in Caller \ {t} : call'[u] = call[u] /\ answer'[u] = answer[u]
  BY DEF RegistryInv, Begin
<1>3. /\ op = "Get" => AskedBy(t)' = name
      /\ op = "List" => AskedBy(t)' = "all names"
      /\ op = "Default" => AskedBy(t)' = "all definitions"
  BY <1>1 DEF AskedBy
<1>4. op \in Loaders => AskedBy(t)' = "nothing"
  BY <1>1 DEF AskedBy, Loaders
<1>5. Heard(t)' = NoReply
  BY <1>1 DEF Heard, NoReply
<1> QED BY <1>2, <1>3, <1>4, <1>5, OthersHeard DEF Begin

(* A call that begins asks the store its question, or nothing new. *)
LEMMA StoreBegin ==
  ASSUME RegistryInv, NEW t \in Caller,
         \/ \E op \in Loaders : BeginLoad(t, op)
         \/ \E name \in Spelling : BeginGet(t, name)
         \/ BeginList(t) \/ BeginDefault(t)
  PROVE  Store!StoreNext
<1>1. CASE \E op \in Loaders : BeginLoad(t, op)
  BY <1>1, NewQuestion, StoreAsks DEF BeginLoad
<1>2. CASE \E name \in Spelling : BeginGet(t, name)
  BY <1>2, NewQuestion, StoreAsks DEF BeginGet, Languages
<1>3. CASE BeginList(t)
  BY <1>3, NewQuestion, StoreAsks DEF BeginList
<1>4. CASE BeginDefault(t)
  BY <1>4, NewQuestion, StoreAsks DEF BeginDefault
<1> QED BY <1>1, <1>2, <1>3, <1>4

(* A load of the definitions compiled in begins without asking anything. *)
LEMMA StoreLoadEmbedded ==
  ASSUME RegistryInv, NEW t \in Caller, LoadEmbedded(t) PROVE Store!StoreNext
<1>1. call'[t].op = "Load"
  BY ToInstall DEF LoadEmbedded
<1>2. answer'[t] = NoReply /\ UNCHANGED installed
  BY DEF RegistryInv, LoadEmbedded
<1>3. \A u \in Caller \ {t} : call'[u] = call[u] /\ answer'[u] = answer[u]
  BY DEF RegistryInv, LoadEmbedded, BeginInstall
<1>4. AskedBy(t)' = "nothing"
  BY <1>1 DEF AskedBy
<1>5. Heard(t)' = NoReply
  BY <1>2 DEF Heard, NoReply
<1> QED BY <1>2, <1>3, <1>4, <1>5, OthersHeard, StoreAsks

(* A load that returns without installing anything. *)
LEMMA StoreReturn ==
  ASSUME RegistryInv, NEW t \in Caller, NEW reply \in {Loaded, LoadError}, Return(t, reply),
         UNCHANGED installed
  PROVE  Store!StoreNext
<1>1. AskedBy(t)' = "nothing"
  BY Returned DEF AskedBy
<1>2. Heard(t)' = NoReply
  BY DEF RegistryInv, Return, Heard, Loaded, LoadError, Told
<1>3. \A u \in Caller \ {t} : call'[u] = call[u] /\ answer'[u] = answer[u]
  BY DEF RegistryInv, Return
<1> QED BY <1>1, <1>2, <1>3, OthersHeard, StoreAsks

(* Installing is the store's replacement of what is in force, and nobody is   *)
(* told anything by it.                                                       *)
LEMMA StoreInstall ==
  ASSUME RegistryInv, NEW t \in Caller, Install(t) PROVE Store!StoreNext
<1>1. call[t].op = "Load" /\ answer[t] = NoReply /\ Whole(call[t].defs)
  BY DEF RegistryInv, CallInv, LoadInv, Install, At
<1>2. Return(t, Loaded) /\ installed' = call[t].defs
  BY DEF Install
<1>3. AskedBy(t) = "nothing" /\ AskedBy(t)' = "nothing"
  BY <1>1, <1>2, Returned DEF AskedBy
<1>4. Heard(t) = NoReply /\ Heard(t)' = NoReply
  BY <1>1, <1>2 DEF RegistryInv, Return, Heard, Loaded, Told, NoReply
<1>5. \A u \in Caller \ {t} : call'[u] = call[u] /\ answer'[u] = answer[u]
  BY <1>2 DEF RegistryInv, Return
<1>6. \A u \in Caller : AskedBy(u)' = AskedBy(u) /\ Heard(u)' = Heard(u)
  BY <1>3, <1>4, <1>5, OthersHeard
<1>7. Store!Replace
  BY <1>1, <1>2, <1>6 DEF Store!Replace, Whole, UsableTogether, Heard
<1> QED BY <1>7 DEF Store!StoreNext

(* Giving the lock up, the caller has its answer from the set in force. *)
LEMMA StoreRUnlock ==
  ASSUME RegistryInv, NEW t \in Caller, RUnlock(t) PROVE Store!StoreNext
<1>1. /\ call[t].at = "leaving" /\ Return(t, call[t].reply) /\ UNCHANGED installed
      /\ QuestionInv(t)
  BY DEF RegistryInv, CallInv, RUnlock, At
<1>2. call[t].reply = Store!Reply(installed, AskedBy(t))
  BY <1>1 DEF QuestionInv
<1>3. AskedBy(t) # "nothing"
  <2>1. CASE call[t].op \in {"List", "Default"}
    BY <2>1 DEF AskedBy
  <2>2. CASE call[t].op \in {"Get", "Miss"} /\ call[t].name \in Languages
    BY <2>2, LanguageNames DEF AskedBy
  <2> QED BY <1>1, <2>1, <2>2 DEF QuestionInv
<1>4. Heard(t)' = Store!Reply(installed, AskedBy(t))
  <2>1. call[t].reply.says \in {"definitions", "names", "missing"}
    BY <1>1, <1>2, RepliesAgree DEF QuestionInv, Told
  <2>2. answer'[t] = call[t].reply
    BY <1>1 DEF RegistryInv, Return
  <2> QED BY <1>2, <2>1, <2>2 DEF Heard
<1>5. AskedBy(t)' = "nothing"
  BY <1>1, Returned DEF AskedBy
<1>6. \A u \in Caller \ {t} : AskedBy(u)' = AskedBy(u) /\ Heard(u)' = Heard(u)
  BY <1>1, OthersHeard DEF RegistryInv, Return
<1>7. Store!Answer(t)
  BY <1>1, <1>3, <1>4, <1>5, <1>6 DEF Store!Answer, Heard
<1> QED BY <1>7 DEF Store!StoreNext

(* Every other step is taken behind the store's back. *)
LEMMA StoreUnmoved ==
  ASSUME RegistryInv,
         \/ \E f \in File, v \in Version \cup {NoFile} : Edit(f, v)
         \/ \E t \in Caller :
               \/ ListDirectory(t) \/ ReadFile(t) \/ (Adopt(t) /\ call[t].op = "Load")
               \/ Lock(t) \/ RLock(t) \/ Find(t) \/ Miss(t) \/ NameAll(t) \/ CopyAll(t)
  PROVE  UNCHANGED Store!storeVars
<1>1. UNCHANGED <<installed, answer>>
  BY DEF Edit, ListDirectory, ReadFile, Adopt, Lock, RLock, Find, Miss, NameAll, CopyAll,
         RUnlockWith
<1>2. CASE \E f \in File, v \in Version \cup {NoFile} : Edit(f, v)
  <2>1. \A u \in Caller : call'[u].op = call[u].op /\ call'[u].name = call[u].name
    BY <1>2 DEF RegistryInv, CallInv, Edit, Fields, NoCall
  <2> QED BY <1>1, <2>1, AskedByFields, StoreStutters DEF Heard
<1>3. ASSUME NEW t \in Caller,
             \/ ListDirectory(t) \/ ReadFile(t)
             \/ Lock(t) \/ RLock(t) \/ Find(t) \/ NameAll(t) \/ CopyAll(t)
      PROVE  UNCHANGED Store!storeVars
  <2>1. \A u \in Caller : call'[u].op = call[u].op /\ call'[u].name = call[u].name
    <3>1. DOMAIN call = Caller /\ DOMAIN call[t] = Fields
      BY DEF RegistryInv, CallInv
    <3>2. CASE ListDirectory(t)
      BY <3>1, <3>2 DEF ListDirectory, Fields, NoCall
    <3>3. CASE ReadFile(t)
      BY <3>1, <3>3 DEF ReadFile, Fields, NoCall
    <3>4. CASE Lock(t) \/ RLock(t)
      BY <3>1, <3>4 DEF Lock, RLock, Step, Fields, NoCall
    <3>5. CASE Find(t) \/ NameAll(t) \/ CopyAll(t)
      BY <3>1, <3>5 DEF Find, NameAll, CopyAll, RUnlockWith, Fields, NoCall
    <3> QED BY <1>3, <3>2, <3>3, <3>4, <3>5
  <2> QED BY <1>1, <2>1, AskedByFields, StoreStutters DEF Heard
<1>4. ASSUME NEW t \in Caller, Miss(t) PROVE UNCHANGED Store!storeVars
  <2>1. /\ call[t].op = "Get" /\ call'[t].op = "Miss" /\ call'[t].name = call[t].name
        /\ \A u \in Caller \ {t} : call'[u] = call[u]
    BY <1>4 DEF RegistryInv, CallInv, Miss, Holding, Fields, NoCall
  <2>2. AskedBy(t)' = AskedBy(t)
    BY <2>1 DEF AskedBy
  <2> QED BY <1>1, <2>1, <2>2, AskedByFields, StoreStutters DEF Heard
<1>5. ASSUME NEW t \in Caller, Adopt(t), call[t].op = "Load" PROVE UNCHANGED Store!storeVars
  <2>1. /\ call'[t].op = "Load" /\ \A u \in Caller \ {t} : call'[u] = call[u]
    BY <1>5, ToInstall DEF RegistryInv, Adopt, BeginInstall
  <2>2. AskedBy(t)' = AskedBy(t)
    BY <1>5, <2>1 DEF AskedBy
  <2> QED BY <1>1, <2>1, <2>2, AskedByFields, StoreStutters DEF Heard
<1> QED BY <1>2, <1>3, <1>4, <1>5

(* Every step is one of the store's or a stutter. *)
LEMMA StoreRefinesNext == RegistryInv /\ [Next]_vars => [Store!StoreNext]_(Store!storeVars)
<1> SUFFICES ASSUME RegistryInv, [Next]_vars PROVE [Store!StoreNext]_(Store!storeVars)
  OBVIOUS
<1>1. ASSUME NEW t \in Caller, FailToRead(t) \/ Reject(t) \/ (Adopt(t) /\ call[t].op # "Load")
      PROVE  Store!StoreNext
  BY <1>1, StoreReturn DEF FailToRead, Reject, Adopt
<1>2. CASE UNCHANGED vars
  <2>1. \A u \in Caller : AskedBy(u)' = AskedBy(u) /\ Heard(u)' = Heard(u)
    BY <1>2, OthersHeard DEF vars
  <2> QED BY <1>2, <2>1, StoreStutters DEF vars
<1>3. CASE \E f \in File, v \in Version \cup {NoFile} : Edit(f, v)
  BY <1>3, StoreUnmoved
<1>4. ASSUME NEW t \in Caller,
             \/ ListDirectory(t) \/ ReadFile(t) \/ (Adopt(t) /\ call[t].op = "Load")
             \/ Lock(t) \/ RLock(t) \/ Find(t) \/ Miss(t) \/ NameAll(t) \/ CopyAll(t)
      PROVE  UNCHANGED Store!storeVars
  BY <1>4, StoreUnmoved
<1>5. ASSUME NEW t \in Caller,
             \/ \E op \in Loaders : BeginLoad(t, op)
             \/ \E name \in Spelling : BeginGet(t, name)
             \/ BeginList(t) \/ BeginDefault(t) \/ LoadEmbedded(t)
             \/ Install(t) \/ RUnlock(t)
      PROVE  Store!StoreNext
  BY <1>5, StoreBegin, StoreLoadEmbedded, StoreInstall, StoreRUnlock
<1>6. ASSUME NEW t \in Caller, Proceed(t) \/ Lock(t)
      PROVE  Store!StoreNext \/ UNCHANGED Store!storeVars
  BY <1>1, <1>4, <1>5, <1>6 DEF Proceed
<1> QED BY <1>2, <1>3, <1>5, <1>6 DEF Next

(* The registry implements the store: definitions are replaced as one set     *)
(* that holds each language once, and every Get, List and Default is answered *)
(* from one set in force while it was asked, a Get's list of what there is    *)
(* included (registry.go Load, Get, List; set.go Default).                    *)
THEOREM RegistryImplementsStore == Spec => ImplementsStore
  BY StoreRefinesInit, StoreRefinesNext, Invariant, PTL
     DEF Spec, ImplementsStore, Store!StoreSpec

-----------------------------------------------------------------------------
(* The directory, as a load reads it. *)

(* Of any numbers there is a least. *)
LEMMA LeastOf ==
  ASSUME NEW S, S \subseteq Nat, S # {}
  PROVE  \E m \in S : \A k \in S : m <= k
<1> DEFINE R == OpToRel(<, Nat)
<1>1. IsWellFoundedOn(R, Nat)
  BY NatLessThanWellFounded
<1>2. PICK m \in S : \A k \in S : <<k, m>> \notin R
  <2> HIDE DEF R
  <2> QED BY <1>1, WFMin
<1>3. \A k \in S : ~(k < m)
  BY <1>2 DEF OpToRel
<1> QED BY <1>3

(* The next file to read is one of those left. *)
LEMMA NextFile ==
  ASSUME NEW S, S \subseteq File, S # {}
  PROVE  Min(S) \in S
<1>1. S \subseteq Nat
  BY FilesAssumption
<1>2. \E m \in S : \A k \in S : m <= k
  BY <1>1, LeastOf
<1> QED BY <1>2 DEF Min

(* What has been read of a directory nobody has edited since. *)
ReadSoFar(t) ==
    /\ DOMAIN call[t].data \cup call[t].left = Present
    /\ DOMAIN call[t].data \cap call[t].left = {}
    /\ call[t].data = [f \in DOMAIN call[t].data |-> disk[f]]

ReadInv(t) ==
    /\ call[t].at = "opening" => call[t].left = {} /\ call[t].data = << >>
    /\ (call[t].at = "reading" /\ ~call[t].edited) => ReadSoFar(t)
DirectoryInv ==
    /\ edits \in Nat /\ DOMAIN call = Caller
    /\ \A t \in Caller : DOMAIN call[t] = Fields /\ ReadInv(t)

(* A call that is left alone reads what it has read. *)
LEMMA OthersRead ==
  ASSUME NEW u \in Caller, DOMAIN call[u] = Fields, ReadInv(u), call'[u] = call[u], disk' = disk
  PROVE  (DOMAIN call[u] = Fields /\ ReadInv(u))'
BY DEF ReadInv, ReadSoFar, Present

(* A step of one call keeps what is known, if that call's part is kept. *)
LEMMA ReadStepOf ==
  ASSUME DirectoryInv, NEW t \in Caller, DOMAIN call' = Caller, UNCHANGED <<disk, edits>>,
         \A u \in Caller \ {t} : call'[u] = call[u],
         DOMAIN call'[t] = Fields, ReadInv(t)'
  PROVE  DirectoryInv'
BY OthersRead DEF DirectoryInv

(* A call that is not reading has nothing to keep. *)
LEMMA NotReading ==
  ASSUME DirectoryInv, NEW t \in Caller, NEW c, call' = [call EXCEPT ![t] = c],
         DOMAIN c = Fields, UNCHANGED <<disk, edits>>,
         c.at = "opening" => c.left = {} /\ c.data = << >>, c.at # "reading"
  PROVE  DirectoryInv'
<1>1. call'[t] = c /\ ReadInv(t)'
  BY DEF DirectoryInv, ReadInv
<1> QED BY <1>1, ReadStepOf DEF DirectoryInv

(* An edit tells whoever is reading. *)
LEMMA EditKeepsReads ==
  ASSUME DirectoryInv, NEW f \in File, NEW v, Edit(f, v)
  PROVE  DirectoryInv'
<1>1. edits' \in Nat /\ DOMAIN call' = Caller
  BY DEF DirectoryInv, Edit
<1>2. ASSUME NEW t \in Caller PROVE DOMAIN call'[t] = Fields /\ ReadInv(t)'
  <2>1. call'[t] = [call[t] EXCEPT !.edited = @ \/ Reading(t)] /\ DOMAIN call[t] = Fields
    BY DEF DirectoryInv, Edit
  <2>2. /\ DOMAIN call'[t] = Fields /\ call'[t].at = call[t].at
        /\ call'[t].left = call[t].left /\ call'[t].data = call[t].data
        /\ call[t].at = "reading" => call'[t].edited
    BY <2>1 DEF Fields, NoCall, Reading, At
  <2>3. ReadInv(t)
    BY DEF DirectoryInv
  <2>4. ReadInv(t)'
    BY <2>2, <2>3 DEF ReadInv
  <2> QED BY <2>2, <2>4
<1> QED BY <1>1, <1>2 DEF DirectoryInv

(* When the directory has been listed everything is left to read. *)
LEMMA ListKeepsReads ==
  ASSUME DirectoryInv, NEW t \in Caller, ListDirectory(t)
  PROVE  DirectoryInv'
<1>1. /\ DOMAIN call[t] = Fields /\ ReadInv(t) /\ call[t].at = "opening"
      /\ call' = [call EXCEPT ![t].left = Present, ![t].at = "reading"]
      /\ UNCHANGED <<disk, edits>>
  BY DEF DirectoryInv, ListDirectory, At
<1>2. /\ DOMAIN call'[t] = Fields /\ call'[t].left = Present /\ call'[t].data = << >>
      /\ call'[t].at = "reading"
      /\ \A u \in Caller \ {t} : call'[u] = call[u]
      /\ DOMAIN call' = Caller
  BY <1>1 DEF DirectoryInv, ReadInv, Fields, NoCall
<1>3. Present' = Present
  BY <1>1 DEF Present
<1>4. << >> = [f \in {} |-> disk[f]] /\ DOMAIN << >> = {}
  OBVIOUS
<1>5. ReadSoFar(t)'
  BY <1>1, <1>2, <1>3, <1>4 DEF ReadSoFar
<1> QED BY <1>1, <1>2, <1>5, ReadStepOf DEF ReadInv

(* A file read is no longer left. *)
LEMMA ReadKeepsReads ==
  ASSUME DirectoryInv, NEW t \in Caller, ReadFile(t)
  PROVE  DirectoryInv'
<1> DEFINE left == call[t].left
           data == call[t].data
           f == Min(left)
<1>1. /\ DOMAIN call[t] = Fields /\ ReadInv(t) /\ call[t].at = "reading" /\ left # {}
      /\ call' = [call EXCEPT ![t].left = left \ {f}, ![t].data = With(data, f)]
      /\ UNCHANGED <<disk, edits>>
  BY DEF DirectoryInv, ReadFile, At
<1>2. /\ DOMAIN call'[t] = Fields /\ call'[t].left = left \ {f} /\ call'[t].data = With(data, f)
      /\ call'[t].at = "reading" /\ call'[t].edited = call[t].edited
      /\ \A u \in Caller \ {t} : call'[u] = call[u]
      /\ DOMAIN call' = Caller
  BY <1>1 DEF DirectoryInv, Fields, NoCall
<1>3. Present' = Present /\ Present \subseteq File
  BY <1>1 DEF Present
<1>4. ASSUME ~call[t].edited PROVE ReadSoFar(t)'
  <2>1. ReadSoFar(t)
    BY <1>1, <1>4 DEF ReadInv
  <2>2. left \subseteq File
    BY <2>1, <1>3 DEF ReadSoFar
  <2>3. f \in left
    BY <1>1, <2>2, NextFile
  <2> HIDE DEF f, left, data
  <2>4. /\ DOMAIN With(data, f) = DOMAIN data \cup {f}
        /\ \A g \in DOMAIN With(data, f) : With(data, f)[g] = IF g = f THEN disk[f] ELSE data[g]
    BY DEF With
  <2>5. \A g \in DOMAIN data : data[g] = disk[g]
    BY <2>1 DEF ReadSoFar, data
  <2>6. With(data, f) = [g \in DOMAIN With(data, f) |-> disk[g]]
    BY <2>4, <2>5 DEF With
  <2>7. /\ DOMAIN With(data, f) \cup (left \ {f}) = Present
        /\ DOMAIN With(data, f) \cap (left \ {f}) = {}
    BY <2>1, <2>3, <2>4 DEF ReadSoFar, left, data
  <2> QED BY <1>1, <1>2, <1>3, <2>6, <2>7 DEF ReadSoFar
<1>5. ReadInv(t)'
  BY <1>2, <1>4 DEF ReadInv
<1> QED BY <1>1, <1>2, <1>5, ReadStepOf

(* At first nobody reads. *)
LEMMA DirectoryInit == Init => DirectoryInv
<1>1. NoCall.at = "idle" /\ DOMAIN NoCall = Fields
  BY DEF NoCall, Fields
<1> QED BY <1>1 DEF Init, DirectoryInv, ReadInv

(* What is read of the directory is kept, in every step. *)
LEMMA DirectorySteps ==
  DirectoryInv /\ [Next]_vars => DirectoryInv'
<1> SUFFICES ASSUME DirectoryInv, [Next]_vars PROVE DirectoryInv'
  OBVIOUS
<1>1. CASE UNCHANGED vars
  BY <1>1 DEF vars, DirectoryInv, ReadInv, ReadSoFar, Present
<1>2. ASSUME NEW f \in File, NEW v \in Version \cup {NoFile}, Edit(f, v) PROVE DirectoryInv'
  BY <1>2, EditKeepsReads
<1>3. ASSUME NEW t \in Caller, NEW op, NEW name, NEW where, Begin(t, op, name, where),
             where \in {"opening", "asking"}
      PROVE DirectoryInv'
  <2> DEFINE c == [NoCall EXCEPT !.op = op, !.name = name, !.at = where]
  <2>1. DOMAIN c = Fields /\ c.at = where /\ c.left = {} /\ c.data = << >>
    BY DEF Fields, NoCall
  <2>2. call' = [call EXCEPT ![t] = c] /\ UNCHANGED <<disk, edits>>
    BY <1>3 DEF Begin
  <2> HIDE DEF c
  <2> QED BY <1>3, <2>1, <2>2, NotReading
<1>4. ASSUME NEW t \in Caller, NEW defs, BeginInstall(t, defs), UNCHANGED <<disk, edits>>
      PROVE DirectoryInv'
  <2> DEFINE c == [NoCall EXCEPT !.op = "Load", !.at = "locking", !.defs = defs]
  <2>1. DOMAIN c = Fields /\ c.at = "locking"
    BY DEF Fields, NoCall
  <2>2. call' = [call EXCEPT ![t] = c]
    BY <1>4 DEF BeginInstall
  <2> HIDE DEF c
  <2> QED BY <1>4, <2>1, <2>2, NotReading
<1>5. ASSUME NEW t \in Caller, NEW reply, Return(t, reply), UNCHANGED <<disk, edits>>
      PROVE DirectoryInv'
  <2>1. DOMAIN NoCall = Fields /\ NoCall.at = "idle"
    BY DEF Fields, NoCall
  <2> QED BY <1>5, <2>1, NotReading DEF Return
<1>6. ASSUME NEW t \in Caller, NEW c, call' = [call EXCEPT ![t] = c], UNCHANGED <<disk, edits>>,
             DOMAIN c = DOMAIN call[t], c.at \in {"locked", "holding", "leaving"}
      PROVE DirectoryInv'
  BY <1>6, NotReading DEF DirectoryInv
<1>7. ASSUME NEW t \in Caller, RLock(t) \/ Lock(t) PROVE DirectoryInv'
  <2>1. PICK where \in {"locked", "holding"} : Step(t, where)
    BY <1>7 DEF RLock, Lock
  <2>2. call' = [call EXCEPT ![t] = [call[t] EXCEPT !.at = where]] /\ UNCHANGED <<disk, edits>>
    BY <1>7, <2>1 DEF Step, RLock, Lock
  <2>3. "at" \in DOMAIN call[t]
    BY DEF DirectoryInv, Fields, NoCall
  <2> QED BY <2>1, <2>2, <2>3, <1>6
<1>8. ASSUME NEW t \in Caller, Find(t) \/ NameAll(t) \/ CopyAll(t) PROVE DirectoryInv'
  <2>1. PICK reply : RUnlockWith(t, reply)
    BY <1>8 DEF Find, NameAll, CopyAll
  <2>2. /\ call' = [call EXCEPT ![t] = [call[t] EXCEPT !.reply = reply, !.at = "leaving"]]
        /\ UNCHANGED <<disk, edits>>
    BY <2>1 DEF RUnlockWith
  <2>3. "at" \in DOMAIN call[t] /\ "reply" \in DOMAIN call[t]
    BY DEF DirectoryInv, Fields, NoCall
  <2> QED BY <2>2, <2>3, <1>6
<1>9. ASSUME NEW t \in Caller, Miss(t) PROVE DirectoryInv'
  <2>1. /\ call' = [call EXCEPT ![t] = [call[t] EXCEPT !.op = "Miss"]]
        /\ UNCHANGED <<disk, edits>> /\ call[t].at = "holding"
    BY <1>9 DEF Miss, Holding, At
  <2>2. DOMAIN call[t] = Fields
    BY DEF DirectoryInv
  <2>3. "at" \in DOMAIN call[t] /\ "op" \in DOMAIN call[t]
    BY <2>2 DEF Fields, NoCall
  <2> QED BY <2>1, <2>3, <1>6
<1>10. ASSUME NEW t \in Caller, Adopt(t) PROVE DirectoryInv'
  BY <1>10, <1>4, <1>5 DEF Adopt
<1>11. ASSUME NEW t \in Caller, LoadEmbedded(t) PROVE DirectoryInv'
  BY <1>11, <1>4 DEF LoadEmbedded
<1>12. ASSUME NEW t \in Caller, FailToRead(t) \/ Reject(t) \/ Install(t) \/ RUnlock(t)
       PROVE DirectoryInv'
  BY <1>12, <1>5 DEF FailToRead, Reject, Install, RUnlock
<1>13. ASSUME NEW t \in Caller,
              \/ \E op \in Loaders : BeginLoad(t, op)
              \/ \E name \in Spelling : BeginGet(t, name)
              \/ BeginList(t) \/ BeginDefault(t)
       PROVE DirectoryInv'
  BY <1>13, <1>3 DEF BeginLoad, BeginGet, BeginList, BeginDefault
<1> QED
  BY <1>1, <1>2, <1>7, <1>8, <1>9, <1>10, <1>11, <1>12, <1>13, ListKeepsReads, ReadKeepsReads
     DEF Next, Proceed

(* A step that ends the reading of a directory nobody edited loads what is    *)
(* there.                                                                     *)
LEMMA EndOfReading ==
  ASSUME DirectoryInv, DirectoryInv', RegistryInv, Next, NEW t \in Caller,
         Read(t), ~call[t].edited, call'[t] # call[t], edits' = edits
  PROVE  LoadsTheDirectory(t)
<1>1. ReadSoFar(t) /\ call[t].left = {} /\ call[t].at = "reading"
  BY DEF DirectoryInv, ReadInv, Read, At
<1>2. call[t].data = Contents /\ DOMAIN call[t].data = Present
  BY <1>1 DEF ReadSoFar, Contents
<1>3. Parsed(call[t].data) # {} <=> Present # {}
  BY <1>2 DEF Parsed
<1>4. DOMAIN call = Caller /\ DOMAIN answer = Caller
  BY DEF RegistryInv
<1>5. ASSUME NEW u \in Caller, u # t,
             \/ \E op \in Loaders : BeginLoad(u, op)
             \/ \E name \in Spelling : BeginGet(u, name)
             \/ LoadEmbedded(u) \/ BeginList(u) \/ BeginDefault(u)
             \/ Proceed(u) \/ Lock(u)
      PROVE  call'[t] = call[t]
  <2>1. \A c, w : Return(u, c) => call'[t] = call[t]
    BY <1>4, <1>5 DEF Return
  <2>2. \A w : Step(u, w) => call'[t] = call[t]
    BY <1>4, <1>5 DEF Step
  <2>3. \A w : BeginInstall(u, w) => call'[t] = call[t]
    BY <1>4, <1>5 DEF BeginInstall
  <2>4. \A w : RUnlockWith(u, w) => call'[t] = call[t]
    BY <1>4, <1>5 DEF RUnlockWith
  <2>5. \A op, name, where : Begin(u, op, name, where) => call'[t] = call[t]
    BY <1>4, <1>5 DEF Begin
  <2>6. ListDirectory(u) \/ ReadFile(u) \/ Miss(u) => call'[t] = call[t]
    BY <1>4, <1>5 DEF ListDirectory, ReadFile, Miss
  <2>7. CASE \/ \E op \in Loaders : BeginLoad(u, op)
             \/ \E name \in Spelling : BeginGet(u, name)
             \/ LoadEmbedded(u) \/ BeginList(u) \/ BeginDefault(u) \/ Lock(u)
    BY <2>7, <2>2, <2>3, <2>5 DEF BeginLoad, BeginGet, LoadEmbedded, BeginList, BeginDefault, Lock
  <2>8. CASE FailToRead(u) \/ Adopt(u) \/ Reject(u) \/ Install(u) \/ RLock(u) \/ RUnlock(u)
    BY <2>8, <2>1, <2>2, <2>3 DEF FailToRead, Adopt, Reject, Install, RLock, RUnlock
  <2>9. CASE Find(u) \/ NameAll(u) \/ CopyAll(u)
    BY <2>9, <2>4 DEF Find, NameAll, CopyAll
  <2> QED BY <1>5, <2>6, <2>7, <2>8, <2>9 DEF Proceed
<1>6. \A f \in File, v \in Version \cup {NoFile} : ~Edit(f, v)
  BY DEF Edit, DirectoryInv
<1>7. Adopt(t) \/ Reject(t)
  <2>1. PICK u \in Caller :
             \/ \E op \in Loaders : BeginLoad(u, op)
             \/ \E name \in Spelling : BeginGet(u, name)
             \/ LoadEmbedded(u) \/ BeginList(u) \/ BeginDefault(u)
             \/ Proceed(u) \/ Lock(u)
    BY <1>6 DEF Next
  <2>2. u = t
    BY <2>1, <1>5
  <2>3. \A w : w # "reading" => ~At(t, w)
    BY <1>1 DEF At
  <2>4. ~(\E op, name, where : Begin(t, op, name, where))
    BY <2>3 DEF Begin
  <2> QED
    BY <1>1, <2>1, <2>2, <2>3, <2>4
       DEF BeginLoad, BeginGet, BeginList, BeginDefault, LoadEmbedded, Lock, Proceed, ListDirectory,
           ReadFile, FailToRead, Install, RLock, Find, Miss, NameAll, CopyAll, RUnlock, Holding
<1>8. CASE Adopt(t)
  <2>1. Present # {} /\ Loads(Contents)
    BY <1>2, <1>3, <1>8 DEF Adopt, Usable
  <2>2. CASE call[t].op = "Load"
    <3>1. BeginInstall(t, Parsed(Contents))
      BY <1>2, <1>8, <2>2 DEF Adopt
    <3> QED BY <2>1, <2>2, <3>1, ToInstall DEF LoadsTheDirectory
  <2>3. CASE call[t].op # "Load"
    BY <1>4, <1>8, <2>1, <2>3 DEF Adopt, Return, LoadsTheDirectory
  <2> QED BY <2>2, <2>3
<1>9. CASE Reject(t)
  BY <1>2, <1>3, <1>4, <1>9 DEF Reject, Usable, Return, LoadsTheDirectory
<1> QED BY <1>7, <1>8, <1>9

(* A directory nobody edits while it is read is loaded as it stands, whole or   *)
(* not at all (registry.go LoadDir, which reads one file after the other). *)
THEOREM UneditedDirectoriesLoadWhole == Spec => UneditedReadIsDisk
<1>1. Spec => []DirectoryInv
  BY DirectoryInit, DirectorySteps, PTL DEF Spec
<1>2. ASSUME DirectoryInv, DirectoryInv', RegistryInv, [Next]_vars
      PROVE  [\A t \in Caller :
                (Read(t) /\ ~call[t].edited /\ call'[t] # call[t] /\ edits' = edits)
                   => LoadsTheDirectory(t)]_vars
  BY <1>2, EndOfReading
<1> QED BY <1>1, <1>2, Invariant, PTL DEF Spec, UneditedReadIsDisk

=============================================================================
