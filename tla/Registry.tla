------------------------------ MODULE Registry ------------------------------
(***************************************************************************)
(* The registry of language definitions: goroutines that load it from a     *)
(* directory somebody is editing, and goroutines that ask it for            *)
(* definitions, behind one RWMutex.                                         *)
(*                                                                         *)
(* A directory is listed once and its files are then read one by one, so an *)
(* edit may come between any two reads.  The mutex is Go's: a goroutine     *)
(* that asks for the write lock shuts out later readers and waits for those *)
(* that hold it, and a reader that holds it and asks again is shut out too. *)
(***************************************************************************)
EXTENDS LanguageDefinition, FiniteSetsExt, Functions

CONSTANTS
    Caller,     \* goroutines using the package
    File,       \* definition files, as numbers in the order their paths sort
    Version,    \* what an editor may leave in a file
    OnDisk,     \* what the directory holds at first
    Embedded,   \* the definitions compiled in, in the order of their names
    NoFile,     \* stands for the content of a file that is not there
    MaxEdits    \* bound: edits of the directory

ASSUME FilesAssumption == File \subseteq Nat /\ IsFiniteSet(File)
ASSUME NoFileAssumption == NoFile \notin Version
ASSUME DiskAssumption == OnDisk \in [File -> Version \cup {NoFile}]
ASSUME EditsAssumption == MaxEdits \in Nat

(* What a caller may ask besides a language's definition is no language's     *)
(* name.                                                                      *)
ASSUME NamesAssumption ==
    \A x \in Spelling : Canonical[x] \notin {"all names", "all definitions", "nothing"}

(* go:embed is checked by the package's tests. *)
ASSUME EmbeddedAssumption == Parsed(Embedded) # {} /\ Loads(Embedded)

VARIABLES
    disk,       \* what each file holds
    edits,      \* how often it was edited
    installed,  \* loaded.defs, as the set of its definitions
    readers,    \* callers holding loaded's read lock
    writer,     \* the caller that holds its write lock or has asked for it, if any
    shutOut,    \* callers waiting for the read lock
    call,       \* each caller's call in progress
    answer      \* what each caller was last told

vars == <<disk, edits, installed, readers, writer, shutOut, call, answer>>

NoCaller == "nobody"
ASSUME CallersAssumption == NoCaller \notin Caller

(* What the package answers: a definition, the sorted names, an error holding *)
(* the names, an error of the loader.                                         *)
NoReply == [says |-> "nothing", defs |-> {}, names |-> {}]
Told(says, defs, names) == [says |-> says, defs |-> defs, names |-> names]

(* A call: what was called, the name it was given, where it has come to; for  *)
(* a load the files still to read, what was in each of those read, whether    *)
(* somebody edited the directory since the call began, and what was loaded;   *)
(* for a question the reply so far.                                           *)
NoCall == [op |-> "none", name |-> "", at |-> "idle", left |-> {}, data |-> << >>,
           edited |-> FALSE, defs |-> {}, reply |-> NoReply]

Loaders == {"Load", "LoadDir"}

At(t, where) == call[t].at = where
Reading(t) == At(t, "opening") \/ At(t, "reading")

Step(t, where) == call' = [call EXCEPT ![t].at = where]

(* The call returns. *)
Return(t, reply) ==
    /\ call' = [call EXCEPT ![t] = NoCall]
    /\ answer' = [answer EXCEPT ![t] = reply]

(* What a loader says, without the definitions it also hands over. *)
Loaded == Told("loaded", {}, {})
LoadError == Told("error", {}, {})

-----------------------------------------------------------------------------
(* Somebody edits the directory. *)

Edit(f, v) ==
    /\ edits < MaxEdits /\ disk[f] # v
    /\ disk' = [disk EXCEPT ![f] = v]
    /\ edits' = edits + 1
    /\ call' = [t \in Caller |-> [call[t] EXCEPT !.edited = @ \/ Reading(t)]]
    /\ UNCHANGED <<installed, readers, writer, shutOut, answer>>

-----------------------------------------------------------------------------
(* Loading. *)

Begin(t, op, name, where) ==
    /\ At(t, "idle")
    /\ call' = [call EXCEPT ![t] = [NoCall EXCEPT !.op = op, !.name = name, !.at = where]]
    /\ answer' = [answer EXCEPT ![t] = NoReply]
    /\ UNCHANGED <<disk, edits, installed, readers, writer, shutOut>>

BeginLoad(t, op) == Begin(t, op, "", "opening")

BeginInstall(t, defs) ==
    call' = [call EXCEPT ![t] =
               [NoCall EXCEPT !.op = "Load", !.at = "locking", !.defs = defs]]

(* Load with no directory: LoadEmbedded. *)
LoadEmbedded(t) ==
    /\ At(t, "idle")
    /\ BeginInstall(t, Parsed(Embedded))
    /\ answer' = [answer EXCEPT ![t] = NoReply]
    /\ UNCHANGED <<disk, edits, installed, readers, writer, shutOut>>

Present == {f \in File : disk[f] # NoFile}

ListDirectory(t) ==
    /\ At(t, "opening")
    /\ call' = [call EXCEPT ![t].left = Present, ![t].at = "reading"]
    /\ UNCHANGED <<disk, edits, installed, readers, writer, shutOut, answer>>

(* What has been read, with one more file. *)
With(data, f) ==
    [g \in DOMAIN data \cup {f} |-> IF g = f THEN disk[f] ELSE data[g]]

(* Files are read in the order of their paths. *)
ReadFile(t) ==
    LET f == Min(call[t].left) IN
    /\ At(t, "reading") /\ call[t].left # {} /\ disk[f] # NoFile
    /\ call' = [call EXCEPT ![t].left = @ \ {f}, ![t].data = With(@, f)]
    /\ UNCHANGED <<disk, edits, installed, readers, writer, shutOut, answer>>

(* The file has gone since the directory was listed, or the read fails for a  *)
(* reason of the file system's own, as listing the directory may.             *)
FailToRead(t) ==
    /\ At(t, "opening") \/ (At(t, "reading") /\ call[t].left # {})
    /\ Return(t, LoadError)
    /\ UNCHANGED <<disk, edits, installed, readers, writer, shutOut>>

Read(t) == At(t, "reading") /\ call[t].left = {}
Usable(t) == Parsed(call[t].data) # {} /\ Loads(call[t].data)

(* Mutant: what loads is adopted, and a file that does not is passed over.    *)
AdoptWhatLoads(t) ==
    LET good == RestrictValues(call[t].data, WellFormed) IN
    /\ Read(t) /\ Loads(good) /\ Parsed(good) # {}
    /\ IF call[t].op = "Load"
       THEN BeginInstall(t, Parsed(good)) /\ UNCHANGED answer
       ELSE Return(t, Loaded)
    /\ UNCHANGED <<disk, edits, installed, readers, writer, shutOut>>

(* loadFiles succeeds.  Load goes on to install what LoadDir and Open return. *)
Adopt(t) ==
    /\ Read(t) /\ Usable(t)
    /\ IF call[t].op = "Load"
       THEN BeginInstall(t, Parsed(call[t].data)) /\ UNCHANGED answer
       ELSE Return(t, Loaded)
    /\ UNCHANGED <<disk, edits, installed, readers, writer, shutOut>>

Reject(t) ==
    /\ Read(t) /\ ~Usable(t)
    /\ Return(t, LoadError)
    /\ UNCHANGED <<disk, edits, installed, readers, writer, shutOut>>

(* loaded.Lock: one writer at a time, and from here on no new reader. *)
Lock(t) ==
    /\ At(t, "locking") /\ writer = NoCaller
    /\ writer' = t /\ Step(t, "locked")
    /\ UNCHANGED <<disk, edits, installed, readers, shutOut, answer>>

(* The readers are out: the set is replaced, and Unlock hands the lock to     *)
(* those that were shut out.                                                  *)
Install(t) ==
    /\ At(t, "locked") /\ readers = {}
    /\ installed' = call[t].defs /\ writer' = NoCaller
    /\ readers' = shutOut /\ shutOut' = {}
    /\ Return(t, Loaded)
    /\ UNCHANGED <<disk, edits>>

-----------------------------------------------------------------------------
(* Asking. *)

BeginGet(t, name) == Begin(t, "Get", Canonical[name], "asking")
BeginList(t) == Begin(t, "List", "", "asking")
BeginDefault(t) == Begin(t, "Default", "", "asking")

(* loaded.RLock. *)
TakeReadLock(t) ==
    IF writer = NoCaller
    THEN readers' = readers \cup {t} /\ UNCHANGED shutOut
    ELSE shutOut' = shutOut \cup {t} /\ UNCHANGED readers

RLock(t) ==
    /\ At(t, "asking") /\ TakeReadLock(t)
    /\ Step(t, "holding")
    /\ UNCHANGED <<disk, edits, installed, writer, answer>>

Holding(t, op) == At(t, "holding") /\ call[t].op = op /\ t \in readers

DSLs(defs) == {d.dsl : d \in defs}
Definition(name) == {d \in installed : d.dsl = name}

RUnlockWith(t, reply) ==
    /\ call' = [call EXCEPT ![t].reply = reply, ![t].at = "leaving"]
    /\ UNCHANGED <<disk, edits, installed, readers, writer, shutOut, answer>>

Find(t) ==
    /\ Holding(t, "Get") /\ Definition(call[t].name) # {}
    /\ RUnlockWith(t, Told("definitions", Definition(call[t].name), {}))

(* Mutants: the miss gives the lock up and lists the names as anyone would... *)
MissAndList(t) ==
    /\ Holding(t, "Get") /\ Definition(call[t].name) = {}
    /\ readers' = readers \ {t}
    /\ call' = [call EXCEPT ![t].op = "Miss", ![t].at = "asking"]
    /\ UNCHANGED <<disk, edits, installed, writer, shutOut, answer>>

(* ...or lists them with the lock in hand. *)
MissAndLockAgain(t) ==
    /\ Holding(t, "Get") /\ Definition(call[t].name) = {}
    /\ TakeReadLock(t)
    /\ call' = [call EXCEPT ![t].op = "Miss"]
    /\ UNCHANGED <<disk, edits, installed, writer, answer>>

(* Get goes on to name what there is, under the lock it holds. *)
Miss(t) ==
    /\ Holding(t, "Get") /\ Definition(call[t].name) = {}
    /\ call' = [call EXCEPT ![t].op = "Miss"]
    /\ UNCHANGED <<disk, edits, installed, readers, writer, shutOut, answer>>

(* listLocked. *)
NameAll(t) ==
    \/ /\ Holding(t, "List")
       /\ RUnlockWith(t, Told("names", {}, DSLs(installed)))
    \/ /\ Holding(t, "Miss")
       /\ RUnlockWith(t, Told("missing", {}, DSLs(installed)))

CopyAll(t) ==
    /\ Holding(t, "Default")
    /\ RUnlockWith(t, Told("definitions", installed, {}))

RUnlock(t) ==
    /\ At(t, "leaving")
    /\ readers' = readers \ {t}
    /\ Return(t, call[t].reply)
    /\ UNCHANGED <<disk, edits, installed, writer, shutOut>>

-----------------------------------------------------------------------------
Init ==
    /\ disk = OnDisk /\ edits = 0 /\ installed = {}
    /\ readers = {} /\ writer = NoCaller /\ shutOut = {}
    /\ call = [t \in Caller |-> NoCall]
    /\ answer = [t \in Caller |-> NoReply]

Proceed(t) ==
    \/ ListDirectory(t) \/ ReadFile(t) \/ FailToRead(t) \/ Adopt(t) \/ Reject(t)
    \/ Install(t)
    \/ RLock(t) \/ Find(t) \/ Miss(t) \/ NameAll(t) \/ CopyAll(t) \/ RUnlock(t)

Next ==
    \/ \E f \in File, v \in Version \cup {NoFile} : Edit(f, v)
    \/ \E t \in Caller :
          \/ \E op \in Loaders : BeginLoad(t, op)
          \/ \E name \in Spelling : BeginGet(t, name)
          \/ LoadEmbedded(t) \/ BeginList(t) \/ BeginDefault(t)
          \/ Proceed(t) \/ Lock(t)

Spec == Init /\ [][Next]_vars
-----------------------------------------------------------------------------
(* No goroutine waits for the read lock with the read lock in hand: a writer  *)
(* asking in between would leave both waiting for ever (registry.go Get,      *)
(* which names what is loaded through listLocked and not through List).       *)
NeverWaitsOnItself == readers \cap shutOut = {}

(* Definitions that can be used together: every language is there once, each  *)
(* structural operator a language claims it can spell and the reverse, and    *)
(* what only aggregates over time is never offered across groups.             *)
UsableTogether(defs) ==
    /\ \A d, e \in defs : d.dsl = e.dsl => d = e
    /\ \A d \in defs :
          /\ d.dsl # ""
          /\ \A op \in StructuralOps :
                LET spellings == StructuralOperatorForIROp(d, op)
                IN  /\ SupportsStructuralOp(d, op) <=> spellings # {}
                    /\ "" \notin spellings
          /\ \A op \in TemporalOnly : FunctionForAggregation(d, op, "GROUP") = {}

(* Whatever is installed can be used together, under the names it is asked    *)
(* for by (decode.go parseDefinition, registry.go loadFiles, with the lookups *)
(* the validator and the emitters make).                                      *)
InstalledUsable == UsableTogether(installed)

(* A directory nobody edits while it is read is loaded as it stands, whole or *)
(* not at all; only an edit under way can mix two versions of it              *)
(* (registry.go LoadDir, which reads one file after the other).               *)
Contents == [f \in Present |-> disk[f]]

LoadsTheDirectory(t) ==
    IF Present # {} /\ Loads(Contents)
    THEN IF call[t].op = "Load" THEN call'[t].defs = Parsed(Contents) ELSE answer'[t] = Loaded
    ELSE answer'[t] = LoadError

UneditedReadIsDisk ==
    [][\A t \in Caller :
          (Read(t) /\ ~call[t].edited /\ call'[t] # call[t] /\ edits' = edits)
             => LoadsTheDirectory(t)]_vars

(* The registry implements the store: definitions are replaced as one set,    *)
(* and a Get that misses, its list of what there is included, a List and a    *)
(* Default are each answered from one set (registry.go Load, Get, List;       *)
(* set.go Default).                                                           *)
AskedBy(t) ==
    CASE call[t].op \in {"Get", "Miss"} -> call[t].name
      [] call[t].op = "List" -> "all names"
      [] call[t].op = "Default" -> "all definitions"
      [] OTHER -> "nothing"

Store ==
    INSTANCE DefinitionStore
      WITH Language <- {Canonical[name] : name \in Spelling},
           inForce <- installed,
           asked <- [t \in Caller |-> AskedBy(t)],
           told <- [t \in Caller |-> IF answer[t].says \in {"loaded", "error"}
                                     THEN NoReply ELSE answer[t]]

ImplementsStore == Store!StoreSpec
=============================================================================
