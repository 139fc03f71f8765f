------------------------- MODULE TaskActions_proofs -------------------------
(***************************************************************************)
(* The theorems about TaskActions, for every set of Tasks, handlers and    *)
(* offered requests and every value of the bounds: its typing, that a      *)
(* Task's effects are applied at most once, and that no step loses an      *)
(* effect, undoes a completion that is not the latest, or records a        *)
(* decision that is not true of the Task.                                  *)
(***************************************************************************)
EXTENDS TaskActions, TLAPS

-----------------------------------------------------------------------------
(* Facts about the store's operators *)

(* Appending a well-formed entry keeps the log well formed, and leaves     *)
(* what is already in it where it was.                                     *)
LEMMA AppendKeeps ==
  ASSUME log \in Seq(LogEntry), NEW e \in LogEntry, Record(e)
  PROVE  /\ log' \in Seq(LogEntry)
         /\ Len(log') = Len(log) + 1
         /\ \A i \in 1..Len(log) : log'[i] = log[i]
         /\ log'[Len(log')] = e
  BY DEF Record

(* A recorded completion stays recorded, whether or not the log grows.     *)
LEMMA CompletionsOnlyGrow ==
  ASSUME log \in Seq(LogEntry), NEW t,
         \/ UNCHANGED log
         \/ \E e \in LogEntry : Record(e)
  PROVE  Completions(t) \subseteq Completions(t)'
  <1>1. CASE UNCHANGED log
    BY <1>1 DEF Completions
  <1>2. CASE \E e \in LogEntry : Record(e)
    <2>1. PICK e \in LogEntry : Record(e)
      BY <1>2
    <2>2. /\ Len(log') = Len(log) + 1
          /\ \A i \in 1..Len(log) : log'[i] = log[i]
      BY <2>1, AppendKeeps
    <2>3. Len(log) \in Nat
      OBVIOUS
    <2> QED
      BY <2>2, <2>3 DEF Completions
  <1> QED
    BY <1>1, <1>2

(* The decision of a request is a log entry. *)
LEMMA DecisionIsEntry ==
  ASSUME NEW r \in Request
  PROVE  DecisionOf(r) \in LogEntry
  <1>1. EventOf(r.op) \in Events
    BY DEF EventOf, Events, CompletionEvents, OutcomeEvents
  <1>2. r.on \in Tasks /\ r.undo \in Nat
    BY DEF Request
  <1> QED
    BY <1>1, <1>2 DEF DecisionOf, Entry, LogEntry

(* An admitted row is typed, its version is one up, and no other row moves. *)
LEMMA AdmitEffect ==
  ASSUME task \in [Tasks -> TaskRow],
         NEW t \in Tasks, NEW row \in TaskRow, NEW status \in Statuses,
         NEW static \in BOOLEAN, Admit(t, row, status, static)
  PROVE  /\ task' \in [Tasks -> TaskRow]
         /\ task[t].version = row.version
         /\ task'[t].version = row.version + 1
         /\ task'[t].status = status
         /\ \A u \in Tasks \ {t} : task'[u] = task[u]
  BY DEF Admit, Fresh, TaskRow

(* The resting values of a handler's registers are typed. *)
LEMMA RestingValues ==
  /\ NoRow \in TaskRow
  /\ NoUniverse \in Universe
  /\ NoRequest \in Request
  BY ConstantsOK DEF NoRow, TaskRow, Statuses, NoUniverse, NoEffects, Universe,
     NoRequest, Request, Ops

(* Answering a request keeps the registers typed. *)
LEMMA RespondTyped ==
  ASSUME TypeOK, NEW h \in Handlers, Respond(h)
  PROVE  /\ pc' \in [Handlers -> Stages]
         /\ req' \in [Handlers -> Request]
         /\ seen' \in [Handlers -> TaskRow]
         /\ base' \in [Handlers -> Universe]
         /\ lock' \in Handlers \union {Free}
  BY RestingValues DEF TypeOK, Respond, Stages

-----------------------------------------------------------------------------
(* Typing *)

(* The store and the handlers start well typed. *)
LEMMA TypeInit == Init => TypeOK
  <1> SUFFICES ASSUME Init PROVE TypeOK
    OBVIOUS
  <1>1. \A t \in Tasks : InitialRows(t) \subseteq TaskRow
    <2> SUFFICES ASSUME NEW t \in Tasks, NEW row \in InitialRows(t)
                 PROVE  row \in TaskRow
      OBVIOUS
    <2>1. CASE t \in Occurrences
      BY <2>1, RestingValues DEF InitialRows
    <2>2. CASE t \notin Occurrences
      <3>1. \E static \in BOOLEAN :
              row = [status |-> "active", version |-> 1, static |-> static]
        BY <2>2, Zenon DEF InitialRows
      <3> QED
        BY <3>1 DEF TaskRow, Statuses
    <2> QED
      BY <2>1, <2>2
  <1>2. task \in [Tasks -> TaskRow]
    BY <1>1 DEF Init
  <1>3. log \in Seq(LogEntry)
    BY DEF Init
  <1> QED
    BY <1>2, <1>3, RestingValues, ConstantsOK DEF Init, TypeOK, StoreTypeOK, Stages

(* What a handler's step writes is typed. *)
LEMMA TypeStep ==
  ASSUME TypeOK, NEW h \in Handlers, Step(h)
  PROVE  TypeOK'
  <1> USE DEF StoreTypeOK
  <1>0. /\ req[h] \in Request /\ req[h].on \in Tasks /\ req[h].op \in Ops
        /\ seen[h] \in TaskRow /\ task[req[h].on] \in TaskRow
    BY DEF TypeOK, Request
  <1>1. CASE Accept(h)
    BY <1>0, <1>1 DEF TypeOK, Accept, Goto, Stages
  <1>2. CASE Refuse(h)
    BY <1>2, RespondTyped DEF TypeOK, Refuse
  <1>3. CASE Transition(h)
    <2>1. Target(req[h].op) \in Statuses /\ seen[h].static \in BOOLEAN
      BY <1>0 DEF Target, Statuses, TaskRow
    <2>2. task' \in [Tasks -> TaskRow]
      BY <1>0, <1>3, <2>1, AdmitEffect DEF TypeOK, Transition
    <2> QED
      BY <1>0, <1>3, <2>2 DEF TypeOK, Transition, Goto, Stages
  <1>4. CASE Check(h)
    BY <1>4 DEF TypeOK, Check, Goto, Stages
  <1>5. CASE ReadUniverse(h)
    BY <1>5 DEF TypeOK, ReadUniverse, Goto, Stages
  <1>6. CASE SeedUniverse(h)
    BY <1>6 DEF TypeOK, SeedUniverse, Universe, NoEffects
  <1>7. CASE RejectEffects(h)
    BY <1>7 DEF TypeOK, RejectEffects, Goto, Stages
  <1>8. CASE PersistEffects(h)
    <2>1. universe' \in Universe
      BY <1>0, <1>8 DEF TypeOK, PersistEffects, Universe
    <2> QED
      BY <1>8, <2>1 DEF TypeOK, PersistEffects, Goto, Stages
  <1>9. CASE AppendDecision(h)
    <2>1. DecisionOf(req[h]) \in LogEntry
      BY <1>0, DecisionIsEntry
    <2>2. log' \in Seq(LogEntry)
      BY <1>9, <2>1, AppendKeeps DEF TypeOK, AppendDecision
    <2> QED
      BY <1>9, <2>2, RespondTyped DEF TypeOK, AppendDecision
  <1>10. CASE Conflict(h)
    BY <1>10, RespondTyped DEF TypeOK, Conflict
  <1> QED
    BY <1>1, <1>2, <1>3, <1>4, <1>5, <1>6, <1>7, <1>8, <1>9, <1>10 DEF Step

(* An outside writer admits a typed row, logs an outcome or edits the      *)
(* UniverseState; it touches nothing else.                                 *)
LEMMA OutsideOccurrence ==
  ASSUME TypeOK, NEW t \in Tasks, WriteOccurrence(t)
  PROVE  \E status \in {"active", "failed", "superseded"}, static \in BOOLEAN :
           /\ Admit(t, task[t], status, static)
           /\ task[t].status # "completed"
  BY DEF WriteOccurrence, MaterializerMoves

(* PATCH keeps the status, and admits a row with a Boolean placement. *)
LEMMA OutsideEdit ==
  ASSUME TypeOK, NEW t \in Tasks, EditTask(t)
  PROVE  \E static \in BOOLEAN : Admit(t, task[t], task[t].status, static)
  BY DEF EditTask

(* What the materializer logs is a log entry. *)
LEMMA OutcomeIsEntry ==
  ASSUME NEW t \in Tasks, LogOutcome(t)
  PROVE  \E e \in LogEntry : Record(e)
  BY DEF LogOutcome, Entry, LogEntry, Events

(* A write of an outside writer keeps everything well typed. *)
LEMMA TypeOutside ==
  ASSUME TypeOK, Outside
  PROVE  TypeOK'
  <1> USE DEF StoreTypeOK
  <1>0. \A t \in Tasks : task[t] \in TaskRow /\ task[t].status \in Statuses
                          /\ task[t].static \in BOOLEAN
    BY DEF TypeOK, TaskRow
  <1>1. CASE EditUniverse
    <2>1. universe.version \in Nat /\ universe.applied \in [Tasks -> Nat]
      BY DEF TypeOK, Universe
    <2>2. PICK next \in IF universe.version = 0 THEN {1, 2}
                      ELSE {universe.version + 1} :
            universe' = [universe EXCEPT !.version = next]
      BY <1>1 DEF EditUniverse
    <2>3. next \in Nat
      BY <2>1, <2>2
    <2>4. universe' \in Universe
      BY <2>1, <2>2, <2>3 DEF TypeOK, Universe
    <2> QED
      BY <1>1, <2>4 DEF TypeOK, EditUniverse
  <1>2. ASSUME NEW t \in Tasks, EditTask(t) PROVE TypeOK'
    <2>1. task' \in [Tasks -> TaskRow]
      BY <1>0, <1>2, OutsideEdit, AdmitEffect DEF TypeOK
    <2> QED
      BY <1>2, <2>1 DEF TypeOK, EditTask, handlerVars
  <1>3. ASSUME NEW t \in Tasks, ReplaceTask(t) PROVE TypeOK'
    <2>1. task' \in [Tasks -> TaskRow]
      BY <1>0, <1>3, AdmitEffect DEF TypeOK, ReplaceTask, Statuses
    <2> QED
      BY <1>3, <2>1 DEF TypeOK, ReplaceTask, handlerVars
  <1>4. ASSUME NEW t \in Occurrences, WriteOccurrence(t) PROVE TypeOK'
    <2>1. t \in Tasks
      BY OccurrencesAreTasks
    <2>2. task' \in [Tasks -> TaskRow]
      BY <1>0, <1>4, <2>1, OutsideOccurrence, AdmitEffect DEF TypeOK, Statuses
    <2> QED
      BY <1>4, <2>2 DEF TypeOK, WriteOccurrence, handlerVars
  <1>5. ASSUME NEW t \in Occurrences, LogOutcome(t) PROVE TypeOK'
    <2>1. log' \in Seq(LogEntry)
      BY <1>5, OccurrencesAreTasks, OutcomeIsEntry, AppendKeeps DEF TypeOK
    <2> QED
      BY <1>5, <2>1 DEF TypeOK, LogOutcome, handlerVars
  <1> QED
    BY <1>1, <1>2, <1>3, <1>4, <1>5 DEF Outside

(* Every step keeps everything well typed. *)
LEMMA TypeNext == TypeOK /\ [Next]_vars => TypeOK'
  <1> SUFFICES ASSUME TypeOK, [Next]_vars PROVE TypeOK'
    OBVIOUS
  <1> USE DEF StoreTypeOK
  <1>1. ASSUME NEW h \in Handlers, Submit(h) PROVE TypeOK'
    <2>1. PICK r \in [op : Offered, on : Tasks, undo : 0..Len(log)] :
            req' = [req EXCEPT ![h] = r]
      BY <1>1 DEF Submit
    <2>2. Offered \subseteq Ops
      BY ConstantsOK DEF Ops, Completing, Reopening, Legacy
    <2>3. 0..Len(log) \subseteq Nat
      BY DEF TypeOK
    <2>4. r \in Request
      BY <2>2, <2>3 DEF Request
    <2> QED
      BY <1>1, <2>1, <2>4 DEF TypeOK, Submit, Stages
  <1>2. ASSUME NEW h \in Handlers, Step(h) PROVE TypeOK'
    BY <1>2, TypeStep
  <1>3. ASSUME NEW h \in Handlers, Fault(h) PROVE TypeOK'
    BY <1>3, RespondTyped DEF TypeOK, Fault
  <1>4. CASE Restart
    BY <1>4, RestingValues DEF TypeOK, Restart, Stages
  <1>5. CASE Outside
    BY <1>5, TypeOutside
  <1>6. CASE UNCHANGED vars
    BY <1>6 DEF TypeOK, vars
  <1> QED
    BY <1>1, <1>2, <1>3, <1>4, <1>5, <1>6 DEF Next

(* Every reachable state is well typed: the store's rows and log, the      *)
(* UniverseState and the registers of every handler (log_service.rs).      *)
THEOREM TypeCorrect == Spec => []TypeOK
  BY TypeInit, TypeNext, PTL DEF Spec

-----------------------------------------------------------------------------
(* Effects at most once *)

(* task_action_lock: two handlers past their first read are one handler.   *)
LEMMA OneHandlerBusy ==
  ASSUME LockExcludes, NEW g \in Handlers, NEW h \in Handlers, Busy(g), Busy(h)
  PROVE  g = h
  BY DEF LockExcludes

(* Nothing is in flight and nothing applied at the start. *)
LEMMA EffectsInit == Init => EffectsInv
  <1> SUFFICES ASSUME Init PROVE EffectsInv
    OBVIOUS
  <1>1. TypeOK
    BY TypeInit
  <1>2. \A h \in Handlers : pc[h] = "idle"
    BY DEF Init
  <1>3. \A t \in Tasks : universe.applied[t] = 0
    BY DEF Init, NoUniverse, NoEffects
  <1> QED
    BY <1>1, <1>2, <1>3 DEF EffectsInv, LockExcludes, Busy, SeenIsCurrent,
       BaseIsCurrent, EffectsAreAccounted, InFlight, InFlightOf, EffectsAtMostOnce

(* A handler that answers leaves the rest as it was; the log may have      *)
(* grown by its decision.                                                  *)
LEMMA AnsweringKeeps ==
  ASSUME EffectsInv, TypeOK', NEW h \in Handlers, Respond(h),
         UNCHANGED <<task, universe>>,
         \/ UNCHANGED log
         \/ \E e \in LogEntry : Record(e)
  PROVE  EffectsInv'
  <1>1. \A t \in Tasks : Completions(t) \subseteq Completions(t)'
    BY CompletionsOnlyGrow DEF EffectsInv, TypeOK, StoreTypeOK
  <1>2. /\ pc'[h] = "idle"
        /\ \A g \in Handlers \ {h} :
             pc'[g] = pc[g] /\ req'[g] = req[g] /\ seen'[g] = seen[g] /\ base'[g] = base[g]
    BY DEF EffectsInv, TypeOK, Respond
  <1>3. LockExcludes'
    BY <1>2 DEF EffectsInv, LockExcludes, Busy, Respond
  <1>4. SeenIsCurrent' /\ BaseIsCurrent'
    BY <1>2 DEF EffectsInv, SeenIsCurrent, BaseIsCurrent, Busy
  <1>5. EffectsAreAccounted' /\ EffectsAtMostOnce'
    BY <1>1 DEF EffectsInv, EffectsAreAccounted, EffectsAtMostOnce
  <1>6. InFlight'
    <2> SUFFICES ASSUME NEW g \in Handlers PROVE InFlightOf(g)'
      BY DEF InFlight
    <2>1. CASE g = h
      BY <1>2, <2>1 DEF InFlightOf
    <2>2. CASE g # h
      <3>1. req[g].on \in Tasks
        BY DEF EffectsInv, TypeOK, Request
      <3> QED
        BY <1>1, <1>2, <2>2, <3>1 DEF EffectsInv, InFlight, InFlightOf
    <2> QED
      BY <2>1, <2>2
  <1> QED
    BY <1>3, <1>4, <1>5, <1>6 DEF EffectsInv

(* A write from outside moves a row to a new version, and takes no Task    *)
(* out of "completed".                                                     *)
LEMMA OutsideWriteKeeps ==
  ASSUME EffectsInv, TypeOK', NEW t \in Tasks, NEW status \in Statuses,
         NEW static \in BOOLEAN, Admit(t, task[t], status, static),
         task[t].status = "completed" => status = "completed",
         UNCHANGED <<log, handlerVars>>
  PROVE  EffectsInv'
  <1>0. task \in [Tasks -> TaskRow] /\ task[t] \in TaskRow
    BY DEF EffectsInv, TypeOK, StoreTypeOK
  <1>1. /\ task'[t].version = task[t].version + 1
        /\ task'[t].status = status
        /\ \A u \in Tasks \ {t} : task'[u] = task[u]
    BY <1>0, AdmitEffect
  <1>2. \A u \in Tasks : Completions(u)' = Completions(u)
    BY DEF Completions
  <1>3. UNCHANGED <<universe, lock, pc, req, seen, base>>
    BY DEF handlerVars
  <1>4. LockExcludes' /\ BaseIsCurrent' /\ EffectsAtMostOnce'
    BY <1>3 DEF EffectsInv, LockExcludes, Busy, BaseIsCurrent, EffectsAtMostOnce
  <1>5. SeenIsCurrent'
    <2> SUFFICES ASSUME NEW g \in Handlers, Busy(g)
                 PROVE  LET row == task'[req[g].on] IN
                        /\ seen[g].version <= row.version
                        /\ row.version = seen[g].version => row = seen[g]
      BY <1>3 DEF SeenIsCurrent, Busy
    <2>1. /\ req[g].on \in Tasks /\ seen[g].version \in Nat
          /\ task[t].version \in Nat
      BY <1>0 DEF EffectsInv, TypeOK, Request, TaskRow
    <2>2. seen[g].version <= task[req[g].on].version
          /\ (task[req[g].on].version = seen[g].version => task[req[g].on] = seen[g])
      BY DEF EffectsInv, SeenIsCurrent
    <2>3. CASE req[g].on = t
      BY <1>1, <2>1, <2>2, <2>3
    <2>4. CASE req[g].on # t
      BY <1>1, <2>1, <2>2, <2>4
    <2> QED
      BY <2>3, <2>4
  <1>6. EffectsAreAccounted'
    BY <1>1, <1>2, <1>3 DEF EffectsInv, EffectsAreAccounted
  <1>7. InFlight'
    BY <1>2, <1>3 DEF EffectsInv, InFlight, InFlightOf, TypeOK, Request
  <1> QED
    BY <1>4, <1>5, <1>6, <1>7 DEF EffectsInv

(* Logging an entry settles nothing: what is accounted for stays so.       *)
LEMMA LoggingKeeps ==
  ASSUME EffectsInv, TypeOK', \E e \in LogEntry : Record(e),
         UNCHANGED <<task, handlerVars>>
  PROVE  EffectsInv'
  <1>1. \A u \in Tasks : Completions(u) \subseteq Completions(u)'
    BY CompletionsOnlyGrow DEF EffectsInv, TypeOK, StoreTypeOK
  <1>2. UNCHANGED <<task, universe, lock, pc, req, seen, base>>
    BY DEF handlerVars
  <1>3. \A g \in Handlers : req[g].on \in Tasks
    BY DEF EffectsInv, TypeOK, Request
  <1>4. LockExcludes' /\ SeenIsCurrent' /\ BaseIsCurrent' /\ EffectsAtMostOnce'
    BY <1>2 DEF EffectsInv, LockExcludes, SeenIsCurrent, BaseIsCurrent, Busy,
       EffectsAtMostOnce
  <1>5. EffectsAreAccounted' /\ InFlight'
    BY <1>1, <1>2, <1>3 DEF EffectsInv, EffectsAreAccounted, InFlight, InFlightOf
  <1> QED
    BY <1>4, <1>5 DEF EffectsInv

(* While h is busy, no other handler is: the conjuncts about the others    *)
(* hold because they are idle or queued.                                   *)
LEMMA OthersRest ==
  ASSUME EffectsInv, NEW h \in Handlers, Busy(h)
  PROVE  \A g \in Handlers \ {h} : ~Busy(g)
  BY OneHandlerBusy DEF EffectsInv

(* Taking the lock: what the handler checked is what it has just read.     *)
LEMMA AcceptKeeps ==
  ASSUME EffectsInv, TypeOK', NEW h \in Handlers, Accept(h)
  PROVE  EffectsInv'
  <1>1. \A g \in Handlers : ~Busy(g)
    BY ConstantsOK DEF EffectsInv, LockExcludes, Accept
  <1>2. /\ UNCHANGED <<task, log, universe, req, base>>
        /\ lock' = h /\ seen'[h] = task[req[h].on]
        /\ pc'[h] \in {"transition", "append"}
        /\ pc'[h] = "transition" =>
             req[h].op \in Completing \union Reopening \union {"skip"}
        /\ \A g \in Handlers \ {h} : pc'[g] = pc[g]
    BY DEF EffectsInv, TypeOK, Accept, Goto
  <1>3. /\ req[h].on \in Tasks /\ task[req[h].on].version \in Nat
        /\ \A t \in Tasks : Completions(t)' = Completions(t)
    BY <1>2 DEF EffectsInv, TypeOK, StoreTypeOK, Request, TaskRow, Completions
  <1>4. LockExcludes'
    BY <1>1, <1>2 DEF LockExcludes, Busy
  <1>5. SeenIsCurrent'
    BY <1>1, <1>2, <1>3 DEF SeenIsCurrent, Busy
  <1>6. BaseIsCurrent'
    BY <1>1, <1>2 DEF BaseIsCurrent, Busy
  <1>7. EffectsAreAccounted' /\ EffectsAtMostOnce'
    BY <1>2, <1>3 DEF EffectsInv, EffectsAreAccounted, EffectsAtMostOnce
  <1>8. InFlight'
    <2>1. ASSUME pc'[h] = "transition"
          PROVE  \/ req[h].op \in Reopening /\ Completions(req[h].on) # {}
                 \/ req[h].op \notin Reopening /\ task[req[h].on].status # "completed"
      <3>1. CASE req[h].op \in Reopening
        BY <3>1 DEF Accept, Admissible, UndoAllowed, IsLatestCompletion
      <3>2. CASE req[h].op \in Completing
        BY <3>2 DEF Accept, Admissible, Reopening, Completing
      <3>3. CASE req[h].op = "skip"
        BY <3>3 DEF Accept, Admissible, Reopening
      <3> QED
        BY <1>2, <2>1, <3>1, <3>2, <3>3
    <2>2. InFlightOf(h)'
      BY <1>2, <1>3, <2>1 DEF InFlightOf
    <2>3. \A g \in Handlers \ {h} : InFlightOf(g)'
      BY <1>1, <1>2 DEF InFlightOf, Busy
    <2> QED
      BY <2>2, <2>3 DEF InFlight
  <1> QED
    BY <1>4, <1>5, <1>6, <1>7, <1>8 DEF EffectsInv

(* The transition: an undo leaves "completed" only when a completion is    *)
(* recorded; a completion of a Task not completed accounts for no effect   *)
(* but those a recorded completion accounts for.                           *)
LEMMA TransitionKeeps ==
  ASSUME EffectsInv, TypeOK', NEW h \in Handlers, Transition(h)
  PROVE  EffectsInv'
  <1> DEFINE t == req[h].on
  <1>0. /\ Busy(h) /\ pc[h] = "transition" /\ lock = h
        /\ t \in Tasks /\ req[h].op \in Ops /\ seen[h] \in TaskRow
        /\ task[t] \in TaskRow /\ task \in [Tasks -> TaskRow]
    BY DEF EffectsInv, TypeOK, StoreTypeOK, Request, Transition, Busy, LockExcludes
  <1>1. /\ Target(req[h].op) \in Statuses /\ seen[h].static \in BOOLEAN
        /\ seen[h].version \in Nat
        /\ Target(req[h].op) = "completed" <=> req[h].op \in Completing
    BY <1>0 DEF Target, Statuses, TaskRow, Completing, Reopening
  <1>2. /\ task[t] = seen[h]
        /\ task'[t].version = seen[h].version + 1
        /\ task'[t].status = Target(req[h].op)
        /\ \A u \in Tasks \ {t} : task'[u] = task[u]
    BY <1>0, <1>1, AdmitEffect DEF Transition, EffectsInv, SeenIsCurrent
  <1>3. /\ UNCHANGED <<log, universe, lock, req, base>>
        /\ seen'[h] = task'[t]
        /\ pc'[h] = IF req[h].op \in Completing THEN "check" ELSE "append"
        /\ \A g \in Handlers \ {h} : pc'[g] = pc[g]
        /\ \A u \in Tasks : Completions(u)' = Completions(u)
    BY DEF EffectsInv, TypeOK, Transition, Goto, Completions
  <1>4. \A g \in Handlers \ {h} : ~Busy(g)
    BY <1>0, OthersRest
  <1>5. LockExcludes'
    BY <1>0, <1>3, <1>4 DEF LockExcludes, Busy
  <1>6. SeenIsCurrent' /\ BaseIsCurrent'
    BY <1>0, <1>1, <1>2, <1>3, <1>4 DEF SeenIsCurrent, BaseIsCurrent, Busy
  <1>7. (universe.applied[t] # 0 => Completions(t) # {})
    <2>1. \/ req[h].op \in Reopening /\ Completions(t) # {}
          \/ seen[h].status # "completed"
      BY <1>0 DEF EffectsInv, InFlight, InFlightOf
    <2> QED
      BY <1>0, <1>2, <2>1 DEF EffectsInv, EffectsAreAccounted
  <1>8. EffectsAreAccounted' /\ EffectsAtMostOnce'
    BY <1>2, <1>3, <1>7 DEF EffectsInv, EffectsAreAccounted, EffectsAtMostOnce
  <1>9. InFlight'
    <2>1. InFlightOf(h)'
      BY <1>0, <1>1, <1>2, <1>3, <1>7 DEF InFlightOf
    <2>2. \A g \in Handlers \ {h} : InFlightOf(g)'
      BY <1>3, <1>4 DEF InFlightOf, Busy
    <2> QED
      BY <2>1, <2>2 DEF InFlight
  <1> QED
    BY <1>5, <1>6, <1>8, <1>9 DEF EffectsInv

(* Steps of a busy handler that write nothing but, perhaps, its base.      *)
LEMMA ReadingKeeps ==
  ASSUME EffectsInv, TypeOK', NEW h \in Handlers,
         Check(h) \/ ReadUniverse(h) \/ RejectEffects(h)
  PROVE  EffectsInv'
  <1>1. /\ UNCHANGED <<task, log, universe, lock, req, seen>>
        /\ Busy(h) /\ Busy(h)'
        /\ \A g \in Handlers \ {h} : pc'[g] = pc[g] /\ base'[g] = base[g]
        /\ \A t \in Tasks : Completions(t)' = Completions(t)
    BY DEF EffectsInv, TypeOK, Check, ReadUniverse, RejectEffects, Goto, Busy, Completions
  <1>2. \A g \in Handlers \ {h} : ~Busy(g)
    BY <1>1, OthersRest
  <1>3. LockExcludes' /\ SeenIsCurrent'
    BY <1>1, <1>2 DEF EffectsInv, LockExcludes, SeenIsCurrent, Busy
  <1>4. EffectsAreAccounted' /\ EffectsAtMostOnce'
    BY <1>1 DEF EffectsInv, EffectsAreAccounted, EffectsAtMostOnce
  <1>5. BaseIsCurrent' /\ InFlightOf(h)'
    <2>0. req[h].on \in Tasks
      BY DEF EffectsInv, TypeOK, Request
    <2>1. CASE Check(h)
      BY <1>1, <1>2, <2>0, <2>1 DEF EffectsInv, TypeOK, Check, Goto, Busy, CompletedBefore,
         BaseIsCurrent, InFlight, InFlightOf
    <2>2. CASE ReadUniverse(h)
      BY <1>1, <1>2, <2>0, <2>2 DEF EffectsInv, TypeOK, ReadUniverse, Goto, Busy,
         BaseIsCurrent, InFlight, InFlightOf
    <2>3. CASE RejectEffects(h)
      BY <1>1, <1>2, <2>0, <2>3 DEF EffectsInv, TypeOK, RejectEffects, Goto, Busy,
         BaseIsCurrent, InFlight, InFlightOf
    <2> QED
      BY <2>1, <2>2, <2>3
  <1>6. InFlight'
    BY <1>1, <1>2, <1>5 DEF InFlight, InFlightOf, Busy
  <1> QED
    BY <1>3, <1>4, <1>5, <1>6 DEF EffectsInv

(* Seeding happens when no UniverseState is stored, so it loses nothing    *)
(* that a Task's completion accounts for.                                  *)
LEMMA SeedKeeps ==
  ASSUME EffectsInv, TypeOK', NEW h \in Handlers, SeedUniverse(h)
  PROVE  EffectsInv'
  <1>1. /\ UNCHANGED <<task, log, lock, pc, req, seen, base>>
        /\ Busy(h) /\ pc[h] = "read"
        /\ \A t \in Tasks : universe'.applied[t] = 0
        /\ \A t \in Tasks : Completions(t)' = Completions(t)
    BY DEF SeedUniverse, NoEffects, Busy, Completions
  <1>2. \A g \in Handlers \ {h} : ~Busy(g)
    BY <1>1, OthersRest
  <1>3. LockExcludes' /\ SeenIsCurrent'
    BY <1>1 DEF EffectsInv, LockExcludes, SeenIsCurrent, Busy
  <1>4. BaseIsCurrent'
    BY <1>1, <1>2 DEF BaseIsCurrent, Busy
  <1>5. EffectsAreAccounted' /\ EffectsAtMostOnce'
    BY <1>1 DEF EffectsAreAccounted, EffectsAtMostOnce
  <1>6. InFlight'
    <2>1. \A g \in Handlers : req[g].on \in Tasks
      BY DEF EffectsInv, TypeOK, Request
    <2> QED
      BY <1>1, <2>1 DEF EffectsInv, InFlight, InFlightOf
  <1> QED
    BY <1>3, <1>4, <1>5, <1>6 DEF EffectsInv

(* The one step that raises a count raises it from zero, for a Task that   *)
(* is completed.                                                           *)
LEMMA PersistKeeps ==
  ASSUME EffectsInv, TypeOK', NEW h \in Handlers, PersistEffects(h)
  PROVE  EffectsInv'
  <1> DEFINE t == req[h].on
  <1>1. /\ UNCHANGED <<task, log, lock, req, seen, base>>
        /\ Busy(h) /\ pc[h] = "persist" /\ pc'[h] = "append"
        /\ \A g \in Handlers \ {h} : pc'[g] = pc[g]
        /\ \A u \in Tasks : Completions(u)' = Completions(u)
        /\ t \in Tasks
    BY DEF EffectsInv, TypeOK, PersistEffects, Goto, Busy, Completions, Request
  <1>2. \A g \in Handlers \ {h} : ~Busy(g)
    BY <1>1, OthersRest
  <1>3. base[h] = universe /\ task[t] = seen[h]
    BY <1>1 DEF EffectsInv, PersistEffects, BaseIsCurrent, SeenIsCurrent, Fresh
  <1>4. universe.applied[t] = 0 /\ task[t].status = "completed"
    BY <1>1, <1>3 DEF EffectsInv, InFlight, InFlightOf
  <1>5. /\ universe'.applied[t] = 1
        /\ \A u \in Tasks \ {t} : universe'.applied[u] = universe.applied[u]
    BY <1>1, <1>3, <1>4 DEF PersistEffects, EffectsInv, TypeOK, Universe
  <1>6. LockExcludes' /\ SeenIsCurrent' /\ BaseIsCurrent'
    BY <1>1, <1>2 DEF EffectsInv, LockExcludes, SeenIsCurrent, BaseIsCurrent, Busy
  <1>7. EffectsAreAccounted' /\ EffectsAtMostOnce'
    BY <1>1, <1>4, <1>5 DEF EffectsInv, EffectsAreAccounted, EffectsAtMostOnce
  <1>8. InFlight'
    BY <1>1, <1>2 DEF InFlight, InFlightOf, Busy
  <1> QED
    BY <1>6, <1>7, <1>8 DEF EffectsInv

(* Every step of a handler keeps the invariant. *)
LEMMA StepKeeps ==
  ASSUME EffectsInv, TypeOK', NEW h \in Handlers, Step(h)
  PROVE  EffectsInv'
  <1>1. CASE Accept(h)
    BY <1>1, AcceptKeeps
  <1>2. CASE Refuse(h)
    BY <1>2, AnsweringKeeps DEF Refuse
  <1>3. CASE Transition(h)
    BY <1>3, TransitionKeeps
  <1>4. CASE Check(h) \/ ReadUniverse(h) \/ RejectEffects(h)
    BY <1>4, ReadingKeeps
  <1>5. CASE SeedUniverse(h)
    BY <1>5, SeedKeeps
  <1>6. CASE PersistEffects(h)
    BY <1>6, PersistKeeps
  <1>7. CASE AppendDecision(h)
    <2>1. DecisionOf(req[h]) \in LogEntry
      BY DecisionIsEntry DEF EffectsInv, TypeOK
    <2> QED
      BY <1>7, <2>1, AnsweringKeeps DEF AppendDecision
  <1>8. CASE Conflict(h)
    BY <1>8, AnsweringKeeps DEF Conflict
  <1> QED
    BY <1>1, <1>2, <1>3, <1>4, <1>5, <1>6, <1>7, <1>8 DEF Step

(* A handler that is idle or queued constrains nothing but the lock. *)
LEMMA SubmitKeeps ==
  ASSUME EffectsInv, TypeOK', NEW h \in Handlers, Submit(h)
  PROVE  EffectsInv'
  <1>1. /\ UNCHANGED <<task, log, universe, lock, seen, base>>
        /\ ~Busy(h) /\ pc'[h] = "queued"
        /\ \A g \in Handlers \ {h} : pc'[g] = pc[g] /\ req'[g] = req[g]
        /\ \A t \in Tasks : Completions(t)' = Completions(t)
    BY DEF EffectsInv, TypeOK, Submit, Busy, Completions
  <1>2. LockExcludes' /\ SeenIsCurrent' /\ BaseIsCurrent'
    BY <1>1 DEF EffectsInv, LockExcludes, SeenIsCurrent, BaseIsCurrent, Busy
  <1>3. EffectsAreAccounted' /\ EffectsAtMostOnce'
    BY <1>1 DEF EffectsInv, EffectsAreAccounted, EffectsAtMostOnce
  <1>4. InFlight'
    <2>1. \A g \in Handlers : req[g].on \in Tasks
      BY DEF EffectsInv, TypeOK, Request
    <2> QED
      BY <1>1, <2>1 DEF EffectsInv, InFlight, InFlightOf
  <1> QED
    BY <1>2, <1>3, <1>4 DEF EffectsInv

(* A restart forgets the handlers, and the store has the rest. *)
LEMMA RestartKeeps == EffectsInv /\ TypeOK' /\ Restart => EffectsInv'
  <1> SUFFICES ASSUME EffectsInv, TypeOK', Restart PROVE EffectsInv'
    OBVIOUS
  <1>1. /\ UNCHANGED <<task, log, universe>>
        /\ \A h \in Handlers : pc'[h] = "idle"
        /\ \A t \in Tasks : Completions(t)' = Completions(t)
    BY DEF Restart, Completions
  <1> QED
    BY <1>1 DEF EffectsInv, LockExcludes, Busy, SeenIsCurrent, BaseIsCurrent,
       EffectsAreAccounted, InFlight, InFlightOf, EffectsAtMostOnce

(* The outside writers keep the invariant: none of them undoes a           *)
(* completion, and none writes a row without moving its version.           *)
LEMMA OutsideKeeps ==
  ASSUME EffectsInv, TypeOK', Outside
  PROVE  EffectsInv'
  <1>0. \A t \in Tasks : task[t].status \in Statuses /\ task[t].static \in BOOLEAN
    BY DEF EffectsInv, TypeOK, StoreTypeOK, TaskRow
  <1>1. CASE EditUniverse
    <2>1. /\ UNCHANGED <<task, log, lock, pc, req, seen, base>>
          /\ \A h \in Handlers : ~Busy(h)
          /\ universe'.applied = universe.applied
          /\ \A t \in Tasks : Completions(t)' = Completions(t)
      BY <1>1, ConstantsOK DEF EditUniverse, EffectsInv, TypeOK, Universe,
         LockExcludes, Completions
    <2> QED
      BY <2>1 DEF EffectsInv, LockExcludes, Busy, SeenIsCurrent, BaseIsCurrent,
         EffectsAreAccounted, InFlight, InFlightOf, EffectsAtMostOnce
  <1>2. ASSUME NEW t \in Tasks, EditTask(t) PROVE EffectsInv'
    <2>1. PICK static \in BOOLEAN : Admit(t, task[t], task[t].status, static)
      BY <1>2, OutsideEdit DEF EffectsInv
    <2> QED
      BY <1>0, <1>2, <2>1, OutsideWriteKeeps DEF EditTask
  <1>3. ASSUME NEW t \in Tasks, ReplaceTask(t) PROVE EffectsInv'
    <2>1. Admit(t, task[t], "replaced", task[t].static) /\ "replaced" \in Statuses
      BY <1>3 DEF ReplaceTask, Statuses
    <2> QED
      BY <1>0, <1>3, <2>1, OutsideWriteKeeps DEF ReplaceTask
  <1>4. ASSUME NEW t \in Occurrences, WriteOccurrence(t) PROVE EffectsInv'
    <2>1. PICK status \in {"active", "failed", "superseded"}, static \in BOOLEAN :
            Admit(t, task[t], status, static) /\ task[t].status # "completed"
      BY <1>4, OccurrencesAreTasks, OutsideOccurrence DEF EffectsInv
    <2>2. t \in Tasks /\ status \in Statuses
      BY OccurrencesAreTasks DEF Statuses
    <2> QED
      BY <1>4, <2>1, <2>2, OutsideWriteKeeps DEF WriteOccurrence
  <1>5. ASSUME NEW t \in Occurrences, LogOutcome(t) PROVE EffectsInv'
    <2>1. \E e \in LogEntry : Record(e)
      BY <1>5, OccurrencesAreTasks, OutcomeIsEntry
    <2> QED
      BY <1>5, <2>1, LoggingKeeps DEF LogOutcome
  <1> QED
    BY <1>1, <1>2, <1>3, <1>4, <1>5 DEF Outside

(* Every step keeps the invariant. *)
LEMMA EffectsNext == EffectsInv /\ [Next]_vars => EffectsInv'
  <1> SUFFICES ASSUME EffectsInv, [Next]_vars PROVE EffectsInv'
    OBVIOUS
  <1>0. TypeOK'
    BY TypeNext DEF EffectsInv
  <1>1. ASSUME NEW h \in Handlers, Submit(h) PROVE EffectsInv'
    BY <1>0, <1>1, SubmitKeeps
  <1>2. ASSUME NEW h \in Handlers, Step(h) PROVE EffectsInv'
    BY <1>0, <1>2, StepKeeps
  <1>3. ASSUME NEW h \in Handlers, Fault(h) PROVE EffectsInv'
    BY <1>0, <1>3, AnsweringKeeps DEF Fault
  <1>4. CASE Restart
    BY <1>0, <1>4, RestartKeeps
  <1>5. CASE Outside
    BY <1>0, <1>5, OutsideKeeps
  <1>6. CASE UNCHANGED vars
    BY <1>6, <1>0 DEF vars, EffectsInv, LockExcludes, Busy, SeenIsCurrent, BaseIsCurrent,
       EffectsAreAccounted, InFlight, InFlightOf, EffectsAtMostOnce, Completions
  <1> QED
    BY <1>1, <1>2, <1>3, <1>4, <1>5, <1>6 DEF Next

(* The strengthening is an invariant. *)
THEOREM EffectsInvariant == Spec => []EffectsInv
  BY EffectsInit, EffectsNext, PTL DEF Spec

(* A Task's effects are applied to the UniverseState at most once, for     *)
(* every interleaving of requests, outside writers, faults and restarts    *)
(* (record_task_action_with_calendar: "Effects apply once per Task").      *)
THEOREM EffectsOnce == Spec => []EffectsAtMostOnce
  <1>1. EffectsInv => EffectsAtMostOnce
    BY DEF EffectsInv
  <1> QED
    BY <1>1, EffectsInvariant, PTL

-----------------------------------------------------------------------------
(* Decisions: what the steps never lose, undo or record *)

(* A log without a new completion keeps its latest completion and the      *)
(* entries it had.                                                         *)
LEMMA LatestStays ==
  ASSUME log \in Seq(LogEntry), NEW t, NEW i, IsLatestCompletion(i, t),
         \/ UNCHANGED log
         \/ \E e \in LogEntry : e.event \notin CompletionEvents /\ Record(e)
  PROVE  IsLatestCompletion(i, t)' /\ log'[i] = log[i]
  <1>1. CASE UNCHANGED log
    BY <1>1 DEF IsLatestCompletion, Completions
  <1>2. CASE \E e \in LogEntry : e.event \notin CompletionEvents /\ Record(e)
    <2>1. PICK e \in LogEntry : e.event \notin CompletionEvents /\ Record(e)
      BY <1>2
    <2>2. /\ Len(log') = Len(log) + 1
          /\ \A j \in 1..Len(log) : log'[j] = log[j]
          /\ log'[Len(log')] = e
          /\ Len(log) \in Nat
      BY <2>1, AppendKeeps
    <2>3. Completions(t)' = Completions(t)
      BY <2>1, <2>2 DEF Completions
    <2>4. i \in 1..Len(log)
      BY DEF IsLatestCompletion, Completions
    <2> QED
      BY <2>2, <2>3, <2>4 DEF IsLatestCompletion
  <1> QED
    BY <1>1, <1>2

(* Nothing is in flight at the start. *)
LEMMA DecisionInit == Init => DecisionInv
  BY DEF Init, DecisionInv, DecisionInFlight, UnseededIsEmpty, NoUniverse, NoEffects

(* A handler is not disturbed by a step that leaves it where it is and     *)
(* records no completion.                                                  *)
LEMMA DecisionStays ==
  ASSUME TypeOK, NEW g \in Handlers, DecisionInFlight(g),
         pc'[g] = pc[g], req'[g] = req[g], seen'[g] = seen[g],
         \/ pc[g] # "transition"
         \/ UNCHANGED log
         \/ \E e \in LogEntry : e.event \notin CompletionEvents /\ Record(e)
  PROVE  DecisionInFlight(g)'
  <1>1. CASE pc[g] = "transition" /\ req[g].op \in Reopening
    <2>1. PICK i, t : i = req[g].undo /\ t = req[g].on
      OBVIOUS
    <2>2. /\ IsLatestCompletion(i, t) /\ log \in Seq(LogEntry)
          /\ req[g].op = "calendar_reopen" => log[i].source = "calendar"
      BY <1>1, <2>1 DEF DecisionInFlight, TypeOK, StoreTypeOK
    <2>3. IsLatestCompletion(i, t)' /\ log'[i] = log[i]
      BY <1>1, <2>2, LatestStays
    <2>4. i = req'[g].undo /\ t = req'[g].on
      BY <2>1
    <2> QED
      BY <1>1, <2>2, <2>3, <2>4 DEF DecisionInFlight
  <1>2. CASE ~(pc[g] = "transition" /\ req[g].op \in Reopening)
    BY <1>2 DEF DecisionInFlight
  <1> QED
    BY <1>1, <1>2

(* A handler that is idle or queued has no decision in flight. *)
LEMMA RestingDecides ==
  ASSUME NEW g \in Handlers, pc'[g] \in {"idle", "queued"}
  PROVE  DecisionInFlight(g)'
  BY DEF DecisionInFlight

(* A handler that takes a step holds the lock or finds it free: no other   *)
(* handler is past its first read.                                         *)
LEMMA StepsAlone ==
  ASSUME EffectsInv, NEW h \in Handlers, Step(h), NEW g \in Handlers \ {h}
  PROVE  /\ ~Busy(g)
         /\ pc'[g] = pc[g] /\ req'[g] = req[g] /\ seen'[g] = seen[g]
  <1>1. Busy(h) \/ lock = Free
    BY DEF Step, Accept, Refuse, Transition, Check, ReadUniverse, SeedUniverse,
       RejectEffects, PersistEffects, AppendDecision, Conflict, StaleWrite, Busy
  <1>2. ~Busy(g)
    BY <1>1, OneHandlerBusy, ConstantsOK DEF EffectsInv, LockExcludes
  <1>3. pc'[g] = pc[g] /\ req'[g] = req[g] /\ seen'[g] = seen[g]
    BY DEF Step, Accept, Refuse, Transition, Check, ReadUniverse, SeedUniverse,
       RejectEffects, PersistEffects, AppendDecision, Conflict, Goto, Respond,
       EffectsInv, TypeOK
  <1> QED
    BY <1>2, <1>3

(* The handler that takes the step: what it checked under the lock is what *)
(* it will record.                                                         *)
LEMMA StepDecides ==
  ASSUME EffectsInv, DecisionInv, NEW h \in Handlers, Step(h)
  PROVE  DecisionInFlight(h)'
  <1> USE DEF EffectsInv, TypeOK, Goto
  <1>0. DecisionInFlight(h)
    BY DEF DecisionInv
  <1>1. CASE Accept(h)
    <2>1. /\ pc'[h] \in {"transition", "append"} /\ UNCHANGED <<log, req>>
          /\ pc'[h] = "append" =>
               req[h].op \notin Completing \union Reopening \union {"skip"}
          /\ Admissible(req[h])
      BY <1>1 DEF Accept
    <2>2. req[h].op \in Reopening => UndoAllowed(req[h])
      BY <2>1 DEF Admissible
    <2> QED
      BY <2>1, <2>2 DEF DecisionInFlight, UndoAllowed, IsLatestCompletion, Completions
  <1>2. CASE Refuse(h) \/ AppendDecision(h) \/ Conflict(h)
    <2>1. pc'[h] = "idle"
      BY <1>2 DEF Refuse, AppendDecision, Conflict, Respond
    <2> QED
      BY <2>1, RestingDecides
  <1>3. CASE Transition(h)
    <2>1. /\ req' = req
          /\ pc'[h] = IF req[h].op \in Completing THEN "check" ELSE "append"
          /\ seen'[h].status = Target(req[h].op)
      BY <1>3 DEF Transition, Admit, StoreTypeOK, Request
    <2> QED
      BY <2>1 DEF DecisionInFlight, Target
  <1>4. CASE Check(h) \/ ReadUniverse(h) \/ SeedUniverse(h) \/ RejectEffects(h)
               \/ PersistEffects(h)
    <2>1. /\ UNCHANGED <<req, seen>>
          /\ pc[h] \in {"check", "read", "persist"}
          /\ pc'[h] \in {"read", "persist", "append"}
      BY <1>4 DEF Check, ReadUniverse, SeedUniverse, RejectEffects, PersistEffects
    <2>2. seen[h].status = "completed" /\ req[h].op \in Completing
      BY <1>0, <2>1 DEF InFlight, InFlightOf, DecisionInFlight
    <2>3. Target(req'[h].op) = "completed"
      BY <2>1, <2>2 DEF Target, Completing, Reopening
    <2>4. req'[h].op \in Completing /\ seen'[h].status = "completed"
      BY <2>1, <2>2
    <2> QED
      BY <2>1, <2>3, <2>4 DEF DecisionInFlight
  <1> QED
    BY <1>1, <1>2, <1>3, <1>4 DEF Step

(* What happens outside the handlers records no completion. *)
LEMMA OutsideIsQuiet ==
  ASSUME EffectsInv, Outside
  PROVE  /\ UNCHANGED <<pc, req, seen>>
         /\ \/ UNCHANGED log
            \/ \E e \in LogEntry : e.event \notin CompletionEvents /\ Record(e)
  <1>1. CASE EditUniverse
    BY <1>1 DEF EditUniverse
  <1>2. ASSUME NEW t \in Tasks, EditTask(t) \/ ReplaceTask(t)
        PROVE  UNCHANGED <<log, pc, req, seen>>
    BY <1>2 DEF EditTask, ReplaceTask, handlerVars
  <1>3. ASSUME NEW t \in Occurrences, WriteOccurrence(t)
        PROVE  UNCHANGED <<log, pc, req, seen>>
    BY <1>3 DEF WriteOccurrence, handlerVars
  <1>4. ASSUME NEW t \in Occurrences, LogOutcome(t)
        PROVE  /\ UNCHANGED <<pc, req, seen>>
               /\ \E e \in LogEntry : e.event \notin CompletionEvents /\ Record(e)
    <2>1. PICK event \in OutcomeEvents : Record(Entry(event, t, "system", 0))
      BY <1>4 DEF LogOutcome
    <2>2. /\ Entry(event, t, "system", 0) \in LogEntry
          /\ Entry(event, t, "system", 0).event \notin CompletionEvents
      BY OccurrencesAreTasks DEF Entry, LogEntry, Events, OutcomeEvents, CompletionEvents
    <2> QED
      BY <1>4, <2>1, <2>2 DEF LogOutcome, handlerVars
  <1> QED
    BY <1>1, <1>2, <1>3, <1>4 DEF Outside

(* Only a seed leaves the UniverseState's version where it finds no effect *)
(* to lose: a stored UniverseState never has version 0 again.              *)
LEMMA UnseededStays ==
  ASSUME EffectsInv, UnseededIsEmpty, [Next]_vars
  PROVE  UnseededIsEmpty'
  <1> USE DEF UnseededIsEmpty
  <1>1. universe.version \in Nat /\ \A h \in Handlers : base[h].version \in Nat
    BY DEF EffectsInv, TypeOK, Universe
  <1>2. ASSUME NEW h \in Handlers, SeedUniverse(h) PROVE UnseededIsEmpty'
    BY <1>2 DEF SeedUniverse
  <1>3. ASSUME NEW h \in Handlers, PersistEffects(h) PROVE UnseededIsEmpty'
    <2>1. universe'.version = base[h].version + 1
      BY <1>3 DEF PersistEffects
    <2> QED
      BY <1>1, <2>1
  <1>4. CASE EditUniverse
    <2>1. PICK v \in IF universe.version = 0 THEN {1, 2}
                     ELSE {universe.version + 1} :
            universe' = [universe EXCEPT !.version = v]
      BY <1>4 DEF EditUniverse
    <2>2. universe'.version = v /\ v # 0
      BY <1>1, <2>1 DEF EffectsInv, TypeOK, Universe
    <2> QED
      BY <2>2
  <1>5. CASE UNCHANGED universe
    BY <1>5
  <1>6. \/ UNCHANGED universe \/ EditUniverse
        \/ \E h \in Handlers : SeedUniverse(h) \/ PersistEffects(h)
    BY DEF Next, vars, Step, Outside, Submit, Fault, Restart, Accept, Refuse,
       Transition, Check, ReadUniverse, RejectEffects, AppendDecision, Conflict,
       EditTask, ReplaceTask, WriteOccurrence, LogOutcome, handlerVars
  <1> QED
    BY <1>2, <1>3, <1>4, <1>5, <1>6

(* Every step keeps what is in flight true. *)
LEMMA DecisionNext ==
  ASSUME EffectsInv, DecisionInv, [Next]_vars
  PROVE  DecisionInv'
  <1>0. UnseededIsEmpty'
    BY UnseededStays DEF DecisionInv
  <1> SUFFICES ASSUME NEW g \in Handlers PROVE DecisionInFlight(g)'
    BY <1>0 DEF DecisionInv
  <1> USE DEF DecisionInv
  <1>1. TypeOK
    BY DEF EffectsInv
  <1>2. ASSUME NEW h \in Handlers, Submit(h) PROVE DecisionInFlight(g)'
    <2>1. CASE g = h
      BY <1>1, <1>2, <2>1, RestingDecides DEF Submit, TypeOK
    <2>2. CASE g # h
      <3>1. pc'[g] = pc[g] /\ req'[g] = req[g] /\ seen'[g] = seen[g] /\ UNCHANGED log
        BY <1>1, <1>2, <2>2 DEF Submit, TypeOK
      <3> QED
        BY <1>1, <3>1, DecisionStays
    <2> QED
      BY <2>1, <2>2
  <1>3. ASSUME NEW h \in Handlers, Step(h) PROVE DecisionInFlight(g)'
    <2>1. CASE g = h
      BY <1>3, <2>1, StepDecides
    <2>2. CASE g # h
      <3>1. /\ ~Busy(g)
            /\ pc'[g] = pc[g] /\ req'[g] = req[g] /\ seen'[g] = seen[g]
        BY <1>3, <2>2, StepsAlone
      <3> QED
        BY <1>1, <3>1, DecisionStays DEF Busy
    <2> QED
      BY <2>1, <2>2
  <1>4. ASSUME NEW h \in Handlers, Fault(h) PROVE DecisionInFlight(g)'
    <2>1. CASE g = h
      BY <1>1, <1>4, <2>1, RestingDecides DEF Fault, Respond, TypeOK
    <2>2. CASE g # h
      <3>1. pc'[g] = pc[g] /\ req'[g] = req[g] /\ seen'[g] = seen[g] /\ UNCHANGED log
        BY <1>1, <1>4, <2>2 DEF Fault, Respond, TypeOK
      <3> QED
        BY <1>1, <3>1, DecisionStays
    <2> QED
      BY <2>1, <2>2
  <1>5. CASE Restart
    BY <1>5, RestingDecides DEF Restart
  <1>6. CASE Outside
    BY <1>1, <1>6, OutsideIsQuiet, DecisionStays
  <1>7. CASE UNCHANGED vars
    BY <1>1, <1>7, DecisionStays DEF vars
  <1> QED
    BY <1>2, <1>3, <1>4, <1>5, <1>6, <1>7 DEF Next

(* Between the lock and the log, the decision a handler is about to record *)
(* stays the right one (record_task_action_with_calendar,                  *)
(* reopen_completion, reopen_calendar_completion).                         *)
THEOREM DecisionInvariant == Spec => []DecisionInv
  BY DecisionInit, DecisionNext, EffectsInvariant, PTL DEF Spec

-----------------------------------------------------------------------------
(* What a step may never do *)

(* The steps that write the UniverseState keep every effect in it: a seed  *)
(* finds none, and a handler writes back what it read only while that is   *)
(* still current.                                                          *)
LEMMA KeepsEffects ==
  ASSUME EffectsInv, DecisionInv, [Next]_vars, NEW t \in Tasks
  PROVE  universe'.applied[t] >= universe.applied[t]
  <1>1. universe.applied \in [Tasks -> Nat]
    BY DEF EffectsInv, TypeOK, Universe
  <1>2. ASSUME NEW h \in Handlers, SeedUniverse(h)
        PROVE  universe'.applied[t] >= universe.applied[t]
    <2>1. universe.applied[t] = 0 /\ universe'.applied[t] = 0
      BY <1>2 DEF SeedUniverse, DecisionInv, UnseededIsEmpty, NoEffects
    <2> QED
      BY <2>1
  <1>3. ASSUME NEW h \in Handlers, PersistEffects(h)
        PROVE  universe'.applied[t] >= universe.applied[t]
    <2>1. base[h] = universe
      BY <1>3 DEF PersistEffects, EffectsInv, BaseIsCurrent
    <2>2. universe'.applied = [universe.applied EXCEPT ![req[h].on] = @ + 1]
      BY <1>3, <2>1 DEF PersistEffects
    <2> QED
      BY <1>1, <2>2
  <1>4. CASE EditUniverse
    <2>1. universe'.applied = universe.applied
      BY <1>4 DEF EditUniverse, EffectsInv, TypeOK, Universe
    <2> QED
      BY <1>1, <2>1
  <1>5. CASE UNCHANGED universe
    BY <1>1, <1>5
  <1>6. \/ UNCHANGED universe \/ EditUniverse
        \/ \E h \in Handlers : SeedUniverse(h) \/ PersistEffects(h)
    BY DEF Next, vars, Step, Outside, Submit, Fault, Restart, Accept, Refuse,
       Transition, Check, ReadUniverse, RejectEffects, AppendDecision, Conflict,
       EditTask, ReplaceTask, WriteOccurrence, LogOutcome, handlerVars
  <1> QED
    BY <1>2, <1>3, <1>4, <1>5, <1>6

(* Once in the UniverseState, an effect stays there: no seed and no        *)
(* read-modify-write of another handler loses it                           *)
(* (apply_completed_effects, universe_state::apply).                       *)
THEOREM EffectsKept == Spec => EffectsAreKept
  <1>1. EffectsInv /\ DecisionInv /\ [Next]_vars
          => [\A t \in Tasks : universe'.applied[t] >= universe.applied[t]]_vars
    BY KeepsEffects
  <1> QED
    BY <1>1, EffectsInvariant, DecisionInvariant, PTL DEF Spec, EffectsAreKept

(* A Task leaves "completed" only by the transition of an undo, which      *)
(* still names the latest completion when it is written.                   *)
LEMMA LeavesByUndo ==
  ASSUME EffectsInv, DecisionInv, [Next]_vars, NEW t \in Tasks,
         task[t].status = "completed", task'[t].status # "completed"
  PROVE  \E h \in Handlers : UndoesLatest(h, t)
  <1>1. task \in [Tasks -> TaskRow] /\ task[t].status \in Statuses
    BY DEF EffectsInv, TypeOK, StoreTypeOK, TaskRow
  <1>2. ASSUME NEW h \in Handlers, Transition(h) PROVE UndoesLatest(h, t)
    <2>1. req[h].on \in Tasks /\ pc[h] = "transition"
      BY <1>2 DEF Transition, EffectsInv, TypeOK, Request
    <2>2. Admit(req[h].on, seen[h], Target(req[h].op), seen[h].static)
      BY <1>2 DEF Transition
    <2>3. req[h].on = t
      BY <1>1, <2>1, <2>2 DEF Admit
    <2>4. seen[h] = task[t]
      BY <2>1, <2>2, <2>3 DEF Admit, Fresh, EffectsInv, SeenIsCurrent, Busy
    <2>5. req[h].op \in Reopening
      BY <2>1, <2>4 DEF EffectsInv, InFlight, InFlightOf
    <2> QED
      BY <2>1, <2>3, <2>5 DEF UndoesLatest, DecisionInv, DecisionInFlight
  <1>3. ASSUME NEW u \in Tasks, EditTask(u) PROVE FALSE
    BY <1>1, <1>3 DEF EditTask, Admit
  <1>4. ASSUME NEW u \in Tasks, ReplaceTask(u) PROVE FALSE
    BY <1>1, <1>4 DEF ReplaceTask, Admit
  <1>5. ASSUME NEW u \in Occurrences, WriteOccurrence(u) PROVE FALSE
    <2>1. task[u].status # "completed"
      BY <1>5 DEF WriteOccurrence, MaterializerMoves
    <2>2. PICK status, static : Admit(u, task[u], status, static)
      BY <1>5 DEF WriteOccurrence
    <2> QED
      BY <1>1, <2>1, <2>2 DEF Admit
  <1>6. \/ UNCHANGED task
        \/ \E h \in Handlers : Transition(h)
        \/ \E u \in Tasks : EditTask(u) \/ ReplaceTask(u)
        \/ \E u \in Occurrences : WriteOccurrence(u)
    BY DEF Next, vars, Step, Outside, Submit, Fault, Restart, Accept, Refuse,
       Check, ReadUniverse, SeedUniverse, RejectEffects, PersistEffects,
       AppendDecision, Conflict, EditUniverse, LogOutcome, handlerVars
  <1> QED
    BY <1>2, <1>3, <1>4, <1>5, <1>6

(* Nothing takes a Task out of "completed" but an undo of its latest       *)
(* completion; a gesture undoes none that was made in the app              *)
(* (reopen_completion, reopen_calendar_completion).                        *)
THEOREM UndoOnlyLatest == Spec => OnlyUndoLeavesCompleted
  <1>1. EffectsInv /\ DecisionInv /\ [Next]_vars
          => [\A t \in Tasks :
                task[t].status = "completed" /\ task'[t].status # "completed"
                  => \E h \in Handlers : UndoesLatest(h, t)]_vars
    BY LeavesByUndo
  <1> QED
    BY <1>1, EffectsInvariant, DecisionInvariant, PTL
       DEF Spec, OnlyUndoLeavesCompleted

(* A decision about to be recorded names the status its Task is in: the    *)
(* row is the one the transition produced, or the entry is refused.        *)
LEMMA RecordsTruth ==
  ASSUME EffectsInv, DecisionInv, [Next]_vars, Len(log') > Len(log),
         log'[Len(log')].event \in DOMAIN Implied
  PROVE  LET e == log'[Len(log')] IN task[e.about].status = Implied[e.event]
  <1>1. log \in Seq(LogEntry)
    BY DEF EffectsInv, TypeOK, StoreTypeOK
  <1>2. ASSUME NEW h \in Handlers, AppendDecision(h)
        PROVE  LET e == log'[Len(log')] IN task[e.about].status = Implied[e.event]
    <2> DEFINE r == req[h]
    <2>1. r \in Request /\ DecisionOf(r) \in LogEntry
      BY DecisionIsEntry DEF EffectsInv, TypeOK
    <2>2. log'[Len(log')] = DecisionOf(r)
      BY <1>1, <1>2, <2>1, AppendKeeps DEF AppendDecision
    <2>3. DecisionOf(r).about = r.on /\ DecisionOf(r).event = EventOf(r.op)
      BY DEF DecisionOf, Entry
    <2>4. /\ r.op \in Completing \union Reopening \union {"skip"}
          /\ Implied[EventOf(r.op)] = Target(r.op)
      BY <2>1, <2>2, <2>3 DEF EventOf, Implied, Target, Request, Ops, Completing,
         Reopening, Legacy
    <2>5. seen[h].status = Target(r.op)
      BY <1>2, <2>4 DEF AppendDecision, DecisionInv, DecisionInFlight
    <2>6. task[r.on] = seen[h]
      BY <1>2, <2>4 DEF AppendDecision, Fresh, EffectsInv, SeenIsCurrent, Busy,
         Completing, Reopening, Legacy
    <2> QED
      BY <2>2, <2>3, <2>4, <2>5, <2>6
  <1>3. ASSUME NEW t \in Occurrences, LogOutcome(t) PROVE FALSE
    <2>1. PICK event \in OutcomeEvents : Record(Entry(event, t, "system", 0))
      BY <1>3 DEF LogOutcome
    <2>2. log'[Len(log')] = Entry(event, t, "system", 0)
      BY <1>1, <2>1 DEF Record
    <2> QED
      BY <2>1, <2>2 DEF Entry, OutcomeEvents, Implied
  <1>4. \/ UNCHANGED log
        \/ \E h \in Handlers : AppendDecision(h)
        \/ \E t \in Occurrences : LogOutcome(t)
    BY DEF Next, vars, Step, Outside, Submit, Fault, Restart, Accept, Refuse,
       Transition, Check, ReadUniverse, SeedUniverse, RejectEffects, PersistEffects,
       Conflict, EditUniverse, EditTask, ReplaceTask, WriteOccurrence, handlerVars
  <1> QED
    BY <1>1, <1>2, <1>3, <1>4

(* A recorded decision tells the truth when it is recorded                 *)
(* (append_task_decision names the version the transition produced).       *)
THEOREM DecisionsTrue == Spec => DecisionsAreTrue
  <1>1. EffectsInv /\ DecisionInv /\ [Next]_vars
          => [Len(log') > Len(log)
               => LET e == log'[Len(log')] IN
                  e.event \in DOMAIN Implied
                    => task[e.about].status = Implied[e.event]]_vars
    BY RecordsTruth
  <1> QED
    BY <1>1, EffectsInvariant, DecisionInvariant, PTL DEF Spec, DecisionsAreTrue

=============================================================================
