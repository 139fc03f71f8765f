--------------------- MODULE RoutineMaterializer_proofs ---------------------
(***************************************************************************)
(* What a materialization pass keeps and what it implements, for every set *)
(* of occurrences, dates, requests and bounds.                             *)
(***************************************************************************)
EXTENDS RoutineMaterializer, TaskActions_proofs

-----------------------------------------------------------------------------
(* The parts of the inductive invariant *)

(* A date is free of an occurrence that is absent or superseded. *)
Vacant == {"absent", "superseded"}

(* A handler never moves a Task out of a status that leaves its date free. *)
TransitionsAreLive ==
  \A h \in Handlers : pc[h] = "transition" => seen[h].status \notin Vacant

(* A row that was never written is absent. *)
UnwrittenIsAbsent ==
  \A o \in Occurrences : task[o].version = 0 => task[o] = NoRow

(* A routine derives one key for a date, and none unless it is live. *)
DerivesOnce ==
  /\ routine.derived \in Derivations
  /\ routine.mode # "live" => routine.derived = {}

(* The row of an outcome is current while its version is, and a superseded *)
(* occurrence stays so until the pass places again.                        *)
WrittenIsCurrent ==
  outcome # Nobody =>
    /\ written.version = task[outcome].version => written = task[outcome]
    /\ stage = "supersede" => task[outcome].status \in Vacant

(* What the pass read as free is free: only the pass fills it. *)
HistoryIsTrue ==
  stage \in {"supersede", "place"} /\ routine.mode = "live" =>
    \A p \in Occurrences :
      DateOf[p] \in scope /\ stored[p].status \in Vacant => task[p].status \in Vacant

(* What the pass has still to treat is still as the stage needs it. *)
WorkIsTreatable ==
  \A o \in work :
    /\ stage \in {"miss", "supersede"} => stored[o].status = "active"
    /\ stage = "place" =>
         /\ o \in routine.derived /\ DateOf[o] \in scope
         /\ stored[o].status = "active" \/ (stored[o].status \in Vacant /\ ~Held(o))

PassHolds ==
  /\ PassTypeOK
  /\ StoredIsCurrent /\ OutcomeIsPending /\ WrittenIsCurrent
  /\ HistoryIsTrue /\ WorkIsTreatable

RoutineInv ==
  /\ EffectsInv
  /\ TransitionsAreLive /\ UnwrittenIsAbsent /\ DerivesOnce
  /\ PassHolds
  /\ OneOccurrencePerDate

-----------------------------------------------------------------------------
(* What the steps write *)

(* The types of what a routine's steps touch. *)
LEMMA RoutineTypes ==
  ASSUME RoutineInv
  PROVE  /\ TypeOK /\ PassTypeOK
         /\ task \in [Tasks -> TaskRow] /\ stored \in [Occurrences -> TaskRow]
         /\ Occurrences \subseteq Tasks
         /\ \A t \in Tasks : task[t] \in TaskRow /\ task[t].version \in Nat
                             /\ task[t].status \in Statuses
         /\ \A o \in Occurrences : stored[o] \in TaskRow /\ stored[o].version \in Nat
                                   /\ stored[o].static \in BOOLEAN
  BY OccurrencesAreTasks
     DEF RoutineInv, PassHolds, PassTypeOK, EffectsInv, TypeOK, StoreTypeOK, TaskRow

(* A row the store still admits a write over is the row as stored. *)
LEMMA FreshIsCurrent ==
  ASSUME RoutineInv, NEW o \in Occurrences, Fresh(o, stored[o])
  PROVE  task[o] = stored[o]
  BY DEF RoutineInv, PassHolds, StoredIsCurrent, Fresh

(* The writes of the materializer and of an override: one admitted row, as *)
(* the status of the current one allows.                                   *)
LEMMA PassAdmits ==
  ASSUME RoutineInv, NEW o \in Occurrences,
         OverrideWindow(o) \/ WriteOutcome(o) \/ Place(o)
  PROVE  /\ UNCHANGED <<log, handlerVars>>
         /\ task[o].status \in {"absent", "active", "superseded"}
         /\ task[o].status # "active" => Place(o)
         /\ \E status \in MaterializerMoves[task[o].status], static \in BOOLEAN :
              Admit(o, task[o], status, static)
  <1>1. CASE OverrideWindow(o)
    BY <1>1 DEF OverrideWindow, MaterializerMoves
  <1>2. CASE WriteOutcome(o)
    <2>1. /\ Fresh(o, stored[o]) /\ stored[o].status = "active"
          /\ OutcomeStatus \in {"failed", "superseded"}
      BY <1>2 DEF WriteOutcome, Admit, RoutineInv, PassHolds, WorkIsTreatable, OutcomeStatus
    <2>2. task[o] = stored[o]
      BY <2>1, FreshIsCurrent
    <2> QED
      BY <1>2, <2>1, <2>2, RoutineTypes DEF WriteOutcome, MaterializerMoves
  <1>3. CASE Place(o)
    <2>1. Fresh(o, stored[o]) /\ stored[o].status \in {"active", "absent", "superseded"}
      BY <1>3 DEF Place, Admit, RoutineInv, PassHolds, WorkIsTreatable, Vacant
    <2>2. task[o] = stored[o]
      BY <2>1, FreshIsCurrent
    <2>3. Admit(o, task[o], "active", o \in PlacedStatic) /\ (o \in PlacedStatic) \in BOOLEAN
      BY <1>3, <2>2 DEF Place
    <2>4. "active" \in MaterializerMoves[task[o].status]
      BY <2>1, <2>2 DEF MaterializerMoves
    <2> QED
      BY <1>3, <2>1, <2>2, <2>3, <2>4 DEF Place
  <1> QED
    BY <1>1, <1>2, <1>3

(* The outcome of an occurrence is an entry of the log. *)
LEMMA OutcomeLogged ==
  ASSUME RoutineInv, RecordOutcome
  PROVE  /\ outcome \in Occurrences
         /\ \E event \in OutcomeEvents : Record(Entry(event, outcome, "system", 0))
         /\ \E e \in LogEntry : Record(e)
         /\ UNCHANGED <<task, handlerVars>>
  <1>1. outcome \in Occurrences /\ outcome \in Tasks
    BY RoutineTypes DEF RecordOutcome, PassTypeOK
  <1>2. OutcomeEvent \in OutcomeEvents
    BY DEF OutcomeEvent, OutcomeEvents
  <1>3. Entry(OutcomeEvent, outcome, "system", 0) \in LogEntry
    BY <1>1, <1>2 DEF Entry, LogEntry, Events
  <1> QED
    BY <1>1, <1>2, <1>3 DEF RecordOutcome

(* Every step is one of these. *)
LEMMA RoutineSteps ==
  ASSUME [RoutineNext]_allVars
  PROVE  \/ HandlerStep \/ RestartPass \/ RecordOutcome
         \/ \E o \in Occurrences : OverrideWindow(o) \/ WriteOutcome(o) \/ Place(o)
         \/ UNCHANGED vars
  BY DEF RoutineNext, PassStep, allVars, EditRoutine, WindowEnds, PassFault, BeginPass,
     ReadEvidence, ReadHistory, PlanPlacement, PassOver, EndPass

(* The statuses the materializer writes, and those it writes over. *)
LEMMA MovesAreKnown ==
  ASSUME NEW was \in {"absent", "active", "superseded"}, NEW status \in MaterializerMoves[was]
  PROVE  status \in {"active", "failed", "superseded"} /\ status \in Statuses
  BY DEF MaterializerMoves, Statuses

(* Beside the handlers of TaskActions the pass keeps their invariant: its  *)
(* writes undo no completion and move the version of the row.              *)
LEMMA EffectsRoutine ==
  ASSUME RoutineInv, [RoutineNext]_allVars
  PROVE  EffectsInv'
  <1>0. EffectsInv /\ TypeOK
    BY DEF RoutineInv, EffectsInv
  <1>1. CASE HandlerStep
    <2>1. Next
      BY <1>1 DEF HandlerStep, Next
    <2> QED
      BY <1>0, <2>1, EffectsNext
  <1>2. CASE RestartPass
    <2>1. Next
      BY <1>2 DEF RestartPass, Next
    <2> QED
      BY <1>0, <2>1, EffectsNext
  <1>3. CASE RecordOutcome
    <2>1. (\E e \in LogEntry : Record(e)) /\ UNCHANGED <<task, handlerVars>>
      BY <1>3, OutcomeLogged
    <2>2. log' \in Seq(LogEntry)
      BY <2>1, <1>0, AppendKeeps DEF TypeOK, StoreTypeOK
    <2>3. TypeOK'
      BY <1>0, <2>1, <2>2 DEF TypeOK, StoreTypeOK, handlerVars
    <2> QED
      BY <1>0, <2>1, <2>3, LoggingKeeps
  <1>4. ASSUME NEW o \in Occurrences, OverrideWindow(o) \/ WriteOutcome(o) \/ Place(o)
        PROVE  EffectsInv'
    <2>1. PICK status \in MaterializerMoves[task[o].status], static \in BOOLEAN :
            Admit(o, task[o], status, static)
      BY <1>4, PassAdmits
    <2>2. /\ status \in Statuses /\ status # "completed" /\ task[o].status # "completed"
          /\ UNCHANGED <<log, handlerVars>>
      BY <1>4, PassAdmits, MovesAreKnown
    <2>3. o \in Tasks /\ task[o] \in TaskRow /\ task \in [Tasks -> TaskRow]
      BY RoutineTypes
    <2>4. task' \in [Tasks -> TaskRow]
      BY <2>1, <2>2, <2>3, AdmitEffect
    <2>5. TypeOK'
      BY <1>0, <2>2, <2>4 DEF TypeOK, StoreTypeOK, handlerVars
    <2> QED
      BY <1>0, <2>1, <2>2, <2>3, <2>5, OutsideWriteKeeps
  <1>5. CASE UNCHANGED vars
    BY <1>0, <1>5, EffectsNext
  <1> QED
    BY <1>1, <1>2, <1>3, <1>4, <1>5, RoutineSteps

(* A row stands or moves to its next version; only the pass, placing,      *)
(* fills a date that was free.                                             *)
LEMMA RowMoves ==
  ASSUME RoutineInv, [RoutineNext]_allVars, NEW t \in Tasks
  PROVE  /\ task'[t] = task[t] \/ task'[t].version = task[t].version + 1
         /\ task[t].status \in Vacant /\ task'[t].status \notin Vacant =>
              t \in Occurrences /\ Place(t)
  <1>0. task \in [Tasks -> TaskRow] /\ task[t] \in TaskRow
    BY RoutineTypes
  <1>1. ASSUME NEW h \in Handlers, Transition(h) PROVE
          /\ task'[t] = task[t] \/ task'[t].version = task[t].version + 1
          /\ task[t].status \in Vacant => task'[t].status \in Vacant
    <2>1. /\ req[h].on \in Tasks /\ req[h].op \in Ops
          /\ seen[h] \in TaskRow /\ seen[h].static \in BOOLEAN
      BY RoutineTypes DEF TypeOK, Request, TaskRow
    <2>2. Target(req[h].op) \in Statuses
      BY <2>1 DEF Target, Statuses
    <2>3. /\ task[req[h].on].version = seen[h].version
          /\ task'[req[h].on].version = seen[h].version + 1
          /\ \A u \in Tasks \ {req[h].on} : task'[u] = task[u]
      BY <1>0, <1>1, <2>1, <2>2, AdmitEffect DEF Transition
    <2>4. task[req[h].on] = seen[h] /\ seen[h].status \notin Vacant
      BY <1>1, <2>3 DEF RoutineInv, EffectsInv, SeenIsCurrent, Busy, Transition,
         TransitionsAreLive
    <2> QED
      BY <2>1, <2>3, <2>4
  <1>2. CASE HandlerStep
    BY <1>1, <1>2 DEF HandlerStep, Submit, Fault, Step, Accept, Refuse, Check, ReadUniverse,
       SeedUniverse, RejectEffects, PersistEffects, AppendDecision, Conflict
  <1>3. CASE RestartPass \/ RecordOutcome \/ UNCHANGED vars
    BY <1>3 DEF RestartPass, Restart, RecordOutcome, vars
  <1>4. ASSUME NEW o \in Occurrences, OverrideWindow(o) \/ WriteOutcome(o) \/ Place(o)
        PROVE  /\ task'[t] = task[t] \/ task'[t].version = task[t].version + 1
               /\ task[t].status \in Vacant /\ task'[t].status \notin Vacant =>
                    t = o /\ Place(o)
    <2>1. PICK status \in MaterializerMoves[task[o].status], static \in BOOLEAN :
            Admit(o, task[o], status, static)
      BY <1>4, PassAdmits
    <2>2. status \in Statuses /\ (task[o].status # "active" => Place(o))
      BY <1>4, PassAdmits, MovesAreKnown
    <2>3. o \in Tasks /\ task[o] \in TaskRow
      BY RoutineTypes
    <2>4. /\ task'[o].version = task[o].version + 1
          /\ \A u \in Tasks \ {o} : task'[u] = task[u]
      BY <1>0, <2>1, <2>2, <2>3, AdmitEffect
    <2> QED
      BY <2>2, <2>4 DEF Vacant
  <1> QED
    BY <1>2, <1>3, <1>4, RoutineSteps

(* What is read of a row stays behind it, and equal to it while their      *)
(* versions are.                                                           *)
LEMMA ReadStaysCurrent ==
  ASSUME RoutineInv, [RoutineNext]_allVars, NEW t \in Tasks, NEW row \in TaskRow,
         row.version <= task[t].version,
         row.version = task[t].version => row = task[t]
  PROVE  /\ row.version <= task'[t].version
         /\ row.version = task'[t].version => row = task'[t]
  <1>1. row.version \in Nat /\ task[t].version \in Nat
    BY RoutineTypes DEF TaskRow
  <1> QED
    BY <1>1, RowMoves

-----------------------------------------------------------------------------
(* The parts of the invariant that are not about the pass *)

(* A handler checks the status before it heads for the transition. *)
LEMMA LiveStays ==
  ASSUME RoutineInv, [RoutineNext]_allVars
  PROVE  TransitionsAreLive'
  <1>0. TypeOK /\ TransitionsAreLive
    BY DEF RoutineInv, EffectsInv
  <1>1. ASSUME NEW h \in Handlers, Accept(h) PROVE TransitionsAreLive'
    <2>1. /\ pc' = [pc EXCEPT ![h] = pc'[h]]
          /\ seen' = [seen EXCEPT ![h] = task[req[h].on]]
      BY <1>0, <1>1 DEF Accept, Goto, TypeOK
    <2>2. ASSUME pc'[h] = "transition" PROVE task[req[h].on].status \notin Vacant
      <3>1. req[h].op \in Completing \union Reopening \union {"skip"} /\ Admissible(req[h])
        BY <1>0, <1>1, <2>2 DEF Accept, Goto, TypeOK
      <3>2. CASE req[h].op \in Completing
        BY <3>1, <3>2 DEF Admissible, Vacant
      <3>3. CASE req[h].op \in Reopening
        BY <3>1, <3>3 DEF Admissible, Vacant, UndoAllowed
      <3>4. CASE req[h].op = "skip"
        BY <3>1, <3>4 DEF Admissible, Vacant
      <3> QED
        BY <3>1, <3>2, <3>3, <3>4
    <2> QED
      BY <1>0, <2>1, <2>2 DEF TransitionsAreLive, TypeOK
  <1>2. ASSUME NEW h \in Handlers,
               \/ Submit(h) \/ Refuse(h) \/ Transition(h) \/ Check(h) \/ ReadUniverse(h)
               \/ SeedUniverse(h) \/ RejectEffects(h) \/ PersistEffects(h)
               \/ AppendDecision(h) \/ Conflict(h) \/ Fault(h)
        PROVE  TransitionsAreLive'
    <2>1. /\ pc'[h] # "transition" \/ (pc'[h] = pc[h] /\ seen'[h] = seen[h])
          /\ \A g \in Handlers \ {h} : pc'[g] = pc[g] /\ seen'[g] = seen[g]
      BY <1>0, <1>2 DEF Submit, Refuse, Transition, Check, ReadUniverse, SeedUniverse,
         RejectEffects, PersistEffects, AppendDecision, Conflict, Fault, Respond, Goto, TypeOK
    <2> QED
      BY <1>0, <2>1 DEF TransitionsAreLive
  <1>3. CASE HandlerStep
    BY <1>1, <1>2, <1>3 DEF HandlerStep, Step
  <1>4. CASE RestartPass
    BY <1>4 DEF RestartPass, Restart, TransitionsAreLive
  <1>5. CASE UNCHANGED <<pc, seen>>
    BY <1>0, <1>5 DEF TransitionsAreLive
  <1> QED
    BY <1>3, <1>4, <1>5, RoutineSteps DEF RecordOutcome, OverrideWindow, WriteOutcome, Place,
       handlerVars, vars

(* A written row has a version. *)
LEMMA UnwrittenStays ==
  ASSUME RoutineInv, [RoutineNext]_allVars
  PROVE  UnwrittenIsAbsent'
  <1> SUFFICES ASSUME NEW o \in Occurrences, task'[o].version = 0 PROVE task'[o] = NoRow
    BY DEF UnwrittenIsAbsent
  <1>1. o \in Tasks /\ task[o].version \in Nat
    BY RoutineTypes
  <1>2. task'[o] = task[o]
    BY <1>1, RowMoves
  <1> QED
    BY <1>2 DEF RoutineInv, UnwrittenIsAbsent

(* Only an edit changes the definition. *)
LEMMA DerivesStays ==
  ASSUME RoutineInv, [RoutineNext]_allVars
  PROVE  DerivesOnce'
  <1>1. CASE EditRoutine
    BY <1>1 DEF EditRoutine, DerivesOnce, Derivations, SameDate
  <1>2. CASE UNCHANGED routine
    BY <1>2 DEF RoutineInv, DerivesOnce, Derivations, SameDate
  <1> QED
    BY <1>1, <1>2 DEF RoutineNext, PassStep, allVars, routineVars, HandlerStep, RestartPass,
       WindowEnds, OverrideWindow, PassFault, BeginPass, ReadEvidence, RecordOutcome,
       ReadHistory, PlanPlacement, EndPass, WriteOutcome, Place, PassOver

(* What the pass fills is free of every other key of its date. *)
LEMMA PlaceIsFree ==
  ASSUME RoutineInv, NEW o \in Occurrences, Place(o),
         NEW p \in Occurrences, SameDate(o, p)
  PROVE  task[p].status \in Vacant
  <1>1. /\ stage = "place" /\ o \in work /\ Fresh(o, stored[o])
        /\ task[o] = stored[o]
    BY FreshIsCurrent DEF Place, Admit
  <1>2. /\ o \in routine.derived /\ DateOf[o] \in scope
        /\ stored[o].status = "active" \/ (stored[o].status \in Vacant /\ ~Held(o))
    BY <1>1 DEF RoutineInv, PassHolds, WorkIsTreatable
  <1>3. CASE stored[o].status = "active"
    BY <1>1, <1>3 DEF RoutineInv, OneOccurrencePerDate, Vacant
  <1>4. CASE ~Held(o)
    <2>1. stored[p].status \in Vacant
      BY <1>4 DEF Held, Vacant
    <2>2. routine.mode = "live"
      BY <1>2 DEF RoutineInv, DerivesOnce
    <2>3. DateOf[p] \in scope
      BY <1>2 DEF SameDate
    <2> QED
      BY <1>1, <2>1, <2>2, <2>3 DEF RoutineInv, PassHolds, HistoryIsTrue
  <1> QED
    BY <1>2, <1>3, <1>4

(* A date that has one occurrence gets no second one. *)
LEMMA OneStays ==
  ASSUME RoutineInv, [RoutineNext]_allVars
  PROVE  OneOccurrencePerDate'
  <1> SUFFICES ASSUME NEW o \in Occurrences, NEW p \in Occurrences, SameDate(o, p)
               PROVE  task'[o].status \in Vacant \/ task'[p].status \in Vacant
    BY DEF OneOccurrencePerDate, SameDate, Vacant
  <1>0. SameDate(p, o) /\ o # p /\ o \in Tasks /\ p \in Tasks
    BY OccurrencesAreTasks DEF SameDate
  <1>1. task[o].status \in Vacant \/ task[p].status \in Vacant
    BY DEF RoutineInv, OneOccurrencePerDate, Vacant
  <1>2. CASE Place(o)
    <2>1. task[p].status \in Vacant
      BY <1>2, PlaceIsFree
    <2>2. ~Place(p) \/ task'[p] = task[p]
      BY <1>0, <1>2, RoutineTypes DEF Place, Admit
    <2> QED
      BY <1>0, <2>1, <2>2, RowMoves
  <1>3. CASE Place(p)
    <2>1. task[o].status \in Vacant
      BY <1>0, <1>3, PlaceIsFree
    <2>2. ~Place(o) \/ task'[o] = task[o]
      BY <1>0, <1>3, RoutineTypes DEF Place, Admit
    <2> QED
      BY <1>0, <2>1, <2>2, RowMoves
  <1>4. CASE ~Place(o) /\ ~Place(p)
    BY <1>0, <1>1, <1>4, RowMoves
  <1> QED
    BY <1>2, <1>3, <1>4

-----------------------------------------------------------------------------
(* Typing of the pass *)

(* Every step keeps what the pass holds typed. *)
LEMMA PassTypeStays ==
  ASSUME RoutineInv, [RoutineNext]_allVars
  PROVE  PassTypeOK'
  <1>0. /\ PassTypeOK /\ NoRow \in TaskRow
        /\ \A t \in Tasks : task[t] \in TaskRow /\ task'[t] \in TaskRow
        /\ Occurrences \subseteq Tasks
    BY RoutineTypes, RestingValues, EffectsRoutine DEF EffectsInv, TypeOK, StoreTypeOK
  <1>1. CASE EditRoutine
    BY <1>0, <1>1 DEF EditRoutine, PassTypeOK, passVars, Derivations
  <1>2. ASSUME NEW o \in Occurrences, WindowEnds(o) PROVE PassTypeOK'
    BY <1>0, <1>2 DEF WindowEnds, PassTypeOK, passVars
  <1>3. ASSUME NEW o \in Occurrences, PassFault(o) PROVE PassTypeOK'
    BY <1>0, <1>3, RoutineConstantsOK DEF PassFault, PassTypeOK
  <1>4. CASE UNCHANGED <<routineVars, passVars>>
    BY <1>0, <1>4 DEF PassTypeOK, passVars, routineVars
  <1>5. CASE BeginPass
    BY <1>0, <1>5, RoutineConstantsOK DEF BeginPass, PassTypeOK, routineVars, PassStages
  <1>6. CASE ReadEvidence
    BY <1>0, <1>6 DEF ReadEvidence, PassTypeOK, routineVars, PassStages
  <1>7. CASE RecordOutcome
    BY <1>0, <1>7 DEF RecordOutcome, KeptRow, PassTypeOK, routineVars
  <1>8. CASE ReadHistory
    BY <1>0, <1>8 DEF ReadHistory, NoLongerDerived, PassTypeOK, routineVars, PassStages
  <1>9. CASE PlanPlacement
    BY <1>0, <1>9 DEF PlanPlacement, PassTypeOK, routineVars, PassStages
  <1>10. CASE EndPass
    BY <1>0, <1>10 DEF EndPass, PassTypeOK, routineVars, PassStages
  <1>11. CASE RestartPass
    BY <1>0, <1>11 DEF RestartPass, PassTypeOK, routineVars, PassStages
  <1>12. ASSUME NEW o \in Occurrences, WriteOutcome(o) PROVE PassTypeOK'
    BY <1>0, <1>12 DEF WriteOutcome, PassTypeOK, routineVars
  <1>13. ASSUME NEW o \in Occurrences, Place(o) PROVE PassTypeOK'
    BY <1>0, <1>13 DEF Place, PassTypeOK, routineVars
  <1>14. ASSUME NEW o \in Occurrences, PassOver(o) PROVE PassTypeOK'
    BY <1>0, <1>14 DEF PassOver, PassTypeOK, routineVars
  <1>15. CASE HandlerStep \/ UNCHANGED allVars
    BY <1>4, <1>15 DEF HandlerStep, allVars
  <1>16. ASSUME NEW o \in Occurrences, OverrideWindow(o) PROVE PassTypeOK'
    BY <1>4, <1>16 DEF OverrideWindow
  <1> QED
    BY <1>1, <1>2, <1>3, <1>5, <1>6, <1>7, <1>8, <1>9, <1>10, <1>11, <1>12, <1>13, <1>14,
       <1>15, <1>16 DEF RoutineNext, PassStep

-----------------------------------------------------------------------------
(* What the pass holds of the store *)

(* Rows the pass does not read or write again stay as they were read. *)
LEMMA StoredStays ==
  ASSUME RoutineInv, [RoutineNext]_allVars, NEW o \in Occurrences, stored'[o] = stored[o]
  PROVE  /\ stored'[o].version <= task'[o].version
         /\ stored'[o].version = task'[o].version => stored'[o] = task'[o]
  <1>1. o \in Tasks /\ stored[o] \in TaskRow
    BY RoutineTypes
  <1>2. /\ stored[o].version <= task[o].version
        /\ stored[o].version = task[o].version => stored[o] = task[o]
    BY DEF RoutineInv, PassHolds, StoredIsCurrent
  <1> QED
    BY <1>1, <1>2, ReadStaysCurrent

(* An unread row is never ahead of the store. *)
LEMMA NoRowIsBehind ==
  ASSUME RoutineInv, [RoutineNext]_allVars, NEW o \in Occurrences
  PROVE  /\ NoRow.version <= task'[o].version
         /\ NoRow.version = task'[o].version => NoRow = task'[o]
  <1>1. o \in Tasks /\ task[o].version \in Nat /\ NoRow \in TaskRow /\ NoRow.version = 0
    BY RoutineTypes, RestingValues DEF NoRow
  <1>2. task[o].version = 0 => task[o] = NoRow
    BY DEF RoutineInv, UnwrittenIsAbsent
  <1> QED
    BY ONLY <1>1, <1>2, RoutineInv, [RoutineNext]_allVars, ReadStaysCurrent

(* The outcome written and not yet logged is of a row the pass wrote. *)
LEMMA WrittenStays ==
  ASSUME RoutineInv, [RoutineNext]_allVars, outcome # Nobody
  PROVE  /\ written.version <= task'[outcome].version
         /\ written.version = task'[outcome].version => written = task'[outcome]
         /\ stage = "supersede" => task'[outcome].status \in Vacant
  <1>1. outcome \in Occurrences /\ outcome \in Tasks /\ written \in TaskRow
    BY RoutineTypes DEF PassTypeOK
  <1>2. /\ written.version <= task[outcome].version
        /\ written.version = task[outcome].version => written = task[outcome]
        /\ stage \in {"miss", "supersede"}
    BY DEF RoutineInv, PassHolds, OutcomeIsPending, WrittenIsCurrent
  <1>3. stage = "supersede" => task[outcome].status \in Vacant
    BY DEF RoutineInv, PassHolds, WrittenIsCurrent
  <1>4. ~Place(outcome)
    BY <1>2 DEF Place
  <1> QED
    BY <1>1, <1>2, <1>3, <1>4, RowMoves, ReadStaysCurrent

(* What was free when the pass read it is free until the pass places. *)
LEMMA FreeStays ==
  ASSUME RoutineInv, [RoutineNext]_allVars, stage # "place", NEW p \in Occurrences,
         task[p].status \in Vacant
  PROVE  task'[p].status \in Vacant
  <1>1. ~Place(p) /\ p \in Tasks
    BY OccurrencesAreTasks DEF Place
  <1> QED
    BY <1>1, RowMoves

(* Steps beside the pass. *)
LEMMA BesideHolds ==
  ASSUME RoutineInv, [RoutineNext]_allVars, UNCHANGED passVars,
         UNCHANGED routine \/ stage = "idle",
         \A o \in Occurrences : ~Place(o)
  PROVE  PassHolds'
  <1>1. UNCHANGED <<stage, scope, stored, work, outcome, written>>
    BY DEF passVars
  <1>2. PassTypeOK' /\ StoredIsCurrent'
    BY <1>1, PassTypeStays, StoredStays DEF StoredIsCurrent
  <1>3. OutcomeIsPending' /\ WrittenIsCurrent'
    BY <1>1, WrittenStays DEF RoutineInv, PassHolds, OutcomeIsPending, WrittenIsCurrent,
       OutcomeStatus
  <1>4. HistoryIsTrue'
    <2> SUFFICES ASSUME stage \in {"supersede", "place"}, routine.mode = "live",
                        NEW p \in Occurrences, DateOf[p] \in scope, stored[p].status \in Vacant
                 PROVE  task'[p].status \in Vacant
      BY <1>1 DEF HistoryIsTrue
    <2>1. task[p].status \in Vacant /\ p \in Tasks
      BY OccurrencesAreTasks DEF RoutineInv, PassHolds, HistoryIsTrue
    <2> QED
      BY <2>1, RowMoves
  <1>5. WorkIsTreatable'
    BY <1>1 DEF RoutineInv, PassHolds, WorkIsTreatable, Held
  <1> QED
    BY <1>2, <1>3, <1>4, <1>5 DEF PassHolds

(* The beginning of a pass, its end and a restart. *)
LEMMA EndsHold ==
  ASSUME RoutineInv, [RoutineNext]_allVars, BeginPass \/ EndPass \/ RestartPass
  PROVE  PassHolds'
  <1>1. stage' \in {"evidence", "idle"} /\ outcome' = Nobody
    BY DEF BeginPass, EndPass, RestartPass, RoutineInv, PassHolds, OutcomeIsPending
  <1>2. StoredIsCurrent'
    <2> SUFFICES ASSUME NEW o \in Occurrences
                 PROVE  /\ stored'[o].version <= task'[o].version
                        /\ stored'[o].version = task'[o].version => stored'[o] = task'[o]
      BY DEF StoredIsCurrent
    <2>1. \/ stored'[o] = NoRow
          \/ stored'[o] = task[o] /\ task'[o] = task[o]
      BY DEF BeginPass, EndPass, RestartPass, vars
    <2>2. task[o].version \in Nat
      BY RoutineTypes
    <2> QED
      BY <2>1, <2>2, NoRowIsBehind
  <1> QED
    BY <1>1, <1>2, PassTypeStays DEF PassHolds, OutcomeIsPending, WrittenIsCurrent,
       HistoryIsTrue, WorkIsTreatable

(* The two reads of the pass: the evidence, and the history of its dates.  *)
LEMMA ReadsHold ==
  ASSUME RoutineInv, [RoutineNext]_allVars, ReadEvidence \/ ReadHistory
  PROVE  PassHolds'
  <1>1. outcome' = Nobody /\ UNCHANGED <<task, scope, routine>>
    BY DEF ReadEvidence, ReadHistory, vars, routineVars, RoutineInv, PassHolds,
       OutcomeIsPending
  <1>2. StoredIsCurrent'
    <2> SUFFICES ASSUME NEW o \in Occurrences
                 PROVE  /\ stored'[o].version <= task'[o].version
                        /\ stored'[o].version = task'[o].version => stored'[o] = task'[o]
      BY DEF StoredIsCurrent
    <2>1. stored'[o] = stored[o] \/ stored'[o] = task'[o]
      BY DEF ReadEvidence, ReadHistory, vars
    <2>2. task'[o].version \in Nat
      BY <1>1, RoutineTypes
    <2> QED
      BY <2>1, <2>2, StoredStays
  <1>3. HistoryIsTrue'
    BY <1>1 DEF ReadEvidence, ReadHistory, HistoryIsTrue
  <1>4. WorkIsTreatable'
    BY DEF ReadEvidence, ReadHistory, NoLongerDerived, WorkIsTreatable
  <1> QED
    BY <1>1, <1>2, <1>3, <1>4, PassTypeStays DEF PassHolds, OutcomeIsPending,
       WrittenIsCurrent

(* What is to be placed is derived, on an evaluated date, and either       *)
(* active or free with its date.                                           *)
LEMMA PlanHolds ==
  ASSUME RoutineInv, [RoutineNext]_allVars, PlanPlacement
  PROVE  PassHolds'
  <1>1. /\ UNCHANGED <<task, scope, routine, stored>> /\ outcome' = Nobody
        /\ stage = "supersede" /\ stage' = "place"
    BY DEF PlanPlacement, vars, routineVars
  <1>2. StoredIsCurrent'
    BY <1>1, StoredStays DEF StoredIsCurrent
  <1>3. HistoryIsTrue'
    BY <1>1 DEF RoutineInv, PassHolds, HistoryIsTrue
  <1>4. WorkIsTreatable'
    BY <1>1 DEF PlanPlacement, WorkIsTreatable, Refreshable, Creatable, Vacant, Held
  <1> QED
    BY <1>1, <1>2, <1>3, <1>4, PassTypeStays DEF PassHolds, OutcomeIsPending,
       WrittenIsCurrent

(* A status is written: the row is kept apart until its outcome is logged. *)
LEMMA WriteHolds ==
  ASSUME RoutineInv, [RoutineNext]_allVars, NEW o \in Occurrences, WriteOutcome(o)
  PROVE  PassHolds'
  <1>1. /\ UNCHANGED <<stage, scope, stored, work, routine>>
        /\ stage \in {"miss", "supersede"} /\ o \in work
        /\ outcome' = o /\ written' = task'[o]
    BY DEF WriteOutcome, routineVars
  <1>2. /\ o \in Tasks /\ stored[o] \in TaskRow /\ OutcomeStatus \in Statuses
        /\ stored[o].static \in BOOLEAN
    BY RoutineTypes DEF OutcomeStatus, Statuses
  <1>3. task'[o].version = stored[o].version + 1 /\ task'[o].status = OutcomeStatus
    BY <1>2, RoutineTypes, AdmitEffect DEF WriteOutcome
  <1>4. StoredIsCurrent'
    BY <1>1, StoredStays DEF StoredIsCurrent
  <1>5. OutcomeIsPending' /\ WrittenIsCurrent'
    BY <1>1, <1>2, <1>3 DEF OutcomeIsPending, WrittenIsCurrent, OutcomeStatus, Vacant, TaskRow
  <1>6. HistoryIsTrue'
    <2> SUFFICES ASSUME stage = "supersede", routine.mode = "live",
                        NEW p \in Occurrences, DateOf[p] \in scope, stored[p].status \in Vacant
                 PROVE  task'[p].status \in Vacant
      BY <1>1 DEF HistoryIsTrue
    <2>1. task[p].status \in Vacant
      BY DEF RoutineInv, PassHolds, HistoryIsTrue
    <2> QED
      BY <2>1, FreeStays
  <1>7. WorkIsTreatable'
    BY <1>1 DEF RoutineInv, PassHolds, WorkIsTreatable, Held
  <1> QED
    BY <1>4, <1>5, <1>6, <1>7, PassTypeStays DEF PassHolds

(* The outcome is logged, and the pass keeps the row it wrote. *)
LEMMA RecordHolds ==
  ASSUME RoutineInv, [RoutineNext]_allVars, RecordOutcome
  PROVE  PassHolds'
  <1>1. /\ UNCHANGED <<task, stage, scope, routine>>
        /\ outcome # Nobody /\ outcome \in Occurrences /\ outcome' = Nobody
        /\ stage \in {"miss", "supersede"}
        /\ work' = work \ {outcome}
    BY OutcomeLogged DEF RecordOutcome, routineVars, RoutineInv, PassHolds, OutcomeIsPending
  <1>2. /\ stored'[outcome] = written
        /\ \A p \in Occurrences \ {outcome} : stored'[p] = stored[p]
    BY <1>1, RoutineTypes DEF RecordOutcome, KeptRow
  <1>3. StoredIsCurrent'
    <2> SUFFICES ASSUME NEW o \in Occurrences
                 PROVE  /\ stored'[o].version <= task'[o].version
                        /\ stored'[o].version = task'[o].version => stored'[o] = task'[o]
      BY DEF StoredIsCurrent
    <2>1. CASE o = outcome
      BY <1>1, <1>2, <2>1, WrittenStays
    <2>2. CASE o # outcome
      BY <1>2, <2>2, StoredStays
    <2> QED
      BY <2>1, <2>2
  <1>4. HistoryIsTrue'
    <2> SUFFICES ASSUME stage = "supersede", routine.mode = "live",
                        NEW p \in Occurrences, DateOf[p] \in scope, stored'[p].status \in Vacant
                 PROVE  task'[p].status \in Vacant
      BY <1>1 DEF HistoryIsTrue
    <2>1. CASE p = outcome
      BY <1>1, <2>1, WrittenStays
    <2>2. CASE p # outcome
      BY <1>1, <1>2, <2>2 DEF RoutineInv, PassHolds, HistoryIsTrue
    <2> QED
      BY <2>1, <2>2
  <1>5. WorkIsTreatable'
    BY <1>1, <1>2, RoutineTypes DEF PassTypeOK, RoutineInv, PassHolds, WorkIsTreatable
  <1> QED
    BY <1>1, <1>3, <1>4, <1>5, PassTypeStays DEF PassHolds, OutcomeIsPending,
       WrittenIsCurrent

(* An occurrence is placed; what is left to place is on another date. *)
LEMMA PlaceHolds ==
  ASSUME RoutineInv, [RoutineNext]_allVars, NEW o \in Occurrences, Place(o)
  PROVE  PassHolds'
  <1>1. /\ UNCHANGED <<stage, scope, routine, outcome, written>>
        /\ stage = "place" /\ o \in work /\ work' = work \ {o} /\ outcome = Nobody
        /\ stored'[o] = task'[o]
        /\ \A p \in Occurrences \ {o} : stored'[p] = stored[p]
    BY RoutineTypes DEF Place, routineVars, RoutineInv, PassHolds, OutcomeIsPending
  <1>2. task'[o].version \in Nat /\ task'[o].status = "active"
    <2>1. task'[o].version \in Nat
      BY OccurrencesAreTasks, EffectsRoutine DEF EffectsInv, TypeOK, StoreTypeOK, TaskRow
    <2>2. o \in Tasks /\ task \in [Tasks -> TaskRow]
      BY RoutineTypes
    <2>3. task'[o].status = "active"
      BY <2>2 DEF Place, Admit
    <2> QED
      BY <2>1, <2>3
  <1>3. StoredIsCurrent'
    <2> SUFFICES ASSUME NEW p \in Occurrences
                 PROVE  /\ stored'[p].version <= task'[p].version
                        /\ stored'[p].version = task'[p].version => stored'[p] = task'[p]
      BY DEF StoredIsCurrent
    <2>1. CASE p = o
      BY <1>1, <1>2, <2>1
    <2>2. CASE p # o
      BY <1>1, <2>2, StoredStays
    <2> QED
      BY <2>1, <2>2
  <1>4. HistoryIsTrue'
    <2> SUFFICES ASSUME routine.mode = "live",
                        NEW p \in Occurrences, DateOf[p] \in scope, stored'[p].status \in Vacant
                 PROVE  task'[p].status \in Vacant
      BY <1>1 DEF HistoryIsTrue
    <2>1. p # o
      BY <1>1, <1>2 DEF Vacant
    <2>2. task[p].status \in Vacant
      BY <1>1, <2>1 DEF RoutineInv, PassHolds, HistoryIsTrue
    <2>3. task'[p] = task[p]
      BY <2>1, OccurrencesAreTasks, RoutineTypes DEF Place, Admit
    <2> QED
      BY <2>2, <2>3
  <1>5. WorkIsTreatable'
    <2> SUFFICES ASSUME NEW p \in work'
                 PROVE  /\ p \in routine.derived /\ DateOf[p] \in scope
                        /\ \/ stored'[p].status = "active"
                           \/ stored'[p].status \in Vacant /\ ~Held(p)'
      BY <1>1 DEF WorkIsTreatable
    <2>1. /\ p \in work /\ p # o /\ p \in Occurrences
          /\ o \in routine.derived /\ p \in routine.derived /\ DateOf[p] \in scope
          /\ stored[p].status = "active" \/ (stored[p].status \in Vacant /\ ~Held(p))
      BY <1>1, RoutineTypes DEF PassTypeOK, RoutineInv, PassHolds, WorkIsTreatable
    <2>2. ~SameDate(p, o)
      BY <2>1 DEF RoutineInv, DerivesOnce, Derivations
    <2>3. ~Held(p) => ~Held(p)'
      BY <1>1, <2>2 DEF Held, SameDate
    <2> QED
      BY <1>1, <2>1, <2>3
  <1> QED
    BY <1>1, <1>3, <1>4, <1>5, PassTypeStays DEF PassHolds, OutcomeIsPending,
       WrittenIsCurrent

(* Nothing is written: the occurrence is passed over, or a store error     *)
(* leaves the row the pass has read.                                       *)
LEMMA SkipHolds ==
  ASSUME RoutineInv, [RoutineNext]_allVars, NEW o \in Occurrences,
         PassOver(o) \/ PassFault(o)
  PROVE  PassHolds'
  <1>1. /\ UNCHANGED <<task, stage, scope, routine, stored>>
        /\ outcome' = Nobody /\ work' = work \ {o}
    BY DEF PassOver, PassFault, vars, routineVars
  <1>2. StoredIsCurrent'
    BY <1>1, StoredStays DEF StoredIsCurrent
  <1>3. HistoryIsTrue' /\ WorkIsTreatable'
    BY <1>1 DEF RoutineInv, PassHolds, HistoryIsTrue, WorkIsTreatable, Held
  <1> QED
    BY <1>1, <1>2, <1>3, PassTypeStays DEF PassHolds, OutcomeIsPending, WrittenIsCurrent

-----------------------------------------------------------------------------
(* The invariant *)

(* The pass starts with nothing read and no occurrence written. *)
LEMMA RoutineStarts == RoutineInit => RoutineInv
  <1> SUFFICES ASSUME RoutineInit PROVE RoutineInv
    OBVIOUS
  <1>1. EffectsInv /\ TypeOK
    BY EffectsInit DEF RoutineInit, EffectsInv
  <1>2. \A o \in Occurrences : task[o] = NoRow
    BY OccurrencesAreTasks DEF RoutineInit, Init, InitialRows
  <1>3. \A h \in Handlers : pc[h] = "idle"
    BY DEF RoutineInit, Init
  <1>4. PassTypeOK
    BY RestingValues, RoutineConstantsOK DEF RoutineInit, PassTypeOK, Modes, PassStages
  <1>5. StoredIsCurrent
    BY <1>2 DEF RoutineInit, StoredIsCurrent, NoRow
  <1>6. OneOccurrencePerDate
    BY <1>2 DEF OneOccurrencePerDate, NoRow
  <1>7. /\ TransitionsAreLive /\ UnwrittenIsAbsent /\ DerivesOnce
        /\ OutcomeIsPending /\ WrittenIsCurrent /\ HistoryIsTrue /\ WorkIsTreatable
    BY <1>2, <1>3 DEF RoutineInit, TransitionsAreLive, UnwrittenIsAbsent, DerivesOnce,
       Derivations, OutcomeIsPending, WrittenIsCurrent, HistoryIsTrue, WorkIsTreatable
  <1> QED
    BY <1>1, <1>4, <1>5, <1>6, <1>7 DEF RoutineInv, PassHolds

(* Every step keeps the invariant. *)
LEMMA RoutineKeeps == RoutineInv /\ [RoutineNext]_allVars => RoutineInv'
  <1> SUFFICES ASSUME RoutineInv, [RoutineNext]_allVars PROVE PassHolds'
    BY EffectsRoutine, LiveStays, UnwrittenStays, DerivesStays, OneStays DEF RoutineInv
  <1>1. CASE HandlerStep \/ UNCHANGED allVars
    <2>1. UNCHANGED <<passVars, routine>>
      BY <1>1 DEF HandlerStep, allVars, routineVars
    <2>2. CASE \E o \in Occurrences : Place(o)
      BY <2>2, PlaceHolds
    <2> QED
      BY <2>1, <2>2, BesideHolds
  <1>2. CASE EditRoutine
    <2>1. UNCHANGED passVars /\ stage = "idle"
      BY <1>2 DEF EditRoutine
    <2> QED
      BY <2>1, BesideHolds DEF Place
  <1>3. ASSUME NEW o \in Occurrences, WindowEnds(o) \/ OverrideWindow(o) PROVE PassHolds'
    <2>1. UNCHANGED <<passVars, routine>>
      BY <1>3 DEF WindowEnds, OverrideWindow, routineVars
    <2>2. CASE \E p \in Occurrences : Place(p)
      BY <2>2, PlaceHolds
    <2> QED
      BY <2>1, <2>2, BesideHolds
  <1>4. CASE BeginPass \/ EndPass \/ RestartPass
    BY <1>4, EndsHold
  <1>5. CASE ReadEvidence \/ ReadHistory
    BY <1>5, ReadsHold
  <1>6. CASE PlanPlacement
    BY <1>6, PlanHolds
  <1>7. CASE RecordOutcome
    BY <1>7, RecordHolds
  <1>8. ASSUME NEW o \in Occurrences, WriteOutcome(o) PROVE PassHolds'
    BY <1>8, WriteHolds
  <1>9. ASSUME NEW o \in Occurrences, Place(o) PROVE PassHolds'
    BY <1>9, PlaceHolds
  <1>10. ASSUME NEW o \in Occurrences, PassOver(o) \/ PassFault(o) PROVE PassHolds'
    BY <1>10, SkipHolds
  <1> QED
    BY <1>1, <1>2, <1>3, <1>4, <1>5, <1>6, <1>7, <1>8, <1>9, <1>10 DEF RoutineNext, PassStep

(* The strengthening is an invariant of the pass beside the handlers. *)
THEOREM RoutineInvariant == RoutineSpec => []RoutineInv
  BY RoutineStarts, RoutineKeeps, PTL DEF RoutineSpec

(* What the pass holds of the store is typed, and was once current: it is  *)
(* so still while its version is (routine_service::write).                 *)
THEOREM PassHoldsTheStore == RoutineSpec => []PassInv
  <1>1. RoutineInv => PassInv
    BY DEF RoutineInv, PassHolds, PassInv
  <1> QED
    BY <1>1, RoutineInvariant, PTL

(* A routine has at most one occurrence per date that is not superseded,   *)
(* whatever users do during a pass and whichever of its writes fail        *)
(* (routine_service::materialize).                                         *)
THEOREM OnePerDate == RoutineSpec => []OneOccurrencePerDate
  <1>1. RoutineInv => OneOccurrencePerDate
    BY DEF RoutineInv
  <1> QED
    BY <1>1, RoutineInvariant, PTL

-----------------------------------------------------------------------------
(* Refinement: to the handlers the pass is an outside writer *)

(* The bounds TaskActions puts on its outside writers are not reached: they *)
(* bound its instances, and the pass has bounds of its own.                 *)
WithinBounds ==
  /\ \A o \in Occurrences : task[o].version < MaxVersion
  /\ Cardinality({i \in 1..Len(log) : log[i].event \in OutcomeEvents}) < MaxOutcomes

(* Every step is a step of TaskActions or leaves its variables alone. *)
LEMMA PassStepIsOutside ==
  ASSUME RoutineInv, WithinBounds, [RoutineNext]_allVars
  PROVE  [Next]_vars
  <1>1. CASE HandlerStep \/ RestartPass
    BY <1>1 DEF HandlerStep, RestartPass, Next
  <1>2. CASE RecordOutcome
    <2>1. outcome \in Occurrences /\ LogOutcome(outcome)
      BY <1>2, OutcomeLogged DEF LogOutcome, WithinBounds
    <2> QED
      BY <2>1 DEF Next, Outside
  <1>3. ASSUME NEW o \in Occurrences, OverrideWindow(o) \/ WriteOutcome(o) \/ Place(o)
        PROVE  Next
    <2>1. WriteOccurrence(o)
      BY <1>3, PassAdmits DEF WriteOccurrence, WithinBounds, MaterializerMoves
    <2> QED
      BY <2>1 DEF Next, Outside
  <1> QED
    BY <1>1, <1>2, <1>3, RoutineSteps

(* The pass beside the handlers implements TaskActions: what it has read   *)
(* earlier never settles, undoes or overwrites a Task in a way TaskActions *)
(* does not know (routine_service::write).                                 *)
THEOREM PassIsAnOutsideWriter ==
  RoutineSpec /\ []WithinBounds => ImplementsTaskActions
  <1>1. RoutineInit => Init
    BY DEF RoutineInit
  <1> QED
    BY <1>1, PassStepIsOutside, RoutineInvariant, PTL
       DEF RoutineSpec, ImplementsTaskActions, Spec

=============================================================================
