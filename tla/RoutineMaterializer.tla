------------------------ MODULE RoutineMaterializer ------------------------
(***************************************************************************)
(* routine_service::materialize beside the Task handlers of TaskActions.   *)
(* One pass runs at a time, under quick_ubu_import_lock and                *)
(* routine_materialization_lock, which every writer of a routine also      *)
(* takes: definitions do not change during a pass.  The pass does not take *)
(* task_action_lock, so requests run between any two of its store          *)
(* operations.  It reads the active occurrences, then the execution        *)
(* evidence, fails the missed occurrences, reads the history of the        *)
(* evaluated dates, supersedes what is no longer derived, and places what  *)
(* is.  A refused write is a diagnostic; the pass goes on.                 *)
(***************************************************************************)
EXTENDS TaskActions

CONSTANTS
  Dates,         \* the local dates of the instance, of one routine Objective
  DateOf,        \* the date of each occurrence key
  PlacedStatic,  \* occurrences whose template is placed Static
  Nobody,        \* no occurrence
  MaxPasses,     \* bound on materialization passes
  MaxPassFaults, \* bound on store errors during passes
  MaxOverridden  \* bound: no override window is written past this version

ASSUME RoutineConstantsOK ==
  /\ DateOf \in [Occurrences -> Dates]
  /\ PlacedStatic \subseteq Occurrences
  /\ Nobody \notin Occurrences
  /\ MaxPasses \in Nat /\ MaxPassFaults \in Nat /\ MaxOverridden \in Nat

VARIABLES
  routine,   \* the live definition: its mode and the keys it derives
  ended,     \* the occurrences whose window is over
  stage,     \* where the pass is
  scope,     \* the dates this pass evaluates
  missed,    \* the windows that were over when the pass began
  stored,    \* the rows the pass has read or written
  evidence,  \* the occurrences with evidence, as read once
  work,      \* occurrences the current stage has still to treat
  outcome,   \* the occurrence whose outcome is written and not yet logged
  written,   \* its row as written
  passes,
  passFaults

passVars    == <<stage, scope, missed, stored, evidence, work, outcome, written, passes>>
routineVars == <<routine, ended, passFaults>>
allVars     == <<vars, routineVars, passVars>>

Modes      == {"live", "retired", "unevaluable"}
PassStages == {"idle", "evidence", "miss", "supersede", "place"}

PassTypeOK ==
  /\ routine \in [mode : Modes, derived : SUBSET Occurrences]
  /\ ended \subseteq Occurrences
  /\ stage \in PassStages
  /\ scope \subseteq Dates
  /\ missed \subseteq ended
  /\ stored \in [Occurrences -> TaskRow]
  /\ evidence \subseteq Occurrences
  /\ work \subseteq Occurrences
  /\ outcome \in Occurrences \union {Nobody}
  /\ written \in TaskRow
  /\ passes \in 0..MaxPasses /\ passFaults \in 0..MaxPassFaults

SameDate(o, p) == o # p /\ DateOf[o] = DateOf[p]

(* A definition derives at most one key for a date. *)
Derivations ==
  {d \in SUBSET Occurrences : \A o, p \in d : ~SameDate(o, p)}

RoutineInit ==
  /\ Init
  /\ routine = [mode |-> "retired", derived |-> {}]
  /\ ended = {}
  /\ stage = "idle"
  /\ scope = {} /\ missed = {}
  /\ stored = [o \in Occurrences |-> NoRow]
  /\ evidence = {} /\ work = {}
  /\ outcome = Nobody /\ written = NoRow
  /\ passes = 0 /\ passFaults = 0

-----------------------------------------------------------------------------
(* The clock, and the writers of a routine: objective_authoring, an import *)
(* (both under the import lock) and an occurrence override.                *)

WindowEnds(o) ==
  /\ o \notin ended
  /\ ended' = ended \union {o}
  /\ UNCHANGED <<vars, routine, passFaults, passVars>>

EditRoutine ==
  /\ stage = "idle"
  /\ \E mode \in Modes, derived \in Derivations :
       /\ mode # "live" => derived = {}
       /\ routine' = [mode |-> mode, derived |-> derived]
  /\ UNCHANGED <<vars, ended, passFaults, passVars>>

(* routine_override::change holds the import, materialization and action   *)
(* locks; setting or clearing the override refreshes the window of the     *)
(* date's active occurrence, evidence or not.                              *)
OverrideWindow(o) ==
  /\ stage = "idle"
  /\ lock = Free
  /\ \E p \in routine.derived : DateOf[p] = DateOf[o]
  /\ task[o].status = "active"
  /\ task[o].version < MaxOverridden
  /\ \E static \in BOOLEAN : Admit(o, task[o], "active", static)
  /\ UNCHANGED <<log, handlerVars, routineVars, passVars>>

-----------------------------------------------------------------------------
(* One pass *)

BeginPass ==
  /\ stage = "idle"
  /\ passes < MaxPasses
  /\ passes' = passes + 1
  /\ scope' \in SUBSET Dates
  /\ missed' = ended
  /\ stored' = [o \in Occurrences |->
                  IF task[o].status = "active" THEN task[o] ELSE NoRow]
  /\ stage' = "evidence"
  /\ UNCHANGED <<vars, routineVars, evidence, work, outcome, written>>

ReadEvidence ==
  /\ stage = "evidence"
  /\ evidence' = {o \in Occurrences : task[o].status = "active" /\ Evidence(o)}
  /\ work' = {o \in missed : stored[o].status = "active"}
  /\ stage' = "miss"
  /\ UNCHANGED <<vars, routineVars, scope, missed, stored, outcome, written, passes>>

(* Two writes: the status, then its outcome in the log. *)
OutcomeStatus == IF stage = "miss" THEN "failed" ELSE "superseded"
OutcomeEvent  == IF stage = "miss" THEN "task_failed" ELSE "task_moot"

WriteOutcome(o) ==
  /\ stage \in {"miss", "supersede"}
  /\ outcome = Nobody
  /\ o \in work
  /\ Admit(o, stored[o], OutcomeStatus, stored[o].static)
  /\ outcome' = o
  /\ written' = task'[o]
  /\ UNCHANGED <<log, handlerVars, routineVars, stage, scope, missed, stored,
                 evidence, work, passes>>

(* The row the pass keeps is the one that was admitted. *)
WrongKeptRow(o) == [stored[o] EXCEPT !.version = @ + 1]   \* the old payload

KeptRow(o) == written

RecordOutcome ==
  /\ outcome # Nobody
  /\ Record(Entry(OutcomeEvent, outcome, "system", 0))
  /\ stored' = [stored EXCEPT ![outcome] = KeptRow(outcome)]
  /\ work' = work \ {outcome}
  /\ outcome' = Nobody /\ written' = NoRow
  /\ UNCHANGED <<task, handlerVars, routineVars, stage, scope, missed, evidence, passes>>

(* The history of the evaluated dates of a live routine replaces what was  *)
(* read before; the rows of any other routine stay as first read.          *)
NoLongerDerived(rows) ==
  {o \in Occurrences :
     /\ rows[o].status = "active"
     /\ o \notin routine.derived
     /\ routine.mode # "unevaluable"
     /\ routine.mode = "live" => DateOf[o] \in scope}

ReadHistory ==
  LET rows == [o \in Occurrences |->
                 IF routine.mode = "live" /\ DateOf[o] \in scope
                 THEN task[o] ELSE stored[o]]
  IN /\ stage = "miss" /\ outcome = Nobody /\ work = {}
     /\ stored' = rows
     /\ work' = NoLongerDerived(rows) \ evidence
     /\ stage' = "supersede"
     /\ UNCHANGED <<vars, routineVars, scope, missed, evidence, outcome, written, passes>>

(* A date is held by any occurrence of another key that is not superseded. *)
WrongHeld(o) ==   \* only by one that is still to be done
  \E p \in Occurrences : SameDate(o, p) /\ stored[p].status = "active"

Held(o) ==
  \E p \in Occurrences :
    SameDate(o, p) /\ stored[p].status \notin {"absent", "superseded"}

Refreshable(o) ==
  stored[o].status = "active" /\ o \notin evidence /\ o \notin missed

Creatable(o) ==
  /\ stored[o].status \in {"absent", "superseded"}
  /\ ~Held(o) /\ o \notin missed

PlanPlacement ==
  /\ stage = "supersede" /\ outcome = Nobody /\ work = {}
  /\ work' = {o \in routine.derived :
                DateOf[o] \in scope /\ (Refreshable(o) \/ Creatable(o))}
  /\ stage' = "place"
  /\ UNCHANGED <<vars, routineVars, scope, missed, stored, evidence, outcome, written, passes>>

(* Create, refresh, or revive under the same id. *)
Place(o) ==
  /\ stage = "place"
  /\ o \in work
  /\ Admit(o, stored[o], "active", o \in PlacedStatic)
  /\ stored' = [stored EXCEPT ![o] = task'[o]]
  /\ work' = work \ {o}
  /\ UNCHANGED <<log, handlerVars, routineVars, stage, scope, missed, evidence,
                 outcome, written, passes>>

(* The row has changed since it was read, or an active row needs no        *)
(* refresh: nothing is written.                                            *)
WrongPassOver(o) ==   \* tries the refused write again
  /\ stage \in {"miss", "supersede", "place"} /\ outcome = Nobody /\ o \in work
  /\ ~Fresh(o, stored[o])
  /\ UNCHANGED allVars

PassOver(o) ==
  /\ stage \in {"miss", "supersede", "place"} /\ outcome = Nobody /\ o \in work
  /\ \/ ~Fresh(o, stored[o])
     \/ stage = "place" /\ stored[o].status = "active"
  /\ work' = work \ {o}
  /\ UNCHANGED <<vars, routineVars, stage, scope, missed, stored, evidence,
                 outcome, written, passes>>

EndPass ==
  /\ stage = "place" /\ work = {}
  /\ stage' = "idle"
  /\ scope' = {} /\ missed' = {} /\ evidence' = {}
  /\ stored' = [o \in Occurrences |-> NoRow]
  /\ UNCHANGED <<vars, routineVars, work, outcome, written, passes>>

(* A store error on one occurrence is a diagnostic.  When it is the log    *)
(* entry that fails, the status stands and the pass keeps the old row.     *)
PassFault(o) ==
  /\ passFaults < MaxPassFaults
  /\ stage \in {"miss", "supersede", "place"}
  /\ o \in work /\ outcome \in {o, Nobody}
  /\ passFaults' = passFaults + 1
  /\ work' = work \ {o}
  /\ outcome' = Nobody /\ written' = NoRow
  /\ UNCHANGED <<vars, routine, ended, stage, scope, missed, stored, evidence, passes>>

RestartPass ==
  /\ Restart
  /\ stage' = "idle"
  /\ scope' = {} /\ missed' = {} /\ evidence' = {} /\ work' = {}
  /\ stored' = [o \in Occurrences |-> NoRow]
  /\ outcome' = Nobody /\ written' = NoRow
  /\ UNCHANGED <<routineVars, passes>>

-----------------------------------------------------------------------------
PassStep ==
  \/ ReadEvidence \/ RecordOutcome \/ ReadHistory \/ PlanPlacement \/ EndPass
  \/ \E o \in Occurrences : WriteOutcome(o) \/ Place(o) \/ PassOver(o)

HandlerStep ==
  /\ \E h \in Handlers : Submit(h) \/ Step(h) \/ Fault(h)
  /\ UNCHANGED <<routineVars, passVars>>

RoutineNext ==
  \/ HandlerStep
  \/ RestartPass
  \/ EditRoutine
  \/ \E o \in Occurrences : WindowEnds(o) \/ OverrideWindow(o) \/ PassFault(o)
  \/ BeginPass
  \/ PassStep

RoutineSpec == RoutineInit /\ [][RoutineNext]_allVars

(* The request that started a pass awaits it; the handlers run as FairSpec *)
(* of TaskActions says.                                                    *)
FairRoutineSpec ==
  /\ RoutineSpec
  /\ WF_allVars(PassStep)
  /\ \A h \in Handlers :
       /\ WF_allVars(Step(h) /\ UNCHANGED <<routineVars, passVars>>)
       /\ SF_allVars((Accept(h) \/ Refuse(h)) /\ UNCHANGED <<routineVars, passVars>>)

-----------------------------------------------------------------------------
(* Properties *)

(* What the pass holds of the store: every row it keeps was once the       *)
(* current one and still is while its version is, so a write the store     *)
(* admits never acts on a status that has gone; an outcome that is written *)
(* and not yet logged belongs to an occurrence still being treated.        *)
StoredIsCurrent ==
  \A o \in Occurrences :
    /\ stored[o].version <= task[o].version
    /\ stored[o].version = task[o].version => stored[o] = task[o]

OutcomeIsPending ==
  outcome # Nobody =>
    /\ stage \in {"miss", "supersede"} /\ outcome \in work
    /\ written.status = OutcomeStatus
    /\ written.version = stored[outcome].version + 1
    /\ written.version <= task[outcome].version

PassInv == PassTypeOK /\ StoredIsCurrent /\ OutcomeIsPending

(* One routine has at most one occurrence per date that is not superseded: *)
(* a date whose occurrence was completed, skipped, missed or is protected  *)
(* by evidence gets no second one, whatever users do during a pass and     *)
(* whichever of its writes fail (routine_service::materialize).            *)
OneOccurrencePerDate ==
  \A o, p \in Occurrences :
    SameDate(o, p) =>
      \E q \in {o, p} : task[q].status \in {"absent", "superseded"}

(* Seen from log_service, the pass is one of the outside writers of        *)
(* TaskActions: its stale reads never settle, undo or overwrite a Task     *)
(* another way (routine_service::write observes the version it read).      *)
ImplementsTaskActions == Spec

(* Execution evidence protects an active occurrence from being superseded  *)
(* (docs/ROUTINES.md: such occurrences remain active).                     *)
EvidenceProtects ==
  [][\A o \in Occurrences :
       task[o].status = "active" /\ task'[o].status = "superseded"
         => ~Evidence(o)]_allVars

(* A pass ends, whatever it runs into (materialize turns the failure of    *)
(* one occurrence into a diagnostic and goes on).                          *)
PassEnds == stage # "idle" ~> stage = "idle"

=============================================================================
