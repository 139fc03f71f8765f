---------------------------- MODULE TaskActions ----------------------------
(***************************************************************************)
(* Task completion, skip, undo and the decisions that are only recorded:   *)
(* services/log_service.rs.  Each HTTP request (and each gesture a         *)
(* Calendar capture acts on) is a handler that takes task_action_lock,     *)
(* reads the Task, and then makes up to four separate store writes: the    *)
(* status transition, the empty UniverseState, the effects, the log entry. *)
(* Nothing joins them in a transaction.  A handler may end between any two *)
(* of them: a stale version, a store error, a dropped request, a restart.  *)
(*                                                                         *)
(* Writers that do not take task_action_lock (the routine materializer,    *)
(* PATCH /task/:id) appear as single admitted writes: what they read is    *)
(* guarded by the version they observed.                                   *)
(***************************************************************************)
EXTENDS TaskStore, FiniteSets

CONSTANTS
  Captured,     \* Tasks captured from a foreign Calendar event
  HasEffects,   \* Tasks that list at least one UniverseState mutation
  Rejectable,   \* those of them whose mutations may be refused as invalid
  Handlers,     \* request slots
  Free,         \* the value of an unlocked task_action_lock
  Offered,      \* bound: the kinds of request the instance issues
  MaxLog,       \* bound: no request is issued once the log is this long
  MaxOutcomes,  \* bound on the materializer's log entries
  MaxVersion,   \* bound: no outside write reaches past this version
  MaxFaults     \* bound on store errors, dropped requests and restarts

ASSUME ConstantsOK ==
  /\ Captured \subseteq Tasks \ Occurrences
  /\ HasEffects \subseteq Tasks
  /\ Rejectable \subseteq HasEffects
  /\ Tasks # {} /\ Free \notin Handlers
  /\ Offered \subseteq {"complete", "calendar_complete", "skip", "note",
                        "calendar_complete_pinned", "reopen",
                        "calendar_reopen", "legacy_done", "legacy_note"}
  /\ MaxLog \in Nat /\ MaxOutcomes \in Nat /\ MaxVersion \in Nat /\ MaxFaults \in Nat

VARIABLES
  universe,   \* the current UniverseState: its version (0: none stored) and
              \* how often each Task's effects are in it
  lock,       \* the holder of task_action_lock
  pc,         \* where each handler is
  req,        \* the request each handler serves
  seen,       \* the Task row a handler last read or wrote
  base,       \* the UniverseState a handler read
  faults

storeVars   == <<task, log>>
handlerVars == <<universe, lock, pc, req, seen, base, faults>>
vars        == <<task, log, universe, lock, pc, req, seen, base, faults>>

Completing == {"complete", "calendar_complete", "calendar_complete_pinned"}
Reopening  == {"reopen", "calendar_reopen"}
Legacy     == {"legacy_done", "legacy_note"}
Ops        == Completing \union Reopening \union Legacy \union {"skip", "note"}
Calendar   == {"calendar_complete", "calendar_complete_pinned", "calendar_reopen"}

Request == [op : Ops, on : Tasks, undo : Nat]
Stages  == {"idle", "queued", "transition", "check", "read", "persist", "append"}

Universe == [version : Nat, applied : [Tasks -> Nat]]

TypeOK ==
  /\ StoreTypeOK
  /\ universe \in Universe
  /\ lock \in Handlers \union {Free}
  /\ pc \in [Handlers -> Stages]
  /\ req \in [Handlers -> Request]
  /\ seen \in [Handlers -> TaskRow]
  /\ base \in [Handlers -> Universe]
  /\ faults \in Nat

NoEffects  == [t \in Tasks |-> 0]
NoUniverse == [version |-> 0, applied |-> NoEffects]
NoRow      == [status |-> "absent", version |-> 0, static |-> FALSE]
NoRequest  == [op |-> "note", on |-> CHOOSE t \in Tasks : TRUE, undo |-> 0]

(* A captured Task is Static; occurrences are created by the materializer. *)
InitialRows(t) ==
  IF t \in Occurrences THEN {NoRow}
  ELSE {[status |-> "active", version |-> 1, static |-> s] :
          s \in IF t \in Captured THEN {TRUE} ELSE BOOLEAN}

Init ==
  /\ task \in [Tasks -> UNION {InitialRows(t) : t \in Tasks}]
  /\ \A t \in Tasks : task[t] \in InitialRows(t)
  /\ log = <<>>
  /\ universe = NoUniverse
  /\ lock = Free
  /\ pc   = [h \in Handlers |-> "idle"]
  /\ req  = [h \in Handlers |-> NoRequest]
  /\ seen = [h \in Handlers |-> NoRow]
  /\ base = [h \in Handlers |-> NoUniverse]
  /\ faults = 0

-----------------------------------------------------------------------------
(* A request arrives.  A Calendar capture reads the Task and its latest    *)
(* completion before it acts (calendar_interaction::detect), without the   *)
(* lock, so the completion a gesture names may be stale by the time the    *)
(* lock is taken.  An app undo names any completion the client ever saw.   *)

Detected(r) ==
  LET status == task[r.on].status IN
  CASE r.op \in {"calendar_complete", "calendar_complete_pinned"} ->
         status # "completed" /\ r.on \notin Captured
    [] r.op = "calendar_reopen" ->
         /\ status = "completed"
         /\ r.on \notin Captured
         /\ IsLatestCompletion(r.undo, r.on)
         /\ log[r.undo].source = "calendar"
    [] r.op = "reopen" -> r.undo \in 1..Len(log)
    [] OTHER -> TRUE

Submit(h) ==
  /\ pc[h] = "idle"
  /\ Len(log) < MaxLog
  /\ \E r \in [op : Offered, on : Tasks, undo : 0..Len(log)] :
       /\ r.op \notin Reopening => r.undo = 0
       /\ r.op = "calendar_complete_pinned" => r.on \in Occurrences
       /\ task[r.on].version < MaxVersion
       /\ Detected(r)
       /\ req' = [req EXCEPT ![h] = r]
  /\ pc' = [pc EXCEPT ![h] = "queued"]
  /\ UNCHANGED <<task, log, universe, lock, seen, base, faults>>

(* The undo names the latest completion of a completed Task, and a gesture *)
(* undoes only a completion made by the same Calendar event.               *)
WrongUndoAllowed(r) ==   \* any completion of the Task, not the latest
  /\ task[r.on].status = "completed"
  /\ r.undo \in Completions(r.on)

UndoAllowed(r) ==
  /\ task[r.on].status = "completed"
  /\ IsLatestCompletion(r.undo, r.on)
  /\ r.op = "calendar_reopen" => log[r.undo].source = "calendar"

(* What the handler checks once it holds the lock and has read the Task.   *)
(* A pinned Calendar completion is one whose window edit was made a Static *)
(* override by the same capture.                                           *)
Admissible(r) ==
  LET row == task[r.on]
      fromCalendar == r.op \in Calendar
                        => /\ r.on \notin Captured
                           /\ row.static => r.op = "calendar_complete_pinned"
  IN /\ r.op \notin Legacy => row.status # "absent"
     /\ fromCalendar
     /\ r.op \in Completing =>
          \/ row.status = "active"
          \/ row.status = "failed" /\ r.on \in Occurrences
     /\ r.op = "skip" =>
          r.on \in Occurrences /\ row.status \in {"active", "failed"}
     /\ r.op \in Reopening => UndoAllowed(r)
     /\ r.op \in Legacy => r.on \notin Occurrences

(* The response is sent and the guard dropped, whatever was written so far. *)
Respond(h) ==
  /\ pc'   = [pc EXCEPT ![h] = "idle"]
  /\ req'  = [req EXCEPT ![h] = NoRequest]
  /\ seen' = [seen EXCEPT ![h] = NoRow]
  /\ base' = [base EXCEPT ![h] = NoUniverse]
  /\ lock' = IF lock = h THEN Free ELSE lock

Goto(h, stage) == pc' = [pc EXCEPT ![h] = stage]

Accept(h) ==
  /\ pc[h] = "queued"
  /\ lock = Free
  /\ Admissible(req[h])
  /\ lock' = h
  /\ seen' = [seen EXCEPT ![h] = task[req[h].on]]
  /\ Goto(h, IF req[h].op \in Completing \union Reopening \union {"skip"}
             THEN "transition" ELSE "append")
  /\ UNCHANGED <<task, log, universe, req, base, faults>>

Refuse(h) ==
  /\ pc[h] = "queued"
  /\ lock = Free
  /\ ~Admissible(req[h])
  /\ Respond(h)
  /\ UNCHANGED <<task, log, universe, faults>>

-----------------------------------------------------------------------------
(* persist_task_transition and apply_skipped_transition *)

Target(op) == CASE op \in Completing -> "completed"
                [] op \in Reopening  -> "active"
                [] OTHER             -> "skipped"

Transition(h) ==
  LET r == req[h] IN
  /\ pc[h] = "transition"
  /\ Admit(r.on, seen[h], Target(r.op), seen[h].static)
  /\ seen' = [seen EXCEPT ![h] = task'[r.on]]
  /\ Goto(h, IF r.op \in Completing THEN "check" ELSE "append")
  /\ UNCHANGED <<log, universe, lock, req, base, faults>>

(* Effects apply once per Task: an earlier completion in the log means     *)
(* that they were applied, or could have been, before a reopen.            *)
WrongCompletedBefore(t) ==   \* asks whether the Task is completed "now"
  \E i \in Completions(t) : \A j \in 1..Len(log) : log[j].about = t => j <= i

CompletedBefore(t) == Completions(t) # {}

Check(h) ==
  LET t == req[h].on IN
  /\ pc[h] = "check"
  /\ Goto(h, IF CompletedBefore(t) \/ t \notin HasEffects
             THEN "append" ELSE "read")
  /\ UNCHANGED <<task, log, universe, lock, req, seen, base, faults>>

ReadUniverse(h) ==
  /\ pc[h] = "read"
  /\ universe.version # 0
  /\ base' = [base EXCEPT ![h] = universe]
  /\ Goto(h, "persist")
  /\ UNCHANGED <<task, log, universe, lock, req, seen, faults>>

WrongSeedUniverse(h) ==   \* seeds without looking for a stored state
  /\ pc[h] = "read"
  /\ Fresh(req[h].on, seen[h])
  /\ universe' = [version |-> 1, applied |-> NoEffects]
  /\ UNCHANGED <<task, log, lock, pc, req, seen, base, faults>>

(* No UniverseState is stored: an empty one is admitted, then read. *)
SeedUniverse(h) ==
  /\ pc[h] = "read"
  /\ universe.version = 0
  /\ Fresh(req[h].on, seen[h])
  /\ universe' = [version |-> 1, applied |-> NoEffects]
  /\ UNCHANGED <<task, log, lock, pc, req, seen, base, faults>>

(* Invalid for the instance mode, or not applicable to the state as it is: *)
(* a diagnostic, and the completion is still recorded.                     *)
RejectEffects(h) ==
  /\ pc[h] \in {"read", "persist"}
  /\ req[h].on \in Rejectable
  /\ Goto(h, "append")
  /\ UNCHANGED <<task, log, universe, lock, req, seen, base, faults>>

PersistEffects(h) ==
  LET t == req[h].on IN
  /\ pc[h] = "persist"
  /\ base[h].version = universe.version
  /\ Fresh(t, seen[h])
  /\ universe' = [version |-> base[h].version + 1,
                  applied |-> [base[h].applied EXCEPT ![t] = @ + 1]]
  /\ Goto(h, "append")
  /\ UNCHANGED <<task, log, lock, req, seen, base, faults>>

-----------------------------------------------------------------------------
(* append_task_decision and the tail of append_action.  A recorded decision *)
(* names the Task version it observed; the legacy entry observes nothing.   *)

WrongEventOf(op) == "task_reopen"   \* outside the log's vocabulary

EventOf(op) == CASE op \in Completing   -> "task_completed"
                 [] op \in Reopening    -> "task_reopened"
                 [] op = "skip"         -> "occurrence_skipped"
                 [] op = "legacy_done"  -> "task_done"
                 [] OTHER               -> "noted"

DecisionOf(r) ==
  Entry(EventOf(r.op), r.on, IF r.op \in Calendar THEN "calendar" ELSE "app",
        r.undo)

AppendDecision(h) ==
  LET r == req[h] IN
  /\ pc[h] = "append"
  /\ r.op \notin Legacy => Fresh(r.on, seen[h])
  /\ Record(DecisionOf(r))
  /\ Respond(h)
  /\ UNCHANGED <<task, universe, faults>>

(* A write that names a stale version is refused, and the request fails    *)
(* with what it wrote before standing.                                     *)
StaleWrite(h) ==
  \/ /\ \/ pc[h] = "transition"
        \/ pc[h] = "append" /\ req[h].op \notin Legacy
     /\ ~Fresh(req[h].on, seen[h])
  \/ pc[h] = "read" /\ universe.version = 0 /\ ~Fresh(req[h].on, seen[h])
  \/ /\ pc[h] = "persist"
     /\ ~(base[h].version = universe.version /\ Fresh(req[h].on, seen[h]))

WrongConflict(h) ==   \* tries the same stale write again
  /\ StaleWrite(h)
  /\ UNCHANGED vars

Conflict(h) ==
  /\ StaleWrite(h)
  /\ Respond(h)
  /\ UNCHANGED <<task, log, universe, faults>>

(* A store error, or the client going away and its future being dropped.   *)
Fault(h) ==
  /\ faults < MaxFaults
  /\ pc[h] # "idle"
  /\ Respond(h)
  /\ faults' = faults + 1
  /\ UNCHANGED <<task, log, universe>>

(* The process stops and starts again: the store is all that remains. *)
Restart ==
  /\ faults < MaxFaults
  /\ faults' = faults + 1
  /\ lock' = Free
  /\ pc'   = [h \in Handlers |-> "idle"]
  /\ req'  = [h \in Handlers |-> NoRequest]
  /\ seen' = [h \in Handlers |-> NoRow]
  /\ base' = [h \in Handlers |-> NoUniverse]
  /\ UNCHANGED <<task, log, universe>>

-----------------------------------------------------------------------------
(* Writers outside log_service. *)

(* PATCH /task/:id: no lock, no status check, refused for an occurrence.   *)
(* The guard is the version the client names.                              *)
EditTask(t) ==
  /\ t \notin Occurrences
  /\ task[t].version < MaxVersion
  /\ \E static \in IF t \in Captured THEN {TRUE} ELSE BOOLEAN :
       Admit(t, task[t], task[t].status, static)
  /\ UNCHANGED <<log, handlerVars>>

(* Decomposition of an active Task, and its undo over a child: one batch   *)
(* under task_action_lock.                                                 *)
ReplaceTask(t) ==
  /\ lock = Free
  /\ t \notin Occurrences
  /\ task[t].status = "active"
  /\ task[t].version < MaxVersion
  /\ Admit(t, task[t], "replaced", task[t].static)
  /\ UNCHANGED <<log, handlerVars>>

(* The routine materializer's writes; its own module has the whole of it.  *)
MaterializerMoves ==
  [ absent     |-> {"active"},
    active     |-> {"active", "failed", "superseded"},
    superseded |-> {"active"} ]

WriteOccurrence(t) ==
  /\ t \in Occurrences
  /\ task[t].version < MaxVersion
  /\ task[t].status \in DOMAIN MaterializerMoves
  /\ \E status \in MaterializerMoves[task[t].status], static \in BOOLEAN :
       Admit(t, task[t], status, static)
  /\ UNCHANGED <<log, handlerVars>>

LogOutcome(t) ==
  /\ t \in Occurrences
  /\ Cardinality({i \in 1..Len(log) : log[i].event \in OutcomeEvents}) < MaxOutcomes
  /\ \E event \in OutcomeEvents : Record(Entry(event, t, "system", 0))
  /\ UNCHANGED <<task, handlerVars>>

(* POST /universe-state/mutations and a vocabulary admission: read and     *)
(* persisted under task_action_lock, after a seed when there is none; the  *)
(* seed stands when the write after it fails.                              *)
EditUniverse ==
  /\ lock = Free
  /\ universe.version < MaxVersion
  /\ \E v \in IF universe.version = 0 THEN {1, 2} ELSE {universe.version + 1} :
       universe' = [universe EXCEPT !.version = v]
  /\ UNCHANGED <<task, log, lock, pc, req, seen, base, faults>>

-----------------------------------------------------------------------------
Step(h) ==
  \/ Accept(h) \/ Refuse(h) \/ Transition(h) \/ Check(h) \/ ReadUniverse(h)
  \/ SeedUniverse(h) \/ RejectEffects(h) \/ PersistEffects(h)
  \/ AppendDecision(h) \/ Conflict(h)

Outside ==
  \/ EditUniverse
  \/ \E t \in Tasks : EditTask(t) \/ ReplaceTask(t)
  \/ \E t \in Occurrences : WriteOccurrence(t) \/ LogOutcome(t)

Next ==
  \/ \E h \in Handlers : Submit(h) \/ Step(h) \/ Fault(h)
  \/ Restart
  \/ Outside

Spec == Init /\ [][Next]_vars

(* A handler that may run runs; tokio's Mutex is FIFO, so a handler that   *)
(* waits for it gets it: strong fairness of the step that takes it.        *)
FairSpec ==
  Spec /\ \A h \in Handlers : /\ WF_vars(Step(h))
                              /\ SF_vars(Accept(h) \/ Refuse(h))

-----------------------------------------------------------------------------
(* Properties *)

(* A Task's effects reach the UniverseState at most once, however often it *)
(* is completed, undone and completed again, and whatever fails between    *)
(* the writes (log_service.rs: "Effects apply once per Task").             *)
EffectsAtMostOnce == \A t \in Tasks : universe.applied[t] <= 1

(* Why that holds, as an inductive invariant.  Handlers exclude each other *)
(* (LockExcludes); what a handler read is still so while the version it    *)
(* read is current (SeenIsCurrent, BaseIsCurrent); an effect that is in    *)
(* the UniverseState belongs to a Task that is completed or has a recorded *)
(* completion (EffectsAreAccounted), so a handler that finds none recorded *)
(* may apply the effects (InFlight).                                       *)
Busy(h) == pc[h] \notin {"idle", "queued"}

LockExcludes == \A h \in Handlers : Busy(h) => lock = h

SeenIsCurrent ==
  \A h \in Handlers : Busy(h) =>
    LET row == task[req[h].on] IN
    /\ seen[h].version <= row.version
    /\ row.version = seen[h].version => row = seen[h]

BaseIsCurrent ==
  \A h \in Handlers :
    pc[h] = "persist" /\ base[h].version = universe.version => base[h] = universe

EffectsAreAccounted ==
  \A t \in Tasks : universe.applied[t] # 0 =>
    task[t].status = "completed" \/ Completions(t) # {}

InFlightOf(h) ==
  LET t == req[h].on IN
  /\ pc[h] = "transition" =>
       \/ req[h].op \in Reopening /\ Completions(t) # {}
       \/ req[h].op \notin Reopening /\ seen[h].status # "completed"
  /\ pc[h] \in {"check", "read", "persist"} => seen[h].status = "completed"
  /\ pc[h] = "check" => universe.applied[t] = 0 \/ Completions(t) # {}
  /\ pc[h] \in {"read", "persist"} => universe.applied[t] = 0

InFlight == \A h \in Handlers : InFlightOf(h)

EffectsInv ==
  /\ TypeOK
  /\ LockExcludes
  /\ SeenIsCurrent
  /\ BaseIsCurrent
  /\ EffectsAreAccounted
  /\ InFlight
  /\ EffectsAtMostOnce

(* Once in the UniverseState, an effect stays there: no seed and no later  *)
(* read-modify-write of another handler loses it.                          *)
EffectsAreKept ==
  [][\A t \in Tasks : universe'.applied[t] >= universe.applied[t]]_vars

(* Nothing takes a Task out of "completed" but an undo that names its      *)
(* latest completion at that very moment; a gesture undoes no completion   *)
(* that was made in the app since (reopen_completion,                      *)
(* reopen_calendar_completion).                                            *)
UndoesLatest(h, t) ==
  LET r == req[h] IN
  /\ pc[h] = "transition" /\ r.on = t /\ r.op \in Reopening
  /\ IsLatestCompletion(r.undo, t)
  /\ r.op = "calendar_reopen" => log[r.undo].source = "calendar"

OnlyUndoLeavesCompleted ==
  [][\A t \in Tasks :
       task[t].status = "completed" /\ task'[t].status # "completed"
         => \E h \in Handlers : UndoesLatest(h, t)]_vars

(* Why that holds, and why the decisions below are true: the completion an *)
(* undo names is the latest until the undo is written, because only a      *)
(* handler that holds the lock records one; and the row a handler is about *)
(* to record a decision on is in the status the decision names.            *)
DecisionInFlight(h) ==
  LET r == req[h] IN
  /\ pc[h] = "transition" /\ r.op \in Reopening =>
       /\ IsLatestCompletion(r.undo, r.on)
       /\ r.op = "calendar_reopen" => log[r.undo].source = "calendar"
  /\ pc[h] \in {"check", "read", "persist"} => r.op \in Completing
  /\ pc[h] = "append" /\ r.op \in Completing \union Reopening \union {"skip"} =>
       seen[h].status = Target(r.op)

UnseededIsEmpty ==
  universe.version = 0 => \A t \in Tasks : universe.applied[t] = 0

DecisionInv == UnseededIsEmpty /\ \A h \in Handlers : DecisionInFlight(h)

(* A recorded decision tells the truth when it is recorded: the Task is in *)
(* the status the decision put it in (append_task_decision names the       *)
(* version the transition produced).                                       *)
Implied == [task_completed |-> "completed", task_reopened |-> "active",
            occurrence_skipped |-> "skipped"]

DecisionsAreTrue ==
  [][Len(log') > Len(log)
       => LET e == log'[Len(log')] IN
          e.event \in DOMAIN Implied => task[e.about].status = Implied[e.event]]_vars

(* A completion that is about to be recorded has its effects in the        *)
(* UniverseState: applied now, or at the earlier completion on whose       *)
(* account they were skipped ("A Task's effects are applied to             *)
(* UniverseState when it completes").                                      *)
Recording(h) ==
  /\ pc[h] = "append" /\ req[h].op \in Completing
  /\ req[h].on \in HasEffects \ Rejectable

CompletionHasItsEffects ==
  \A h \in Handlers : Recording(h) => universe.applied[req[h].on] = 1

(* Every request is answered. *)
Answered == \A h \in Handlers : pc[h] = "queued" ~> pc[h] = "idle"

=============================================================================
