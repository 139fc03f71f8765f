------------------------- MODULE CalendarProjection -------------------------
(***************************************************************************)
(* UbU's projection of Tasks onto a Calendar that its owner edits too:     *)
(* calendar_apply.rs (preview, approve), calendar_capture.rs,              *)
(* calendar_interaction.rs, calendar_reconciliation_service.rs.            *)
(*                                                                         *)
(* The applied record is what UbU believes it owns on the Calendar.  It is *)
(* written once, at the end of an operation, so the Calendar calls and the *)
(* Task edits before it are lost to the record when the operation stops.   *)
(* One operation runs at a time (calendar_projection_lock); the owner, the *)
(* app and the planner act between any two of its steps.  Reads of Tasks   *)
(* that follow one another are one step.                                   *)
(*                                                                         *)
(* Covered: failed calls, calls whose answer is lost, operations that stop *)
(* half-way, stale previews and observations.  A Task and its event share  *)
(* a name: external_id_for is one-to-one.  Left out: titles, reminders,    *)
(* routine occurrences, events UbU cannot own, and the 24 hours a reopen   *)
(* gesture is honoured for (every event is recent).                        *)
(***************************************************************************)
EXTENDS Naturals, FiniteSets

CONSTANTS
  Works,        \* Tasks authored in UbU; their events are minted by UbU
  Meetings,     \* events the owner put on the Calendar
  Authored,     \* the placements Works are authored with
  Windows,      \* where an event can be
  Length,       \* the length of each window
  Horizon,      \* the windows a Calendar list covers
  Lookback,     \* the windows just before it, which a capture reads as well
  Nothing,      \* no event, no static window
  MaxStored,    \* bound: previews and observations kept for the client
  MaxOutside    \* bound: how often the owner, the app, the planner and faults act

ASSUME CalendarConstants ==
  /\ Works \intersect Meetings = {}
  /\ Horizon \subseteq Windows /\ Lookback \subseteq Windows /\ Nothing \notin Windows
  /\ Authored \subseteq Windows \union {Nothing}
  /\ MaxStored \in Nat /\ MaxOutside \in Nat

Things  == Works \union Meetings
Event   == [at : Windows, coloured : BOOLEAN]
ASSUME NothingIsNoEvent == Nothing \notin Event

Events  == [Things -> Event \union {Nothing}]
Lengths == {Length[w] : w \in Windows}

\* window: the static window, Nothing for Dynamic work.
\* done: what recorded the latest completion.
TaskState == [status : {"absent", "active", "completed"},
              window : Windows \union {Nothing}, length : Lengths,
              done   : {"never", "app", "calendar"}]

Kinds == {"keep", "create", "update", "delete"}
Preview == [desired : Events, existing : Events, ops : [Things -> Kinds]]
Observation == [applied : Events, observed : Events]
Gestures == {"move", "resize", "complete", "reopen"}

\* The operation that holds calendar_projection_lock.
Free == [kind |-> "free"]
Job  == {Free}
  \union [kind : {"preview"}, plan : Events]
  \union [kind : {"approve"}, preview : Preview, landed : Events, todo : SUBSET Things]
  \union [kind : {"gestures"}, observed : Events, record : Events,
          todo : SUBSET [kind : Gestures, on : Things], flipped : SUBSET Things]
  \union [kind : {"admit"}, observed : Events, record : Events,
          rows : [Things -> TaskState], todo : SUBSET Things]

VARIABLES
  task,          \* the Tasks
  plan,          \* the admitted Plan's steps, as the events they ask for
  calendar,      \* the Calendar itself
  applied,       \* the latest applied record
  previews,      \* stored previews
  observations,  \* stored reconciliations that are not yet repaired
  job,
  astray,        \* events that may differ from the record for a known reason
  coloured,      \* events the owner coloured since a gesture on them counted
  outside        \* how often the outside acted

Outside == outside < MaxOutside /\ outside' = outside + 1

vars == <<task, plan, calendar, applied, previews, observations, job, astray, coloured, outside>>

TypeOK ==
  /\ task \in [Things -> TaskState]
  /\ plan \in Events
  /\ calendar \in Events
  /\ applied \in Events
  /\ previews \subseteq Preview
  /\ observations \subseteq Observation
  /\ job \in Job
  /\ astray \subseteq Things
  /\ coloured \subseteq Things
  /\ outside \in Nat

NoEvents == [t \in Things |-> Nothing]

Init ==
  /\ task \in {f \in [Things -> TaskState] : \A t \in Things :
                 /\ f[t].status = IF t \in Works THEN "active" ELSE "absent"
                 /\ f[t].window \in IF t \in Works THEN Authored ELSE {Nothing}
                 /\ f[t].window # Nothing => f[t].length = Length[f[t].window]
                 /\ f[t].done = "never"}
  /\ plan = NoEvents
  /\ calendar \in {c \in Events : \A t \in Works : c[t] = Nothing}
  /\ applied = NoEvents
  /\ previews = {} /\ observations = {}
  /\ job = Free
  /\ astray = {} /\ coloured = {}
  /\ outside = 0

Active(t)    == task[t].status = "active"
Completed(t) == task[t].status = "completed"
Static(t)    == task[t].window # Nothing
Captured(t)  == t \in Meetings /\ task[t].status # "absent"

-----------------------------------------------------------------------------
(* Preview *)

(* A captured event keeps the colour on record. *)
DesiredEvents(steps) ==
  [t \in Things |->
     IF steps[t] # Nothing /\ Captured(t) /\ applied[t] # Nothing
     THEN [steps[t] EXCEPT !.coloured = @ \/ applied[t].coloured]
     ELSE steps[t]]

(* A Task completed on the Calendar keeps its event as recorded. *)
PreserveCompleted(desired) ==
  [t \in Things |->
     IF /\ t \in Works /\ applied[t] # Nothing
        /\ Completed(t) /\ ~Static(t) /\ task[t].done = "calendar"
     THEN applied[t] ELSE desired[t]]

CurrentStaticWindows(desired) ==
  [t \in Things |->
     IF desired[t] # Nothing /\ Active(t) /\ Static(t)
     THEN [desired[t] EXCEPT !.at = task[t].window] ELSE desired[t]]

(* The events of completed Tasks: no operation touches them. *)
Retained == {t \in Things : applied[t] # Nothing /\ Completed(t)}

Diff(desired, existing, retained) ==
  [t \in Things |->
     IF t \in retained \/ desired[t] = existing[t] THEN "keep"
     ELSE CASE existing[t] = Nothing -> "create"
            [] desired[t] = Nothing -> "delete"
            [] OTHER -> "update"]

(* A captured Task that leaves the Plan never deletes the source meeting. *)
WrongSpareMeetings(ops) == ops
SpareMeetings(ops) ==
  [t \in Things |-> IF ops[t] = "delete" /\ Captured(t) THEN "keep" ELSE ops[t]]

PreviewOf(steps) ==
  LET desired == CurrentStaticWindows(PreserveCompleted(DesiredEvents(steps)))
  IN  [desired |-> desired, existing |-> applied,
       ops |-> SpareMeetings(Diff(desired, applied, Retained))]

(* The client keeps at most MaxStored records; which it forgets is its affair. *)
Stored(records, new) == {kept \union {new} : kept \in {k \in SUBSET records : Cardinality(k) < MaxStored}}

PreviewRead ==
  /\ job = Free
  /\ job' = [kind |-> "preview", plan |-> plan]
  /\ UNCHANGED <<task, plan, calendar, applied, previews, observations, astray, coloured, outside>>

PreviewStore ==
  /\ job.kind = "preview"
  /\ previews' \in Stored(previews, PreviewOf(job.plan))
  /\ job' = Free
  /\ UNCHANGED <<task, plan, calendar, applied, observations, astray, coloured, outside>>

-----------------------------------------------------------------------------
(* Approve *)

(* The record is still the one the preview was computed against. *)
WrongSameBase(p) == \A t \in Things : p.existing[t] = Nothing <=> applied[t] = Nothing
SameBase(p) == applied = p.existing

ApproveStart(p) ==
  /\ job = Free
  /\ p \in previews
  /\ SameBase(p)
  /\ job' = [kind |-> "approve", preview |-> p, landed |-> applied,
             todo |-> {t \in Things : p.ops[t] # "keep"}]
  /\ UNCHANGED <<task, plan, calendar, applied, previews, observations, astray, coloured, outside>>

OpRank == [create |-> 1, update |-> 2, delete |-> 3]

NextCall(t) ==
  /\ job.kind = "approve" /\ t \in job.todo
  /\ \A u \in job.todo : OpRank[job.preview.ops[t]] <= OpRank[job.preview.ops[u]]

(* A refused insert becomes a patch; a patch needs the event to be there;    *)
(* deleting what is gone succeeds.                                           *)
CanLand(t) == job.preview.ops[t] # "update" \/ calendar[t] # Nothing

CallLands(t) ==
  /\ NextCall(t) /\ CanLand(t)
  /\ calendar' = [calendar EXCEPT ![t] = IF job.preview.ops[t] = "delete" THEN Nothing
                                         ELSE job.preview.desired[t]]
  /\ job' = [job EXCEPT !.todo = @ \ {t},
                        !.landed[t] = IF job.preview.ops[t] = "delete" THEN Nothing
                                      ELSE job.preview.desired[t]]
  /\ astray' = astray \ {t}
  /\ UNCHANGED <<task, plan, applied, previews, observations, coloured, outside>>

(* The gate refused the operation, or the call failed: nothing landed. *)
WrongCallFails(t) ==
  /\ NextCall(t)
  /\ job' = [job EXCEPT !.todo = @ \ {t},
                        !.landed[t] = IF job.preview.ops[t] = "delete" THEN Nothing
                                      ELSE job.preview.desired[t]]
  /\ UNCHANGED <<task, plan, calendar, applied, previews, observations, astray, coloured, outside>>

CallFails(t) ==
  /\ NextCall(t)
  /\ job' = [job EXCEPT !.todo = @ \ {t}]
  /\ UNCHANGED <<task, plan, calendar, applied, previews, observations, astray, coloured, outside>>

(* The Calendar did it, and the answer was lost: recorded as failed. *)
AnswerLost(t) ==
  /\ NextCall(t) /\ CanLand(t)
  /\ Outside
  /\ calendar' = [calendar EXCEPT ![t] = IF job.preview.ops[t] = "delete" THEN Nothing
                                         ELSE job.preview.desired[t]]
  /\ job' = [job EXCEPT !.todo = @ \ {t}]
  /\ astray' = astray \union {t}
  /\ UNCHANGED <<task, plan, applied, previews, observations, coloured>>

(* A failed result is not the latest record, but then nothing landed either. *)
ApprovePersist ==
  /\ job.kind = "approve" /\ job.todo = {}
  /\ applied' = job.landed
  /\ job' = Free
  /\ UNCHANGED <<task, plan, calendar, previews, observations, astray, coloured, outside>>

-----------------------------------------------------------------------------
(* Capture *)

Listed(events) ==
  [t \in Things |-> IF events[t] # Nothing /\ events[t].at \in Horizon THEN events[t] ELSE Nothing]

Owned(observed) == {t \in Things : observed[t] # Nothing /\ applied[t] # Nothing}

(* What a change of an owned event asks for: a Static Task follows its event, *)
(* Dynamic work takes the event's length, and the colour of Dynamic work that *)
(* UbU exported uncoloured means done.                                        *)
Detected(observed) ==
  LET owned == Owned(observed) IN
  [kind : {"move"}, on : {t \in owned : /\ Active(t) /\ Static(t)
                                        /\ observed[t].at # task[t].window}]
  \union
  [kind : {"resize"}, on : {t \in owned : /\ Active(t) /\ ~Static(t)
                                          /\ Length[observed[t].at] # task[t].length}]
  \union
  [kind : {"complete"}, on : {t \in owned \intersect Works :
                                /\ ~Static(t) /\ ~Completed(t)
                                /\ observed[t].coloured /\ ~applied[t].coloured}]
  \union
  [kind : {"reopen"}, on : {t \in owned \intersect Works :
                              /\ ~Static(t) /\ Completed(t) /\ ~observed[t].coloured
                              /\ task[t].done = "calendar"}]

(* A capture also reads what happened lately, of the events on record. *)
Recent ==
  [t \in Things |->
     IF calendar[t] # Nothing /\ applied[t] # Nothing /\ calendar[t].at \in Lookback
     THEN calendar[t] ELSE Listed(calendar)[t]]

CaptureList ==
  /\ job = Free
  /\ LET observed == Recent IN
     job' = [kind |-> "gestures", observed |-> observed, record |-> applied,
             todo |-> Detected(observed),
             flipped |-> {t \in Owned(observed) : observed[t].coloured # applied[t].coloured}]
  /\ UNCHANGED <<task, plan, calendar, applied, previews, observations, astray, coloured, outside>>

GestureRank == [move |-> 1, resize |-> 2, complete |-> 3, reopen |-> 4]

NextGesture(s) ==
  /\ job.kind = "gestures" /\ s \in job.todo
  /\ \A r \in job.todo : GestureRank[s.kind] <= GestureRank[r.kind]

(* The whole observed event enters the record that the capture will store. *)
WrongAccept(s) == job' = [job EXCEPT !.todo = @ \ {s}]
Accept(s) == job' = [job EXCEPT !.todo = @ \ {s}, !.record[s.on] = job.observed[s.on]]

Honoured(s) ==
  /\ Active(s.on) <=> s.kind # "reopen"
  /\ CASE s.kind = "move"   -> Static(s.on)
       [] s.kind = "reopen" -> Completed(s.on) /\ task[s.on].done = "calendar"
       [] OTHER             -> ~Static(s.on)

AfterGesture(s) ==
  LET at == job.observed[s.on].at IN
  CASE s.kind = "move"     -> [task[s.on] EXCEPT !.window = at, !.length = Length[at]]
    [] s.kind = "resize"   -> [task[s.on] EXCEPT !.length = Length[at]]
    [] s.kind = "complete" -> [task[s.on] EXCEPT !.status = "completed", !.done = "calendar"]
    [] OTHER               -> [task[s.on] EXCEPT !.status = "active"]

(* The Task is read again under task_action_lock before it changes. *)
ApplyGesture(s) ==
  /\ NextGesture(s) /\ Honoured(s)
  /\ task' = [task EXCEPT ![s.on] = AfterGesture(s)]
  /\ coloured' = IF s.kind = "complete" THEN coloured \ {s.on} ELSE coloured
  /\ Accept(s)
  /\ UNCHANGED <<plan, calendar, applied, previews, observations, astray, outside>>

(* The Task moved on meanwhile, or a move is outside its sanity bounds. *)
RefuseGesture(s) ==
  /\ NextGesture(s)
  /\ ~Honoured(s) \/ s.kind = "move"
  /\ job' = [job EXCEPT !.todo = @ \ {s}]
  /\ UNCHANGED <<task, plan, calendar, applied, previews, observations, astray, coloured, outside>>

Row(t) == job.rows[t]

(* Active Tasks' own ids are known; a minted id without a Task is UbU's echo. *)
Foreign ==
  {t \in Things : /\ job.observed[t] # Nothing /\ job.record[t] = Nothing
                  /\ ~(t \in Works /\ Active(t))}

Candidates ==
  (Foreign \intersect Meetings)
  \union {t \in job.flipped \ Foreign : Captured(t) /\ Active(t)}

CaptureClassify ==
  /\ job.kind = "gestures" /\ job.todo = {}
  /\ job' = [kind |-> "admit", observed |-> job.observed, record |-> job.record, rows |-> task,
             todo |-> {t \in Candidates : ~Completed(t)}]
  /\ UNCHANGED <<task, plan, calendar, applied, previews, observations, astray, coloured, outside>>

(* A coloured event is a Static commitment, an uncoloured one Dynamic work. *)
WrongCapturedRow(t) ==
  LET event == job.observed[t] IN
  [status |-> "active", window |-> IF event.coloured THEN event.at ELSE Nothing,
   length |-> event.at, done |-> Row(t).done]
CapturedRow(t) ==
  LET event == job.observed[t] IN
  [status |-> "active", window |-> IF event.coloured THEN event.at ELSE Nothing,
   length |-> Length[event.at], done |-> Row(t).done]

(* Admitted at the version that was read; an unchanged Task is not admitted. *)
AdmitCaptured(t) ==
  /\ job.kind = "admit" /\ t \in job.todo
  /\ CapturedRow(t) = Row(t) \/ task[t] = Row(t)
  /\ task' = IF CapturedRow(t) = Row(t) THEN task ELSE [task EXCEPT ![t] = CapturedRow(t)]
  /\ job' = [job EXCEPT !.todo = @ \ {t}, !.record[t] = job.observed[t]]
  /\ UNCHANGED <<plan, calendar, applied, previews, observations, astray, coloured, outside>>

CapturePersist ==
  /\ job.kind = "admit" /\ job.todo = {}
  /\ applied' = job.record
  /\ astray' = astray \ {t \in Things : /\ job.record[t] # applied[t]
                                        /\ job.record[t] = calendar[t]}
  /\ job' = Free
  /\ UNCHANGED <<task, plan, calendar, previews, observations, coloured, outside>>

-----------------------------------------------------------------------------
(* Reconcile and repair *)

Reconcile ==
  /\ job = Free
  /\ observations' \in Stored(observations, [applied |-> applied, observed |-> Listed(calendar)])
  /\ UNCHANGED <<task, plan, calendar, applied, previews, job, astray, coloured, outside>>

(* What was recorded in range becomes what was observed; the rest is kept. *)
WrongRepaired(o) ==
  [t \in Things |-> IF o.applied[t] # Nothing THEN o.observed[t] ELSE Nothing]
InRange(o) == {t \in Things : o.applied[t] # Nothing /\ o.applied[t].at \in Horizon}
Repaired(o) == [t \in Things |-> IF t \in InRange(o) THEN o.observed[t] ELSE o.applied[t]]

(* Events of an observation that no longer describes the record or Calendar. *)
Outdated(o) ==
  {t \in Things : o.applied[t] # applied[t] \/ o.observed[t] # Listed(calendar)[t]}

(* One transaction, one time for each observation.  Nothing compares the     *)
(* observation with the record it replaces.                                  *)
Repair(o) ==
  /\ job = Free
  /\ o \in observations
  /\ applied' = Repaired(o)
  /\ observations' = observations \ {o}
  /\ astray' = (astray \ {t \in InRange(o) : o.observed[t] # Nothing})
               \union Outdated(o)
  /\ coloured' = coloured \union {t \in Works : applied'[t] # applied[t]}
  /\ UNCHANGED <<task, plan, calendar, previews, job, outside>>

-----------------------------------------------------------------------------
(* The owner, the app, the planner; stopping *)

OwnerEdit(t, event) ==
  /\ event # calendar[t]
  /\ t \in Works => calendar[t] # Nothing
  /\ calendar' = [calendar EXCEPT ![t] = event]
  /\ astray' = astray \union {t}
  /\ coloured' = IF t \in Works /\ event # Nothing /\ event.coloured THEN coloured \union {t} ELSE coloured
  /\ Outside
  /\ UNCHANGED <<task, plan, applied, previews, observations, job>>

AppActions(t) ==
  IF Active(t)
  THEN {[task[t] EXCEPT !.status = "completed", !.done = "app"]}
       \union IF Static(t)
              THEN {[task[t] EXCEPT !.window = w, !.length = Length[w]] : w \in Windows}
              ELSE {[task[t] EXCEPT !.length = l] : l \in Lengths}
  ELSE IF Completed(t) /\ task[t].done # "never"
  THEN {[task[t] EXCEPT !.status = "active"]}
  ELSE {}

AppAct(t) ==
  /\ \E row \in AppActions(t) : row # task[t] /\ task' = [task EXCEPT ![t] = row]
  /\ Outside
  /\ UNCHANGED <<plan, calendar, applied, previews, observations, job, astray, coloured>>

(* A new Plan places active Tasks; a frozen step of an ended one may stay.  *)
(* A step's colour is that of its category, if the step is Static and the   *)
(* Task has one.                                                            *)
Placements(t) ==
  {Nothing} \union
  IF Active(t)
  THEN IF Static(t) THEN [at : {task[t].window}, coloured : BOOLEAN]
       ELSE [at : Windows, coloured : {FALSE}]
  ELSE {plan[t]}

Generate ==
  /\ plan' \in {f \in Events : \A t \in Things : f[t] \in Placements(t)}
  /\ plan' # plan
  /\ Outside
  /\ UNCHANGED <<task, calendar, applied, previews, observations, job, astray, coloured>>

(* A store error, a dropped request, a restart: what the operation had not   *)
(* stored is gone.  Calls that landed stay on the Calendar.                  *)
Stop ==
  /\ job # Free
  /\ Outside
  /\ job' = Free
  /\ astray' = IF job.kind = "approve"
               THEN astray \union {t \in Things : job.landed[t] # applied[t]} ELSE astray
  /\ coloured' = IF job.kind \in {"gestures", "admit"}
                 THEN coloured \union {t \in Works : job.record[t] # applied[t]} ELSE coloured
  /\ UNCHANGED <<task, plan, calendar, applied, previews, observations>>

(* A completion whose log entry was not written: the Task is completed, with *)
(* no completion recorded, and the error ends the capture.                   *)
CompletionBreaks(s) ==
  /\ NextGesture(s) /\ Honoured(s) /\ s.kind = "complete"
  /\ Outside
  /\ task' = [task EXCEPT ![s.on].status = "completed"]
  /\ job' = Free
  /\ coloured' = coloured \union {t \in Works : job.record[t] # applied[t]}
  /\ UNCHANGED <<plan, calendar, applied, previews, observations, astray>>

(* A Task that changed since it was read: the admission fails, and with it   *)
(* the capture, whatever its gestures already did.                           *)
AdmitConflict(t) ==
  /\ job.kind = "admit" /\ t \in job.todo
  /\ CapturedRow(t) # Row(t) /\ task[t] # Row(t)
  /\ job' = Free
  /\ coloured' = coloured \union {u \in Works : job.record[u] # applied[u]}
  /\ UNCHANGED <<task, plan, calendar, applied, previews, observations, astray, outside>>

PreviewStep   == PreviewRead \/ PreviewStore
ApproveStep   == \/ \E p \in previews : ApproveStart(p)
                 \/ \E t \in Things : CallLands(t) \/ CallFails(t) \/ AnswerLost(t)
                 \/ ApprovePersist
GestureStep   == \E s \in [kind : Gestures, on : Things] :
                   ApplyGesture(s) \/ RefuseGesture(s) \/ CompletionBreaks(s)
CaptureStep   == \/ CaptureList \/ GestureStep \/ CaptureClassify
                 \/ \E t \in Things : AdmitCaptured(t) \/ AdmitConflict(t)
                 \/ CapturePersist
ReconcileStep == Reconcile \/ \E o \in observations : Repair(o)
OutsideStep   == \/ \E t \in Things, event \in Event \union {Nothing} : OwnerEdit(t, event)
                 \/ \E t \in Things : AppAct(t)
                 \/ Generate

Next == PreviewStep \/ ApproveStep \/ CaptureStep \/ ReconcileStep \/ OutsideStep \/ Stop

Spec == Init /\ [][Next]_vars

-----------------------------------------------------------------------------
(* What UbU believes it owns while an approval runs is what landed so far. *)
Belief == IF job.kind = "approve" THEN job.landed ELSE applied

(* The belief is exact but for named causes (the owner, a lost answer, an    *)
(* operation that stopped, a repair from an outdated observation): what UbU  *)
(* believes it owns is on the Calendar as believed, and every event UbU      *)
(* minted is believed (approve's landed set, capture's and repair's record). *)
BeliefExact ==
  \A t \in Things \ astray :
    /\ Belief[t] # Nothing => calendar[t] = Belief[t]
    /\ Belief[t] = Nothing /\ t \in Works => calendar[t] = Nothing

(* A step of an approval, not the owner, changed the event. *)
Projects(t) == job.kind = "approve" /\ job' # job /\ calendar'[t] # calendar[t]

(* UbU writes to an event of the owner only for a Task it captured from it,  *)
(* and never deletes one (the delete filter of preview).                     *)
MeetingsAreSafe ==
  [][\A m \in Meetings : Projects(m) => Captured(m) /\ calendar'[m] # Nothing]_vars

(* One colouring of an event completes its Task at most once, even when the  *)
(* completion is undone in the app, unless the record of the gesture was     *)
(* lost or rolled back by a repair (accept_observation, persist_result).     *)
GestureCountsOnce ==
  [][\A t \in Works :
       (job.kind = "gestures" /\ job' # job /\ Active(t) /\ Completed(t)') => t \in coloured]_vars

(* An approval changes an event on record, or one UbU minted, only from what *)
(* its preview was computed against, but for the named causes: what was      *)
(* approved is what happens (the base check of approve).                     *)
AppliedAsPreviewed ==
  [][\A t \in Things :
       (Projects(t) /\ t \notin astray /\ (t \in Works \/ applied[t] # Nothing))
         => calendar[t] = job.preview.existing[t]]_vars

(* docs/CALENDAR_APPLY.md: the event of a completed Task takes no operation. *)
CompletedIsFrozen ==
  [][\A t \in Works : Projects(t) => ~(Completed(t) /\ applied[t] # Nothing)]_vars

(* docs/CALENDAR_MOVE_RESIZE.md: it is a window change on the Calendar that  *)
(* moves a Static Task.                                                      *)
MoveNeedsDrag ==
  [][\A t \in Things :
       (job.kind = "gestures" /\ job' # job /\ task'[t].window # task[t].window)
         => job.observed[t].at # applied[t].at]_vars

=============================================================================
