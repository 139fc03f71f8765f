--------------------- MODULE CalendarProjection_proofs ---------------------
(***************************************************************************)
(* Theorems about CalendarProjection, for every value of the constants:    *)
(* the state is well typed, the belief about the Calendar is exact but for *)
(* named causes, an approval does what its preview said, a meeting of the  *)
(* owner is written only for the Task captured from it and never deleted,  *)
(* and one colouring of an event completes its Task at most once.          *)
(***************************************************************************)
EXTENDS CalendarProjection, TLAPS

(* What a job is, by its kind. *)
LEMMA JobShapes ==
  ASSUME job \in Job
  PROVE  /\ job.kind \in {"free", "preview", "approve", "gestures", "admit"}
         /\ job.kind = "preview" => job.plan \in Events
         /\ job.kind = "approve" =>
              /\ job \in [kind : {"approve"}, preview : Preview, landed : Events, todo : SUBSET Things]
              /\ job.preview \in Preview /\ job.landed \in Events
              /\ job.todo \subseteq Things
         /\ job.kind = "gestures" =>
              /\ job \in [kind : {"gestures"}, observed : Events, record : Events,
                          todo : SUBSET [kind : Gestures, on : Things], flipped : SUBSET Things]
              /\ job.observed \in Events /\ job.record \in Events
              /\ job.todo \subseteq [kind : Gestures, on : Things]
              /\ job.flipped \subseteq Things
         /\ job.kind = "admit" =>
              /\ job \in [kind : {"admit"}, observed : Events, record : Events,
                          rows : [Things -> TaskState], todo : SUBSET Things]
              /\ job.observed \in Events /\ job.record \in Events
              /\ job.rows \in [Things -> TaskState]
              /\ job.todo \subseteq Things
  <1>1. CASE job = Free
    BY <1>1 DEF Free
  <1>2. CASE job \in [kind : {"preview"}, plan : Events]
    BY <1>2
  <1>3. CASE job \in [kind : {"approve"}, preview : Preview, landed : Events, todo : SUBSET Things]
    BY <1>3
  <1>4. CASE job \in [kind : {"gestures"}, observed : Events, record : Events,
                      todo : SUBSET [kind : Gestures, on : Things], flipped : SUBSET Things]
    BY <1>4
  <1>5. CASE job \in [kind : {"admit"}, observed : Events, record : Events,
                      rows : [Things -> TaskState], todo : SUBSET Things]
    BY <1>5
  <1> QED
    BY <1>1, <1>2, <1>3, <1>4, <1>5 DEF Job

(* An operation that takes a step is not free. *)
LEMMA FreeKind == Free.kind = "free" /\ Free \in Job
  BY DEF Free, Job

(* What is listed was on the Calendar, as it is listed. *)
LEMMA ListedEvents ==
  ASSUME calendar \in Events
  PROVE  /\ Listed(calendar) \in Events /\ Recent \in Events
         /\ \A t \in Things : Listed(calendar)[t] # Nothing => Listed(calendar)[t] = calendar[t]
         /\ \A t \in Things : Recent[t] # Nothing => Recent[t] = calendar[t]
  BY DEF Listed, Recent, Events

(* A preview is well typed. *)
LEMMA PreviewOfTyped ==
  ASSUME TypeOK, NEW steps \in Events
  PROVE  PreviewOf(steps) \in Preview
  <1> DEFINE wanted  == DesiredEvents(steps)
             kept    == PreserveCompleted(wanted)
             desired == CurrentStaticWindows(kept)
  <1>1. wanted \in Events
    BY DEF TypeOK, DesiredEvents, Events, Event
  <1>2. kept \in Events
    BY <1>1 DEF TypeOK, PreserveCompleted, Events
  <1>3. desired \in Events
    BY <1>2 DEF TypeOK, CurrentStaticWindows, Events, Event, TaskState, Static
  <1>4. Diff(desired, applied, Retained) \in [Things -> Kinds]
    BY DEF Diff, Kinds
  <1>5. SpareMeetings(Diff(desired, applied, Retained)) \in [Things -> Kinds]
    BY <1>4 DEF SpareMeetings, Kinds
  <1> QED
    BY <1>3, <1>5 DEF PreviewOf, Preview, TypeOK

(* The Task a gesture leaves is a Task. *)
LEMMA AfterGestureTyped ==
  ASSUME task \in [Things -> TaskState], NEW s \in [kind : Gestures, on : Things],
         job.observed[s.on] \in Event
  PROVE  AfterGesture(s) \in TaskState
  <1>1. /\ job.observed[s.on].at \in Windows /\ Length[job.observed[s.on].at] \in Lengths
        /\ task[s.on] \in TaskState /\ s.kind \in Gestures
    BY DEF Event, Lengths
  <1>2. CASE s.kind = "move"
    BY <1>1, <1>2 DEF AfterGesture, TaskState
  <1>3. CASE s.kind = "resize"
    BY <1>1, <1>3 DEF AfterGesture, TaskState
  <1>4. CASE s.kind = "complete"
    BY <1>1, <1>4 DEF AfterGesture, TaskState
  <1>5. CASE s.kind = "reopen"
    BY <1>1, <1>5 DEF AfterGesture, TaskState
  <1> QED
    BY <1>1, <1>2, <1>3, <1>4, <1>5 DEF Gestures

(* So is the one that an admitted event makes. *)
LEMMA CapturedRowTyped ==
  ASSUME job.rows \in [Things -> TaskState], NEW t \in Things, job.observed[t] \in Event
  PROVE  CapturedRow(t) \in TaskState /\ CapturedRow(t).status = "active"
  BY DEF CapturedRow, Row, TaskState, Event, Lengths

(* A capture only acts on events it observed. *)
ActsOnObserved ==
  /\ job.kind = "gestures" =>
       /\ \A s \in job.todo : job.observed[s.on] # Nothing
       /\ \A t \in job.flipped : job.observed[t] # Nothing
  /\ job.kind = "admit" => \A t \in job.todo : job.observed[t] # Nothing

TypeInv == TypeOK /\ ActsOnObserved

LEMMA TypeInit == Init => TypeInv
  <1> SUFFICES ASSUME Init PROVE TypeInv
    OBVIOUS
  <1>1. NoEvents \in Events
    BY DEF NoEvents, Events
  <1>2. job \in Job /\ job.kind = "free"
    BY FreeKind DEF Init
  <1> QED
    BY <1>1, <1>2 DEF Init, TypeInv, TypeOK, ActsOnObserved

LEMMA PreviewTyped ==
  ASSUME TypeInv, PreviewStep
  PROVE  TypeInv'
  <1> USE DEF TypeInv
  <1>1. CASE PreviewRead
    <2>1. job' \in Job /\ job'.kind = "preview"
      BY <1>1 DEF PreviewRead, TypeOK, Job
    <2> QED
      BY <1>1, <2>1 DEF PreviewRead, TypeOK, ActsOnObserved
  <1>2. CASE PreviewStore
    <2>1. job.plan \in Events
      BY <1>2, JobShapes DEF PreviewStore, TypeOK
    <2>2. previews' \subseteq Preview
      BY <1>2, <2>1, PreviewOfTyped DEF PreviewStore, Stored, TypeOK
    <2>3. job' \in Job /\ job'.kind = "free"
      BY <1>2, FreeKind DEF PreviewStore
    <2> QED
      BY <1>2, <2>2, <2>3 DEF PreviewStore, TypeOK, ActsOnObserved
  <1> QED
    BY <1>1, <1>2 DEF PreviewStep

LEMMA ApproveTyped ==
  ASSUME TypeInv, ApproveStep
  PROVE  TypeInv'
  <1> USE DEF TypeInv
  <1>0. /\ job \in Job /\ applied \in Events /\ calendar \in Events
        /\ previews \subseteq Preview
    BY DEF TypeOK
  <1>1. ASSUME NEW p \in previews, ApproveStart(p)  PROVE TypeInv'
    <2>1. job' \in Job /\ job'.kind = "approve"
      BY <1>0, <1>1 DEF ApproveStart, Job
    <2> QED
      BY <1>1, <2>1 DEF ApproveStart, TypeOK, ActsOnObserved
  <1>2. ASSUME NEW t \in Things, CallLands(t) \/ CallFails(t) \/ AnswerLost(t)  PROVE TypeInv'
    <2>1. /\ job.kind = "approve" /\ t \in job.todo
          /\ job \in [kind : {"approve"}, preview : Preview, landed : Events, todo : SUBSET Things]
      BY <1>0, <1>2, JobShapes DEF CallLands, CallFails, AnswerLost, NextCall
    <2>2. job.preview.desired \in Events
      BY <2>1 DEF Preview
    <2>3. job.preview.desired[t] \in Event \union {Nothing}
      BY <2>2 DEF Events
    <2>4. job' \in [kind : {"approve"}, preview : Preview, landed : Events, todo : SUBSET Things]
      <3>1. CASE CallLands(t)
        <4> DEFINE lands == IF job.preview.ops[t] = "delete" THEN Nothing
                            ELSE job.preview.desired[t]
                   landed == [job.landed EXCEPT ![t] = lands]
        <4>1. landed \in Events
          BY <2>1, <2>3 DEF Events
        <4>2. job' = [[job EXCEPT !.todo = @ \ {t}] EXCEPT !.landed = landed]
          BY <2>1, <3>1 DEF CallLands
        <4> HIDE DEF landed
        <4> QED
          BY <2>1, <4>1, <4>2
      <3>2. CASE CallFails(t)
        BY <2>1, <3>2 DEF CallFails
      <3>3. CASE AnswerLost(t)
        BY <2>1, <3>3 DEF AnswerLost
      <3> QED
        BY <1>2, <3>1, <3>2, <3>3
    <2>5. job' \in Job /\ job'.kind = "approve"
      BY <2>4 DEF Job
    <2>6. calendar' \in Events
      BY <1>0, <1>2, <2>3 DEF CallLands, CallFails, AnswerLost, Events
    <2>7. outside' \in Nat /\ astray' \subseteq Things
      BY <1>2 DEF CallLands, CallFails, AnswerLost, Outside, TypeOK
    <2>8. UNCHANGED <<task, plan, applied, previews, observations, coloured>>
      BY <1>2 DEF CallLands, CallFails, AnswerLost
    <2> QED
      BY <2>5, <2>6, <2>7, <2>8 DEF TypeOK, ActsOnObserved
  <1>3. CASE ApprovePersist
    <2>1. job.landed \in Events
      BY <1>0, <1>3, JobShapes DEF ApprovePersist
    <2> QED
      BY <1>3, <2>1, FreeKind DEF ApprovePersist, TypeOK, ActsOnObserved
  <1> QED
    BY <1>1, <1>2, <1>3 DEF ApproveStep

(* Gestures keep the job a capture of the same observation. *)
LEMMA GestureTyped ==
  ASSUME TypeInv, NEW s \in [kind : Gestures, on : Things],
         ApplyGesture(s) \/ RefuseGesture(s) \/ CompletionBreaks(s)
  PROVE  TypeInv'
  <1> USE DEF TypeInv
  <1>1. /\ job.kind = "gestures" /\ s \in job.todo
        /\ job \in [kind : {"gestures"}, observed : Events, record : Events,
                    todo : SUBSET [kind : Gestures, on : Things], flipped : SUBSET Things]
        /\ job.observed[s.on] \in Event
    <2>1. job.kind = "gestures" /\ s \in job.todo
      BY DEF ApplyGesture, RefuseGesture, CompletionBreaks, NextGesture
    <2>2. job \in [kind : {"gestures"}, observed : Events, record : Events,
                   todo : SUBSET [kind : Gestures, on : Things], flipped : SUBSET Things]
      BY <2>1, JobShapes DEF TypeOK
    <2>3. job.observed[s.on] \in Event \union {Nothing} /\ job.observed[s.on] # Nothing
      BY <2>1, <2>2 DEF ActsOnObserved, Events
    <2> QED
      BY <2>1, <2>2, <2>3
  <1>2. AfterGesture(s) \in TaskState
    BY <1>1, AfterGestureTyped DEF TypeOK
  <1>3. CASE ApplyGesture(s)
    <2>1. /\ job' \in [kind : {"gestures"}, observed : Events, record : Events,
                       todo : SUBSET [kind : Gestures, on : Things], flipped : SUBSET Things]
          /\ job'.observed = job.observed /\ job'.todo \subseteq job.todo
          /\ job'.flipped = job.flipped /\ job'.kind = "gestures"
      BY <1>1, <1>3 DEF ApplyGesture, Accept, Events
    <2>2. job' \in Job
      BY <2>1 DEF Job
    <2>3. task' \in [Things -> TaskState]
      BY <1>2, <1>3 DEF ApplyGesture, TypeOK
    <2> QED
      BY <1>1, <1>3, <2>1, <2>2, <2>3 DEF ApplyGesture, TypeOK, ActsOnObserved
  <1>4. CASE RefuseGesture(s)
    <2>1. /\ job' \in [kind : {"gestures"}, observed : Events, record : Events,
                       todo : SUBSET [kind : Gestures, on : Things], flipped : SUBSET Things]
          /\ job'.observed = job.observed /\ job'.todo \subseteq job.todo
          /\ job'.flipped = job.flipped /\ job'.kind = "gestures"
      BY <1>1, <1>4 DEF RefuseGesture
    <2>2. job' \in Job
      BY <2>1 DEF Job
    <2> QED
      BY <1>1, <1>4, <2>1, <2>2 DEF RefuseGesture, TypeOK, ActsOnObserved
  <1>5. CASE CompletionBreaks(s)
    <2>1. task' \in [Things -> TaskState]
      BY <1>5 DEF CompletionBreaks, TypeOK, TaskState
    <2> QED
      BY <1>5, <2>1, FreeKind DEF CompletionBreaks, TypeOK, ActsOnObserved, Outside, Things
  <1> QED
    BY <1>3, <1>4, <1>5

LEMMA CaptureTyped ==
  ASSUME TypeInv, CaptureStep
  PROVE  TypeInv'
  <1> USE DEF TypeInv
  <1>1. CASE CaptureList
    <2>1. Recent \in Events
      BY ListedEvents DEF TypeOK
    <2>2. Detected(Recent) \subseteq [kind : Gestures, on : Things]
      BY DEF Detected, Owned, Gestures
    <2>3. \A s \in Detected(Recent) : Recent[s.on] # Nothing
      BY DEF Detected, Owned
    <2>4. \A t \in Owned(Recent) : t \in Things /\ Recent[t] # Nothing
      BY DEF Owned
    <2>5. /\ job' = [kind |-> "gestures", observed |-> Recent, record |-> applied,
                     todo |-> Detected(Recent),
                     flipped |-> {t \in Owned(Recent) : Recent[t].coloured # applied[t].coloured}]
          /\ UNCHANGED <<task, plan, calendar, applied, previews, observations, astray, coloured, outside>>
      BY <1>1 DEF CaptureList
    <2>6. job' \in [kind : {"gestures"}, observed : Events, record : Events,
                    todo : SUBSET [kind : Gestures, on : Things], flipped : SUBSET Things]
      BY <2>1, <2>2, <2>4, <2>5 DEF TypeOK
    <2>7. job' \in Job
      BY <2>6 DEF Job
    <2> QED
      BY <2>3, <2>4, <2>5, <2>7 DEF TypeOK, ActsOnObserved
  <1>2. CASE GestureStep
    BY <1>2, GestureTyped DEF GestureStep
  <1>3. CASE CaptureClassify
    <2>1. /\ job.observed \in Events /\ job.record \in Events /\ job.kind = "gestures"
          /\ job.flipped \subseteq Things
      BY <1>3, JobShapes DEF CaptureClassify, TypeOK
    <2>2. \A t \in Candidates : t \in Things /\ job.observed[t] # Nothing
      BY <2>1 DEF Candidates, Foreign, ActsOnObserved
    <2>3. job' \in [kind : {"admit"}, observed : Events, record : Events,
                    rows : [Things -> TaskState], todo : SUBSET Things]
      BY <1>3, <2>1, <2>2 DEF CaptureClassify, TypeOK
    <2>4. job' \in Job
      BY <2>3 DEF Job
    <2> QED
      BY <1>3, <2>2, <2>4 DEF CaptureClassify, TypeOK, ActsOnObserved
  <1>4. ASSUME NEW t \in Things, AdmitCaptured(t)  PROVE TypeInv'
    <2>1. /\ job.kind = "admit" /\ t \in job.todo
          /\ job \in [kind : {"admit"}, observed : Events, record : Events,
                      rows : [Things -> TaskState], todo : SUBSET Things]
      BY <1>4, JobShapes DEF AdmitCaptured, TypeOK
    <2>2. job.observed[t] \in Event
      BY <2>1 DEF ActsOnObserved, Events
    <2>3. CapturedRow(t) \in TaskState
      BY <2>1, <2>2, CapturedRowTyped
    <2>4. /\ job' \in [kind : {"admit"}, observed : Events, record : Events,
                       rows : [Things -> TaskState], todo : SUBSET Things]
          /\ job'.observed = job.observed /\ job'.todo \subseteq job.todo
          /\ job'.kind = "admit"
      BY <1>4, <2>1, <2>2 DEF AdmitCaptured, Events
    <2>5. job' \in Job
      BY <2>4 DEF Job
    <2>6. task' \in [Things -> TaskState]
      BY <1>4, <2>3 DEF AdmitCaptured, TypeOK
    <2> QED
      BY <1>4, <2>1, <2>4, <2>5, <2>6 DEF AdmitCaptured, TypeOK, ActsOnObserved
  <1>5. ASSUME NEW t \in Things, AdmitConflict(t)  PROVE TypeInv'
    BY <1>5, FreeKind DEF AdmitConflict, TypeOK, ActsOnObserved, Things
  <1>6. CASE CapturePersist
    <2>1. job.record \in Events
      BY <1>6, JobShapes DEF CapturePersist, TypeOK
    <2> QED
      BY <1>6, <2>1, FreeKind DEF CapturePersist, TypeOK, ActsOnObserved
  <1> QED
    BY <1>1, <1>2, <1>3, <1>4, <1>5, <1>6 DEF CaptureStep

LEMMA ReconcileTyped ==
  ASSUME TypeInv, ReconcileStep
  PROVE  TypeInv'
  <1> USE DEF TypeInv
  <1>1. CASE Reconcile
    <2>1. [applied |-> applied, observed |-> Listed(calendar)] \in Observation
      BY ListedEvents DEF Observation, TypeOK
    <2>2. observations' \subseteq Observation
      BY <1>1, <2>1 DEF Reconcile, Stored, TypeOK
    <2> QED
      BY <1>1, <2>2 DEF Reconcile, TypeOK, ActsOnObserved
  <1>2. ASSUME NEW o \in observations, Repair(o)  PROVE TypeInv'
    <2>1. Repaired(o) \in Events
      BY DEF Repaired, TypeOK, Observation, Events
    <2>2. astray' \subseteq Things
      BY <1>2 DEF Repair, TypeOK, Outdated
    <2>3. coloured' \subseteq Things
      BY <1>2 DEF Repair, TypeOK, Things
    <2> QED
      BY <1>2, <2>1, <2>2, <2>3, FreeKind DEF Repair, TypeOK, ActsOnObserved
  <1> QED
    BY <1>1, <1>2 DEF ReconcileStep

LEMMA OutsideTyped ==
  ASSUME TypeInv, OutsideStep
  PROVE  TypeInv'
  <1> USE DEF TypeInv
  <1>1. ASSUME NEW t \in Things, NEW event \in Event \union {Nothing}, OwnerEdit(t, event)
        PROVE  TypeInv'
    <2>1. calendar' \in Events
      BY <1>1 DEF OwnerEdit, TypeOK, Events
    <2> QED
      BY <1>1, <2>1 DEF OwnerEdit, Outside, TypeOK, ActsOnObserved
  <1>2. ASSUME NEW t \in Things, AppAct(t)  PROVE TypeInv'
    <2>1. AppActions(t) \subseteq TaskState
      <3>1. task[t] \in TaskState
        BY DEF TypeOK
      <3>2. [task[t] EXCEPT !.status = "completed", !.done = "app"] \in TaskState
        BY <3>1 DEF TaskState
      <3>3. \A w \in Windows : [task[t] EXCEPT !.window = w, !.length = Length[w]] \in TaskState
        BY <3>1 DEF TaskState, Lengths
      <3>4. \A l \in Lengths : [task[t] EXCEPT !.length = l] \in TaskState
        BY <3>1 DEF TaskState
      <3>5. [task[t] EXCEPT !.status = "active"] \in TaskState
        BY <3>1 DEF TaskState
      <3> QED
        BY <3>2, <3>3, <3>4, <3>5 DEF AppActions
    <2>2. task' \in [Things -> TaskState]
      BY <1>2, <2>1 DEF AppAct, TypeOK
    <2> QED
      BY <1>2, <2>2 DEF AppAct, Outside, TypeOK, ActsOnObserved
  <1>3. CASE Generate
    BY <1>3 DEF Generate, Outside, TypeOK, ActsOnObserved
  <1> QED
    BY <1>1, <1>2, <1>3 DEF OutsideStep

LEMMA StopTyped ==
  ASSUME TypeInv, Stop
  PROVE  TypeInv'
  BY FreeKind DEF TypeInv, Stop, Outside, TypeOK, ActsOnObserved, Things

(* Every reachable state is well typed, and a capture acts only on events   *)
(* it observed.                                                             *)
THEOREM TypeInvariant == Spec => []TypeInv
  <1>1. TypeInv /\ [Next]_vars => TypeInv'
    <2> SUFFICES ASSUME TypeInv, [Next]_vars PROVE TypeInv'
      OBVIOUS
    <2>1. CASE UNCHANGED vars
      BY <2>1 DEF vars, TypeInv, TypeOK, ActsOnObserved
    <2> QED
      BY <2>1, PreviewTyped, ApproveTyped, CaptureTyped, ReconcileTyped,
         OutsideTyped, StopTyped DEF Next
  <1> QED
    BY <1>1, TypeInit, PTL DEF Spec

(* Every reachable state of the Calendar projection is well typed. *)
THEOREM TypeCorrect == Spec => []TypeOK
  BY TypeInvariant, PTL DEF TypeInv

-----------------------------------------------------------------------------
(* What a capture is about to record is what is on record already, or what  *)
(* it observed; and what it observed is still on the Calendar, unless the   *)
(* owner edited it since.                                                   *)
CaptureInv ==
  job.kind \in {"gestures", "admit"} =>
    \A t \in Things :
      /\ \/ job.record[t] = applied[t]
         \/ job.observed[t] # Nothing /\ job.record[t] = job.observed[t]
      /\ t \notin astray /\ job.observed[t] # Nothing => calendar[t] = job.observed[t]

(* An approval works from the record its preview saw, and what it has still *)
(* to do has not landed.                                                    *)
ApproveInv ==
  job.kind = "approve" =>
    /\ job.preview.existing = applied
    /\ \A t \in job.todo : job.landed[t] = applied[t]

BeliefInv == BeliefExact /\ CaptureInv /\ ApproveInv

(* A job that is not an approval believes the record. *)
LEMMA BeliefIsRecord ==
  ASSUME job.kind # "approve"
  PROVE  Belief = applied
  BY DEF Belief

LEMMA BeliefInit == Init => BeliefInv
  BY DEF Init, BeliefInv, BeliefExact, Belief, CaptureInv, ApproveInv, Free, NoEvents, Things

LEMMA PreviewBelieves ==
  ASSUME TypeInv, BeliefInv, PreviewStep
  PROVE  BeliefInv'
  <1>1. /\ job.kind # "approve" /\ job'.kind \in {"free", "preview"}
        /\ UNCHANGED <<calendar, applied, astray>>
    BY DEF PreviewStep, PreviewRead, PreviewStore, Free
  <1> QED
    BY <1>1 DEF BeliefInv, BeliefExact, Belief, CaptureInv, ApproveInv

(* An approval that starts believes the record; a call that lands changes   *)
(* the belief and the Calendar alike; one that fails changes neither; one   *)
(* whose answer is lost is a named cause.                                   *)
LEMMA ApproveBelieves ==
  ASSUME TypeInv, BeliefInv, ApproveStep
  PROVE  BeliefInv'
  <1>1. ASSUME NEW p \in previews, ApproveStart(p)  PROVE BeliefInv'
    BY <1>1 DEF ApproveStart, SameBase, Free, BeliefInv, BeliefExact, Belief, CaptureInv, ApproveInv
  <1>2. ASSUME NEW t \in Things, CallLands(t) \/ CallFails(t) \/ AnswerLost(t)
        PROVE  BeliefInv'
    <2> DEFINE lands == IF job.preview.ops[t] = "delete" THEN Nothing
                        ELSE job.preview.desired[t]
    <2>1. /\ job.kind = "approve" /\ t \in job.todo /\ job.todo \subseteq Things
          /\ job \in [kind : {"approve"}, preview : Preview, landed : Events, todo : SUBSET Things]
          /\ job.landed \in Events
      BY <1>2, JobShapes DEF TypeInv, TypeOK, CallLands, CallFails, AnswerLost, NextCall
    <2>2. calendar \in Events /\ astray \subseteq Things
      BY DEF TypeInv, TypeOK
    <2>3. /\ job'.kind = "approve" /\ job'.preview = job.preview
          /\ job'.todo = job.todo \ {t} /\ applied' = applied
      <3>1. CASE CallLands(t)
        BY <2>1, <3>1 DEF CallLands
      <3>2. CASE CallFails(t)
        BY <2>1, <3>2 DEF CallFails
      <3>3. CASE AnswerLost(t)
        BY <2>1, <3>3 DEF AnswerLost
      <3> QED
        BY <1>2, <3>1, <3>2, <3>3
    <2>4. \A u \in Things \ {t} : job'.landed[u] = job.landed[u] /\ calendar'[u] = calendar[u]
      <3>1. CASE CallLands(t)
        BY <2>1, <2>2, <3>1 DEF CallLands, Events
      <3>2. CASE CallFails(t)
        BY <2>1, <3>2 DEF CallFails
      <3>3. CASE AnswerLost(t)
        BY <2>1, <2>2, <3>3 DEF AnswerLost, Events
      <3> QED
        BY <1>2, <3>1, <3>2, <3>3
    <2>5. \A u \in Things \ {t} : u \in astray' <=> u \in astray
      BY <1>2 DEF CallLands, CallFails, AnswerLost
    <2>6. CASE CallLands(t)
      <3>1. job'.landed[t] = lands /\ calendar'[t] = lands
        BY <2>1, <2>2, <2>6 DEF CallLands, Events
      <3> HIDE DEF lands
      <3> QED
        BY <2>1, <2>3, <2>4, <2>5, <3>1 DEF BeliefInv, BeliefExact, Belief, CaptureInv, ApproveInv
    <2>7. CASE CallFails(t)
      <3>1. job'.landed[t] = job.landed[t] /\ calendar' = calendar /\ astray' = astray
        BY <2>1, <2>7 DEF CallFails
      <3> QED
        BY <2>1, <2>3, <2>4, <2>5, <3>1 DEF BeliefInv, BeliefExact, Belief, CaptureInv, ApproveInv
    <2>8. CASE AnswerLost(t)
      <3>1. job'.landed[t] = job.landed[t] /\ t \in astray'
        BY <2>1, <2>8 DEF AnswerLost
      <3> QED
        BY <2>1, <2>3, <2>4, <2>5, <3>1 DEF BeliefInv, BeliefExact, Belief, CaptureInv, ApproveInv
    <2> QED
      BY <1>2, <2>6, <2>7, <2>8
  <1>3. CASE ApprovePersist
    BY <1>3 DEF ApprovePersist, Free, BeliefInv, BeliefExact, Belief, CaptureInv, ApproveInv
  <1> QED
    BY <1>1, <1>2, <1>3 DEF ApproveStep

(* A capture leaves the belief alone until it stores its record. *)
LEMMA CaptureBelieves ==
  ASSUME TypeInv, BeliefInv, CaptureStep
  PROVE  BeliefInv'
  <1>0. calendar \in Events /\ applied \in Events /\ job \in Job
    BY DEF TypeInv, TypeOK
  <1>1. CASE CaptureList
    <2>1. /\ job.kind = "free" /\ job'.kind = "gestures"
          /\ job'.record = applied /\ job'.observed = Recent
          /\ UNCHANGED <<calendar, applied, astray>>
      BY <1>1 DEF CaptureList, Free
    <2>2. \A t \in Things : Recent[t] # Nothing => Recent[t] = calendar[t]
      BY <1>0, ListedEvents
    <2> HIDE DEF Recent
    <2> QED
      BY <2>1, <2>2 DEF BeliefInv, BeliefExact, Belief, CaptureInv, ApproveInv
  <1>2. ASSUME NEW s \in [kind : Gestures, on : Things],
               ApplyGesture(s) \/ RefuseGesture(s) \/ CompletionBreaks(s)
        PROVE  BeliefInv'
    <2>1. /\ job.kind = "gestures" /\ s \in job.todo
          /\ UNCHANGED <<calendar, applied, astray>>
      BY <1>2 DEF ApplyGesture, RefuseGesture, CompletionBreaks, NextGesture
    <2>2. /\ job \in [kind : {"gestures"}, observed : Events, record : Events,
                      todo : SUBSET [kind : Gestures, on : Things], flipped : SUBSET Things]
          /\ job.observed[s.on] # Nothing
      BY <1>0, <2>1, JobShapes DEF TypeInv, ActsOnObserved
    <2>3. CASE ApplyGesture(s)
      <3>1. /\ job'.kind = "gestures" /\ job'.observed = job.observed
            /\ job'.record = [job.record EXCEPT ![s.on] = job.observed[s.on]]
        BY <2>2, <2>3 DEF ApplyGesture, Accept
      <3>2. \A t \in Things : job'.record[t] = IF t = s.on THEN job.observed[t] ELSE job.record[t]
        BY <2>2, <3>1 DEF Events
      <3> QED
        BY <2>1, <2>2, <3>1, <3>2 DEF BeliefInv, BeliefExact, Belief, CaptureInv, ApproveInv
    <2>4. CASE RefuseGesture(s)
      <3>1. /\ job'.kind = "gestures" /\ job'.observed = job.observed
            /\ job'.record = job.record
        BY <2>2, <2>4 DEF RefuseGesture
      <3> QED
        BY <2>1, <3>1 DEF BeliefInv, BeliefExact, Belief, CaptureInv, ApproveInv
    <2>5. CASE CompletionBreaks(s)
      BY <2>1, <2>5 DEF CompletionBreaks, Free, BeliefInv, BeliefExact, Belief, CaptureInv, ApproveInv
    <2> QED
      BY <1>2, <2>3, <2>4, <2>5
  <1>3. CASE CaptureClassify
    <2>1. /\ job.kind = "gestures" /\ job'.kind = "admit"
          /\ job'.observed = job.observed /\ job'.record = job.record
          /\ UNCHANGED <<calendar, applied, astray>>
      BY <1>3 DEF CaptureClassify
    <2> QED
      BY <2>1 DEF BeliefInv, BeliefExact, Belief, CaptureInv, ApproveInv
  <1>4. ASSUME NEW t \in Things, AdmitCaptured(t)  PROVE BeliefInv'
    <2>1. /\ job.kind = "admit" /\ t \in job.todo
          /\ UNCHANGED <<calendar, applied, astray>>
      BY <1>4 DEF AdmitCaptured
    <2>2. /\ job \in [kind : {"admit"}, observed : Events, record : Events,
                      rows : [Things -> TaskState], todo : SUBSET Things]
          /\ job.observed[t] # Nothing
      BY <1>0, <2>1, JobShapes DEF TypeInv, ActsOnObserved
    <2>3. /\ job'.kind = "admit" /\ job'.observed = job.observed
          /\ job'.record = [job.record EXCEPT ![t] = job.observed[t]]
      BY <1>4, <2>2 DEF AdmitCaptured
    <2>4. \A u \in Things : job'.record[u] = IF u = t THEN job.observed[u] ELSE job.record[u]
      BY <2>2, <2>3 DEF Events
    <2> QED
      BY <2>1, <2>2, <2>3, <2>4 DEF BeliefInv, BeliefExact, Belief, CaptureInv, ApproveInv
  <1>5. ASSUME NEW t \in Things, AdmitConflict(t)  PROVE BeliefInv'
    BY <1>5 DEF AdmitConflict, Free, BeliefInv, BeliefExact, Belief, CaptureInv, ApproveInv
  <1>6. CASE CapturePersist
    <2>1. /\ job.kind = "admit" /\ job'.kind = "free"
          /\ applied' = job.record /\ calendar' = calendar
          /\ astray' = astray \ {t \in Things : /\ job.record[t] # applied[t]
                                                /\ job.record[t] = calendar[t]}
      BY <1>6 DEF CapturePersist, Free
    <2>2. ASSUME NEW t \in Things \ astray'
          PROVE  /\ applied'[t] # Nothing => calendar'[t] = applied'[t]
                 /\ applied'[t] = Nothing /\ t \in Works => calendar'[t] = Nothing
      <3>1. CASE t \notin astray
        BY <2>1, <3>1 DEF BeliefInv, BeliefExact, Belief, CaptureInv
      <3>2. CASE job.record[t] = calendar[t]
        BY <2>1, <3>2
      <3> QED
        BY <2>1, <2>2, <3>1, <3>2
    <2> QED
      BY <2>1, <2>2 DEF BeliefInv, BeliefExact, Belief, CaptureInv, ApproveInv
  <1> QED
    BY <1>1, <1>2, <1>3, <1>4, <1>5, <1>6 DEF CaptureStep, GestureStep

(* A repair from an observation that still describes the record and the     *)
(* Calendar makes the belief exact; any other is a named cause.             *)
LEMMA ReconcileBelieves ==
  ASSUME TypeInv, BeliefInv, ReconcileStep
  PROVE  BeliefInv'
  <1>1. CASE Reconcile
    BY <1>1 DEF Reconcile, Free, BeliefInv, BeliefExact, Belief, CaptureInv, ApproveInv
  <1>2. ASSUME NEW o \in observations, Repair(o)  PROVE BeliefInv'
    <2>1. /\ job.kind = "free" /\ job' = job /\ calendar' = calendar
          /\ applied' = Repaired(o)
          /\ astray' = (astray \ {t \in InRange(o) : o.observed[t] # Nothing})
                       \union Outdated(o)
      BY <1>2 DEF Repair, Free
    <2>2. ASSUME NEW t \in Things \ astray'
          PROVE  /\ applied'[t] # Nothing => calendar'[t] = applied'[t]
                 /\ applied'[t] = Nothing /\ t \in Works => calendar'[t] = Nothing
      <3>1. o.applied[t] = applied[t] /\ o.observed[t] = Listed(calendar)[t]
        BY <2>1, <2>2 DEF Outdated
      <3>2. t \notin astray \/ (t \in InRange(o) /\ o.observed[t] # Nothing)
        BY <2>1, <2>2
      <3>3. Listed(calendar)[t] # Nothing => Listed(calendar)[t] = calendar[t]
        BY ListedEvents DEF TypeInv, TypeOK
      <3>4. t \notin astray =>
              /\ applied[t] # Nothing => calendar[t] = applied[t]
              /\ applied[t] = Nothing /\ t \in Works => calendar[t] = Nothing
        BY <2>1 DEF BeliefInv, BeliefExact, Belief
      <3>5. CASE t \in InRange(o)
        <4>1. applied'[t] = Listed(calendar)[t] /\ applied[t] # Nothing /\ applied[t].at \in Horizon
          BY <2>1, <3>1, <3>5 DEF Repaired, InRange
        <4>2. Listed(calendar)[t] = Nothing => t \in astray
          BY <3>4, <4>1 DEF Listed
        <4> QED
          BY <2>1, <3>1, <3>2, <3>3, <4>1, <4>2
      <3>6. CASE t \notin InRange(o)
        BY <2>1, <3>1, <3>2, <3>4, <3>6 DEF Repaired
      <3> QED
        BY <3>5, <3>6
    <2> QED
      BY <2>1, <2>2 DEF BeliefInv, BeliefExact, Belief, CaptureInv, ApproveInv
  <1> QED
    BY <1>1, <1>2 DEF ReconcileStep

LEMMA OutsideBelieves ==
  ASSUME TypeInv, BeliefInv, OutsideStep
  PROVE  BeliefInv'
  <1>1. ASSUME NEW t \in Things, NEW event \in Event \union {Nothing}, OwnerEdit(t, event)
        PROVE  BeliefInv'
    <2>1. \A u \in Things \ {t} : calendar'[u] = calendar[u]
      BY <1>1 DEF OwnerEdit, TypeInv, TypeOK, Events
    <2>2. astray' = astray \union {t} /\ UNCHANGED <<applied, job>>
      BY <1>1 DEF OwnerEdit
    <2> QED
      BY <2>1, <2>2 DEF BeliefInv, BeliefExact, Belief, CaptureInv, ApproveInv
  <1>2. ASSUME NEW t \in Things, AppAct(t)  PROVE BeliefInv'
    BY <1>2 DEF AppAct, BeliefInv, BeliefExact, Belief, CaptureInv, ApproveInv
  <1>3. CASE Generate
    BY <1>3 DEF Generate, BeliefInv, BeliefExact, Belief, CaptureInv, ApproveInv
  <1> QED
    BY <1>1, <1>2, <1>3 DEF OutsideStep

(* What an approval that stops had landed is a named cause. *)
LEMMA StopBelieves ==
  ASSUME TypeInv, BeliefInv, Stop
  PROVE  BeliefInv'
  <1>1. job'.kind = "free" /\ UNCHANGED <<calendar, applied>>
    BY DEF Stop, Free
  <1>2. \A t \in Things \ astray' : t \notin astray /\ Belief[t] = applied[t]
    BY DEF Stop, Belief
  <1> QED
    BY <1>1, <1>2 DEF BeliefInv, BeliefExact, Belief, CaptureInv, ApproveInv

(* The invariant that makes BeliefExact inductive. *)
THEOREM BeliefInvariant == Spec => []BeliefInv
  <1>1. TypeInv /\ BeliefInv /\ [Next]_vars => BeliefInv'
    <2> SUFFICES ASSUME TypeInv, BeliefInv, [Next]_vars PROVE BeliefInv'
      OBVIOUS
    <2>1. CASE UNCHANGED vars
      BY <2>1 DEF vars, BeliefInv, BeliefExact, Belief, CaptureInv, ApproveInv
    <2> QED
      BY <2>1, PreviewBelieves, ApproveBelieves, CaptureBelieves, ReconcileBelieves,
         OutsideBelieves, StopBelieves DEF Next
  <1> QED
    BY <1>1, BeliefInit, TypeInvariant, PTL DEF Spec

(* What UbU believes it owns is on the Calendar as believed, and nothing it *)
(* minted is forgotten, but for the named causes.                           *)
THEOREM BeliefIsExact == Spec => []BeliefExact
  BY BeliefInvariant, PTL DEF BeliefInv

(* Only a call of an approval projects, and only the event it is about.     *)
LEMMA ProjectsByCall ==
  ASSUME TypeInv, [Next]_vars, NEW t \in Things, Projects(t)
  PROVE  t \in job.todo /\ (CallLands(t) \/ AnswerLost(t))
  <1>1. calendar'[t] # calendar[t] /\ job.kind = "approve" /\ job' # job
    BY DEF Projects
  <1>2. ASSUME NEW u \in Things, CallLands(u) \/ AnswerLost(u)
        PROVE  u = t
    BY <1>1, <1>2 DEF CallLands, AnswerLost, TypeInv, TypeOK, Events
  <1>3. PICK u \in Things : CallLands(u) \/ AnswerLost(u)
    <2>1. CASE ApproveStep
      BY <1>1, <2>1 DEF ApproveStep, ApproveStart, CallFails, ApprovePersist
    <2>2. CASE OutsideStep
      BY <1>1, <2>2 DEF OutsideStep, OwnerEdit, AppAct, Generate
    <2>3. CASE PreviewStep \/ CaptureStep \/ ReconcileStep \/ Stop \/ UNCHANGED vars
      BY <1>1, <2>3 DEF PreviewStep, PreviewRead, PreviewStore, CaptureStep, CaptureList,
         GestureStep, ApplyGesture, RefuseGesture, CompletionBreaks, CaptureClassify,
         AdmitCaptured, AdmitConflict, CapturePersist, ReconcileStep, Reconcile, Repair,
         Stop, vars
    <2> QED
      BY <2>1, <2>2, <2>3 DEF Next
  <1> QED
    BY <1>2, <1>3 DEF CallLands, AnswerLost, NextCall

(* An approval changes an event only from what its preview was computed     *)
(* against.                                                                 *)
THEOREM ApprovedAsPreviewed == Spec => AppliedAsPreviewed
  <1>1. ASSUME TypeInv, BeliefInv, [Next]_vars, NEW t \in Things,
               Projects(t), t \notin astray, t \in Works \/ applied[t] # Nothing
        PROVE  calendar[t] = job.preview.existing[t]
    <2>1. calendar'[t] # calendar[t] /\ job.kind = "approve" /\ job' # job
      BY <1>1 DEF Projects
    <2>2. t \in job.todo
      BY <1>1, ProjectsByCall
    <2>3. job.landed[t] = applied[t] /\ job.preview.existing = applied
      BY <1>1, <2>1, <2>2 DEF BeliefInv, ApproveInv
    <2> QED
      BY <1>1, <2>1, <2>3 DEF BeliefInv, BeliefExact, Belief
  <1>2. TypeInv /\ BeliefInv /\ [Next]_vars =>
          [\A t \in Things :
             (Projects(t) /\ t \notin astray /\ (t \in Works \/ applied[t] # Nothing))
               => calendar[t] = job.preview.existing[t]]_vars
    BY <1>1
  <1> QED
    BY <1>2, TypeInvariant, BeliefInvariant, PTL DEF Spec, AppliedAsPreviewed

-----------------------------------------------------------------------------
(* A preview names a meeting only for its captured Task, and deletes none.  *)
SparesMeetings(p) ==
  \A m \in Meetings :
    /\ p.ops[m] # "delete"
    /\ p.ops[m] # "keep" => Captured(m) /\ p.desired[m] # Nothing

(* A meeting that was not captured is nowhere in what UbU keeps.            *)
MeetingInv ==
  /\ \A p \in previews : SparesMeetings(p)
  /\ job.kind = "approve" =>
       /\ SparesMeetings(job.preview)
       /\ \A t \in job.todo : job.preview.ops[t] # "keep"
  /\ \A m \in Meetings : ~Captured(m) =>
       /\ plan[m] = Nothing /\ applied[m] = Nothing
       /\ \A o \in observations : o.applied[m] = Nothing
       /\ job.kind = "preview" => job.plan[m] = Nothing
       /\ job.kind = "approve" => job.landed[m] = Nothing
       /\ job.kind \in {"gestures", "admit"} => job.record[m] = Nothing
       /\ job.kind = "admit" => job.rows[m].status = "absent"

(* Captured Tasks stay: no step makes one absent again. *)
LEMMA CapturedStays ==
  ASSUME TypeInv, [Next]_vars, NEW m \in Meetings, Captured(m)
  PROVE  Captured(m)'
  <1>0. task \in [Things -> TaskState] /\ m \in Things /\ job \in Job
    BY DEF TypeInv, TypeOK, Things
  <1>1. ASSUME NEW s \in [kind : Gestures, on : Things], ApplyGesture(s) \/ CompletionBreaks(s)
        PROVE  Captured(m)'
    <2>1. CASE ApplyGesture(s)
      <3>1. \A t \in Things \ {s.on} : task'[t] = task[t]
        BY <1>0, <2>1 DEF ApplyGesture
      <3>2. task'[s.on] = AfterGesture(s)
        BY <1>0, <2>1 DEF ApplyGesture
      <3>3. task[s.on] \in TaskState /\ task[s.on].status # "absent"
        BY <1>0, <2>1 DEF ApplyGesture, Honoured, Active, Completed
      <3>4. AfterGesture(s).status # "absent"
        BY <3>3 DEF AfterGesture, TaskState
      <3> QED
        BY <1>0, <3>1, <3>2, <3>4 DEF Captured
    <2>2. CASE CompletionBreaks(s)
      BY <1>0, <2>2 DEF CompletionBreaks, Captured, TaskState
    <2> QED
      BY <1>1, <2>1, <2>2
  <1>2. ASSUME NEW t \in Things, AdmitCaptured(t)  PROVE Captured(m)'
    BY <1>0, <1>2 DEF AdmitCaptured, CapturedRow, Captured
  <1>3. ASSUME NEW t \in Things, AppAct(t)  PROVE Captured(m)'
    <2>1. task[t] \in TaskState
      BY <1>0
    <2>2. \A row \in AppActions(t) : row.status # "absent"
      BY <2>1 DEF AppActions, Active, TaskState
    <2> QED
      BY <1>0, <1>3, <2>2 DEF AppAct, Captured
  <1>4. CASE task' = task
    BY <1>4 DEF Captured
  <1> QED
    BY <1>1, <1>2, <1>3, <1>4 DEF Next, vars, PreviewStep, PreviewRead, PreviewStore,
       ApproveStep, ApproveStart, CallLands, CallFails, AnswerLost, ApprovePersist,
       CaptureStep, CaptureList, GestureStep, RefuseGesture, CaptureClassify,
       AdmitConflict, CapturePersist, ReconcileStep, Reconcile, Repair,
       OutsideStep, OwnerEdit, Generate, Stop

LEMMA MeetingInit == Init => MeetingInv
  BY DEF Init, MeetingInv, NoEvents, Free, Captured, Things

(* diff creates or updates what is desired, and deletes what exists. *)
LEMMA DiffKinds ==
  ASSUME NEW desired, NEW existing, NEW retained, NEW t \in Things
  PROVE  LET kind == Diff(desired, existing, retained)[t] IN
         /\ kind = "delete" => existing[t] # Nothing
         /\ kind \in {"create", "update"} => desired[t] # Nothing
         /\ kind \in Kinds
  <1>1. CASE t \in retained \/ desired[t] = existing[t]
    <2>1. Diff(desired, existing, retained)[t] = "keep"
      BY <1>1 DEF Diff
    <2> QED
      BY <2>1 DEF Kinds
  <1>2. CASE ~(t \in retained \/ desired[t] = existing[t]) /\ existing[t] = Nothing
    <2>1. Diff(desired, existing, retained)[t] = "create"
      BY <1>2 DEF Diff
    <2> QED
      BY <1>2, <2>1 DEF Kinds
  <1>3. CASE /\ ~(t \in retained \/ desired[t] = existing[t]) /\ existing[t] # Nothing
             /\ desired[t] = Nothing
    <2>1. Diff(desired, existing, retained)[t] = "delete"
      BY <1>3 DEF Diff
    <2> QED
      BY <1>3, <2>1 DEF Kinds
  <1>4. CASE /\ ~(t \in retained \/ desired[t] = existing[t]) /\ existing[t] # Nothing
             /\ desired[t] # Nothing
    <2>1. Diff(desired, existing, retained)[t] = "update"
      BY <1>4 DEF Diff
    <2> QED
      BY <1>4, <2>1 DEF Kinds
  <1> QED
    BY <1>1, <1>2, <1>3, <1>4

(* What preview decides of a meeting. *)
LEMMA PreviewSpares ==
  ASSUME TypeInv, NEW steps \in Events,
         \A m \in Meetings : ~Captured(m) => steps[m] = Nothing /\ applied[m] = Nothing
  PROVE  SparesMeetings(PreviewOf(steps))
  <1> DEFINE kept    == PreserveCompleted(DesiredEvents(steps))
             desired == CurrentStaticWindows(kept)
             ops     == Diff(desired, applied, Retained)
  <1> SUFFICES ASSUME NEW m \in Meetings
               PROVE  /\ SpareMeetings(ops)[m] # "delete"
                      /\ SpareMeetings(ops)[m] # "keep" => Captured(m) /\ desired[m] # Nothing
    BY DEF SparesMeetings, PreviewOf
  <1>1. m \in Things /\ m \notin Works
    BY CalendarConstants DEF Things
  <1>2. kept[m] = DesiredEvents(steps)[m]
    BY <1>1 DEF PreserveCompleted
  <1>3. kept[m] # Nothing => steps[m] # Nothing
    BY <1>1, <1>2 DEF DesiredEvents
  <1>4. desired[m] # Nothing => steps[m] # Nothing
    BY <1>1, <1>3 DEF CurrentStaticWindows
  <1> HIDE DEF kept, desired
  <1>5. /\ ops[m] = "delete" => applied[m] # Nothing
        /\ ops[m] \in {"create", "update"} => desired[m] # Nothing
        /\ ops[m] \in Kinds
    BY <1>1, DiffKinds
  <1>6. /\ SpareMeetings(ops)[m] = IF ops[m] = "delete" /\ Captured(m) THEN "keep" ELSE ops[m]
    BY <1>1 DEF SpareMeetings
  <1> HIDE DEF ops
  <1> QED
    BY <1>4, <1>5, <1>6 DEF Kinds

(* Sparing meetings is kept, since captured Tasks stay. *)
LEMMA SparingStays ==
  ASSUME TypeInv, [Next]_vars, NEW p, SparesMeetings(p)
  PROVE  SparesMeetings(p)'
  BY CapturedStays DEF SparesMeetings

LEMMA MeetingPreview ==
  ASSUME TypeInv, MeetingInv, PreviewStep
  PROVE  MeetingInv'
  <1>0. [Next]_vars
    BY DEF Next
  <1>1. CASE PreviewRead
    <2>1. /\ job'.kind = "preview" /\ job'.plan = plan
          /\ UNCHANGED <<task, plan, applied, previews, observations>>
      BY <1>1 DEF PreviewRead
    <2> QED
      BY <2>1 DEF MeetingInv, SparesMeetings, Captured
  <1>2. CASE PreviewStore
    <2>1. /\ job'.kind = "free" /\ job.kind = "preview" /\ job.plan \in Events
          /\ UNCHANGED <<task, plan, applied, observations>>
      BY <1>2, JobShapes DEF PreviewStore, Free, TypeInv, TypeOK
    <2>2. previews' \subseteq previews \union {PreviewOf(job.plan)}
      BY <1>2 DEF PreviewStore, Stored
    <2>3. SparesMeetings(PreviewOf(job.plan))
      BY <2>1, PreviewSpares DEF MeetingInv
    <2>4. \A p \in previews' : SparesMeetings(p)
      BY <2>2, <2>3 DEF MeetingInv
    <2>5. \A p \in previews' : SparesMeetings(p)'
      BY <2>1, <2>4 DEF SparesMeetings, Captured
    <2> QED
      BY <2>1, <2>5 DEF MeetingInv, Captured
  <1> QED
    BY <1>1, <1>2 DEF PreviewStep

LEMMA MeetingApprove ==
  ASSUME TypeInv, MeetingInv, ApproveStep
  PROVE  MeetingInv'
  <1>1. ASSUME NEW p \in previews, ApproveStart(p)  PROVE MeetingInv'
    <2>1. /\ job'.kind = "approve" /\ job'.preview = p /\ job'.landed = applied
          /\ job'.todo = {t \in Things : p.ops[t] # "keep"}
          /\ UNCHANGED <<task, plan, applied, previews, observations>>
      BY <1>1 DEF ApproveStart
    <2> QED
      BY <2>1 DEF MeetingInv, SparesMeetings, Captured
  <1>2. ASSUME NEW t \in Things, CallLands(t) \/ CallFails(t) \/ AnswerLost(t)
        PROVE  MeetingInv'
    <2>1. /\ job.kind = "approve" /\ t \in job.todo
          /\ job \in [kind : {"approve"}, preview : Preview, landed : Events, todo : SUBSET Things]
          /\ job.landed \in Events
          /\ UNCHANGED <<task, plan, applied, previews, observations>>
      BY <1>2, JobShapes DEF TypeInv, TypeOK, CallLands, CallFails, AnswerLost, NextCall
    <2>2. job.preview.ops[t] # "keep" /\ SparesMeetings(job.preview)
      BY <2>1 DEF MeetingInv
    <2>3. /\ job'.kind = "approve" /\ job'.preview = job.preview /\ job'.todo \subseteq job.todo
          /\ \A m \in Meetings : ~Captured(m) => job'.landed[m] = job.landed[m]
      <3>1. CASE CallLands(t)
        <4>1. /\ job'.kind = "approve" /\ job'.preview = job.preview /\ job'.todo \subseteq job.todo
              /\ \A u \in Things \ {t} : job'.landed[u] = job.landed[u]
          BY <2>1, <3>1 DEF CallLands, Events
        <4>2. t \in Meetings => Captured(t)
          BY <2>2 DEF SparesMeetings
        <4> QED
          BY <4>1, <4>2 DEF Things
      <3>2. CASE CallFails(t)
        BY <2>1, <3>2 DEF CallFails
      <3>3. CASE AnswerLost(t)
        BY <2>1, <3>3 DEF AnswerLost
      <3> QED
        BY <1>2, <3>1, <3>2, <3>3
    <2> QED
      BY <2>1, <2>2, <2>3 DEF MeetingInv, SparesMeetings, Captured
  <1>3. CASE ApprovePersist
    <2>1. /\ job.kind = "approve" /\ job'.kind = "free" /\ applied' = job.landed
          /\ UNCHANGED <<task, plan, previews, observations>>
      BY <1>3 DEF ApprovePersist, Free
    <2> QED
      BY <2>1 DEF MeetingInv, SparesMeetings, Captured
  <1> QED
    BY <1>1, <1>2, <1>3 DEF ApproveStep

LEMMA MeetingCapture ==
  ASSUME TypeInv, MeetingInv, CaptureStep
  PROVE  MeetingInv'
  <1>0. [Next]_vars /\ job \in Job /\ task \in [Things -> TaskState]
    BY DEF Next, TypeInv, TypeOK
  <1>1. CASE CaptureList
    <2>1. /\ job'.kind = "gestures" /\ job'.record = applied
          /\ UNCHANGED <<task, plan, applied, previews, observations>>
      BY <1>1 DEF CaptureList
    <2> QED
      BY <2>1 DEF MeetingInv, SparesMeetings, Captured
  <1>2. ASSUME NEW s \in [kind : Gestures, on : Things],
               ApplyGesture(s) \/ RefuseGesture(s) \/ CompletionBreaks(s)
        PROVE  MeetingInv'
    <2>1. /\ job.kind = "gestures"
          /\ job \in [kind : {"gestures"}, observed : Events, record : Events,
                      todo : SUBSET [kind : Gestures, on : Things], flipped : SUBSET Things]
          /\ UNCHANGED <<plan, applied, previews, observations>>
      BY <1>0, <1>2, JobShapes DEF ApplyGesture, RefuseGesture, CompletionBreaks, NextGesture
    <2>2. \A p \in previews : SparesMeetings(p)'
      BY <1>0, SparingStays DEF MeetingInv
    <2>3. \A m \in Meetings : ~Captured(m)' => ~Captured(m)
      BY <1>0, CapturedStays
    <2>4. CASE ApplyGesture(s)
      <3>1. /\ job'.kind = "gestures"
            /\ \A t \in Things \ {s.on} : job'.record[t] = job.record[t]
        BY <2>1, <2>4 DEF ApplyGesture, Accept, Events
      <3>2. s.on \in Meetings => Captured(s.on)
        BY <2>4 DEF ApplyGesture, Honoured, Active, Completed, Captured
      <3> QED
        BY <2>1, <2>2, <2>3, <3>1, <3>2 DEF MeetingInv, Things
    <2>5. CASE RefuseGesture(s)
      <3>1. job'.kind = "gestures" /\ job'.record = job.record
        BY <2>1, <2>5 DEF RefuseGesture
      <3> QED
        BY <2>1, <2>2, <2>3, <3>1 DEF MeetingInv
    <2>6. CASE CompletionBreaks(s)
      <3>1. job'.kind = "free"
        BY <2>6 DEF CompletionBreaks, Free
      <3> QED
        BY <2>1, <2>2, <2>3, <3>1 DEF MeetingInv
    <2> QED
      BY <1>2, <2>4, <2>5, <2>6
  <1>3. CASE CaptureClassify
    <2>1. /\ job.kind = "gestures" /\ job'.kind = "admit"
          /\ job'.record = job.record /\ job'.rows = task
          /\ UNCHANGED <<task, plan, applied, previews, observations>>
      BY <1>3 DEF CaptureClassify
    <2> QED
      BY <2>1 DEF MeetingInv, SparesMeetings, Captured
  <1>4. ASSUME NEW t \in Things, AdmitCaptured(t)  PROVE MeetingInv'
    <2>1. /\ job.kind = "admit" /\ t \in job.todo
          /\ job \in [kind : {"admit"}, observed : Events, record : Events,
                      rows : [Things -> TaskState], todo : SUBSET Things]
          /\ UNCHANGED <<plan, applied, previews, observations>>
      BY <1>0, <1>4, JobShapes DEF AdmitCaptured
    <2>2. \A p \in previews : SparesMeetings(p)'
      BY <1>0, SparingStays DEF MeetingInv
    <2>3. \A m \in Meetings : ~Captured(m)' => ~Captured(m)
      BY <1>0, CapturedStays
    <2>4. /\ job'.kind = "admit" /\ job'.rows = job.rows
          /\ \A u \in Things \ {t} : job'.record[u] = job.record[u]
      BY <1>4, <2>1 DEF AdmitCaptured, Events
    <2>5. t \in Meetings => Captured(t)'
      <3> SUFFICES ASSUME t \in Meetings PROVE Captured(t)'
        OBVIOUS
      <3>1. CASE CapturedRow(t) = Row(t)
        <4>1. job.rows[t].status = "active"
          BY <3>1 DEF CapturedRow, Row
        <4>2. Captured(t)
          BY <2>1, <4>1 DEF MeetingInv
        <4> QED
          BY <1>0, <4>2, CapturedStays
      <3>2. CASE CapturedRow(t) # Row(t)
        <4>1. task'[t].status = "active"
          BY <1>0, <1>4, <3>2 DEF AdmitCaptured, CapturedRow
        <4> QED
          BY <4>1 DEF Captured
      <3> QED
        BY <3>1, <3>2
    <2> QED
      BY <2>1, <2>2, <2>3, <2>4, <2>5 DEF MeetingInv, Things
  <1>5. ASSUME NEW t \in Things, AdmitConflict(t)  PROVE MeetingInv'
    <2>1. job'.kind = "free" /\ UNCHANGED <<task, plan, applied, previews, observations>>
      BY <1>5 DEF AdmitConflict, Free
    <2> QED
      BY <2>1 DEF MeetingInv, SparesMeetings, Captured
  <1>6. CASE CapturePersist
    <2>1. /\ job.kind = "admit" /\ job'.kind = "free" /\ applied' = job.record
          /\ UNCHANGED <<task, plan, previews, observations>>
      BY <1>6 DEF CapturePersist, Free
    <2> QED
      BY <2>1 DEF MeetingInv, SparesMeetings, Captured
  <1> QED
    BY <1>1, <1>2, <1>3, <1>4, <1>5, <1>6 DEF CaptureStep, GestureStep

LEMMA MeetingReconcile ==
  ASSUME TypeInv, MeetingInv, ReconcileStep
  PROVE  MeetingInv'
  <1>1. CASE Reconcile
    <2>1. /\ UNCHANGED <<task, plan, applied, previews, job>>
          /\ observations' \subseteq observations
               \union {[applied |-> applied, observed |-> Listed(calendar)]}
      BY <1>1 DEF Reconcile, Stored
    <2> QED
      BY <2>1 DEF MeetingInv, SparesMeetings, Captured
  <1>2. ASSUME NEW o \in observations, Repair(o)  PROVE MeetingInv'
    <2>1. /\ applied' = Repaired(o) /\ observations' \subseteq observations
          /\ UNCHANGED <<task, plan, previews, job>>
      BY <1>2 DEF Repair
    <2>2. \A m \in Meetings : o.applied[m] = Nothing => Repaired(o)[m] = Nothing
      BY DEF Repaired, InRange, Things
    <2> QED
      BY <2>1, <2>2 DEF MeetingInv, SparesMeetings, Captured
  <1> QED
    BY <1>1, <1>2 DEF ReconcileStep

(* Generate places Tasks that exist; the app acts on Tasks that exist. *)
LEMMA MeetingOutside ==
  ASSUME TypeInv, MeetingInv, OutsideStep \/ Stop
  PROVE  MeetingInv'
  <1>0. [Next]_vars
    BY DEF Next
  <1>1. ASSUME NEW t \in Things, NEW event \in Event \union {Nothing}, OwnerEdit(t, event)
        PROVE  MeetingInv'
    BY <1>1 DEF OwnerEdit, MeetingInv, SparesMeetings, Captured
  <1>2. ASSUME NEW t \in Things, AppAct(t)  PROVE MeetingInv'
    <2>1. UNCHANGED <<plan, applied, previews, observations, job>>
      BY <1>2 DEF AppAct
    <2>2. \A p : SparesMeetings(p) => SparesMeetings(p)'
      BY <1>0, CapturedStays DEF SparesMeetings
    <2>3. \A m \in Meetings : ~Captured(m)' => ~Captured(m)
      BY <1>0, CapturedStays
    <2> QED
      BY <2>1, <2>2, <2>3 DEF MeetingInv
  <1>3. CASE Generate
    <2>1. UNCHANGED <<task, applied, previews, observations, job>>
      BY <1>3 DEF Generate
    <2>2. \A m \in Meetings : ~Captured(m) => plan'[m] \in {Nothing, plan[m]}
      BY <1>3 DEF Generate, Placements, Active, Captured, Things
    <2> QED
      BY <2>1, <2>2 DEF MeetingInv, SparesMeetings, Captured
  <1>4. CASE Stop
    <2>1. job'.kind = "free" /\ UNCHANGED <<task, plan, applied, previews, observations>>
      BY <1>4 DEF Stop, Free
    <2> QED
      BY <2>1 DEF MeetingInv, SparesMeetings, Captured
  <1> QED
    BY <1>1, <1>2, <1>3, <1>4 DEF OutsideStep

(* Nothing UbU keeps names a meeting it did not capture, and no preview     *)
(* deletes one.                                                             *)
THEOREM MeetingInvariant == Spec => []MeetingInv
  <1>1. TypeInv /\ MeetingInv /\ [Next]_vars => MeetingInv'
    <2> SUFFICES ASSUME TypeInv, MeetingInv, [Next]_vars PROVE MeetingInv'
      OBVIOUS
    <2>1. CASE UNCHANGED vars
      BY <2>1 DEF vars, MeetingInv, SparesMeetings, Captured
    <2> QED
      BY <2>1, MeetingPreview, MeetingApprove, MeetingCapture, MeetingReconcile,
         MeetingOutside DEF Next
  <1> QED
    BY <1>1, MeetingInit, TypeInvariant, PTL DEF Spec

(* UbU writes to a meeting of the owner only for the Task captured from it, *)
(* and never deletes one.                                                   *)
THEOREM MeetingsSafe == Spec => MeetingsAreSafe
  <1>1. ASSUME TypeInv, MeetingInv, [Next]_vars, NEW m \in Meetings, Projects(m)
        PROVE  Captured(m) /\ calendar'[m] # Nothing
    <2>1. m \in Things
      BY DEF Things
    <2>2. m \in job.todo /\ (CallLands(m) \/ AnswerLost(m))
      BY <1>1, <2>1, ProjectsByCall
    <2>3. job.kind = "approve" /\ calendar \in Events
      BY <1>1 DEF Projects, TypeInv, TypeOK
    <2>4. /\ job.preview.ops[m] \notin {"keep", "delete"}
          /\ Captured(m) /\ job.preview.desired[m] # Nothing
      BY <1>1, <2>2, <2>3 DEF MeetingInv, SparesMeetings
    <2>5. calendar'[m] = job.preview.desired[m]
      BY <2>1, <2>2, <2>3, <2>4 DEF CallLands, AnswerLost, Events
    <2> QED
      BY <2>4, <2>5
  <1>2. TypeInv /\ MeetingInv /\ [Next]_vars =>
          [\A m \in Meetings : Projects(m) => Captured(m) /\ calendar'[m] # Nothing]_vars
    BY <1>1
  <1> QED
    BY <1>2, TypeInvariant, MeetingInvariant, PTL DEF Spec, MeetingsAreSafe

-----------------------------------------------------------------------------
(* No event, or one without a colour. *)
Plain(event) == event # Nothing => ~event.coloured

(* What a preview changes of an event, it leaves uncoloured. *)
PlainChange(p, t) == p.ops[t] # "keep" => Plain(p.desired[t])

(* An event that is coloured where UbU has it uncoloured was coloured since. *)
Explained(t, event) ==
  calendar[t] # Nothing /\ ~Plain(calendar[t]) /\ event # Nothing /\ Plain(event)
    => t \in coloured

(* Every completion a capture has still to apply is of a colouring. *)
Counted(j, t) ==
  \A s \in j.todo : s.kind = "complete" /\ s.on = t =>
    t \in coloured /\ j.observed[t] # Nothing /\ ~Plain(j.observed[t])

(* UbU never colours the event of Dynamic work: not in a Plan, a preview or *)
(* an approval.  So a colour UbU has not on record is the owner's, in       *)
(* whichever record the operation at hand will store.                       *)
Accounted(t) ==
  /\ Plain(plan[t])
  /\ \A p \in previews : PlainChange(p, t)
  /\ job.kind = "preview" => Plain(job.plan[t])
  /\ job.kind = "approve" => PlainChange(job.preview, t) /\ Explained(t, job.landed[t])
  /\ job.kind \notin {"gestures", "admit"} => Explained(t, applied[t])
  /\ job.kind \in {"gestures", "admit"} => Explained(t, job.record[t])
  /\ job.kind = "gestures" => Explained(t, job.observed[t]) /\ Counted(job, t)

ColourInv ==
  /\ job.kind = "admit" => job.todo \intersect Works = {}
  /\ \A t \in Works : ~Static(t) => Accounted(t)

LEMMA ColourInit == Init => ColourInv
  BY DEF Init, ColourInv, Accounted, Explained, Plain, NoEvents, Free, Things

(* Dynamic work stays Dynamic: no step gives it a window or takes one away. *)
LEMMA DynamicStays ==
  ASSUME TypeInv, ColourInv, [Next]_vars, NEW t \in Works
  PROVE  Static(t)' <=> Static(t)
  <1>0. /\ task \in [Things -> TaskState] /\ t \in Things /\ job \in Job
        /\ Nothing \notin Windows
    BY CalendarConstants DEF TypeInv, TypeOK, Things
  <1>1. ASSUME NEW s \in [kind : Gestures, on : Things], ApplyGesture(s)
        PROVE  Static(t)' <=> Static(t)
    <2>1. CASE s.on # t
      BY <1>0, <1>1, <2>1 DEF ApplyGesture, Static
    <2>2. CASE s.on = t
      <3>1. task'[t] = AfterGesture(s) /\ task[t] \in TaskState
        BY <1>0, <1>1, <2>2 DEF ApplyGesture
      <3>2. s.kind = "move" => Static(t) /\ job.observed[t].at \in Windows
        <4>1. job.kind = "gestures" /\ s \in job.todo
          BY <1>1 DEF ApplyGesture, NextGesture
        <4>2. job.observed \in Events /\ job.observed[t] # Nothing
          BY <1>0, <2>2, <4>1, JobShapes DEF TypeInv, ActsOnObserved
        <4>3. job.observed[t] \in Event
          BY <1>0, <4>2 DEF Events
        <4> QED
          BY <1>1, <2>2, <4>3 DEF ApplyGesture, Honoured, Event
      <3>3. s.kind = "move" => AfterGesture(s).window = job.observed[t].at
        BY <2>2, <3>1 DEF AfterGesture, TaskState
      <3>4. s.kind # "move" => AfterGesture(s).window = task[t].window
        BY <2>2, <3>1 DEF AfterGesture, TaskState
      <3> QED
        BY <1>0, <3>1, <3>2, <3>3, <3>4 DEF Static
    <2> QED
      BY <2>1, <2>2
  <1>2. ASSUME NEW s \in [kind : Gestures, on : Things], CompletionBreaks(s)
        PROVE  Static(t)' <=> Static(t)
    BY <1>0, <1>2 DEF CompletionBreaks, Static, TaskState
  <1>3. ASSUME NEW u \in Things, AdmitCaptured(u)  PROVE Static(t)' <=> Static(t)
    BY <1>0, <1>3 DEF AdmitCaptured, ColourInv, Static
  <1>4. ASSUME NEW u \in Things, AppAct(u)  PROVE Static(t)' <=> Static(t)
    <2>1. CASE u # t
      BY <1>0, <1>4, <2>1 DEF AppAct, Static
    <2>2. CASE u = t
      <3>1. PICK row \in AppActions(t) : task'[t] = row
        BY <1>0, <1>4, <2>2 DEF AppAct
      <3>2. task[t] \in TaskState
        BY <1>0
      <3>3. row.window # Nothing <=> task[t].window # Nothing
        BY <1>0, <3>1, <3>2 DEF AppActions, Static, TaskState
      <3> QED
        BY <3>1, <3>3 DEF Static
    <2> QED
      BY <2>1, <2>2
  <1>5. CASE task' = task
    BY <1>5 DEF Static
  <1> QED
    BY <1>1, <1>2, <1>3, <1>4, <1>5 DEF Next, vars, PreviewStep, PreviewRead, PreviewStore,
       ApproveStep, ApproveStart, CallLands, CallFails, AnswerLost, ApprovePersist,
       CaptureStep, CaptureList, GestureStep, RefuseGesture, CaptureClassify,
       AdmitConflict, CapturePersist, ReconcileStep, Reconcile, Repair,
       OutsideStep, OwnerEdit, Generate, Stop

(* What preview asks for Dynamic work is what the Plan does, or nothing. *)
LEMMA PreviewIsPlain ==
  ASSUME TypeInv, NEW steps \in Events, NEW t \in Works, ~Static(t), Plain(steps[t])
  PROVE  PlainChange(PreviewOf(steps), t)
  <1> DEFINE wanted  == DesiredEvents(steps)
             kept    == PreserveCompleted(wanted)
             desired == CurrentStaticWindows(kept)
             ops     == Diff(desired, applied, Retained)
  <1> SUFFICES ASSUME SpareMeetings(ops)[t] # "keep"
               PROVE  Plain(desired[t])
    BY DEF PlainChange, PreviewOf
  <1>1. t \in Things /\ t \notin Meetings
    BY CalendarConstants DEF Things
  <1>2. wanted[t] = steps[t]
    BY <1>1 DEF DesiredEvents, Captured
  <1>3. desired[t] = kept[t]
    BY <1>1 DEF CurrentStaticWindows
  <1>4. kept[t] = wanted[t] \/ t \in Retained
    BY <1>1 DEF PreserveCompleted, Retained
  <1> HIDE DEF wanted, kept, desired
  <1>5. t \in Retained => ops[t] = "keep"
    BY <1>1 DEF Diff
  <1>6. SpareMeetings(ops)[t] = ops[t]
    BY <1>1 DEF SpareMeetings, Captured
  <1> QED
    BY <1>2, <1>3, <1>4, <1>5, <1>6

LEMMA ColourPreview ==
  ASSUME TypeInv, ColourInv, PreviewStep
  PROVE  ColourInv'
  <1>1. CASE PreviewRead
    <2>1. /\ job.kind = "free" /\ job'.kind = "preview" /\ job'.plan = plan
          /\ UNCHANGED <<task, plan, calendar, applied, previews, coloured>>
      BY <1>1 DEF PreviewRead, Free
    <2> QED
      BY <2>1 DEF ColourInv, Accounted, Explained, Static, PlainChange
  <1>2. CASE PreviewStore
    <2>1. /\ job'.kind = "free" /\ job.kind = "preview" /\ job.plan \in Events
          /\ UNCHANGED <<task, plan, calendar, applied, coloured>>
      BY <1>2, JobShapes DEF PreviewStore, Free, TypeInv, TypeOK
    <2>2. previews' \subseteq previews \union {PreviewOf(job.plan)}
      BY <1>2 DEF PreviewStore, Stored
    <2>3. ASSUME NEW t \in Works, ~Static(t)  PROVE Accounted(t)'
      <3>1. Accounted(t) /\ Plain(job.plan[t])
        BY <2>1, <2>3 DEF ColourInv, Accounted
      <3>2. PlainChange(PreviewOf(job.plan), t)
        BY <2>1, <2>3, <3>1, PreviewIsPlain
      <3>3. \A p \in previews' : PlainChange(p, t)
        BY <2>2, <3>1, <3>2 DEF Accounted
      <3> QED
        BY <2>1, <3>1, <3>3 DEF Accounted, Explained, PlainChange
    <2> QED
      BY <2>1, <2>3 DEF ColourInv, Static
  <1> QED
    BY <1>1, <1>2 DEF PreviewStep

(* A call that lands leaves the event as UbU has it; one whose answer is    *)
(* lost leaves it uncoloured.                                               *)
LEMMA ColourApprove ==
  ASSUME TypeInv, MeetingInv, ColourInv, ApproveStep
  PROVE  ColourInv'
  <1>1. ASSUME NEW p \in previews, ApproveStart(p)  PROVE ColourInv'
    <2>1. /\ job.kind = "free" /\ job'.kind = "approve" /\ job'.preview = p
          /\ job'.landed = applied
          /\ UNCHANGED <<task, plan, calendar, applied, previews, coloured>>
      BY <1>1 DEF ApproveStart, Free
    <2> QED
      BY <2>1 DEF ColourInv, Accounted, Explained, Static, PlainChange
  <1>2. ASSUME NEW t \in Things, CallLands(t) \/ CallFails(t) \/ AnswerLost(t)
        PROVE  ColourInv'
    <2> DEFINE lands == IF job.preview.ops[t] = "delete" THEN Nothing
                        ELSE job.preview.desired[t]
    <2>1. /\ job.kind = "approve" /\ t \in job.todo
          /\ job \in [kind : {"approve"}, preview : Preview, landed : Events, todo : SUBSET Things]
          /\ job.landed \in Events /\ calendar \in Events
          /\ UNCHANGED <<task, plan, applied, previews, coloured>>
      BY <1>2, JobShapes DEF TypeInv, TypeOK, CallLands, CallFails, AnswerLost, NextCall
    <2>2. job.preview.ops[t] # "keep"
      BY <2>1 DEF MeetingInv
    <2>3. PlainChange(job.preview, t) => Plain(lands)
      BY <2>2 DEF PlainChange, Plain
    <2> HIDE DEF lands
    <2>4. /\ job'.kind = "approve" /\ job'.preview = job.preview
          /\ \A u \in Things \ {t} : job'.landed[u] = job.landed[u] /\ calendar'[u] = calendar[u]
          /\ \/ job'.landed[t] = lands /\ calendar'[t] = lands
             \/ job'.landed[t] = job.landed[t] /\ calendar'[t] \in {calendar[t], lands}
      <3>1. CASE CallLands(t)
        BY <2>1, <3>1 DEF CallLands, Events, lands
      <3>2. CASE CallFails(t)
        BY <2>1, <3>2 DEF CallFails
      <3>3. CASE AnswerLost(t)
        BY <2>1, <3>3 DEF AnswerLost, Events, lands
      <3> QED
        BY <1>2, <3>1, <3>2, <3>3
    <2>5. ASSUME NEW u \in Works, ~Static(u)  PROVE Accounted(u)'
      <3>1. u \in Things /\ Accounted(u)
        BY <2>5 DEF ColourInv, Things
      <3>2. PlainChange(job.preview, u) /\ Explained(u, job.landed[u]) /\ Explained(u, applied[u])
        BY <2>1, <3>1 DEF Accounted
      <3>3. u = t => Plain(lands)
        BY <2>3, <3>2
      <3>4. Explained(u, job.landed[u])'
        BY <2>1, <2>4, <3>1, <3>2, <3>3 DEF Explained
      <3>5. Explained(u, applied[u])'
        BY <2>1, <2>4, <3>1, <3>2, <3>3 DEF Explained
      <3> QED
        BY <2>1, <2>4, <3>1, <3>2, <3>4, <3>5 DEF Accounted, PlainChange
    <2> QED
      BY <2>1, <2>4, <2>5 DEF ColourInv, Static
  <1>3. CASE ApprovePersist
    <2>1. /\ job.kind = "approve" /\ job'.kind = "free" /\ applied' = job.landed
          /\ UNCHANGED <<task, plan, calendar, previews, coloured>>
      BY <1>3 DEF ApprovePersist, Free
    <2> QED
      BY <2>1 DEF ColourInv, Accounted, Explained, Static, PlainChange
  <1> QED
    BY <1>1, <1>2, <1>3 DEF ApproveStep

(* A capture detects a completion only in a colour that UbU has not on      *)
(* record, and records what it observed as it applies it.                   *)
LEMMA ColourGesture ==
  ASSUME TypeInv, ColourInv, NEW s \in [kind : Gestures, on : Things],
         ApplyGesture(s) \/ RefuseGesture(s) \/ CompletionBreaks(s)
  PROVE  ColourInv'
  <1>0. [Next]_vars
    BY DEF Next, CaptureStep, GestureStep
  <1>1. /\ job.kind = "gestures" /\ s \in job.todo
        /\ job \in [kind : {"gestures"}, observed : Events, record : Events,
                    todo : SUBSET [kind : Gestures, on : Things], flipped : SUBSET Things]
        /\ UNCHANGED <<plan, calendar, applied, previews>>
    BY JobShapes DEF ApplyGesture, RefuseGesture, CompletionBreaks, NextGesture, TypeInv, TypeOK
  <1>2. ASSUME NEW t \in Works
        PROVE  /\ Static(t)' <=> Static(t)
               /\ ~Static(t) => /\ Plain(plan[t]) /\ \A p \in previews : PlainChange(p, t)
                                /\ Explained(t, job.record[t]) /\ Explained(t, job.observed[t])
                                /\ Counted(job, t)
    BY <1>0, <1>1, DynamicStays DEF ColourInv, Accounted
  <1>3. CASE ApplyGesture(s)
    <2>1. /\ job'.kind = "gestures" /\ job'.observed = job.observed
          /\ job'.todo = job.todo \ {s}
          /\ job'.record = [job.record EXCEPT ![s.on] = job.observed[s.on]]
      BY <1>1, <1>3 DEF ApplyGesture, Accept
    <2>2. \A t \in Things : job'.record[t] = IF t = s.on THEN job.observed[t] ELSE job.record[t]
      BY <1>1, <2>1 DEF Events
    <2>3. coloured' = IF s.kind = "complete" THEN coloured \ {s.on} ELSE coloured
      BY <1>3 DEF ApplyGesture
    <2>4. ASSUME NEW t \in Works, ~Static(t)  PROVE Accounted(t)'
      <3>1. t \in Things
        BY DEF Things
      <3>2. /\ Plain(plan[t]) /\ \A p \in previews : PlainChange(p, t)
            /\ Explained(t, job.record[t]) /\ Explained(t, job.observed[t]) /\ Counted(job, t)
        BY <1>2, <2>4
      <3>3. CASE s.kind = "complete" /\ s.on = t
        <4>1. job.observed[t] # Nothing /\ ~Plain(job.observed[t])
          BY <1>1, <3>2, <3>3 DEF Counted
        <4>2. Explained(t, job.observed[t])'
          BY <2>1, <4>1 DEF Explained
        <4>3. Explained(t, job.record[t])'
          BY <2>2, <3>1, <3>3, <4>1 DEF Explained
        <4>4. \A r \in job'.todo : ~(r.kind = "complete" /\ r.on = t)
          BY <1>1, <2>1, <3>3
        <4> QED
          BY <1>1, <2>1, <3>2, <4>2, <4>3, <4>4 DEF Accounted, Counted, PlainChange
      <3>4. CASE ~(s.kind = "complete" /\ s.on = t)
        <4>1. t \in coloured' <=> t \in coloured
          BY <2>3, <3>4
        <4>2. Explained(t, job.observed[t])'
          BY <1>1, <2>1, <3>2, <4>1 DEF Explained
        <4>3. Explained(t, job.record[t])'
          BY <1>1, <2>2, <3>1, <3>2, <4>1 DEF Explained
        <4>4. Counted(job, t)'
          BY <2>1, <3>2, <4>1 DEF Counted
        <4> QED
          BY <1>1, <2>1, <3>2, <4>2, <4>3, <4>4 DEF Accounted, PlainChange
      <3> QED
        BY <3>3, <3>4
    <2> QED
      BY <1>2, <2>1, <2>4 DEF ColourInv
  <1>4. CASE RefuseGesture(s)
    <2>1. /\ job'.kind = "gestures" /\ job'.observed = job.observed
          /\ job'.record = job.record /\ job'.todo \subseteq job.todo /\ coloured' = coloured
      BY <1>1, <1>4 DEF RefuseGesture
    <2>2. ASSUME NEW t \in Works, ~Static(t)  PROVE Accounted(t)'
      <3>1. /\ Plain(plan[t]) /\ \A p \in previews : PlainChange(p, t)
            /\ Explained(t, job.record[t]) /\ Explained(t, job.observed[t]) /\ Counted(job, t)
        BY <1>2, <2>2
      <3> QED
        BY <1>1, <2>1, <3>1 DEF Accounted, Explained, Counted, PlainChange
    <2> QED
      BY <1>2, <2>1, <2>2 DEF ColourInv
  <1>5. CASE CompletionBreaks(s)
    <2>1. /\ job'.kind = "free"
          /\ coloured' = coloured \union {t \in Works : job.record[t] # applied[t]}
      BY <1>5 DEF CompletionBreaks, Free
    <2>2. ASSUME NEW t \in Works, ~Static(t)  PROVE Accounted(t)'
      <3>1. /\ Plain(plan[t]) /\ \A p \in previews : PlainChange(p, t)
            /\ Explained(t, job.record[t])
        BY <1>2, <2>2
      <3>2. Explained(t, applied[t])'
        BY <1>1, <2>1, <3>1 DEF Explained
      <3> QED
        BY <1>1, <2>1, <3>1, <3>2 DEF Accounted, PlainChange
    <2> QED
      BY <1>2, <2>1, <2>2 DEF ColourInv
  <1> QED
    BY <1>3, <1>4, <1>5

(* A capture that stops short counts what it had recorded as coloured anew. *)
LEMMA ColourLost ==
  ASSUME ColourInv, job'.kind = "free",
         UNCHANGED <<task, plan, calendar, applied, previews>>,
         coloured' = IF job.kind \in {"gestures", "admit"}
                     THEN coloured \union {t \in Works : job.record[t] # applied[t]} ELSE coloured
  PROVE  ColourInv'
  <1>1. ASSUME NEW t \in Works, ~Static(t)  PROVE Accounted(t)'
    <2>1. Accounted(t)
      BY <1>1 DEF ColourInv
    <2>2. Explained(t, applied[t])'
      <3>1. CASE job.kind \in {"gestures", "admit"}
        BY <2>1, <3>1 DEF Accounted, Explained
      <3>2. CASE job.kind \notin {"gestures", "admit"}
        BY <2>1, <3>2 DEF Accounted, Explained
      <3> QED
        BY <3>1, <3>2
    <2> QED
      BY <2>1, <2>2 DEF Accounted, PlainChange
  <1> QED
    BY <1>1 DEF ColourInv, Static

LEMMA ColourCapture ==
  ASSUME TypeInv, ColourInv, CaptureStep
  PROVE  ColourInv'
  <1>0. [Next]_vars /\ calendar \in Events /\ applied \in Events /\ job \in Job
    BY DEF Next, TypeInv, TypeOK
  <1>1. CASE CaptureList
    <2>1. /\ job.kind = "free" /\ job'.kind = "gestures" /\ job'.observed = Recent
          /\ job'.record = applied /\ job'.todo = Detected(Recent)
          /\ UNCHANGED <<task, plan, calendar, applied, previews, coloured>>
      BY <1>1 DEF CaptureList, Free
    <2>2. \A t \in Things : Recent[t] # Nothing => Recent[t] = calendar[t]
      BY <1>0, ListedEvents
    <2>3. \A s \in Detected(Recent) : s.kind = "complete" =>
            /\ Recent[s.on] # Nothing /\ Recent[s.on].coloured
            /\ applied[s.on] # Nothing /\ ~applied[s.on].coloured
      BY DEF Detected, Owned
    <2> HIDE DEF Recent
    <2>4. ASSUME NEW t \in Works, ~Static(t)  PROVE Accounted(t)'
      <3>1. t \in Things /\ Accounted(t)
        BY <2>4 DEF ColourInv, Things
      <3>2. Explained(t, applied[t])
        BY <2>1, <3>1 DEF Accounted
      <3>3. Explained(t, Recent[t])
        BY <2>2, <3>1 DEF Explained
      <3>4. Counted(job, t)'
        BY <2>1, <2>2, <2>3, <3>1, <3>2 DEF Counted, Explained, Plain
      <3> QED
        BY <2>1, <3>1, <3>2, <3>3, <3>4 DEF Accounted, Explained, PlainChange
    <2> QED
      BY <2>1, <2>4 DEF ColourInv, Static
  <1>2. CASE GestureStep
    BY <1>2, ColourGesture DEF GestureStep
  <1>3. CASE CaptureClassify
    <2>1. /\ job.kind = "gestures" /\ job'.kind = "admit" /\ job'.record = job.record
          /\ job'.todo \subseteq Candidates
          /\ UNCHANGED <<task, plan, calendar, applied, previews, coloured>>
      BY <1>3 DEF CaptureClassify
    <2>2. Candidates \intersect Works = {}
      BY CalendarConstants DEF Candidates, Captured
    <2> QED
      BY <2>1, <2>2 DEF ColourInv, Accounted, Explained, Static, PlainChange
  <1>4. ASSUME NEW t \in Things, AdmitCaptured(t)  PROVE ColourInv'
    <2>1. /\ job.kind = "admit" /\ t \in job.todo
          /\ job \in [kind : {"admit"}, observed : Events, record : Events,
                      rows : [Things -> TaskState], todo : SUBSET Things]
          /\ UNCHANGED <<plan, calendar, applied, previews, coloured>>
      BY <1>0, <1>4, JobShapes DEF AdmitCaptured
    <2>2. t \notin Works
      BY <2>1 DEF ColourInv
    <2>3. /\ job'.kind = "admit" /\ job'.todo \subseteq job.todo
          /\ \A u \in Things \ {t} : job'.record[u] = job.record[u]
      BY <1>4, <2>1 DEF AdmitCaptured, Events
    <2>4. ASSUME NEW u \in Works, ~Static(u)  PROVE Accounted(u)'
      <3>1. u \in Things \ {t} /\ Accounted(u)
        BY <2>2, <2>4 DEF ColourInv, Things
      <3> QED
        BY <2>1, <2>3, <3>1 DEF Accounted, Explained, PlainChange
    <2> QED
      BY <1>0, <2>1, <2>3, <2>4, DynamicStays DEF ColourInv
  <1>5. ASSUME NEW t \in Things, AdmitConflict(t)  PROVE ColourInv'
    <2>1. /\ job.kind = "admit" /\ job'.kind = "free"
          /\ UNCHANGED <<task, plan, calendar, applied, previews>>
          /\ coloured' = coloured \union {u \in Works : job.record[u] # applied[u]}
      BY <1>5 DEF AdmitConflict, Free
    <2> QED
      BY <2>1, ColourLost
  <1>6. CASE CapturePersist
    <2>1. /\ job.kind = "admit" /\ job'.kind = "free" /\ applied' = job.record
          /\ UNCHANGED <<task, plan, calendar, previews, coloured>>
      BY <1>6 DEF CapturePersist, Free
    <2> QED
      BY <2>1 DEF ColourInv, Accounted, Explained, Static, PlainChange
  <1> QED
    BY <1>1, <1>2, <1>3, <1>4, <1>5, <1>6 DEF CaptureStep

LEMMA ColourReconcile ==
  ASSUME TypeInv, ColourInv, ReconcileStep
  PROVE  ColourInv'
  <1>1. CASE Reconcile
    BY <1>1 DEF Reconcile, ColourInv, Accounted, Explained, Counted, Static, PlainChange
  <1>2. ASSUME NEW o \in observations, Repair(o)  PROVE ColourInv'
    <2>1. /\ job.kind = "free" /\ job' = job
          /\ coloured' = coloured \union {t \in Works : applied'[t] # applied[t]}
          /\ UNCHANGED <<task, plan, calendar, previews>>
      BY <1>2 DEF Repair, Free
    <2>2. ASSUME NEW t \in Works, ~Static(t)  PROVE Accounted(t)'
      <3>1. Accounted(t)
        BY <2>2 DEF ColourInv
      <3>2. Explained(t, applied[t])'
        BY <2>1, <3>1 DEF Accounted, Explained
      <3> QED
        BY <2>1, <3>1, <3>2 DEF Accounted, PlainChange
    <2> QED
      BY <2>1, <2>2 DEF ColourInv, Static
  <1> QED
    BY <1>1, <1>2 DEF ReconcileStep

(* Whoever colours the event of a Task of UbU's is counted; a Plan does not. *)
LEMMA ColourOutside ==
  ASSUME TypeInv, ColourInv, OutsideStep \/ Stop
  PROVE  ColourInv'
  <1>0. [Next]_vars /\ calendar \in Events
    BY DEF Next, TypeInv, TypeOK
  <1>1. ASSUME NEW t \in Things, NEW event \in Event \union {Nothing}, OwnerEdit(t, event)
        PROVE  ColourInv'
    <2>1. /\ \A u \in Things : calendar'[u] = IF u = t THEN event ELSE calendar[u]
          /\ coloured' = IF t \in Works /\ event # Nothing /\ event.coloured
                         THEN coloured \union {t} ELSE coloured
          /\ UNCHANGED <<task, plan, applied, previews, job>>
      BY <1>0, <1>1 DEF OwnerEdit, Events
    <2>2. \A u \in Works : \A e : Explained(u, e) => Explained(u, e)'
      BY <2>1 DEF Explained, Plain, Things
    <2>3. \A u \in Works : Counted(job, u) => Counted(job, u)'
      BY <2>1 DEF Counted
    <2>4. ASSUME NEW u \in Works, ~Static(u)  PROVE Accounted(u)'
      <3>1. Accounted(u)
        BY <2>4 DEF ColourInv
      <3>2. PICK landed, recorded, seen, owned :
              /\ landed = job.landed[u] /\ recorded = job.record[u]
              /\ seen = job.observed[u] /\ owned = applied[u]
        OBVIOUS
      <3>3. /\ Explained(u, landed) => Explained(u, landed)'
            /\ Explained(u, recorded) => Explained(u, recorded)'
            /\ Explained(u, seen) => Explained(u, seen)'
            /\ Explained(u, owned) => Explained(u, owned)'
        BY <2>2
      <3>4. /\ Explained(u, job.landed[u]) => Explained(u, job.landed[u])'
            /\ Explained(u, job.record[u]) => Explained(u, job.record[u])'
            /\ Explained(u, job.observed[u]) => Explained(u, job.observed[u])'
            /\ Explained(u, applied[u]) => Explained(u, applied[u])'
        BY <2>1, <3>2, <3>3 DEF Explained
      <3> QED
        BY <2>1, <2>3, <3>1, <3>4 DEF Accounted, PlainChange
    <2> QED
      BY <2>1, <2>4 DEF ColourInv, Static
  <1>2. ASSUME NEW t \in Things, AppAct(t)  PROVE ColourInv'
    <2>1. UNCHANGED <<plan, calendar, applied, previews, job, coloured>>
      BY <1>2 DEF AppAct
    <2>2. \A u \in Works : Accounted(u) => Accounted(u)'
      BY <2>1 DEF Accounted, Explained, Counted, PlainChange
    <2> QED
      BY <1>0, <2>1, <2>2, DynamicStays DEF ColourInv
  <1>3. CASE Generate
    <2>1. UNCHANGED <<task, calendar, applied, previews, job, coloured>>
      BY <1>3 DEF Generate
    <2>2. ASSUME NEW t \in Works, ~Static(t)  PROVE Accounted(t)'
      <3>1. t \in Things /\ Accounted(t)
        BY <2>2 DEF ColourInv, Things
      <3>2. plan'[t] \in Placements(t)
        BY <1>3, <3>1 DEF Generate
      <3>3. Plain(plan'[t])
        BY <2>2, <3>1, <3>2 DEF Placements, Plain, Accounted
      <3> QED
        BY <2>1, <3>1, <3>3 DEF Accounted, Explained, Counted, PlainChange
    <2> QED
      BY <2>1, <2>2 DEF ColourInv, Static
  <1>4. CASE Stop
    <2>1. /\ job'.kind = "free"
          /\ UNCHANGED <<task, plan, calendar, applied, previews>>
          /\ coloured' = IF job.kind \in {"gestures", "admit"}
                         THEN coloured \union {t \in Works : job.record[t] # applied[t]}
                         ELSE coloured
      BY <1>4 DEF Stop, Free
    <2> QED
      BY <2>1, ColourLost
  <1> QED
    BY <1>1, <1>2, <1>3, <1>4 DEF OutsideStep

(* Every colour of Dynamic work that UbU has not on record is the owner's:  *)
(* planner, preview and approval export it uncoloured.                      *)
THEOREM ColourInvariant == Spec => []ColourInv
  <1>1. TypeInv /\ MeetingInv /\ ColourInv /\ [Next]_vars => ColourInv'
    <2> SUFFICES ASSUME TypeInv, MeetingInv, ColourInv, [Next]_vars PROVE ColourInv'
      OBVIOUS
    <2>1. CASE UNCHANGED vars
      BY <2>1 DEF vars, ColourInv, Accounted, Explained, Counted, Static, PlainChange
    <2> QED
      BY <2>1, ColourPreview, ColourApprove, ColourCapture, ColourReconcile,
         ColourOutside DEF Next
  <1> QED
    BY <1>1, ColourInit, TypeInvariant, MeetingInvariant, PTL DEF Spec

(* Only a completion gesture completes a Task during a capture.             *)
LEMMA CompletesByGesture ==
  ASSUME TypeInv, ColourInv, [Next]_vars, NEW t \in Works,
         job.kind = "gestures", job' # job, Active(t), Completed(t)'
  PROVE  ~Static(t) /\ \E s \in job.todo : s.kind = "complete" /\ s.on = t
  <1>0. task \in [Things -> TaskState] /\ t \in Things
    BY DEF TypeInv, TypeOK, Things
  <1>1. ASSUME NEW s \in [kind : Gestures, on : Things], ApplyGesture(s)
        PROVE  s \in job.todo /\ s.kind = "complete" /\ s.on = t /\ ~Static(t)
    <2>1. s \in job.todo /\ s.kind \in Gestures
      BY <1>1 DEF ApplyGesture, NextGesture
    <2>2. s.on = t
      BY <1>0, <1>1 DEF ApplyGesture, Active, Completed
    <2>3. task'[t] = AfterGesture(s) /\ task[t] \in TaskState
      BY <1>0, <1>1, <2>2 DEF ApplyGesture
    <2>4. s.kind = "complete"
      BY <2>1, <2>2, <2>3 DEF AfterGesture, Active, Completed, Gestures, TaskState
    <2> QED
      BY <1>1, <2>1, <2>2, <2>4 DEF ApplyGesture, Honoured
  <1>2. ASSUME NEW s \in [kind : Gestures, on : Things], CompletionBreaks(s)
        PROVE  s \in job.todo /\ s.kind = "complete" /\ s.on = t /\ ~Static(t)
    <2>1. s \in job.todo /\ s.kind = "complete"
      BY <1>2 DEF CompletionBreaks, NextGesture
    <2>2. s.on = t
      BY <1>0, <1>2 DEF CompletionBreaks, Active, Completed
    <2> QED
      BY <1>2, <2>1, <2>2 DEF CompletionBreaks, Honoured
  <1>3. task' # task
    BY DEF Active, Completed
  <1>4. \E s \in [kind : Gestures, on : Things] : ApplyGesture(s) \/ CompletionBreaks(s)
    BY <1>3 DEF Next, vars, Free, PreviewStep, PreviewRead, PreviewStore,
       ApproveStep, ApproveStart, CallLands, CallFails, AnswerLost, ApprovePersist,
       CaptureStep, CaptureList, GestureStep, RefuseGesture, CaptureClassify, AdmitCaptured,
       AdmitConflict, CapturePersist, ReconcileStep, Reconcile, Repair,
       OutsideStep, OwnerEdit, AppAct, Generate, Stop
  <1> QED
    BY <1>1, <1>2, <1>4

(* One colouring of an event completes its Task at most once, unless the    *)
(* record of the gesture was lost or rolled back by a repair                *)
(* (calendar_interaction.rs, accept_observation).                           *)
THEOREM GestureOnce == Spec => GestureCountsOnce
  <1>1. ASSUME TypeInv, ColourInv, [Next]_vars, NEW t \in Works,
               job.kind = "gestures", job' # job, Active(t), Completed(t)'
        PROVE  t \in coloured
    <2>1. ~Static(t) /\ \E s \in job.todo : s.kind = "complete" /\ s.on = t
      BY <1>1, CompletesByGesture
    <2>2. Counted(job, t)
      BY <1>1, <2>1 DEF ColourInv, Accounted
    <2> QED
      BY <2>1, <2>2 DEF Counted
  <1>2. TypeInv /\ ColourInv /\ [Next]_vars =>
          [\A t \in Works :
             (job.kind = "gestures" /\ job' # job /\ Active(t) /\ Completed(t)')
               => t \in coloured]_vars
    BY <1>1
  <1> QED
    BY <1>2, TypeInvariant, ColourInvariant, PTL DEF Spec, GestureCountsOnce

=============================================================================
