----------------------------- MODULE NextAction -----------------------------
(* What the operator is told to do next: the first placement of the admitted *)
(* Calendar whose Task is active, or without a Calendar the first Task that  *)
(* is ready.  The plan is read before the Tasks, and both go on changing.    *)
(*                                                                           *)
(* Explanations, sources, reports and the parent Objective are left out.     *)
EXTENDS Integers, FiniteSets

CONSTANTS Tasks,        \* ids, in the order they were created
          Lengths,      \* of a placement
          Horizon, MaxPlans, MaxActs     \* bounds

VARIABLES status, after, gated, urgent,  \* of each Task
          plan,      \* the last admitted plan with a legitimization report
          now,
          asked,     \* the plan a request has read
          answer,    \* the last answer
          acts

vars == <<status, after, gated, urgent, plan, now, asked, answer, acts>>

given == <<after, gated, urgent>>

NoPlan == [number |-> 0, mode |-> "none", result |-> "none", steps |-> {}]

NotAsked == [number |-> -1]

Answer(code, task, number, key) ==
  [code |-> code, task |-> task, plan |-> number, key |-> key]

Diagnostic(code, p) == Answer(code, 0, p.number, <<>>)

(* Prerequisites form no cycle.                                              *)
Init ==
  /\ status = [t \in Tasks |-> "active"]
  /\ after \in {f \in [Tasks -> SUBSET Tasks] : \A t \in Tasks : \A d \in f[t] : d < t}
  /\ gated \in {{}} \cup {{t} : t \in Tasks}
  /\ urgent \in {{}} \cup {{t} : t \in Tasks}
  /\ plan = NoPlan /\ now = 0 /\ acts = 0
  /\ asked = NotAsked /\ answer = Diagnostic("none", NoPlan)

-----------------------------------------------------------------------------
(* Selecting *)

Active == {t \in Tasks : status[t] = "active"}

WrongCompleted == {t \in Active : status[t] = "completed"}

Completed == {t \in Tasks : status[t] = "completed"}

Unmet(t) == (IF after[t] \subseteq Completed THEN {} ELSE {"dependencies"})
              \cup (IF t \in gated THEN {"preconditions"} ELSE {})

Ready(t) == Unmet(t) = {}

(* An explicit priority goes first, then the older Task.                     *)
Before(t, u) == \/ t \in urgent /\ u \notin urgent
                \/ (t \in urgent <=> u \in urgent) /\ t <= u

Candidates == {t \in Active : Ready(t)}

Skeleton ==
  IF Candidates # {}
    THEN LET first == CHOOSE t \in Candidates : \A u \in Candidates : Before(t, u)
         IN Answer("recommended", first, 0, <<>>)
    ELSE Diagnostic(IF \A t \in Active : Unmet(t) = {"dependencies"} THEN "dependencies"
                    ELSE IF \A t \in Active : Unmet(t) = {"preconditions"} THEN "preconditions"
                    ELSE "no_ready_task", NoPlan)

Key(s) == <<s.start, s.end, s.task>>

WrongEarlier(k, l) ==
  \/ k[2] < l[2]
  \/ k[2] = l[2] /\ (k[1] < l[1] \/ (k[1] = l[1] /\ k[3] <= l[3]))

Earlier(k, l) ==
  \/ k[1] < l[1]
  \/ k[1] = l[1] /\ (k[2] < l[2] \/ (k[2] = l[2] /\ k[3] <= l[3]))

FromCalendar(p) ==
  LET remaining == {s \in p.steps : s.end > now /\ s.task \in Active}
  IN IF remaining = {} THEN Diagnostic("no_ready_task", p)
     ELSE LET s == CHOOSE s \in remaining : \A r \in remaining : Earlier(Key(s), Key(r))
          IN Answer("recommended", s.task, p.number, Key(s))

(* A Calendar that failed under enforcement, or is over, is not followed.    *)
Refused(p) == p.mode = "enforce" /\ p.result = "failed"

Over(p) == p.steps # {} /\ \A s \in p.steps : s.end <= now

-----------------------------------------------------------------------------
(* A request *)

AskPlan ==
  /\ asked = NotAsked
  /\ IF Refused(plan) \/ Over(plan)
       THEN /\ answer' = Diagnostic(IF Refused(plan) THEN "no_ready_task" ELSE "stale_calendar",
                                    plan)
            /\ UNCHANGED asked
       ELSE asked' = plan /\ UNCHANGED answer
  /\ UNCHANGED <<given, status, plan, now, acts>>

AskTasks ==
  /\ asked # NotAsked
  /\ answer' = (IF Active = {} THEN Diagnostic("no_active_tasks", asked)
                ELSE IF asked.number = 0 THEN Skeleton
                ELSE FromCalendar(asked))
  /\ asked' = NotAsked
  /\ UNCHANGED <<given, status, plan, now, acts>>

-----------------------------------------------------------------------------
(* The rest of the system *)

(* A plan places what is active, prerequisites first.                        *)
Replan ==
  /\ plan.number < MaxPlans
  /\ \E begin \in [Active -> 0..Horizon], length \in [Active -> Lengths],
        mode \in {"enforce", "warn"}, result \in {"passed", "failed"} :
       /\ \A t \in Active : \A d \in after[t] \cap Active : begin[d] + length[d] <= begin[t]
       /\ plan' = [number |-> plan.number + 1, mode |-> mode, result |-> result,
                   steps |-> {[task |-> t, start |-> begin[t], end |-> begin[t] + length[t]] :
                                t \in Active}]
  /\ UNCHANGED <<given, status, now, asked, answer, acts>>

(* Completed, skipped, replaced or undone.                                   *)
Act ==
  /\ acts < MaxActs /\ acts' = acts + 1
  /\ \E t \in Tasks, to \in {"completed", "skipped", "moot", "active"} :
       /\ status[t] = (IF to = "active" THEN "completed" ELSE "active")
       /\ status' = [status EXCEPT ![t] = to]
       /\ answer' = IF to = "active" THEN Diagnostic("none", NoPlan) ELSE answer
  /\ UNCHANGED <<given, plan, now, asked>>

Tick ==
  /\ now < Horizon + 1 /\ now' = now + 1
  /\ UNCHANGED <<given, status, plan, asked, answer, acts>>

Next == AskPlan \/ AskTasks \/ Replan \/ Act \/ Tick

Spec == Init /\ [][Next]_vars

-----------------------------------------------------------------------------
(* While a Calendar stands and no completion is undone, the advice moves     *)
(* forward through it: what was passed over is not asked for again.          *)
MovesForward ==
  /\ answer.code = "recommended" /\ answer'.code = "recommended"
   /\ answer.plan # 0 /\ answer'.plan = answer.plan
   => \/ answer'.key[1] > answer.key[1]
      \/ answer'.key[1] = answer.key[1] /\ answer'.key[2] > answer.key[2]
      \/ answer'.key[1] = answer.key[1] /\ answer'.key[2] = answer.key[2]
           /\ answer'.key[3] >= answer.key[3]

AdviceMovesForward == [][MovesForward]_vars

(* Without a Calendar the operator is sent away for unmet dependencies only  *)
(* when one of them is off the list for good: skipped, or replaced by other  *)
(* Tasks that its dependents do not know.                                    *)
BlocksForGood ==
  answer'.code = "dependencies" /\ answer' # answer =>
     \E t \in Active : \E d \in after[t] : status[d] \in {"skipped", "moot"}

BlockedForGood == [][BlocksForGood]_vars

=============================================================================
