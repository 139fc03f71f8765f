------------------------------ MODULE MCPlanning ------------------------------
(* The services around Plans, one at a time: `part` names the one that runs, *)
(* the others stay in an initial state.  They are the Plans over time        *)
(* (PlanLifecycle, extended here), one planning request (PlanRequest), the   *)
(* next action and the decomposition of a Task.                              *)
EXTENDS PlanLifecycle, TLC

CONSTANTS task, occurrence, h1, h2, c1, c2

CONSTANTS Requests, Minute, HorizonLength, LeastRepair,      \* PlanRequest
          Listed, Lengths, MaxCalendars, MaxActs,            \* NextAction
          Origins, Proposals, Clients, MaxTasks, MaxEdits,   \* Decomposition
          Horizon                                            \* of the last two

(* Ids grow with creation; a placement is a span of time.                    *)
ASSUME AdviceConstants == Listed \subseteq Nat /\ Lengths \subseteq Nat /\ Horizon \in Nat

(* The Tasks there are at first and the checklists, each with its windows.   *)
Windows == [kind : {"none", "range", "static"}, from : Nat, to : Nat]

ASSUME ChildConstants ==
  /\ Origins \in Seq([window : Windows, after : SUBSET Nat])
  /\ \A p \in Proposals :
       /\ p.children \in Seq([window : Windows, gated : BOOLEAN, after : SUBSET Nat])
       /\ p.splits \in Seq(Nat)

(* What the planning function reads of the store: Static windows start       *)
(* before they end, the members of a container's segments are ordinary Tasks  *)
(* in one segment each, and only a repair keeps steps of an earlier Plan.    *)
Spans == [start : Nat, end : Nat]

TaskRows ==
  {row \in [static : Spans, capacity : BOOLEAN, occurrence : BOOLEAN, range : Spans,
            floor : Nat, ceiling : Nat, length : Nat, after : SUBSET Nat,
            condition : {"none", "met", "unmet"}, observed : Nat] :
     row.static = [start |-> 0, end |-> 0] \/ row.static.start < row.static.end}

ASSUME RequestConstants ==
  /\ Minute \in Nat \ {0} /\ HorizonLength \in Nat /\ LeastRepair \in Nat
  /\ \A r \in Requests :
       /\ r.now \in Nat /\ r.asked \in Spans /\ r.stored \in Spans /\ r.repair \in BOOLEAN
       /\ r.tasks \in Seq(TaskRows)
       /\ r.frozen \in [DOMAIN r.frozen -> Spans] /\ IsFiniteSet(DOMAIN r.frozen)
       /\ DOMAIN r.frozen # {} => r.repair
       /\ r.preferences \subseteq [a : Nat, b : Nat, strict : BOOLEAN]
       /\ IsFiniteSet(r.preferences)
       /\ r.segments \subseteq Seq(Nat)
       /\ \A s, u \in r.segments : \A i \in DOMAIN s, j \in DOMAIN u :
            /\ s[i] = u[j] => s = u /\ i = j
            /\ s[i] \in DOMAIN r.tasks => ~r.tasks[s[i]].occurrence

VARIABLES part, now,
          ask, stage, horizon, span, bodies, direct, absent, segments, covered,
          carried, removed, seats, order, plan,
          adviceStatus, after, gated, urgent, calendar, asked, answer, acts,
          tasks, containers, actionLock, job, edits

requestVars == <<ask, stage, horizon, span, bodies, direct, absent, segments, covered,
                 carried, removed, seats, order, plan>>
adviceVars == <<adviceStatus, after, gated, urgent, calendar, asked, answer, acts>>
childVars == <<tasks, containers, actionLock, job, edits>>

Cases == INSTANCE PlanRequestCases
AllCases == Cases!AllCases
NoCase == CHOOSE r \in AllCases : Len(r.tasks) = 1

Request == INSTANCE PlanRequest
Advice == INSTANCE NextAction
            WITH Tasks <- Listed, MaxPlans <- MaxCalendars, status <- adviceStatus, plan <- calendar
Children == INSTANCE Decomposition

-----------------------------------------------------------------------------
(* Fixtures of Decomposition: a ranged Task and one that waits for it; two   *)
(* children in one go, two apart of which the first is fixed, two whose      *)
(* ranges do not hold both, and one too few.                                 *)
Ranged(from, to) == [kind |-> "range", from |-> from, to |-> to]

Fixed(from, to) == [kind |-> "static", from |-> from, to |-> to]

Anytime == [kind |-> "none", from |-> 0, to |-> 0]

Child(window, waits) == [window |-> window, gated |-> FALSE, after |-> waits]

Given == <<[window |-> Ranged(0, 1), after |-> {}], [window |-> Fixed(0, 1), after |-> {1}]>>

Written ==
  {[children |-> <<Child(Anytime, {}), Child(Ranged(0, 2), {1})>>, splits |-> <<>>],
   [children |-> <<Child(Fixed(1, 2), {}), Child(Anytime, {})>>, splits |-> <<1>>],
   [children |-> <<Child(Ranged(0, 1), {}), Child(Ranged(1, 2), {})>>, splits |-> <<>>],
   [children |-> <<Child(Anytime, {})>>, splits |-> <<>>]}

-----------------------------------------------------------------------------
(* A gated Task and an urgent one are not tried together.                    *)
PlanningInit ==
  /\ part \in {"plans", "request", "advice", "children"}
  /\ Init /\ now = 0
  /\ (part = "request" \/ ask = NoCase)
  /\ Request!Init
  /\ Advice!Init
  /\ IF part = "advice" THEN gated = {} \/ urgent = {}
     ELSE /\ \A t \in DOMAIN after : after[t] = {}
          /\ gated = {} /\ urgent = {}
  /\ Children!Init

PlanningNext ==
  \/ /\ part = "plans" /\ Next
     /\ UNCHANGED <<part, now, requestVars, adviceVars, childVars>>
  \/ /\ part = "request" /\ Request!Next
     /\ UNCHANGED <<part, now, vars, adviceVars, childVars>>
  \/ /\ part = "advice" /\ Advice!Next
     /\ UNCHANGED <<part, vars, requestVars, childVars>>
  \/ /\ part = "children" /\ Children!Next
     /\ UNCHANGED <<part, vars, requestVars, adviceVars>>

PlanningSpec ==
  PlanningInit /\ [][PlanningNext]_<<part, now, vars, requestVars, adviceVars, childVars>>

Symmetry == Permutations(Handlers) \cup Permutations(Clients)

-----------------------------------------------------------------------------
(* Every Static Task inside the horizon is in the published Plan at its own  *)
(* window, and no work shares its time (services/planning_service.rs).       *)
WindowsAreKept == part = "request" => Request!WindowsAreKept

(* Work starts after the end of each of its prerequisites, wherever the      *)
(* request put them.                                                         *)
WorkFollowsPrerequisites == part = "request" => Request!WorkFollowsPrerequisites

(* The occurrences a request keeps have places in their windows, apart from  *)
(* one another and from every fixed commitment.                              *)
OccurrencesFitTogether == part = "request" => Request!OccurrencesFitTogether

(* Outside a preference cycle a preferred Task has the higher value          *)
(* (services/task_priority.rs).                                              *)
PreferredIsWorthMore == part = "request" => Request!PreferredIsWorthMore

(* A repair leaves every frozen step where it was and puts new work after    *)
(* all of them.                                                              *)
RepairKeepsFrozen == part = "request" => Request!RepairKeepsFrozen

(* The advice moves forward through a Calendar that stands                   *)
(* (services/next_action_service.rs).                                        *)
AdviceMovesForward == [][part = "advice" => Advice!MovesForward]_adviceVars

(* Without a Calendar unmet dependencies send the operator away only when    *)
(* one of them is off the list for good.                                     *)
BlockedForGood == [][part = "advice" => Advice!BlocksForGood]_adviceVars

(* A piece of work is on the list in one form: as a Task or as its checklist *)
(* (services/decomposition.rs).                                              *)
OneFormOfTheWork == part = "children" => Children!OneFormOfTheWork

(* Replacing a Task and undoing it erase no edit and no completion.          *)
NothingIsErased == [][part = "children" => Children!ErasesNothing]_childVars
=============================================================================
