---------------------------- MODULE Planning_proofs ----------------------------
(* What holds of the next action, of decomposition and of a planning request *)
(* for every set of Tasks, proposals and requests and every bound.           *)
EXTENDS MCPlanning, SequenceTheorems, FiniteSetTheorems, WellFoundedInduction, TLAPS

-----------------------------------------------------------------------------
(* The next action *)

Placed == [task : Listed, start : Nat, end : Nat]

Calendars == [number : Nat, mode : {"none", "enforce", "warn"},
              result : {"none", "passed", "failed"}, steps : SUBSET Placed]

AdviceTypeOK ==
  /\ now \in Nat
  /\ adviceStatus \in [Listed -> {"active", "completed", "skipped", "moot"}]
  /\ after \in [Listed -> SUBSET Listed] /\ \A t \in Listed : \A d \in after[t] : d < t
  /\ calendar \in Calendars /\ asked \in Calendars \cup {Advice!NotAsked}
  /\ answer.plan \in Nat /\ answer.plan <= calendar.number

(* A request has read the Calendar that stands, or an older one.             *)
ReadInOrder ==
  asked # Advice!NotAsked =>
    /\ asked.number <= calendar.number
    /\ asked.number = calendar.number => asked = calendar

(* What is still to come of a Calendar. *)
Remaining(p) == {s \in p.steps : s.end > now /\ s.task \in Advice!Active}

Ahead(p) == \A s \in Remaining(p) : Advice!Earlier(answer.key, Advice!Key(s))

(* Advice from a Calendar names the first placement of what was to come, so   *)
(* all that still is comes after it.                                         *)
Followed ==
  answer.code = "recommended" /\ answer.plan # 0 =>
    /\ answer.key \in Nat \X Nat \X Nat
    /\ answer.plan = calendar.number => Ahead(calendar)
    /\ asked # Advice!NotAsked /\ answer.plan = asked.number => Ahead(asked)

AdviceInv == part = "advice" => AdviceTypeOK /\ ReadInOrder /\ Followed

(* The first of any numbers there are. *)
LEMMA FirstOf ==
  ASSUME NEW T, T \subseteq Nat, T # {}
  PROVE  \E least \in T : \A x \in T : least <= x
  <1>1. PICK R : R = OpToRel(<, Nat) /\ IsWellFoundedOn(R, Nat)
    BY NatLessThanWellFounded
  <1>2. PICK least \in T : \A x \in T : <<x, least>> \notin R
    BY <1>1, WFMin
  <1>3. ASSUME NEW x \in T PROVE least <= x
    <2>1. x \in Nat /\ least \in Nat
      OBVIOUS
    <2>2. ~ (x < least)
      BY <1>1, <1>2, <2>1 DEF OpToRel
    <2> QED
      BY <2>1, <2>2
  <1> QED
    BY <1>3

(* Of any placements there is a first: by their start, then end, then Task.  *)
LEMMA FirstPlaced ==
  ASSUME NEW S, S \subseteq Placed, S # {}
  PROVE  \E s \in S : \A r \in S : Advice!Earlier(Advice!Key(s), Advice!Key(r))
  <1>1. \A s \in S : s.start \in Nat /\ s.end \in Nat /\ s.task \in Nat
    BY AdviceConstants DEF Placed
  <1>2. PICK start \in Nat : /\ \E s \in S : s.start = start
                             /\ \A s \in S : start <= s.start
    <2> DEFINE T == {s.start : s \in S}
    <2>1. T \subseteq Nat /\ T # {}
      BY <1>1
    <2> HIDE DEF T
    <2>2. PICK least \in T : \A x \in T : least <= x
      BY <2>1, FirstOf
    <2> QED
      BY <2>1, <2>2 DEF T
  <1>3. PICK end \in Nat : /\ \E s \in S : s.start = start /\ s.end = end
                           /\ \A s \in S : s.start = start => end <= s.end
    <2> DEFINE T == {s.end : s \in {r \in S : r.start = start}}
    <2>1. T \subseteq Nat /\ T # {}
      BY <1>1, <1>2
    <2> HIDE DEF T
    <2>2. PICK least \in T : \A x \in T : least <= x
      BY <2>1, FirstOf
    <2> QED
      BY <2>1, <2>2 DEF T
  <1>4. PICK first \in S : /\ first.start = start /\ first.end = end
                           /\ \A s \in S : s.start = start /\ s.end = end => first.task <= s.task
    <2> DEFINE T == {s.task : s \in {r \in S : r.start = start /\ r.end = end}}
    <2>1. T \subseteq Nat /\ T # {}
      BY <1>1, <1>3
    <2> HIDE DEF T
    <2>2. PICK least \in T : \A x \in T : least <= x
      BY <2>1, FirstOf
    <2> QED
      BY <2>2 DEF T
  <1>5. ASSUME NEW r \in S
        PROVE  Advice!Earlier(Advice!Key(first), Advice!Key(r))
    <2>1. /\ start <= r.start
          /\ r.start = start => end <= r.end
          /\ r.start = start /\ r.end = end => first.task <= r.task
      BY <1>2, <1>3, <1>4
    <2>2. \/ start < r.start
          \/ start = r.start /\ (end < r.end \/ (end = r.end /\ first.task <= r.task))
      BY <1>1, <2>1
    <2> QED
      BY <1>4, <2>2 DEF Advice!Earlier, Advice!Key
  <1> QED
    BY <1>5
LEMMA NotACalendar == Advice!NotAsked \notin Calendars
  <1>1. ASSUME Advice!NotAsked \in Calendars PROVE FALSE
    <2>1. Advice!NotAsked.number \in Nat
      BY <1>1 DEF Calendars
    <2>2. Advice!NotAsked.number = -1
      BY DEF Advice!NotAsked
    <2> QED
      BY <2>1, <2>2
  <1> QED
    BY <1>1

(* Followed Calendars: what is asked for is the first of what is to come.    *)
LEMMA CalendarAdvises ==
  ASSUME AdviceTypeOK, NEW p \in Calendars
  PROVE  LET said == Advice!FromCalendar(p)
         IN /\ said.plan = p.number /\ said.code \in {"recommended", "no_ready_task"}
            /\ said.code = "recommended" =>
                 \E s \in Remaining(p) : /\ said.key = Advice!Key(s)
                                         /\ \A r \in Remaining(p) :
                                              Advice!Earlier(Advice!Key(s), Advice!Key(r))
  <1> PICK rest : rest = Remaining(p)
    OBVIOUS
  <1>1. CASE rest = {}
    <2>1. Advice!FromCalendar(p) = Advice!Diagnostic("no_ready_task", p)
      BY <1>1 DEF Advice!FromCalendar, Remaining
    <2> QED
      BY <2>1 DEF Advice!Diagnostic, Advice!Answer
  <1>2. CASE rest # {}
    <2> DEFINE first == CHOOSE s \in rest : \A r \in rest :
                          Advice!Earlier(Advice!Key(s), Advice!Key(r))
    <2>1. rest \subseteq Placed
      BY DEF Remaining, Calendars
    <2>2. \E s \in rest : \A r \in rest : Advice!Earlier(Advice!Key(s), Advice!Key(r))
      BY <1>2, <2>1, FirstPlaced
    <2>3. first \in rest /\ \A r \in rest : Advice!Earlier(Advice!Key(first), Advice!Key(r))
      BY <2>2
    <2>4. Advice!FromCalendar(p)
            = Advice!Answer("recommended", first.task, p.number, Advice!Key(first))
      BY <1>2 DEF Advice!FromCalendar, Remaining
    <2> HIDE DEF first
    <2>5. PICK key : key = Advice!Key(first)
      OBVIOUS
    <2>6. /\ Advice!FromCalendar(p).plan = p.number
          /\ Advice!FromCalendar(p).code = "recommended"
          /\ Advice!FromCalendar(p).key = key
      BY <2>4, <2>5 DEF Advice!Answer
    <2> QED
      BY <2>3, <2>5, <2>6
  <1> QED
    BY <1>1, <1>2

LEMMA SkeletonAdvises ==
  /\ Advice!Skeleton.plan = 0
  /\ Advice!Skeleton.code = "dependencies" =>
       Advice!Candidates = {} /\ \A t \in Advice!Active : Advice!Unmet(t) = {"dependencies"}
  <1>1. CASE Advice!Candidates # {}
    <2>1. PICK first : Advice!Skeleton = Advice!Answer("recommended", first, 0, <<>>)
      BY <1>1 DEF Advice!Skeleton
    <2> QED
      BY <2>1 DEF Advice!Answer
  <1>2. CASE Advice!Candidates = {}
    <2>1. PICK code : /\ Advice!Skeleton = Advice!Diagnostic(code, Advice!NoPlan)
                      /\ code = "dependencies" =>
                           \A t \in Advice!Active : Advice!Unmet(t) = {"dependencies"}
      BY <1>2 DEF Advice!Skeleton
    <2> QED
      BY <1>2, <2>1 DEF Advice!Diagnostic, Advice!Answer, Advice!NoPlan
  <1> QED
    BY <1>1, <1>2

(* What an answer to a request is. *)
LEMMA AskTasksAnswers ==
  ASSUME AdviceTypeOK, Advice!AskTasks
  PROVE  /\ asked \in Calendars
         /\ answer'.plan \in {0, asked.number}
         /\ answer'.code = "recommended" /\ answer'.plan # 0 =>
              \E s \in Remaining(asked) : /\ answer'.key = Advice!Key(s)
                                          /\ \A r \in Remaining(asked) :
                                               Advice!Earlier(Advice!Key(s), Advice!Key(r))
         /\ answer'.code = "dependencies" => answer' = Advice!Skeleton /\ Advice!Active # {}
  <1>1. asked \in Calendars
    BY DEF Advice!AskTasks, AdviceTypeOK
  <1>2. CASE Advice!Active = {}
    <2>1. answer' = Advice!Diagnostic("no_active_tasks", asked)
      BY <1>2 DEF Advice!AskTasks
    <2> QED
      BY <1>1, <2>1 DEF Advice!Diagnostic, Advice!Answer
  <1>3. CASE Advice!Active # {} /\ asked.number = 0
    <2>1. answer' = Advice!Skeleton
      BY <1>3 DEF Advice!AskTasks
    <2>2. answer'.plan = 0
      BY <2>1, SkeletonAdvises
    <2> QED
      BY <1>1, <1>3, <2>1, <2>2
  <1>4. CASE Advice!Active # {} /\ asked.number # 0
    <2>1. PICK said : said = Advice!FromCalendar(asked) /\ answer' = said
      BY <1>4 DEF Advice!AskTasks
    <2>2. /\ said.plan = asked.number /\ said.code \in {"recommended", "no_ready_task"}
          /\ said.code = "recommended" =>
               \E s \in Remaining(asked) : /\ said.key = Advice!Key(s)
                                           /\ \A r \in Remaining(asked) :
                                                Advice!Earlier(Advice!Key(s), Advice!Key(r))
      BY <1>1, <2>1, CalendarAdvises
    <2> QED
      BY <1>1, <2>1, <2>2
  <1> QED
    BY <1>2, <1>3, <1>4

LEMMA KeysAreTimes ==
  ASSUME NEW s \in Placed
  PROVE  Advice!Key(s) \in Nat \X Nat \X Nat
  BY AdviceConstants DEF Advice!Key, Placed

LEMMA AskPlanKeeps ==
  ASSUME AdviceTypeOK, ReadInOrder, Followed, Advice!AskPlan
  PROVE  AdviceTypeOK' /\ ReadInOrder' /\ Followed'
  <1>1. asked = Advice!NotAsked
        /\ UNCHANGED <<after, gated, urgent, adviceStatus, calendar, now, acts>>
    BY DEF Advice!AskPlan, Advice!given
  <1>2. calendar \in Calendars /\ calendar.number \in Nat
    BY DEF AdviceTypeOK, Calendars
  <1>3. \/ /\ asked' = asked /\ answer'.plan = calendar.number
           /\ answer'.code \in {"no_ready_task", "stale_calendar"}
        \/ asked' = calendar /\ answer' = answer
    BY DEF Advice!AskPlan, Advice!Diagnostic, Advice!Answer
  <1>4. AdviceTypeOK'
    BY <1>1, <1>2, <1>3 DEF AdviceTypeOK
  <1>5. ReadInOrder'
    BY <1>1, <1>2, <1>3 DEF ReadInOrder
  <1>6. Followed'
    <2>1. CASE answer'.code \in {"no_ready_task", "stale_calendar"}
      BY <2>1 DEF Followed
    <2>2. CASE asked' = calendar /\ answer' = answer
      BY <1>1, <2>2 DEF Followed, Ahead, Remaining, Advice!Active
    <2> QED
      BY <1>3, <2>1, <2>2
  <1> QED
    BY <1>4, <1>5, <1>6

LEMMA AskTasksKeeps ==
  ASSUME AdviceTypeOK, ReadInOrder, Followed, Advice!AskTasks
  PROVE  AdviceTypeOK' /\ ReadInOrder' /\ Followed'
  <1>1. /\ asked' = Advice!NotAsked /\ asked # Advice!NotAsked
        /\ UNCHANGED <<after, gated, urgent, adviceStatus, calendar, now, acts>>
    BY DEF Advice!AskTasks, Advice!given
  <1>2. /\ asked \in Calendars /\ calendar \in Calendars
        /\ calendar.number \in Nat /\ asked.number \in Nat
    BY AskTasksAnswers DEF AdviceTypeOK, Calendars
  <1>3. answer'.plan \in {0, asked.number} /\ asked.number <= calendar.number
    BY <1>1, AskTasksAnswers DEF ReadInOrder
  <1>4. AdviceTypeOK'
    BY <1>1, <1>2, <1>3 DEF AdviceTypeOK
  <1>5. ReadInOrder'
    BY <1>1 DEF ReadInOrder
  <1>6. Followed'
    <2> SUFFICES ASSUME answer'.code = "recommended", answer'.plan # 0
                 PROVE  /\ answer'.key \in Nat \X Nat \X Nat
                        /\ answer'.plan = calendar'.number => Ahead(calendar)'
      BY <1>1 DEF Followed
    <2>1. PICK s \in Remaining(asked) :
            /\ answer'.key = Advice!Key(s)
            /\ \A r \in Remaining(asked) : Advice!Earlier(Advice!Key(s), Advice!Key(r))
      BY AskTasksAnswers
    <2>2. s \in Placed
      BY <1>2 DEF Remaining, Calendars
    <2>3. answer'.key \in Nat \X Nat \X Nat
      BY <2>1, <2>2, KeysAreTimes
    <2>4. ASSUME answer'.plan = calendar'.number PROVE Ahead(calendar)'
      <3>1. asked = calendar
        BY <1>1, <1>3, <2>4 DEF ReadInOrder
      <3>2. Remaining(calendar)' = Remaining(asked)
        BY <1>1, <3>1 DEF Remaining, Advice!Active
      <3> QED
        BY <2>1, <3>2 DEF Ahead
    <2> QED
      BY <2>3, <2>4
  <1> QED
    BY <1>4, <1>5, <1>6

LEMMA ReplanKeeps ==
  ASSUME AdviceTypeOK, ReadInOrder, Followed, Advice!Replan
  PROVE  AdviceTypeOK' /\ ReadInOrder' /\ Followed'
  <1>1. UNCHANGED <<after, gated, urgent, adviceStatus, now, asked, answer, acts>>
    BY DEF Advice!Replan, Advice!given
  <1>2. calendar \in Calendars /\ calendar.number \in Nat
    BY DEF AdviceTypeOK, Calendars
  <1>3. calendar' \in Calendars /\ calendar'.number = calendar.number + 1
    <2>1. PICK begin \in [Advice!Active -> 0..Horizon], length \in [Advice!Active -> Lengths],
               mode \in {"enforce", "warn"}, result \in {"passed", "failed"} :
            calendar' = [number |-> calendar.number + 1, mode |-> mode, result |-> result,
                         steps |-> {[task |-> t, start |-> begin[t], end |-> begin[t] + length[t]] :
                                      t \in Advice!Active}]
      BY DEF Advice!Replan
    <2> DEFINE steps == {[task |-> t, start |-> begin[t], end |-> begin[t] + length[t]] :
                           t \in Advice!Active}
    <2>2. \A t \in Advice!Active : /\ t \in Listed /\ begin[t] \in Nat
                                   /\ begin[t] + length[t] \in Nat
      <3> SUFFICES ASSUME NEW t \in Advice!Active
                   PROVE  t \in Listed /\ begin[t] \in Nat /\ begin[t] + length[t] \in Nat
        OBVIOUS
      <3>1. begin[t] \in 0..Horizon /\ length[t] \in Lengths
        OBVIOUS
      <3>2. length[t] \in Nat
        BY <3>1, AdviceConstants
      <3>3. begin[t] \in Nat
        BY <3>1, AdviceConstants
      <3> QED
        BY <3>2, <3>3 DEF Advice!Active
    <2>3. steps \in SUBSET Placed
      BY <2>2 DEF Placed
    <2>4. calendar' = [number |-> calendar.number + 1, mode |-> mode, result |-> result,
                       steps |-> steps]
      BY <2>1
    <2> HIDE DEF steps
    <2> QED
      BY <1>2, <2>3, <2>4 DEF Calendars
  <1>4. AdviceTypeOK'
    BY <1>1, <1>2, <1>3 DEF AdviceTypeOK
  <1>5. asked \in Calendars => asked.number \in Nat
    BY DEF Calendars
  <1>6. ReadInOrder'
    BY <1>1, <1>2, <1>3, <1>5 DEF ReadInOrder, AdviceTypeOK
  <1>7. answer'.plan # calendar'.number
    BY <1>1, <1>2, <1>3 DEF AdviceTypeOK
  <1>8. Followed'
    BY <1>1, <1>7 DEF Followed, Ahead, Remaining, Advice!Active
  <1> QED
    BY <1>4, <1>6, <1>8

LEMMA ActKeeps ==
  ASSUME AdviceTypeOK, ReadInOrder, Followed, Advice!Act
  PROVE  AdviceTypeOK' /\ ReadInOrder' /\ Followed'
  <1>1. UNCHANGED <<after, gated, urgent, calendar, now, asked>>
    BY DEF Advice!Act, Advice!given
  <1>2. PICK t \in Listed, to \in {"completed", "skipped", "moot", "active"} :
          /\ adviceStatus' = [adviceStatus EXCEPT ![t] = to]
          /\ answer' = IF to = "active" THEN Advice!Diagnostic("none", Advice!NoPlan) ELSE answer
    BY DEF Advice!Act
  <1>3. adviceStatus' \in [Listed -> {"active", "completed", "skipped", "moot"}]
    BY <1>2 DEF AdviceTypeOK
  <1>4. CASE to = "active"
    <2>1. answer'.plan = 0 /\ answer'.code = "none"
      BY <1>2, <1>4 DEF Advice!Diagnostic, Advice!Answer, Advice!NoPlan
    <2>2. calendar.number \in Nat
      BY DEF AdviceTypeOK, Calendars
    <2> QED
      BY <1>1, <1>3, <2>1, <2>2 DEF AdviceTypeOK, ReadInOrder, Followed
  <1>5. CASE to # "active"
    <2>1. answer' = answer /\ Advice!Active' \subseteq Advice!Active
      BY <1>2, <1>5 DEF Advice!Active, AdviceTypeOK
    <2>2. \A p \in {calendar, asked} : Ahead(p) => Ahead(p)'
      BY <1>1, <2>1 DEF Ahead, Remaining
    <2>3. Followed'
      BY <1>1, <2>1, <2>2 DEF Followed, Ahead, Remaining
    <2> QED
      BY <1>1, <1>3, <2>1, <2>3 DEF AdviceTypeOK, ReadInOrder
  <1> QED
    BY <1>4, <1>5

LEMMA ClockKeeps ==
  ASSUME AdviceTypeOK, ReadInOrder, Followed, Advice!Tick
  PROVE  AdviceTypeOK' /\ ReadInOrder' /\ Followed'
  <1>1. /\ UNCHANGED <<after, gated, urgent, adviceStatus, calendar, asked, answer, acts>>
        /\ now' = now + 1 /\ now \in Nat
    BY DEF Advice!Tick, Advice!given, AdviceTypeOK
  <1>2. \A p \in Calendars : Remaining(p)' \subseteq Remaining(p)
    <2> SUFFICES ASSUME NEW p \in Calendars, NEW s \in p.steps, s.end > now'
                 PROVE  s.end > now
      BY <1>1 DEF Remaining, Advice!Active
    <2>1. s.end \in Nat
      BY DEF Calendars, Placed
    <2> QED
      BY <1>1, <2>1
  <1>3. \A p \in Calendars : Ahead(p) => Ahead(p)'
    BY <1>1, <1>2 DEF Ahead
  <1>4. Followed'
    BY <1>1, <1>3 DEF Followed, AdviceTypeOK
  <1> QED
    BY <1>1, <1>4 DEF AdviceTypeOK, ReadInOrder

(* AdviceInvariant: what was last advised from the Calendar that stands, or   *)
(* that a request has read, comes before all that is still to come of it.    *)
THEOREM AdviceInvariant == PlanningSpec => []AdviceInv
  <1>1. PlanningInit => AdviceInv
    <2> SUFFICES ASSUME PlanningInit PROVE AdviceTypeOK /\ ReadInOrder /\ Followed
      BY DEF AdviceInv
    <2>1. Advice!Init
      BY DEF PlanningInit
    <2>2. /\ answer.plan = 0 /\ answer.code = "none" /\ now = 0 /\ calendar \in Calendars
          /\ asked = Advice!NotAsked /\ calendar.number = 0
      BY <2>1 DEF Advice!Init, Advice!Diagnostic, Advice!Answer, Advice!NoPlan, Calendars
    <2>3. /\ adviceStatus \in [Listed -> {"active", "completed", "skipped", "moot"}]
          /\ after \in [Listed -> SUBSET Listed] /\ \A t \in Listed : \A d \in after[t] : d < t
      BY <2>1 DEF Advice!Init
    <2> QED
      BY <2>2, <2>3 DEF AdviceTypeOK, ReadInOrder, Followed
  <1>2. AdviceInv /\ [PlanningNext]_<<part, now, vars, requestVars, adviceVars, childVars>>
          => AdviceInv'
    <2> SUFFICES ASSUME AdviceInv, part' = "advice",
                        [PlanningNext]_<<part, now, vars, requestVars, adviceVars, childVars>>
                 PROVE  AdviceTypeOK' /\ ReadInOrder' /\ Followed'
      BY DEF AdviceInv
    <2>1. part = "advice"
      BY DEF PlanningNext
    <2>2. AdviceTypeOK /\ ReadInOrder /\ Followed
      BY <2>1 DEF AdviceInv
    <2>3. CASE Advice!Next
      BY <2>2, <2>3, AskPlanKeeps, AskTasksKeeps, ReplanKeeps, ActKeeps, ClockKeeps
         DEF Advice!Next
    <2>4. CASE UNCHANGED <<part, now, vars, requestVars, adviceVars, childVars>>
      BY <2>2, <2>4 DEF adviceVars, AdviceTypeOK, ReadInOrder, Followed, Ahead, Remaining,
                        Advice!Active
    <2> QED
      BY <2>1, <2>3, <2>4 DEF PlanningNext
  <1> QED
    BY <1>1, <1>2, PTL DEF PlanningSpec

LEMMA AdviceStepsOnly ==
  ASSUME part = "advice", [PlanningNext]_<<part, now, vars, requestVars, adviceVars, childVars>>
  PROVE  Advice!Next \/ UNCHANGED adviceVars
  BY DEF PlanningNext

(* AdviceForward: while a Calendar stands and no completion is undone, what   *)
(* the operator is told to do next moves forward through it, for every set   *)
(* of Tasks and every Calendar (services/next_action_service.rs).            *)
THEOREM AdviceForward == PlanningSpec => AdviceMovesForward
  <1>1. AdviceInv /\ [PlanningNext]_<<part, now, vars, requestVars, adviceVars, childVars>>
          => [part = "advice" => Advice!MovesForward]_adviceVars
    <2> SUFFICES ASSUME AdviceInv, part = "advice", Advice!Next,
                        answer.code = "recommended", answer'.code = "recommended",
                        answer.plan # 0, answer'.plan = answer.plan
                 PROVE  \/ answer'.key[1] > answer.key[1]
                        \/ answer'.key[1] = answer.key[1] /\ answer'.key[2] > answer.key[2]
                        \/ answer'.key[1] = answer.key[1] /\ answer'.key[2] = answer.key[2]
                             /\ answer'.key[3] >= answer.key[3]
      BY AdviceStepsOnly DEF Advice!MovesForward
    <2>1. AdviceTypeOK /\ ReadInOrder /\ Followed
      BY DEF AdviceInv
    <2>2. answer.key \in Nat \X Nat \X Nat
      BY <2>1 DEF Followed
    <2>3. CASE answer' = answer
      BY <2>2, <2>3
    <2>4. CASE Advice!AskTasks
      <3>1. asked \in Calendars /\ asked.number = answer.plan
        BY <2>1, <2>4, AskTasksAnswers
      <3>2. PICK s \in Remaining(asked) : answer'.key = Advice!Key(s)
        BY <2>1, <2>4, AskTasksAnswers
      <3>3. Advice!Earlier(answer.key, Advice!Key(s))
        BY <2>1, <3>1, <3>2, NotACalendar DEF Followed, Ahead
      <3>4. answer'.key \in Nat \X Nat \X Nat
        BY <3>1, <3>2, KeysAreTimes DEF Remaining, Calendars
      <3> QED
        BY <2>2, <3>2, <3>3, <3>4 DEF Advice!Earlier
    <2>5. CASE Advice!AskPlan
      BY <2>3, <2>5 DEF Advice!AskPlan, Advice!Diagnostic, Advice!Answer
    <2>6. CASE Advice!Act
      BY <2>3, <2>6 DEF Advice!Act, Advice!Diagnostic, Advice!Answer
    <2>7. CASE Advice!Replan \/ Advice!Tick
      BY <2>3, <2>7 DEF Advice!Replan, Advice!Tick
    <2> QED
      BY <2>4, <2>5, <2>6, <2>7 DEF Advice!Next
  <1> QED
    BY <1>1, AdviceInvariant, PTL DEF PlanningSpec, AdviceMovesForward

(* DependenciesBlock: only a prerequisite that was skipped or replaced sends  *)
(* the operator away for unmet dependencies: the first Task on the list      *)
(* waits for nothing that is still on it.                                    *)
THEOREM DependenciesBlock == PlanningSpec => BlockedForGood
  <1>1. AdviceInv /\ [PlanningNext]_<<part, now, vars, requestVars, adviceVars, childVars>>
          => [part = "advice" => Advice!BlocksForGood]_adviceVars
    <2> SUFFICES ASSUME AdviceInv, part = "advice", Advice!Next,
                        answer'.code = "dependencies", answer' # answer
                 PROVE  \E t \in Advice!Active : \E d \in after[t] :
                          adviceStatus[d] \in {"skipped", "moot"}
      BY AdviceStepsOnly DEF Advice!BlocksForGood
    <2>1. AdviceTypeOK
      BY DEF AdviceInv
    <2>2. Advice!AskTasks
      BY DEF Advice!Next, Advice!AskPlan, Advice!Act, Advice!Replan, Advice!Tick,
             Advice!Diagnostic, Advice!Answer
    <2>3. /\ Advice!Active # {}
          /\ \A t \in Advice!Active : Advice!Unmet(t) = {"dependencies"}
      BY <2>1, <2>2, AskTasksAnswers, SkeletonAdvises
    <2>4. PICK t \in Advice!Active : \A u \in Advice!Active : t <= u
      BY <2>3, AdviceConstants, FirstOf DEF Advice!Active
    <2>5. ~ (after[t] \subseteq Advice!Completed)
      BY <2>3, <2>4 DEF Advice!Unmet
    <2>6. PICK d \in after[t] : d \notin Advice!Completed
      BY <2>5
    <2>7. t \in Listed /\ d \in Listed /\ d < t /\ t \in Nat /\ d \in Nat
      BY <2>1, <2>4, <2>6, AdviceConstants DEF AdviceTypeOK, Advice!Active
    <2>8. d \notin Advice!Active
      BY <2>4, <2>7
    <2>9. adviceStatus[d] \in {"skipped", "moot"}
      BY <2>1, <2>6, <2>7, <2>8 DEF AdviceTypeOK, Advice!Active, Advice!Completed
    <2> QED
      BY <2>4, <2>6, <2>9
  <1> QED
    BY <1>1, AdviceInvariant, PTL DEF PlanningSpec, BlockedForGood

-----------------------------------------------------------------------------
(* Decomposition *)

Rows == [status : {"active", "completed", "skipped", "moot"}, version : Nat \ {0}, body : Nat,
         window : Windows, after : SUBSET Nat, work : Nat, parent : Nat]

Checklists == [status : {"active", "superseded"}, version : Nat, origin : Nat, snapshot : Rows,
               splits : Seq(Nat), left : SUBSET Nat, items : Seq(Nat), restored : Nat]

(* What a request has read of the Tasks. *)
Glimpses == UNION {[T -> Rows] : T \in SUBSET Nat}

ChildJobs == [pc : {"idle", "decompose", "undo"}, on : Nat, expected : Nat, seen : Glimpses,
              proposal : Proposals \cup {<<>>}]

ChildTypeOK ==
  /\ tasks \in Seq(Rows) /\ containers \in Seq(Checklists)
  /\ job \in [Clients -> ChildJobs]

(* A Task that was read has changed since, or is as it was read.             *)
SeenOnce(j) ==
  \A t \in DOMAIN j.seen :
    /\ t \in DOMAIN tasks /\ j.seen[t].version <= tasks[t].version
    /\ j.seen[t].version = tasks[t].version => j.seen[t] = tasks[t]

Members(k) == Children!ToSet(containers[k].items)

(* What a request found when it read, and the version it expects.            *)
ReadToAdmit(j) ==
  /\ j.pc = "decompose" =>
       /\ j.on \in DOMAIN j.seen /\ j.expected <= j.seen[j.on].version
       /\ j.seen[j.on].status = "active" /\ j.seen[j.on].parent = 0
       /\ j.proposal \in Proposals
  /\ j.pc = "undo" =>
       /\ j.on \in DOMAIN containers /\ j.expected <= containers[j.on].version
       /\ j.expected = containers[j.on].version => containers[j.on].status = "active"
       /\ DOMAIN j.seen = {containers[j.on].origin} \cup Members(j.on)

(* The Tasks of a checklist are its Container's, and of one work; when it was *)
(* undone those that were not completed are off the list.                    *)
ChecklistsHold ==
  \A k \in DOMAIN containers :
    /\ containers[k].origin \in DOMAIN tasks /\ Members(k) \subseteq DOMAIN tasks
    /\ \A t \in Members(k) : /\ tasks[t].parent = k
                             /\ tasks[t].work = containers[k].snapshot.work
    /\ containers[k].status = "superseded" =>
         \A t \in Members(k) \ containers[k].left : tasks[t].status = "moot"

ParentsHold ==
  \A t \in DOMAIN tasks :
    tasks[t].parent # 0 =>
      tasks[t].parent \in DOMAIN containers /\ t \in Members(tasks[t].parent)

(* The forms a piece of work may take: a Task of its own that was not         *)
(* replaced, or a checklist that was not undone.                             *)
Wholes(work) == {t \in DOMAIN tasks : /\ tasks[t].parent = 0 /\ tasks[t].status # "moot"
                                      /\ tasks[t].work = work}

Parted(work) == {k \in DOMAIN containers : /\ containers[k].status = "active"
                                           /\ containers[k].snapshot.work = work}

OneForm ==
  \A work \in Nat :
    /\ \A t, u \in Wholes(work) : t = u
    /\ \A k, l \in Parted(work) : k = l
    /\ Wholes(work) = {} \/ Parted(work) = {}

ChildInv ==
  /\ ChildTypeOK
  /\ \A c \in Clients : SeenOnce(job[c]) /\ ReadToAdmit(job[c])
  /\ ChecklistsHold /\ ParentsHold /\ OneForm

-----------------------------------------------------------------------------
(* What every step keeps of the rows that were read *)

RowsMove ==
  /\ DOMAIN tasks \subseteq DOMAIN tasks'
  /\ \A t \in DOMAIN tasks : /\ tasks[t].version <= tasks'[t].version
                             /\ tasks[t].version = tasks'[t].version => tasks'[t] = tasks[t]

ChecklistsMove ==
  /\ DOMAIN containers \subseteq DOMAIN containers'
  /\ \A k \in DOMAIN containers :
       /\ containers[k].version <= containers'[k].version
       /\ containers[k].version = containers'[k].version => containers'[k] = containers[k]
       /\ containers'[k].items = containers[k].items
       /\ containers'[k].origin = containers[k].origin

LEMMA RowOf ==
  ASSUME ChildTypeOK
  PROVE  /\ \A t \in DOMAIN tasks : tasks[t] \in Rows /\ tasks[t].version \in Nat /\ t \in Nat
         /\ \A k \in DOMAIN containers : /\ containers[k] \in Checklists /\ k \in Nat
                                         /\ containers[k].version \in Nat
         /\ DOMAIN tasks = 1..Len(tasks) /\ Len(tasks) \in Nat
         /\ DOMAIN containers = 1..Len(containers) /\ Len(containers) \in Nat
  <1>1. /\ DOMAIN tasks = 1..Len(tasks) /\ Len(tasks) \in Nat
        /\ DOMAIN containers = 1..Len(containers) /\ Len(containers) \in Nat
    BY DEF ChildTypeOK
  <1>2. \A t \in DOMAIN tasks : tasks[t] \in Rows /\ t \in Nat
    BY <1>1, ElementOfSeq DEF ChildTypeOK
  <1>3. \A k \in DOMAIN containers : containers[k] \in Checklists /\ k \in Nat
    BY <1>1, ElementOfSeq DEF ChildTypeOK
  <1>4. \A r \in Rows : r.version \in Nat
    BY DEF Rows
  <1>5. \A r \in Checklists : r.version \in Nat
    BY DEF Checklists
  <1> QED
    BY <1>1, <1>2, <1>3, <1>4, <1>5

LEMMA VersionsCount ==
  /\ \A s \in Seq(Rows) : \A i \in DOMAIN s : s[i].version \in Nat
  /\ \A s \in Seq(Checklists) : \A i \in DOMAIN s : s[i].version \in Nat
  <1>1. /\ \A r \in Rows : r.version \in Nat
        /\ \A r \in Checklists : r.version \in Nat
    BY DEF Rows, Checklists
  <1>2. \A s \in Seq(Rows) : \A i \in DOMAIN s : s[i] \in Rows
    BY ElementOfSeq
  <1>3. \A s \in Seq(Checklists) : \A i \in DOMAIN s : s[i] \in Checklists
    BY ElementOfSeq
  <1> QED
    BY <1>1, <1>2, <1>3

LEMMA SeenStays ==
  ASSUME ChildTypeOK, ChildTypeOK', RowsMove, NEW j \in ChildJobs, SeenOnce(j)
  PROVE  SeenOnce(j)'
  <1> SUFFICES ASSUME NEW t \in DOMAIN j.seen
               PROVE  /\ t \in DOMAIN tasks' /\ j.seen[t].version <= tasks'[t].version
                      /\ j.seen[t].version = tasks'[t].version => j.seen[t] = tasks'[t]
    BY DEF SeenOnce
  <1>1. /\ t \in DOMAIN tasks /\ j.seen[t].version <= tasks[t].version
        /\ j.seen[t].version = tasks[t].version => j.seen[t] = tasks[t]
    BY DEF SeenOnce
  <1>2. /\ t \in DOMAIN tasks' /\ tasks[t].version <= tasks'[t].version
        /\ tasks[t].version = tasks'[t].version => tasks'[t] = tasks[t]
    BY <1>1 DEF RowsMove
  <1>3. tasks[t].version \in Nat /\ tasks'[t].version \in Nat
    BY <1>1, <1>2, VersionsCount DEF ChildTypeOK
  <1>4. j.seen[t].version \in Nat
    <2>1. \A g \in Glimpses : \A u \in DOMAIN g : g[u] \in Rows
      BY DEF Glimpses
    <2>2. j.seen \in Glimpses
      BY DEF ChildJobs
    <2>3. j.seen[t] \in Rows
      BY <2>1, <2>2
    <2> QED
      BY <2>3 DEF Rows
  <1> QED
    BY <1>1, <1>2, <1>3, <1>4

LEMMA ReadStays ==
  ASSUME ChildTypeOK, ChildTypeOK', ChecklistsMove, NEW j \in ChildJobs, ReadToAdmit(j)
  PROVE  ReadToAdmit(j)'
  <1> SUFFICES ASSUME j.pc = "undo"
               PROVE  /\ j.on \in DOMAIN containers' /\ j.expected <= containers'[j.on].version
                      /\ j.expected = containers'[j.on].version =>
                           containers'[j.on].status = "active"
                      /\ DOMAIN j.seen = {containers'[j.on].origin} \cup Members(j.on)'
    BY DEF ReadToAdmit
  <1>1. PICK k : k = j.on
    OBVIOUS
  <1>2. /\ k \in DOMAIN containers /\ j.expected <= containers[k].version
        /\ j.expected = containers[k].version => containers[k].status = "active"
        /\ DOMAIN j.seen = {containers[k].origin} \cup Members(k)
    BY <1>1 DEF ReadToAdmit
  <1>3. /\ k \in DOMAIN containers'
        /\ containers[k].version <= containers'[k].version
        /\ containers[k].version = containers'[k].version => containers'[k] = containers[k]
        /\ containers'[k].items = containers[k].items
        /\ containers'[k].origin = containers[k].origin
    BY <1>2 DEF ChecklistsMove
  <1>4. containers[k].version \in Nat /\ containers'[k].version \in Nat /\ j.expected \in Nat
    BY <1>2, <1>3, VersionsCount DEF ChildTypeOK, ChildJobs
  <1>5. Members(k)' = Members(k)
    BY <1>3 DEF Members, Children!ToSet
  <1> QED
    BY <1>1, <1>2, <1>3, <1>4, <1>5 DEF Members

LEMMA IdleHolds ==
  /\ Children!Idle \in ChildJobs
  /\ SeenOnce(Children!Idle) /\ SeenOnce(Children!Idle)'
  /\ ReadToAdmit(Children!Idle) /\ ReadToAdmit(Children!Idle)'
  <1>1. <<>> \in Glimpses
    <2>1. <<>> \in [{} -> Rows]
      OBVIOUS
    <2> QED
      BY <2>1 DEF Glimpses
  <1> QED
    BY <1>1 DEF Children!Idle, ChildJobs, SeenOnce, ReadToAdmit

(* Every request but one that moves keeps what it has read. *)
LEMMA ClientsKeep ==
  ASSUME ChildInv, ChildTypeOK', RowsMove, ChecklistsMove, NEW c \in Clients,
         \/ job' = job
         \/ job' = [job EXCEPT ![c] = Children!Idle]
         \/ \E j \in ChildJobs : /\ job' = [job EXCEPT ![c] = j]
                                 /\ SeenOnce(j)' /\ ReadToAdmit(j)'
  PROVE  \A d \in Clients : SeenOnce(job[d])' /\ ReadToAdmit(job[d])'
  <1>1. job \in [Clients -> ChildJobs]
    BY DEF ChildInv, ChildTypeOK
  <1>2. ASSUME NEW d \in Clients, job'[d] = job[d]
        PROVE  SeenOnce(job[d])' /\ ReadToAdmit(job[d])'
    <2>1. PICK j \in ChildJobs : j = job[d] /\ SeenOnce(j) /\ ReadToAdmit(j)
      BY <1>1 DEF ChildInv
    <2>2. SeenOnce(j)' /\ ReadToAdmit(j)'
      BY <2>1, SeenStays, ReadStays DEF ChildInv
    <2> QED
      BY <1>2, <2>1, <2>2 DEF SeenOnce, ReadToAdmit
  <1>3. ASSUME NEW j \in ChildJobs, job' = [job EXCEPT ![c] = j],
               SeenOnce(j)', ReadToAdmit(j)', NEW d \in Clients
        PROVE  SeenOnce(job[d])' /\ ReadToAdmit(job[d])'
    <2>1. CASE d = c
      <3>1. job'[d] = j
        BY <1>1, <1>3, <2>1
      <3> QED
        BY <1>3, <3>1 DEF SeenOnce, ReadToAdmit
    <2>2. CASE d # c
      BY <1>1, <1>2, <1>3, <2>2
    <2> QED
      BY <2>1, <2>2
  <1>4. CASE job' = [job EXCEPT ![c] = Children!Idle]
    BY <1>3, <1>4, IdleHolds
  <1> QED
    BY <1>2, <1>3, <1>4

(* A step that only edits Tasks leaves every piece of work in its form. *)
LEMMA EditsKeepForms ==
  ASSUME ChildInv, containers' = containers, DOMAIN tasks' = DOMAIN tasks,
         \A t \in DOMAIN tasks : /\ tasks'[t].parent = tasks[t].parent
                                 /\ tasks'[t].work = tasks[t].work
                                 /\ tasks'[t].status = "moot" <=> tasks[t].status = "moot"
  PROVE  ChecklistsHold' /\ ParentsHold' /\ OneForm'
  <1>1. \A k : Members(k)' = Members(k)
    BY DEF Members, Children!ToSet
  <1>2. ChecklistsHold'
    <2> SUFFICES ASSUME NEW k \in DOMAIN containers
                 PROVE  /\ containers[k].origin \in DOMAIN tasks /\ Members(k) \subseteq DOMAIN tasks
                        /\ \A t \in Members(k) : /\ tasks'[t].parent = k
                                                 /\ tasks'[t].work = containers[k].snapshot.work
                        /\ containers[k].status = "superseded" =>
                             \A t \in Members(k) \ containers[k].left : tasks'[t].status = "moot"
      BY <1>1 DEF ChecklistsHold
    <2> QED
      BY DEF ChildInv, ChecklistsHold
  <1>3. ParentsHold'
    BY <1>1 DEF ChildInv, ParentsHold
  <1>4. \A work : Wholes(work)' = Wholes(work) /\ Parted(work)' = Parted(work)
    BY DEF Wholes, Parted
  <1>5. OneForm'
    BY <1>4 DEF ChildInv, OneForm
  <1> QED
    BY <1>2, <1>3, <1>5

LEMMA NothingMoves ==
  ASSUME ChildInv, UNCHANGED <<tasks, containers>>
  PROVE  RowsMove /\ ChecklistsMove /\ ChecklistsHold' /\ ParentsHold' /\ OneForm'
  <1>1. ChecklistsHold' /\ ParentsHold' /\ OneForm'
    BY EditsKeepForms
  <1>2. RowsMove /\ ChecklistsMove
    BY RowOf DEF ChildInv, RowsMove, ChecklistsMove
  <1> QED
    BY <1>1, <1>2

LEMMA RowEdited ==
  ASSUME ChildInv, NEW t \in DOMAIN tasks, NEW r \in Rows,
         UNCHANGED <<containers, job>>, tasks' = [tasks EXCEPT ![t] = r],
         tasks[t].version < r.version, r.parent = tasks[t].parent, r.work = tasks[t].work,
         r.status = "moot" <=> tasks[t].status = "moot"
  PROVE  ChildInv'
  <1>1. tasks \in Seq(Rows) /\ tasks[t].version \in Nat /\ r.version \in Nat
    BY VersionsCount DEF ChildInv, ChildTypeOK, Rows
  <1>2. tasks' \in Seq(Rows) /\ DOMAIN tasks' = DOMAIN tasks
    BY <1>1
  <1>3. \A u \in DOMAIN tasks : tasks'[u] = IF u = t THEN r ELSE tasks[u]
    BY <1>1
  <1>4. ChildTypeOK'
    BY <1>2 DEF ChildInv, ChildTypeOK
  <1>5. RowsMove
    BY <1>1, <1>2, <1>3, VersionsCount DEF RowsMove
  <1>6. ChecklistsMove
    BY RowOf DEF ChildInv, ChecklistsMove
  <1>7. ChecklistsHold' /\ ParentsHold' /\ OneForm'
    BY <1>2, <1>3, EditsKeepForms
  <1>8. \A c \in Clients : SeenOnce(job[c])' /\ ReadToAdmit(job[c])'
    BY <1>4, <1>5, <1>6, ClientsKeep
  <1> QED
    BY <1>4, <1>7, <1>8 DEF ChildInv

(* A row is rewritten at the next version, with another status or body.      *)
Restated(row, to) == [row EXCEPT !.status = to, !.version = row.version + 1]

Reworded(row) == [row EXCEPT !.body = row.body + 1, !.version = row.version + 1]

LEMMA NextVersion ==
  ASSUME NEW row \in Rows
  PROVE  /\ \A to \in {"active", "completed", "skipped", "moot"} :
              /\ Restated(row, to) \in Rows /\ row.version < Restated(row, to).version
              /\ Restated(row, to).parent = row.parent /\ Restated(row, to).work = row.work
              /\ Restated(row, to).status = to /\ Restated(row, to).body = row.body
         /\ Reworded(row) \in Rows /\ row.version < Reworded(row).version
         /\ Reworded(row).parent = row.parent /\ Reworded(row).work = row.work
         /\ Reworded(row).status = row.status
  <1>1. PICK n \in Nat \ {0}, b \in Nat : n = row.version + 1 /\ b = row.body + 1 /\ row.version < n
    <2>1. row.version \in Nat /\ row.body \in Nat
      BY DEF Rows
    <2> QED
      BY <2>1
  <1>2. ASSUME NEW to \in {"active", "completed", "skipped", "moot"}
        PROVE  /\ Restated(row, to) \in Rows /\ Restated(row, to).version = n
               /\ Restated(row, to).parent = row.parent /\ Restated(row, to).work = row.work
               /\ Restated(row, to).status = to /\ Restated(row, to).body = row.body
    <2>1. [row EXCEPT !.status = to] \in Rows
      BY DEF Rows
    <2>2. [[row EXCEPT !.status = to] EXCEPT !.version = n] \in Rows
      BY <2>1 DEF Rows
    <2>3. Restated(row, to) = [[row EXCEPT !.status = to] EXCEPT !.version = n]
      BY <1>1 DEF Restated, Rows
    <2> QED
      BY <2>2, <2>3 DEF Rows
  <1>3. /\ Reworded(row) \in Rows /\ Reworded(row).version = n
        /\ Reworded(row).parent = row.parent /\ Reworded(row).work = row.work
        /\ Reworded(row).status = row.status
    <2>1. [row EXCEPT !.body = b] \in Rows
      BY DEF Rows
    <2>2. [[row EXCEPT !.body = b] EXCEPT !.version = n] \in Rows
      BY <2>1 DEF Rows
    <2>3. Reworded(row) = [[row EXCEPT !.body = b] EXCEPT !.version = n]
      BY <1>1 DEF Reworded, Rows
    <2> QED
      BY <2>2, <2>3 DEF Rows
  <1> QED
    BY <1>1, <1>2, <1>3

LEMMA ChildActKeeps ==
  ASSUME ChildInv, Children!Act
  PROVE  ChildInv'
  <1>1. PICK t \in DOMAIN tasks, to \in {"active", "completed", "skipped"} :
          /\ tasks[t].status = (IF to = "active" THEN "completed" ELSE "active")
          /\ tasks' = [tasks EXCEPT ![t].status = to, ![t].version = @ + 1]
    BY DEF Children!Act
  <1>2. PICK row \in Rows : row = tasks[t]
    BY RowOf DEF ChildInv
  <1>3. PICK r : r = Restated(row, to)
    OBVIOUS
  <1>4. /\ r \in Rows /\ row.version < r.version /\ r.parent = row.parent /\ r.work = row.work
        /\ r.status = to
    BY <1>3, NextVersion
  <1>5. tasks' = [tasks EXCEPT ![t] = r]
    <2>1. tasks \in [1..Len(tasks) -> Rows]
      BY DEF ChildInv, ChildTypeOK
    <2> QED
      BY <1>1, <1>2, <1>3, <2>1 DEF Restated
  <1>6. UNCHANGED <<containers, job>>
    BY DEF Children!Act
  <1> QED
    BY <1>1, <1>2, <1>4, <1>5, <1>6, RowEdited

LEMMA PatchKeeps ==
  ASSUME ChildInv, Children!Patch
  PROVE  ChildInv'
  <1>1. PICK t \in DOMAIN tasks :
          tasks' = [tasks EXCEPT ![t].body = @ + 1, ![t].version = @ + 1]
    BY DEF Children!Patch
  <1>2. PICK row \in Rows : row = tasks[t]
    BY RowOf DEF ChildInv
  <1>3. PICK r : r = Reworded(row)
    OBVIOUS
  <1>4. /\ r \in Rows /\ row.version < r.version /\ r.parent = row.parent /\ r.work = row.work
        /\ r.status = row.status
    BY <1>3, NextVersion
  <1>5. tasks' = [tasks EXCEPT ![t] = r]
    <2>1. tasks \in [1..Len(tasks) -> Rows]
      BY DEF ChildInv, ChildTypeOK
    <2> QED
      BY <1>1, <1>2, <1>3, <2>1 DEF Reworded
  <1>6. UNCHANGED <<containers, job>>
    BY DEF Children!Patch
  <1> QED
    BY <1>1, <1>2, <1>4, <1>5, <1>6, RowEdited

(* A request that reads or is dropped.  A Task that is no child is a Task of  *)
(* its own: what was read of it says so.                                     *)
LEMMA ReadOriginKeeps ==
  ASSUME ChildInv, NEW c \in Clients, Children!ReadOrigin(c)
  PROVE  ChildInv'
  <1>1. PICK t \in DOMAIN tasks, p \in Proposals, expected \in Nat :
          /\ tasks[t].status = "active" /\ ~ Children!IsChild(t)
          /\ expected \in {tasks[t].version, tasks[t].version - 1}
          /\ job' = [job EXCEPT ![c] = [pc |-> "decompose", on |-> t, expected |-> expected,
                                        seen |-> [o \in {t} |-> tasks[o]], proposal |-> p]]
    <2>1. PICK t \in DOMAIN tasks, p \in Proposals :
            /\ tasks[t].status = "active" /\ ~ Children!IsChild(t)
            /\ \E expected \in {tasks[t].version, tasks[t].version - 1} \ {0} :
                 job' = [job EXCEPT ![c] =
                           [pc |-> "decompose", on |-> t, expected |-> expected,
                            seen |-> [o \in {t} |-> tasks[o]], proposal |-> p]]
      BY DEF Children!ReadOrigin, Children!Take
    <2>2. tasks[t].version \in Nat
      BY RowOf DEF ChildInv
    <2>3. \A expected \in {tasks[t].version, tasks[t].version - 1} \ {0} :
            expected \in Nat \/ tasks[t].version = 0
      BY <2>2
    <2>4. tasks[t].version # 0
      BY RowOf DEF ChildInv, Rows
    <2> QED
      BY <2>1, <2>3, <2>4
  <1>2. UNCHANGED <<tasks, containers>>
    BY DEF Children!ReadOrigin
  <1>3. PICK row \in Rows : row = tasks[t] /\ t \in Nat
    BY RowOf DEF ChildInv
  <1>4. PICK seen : seen = [o \in {t} |-> row]
    OBVIOUS
  <1>5. seen \in Glimpses
    BY <1>3, <1>4 DEF Glimpses
  <1>6. PICK j : j = [pc |-> "decompose", on |-> t, expected |-> expected, seen |-> seen,
                      proposal |-> p]
    OBVIOUS
  <1>7. j \in ChildJobs
    BY <1>3, <1>5, <1>6 DEF ChildJobs
  <1>8. job' = [job EXCEPT ![c] = j]
    <2>1. seen = [o \in {t} |-> tasks[o]]
      BY <1>3, <1>4
    <2> QED
      BY <1>1, <1>6, <2>1
  <1>9. row.version \in Nat /\ row.parent = 0
    <2>1. row.parent = 0
      <3>1. row.parent # 0 => /\ row.parent \in DOMAIN containers
                              /\ t \in Children!ToSet(containers[row.parent].items)
        BY <1>3 DEF ChildInv, ParentsHold, Members
      <3> QED
        BY <1>1, <3>1 DEF Children!IsChild
    <2> QED
      BY <2>1 DEF Rows
  <1>10. SeenOnce(j)'
    BY <1>2, <1>3, <1>4, <1>6, <1>9 DEF SeenOnce
  <1>11. ReadToAdmit(j)'
    <2>1. expected <= row.version
      BY <1>1, <1>3, <1>9
    <2> QED
      BY <1>1, <1>3, <1>4, <1>6, <1>9, <2>1 DEF ReadToAdmit
  <1>12. ChildTypeOK'
    BY <1>2, <1>7, <1>8 DEF ChildInv, ChildTypeOK
  <1> QED
    BY <1>2, <1>7, <1>8, <1>10, <1>11, <1>12, NothingMoves, ClientsKeep DEF ChildInv

LEMMA ReadContainerKeeps ==
  ASSUME ChildInv, NEW c \in Clients, Children!ReadContainer(c)
  PROVE  ChildInv'
  <1>1. PICK k \in DOMAIN containers :
          /\ containers[k].status = "active"
          /\ job' = [job EXCEPT ![c] =
               [pc |-> "undo", on |-> k, expected |-> containers[k].version, proposal |-> <<>>,
                seen |-> [t \in {containers[k].origin} \cup Members(k) |-> tasks[t]]]]
    BY DEF Children!ReadContainer, Children!Take, Children!Undoable, Members
  <1>2. UNCHANGED <<tasks, containers>>
    BY DEF Children!ReadContainer
  <1>3. PICK read : read = {containers[k].origin} \cup Members(k)
    OBVIOUS
  <1>4. read \subseteq DOMAIN tasks
    BY <1>3 DEF ChildInv, ChecklistsHold
  <1>5. PICK seen : seen = [t \in read |-> tasks[t]]
    OBVIOUS
  <1>6. seen \in Glimpses
    <2>1. read \in SUBSET Nat /\ seen \in [read -> Rows]
      BY <1>4, <1>5, RowOf DEF ChildInv
    <2> QED
      BY <2>1 DEF Glimpses
  <1>7. PICK version \in Nat : k \in Nat /\ version = containers[k].version
    BY RowOf DEF ChildInv
  <1>8. PICK j : j = [pc |-> "undo", on |-> k, expected |-> version, proposal |-> <<>>,
                      seen |-> seen]
    OBVIOUS
  <1>9. j \in ChildJobs
    BY <1>6, <1>7, <1>8 DEF ChildJobs
  <1>10. job' = [job EXCEPT ![c] = j]
    BY <1>1, <1>3, <1>5, <1>7, <1>8
  <1>11. SeenOnce(j)'
    <2>1. \A t \in read : tasks[t].version \in Nat
      BY <1>4, RowOf DEF ChildInv
    <2> QED
      BY <1>2, <1>4, <1>5, <1>8, <2>1 DEF SeenOnce
  <1>12. ReadToAdmit(j)'
    BY <1>1, <1>2, <1>3, <1>5, <1>7, <1>8 DEF ReadToAdmit, Members
  <1>13. ChildTypeOK'
    BY <1>2, <1>9, <1>10 DEF ChildInv, ChildTypeOK
  <1> QED
    BY <1>2, <1>9, <1>10, <1>11, <1>12, <1>13, NothingMoves, ClientsKeep DEF ChildInv

LEMMA QuietKeeps ==
  ASSUME ChildInv, NEW c \in Clients, UNCHANGED <<tasks, containers>>,
         job' = job \/ job' = [job EXCEPT ![c] = Children!Idle]
  PROVE  ChildInv'
  <1>1. ChildTypeOK'
    BY IdleHolds DEF ChildInv, ChildTypeOK
  <1> QED
    BY <1>1, NothingMoves, ClientsKeep DEF ChildInv

-----------------------------------------------------------------------------
(* A checklist replaces its Task *)

(* The children of a checklist are Tasks of the work it replaces.            *)
LEMMA ChildrenAreTasks ==
  ASSUME NEW p \in Proposals, NEW work \in Nat, NEW parent \in Nat, tasks \in Seq(Rows)
  PROVE  LET kids == Children!Children(p, work, parent)
         IN /\ kids \in Seq(Rows) /\ Len(kids) = Len(p.children)
            /\ \A i \in DOMAIN kids : /\ kids[i].status = "active" /\ kids[i].parent = parent
                                      /\ kids[i].work = work
  <1>1. PICK kids : kids = Children!Children(p, work, parent)
    OBVIOUS
  <1>2. PICK m \in Nat : m = Len(p.children) /\ DOMAIN p.children = 1..m
    BY ChildConstants
  <1> PICK checks \in Seq([window : Windows, gated : BOOLEAN, after : SUBSET Nat]) :
        checks = p.children
    BY ChildConstants
  <1>checks. \A i \in 1..m : checks[i].window \in Windows /\ checks[i].after \subseteq Nat
    <2> SUFFICES ASSUME NEW i \in 1..m
                 PROVE  checks[i].window \in Windows /\ checks[i].after \subseteq Nat
      OBVIOUS
    <2>1. checks[i] \in [window : Windows, gated : BOOLEAN, after : SUBSET Nat]
      BY <1>2, ElementOfSeq
    <2> QED
      BY <2>1
  <1>3. ASSUME NEW i \in 1..m
        PROVE  \E waits \in SUBSET Nat :
                 kids[i] = [status |-> "active", version |-> 1, body |-> 0,
                            window |-> p.children[i].window, after |-> waits, work |-> work,
                            parent |-> parent]
    <2> DEFINE waits == {Len(tasks) + d :
                           d \in p.children[i].after \cup (IF i > 1 THEN {i - 1} ELSE {})}
    <2>1. p.children[i].after \subseteq Nat
      BY <1>checks
    <2>2. p.children[i].after \cup (IF i > 1 THEN {i - 1} ELSE {}) \subseteq Nat
      BY <2>1
    <2>3. waits \in SUBSET Nat
      BY <2>2
    <2>4. kids[i] = Children!NewTask(0, p.children[i].window, waits, work, parent)
      BY <1>1, <1>2 DEF Children!Children
    <2> QED
      BY <2>3, <2>4 DEF Children!NewTask
  <1>4. ASSUME NEW i \in 1..m
        PROVE  /\ kids[i] \in Rows /\ kids[i].status = "active" /\ kids[i].parent = parent
               /\ kids[i].work = work
    <2>1. PICK window \in Windows : window = p.children[i].window
      BY <1>checks
    <2>2. PICK waits \in SUBSET Nat :
            kids[i] = [status |-> "active", version |-> 1, body |-> 0, window |-> window,
                       after |-> waits, work |-> work, parent |-> parent]
      BY <1>3, <2>1
    <2> QED
      BY <2>2 DEF Rows
  <1>5. DOMAIN kids = 1..m /\ kids = [i \in 1..m |-> kids[i]]
    BY <1>1, <1>2 DEF Children!Children
  <1>6. kids \in Seq(Rows) /\ Len(kids) = m
    BY <1>4, <1>5
  <1> QED
    BY <1>1, <1>2, <1>4, <1>5, <1>6

(* What admitting a checklist writes. *)
ChecklistWritten(on, row, k) ==
  /\ row = tasks[on] /\ row.status = "active" /\ row.parent = 0
  /\ tasks' \in Seq(Rows) /\ DOMAIN tasks \subseteq DOMAIN tasks'
  /\ tasks'[on] = Restated(row, "moot")
  /\ \A t \in DOMAIN tasks \ {on} : tasks'[t] = tasks[t]
  /\ \A t \in DOMAIN tasks' \ DOMAIN tasks :
       /\ tasks'[t].status = "active" /\ tasks'[t].parent = Len(containers) + 1
       /\ tasks'[t].work = row.work
  /\ containers' = Append(containers, k)
  /\ k.status = "active" /\ k.origin = on /\ k.snapshot = row
  /\ Children!ToSet(k.items) = DOMAIN tasks' \ DOMAIN tasks

LEMMA ChecklistWrites ==
  ASSUME ChildInv, NEW c \in Clients, Children!AdmitChecklist(c),
         ~ UNCHANGED <<tasks, containers>>
  PROVE  \E on \in DOMAIN tasks, row \in Rows, k \in Checklists : ChecklistWritten(on, row, k)
  <1>1. PICK j \in ChildJobs : j = job[c] /\ SeenOnce(j) /\ ReadToAdmit(j)
    BY DEF ChildInv, ChildTypeOK
  <1>2. PICK on \in Nat, p \in Proposals :
          on = j.on /\ p = j.proposal /\ on \in DOMAIN tasks
    BY <1>1 DEF ChildJobs, ReadToAdmit, SeenOnce, Children!AdmitChecklist
  <1>3. PICK row \in Rows : row = tasks[on] /\ row.version \in Nat
    BY <1>2, RowOf DEF ChildInv
  <1>4. row.version = j.expected
    BY <1>1, <1>2, <1>3 DEF Children!AdmitChecklist
  <1>5. j.seen[on] = row
    <2>1. on \in DOMAIN j.seen /\ j.expected <= j.seen[on].version
      BY <1>1, <1>2 DEF ReadToAdmit, Children!AdmitChecklist
    <2>2. j.seen[on].version \in Nat
      <3>1. j.seen[on] \in Rows
        BY <2>1 DEF ChildJobs, Glimpses
      <3> QED
        BY <3>1 DEF Rows
    <2>3. /\ j.seen[on].version <= row.version
          /\ j.seen[on].version = row.version => j.seen[on] = row
      BY <1>1, <1>3, <2>1 DEF SeenOnce
    <2> QED
      BY <1>3, <1>4, <2>1, <2>2, <2>3
  <1>6. row.status = "active" /\ row.parent = 0 /\ row.work \in Nat
    BY <1>1, <1>2, <1>5 DEF ReadToAdmit, Children!AdmitChecklist, Rows
  <1>7. PICK n \in Nat, id \in Nat : n = Len(tasks) /\ id = Len(containers) + 1
                                     /\ DOMAIN tasks = 1..n
    <2>1. Len(tasks) \in Nat /\ DOMAIN tasks = 1..Len(tasks) /\ Len(containers) \in Nat
      BY RowOf DEF ChildInv
    <2>2. Len(containers) + 1 \in Nat
      BY <2>1
    <2> QED
      BY <2>1, <2>2
  <1>8. PICK kids : kids = Children!Children(p, row.work, id)
    OBVIOUS
  <1>9. PICK m \in Nat : /\ kids \in Seq(Rows) /\ Len(kids) = m /\ DOMAIN kids = 1..m
                         /\ Len(p.children) = m /\ DOMAIN p.children = 1..m
                         /\ \A i \in 1..m : /\ kids[i].status = "active" /\ kids[i].parent = id
                                            /\ kids[i].work = row.work
    <2>1. /\ kids \in Seq(Rows) /\ Len(kids) = Len(p.children)
          /\ \A i \in DOMAIN kids : /\ kids[i].status = "active" /\ kids[i].parent = id
                                    /\ kids[i].work = row.work
      BY <1>6, <1>8, ChildrenAreTasks DEF ChildInv, ChildTypeOK
    <2>2. DOMAIN kids = 1..Len(kids) /\ Len(kids) \in Nat
      BY <2>1
    <2>3. DOMAIN p.children = 1..Len(p.children)
      BY ChildConstants
    <2> QED
      BY <2>1, <2>2, <2>3
  <1>10. PICK old : old = [tasks EXCEPT ![on] = Restated(row, "moot")]
    OBVIOUS
  <1>11. old \in Seq(Rows) /\ Len(old) = n
    BY <1>2, <1>3, <1>7, <1>10, NextVersion DEF ChildInv, ChildTypeOK
  <1>12. PICK k : k = [status |-> "active", version |-> 1, origin |-> on, snapshot |-> row,
                       splits |-> p.splits, left |-> {}, items |-> [i \in 1..m |-> n + i],
                       restored |-> 0]
    OBVIOUS
  <1>13. tasks' = old \o kids /\ containers' = Append(containers, k)
    <2>1. /\ tasks' = [tasks EXCEPT ![on] = Children!Moot(j.seen[on])]
                         \o Children!Children(p, tasks[on].work, id)
          /\ containers' = Append(containers,
               [status |-> "active", version |-> 1, origin |-> on, snapshot |-> j.seen[on],
                splits |-> p.splits, left |-> {},
                items |-> [i \in DOMAIN p.children |-> Len(tasks) + i], restored |-> 0])
      BY <1>1, <1>2, <1>7 DEF Children!AdmitChecklist
    <2>2. Children!Moot(row) = Restated(row, "moot")
      BY DEF Children!Moot, Restated
    <2> QED
      BY <1>3, <1>5, <1>7, <1>8, <1>9, <1>10, <1>12, <2>1, <2>2
  <1>14. /\ tasks' \in Seq(Rows) /\ DOMAIN tasks' = 1..(n + m)
         /\ \A t \in 1..(n + m) : tasks'[t] = IF t <= n THEN old[t] ELSE kids[t - n]
    <2>1. /\ old \o kids \in Seq(Rows) /\ Len(old \o kids) = n + m
          /\ \A t \in 1..(n + m) : (old \o kids)[t] = IF t <= n THEN old[t] ELSE kids[t - n]
      <3>1. /\ old \o kids \in Seq(Rows) /\ Len(old \o kids) = Len(old) + Len(kids)
            /\ \A t \in 1..(Len(old) + Len(kids)) :
                 (old \o kids)[t] = IF t <= Len(old) THEN old[t] ELSE kids[t - Len(old)]
        BY <1>9, <1>11, ConcatProperties
      <3> QED
        BY <1>9, <1>11, <3>1
    <2> QED
      BY <1>13, <2>1
  <1>15. /\ DOMAIN tasks \subseteq DOMAIN tasks' /\ tasks'[on] = Restated(row, "moot")
         /\ \A t \in DOMAIN tasks \ {on} : tasks'[t] = tasks[t]
    <2>1. 1..n \subseteq 1..(n + m)
      OBVIOUS
    <2>2. \A t \in 1..n : tasks'[t] = old[t]
      BY <1>14, <2>1
    <2> QED
      BY <1>2, <1>7, <1>10, <1>14, <2>1, <2>2
  <1>16. DOMAIN tasks' \ DOMAIN tasks = (n + 1)..(n + m)
    BY <1>7, <1>14
  <1>17. \A t \in (n + 1)..(n + m) : /\ tasks'[t].status = "active" /\ tasks'[t].parent = id
                                     /\ tasks'[t].work = row.work
    <2> SUFFICES ASSUME NEW t \in (n + 1)..(n + m)
                 PROVE  /\ tasks'[t].status = "active" /\ tasks'[t].parent = id
                        /\ tasks'[t].work = row.work
      OBVIOUS
    <2>1. t \in 1..(n + m) /\ ~ (t <= n) /\ t - n \in 1..m
      OBVIOUS
    <2> QED
      BY <1>9, <1>14, <2>1
  <1>18. k \in Checklists
    <2>1. [i \in 1..m |-> n + i] \in Seq(Nat)
      OBVIOUS
    <2>2. p.splits \in Seq(Nat)
      BY ChildConstants
    <2> QED
      BY <1>12, <2>1, <2>2 DEF Checklists
  <1>19. Children!ToSet(k.items) = (n + 1)..(n + m)
    <2>1. Children!ToSet(k.items) = {n + i : i \in 1..m}
      BY <1>12 DEF Children!ToSet
    <2>2. \A t \in (n + 1)..(n + m) : t - n \in 1..m /\ t = n + (t - n)
      OBVIOUS
    <2>3. \A i \in 1..m : n + i \in (n + 1)..(n + m)
      OBVIOUS
    <2> QED
      BY <2>1, <2>2, <2>3
  <1>20. k.status = "active" /\ k.origin = on /\ k.snapshot = row
    BY <1>12
  <1>21. ChecklistWritten(on, row, k)
    BY <1>2, <1>3, <1>6, <1>7, <1>13, <1>14, <1>15, <1>16, <1>17, <1>19, <1>20
       DEF ChecklistWritten
  <1> QED
    BY <1>2, <1>18, <1>21

(* The Task becomes a checklist and is off the list in the same batch.       *)
LEMMA ChecklistKeeps ==
  ASSUME ChildInv, NEW c \in Clients, Children!AdmitChecklist(c)
  PROVE  ChildInv'
  <1>1. job' = [job EXCEPT ![c] = Children!Idle]
    BY DEF Children!AdmitChecklist, Children!Leave
  <1>2. CASE UNCHANGED <<tasks, containers>>
    BY <1>1, <1>2, QuietKeeps
  <1>3. CASE ~ UNCHANGED <<tasks, containers>>
    <2>1. PICK on \in DOMAIN tasks, row \in Rows, k \in Checklists : ChecklistWritten(on, row, k)
      BY <1>3, ChecklistWrites
    <2>2. PICK n \in Nat, id \in Nat :
            /\ n = Len(containers) /\ id = n + 1 /\ DOMAIN containers = 1..n
            /\ containers \in Seq(Checklists) /\ id \notin 1..n
      <3>1. /\ Len(containers) \in Nat /\ DOMAIN containers = 1..Len(containers)
            /\ containers \in Seq(Checklists)
        BY RowOf DEF ChildInv, ChildTypeOK
      <3>2. Len(containers) + 1 \in Nat /\ Len(containers) + 1 \notin 1..Len(containers)
        BY <3>1
      <3> QED
        BY <3>1, <3>2
    <2>3. /\ containers' \in Seq(Checklists) /\ DOMAIN containers' = 1..n \cup {id}
          /\ containers'[id] = k /\ \A l \in 1..n : containers'[l] = containers[l]
      <3>1. /\ Append(containers, k) \in Seq(Checklists) /\ Len(Append(containers, k)) = n + 1
            /\ \A l \in 1..n : Append(containers, k)[l] = containers[l]
            /\ Append(containers, k)[n + 1] = k
        BY <2>2, AppendProperties
      <3>2. containers' = Append(containers, k)
        BY <2>1 DEF ChecklistWritten
      <3>3. DOMAIN containers' = 1..(n + 1)
        BY <3>1, <3>2
      <3> QED
        BY <2>2, <3>1, <3>2, <3>3
    <2>4. /\ row.version \in Nat /\ row.version < Restated(row, "moot").version
          /\ Restated(row, "moot").status = "moot" /\ Restated(row, "moot").parent = row.parent
          /\ Restated(row, "moot").work = row.work /\ row.work \in Nat
      BY NextVersion DEF Rows
    <2>5. ChildTypeOK'
      BY <1>1, <2>1, <2>3, IdleHolds DEF ChildInv, ChildTypeOK, ChecklistWritten
    <2>6. RowsMove
      <3>1. DOMAIN tasks \subseteq DOMAIN tasks'
        BY <2>1 DEF ChecklistWritten
      <3>2. ASSUME NEW t \in DOMAIN tasks
            PROVE  /\ tasks[t].version <= tasks'[t].version
                   /\ tasks[t].version = tasks'[t].version => tasks'[t] = tasks[t]
        <4>1. CASE t = on
          <5>1. tasks[t].version = row.version
                /\ tasks'[t].version = Restated(row, "moot").version
            BY <2>1, <4>1 DEF ChecklistWritten
          <5>2. Restated(row, "moot").version \in Nat
            BY NextVersion DEF Rows
          <5> QED
            BY <2>4, <5>1, <5>2
        <4>2. CASE t # on
          <5>1. tasks'[t] = tasks[t] /\ tasks[t].version \in Nat
            BY <2>1, <4>2, RowOf DEF ChildInv, ChecklistWritten
          <5> QED
            BY <5>1
        <4> QED
          BY <4>1, <4>2
      <3> QED
        BY <3>1, <3>2 DEF RowsMove
    <2>7. ChecklistsMove
      BY <2>2, <2>3, RowOf DEF ChildInv, ChecklistsMove
    <2>8. /\ \A l \in 1..n : Members(l)' = Members(l)
          /\ Members(id)' = DOMAIN tasks' \ DOMAIN tasks
      BY <2>1, <2>3 DEF Members, ChecklistWritten, Children!ToSet
    <2>9. ChecklistsHold'
      <3> SUFFICES ASSUME NEW l \in DOMAIN containers'
                   PROVE  /\ containers'[l].origin \in DOMAIN tasks'
                          /\ Members(l)' \subseteq DOMAIN tasks'
                          /\ \A t \in Members(l)' :
                               /\ tasks'[t].parent = l
                               /\ tasks'[t].work = containers'[l].snapshot.work
                          /\ containers'[l].status = "superseded" =>
                               \A t \in Members(l)' \ containers'[l].left :
                                 tasks'[t].status = "moot"
        BY DEF ChecklistsHold
      <3>1. CASE l \in 1..n
        <4>1. /\ containers[l].origin \in DOMAIN tasks /\ Members(l) \subseteq DOMAIN tasks
              /\ \A t \in Members(l) : /\ tasks[t].parent = l
                                       /\ tasks[t].work = containers[l].snapshot.work
              /\ containers[l].status = "superseded" =>
                   \A t \in Members(l) \ containers[l].left : tasks[t].status = "moot"
          BY <2>2, <3>1 DEF ChildInv, ChecklistsHold
        <4>2. \A t \in Members(l) : t \in DOMAIN tasks /\ t # on
          BY <2>1, <3>1, <4>1 DEF ChecklistWritten
        <4>3. \A t \in Members(l) : tasks'[t] = tasks[t]
          BY <2>1, <4>2 DEF ChecklistWritten
        <4> QED
          BY <2>1, <2>3, <2>8, <3>1, <4>1, <4>3 DEF ChecklistWritten
      <3>2. CASE l = id
        BY <2>1, <2>2, <2>3, <2>8, <3>2 DEF ChecklistWritten
      <3> QED
        BY <2>3, <3>1, <3>2
    <2>10. \A t \in DOMAIN tasks : tasks'[t].parent = tasks[t].parent
                                   /\ tasks'[t].work = tasks[t].work
      BY <2>1, <2>4 DEF ChecklistWritten
    <2>11. ParentsHold'
      <3> SUFFICES ASSUME NEW t \in DOMAIN tasks', tasks'[t].parent # 0
                   PROVE  /\ tasks'[t].parent \in DOMAIN containers'
                          /\ t \in Members(tasks[t].parent)'
        BY DEF ParentsHold
      <3>1. CASE t \in DOMAIN tasks
        <4>1. tasks[t].parent \in 1..n /\ t \in Members(tasks[t].parent)
          BY <2>2, <2>10, <3>1 DEF ChildInv, ParentsHold
        <4> QED
          BY <2>3, <2>8, <2>10, <3>1, <4>1 DEF Members
      <3>2. CASE t \notin DOMAIN tasks
        BY <2>1, <2>2, <2>3, <2>8, <3>2 DEF ChecklistWritten, Members
      <3> QED
        BY <3>1, <3>2
    <2>12. \A work : Wholes(work)' = Wholes(work) \ {on}
      <3> SUFFICES ASSUME NEW work, NEW t
                   PROVE  t \in Wholes(work)' <=> t \in Wholes(work) /\ t # on
        OBVIOUS
      <3>1. CASE t \in DOMAIN tasks /\ t # on
        BY <2>1, <3>1 DEF Wholes, ChecklistWritten
      <3>2. CASE t = on
        BY <2>1, <2>4, <3>2 DEF Wholes, ChecklistWritten
      <3>3. CASE t \notin DOMAIN tasks
        BY <2>1, <2>2, <3>3 DEF Wholes, ChecklistWritten
      <3> QED
        BY <3>1, <3>2, <3>3
    <2>13. \A work : Parted(work)' = Parted(work) \cup (IF row.work = work THEN {id} ELSE {})
      BY <2>1, <2>2, <2>3 DEF Parted, ChecklistWritten
    <2>14. OneForm'
      <3> SUFFICES ASSUME NEW work \in Nat
                   PROVE  /\ \A t, u \in Wholes(work)' : t = u
                          /\ \A l, m \in Parted(work)' : l = m
                          /\ Wholes(work)' = {} \/ Parted(work)' = {}
        BY DEF OneForm
      <3>1. /\ \A t, u \in Wholes(work) : t = u
            /\ \A l, m \in Parted(work) : l = m
            /\ Wholes(work) = {} \/ Parted(work) = {}
        BY DEF ChildInv, OneForm
      <3>2. row.work = work => on \in Wholes(work)
        BY <2>1 DEF Wholes, ChecklistWritten
      <3> QED
        BY <2>12, <2>13, <3>1, <3>2
    <2>15. \A d \in Clients : SeenOnce(job[d])' /\ ReadToAdmit(job[d])'
      BY <1>1, <2>5, <2>6, <2>7, ClientsKeep
    <2> QED
      BY <2>5, <2>9, <2>11, <2>14, <2>15 DEF ChildInv
  <1> QED
    BY <1>2, <1>3

-----------------------------------------------------------------------------
(* A checklist is undone *)

(* What is left of a window is a window. *)
LEMMA CarriedIsAWindow ==
  ASSUME NEW window \in Windows
  PROVE  Children!Carried(window) \in Windows
  <1>1. Children!NoWindow \in Windows
    BY DEF Children!NoWindow, Windows
  <1> QED
    BY <1>1 DEF Children!Carried

(* What admitting an undo writes. *)
UndoWritten(on, was, k, restored) ==
  LET added == Len(tasks) + 1
      off == {t \in Members(on) : tasks[t].status # "completed"}
  IN /\ was = containers[on] /\ was.status = "active"
     /\ containers' = [containers EXCEPT ![on] = k]
     /\ was.version < k.version /\ k.status = "superseded"
     /\ k.items = was.items /\ k.origin = was.origin /\ k.snapshot = was.snapshot
     /\ k.left = Members(on) \ off
     /\ tasks' \in Seq(Rows) /\ added \notin DOMAIN tasks
     /\ DOMAIN tasks' = DOMAIN tasks \cup {added}
     /\ \A t \in off : tasks'[t] = Restated(tasks[t], "moot")
     /\ \A t \in DOMAIN tasks \ off : tasks'[t] = tasks[t]
     /\ tasks'[added] = restored /\ restored.parent = 0 /\ restored.work = was.snapshot.work

LEMMA UndoWrites ==
  ASSUME ChildInv, NEW c \in Clients, Children!AdmitUndo(c), ~ UNCHANGED <<tasks, containers>>
  PROVE  \E on \in DOMAIN containers, was, k \in Checklists, restored \in Rows :
           UndoWritten(on, was, k, restored)
  <1>1. PICK j \in ChildJobs : j = job[c] /\ SeenOnce(j) /\ ReadToAdmit(j)
    BY DEF ChildInv, ChildTypeOK
  <1>2. PICK on \in DOMAIN containers : on = j.on
    BY <1>1 DEF ReadToAdmit, Children!AdmitUndo
  <1>3. PICK was \in Checklists : was = containers[on]
    BY RowOf DEF ChildInv
  <1>4. was.status = "active"
    BY <1>1, <1>2, <1>3 DEF ReadToAdmit, Children!AdmitUndo
  <1>5. PICK items : items = Children!ToSet(was.items)
    OBVIOUS
  <1>6. Members(on) = items /\ items \subseteq DOMAIN tasks
    BY <1>3, <1>5 DEF ChildInv, ChecklistsHold, Members
  <1>7. \A t \in items : j.seen[t] = tasks[t]
    <2>1. items \subseteq DOMAIN j.seen
      BY <1>1, <1>2, <1>6 DEF ReadToAdmit, Children!AdmitUndo
    <2>2. \A t \in DOMAIN j.seen : tasks[t].version = j.seen[t].version
      BY <1>1 DEF Children!AdmitUndo, Children!Unchanged
    <2> QED
      BY <1>1, <2>1, <2>2 DEF SeenOnce
  <1>8. PICK done \in SUBSET items : done = {t \in items : tasks[t].status = "completed"}
    OBVIOUS
  <1>9. done = {t \in items : j.seen[t].status = "completed"}
    BY <1>7, <1>8
  <1>10. PICK restored : restored = Children!NewTask(was.snapshot.body,
                                       Children!Carried(was.snapshot.window),
                                       was.snapshot.after, was.snapshot.work, 0)
    OBVIOUS
  <1>11. restored \in Rows /\ restored.parent = 0 /\ restored.work = was.snapshot.work
    <2>1. PICK old \in Rows : old = was.snapshot
      BY DEF Checklists
    <2>2. PICK window \in Windows : window = Children!Carried(old.window)
      BY CarriedIsAWindow DEF Rows
    <2>3. old.body \in Nat /\ old.after \in SUBSET Nat /\ old.work \in Nat
      BY DEF Rows
    <2>4. restored = [status |-> "active", version |-> 1, body |-> old.body, window |-> window,
                      after |-> old.after, work |-> old.work, parent |-> 0]
      BY <1>10, <2>1, <2>2 DEF Children!NewTask
    <2> QED
      BY <2>1, <2>3, <2>4 DEF Rows
  <1>12. PICK n \in Nat : n = Len(tasks) /\ DOMAIN tasks = 1..n /\ n + 1 \in Nat
    <2>1. Len(tasks) \in Nat /\ DOMAIN tasks = 1..Len(tasks)
      BY RowOf DEF ChildInv
    <2>2. Len(tasks) + 1 \in Nat
      BY <2>1
    <2> QED
      BY <2>1, <2>2
  <1>13. PICK mooted : mooted = [t \in 1..n |->
                         IF t \in items \ done THEN Restated(tasks[t], "moot") ELSE tasks[t]]
    OBVIOUS
  <1>14. mooted \in Seq(Rows) /\ Len(mooted) = n
    <2>1. \A t \in 1..n : mooted[t] \in Rows
      BY <1>12, <1>13, RowOf, NextVersion DEF ChildInv
    <2> QED
      BY <1>13, <2>1
  <1>15. PICK k : k = [was EXCEPT !.status = "superseded", !.version = was.version + 1,
                                  !.left = done, !.restored = n + 1]
    OBVIOUS
  <1>16. tasks' = Append(mooted, restored) /\ containers' = [containers EXCEPT ![on] = k]
    <2>1. /\ tasks' = Append([t \in DOMAIN tasks |->
                                IF t \in items \ done THEN Children!Moot(j.seen[t]) ELSE tasks[t]],
                             restored)
          /\ containers' = [containers EXCEPT
               ![on] = [was EXCEPT !.status = "superseded", !.version = @ + 1,
                                   !.left = done, !.restored = Len(tasks) + 1]]
      <3>1. LET held == Children!ToSet(was.items)
                kept == {t \in held : j.seen[t].status = "completed"}
                back == Children!NewTask(was.snapshot.body, Children!Carried(was.snapshot.window),
                                         was.snapshot.after, was.snapshot.work, 0)
            IN  /\ tasks' = Append([t \in DOMAIN tasks |->
                                     IF t \in held \ kept THEN Children!Moot(j.seen[t])
                                     ELSE tasks[t]], back)
                /\ containers' = [containers EXCEPT
                     ![on] = [was EXCEPT !.status = "superseded", !.version = @ + 1,
                                         !.left = kept, !.restored = Len(tasks) + 1]]
        BY <1>1, <1>2, <1>3 DEF Children!AdmitUndo
      <3> QED
        BY <1>5, <1>9, <1>10, <3>1
    <2>2. \A t \in items : Children!Moot(j.seen[t]) = Restated(tasks[t], "moot")
      BY <1>7 DEF Children!Moot, Restated
    <2>3. [t \in DOMAIN tasks |->
             IF t \in items \ done THEN Children!Moot(j.seen[t]) ELSE tasks[t]] = mooted
      BY <1>12, <1>13, <2>2
    <2>4. [was EXCEPT !.status = "superseded", !.version = @ + 1, !.left = done,
                      !.restored = Len(tasks) + 1] = k
      BY <1>12, <1>15
    <2> QED
      BY <2>1, <2>3, <2>4
  <1>17. /\ tasks' \in Seq(Rows) /\ DOMAIN tasks' = 1..(n + 1) /\ tasks'[n + 1] = restored
         /\ \A t \in 1..n : tasks'[t] = mooted[t]
    <2>1. /\ Append(mooted, restored) \in Seq(Rows) /\ Len(Append(mooted, restored)) = n + 1
          /\ \A t \in 1..n : Append(mooted, restored)[t] = mooted[t]
          /\ Append(mooted, restored)[n + 1] = restored
      BY <1>11, <1>14, AppendProperties
    <2> QED
      BY <1>16, <2>1
  <1>18. /\ k \in Checklists /\ was.version < k.version /\ k.status = "superseded"
         /\ k.items = was.items /\ k.origin = was.origin /\ k.snapshot = was.snapshot
         /\ k.left = done
    <2>1. PICK version \in Nat : version = was.version + 1 /\ was.version < version
      <3>1. was.version \in Nat
        BY DEF Checklists
      <3> QED
        BY <3>1
    <2>2. [was EXCEPT !.status = "superseded"] \in Checklists
      BY DEF Checklists
    <2>3. [[was EXCEPT !.status = "superseded"] EXCEPT !.version = version] \in Checklists
      BY <2>2 DEF Checklists
    <2>4. done \in SUBSET Nat
      BY <1>6, <1>12
    <2>5. [[[was EXCEPT !.status = "superseded"] EXCEPT !.version = version]
             EXCEPT !.left = done] \in Checklists
      BY <2>3, <2>4 DEF Checklists
    <2>6. [[[[was EXCEPT !.status = "superseded"] EXCEPT !.version = version]
             EXCEPT !.left = done] EXCEPT !.restored = n + 1] \in Checklists
      BY <1>12, <2>5 DEF Checklists
    <2>7. k = [[[[was EXCEPT !.status = "superseded"] EXCEPT !.version = version]
                 EXCEPT !.left = done] EXCEPT !.restored = n + 1]
      BY <1>15, <2>1 DEF Checklists
    <2> QED
      BY <2>1, <2>6, <2>7 DEF Checklists
  <1>19. PICK off : off = {t \in items : tasks[t].status # "completed"}
    OBVIOUS
  <1>20. off = items \ done /\ done = items \ off
    BY <1>8, <1>19
  <1>21. /\ \A t \in off : tasks'[t] = Restated(tasks[t], "moot")
         /\ \A t \in DOMAIN tasks \ off : tasks'[t] = tasks[t]
    BY <1>6, <1>12, <1>13, <1>17, <1>20
  <1>22. /\ n + 1 \notin DOMAIN tasks /\ DOMAIN tasks' = DOMAIN tasks \cup {n + 1}
    BY <1>12, <1>17
  <1>23. UndoWritten(on, was, k, restored)
    BY <1>3, <1>4, <1>6, <1>11, <1>12, <1>16, <1>17, <1>18, <1>19, <1>20, <1>21, <1>22
       DEF UndoWritten
  <1> QED
    BY <1>2, <1>3, <1>11, <1>18, <1>23

(* The checklist is off the list, all but what was completed of it, and the  *)
(* Task is back in the same batch.                                           *)
LEMMA UndoKeeps ==
  ASSUME ChildInv, NEW c \in Clients, Children!AdmitUndo(c)
  PROVE  ChildInv'
  <1>1. job' = [job EXCEPT ![c] = Children!Idle]
    BY DEF Children!AdmitUndo, Children!Leave
  <1>2. CASE UNCHANGED <<tasks, containers>>
    BY <1>1, <1>2, QuietKeeps
  <1>3. CASE ~ UNCHANGED <<tasks, containers>>
    <2>1. PICK on \in DOMAIN containers, was \in Checklists, k \in Checklists, restored \in Rows :
            UndoWritten(on, was, k, restored)
      BY <1>3, UndoWrites
    <2>2. PICK added : added = Len(tasks) + 1 /\ added \notin DOMAIN tasks
                       /\ DOMAIN tasks' = DOMAIN tasks \cup {added}
      BY <2>1 DEF UndoWritten
    <2>3. PICK off : off = {t \in Members(on) : tasks[t].status # "completed"}
      OBVIOUS
    <2>4. /\ was = containers[on] /\ was.status = "active"
          /\ containers' = [containers EXCEPT ![on] = k]
          /\ was.version < k.version /\ k.status = "superseded"
          /\ k.items = was.items /\ k.origin = was.origin /\ k.snapshot = was.snapshot
          /\ k.left = Members(on) \ off
          /\ tasks' \in Seq(Rows)
          /\ \A t \in off : tasks'[t] = Restated(tasks[t], "moot")
          /\ \A t \in DOMAIN tasks \ off : tasks'[t] = tasks[t]
          /\ tasks'[added] = restored /\ restored.parent = 0 /\ restored.work = was.snapshot.work
      BY <2>1, <2>2, <2>3 DEF UndoWritten
    <2>5. off \subseteq Members(on) /\ off \subseteq DOMAIN tasks /\ on # 0
      BY <2>3, RowOf DEF ChildInv, ChecklistsHold
    <2>6. \A t \in DOMAIN tasks :
            /\ t \notin off => tasks'[t] = tasks[t]
            /\ t \in off => tasks'[t] = Restated(tasks[t], "moot") /\ tasks'[t].status = "moot"
                            /\ tasks[t].version < tasks'[t].version
            /\ tasks'[t].parent = tasks[t].parent /\ tasks'[t].work = tasks[t].work
      <3> SUFFICES ASSUME NEW t \in DOMAIN tasks
                   PROVE  /\ t \notin off => tasks'[t] = tasks[t]
                          /\ t \in off => /\ tasks'[t] = Restated(tasks[t], "moot")
                                          /\ tasks'[t].status = "moot"
                                          /\ tasks[t].version < tasks'[t].version
                          /\ tasks'[t].parent = tasks[t].parent /\ tasks'[t].work = tasks[t].work
        OBVIOUS
      <3>1. PICK row \in Rows : row = tasks[t]
        BY RowOf DEF ChildInv
      <3>2. /\ row.version < Restated(row, "moot").version
            /\ Restated(row, "moot").status = "moot" /\ Restated(row, "moot").parent = row.parent
            /\ Restated(row, "moot").work = row.work
        BY NextVersion
      <3> QED
        BY <2>4, <3>1, <3>2
    <2>7. /\ containers' \in Seq(Checklists) /\ DOMAIN containers' = DOMAIN containers
          /\ containers'[on] = k
          /\ \A l \in DOMAIN containers \ {on} : containers'[l] = containers[l]
      BY <2>4 DEF ChildInv, ChildTypeOK
    <2>8. ChildTypeOK'
      BY <1>1, <2>4, <2>7, IdleHolds DEF ChildInv, ChildTypeOK
    <2>9. RowsMove
      <3>1. ASSUME NEW t \in DOMAIN tasks
            PROVE  /\ tasks[t].version <= tasks'[t].version
                   /\ tasks[t].version = tasks'[t].version => tasks'[t] = tasks[t]
        <4>1. t \in DOMAIN tasks' /\ tasks[t].version \in Nat
          BY <2>2, RowOf DEF ChildInv
        <4>2. tasks'[t].version \in Nat
          BY <2>4, <4>1, VersionsCount
        <4> QED
          BY <2>6, <4>1, <4>2
      <3> QED
        BY <2>2, <3>1 DEF RowsMove
    <2>10. ChecklistsMove
      <3>1. ASSUME NEW l \in DOMAIN containers
            PROVE  /\ containers[l].version <= containers'[l].version
                   /\ containers[l].version = containers'[l].version =>
                        containers'[l] = containers[l]
                   /\ containers'[l].items = containers[l].items
                   /\ containers'[l].origin = containers[l].origin
        <4>1. was.version \in Nat /\ k.version \in Nat /\ containers[l].version \in Nat
          BY RowOf DEF Checklists, ChildInv
        <4> QED
          BY <2>4, <2>7, <4>1
      <3> QED
        BY <2>7, <3>1 DEF ChecklistsMove
    <2>11. \A l \in DOMAIN containers : Members(l)' = Members(l)
      BY <2>4, <2>7 DEF Members, Children!ToSet
    <2>12. \A l \in DOMAIN containers : containers'[l].snapshot = containers[l].snapshot
                                        /\ containers'[l].origin = containers[l].origin
      BY <2>4, <2>7
    <2>13. ChecklistsHold'
      <3> SUFFICES ASSUME NEW l \in DOMAIN containers
                   PROVE  /\ containers'[l].origin \in DOMAIN tasks'
                          /\ Members(l) \subseteq DOMAIN tasks'
                          /\ \A t \in Members(l) :
                               /\ tasks'[t].parent = l
                               /\ tasks'[t].work = containers'[l].snapshot.work
                          /\ containers'[l].status = "superseded" =>
                               \A t \in Members(l) \ containers'[l].left :
                                 tasks'[t].status = "moot"
        BY <2>7, <2>11 DEF ChecklistsHold
      <3>1. /\ containers[l].origin \in DOMAIN tasks /\ Members(l) \subseteq DOMAIN tasks
            /\ \A t \in Members(l) : /\ tasks[t].parent = l
                                     /\ tasks[t].work = containers[l].snapshot.work
            /\ containers[l].status = "superseded" =>
                 \A t \in Members(l) \ containers[l].left : tasks[t].status = "moot"
        BY DEF ChildInv, ChecklistsHold
      <3>2. containers'[l].status = "superseded" =>
              \A t \in Members(l) \ containers'[l].left : tasks'[t].status = "moot"
        <4>1. CASE l = on
          BY <2>4, <2>5, <2>6, <2>7, <4>1
        <4>2. CASE l # on
          <5>1. containers'[l] = containers[l]
            BY <2>7, <4>2
          <5>2. \A t \in Members(l) : tasks[t].status = "moot" => tasks'[t].status = "moot"
            BY <2>6, <3>1
          <5> QED
            BY <3>1, <5>1, <5>2
        <4> QED
          BY <4>1, <4>2
      <3> QED
        BY <2>2, <2>6, <2>12, <3>1, <3>2
    <2>14. ParentsHold'
      <3> SUFFICES ASSUME NEW t \in DOMAIN tasks', tasks'[t].parent # 0
                   PROVE  /\ tasks'[t].parent \in DOMAIN containers'
                          /\ t \in Members(tasks[t].parent)'
        BY DEF ParentsHold
      <3>1. t \in DOMAIN tasks /\ tasks'[t].parent = tasks[t].parent
        BY <2>2, <2>4, <2>6
      <3>2. tasks[t].parent \in DOMAIN containers /\ t \in Members(tasks[t].parent)
        BY <3>1 DEF ChildInv, ParentsHold
      <3> QED
        BY <2>7, <2>11, <3>1, <3>2 DEF Members
    <2>15. \A work : Wholes(work)' \subseteq
             Wholes(work) \cup (IF was.snapshot.work = work THEN {added} ELSE {})
      <3> SUFFICES ASSUME NEW work, NEW t \in Wholes(work)'
                   PROVE  t \in Wholes(work) \/ (t = added /\ was.snapshot.work = work)
        OBVIOUS
      <3>1. t \in DOMAIN tasks' /\ tasks'[t].parent = 0 /\ tasks'[t].status # "moot"
            /\ tasks'[t].work = work
        BY DEF Wholes
      <3>2. CASE t = added
        BY <2>4, <3>1, <3>2
      <3>3. CASE t # added
        <4>1. t \in DOMAIN tasks
          BY <2>2, <3>1, <3>3
        <4> QED
          BY <2>6, <3>1, <4>1 DEF Wholes
      <3> QED
        BY <3>2, <3>3
    <2>16. \A work : Parted(work)' = Parted(work) \ {on}
      BY <2>4, <2>7 DEF Parted
    <2>17. OneForm'
      <3> SUFFICES ASSUME NEW work \in Nat
                   PROVE  /\ \A t, u \in Wholes(work)' : t = u
                          /\ \A l, m \in Parted(work)' : l = m
                          /\ Wholes(work)' = {} \/ Parted(work)' = {}
        BY DEF OneForm
      <3>1. /\ \A t, u \in Wholes(work) : t = u
            /\ \A l, m \in Parted(work) : l = m
            /\ Wholes(work) = {} \/ Parted(work) = {}
        BY DEF ChildInv, OneForm
      <3>2. was.snapshot.work = work => on \in Parted(work)
        BY <2>4 DEF Parted
      <3> QED
        BY <2>15, <2>16, <3>1, <3>2
    <2>18. \A d \in Clients : SeenOnce(job[d])' /\ ReadToAdmit(job[d])'
      BY <1>1, <2>8, <2>9, <2>10, ClientsKeep
    <2> QED
      BY <2>8, <2>13, <2>14, <2>17, <2>18 DEF ChildInv
  <1> QED
    BY <1>2, <1>3

-----------------------------------------------------------------------------
(* ChildInvariant: what a request has read of a Task or of a checklist is     *)
(* stale or as it is; the Tasks of a checklist are those that name it; and a *)
(* piece of work is one Task that was not replaced or one checklist that was *)
(* not undone, never both (services/decomposition.rs).                       *)
THEOREM ChildInvariant == PlanningSpec => []ChildInv
  <1>1. PlanningInit => ChildInv
    <2> SUFFICES ASSUME PlanningInit PROVE ChildInv
      OBVIOUS
    <2>1. Children!Init
      BY DEF PlanningInit
    <2>2. PICK m \in Nat : m = Len(Origins) /\ DOMAIN Origins = 1..m
      BY ChildConstants
    <2>3. DOMAIN tasks = 1..m /\ tasks = [t \in 1..m |-> tasks[t]]
      BY <2>1, <2>2 DEF Children!Init
    <2>4. ASSUME NEW t \in 1..m
          PROVE  tasks[t] \in Rows /\ tasks[t].work = t /\ tasks[t].parent = 0
      <3>1. PICK given \in [window : Windows, after : SUBSET Nat] : given = Origins[t]
        BY <2>2, ChildConstants, ElementOfSeq
      <3>2. PICK window \in Windows, waits \in SUBSET Nat :
              window = given.window /\ waits = given.after
        OBVIOUS
      <3>3. tasks[t] = [status |-> "active", version |-> 1, body |-> 0, window |-> window,
                        after |-> waits, work |-> t, parent |-> 0]
        BY <2>1, <2>2, <3>1, <3>2 DEF Children!Init, Children!NewTask
      <3> QED
        BY <3>3 DEF Rows
    <2>5. tasks \in Seq(Rows)
      BY <2>3, <2>4
    <2>6. containers = <<>> /\ containers \in Seq(Checklists) /\ DOMAIN containers = {}
      BY <2>1 DEF Children!Init
    <2>7. job = [c \in Clients |-> Children!Idle]
      BY <2>1 DEF Children!Init
    <2>8. ChildTypeOK
      BY <2>5, <2>6, <2>7, IdleHolds DEF ChildTypeOK
    <2>9. \A c \in Clients : SeenOnce(job[c]) /\ ReadToAdmit(job[c])
      BY <2>7, IdleHolds
    <2>10. ChecklistsHold /\ ParentsHold
      BY <2>3, <2>4, <2>6 DEF ChecklistsHold, ParentsHold
    <2>11. OneForm
      <3>1. \A work : /\ Parted(work) = {}
                      /\ \A t \in Wholes(work) : t = work
        BY <2>3, <2>4, <2>6 DEF Wholes, Parted
      <3> QED
        BY <3>1 DEF OneForm
    <2> QED
      BY <2>8, <2>9, <2>10, <2>11 DEF ChildInv
  <1>2. ChildInv /\ [PlanningNext]_<<part, now, vars, requestVars, adviceVars, childVars>>
          => ChildInv'
    <2> SUFFICES ASSUME ChildInv,
                        [PlanningNext]_<<part, now, vars, requestVars, adviceVars, childVars>>
                 PROVE  ChildInv'
      OBVIOUS
    <2>1. CASE UNCHANGED childVars
      <3>1. UNCHANGED <<tasks, containers, job>>
        BY <2>1 DEF childVars
      <3>2. ChildTypeOK' /\ \A c \in Clients : SeenOnce(job[c])' /\ ReadToAdmit(job[c])'
        BY <3>1 DEF ChildInv, ChildTypeOK, SeenOnce, ReadToAdmit, Members, Children!ToSet
      <3> QED
        BY <3>1, <3>2, NothingMoves DEF ChildInv
    <2>2. CASE Children!Next
      <3>1. CASE Children!Act
        BY <3>1, ChildActKeeps
      <3>2. CASE Children!Patch
        BY <3>2, PatchKeeps
      <3>3. CASE Children!Tick
        BY <2>1, <3>3 DEF Children!Tick, childVars
      <3>4. ASSUME NEW c \in Clients, Children!ReadOrigin(c) PROVE ChildInv'
        BY <3>4, ReadOriginKeeps
      <3>5. ASSUME NEW c \in Clients, Children!AdmitChecklist(c) PROVE ChildInv'
        BY <3>5, ChecklistKeeps
      <3>6. ASSUME NEW c \in Clients, Children!ReadContainer(c) PROVE ChildInv'
        BY <3>6, ReadContainerKeeps
      <3>7. ASSUME NEW c \in Clients, Children!AdmitUndo(c) PROVE ChildInv'
        BY <3>7, UndoKeeps
      <3>8. ASSUME NEW c \in Clients, Children!Drop(c) PROVE ChildInv'
        BY <3>8, QuietKeeps DEF Children!Drop, Children!Leave
      <3> QED
        BY <2>2, <3>1, <3>2, <3>3, <3>4, <3>5, <3>6, <3>7, <3>8 DEF Children!Next
    <2> QED
      BY <2>1, <2>2 DEF PlanningNext
  <1> QED
    BY <1>1, <1>2, PTL DEF PlanningSpec

(* What there is at most one of. *)
LEMMA AtMostOne ==
  ASSUME NEW S, \A x, y \in S : x = y
  PROVE  Children!Cardinality(S) \in {0, 1} /\ (S = {} => Children!Cardinality(S) = 0)
  <1>1. \A T : Children!Cardinality(T) = Cardinality(T)
    BY DEF Children!Cardinality, Cardinality
  <1>2. CASE S = {}
    BY <1>1, <1>2, FS_EmptySet
  <1>3. CASE S # {}
    <2>1. PICK x \in S : S = {x}
      BY <1>3
    <2> QED
      BY <1>1, <1>3, <2>1, FS_Singleton
  <1> QED
    BY <1>2, <1>3

(* WorkHasOneForm: a piece of work is on the list as a Task or as its         *)
(* checklist and not as both, however requests to replace it, to undo that   *)
(* and to edit its Tasks interleave, for every proposal.                     *)
THEOREM WorkHasOneForm == PlanningSpec => []OneFormOfTheWork
  <1>1. ChildInv => OneFormOfTheWork
    <2> SUFFICES ASSUME ChildInv, NEW work \in DOMAIN Origins
                 PROVE  LET whole == {t \in DOMAIN tasks :
                                        /\ tasks[t].work = work /\ tasks[t].status = "active"
                                        /\ tasks[t].parent = 0}
                            parts == {tasks[t].parent : t \in {u \in DOMAIN tasks :
                                        /\ tasks[u].work = work /\ tasks[u].status = "active"
                                        /\ tasks[u].parent # 0
                                        /\ u \notin containers[tasks[u].parent].left}}
                        IN Children!Cardinality(whole) + Children!Cardinality(parts) <= 1
      BY DEF OneFormOfTheWork, Children!OneFormOfTheWork
    <2> DEFINE whole == {t \in DOMAIN tasks :
                           /\ tasks[t].work = work /\ tasks[t].status = "active"
                           /\ tasks[t].parent = 0}
               parts == {tasks[t].parent : t \in {u \in DOMAIN tasks :
                           /\ tasks[u].work = work /\ tasks[u].status = "active"
                           /\ tasks[u].parent # 0
                           /\ u \notin containers[tasks[u].parent].left}}
    <2>1. work \in Nat
      BY ChildConstants
    <2>2. whole \subseteq Wholes(work)
      BY DEF Wholes
    <2>3. parts \subseteq Parted(work)
      <3> SUFFICES ASSUME NEW t \in DOMAIN tasks, tasks[t].work = work,
                          tasks[t].status = "active", tasks[t].parent # 0,
                          t \notin containers[tasks[t].parent].left
                   PROVE  tasks[t].parent \in Parted(work)
        OBVIOUS
      <3>1. PICK k \in DOMAIN containers : k = tasks[t].parent /\ t \in Members(k)
        BY DEF ChildInv, ParentsHold
      <3>2. /\ tasks[t].work = containers[k].snapshot.work
            /\ containers[k].status = "superseded" =>
                 \A u \in Members(k) \ containers[k].left : tasks[u].status = "moot"
        BY <3>1 DEF ChildInv, ChecklistsHold
      <3>3. containers[k].status \in {"active", "superseded"}
        BY <3>1, RowOf DEF ChildInv, Checklists
      <3> QED
        BY <3>1, <3>2, <3>3 DEF Parted
    <2>4. /\ \A t, u \in Wholes(work) : t = u
          /\ \A k, l \in Parted(work) : k = l
          /\ Wholes(work) = {} \/ Parted(work) = {}
      BY <2>1 DEF ChildInv, OneForm
    <2> HIDE DEF whole, parts
    <2>5. /\ \A t, u \in whole : t = u
          /\ \A k, l \in parts : k = l
          /\ whole = {} \/ parts = {}
      BY <2>2, <2>3, <2>4
    <2>6. /\ Children!Cardinality(whole) \in {0, 1} /\ Children!Cardinality(parts) \in {0, 1}
          /\ Children!Cardinality(whole) = 0 \/ Children!Cardinality(parts) = 0
      BY <2>5, AtMostOne
    <2>7. Children!Cardinality(whole) + Children!Cardinality(parts) <= 1
      BY <2>6
    <2> QED
      BY <2>7 DEF whole, parts
  <1> QED
    BY <1>1, ChildInvariant, PTL

EditsCount == edits \in Nat

(* EditsOutlast: replacing a Task by a checklist and undoing it erase no edit *)
(* and no completion that was made meanwhile, and the Task comes back as it  *)
(* was when it was replaced.                                                 *)
THEOREM EditsOutlast == PlanningSpec => NothingIsErased
  <1>1. ChildInv /\ EditsCount
        /\ [PlanningNext]_<<part, now, vars, requestVars, adviceVars, childVars>>
          => [part = "children" => Children!ErasesNothing]_childVars
    <2> SUFFICES ASSUME ChildInv, EditsCount, Children!Next, edits' = edits,
                        ~ UNCHANGED <<tasks, containers>>
                 PROVE  /\ \A t \in DOMAIN tasks :
                             /\ tasks'[t].body = tasks[t].body
                             /\ tasks[t].status = "completed" => tasks'[t] = tasks[t]
                        /\ \A k \in DOMAIN containers' : k \notin DOMAIN containers =>
                             containers'[k].snapshot = tasks[containers'[k].origin]
      BY DEF PlanningNext, Children!ErasesNothing
    <2>1. \A t \in DOMAIN tasks : /\ tasks[t] \in Rows
                                  /\ Restated(tasks[t], "moot").body = tasks[t].body
      BY RowOf, NextVersion DEF ChildInv
    <2>2. ASSUME NEW c \in Clients, Children!AdmitChecklist(c)
          PROVE  /\ \A t \in DOMAIN tasks :
                      /\ tasks'[t].body = tasks[t].body
                      /\ tasks[t].status = "completed" => tasks'[t] = tasks[t]
                 /\ \A k \in DOMAIN containers' : k \notin DOMAIN containers =>
                      containers'[k].snapshot = tasks[containers'[k].origin]
      <3>1. PICK on \in DOMAIN tasks, row \in Rows, k \in Checklists : ChecklistWritten(on, row, k)
        BY <2>2, ChecklistWrites
      <3>2. \A t \in DOMAIN tasks :
              /\ tasks'[t].body = tasks[t].body
              /\ tasks[t].status = "completed" => tasks'[t] = tasks[t]
        BY <2>1, <3>1 DEF ChecklistWritten
      <3>3. /\ Len(Append(containers, k)) = Len(containers) + 1
            /\ Append(containers, k)[Len(containers) + 1] = k
            /\ Append(containers, k) \in Seq(Checklists)
        BY AppendProperties DEF ChildInv, ChildTypeOK
      <3>4. \A l \in DOMAIN containers' : l \notin DOMAIN containers => containers'[l] = k
        <4>1. containers' = Append(containers, k)
          BY <3>1 DEF ChecklistWritten
        <4>2. /\ DOMAIN containers' = 1..(Len(containers) + 1)
              /\ containers'[Len(containers) + 1] = k
          BY <3>3, <4>1
        <4>3. DOMAIN containers = 1..Len(containers) /\ Len(containers) \in Nat
          BY RowOf DEF ChildInv
        <4> QED
          BY <4>2, <4>3
      <3> QED
        BY <3>1, <3>2, <3>4 DEF ChecklistWritten
    <2>3. ASSUME NEW c \in Clients, Children!AdmitUndo(c)
          PROVE  /\ \A t \in DOMAIN tasks :
                      /\ tasks'[t].body = tasks[t].body
                      /\ tasks[t].status = "completed" => tasks'[t] = tasks[t]
                 /\ DOMAIN containers' = DOMAIN containers
      <3>1. PICK on \in DOMAIN containers, was \in Checklists, k \in Checklists, restored \in Rows :
              UndoWritten(on, was, k, restored)
        BY <2>3, UndoWrites
      <3>2. PICK off : off = {t \in Members(on) : tasks[t].status # "completed"}
        OBVIOUS
      <3>3. /\ \A t \in off : tasks'[t] = Restated(tasks[t], "moot")
            /\ \A t \in DOMAIN tasks \ off : tasks'[t] = tasks[t]
            /\ containers' = [containers EXCEPT ![on] = k]
        BY <3>1, <3>2 DEF UndoWritten
      <3> QED
        BY <2>1, <3>2, <3>3
    <2>4. ~ (Children!Act \/ Children!Patch)
      <3>1. Children!Act \/ Children!Patch => edits' = edits + 1
        BY DEF Children!Act, Children!Patch
      <3> QED
        BY <3>1 DEF EditsCount
    <2> QED
      BY <2>2, <2>3, <2>4 DEF Children!Next, Children!Tick, Children!ReadOrigin,
                              Children!ReadContainer, Children!Drop
  <1>2. PlanningInit => EditsCount
    BY DEF EditsCount, PlanningInit, Children!Init
  <1>3. EditsCount /\ [PlanningNext]_<<part, now, vars, requestVars, adviceVars, childVars>>
          => EditsCount'
    <2>1. Children!Next => edits' = edits \/ edits' = edits + 1
      BY DEF Children!Next, Children!Act, Children!Patch, Children!Tick, Children!ReadOrigin,
             Children!AdmitChecklist, Children!ReadContainer, Children!AdmitUndo, Children!Drop
    <2> QED
      BY <2>1 DEF EditsCount, PlanningNext, childVars
  <1> QED
    BY <1>1, <1>2, <1>3, ChildInvariant, PTL DEF PlanningSpec, NothingIsErased

-----------------------------------------------------------------------------
(* The planning request *)

(* Induction, over numbers and over finite sets, of what is told by a set.   *)
LEMMA NumbersInduct ==
  ASSUME NEW Good, 0 \in Good, \A n \in Nat : n \in Good => n + 1 \in Good
  PROVE  Nat \subseteq Good
  <1>1. SUFFICES ASSUME Nat \ Good # {} PROVE FALSE
    OBVIOUS
  <1>2. PICK n \in Nat \ Good : \A m \in Nat \ Good : n <= m
    BY <1>1, FirstOf
  <1>3. n # 0 /\ n - 1 \in Nat
    BY <1>2
  <1>4. n - 1 \in Good
    BY <1>2, <1>3
  <1>5. (n - 1) + 1 \in Good
    BY <1>3, <1>4
  <1> QED
    BY <1>2, <1>5

(* A finite set of numbers has a last one.                                   *)
LEMMA LastOf ==
  ASSUME NEW T, T \subseteq Nat, T # {}, IsFiniteSet(T)
  PROVE  \E most \in T : \A x \in T : x <= most
  <1> DEFINE Good == {n \in Nat : \A S \in SUBSET T : S # {} /\ Cardinality(S) = n =>
                                    \E most \in S : \A x \in S : x <= most}
  <1>1. 0 \in Good
    <2>1. \A S \in SUBSET T : Cardinality(S) = 0 => S = {}
      BY FS_Subset, FS_EmptySet
    <2> QED
      BY <2>1
  <1>2. ASSUME NEW n \in Nat, n \in Good
        PROVE  n + 1 \in Good
    <2>1. ASSUME NEW S \in SUBSET T, S # {}, Cardinality(S) = n + 1
          PROVE  \E most \in S : \A x \in S : x <= most
      <3>1. PICK y \in S : TRUE
        BY <2>1
      <3>2. IsFiniteSet(S)
        BY FS_Subset
      <3>3. Cardinality(S \ {y}) = n
        <4>1. Cardinality(S \ {y}) = Cardinality(S) - 1
          BY <3>1, <3>2, FS_RemoveElement
        <4> QED
          BY <2>1, <4>1
      <3>4. CASE S \ {y} = {}
        <4>1. S = {y}
          BY <3>1, <3>4
        <4> QED
          BY <4>1
      <3>5. CASE S \ {y} # {}
        <4>1. PICK most \in S \ {y} : \A x \in S \ {y} : x <= most
          BY <1>2, <3>3, <3>5
        <4>2. CASE y <= most
          BY <4>1, <4>2
        <4>3. CASE most <= y
          <5>1. \A x \in S : x <= y
            BY <3>1, <4>1, <4>3
          <5> QED
            BY <3>1, <5>1
        <4> QED
          BY <3>1, <4>2, <4>3
      <3> QED
        BY <3>4, <3>5
    <2> QED
      BY <2>1
  <1> HIDE DEF Good
  <1>3. Nat \subseteq Good
    BY <1>1, <1>2, NumbersInduct
  <1>4. Cardinality(T) \in Good
    BY <1>3, FS_CardinalityType
  <1> QED
    BY <1>4 DEF Good

(* What a function takes of a finite set is finite.                          *)
LEMMA ImageIsFinite ==
  ASSUME NEW S, IsFiniteSet(S), NEW f, DOMAIN f = S
  PROVE  IsFiniteSet({f[x] : x \in S})
  <1> DEFINE T == {f[x] : x \in S}
          g == [x \in S |-> f[x]]
  <1>1. g \in Surjection(S, T)
    BY DEF Surjection
  <1> QED
    BY <1>1, FS_Surjection

-----------------------------------------------------------------------------
(* The operators of PlanWindows *)

(* Latest: no time is later, and it is one of them or the floor.             *)
LEMMA LatestIs ==
  ASSUME NEW times, times \subseteq Nat, IsFiniteSet(times), NEW floor \in Nat
  PROVE  /\ Request!Latest(times, floor) \in Nat
         /\ Request!Latest(times, floor) \in times \cup {floor}
         /\ floor <= Request!Latest(times, floor)
         /\ \A x \in times : x <= Request!Latest(times, floor)
  <1> DEFINE T == times \cup {floor}
  <1>1. IsFiniteSet(T)
    BY FS_AddElement
  <1>2. PICK most \in T : \A x \in T : x <= most
    <2>1. T \subseteq Nat /\ T # {}
      OBVIOUS
    <2> HIDE DEF T
    <2> QED
      BY <1>1, <2>1, LastOf
  <1>3. \E x \in T : \A y \in T : x >= y
    BY <1>2
  <1>4. Request!Latest(times, floor) = CHOOSE x \in T : \A y \in T : x >= y
    BY DEF Request!Latest, Request!Max
  <1>5. PICK latest : latest = Request!Latest(times, floor)
    OBVIOUS
  <1>6. latest \in T /\ \A y \in T : latest >= y
    BY <1>3, <1>4, <1>5
  <1> QED
    BY <1>5, <1>6

(* The least of some times is one of them.                                   *)
LEMMA MinIs ==
  ASSUME NEW times, times \subseteq Nat, times # {}
  PROVE  /\ Request!Min(times) \in times
         /\ \A x \in times : Request!Min(times) <= x
  <1>1. \E x \in times : \A y \in times : x <= y
    BY FirstOf
  <1>2. Request!Min(times) = CHOOSE x \in times : \A y \in times : x =< y
    BY DEF Request!Min
  <1> QED
    BY <1>1, <1>2

(* Offsets: the running totals of some lengths.                              *)
LEMMA OffsetsAre ==
  ASSUME NEW lengths \in Seq(Nat)
  PROVE  /\ Request!Offsets(lengths) \in [0..Len(lengths) -> Nat]
         /\ Request!Offsets(lengths)[0] = 0
         /\ \A i \in 1..Len(lengths) :
              Request!Offsets(lengths)[i] = Request!Offsets(lengths)[i - 1] + lengths[i]
  <1> DEFINE Sums(f, n) == /\ f \in [0..n -> Nat] /\ f[0] = 0
                           /\ \A i \in 1..n : f[i] = f[i - 1] + lengths[i]
          Good == {n \in Nat : n <= Len(lengths) => \E f : Sums(f, n)}
  <1>1. Len(lengths) \in Nat /\ \A i \in 1..Len(lengths) : lengths[i] \in Nat
    OBVIOUS
  <1>2. 0 \in Good
    <2>1. Sums([i \in 0..0 |-> 0], 0)
      OBVIOUS
    <2> HIDE DEF Sums
    <2> QED
      BY <2>1
  <1>3. ASSUME NEW n \in Nat, n \in Good PROVE n + 1 \in Good
    <2>1. CASE n + 1 <= Len(lengths)
      <3>1. PICK f : Sums(f, n)
        BY <1>1, <1>3, <2>1
      <3> DEFINE g == [i \in 0..(n + 1) |-> IF i = n + 1 THEN f[n] + lengths[n + 1] ELSE f[i]]
      <3>2. \A i \in 0..n : g[i] = f[i] /\ g[i] \in Nat
        BY <3>1
      <3>3. g[n + 1] = f[n] + lengths[n + 1] /\ g[n + 1] \in Nat
        BY <1>1, <2>1, <3>1
      <3>4. g \in [0..(n + 1) -> Nat]
        <4>1. ASSUME NEW i \in 0..(n + 1) PROVE g[i] \in Nat
          <5>1. i = n + 1 \/ i \in 0..n
            OBVIOUS
          <5> HIDE DEF g
          <5> QED
            BY ONLY <5>1, <3>2, <3>3
        <4> QED
          BY <4>1
      <3>5. ASSUME NEW i \in 1..(n + 1)
            PROVE  g[i] = g[i - 1] + lengths[i]
        <4>1. CASE i = n + 1
          <5>1. g[n] = f[n] /\ (n + 1) - 1 = n
            BY <3>2
          <5> HIDE DEF g
          <5> QED
            BY <3>3, <4>1, <5>1
        <4>2. CASE i # n + 1
          <5>1. i \in 1..n /\ i \in 0..n /\ i - 1 \in 0..n
            BY <4>2
          <5>2. f[i] = f[i - 1] + lengths[i]
            BY <3>1, <5>1
          <5> QED
            BY <3>2, <5>1, <5>2
        <4> QED
          BY <4>1, <4>2
      <3>6. g[0] = 0
        BY <3>1, <3>2
      <3> HIDE DEF g
      <3>7. Sums(g, n + 1)
        BY <3>4, <3>5, <3>6
      <3> HIDE DEF Sums
      <3> QED
        BY <3>7
    <2>2. CASE ~ n + 1 <= Len(lengths)
      BY <2>2
    <2> QED
      BY <2>1, <2>2
  <1>4. PICK f : Sums(f, Len(lengths))
    <2>1. Nat \subseteq Good
      <3> HIDE DEF Good
      <3> QED
        BY <1>2, <1>3, NumbersInduct
    <2> HIDE DEF Sums
    <2>2. Len(lengths) \in Good
      BY <1>1, <2>1
    <2> QED
      BY <1>1, <2>2
  <1> DEFINE Sum(g) == [i \in 0..Len(lengths) |-> IF i = 0 THEN 0 ELSE g[i - 1] + lengths[i]]
  <1>5. f = Sum(f)
    <2>1. \A i \in 0..Len(lengths) : f[i] = IF i = 0 THEN 0 ELSE f[i - 1] + lengths[i]
      <3>1. \A i \in 0..Len(lengths) : i # 0 => i \in 1..Len(lengths)
        OBVIOUS
      <3> QED
        BY <1>4, <3>1
    <2> QED
      BY <1>4, <2>1
  <1>6. PICK sum : sum = Request!Offsets(lengths)
    OBVIOUS
  <1>7. Request!Offsets(lengths) = CHOOSE g : g = Sum(g)
    BY DEF Request!Offsets
  <1>8. sum = Sum(sum)
    <2> HIDE DEF Sum
    <2> QED
      BY <1>5, <1>6, <1>7
  <1>9. /\ DOMAIN sum = 0..Len(lengths) /\ sum[0] = 0
        /\ \A i \in 1..Len(lengths) : sum[i] = sum[i - 1] + lengths[i]
    <2>1. DOMAIN sum = 0..Len(lengths)
      BY <1>8
    <2>2. \A i \in 0..Len(lengths) : sum[i] = IF i = 0 THEN 0 ELSE sum[i - 1] + lengths[i]
      BY <1>8
    <2>3. \A i \in 1..Len(lengths) : i \in 0..Len(lengths) /\ i # 0
      BY <1>1
    <2>4. 0 \in 0..Len(lengths)
      BY <1>1
    <2> QED
      BY <2>1, <2>2, <2>3, <2>4
  <1>10. \A i \in 0..Len(lengths) : sum[i] \in Nat
    <2> DEFINE Fine == {n \in Nat : n <= Len(lengths) => sum[n] \in Nat}
    <2>1. 0 \in Fine
      BY <1>9
    <2>2. ASSUME NEW n \in Nat, n \in Fine PROVE n + 1 \in Fine
      <3>1. n + 1 <= Len(lengths) => sum[n + 1] = sum[n] + lengths[n + 1]
        <4>1. n + 1 <= Len(lengths) => n + 1 \in 1..Len(lengths) /\ (n + 1) - 1 = n
          BY <1>1
        <4> QED
          BY <1>9, <4>1
      <3>2. n + 1 <= Len(lengths) => n <= Len(lengths) /\ lengths[n + 1] \in Nat
        BY <1>1
      <3> QED
        BY <2>2, <3>1, <3>2
    <2> HIDE DEF Fine
    <2>3. Nat \subseteq Fine
      BY <2>1, <2>2, NumbersInduct
    <2> QED
      BY <1>1, <2>3 DEF Fine
  <1>11. sum \in [0..Len(lengths) -> Nat]
    <2>1. sum = [i \in 0..Len(lengths) |-> sum[i]]
      <3> HIDE DEF Sum
      <3>1. Sum(sum) = [i \in 0..Len(lengths) |-> Sum(sum)[i]]
        BY DEF Sum
      <3> QED
        BY <1>8, <3>1
    <2> QED
      BY <1>10, <2>1
  <1> QED
    BY <1>6, <1>9, <1>11

(* Offsets do not fall.                                                      *)
LEMMA OffsetsAscend ==
  ASSUME NEW lengths \in Seq(Nat),
         NEW i \in 0..Len(lengths), NEW j \in 0..Len(lengths), i <= j
  PROVE  Request!Offsets(lengths)[i] <= Request!Offsets(lengths)[j]
  <1> PICK sum : sum = Request!Offsets(lengths)
    OBVIOUS
  <1>1. /\ \A k \in 0..Len(lengths) : sum[k] \in Nat
        /\ \A k \in 1..Len(lengths) : sum[k] = sum[k - 1] + lengths[k]
        /\ \A k \in 1..Len(lengths) : lengths[k] \in Nat
        /\ Len(lengths) \in Nat
    BY OffsetsAre
  <1> DEFINE Good == {n \in Nat : i + n <= Len(lengths) => sum[i] <= sum[i + n]}
  <1>2. 0 \in Good
    BY <1>1
  <1>3. ASSUME NEW n \in Nat, n \in Good PROVE n + 1 \in Good
    <2>1. CASE i + (n + 1) <= Len(lengths)
      <3>1. i + (n + 1) \in 1..Len(lengths) /\ (i + (n + 1)) - 1 = i + n /\ i + n \in 0..Len(lengths)
        BY <2>1
      <3>2. sum[i + (n + 1)] = sum[i + n] + lengths[i + (n + 1)] /\ lengths[i + (n + 1)] \in Nat
        BY <1>1, <3>1
      <3>3. sum[i] <= sum[i + n]
        BY <1>3, <3>1
      <3>4. sum[i] \in Nat /\ sum[i + n] \in Nat
        BY <1>1, <3>1
      <3> QED
        BY <3>2, <3>3, <3>4
    <2> QED
      BY <2>1
  <1> HIDE DEF Good
  <1>4. Nat \subseteq Good
    BY <1>2, <1>3, NumbersInduct
  <1>5. j - i \in Nat /\ i + (j - i) = j /\ j <= Len(lengths)
    OBVIOUS
  <1>6. j - i \in Good
    BY <1>4, <1>5
  <1> QED
    BY <1>5, <1>6 DEF Good

(* EarliestFit: a place it finds is in the window, has the length, and       *)
(* shares no time with anything occupied (earliest_fit).                     *)
LEMMA EarliestFitFits ==
  ASSUME NEW window \in Spans, NEW occupied, occupied \subseteq Spans,
         IsFiniteSet(occupied), NEW length \in Nat,
         Request!EarliestFit(window, occupied, length) # Request!NoSpan
  PROVE  LET seat == Request!EarliestFit(window, occupied, length)
         IN /\ seat \in Spans
            /\ window.start <= seat.start /\ seat.end <= window.end
            /\ seat.end - seat.start = length
            /\ \A o \in occupied : ~Request!Overlaps(seat, o) /\ ~Request!Overlaps(o, seat)
  <1> DEFINE touching == {o \in occupied : Request!Overlaps(o, window)}
             Cursor(passed) == Request!Latest({o.end : o \in passed}, window.start)
             Earlier(o) == {p \in touching : Request!Before(p, o)}
             gaps == {Request!Span(Cursor(Earlier(o)), Request!Sooner(o.start, window.end)) :
                        o \in touching} \cup {Request!Span(Cursor(touching), window.end)}
             starts == {g.start : g \in {h \in gaps : h.start + length <= h.end}}
             start == Request!Min(starts)
  <1>1. ASSUME NEW passed \in SUBSET occupied
        PROVE  /\ Cursor(passed) \in Nat /\ window.start <= Cursor(passed)
               /\ \A o \in passed : o.end <= Cursor(passed)
    <2>1. IsFiniteSet(passed) /\ \A o \in passed : o.end \in Nat
      BY FS_Subset DEF Spans
    <2>2. IsFiniteSet({o.end : o \in passed})
      <3> DEFINE f == [o \in passed |-> o.end]
      <3>1. IsFiniteSet({f[o] : o \in passed})
        BY <2>1, ImageIsFinite
      <3>2. {f[o] : o \in passed} = {o.end : o \in passed}
        OBVIOUS
      <3> QED
        BY <3>1, <3>2
    <2>3. PICK times : times = {o.end : o \in passed}
      OBVIOUS
    <2>4. times \subseteq Nat /\ IsFiniteSet(times) /\ \A o \in passed : o.end \in times
      BY <2>1, <2>2, <2>3
    <2>5. Cursor(passed) = Request!Latest(times, window.start) /\ window.start \in Nat
      BY <2>3 DEF Spans
    <2> QED
      BY <2>4, <2>5, LatestIs
  <1> HIDE DEF Cursor
  <1>2. \A g \in gaps : g.start \in Nat
    <2>1. Cursor(touching) \in Nat /\ \A o \in touching : Cursor(Earlier(o)) \in Nat
      BY <1>1
    <2>2. Request!Span(Cursor(touching), window.end).start = Cursor(touching)
      BY DEF Request!Span
    <2>3. \A o \in touching :
            Request!Span(Cursor(Earlier(o)), Request!Sooner(o.start, window.end)).start
              = Cursor(Earlier(o))
      BY DEF Request!Span
    <2> QED
      BY <2>1, <2>2, <2>3
  <1>3. starts \subseteq Nat
    BY <1>2
  <1>4. /\ starts # {}
        /\ Request!EarliestFit(window, occupied, length) = Request!Span(start, start + length)
    BY DEF Request!EarliestFit, Cursor
  <1>5. start \in starts
    BY <1>3, <1>4, MinIs
  <1>6. PICK gap \in gaps : gap.start = start /\ gap.start + length <= gap.end
    BY <1>5
  <1>7. start \in Nat
    BY <1>3, <1>5
  <1> HIDE DEF start, starts
  <1>8. /\ window.start <= start /\ start + length <= window.end
        /\ \A o \in touching : o.end <= start \/ start + length <= o.start
    <2>1. CASE gap = Request!Span(Cursor(touching), window.end)
      <3>1. start = Cursor(touching) /\ start + length <= window.end
        BY <1>6, <2>1 DEF Request!Span
      <3> QED
        BY <1>1, <3>1
    <2>2. ASSUME NEW o \in touching,
                 gap = Request!Span(Cursor(Earlier(o)), Request!Sooner(o.start, window.end))
          PROVE  /\ window.start <= start /\ start + length <= window.end
                 /\ \A p \in touching : p.end <= start \/ start + length <= p.start
      <3>1. start = Cursor(Earlier(o)) /\ start + length <= Request!Sooner(o.start, window.end)
        BY <1>6, <2>2 DEF Request!Span
      <3>2. o.start \in Nat /\ o.end \in Nat /\ window.end \in Nat /\ window.start \in Nat
        BY DEF Spans
      <3>3. start + length <= o.start /\ start + length <= window.end
        BY <1>7, <3>1, <3>2 DEF Request!Sooner
      <3>4. ASSUME NEW p \in touching
            PROVE  p.end <= start \/ start + length <= p.start
        <4>1. p.start \in Nat /\ p.end \in Nat
          BY DEF Spans
        <4>2. CASE Request!Before(p, o)
          BY <1>1, <3>1, <4>2
        <4>3. CASE ~Request!Before(p, o)
          <5>1. o.start <= p.start
            BY <3>2, <4>1, <4>3 DEF Request!Before
          <5> QED
            BY <1>7, <3>2, <3>3, <4>1, <5>1
        <4> QED
          BY <4>2, <4>3
      <3> QED
        BY <1>1, <3>1, <3>3, <3>4
    <2> QED
      BY <2>1, <2>2
  <1>9. ASSUME NEW o \in occupied
        PROVE  o.end <= start \/ start + length <= o.start
    <2>1. o.start \in Nat /\ o.end \in Nat /\ window.end \in Nat /\ window.start \in Nat
      BY DEF Spans
    <2>2. CASE o \in touching
      BY <1>8, <2>2
    <2>3. CASE o \notin touching
      <3>1. o.start >= window.end \/ o.end <= window.start
        BY <2>1, <2>3 DEF Request!Overlaps
      <3> QED
        BY <1>7, <1>8, <2>1, <3>1
    <2> QED
      BY <2>2, <2>3
  <1>10. ASSUME NEW o \in occupied
         PROVE  /\ ~Request!Overlaps(Request!Span(start, start + length), o)
                /\ ~Request!Overlaps(o, Request!Span(start, start + length))
    <2>1. o.start \in Nat /\ o.end \in Nat
      BY DEF Spans
    <2> QED
      BY <1>7, <1>9, <2>1 DEF Request!Overlaps, Request!Span
  <1> QED
    BY <1>4, <1>7, <1>8, <1>10 DEF Request!Span, Spans

(* Groups: no id is in two of them.                                          *)
LEMMA GroupsAreApart ==
  ASSUME NEW f, NEW g \in Request!Groups(f), NEW h \in Request!Groups(f), g \cap h # {},
         \A i, j \in DOMAIN f : Request!Overlaps(f[i], f[j]) => Request!Overlaps(f[j], f[i])
  PROVE  g = h
  <1>1. /\ g \subseteq DOMAIN f /\ h \subseteq DOMAIN f
        /\ Request!Apart(f, g) /\ Request!Apart(f, h)
        /\ \A k \in (SUBSET g) \ {{}, g} : ~Request!Apart(f, k)
        /\ \A k \in (SUBSET h) \ {{}, h} : ~Request!Apart(f, k)
    BY DEF Request!Groups
  <1>2. Request!Apart(f, g \cap h)
    BY <1>1 DEF Request!Apart
  <1>3. g \cap h = g /\ g \cap h = h
    BY <1>1, <1>2
  <1> QED
    BY <1>3

-----------------------------------------------------------------------------
(* The operators of Priorities *)

Comparisons == [a : Nat, b : Nat, strict : BOOLEAN]

(* What reaches holds of: every comparison, through any number of them.      *)
LEMMA ReachesIs ==
  ASSUME NEW pairs, pairs \subseteq Comparisons
  PROVE  LET reaches == Request!Reaches(pairs)
             ranked == Request!Ranked(pairs)
         IN /\ \A p \in pairs : p.a \in ranked /\ p.b \in ranked /\ <<p.a, p.b>> \in reaches
            /\ \A p \in pairs : ~p.strict => <<p.b, p.a>> \in reaches
            /\ \A i \in ranked : <<i, i>> \in reaches
            /\ \A i, j, k \in ranked :
                 <<i, j>> \in reaches /\ <<j, k>> \in reaches => <<i, k>> \in reaches
  <1> DEFINE ranked == Request!Ranked(pairs)
             edges == {<<p.a, p.b>> : p \in pairs}
                        \cup {<<p.b, p.a>> : p \in {q \in pairs : ~q.strict}}
             Closed == {c \in SUBSET ranked : \A e \in edges : e[1] \in c => e[2] \in c}
  <1>1. \A p \in pairs : p.a \in ranked /\ p.b \in ranked
    BY DEF Request!Ranked
  <1>2. \A p \in pairs : /\ <<p.a, p.b>> \in edges
                         /\ ~p.strict => <<p.b, p.a>> \in edges
    OBVIOUS
  <1>3. Request!Reaches(pairs) =
          {e \in ranked \X ranked : \A c \in Closed : e[1] \in c => e[2] \in c}
    BY DEF Request!Reaches
  <1>4. PICK reaches : reaches = Request!Reaches(pairs)
    OBVIOUS
  <1> HIDE DEF ranked, edges
  <1>5. \A i, j \in ranked :
          <<i, j>> \in reaches <=> \A c \in Closed : i \in c => j \in c
    BY <1>3, <1>4
  <1>6. \A i, j : <<i, j>> \in edges => \A c \in Closed : i \in c => j \in c
    OBVIOUS
  <1> HIDE DEF Closed
  <1>7. \A p \in pairs : /\ <<p.a, p.b>> \in reaches
                         /\ ~p.strict => <<p.b, p.a>> \in reaches
    BY <1>1, <1>2, <1>5, <1>6
  <1>8. \A i, j, k \in ranked :
          <<i, j>> \in reaches /\ <<j, k>> \in reaches => <<i, k>> \in reaches
    BY <1>5
  <1>9. \A i \in ranked : <<i, i>> \in reaches
    BY <1>5
  <1> QED
    BY <1>1, <1>4, <1>7, <1>8, <1>9 DEF ranked

LEMMA RankedIsFinite ==
  ASSUME NEW pairs, pairs \subseteq Comparisons, IsFiniteSet(pairs)
  PROVE  IsFiniteSet(Request!Ranked(pairs)) /\ Request!Ranked(pairs) \subseteq Nat
  <1> DEFINE f == [p \in pairs |-> p.a]
             g == [p \in pairs |-> p.b]
  <1>1. IsFiniteSet({f[p] : p \in pairs})
    BY ImageIsFinite
  <1>2. IsFiniteSet({g[p] : p \in pairs})
    BY ImageIsFinite
  <1>3. IsFiniteSet({f[p] : p \in pairs} \cup {g[p] : p \in pairs})
    BY <1>1, <1>2, FS_Union
  <1>4. Request!Ranked(pairs) = {f[p] : p \in pairs} \cup {g[p] : p \in pairs}
    BY DEF Request!Ranked
  <1>5. Request!Ranked(pairs) \subseteq Nat
    BY DEF Request!Ranked, Comparisons
  <1> QED
    BY <1>3, <1>4, <1>5

(* The strict preferences that end in i's component, and what a chain is     *)
(* worth that is one longer.                                                 *)
Above(pairs, i) ==
  {p \in pairs : /\ p.strict /\ <<p.b, p.a>> \notin Request!Reaches(pairs)
                 /\ {<<p.b, i>>, <<i, p.b>>} \subseteq Request!Reaches(pairs)}

Longer(pairs, g) ==
  [i \in Request!Ranked(pairs) |->
     Request!Latest({g[p.a] + 1 : p \in Above(pairs, i)}, 0)]

Chain(pairs, f, n) ==
  /\ f \in [0..n -> [Request!Ranked(pairs) -> Nat]]
  /\ f[0] = [i \in Request!Ranked(pairs) |-> 0]
  /\ \A m \in 1..n : f[m] = Longer(pairs, f[m - 1])

LEMMA LongerIs ==
  ASSUME NEW pairs, pairs \subseteq Comparisons, IsFiniteSet(pairs),
         NEW g \in [Request!Ranked(pairs) -> Nat]
  PROVE  /\ Longer(pairs, g) \in [Request!Ranked(pairs) -> Nat]
         /\ \A i \in Request!Ranked(pairs) :
              /\ \A p \in Above(pairs, i) : g[p.a] + 1 <= Longer(pairs, g)[i]
              /\ \/ Longer(pairs, g)[i] = 0
                 \/ \E p \in Above(pairs, i) : Longer(pairs, g)[i] = g[p.a] + 1
  <1>1. ASSUME NEW i \in Request!Ranked(pairs)
        PROVE  /\ Longer(pairs, g)[i] \in Nat
               /\ \A p \in Above(pairs, i) : g[p.a] + 1 <= Longer(pairs, g)[i]
               /\ \/ Longer(pairs, g)[i] = 0
                  \/ \E p \in Above(pairs, i) : Longer(pairs, g)[i] = g[p.a] + 1
    <2> PICK above : above = Above(pairs, i)
      OBVIOUS
    <2> DEFINE f == [p \in above |-> g[p.a] + 1]
    <2>1. above \in SUBSET pairs /\ IsFiniteSet(above)
      <3>1. above \in SUBSET pairs
        BY DEF Above
      <3> QED
        BY <3>1, FS_Subset
    <2>2. \A p \in above : p.a \in Request!Ranked(pairs) /\ f[p] = g[p.a] + 1 /\ f[p] \in Nat
      BY <2>1 DEF Request!Ranked
    <2>3. PICK times : times = {f[p] : p \in above}
      OBVIOUS
    <2>4. times = {g[p.a] + 1 : p \in above}
      BY <2>3
    <2> HIDE DEF f
    <2>5. times \subseteq Nat
      BY <2>2, <2>3
    <2>6. IsFiniteSet(times)
      <3>1. DOMAIN f = above
        BY DEF f
      <3> QED
        BY <2>1, <2>3, <3>1, ImageIsFinite
    <2>7. Longer(pairs, g)[i] = Request!Latest(times, 0)
      BY <2>4 DEF Longer
    <2>8. PICK latest : latest = Request!Latest(times, 0)
      OBVIOUS
    <2>9. /\ latest \in Nat /\ latest \in times \cup {0}
          /\ \A x \in times : x <= latest
      BY <2>5, <2>6, <2>8, LatestIs
    <2>10. \A p \in above : g[p.a] + 1 <= latest
      BY <2>4, <2>9
    <2>11. latest = 0 \/ \E p \in above : latest = g[p.a] + 1
      BY <2>4, <2>9
    <2> QED
      BY <2>7, <2>8, <2>9, <2>10, <2>11
  <1>2. Longer(pairs, g) = [i \in Request!Ranked(pairs) |-> Longer(pairs, g)[i]]
    BY DEF Longer
  <1>3. Longer(pairs, g) \in [Request!Ranked(pairs) -> Nat]
    BY <1>1, <1>2
  <1> QED
    BY <1>1, <1>3

LEMMA CardinalityIs == \A S : Request!Cardinality(S) = Cardinality(S)
  BY DEF Request!Cardinality, Cardinality

(* Layers is the end of a chain as long as there are Tasks.                  *)
LEMMA LayersAre ==
  ASSUME NEW pairs, pairs \subseteq Comparisons, IsFiniteSet(pairs)
  PROVE  \E f : /\ Chain(pairs, f, Cardinality(Request!Ranked(pairs)))
                /\ Request!Layers(pairs) = f[Cardinality(Request!Ranked(pairs))]
  <1> PICK ranked, N : ranked = Request!Ranked(pairs) /\ N = Cardinality(ranked)
    OBVIOUS
  <1>1. IsFiniteSet(ranked) /\ N \in Nat
    BY RankedIsFinite, FS_CardinalityType
  <1> DEFINE Zero == [i \in ranked |-> 0]
             Step(g) == [n \in 0..N |->
                           [i \in ranked |->
                              IF n = 0 THEN 0
                              ELSE Request!Latest({g[n - 1][p.a] + 1 : p \in Above(pairs, i)}, 0)]]
             Good == {n \in Nat : n <= N => \E f : Chain(pairs, f, n)}
  <1>2. Zero \in [ranked -> Nat]
    OBVIOUS
  <1>3. 0 \in Good
    <2>1. Chain(pairs, [i \in 0..0 |-> Zero], 0)
      BY <1>2 DEF Chain
    <2> QED
      BY <2>1
  <1>4. ASSUME NEW n \in Nat, n \in Good PROVE n + 1 \in Good
    <2>1. CASE n + 1 <= N
      <3>1. PICK f : Chain(pairs, f, n)
        BY <1>1, <1>4, <2>1
      <3>2. PICK last : last = f[n] /\ last \in [ranked -> Nat]
        BY <3>1 DEF Chain
      <3>3. PICK more : more = Longer(pairs, last) /\ more \in [ranked -> Nat]
        BY <3>2, LongerIs
      <3> DEFINE g == [i \in 0..(n + 1) |-> IF i = n + 1 THEN more ELSE f[i]]
      <3>4. \A i \in 0..n : g[i] = f[i] /\ g[i] \in [ranked -> Nat]
        BY <3>1 DEF Chain
      <3>5. g[n + 1] = more
        BY <3>1
      <3>6. g \in [0..(n + 1) -> [ranked -> Nat]]
        <4>1. \A i \in 0..(n + 1) : i = n + 1 \/ i \in 0..n
          OBVIOUS
        <4>2. \A i \in 0..(n + 1) : g[i] \in [ranked -> Nat]
          BY <3>3, <3>4, <3>5, <4>1
        <4>3. g = [i \in 0..(n + 1) |-> g[i]]
          OBVIOUS
        <4> HIDE DEF g
        <4> QED
          BY <4>2, <4>3
      <3> HIDE DEF g
      <3>7. ASSUME NEW m \in 1..(n + 1)
            PROVE  g[m] = Longer(pairs, g[m - 1])
        <4>1. CASE m = n + 1
          <5>1. g[m - 1] = last
            BY <3>2, <3>4, <4>1
          <5> QED
            BY <3>3, <3>5, <4>1, <5>1
        <4>2. CASE m # n + 1
          <5>1. m \in 1..n /\ m \in 0..n /\ m - 1 \in 0..n
            BY <4>2
          <5>2. f[m] = Longer(pairs, f[m - 1])
            BY <3>1, <5>1 DEF Chain
          <5> QED
            BY <3>4, <5>1, <5>2
        <4> QED
          BY <4>1, <4>2
      <3>8. g[0] = Zero
        BY <3>1, <3>4 DEF Chain
      <3>9. Chain(pairs, g, n + 1)
        BY <3>6, <3>7, <3>8 DEF Chain
      <3> QED
        BY <3>9
    <2> QED
      BY <2>1
  <1>5. PICK f : Chain(pairs, f, N)
    <2>1. Nat \subseteq Good
      <3> HIDE DEF Good
      <3> QED
        BY <1>3, <1>4, NumbersInduct
    <2> QED
      BY <1>1, <2>1
  <1>6. f = Step(f)
    <2>1. ASSUME NEW n \in 0..N PROVE f[n] = Step(f)[n]
      <3>1. CASE n = 0
        BY <1>5, <3>1 DEF Chain
      <3>2. CASE n # 0
        <4>1. n \in 1..N
          BY <1>1, <3>2
        <4>2. f[n] = Longer(pairs, f[n - 1])
          BY <1>5, <4>1 DEF Chain
        <4>3. PICK prior : prior = f[n - 1]
          OBVIOUS
        <4>4. Step(f)[n] = [i \in ranked |->
                              Request!Latest({prior[p.a] + 1 : p \in Above(pairs, i)}, 0)]
          BY <3>2, <4>3
        <4>5. Longer(pairs, prior) = [i \in ranked |->
                              Request!Latest({prior[p.a] + 1 : p \in Above(pairs, i)}, 0)]
          BY DEF Longer
        <4> HIDE DEF Step
        <4> QED
          BY <4>2, <4>3, <4>4, <4>5
      <3> QED
        BY <3>1, <3>2
    <2>2. f = [n \in 0..N |-> f[n]] /\ Step(f) = [n \in 0..N |-> Step(f)[n]]
      BY <1>5 DEF Chain
    <2> HIDE DEF Step
    <2> QED
      BY <2>1, <2>2
  <1>7. PICK chain : chain = Step(chain) /\ Request!Layers(pairs) = chain[N]
    <2> DEFINE Literal(g) ==
                 [n \in 0..Cardinality(Request!Ranked(pairs)) |->
                    [i \in Request!Ranked(pairs) |->
                       IF n = 0 THEN 0
                       ELSE Request!Latest({g[n - 1][p.a] + 1 : p \in Above(pairs, i)}, 0)]]
    <2>1. \A g : Literal(g) = Step(g)
      OBVIOUS
    <2>2. PICK chosen : chosen = CHOOSE g : g = Literal(g)
      OBVIOUS
    <2>3. Request!Layers(pairs) = chosen[N]
      BY <2>2, CardinalityIs DEF Request!Layers, Above
    <2>4. chosen = Step(chosen)
      <3> HIDE DEF Step, Literal
      <3>1. f = Literal(f)
        BY <1>6, <2>1
      <3>2. chosen = Literal(chosen)
        BY <2>2, <3>1
      <3> QED
        BY <2>1, <3>2
    <2> QED
      BY <2>3, <2>4
  <1>8. chain[0] = Zero
    <2>1. 0 \in 0..N /\ Step(chain)[0] = Zero
      BY <1>1
    <2> HIDE DEF Step
    <2> QED
      BY <1>7, <2>1
  <1>9. \A n \in 1..N : chain[n] = Longer(pairs, chain[n - 1])
    <2>1. ASSUME NEW n \in 1..N PROVE chain[n] = Longer(pairs, chain[n - 1])
      <3>1. PICK prior : prior = chain[n - 1]
        OBVIOUS
      <3>2. n \in 0..N /\ n # 0
        BY <1>1
      <3>3. Step(chain)[n] = [i \in ranked |->
                              Request!Latest({prior[p.a] + 1 : p \in Above(pairs, i)}, 0)]
        BY <3>1, <3>2
      <3>4. Longer(pairs, prior) = [i \in ranked |->
                              Request!Latest({prior[p.a] + 1 : p \in Above(pairs, i)}, 0)]
        BY DEF Longer
      <3> HIDE DEF Step
      <3> QED
        BY <1>7, <3>1, <3>3, <3>4
    <2> QED
      BY <2>1
  <1>10. \A n \in 0..N : chain[n] \in [ranked -> Nat]
    <2> DEFINE Fine == {n \in Nat : n <= N => chain[n] \in [ranked -> Nat]}
    <2>1. 0 \in Fine
      BY <1>2, <1>8
    <2>2. ASSUME NEW n \in Nat, n \in Fine PROVE n + 1 \in Fine
      <3>1. CASE n + 1 <= N
        <4>1. n + 1 \in 1..N /\ (n + 1) - 1 = n /\ n <= N
          BY <1>1, <3>1
        <4>2. chain[n] \in [ranked -> Nat]
          BY <2>2, <4>1
        <4>3. chain[n + 1] = Longer(pairs, chain[n])
          BY <1>9, <4>1
        <4>4. PICK prior : prior = chain[n] /\ prior \in [ranked -> Nat]
          BY <4>2
        <4>5. Longer(pairs, prior) \in [ranked -> Nat]
          BY <4>4, LongerIs
        <4> QED
          BY <4>3, <4>4, <4>5
      <3> QED
        BY <3>1
    <2> HIDE DEF Fine
    <2>3. Nat \subseteq Fine
      BY <2>1, <2>2, NumbersInduct
    <2> QED
      BY <1>1, <2>3 DEF Fine
  <1>11. chain \in [0..N -> [ranked -> Nat]]
    <2>1. chain = [n \in 0..N |-> chain[n]]
      <3>1. Step(chain) = [n \in 0..N |-> Step(chain)[n]]
        OBVIOUS
      <3> HIDE DEF Step
      <3> QED
        BY <1>7, <3>1
    <2> QED
      BY <1>10, <2>1
  <1>12. Chain(pairs, chain, N)
    BY <1>8, <1>9, <1>11 DEF Chain
  <1> QED
    BY <1>7, <1>12

(* A preferred Task is in an earlier layer, unless a cycle relates the two.  *)
LEMMA PreferredIsEarlier ==
  ASSUME NEW pairs, pairs \subseteq Comparisons, IsFiniteSet(pairs),
         NEW p \in pairs, <<p.b, p.a>> \notin Request!Reaches(pairs)
  PROVE  /\ Request!Layers(pairs) \in [Request!Ranked(pairs) -> Nat]
         /\ Request!Layers(pairs)[p.a] < Request!Layers(pairs)[p.b]
  <1> PICK ranked, reaches, N : /\ ranked = Request!Ranked(pairs)
                                /\ reaches = Request!Reaches(pairs)
                                /\ N = Cardinality(ranked)
    OBVIOUS
  <1> DEFINE Up(i) == {j \in ranked : <<j, i>> \in reaches /\ <<i, j>> \notin reaches}
  <1>1. IsFiniteSet(ranked) /\ N \in Nat
    BY RankedIsFinite, FS_CardinalityType
  <1>2. /\ \A q \in pairs : q.a \in ranked /\ q.b \in ranked /\ <<q.a, q.b>> \in reaches
        /\ \A q \in pairs : ~q.strict => <<q.b, q.a>> \in reaches
        /\ \A i \in ranked : <<i, i>> \in reaches
        /\ \A i, j, k \in ranked :
             <<i, j>> \in reaches /\ <<j, k>> \in reaches => <<i, k>> \in reaches
    BY ReachesIs
  <1>3. \A i \in ranked : /\ Up(i) \in SUBSET ranked /\ IsFiniteSet(Up(i))
                          /\ Cardinality(Up(i)) \in Nat
    <2>1. \A i \in ranked : Up(i) \in SUBSET ranked
      OBVIOUS
    <2> HIDE DEF Up
    <2> QED
      BY <1>1, <2>1, FS_Subset, FS_CardinalityType
  <1>4. ASSUME NEW i \in ranked, NEW q \in Above(pairs, i)
        PROVE  /\ q \in pairs /\ q.a \in Up(i) /\ q.a \notin Up(q.a)
               /\ Up(q.a) \subseteq Up(i) /\ Cardinality(Up(q.a)) < Cardinality(Up(i))
    <2>1. /\ q \in pairs /\ <<q.b, q.a>> \notin reaches
          /\ <<q.b, i>> \in reaches /\ <<i, q.b>> \in reaches
      BY DEF Above
    <2>2. q.a \in Up(i) /\ q.a \notin Up(q.a)
      BY <1>2, <2>1
    <2>3. Up(q.a) \subseteq Up(i)
      BY <1>2, <2>1
    <2>4. q.a \in ranked
      BY <1>2, <2>1
    <2> HIDE DEF Up
    <2>5. Cardinality(Up(q.a)) < Cardinality(Up(i))
      <3>1. Cardinality(Up(q.a)) <= Cardinality(Up(i))
        BY <1>3, <2>3, FS_Subset
      <3>2. Cardinality(Up(q.a)) # Cardinality(Up(i))
        BY <1>3, <2>2, <2>3, FS_Subset
      <3> QED
        BY <1>3, <2>4, <3>1, <3>2
    <2> QED
      BY <2>1, <2>2, <2>3, <2>5
  <1> HIDE DEF Up
  <1>5. PICK f : Chain(pairs, f, N) /\ Request!Layers(pairs) = f[N]
    BY LayersAre
  <1>6. /\ \A n \in 0..N : f[n] \in [ranked -> Nat]
        /\ \A n \in 1..N : f[n] = Longer(pairs, f[n - 1])
        /\ \A i \in ranked : f[0][i] = 0
    BY <1>5 DEF Chain
  <1> DEFINE Good == {n \in Nat : n < N => \A i \in ranked :
                                    Cardinality(Up(i)) <= n => f[n + 1][i] = f[n][i]}
  <1>7. 0 \in Good
    <2>1. ASSUME 0 < N, NEW i \in ranked, Cardinality(Up(i)) <= 0
          PROVE  f[1][i] = f[0][i]
      <3>1. PICK first : first = f[0] /\ first \in [ranked -> Nat] /\ f[1] = Longer(pairs, first)
        BY <1>1, <1>6, <2>1
      <3>2. Above(pairs, i) = {}
        <4>1. Cardinality(Up(i)) = 0
          BY <1>3, <2>1
        <4>2. ASSUME NEW q \in Above(pairs, i) PROVE FALSE
          <5>1. Cardinality(Up(q.a)) < Cardinality(Up(i)) /\ q.a \in ranked
            BY <1>2, <1>4
          <5> QED
            BY <1>3, <4>1, <5>1
        <4> QED
          BY <4>2
      <3>3. Longer(pairs, first)[i] = 0
        BY <3>1, <3>2, LongerIs
      <3> QED
        BY <1>6, <3>1, <3>3
    <2> QED
      BY <2>1
  <1>8. ASSUME NEW n \in Nat, n \in Good PROVE n + 1 \in Good
    <2>1. ASSUME n + 1 < N, NEW i \in ranked, Cardinality(Up(i)) <= n + 1
          PROVE  f[(n + 1) + 1][i] = f[n + 1][i]
      <3>1. n < N /\ n \in 0..N /\ n + 1 \in 1..N /\ (n + 1) + 1 \in 1..N
            /\ (n + 1) - 1 = n /\ ((n + 1) + 1) - 1 = n + 1 /\ n + 1 \in 0..N
        BY <1>1, <2>1
      <3>2. PICK g, h : /\ g = f[n] /\ h = f[n + 1]
                        /\ g \in [ranked -> Nat] /\ h \in [ranked -> Nat]
                        /\ f[n + 1] = Longer(pairs, g) /\ f[(n + 1) + 1] = Longer(pairs, h)
        BY <1>6, <3>1
      <3>3. ASSUME NEW q \in Above(pairs, i) PROVE h[q.a] = g[q.a]
        <4>1. q.a \in ranked /\ Cardinality(Up(q.a)) < Cardinality(Up(i))
          BY <1>2, <1>4
        <4>2. Cardinality(Up(q.a)) <= n
          BY <1>3, <2>1, <4>1
        <4> QED
          BY <1>8, <3>1, <3>2, <4>1, <4>2
      <3>4. {h[q.a] + 1 : q \in Above(pairs, i)} = {g[q.a] + 1 : q \in Above(pairs, i)}
        BY <3>3
      <3>5. Longer(pairs, h)[i] = Longer(pairs, g)[i]
        BY <3>4 DEF Longer
      <3> QED
        BY <3>2, <3>5
    <2> QED
      BY <2>1
  <1>9. Nat \subseteq Good
    <2> HIDE DEF Good
    <2> QED
      BY <1>7, <1>8, NumbersInduct
  <1>10. p.a \in ranked /\ p.b \in ranked
    BY <1>2
  <1>11. Cardinality(Up(p.a)) < N
    <2>1. p.a \notin Up(p.a)
      BY DEF Up
    <2>2. Cardinality(Up(p.a)) <= N /\ (Cardinality(Up(p.a)) = N => Up(p.a) = ranked)
      BY <1>1, <1>3, <1>10, FS_Subset
    <2>3. Cardinality(Up(p.a)) # N
      BY <1>10, <2>1, <2>2
    <2> QED
      BY <1>1, <1>3, <1>10, <2>2, <2>3
  <1>12. N # 0 /\ N - 1 \in Nat /\ N - 1 < N /\ (N - 1) + 1 = N /\ N \in 1..N /\ N - 1 \in 0..N
         /\ N \in 0..N /\ Cardinality(Up(p.a)) <= N - 1
    BY <1>1, <1>3, <1>10, <1>11
  <1>13. f[N][p.a] = f[N - 1][p.a]
    <2>1. N - 1 \in Good
      BY <1>9, <1>12
    <2>2. f[(N - 1) + 1][p.a] = f[N - 1][p.a]
      BY <1>10, <1>12, <2>1
    <2> QED
      BY <1>12, <2>2
  <1>14. PICK g : g = f[N - 1] /\ g \in [ranked -> Nat] /\ f[N] = Longer(pairs, g)
    BY <1>6, <1>12
  <1>15. p \in Above(pairs, p.b)
    BY <1>2, <1>10 DEF Above
  <1>16. g[p.a] + 1 <= Longer(pairs, g)[p.b] /\ Longer(pairs, g) \in [ranked -> Nat]
    BY <1>10, <1>14, <1>15, LongerIs
  <1>17. f[N][p.a] < f[N][p.b]
    BY <1>10, <1>13, <1>14, <1>16
  <1> QED
    BY <1>5, <1>6, <1>12, <1>17

(* PreferredIsWorthMore holds of every request, whatever the state.          *)
LEMMA PreferenceHolds ==
  ASSUME ask \in Requests
  PROVE  Request!PreferredIsWorthMore
  <1> PICK pairs : pairs = Request!Named(ask.preferences, Request!Rankable)
    OBVIOUS
  <1>1. pairs \subseteq Comparisons /\ IsFiniteSet(pairs)
    <2>1. ask.preferences \subseteq Comparisons /\ IsFiniteSet(ask.preferences)
      BY RequestConstants DEF Comparisons
    <2>2. pairs \in SUBSET ask.preferences
      BY DEF Request!Named
    <2> QED
      BY <2>1, <2>2, FS_Subset
  <1> PICK layers : layers = Request!Layers(pairs)
    OBVIOUS
  <1>2. ASSUME NEW p \in pairs, <<p.b, p.a>> \notin Request!Reaches(pairs)
        PROVE  /\ Request!PreferenceValue(layers, p.a) > Request!PreferenceValue(layers, p.b)
               /\ Request!OrderKey(layers, p.a) < Request!OrderKey(layers, p.b)
    <2>1. layers \in [Request!Ranked(pairs) -> Nat] /\ layers[p.a] < layers[p.b]
      BY <1>1, <1>2, PreferredIsEarlier
    <2>2. p.a \in DOMAIN layers /\ p.b \in DOMAIN layers
      BY <2>1 DEF Request!Ranked
    <2>3. PICK scale : scale = Request!Later(Request!LayerCount(layers), 2) - 1
      OBVIOUS
    <2>4. scale \in Int
      <3>1. PICK depths : depths = {layers[i] + 1 : i \in DOMAIN layers}
        OBVIOUS
      <3>2. IsFiniteSet(DOMAIN layers)
        BY <1>1, <2>1, RankedIsFinite
      <3>3. IsFiniteSet(depths) /\ depths \subseteq Nat
        <4> PICK ids : ids = DOMAIN layers
          OBVIOUS
        <4> DEFINE f == [i \in ids |-> layers[i] + 1]
        <4>1. DOMAIN f = ids /\ depths = {f[i] : i \in ids}
          BY <3>1
        <4>2. \A i \in ids : f[i] \in Nat
          BY <2>1
        <4> HIDE DEF f
        <4>3. IsFiniteSet({f[i] : i \in ids})
          BY <3>2, <4>1, ImageIsFinite
        <4> QED
          BY <4>1, <4>2, <4>3
      <3>4. Request!LayerCount(layers) \in Nat
        BY <3>1, <3>3, LatestIs DEF Request!LayerCount
      <3> QED
        BY <2>3, <3>4 DEF Request!Later
    <2>5. /\ Request!PreferenceValue(layers, p.a) = 10 * scale - 9 * layers[p.a]
          /\ Request!PreferenceValue(layers, p.b) = 10 * scale - 9 * layers[p.b]
      BY <2>2, <2>3 DEF Request!PreferenceValue
    <2>6. /\ Request!OrderKey(layers, p.a) = layers[p.a]
          /\ Request!OrderKey(layers, p.b) = layers[p.b]
      BY <2>2 DEF Request!OrderKey
    <2>7. layers[p.a] \in Nat /\ layers[p.b] \in Nat
      BY <2>1, <2>2
    <2> QED
      BY <2>1, <2>4, <2>5, <2>6, <2>7
  <1> QED
    BY <1>2 DEF Request!PreferredIsWorthMore, Request!LayersHere

-----------------------------------------------------------------------------
(* The stages by what bodies stand for: what was read, one body to a         *)
(* segment, one to a group of commitments, Dynamic ones behind what is        *)
(* hidden.                                                                   *)
Excluded == {"seat", "propagate", "order", "kernel"}
Clustered == {"exclude"} \cup Excluded
Compiled == {"cluster"} \cup Clustered

BodyRecords == [window : Spans, anchored : BOOLEAN, after : SUBSET Nat, length : Nat]
Own(t) == ask.tasks[t].static
Committed(t) == Own(t) # Request!NoSpan
Waits(t) == ask.tasks[t].after \cap Request!Eligible
Parts(k) == IF k \in DOMAIN segments
            THEN {segments[k][i] : i \in DOMAIN segments[k]} ELSE {k}
LengthsOf(rows, unit) == [i \in DOMAIN unit |-> rows[unit[i]].length]

(* What a repair keeps is over when the horizon starts.                      *)
FrozenIsOver ==
  /\ horizon \in Spans
  /\ \A f \in DOMAIN ask.frozen : ask.frozen[f].end <= horizon.start

(* The bodies are of Tasks that go on; the anchored ones are the Static ones. *)
BodiesHold ==
  /\ DOMAIN bodies \subseteq Request!Eligible
  /\ \A t \in DOMAIN bodies :
       /\ bodies[t] \in BodyRecords
       /\ bodies[t].anchored <=> Committed(t)
       /\ ~Committed(t) => horizon.start <= bodies[t].window.start

(* A body before it stands for others is what the store has of its Task.     *)
StaticsHold ==
  \A t \in DOMAIN bodies :
    Committed(t) => /\ bodies[t].window = Own(t)
                    /\ bodies[t].length = Own(t).end - Own(t).start
AsRead ==
  \A t \in DOMAIN bodies :
    ~Committed(t) => /\ bodies[t].after = ask.tasks[t].after
                     /\ bodies[t].length = ask.tasks[t].length

(* Where the Static Tasks are that the kernel does not see.                  *)
DirectHolds ==
  \A t \in DOMAIN direct :
    /\ direct[t] \in BodyRecords /\ direct[t].window = Own(t)
    /\ t \in Request!Eligible \ DOMAIN bodies /\ Committed(t) /\ ~ask.tasks[t].capacity
AbsentHolds ==
  /\ \A d \in DOMAIN absent : d \in Request!Eligible /\ Committed(d) /\ absent[d] = Own(d)
  /\ \A d \in Request!Eligible : Committed(d) => d \in DOMAIN bodies \cup DOMAIN absent

(* A segment's carrier is its first Task and has the whole length; no Task   *)
(* is in two segments, and no other member has a body.                       *)
SegmentsHold ==
  /\ \A c \in DOMAIN segments :
       /\ segments[c] \in Seq(Nat) /\ 1 \in DOMAIN segments[c] /\ segments[c][1] = c
       /\ \A i \in DOMAIN segments[c] :
            /\ segments[c][i] \in Request!Eligible /\ ~Committed(segments[c][i])
            /\ ~ask.tasks[segments[c][i]].occurrence
            /\ i # 1 => segments[c][i] \notin DOMAIN bodies
       /\ c \in DOMAIN bodies => bodies[c].length = Request!Total(LengthsOf(ask.tasks, segments[c]))
  /\ \A c, e \in DOMAIN segments : \A i \in DOMAIN segments[c], j \in DOMAIN segments[e] :
       segments[c][i] = segments[e][j] => c = e /\ i = j

(* A Dynamic body waits for every body that stands for a prerequisite of one *)
(* of its Tasks, and starts after the commitments that no body stands for.   *)
EdgesHold ==
  \A k \in DOMAIN bodies : ~Committed(k) =>
    \A t \in Parts(k) : \A d \in Waits(t) : \A e \in DOMAIN bodies \ {k} :
      d \in Parts(e) => e \in bodies[k].after
FixedEdgesHold ==
  \A k \in DOMAIN bodies : ~Committed(k) =>
    \A t \in Parts(k) : \A d \in Waits(t) : Committed(d) => d \in bodies[k].after
HiddenIsOver ==
  \A k \in DOMAIN bodies : ~Committed(k) =>
    \A t \in Parts(k) : \A d \in Waits(t) \ DOMAIN bodies :
      Committed(d) => Own(d).end <= bodies[k].window.start

(* A body that stands for a group reaches from its first start to its last   *)
(* end, and every Static Task without a body has its own window on record.   *)
GroupsHold ==
  /\ \A t \in DOMAIN bodies : Committed(t) =>
       /\ bodies[t].window.start <= Own(t).start /\ Own(t).end <= bodies[t].window.end
       /\ bodies[t].window.end = bodies[t].window.start + bodies[t].length
       /\ IF t \in DOMAIN carried THEN carried[t] = Own(t) ELSE bodies[t].window = Own(t)
  /\ \A t \in DOMAIN carried : Committed(t)
  /\ \A t \in DOMAIN covered :
       /\ t \in Request!Eligible \ DOMAIN bodies /\ Committed(t) /\ covered[t] = Own(t)
       /\ \E k \in DOMAIN bodies :
            /\ Committed(k) /\ bodies[k].window.start <= Own(t).start
            /\ Own(t).end <= bodies[k].window.end

(* The seats taken so far are places that fit together, and no occurrence    *)
(* that has one waits for a pending one.                                     *)
SeatsFit ==
  \A t \in DOMAIN seats.taken \cap DOMAIN bodies :
    LET seat == seats.taken[t]
    IN /\ bodies[t].window.start <= seat.start /\ seat.end <= bodies[t].window.end
       /\ seat.end - seat.start = bodies[t].length
       /\ \A w \in Request!Fixed \cup {seats.taken[u] : u \in DOMAIN seats.taken \ {t}} :
            ~Request!Overlaps(seat, w)
       /\ \A d \in bodies[t].after \cap DOMAIN seats.taken :
            seats.taken[d].end <= seat.start
Seating ==
  /\ DOMAIN seats = {"pending", "taken", "failed"}
  /\ seats.pending \subseteq Request!Dynamic /\ seats.failed \subseteq Request!Dynamic
  /\ DOMAIN seats.taken \subseteq Request!Dynamic \ seats.pending
  /\ \A t \in DOMAIN seats.taken : /\ seats.taken[t] \in Spans
                                   /\ bodies[t].after \cap seats.pending = {}

RequestInv ==
  part = "request" =>
    /\ ask \in Requests
    /\ stage \notin {"horizon", "refused"} => FrozenIsOver
    /\ stage \in {"settle", "compile"} \cup Compiled =>
         /\ BodiesHold /\ DirectHolds
         /\ Request!Commitments \subseteq
              DOMAIN bodies \cup DOMAIN direct \cup
                (IF stage \in Clustered THEN DOMAIN covered ELSE {})
    /\ stage \in {"settle", "compile"} => AsRead
    /\ stage \in {"settle", "compile", "cluster"} => StaticsHold
    /\ stage \in {"settle", "compile", "cluster", "exclude"} => AbsentHolds
    /\ stage \in Compiled => SegmentsHold /\ EdgesHold
    /\ stage \in {"cluster", "exclude"} => FixedEdgesHold
    /\ stage \in Clustered => GroupsHold
    /\ stage \in Excluded => HiddenIsOver
    /\ stage \in {"seat", "propagate"} => SeatsFit
    /\ stage = "seat" => Seating
    /\ stage = "published" => /\ WindowsAreKept /\ WorkFollowsPrerequisites
                              /\ RepairKeepsFrozen

-----------------------------------------------------------------------------
LEMMA TotalIs ==
  ASSUME NEW lengths \in Seq(Nat)
  PROVE  Request!Total(lengths) \in Nat
  <1>1. Len(lengths) \in Nat /\ Len(lengths) \in 0..Len(lengths)
    OBVIOUS
  <1>2. Request!Offsets(lengths) \in [0..Len(lengths) -> Nat]
    BY OffsetsAre
  <1> QED
    BY <1>1, <1>2 DEF Request!Total

(* What a request holds.                                                     *)
LEMMA RowsAre ==
  ASSUME NEW r \in Requests
  PROVE  /\ IsFiniteSet(DOMAIN r.tasks) /\ DOMAIN r.tasks = 1..Len(r.tasks)
         /\ Len(r.tasks) \in Nat /\ DOMAIN r.tasks \subseteq Nat
         /\ \A t \in DOMAIN r.tasks :
              /\ r.tasks[t].static \in Spans /\ r.tasks[t].range \in Spans
              /\ r.tasks[t].capacity \in BOOLEAN /\ r.tasks[t].occurrence \in BOOLEAN
              /\ r.tasks[t].floor \in Nat /\ r.tasks[t].ceiling \in Nat
              /\ r.tasks[t].length \in Nat /\ r.tasks[t].after \in SUBSET Nat
              /\ r.tasks[t].observed \in Nat
              /\ r.tasks[t].static # Request!NoSpan =>
                   r.tasks[t].static.start < r.tasks[t].static.end
  <1>1. r.tasks \in Seq(TaskRows)
    BY RequestConstants
  <1>2. DOMAIN r.tasks = 1..Len(r.tasks) /\ Len(r.tasks) \in Nat
    BY <1>1
  <1>3. IsFiniteSet(1..Len(r.tasks))
    BY <1>2, FS_Interval
  <1>4. ASSUME NEW t \in DOMAIN r.tasks
        PROVE  /\ r.tasks[t] \in TaskRows
    BY <1>1
  <1>5. \A row \in TaskRows :
          /\ row.static \in Spans /\ row.range \in Spans
          /\ row.capacity \in BOOLEAN /\ row.occurrence \in BOOLEAN
          /\ row.floor \in Nat /\ row.ceiling \in Nat
          /\ row.length \in Nat /\ row.after \in SUBSET Nat /\ row.observed \in Nat
          /\ row.static # Request!NoSpan => row.static.start < row.static.end
    BY DEF TaskRows, Request!NoSpan, Request!Span
  <1> QED
    BY <1>2, <1>3, <1>4, <1>5

LEMMA WholeMinutes ==
  ASSUME NEW t \in Nat
  PROVE  Request!NextWholeMinute(t) \in Nat
  <1>1. Minute \in Nat /\ Minute > 0 /\ t + Minute - 1 \in Nat
    BY RequestConstants
  <1>2. \A x, y \in Nat : y > 0 => x \div y \in Nat
    OBVIOUS
  <1>3. (t + Minute - 1) \div Minute \in Nat
    BY <1>1, <1>2
  <1>4. \A x, y \in Nat : x * y \in Nat
    OBVIOUS
  <1> QED
    BY <1>1, <1>3, <1>4 DEF Request!NextWholeMinute

LEMMA RepairedIs ==
  ASSUME ask \in Requests
  PROVE  /\ Request!Repaired(Request!Given) \in Spans
         /\ \A f \in DOMAIN ask.frozen :
              ask.frozen[f].end <= Request!Repaired(Request!Given).start
  <1>1. /\ ask.now \in Nat /\ ask.asked \in Spans /\ ask.stored \in Spans
        /\ ask.repair \in BOOLEAN /\ ask.frozen \in [DOMAIN ask.frozen -> Spans]
        /\ IsFiniteSet(DOMAIN ask.frozen)
        /\ DOMAIN ask.frozen # {} => ask.repair
        /\ HorizonLength \in Nat /\ LeastRepair \in Nat
    BY RequestConstants
  <1>2. Request!Given \in Spans
    BY <1>1, WholeMinutes DEF Request!Given, Request!Anchor, Request!Span, Spans
  <1> PICK given : given = Request!Given /\ given \in Spans
    BY <1>2
  <1> PICK kept, frozen : kept = DOMAIN ask.frozen /\ frozen = ask.frozen
    OBVIOUS
  <1> DEFINE ends == [t \in kept |-> frozen[t].end]
  <1> PICK times : times = {ends[t] : t \in kept}
    OBVIOUS
  <1>3. times = {ask.frozen[t].end : t \in DOMAIN ask.frozen}
    OBVIOUS
  <1>4. times \subseteq Nat
    BY <1>1, <1>3 DEF Spans
  <1>5. IsFiniteSet(times)
    <2>1. DOMAIN ends = kept
      OBVIOUS
    <2> HIDE DEF ends
    <2> QED
      BY <1>1, <2>1, ImageIsFinite
  <1> PICK floor : floor = Request!Later(given.start, ask.now)
    OBVIOUS
  <1>6. floor \in Nat
    BY <1>1 DEF Request!Later, Spans
  <1> PICK start : start = Request!Latest(times, floor)
    OBVIOUS
  <1>7. start \in Nat /\ \A x \in times : x <= start
    BY <1>4, <1>5, <1>6, LatestIs
  <1> PICK lengths : lengths = [t \in DOMAIN Request!Rows |->
                                  IF t \in Request!Eligible THEN Request!Rows[t].length ELSE 0]
    OBVIOUS
  <1> PICK work : work = Request!Total(lengths)
    OBVIOUS
  <1>8. work \in Nat
    <2>1. \A t \in DOMAIN Request!Rows : Request!Rows[t].length \in Nat
      BY RowsAre DEF Request!Rows
    <2>2. lengths \in Seq(Nat)
      <3>1. DOMAIN Request!Rows = 1..Len(ask.tasks) /\ Len(ask.tasks) \in Nat
        BY RowsAre DEF Request!Rows
      <3>2. lengths \in [1..Len(ask.tasks) -> Nat]
        BY <2>1, <3>1
      <3> QED
        BY <3>1, <3>2, SeqDef
    <2> QED
      BY <2>2, TotalIs
  <1>9. Request!Repaired(given) =
          IF ~ask.repair THEN given
          ELSE Request!Span(start, IF given.end <= start
                                   THEN start + Request!Later(work, LeastRepair)
                                   ELSE given.end)
    BY <1>3 DEF Request!Repaired
  <1>10. CASE ~ask.repair
    BY <1>1, <1>9, <1>10
  <1>11. CASE ask.repair
    <2>1. Request!Repaired(given).start = start /\ Request!Repaired(given) \in Spans
      BY <1>1, <1>7, <1>8, <1>9, <1>11 DEF Request!Span, Request!Later, Spans
    <2> QED
      BY <1>3, <1>7, <2>1
  <1> QED
    BY <1>10, <1>11

LEMMA ResolveKeeps ==
  ASSUME ask \in Requests, Request!Resolve
  PROVE  FrozenIsOver'
  BY RepairedIs DEF Request!Resolve, FrozenIsOver

(* What the store has of the Tasks, as bodies.                               *)
LEMMA CollectKeeps ==
  ASSUME ask \in Requests, FrozenIsOver, Request!Collect
  PROVE  /\ FrozenIsOver' /\ BodiesHold' /\ DirectHolds' /\ AsRead' /\ StaticsHold'
         /\ AbsentHolds' /\ (Request!Commitments \subseteq DOMAIN bodies \cup DOMAIN direct)'
  <1> DEFINE fixed == {t \in Request!Commitments : ask.tasks[t].capacity}
             free == {t \in Request!Eligible :
                        /\ ask.tasks[t].static = Request!NoSpan
                        /\ ask.tasks[t].capacity \/ ask.tasks[t].occurrence
                        /\ Request!Due(t)}
  <1>1. /\ ask' = ask /\ horizon' = horizon
        /\ bodies' = [t \in fixed \cup free |->
                        IF t \in fixed THEN Request!StaticBody(t) ELSE Request!DynamicBody(t)]
        /\ direct' = [t \in Request!Commitments \ fixed |-> Request!StaticBody(t)]
        /\ absent' = [t \in {u \in Request!Eligible : ask.tasks[u].static # Request!NoSpan}
                              \ fixed |-> ask.tasks[t].static]
    BY DEF Request!Collect, Request!Rows
  <1>2. /\ Request!Eligible \subseteq DOMAIN ask.tasks
        /\ Request!Commitments = {t \in Request!Eligible :
                                    Committed(t) /\ Request!Overlaps(Own(t), horizon)}
    BY DEF Request!Eligible, Request!Commitments, Request!Rows, Committed, Own
  <1>3. /\ Request!Eligible' = Request!Eligible /\ Request!Commitments' = Request!Commitments
        /\ \A t : Own(t)' = Own(t) /\ Committed(t)' = Committed(t)
    BY <1>1 DEF Request!Eligible, Request!Commitments, Request!Rows, Committed, Own
  <1>4. /\ fixed \subseteq Request!Eligible /\ free \subseteq Request!Eligible
        /\ \A t \in fixed : Committed(t)
        /\ \A t \in free : ~Committed(t)
        /\ \A t \in Request!Commitments \ fixed : t \notin free /\ ~ask.tasks[t].capacity
    BY <1>2 DEF Committed, Own
  <1>5. ASSUME NEW t \in Request!Eligible, Committed(t)
        PROVE  /\ Request!StaticBody(t) \in BodyRecords
               /\ Request!StaticBody(t).window = Own(t)
               /\ Request!StaticBody(t).anchored = TRUE
               /\ Request!StaticBody(t).length = Own(t).end - Own(t).start
    <2>1. /\ Own(t) \in Spans /\ Own(t).start < Own(t).end /\ ask.tasks[t].after \in SUBSET Nat
      BY <1>2, <1>5, RowsAre DEF Own, Committed
    <2>2. Own(t).end - Own(t).start \in Nat
      BY <2>1 DEF Spans
    <2> QED
      BY <2>1, <2>2 DEF Request!StaticBody, Request!Rows, BodyRecords, Own
  <1>6. ASSUME NEW t \in Request!Eligible
        PROVE  /\ Request!DynamicBody(t) \in BodyRecords
               /\ Request!DynamicBody(t).anchored = FALSE
               /\ Request!DynamicBody(t).after = ask.tasks[t].after
               /\ Request!DynamicBody(t).length = ask.tasks[t].length
               /\ horizon.start <= Request!DynamicBody(t).window.start
    <2>1. /\ ask.tasks[t].range \in Spans /\ ask.tasks[t].after \in SUBSET Nat
          /\ ask.tasks[t].length \in Nat /\ ask.tasks[t].floor \in Nat
          /\ ask.tasks[t].ceiling \in Nat
      BY <1>2, RowsAre
    <2>2. horizon \in Spans
      BY DEF FrozenIsOver
    <2>3. /\ Request!AllowedWindow(t) \in Spans
          /\ horizon.start <= Request!AllowedWindow(t).start
      BY <2>1, <2>2 DEF Request!AllowedWindow, Request!Rows, Request!Span, Request!Later,
                        Request!Sooner, Spans
    <2> QED
      BY <2>1, <2>3 DEF Request!DynamicBody, Request!Rows, BodyRecords
  <1> HIDE DEF fixed, free
  <1>7. /\ DOMAIN bodies' = fixed \cup free
        /\ \A t \in fixed : bodies'[t] = Request!StaticBody(t)
        /\ \A t \in free : bodies'[t] = Request!DynamicBody(t)
    <2>1. \A t \in free : t \notin fixed
      BY <1>4
    <2> QED
      BY <1>1, <2>1
  <1>8. BodiesHold'
    <2>1. \A t \in fixed \cup free : /\ bodies'[t] \in BodyRecords
                                     /\ bodies'[t].anchored <=> Committed(t)
                                     /\ ~Committed(t) => horizon.start <= bodies'[t].window.start
      BY <1>4, <1>5, <1>6, <1>7
    <2> QED
      BY <1>1, <1>3, <1>4, <1>7, <2>1 DEF BodiesHold
  <1>9. StaticsHold' /\ AsRead'
    <2>1. /\ \A t \in fixed : bodies'[t].window = Own(t) /\ bodies'[t].length = Own(t).end - Own(t).start
          /\ \A t \in free : /\ bodies'[t].after = ask.tasks[t].after
                             /\ bodies'[t].length = ask.tasks[t].length
      BY <1>4, <1>5, <1>6, <1>7
    <2> QED
      BY <1>1, <1>3, <1>4, <1>7, <2>1 DEF StaticsHold, AsRead
  <1>10. DirectHolds'
    <2>1. \A t \in DOMAIN direct' : /\ t \in Request!Commitments \ fixed
                                    /\ direct'[t] = Request!StaticBody(t)
      BY <1>1
    <2>2. \A t \in Request!Commitments \ fixed : t \in Request!Eligible /\ Committed(t)
      BY <1>2
    <2> QED
      BY <1>1, <1>3, <1>4, <1>5, <1>7, <2>1, <2>2 DEF DirectHolds
  <1>11. AbsentHolds'
    <2>1. /\ DOMAIN absent' = {u \in Request!Eligible : Committed(u)} \ fixed
          /\ \A t \in DOMAIN absent' : absent'[t] = Own(t)
      BY <1>1 DEF Committed, Own
    <2> QED
      BY <1>3, <1>4, <1>7, <2>1 DEF AbsentHolds
  <1>12. Request!Commitments' \subseteq DOMAIN bodies' \cup DOMAIN direct'
    BY <1>1, <1>3, <1>7
  <1> QED
    BY <1>1, <1>8, <1>9, <1>10, <1>11, <1>12 DEF FrozenIsOver

(* What another set of prerequisites leaves of a body.                       *)
LEMMA OtherEdges ==
  ASSUME NEW b \in BodyRecords, NEW S \in SUBSET Nat
  PROVE  /\ [b EXCEPT !.after = S] \in BodyRecords
         /\ [b EXCEPT !.after = S].window = b.window
         /\ [b EXCEPT !.after = S].anchored = b.anchored
         /\ [b EXCEPT !.after = S].length = b.length
         /\ [b EXCEPT !.after = S].after = S
  BY DEF BodyRecords

LEMMA SettleKeeps ==
  ASSUME ask \in Requests, FrozenIsOver, BodiesHold, DirectHolds, AsRead, StaticsHold,
         AbsentHolds, Request!Commitments \subseteq DOMAIN bodies \cup DOMAIN direct,
         Request!SettleConflicts
  PROVE  /\ FrozenIsOver' /\ BodiesHold' /\ DirectHolds' /\ AsRead' /\ StaticsHold'
         /\ AbsentHolds' /\ (Request!Commitments \subseteq DOMAIN bodies \cup DOMAIN direct)'
  <1>1. /\ ask' = ask /\ horizon' = horizon /\ absent' = absent
        /\ bodies' = Request!WithoutDropped(bodies) /\ direct' = Request!WithoutDropped(direct)
    BY DEF Request!SettleConflicts
  <1>2. /\ Request!Eligible' = Request!Eligible /\ Request!Commitments' = Request!Commitments
        /\ \A t : Own(t)' = Own(t) /\ Committed(t)' = Committed(t)
    BY <1>1 DEF Request!Eligible, Request!Commitments, Request!Rows, Committed, Own
  <1>3. ASSUME NEW f, NEW t \in DOMAIN f, f[t] \in BodyRecords
        PROVE  LET g == Request!WithoutDropped(f)
               IN /\ g[t] \in BodyRecords /\ g[t].window = f[t].window
                  /\ g[t].anchored = f[t].anchored /\ g[t].length = f[t].length
                  /\ ~Committed(t) => g[t].after = f[t].after
    <2>1. f[t].after \ Request!Dropped(t) \in SUBSET Nat
      BY <1>3 DEF BodyRecords
    <2>2. CASE t \in Request!Commitments
      <3>1. Request!WithoutDropped(f)[t] = [f[t] EXCEPT !.after = f[t].after \ Request!Dropped(t)]
        BY <1>3, <2>2 DEF Request!WithoutDropped, BodyRecords
      <3>2. Committed(t)
        BY <2>2 DEF Request!Commitments, Request!Rows, Committed, Own
      <3>3. PICK b, S : b = f[t] /\ S = f[t].after \ Request!Dropped(t)
        OBVIOUS
      <3>4. b \in BodyRecords /\ S \in SUBSET Nat
        BY <1>3, <2>1, <3>3
      <3>5. PICK c : c = [b EXCEPT !.after = S]
        OBVIOUS
      <3>6. /\ c \in BodyRecords /\ c.window = b.window /\ c.anchored = b.anchored
            /\ c.length = b.length
        BY <3>4, <3>5, OtherEdges
      <3>7. Request!WithoutDropped(f)[t] = c
        BY <3>1, <3>3, <3>5
      <3> QED
        BY <3>2, <3>3, <3>6, <3>7
    <2>3. CASE t \notin Request!Commitments
      BY <1>3, <2>3 DEF Request!WithoutDropped
    <2> QED
      BY <2>2, <2>3
  <1>4. DOMAIN bodies' = DOMAIN bodies /\ DOMAIN direct' = DOMAIN direct
    BY <1>1 DEF Request!WithoutDropped
  <1>5. ASSUME NEW t \in DOMAIN bodies
        PROVE  /\ bodies'[t] \in BodyRecords /\ bodies'[t].window = bodies[t].window
               /\ bodies'[t].anchored = bodies[t].anchored
               /\ bodies'[t].length = bodies[t].length
               /\ ~Committed(t) => bodies'[t].after = bodies[t].after
    BY <1>1, <1>3 DEF BodiesHold
  <1>6. \A t \in DOMAIN direct : /\ direct'[t] \in BodyRecords
                                 /\ direct'[t].window = direct[t].window
    BY <1>1, <1>3 DEF DirectHolds
  <1>7. BodiesHold'
    BY <1>1, <1>2, <1>4, <1>5 DEF BodiesHold
  <1>8. DirectHolds'
    BY <1>1, <1>2, <1>4, <1>6 DEF DirectHolds
  <1>9. AsRead' /\ StaticsHold'
    BY <1>1, <1>2, <1>4, <1>5 DEF AsRead, StaticsHold
  <1>10. AbsentHolds'
    BY <1>1, <1>2, <1>4 DEF AbsentHolds
  <1> QED
    BY <1>1, <1>2, <1>4, <1>7, <1>8, <1>9, <1>10 DEF FrozenIsOver

-----------------------------------------------------------------------------
(* Compile: the segments that are planned as one, and who stands for whom.   *)
Units == {u \in {Request!Unstarted(s) : s \in ask.segments} : Request!Compilable(u)}
Rest(u) == Request!ToSet(u) \ {u[1]}
Tails == UNION {Rest(u) : u \in Units}
Stands(m) == IF m \in Tails THEN (CHOOSE u \in Units : m \in Rest(u))[1] ELSE m
UnitOf(c) == CHOOSE u \in Units : u[1] = c
BodyOf(t) == IF \E u \in Units : u[1] = t THEN Request!Carrier(UnitOf(t)) ELSE bodies[t]

(* What is planned of a segment is its last Tasks.                           *)
LEMMA UnstartedIs ==
  ASSUME ask \in Requests, NEW s \in ask.segments, Len(Request!Unstarted(s)) > 1
  PROVE  LET u == Request!Unstarted(s)
             first == Request!Min(Request!Present(s))
         IN /\ u \in Seq(Nat) /\ first \in DOMAIN s
            /\ \A i \in DOMAIN u : /\ i + (first - 1) \in DOMAIN s /\ u[i] = s[i + (first - 1)]
                                   /\ u[i] \in DOMAIN bodies
  <1>1. s \in Seq(Nat) /\ DOMAIN s = 1..Len(s) /\ Len(s) \in Nat
    BY RequestConstants
  <1>2. /\ Request!Present(s) # {}
        /\ \A i \in DOMAIN s \ Request!Present(s) : ~ (i > Request!Min(Request!Present(s)))
        /\ Request!Unstarted(s) = SubSeq(s, Request!Min(Request!Present(s)), Len(s))
    <2> PICK none, least, last : /\ none = Request!Present(s) /\ least = Request!Min(none)
                                /\ last = SubSeq(s, least, Len(s))
      OBVIOUS
    <2>1. Request!Unstarted(s) = IF none = {} \/ \E i \in DOMAIN s \ none : i > least
                                 THEN <<>> ELSE last
      BY DEF Request!Unstarted
    <2>2. Request!Unstarted(s) # <<>>
      <3>1. Len(<<>>) = 0
        OBVIOUS
      <3> QED
        BY <3>1
    <2> QED
      BY <2>1, <2>2
  <1> PICK u, present, first : /\ u = Request!Unstarted(s) /\ present = Request!Present(s)
                               /\ first = Request!Min(present)
    OBVIOUS
  <1>3. present \subseteq DOMAIN s /\ \A i \in present : s[i] \in DOMAIN bodies
    BY DEF Request!Present
  <1>4. first \in present
    BY <1>1, <1>2, <1>3, MinIs
  <1>5. first \in 1..Len(s) /\ first \in 1..(Len(s) + 1) /\ Len(s) \in (first - 1)..Len(s)
    BY <1>1, <1>3, <1>4
  <1>6. /\ u \in Seq(Nat) /\ Len(u) = Len(s) - first + 1
        /\ \A i \in 1..(Len(s) - first + 1) : u[i] = s[first + i - 1]
    <2>1. u = SubSeq(s, first, Len(s)) /\ first \in Int /\ Len(s) \in Int /\ first <= Len(s)
      BY <1>2, <1>5
    <2>2. \A i \in first..Len(s) : s[i] \in Nat
      BY <1>1, <1>5
    <2>3. /\ u \in Seq(Nat)
          /\ Len(u) = IF first <= Len(s) THEN Len(s) - first + 1 ELSE 0
          /\ \A i \in 1..(Len(s) - first + 1) : u[i] = s[first + i - 1]
      BY <2>1, <2>2, SubSeqProperties
    <2> QED
      BY <2>1, <2>3
  <1>7. ASSUME NEW i \in DOMAIN u
        PROVE  /\ i + (first - 1) \in DOMAIN s /\ u[i] = s[i + (first - 1)]
               /\ u[i] \in DOMAIN bodies
    <2>1. i \in 1..(Len(s) - first + 1) /\ first + i - 1 = i + (first - 1)
      <3>1. DOMAIN u = 1..Len(u)
        BY <1>6
      <3> QED
        BY <1>1, <1>5, <1>6, <3>1
    <2>2. i + (first - 1) \in DOMAIN s /\ i + (first - 1) >= first
      <3>1. /\ i \in Int /\ 1 <= i /\ i <= Len(s) - first + 1
            /\ first \in Int /\ 1 <= first /\ Len(s) \in Int
        BY <1>1, <1>5, <2>1
      <3>2. i + (first - 1) \in 1..Len(s) /\ i + (first - 1) >= first
        BY <3>1
      <3> QED
        BY <1>1, <3>2
    <2>3. i + (first - 1) \in present
      <3>1. CASE i + (first - 1) = first
        BY <1>4, <3>1
      <3>2. CASE i + (first - 1) # first
        <4>1. i + (first - 1) > first
          <5>1. i \in Int /\ first \in Int
            BY <1>1, <1>5, <2>1
          <5> QED
            BY ONLY <2>2, <3>2, <5>1
        <4> QED
          BY <1>2, <2>2, <4>1
      <3> QED
        BY <3>1, <3>2
    <2> QED
      BY <1>3, <1>6, <2>1, <2>2, <2>3
  <1> QED
    BY <1>3, <1>4, <1>6, <1>7

(* The units are sequences of ordinary Dynamic Tasks, none of which is in    *)
(* two.                                                                      *)
LEMMA UnitsAre ==
  ASSUME ask \in Requests, BodiesHold
  PROVE  /\ \A u \in Units :
              /\ u \in Seq(Nat) /\ Len(u) > 1 /\ 1 \in DOMAIN u
              /\ \A i \in DOMAIN u :
                   /\ u[i] \in DOMAIN bodies /\ ~bodies[u[i]].anchored
                   /\ ~Committed(u[i]) /\ ~ask.tasks[u[i]].occurrence
         /\ \A u, v \in Units : \A i \in DOMAIN u, j \in DOMAIN v :
              u[i] = v[j] => u = v /\ i = j
  <1>1. ASSUME NEW u \in Units
        PROVE  \E s \in ask.segments : u = Request!Unstarted(s) /\ Request!Compilable(u)
    BY DEF Units
  <1>2. ASSUME NEW u \in Units
        PROVE  /\ u \in Seq(Nat) /\ Len(u) > 1 /\ 1 \in DOMAIN u
               /\ \A i \in DOMAIN u :
                    /\ u[i] \in DOMAIN bodies /\ ~bodies[u[i]].anchored
                    /\ ~Committed(u[i]) /\ ~ask.tasks[u[i]].occurrence
    <2>1. PICK s \in ask.segments : u = Request!Unstarted(s) /\ Request!Compilable(u)
      BY <1>1
    <2>2. Len(u) > 1 /\ \A i \in DOMAIN u : ~bodies[u[i]].anchored
      BY <2>1 DEF Request!Compilable
    <2>3. PICK first : /\ u \in Seq(Nat)
                       /\ \A i \in DOMAIN u : /\ i + (first - 1) \in DOMAIN s
                                              /\ u[i] = s[i + (first - 1)]
                                              /\ u[i] \in DOMAIN bodies
      BY <2>1, <2>2, UnstartedIs
    <2>4. DOMAIN bodies \subseteq DOMAIN ask.tasks
      BY DEF BodiesHold, Request!Eligible, Request!Rows
    <2>5. \A k \in DOMAIN s : s[k] \in DOMAIN ask.tasks => ~ask.tasks[s[k]].occurrence
      BY RequestConstants
    <2>6. \A i \in DOMAIN u : ~ask.tasks[u[i]].occurrence
      BY <2>3, <2>4, <2>5
    <2>7. \A i \in DOMAIN u : ~Committed(u[i])
      BY <2>2, <2>3 DEF BodiesHold
    <2>8. 1 \in DOMAIN u
      BY <2>2, <2>3
    <2> QED
      BY <2>2, <2>3, <2>6, <2>7, <2>8
  <1>3. ASSUME NEW u \in Units, NEW v \in Units, NEW i \in DOMAIN u, NEW j \in DOMAIN v,
               u[i] = v[j]
        PROVE  u = v /\ i = j
    <2>1. PICK s \in ask.segments, r \in ask.segments :
            u = Request!Unstarted(s) /\ v = Request!Unstarted(r)
      BY <1>1
    <2> PICK m, n : m = Request!Min(Request!Present(s)) /\ n = Request!Min(Request!Present(r))
      OBVIOUS
    <2>2. /\ u \in Seq(Nat) /\ m \in DOMAIN s
          /\ \A x \in DOMAIN u : x + (m - 1) \in DOMAIN s /\ u[x] = s[x + (m - 1)]
      BY <1>2, <2>1, UnstartedIs
    <2>3. /\ v \in Seq(Nat) /\ n \in DOMAIN r
          /\ \A x \in DOMAIN v : x + (n - 1) \in DOMAIN r /\ v[x] = r[x + (n - 1)]
      BY <1>2, <2>1, UnstartedIs
    <2>4. s[i + (m - 1)] = r[j + (n - 1)]
      BY <1>3, <2>2, <2>3
    <2>5. s = r /\ i + (m - 1) = j + (n - 1)
      BY <2>2, <2>3, <2>4, RequestConstants
    <2>6. m = n
      BY <2>5
    <2>7. i \in Int /\ j \in Int
      BY <2>2, <2>3
    <2>8. m \in Int
      <3>1. s \in Seq(Nat)
        BY <2>1, RequestConstants
      <3> QED
        BY ONLY <2>2, <3>1
    <2>9. i = j
      BY ONLY <2>5, <2>6, <2>7, <2>8
    <2> QED
      BY <2>1, <2>5, <2>9
  <1> QED
    BY <1>2, <1>3

(* A carrier starts where its Tasks may, and is as long as they are together. *)
LEMMA CarrierIs ==
  ASSUME ask \in Requests, FrozenIsOver, BodiesHold, AsRead, NEW u \in Units
  PROVE  /\ Request!Carrier(u) \in BodyRecords /\ ~Request!Carrier(u).anchored
         /\ horizon.start <= Request!Carrier(u).window.start
         /\ Request!Carrier(u).length = Request!Total(LengthsOf(ask.tasks, u))
         /\ \A i \in DOMAIN u : \A d \in ask.tasks[u[i]].after :
              d \notin Request!ToSet(u) => d \in Request!Carrier(u).after
  <1>1. /\ u \in Seq(Nat) /\ 1 \in DOMAIN u
        /\ \A i \in DOMAIN u : u[i] \in DOMAIN bodies /\ ~Committed(u[i])
    BY UnitsAre
  <1> DEFINE parts == {bodies[m] : m \in Request!ToSet(u)}
             starts == {b.window.start : b \in parts}
             ends == {b.window.end : b \in parts}
             lengths == [i \in DOMAIN u |-> bodies[u[i]].length]
  <1>2. /\ bodies[u[1]] \in parts
        /\ \A b \in parts : \E i \in DOMAIN u : b = bodies[u[i]]
        /\ \A i \in DOMAIN u : bodies[u[i]] \in parts
    BY <1>1 DEF Request!ToSet
  <1>3. \A b \in parts : b \in BodyRecords /\ horizon.start <= b.window.start
    BY <1>1, <1>2 DEF BodiesHold
  <1>4. IsFiniteSet(parts)
    <2>1. IsFiniteSet(Request!ToSet(u))
      <3> PICK ids : ids = DOMAIN u
        OBVIOUS
      <3>1. IsFiniteSet(ids)
        <4>1. ids = 1..Len(u) /\ Len(u) \in Nat
          BY <1>1
        <4> QED
          BY <4>1, FS_Interval
      <3>2. IsFiniteSet({u[x] : x \in ids})
        BY <3>1, ImageIsFinite
      <3> QED
        BY <3>2 DEF Request!ToSet
    <2> PICK members : members = Request!ToSet(u)
      OBVIOUS
    <2> DEFINE f == [m \in members |-> bodies[m]]
    <2>2. DOMAIN f = members /\ parts = {f[m] : m \in members}
      OBVIOUS
    <2> HIDE DEF f, parts
    <2> QED
      BY <2>1, <2>2, ImageIsFinite
  <1> HIDE DEF parts
  <1>5. /\ Request!Latest(starts, 0) \in Nat
        /\ \A x \in starts : x <= Request!Latest(starts, 0)
    <2>1. starts \subseteq Nat
      BY <1>3 DEF BodyRecords, Spans
    <2>2. IsFiniteSet(starts)
      <3> DEFINE f == [b \in parts |-> b.window.start]
      <3>1. DOMAIN f = parts /\ starts = {f[b] : b \in parts}
        OBVIOUS
      <3> HIDE DEF f, starts
      <3> QED
        BY <1>4, <3>1, ImageIsFinite
    <2> HIDE DEF starts
    <2> QED
      BY <2>1, <2>2, LatestIs
  <1>6. Request!Min(ends) \in Nat
    <2>1. ends \subseteq Nat /\ ends # {}
      BY <1>2, <1>3 DEF BodyRecords, Spans
    <2> HIDE DEF ends
    <2> QED
      BY <2>1, MinIs
  <1>7. horizon.start <= Request!Latest(starts, 0)
    <2>1. bodies[u[1]].window.start \in starts
      BY <1>2
    <2>2. horizon.start <= bodies[u[1]].window.start
      BY <1>2, <1>3
    <2>3. bodies[u[1]].window.start \in Nat /\ horizon.start \in Nat
      BY <1>2, <1>3 DEF FrozenIsOver, BodyRecords, Spans
    <2> HIDE DEF starts
    <2> QED
      BY <1>5, <2>1, <2>2, <2>3
  <1>8. lengths = LengthsOf(ask.tasks, u) /\ Request!Total(lengths) \in Nat
    <2>1. \A i \in DOMAIN u : bodies[u[i]].length = ask.tasks[u[i]].length
      BY <1>1 DEF AsRead
    <2>2. \A i \in DOMAIN u : bodies[u[i]].length \in Nat
      BY <1>2, <1>3 DEF BodyRecords
    <2>3. lengths \in Seq(Nat)
      <3>1. DOMAIN u = 1..Len(u) /\ Len(u) \in Nat
        BY <1>1
      <3>2. lengths \in [1..Len(u) -> Nat]
        BY <2>2, <3>1
      <3> QED
        BY <3>1, <3>2, SeqDef
    <2>4. lengths = LengthsOf(ask.tasks, u)
      BY <2>1 DEF LengthsOf
    <2> HIDE DEF lengths
    <2> QED
      BY <2>3, <2>4, TotalIs
  <1> DEFINE waits == (UNION {b.after : b \in parts}) \ Request!ToSet(u)
  <1>9. Request!Carrier(u) =
          [window |-> Request!Span(Request!Latest(starts, 0), Request!Min(ends)),
           anchored |-> FALSE, after |-> waits, length |-> Request!Total(lengths)]
    BY DEF Request!Carrier, parts
  <1>10. waits \in SUBSET Nat
    BY <1>3 DEF BodyRecords
  <1>11. \A i \in DOMAIN u : \A d \in ask.tasks[u[i]].after :
           d \notin Request!ToSet(u) => d \in waits
    <2> SUFFICES ASSUME NEW i \in DOMAIN u, NEW d \in ask.tasks[u[i]].after,
                        d \notin Request!ToSet(u)
                 PROVE  d \in waits
      OBVIOUS
    <2>1. bodies[u[i]].after = ask.tasks[u[i]].after
      BY <1>1 DEF AsRead
    <2>2. bodies[u[i]] \in parts
      BY <1>2
    <2>3. d \in UNION {b.after : b \in parts}
      BY <2>1, <2>2
    <2> QED
      BY <2>3
  <1> HIDE DEF waits, starts, ends, lengths
  <1> QED
    BY <1>5, <1>6, <1>7, <1>8, <1>9, <1>10, <1>11 DEF BodyRecords, Request!Span, Spans

(* Who stands for whom: the first Task of a unit for the others.             *)
LEMMA StandsIs ==
  ASSUME ask \in Requests, BodiesHold
  PROVE  /\ \A u \in Units : /\ u[1] \in DOMAIN bodies \ Tails /\ ~Committed(u[1])
                             /\ UnitOf(u[1]) = u
                             /\ \A i \in DOMAIN u : i # 1 => u[i] \in Tails
                             /\ \A i \in DOMAIN u : Stands(u[i]) = u[1]
         /\ \A m \in Tails : m \in DOMAIN bodies /\ ~Committed(m) /\ Stands(m) \in Nat
         /\ \A m : m \notin Tails => Stands(m) = m
  <1>1. /\ \A u \in Units : /\ u \in Seq(Nat) /\ 1 \in DOMAIN u
                            /\ \A i \in DOMAIN u : u[i] \in DOMAIN bodies /\ ~Committed(u[i])
        /\ \A u, v \in Units : \A i \in DOMAIN u, j \in DOMAIN v :
             u[i] = v[j] => u = v /\ i = j
    BY UnitsAre
  <1>2. \A m \in Tails : \E u \in Units : m \in Rest(u)
    BY DEF Tails
  <1>3. \A u \in Units : \A m : m \in Rest(u) <=> \E i \in DOMAIN u : i # 1 /\ m = u[i]
    <2>1. ASSUME NEW u \in Units, NEW m
          PROVE  m \in Rest(u) <=> \E i \in DOMAIN u : i # 1 /\ m = u[i]
      <3>1. \A i \in DOMAIN u : u[i] = u[1] <=> i = 1
        BY <1>1
      <3> QED
        BY <3>1 DEF Rest, Request!ToSet
    <2> QED
      BY <2>1
  <1>4. ASSUME NEW u \in Units, NEW m \in Rest(u)
        PROVE  m \in Tails /\ Stands(m) = u[1]
    <2>1. m \in Tails
      BY DEF Tails
    <2>2. \A v \in Units : m \in Rest(v) => v = u
      BY <1>1, <1>3
    <2>3. (CHOOSE v \in Units : m \in Rest(v)) = u
      BY <2>2
    <2> QED
      BY <2>1, <2>3 DEF Stands
  <1>5. \A m : m \notin Tails => Stands(m) = m
    BY DEF Stands
  <1>6. ASSUME NEW u \in Units
        PROVE  /\ u[1] \in DOMAIN bodies \ Tails /\ ~Committed(u[1])
               /\ UnitOf(u[1]) = u
               /\ \A i \in DOMAIN u : i # 1 => u[i] \in Tails
               /\ \A i \in DOMAIN u : Stands(u[i]) = u[1]
    <2>1. u[1] \notin Tails
      <3>1. SUFFICES ASSUME NEW v \in Units, u[1] \in Rest(v) PROVE FALSE
        BY <1>2
      <3> QED
        BY <1>1, <1>3, <3>1
    <2>2. \A i \in DOMAIN u : i # 1 => u[i] \in Rest(u)
      BY <1>3
    <2>3. \A i \in DOMAIN u : i # 1 => u[i] \in Tails /\ Stands(u[i]) = u[1]
      BY <1>4, <2>2
    <2>4. Stands(u[1]) = u[1]
      BY <1>5, <2>1
    <2>5. UnitOf(u[1]) = u
      <3>1. \A v \in Units : v[1] = u[1] => v = u
        BY <1>1
      <3> QED
        BY <3>1 DEF UnitOf
    <2> QED
      BY <1>1, <2>1, <2>3, <2>4, <2>5
  <1>7. ASSUME NEW m \in Tails PROVE m \in DOMAIN bodies /\ ~Committed(m) /\ Stands(m) \in Nat
    <2>1. PICK u \in Units : m \in Rest(u)
      BY <1>2
    <2>2. u[1] \in Nat
      BY <1>1
    <2> QED
      BY <1>1, <1>3, <1>4, <2>1, <2>2
  <1> QED
    BY <1>5, <1>6, <1>7

(* A unit goes on as its carrier, with the edges of all its Tasks.           *)
LEMMA CompileKeeps ==
  ASSUME ask \in Requests, FrozenIsOver, BodiesHold, DirectHolds, AsRead, StaticsHold,
         AbsentHolds, Request!Commitments \subseteq DOMAIN bodies \cup DOMAIN direct,
         Request!Compile
  PROVE  /\ FrozenIsOver' /\ BodiesHold' /\ DirectHolds' /\ StaticsHold' /\ AbsentHolds'
         /\ (Request!Commitments \subseteq DOMAIN bodies \cup DOMAIN direct)'
         /\ SegmentsHold' /\ EdgesHold' /\ FixedEdgesHold'
  <1>1. /\ ask' = ask /\ horizon' = horizon /\ absent' = absent
        /\ segments' = [c \in {u[1] : u \in Units} |-> UnitOf(c)]
        /\ bodies' = [t \in DOMAIN bodies \ Tails |->
                        [BodyOf(t) EXCEPT !.after = {Stands(d) : d \in @} \ {t}]]
        /\ direct' = [t \in DOMAIN direct |->
                        [direct[t] EXCEPT !.after = {Stands(d) : d \in @}]]
    BY DEF Request!Compile, Units, Tails, Rest, Stands, UnitOf, BodyOf
  <1>2. /\ Request!Eligible' = Request!Eligible /\ Request!Commitments' = Request!Commitments
        /\ \A t : /\ Own(t)' = Own(t) /\ Committed(t)' = Committed(t)
                  /\ Waits(t)' = Waits(t)
    BY <1>1 DEF Request!Eligible, Request!Commitments, Request!Rows, Committed, Own, Waits
  <1>3. /\ \A u \in Units :
             /\ u \in Seq(Nat) /\ 1 \in DOMAIN u
             /\ \A i \in DOMAIN u : /\ u[i] \in DOMAIN bodies /\ ~Committed(u[i])
                                    /\ ~ask.tasks[u[i]].occurrence
        /\ \A u, v \in Units : \A i \in DOMAIN u, j \in DOMAIN v :
             u[i] = v[j] => u = v /\ i = j
    BY UnitsAre
  <1>4. /\ \A u \in Units : /\ u[1] \in DOMAIN bodies \ Tails /\ ~Committed(u[1])
                            /\ UnitOf(u[1]) = u
                            /\ \A i \in DOMAIN u : i # 1 => u[i] \in Tails
                            /\ \A i \in DOMAIN u : Stands(u[i]) = u[1]
        /\ \A m \in Tails : m \in DOMAIN bodies /\ ~Committed(m) /\ Stands(m) \in Nat
        /\ \A m : m \notin Tails => Stands(m) = m
    BY StandsIs
  <1>5. /\ DOMAIN segments' = {u[1] : u \in Units}
        /\ \A u \in Units : segments'[u[1]] = u
    BY <1>1, <1>4
  <1>6. /\ \A u \in Units : BodyOf(u[1]) = Request!Carrier(u)
        /\ \A t : t \notin DOMAIN segments' => BodyOf(t) = bodies[t]
    BY <1>4, <1>5 DEF BodyOf
  <1>7. \A d \in Nat : Stands(d) \in Nat
    BY <1>4
  <1>8. ASSUME NEW t \in DOMAIN bodies
        PROVE  /\ BodyOf(t) \in BodyRecords /\ (BodyOf(t).anchored <=> Committed(t))
               /\ ~Committed(t) => horizon.start <= BodyOf(t).window.start
               /\ Committed(t) => BodyOf(t) = bodies[t]
    <2>1. CASE t \in DOMAIN segments'
      <3>1. PICK u \in Units : t = u[1]
        BY <1>5, <2>1
      <3>2. /\ Request!Carrier(u) \in BodyRecords /\ ~Request!Carrier(u).anchored
            /\ horizon.start <= Request!Carrier(u).window.start
        BY CarrierIs
      <3> QED
        BY <1>4, <1>6, <3>1, <3>2
    <2>2. CASE t \notin DOMAIN segments'
      BY <1>6, <2>2 DEF BodiesHold
    <2> QED
      BY <2>1, <2>2
  <1>9. ASSUME NEW t \in DOMAIN bodies \ Tails
        PROVE  /\ bodies'[t] \in BodyRecords /\ bodies'[t].window = BodyOf(t).window
               /\ bodies'[t].anchored = BodyOf(t).anchored
               /\ bodies'[t].length = BodyOf(t).length
               /\ \A d \in BodyOf(t).after : Stands(d) # t => Stands(d) \in bodies'[t].after
    <2> PICK b, S : b = BodyOf(t) /\ S = {Stands(d) : d \in b.after} \ {t}
      OBVIOUS
    <2>1. b \in BodyRecords
      BY <1>8
    <2>2. S \in SUBSET Nat
      BY <1>7, <2>1 DEF BodyRecords
    <2>3. bodies'[t] = [b EXCEPT !.after = S]
      BY <1>1, <2>1 DEF BodyRecords
    <2> PICK c : c = [b EXCEPT !.after = S]
      OBVIOUS
    <2>4. /\ c \in BodyRecords /\ c.window = b.window /\ c.anchored = b.anchored
          /\ c.length = b.length /\ c.after = S
      BY <2>1, <2>2, OtherEdges
    <2>5. \A d \in b.after : Stands(d) # t => Stands(d) \in S
      OBVIOUS
    <2> QED
      BY <2>3, <2>4, <2>5
  <1>10. DOMAIN bodies' = DOMAIN bodies \ Tails /\ DOMAIN direct' = DOMAIN direct
    BY <1>1
  <1>11. BodiesHold'
    BY <1>1, <1>2, <1>8, <1>9, <1>10 DEF BodiesHold
  <1>12. StaticsHold'
    BY <1>1, <1>2, <1>8, <1>9, <1>10 DEF StaticsHold
  <1>13. DirectHolds'
    <2>1. ASSUME NEW t \in DOMAIN direct
          PROVE  direct'[t] \in BodyRecords /\ direct'[t].window = direct[t].window
      <3> PICK b, S : b = direct[t] /\ S = {Stands(d) : d \in b.after}
        OBVIOUS
      <3>1. b \in BodyRecords
        BY DEF DirectHolds
      <3>2. S \in SUBSET Nat
        BY <1>7, <3>1 DEF BodyRecords
      <3>3. direct'[t] = [b EXCEPT !.after = S]
        BY <1>1, <3>1 DEF BodyRecords
      <3> PICK c : c = [b EXCEPT !.after = S]
        OBVIOUS
      <3>4. c \in BodyRecords /\ c.window = b.window
        BY <3>1, <3>2, OtherEdges
      <3> QED
        BY <3>3, <3>4
    <2> QED
      BY <1>1, <1>2, <1>10, <2>1 DEF DirectHolds
  <1>14. AbsentHolds'
    BY <1>1, <1>2, <1>4, <1>10 DEF AbsentHolds
  <1>15. Request!Commitments' \subseteq DOMAIN bodies' \cup DOMAIN direct'
    <2>1. \A t \in Request!Commitments : Committed(t)
      BY DEF Request!Commitments, Request!Rows, Committed, Own
    <2> QED
      BY <1>2, <1>4, <1>10, <2>1
  <1>16. SegmentsHold'
    <2>1. \A c \in DOMAIN segments' : \E u \in Units : c = u[1] /\ segments'[c] = u
      BY <1>5
    <2>2. ASSUME NEW c \in DOMAIN segments'
          PROVE  /\ segments'[c] \in Seq(Nat) /\ 1 \in DOMAIN segments'[c]
                 /\ segments'[c][1] = c
                 /\ \A i \in DOMAIN segments'[c] :
                      /\ segments'[c][i] \in Request!Eligible /\ ~Committed(segments'[c][i])
                      /\ ~ask.tasks[segments'[c][i]].occurrence
                      /\ i # 1 => segments'[c][i] \notin DOMAIN bodies'
                 /\ c \in DOMAIN bodies' =>
                      bodies'[c].length = Request!Total(LengthsOf(ask.tasks, segments'[c]))
      <3>1. PICK u \in Units : c = u[1] /\ segments'[c] = u
        BY <2>1
      <3>2. \A i \in DOMAIN u : u[i] \in Request!Eligible
        BY <1>3 DEF BodiesHold
      <3>3. Request!Carrier(u).length = Request!Total(LengthsOf(ask.tasks, u))
        BY CarrierIs
      <3>4. bodies'[c].length = Request!Total(LengthsOf(ask.tasks, u))
        BY <1>4, <1>6, <1>9, <3>1, <3>3
      <3> QED
        BY <1>3, <1>4, <1>10, <3>1, <3>2, <3>4
    <2>3. \A c, e \in DOMAIN segments' :
            \A i \in DOMAIN segments'[c], j \in DOMAIN segments'[e] :
              segments'[c][i] = segments'[e][j] => c = e /\ i = j
      BY <1>3, <2>1
    <2>4. /\ ask' = ask /\ Request!Eligible' = Request!Eligible
          /\ \A t : Committed(t)' = Committed(t)
      BY <1>1, <1>2
    <2> QED
      BY <2>2, <2>3, <2>4 DEF SegmentsHold
  <1>17. \A k : /\ k \in DOMAIN segments' => \E u \in Units : /\ k = u[1]
                                                /\ Parts(k)' = Request!ToSet(u)
                /\ k \notin DOMAIN segments' => Parts(k)' = {k}
    BY <1>5 DEF Parts, Request!ToSet
  <1>18. ASSUME NEW k \in DOMAIN bodies', ~Committed(k), NEW t \in Parts(k)', NEW d \in Waits(t),
                d \notin Parts(k)'
         PROVE  d \in BodyOf(k).after
    <2>1. CASE k \in DOMAIN segments'
      <3>1. PICK u \in Units : k = u[1] /\ Parts(k)' = Request!ToSet(u)
        BY <1>17, <2>1
      <3>2. PICK i \in DOMAIN u : t = u[i]
        BY <3>1 DEF Request!ToSet
      <3>3. d \in ask.tasks[u[i]].after /\ d \notin Request!ToSet(u)
        BY <1>18, <3>1, <3>2 DEF Waits
      <3>4. d \in Request!Carrier(u).after
        BY <3>3, CarrierIs
      <3> QED
        BY <1>6, <3>1, <3>4
    <2>2. CASE k \notin DOMAIN segments'
      <3>1. t = k /\ BodyOf(k) = bodies[k] /\ k \in DOMAIN bodies
        BY <1>6, <1>10, <1>17, <2>2
      <3> QED
        BY <1>18, <3>1 DEF AsRead, Waits
    <2> QED
      BY <2>1, <2>2
  <1>19. ASSUME NEW e \in DOMAIN bodies', NEW d \in Parts(e)'
         PROVE  Stands(d) = e
    <2>1. CASE e \in DOMAIN segments'
      BY <1>4, <1>17, <2>1 DEF Request!ToSet
    <2>2. CASE e \notin DOMAIN segments'
      BY <1>4, <1>10, <1>17, <2>2
    <2> QED
      BY <2>1, <2>2
  <1>20. EdgesHold'
    <2>1. ASSUME NEW k \in DOMAIN bodies', ~Committed(k), NEW t \in Parts(k)',
                 NEW d \in Waits(t), NEW e \in DOMAIN bodies' \ {k}, d \in Parts(e)'
          PROVE  e \in bodies'[k].after
      <3>1. Stands(d) = e
        BY <1>19, <2>1
      <3>2. d \notin Parts(k)'
        BY <1>19, <2>1, <3>1
      <3>3. d \in BodyOf(k).after
        BY <1>18, <2>1, <3>2
      <3> QED
        BY <1>9, <1>10, <3>1, <3>3
    <2> QED
      BY <1>2, <2>1 DEF EdgesHold
  <1>21. FixedEdgesHold'
    <2>1. ASSUME NEW k \in DOMAIN bodies', ~Committed(k), NEW t \in Parts(k)',
                 NEW d \in Waits(t), Committed(d)
          PROVE  d \in bodies'[k].after
      <3>1. d \notin Tails /\ Stands(d) = d /\ d # k
        BY <1>4, <2>1
      <3>2. d \notin Parts(k)'
        BY <1>3, <1>17, <2>1, <3>1 DEF Request!ToSet
      <3>3. d \in BodyOf(k).after
        BY <1>18, <2>1, <3>2
      <3> QED
        BY <1>9, <1>10, <3>1, <3>3
    <2> QED
      BY <1>2, <2>1 DEF FixedEdgesHold
  <1> QED
    BY <1>1, <1>11, <1>12, <1>13, <1>14, <1>15, <1>16, <1>20, <1>21 DEF FrozenIsOver

-----------------------------------------------------------------------------
(* Cluster: a group has a leader, that starts first.                         *)
LEMMA LeaderIs ==
  ASSUME NEW g \in SUBSET DOMAIN bodies, g # {}, g \subseteq Nat, IsFiniteSet(g),
         \A t \in g : bodies[t].window \in Spans
  PROVE  /\ Request!Leader(g) \in g
         /\ \A t \in g : bodies[Request!Leader(g)].window.start <= bodies[t].window.start
  <1> DEFINE starts == {bodies[t].window.start : t \in g}
  <1>1. PICK first \in starts : \A x \in starts : first <= x
    <2>1. starts \subseteq Nat /\ starts # {}
      BY DEF Spans
    <2> HIDE DEF starts
    <2> QED
      BY <2>1, FirstOf
  <1>2. PICK early : early = {t \in g : bodies[t].window.start = first}
    OBVIOUS
  <1>3. early \in SUBSET g /\ early # {} /\ IsFiniteSet(early)
    <2>1. early \in SUBSET g /\ early # {}
      BY <1>1, <1>2
    <2> QED
      BY <2>1, FS_Subset
  <1> DEFINE f == [t \in early |-> bodies[t].window.end]
             ends == {f[t] : t \in early}
  <1>4. PICK last \in ends : \A x \in ends : x <= last
    <2>1. ends \subseteq Nat /\ ends # {}
      BY <1>3 DEF Spans
    <2>2. IsFiniteSet(ends)
      <3>1. DOMAIN f = early
        OBVIOUS
      <3> HIDE DEF f
      <3> QED
        BY <1>3, <3>1, ImageIsFinite
    <2> HIDE DEF ends
    <2> QED
      BY <2>1, <2>2, LastOf
  <1>5. PICK long : long = {t \in early : bodies[t].window.end = last}
    OBVIOUS
  <1>6. long \subseteq early /\ long \subseteq Nat /\ long # {}
    BY <1>3, <1>4, <1>5
  <1>7. PICK least \in long : \A x \in long : least <= x
    BY <1>6, FirstOf
  <1>8. \A u \in g : /\ first <= bodies[u].window.start
                     /\ bodies[u].window.start \in Nat /\ bodies[u].window.end \in Nat
    BY <1>1 DEF Spans
  <1>9. /\ least \in g /\ bodies[least].window.start = first /\ bodies[least].window.end = last
        /\ first \in Nat /\ last \in Nat
    BY <1>2, <1>3, <1>5, <1>6, <1>7, <1>8
  <1>10. \A u \in early : bodies[u].window.end <= last
    BY <1>4
  <1>11. Request!LeadsGroup(least, g)
    <2>1. ASSUME NEW u \in g \ {least}
          PROVE  \/ bodies[least].window.start < bodies[u].window.start
                 \/ /\ bodies[least].window.start = bodies[u].window.start
                    /\ bodies[least].window.end > bodies[u].window.end
                 \/ bodies[least].window = bodies[u].window /\ least < u
      <3>1. CASE u \notin early
        <4>1. bodies[u].window.start # first
          BY <1>2, <3>1
        <4> QED
          BY <1>8, <1>9, <4>1
      <3>2. CASE u \in early /\ u \notin long
        <4>1. bodies[u].window.start = first /\ bodies[u].window.end # last
          BY <1>2, <1>5, <3>2
        <4> QED
          BY <1>8, <1>9, <1>10, <3>2, <4>1
      <3>3. CASE u \in long
        <4>1. bodies[u].window.start = first /\ bodies[u].window.end = last
          BY <1>2, <1>5, <1>6, <3>3
        <4>2. bodies[u].window = bodies[least].window
          BY <1>9, <4>1 DEF Spans
        <4>3. least < u
          BY <1>6, <1>7, <3>3
        <4> QED
          BY <4>2, <4>3
      <3> QED
        BY <3>1, <3>2, <3>3
    <2> QED
      BY <2>1 DEF Request!LeadsGroup
  <1>12. PICK leader : leader = Request!Leader(g)
    OBVIOUS
  <1>13. leader \in g /\ Request!LeadsGroup(leader, g)
    BY <1>9, <1>11, <1>12 DEF Request!Leader
  <1>14. ASSUME NEW t \in g PROVE bodies[leader].window.start <= bodies[t].window.start
    <2>1. CASE t = leader
      BY <1>8, <1>13, <2>1
    <2>2. CASE t # leader
      <3>1. \/ bodies[leader].window.start < bodies[t].window.start
            \/ bodies[leader].window.start = bodies[t].window.start
            \/ bodies[leader].window = bodies[t].window
        BY <1>13, <2>2 DEF Request!LeadsGroup
      <3> QED
        BY <1>8, <1>13, <3>1
    <2> QED
      BY <2>1, <2>2
  <1> QED
    BY <1>12, <1>13, <1>14

(* The body that stands for a group encloses every one of it.                *)
LEMMA GroupBodyIs ==
  ASSUME NEW g \in SUBSET DOMAIN bodies, g # {}, g \subseteq Nat, IsFiniteSet(g),
         \A t \in g : bodies[t] \in BodyRecords /\ bodies[t].window.start < bodies[t].window.end
  PROVE  LET b == Request!GroupBody(g)
         IN /\ b \in BodyRecords /\ b.anchored = TRUE
            /\ b.window.end = b.window.start + b.length
            /\ \A t \in g : /\ b.window.start <= bodies[t].window.start
                            /\ bodies[t].window.end <= b.window.end
  <1> PICK leader : leader = Request!Leader(g)
    OBVIOUS
  <1>1. \A t \in g : bodies[t].window \in Spans /\ bodies[t].after \in SUBSET Nat
    BY DEF BodyRecords
  <1>2. leader \in g /\ \A t \in g : bodies[leader].window.start <= bodies[t].window.start
    BY <1>1, LeaderIs
  <1> DEFINE f == [t \in g |-> bodies[t].window.end]
  <1> PICK ends : ends = {f[t] : t \in g}
    OBVIOUS
  <1> PICK end : end = Request!Latest(ends, 0)
    OBVIOUS
  <1>3. ends = {bodies[t].window.end : t \in g} /\ DOMAIN f = g
    OBVIOUS
  <1>4. ends \subseteq Nat
    BY <1>1, <1>3 DEF Spans
  <1> HIDE DEF f
  <1>5. end \in Nat /\ \A x \in ends : x <= end
    <2>1. IsFiniteSet(ends)
      BY <1>3, ImageIsFinite
    <2> QED
      BY <1>4, <2>1, LatestIs
  <1> PICK start : start = bodies[leader].window.start
    OBVIOUS
  <1> PICK edges : edges = (UNION {bodies[t].after : t \in g}) \ g
    OBVIOUS
  <1>6. Request!GroupBody(g) = [window |-> Request!Span(start, end), anchored |-> TRUE,
                                length |-> end - start, after |-> edges]
    BY <1>3 DEF Request!GroupBody
  <1>7. \A t \in g : /\ start <= bodies[t].window.start /\ bodies[t].window.end <= end
    BY <1>2, <1>3, <1>5
  <1>8. start \in Nat /\ end - start \in Nat /\ end = start + (end - start)
    <2>1. /\ start \in Nat /\ bodies[leader].window.end \in Nat
          /\ start < bodies[leader].window.end /\ bodies[leader].window.end <= end
      BY <1>1, <1>2, <1>7 DEF Spans
    <2> QED
      BY <1>5, <2>1
  <1>9. edges \in SUBSET Nat
    BY <1>1
  <1> PICK window, length : window = Request!Span(start, end) /\ length = end - start
    OBVIOUS
  <1>10. window \in Spans /\ window.start = start /\ window.end = end
    BY <1>5, <1>8 DEF Request!Span, Spans
  <1> PICK b : b = Request!GroupBody(g)
    OBVIOUS
  <1>11. b = [window |-> window, anchored |-> TRUE, length |-> length, after |-> edges]
    BY <1>6
  <1>12. b \in BodyRecords /\ b.window = window /\ b.anchored = TRUE /\ b.length = length
    BY <1>8, <1>9, <1>10, <1>11 DEF BodyRecords
  <1> QED
    BY <1>7, <1>8, <1>10, <1>12

(* Every group of commitments that share time goes on as one busy span.      *)
LEMMA ClusterKeeps ==
  ASSUME ask \in Requests, FrozenIsOver, BodiesHold, DirectHolds, StaticsHold, AbsentHolds,
         Request!Commitments \subseteq DOMAIN bodies \cup DOMAIN direct,
         SegmentsHold, EdgesHold, FixedEdgesHold, Request!Cluster
  PROVE  /\ FrozenIsOver' /\ BodiesHold' /\ DirectHolds' /\ AbsentHolds'
         /\ (Request!Commitments \subseteq DOMAIN bodies \cup DOMAIN direct \cup DOMAIN covered)'
         /\ SegmentsHold' /\ EdgesHold' /\ FixedEdgesHold' /\ GroupsHold'
  <1> PICK shared : shared = Request!SharedTime
    OBVIOUS
  <1> DEFINE leaders == {Request!Leader(g) : g \in shared}
             GroupOf(t) == CHOOSE g \in shared : t \in g
             hidden == (UNION shared) \ leaders
  <1>1. /\ ask' = ask /\ horizon' = horizon /\ direct' = direct /\ segments' = segments
        /\ bodies' = [t \in DOMAIN bodies \ hidden |->
                        IF t \in leaders THEN Request!GroupBody(GroupOf(t)) ELSE bodies[t]]
        /\ covered' = [t \in hidden |-> bodies[t].window]
        /\ carried' = [t \in leaders |-> bodies[t].window]
        /\ absent' = Request!Merged(absent, [t \in hidden |-> bodies[t].window])
    BY DEF Request!Cluster
  <1>2. /\ Request!Eligible' = Request!Eligible /\ Request!Commitments' = Request!Commitments
        /\ \A t : /\ Own(t)' = Own(t) /\ Committed(t)' = Committed(t)
                  /\ Waits(t)' = Waits(t) /\ Parts(t)' = Parts(t)
    BY <1>1 DEF Request!Eligible, Request!Commitments, Request!Rows, Committed, Own, Waits, Parts
  <1>3. /\ IsFiniteSet(DOMAIN bodies) /\ DOMAIN bodies \subseteq Nat
        /\ DOMAIN bodies \subseteq DOMAIN ask.tasks
    <2>1. DOMAIN bodies \in SUBSET DOMAIN ask.tasks
      BY DEF BodiesHold, Request!Eligible, Request!Rows
    <2>2. IsFiniteSet(DOMAIN ask.tasks) /\ DOMAIN ask.tasks \subseteq Nat
      BY RowsAre
    <2> QED
      BY <2>1, <2>2, FS_Subset
  <1>4. \A t \in DOMAIN bodies :
          /\ bodies[t] \in BodyRecords /\ bodies[t].window \in Spans
          /\ Committed(t) => /\ bodies[t].window = Own(t) /\ Own(t).start < Own(t).end
                             /\ bodies[t].length = Own(t).end - Own(t).start
    <2>1. \A t \in DOMAIN bodies : bodies[t] \in BodyRecords /\ bodies[t].window \in Spans
      BY DEF BodiesHold, BodyRecords
    <2>2. \A t \in DOMAIN bodies : Committed(t) => Own(t).start < Own(t).end
      BY <1>3, RowsAre DEF Committed, Own
    <2> QED
      BY <2>1, <2>2 DEF StaticsHold
  <1>5. ASSUME NEW g \in shared
        PROVE  /\ g \in SUBSET DOMAIN bodies /\ g # {} /\ \A t \in g : Committed(t)
               /\ g \subseteq Nat /\ IsFiniteSet(g)
    <2>1. g \in Request!Groups([t \in Request!Anchored |-> bodies[t].window])
      BY DEF Request!SharedTime
    <2>2. g \subseteq Request!Anchored /\ g # {}
      BY <2>1 DEF Request!Groups
    <2>3. g \in SUBSET DOMAIN bodies /\ \A t \in g : Committed(t)
      BY <2>2 DEF Request!Anchored, BodiesHold
    <2> QED
      BY <1>3, <2>2, <2>3, FS_Subset
  <1>6. \A g, h \in shared : g \cap h # {} => g = h
    <2> SUFFICES ASSUME NEW g \in shared, NEW h \in shared, g \cap h # {} PROVE g = h
      OBVIOUS
    <2> PICK f : f = [t \in Request!Anchored |-> bodies[t].window]
      OBVIOUS
    <2>1. g \in Request!Groups(f) /\ h \in Request!Groups(f)
      BY DEF Request!SharedTime
    <2>2. \A i \in DOMAIN f : f[i] \in Spans
      BY <1>4 DEF Request!Anchored
    <2>3. \A i, j \in DOMAIN f : Request!Overlaps(f[i], f[j]) => Request!Overlaps(f[j], f[i])
      BY <2>2 DEF Request!Overlaps, Spans
    <2> QED
      BY <2>1, <2>3, GroupsAreApart
  <1>7. ASSUME NEW g \in shared
        PROVE  /\ Request!Leader(g) \in g /\ GroupOf(Request!Leader(g)) = g
    <2>1. Request!Leader(g) \in g
      BY <1>4, <1>5, LeaderIs
    <2>2. \A h \in shared : Request!Leader(g) \in h => h = g
      BY <1>6, <2>1
    <2> QED
      BY <2>1, <2>2
  <1>8. ASSUME NEW g \in shared
        PROVE  LET b == Request!GroupBody(g)
               IN /\ b \in BodyRecords /\ b.anchored = TRUE
                  /\ b.window.end = b.window.start + b.length
                  /\ \A t \in g : /\ b.window.start <= bodies[t].window.start
                                  /\ bodies[t].window.end <= b.window.end
    BY <1>4, <1>5, GroupBodyIs
  <1>9. /\ \A t \in leaders : /\ t \in DOMAIN bodies /\ Committed(t) /\ t \notin hidden
                              /\ \E g \in shared : t \in g /\ t = Request!Leader(g)
                                                   /\ GroupOf(t) = g
        /\ \A t \in hidden : /\ t \in DOMAIN bodies /\ Committed(t)
                             /\ \E g \in shared : t \in g
    BY <1>5, <1>7
  <1>10. /\ DOMAIN bodies' = DOMAIN bodies \ hidden
         /\ \A t \in DOMAIN bodies \ hidden :
              bodies'[t] = IF t \in leaders THEN Request!GroupBody(GroupOf(t)) ELSE bodies[t]
         /\ DOMAIN covered' = hidden /\ \A t \in hidden : covered'[t] = bodies[t].window
         /\ DOMAIN carried' = leaders /\ \A t \in leaders : carried'[t] = bodies[t].window
    BY <1>1
  <1> HIDE DEF leaders, hidden, GroupOf
  <1>11. \A t \in DOMAIN bodies' : ~Committed(t) => bodies'[t] = bodies[t]
    BY <1>9, <1>10
  <1>12. ASSUME NEW t \in leaders
         PROVE  \E g \in shared : t \in g /\ bodies'[t] = Request!GroupBody(g)
    BY <1>9, <1>10
  <1>13. BodiesHold'
    <2>1. ASSUME NEW t \in DOMAIN bodies \ hidden
          PROVE  /\ bodies'[t] \in BodyRecords /\ (bodies'[t].anchored <=> Committed(t))
                 /\ ~Committed(t) => horizon.start <= bodies'[t].window.start
      <3>1. CASE t \in leaders
        BY <1>8, <1>9, <1>12, <3>1
      <3>2. CASE t \notin leaders
        BY <1>10, <3>2 DEF BodiesHold
      <3> QED
        BY <3>1, <3>2
    <2>2. DOMAIN bodies' \subseteq Request!Eligible
      BY <1>10 DEF BodiesHold
    <2> QED
      BY <1>1, <1>2, <1>10, <2>1, <2>2 DEF BodiesHold
  <1>14. DirectHolds'
    BY <1>1, <1>2, <1>10 DEF DirectHolds
  <1>15. AbsentHolds'
    <2>1. /\ DOMAIN absent' = DOMAIN absent \cup hidden
          /\ \A d \in DOMAIN absent : absent'[d] = absent[d]
          /\ \A d \in hidden \ DOMAIN absent : absent'[d] = bodies[d].window
      BY <1>1 DEF Request!Merged
    <2>2. \A d \in hidden : d \in Request!Eligible /\ Committed(d) /\ bodies[d].window = Own(d)
      BY <1>4, <1>9 DEF BodiesHold
    <2> QED
      BY <1>2, <1>10, <2>1, <2>2 DEF AbsentHolds
  <1>16. Request!Commitments' \subseteq DOMAIN bodies' \cup DOMAIN direct' \cup DOMAIN covered'
    BY <1>1, <1>2, <1>10
  <1>17. SegmentsHold'
    <2>1. /\ ask' = ask /\ Request!Eligible' = Request!Eligible /\ segments' = segments
          /\ \A t : Committed(t)' = Committed(t)
          /\ DOMAIN bodies' \subseteq DOMAIN bodies
          /\ \A t \in DOMAIN bodies' : ~Committed(t) => bodies'[t] = bodies[t]
      BY <1>1, <1>2, <1>10, <1>11
    <2>2. \A c \in DOMAIN segments : ~Committed(c)
      BY DEF SegmentsHold
    <2> QED
      BY <2>1, <2>2 DEF SegmentsHold
  <1>18. EdgesHold' /\ FixedEdgesHold'
    <2>1. /\ \A t : Committed(t)' = Committed(t) /\ Waits(t)' = Waits(t) /\ Parts(t)' = Parts(t)
          /\ DOMAIN bodies' \subseteq DOMAIN bodies
          /\ \A t \in DOMAIN bodies' : ~Committed(t) => bodies'[t] = bodies[t]
      BY <1>2, <1>10, <1>11
    <2> QED
      BY <2>1 DEF EdgesHold, FixedEdgesHold
  <1>19. GroupsHold'
    <2>1. ASSUME NEW t \in DOMAIN bodies', Committed(t)
          PROVE  /\ bodies'[t].window.start <= Own(t).start
                 /\ Own(t).end <= bodies'[t].window.end
                 /\ bodies'[t].window.end = bodies'[t].window.start + bodies'[t].length
                 /\ IF t \in DOMAIN carried' THEN carried'[t] = Own(t)
                    ELSE bodies'[t].window = Own(t)
      <3>1. /\ t \in DOMAIN bodies /\ bodies[t].window = Own(t) /\ Own(t) \in Spans
            /\ bodies[t].length = Own(t).end - Own(t).start
        BY <1>4, <1>10, <2>1
      <3>2. CASE t \in leaders
        <4>1. PICK g \in shared : t \in g /\ bodies'[t] = Request!GroupBody(g)
          BY <1>12, <3>2
        <4>2. /\ bodies'[t].window.end = bodies'[t].window.start + bodies'[t].length
              /\ bodies'[t].window.start <= bodies[t].window.start
              /\ bodies[t].window.end <= bodies'[t].window.end
          BY <1>8, <4>1
        <4>3. t \in DOMAIN carried' /\ carried'[t] = Own(t)
          BY <1>10, <3>1, <3>2
        <4> QED
          BY <3>1, <4>2, <4>3
      <3>3. CASE t \notin leaders
        <4>1. bodies'[t] = bodies[t]
          BY <1>10, <2>1, <3>3
        <4>2. Own(t).end = Own(t).start + (Own(t).end - Own(t).start)
              /\ Own(t).start <= Own(t).start /\ Own(t).end <= Own(t).end
          BY <3>1 DEF Spans
        <4> QED
          BY <1>10, <3>1, <3>3, <4>1, <4>2
      <3> QED
        BY <3>2, <3>3
    <2>2. \A t \in DOMAIN carried' : Committed(t)
      BY <1>9, <1>10
    <2>3. ASSUME NEW t \in DOMAIN covered'
          PROVE  /\ t \in Request!Eligible \ DOMAIN bodies' /\ Committed(t)
                 /\ covered'[t] = Own(t)
                 /\ \E k \in DOMAIN bodies' :
                      /\ Committed(k) /\ bodies'[k].window.start <= Own(t).start
                      /\ Own(t).end <= bodies'[k].window.end
      <3>1. /\ t \in hidden /\ t \in DOMAIN bodies /\ Committed(t)
            /\ covered'[t] = bodies[t].window /\ bodies[t].window = Own(t)
        BY <1>4, <1>9, <1>10
      <3>2. PICK g \in shared : t \in g
        BY <1>9, <3>1
      <3>3. PICK k : k = Request!Leader(g)
        OBVIOUS
      <3>4. k \in leaders /\ GroupOf(k) = g
        BY <1>7, <3>3 DEF leaders
      <3>5. k \in DOMAIN bodies' /\ Committed(k) /\ bodies'[k] = Request!GroupBody(g)
        BY <1>9, <1>10, <3>4
      <3>6. /\ bodies'[k].window.start <= Own(t).start /\ Own(t).end <= bodies'[k].window.end
        BY <1>8, <3>1, <3>2, <3>5
      <3>7. t \in Request!Eligible \ DOMAIN bodies'
        BY <1>10, <3>1 DEF BodiesHold
      <3> QED
        BY <3>1, <3>5, <3>6, <3>7
    <2>4. /\ Request!Eligible' = Request!Eligible
          /\ \A t : Own(t)' = Own(t) /\ Committed(t)' = Committed(t)
      BY <1>2
    <2> QED
      BY <2>1, <2>2, <2>3, <2>4 DEF GroupsHold
  <1> QED
    BY <1>1, <1>13, <1>14, <1>15, <1>16, <1>17, <1>18, <1>19 DEF FrozenIsOver

-----------------------------------------------------------------------------
(* After Cluster the commitments' bodies stay, and the others only go, or    *)
(* start later, with the edges they had to what stays.                       *)
Shrinks ==
  /\ ask' = ask /\ horizon' = horizon /\ direct' = direct /\ segments' = segments
  /\ covered' = covered /\ carried' = carried
  /\ DOMAIN bodies' \subseteq DOMAIN bodies
  /\ \A t \in DOMAIN bodies : Committed(t) => t \in DOMAIN bodies'
  /\ \A t \in DOMAIN bodies' :
       /\ bodies'[t] \in BodyRecords /\ bodies'[t].anchored = bodies[t].anchored
       /\ bodies[t].window.start <= bodies'[t].window.start
       /\ bodies[t].after \cap DOMAIN bodies' \subseteq bodies'[t].after
       /\ Committed(t) => bodies'[t].window = bodies[t].window
       /\ Committed(t) \/ t \in DOMAIN segments => bodies'[t].length = bodies[t].length

LEMMA ShrinkKeeps ==
  ASSUME ask \in Requests, FrozenIsOver, BodiesHold, DirectHolds, SegmentsHold, EdgesHold,
         GroupsHold,
         Request!Commitments \subseteq DOMAIN bodies \cup DOMAIN direct \cup DOMAIN covered,
         Shrinks
  PROVE  /\ FrozenIsOver' /\ BodiesHold' /\ DirectHolds' /\ SegmentsHold' /\ EdgesHold'
         /\ GroupsHold'
         /\ (Request!Commitments \subseteq DOMAIN bodies \cup DOMAIN direct \cup DOMAIN covered)'
         /\ HiddenIsOver => HiddenIsOver'
  <1>1. /\ ask' = ask /\ horizon' = horizon /\ direct' = direct /\ segments' = segments
        /\ covered' = covered /\ carried' = carried
    BY DEF Shrinks
  <1>2. /\ Request!Eligible' = Request!Eligible /\ Request!Commitments' = Request!Commitments
        /\ \A t : /\ Own(t)' = Own(t) /\ Committed(t)' = Committed(t)
                  /\ Waits(t)' = Waits(t) /\ Parts(t)' = Parts(t)
    BY <1>1 DEF Request!Eligible, Request!Commitments, Request!Rows, Committed, Own, Waits, Parts
  <1>3. /\ DOMAIN bodies' \subseteq DOMAIN bodies
        /\ \A t \in DOMAIN bodies : Committed(t) => t \in DOMAIN bodies'
        /\ \A t \in DOMAIN bodies' :
             /\ bodies'[t] \in BodyRecords /\ bodies'[t].anchored = bodies[t].anchored
             /\ bodies[t].window.start <= bodies'[t].window.start
             /\ bodies[t].after \cap DOMAIN bodies' \subseteq bodies'[t].after
             /\ Committed(t) => bodies'[t].window = bodies[t].window
             /\ Committed(t) \/ t \in DOMAIN segments => bodies'[t].length = bodies[t].length
    BY DEF Shrinks
  <1>4. FrozenIsOver'
    BY <1>1 DEF FrozenIsOver
  <1>5. \A t \in DOMAIN bodies' : ~Committed(t) => horizon.start <= bodies'[t].window.start
    <2>1. ASSUME NEW t \in DOMAIN bodies', ~Committed(t)
          PROVE  horizon.start <= bodies'[t].window.start
      <3>1. /\ horizon.start \in Nat /\ bodies[t].window.start \in Nat
            /\ bodies'[t].window.start \in Nat
        BY <1>3 DEF FrozenIsOver, BodiesHold, BodyRecords, Spans
      <3>2. /\ horizon.start <= bodies[t].window.start
            /\ bodies[t].window.start <= bodies'[t].window.start
        BY <1>3, <2>1 DEF BodiesHold
      <3> QED
        BY <3>1, <3>2
    <2> QED
      BY <2>1
  <1>6. BodiesHold'
    <2>1. \A t \in DOMAIN bodies' : bodies'[t].anchored <=> Committed(t)
      BY <1>3 DEF BodiesHold
    <2>2. DOMAIN bodies' \subseteq Request!Eligible
      BY <1>3 DEF BodiesHold
    <2>3. \A t \in DOMAIN bodies' : bodies'[t] \in BodyRecords
      BY <1>3
    <2> QED
      BY <1>1, <1>2, <1>5, <2>1, <2>2, <2>3 DEF BodiesHold
  <1>7. DirectHolds'
    BY <1>1, <1>2, <1>3 DEF DirectHolds
  <1>8. SegmentsHold'
    <2>1. /\ ask' = ask /\ Request!Eligible' = Request!Eligible /\ segments' = segments
          /\ \A t : Committed(t)' = Committed(t)
          /\ DOMAIN bodies' \subseteq DOMAIN bodies
          /\ \A t \in DOMAIN bodies' : t \in DOMAIN segments => bodies'[t].length = bodies[t].length
      BY <1>1, <1>2, <1>3
    <2> QED
      BY <2>1 DEF SegmentsHold
  <1>9. EdgesHold'
    <2>1. /\ \A t : Committed(t)' = Committed(t) /\ Waits(t)' = Waits(t) /\ Parts(t)' = Parts(t)
          /\ DOMAIN bodies' \subseteq DOMAIN bodies
          /\ \A t \in DOMAIN bodies' : bodies[t].after \cap DOMAIN bodies' \subseteq bodies'[t].after
      BY <1>2, <1>3
    <2> QED
      BY <2>1 DEF EdgesHold
  <1>10. GroupsHold'
    <2>1. /\ Request!Eligible' = Request!Eligible /\ carried' = carried /\ covered' = covered
          /\ \A t : Own(t)' = Own(t) /\ Committed(t)' = Committed(t)
          /\ DOMAIN bodies' \subseteq DOMAIN bodies
          /\ \A t \in DOMAIN bodies :
               Committed(t) => /\ t \in DOMAIN bodies' /\ bodies'[t].window = bodies[t].window
                               /\ bodies'[t].length = bodies[t].length
      BY <1>1, <1>2, <1>3
    <2>2. \A t \in DOMAIN covered :
            \E k \in DOMAIN bodies' : /\ Committed(k) /\ bodies'[k].window.start <= Own(t).start
                                      /\ Own(t).end <= bodies'[k].window.end
      BY <2>1 DEF GroupsHold
    <2>3. \A t \in DOMAIN bodies' : Committed(t) =>
            /\ bodies'[t].window.start <= Own(t).start /\ Own(t).end <= bodies'[t].window.end
            /\ bodies'[t].window.end = bodies'[t].window.start + bodies'[t].length
            /\ IF t \in DOMAIN carried THEN carried[t] = Own(t) ELSE bodies'[t].window = Own(t)
      BY <2>1 DEF GroupsHold
    <2>4. /\ \A t \in DOMAIN carried : Committed(t)
          /\ \A t \in DOMAIN covered : /\ t \in Request!Eligible \ DOMAIN bodies'
                                       /\ Committed(t) /\ covered[t] = Own(t)
      BY <2>1 DEF GroupsHold
    <2> QED
      BY <2>1, <2>2, <2>3, <2>4 DEF GroupsHold
  <1>11. Request!Commitments' \subseteq DOMAIN bodies' \cup DOMAIN direct' \cup DOMAIN covered'
    <2>1. \A t \in Request!Commitments : Committed(t)
      BY DEF Request!Commitments, Request!Rows, Committed, Own
    <2> QED
      BY <1>1, <1>2, <1>3, <2>1
  <1>12. ASSUME HiddenIsOver PROVE HiddenIsOver'
    <2>1. ASSUME NEW k \in DOMAIN bodies', ~Committed(k), NEW t \in Parts(k),
                 NEW d \in Waits(t) \ DOMAIN bodies', Committed(d)
          PROVE  Own(d).end <= bodies'[k].window.start
      <3>1. d \notin DOMAIN bodies
        BY <1>3, <2>1
      <3>2. Own(d).end <= bodies[k].window.start
        BY <1>3, <1>12, <2>1, <3>1 DEF HiddenIsOver
      <3>3. Own(d).end \in Nat
        <4>1. d \in DOMAIN ask.tasks
          BY DEF Waits, Request!Eligible, Request!Rows
        <4> QED
          BY <4>1, RowsAre DEF Own, Spans
      <3>4. /\ bodies[k].window.start \in Nat /\ bodies'[k].window.start \in Nat
            /\ bodies[k].window.start <= bodies'[k].window.start
        BY <1>3 DEF BodiesHold, BodyRecords, Spans
      <3> QED
        BY <3>2, <3>3, <3>4
    <2> QED
      BY <1>2, <2>1 DEF HiddenIsOver
  <1> QED
    BY <1>4, <1>6, <1>7, <1>8, <1>9, <1>10, <1>11, <1>12

(* A Dynamic Task starts behind the commitments that no body stands for.     *)
LEMMA PushedIs ==
  ASSUME ask \in Requests, FrozenIsOver, BodiesHold, AbsentHolds, NEW t \in DOMAIN bodies
  PROVE  LET b == Request!Pushed(t)
         IN /\ b \in BodyRecords /\ b.anchored = bodies[t].anchored
            /\ b.after = bodies[t].after /\ b.length = bodies[t].length
            /\ bodies[t].window.start <= b.window.start
            /\ \A d \in (bodies[t].after \ DOMAIN bodies) \cap DOMAIN absent :
                 absent[d].end <= b.window.start
  <1>1. bodies[t] \in BodyRecords /\ bodies[t].window \in Spans
    BY DEF BodiesHold, BodyRecords
  <1> PICK ids : ids = (bodies[t].after \ DOMAIN bodies) \cap DOMAIN absent
    OBVIOUS
  <1> DEFINE f == [d \in ids |-> absent[d].end]
  <1> PICK times : times = {f[d] : d \in ids}
    OBVIOUS
  <1>2. times = Request!HiddenBefore(t) /\ DOMAIN f = ids
    BY DEF Request!HiddenBefore
  <1>3. \A d \in ids : absent[d].end \in Nat /\ d \in DOMAIN ask.tasks
    <2>1. \A d \in ids : d \in DOMAIN ask.tasks /\ absent[d] = ask.tasks[d].static
      BY DEF AbsentHolds, Request!Eligible, Request!Rows, Own
    <2>2. \A d \in DOMAIN ask.tasks : ask.tasks[d].static \in Spans
      BY RowsAre
    <2> QED
      BY <2>1, <2>2 DEF Spans
  <1>4. times \subseteq Nat /\ \A d \in ids : absent[d].end \in times
    BY <1>3
  <1>5. IsFiniteSet(ids)
    <2>1. ids \in SUBSET DOMAIN ask.tasks /\ IsFiniteSet(DOMAIN ask.tasks)
      BY <1>3, RowsAre
    <2> QED
      BY <2>1, FS_Subset
  <1> HIDE DEF f
  <1>6. IsFiniteSet(times)
    BY <1>2, <1>5, ImageIsFinite
  <1> PICK start, floor, old : /\ old = bodies[t].window /\ floor = Request!Later(old.start, Request!Anchor)
                               /\ start = Request!Latest(times, floor)
    OBVIOUS
  <1>7. floor \in Nat /\ old.start <= floor /\ old.start \in Nat /\ old.end \in Nat
    <2>1. Request!Anchor \in Nat
      BY RequestConstants, WholeMinutes DEF Request!Anchor
    <2>2. old.start \in Nat /\ old.end \in Nat
      BY <1>1 DEF Spans
    <2> QED
      BY <2>1, <2>2 DEF Request!Later
  <1>8. start \in Nat /\ floor <= start /\ \A x \in times : x <= start
    BY <1>4, <1>6, <1>7, LatestIs
  <1> PICK window, b : /\ window = [old EXCEPT !.start = start]
                       /\ b = [bodies[t] EXCEPT !.window = window]
    OBVIOUS
  <1>9. window \in Spans /\ window.start = start
    BY <1>1, <1>8 DEF Spans
  <1>10. b \in BodyRecords /\ b.window = window /\ b.anchored = bodies[t].anchored
         /\ b.after = bodies[t].after /\ b.length = bodies[t].length
    BY <1>1, <1>9 DEF BodyRecords
  <1>11. Request!Pushed(t) = b
    <2>1. Request!Pushed(t) = [bodies[t] EXCEPT !.window.start = start]
      BY <1>2, <1>1 DEF Request!Pushed, BodyRecords, Spans
    <2> QED
      BY <2>1, <1>1 DEF BodyRecords, Spans
  <1>12. \A d \in ids : absent[d].end <= start
    BY <1>4, <1>8
  <1>13. old.start <= start
    BY <1>7, <1>8
  <1>14. /\ bodies[t].window.start <= b.window.start
         /\ \A d \in (bodies[t].after \ DOMAIN bodies) \cap DOMAIN absent :
              absent[d].end <= b.window.start
    BY <1>9, <1>10, <1>12, <1>13
  <1>15. /\ b \in BodyRecords /\ b.anchored = bodies[t].anchored
         /\ b.after = bodies[t].after /\ b.length = bodies[t].length
    BY <1>10
  <1> QED
    BY ONLY <1>11, <1>14, <1>15

LEMMA ExcludeKeeps ==
  ASSUME ask \in Requests, FrozenIsOver, BodiesHold, DirectHolds, AbsentHolds, SegmentsHold,
         EdgesHold, FixedEdgesHold, GroupsHold,
         Request!Commitments \subseteq DOMAIN bodies \cup DOMAIN direct \cup DOMAIN covered,
         Request!Exclude
  PROVE  Shrinks /\ HiddenIsOver' /\ SeatsFit' /\ Seating'
  <1> PICK out : out = {t \in Request!Dynamic : ~Request!Fits(t, Request!Pushed(t))}
    OBVIOUS
  <1>1. /\ ask' = ask /\ horizon' = horizon /\ direct' = direct /\ segments' = segments
        /\ covered' = covered /\ carried' = carried
        /\ bodies' = [t \in DOMAIN bodies \ out |->
                        IF t \in Request!Dynamic THEN Request!Pushed(t) ELSE bodies[t]]
        /\ seats' = [pending |-> Request!Mandatory \cap (DOMAIN bodies \ out) \cap Request!Dynamic,
                     taken |-> <<>>, failed |-> {}]
    BY DEF Request!Exclude, Request!Empty
  <1>2. /\ \A t : t \in Request!Dynamic <=> t \in DOMAIN bodies /\ ~Committed(t)
        /\ out \subseteq Request!Dynamic
    BY DEF Request!Dynamic, Request!Anchored, BodiesHold
  <1>3. /\ DOMAIN bodies' = DOMAIN bodies \ out
        /\ \A t \in DOMAIN bodies' :
             /\ ~Committed(t) => bodies'[t] = Request!Pushed(t)
             /\ Committed(t) => bodies'[t] = bodies[t]
    BY <1>1, <1>2
  <1>4. \A t \in DOMAIN bodies : bodies[t] \in BodyRecords /\ bodies[t].window.start \in Nat
    BY DEF BodiesHold, BodyRecords, Spans
  <1>5. ASSUME NEW t \in DOMAIN bodies'
        PROVE  /\ bodies'[t] \in BodyRecords /\ bodies'[t].anchored = bodies[t].anchored
               /\ bodies[t].window.start <= bodies'[t].window.start
               /\ bodies'[t].after = bodies[t].after /\ bodies'[t].length = bodies[t].length
               /\ Committed(t) => bodies'[t].window = bodies[t].window
    <2>1. CASE Committed(t)
      BY <1>3, <1>4, <2>1
    <2>2. CASE ~Committed(t)
      <3>1. t \in DOMAIN bodies /\ bodies'[t] = Request!Pushed(t)
        BY <1>3, <2>2
      <3> QED
        BY <2>2, <3>1, PushedIs
    <2> QED
      BY <2>1, <2>2
  <1>6. Shrinks
    BY <1>1, <1>2, <1>3, <1>5 DEF Shrinks
  <1>7. HiddenIsOver'
    <2>1. ASSUME NEW k \in DOMAIN bodies', ~Committed(k), NEW t \in Parts(k),
                 NEW d \in Waits(t) \ DOMAIN bodies', Committed(d)
          PROVE  Own(d).end <= bodies'[k].window.start
      <3>1. k \in DOMAIN bodies /\ bodies'[k] = Request!Pushed(k) /\ d \notin DOMAIN bodies
        BY <1>2, <1>3, <2>1
      <3>2. d \in bodies[k].after
        BY <2>1, <3>1 DEF FixedEdgesHold
      <3>3. d \in DOMAIN absent /\ absent[d] = Own(d)
        BY <2>1, <3>1 DEF AbsentHolds, Waits
      <3>4. absent[d].end <= Request!Pushed(k).window.start
        BY <3>1, <3>2, <3>3, PushedIs
      <3> QED
        BY <3>1, <3>3, <3>4
    <2>2. \A t : /\ Own(t)' = Own(t) /\ Committed(t)' = Committed(t)
                 /\ Waits(t)' = Waits(t) /\ Parts(t)' = Parts(t)
      BY <1>1 DEF Request!Eligible, Request!Rows, Committed, Own, Waits, Parts
    <2> QED
      BY <2>1, <2>2 DEF HiddenIsOver
  <1>8. /\ seats'.taken = <<>> /\ seats'.failed = {} /\ DOMAIN seats'.taken = {}
        /\ seats'.pending \subseteq Request!Dynamic \ out
        /\ DOMAIN seats' = {"pending", "taken", "failed"}
    BY <1>1
  <1>9. SeatsFit'
    BY <1>8 DEF SeatsFit
  <1>10. Seating'
    <2>1. Request!Dynamic' = Request!Dynamic \ out
      <3>1. \A t \in DOMAIN bodies' : bodies'[t].anchored = bodies[t].anchored
        BY <1>5
      <3> QED
        BY <1>3, <3>1 DEF Request!Dynamic, Request!Anchored
    <2> QED
      BY <1>8, <2>1 DEF Seating
  <1> QED
    BY <1>6, <1>7, <1>9, <1>10

-----------------------------------------------------------------------------
(* Seat: a seat is in the window, behind the prerequisites' seats, and no    *)
(* commitment and no seat taken before shares its time.                      *)
LEMMA SeatForFits ==
  ASSUME ask \in Requests, BodiesHold, Seating, NEW t \in seats.pending,
         Request!SeatFor(t) # Request!NoSpan
  PROVE  LET s == Request!SeatFor(t)
         IN /\ s \in Spans /\ bodies[t].window.start <= s.start /\ s.end <= bodies[t].window.end
            /\ s.end - s.start = bodies[t].length
            /\ \A w \in Request!Fixed \cup {seats.taken[u] : u \in DOMAIN seats.taken} :
                 ~Request!Overlaps(s, w) /\ ~Request!Overlaps(w, s)
            /\ \A d \in bodies[t].after \cap DOMAIN seats.taken : seats.taken[d].end <= s.start
  <1> PICK taken : taken = seats.taken
    OBVIOUS
  <1>1. /\ t \in DOMAIN bodies /\ DOMAIN taken \subseteq DOMAIN bodies
        /\ Request!Anchored \subseteq DOMAIN bodies
        /\ \A u \in DOMAIN taken : taken[u] \in Spans
    BY DEF Seating, Request!Dynamic, Request!Anchored
  <1>2. \A u \in DOMAIN bodies : bodies[u].window \in Spans /\ bodies[u].length \in Nat
    BY DEF BodiesHold, BodyRecords
  <1>3. \A S \in SUBSET DOMAIN bodies : IsFiniteSet(S)
    <2>1. DOMAIN bodies \in SUBSET DOMAIN ask.tasks /\ IsFiniteSet(DOMAIN ask.tasks)
      BY RowsAre DEF BodiesHold, Request!Eligible, Request!Rows
    <2>2. IsFiniteSet(DOMAIN bodies)
      BY <2>1, FS_Subset
    <2> QED
      BY <2>2, FS_Subset
  <1> PICK known : known = bodies[t].after \cap (Request!Anchored \cup DOMAIN taken)
    OBVIOUS
  <1>4. known \in SUBSET DOMAIN bodies
    BY <1>1
  <1> DEFINE f == [d \in known |-> Request!EndOf(d)]
  <1> PICK ends : ends = {f[d] : d \in known}
    OBVIOUS
  <1>5. /\ ends = {Request!EndOf(d) : d \in known} /\ DOMAIN f = known
        /\ \A d \in known : Request!EndOf(d) \in ends
    OBVIOUS
  <1> HIDE DEF f
  <1>6. IsFiniteSet(ends)
    BY <1>3, <1>4, <1>5, ImageIsFinite
  <1>7. \A d \in known : /\ Request!EndOf(d) \in Nat
                         /\ d \in DOMAIN taken => Request!EndOf(d) = taken[d].end
    BY <1>1, <1>2, <1>4 DEF Request!EndOf, Spans
  <1>8. ends \subseteq Nat
    BY <1>5, <1>7
  <1> PICK old, start : old = bodies[t].window /\ start = Request!Latest(ends, old.start)
    OBVIOUS
  <1>9. old \in Spans /\ old.start \in Nat
    BY <1>1, <1>2 DEF Spans
  <1>10. start \in Nat /\ old.start <= start /\ \A x \in ends : x <= start
    BY <1>6, <1>8, <1>9, LatestIs
  <1> PICK window : window = [old EXCEPT !.start = start]
    OBVIOUS
  <1>11. window \in Spans /\ window.start = start /\ window.end = old.end
    BY <1>9, <1>10 DEF Spans
  <1> PICK seated : seated = {taken[u] : u \in DOMAIN taken}
    OBVIOUS
  <1> PICK occupied : occupied = Request!Fixed \cup seated
    OBVIOUS
  <1>12. occupied \subseteq Spans
    BY <1>1, <1>2 DEF Request!Fixed
  <1>13. IsFiniteSet(occupied)
    <2>1. IsFiniteSet(seated)
      <3> PICK ids : ids = DOMAIN taken
        OBVIOUS
      <3>1. IsFiniteSet(ids)
        BY <1>1, <1>3
      <3>2. IsFiniteSet({taken[u] : u \in ids})
        BY <3>1, ImageIsFinite
      <3> QED
        BY <3>2
    <2>2. IsFiniteSet(Request!Fixed)
      <3> PICK ids : ids = Request!Anchored
        OBVIOUS
      <3> DEFINE w == [u \in ids |-> bodies[u].window]
      <3>1. Request!Fixed = {w[u] : u \in ids} /\ DOMAIN w = ids
        BY DEF Request!Fixed
      <3>2. IsFiniteSet(ids)
        BY <1>1, <1>3
      <3> HIDE DEF w
      <3> QED
        BY <3>1, <3>2, ImageIsFinite
    <2> QED
      BY <2>1, <2>2, FS_Union
  <1> PICK length : length = bodies[t].length
    OBVIOUS
  <1>14. length \in Nat
    BY <1>1, <1>2
  <1> PICK s : s = Request!EarliestFit(window, occupied, length)
    OBVIOUS
  <1>15. Request!SeatFor(t) = s
    BY <1>5 DEF Request!SeatFor
  <1>16. /\ s \in Spans /\ window.start <= s.start /\ s.end <= window.end
         /\ s.end - s.start = length
         /\ \A o \in occupied : ~Request!Overlaps(s, o) /\ ~Request!Overlaps(o, s)
    <2>1. Request!EarliestFit(window, occupied, length) # Request!NoSpan
      BY <1>15
    <2>2. /\ window \in Spans /\ occupied \subseteq Spans /\ IsFiniteSet(occupied)
          /\ length \in Nat
      BY <1>11, <1>12, <1>13, <1>14
    <2> QED
      BY ONLY <2>1, <2>2, s = Request!EarliestFit(window, occupied, length), EarliestFitFits
  <1>17. start <= s.start /\ old.start <= s.start
    <2>1. start <= s.start
      BY <1>11, <1>16
    <2>2. s.start \in Nat
      BY <1>16 DEF Spans
    <2> QED
      BY ONLY <1>9, <1>10, <2>1, <2>2
  <1>18. ASSUME NEW d \in bodies[t].after \cap DOMAIN taken PROVE taken[d].end <= s.start
    <2>1. d \in known /\ taken[d].end \in ends
      BY <1>5, <1>7
    <2>2. taken[d].end <= start
      BY <1>10, <2>1
    <2>3. taken[d].end \in Nat /\ start \in Nat /\ s.start \in Nat
      BY <1>8, <1>10, <1>16, <2>1 DEF Spans
    <2> QED
      BY ONLY <1>17, <2>2, <2>3
  <1> QED
    BY <1>11, <1>15, <1>16, <1>17, <1>18

LEMMA SeatKeeps ==
  ASSUME ask \in Requests, BodiesHold, SeatsFit, Seating, Request!Seat
  PROVE  SeatsFit' /\ Seating'
  <1> PICK taken, pending, failed : taken = seats.taken /\ pending = seats.pending
                                    /\ failed = seats.failed
    OBVIOUS
  <1>1. PICK t \in pending :
          /\ Request!NextSeat(t)
          /\ seats' =
               IF bodies[t].after \cap failed # {} \/ Request!SeatFor(t) = Request!NoSpan
               THEN [seats EXCEPT !.pending = pending \ {t}, !.failed = failed \cup {t}]
               ELSE [seats EXCEPT !.pending = pending \ {t},
                                  !.taken = Request!Merged(taken, [u \in {t} |-> Request!SeatFor(u)])]
    BY DEF Request!Seat, Seating
  <1>2. bodies[t].after \cap pending = {}
    BY <1>1 DEF Request!NextSeat
  <1>3. bodies' = bodies
    BY DEF Request!Seat
  <1>4. /\ DOMAIN seats = {"pending", "taken", "failed"}
        /\ pending \subseteq Request!Dynamic /\ failed \subseteq Request!Dynamic
        /\ DOMAIN taken \subseteq Request!Dynamic \ pending
        /\ \A u \in DOMAIN taken : /\ taken[u] \in Spans
                                   /\ bodies[u].after \cap pending = {}
    BY DEF Seating
  <1>5. Request!Dynamic' = Request!Dynamic /\ Request!Fixed' = Request!Fixed
    BY <1>3 DEF Request!Dynamic, Request!Fixed, Request!Anchored
  <1>6. CASE bodies[t].after \cap failed # {} \/ Request!SeatFor(t) = Request!NoSpan
    <2>1. /\ seats'.taken = taken /\ seats'.pending = pending \ {t}
          /\ seats'.failed = failed \cup {t} /\ DOMAIN seats' = {"pending", "taken", "failed"}
      BY <1>1, <1>4, <1>6
    <2>2. Seating'
      BY <1>3, <1>4, <1>5, <2>1 DEF Seating
    <2>3. SeatsFit'
      BY <1>3, <1>5, <2>1 DEF SeatsFit
    <2> QED
      BY <2>2, <2>3
  <1>7. CASE ~ (bodies[t].after \cap failed # {} \/ Request!SeatFor(t) = Request!NoSpan)
    <2> PICK s : s = Request!SeatFor(t)
      OBVIOUS
    <2>1. /\ s \in Spans /\ bodies[t].window.start <= s.start /\ s.end <= bodies[t].window.end
          /\ s.end - s.start = bodies[t].length
          /\ \A w \in Request!Fixed \cup {taken[u] : u \in DOMAIN taken} :
               ~Request!Overlaps(s, w) /\ ~Request!Overlaps(w, s)
          /\ \A d \in bodies[t].after \cap DOMAIN taken : taken[d].end <= s.start
      BY <1>7, SeatForFits
    <2> PICK more : more = Request!Merged(taken, [u \in {t} |-> Request!SeatFor(u)])
      OBVIOUS
    <2>2. /\ seats'.taken = more /\ seats'.pending = pending \ {t}
          /\ seats'.failed = failed /\ DOMAIN seats' = {"pending", "taken", "failed"}
      BY <1>1, <1>4, <1>7
    <2>3. /\ t \notin DOMAIN taken /\ DOMAIN more = DOMAIN taken \cup {t} /\ more[t] = s
          /\ \A u \in DOMAIN taken : more[u] = taken[u]
      BY <1>4 DEF Request!Merged
    <2>4. Seating'
      <3>1. /\ pending \ {t} \subseteq Request!Dynamic
            /\ DOMAIN more \subseteq Request!Dynamic \ (pending \ {t})
            /\ \A u \in DOMAIN more : /\ more[u] \in Spans
                                      /\ bodies[u].after \cap (pending \ {t}) = {}
        BY <1>2, <1>4, <2>1, <2>3
      <3> QED
        BY <1>3, <1>4, <1>5, <2>2, <3>1 DEF Seating
    <2>5. ASSUME NEW u \in DOMAIN more \cap DOMAIN bodies
          PROVE  /\ bodies[u].window.start <= more[u].start
                 /\ more[u].end <= bodies[u].window.end
                 /\ more[u].end - more[u].start = bodies[u].length
                 /\ \A w \in Request!Fixed : ~Request!Overlaps(more[u], w)
                 /\ \A v \in DOMAIN more \ {u} : ~Request!Overlaps(more[u], more[v])
                 /\ \A d \in bodies[u].after \cap DOMAIN more : more[d].end <= more[u].start
      <3>1. CASE u = t
        <4>1. t \notin bodies[t].after
          BY <1>2
        <4>2. \A v \in DOMAIN more \ {u} : v \in DOMAIN taken /\ more[v] = taken[v]
          BY <2>3, <3>1
        <4> QED
          BY <2>1, <2>3, <3>1, <4>1, <4>2
      <3>2. CASE u # t
        <4>1. u \in DOMAIN taken /\ more[u] = taken[u] /\ t \notin bodies[u].after
          BY <1>4, <2>3, <3>2
        <4>2. /\ bodies[u].window.start <= taken[u].start
              /\ taken[u].end <= bodies[u].window.end
              /\ taken[u].end - taken[u].start = bodies[u].length
              /\ \A w \in Request!Fixed \cup {taken[v] : v \in DOMAIN taken \ {u}} :
                   ~Request!Overlaps(taken[u], w)
              /\ \A d \in bodies[u].after \cap DOMAIN taken : taken[d].end <= taken[u].start
          BY <4>1 DEF SeatsFit
        <4>3. ~Request!Overlaps(taken[u], s)
          BY <2>1, <4>1
        <4>4. \A v \in DOMAIN more \ {u} :
                more[v] = s \/ more[v] \in {taken[x] : x \in DOMAIN taken \ {u}}
          BY <2>3
        <4>5. \A d \in bodies[u].after \cap DOMAIN more :
                d \in bodies[u].after \cap DOMAIN taken /\ more[d] = taken[d]
          BY <2>3, <4>1
        <4> QED
          BY <4>1, <4>2, <4>3, <4>4, <4>5
      <3> QED
        BY <3>1, <3>2
    <2>6. SeatsFit'
      <3> SUFFICES ASSUME NEW u \in DOMAIN seats'.taken \cap DOMAIN bodies'
                   PROVE  /\ bodies'[u].window.start <= seats'.taken[u].start
                          /\ seats'.taken[u].end <= bodies'[u].window.end
                          /\ seats'.taken[u].end - seats'.taken[u].start = bodies'[u].length
                          /\ \A w \in Request!Fixed'
                                     \cup {seats'.taken[v] : v \in DOMAIN seats'.taken \ {u}} :
                               ~Request!Overlaps(seats'.taken[u], w)
                          /\ \A d \in bodies'[u].after \cap DOMAIN seats'.taken :
                               seats'.taken[d].end <= seats'.taken[u].start
        BY DEF SeatsFit
      <3>1. /\ u \in DOMAIN more \cap DOMAIN bodies /\ seats'.taken = more
            /\ bodies' = bodies /\ Request!Fixed' = Request!Fixed
        BY <1>3, <1>5, <2>2
      <3> PICK place : place = more[u]
        OBVIOUS
      <3>2. /\ bodies[u].window.start <= place.start /\ place.end <= bodies[u].window.end
            /\ place.end - place.start = bodies[u].length
            /\ \A w \in Request!Fixed : ~Request!Overlaps(place, w)
            /\ \A v \in DOMAIN more \ {u} : ~Request!Overlaps(place, more[v])
            /\ \A d \in bodies[u].after \cap DOMAIN more : more[d].end <= place.start
        BY <2>5, <3>1
      <3> QED
        BY ONLY <3>1, <3>2, place = more[u]
    <2> QED
      BY <2>4, <2>6
  <1> QED
    BY <1>6, <1>7

-----------------------------------------------------------------------------
(* What falls out after the seating: Dynamic Tasks only.                     *)
LEMMA DroppingShrinks ==
  ASSUME BodiesHold, NEW out \in SUBSET Request!Dynamic,
         bodies' = [t \in DOMAIN bodies \ out |-> bodies[t]],
         UNCHANGED <<ask, horizon, direct, segments, covered, carried>>
  PROVE  /\ Shrinks /\ Request!Fixed' = Request!Fixed
         /\ \A t \in DOMAIN bodies' : t \in DOMAIN bodies /\ bodies'[t] = bodies[t]
  <1>1. /\ DOMAIN bodies' = DOMAIN bodies \ out
        /\ \A t \in DOMAIN bodies' : t \in DOMAIN bodies /\ bodies'[t] = bodies[t]
    OBVIOUS
  <1>2. \A t \in DOMAIN bodies : t \in out => ~Committed(t)
    BY DEF Request!Dynamic, Request!Anchored, BodiesHold
  <1>3. \A t \in DOMAIN bodies : bodies[t] \in BodyRecords /\ bodies[t].window.start \in Nat
    BY DEF BodiesHold, BodyRecords, Spans
  <1>4. Shrinks
    BY <1>1, <1>2, <1>3 DEF Shrinks
  <1>5. Request!Anchored' = Request!Anchored
    BY <1>1 DEF Request!Anchored, Request!Dynamic
  <1>6. Request!Fixed' = Request!Fixed
    <2>1. \A t \in Request!Anchored : bodies'[t] = bodies[t]
      BY <1>1, <1>5 DEF Request!Anchored
    <2> QED
      BY <1>5, <2>1 DEF Request!Fixed
  <1> QED
    BY <1>1, <1>4, <1>6

LEMMA SeatingEndsKeeps ==
  ASSUME BodiesHold, SeatsFit, Seating, Request!SeatingEnds
  PROVE  Shrinks /\ SeatsFit'
  <1>1. /\ bodies' = [t \in DOMAIN bodies \ seats.failed |-> bodies[t]]
        /\ UNCHANGED <<ask, horizon, direct, segments, covered, carried>>
        /\ seats.failed \in SUBSET Request!Dynamic /\ seats' = seats
    BY DEF Request!SeatingEnds, Seating
  <1>2. /\ Shrinks /\ Request!Fixed' = Request!Fixed
        /\ \A t \in DOMAIN bodies' : t \in DOMAIN bodies /\ bodies'[t] = bodies[t]
    BY <1>1, DroppingShrinks
  <1>3. seats' = seats
    BY <1>1
  <1>4. SeatsFit'
    BY <1>2, <1>3 DEF SeatsFit
  <1> QED
    BY <1>2, <1>4

LEMMA PropagateKeeps ==
  ASSUME BodiesHold, SeatsFit, Request!Propagate
  PROVE  Shrinks /\ SeatsFit'
  <1>1. /\ bodies' = [t \in DOMAIN bodies \ Request!Stranded |-> bodies[t]]
        /\ UNCHANGED <<ask, horizon, direct, segments, covered, carried>>
        /\ Request!Stranded \in SUBSET Request!Dynamic /\ seats' = seats
    BY DEF Request!Propagate, Request!Stranded
  <1>2. /\ Shrinks /\ Request!Fixed' = Request!Fixed
        /\ \A t \in DOMAIN bodies' : t \in DOMAIN bodies /\ bodies'[t] = bodies[t]
    BY <1>1, DroppingShrinks
  <1>3. seats' = seats
    BY <1>1
  <1>4. SeatsFit'
    BY <1>2, <1>3 DEF SeatsFit
  <1> QED
    BY <1>2, <1>4

(* The observed durations are those of occurrences, and no segment has one.  *)
LEMMA FinishKeeps ==
  ASSUME ask \in Requests, BodiesHold, SegmentsHold, Request!Finish
  PROVE  Shrinks
  <1>1. /\ UNCHANGED <<ask, horizon, direct, segments, covered, carried>>
        /\ DOMAIN bodies' = DOMAIN bodies
    BY DEF Request!Finish
  <1>2. ASSUME NEW t \in DOMAIN bodies
        PROVE  /\ bodies'[t] \in BodyRecords /\ bodies'[t].anchored = bodies[t].anchored
               /\ bodies'[t].window = bodies[t].window
               /\ bodies'[t].after = bodies[t].after \cap DOMAIN bodies
               /\ Committed(t) \/ t \in DOMAIN segments => bodies'[t].length = bodies[t].length
    <2> PICK b, edges, length :
          /\ b = bodies[t] /\ edges = b.after \cap DOMAIN bodies
          /\ length = IF t \in Request!Dynamic \cap Request!Mandatory /\ ask.tasks[t].observed # 0
                      THEN ask.tasks[t].observed ELSE b.length
      OBVIOUS
    <2>1. b \in BodyRecords /\ t \in DOMAIN ask.tasks /\ edges \in SUBSET Nat
      BY DEF BodiesHold, BodyRecords, Request!Eligible, Request!Rows
    <2>2. length \in Nat
      BY <2>1, RowsAre DEF BodyRecords
    <2> PICK c, e : e = [b EXCEPT !.after = edges] /\ c = [e EXCEPT !.length = length]
      OBVIOUS
    <2>3. bodies'[t] = c
      BY <2>1 DEF Request!Finish, Request!Rows, BodyRecords
    <2>4. /\ c \in BodyRecords /\ c.anchored = b.anchored /\ c.window = b.window
          /\ c.after = edges /\ c.length = length
      BY <2>1, <2>2 DEF BodyRecords
    <2>5. Committed(t) \/ t \in DOMAIN segments => length = b.length
      <3>1. Committed(t) => t \notin Request!Dynamic
        BY DEF Request!Dynamic, Request!Anchored, BodiesHold
      <3>2. t \in DOMAIN segments => ~ask.tasks[t].occurrence
        BY DEF SegmentsHold
      <3>3. t \in DOMAIN segments => t \notin Request!Mandatory
        BY <3>2 DEF Request!Mandatory, Request!Rows
      <3> QED
        BY <3>1, <3>3
    <2> QED
      BY <2>3, <2>4, <2>5
  <1>3. \A t \in DOMAIN bodies : bodies[t].window.start \in Nat
    BY DEF BodiesHold, BodyRecords, Spans
  <1> QED
    BY <1>1, <1>2, <1>3 DEF Shrinks

-----------------------------------------------------------------------------
(* Publish: what a schedule of the kernel holds.                             *)
FinishOf(f, k) == f[k] + bodies[k].length

LEMMA SchedulesAre ==
  ASSUME BodiesHold, NEW f \in Request!Schedules
  PROVE  /\ Request!Anchored \subseteq DOMAIN f /\ DOMAIN f \subseteq DOMAIN bodies
         /\ \A k \in DOMAIN f :
              /\ f[k] \in Nat /\ bodies[k].window \in Spans /\ bodies[k].length \in Nat
              /\ bodies[k].window.start <= f[k]
              /\ ~bodies[k].anchored => FinishOf(f, k) <= bodies[k].window.end
              /\ bodies[k].anchored => f[k] = bodies[k].window.start
              /\ \A d \in bodies[k].after : d \in DOMAIN f /\ FinishOf(f, d) <= f[k]
         /\ \A k, e \in DOMAIN f :
              k # e => FinishOf(f, k) <= f[e] \/ FinishOf(f, e) <= f[k]
  <1>1. PICK chosen \in SUBSET Request!Dynamic :
          /\ f \in [chosen \cup Request!Anchored ->
                      UNION {Request!Starts(t) : t \in chosen \cup Request!Anchored}]
          /\ \A t \in DOMAIN f :
               /\ f[t] \in Request!Starts(t)
               /\ bodies[t].after \subseteq DOMAIN f
               /\ \A d \in bodies[t].after : f[d] + bodies[d].length <= f[t]
               /\ \A u \in DOMAIN f \ {t} :
                    ~Request!Overlaps(Request!Span(f[t], f[t] + bodies[t].length),
                                      Request!Span(f[u], f[u] + bodies[u].length))
    BY DEF Request!Schedules
  <1>2. DOMAIN f = chosen \cup Request!Anchored /\ DOMAIN f \subseteq DOMAIN bodies
    BY <1>1 DEF Request!Dynamic, Request!Anchored
  <1>3. \A k \in DOMAIN f : bodies[k].window \in Spans /\ bodies[k].length \in Nat
    BY <1>2 DEF BodiesHold, BodyRecords
  <1>4. ASSUME NEW k \in DOMAIN f
        PROVE  /\ f[k] \in Nat /\ bodies[k].window.start <= f[k]
               /\ ~bodies[k].anchored => FinishOf(f, k) <= bodies[k].window.end
               /\ bodies[k].anchored => f[k] = bodies[k].window.start
    <2>1. f[k] \in Request!Starts(k) /\ bodies[k].window.start \in Nat
          /\ bodies[k].window.end \in Nat
      BY <1>1, <1>3 DEF Spans
    <2>2. CASE bodies[k].anchored
      BY <2>1, <2>2 DEF Request!Starts
    <2>3. CASE ~bodies[k].anchored
      BY <2>1, <2>3 DEF Request!Starts, FinishOf
    <2> QED
      BY <2>2, <2>3
  <1>5. \A k \in DOMAIN f : \A d \in bodies[k].after : d \in DOMAIN f /\ FinishOf(f, d) <= f[k]
    BY <1>1 DEF FinishOf
  <1>6. ASSUME NEW k \in DOMAIN f, NEW e \in DOMAIN f, k # e
        PROVE  FinishOf(f, k) <= f[e] \/ FinishOf(f, e) <= f[k]
    <2>1. ~Request!Overlaps(Request!Span(f[k], FinishOf(f, k)), Request!Span(f[e], FinishOf(f, e)))
      BY <1>1, <1>6 DEF FinishOf
    <2>2. /\ f[k] \in Nat /\ f[e] \in Nat /\ FinishOf(f, k) \in Nat /\ FinishOf(f, e) \in Nat
      BY <1>3, <1>4 DEF FinishOf
    <2> QED
      BY <2>1, <2>2 DEF Request!Overlaps, Request!Span
  <1> QED
    BY <1>1, <1>2, <1>3, <1>4, <1>5, <1>6

(* No Task is part of two bodies.                                            *)
LEMMA PartsAre ==
  ASSUME BodiesHold, SegmentsHold
  PROVE  /\ \A k, e \in DOMAIN bodies : \A m : m \in Parts(k) /\ m \in Parts(e) => k = e
         /\ \A k \in DOMAIN bodies : \A m \in Parts(k) :
              m \in Request!Eligible /\ (Committed(m) <=> Committed(k))
         /\ \A k \in DOMAIN bodies : Committed(k) => k \notin DOMAIN segments /\ Parts(k) = {k}
  <1>1. /\ \A c \in DOMAIN segments :
             /\ segments[c] \in Seq(Nat) /\ 1 \in DOMAIN segments[c] /\ segments[c][1] = c
             /\ \A i \in DOMAIN segments[c] :
                  /\ segments[c][i] \in Request!Eligible /\ ~Committed(segments[c][i])
                  /\ i # 1 => segments[c][i] \notin DOMAIN bodies
        /\ \A c, e \in DOMAIN segments : \A i \in DOMAIN segments[c], j \in DOMAIN segments[e] :
             segments[c][i] = segments[e][j] => c = e /\ i = j
    BY DEF SegmentsHold
  <1>2. \A k : IF k \in DOMAIN segments
               THEN \A m : m \in Parts(k) <=> \E i \in DOMAIN segments[k] : m = segments[k][i]
               ELSE Parts(k) = {k}
    BY DEF Parts
  <1>3. \A k \in DOMAIN segments : ~Committed(k)
    BY <1>1
  <1>4. ASSUME NEW k \in DOMAIN bodies, NEW e \in DOMAIN bodies, NEW m \in Parts(k),
               m \in Parts(e)
        PROVE  k = e
    <2>1. CASE k \in DOMAIN segments /\ e \in DOMAIN segments
      BY <1>1, <1>2, <1>4, <2>1
    <2>2. CASE k \in DOMAIN segments /\ e \notin DOMAIN segments
      <3>1. m = e /\ \E i \in DOMAIN segments[k] : e = segments[k][i]
        BY <1>2, <1>4, <2>2
      <3> QED
        BY <1>1, <2>2, <3>1
    <2>3. CASE k \notin DOMAIN segments /\ e \in DOMAIN segments
      <3>1. m = k /\ \E i \in DOMAIN segments[e] : k = segments[e][i]
        BY <1>2, <1>4, <2>3
      <3> QED
        BY <1>1, <2>3, <3>1
    <2>4. CASE k \notin DOMAIN segments /\ e \notin DOMAIN segments
      BY <1>2, <1>4, <2>4
    <2> QED
      BY <2>1, <2>2, <2>3, <2>4
  <1>5. ASSUME NEW k \in DOMAIN bodies, NEW m \in Parts(k)
        PROVE  m \in Request!Eligible /\ (Committed(m) <=> Committed(k))
    <2>1. CASE k \in DOMAIN segments
      BY <1>1, <1>2, <1>3, <2>1
    <2>2. CASE k \notin DOMAIN segments
      BY <1>2, <2>2 DEF BodiesHold
    <2> QED
      BY <2>1, <2>2
  <1> QED
    BY <1>2, <1>3, <1>4, <1>5

(* Expand: a body's part of the Plan has all of its Tasks, a commitment at   *)
(* its own window, the Tasks of a segment one after another.                 *)
LEMMA ExpandIs ==
  ASSUME ask \in Requests, BodiesHold, SegmentsHold, GroupsHold,
         NEW f \in Request!Schedules, NEW k \in DOMAIN f
  PROVE  LET piece == Request!Expand(k, f[k])
         IN /\ DOMAIN piece = Parts(k)
            /\ Committed(k) => piece[k] = Own(k)
            /\ ~Committed(k) =>
                 /\ \A m \in Parts(k) :
                      /\ piece[m] \in Spans /\ f[k] <= piece[m].start
                      /\ piece[m].start <= piece[m].end /\ piece[m].end <= FinishOf(f, k)
                 /\ \A m, n \in Parts(k) :
                      m # n => \/ piece[m].end <= piece[n].start
                               \/ piece[n].end <= piece[m].start /\ Request!InSegmentOrder(n, m)
  <1>1. /\ k \in DOMAIN bodies /\ f[k] \in Nat /\ bodies[k].window \in Spans
        /\ bodies[k].length \in Nat
        /\ bodies[k].anchored => f[k] = bodies[k].window.start
        /\ bodies[k].anchored <=> Committed(k)
    <2>1. /\ k \in DOMAIN bodies /\ f[k] \in Nat /\ bodies[k].window \in Spans
          /\ bodies[k].length \in Nat
          /\ bodies[k].anchored => f[k] = bodies[k].window.start
      BY SchedulesAre
    <2> QED
      BY <2>1 DEF BodiesHold
  <1> PICK piece : piece = Request!Expand(k, f[k])
    OBVIOUS
  <1>2. CASE k \in DOMAIN carried
    <2>1. Committed(k) /\ carried[k] = Own(k)
      BY <1>1, <1>2 DEF GroupsHold
    <2>2. Parts(k) = {k}
      BY <1>1, <2>1, PartsAre
    <2>3. piece = [m \in {k} |-> carried[m]]
      BY <1>2 DEF Request!Expand
    <2>4. DOMAIN piece = Parts(k) /\ piece[k] = Own(k)
      BY <2>1, <2>2, <2>3
    <2> QED
      BY <2>1, <2>4
  <1>3. CASE k \notin DOMAIN carried
    <2> PICK unit : unit = IF k \in DOMAIN segments THEN segments[k] ELSE <<k>>
      OBVIOUS
    <2> PICK lengths : lengths = [i \in DOMAIN unit |->
                                    IF k \in DOMAIN segments THEN ask.tasks[unit[i]].length
                                    ELSE bodies[k].length]
      OBVIOUS
    <2> PICK offsets : offsets = Request!Offsets(lengths)
      OBVIOUS
    <2> DEFINE At(m) == CHOOSE i \in DOMAIN unit : unit[i] = m
    <2>1. piece = [m \in Request!ToSet(unit) |->
                    Request!Span(f[k] + offsets[At(m) - 1], f[k] + offsets[At(m)])]
      BY <1>3 DEF Request!Expand, Request!Rows
    <2>2. /\ DOMAIN unit = 1..Len(unit) /\ Len(unit) \in Nat
          /\ \A i, j \in DOMAIN unit : unit[i] = unit[j] => i = j
      <3>1. CASE k \in DOMAIN segments
        BY <3>1 DEF SegmentsHold
      <3>2. CASE k \notin DOMAIN segments
        BY <3>2
      <3> QED
        BY <3>1, <3>2
    <2>3. Request!ToSet(unit) = Parts(k)
      <3>1. CASE k \in DOMAIN segments
        BY <3>1 DEF Parts, Request!ToSet
      <3>2. CASE k \notin DOMAIN segments
        <4>1. DOMAIN unit = {1} /\ unit[1] = k
          BY <3>2
        <4> QED
          BY <3>2, <4>1 DEF Parts, Request!ToSet
      <3> QED
        BY <3>1, <3>2
    <2>4. /\ \A m \in Parts(k) : At(m) \in DOMAIN unit /\ unit[At(m)] = m
      BY <2>3 DEF Request!ToSet
    <2>5. lengths \in Seq(Nat) /\ Len(lengths) = Len(unit)
      <3>1. \A i \in DOMAIN unit : lengths[i] \in Nat
        <4>1. CASE k \in DOMAIN segments
          <5>1. \A i \in DOMAIN unit : unit[i] \in DOMAIN ask.tasks
            BY <4>1 DEF SegmentsHold, Request!Eligible, Request!Rows
          <5> QED
            BY <4>1, <5>1, RowsAre
        <4>2. CASE k \notin DOMAIN segments
          BY <1>1, <4>2
        <4> QED
          BY <4>1, <4>2
      <3>2. lengths \in [1..Len(unit) -> Nat]
        BY <2>2, <3>1
      <3>3. lengths \in Seq(Nat)
        <4> PICK n : n = Len(unit)
          OBVIOUS
        <4>1. n \in Nat /\ lengths \in [1..n -> Nat]
          BY <2>2, <3>2
        <4> QED
          BY ONLY <4>1, SeqDef
      <3> QED
        BY <2>2, <3>2, <3>3
    <2>6. /\ offsets[0] = 0 /\ \A i \in 0..Len(unit) : offsets[i] \in Nat
          /\ \A i \in 1..Len(unit) : offsets[i] = offsets[i - 1] + lengths[i]
      BY <2>5, OffsetsAre
    <2>7. \A i, j \in 0..Len(unit) : i <= j => offsets[i] <= offsets[j]
      BY <2>5, OffsetsAscend
    <2>8. offsets[Len(unit)] = bodies[k].length
      <3>1. CASE k \in DOMAIN segments
        <4>1. lengths = LengthsOf(ask.tasks, segments[k])
          BY <3>1 DEF LengthsOf
        <4>2. bodies[k].length = Request!Total(lengths)
          BY <1>1, <3>1, <4>1 DEF SegmentsHold
        <4> QED
          BY <2>5, <4>2 DEF Request!Total
      <3>2. CASE k \notin DOMAIN segments
        <4>1. Len(unit) = 1 /\ 1 \in DOMAIN unit
          BY <3>2
        <4>2. lengths[1] = bodies[k].length
          BY <3>2, <4>1
        <4>3. offsets[1] = offsets[0] + lengths[1]
          BY <2>6, <4>1
        <4> QED
          BY <1>1, <2>6, <4>1, <4>2, <4>3
      <3> QED
        BY <3>1, <3>2
    <2> HIDE DEF At
    <2>9. ASSUME NEW m \in Parts(k)
          PROVE  /\ At(m) \in 1..Len(unit) /\ At(m) - 1 \in 0..Len(unit) /\ At(m) \in 0..Len(unit)
                 /\ piece[m].start = f[k] + offsets[At(m) - 1]
                 /\ piece[m].end = f[k] + offsets[At(m)]
                 /\ piece[m] \in Spans
      <3>1. At(m) \in 1..Len(unit)
        BY <2>2, <2>4
      <3>2. At(m) - 1 \in 0..Len(unit) /\ At(m) \in 0..Len(unit)
        BY <2>2, <3>1
      <3>3. piece[m] = Request!Span(f[k] + offsets[At(m) - 1], f[k] + offsets[At(m)])
        BY <2>1, <2>3
      <3>4. f[k] + offsets[At(m) - 1] \in Nat /\ f[k] + offsets[At(m)] \in Nat
        BY <1>1, <2>6, <3>2
      <3> PICK from, to : from = f[k] + offsets[At(m) - 1] /\ to = f[k] + offsets[At(m)]
        OBVIOUS
      <3>5. piece[m] = Request!Span(from, to) /\ from \in Nat /\ to \in Nat
        BY <3>3, <3>4
      <3>6. piece[m].start = from /\ piece[m].end = to /\ piece[m] \in Spans
        BY ONLY <3>5 DEF Request!Span, Spans
      <3> QED
        BY <3>1, <3>2, <3>6
    <2>10. DOMAIN piece = Parts(k)
      BY <2>1, <2>3
    <2>11. ASSUME NEW m \in Parts(k)
           PROVE  /\ f[k] <= piece[m].start /\ piece[m].start <= piece[m].end
                  /\ piece[m].end <= FinishOf(f, k)
      <3>1. /\ At(m) - 1 \in 0..Len(unit) /\ At(m) \in 0..Len(unit) /\ Len(unit) \in 0..Len(unit)
            /\ At(m) - 1 <= At(m) /\ At(m) <= Len(unit)
        BY <2>2, <2>9
      <3>2. /\ offsets[At(m) - 1] \in Nat /\ offsets[At(m)] \in Nat
            /\ offsets[At(m) - 1] <= offsets[At(m)] /\ offsets[At(m)] <= bodies[k].length
        BY <2>6, <2>7, <2>8, <3>1
      <3> QED
        BY <1>1, <2>9, <3>2 DEF FinishOf
    <2>12. ASSUME NEW m \in Parts(k), NEW n \in Parts(k), At(m) < At(n)
           PROVE  piece[m].end <= piece[n].start
      <3>1. /\ At(m) \in 0..Len(unit) /\ At(n) - 1 \in 0..Len(unit) /\ At(m) <= At(n) - 1
        BY <2>2, <2>9, <2>12
      <3>2. /\ offsets[At(m)] \in Nat /\ offsets[At(n) - 1] \in Nat
            /\ offsets[At(m)] <= offsets[At(n) - 1]
        BY <2>6, <2>7, <3>1
      <3> QED
        BY <1>1, <2>9, <3>2
    <2>13. ASSUME NEW m \in Parts(k), NEW n \in Parts(k), m # n
           PROVE  \/ piece[m].end <= piece[n].start
                  \/ piece[n].end <= piece[m].start /\ Request!InSegmentOrder(n, m)
      <3>1. At(m) # At(n) /\ At(m) \in Nat /\ At(n) \in Nat
        BY <2>2, <2>4, <2>9, <2>13
      <3>2. CASE At(m) < At(n)
        BY <2>12, <3>2
      <3>3. CASE At(n) < At(m)
        <4>1. k \in DOMAIN segments
          <5>1. SUFFICES ASSUME k \notin DOMAIN segments PROVE FALSE
            OBVIOUS
          <5>2. Parts(k) = {k}
            BY <5>1 DEF Parts
          <5> QED
            BY <2>13, <5>2
        <4>2. /\ At(n) \in DOMAIN segments[k] /\ At(m) \in DOMAIN segments[k]
              /\ segments[k][At(n)] = n /\ segments[k][At(m)] = m
          BY <2>4, <4>1
        <4>3. Request!InSegmentOrder(n, m)
          BY <3>3, <4>1, <4>2 DEF Request!InSegmentOrder
        <4> QED
          BY <2>12, <3>3, <4>3
      <3> QED
        BY <3>1, <3>2, <3>3
    <2>14. Committed(k) => piece[k] = Own(k)
      <3> SUFFICES ASSUME Committed(k) PROVE piece[k] = Own(k)
        OBVIOUS
      <3>1. k \notin DOMAIN segments /\ k \in Parts(k)
        BY <1>1, PartsAre
      <3>2. unit = <<k>> /\ Len(unit) = 1 /\ DOMAIN unit = {1}
        BY <3>1
      <3>3. At(k) = 1
        BY <2>4, <3>1, <3>2
      <3>4. piece[k] = Request!Span(f[k] + offsets[0], f[k] + offsets[1])
        <4>1. piece[k] = Request!Span(f[k] + offsets[At(k) - 1], f[k] + offsets[At(k)])
          BY <2>1, <2>3, <3>1
        <4> QED
          BY <3>3, <4>1
      <3>5. f[k] + offsets[0] = bodies[k].window.start
            /\ f[k] + offsets[1] = bodies[k].window.start + bodies[k].length
        <4>1. offsets[0] = 0 /\ offsets[1] = bodies[k].length
          BY <2>6, <2>8, <3>2
        <4>2. f[k] \in Nat /\ f[k] = bodies[k].window.start
          BY <1>1
        <4> QED
          BY ONLY <4>1, <4>2
      <3>6. /\ bodies[k].window = Own(k)
            /\ bodies[k].window.end = bodies[k].window.start + bodies[k].length
        BY <1>1, <1>3 DEF GroupsHold
      <3>7. piece[k] = Request!Span(bodies[k].window.start, bodies[k].window.end)
        BY <3>4, <3>5, <3>6
      <3> QED
        BY <1>1, <3>6, <3>7 DEF Request!Span, Spans
    <2> QED
      BY <2>9, <2>10, <2>11, <2>13, <2>14
  <1> QED
    BY <1>2, <1>3

(* Steps: the frozen steps, then what the kernel placed, a commitment always *)
(* at its own window, then the commitments it did not see.                   *)
LEMMA StepsAre ==
  ASSUME ask \in Requests, BodiesHold, SegmentsHold, GroupsHold, DirectHolds,
         NEW f \in Request!Schedules
  PROVE  LET steps == Request!Steps(f)
         IN /\ DOMAIN steps = DOMAIN ask.frozen \cup (UNION {Parts(k) : k \in DOMAIN f})
                                \cup DOMAIN direct \cup DOMAIN covered
            /\ \A t \in DOMAIN ask.frozen : steps[t] = ask.frozen[t]
            /\ \A t \in DOMAIN steps \ DOMAIN ask.frozen :
                 /\ Committed(t) => steps[t] = Own(t)
                 /\ ~Committed(t) =>
                      \E k \in DOMAIN f : /\ ~Committed(k) /\ t \in Parts(k)
                                          /\ steps[t] = Request!Expand(k, f[k])[t]
  <1> DEFINE E(k) == Request!Expand(k, f[k])
  <1>1. \A k \in DOMAIN f : /\ DOMAIN E(k) = Parts(k)
                            /\ Committed(k) => E(k)[k] = Own(k)
    BY ExpandIs
  <1>2. DOMAIN f \subseteq DOMAIN bodies
    BY SchedulesAre
  <1>3. /\ \A k \in DOMAIN f : \A m \in Parts(k) : Committed(m) <=> Committed(k)
        /\ \A k \in DOMAIN f : Committed(k) => Parts(k) = {k}
    BY <1>2, PartsAre
  <1> HIDE DEF E
  <1> PICK parts : parts = {E(k) : k \in DOMAIN f}
    OBVIOUS
  <1> DEFINE Part(id) == CHOOSE piece \in parts : id \in DOMAIN piece
  <1> PICK ids : ids = UNION {DOMAIN piece : piece \in parts}
    OBVIOUS
  <1> PICK placed : placed = [id \in ids |-> Part(id)[id]]
    OBVIOUS
  <1> PICK unseen : unseen = Request!Merged([t \in DOMAIN direct |-> direct[t].window], covered)
    OBVIOUS
  <1> PICK steps : steps = Request!Merged(ask.frozen, Request!Merged(placed, unseen))
    OBVIOUS
  <1>4. Request!Steps(f) = steps
    BY DEF Request!Steps, E
  <1>5. \A id : id \in ids <=> \E k \in DOMAIN f : id \in Parts(k)
    BY <1>1
  <1>6. ASSUME NEW id \in ids
        PROVE  \E k \in DOMAIN f : id \in Parts(k) /\ placed[id] = E(k)[id]
    <2>1. \E piece \in parts : id \in DOMAIN piece
      BY <1>6
    <2>2. Part(id) \in parts /\ id \in DOMAIN Part(id)
      BY <2>1
    <2>3. placed[id] = Part(id)[id]
      BY <1>6
    <2> HIDE DEF Part
    <2>4. PICK k \in DOMAIN f : Part(id) = E(k)
      BY <2>2
    <2> QED
      BY <1>1, <2>2, <2>3, <2>4
  <1> HIDE DEF Part
  <1>7. DOMAIN placed = ids
    OBVIOUS
  <1>8. /\ DOMAIN unseen = DOMAIN direct \cup DOMAIN covered
        /\ \A t \in DOMAIN unseen : Committed(t) /\ unseen[t] = Own(t)
    BY DEF Request!Merged, DirectHolds, GroupsHold
  <1>9. /\ DOMAIN steps = DOMAIN ask.frozen \cup ids \cup DOMAIN unseen
        /\ \A t \in DOMAIN ask.frozen : steps[t] = ask.frozen[t]
        /\ \A t \in DOMAIN steps \ DOMAIN ask.frozen :
             steps[t] = IF t \in ids THEN placed[t] ELSE unseen[t]
    BY <1>7 DEF Request!Merged
  <1>10. ASSUME NEW t \in DOMAIN steps \ DOMAIN ask.frozen
         PROVE  /\ Committed(t) => steps[t] = Own(t)
                /\ ~Committed(t) => \E k \in DOMAIN f : /\ ~Committed(k) /\ t \in Parts(k)
                                                        /\ steps[t] = E(k)[t]
    <2>1. CASE t \in ids
      <3>1. PICK k \in DOMAIN f : t \in Parts(k) /\ placed[t] = E(k)[t]
        BY <1>6, <2>1
      <3>2. Committed(t) <=> Committed(k)
        BY <1>3, <3>1
      <3>3. steps[t] = E(k)[t]
        BY <1>9, <2>1, <3>1
      <3>4. Committed(t) => t = k
        BY <1>3, <3>1, <3>2
      <3> QED
        BY <1>1, <3>1, <3>2, <3>3, <3>4
    <2>2. CASE t \notin ids
      BY <1>8, <1>9, <2>2
    <2> QED
      BY <2>1, <2>2
  <1>11. ids = UNION {Parts(k) : k \in DOMAIN f}
    BY <1>5
  <1>12. DOMAIN steps = DOMAIN ask.frozen \cup (UNION {Parts(k) : k \in DOMAIN f})
                         \cup DOMAIN direct \cup DOMAIN covered
    <2>1. DOMAIN steps = DOMAIN ask.frozen \cup ids \cup DOMAIN unseen
      BY <1>9
    <2>2. DOMAIN unseen = DOMAIN direct \cup DOMAIN covered
      BY <1>8
    <2> QED
      BY ONLY <1>11, <2>1, <2>2
  <1>13. \A t \in DOMAIN steps \ DOMAIN ask.frozen :
           /\ Committed(t) => steps[t] = Own(t)
           /\ ~Committed(t) => \E k \in DOMAIN f : /\ ~Committed(k) /\ t \in Parts(k)
                                                   /\ steps[t] = Request!Expand(k, f[k])[t]
    BY <1>10 DEF E
  <1>14. \A t \in DOMAIN ask.frozen : steps[t] = ask.frozen[t]
    BY <1>9
  <1> QED
    BY ONLY <1>4, <1>12, <1>13, <1>14

(* A published step of work lies in what its body was placed for.            *)
LEMMA WorkIsPlaced ==
  ASSUME ask \in Requests, FrozenIsOver, BodiesHold, SegmentsHold, GroupsHold, DirectHolds,
         NEW f \in Request!Schedules, NEW p, p = Request!Steps(f),
         NEW t \in DOMAIN p \ DOMAIN ask.frozen, ~Committed(t)
  PROVE  \E k \in DOMAIN f :
           /\ k \in DOMAIN bodies /\ ~Committed(k) /\ t \in Parts(k)
           /\ f[k] \in Nat /\ bodies[k].window.start \in Nat /\ FinishOf(f, k) \in Nat
           /\ p[t] = Request!Expand(k, f[k])[t] /\ p[t] \in Spans
           /\ horizon.start <= bodies[k].window.start /\ bodies[k].window.start <= f[k]
           /\ f[k] <= p[t].start /\ p[t].start <= p[t].end /\ p[t].end <= FinishOf(f, k)
  <1>1. PICK k \in DOMAIN f : /\ ~Committed(k) /\ t \in Parts(k)
                              /\ p[t] = Request!Expand(k, f[k])[t]
    BY StepsAre
  <1>2. /\ k \in DOMAIN bodies /\ f[k] \in Nat /\ bodies[k].window \in Spans
        /\ bodies[k].length \in Nat /\ bodies[k].window.start <= f[k]
    BY SchedulesAre
  <1>3. LET piece == Request!Expand(k, f[k])
        IN /\ piece[t] \in Spans /\ f[k] <= piece[t].start
           /\ piece[t].start <= piece[t].end /\ piece[t].end <= FinishOf(f, k)
    BY <1>1, ExpandIs
  <1>4. horizon.start <= bodies[k].window.start
    BY <1>1, <1>2 DEF BodiesHold
  <1>5. bodies[k].window.start \in Nat /\ FinishOf(f, k) \in Nat
    BY <1>2 DEF Spans, FinishOf
  <1> QED
    BY <1>1, <1>2, <1>3, <1>4, <1>5

(* A commitment of the published Plan that takes capacity is in a body's     *)
(* window: its own, or that of the body that covers it.                      *)
LEMMA CommitmentIsPlaced ==
  ASSUME ask \in Requests, BodiesHold, SegmentsHold, GroupsHold, DirectHolds,
         NEW f \in Request!Schedules, NEW p, p = Request!Steps(f),
         NEW u \in DOMAIN p \ DOMAIN ask.frozen, Committed(u), ask.tasks[u].capacity
  PROVE  /\ p[u] = Own(u) /\ Own(u) \in Spans
         /\ \E e \in DOMAIN f :
              /\ Committed(e) /\ f[e] \in Nat /\ FinishOf(f, e) \in Nat
              /\ f[e] <= Own(u).start /\ Own(u).end <= FinishOf(f, e)
  <1>1. p[u] = Own(u)
    BY StepsAre
  <1>2. /\ u \in (UNION {Parts(k) : k \in DOMAIN f}) \cup DOMAIN direct \cup DOMAIN covered
        /\ DOMAIN f \subseteq DOMAIN bodies /\ Request!Anchored \subseteq DOMAIN f
    <2>1. DOMAIN p = DOMAIN ask.frozen \cup (UNION {Parts(k) : k \in DOMAIN f})
                       \cup DOMAIN direct \cup DOMAIN covered
      BY StepsAre
    <2>2. DOMAIN f \subseteq DOMAIN bodies /\ Request!Anchored \subseteq DOMAIN f
      BY SchedulesAre
    <2> QED
      BY <2>1, <2>2
  <1>3. u \notin DOMAIN direct
    BY DEF DirectHolds
  <1>4. \E e \in DOMAIN bodies :
          /\ Committed(e) /\ bodies[e].window.start <= Own(u).start
          /\ Own(u).end <= bodies[e].window.end
    <2>1. CASE u \in DOMAIN covered
      BY <2>1 DEF GroupsHold
    <2>2. CASE u \notin DOMAIN covered
      <3>1. PICK k \in DOMAIN f : u \in Parts(k)
        BY <1>2, <1>3, <2>2
      <3>2. u = k /\ k \in DOMAIN bodies
        BY <1>2, <3>1, PartsAre
      <3> QED
        BY <3>2 DEF GroupsHold
    <2> QED
      BY <2>1, <2>2
  <1>5. PICK e \in DOMAIN bodies :
          /\ Committed(e) /\ bodies[e].window.start <= Own(u).start
          /\ Own(u).end <= bodies[e].window.end
    BY <1>4
  <1>6. e \in DOMAIN f /\ bodies[e].anchored
    BY <1>2, <1>5 DEF BodiesHold, Request!Anchored
  <1>7. f[e] = bodies[e].window.start /\ f[e] \in Nat /\ bodies[e].length \in Nat
    BY <1>6, SchedulesAre
  <1>8. bodies[e].window.end = bodies[e].window.start + bodies[e].length
    BY <1>5 DEF GroupsHold
  <1>9. Own(u) \in Spans
    <2>1. u \in DOMAIN ask.tasks
      <3>1. \A k \in DOMAIN f : \A m \in Parts(k) : m \in Request!Eligible
        BY <1>2, PartsAre
      <3>2. u \in Request!Eligible
        BY <1>2, <3>1 DEF DirectHolds, GroupsHold
      <3> QED
        BY <3>2 DEF Request!Eligible, Request!Rows
    <2> QED
      BY <2>1, RowsAre DEF Own
  <1> QED
    BY <1>1, <1>5, <1>6, <1>7, <1>8, <1>9 DEF FinishOf

LEMMA WorkAvoids ==
  ASSUME ask \in Requests, FrozenIsOver, BodiesHold, SegmentsHold, GroupsHold, DirectHolds,
         NEW f \in Request!Schedules, NEW p, p = Request!Steps(f),
         NEW t \in DOMAIN p \ DOMAIN ask.frozen, ~Committed(t),
         NEW u \in DOMAIN p \ {t}, Request!Overlaps(p[t], p[u])
  PROVE  Committed(u) /\ ~ask.tasks[u].capacity
  <1>1. PICK k \in DOMAIN f :
           /\ k \in DOMAIN bodies /\ ~Committed(k) /\ t \in Parts(k)
           /\ f[k] \in Nat /\ bodies[k].window.start \in Nat /\ FinishOf(f, k) \in Nat
           /\ p[t] = Request!Expand(k, f[k])[t] /\ p[t] \in Spans
           /\ horizon.start <= bodies[k].window.start /\ bodies[k].window.start <= f[k]
           /\ f[k] <= p[t].start /\ p[t].start <= p[t].end /\ p[t].end <= FinishOf(f, k)
    BY WorkIsPlaced
  <1>2. p[t].start < p[u].end /\ p[t].end > p[u].start
    BY DEF Request!Overlaps
  <1>3. p[t].start \in Nat /\ p[t].end \in Nat /\ horizon.start \in Nat
    BY <1>1 DEF Spans, FrozenIsOver
  <1>4. \A e \in DOMAIN f : e # k => FinishOf(f, k) <= f[e] \/ FinishOf(f, e) <= f[k]
    BY SchedulesAre
  <1>5. CASE u \in DOMAIN ask.frozen
    <2>1. p[u] = ask.frozen[u]
      BY <1>5, StepsAre
    <2>2. ask.frozen[u] \in Spans
      BY <1>5, RequestConstants
    <2>3. ask.frozen[u].end <= horizon.start
      BY <1>5 DEF FrozenIsOver
    <2>4. p[u].end \in Nat /\ p[u].end <= horizon.start
      BY <2>1, <2>2, <2>3 DEF Spans
    <2> QED
      BY <1>1, <1>2, <1>3, <2>4
  <1>6. CASE u \notin DOMAIN ask.frozen /\ Committed(u)
    <2> SUFFICES ASSUME ask.tasks[u].capacity PROVE FALSE
      <3>1. ask.tasks[u].capacity \/ ~ask.tasks[u].capacity
        OBVIOUS
      <3> QED
        BY <1>6, <3>1
    <2>1. /\ p[u] = Own(u) /\ Own(u) \in Spans
          /\ \E e \in DOMAIN f :
               /\ Committed(e) /\ f[e] \in Nat /\ FinishOf(f, e) \in Nat
               /\ f[e] <= Own(u).start /\ Own(u).end <= FinishOf(f, e)
      BY <1>6, CommitmentIsPlaced
    <2>2. PICK e \in DOMAIN f :
               /\ Committed(e) /\ f[e] \in Nat /\ FinishOf(f, e) \in Nat
               /\ f[e] <= Own(u).start /\ Own(u).end <= FinishOf(f, e)
      BY <2>1
    <2>3. FinishOf(f, k) <= f[e] \/ FinishOf(f, e) <= f[k]
      BY <1>1, <1>4, <2>2
    <2>4. p[u].start \in Nat /\ p[u].end \in Nat
      BY <2>1 DEF Spans
    <2>5. f[e] <= p[u].start /\ p[u].end <= FinishOf(f, e)
      BY <2>1, <2>2
    <2> QED
      BY ONLY <1>1, <1>2, <1>3, <2>2, <2>3, <2>4, <2>5
  <1>7. CASE u \notin DOMAIN ask.frozen /\ ~Committed(u)
    <2>1. PICK e \in DOMAIN f :
             /\ u \in Parts(e) /\ f[e] \in Nat /\ FinishOf(f, e) \in Nat
             /\ p[u] = Request!Expand(e, f[e])[u] /\ p[u] \in Spans
             /\ f[e] <= p[u].start /\ p[u].end <= FinishOf(f, e)
      <3>1. u \in DOMAIN p \ DOMAIN ask.frozen
        BY <1>7
      <3> QED
        BY <1>7, <3>1, WorkIsPlaced
    <2>2. p[u].start \in Nat /\ p[u].end \in Nat
      BY <2>1 DEF Spans
    <2>3. CASE e = k
      <3>1. p[t].end <= p[u].start \/ p[u].end <= p[t].start
        BY <1>1, <2>1, <2>3, ExpandIs
      <3> QED
        BY <1>2, <1>3, <2>2, <3>1
    <2>4. CASE e # k
      <3>1. FinishOf(f, k) <= f[e] \/ FinishOf(f, e) <= f[k]
        BY <1>4, <2>4
      <3> QED
        BY ONLY <1>1, <1>2, <1>3, <2>1, <2>2, <3>1
    <2> QED
      BY <2>3, <2>4
  <1> QED
    BY <1>5, <1>6, <1>7

LEMMA WorkFollows ==
  ASSUME ask \in Requests, FrozenIsOver, BodiesHold, SegmentsHold, GroupsHold, DirectHolds,
         EdgesHold, HiddenIsOver,
         NEW f \in Request!Schedules, NEW p, p = Request!Steps(f),
         NEW t \in DOMAIN p \ DOMAIN ask.frozen, ~Committed(t), NEW d \in Waits(t) \ {t}
  PROVE  /\ Committed(d) => Own(d).end <= p[t].start
         /\ ~Committed(d) /\ d \in DOMAIN p /\ ~Request!InSegmentOrder(t, d) =>
              p[d].end <= p[t].start
  <1>1. PICK k \in DOMAIN f :
           /\ k \in DOMAIN bodies /\ ~Committed(k) /\ t \in Parts(k)
           /\ f[k] \in Nat /\ bodies[k].window.start \in Nat /\ FinishOf(f, k) \in Nat
           /\ p[t] = Request!Expand(k, f[k])[t] /\ p[t] \in Spans
           /\ horizon.start <= bodies[k].window.start /\ bodies[k].window.start <= f[k]
           /\ f[k] <= p[t].start /\ p[t].start <= p[t].end /\ p[t].end <= FinishOf(f, k)
    BY WorkIsPlaced
  <1>2. p[t].start \in Nat
    BY <1>1 DEF Spans
  <1>3. DOMAIN f \subseteq DOMAIN bodies /\ d \in Request!Eligible
    BY SchedulesAre DEF Waits
  <1>4. \A e \in DOMAIN bodies \ {k} : d \in Parts(e) =>
          e \in DOMAIN f /\ f[e] \in Nat /\ FinishOf(f, e) <= f[k]
    <2> SUFFICES ASSUME NEW e \in DOMAIN bodies \ {k}, d \in Parts(e)
                 PROVE  e \in DOMAIN f /\ f[e] \in Nat /\ FinishOf(f, e) <= f[k]
      OBVIOUS
    <2>1. e \in bodies[k].after
      BY <1>1 DEF EdgesHold
    <2> QED
      BY <2>1, SchedulesAre
  <1>5. ASSUME Committed(d) PROVE Own(d).end <= p[t].start
    <2>1. Own(d).end \in Nat
      BY <1>3, RowsAre DEF Own, Request!Eligible, Request!Rows, Spans
    <2>2. CASE d \in DOMAIN bodies
      <3>1. Parts(d) = {d} /\ d # k
        BY <1>1, <1>5, <2>2, PartsAre
      <3>2. d \in DOMAIN f /\ f[d] \in Nat /\ FinishOf(f, d) <= f[k]
        BY <1>4, <2>2, <3>1
      <3>3. bodies[d].anchored /\ f[d] = bodies[d].window.start /\ bodies[d].length \in Nat
        BY <1>5, <2>2, <3>2, SchedulesAre DEF BodiesHold
      <3>4. /\ Own(d).end <= bodies[d].window.end
            /\ bodies[d].window.end = bodies[d].window.start + bodies[d].length
        BY <1>5, <2>2 DEF GroupsHold
      <3> QED
        BY <1>1, <1>2, <2>1, <3>2, <3>3, <3>4 DEF FinishOf
    <2>3. CASE d \notin DOMAIN bodies
      <3>1. Own(d).end <= bodies[k].window.start
        BY <1>1, <1>5, <2>3 DEF HiddenIsOver
      <3> QED
        BY <1>1, <1>2, <2>1, <3>1
    <2> QED
      BY <2>2, <2>3
  <1>6. ASSUME ~Committed(d), d \in DOMAIN p, ~Request!InSegmentOrder(t, d)
        PROVE  p[d].end <= p[t].start
    <2>1. PICK e \in DOMAIN f :
             /\ e \in DOMAIN bodies /\ d \in Parts(e) /\ f[e] \in Nat /\ FinishOf(f, e) \in Nat
             /\ p[d] = Request!Expand(e, f[e])[d] /\ p[d] \in Spans
             /\ p[d].end <= FinishOf(f, e)
      <3>1. d \in DOMAIN p \ DOMAIN ask.frozen
        BY <1>3, <1>6 DEF Request!Eligible
      <3> QED
        BY <1>6, <3>1, WorkIsPlaced
    <2>2. p[d].end \in Nat
      BY <2>1 DEF Spans
    <2>3. CASE e = k
      <3>1. d \in Parts(k) /\ t \in Parts(k) /\ d # t /\ p[d] = Request!Expand(k, f[k])[d]
        BY <1>1, <2>1, <2>3
      <3>2. \/ p[d].end <= p[t].start
            \/ p[t].end <= p[d].start /\ Request!InSegmentOrder(t, d)
        BY <1>1, <3>1, ExpandIs
      <3> QED
        BY <1>6, <3>2
    <2>4. CASE e # k
      <3>1. FinishOf(f, e) <= f[k]
        BY <1>4, <2>1, <2>4
      <3> QED
        BY ONLY <1>1, <1>2, <2>1, <2>2, <3>1
    <2> QED
      BY <2>3, <2>4
  <1> QED
    BY <1>5, <1>6

(* Publish: the Plan keeps the commitments, the prerequisites and the frozen *)
(* steps.                                                                    *)
LEMMA PublishKeeps ==
  ASSUME ask \in Requests, FrozenIsOver, BodiesHold, DirectHolds, SegmentsHold, EdgesHold,
         GroupsHold, HiddenIsOver,
         Request!Commitments \subseteq DOMAIN bodies \cup DOMAIN direct \cup DOMAIN covered,
         Request!Publish
  PROVE  /\ Request!WindowsAreKept' /\ Request!WorkFollowsPrerequisites'
         /\ Request!RepairKeepsFrozen'
  <1>1. PICK f \in Request!Schedules : plan' = Request!Steps(f)
    BY DEF Request!Publish
  <1> PICK p : p = Request!Steps(f)
    OBVIOUS
  <1>2. /\ plan' = p /\ ask' = ask /\ horizon' = horizon /\ segments' = segments
    BY <1>1 DEF Request!Publish
  <1>3. /\ \A t : /\ Request!Commitment(t) = Committed(t)
                  /\ Request!Commitment(t)' = Committed(t)
        /\ Request!Rows' = ask.tasks /\ Request!Rows = ask.tasks
        /\ Request!Eligible' = Request!Eligible
        /\ Request!Commitments' = Request!Commitments
        /\ \A t, d : Request!InSegmentOrder(t, d)' = Request!InSegmentOrder(t, d)
    BY <1>2 DEF Request!Commitment, Request!Rows, Request!Eligible, Request!Commitments,
                Request!InSegmentOrder, Committed, Own
  <1>4. ASSUME NEW t \in Request!Commitments
        PROVE  t \in DOMAIN p /\ p[t] = ask.tasks[t].static
    <2>1. t \in Request!Eligible /\ Committed(t) /\ t \notin DOMAIN ask.frozen
      BY DEF Request!Commitments, Request!Eligible, Request!Rows, Committed, Own
    <2>2. t \in DOMAIN p
      <3>1. DOMAIN p = DOMAIN ask.frozen \cup (UNION {Parts(k) : k \in DOMAIN f})
                         \cup DOMAIN direct \cup DOMAIN covered
        BY StepsAre
      <3>2. t \in DOMAIN bodies => t \in DOMAIN f /\ t \in Parts(t)
        <4> SUFFICES ASSUME t \in DOMAIN bodies PROVE t \in DOMAIN f /\ t \in Parts(t)
          OBVIOUS
        <4>1. t \in Request!Anchored
          BY <2>1 DEF BodiesHold, Request!Anchored
        <4> QED
          BY <2>1, <4>1, SchedulesAre, PartsAre
      <3> QED
        BY <3>1, <3>2
    <2>3. p[t] = Own(t)
      BY <2>1, <2>2, StepsAre
    <2> QED
      BY <2>2, <2>3 DEF Own
  <1>5. \A t \in DOMAIN p \ DOMAIN ask.frozen : ~Committed(t) =>
          \A u \in DOMAIN p \ {t} :
            Request!Overlaps(p[t], p[u]) => Committed(u) /\ ~ask.tasks[u].capacity
    BY WorkAvoids
  <1>6. \A t \in DOMAIN p \ DOMAIN ask.frozen : ~Committed(t) =>
          \A d \in Waits(t) \ {t} :
            /\ Committed(d) => Own(d).end <= p[t].start
            /\ ~Committed(d) /\ d \in DOMAIN p /\ ~Request!InSegmentOrder(t, d) =>
                 p[d].end <= p[t].start
    BY WorkFollows
  <1>7. ASSUME NEW i \in DOMAIN ask.frozen
        PROVE  /\ p[i] = ask.frozen[i]
               /\ \A t \in DOMAIN p \ DOMAIN ask.frozen :
                    ~Committed(t) => ask.frozen[i].end <= p[t].start
    <2>1. p[i] = ask.frozen[i]
      BY StepsAre
    <2>2. ask.frozen[i].end \in Nat /\ ask.frozen[i].end <= horizon.start /\ horizon.start \in Nat
      BY RequestConstants DEF FrozenIsOver, Spans
    <2>3. ASSUME NEW t \in DOMAIN p \ DOMAIN ask.frozen, ~Committed(t)
          PROVE  ask.frozen[i].end <= p[t].start
      <3>1. PICK k \in DOMAIN f :
              /\ f[k] \in Nat /\ bodies[k].window.start \in Nat /\ p[t] \in Spans
              /\ horizon.start <= bodies[k].window.start /\ bodies[k].window.start <= f[k]
              /\ f[k] <= p[t].start
        BY <2>3, WorkIsPlaced
      <3> QED
        BY <2>2, <3>1 DEF Spans
    <2> QED
      BY <2>1, <2>3
  <1>8. Request!WindowsAreKept'
    <2>1. Request!CommitmentsKeepTheirs'
      BY <1>2, <1>3, <1>4 DEF Request!CommitmentsKeepTheirs
    <2>2. Request!WorkAvoidsCommitments'
      BY <1>2, <1>3, <1>5 DEF Request!WorkAvoidsCommitments
    <2> QED
      BY <2>1, <2>2 DEF Request!WindowsAreKept
  <1>9. Request!WorkFollowsPrerequisites'
    BY <1>2, <1>3, <1>6 DEF Request!WorkFollowsPrerequisites, Waits, Own
  <1>10. Request!RepairKeepsFrozen'
    BY <1>2, <1>3, <1>7 DEF Request!RepairKeepsFrozen
  <1> QED
    BY <1>8, <1>9, <1>10


-----------------------------------------------------------------------------
(* What does not change when none of these do.                               *)
LEMMA Unmoved ==
  ASSUME UNCHANGED <<ask, horizon, bodies, direct, absent, segments, covered, carried, seats>>
  PROVE  /\ FrozenIsOver' <=> FrozenIsOver
         /\ BodiesHold' <=> BodiesHold
         /\ DirectHolds' <=> DirectHolds
         /\ Request!Commitments' = Request!Commitments
         /\ AsRead' <=> AsRead
         /\ StaticsHold' <=> StaticsHold
         /\ AbsentHolds' <=> AbsentHolds
         /\ SegmentsHold' <=> SegmentsHold
         /\ EdgesHold' <=> EdgesHold
         /\ FixedEdgesHold' <=> FixedEdgesHold
         /\ GroupsHold' <=> GroupsHold
         /\ HiddenIsOver' <=> HiddenIsOver
         /\ SeatsFit' <=> SeatsFit
         /\ Seating' <=> Seating
  <1>1. /\ ask' = ask /\ horizon' = horizon /\ bodies' = bodies /\ direct' = direct
        /\ absent' = absent /\ segments' = segments /\ covered' = covered
        /\ carried' = carried /\ seats' = seats
    OBVIOUS
  <1>2. /\ Request!Eligible' = Request!Eligible /\ Request!Commitments' = Request!Commitments
        /\ Request!Dynamic' = Request!Dynamic /\ Request!Fixed' = Request!Fixed
        /\ \A t : /\ Own(t)' = Own(t) /\ Committed(t)' = Committed(t)
                  /\ Waits(t)' = Waits(t) /\ Parts(t)' = Parts(t)
    BY <1>1 DEF Request!Eligible, Request!Commitments, Request!Rows, Request!Dynamic,
                Request!Fixed, Request!Anchored, Committed, Own, Waits, Parts
  <1>3. FrozenIsOver' <=> FrozenIsOver
    BY <1>1 DEF FrozenIsOver
  <1>4. BodiesHold' <=> BodiesHold
    BY <1>1, <1>2 DEF BodiesHold
  <1>5. DirectHolds' <=> DirectHolds
    BY <1>1, <1>2 DEF DirectHolds
  <1>6. (AsRead' <=> AsRead) /\ (StaticsHold' <=> StaticsHold)
    BY <1>1, <1>2 DEF AsRead, StaticsHold
  <1>7. AbsentHolds' <=> AbsentHolds
    BY <1>1, <1>2 DEF AbsentHolds
  <1>8. SegmentsHold' <=> SegmentsHold
    BY <1>1, <1>2 DEF SegmentsHold
  <1>9. (EdgesHold' <=> EdgesHold) /\ (FixedEdgesHold' <=> FixedEdgesHold)
    BY <1>1, <1>2 DEF EdgesHold, FixedEdgesHold
  <1>10. GroupsHold' <=> GroupsHold
    BY <1>1, <1>2 DEF GroupsHold
  <1>11. HiddenIsOver' <=> HiddenIsOver
    BY <1>1, <1>2 DEF HiddenIsOver
  <1>12. (SeatsFit' <=> SeatsFit) /\ (Seating' <=> Seating)
    BY <1>1, <1>2 DEF SeatsFit, Seating
  <1> QED
    BY <1>2, <1>3, <1>4, <1>5, <1>6, <1>7, <1>8, <1>9, <1>10, <1>11, <1>12

LEMMA RequestUnmoved ==
  ASSUME RequestInv, part' = part, UNCHANGED requestVars
  PROVE  RequestInv'
  <1>1. /\ ask' = ask /\ stage' = stage /\ plan' = plan /\ bodies' = bodies
        /\ direct' = direct /\ covered' = covered /\ segments' = segments /\ horizon' = horizon
        /\ UNCHANGED <<ask, horizon, bodies, direct, absent, segments, covered, carried, seats>>
    BY DEF requestVars
  <1>2. (WindowsAreKept /\ WorkFollowsPrerequisites /\ RepairKeepsFrozen)
          => (WindowsAreKept /\ WorkFollowsPrerequisites /\ RepairKeepsFrozen)'
    <2>1. /\ Request!Eligible' = Request!Eligible /\ Request!Commitments' = Request!Commitments
          /\ Request!Rows' = Request!Rows
          /\ \A t : Request!Commitment(t)' = Request!Commitment(t)
          /\ \A t, d : Request!InSegmentOrder(t, d)' = Request!InSegmentOrder(t, d)
          /\ Request!Published' = Request!Published
      BY <1>1 DEF Request!Eligible, Request!Commitments, Request!Rows, Request!Commitment,
                  Request!InSegmentOrder, Request!Published
    <2>2. WindowsAreKept' <=> WindowsAreKept
      BY <1>1, <2>1 DEF WindowsAreKept, Request!WindowsAreKept, Request!CommitmentsKeepTheirs,
                        Request!WorkAvoidsCommitments
    <2>3. WorkFollowsPrerequisites' <=> WorkFollowsPrerequisites
      BY <1>1, <2>1 DEF WorkFollowsPrerequisites, Request!WorkFollowsPrerequisites
    <2>4. RepairKeepsFrozen' <=> RepairKeepsFrozen
      BY <1>1, <2>1 DEF RepairKeepsFrozen, Request!RepairKeepsFrozen
    <2> QED
      BY <2>2, <2>3, <2>4
  <1> QED
    BY <1>1, <1>2, Unmoved DEF RequestInv

(* Each stage of a request keeps what the next one relies on.                *)
LEMMA RequestSteps ==
  ASSUME RequestInv, part = "request", part' = part, Request!Next
  PROVE  RequestInv'
  <1> USE DEF Compiled, Clustered, Excluded
  <1> DEFINE Shrunk ==
        /\ FrozenIsOver /\ BodiesHold /\ DirectHolds /\ SegmentsHold /\ EdgesHold /\ GroupsHold
        /\ Request!Commitments \subseteq DOMAIN bodies \cup DOMAIN direct \cup DOMAIN covered
  <1>1. ask \in Requests /\ ask' = ask
    <2>1. ask' = ask
      BY DEF Request!Next, Request!Refuse, Request!Resolve, Request!Collect,
             Request!SettleConflicts, Request!Compile, Request!Cluster, Request!Exclude,
             Request!Seat, Request!SeatingEnds, Request!Propagate, Request!Finish, Request!Pop,
             Request!CallKernel, Request!RejectCycle, Request!Publish, Request!NoCandidate
    <2> QED
      BY <2>1 DEF RequestInv
  <1>2. CASE Request!Refuse
    <2>1. stage' = "refused"
      BY <1>2 DEF Request!Refuse
    <2> QED
      BY <1>1, <2>1 DEF RequestInv
  <1>3. CASE Request!Resolve
    <2>1. stage' = "collect"
      BY <1>3 DEF Request!Resolve
    <2>2. FrozenIsOver'
      BY <1>1, <1>3, ResolveKeeps
    <2> QED
      BY <1>1, <2>1, <2>2 DEF RequestInv
  <1>4. CASE Request!Collect
    <2>1. stage = "collect" /\ stage' = "settle"
      BY <1>4 DEF Request!Collect
    <2>2. FrozenIsOver
      BY <2>1 DEF RequestInv
    <2>3. /\ FrozenIsOver' /\ BodiesHold' /\ DirectHolds' /\ AsRead' /\ StaticsHold'
          /\ AbsentHolds' /\ (Request!Commitments \subseteq DOMAIN bodies \cup DOMAIN direct)'
      BY <1>1, <1>4, <2>2, CollectKeeps
    <2> QED
      BY <1>1, <2>1, <2>3 DEF RequestInv
  <1>5. CASE Request!SettleConflicts
    <2>1. stage = "settle" /\ stage' = "compile"
      BY <1>5 DEF Request!SettleConflicts
    <2>2. /\ FrozenIsOver /\ BodiesHold /\ DirectHolds /\ AsRead /\ StaticsHold
          /\ AbsentHolds /\ Request!Commitments \subseteq DOMAIN bodies \cup DOMAIN direct
      BY <2>1 DEF RequestInv
    <2>3. /\ FrozenIsOver' /\ BodiesHold' /\ DirectHolds' /\ AsRead' /\ StaticsHold'
          /\ AbsentHolds' /\ (Request!Commitments \subseteq DOMAIN bodies \cup DOMAIN direct)'
      BY <1>1, <1>5, <2>2, SettleKeeps
    <2> QED
      BY <1>1, <2>1, <2>3 DEF RequestInv
  <1>6. CASE Request!Compile
    <2>1. stage = "compile" /\ stage' = "cluster"
      BY <1>6 DEF Request!Compile
    <2>2. /\ FrozenIsOver /\ BodiesHold /\ DirectHolds /\ AsRead /\ StaticsHold
          /\ AbsentHolds /\ Request!Commitments \subseteq DOMAIN bodies \cup DOMAIN direct
      BY <2>1 DEF RequestInv
    <2>3. /\ FrozenIsOver' /\ BodiesHold' /\ DirectHolds' /\ StaticsHold' /\ AbsentHolds'
          /\ (Request!Commitments \subseteq DOMAIN bodies \cup DOMAIN direct)'
          /\ SegmentsHold' /\ EdgesHold' /\ FixedEdgesHold'
      BY <1>1, <1>6, <2>2, CompileKeeps
    <2> QED
      BY <1>1, <2>1, <2>3 DEF RequestInv
  <1>7. CASE Request!Cluster
    <2>1. stage = "cluster" /\ stage' = "exclude"
      BY <1>7 DEF Request!Cluster
    <2>2. /\ FrozenIsOver /\ BodiesHold /\ DirectHolds /\ StaticsHold /\ AbsentHolds
          /\ Request!Commitments \subseteq DOMAIN bodies \cup DOMAIN direct
          /\ SegmentsHold /\ EdgesHold /\ FixedEdgesHold
      BY <2>1 DEF RequestInv
    <2>3. /\ FrozenIsOver' /\ BodiesHold' /\ DirectHolds' /\ AbsentHolds'
          /\ (Request!Commitments \subseteq DOMAIN bodies \cup DOMAIN direct \cup DOMAIN covered)'
          /\ SegmentsHold' /\ EdgesHold' /\ FixedEdgesHold' /\ GroupsHold'
      BY <1>1, <1>7, <2>2, ClusterKeeps
    <2> QED
      BY <1>1, <2>1, <2>3 DEF RequestInv
  <1>8. stage \in Clustered => Shrunk
    BY DEF RequestInv
  <1>9. stage \in Excluded => HiddenIsOver
    BY DEF RequestInv
  <1>10. Shrunk /\ Shrinks => Shrunk' /\ (HiddenIsOver => HiddenIsOver')
    BY <1>1, ShrinkKeeps
  <1>11. CASE Request!Exclude
    <2>1. stage = "exclude" /\ stage' = "seat"
      BY <1>11 DEF Request!Exclude
    <2>2. AbsentHolds /\ FixedEdgesHold
      BY <2>1 DEF RequestInv
    <2>3. Shrinks /\ HiddenIsOver' /\ SeatsFit' /\ Seating'
      BY <1>1, <1>8, <1>11, <2>1, <2>2, ExcludeKeeps
    <2>4. Shrunk'
      BY <1>8, <1>10, <2>1, <2>3
    <2> QED
      BY <1>1, <2>1, <2>3, <2>4 DEF RequestInv
  <1>12. CASE Request!Seat
    <2>1. /\ stage = "seat" /\ stage' = "seat" /\ ask' = ask /\ horizon' = horizon
          /\ bodies' = bodies /\ direct' = direct /\ segments' = segments
          /\ covered' = covered /\ carried' = carried
      BY <1>12 DEF Request!Seat
    <2>2. BodiesHold /\ SeatsFit /\ Seating
      BY <2>1 DEF RequestInv
    <2>3. SeatsFit' /\ Seating'
      BY <1>1, <1>12, <2>2, SeatKeeps
    <2>4. Shrinks
      BY <2>1, <2>2 DEF Shrinks, BodiesHold, BodyRecords, Spans
    <2>5. Shrunk' /\ HiddenIsOver'
      BY <1>8, <1>9, <1>10, <2>1, <2>4
    <2> QED
      BY <1>1, <2>1, <2>3, <2>5 DEF RequestInv
  <1>13. CASE Request!SeatingEnds
    <2>1. stage = "seat" /\ stage' = "propagate"
      BY <1>13 DEF Request!SeatingEnds
    <2>2. SeatsFit /\ Seating
      BY <2>1 DEF RequestInv
    <2>3. Shrinks /\ SeatsFit'
      BY <1>8, <1>13, <2>1, <2>2, SeatingEndsKeeps
    <2>4. Shrunk' /\ HiddenIsOver'
      BY <1>8, <1>9, <1>10, <2>1, <2>3
    <2> QED
      BY <1>1, <2>1, <2>3, <2>4 DEF RequestInv
  <1>14. CASE Request!Propagate
    <2>1. stage = "propagate" /\ stage' = "propagate"
      BY <1>14 DEF Request!Propagate
    <2>2. SeatsFit
      BY <2>1 DEF RequestInv
    <2>3. Shrinks /\ SeatsFit'
      BY <1>8, <1>14, <2>1, <2>2, PropagateKeeps
    <2>4. Shrunk' /\ HiddenIsOver'
      BY <1>8, <1>9, <1>10, <2>1, <2>3
    <2> QED
      BY <1>1, <2>1, <2>3, <2>4 DEF RequestInv
  <1>15. CASE Request!Finish
    <2>1. stage = "propagate" /\ stage' = "order"
      BY <1>15 DEF Request!Finish, Request!AllPropagated
    <2>2. Shrinks
      BY <1>1, <1>8, <1>15, <2>1, FinishKeeps
    <2>3. Shrunk' /\ HiddenIsOver'
      BY <1>8, <1>9, <1>10, <2>1, <2>2
    <2> QED
      BY <1>1, <2>1, <2>3 DEF RequestInv
  <1>16. ASSUME stage \in {"order", "kernel"}, stage' \in {"order", "kernel", "cyclic", "nothing"},
                UNCHANGED <<horizon, bodies, direct, absent, segments, covered, carried, seats>>
         PROVE  RequestInv'
    <2>1. Shrunk /\ HiddenIsOver
      BY <1>8, <1>9, <1>16
    <2>2. Shrunk' /\ HiddenIsOver'
      BY <1>1, <1>16, <2>1, Unmoved
    <2> QED
      BY <1>1, <1>16, <2>2 DEF RequestInv
  <1>17. CASE Request!Pop
    BY <1>16, <1>17 DEF Request!Pop
  <1>18. CASE Request!CallKernel
    BY <1>16, <1>18 DEF Request!CallKernel
  <1>19. CASE Request!RejectCycle
    BY <1>16, <1>19 DEF Request!RejectCycle
  <1>20. CASE Request!NoCandidate
    BY <1>16, <1>20 DEF Request!NoCandidate
  <1>21. CASE Request!Publish
    <2>1. stage = "kernel" /\ stage' = "published"
      BY <1>21 DEF Request!Publish
    <2>2. /\ UNCHANGED <<ask, horizon, bodies, direct, absent, segments, covered, carried, seats>>
      BY <1>21 DEF Request!Publish
    <2>3. Shrunk /\ HiddenIsOver
      BY <1>8, <1>9, <2>1
    <2>4. /\ Request!WindowsAreKept' /\ Request!WorkFollowsPrerequisites'
          /\ Request!RepairKeepsFrozen'
      BY <1>1, <1>21, <2>3, PublishKeeps
    <2>5. FrozenIsOver'
      BY <2>2, <2>3, Unmoved
    <2>6. WindowsAreKept' /\ WorkFollowsPrerequisites' /\ RepairKeepsFrozen'
      BY <2>4 DEF WindowsAreKept, WorkFollowsPrerequisites, RepairKeepsFrozen
    <2> QED
      BY <1>1, <2>1, <2>5, <2>6 DEF RequestInv
  <1> QED
    BY <1>2, <1>3, <1>4, <1>5, <1>6, <1>7, <1>11, <1>12, <1>13, <1>14, <1>15, <1>17, <1>18,
       <1>19, <1>20, <1>21 DEF Request!Next
-----------------------------------------------------------------------------
(* RequestInvariant: at every stage of a request the bodies stand for what    *)
(* was read: a commitment in its own window or its group's, the Tasks of a   *)
(* segment in one body, and every prerequisite of theirs as an edge, or over *)
(* before the body's window starts (services/planning_service.rs).           *)
THEOREM RequestInvariant == PlanningSpec => []RequestInv
  <1>1. PlanningInit => RequestInv
    <2> SUFFICES ASSUME PlanningInit PROVE RequestInv
      OBVIOUS
    <2>1. ask \in Requests /\ stage = "horizon"
      BY DEF PlanningInit, Request!Init
    <2> QED
      BY <2>1 DEF RequestInv, Compiled, Clustered, Excluded
  <1>2. RequestInv /\ [PlanningNext]_<<part, now, vars, requestVars, adviceVars, childVars>>
          => RequestInv'
    <2> SUFFICES ASSUME RequestInv,
                        [PlanningNext]_<<part, now, vars, requestVars, adviceVars, childVars>>
                 PROVE  RequestInv'
      OBVIOUS
    <2>1. CASE part' = part /\ UNCHANGED requestVars
      BY <2>1, RequestUnmoved
    <2>2. CASE part = "request" /\ part' = part /\ Request!Next
      BY <2>2, RequestSteps
    <2> QED
      BY <2>1, <2>2 DEF PlanningNext
  <1> QED
    BY <1>1, <1>2, PTL DEF PlanningSpec

(* CommitmentsKeep: whatever the store holds, and wherever the kernel places  *)
(* the rest within its contract, every Static Task inside the horizon is in  *)
(* the published Plan at its own window - anchored, standing for a group,    *)
(* covered by one or past the kernel - and no work shares time with other    *)
(* work, with a frozen step or with a commitment that takes capacity         *)
(* (services/planning_service.rs).                                           *)
THEOREM CommitmentsKeep == PlanningSpec => []WindowsAreKept
  <1>1. RequestInv => WindowsAreKept
    BY DEF RequestInv, WindowsAreKept, Request!WindowsAreKept, Request!Published
  <1> QED
    BY <1>1, RequestInvariant, PTL

(* PrerequisitesComeFirst: published work starts after the end of each of its *)
(* prerequisites, through segments and groups, and also of the commitments    *)
(* the kernel did not see; only inside a segment its own order wins           *)
(* (build_request_from_store_with_context, compile_segments and              *)
(* expand_segment in services/planning_service.rs).                          *)
THEOREM PrerequisitesComeFirst == PlanningSpec => []WorkFollowsPrerequisites
  <1>1. RequestInv => WorkFollowsPrerequisites
    BY DEF RequestInv, WorkFollowsPrerequisites, Request!WorkFollowsPrerequisites,
           Request!Published
  <1> QED
    BY <1>1, RequestInvariant, PTL

(* FrozenStays: a repair's Plan has every frozen step where it was, and all   *)
(* of its new work after them (frozen_steps_for_plan and merge_steps in      *)
(* services/planning_service.rs).                                            *)
THEOREM FrozenStays == PlanningSpec => []RepairKeepsFrozen
  <1>1. RequestInv => RepairKeepsFrozen
    BY DEF RequestInv, RepairKeepsFrozen, Request!RepairKeepsFrozen, Request!Published
  <1> QED
    BY <1>1, RequestInvariant, PTL

(* SeatsFitTogether: the occurrences a request keeps have seats in their      *)
(* windows, after their prerequisites' seats, that share no time with one    *)
(* another or with a fixed commitment, and dropping those that found none    *)
(* takes no seat from the others (services/planning_service.rs).             *)
THEOREM SeatsFitTogether == PlanningSpec => []OccurrencesFitTogether
  <1>1. RequestInv => OccurrencesFitTogether
    BY DEF RequestInv, OccurrencesFitTogether, Request!OccurrencesFitTogether, SeatsFit
  <1> QED
    BY <1>1, RequestInvariant, PTL

(* PreferredRanksHigher: outside a preference cycle a Task preferred to       *)
(* another has the higher value and the earlier place in the order, however  *)
(* long the chains of preferences and indifferences between them             *)
(* (services/task_priority.rs).                                              *)
THEOREM PreferredRanksHigher == PlanningSpec => []PreferredIsWorthMore
  <1>1. RequestInv => PreferredIsWorthMore
    <2>1. part = "request" /\ RequestInv => ask \in Requests
      BY DEF RequestInv
    <2> QED
      BY <2>1, PreferenceHolds DEF PreferredIsWorthMore
  <1> QED
    BY <1>1, RequestInvariant, PTL

=============================================================================
