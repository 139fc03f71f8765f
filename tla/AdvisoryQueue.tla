--------------------------- MODULE AdvisoryQueue ----------------------------
(* The advisory queue: runs that ask a model for proposals about a Task, and *)
(* the operator's decisions on what they proposed.  A run and a decision     *)
(* hold advisory_run_lock; an answer and a resurfacing do not, and nor do    *)
(* the edits of the Task and of UniverseState that go on meanwhile.          *)
(*                                                                           *)
(* Abstracted: one Task; a precondition tree is a value with the fact names  *)
(* it needs, false while one is missing; the model's answer is any proposal  *)
(* its response schema admits, or none; asked again about the Task, an       *)
(* interviewer asks the same questions.  The texts, the envelopes, the       *)
(* retention policy and the titles in the responses are left out.            *)
EXTENDS Naturals, Sequences, FiniteSets

CONSTANTS Handlers,    \* requests in flight
          Free,        \* no holder of a lock
          Producers,   \* the producers this instance asks
          Trees,       \* precondition trees
          NoTree,      \* a Task without precondition
          Facts,       \* names of facts and numbers
          Needs,       \* the facts a tree reads
          Seed, Ceiling,    \* review snooze Settings, in days
          QueueLimit,       \* MAX_AWAITING_REVIEW
          MaxRequests, MaxEdits, MaxDays   \* bounds of the instance

Kinds == {"precondition", "review", "vocabulary", "clarify"}

ASSUME QueueConstants ==
  /\ Free \notin Handlers
  /\ Producers \subseteq Kinds
  /\ Seed \in Nat /\ Ceiling \in Nat

VARIABLES task,        \* the Task row: version, active, its tree, its interviews
          world,       \* the UniverseState row: version, facts recorded
          candidates,  \* advisory_candidates, in rowid order
          decisions,   \* candidate_decision_events of reviews, in rowid order
          runLock,     \* holder of advisory_run_lock
          actionLock,  \* holder of task_action_lock
          request,     \* what each handler is doing
          day, requests, edits

vars == <<task, world, candidates, decisions, runLock, actionLock, request,
          day, requests, edits>>

Open == {"proposed", "resurfaced"}

Idle == [op |-> "none", pc |-> "idle", producer |-> "none", force |-> FALSE,
         existing |-> NoTree, names |-> {}, proposed |-> "none", target |-> 0,
         seen |-> 0, worldSeen |-> 0, read |-> [version |-> 0]]

Id == DOMAIN candidates

At(h, pc) == request[h].pc = pc

Go(h, pc) == request' = [request EXCEPT ![h].pc = pc]

Ends(h) ==
  /\ request' = [request EXCEPT ![h] = Idle]
  /\ runLock' = IF runLock = h THEN Free ELSE runLock
  /\ actionLock' = IF actionLock = h THEN Free ELSE actionLock

-----------------------------------------------------------------------------
(* Identity, suppression and the snooze of a review *)

(* A review is known by the requirement it examines, any other proposal by   *)
(* all it says.                                                              *)
KeyOf(kind, existing, proposed) ==
  IF kind = "review" THEN <<kind, existing>> ELSE <<kind, existing, proposed>>

Key(c) == KeyOf(c.kind, c.existing, c.proposed)

SameKey(kind, existing, proposed) ==
  {i \in Id : Key(candidates[i]) = KeyOf(kind, existing, proposed)}

(* Dismissals since a review of the Task was last admitted.                  *)
Dismissals ==
  Cardinality({i \in DOMAIN decisions :
    /\ decisions[i].to \in {"deferred", "rejected"}
    /\ \A j \in i..Len(decisions) : decisions[j].to # "admitted"})

(* A tree is accepted on a vocabulary that has every name it reads.          *)
Evaluable(tree, names) == Needs[tree] \subseteq names

Blocked == task.tree # NoTree /\ ~ Evaluable(task.tree, world.facts)

Least(a, b) == IF a <= b THEN a ELSE b

(* Doubling per dismissal up to the ceiling; a Task its requirement blocks   *)
(* is not held past the seed.                                                *)
Interval ==
  LET doubled == Seed * 2 ^ Dismissals
      escalated == IF doubled \in 0..Ceiling THEN doubled ELSE Ceiling
  IN IF Blocked THEN Least(escalated, Seed) ELSE escalated

(* The latest event of any candidate with this review key.                   *)
Latest(existing) ==
  {i \in DOMAIN decisions :
    /\ candidates[decisions[i].target].existing = existing
    /\ \A j \in (i + 1)..Len(decisions) :
         candidates[decisions[j].target].existing # existing}

WrongHeld(existing) ==
  \E i \in Latest(existing) : decisions[i].to = "rejected" /\ decisions[i].until > day

Held(existing) ==
  \E i \in Latest(existing) : /\ decisions[i].to \in {"deferred", "rejected"}
                              /\ decisions[i].until > day

OpenReviews(existing) ==
  {i \in Id : /\ candidates[i].kind = "review"
              /\ candidates[i].existing = existing
              /\ candidates[i].state \in Open \cup {"deferred"}}

-----------------------------------------------------------------------------
Init ==
  /\ \E t \in Trees \cup {NoTree}, facts \in SUBSET Facts :
       /\ task = [version |-> 1, active |-> TRUE, tree |-> t, said |-> {}]
       /\ world = [version |-> 1, facts |-> facts]
  /\ candidates = <<>> /\ decisions = <<>>
  /\ runLock = Free /\ actionLock = Free
  /\ request = [h \in Handlers |-> Idle]
  /\ day = 0 /\ requests = 0 /\ edits = 0

(* POST /advisory/run before the controller is called: no lock is held.      *)

Waiting(kind) == Cardinality({i \in Id : /\ candidates[i].kind = kind
                                         /\ candidates[i].state \in Open})

InterviewOpen ==
  \E i \in Id : candidates[i].kind = "clarify"
                /\ candidates[i].state \in Open \cup {"deferred"}

(* What a producer finds to ask about; nothing answers the request at once.  *)
AdvisorSelects == task.active /\ Waiting("precondition") < QueueLimit /\ world.facts # {}
NamerSelects == task.active /\ Waiting("vocabulary") < QueueLimit
ReviewerSelects == task.active /\ task.tree # NoTree
InterviewerSelects == task.active /\ ~ InterviewOpen

Selects(producer) ==
  \/ producer = "precondition" /\ AdvisorSelects
  \/ producer = "vocabulary" /\ NamerSelects
  \/ producer = "review" /\ ReviewerSelects
  \/ producer = "clarify" /\ InterviewerSelects

Ask(h) ==
  /\ At(h, "idle") /\ requests < MaxRequests
  /\ \E p \in Producers, force \in BOOLEAN :
       /\ Selects(p) /\ (force => p = "review")
       /\ request' = [request EXCEPT ![h] =
            [Idle EXCEPT !.op = "run", !.pc = "lock", !.producer = p,
                         !.force = force, !.names = world.facts,
                         !.existing = IF p = "review" THEN task.tree ELSE NoTree]]
  /\ requests' = requests + 1
  /\ UNCHANGED <<task, world, candidates, decisions, runLock, actionLock, day, edits>>

(* The operator's click carries the version on the screen.                   *)
Decide(h) ==
  /\ At(h, "idle") /\ requests < MaxRequests /\ requests' = requests + 1
  /\ \E c \in Id, op \in {"admit", "reject", "defer", "resurface"} :
       /\ candidates[c].state \in Open \cup {"deferred"}
       /\ (op = "resurface") = (candidates[c].state = "deferred")
       /\ LET answers == op = "admit" /\ candidates[c].kind = "clarify"
          IN request' = [request EXCEPT ![h] =
               [Idle EXCEPT !.op = IF answers THEN "answer" ELSE op, !.target = c,
                            !.seen = candidates[c].version,
                            !.pc = IF answers THEN "prepare"
                                   ELSE IF op = "resurface" THEN "resurface"
                                   ELSE "lock"]]
  /\ UNCHANGED <<task, world, candidates, decisions, runLock, actionLock, day, edits>>

WrongEnter(h) ==
  /\ At(h, "lock")
  /\ runLock' = h
  /\ Go(h, CASE request[h].op = "run" -> "screen"
             [] request[h].op = "admit" -> "review"
             [] OTHER -> "settle")
  /\ UNCHANGED <<task, world, candidates, decisions, actionLock, day, requests, edits>>

Enter(h) ==
  /\ At(h, "lock") /\ runLock = Free
  /\ runLock' = h
  /\ Go(h, CASE request[h].op = "run" -> "screen"
             [] request[h].op = "admit" -> "review"
             [] OTHER -> "settle")
  /\ UNCHANGED <<task, world, candidates, decisions, actionLock, day, requests, edits>>

-----------------------------------------------------------------------------
(* run_advisory, under advisory_run_lock *)

(* eligible: a requirement with a review in the queue or on hold is not      *)
(* asked about; one whose review was deferred and is due goes back to the    *)
(* queue instead.                                                            *)
Screen(h) ==
  /\ At(h, "screen")
  /\ LET r == request[h]
         open == OpenReviews(r.existing)
     IN IF r.producer # "review"
          THEN Go(h, "model") /\ UNCHANGED <<runLock, actionLock>>
        ELSE IF (\E i \in open : candidates[i].state \in Open)
                  \/ (~ r.force /\ Held(r.existing))
          THEN Ends(h)
        ELSE /\ UNCHANGED <<runLock, actionLock>>
             /\ IF open = {} THEN Go(h, "model")
                ELSE \E i \in open : request' = [request EXCEPT
                       ![h].pc = "return", ![h].target = i,
                       ![h].seen = candidates[i].version]
  /\ UNCHANGED <<task, world, candidates, decisions, day, requests, edits>>

(* A candidate's transition, with the decision event the store appends.      *)
Transition(c, to, until) ==
  /\ candidates' = [candidates EXCEPT ![c].state = to, ![c].version = @ + 1]
  /\ decisions' = IF candidates[c].kind = "review"
                    THEN Append(decisions, [target |-> c, to |-> to, until |-> until])
                    ELSE decisions

Return(h) ==
  /\ At(h, "return")
  /\ LET c == request[h].target
     IN IF candidates[c].version = request[h].seen
          THEN Transition(c, "resurfaced", 0)
          ELSE UNCHANGED <<candidates, decisions>>
  /\ Ends(h)
  /\ UNCHANGED <<task, world, day, requests, edits>>

(* The model's answer, as each response schema bounds it; transport failures *)
(* and malformed answers propose nothing.                                    *)
AdvisorProposals(r) == {t \in Trees : Evaluable(t, r.names)}
ReviewerProposals(r) == (AdvisorProposals(r) \ {r.existing}) \cup {NoTree}
NamerProposals(r) == Facts \ r.names
InterviewerProposals(r) == {"questions"}

Proposals(r) ==
  CASE r.producer = "precondition" -> AdvisorProposals(r)
    [] r.producer = "review" -> ReviewerProposals(r)
    [] r.producer = "vocabulary" -> NamerProposals(r)
    [] OTHER -> InterviewerProposals(r)

ModelAnswers(h) ==
  /\ At(h, "model")
  /\ \E p \in Proposals(request[h]) :
       request' = [request EXCEPT ![h].pc = "vet", ![h].proposed = p]
  /\ UNCHANGED <<task, world, candidates, decisions, runLock, actionLock, day, requests, edits>>

ModelFails(h) ==
  /\ At(h, "model")
  /\ Ends(h)
  /\ UNCHANGED <<task, world, candidates, decisions, day, requests, edits>>

(* vet_result of the producer: checked against what is recorded now, and the *)
(* precondition to be replaced is read from the Task.                        *)
AdvisorPasses(r) == task.active /\ Evaluable(r.proposed, world.facts)
ReviewerPasses(r) ==
  /\ task.active /\ task.tree = r.existing
  /\ r.proposed = NoTree \/ Evaluable(r.proposed, world.facts)
NamerPasses(r) == task.active /\ r.proposed \notin world.facts

Passes(r) ==
  \/ r.producer = "precondition" /\ AdvisorPasses(r)
  \/ r.producer = "review" /\ ReviewerPasses(r)
  \/ r.producer = "vocabulary" /\ NamerPasses(r)
  \/ r.producer = "clarify"

Vet(h) ==
  /\ At(h, "vet")
  /\ IF Passes(request[h])
       THEN /\ request' = [request EXCEPT ![h].pc = "store",
                 ![h].existing = IF request[h].producer = "precondition"
                                   THEN task.tree ELSE @]
            /\ UNCHANGED <<runLock, actionLock>>
       ELSE Ends(h)
  /\ UNCHANGED <<task, world, candidates, decisions, day, requests, edits>>

(* Rejected once is suppressed; a precondition proposal is stored once ever. *)
Storable(r) ==
  LET same == SameKey(r.producer, r.existing, r.proposed)
  IN \/ r.producer = "review"
     \/ /\ \A i \in same : candidates[i].state # "rejected"
        /\ r.producer = "precondition" => same = {}

StoreCandidate(h) ==
  /\ At(h, "store")
  /\ LET r == request[h]
     IN candidates' = IF Storable(r)
          THEN Append(candidates, [kind |-> r.producer, state |-> "proposed",
                 version |-> 1, existing |-> r.existing, proposed |-> r.proposed])
          ELSE candidates
  /\ Ends(h)
  /\ UNCHANGED <<task, world, decisions, day, requests, edits>>

-----------------------------------------------------------------------------
(* Decisions *)

Stale(h) == candidates[request[h].target].version # request[h].seen

Refused(h) == Ends(h) /\ UNCHANGED <<task, world, candidates, decisions, day, requests, edits>>

(* reject and defer: the snooze is worked out and stored with the decision;  *)
(* the operator may ask for any span up to the ceiling.                      *)
Settle(h) ==
  /\ At(h, "settle")
  /\ LET c == request[h].target
         to == IF request[h].op = "reject" THEN "rejected" ELSE "deferred"
     IN IF Stale(h) \/ candidates[c].state \notin Open THEN Refused(h)
        ELSE /\ IF candidates[c].kind = "review"
                  THEN \E asked \in {Interval, Ceiling} :
                         Transition(c, to, day + IF Blocked THEN Least(asked, Seed) ELSE asked)
                  ELSE Transition(c, to, 0)
             /\ Ends(h)
             /\ UNCHANGED <<task, world, day, requests, edits>>

(* POST resurface, under no lock.                                            *)
Resurface(h) ==
  /\ At(h, "resurface")
  /\ LET c == request[h].target
     IN IF Stale(h) \/ candidates[c].state # "deferred" THEN Refused(h)
        ELSE Transition(c, "resurfaced", 0) /\ Ends(h)
             /\ UNCHANGED <<task, world, day, requests, edits>>

(* admit reads the candidate; a target name is admitted under                *)
(* task_action_lock, which is taken after advisory_run_lock.                 *)
Review(h) ==
  /\ At(h, "review")
  /\ IF Stale(h) THEN Refused(h)
     ELSE /\ Go(h, IF candidates[request[h].target].kind = "vocabulary"
                     THEN "action" ELSE "prepare")
          /\ UNCHANGED <<task, world, candidates, decisions, runLock, actionLock,
                         day, requests, edits>>

TakeAction(h) ==
  /\ At(h, "action") /\ actionLock = Free
  /\ actionLock' = h
  /\ Go(h, "prepare")
  /\ UNCHANGED <<task, world, candidates, decisions, runLock, day, requests, edits>>

(* The pure application of a proposal, on the Task and the facts as read.    *)
TreeApplies(c) ==
  /\ task.tree = c.existing
  /\ c.proposed = NoTree \/ Evaluable(c.proposed, world.facts)
NameApplies(c) == c.proposed \notin world.facts

Applies(c) ==
  /\ task.active
  /\ \/ c.kind \in {"precondition", "review"} /\ TreeApplies(c)
     \/ c.kind = "vocabulary" /\ NameApplies(c)
     \/ c.kind = "clarify"

Prepare(h) ==
  /\ At(h, "prepare")
  /\ IF Stale(h) \/ ~ Applies(candidates[request[h].target]) THEN Refused(h)
     ELSE /\ request' = [request EXCEPT ![h].pc = "commit",
                            ![h].read = task, ![h].worldSeen = world.version]
          /\ UNCHANGED <<task, world, candidates, decisions, runLock, actionLock,
                         day, requests, edits>>

WrongObserved(h) ==
  LET c == candidates[request[h].target]
  IN /\ request[h].read.version = task.version
     /\ c.kind = "vocabulary" => request[h].worldSeen = world.version

(* The rows whose version the envelope observes.                             *)
Observed(h) ==
  LET c == candidates[request[h].target]
  IN /\ request[h].read.version = task.version
     /\ (c.kind \in {"precondition", "review"} /\ c.proposed # NoTree)
          \/ c.kind = "vocabulary" => request[h].worldSeen = world.version

(* The Task as it was read, with the proposal applied.                       *)
Rewritten(c, i, read) ==
  IF c.kind = "clarify" THEN [read EXCEPT !.said = @ \cup {i}]
  ELSE [read EXCEPT !.tree = c.proposed]

Commit(h) ==
  /\ At(h, "commit")
  /\ LET i == request[h].target
         c == candidates[i]
     IN IF Stale(h) \/ c.state \notin Open \/ ~ Observed(h) THEN Refused(h)
        ELSE /\ Transition(i, "admitted", 0)
             /\ task' = IF c.kind = "vocabulary" THEN task
                        ELSE [Rewritten(c, i, request[h].read) EXCEPT
                                !.version = task.version + 1]
             /\ world' = IF c.kind = "vocabulary"
                           THEN [version |-> world.version + 1,
                                 facts |-> world.facts \cup {c.proposed}]
                           ELSE world
             /\ Ends(h)
             /\ UNCHANGED <<day, requests, edits>>

-----------------------------------------------------------------------------
(* The rest of the program and the owner *)

EditTask ==
  /\ edits < MaxEdits /\ edits' = edits + 1
  /\ \/ \E t \in Trees \cup {NoTree} : t # task.tree /\ task.active
          /\ task' = [task EXCEPT !.tree = t, !.version = @ + 1]
     \/ task' = [task EXCEPT !.active = ~ @, !.version = @ + 1]
  /\ UNCHANGED <<world, candidates, decisions, runLock, actionLock, request, day, requests>>

(* universe_state::apply holds task_action_lock for one read and one write.  *)
EditWorld ==
  /\ edits < MaxEdits /\ edits' = edits + 1
  /\ actionLock = Free
  /\ \E f \in Facts :
       world' = [version |-> world.version + 1,
                 facts |-> IF f \in world.facts THEN world.facts \ {f}
                           ELSE world.facts \cup {f}]
  /\ UNCHANGED <<task, candidates, decisions, runLock, actionLock, request, day, requests>>

NextDay ==
  /\ day < MaxDays /\ day' = day + 1
  /\ UNCHANGED <<task, world, candidates, decisions, runLock, actionLock, request, requests, edits>>

Step(h) ==
  \/ Screen(h) \/ Return(h) \/ ModelAnswers(h) \/ ModelFails(h) \/ Vet(h)
  \/ StoreCandidate(h) \/ Settle(h) \/ Resurface(h) \/ Review(h) \/ Prepare(h)
  \/ Commit(h)

Next ==
  \/ \E h \in Handlers : Ask(h) \/ Decide(h) \/ Enter(h) \/ TakeAction(h) \/ Step(h)
  \/ EditTask \/ EditWorld \/ NextDay

Spec == Init /\ [][Next]_vars

-----------------------------------------------------------------------------
(* A precondition, a removal and a target name are admitted only onto the    *)
(* Task and the facts they were reviewed against: at the instant of the      *)
(* write the Task is active with the tree the proposal replaces, and every   *)
(* fact the new tree needs is recorded, whatever was edited since the reads. *)
AdmittedAsReviewed ==
  [][\A i \in Id :
       candidates[i].state # "admitted" /\ candidates'[i].state = "admitted"
         => Applies(candidates[i])]_vars

(* A run that is not forced neither asks about a requirement whose last      *)
(* decision holds it, nor puts its deferred review back.                     *)
HoldsAreKept ==
  [][\A h \in Handlers :
       request[h].producer = "review" /\ ~ request[h].force /\ At(h, "screen")
       /\ request'[h].pc \in {"model", "return"}
         => \A i \in DOMAIN decisions :
              \/ decisions[i].until <= day
              \/ candidates[decisions[i].target].existing # request[h].existing
              \/ \E j \in (i + 1)..Len(decisions) :
                   candidates[decisions[j].target].existing = request[h].existing]_vars

(* However runs, answers, decisions and resurfacings interleave, one         *)
(* requirement has at most one review that is waiting or set aside, and the  *)
(* interviews a Task holds are exactly those that were answered: an answer   *)
(* takes no lock, and none is lost or written twice.                         *)
OneOpenReview ==
  \A t \in Trees : Cardinality(OpenReviews(t)) <= 1

AnswersAreKept ==
  task.said = {i \in Id : candidates[i].kind = "clarify" /\ candidates[i].state = "admitted"}

QueueInv == OneOpenReview /\ AnswersAreKept

=============================================================================
