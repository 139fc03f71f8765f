------------------------ MODULE AdvisoryQueue_proofs ------------------------
(* What the advisory queue promises, for every set of requests, trees and    *)
(* facts and every value of the bounds.                                      *)
EXTENDS AdvisoryQueue, FiniteSetTheorems, TLAPS

States == Open \cup {"deferred", "rejected", "admitted"}

Proposal == Trees \cup {NoTree} \cup Facts \cup {"none", "questions"}

TaskRow == [version : Nat, active : BOOLEAN, tree : Trees \cup {NoTree}, said : SUBSET Nat]

WorldRow == [version : Nat, facts : SUBSET Facts]

Candidate == [kind : Kinds, state : States, version : Nat,
              existing : Trees \cup {NoTree}, proposed : Proposal]

Decision == [target : Nat, to : States, until : Nat]

Steps == {"idle", "lock", "screen", "return", "model", "vet", "store", "settle",
          "resurface", "review", "action", "prepare", "commit"}

Work == [op : {"none", "run", "admit", "reject", "defer", "resurface", "answer"},
         pc : Steps, producer : Kinds \cup {"none"}, force : BOOLEAN,
         existing : Trees \cup {NoTree}, names : SUBSET Facts, proposed : Proposal,
         target : Nat, seen : Nat, worldSeen : Nat, read : TaskRow \cup [version : {0}]]

TypeOK ==
  /\ task \in TaskRow /\ world \in WorldRow
  /\ candidates \in Seq(Candidate) /\ decisions \in Seq(Decision)
  /\ request \in [Handlers -> Work]
  /\ day \in Nat

-----------------------------------------------------------------------------
(* The parts of the inductive invariant *)

(* A run is inside only under advisory_run_lock.                             *)
Running == {"screen", "return", "model", "vet", "store"}
RunsAlone == \A h \in Handlers : request[h].pc \in Running => runLock = h

(* What is proposed fits the kind of the proposal.                           *)
Proposable(kind) ==
  CASE kind = "vocabulary" -> Facts
    [] kind = "clarify" -> {"questions"}
    [] OTHER -> Trees \cup {NoTree}

ProposalsFit == \A i \in Id : candidates[i].proposed \in Proposable(candidates[i].kind)

ProposesWhatFits(h) ==
  /\ \/ request[h].pc \in {"screen", "model", "vet", "store"}
     \/ request[h].pc = "lock" /\ request[h].op = "run"
     => request[h].producer \in Kinds
  /\ request[h].pc \in {"vet", "store"} =>
       request[h].proposed \in Proposable(request[h].producer)

(* A decision is about a candidate of the queue.                             *)
Deciding == {"return", "settle", "resurface", "review", "action", "prepare", "commit"}
Aimed(h) ==
  request[h].pc \in Deciding \/ (request[h].pc = "lock" /\ request[h].op # "run")
    => request[h].target \in Id

(* A review about to go back to the queue is set aside, unless its version   *)
(* has moved.                                                                *)
ReturnsDeferred(h) ==
  request[h].pc = "return" =>
    LET c == candidates[request[h].target]
    IN /\ request[h].seen <= c.version
       /\ request[h].seen = c.version => c.state = "deferred"

(* A run that asks about a requirement found no review of it open.           *)
AsksOnce(h) ==
  request[h].pc \in {"model", "vet", "store"} /\ request[h].producer = "review"
    => OpenReviews(request[h].existing) = {}

(* What an admission is about to write was read together, and still applies  *)
(* while the versions its envelope observes have not moved.                  *)
CommitsWhatItRead(h) ==
  request[h].pc = "commit" =>
    LET r == request[h]
        c == candidates[r.target]
    IN /\ r.read \in TaskRow
       /\ r.read.version <= task.version /\ r.worldSeen <= world.version
       /\ r.seen <= c.version
       /\ r.read.version = task.version => r.read = task
       /\ r.seen = c.version /\ Observed(h) => Applies(c)

InFlight(h) ==
  /\ Aimed(h) /\ ProposesWhatFits(h) /\ ReturnsDeferred(h)
  /\ AsksOnce(h) /\ CommitsWhatItRead(h)

(* Two open reviews of a requirement are one.                                *)
OpenReviewsAgree ==
  \A t \in Trees \cup {NoTree} : \A i, j \in OpenReviews(t) : i = j

(* Only a deferral or a rejection holds a requirement.                       *)
OthersHoldNothing ==
  \A i \in DOMAIN decisions : decisions[i].to \notin {"deferred", "rejected"}
                                => decisions[i].until = 0

AdvisoryInv ==
  /\ TypeOK /\ RunsAlone
  /\ \A h \in Handlers : InFlight(h)
  /\ ProposalsFit /\ OpenReviewsAgree /\ AnswersAreKept /\ OthersHoldNothing

-----------------------------------------------------------------------------
(* Facts about the operators of the queue *)

SameAim(w, r) ==
  /\ w.op = r.op /\ w.producer = r.producer /\ w.existing = r.existing
  /\ w.proposed = r.proposed /\ w.target = r.target /\ w.seen = r.seen

(* Work that goes on is still work.                                          *)
LEMMA WorkGoesOn ==
  ASSUME NEW r \in Work, NEW pc \in Steps
  PROVE  LET w == [r EXCEPT !.pc = pc]
         IN w \in Work /\ w.pc = pc /\ SameAim(w, r)
  BY DEF Work, SameAim

(* A handler that goes on, or ends, stays typed; no other one moves.         *)
LEMMA GoEffect ==
  ASSUME TypeOK, NEW h \in Handlers, NEW pc \in Steps, Go(h, pc)
  PROVE  /\ request' \in [Handlers -> Work]
         /\ request'[h].pc = pc /\ SameAim(request'[h], request[h])
         /\ \A g \in Handlers \ {h} : request'[g] = request[g]
  <1> PICK r : r = request[h]
    OBVIOUS
  <1>1. r \in Work /\ request \in [Handlers -> Work]
    BY DEF TypeOK
  <1>2. request' = [request EXCEPT ![h] = [r EXCEPT !.pc = pc]]
    BY DEF Go
  <1>3. LET w == [r EXCEPT !.pc = pc]
        IN w \in Work /\ w.pc = pc /\ SameAim(w, r)
    BY <1>1, WorkGoesOn
  <1> QED
    BY <1>1, <1>2, <1>3

(* An idle handler is typed. *)
LEMMA IdleIsWork == Idle \in Work
  BY DEF Idle, Work, Steps, Proposal

(* An end idles its handler, and releases no lock of another. *)
LEMMA EndsEffect ==
  ASSUME TypeOK, NEW h \in Handlers, Ends(h)
  PROVE  /\ request' \in [Handlers -> Work]
         /\ request'[h] = Idle /\ request'[h].pc = "idle"
         /\ \A g \in Handlers \ {h} :
              request'[g] = request[g] /\ (runLock = g => runLock' = g)
  BY IdleIsWork DEF TypeOK, Ends, Idle

(* One version on, a candidate is a candidate. *)
LEMMA CandidateMoves ==
  ASSUME NEW c \in Candidate, NEW to \in States
  PROVE  /\ [c EXCEPT !.state = to, !.version = @ + 1] \in Candidate
         /\ [c EXCEPT !.state = to, !.version = @ + 1]
              = [kind |-> c.kind, state |-> to, version |-> c.version + 1,
                 existing |-> c.existing, proposed |-> c.proposed]
  <1> PICK d : d = [c EXCEPT !.state = to]
    OBVIOUS
  <1>1. d = [kind |-> c.kind, state |-> to, version |-> c.version,
             existing |-> c.existing, proposed |-> c.proposed]
    BY DEF Candidate
  <1>2. [c EXCEPT !.state = to, !.version = @ + 1] = [d EXCEPT !.version = c.version + 1]
    OBVIOUS
  <1>3. [d EXCEPT !.version = c.version + 1]
          = [kind |-> c.kind, state |-> to, version |-> c.version + 1,
             existing |-> c.existing, proposed |-> c.proposed]
    BY ONLY <1>1
  <1>4. [kind |-> c.kind, state |-> to, version |-> c.version + 1,
         existing |-> c.existing, proposed |-> c.proposed] \in Candidate
    BY DEF Candidate
  <1> QED
    BY <1>2, <1>3, <1>4

(* A transition moves one candidate, one version on. *)
LEMMA OneCandidateMoves ==
  ASSUME candidates \in Seq(Candidate), NEW c \in Id, NEW to \in States, NEW until,
         Transition(c, to, until)
  PROVE  /\ candidates' \in Seq(Candidate) /\ Id' = Id
         /\ candidates[c] \in Candidate
         /\ candidates'[c] = [kind |-> candidates[c].kind, state |-> to,
                             version |-> candidates[c].version + 1,
                             existing |-> candidates[c].existing,
                             proposed |-> candidates[c].proposed]
         /\ candidates'[c].state = to
         /\ \A i \in Id \ {c} : candidates'[i] = candidates[i]
  <1> DEFINE moved == [candidates[c] EXCEPT !.state = to, !.version = @ + 1]
  <1>1. candidates[c] \in Candidate /\ c \in DOMAIN candidates
    BY DEF Id
  <1>2. moved \in Candidate
    BY <1>1, CandidateMoves
  <1>3. candidates' = [candidates EXCEPT ![c] = moved]
    BY DEF Transition
  <1> HIDE DEF moved
  <1>4. candidates' \in Seq(Candidate) /\ Id' = Id
    BY <1>2, <1>3 DEF Id
  <1>5. /\ candidates'[c] = moved
        /\ \A i \in Id \ {c} : candidates'[i] = candidates[i]
    BY <1>1, <1>3 DEF Id
  <1>6. moved = [kind |-> candidates[c].kind, state |-> to,
                 version |-> candidates[c].version + 1,
                 existing |-> candidates[c].existing,
                 proposed |-> candidates[c].proposed]
    BY <1>1, CandidateMoves DEF moved
  <1> QED
    BY <1>1, <1>4, <1>5, <1>6

(* It logs a decision that holds its requirement only if it does itself.     *)
LEMMA TransitionEffect ==
  ASSUME candidates \in Seq(Candidate), decisions \in Seq(Decision), OthersHoldNothing,
         NEW c \in Id, NEW to \in States, NEW until \in Nat, Transition(c, to, until),
         to \notin {"deferred", "rejected"} => until = 0
  PROVE  /\ candidates' \in Seq(Candidate) /\ Id' = Id
         /\ candidates[c] \in Candidate
         /\ candidates'[c] = [kind |-> candidates[c].kind, state |-> to,
                           version |-> candidates[c].version + 1,
                           existing |-> candidates[c].existing,
                           proposed |-> candidates[c].proposed]
         /\ \A i \in Id \ {c} : candidates'[i] = candidates[i]
         /\ decisions' \in Seq(Decision) /\ OthersHoldNothing'
  <1>1. /\ candidates' \in Seq(Candidate) /\ Id' = Id
        /\ candidates[c] \in Candidate
        /\ candidates'[c] = [kind |-> candidates[c].kind, state |-> to,
                            version |-> candidates[c].version + 1,
                            existing |-> candidates[c].existing,
                            proposed |-> candidates[c].proposed]
        /\ \A i \in Id \ {c} : candidates'[i] = candidates[i]
    BY OneCandidateMoves
  <1>4. [target |-> c, to |-> to, until |-> until] \in Decision
    BY DEF Decision, Id
  <1>5. decisions' \in Seq(Decision)
    BY <1>4 DEF Transition
  <1>6. OthersHoldNothing'
    <2>1. CASE decisions' = decisions
      BY <2>1 DEF OthersHoldNothing
    <2>2. CASE decisions' = Append(decisions, [target |-> c, to |-> to, until |-> until])
      <3>1. /\ DOMAIN decisions' = 1..(Len(decisions) + 1)
            /\ \A i \in 1..Len(decisions) : decisions'[i] = decisions[i]
            /\ decisions'[Len(decisions) + 1] = [target |-> c, to |-> to, until |-> until]
            /\ DOMAIN decisions = 1..Len(decisions) /\ Len(decisions) \in Nat
        BY <2>2
      <3>2. decisions'[Len(decisions) + 1].to = to /\ decisions'[Len(decisions) + 1].until = until
        BY <3>1
      <3> QED
        BY <3>1, <3>2 DEF OthersHoldNothing
    <2> QED
      BY <2>1, <2>2 DEF Transition
  <1> QED
    BY <1>1, <1>5, <1>6

(* The snooze of a review is a number of days.                               *)
LEMMA IntervalIsNat == Interval \in Nat
  <1>1. ASSUME NEW a \in Nat, NEW b \in Nat PROVE Least(a, b) \in Nat
    BY DEF Least
  <1> DEFINE doubled == Seed * 2 ^ Dismissals
             escalated == IF doubled \in 0..Ceiling THEN doubled ELSE Ceiling
  <1>2. escalated \in Nat /\ Seed \in Nat
    <2> HIDE DEF doubled
    <2> QED
      BY QueueConstants
  <1>3. Interval = IF Blocked THEN Least(escalated, Seed) ELSE escalated
    BY Zenon DEF Interval
  <1> HIDE DEF escalated
  <1> QED
    BY <1>1, <1>2, <1>3

-----------------------------------------------------------------------------
(* What one step may move *)

(* Candidates stay in the queue with what they propose, and a version stands *)
(* for one content, as it does of the Task and of UniverseState.             *)
CandidatesMove ==
  /\ Id \subseteq Id'
  /\ \A i \in Id : LET c == candidates[i]
                       d == candidates'[i]
                   IN /\ d.kind = c.kind /\ d.existing = c.existing /\ d.proposed = c.proposed
                      /\ d = c \/ d.version > c.version
TaskMoves == task' = task \/ task'.version > task.version
WorldMoves == world' = world \/ world'.version > world.version

(* A transition is a move of the candidates. *)
LEMMA TransitionMoves ==
  ASSUME TypeOK, OthersHoldNothing, NEW c \in Id, NEW to \in States, NEW until \in Nat,
         Transition(c, to, until), to \notin {"deferred", "rejected"} => until = 0
  PROVE  CandidatesMove
  <1>1. /\ Id' = Id /\ candidates[c] \in Candidate
        /\ candidates'[c] = [kind |-> candidates[c].kind, state |-> to,
                          version |-> candidates[c].version + 1,
                          existing |-> candidates[c].existing,
                          proposed |-> candidates[c].proposed]
        /\ \A i \in Id \ {c} : candidates'[i] = candidates[i]
    BY TransitionEffect DEF TypeOK
  <1>4. candidates'[c].version > candidates[c].version
    BY <1>1 DEF Candidate
  <1> QED
    BY <1>1, <1>4 DEF CandidatesMove

Moves == CandidatesMove /\ TaskMoves /\ WorldMoves

(* No review is opened: one that is open after the step was open before it.  *)
ReviewsOnlyClose ==
  \A t \in Trees \cup {NoTree} : OpenReviews(t)' \subseteq OpenReviews(t)

Rows ==
  /\ task \in TaskRow /\ world \in WorldRow /\ day \in Nat
  /\ candidates \in Seq(Candidate) /\ decisions \in Seq(Decision)
  /\ ProposalsFit /\ OpenReviewsAgree /\ AnswersAreKept /\ OthersHoldNothing

Answered == {i \in Id : candidates[i].kind = "clarify" /\ candidates[i].state = "admitted"}

(* A step that leaves the rows alone. *)
LEMMA QuietRows ==
  ASSUME AdvisoryInv, UNCHANGED <<task, world, candidates, decisions>>, day' \in Nat
  PROVE  Rows' /\ Moves /\ ReviewsOnlyClose
  <1>1. Moves
    BY DEF Moves, CandidatesMove, TaskMoves, WorldMoves, Id
  <1>2. \A t : OpenReviews(t)' = OpenReviews(t)
    BY DEF OpenReviews, Id
  <1>3. ReviewsOnlyClose /\ OpenReviewsAgree'
    BY <1>2 DEF ReviewsOnlyClose, OpenReviewsAgree, AdvisoryInv
  <1>4. AnswersAreKept' /\ OthersHoldNothing'
    BY DEF AdvisoryInv, AnswersAreKept, OthersHoldNothing, Id
  <1>5. ProposalsFit'
    BY DEF AdvisoryInv, ProposalsFit, Id
  <1> QED
    BY <1>1, <1>3, <1>4, <1>5 DEF Rows, AdvisoryInv, TypeOK

(* A transition of a candidate that waits or is set aside opens no review,   *)
(* and answers an interview only by admitting it.                            *)
LEMMA TransitionRows ==
  ASSUME AdvisoryInv, NEW c \in Id, NEW to \in States, NEW until \in Nat,
         Transition(c, to, until), to \notin {"deferred", "rejected"} => until = 0,
         candidates[c].state \in Open \cup {"deferred"}
  PROVE  /\ candidates' \in Seq(Candidate) /\ decisions' \in Seq(Decision)
         /\ CandidatesMove /\ ReviewsOnlyClose /\ ProposalsFit'
         /\ OpenReviewsAgree' /\ OthersHoldNothing'
         /\ Answered' = IF candidates[c].kind = "clarify" /\ to = "admitted"
                          THEN Answered \cup {c} ELSE Answered
  <1>1. TypeOK /\ OthersHoldNothing
    BY DEF AdvisoryInv
  <1>2. CandidatesMove
    BY <1>1, TransitionMoves
  <1>3. /\ candidates' \in Seq(Candidate) /\ decisions' \in Seq(Decision)
        /\ Id' = Id /\ OthersHoldNothing'
        /\ candidates'[c] = [kind |-> candidates[c].kind, state |-> to,
                          version |-> candidates[c].version + 1,
                          existing |-> candidates[c].existing,
                          proposed |-> candidates[c].proposed]
        /\ \A i \in Id \ {c} : candidates'[i] = candidates[i]
    BY <1>1, TransitionEffect DEF TypeOK
  <1>5. /\ candidates'[c].kind = candidates[c].kind
        /\ candidates'[c].existing = candidates[c].existing
        /\ candidates'[c].state = to
    BY <1>3
  <1>6. ASSUME NEW t \in Trees \cup {NoTree}, NEW i \in OpenReviews(t)' PROVE i \in OpenReviews(t)
    <2>1. /\ i \in Id /\ candidates'[i].kind = "review" /\ candidates'[i].existing = t
          /\ candidates'[i].state \in Open \cup {"deferred"}
      BY <1>3, <1>6 DEF OpenReviews
    <2>2. CASE i = c
      BY <1>5, <2>1, <2>2 DEF OpenReviews
    <2>3. CASE i # c
      BY <1>3, <2>1, <2>3 DEF OpenReviews
    <2> QED
      BY <2>2, <2>3
  <1>7. ReviewsOnlyClose
    BY <1>6 DEF ReviewsOnlyClose
  <1>8. OpenReviewsAgree'
    BY <1>6 DEF OpenReviewsAgree, AdvisoryInv
  <1>9. c \notin Answered
    BY DEF Answered, Open
  <1>10. Answered' = IF candidates[c].kind = "clarify" /\ to = "admitted"
                       THEN Answered \cup {c} ELSE Answered
    <2>1. \A i \in Id \ {c} : i \in Answered' <=> i \in Answered
      BY <1>3 DEF Answered
    <2>2. c \in Answered' <=> candidates[c].kind = "clarify" /\ to = "admitted"
      BY <1>3, <1>5 DEF Answered
    <2>3. Answered \subseteq Id /\ Answered' \subseteq Id
      BY <1>3 DEF Answered
    <2> QED
      BY <1>9, <2>1, <2>2, <2>3
  <1>11. ProposalsFit'
    BY <1>2, <1>3 DEF CandidatesMove, ProposalsFit, AdvisoryInv
  <1> QED
    BY <1>2, <1>3, <1>7, <1>8, <1>10, <1>11

(* A transition of a candidate of a step that writes nothing else.           *)
LEMMA SettlingRows ==
  ASSUME AdvisoryInv, NEW c \in Id, NEW to \in States, NEW until \in Nat,
         Transition(c, to, until), to \notin {"deferred", "rejected"} => until = 0,
         candidates[c].state \in Open \cup {"deferred"}, to # "admitted",
         UNCHANGED <<task, world, day>>
  PROVE  Rows' /\ Moves /\ ReviewsOnlyClose
  <1>1. /\ candidates' \in Seq(Candidate) /\ decisions' \in Seq(Decision)
        /\ CandidatesMove /\ ReviewsOnlyClose /\ ProposalsFit'
        /\ OpenReviewsAgree' /\ OthersHoldNothing'
        /\ Answered' = Answered
    BY TransitionRows
  <1>2. AnswersAreKept'
    BY <1>1 DEF AnswersAreKept, Answered, AdvisoryInv
  <1> QED
    BY <1>1, <1>2 DEF Rows, Moves, TaskMoves, WorldMoves, AdvisoryInv, TypeOK

(* A deferred review goes back to the queue. *)
LEMMA ReturnRows ==
  ASSUME AdvisoryInv, NEW h \in Handlers, Return(h)
  PROVE  Rows' /\ Moves /\ ReviewsOnlyClose
  <1> DEFINE c == request[h].target
  <1>1. CASE candidates[c].version = request[h].seen
    <2>1. /\ Transition(c, "resurfaced", 0) /\ UNCHANGED <<task, world, day>>
          /\ request[h].pc = "return"
      BY <1>1 DEF Return, At
    <2>2. c \in Id /\ candidates[c].state = "deferred"
      BY <1>1, <2>1 DEF AdvisoryInv, InFlight, Aimed, Deciding, ReturnsDeferred
    <2>3. "resurfaced" \in States /\ 0 \in Nat
      BY DEF States, Open
    <2> QED
      BY <2>1, <2>2, <2>3, SettlingRows
  <1>2. CASE candidates[c].version # request[h].seen
    BY <1>2, QuietRows DEF Return, AdvisoryInv, TypeOK
  <1> QED
    BY <1>1, <1>2

(* So does the one the operator resurfaces. *)
LEMMA ResurfaceRows ==
  ASSUME AdvisoryInv, NEW h \in Handlers, Resurface(h)
  PROVE  Rows' /\ Moves /\ ReviewsOnlyClose
  <1> DEFINE c == request[h].target
  <1>1. CASE ~ Stale(h) /\ candidates[c].state = "deferred"
    <2>1. /\ Transition(c, "resurfaced", 0) /\ UNCHANGED <<task, world, day>>
          /\ request[h].pc = "resurface"
      BY <1>1 DEF Resurface, At
    <2>2. c \in Id
      BY <2>1 DEF AdvisoryInv, InFlight, Aimed, Deciding
    <2>3. "resurfaced" \in States /\ 0 \in Nat
      BY DEF States, Open
    <2> QED
      BY <1>1, <2>1, <2>2, <2>3, SettlingRows
  <1>2. CASE Stale(h) \/ candidates[c].state # "deferred"
    BY <1>2, QuietRows DEF Resurface, Refused, AdvisoryInv, TypeOK
  <1> QED
    BY <1>1, <1>2

(* A rejection or a deferral stores the snooze it worked out. *)
LEMMA SettleRows ==
  ASSUME AdvisoryInv, NEW h \in Handlers, Settle(h)
  PROVE  Rows' /\ Moves /\ ReviewsOnlyClose
  <1> DEFINE c == request[h].target
             to == IF request[h].op = "reject" THEN "rejected" ELSE "deferred"
  <1>1. CASE ~ Stale(h) /\ candidates[c].state \in Open
    <2>1. /\ UNCHANGED <<task, world, day>> /\ request[h].pc = "settle"
          /\ \/ Transition(c, to, 0)
             \/ \E asked \in {Interval, Ceiling} :
                  Transition(c, to, day + IF Blocked THEN Least(asked, Seed) ELSE asked)
      BY <1>1 DEF Settle, At
    <2>2. c \in Id
      BY <2>1 DEF AdvisoryInv, InFlight, Aimed, Deciding
    <2>3. to \in States /\ to \in {"deferred", "rejected"} /\ to # "admitted"
      BY DEF States, Open
    <2>4. ASSUME NEW asked \in {Interval, Ceiling}
          PROVE  day + (IF Blocked THEN Least(asked, Seed) ELSE asked) \in Nat
      <3>1. asked \in Nat /\ Seed \in Nat /\ day \in Nat
        BY <2>4, IntervalIsNat, QueueConstants DEF AdvisoryInv, TypeOK
      <3> QED
        BY <3>1 DEF Least
    <2>5. PICK until \in Nat : Transition(c, to, until)
      BY <2>1, <2>4
    <2> HIDE DEF to
    <2> QED
      BY <1>1, <2>1, <2>2, <2>3, <2>5, SettlingRows
  <1>2. CASE Stale(h) \/ candidates[c].state \notin Open
    BY <1>2, QuietRows DEF Settle, Refused, AdvisoryInv, TypeOK
  <1> QED
    BY <1>1, <1>2

(* An admission writes the Task as it was read, one version on, with what    *)
(* was proposed; nothing else was recorded on the Task meanwhile.            *)
LEMMA CommitRows ==
  ASSUME AdvisoryInv, NEW h \in Handlers, Commit(h)
  PROVE  Rows' /\ Moves /\ ReviewsOnlyClose
  <1> DEFINE i == request[h].target
  <1> PICK c : c = candidates[i]
    OBVIOUS
  <1> PICK was : was = request[h].read
    OBVIOUS
  <1>0. i \in Id /\ c \in Candidate /\ task \in TaskRow /\ world \in WorldRow
    BY DEF Commit, At, AdvisoryInv, InFlight, Aimed, Deciding, TypeOK, Id
  <1>1. CASE ~ Stale(h) /\ c.state \in Open /\ Observed(h)
    <2>1. /\ Transition(i, "admitted", 0) /\ UNCHANGED day
          /\ task' = IF c.kind = "vocabulary" THEN task
                     ELSE [Rewritten(c, i, was) EXCEPT !.version = task.version + 1]
          /\ world' = IF c.kind = "vocabulary"
                        THEN [version |-> world.version + 1,
                              facts |-> world.facts \cup {c.proposed}]
                        ELSE world
          /\ request[h].pc = "commit"
      BY <1>1 DEF Commit, At
    <2>2. was = task
      BY <1>1, <2>1 DEF AdvisoryInv, InFlight, CommitsWhatItRead, Observed
    <2>3. Applies(c)
      BY <1>1, <2>1 DEF AdvisoryInv, InFlight, CommitsWhatItRead, Stale
    <2>4. "admitted" \in States /\ "admitted" \notin {"deferred", "rejected"} /\ 0 \in Nat
      BY DEF States
    <2>5. /\ candidates' \in Seq(Candidate) /\ decisions' \in Seq(Decision)
          /\ CandidatesMove /\ ReviewsOnlyClose /\ ProposalsFit'
          /\ OpenReviewsAgree' /\ OthersHoldNothing'
          /\ Answered' = IF c.kind = "clarify" THEN Answered \cup {i} ELSE Answered
      BY <1>0, <1>1, <2>1, <2>4, TransitionRows
    <2>6. c.proposed \in Proposable(c.kind)
      BY <1>0 DEF AdvisoryInv, ProposalsFit
    <2>7. CASE c.kind = "vocabulary"
      <3>1. c.proposed \in Facts
        BY <2>6, <2>7 DEF Proposable
      <3>2. /\ task' = task
            /\ world' = [version |-> world.version + 1,
                         facts |-> world.facts \cup {c.proposed}]
        BY <2>1, <2>7
      <3>3. world' \in WorldRow /\ world'.version > world.version
        BY <1>0, <3>1, <3>2 DEF WorldRow
      <3>4. AnswersAreKept'
        BY <2>5, <2>7, <3>2 DEF AnswersAreKept, Answered, AdvisoryInv
      <3> QED
        BY <1>0, <2>1, <2>5, <3>2, <3>3, <3>4
           DEF Rows, Moves, TaskMoves, WorldMoves, AdvisoryInv, TypeOK
    <2>8. CASE c.kind # "vocabulary"
      <3> DEFINE row == [version |-> task.version + 1, active |-> task.active,
                         tree |-> IF c.kind = "clarify" THEN task.tree ELSE c.proposed,
                         said |-> IF c.kind = "clarify" THEN task.said \cup {i} ELSE task.said]
      <3>1. c.kind # "clarify" => c.proposed \in Trees \cup {NoTree}
        BY <2>6, <2>8 DEF Proposable
      <3>2. row \in TaskRow
        <4>1. i \in Nat /\ task.version + 1 \in Nat
          BY <1>0 DEF Id, AdvisoryInv, TypeOK, TaskRow
        <4>2. /\ task.active \in BOOLEAN /\ task.tree \in Trees \cup {NoTree}
              /\ task.said \in SUBSET Nat
          BY <1>0 DEF TaskRow
        <4> QED
          BY <3>1, <4>1, <4>2 DEF TaskRow
      <3>3. task' = row
        <4>1. task' = [Rewritten(c, i, task) EXCEPT !.version = task.version + 1]
          BY <2>1, <2>2, <2>8
        <4>2. Rewritten(c, i, task)
                = [version |-> task.version, active |-> task.active,
                   tree |-> IF c.kind = "clarify" THEN task.tree ELSE c.proposed,
                   said |-> IF c.kind = "clarify" THEN task.said \cup {i} ELSE task.said]
          BY <1>0 DEF Rewritten, TaskRow
        <4> QED
          BY <4>1, <4>2
      <3>4. world' = world /\ task'.version > task.version
        BY <1>0, <2>1, <2>8, <3>2, <3>3 DEF TaskRow
      <3>5. AnswersAreKept'
        <4>1. task'.said = IF c.kind = "clarify" THEN task.said \cup {i} ELSE task.said
          BY <3>3
        <4> QED
          BY <2>5, <4>1 DEF AnswersAreKept, Answered, AdvisoryInv
      <3> QED
        BY <1>0, <2>1, <2>5, <3>2, <3>3, <3>4, <3>5
           DEF Rows, Moves, TaskMoves, WorldMoves, AdvisoryInv, TypeOK
    <2> QED
      BY <2>7, <2>8
  <1>2. CASE Stale(h) \/ c.state \notin Open \/ ~ Observed(h)
    BY <1>2, QuietRows DEF Commit, Refused, AdvisoryInv, TypeOK
  <1> QED
    BY <1>1, <1>2

(* A review is stored only where its run found none open and has been alone  *)
(* since; whatever else is stored is no review.                              *)
LEMMA StoreRows ==
  ASSUME AdvisoryInv, NEW h \in Handlers, StoreCandidate(h)
  PROVE  Rows' /\ Moves
  <1> PICK r : r = request[h]
    OBVIOUS
  <1> DEFINE new == [kind |-> r.producer, state |-> "proposed", version |-> 1,
                     existing |-> r.existing, proposed |-> r.proposed]
  <1>0. /\ r \in Work /\ r.pc = "store" /\ candidates \in Seq(Candidate)
        /\ r.producer \in Kinds /\ r.proposed \in Proposable(r.producer)
        /\ r.producer = "review" => OpenReviews(r.existing) = {}
    BY DEF StoreCandidate, At, AdvisoryInv, InFlight, ProposesWhatFits, AsksOnce, TypeOK
  <1>1. CASE Storable(r)
    <2>1. new \in Candidate
      BY <1>0 DEF Work, Candidate, States, Open
    <2>2. candidates' = Append(candidates, new)
      BY <1>1 DEF StoreCandidate
    <2>3. new.kind = r.producer /\ new.existing = r.existing /\ new.proposed = r.proposed
          /\ new.state = "proposed"
      OBVIOUS
    <2> HIDE DEF new
    <2> PICK n \in Nat : n = Len(candidates)
      BY <1>0
    <2>4. /\ candidates' \in Seq(Candidate) /\ Id = 1..n /\ Id' = 1..(n + 1)
          /\ candidates'[n + 1] = new
          /\ \A i \in 1..n : candidates'[i] = candidates[i]
      BY <1>0, <2>1, <2>2 DEF Id
    <2>5. CandidatesMove
      BY <2>4 DEF CandidatesMove
    <2>6. ProposalsFit'
      BY <1>0, <2>3, <2>4 DEF ProposalsFit, AdvisoryInv
    <2>7. AnswersAreKept'
      <3>1. Answered' = Answered
        BY <2>3, <2>4 DEF Answered
      <3>2. task' = task
        BY DEF StoreCandidate
      <3> QED
        BY <3>1, <3>2 DEF Answered, AnswersAreKept, AdvisoryInv
    <2>8. OpenReviewsAgree'
      <3> SUFFICES ASSUME NEW t \in Trees \cup {NoTree}, NEW i \in OpenReviews(t)',
                          NEW j \in OpenReviews(t)'
                   PROVE  i = j
        BY DEF OpenReviewsAgree
      <3>1. ASSUME NEW k \in OpenReviews(t)'
            PROVE  \/ k \in OpenReviews(t)
                   \/ k = n + 1 /\ r.producer = "review" /\ r.existing = t
        BY <2>3, <2>4 DEF OpenReviews
      <3>2. OpenReviews(t) \subseteq 1..n
        BY <2>4 DEF OpenReviews
      <3> QED
        BY <1>0, <3>1, <3>2 DEF OpenReviewsAgree, AdvisoryInv
    <2> QED
      BY <2>4, <2>5, <2>6, <2>7, <2>8
         DEF StoreCandidate, Rows, Moves, TaskMoves, WorldMoves, AdvisoryInv, TypeOK,
             OthersHoldNothing
  <1>2. CASE ~ Storable(r)
    BY <1>2, QuietRows DEF StoreCandidate, AdvisoryInv, TypeOK
  <1> QED
    BY <1>1, <1>2

(* The owner's edits and the days move one version each, or none.            *)
LEMMA OutsideRows ==
  ASSUME AdvisoryInv, EditTask \/ EditWorld \/ NextDay
  PROVE  Rows' /\ Moves /\ ReviewsOnlyClose
  <1>0. task \in TaskRow /\ world \in WorldRow
    BY DEF AdvisoryInv, TypeOK
  <1>1. CASE EditTask
    <2>1. PICK tree \in Trees \cup {NoTree}, active \in BOOLEAN :
            task' = [version |-> task.version + 1, active |-> active, tree |-> tree,
                     said |-> task.said]
      <3>1. CASE \E t \in Trees \cup {NoTree} :
                   task' = [task EXCEPT !.tree = t, !.version = @ + 1]
        BY <1>0, <3>1 DEF TaskRow
      <3>2. CASE task' = [task EXCEPT !.active = ~ @, !.version = @ + 1]
        BY <1>0, <3>2 DEF TaskRow
      <3> QED
        BY <1>1, <3>1, <3>2 DEF EditTask
    <2>2. task' \in TaskRow /\ task'.version > task.version /\ task'.said = task.said
      BY <1>0, <2>1 DEF TaskRow
    <2>3. UNCHANGED <<world, candidates, decisions, day>>
      BY <1>1 DEF EditTask
    <2>4. /\ OpenReviewsAgree' /\ OthersHoldNothing' /\ ProposalsFit' /\ AnswersAreKept'
          /\ ReviewsOnlyClose
      BY <2>2, <2>3 DEF AdvisoryInv, OpenReviewsAgree, OpenReviews, OthersHoldNothing,
                        ProposalsFit, AnswersAreKept, ReviewsOnlyClose, Id
    <2>5. CandidatesMove
      BY <2>3 DEF CandidatesMove, Id
    <2> QED
      BY <2>2, <2>3, <2>4, <2>5
         DEF Rows, Moves, TaskMoves, WorldMoves, AdvisoryInv, TypeOK
  <1>2. CASE EditWorld
    <2>1. PICK facts \in SUBSET Facts :
            world' = [version |-> world.version + 1, facts |-> facts]
      BY <1>0, <1>2 DEF EditWorld, WorldRow
    <2>2. world' \in WorldRow /\ world'.version > world.version
      BY <1>0, <2>1 DEF WorldRow
    <2>3. UNCHANGED <<task, candidates, decisions, day>>
      BY <1>2 DEF EditWorld
    <2>4. /\ OpenReviewsAgree' /\ OthersHoldNothing' /\ ProposalsFit' /\ AnswersAreKept'
          /\ ReviewsOnlyClose
      BY <2>3 DEF AdvisoryInv, OpenReviewsAgree, OpenReviews, OthersHoldNothing,
                  ProposalsFit, AnswersAreKept, ReviewsOnlyClose, Id
    <2>5. CandidatesMove
      BY <2>3 DEF CandidatesMove, Id
    <2> QED
      BY <2>2, <2>3, <2>4, <2>5
         DEF Rows, Moves, TaskMoves, WorldMoves, AdvisoryInv, TypeOK
  <1>3. CASE NextDay
    BY <1>3, QuietRows DEF NextDay, AdvisoryInv, TypeOK
  <1> QED
    BY <1>1, <1>2, <1>3

(* Every step keeps the rows, and opens a review only by storing it.         *)
LEMMA RowsNext ==
  ASSUME AdvisoryInv, [Next]_vars
  PROVE  Rows' /\ Moves /\ (ReviewsOnlyClose \/ \E h \in Handlers : StoreCandidate(h))
  <1>1. ASSUME NEW h \in Handlers,
               \/ Ask(h) \/ Decide(h) \/ Enter(h) \/ TakeAction(h) \/ Screen(h)
               \/ ModelAnswers(h) \/ ModelFails(h) \/ Vet(h) \/ Review(h) \/ Prepare(h)
        PROVE  Rows' /\ Moves /\ ReviewsOnlyClose
    <2>1. UNCHANGED <<task, world, candidates, decisions>> /\ day' \in Nat
      BY <1>1 DEF Ask, Decide, Enter, TakeAction, Screen, ModelAnswers, ModelFails, Vet,
                  Review, Prepare, Refused, AdvisoryInv, TypeOK
    <2> QED
      BY <2>1, QuietRows
  <1>2. CASE UNCHANGED vars
    BY <1>2, QuietRows DEF vars, AdvisoryInv, TypeOK
  <1> QED
    BY <1>1, <1>2, ReturnRows, ResurfaceRows, SettleRows, CommitRows, StoreRows, OutsideRows
       DEF Next, Step

-----------------------------------------------------------------------------
(* What is in flight *)

(* A handler that does not move is disturbed by nothing that the rows of a   *)
(* step may do, unless a review is opened under its hands.                   *)
LEMMA StillInFlight ==
  ASSUME AdvisoryInv, Rows', Moves, NEW g \in Handlers, request'[g] = request[g],
         AsksOnce(g)'
  PROVE  InFlight(g)'
  <1> PICK r : r = request[g]
    OBVIOUS
  <1>0. /\ r = request'[g] /\ InFlight(g) /\ CandidatesMove /\ TaskMoves /\ WorldMoves
        /\ r \in Work
    BY DEF AdvisoryInv, Moves, TypeOK
  <1>1. Aimed(g)' /\ ProposesWhatFits(g)'
    BY <1>0 DEF InFlight, Aimed, ProposesWhatFits, CandidatesMove
  <1>2. ASSUME NEW i \in Id PROVE candidates[i] \in Candidate /\ candidates'[i] \in Candidate
    BY <1>0 DEF AdvisoryInv, TypeOK, Rows, CandidatesMove, Id
  <1>3. ReturnsDeferred(g)'
    <2> SUFFICES ASSUME r.pc = "return"
                 PROVE  LET c == candidates'[r.target]
                        IN r.seen <= c.version /\ (r.seen = c.version => c.state = "deferred")
      BY <1>0 DEF ReturnsDeferred
    <2>1. r.target \in Id
      BY <1>0 DEF InFlight, Aimed, Deciding
    <2>2. /\ r.seen <= candidates[r.target].version
          /\ r.seen = candidates[r.target].version => candidates[r.target].state = "deferred"
      BY <1>0 DEF InFlight, ReturnsDeferred
    <2>3. \/ candidates'[r.target] = candidates[r.target]
          \/ candidates'[r.target].version > candidates[r.target].version
      BY <1>0, <2>1 DEF CandidatesMove
    <2>4. r.seen \in Nat /\ candidates[r.target].version \in Nat
          /\ candidates'[r.target].version \in Nat
      BY <1>0, <1>2, <2>1 DEF Candidate, Work
    <2> QED
      BY <2>2, <2>3, <2>4
  <1>4. CommitsWhatItRead(g)'
    <2> PICK c, d : c = candidates[r.target] /\ d = candidates'[r.target]
      OBVIOUS
    <2> PICK t, u : t = task /\ u = task'
      OBVIOUS
    <2> PICK w, x : w = world /\ x = world'
      OBVIOUS
    <2> SUFFICES ASSUME r.pc = "commit"
                 PROVE  /\ r.read \in TaskRow
                        /\ r.read.version <= u.version /\ r.worldSeen <= x.version
                        /\ r.seen <= d.version
                        /\ r.read.version = u.version => r.read = u
                        /\ r.seen = d.version /\ Observed(g)' => Applies(d)'
      BY <1>0 DEF CommitsWhatItRead
    <2>1. r.target \in Id
      BY <1>0 DEF InFlight, Aimed, Deciding
    <2>2. /\ r.read \in TaskRow
          /\ r.read.version <= t.version /\ r.worldSeen <= w.version
          /\ r.seen <= c.version
          /\ r.read.version = t.version => r.read = t
          /\ r.seen = c.version /\ Observed(g) => Applies(c)
      BY <1>0 DEF InFlight, CommitsWhatItRead
    <2>3. (d = c \/ d.version > c.version) /\ (u = t \/ u.version > t.version)
          /\ (x = w \/ x.version > w.version)
      BY <1>0, <2>1 DEF CandidatesMove, TaskMoves, WorldMoves
    <2>4. /\ r.seen \in Nat /\ c.version \in Nat /\ d.version \in Nat
          /\ r.worldSeen \in Nat /\ w.version \in Nat /\ x.version \in Nat
          /\ r.read.version \in Nat /\ t.version \in Nat /\ u.version \in Nat
      BY <1>0, <1>2, <2>1, <2>2 DEF Candidate, Work, TaskRow, WorldRow, AdvisoryInv, TypeOK, Rows
    <2>5. ASSUME r.seen = d.version, Observed(g)' PROVE Applies(d)'
      <3>1. d = c
        BY <2>2, <2>3, <2>4, <2>5
      <3>2. r.read.version = u.version
        BY <1>0, <2>5 DEF Observed
      <3>3. u = t
        BY <2>2, <2>3, <2>4, <3>2
      <3>4. (c.kind \in {"precondition", "review"} /\ c.proposed # NoTree) \/ c.kind = "vocabulary"
              => x = w
        <4>1. (c.kind \in {"precondition", "review"} /\ c.proposed # NoTree) \/ c.kind = "vocabulary"
                => r.worldSeen = x.version
          BY <1>0, <2>5, <3>1 DEF Observed
        <4> QED
          BY <2>2, <2>3, <2>4, <4>1
      <3>5. Observed(g)
        BY <1>0, <2>5, <3>1, <3>3, <3>4 DEF Observed
      <3>6. Applies(c)
        BY <2>2, <2>5, <3>1, <3>5
      <3> QED
        BY <3>1, <3>3, <3>4, <3>6 DEF Applies, TreeApplies, NameApplies, Evaluable
    <2> QED
      BY <2>2, <2>3, <2>4, <2>5
  <1> QED
    BY <1>1, <1>3, <1>4 DEF InFlight

(* A handler that is idle has nothing in flight. *)
LEMMA IdleInFlight ==
  ASSUME NEW h \in Handlers, request'[h] = Idle
  PROVE  InFlight(h)' /\ request'[h].pc \notin Running
  BY DEF Idle, InFlight, Aimed, Deciding, ProposesWhatFits, ReturnsDeferred, AsksOnce,
         CommitsWhatItRead, Running

(* What a step of a handler owes to the invariant. *)
Keeps(h) ==
  /\ request' \in [Handlers -> Work]
  /\ InFlight(h)' /\ (request'[h].pc \in Running => runLock' = h)
  /\ \A g \in Handlers \ {h} : request'[g] = request[g] /\ (runLock = g => runLock' = g)

(* A handler that ends keeps the invariant. *)
LEMMA EndsKeeps ==
  ASSUME AdvisoryInv, NEW h \in Handlers, Ends(h)
  PROVE  Keeps(h)
  <1>1. /\ request' \in [Handlers -> Work] /\ request'[h] = Idle
        /\ \A g \in Handlers \ {h} : request'[g] = request[g] /\ (runLock = g => runLock' = g)
    <2>1. TypeOK
      BY DEF AdvisoryInv
    <2> QED
      BY <2>1, EndsEffect
  <1>2. InFlight(h)' /\ request'[h].pc \notin Running
    BY <1>1, IdleInFlight
  <1> QED
    BY <1>1, <1>2 DEF Keeps

(* A run starts with a producer and the facts it finds. *)
LEMMA AskKeeps ==
  ASSUME AdvisoryInv, NEW h \in Handlers, Ask(h)
  PROVE  Keeps(h)
  <1>1. PICK p \in Producers, force \in BOOLEAN :
          request' = [request EXCEPT ![h] =
            [Idle EXCEPT !.op = "run", !.pc = "lock", !.producer = p,
                         !.force = force, !.names = world.facts,
                         !.existing = IF p = "review" THEN task.tree ELSE NoTree]]
    BY DEF Ask
  <1> PICK existing : existing = IF p = "review" THEN task.tree ELSE NoTree
    OBVIOUS
  <1> DEFINE w == [Idle EXCEPT !.op = "run", !.pc = "lock", !.producer = p,
                               !.force = force, !.names = world.facts, !.existing = existing]
  <1>2. existing \in Trees \cup {NoTree} /\ world.facts \in SUBSET Facts /\ p \in Kinds
    BY QueueConstants DEF AdvisoryInv, TypeOK, TaskRow, WorldRow
  <1>3. PICK facts : facts = world.facts
    OBVIOUS
  <1>4. ASSUME NEW i \in Work
        PROVE  LET v == [i EXCEPT !.op = "run", !.pc = "lock", !.producer = p,
                                  !.force = force, !.names = facts, !.existing = existing]
               IN v \in Work /\ v.pc = "lock" /\ v.op = "run" /\ v.producer = p
    <2>1. "lock" \in Steps /\ facts \in SUBSET Facts /\ force \in BOOLEAN
      BY <1>2, <1>3 DEF Steps
    <2> QED
      BY ONLY <1>2, <1>4, <2>1 DEF Work
  <1>5. w \in Work /\ w.pc = "lock" /\ w.op = "run" /\ w.producer = p
    BY <1>3, <1>4, IdleIsWork
  <1> HIDE DEF w
  <1>6. /\ request' \in [Handlers -> Work] /\ request'[h] = w
        /\ \A g \in Handlers \ {h} : request'[g] = request[g]
    BY <1>1, <1>5 DEF AdvisoryInv, TypeOK, w
  <1>7. runLock' = runLock
    BY DEF Ask
  <1>8. InFlight(h)' /\ request'[h].pc \notin Running
    BY <1>2, <1>5, <1>6 DEF InFlight, Aimed, Deciding, ProposesWhatFits, ReturnsDeferred,
                            AsksOnce, CommitsWhatItRead, Running
  <1> QED
    BY <1>6, <1>7, <1>8 DEF Keeps

(* A decision is made about a candidate on the screen. *)
LEMMA DecideKeeps ==
  ASSUME AdvisoryInv, NEW h \in Handlers, Decide(h)
  PROVE  Keeps(h)
  <1>1. PICK c \in Id, op \in {"admit", "reject", "defer", "resurface"} :
          LET answers == op = "admit" /\ candidates[c].kind = "clarify"
          IN request' = [request EXCEPT ![h] =
               [Idle EXCEPT !.op = IF answers THEN "answer" ELSE op, !.target = c,
                            !.seen = candidates[c].version,
                            !.pc = IF answers THEN "prepare"
                                   ELSE IF op = "resurface" THEN "resurface"
                                   ELSE "lock"]]
    BY DEF Decide
  <1> PICK answers : answers = (op = "admit" /\ candidates[c].kind = "clarify")
    OBVIOUS
  <1> PICK did, pc : /\ did = IF answers THEN "answer" ELSE op
                     /\ pc = IF answers THEN "prepare"
                             ELSE IF op = "resurface" THEN "resurface" ELSE "lock"
    OBVIOUS
  <1> PICK seen : seen = candidates[c].version
    OBVIOUS
  <1> DEFINE w == [Idle EXCEPT !.op = did, !.target = c, !.seen = seen, !.pc = pc]
  <1>2. c \in Nat /\ seen \in Nat
    <2>1. c \in DOMAIN candidates /\ candidates \in Seq(Candidate)
      BY DEF AdvisoryInv, TypeOK, Id
    <2>2. candidates[c] \in Candidate /\ c \in Nat
      BY <2>1
    <2> QED
      BY <2>2 DEF Candidate
  <1>3. pc \in {"prepare", "resurface", "lock"} /\ did \in {"answer", "admit", "reject", "defer", "resurface"}
    OBVIOUS
  <1>4. ASSUME NEW i \in Work
        PROVE  LET v == [i EXCEPT !.op = did, !.target = c, !.seen = seen, !.pc = pc]
               IN v \in Work /\ v.pc = pc /\ v.op = did /\ v.target = c
    <2> HIDE DEF Id
    <2>1. pc \in Steps /\ did \in {"answer", "admit", "reject", "defer", "resurface"}
      BY <1>3 DEF Steps
    <2> QED
      BY ONLY <1>2, <1>4, <2>1 DEF Work
  <1>6. w \in Work /\ w.pc = pc /\ w.op = did /\ w.target = c
    BY <1>4, IdleIsWork
  <1> HIDE DEF w
  <1>7. /\ request' \in [Handlers -> Work] /\ request'[h] = w
        /\ \A g \in Handlers \ {h} : request'[g] = request[g]
    BY <1>1, <1>6 DEF AdvisoryInv, TypeOK, w
  <1>8. runLock' = runLock /\ Id' = Id
    BY DEF Decide, Id
  <1>9. InFlight(h)' /\ request'[h].pc \notin Running
    BY <1>3, <1>6, <1>7, <1>8 DEF InFlight, Aimed, Deciding, ProposesWhatFits, ReturnsDeferred,
                                  AsksOnce, CommitsWhatItRead, Running
  <1> QED
    BY <1>7, <1>8, <1>9 DEF Keeps

(* A run or a decision enters under the lock, and finds it free. *)
LEMMA EnterKeeps ==
  ASSUME AdvisoryInv, NEW h \in Handlers, Enter(h)
  PROVE  Keeps(h)
  <1> PICK r : r = request[h]
    OBVIOUS
  <1> PICK pc : pc = IF r.op = "run" THEN "screen" ELSE IF r.op = "admit" THEN "review" ELSE "settle"
    OBVIOUS
  <1>1. /\ Go(h, pc) /\ pc \in Steps /\ TypeOK
        /\ runLock = Free /\ runLock' = h /\ r.pc = "lock" /\ Id' = Id
    BY DEF Enter, At, Steps, AdvisoryInv, Id
  <1>2. /\ request' \in [Handlers -> Work] /\ request'[h].pc = pc /\ SameAim(request'[h], r)
        /\ \A g \in Handlers \ {h} : request'[g] = request[g]
    BY <1>1, GoEffect
  <1>3. InFlight(h)
    BY DEF AdvisoryInv
  <1>4. InFlight(h)'
    BY <1>1, <1>2, <1>3 DEF InFlight, Aimed, Deciding, ProposesWhatFits, ReturnsDeferred,
                            AsksOnce, CommitsWhatItRead, SameAim
  <1> QED
    BY <1>1, <1>2, <1>4, QueueConstants DEF Keeps

(* The screen of a run: it ends, asks about a requirement that has no review *)
(* open, or takes up the one that is set aside.                              *)
LEMMA ScreenKeeps ==
  ASSUME AdvisoryInv, NEW h \in Handlers, Screen(h)
  PROVE  Keeps(h)
  <1> PICK r : r = request[h]
    OBVIOUS
  <1>0. /\ TypeOK /\ r.pc = "screen" /\ InFlight(h) /\ runLock = h /\ r \in Work
        /\ UNCHANGED <<task, world, candidates>>
    BY DEF Screen, At, AdvisoryInv, RunsAlone, Running, TypeOK
  <1>1. CASE Ends(h)
    BY <1>1, EndsKeeps
  <1>2. CASE /\ Go(h, "model") /\ UNCHANGED runLock
             /\ r.producer = "review" => OpenReviews(r.existing) = {}
    <2>1. "model" \in Steps
      BY DEF Steps
    <2>2. /\ request' \in [Handlers -> Work] /\ request'[h].pc = "model"
          /\ SameAim(request'[h], r)
          /\ \A g \in Handlers \ {h} : request'[g] = request[g]
      BY <1>0, <1>2, <2>1, GoEffect
    <2>3. OpenReviews(r.existing)' = OpenReviews(r.existing)
      BY <1>0 DEF OpenReviews, Id
    <2>4. AsksOnce(h)'
      BY <1>2, <2>2, <2>3 DEF AsksOnce, SameAim, OpenReviews, Id
    <2>5. InFlight(h)'
      BY <1>0, <2>2, <2>4 DEF InFlight, Aimed, Deciding, ProposesWhatFits, ReturnsDeferred,
                              CommitsWhatItRead, SameAim
    <2> QED
      BY <1>0, <1>2, <2>2, <2>5 DEF Keeps
  <1>3. CASE /\ UNCHANGED runLock
             /\ \A i \in OpenReviews(r.existing) : candidates[i].state \notin Open
             /\ \E i \in OpenReviews(r.existing) : request' = [request EXCEPT
                   ![h].pc = "return", ![h].target = i, ![h].seen = candidates[i].version]
    <2>1. PICK i \in OpenReviews(r.existing) : request' = [request EXCEPT
                   ![h].pc = "return", ![h].target = i, ![h].seen = candidates[i].version]
      BY <1>3
    <2> PICK c : c = candidates[i]
      OBVIOUS
    <2>2. i \in Id /\ c.state = "deferred"
      BY <1>3 DEF OpenReviews
    <2>3. i \in Nat /\ c.version \in Nat
      <3>1. i \in Nat /\ c \in Candidate
        BY <1>0, <2>2 DEF TypeOK, Id
      <3> QED
        BY <3>1 DEF Candidate
    <2>4. request' = [request EXCEPT ![h] =
                        [r EXCEPT !.pc = "return", !.target = i, !.seen = c.version]]
      BY <2>1
    <2> PICK w : w = [r EXCEPT !.pc = "return", !.target = i, !.seen = c.version]
      OBVIOUS
    <2>5. w \in Work /\ w.pc = "return" /\ w.target = i /\ w.seen = c.version
      BY <1>0, <2>3 DEF Work, Steps
    <2>6. /\ request' \in [Handlers -> Work] /\ request'[h] = w
          /\ \A g \in Handlers \ {h} : request'[g] = request[g]
      BY <1>0, <2>4, <2>5 DEF TypeOK
    <2>7. Aimed(h)' /\ ProposesWhatFits(h)' /\ AsksOnce(h)' /\ CommitsWhatItRead(h)'
      BY <1>0, <2>2, <2>5, <2>6 DEF Aimed, Deciding, ProposesWhatFits, AsksOnce,
                                    CommitsWhatItRead, Id
    <2>8. ReturnsDeferred(h)'
      <3>1. candidates'[request'[h].target] = c
        BY <1>0, <2>5, <2>6
      <3> QED
        BY <2>2, <2>3, <2>5, <2>6, <3>1 DEF ReturnsDeferred
    <2> QED
      BY <1>0, <1>3, <2>6, <2>7, <2>8 DEF Keeps, InFlight
  <1> QED
    BY <1>1, <1>2, <1>3 DEF Screen

(* The model answers what its response schema admits, or the run ends. *)
LEMMA ModelKeeps ==
  ASSUME AdvisoryInv, NEW h \in Handlers, ModelAnswers(h)
  PROVE  Keeps(h)
  <1> PICK r : r = request[h]
    OBVIOUS
  <1>0. /\ TypeOK /\ r.pc = "model" /\ InFlight(h) /\ runLock = h /\ r \in Work
        /\ UNCHANGED <<task, world, candidates, runLock>>
    BY DEF ModelAnswers, At, AdvisoryInv, RunsAlone, Running, TypeOK
  <1>1. PICK p \in Proposals(r) : request' = [request EXCEPT ![h].pc = "vet", ![h].proposed = p]
    BY DEF ModelAnswers
  <1>2. r.producer \in Kinds
    BY <1>0 DEF InFlight, ProposesWhatFits
  <1>3. p \in Proposable(r.producer)
    BY <1>2 DEF Proposals, Proposable, Kinds, AdvisorProposals, ReviewerProposals,
                NamerProposals, InterviewerProposals
  <1>4. p \in Proposal
    BY <1>2, <1>3 DEF Proposable, Proposal
  <1> PICK w : w = [r EXCEPT !.pc = "vet", !.proposed = p]
    OBVIOUS
  <1>5. /\ w \in Work /\ w.pc = "vet" /\ w.proposed = p /\ w.producer = r.producer
        /\ w.existing = r.existing
    BY <1>0, <1>4 DEF Work, Steps
  <1>6. /\ request' \in [Handlers -> Work] /\ request'[h] = w
        /\ \A g \in Handlers \ {h} : request'[g] = request[g]
    <2>1. request' = [request EXCEPT ![h] = w]
      BY <1>1
    <2> QED
      BY <1>0, <1>5, <2>1 DEF TypeOK
  <1>7. AsksOnce(h)'
    BY <1>0, <1>5, <1>6 DEF InFlight, AsksOnce, OpenReviews, Id
  <1>8. InFlight(h)'
    BY <1>2, <1>3, <1>5, <1>6, <1>7 DEF InFlight, Aimed, Deciding, ProposesWhatFits,
                                        ReturnsDeferred, CommitsWhatItRead
  <1> QED
    BY <1>0, <1>6, <1>8 DEF Keeps

(* What passes goes on with the Task's tree as it is now. *)
LEMMA VetKeeps ==
  ASSUME AdvisoryInv, NEW h \in Handlers, Vet(h)
  PROVE  Keeps(h)
  <1> PICK r : r = request[h]
    OBVIOUS
  <1>0. /\ TypeOK /\ r.pc = "vet" /\ InFlight(h) /\ runLock = h /\ r \in Work
        /\ UNCHANGED <<task, world, candidates>>
    BY DEF Vet, At, AdvisoryInv, RunsAlone, Running, TypeOK
  <1>1. CASE Ends(h)
    BY <1>1, EndsKeeps
  <1>2. CASE /\ request' = [request EXCEPT ![h].pc = "store",
                   ![h].existing = IF request[h].producer = "precondition" THEN task.tree ELSE @]
             /\ UNCHANGED runLock
    <2> PICK e : e = IF r.producer = "precondition" THEN task.tree ELSE r.existing
      OBVIOUS
    <2>1. e \in Trees \cup {NoTree}
      BY <1>0 DEF TypeOK, TaskRow, Work
    <2> PICK w : w = [r EXCEPT !.pc = "store", !.existing = e]
      OBVIOUS
    <2>2. /\ w \in Work /\ w.pc = "store" /\ w.proposed = r.proposed /\ w.producer = r.producer
          /\ w.existing = e
      <3>1. "store" \in Steps /\ r \in Work /\ w = [r EXCEPT !.pc = "store", !.existing = e]
        BY <1>0 DEF Steps
      <3> QED
        BY ONLY <2>1, <3>1 DEF Work
    <2>3. /\ request' \in [Handlers -> Work] /\ request'[h] = w
          /\ \A g \in Handlers \ {h} : request'[g] = request[g]
      <3>1. request' = [request EXCEPT ![h] = w]
        BY <1>2
      <3> QED
        BY <1>0, <2>2, <3>1 DEF TypeOK
    <2>4. AsksOnce(h)'
      BY <1>0, <2>2, <2>3 DEF InFlight, AsksOnce, OpenReviews, Id
    <2>5. InFlight(h)'
      BY <1>0, <2>2, <2>3, <2>4 DEF InFlight, Aimed, Deciding, ProposesWhatFits,
                                    ReturnsDeferred, CommitsWhatItRead
    <2> QED
      BY <1>0, <1>2, <2>3, <2>5 DEF Keeps
  <1> QED
    BY <1>1, <1>2 DEF Vet

(* The checks of an admission move nothing but its handler. *)
LEMMA ReviewKeeps ==
  ASSUME AdvisoryInv, NEW h \in Handlers, Review(h) \/ TakeAction(h)
  PROVE  Keeps(h)
  <1> PICK r : r = request[h]
    OBVIOUS
  <1>1. CASE Ends(h)
    BY <1>1, EndsKeeps
  <1>2. CASE /\ r.pc \in {"review", "action"}
             /\ \E pc \in {"action", "prepare"} : Go(h, pc)
             /\ UNCHANGED <<candidates, runLock>>
    <2>1. PICK pc \in {"action", "prepare"} : Go(h, pc)
      BY <1>2
    <2>2. pc \in Steps /\ TypeOK /\ InFlight(h)
      BY DEF Steps, AdvisoryInv
    <2>3. /\ request' \in [Handlers -> Work] /\ request'[h].pc = pc
          /\ SameAim(request'[h], r)
          /\ \A g \in Handlers \ {h} : request'[g] = request[g]
      BY <2>1, <2>2, GoEffect
    <2>4. InFlight(h)'
      BY <1>2, <2>2, <2>3 DEF InFlight, Aimed, Deciding, ProposesWhatFits, ReturnsDeferred,
                              AsksOnce, CommitsWhatItRead, SameAim, Id
    <2> QED
      BY <1>2, <2>3, <2>4 DEF Keeps, Running
  <1> QED
    BY <1>1, <1>2 DEF Review, TakeAction, Refused, At

(* What an admission prepares applies to the rows it reads. *)
LEMMA PrepareKeeps ==
  ASSUME AdvisoryInv, NEW h \in Handlers, Prepare(h)
  PROVE  Keeps(h)
  <1> PICK r : r = request[h]
    OBVIOUS
  <1> PICK t, v, c : t = task /\ v = world.version /\ c = candidates[r.target]
    OBVIOUS
  <1>0. /\ TypeOK /\ r.pc = "prepare" /\ InFlight(h) /\ r \in Work
        /\ UNCHANGED <<task, world, candidates>> /\ t \in TaskRow /\ v \in Nat
    BY DEF Prepare, Refused, At, AdvisoryInv, TypeOK, WorldRow
  <1>1. CASE Ends(h)
    BY <1>1, EndsKeeps
  <1>2. CASE /\ ~ Stale(h) /\ Applies(c) /\ UNCHANGED runLock
             /\ request' = [request EXCEPT ![h].pc = "commit", ![h].read = task,
                                           ![h].worldSeen = world.version]
    <2> PICK w : w = [r EXCEPT !.pc = "commit", !.read = t, !.worldSeen = v]
      OBVIOUS
    <2>1. /\ w \in Work /\ w.pc = "commit" /\ w.target = r.target /\ w.seen = r.seen
          /\ w.read = t /\ w.worldSeen = v
      BY <1>0 DEF Work, Steps
    <2>2. /\ request' \in [Handlers -> Work] /\ request'[h] = w
          /\ \A g \in Handlers \ {h} : request'[g] = request[g]
      <3>1. request' = [request EXCEPT ![h] = w]
        BY <1>2
      <3> QED
        BY <1>0, <2>1, <3>1 DEF TypeOK
    <2>3. r.target \in Id /\ c.version = r.seen /\ r.seen \in Nat
      BY <1>0, <1>2 DEF InFlight, Aimed, Deciding, Stale, Work
    <2>4. CommitsWhatItRead(h)'
      <3>1. /\ candidates'[request'[h].target] = c /\ task' = t /\ world'.version = v
            /\ request'[h].read = t /\ request'[h].worldSeen = v /\ request'[h].seen = c.version
        BY <1>0, <2>1, <2>2, <2>3
      <3>2. Applies(c)' = Applies(c)
        BY <1>0 DEF Applies, TreeApplies, NameApplies, Evaluable
      <3>3. t.version \in Nat /\ t.version <= t.version /\ v <= v /\ c.version <= c.version
        BY <1>0, <2>3 DEF TaskRow
      <3> QED
        BY <1>0, <1>2, <3>1, <3>2, <3>3 DEF CommitsWhatItRead
    <2>5. InFlight(h)'
      BY <1>0, <2>1, <2>2, <2>3, <2>4 DEF InFlight, Aimed, Deciding, ProposesWhatFits,
                                          ReturnsDeferred, AsksOnce, Id
    <2> QED
      BY <1>2, <2>1, <2>2, <2>5 DEF Keeps, Running
  <1> QED
    BY <1>1, <1>2 DEF Prepare, Refused

(* So does every step of a handler. *)
LEMMA StepKeeps ==
  ASSUME AdvisoryInv, NEW h \in Handlers,
         Ask(h) \/ Decide(h) \/ Enter(h) \/ TakeAction(h) \/ Step(h)
  PROVE  Keeps(h)
  <1>1. CASE Return(h) \/ ModelFails(h) \/ StoreCandidate(h) \/ Settle(h)
               \/ Resurface(h) \/ Commit(h)
    BY <1>1, EndsKeeps DEF Return, ModelFails, StoreCandidate, Settle, Resurface, Commit,
                           Refused
  <1> QED
    BY <1>1, AskKeeps, DecideKeeps, EnterKeeps, ScreenKeeps, ModelKeeps, VetKeeps,
       ReviewKeeps, PrepareKeeps DEF Step

-----------------------------------------------------------------------------
(* Nothing is proposed or asked at the start. *)
LEMMA AdvisoryInit == Init => AdvisoryInv
  <1> SUFFICES ASSUME Init PROVE AdvisoryInv
    OBVIOUS
  <1>1. PICK t \in Trees \cup {NoTree}, facts \in SUBSET Facts :
          /\ task = [version |-> 1, active |-> TRUE, tree |-> t, said |-> {}]
          /\ world = [version |-> 1, facts |-> facts]
    BY DEF Init
  <1>2. /\ candidates = <<>> /\ decisions = <<>> /\ day = 0
        /\ request = [h \in Handlers |-> Idle]
    BY DEF Init
  <1>3. task \in TaskRow /\ world \in WorldRow /\ task.said = {}
    BY <1>1 DEF TaskRow, WorldRow
  <1>4. TypeOK
    BY <1>2, <1>3, IdleIsWork DEF TypeOK
  <1>5. Id = {} /\ DOMAIN decisions = {}
    BY <1>2 DEF Id
  <1>6. ProposalsFit /\ OpenReviewsAgree /\ AnswersAreKept /\ OthersHoldNothing
    BY <1>3, <1>5 DEF ProposalsFit, OpenReviewsAgree, OpenReviews, AnswersAreKept,
                      OthersHoldNothing
  <1>7. \A h \in Handlers : InFlight(h) /\ request[h].pc \notin Running
    BY <1>2 DEF Idle, InFlight, Aimed, Deciding, ProposesWhatFits, ReturnsDeferred, AsksOnce,
                CommitsWhatItRead, Running
  <1> QED
    BY <1>4, <1>6, <1>7 DEF AdvisoryInv, RunsAlone

(* Every step keeps the queue, and what is in flight in it. *)
LEMMA AdvisoryNext ==
  ASSUME AdvisoryInv, [Next]_vars
  PROVE  AdvisoryInv'
  <1>1. Rows' /\ Moves /\ (ReviewsOnlyClose \/ \E h \in Handlers : StoreCandidate(h))
    BY RowsNext
  <1>2. ASSUME NEW g \in Handlers, request'[g] = request[g], ReviewsOnlyClose
        PROVE  InFlight(g)'
    <2>1. InFlight(g) /\ request[g] \in Work
      BY DEF AdvisoryInv, TypeOK
    <2>2. AsksOnce(g)'
      BY <1>2, <2>1 DEF InFlight, AsksOnce, ReviewsOnlyClose, Work
    <2> QED
      BY <1>1, <1>2, <2>2, StillInFlight
  <1>3. ASSUME NEW h \in Handlers,
               Ask(h) \/ Decide(h) \/ Enter(h) \/ TakeAction(h) \/ Step(h)
        PROVE  AdvisoryInv'
    <2>1. Keeps(h)
      BY <1>3, StepKeeps
    <2>2. ASSUME NEW g \in Handlers \ {h} PROVE InFlight(g)'
      <3>1. request'[g] = request[g]
        BY <2>1 DEF Keeps
      <3>2. CASE ReviewsOnlyClose
        BY <1>2, <3>1, <3>2
      <3>3. CASE \E k \in Handlers : StoreCandidate(k)
        <4>1. PICK k \in Handlers : StoreCandidate(k)
          BY <3>3
        <4>2. request[k].pc = "store" /\ runLock = k /\ request'[k] = Idle
          BY <4>1, EndsEffect DEF StoreCandidate, At, AdvisoryInv, RunsAlone, Running
        <4>3. g # k
          <5>1. request[k].pc # Idle.pc
            BY <4>2 DEF Idle
          <5> QED
            BY <3>1, <4>2, <5>1
        <4>4. request[g].pc \notin Running
          BY <4>2, <4>3 DEF AdvisoryInv, RunsAlone
        <4>5. AsksOnce(g)'
          BY <3>1, <4>4 DEF AsksOnce, Running
        <4> QED
          BY <1>1, <3>1, <4>5, StillInFlight
      <3> QED
        BY <1>1, <3>2, <3>3
    <2>3. RunsAlone'
      BY <2>1 DEF Keeps, RunsAlone, AdvisoryInv
    <2> QED
      BY <1>1, <2>1, <2>2, <2>3 DEF AdvisoryInv, Rows, TypeOK, Keeps
  <1>4. CASE EditTask \/ EditWorld \/ NextDay \/ UNCHANGED vars
    <2>1. request' = request /\ runLock' = runLock
      BY <1>4 DEF EditTask, EditWorld, NextDay, vars
    <2>2. ReviewsOnlyClose
      BY <1>4, OutsideRows, QuietRows DEF vars, AdvisoryInv, TypeOK
    <2>3. \A g \in Handlers : InFlight(g)'
      BY <1>2, <2>1, <2>2
    <2> QED
      BY <1>1, <2>1, <2>3 DEF AdvisoryInv, Rows, TypeOK, RunsAlone
  <1> QED
    BY <1>3, <1>4 DEF Next

(* What is in flight stays true of the rows: a run is alone under its lock,  *)
(* and an admission writes what it read only where that still applies        *)
(* (services/advisory_service.rs, services/review_policy.rs).                *)
THEOREM AdvisoryInvariant == Spec => []AdvisoryInv
  BY AdvisoryInit, AdvisoryNext, PTL DEF Spec

(* However runs, answers, decisions and resurfacings interleave, a           *)
(* requirement has at most one review that waits or is set aside, and the    *)
(* interviews of the Task are those that were answered.                      *)
THEOREM QueueHolds == Spec => []QueueInv
  <1>1. AdvisoryInv => QueueInv
    <2> SUFFICES ASSUME AdvisoryInv, NEW t \in Trees PROVE Cardinality(OpenReviews(t)) <= 1
      BY DEF QueueInv, OneOpenReview, AdvisoryInv
    <2>1. \A i, j \in OpenReviews(t) : i = j
      BY DEF AdvisoryInv, OpenReviewsAgree
    <2>2. CASE OpenReviews(t) = {}
      BY <2>2, FS_EmptySet
    <2>3. CASE OpenReviews(t) # {}
      <3>1. PICK i : OpenReviews(t) = {i}
        BY <2>1, <2>3
      <3>2. Cardinality({i}) = 1
        BY FS_Singleton
      <3> QED
        BY <3>1, <3>2
    <2> QED
      BY <2>2, <2>3
  <1> QED
    BY <1>1, AdvisoryInvariant, PTL

(* Only a commit admits, and what it commits still applies. *)
LEMMA AdmitsWhatApplies ==
  ASSUME AdvisoryInv, [Next]_vars, NEW i \in Id,
         candidates[i].state # "admitted", candidates'[i].state = "admitted"
  PROVE  Applies(candidates[i])
  <1>0. /\ candidates \in Seq(Candidate) /\ decisions \in Seq(Decision) /\ OthersHoldNothing
        /\ \A h \in Handlers : request[h].pc \in Deciding => request[h].target \in Id
    BY DEF AdvisoryInv, TypeOK, InFlight, Aimed
  <1>1. ASSUME NEW c \in Id, NEW to \in States, NEW until, Transition(c, to, until)
        PROVE  i = c /\ to = "admitted"
    <2>1. /\ candidates'[c].state = to
          /\ \A j \in Id \ {c} : candidates'[j] = candidates[j]
      BY <1>0, <1>1, OneCandidateMoves
    <2> QED
      BY <2>1
  <1>2. ASSUME NEW h \in Handlers, Commit(h) PROVE Applies(candidates[i])
    <2> PICK c : c = candidates[request[h].target]
      OBVIOUS
    <2>1. request[h].pc = "commit" /\ request[h].target \in Id
      BY <1>0, <1>2 DEF Commit, At, Deciding
    <2>2. ~ Stale(h) /\ Observed(h) /\ Transition(request[h].target, "admitted", 0)
      BY <1>2 DEF Commit, Refused
    <2>3. i = request[h].target
      BY <1>1, <2>1, <2>2 DEF States
    <2>4. Applies(c)
      BY <2>1, <2>2 DEF AdvisoryInv, InFlight, CommitsWhatItRead, Stale
    <2> QED
      BY <2>3, <2>4
  <1>3. ASSUME NEW h \in Handlers, Return(h) \/ Resurface(h) PROVE FALSE
    <2>1. /\ request[h].target \in Id
          /\ Transition(request[h].target, "resurfaced", 0)
      BY <1>0, <1>3 DEF Return, Resurface, Refused, At, Deciding
    <2>2. "resurfaced" \in States /\ 0 \in Nat
      BY DEF States, Open
    <2> QED
      BY <1>1, <2>1, <2>2
  <1>4. ASSUME NEW h \in Handlers, Settle(h) PROVE FALSE
    <2>1. candidates' # candidates
      OBVIOUS
    <2> DEFINE to == IF request[h].op = "reject" THEN "rejected" ELSE "deferred"
    <2>2. PICK until : Transition(request[h].target, to, until)
      BY <1>4, <2>1 DEF Settle, Refused
    <2>3. to # "admitted" /\ to \in States /\ request[h].target \in Id
      BY <1>0, <1>4 DEF States, Settle, At, Deciding
    <2> HIDE DEF to
    <2> QED
      BY <1>1, <2>2, <2>3
  <1>5. ASSUME NEW h \in Handlers, StoreCandidate(h) PROVE FALSE
    <2>1. i \in 1..Len(candidates) /\ candidates' # candidates
      BY <1>0 DEF Id
    <2>2. PICK c : candidates' = Append(candidates, c)
      BY <1>5, <2>1 DEF StoreCandidate
    <2> QED
      BY <1>0, <2>1, <2>2
  <1>6. \/ UNCHANGED candidates
        \/ \E h \in Handlers : \/ Commit(h) \/ Return(h) \/ Resurface(h) \/ Settle(h)
                              \/ StoreCandidate(h)
    BY DEF Next, vars, Step, Ask, Decide, Enter, TakeAction, Screen, ModelAnswers, ModelFails,
           Vet, Review, Prepare, Refused, EditTask, EditWorld, NextDay
  <1> QED
    BY <1>2, <1>3, <1>4, <1>5, <1>6

(* A precondition, a removal and a target name are admitted only onto the    *)
(* Task and the facts they were reviewed against, whatever was edited since. *)
THEOREM AdmissionsApply == Spec => AdmittedAsReviewed
  <1>1. AdvisoryInv /\ [Next]_vars
          => [\A i \in Id :
                candidates[i].state # "admitted" /\ candidates'[i].state = "admitted"
                  => Applies(candidates[i])]_vars
    BY AdmitsWhatApplies
  <1> QED
    BY <1>1, AdvisoryInvariant, PTL DEF Spec, AdmittedAsReviewed

(* A run that is let through its screen met no hold on its requirement.      *)
LEMMA ScreenHolds ==
  ASSUME AdvisoryInv, [Next]_vars, NEW h \in Handlers,
         request[h].producer = "review", ~ request[h].force, At(h, "screen"),
         request'[h].pc \in {"model", "return"}, NEW i \in DOMAIN decisions
  PROVE  \/ decisions[i].until <= day
         \/ candidates[decisions[i].target].existing # request[h].existing
         \/ \E j \in (i + 1)..Len(decisions) :
              candidates[decisions[j].target].existing = request[h].existing
  <1>0. /\ decisions[i] \in Decision /\ day \in Nat /\ request \in [Handlers -> Work]
        /\ decisions[i].to \notin {"deferred", "rejected"} => decisions[i].until = 0
    BY DEF AdvisoryInv, TypeOK, OthersHoldNothing
  <1>1. Screen(h)
    <2>1. request'[h] # request[h]
      BY DEF At
    <2>2. ASSUME NEW g \in Handlers \ {h},
                 Ask(g) \/ Decide(g) \/ Enter(g) \/ TakeAction(g) \/ Step(g)
          PROVE  FALSE
      <3>1. Keeps(g)
        BY <2>2, StepKeeps
      <3> QED
        BY <2>1, <3>1 DEF Keeps
    <2>3. ~ (EditTask \/ EditWorld \/ NextDay \/ UNCHANGED vars)
      BY <2>1 DEF EditTask, EditWorld, NextDay, vars
    <2>4. Ask(h) \/ Decide(h) \/ Enter(h) \/ TakeAction(h) \/ Step(h)
      BY <2>2, <2>3 DEF Next
    <2> QED
      BY <2>4 DEF At, Step, Ask, Decide, Enter, TakeAction, Return, ModelAnswers, ModelFails,
                  Vet, StoreCandidate, Settle, Resurface, Review, Prepare, Commit
  <1>2. ~ Ends(h)
    <2>1. Ends(h) => request'[h].pc = "idle"
      BY EndsEffect DEF AdvisoryInv
    <2> QED
      BY <2>1
  <1>3. ~ Held(request[h].existing)
    BY <1>1, <1>2 DEF Screen
  <1> SUFFICES ASSUME candidates[decisions[i].target].existing = request[h].existing,
                      \A j \in (i + 1)..Len(decisions) :
                        candidates[decisions[j].target].existing # request[h].existing
               PROVE  decisions[i].until <= day
    OBVIOUS
  <1>4. i \in Latest(request[h].existing)
    BY DEF Latest
  <1>5. \/ decisions[i].to \notin {"deferred", "rejected"}
        \/ ~ (decisions[i].until > day)
    BY <1>3, <1>4 DEF Held
  <1>6. decisions[i].until \in Nat
    BY <1>0 DEF Decision
  <1> QED
    BY <1>0, <1>5, <1>6

(* A run that is not forced neither asks about a requirement its last        *)
(* decision holds, nor puts its deferred review back.                        *)
THEOREM HoldsKept == Spec => HoldsAreKept
  <1>1. AdvisoryInv /\ [Next]_vars
          => [\A h \in Handlers :
                request[h].producer = "review" /\ ~ request[h].force /\ At(h, "screen")
                /\ request'[h].pc \in {"model", "return"}
                  => \A i \in DOMAIN decisions :
                       \/ decisions[i].until <= day
                       \/ candidates[decisions[i].target].existing # request[h].existing
                       \/ \E j \in (i + 1)..Len(decisions) :
                            candidates[decisions[j].target].existing = request[h].existing]_vars
    BY ScreenHolds
  <1> QED
    BY <1>1, AdvisoryInvariant, PTL DEF Spec, HoldsAreKept

=============================================================================
