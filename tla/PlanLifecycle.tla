----------------------------- MODULE PlanLifecycle -----------------------------
(* Plans over time: generation and recalculation (repair), as concurrent     *)
(* requests of services/planning_service.rs and recalculation_service.rs     *)
(* over the one store.                                                       *)
(* No lock spans a request: another request may run at every await between   *)
(* two store calls, and any request may stop there.  What one request does   *)
(* with the Tasks it read is PlanRequest's; here a Plan is a placement of    *)
(* some Tasks into slots of time.                                            *)
EXTENDS Naturals, Sequences, FiniteSets, FiniteSetsExt

CONSTANTS Tasks,         \* the Tasks of the store
          Occurrences,   \* those that are occurrences of routines
          Handlers,      \* the requests in flight
          Slots,         \* the length of time, in slots
          MaxPlans       \* bound: Plans made

ASSUME PlanBounds == Slots \in Nat /\ MaxPlans \in Nat /\ Occurrences \subseteq Tasks

VARIABLES plans,    \* stored Plans: id (its created_at) -> record
          clock,    \* the last created_at given out
          status,   \* Task -> lifecycle status
          logged,   \* the Tasks that a start, an end or an override is logged of
          requests  \* handler -> its request

vars == <<plans, clock, status, logged, requests>>

NoPlan == 0
Idle == [at |-> "idle", id |-> NoPlan, from |-> NoPlan,
         steps |-> <<>>, frozen |-> {}, kept |-> {}, gone |-> {},
         alone |-> TRUE]
Active == {t \in Tasks : status[t] = "active"}

Disjoint(f) == \A t, u \in DOMAIN f : t # u => f[t] # f[u]
Placements(S, floor) ==
  {f \in [S -> 1..Slots] : S # {} /\ Disjoint(f) /\ \A t \in S : f[t] > floor}

(* The Plan every reader takes: the admitted one with the latest created_at. *)
Admitted == {p \in DOMAIN plans : plans[p].admitted}
Latest == IF Admitted = {} THEN NoPlan ELSE Max(Admitted)

Init ==
  /\ plans = <<>> /\ clock = 0
  /\ status = [t \in Tasks |-> "active"]
  /\ logged = {}
  /\ requests = [h \in Handlers |-> Idle]

Begin(h, request) ==
  /\ requests[h] = Idle
  /\ requests' = [requests EXCEPT ![h] = request]
Continue(h, request) == requests' = [requests EXCEPT ![h] = request]
Answer(h) == requests' = [requests EXCEPT ![h] = Idle]

-----------------------------------------------------------------------------
(* A generation reads the active Tasks and calls the kernel; a candidate of  *)
(* rank 1 becomes the Plan, whose created_at persist_kernel_plan takes       *)
(* before it reads titles, checks the Plan and stores it.                    *)
Stamped(h, request) ==
  /\ clock < MaxPlans
  /\ clock' = clock + 1
  /\ requests' = [requests EXCEPT ![h] = [request EXCEPT !.at = "stamped", !.id = clock']]

Generate(h) ==
  /\ requests[h] = Idle
  /\ \E steps \in Placements(Active, 0) : Stamped(h, [Idle EXCEPT !.steps = steps])
  /\ UNCHANGED <<plans, status, logged>>

WrongStoreAt(r) == IF r.from = NoPlan THEN "stamped" ELSE "retired"
StoreAt(r) == "stamped"
Store(h) ==
  LET r == requests[h]
  IN /\ r.at \in {"stamped", "retired"} /\ r.at = StoreAt(r)
     /\ plans' = [p \in DOMAIN plans \cup {r.id} |->
                   IF p = r.id THEN [admitted |-> TRUE, steps |-> r.steps] ELSE plans[p]]
     /\ IF r.from = NoPlan \/ r.at = "retired" THEN Answer(h)
        ELSE Continue(h, [Idle EXCEPT !.at = "stored", !.id = r.id, !.from = r.from])
     /\ UNCHANGED <<clock, status, logged>>

(* supersede_plan of the Plan the recalculation read at its start.           *)
RetireAt(r) == IF StoreAt(r) = "stamped" THEN "stored" ELSE "stamped"
Supersede(h) ==
  LET r == requests[h]
  IN /\ r.at \in {"stamped", "stored"} /\ r.from # NoPlan /\ r.at = RetireAt(r)
     /\ plans' = [plans EXCEPT ![r.from].admitted = FALSE]
     /\ IF r.at = "stored" THEN Answer(h) ELSE Continue(h, [r EXCEPT !.at = "retired"])
     /\ UNCHANGED <<clock, status, logged>>

-----------------------------------------------------------------------------
(* A recalculation logs its trigger, then reads the latest admitted Plan;    *)
(* without one it is refused.  The ghosts kept and gone note what was frozen *)
(* and what was settled when it began.                                       *)
Settled == {t \in Occurrences : status[t] # "active"}
FrozenByStore == {t \in Tasks : status[t] \in {"completed", "failed", "moot"}} \cup logged

Recalculate(h) ==
  /\ Latest # NoPlan
  /\ Begin(h, [Idle EXCEPT !.at = "prior", !.from = Latest,
                           !.kept = (FrozenByStore \ Settled) \cap DOMAIN plans[Latest].steps,
                           !.gone = Settled])
  /\ UNCHANGED <<plans, clock, status, logged>>

(* frozen_task_ids: what the Tasks and the logs say, cut to the prior Plan's *)
(* steps if that Plan is still the latest; settled occurrences never.        *)
WrongFrozenIds(prior) ==
  FrozenByStore \cap (IF Latest = NoPlan THEN {} ELSE DOMAIN plans[Latest].steps)
FrozenIds(prior) ==
  (IF Latest = prior THEN FrozenByStore \cap DOMAIN plans[prior].steps ELSE FrozenByStore)
    \ Settled

ReadFrozen(h) ==
  LET r == requests[h]
  IN /\ r.at = "prior"
     /\ Continue(h, [r EXCEPT !.at = "frozen", !.frozen = FrozenIds(r.from)])
     /\ UNCHANGED <<plans, clock, status, logged>>

(* The repair request: the active Tasks that are not frozen, after the end   *)
(* of every frozen step of the Plan that is the latest by now; the prior     *)
(* Plan's frozen steps are merged over what the kernel places.               *)
WrongFloor(frozen) == 0
Floor(frozen) ==
  LET steps == IF Latest = NoPlan THEN <<>> ELSE plans[Latest].steps
  IN Max({0} \cup {steps[t] : t \in DOMAIN steps \cap frozen})
Merged(frozen, placed, prior) ==
  LET steps == plans[prior].steps
      kept == frozen \cap DOMAIN steps
  IN [t \in kept \cup DOMAIN placed |-> IF t \in kept THEN steps[t] ELSE placed[t]]

Repair(h) ==
  LET r == requests[h]
  IN /\ r.at = "frozen"
     /\ Active \ r.frozen # {}
     /\ \E placed \in Placements(Active \ r.frozen, Floor(r.frozen)) :
          Continue(h, [r EXCEPT !.at = "repaired", !.frozen = {}, !.alone = (Latest = r.from),
                                !.steps = Merged(r.frozen, placed, r.from)])
     /\ UNCHANGED <<plans, clock, status, logged>>

RepairStamp(h) ==
  /\ requests[h].at = "repaired"
  /\ Stamped(h, requests[h])
  /\ UNCHANGED <<plans, status, logged>>

(* Nothing left to plan, no candidate, an error or a dropped request: the    *)
(* request ends with what it has written so far.                             *)
Stop(h) ==
  /\ requests[h] # Idle
  /\ Answer(h)
  /\ UNCHANGED <<plans, clock, status, logged>>

-----------------------------------------------------------------------------
(* The owner: a start or an override is logged, a Task ends.                 *)
Note(t) ==
  /\ status[t] = "active"
  /\ logged' = logged \cup {t}
  /\ UNCHANGED <<plans, clock, status, requests>>

End(t) ==
  /\ status[t] = "active"
  /\ status' = [status EXCEPT ![t] = "completed"]
  /\ logged' = logged \cup {t}
  /\ UNCHANGED <<plans, clock, requests>>

Next ==
  \/ \E h \in Handlers :
       \/ Generate(h) \/ RepairStamp(h) \/ Store(h) \/ Supersede(h)
       \/ Recalculate(h) \/ ReadFrozen(h) \/ Repair(h) \/ Stop(h)
  \/ \E t \in Tasks : Note(t) \/ End(t)

Spec == Init /\ [][Next]_vars

-----------------------------------------------------------------------------
(* The stored Plans as the ledger sees them.                                 *)
Steps == UNION {[T -> 1..Slots] : T \in SUBSET Tasks}
Ledger == INSTANCE PlanLedger WITH
  Content <- Steps,
  Times <- 1..MaxPlans,
  content <- [p \in DOMAIN plans |-> plans[p].steps],
  admitted <- Admitted

(* KeepsTheLedger: the requests together, interleaved and stopped anywhere,   *)
(* only admit new Plans and retire one while a newer is admitted: storing the *)
(* repair before superseding the prior Plan is what makes it so.              *)
KeepsTheLedger == Ledger!Spec

(* What a repair stores, and the request that stores it.                     *)
Storing(h) == requests[h].id \in DOMAIN plans' \ DOMAIN plans
StoredSteps(h) == plans'[requests[h].id].steps

(* RepairsKeepThePast: a repair's Plan has every Task that was frozen when    *)
(* the recalculation began where the Plan it repairs has it, whatever else    *)
(* was generated meanwhile, and none of the occurrences that were completed,  *)
(* missed or skipped by then.                                                 *)
KeepsThePast(h) ==
  LET r == requests[h]
  IN /\ \A t \in r.kept :
          \/ t \in Settled
          \/ /\ t \in DOMAIN StoredSteps(h)
             /\ StoredSteps(h)[t] = plans[r.from].steps[t]
     /\ r.gone \cap DOMAIN StoredSteps(h) = {}
RepairsKeepThePast == [][\A h \in Handlers : Storing(h) => KeepsThePast(h)]_vars

(* RepairsBookOnce: a Plan never places two Tasks at once, frozen steps       *)
(* included, unless the Plan it repairs did, or another Plan became the       *)
(* latest between the two reads of the recalculation that made it.            *)
BooksOnce(h) ==
  LET r == requests[h]
  IN r.alone /\ (r.from # NoPlan => Disjoint(plans[r.from].steps))
       => Disjoint(StoredSteps(h))
RepairsBookOnce == [][\A h \in Handlers : Storing(h) => BooksOnce(h)]_vars

=============================================================================
