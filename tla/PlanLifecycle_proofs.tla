------------------------- MODULE PlanLifecycle_proofs -------------------------
(* Generations and recalculations, however they interleave and stop, keep    *)
(* the ledger of Plans, and a repair keeps the past: for every number of     *)
(* Tasks, requests, slots and Plans.                                         *)
EXTENDS PlanLifecycle, WellFoundedInduction, TLAPS

Stages == {"idle", "prior", "frozen", "repaired", "stamped", "stored"}
Request == [at : Stages, id : Nat, from : Nat, steps : Steps, frozen : SUBSET Tasks,
            kept : SUBSET Tasks, gone : SUBSET Occurrences, alone : BOOLEAN]
Plan == [admitted : BOOLEAN, steps : Steps]

(* The shape of the state.  A Plan's id is a time that was given out.        *)
Typed ==
  /\ clock \in 0..MaxPlans
  /\ DOMAIN plans \subseteq 1..clock
  /\ plans \in [DOMAIN plans -> Plan]
  /\ logged \subseteq Tasks
  /\ status \in [Tasks -> {"active", "completed"}]
  /\ requests \in [Handlers -> Request]

(* What a request holds of the ledger at each of its stages: the Plan it     *)
(* repairs stays stored, its own time is its own and later.                  *)
Sound(r) ==
  /\ r.at \in {"idle", "prior", "frozen", "repaired"} => r.id = NoPlan
  /\ r.at \in {"prior", "frozen", "repaired"} => r.from \in DOMAIN plans
  /\ r.at = "stamped" => /\ r.id \in 1..clock /\ r.id \notin DOMAIN plans
                         /\ r.from = NoPlan \/ (r.from \in DOMAIN plans /\ r.from < r.id)
  /\ r.at = "stored" => /\ r.id \in DOMAIN plans
                        /\ r.from \in DOMAIN plans /\ r.from < r.id

Apart(r, s) == r.at = "stamped" /\ s.at = "stamped" => r.id # s.id

(* Behind every Plan an admitted one, and among the admitted a latest.       *)
Newest == \A p \in DOMAIN plans : \E q \in Admitted : q >= p
HasLatest == Admitted = {} \/ \E p \in Admitted : \A q \in Admitted : q <= p

LedgerInv ==
  /\ Typed
  /\ \A h \in Handlers : Sound(requests[h])
  /\ \A g, h \in Handlers : g # h => Apart(requests[g], requests[h])
  /\ Newest
  /\ HasLatest

-----------------------------------------------------------------------------
(* The steps of a Plan. *)
LEMMA NoSteps == <<>> \in Steps
<1>1. <<>> \in [{} -> 1..Slots]
  OBVIOUS
<1> QED BY <1>1 DEF Steps

LEMMA PlacementsAreSteps ==
  ASSUME NEW S \in SUBSET Tasks, NEW floor, NEW f \in Placements(S, floor)
  PROVE  f \in Steps /\ DOMAIN f = S
BY DEF Placements, Steps

LEMMA StepsAreFunctions ==
  ASSUME NEW f \in Steps
  PROVE  DOMAIN f \subseteq Tasks /\ f \in [DOMAIN f -> 1..Slots]
BY DEF Steps

LEMMA MergedIsSteps ==
  ASSUME Typed, NEW frozen \in SUBSET Tasks, NEW placed \in Steps, NEW prior \in DOMAIN plans
  PROVE  LET f == Merged(frozen, placed, prior)
             was == plans[prior].steps
         IN /\ f \in Steps
            /\ DOMAIN f = (frozen \cap DOMAIN was) \cup DOMAIN placed
            /\ \A t \in frozen \cap DOMAIN was : f[t] = was[t]
<1> DEFINE was == plans[prior].steps
           T == (frozen \cap DOMAIN was) \cup DOMAIN placed
           f == Merged(frozen, placed, prior)
<1>1. was \in Steps
  BY DEF Typed, Plan
<1>2. T \in SUBSET Tasks
  BY <1>1, StepsAreFunctions
<1>3. f = [t \in T |-> IF t \in frozen \cap DOMAIN was THEN was[t] ELSE placed[t]]
  BY DEF Merged
<1>4. \A t \in T : (IF t \in frozen \cap DOMAIN was THEN was[t] ELSE placed[t]) \in 1..Slots
  BY <1>1, StepsAreFunctions
<1>5. f \in [T -> 1..Slots]
  BY <1>3, <1>4
<1> HIDE DEF f, T
<1>6. f \in Steps
  BY <1>2, <1>5 DEF Steps
<1>7. DOMAIN f = T /\ \A t \in frozen \cap DOMAIN was : f[t] = was[t]
  BY <1>3 DEF T
<1> QED BY <1>6, <1>7 DEF f, T

LEMMA IdleIsRequest == Idle \in Request /\ Idle.at = "idle" /\ Idle.id = NoPlan
<1>1. Idle.steps \in Steps
  BY NoSteps DEF Idle
<1> QED BY NoSteps DEF Idle, Request, Stages, NoPlan

(* The latest Plan is one of the admitted. *)
LEMMA LatestIsAdmitted ==
  ASSUME HasLatest, Latest # NoPlan
  PROVE  Latest \in Admitted /\ Latest \in DOMAIN plans
<1>1. Admitted # {} /\ Latest = Max(Admitted)
  BY DEF Latest
<1>2. PICK p \in Admitted : \A q \in Admitted : q <= p
  BY <1>1 DEF HasLatest
<1>3. \A q \in Admitted : p >= q
  BY <1>2
<1>4. Max(Admitted) \in Admitted
  BY <1>2, <1>3 DEF Max
<1> QED BY <1>1, <1>4 DEF Admitted

-----------------------------------------------------------------------------
(* One request moves on and the ledger stays as it is. *)
LEMMA RequestMoves ==
  ASSUME LedgerInv, UNCHANGED <<plans, clock, status, logged>>,
         NEW h \in Handlers, NEW r \in Request, r.at # "stamped", Sound(r),
         requests' = [requests EXCEPT ![h] = r]
  PROVE  LedgerInv'
<1>1. Typed'
  BY DEF LedgerInv, Typed
<1>2. requests \in [Handlers -> Request]
  BY DEF LedgerInv, Typed
<1>3. \A g \in Handlers : Sound(requests[g])'
  BY <1>2 DEF LedgerInv, Sound
<1>4. \A f, g \in Handlers : f # g => Apart(requests[f], requests[g])'
  BY <1>2 DEF LedgerInv, Apart
<1>5. Newest' /\ HasLatest'
  BY DEF LedgerInv, Newest, HasLatest, Admitted
<1> QED BY <1>1, <1>3, <1>4, <1>5 DEF LedgerInv

(* A request is given the next time. *)
LEMMA StampKeeps ==
  ASSUME LedgerInv, UNCHANGED <<plans, status, logged>>,
         NEW h \in Handlers, NEW r \in Request,
         r.from = NoPlan \/ r.from \in DOMAIN plans,
         Stamped(h, r)
  PROVE  LedgerInv'
<1> DEFINE next == [r EXCEPT !.at = "stamped", !.id = clock + 1]
<1>0. requests \in [Handlers -> Request] /\ clock \in 0..MaxPlans /\ MaxPlans \in Nat
  BY PlanBounds DEF LedgerInv, Typed
<1>1. clock' = clock + 1 /\ clock + 1 \in 1..MaxPlans /\ clock + 1 \in Nat
  BY <1>0 DEF Stamped
<1>2. next \in Request
  <2>1. [r EXCEPT !.at = "stamped"] \in Request
    BY DEF Request, Stages
  <2>2. [[r EXCEPT !.at = "stamped"] EXCEPT !.id = clock + 1] \in Request
    BY <1>1, <2>1 DEF Request
  <2>3. next = [[r EXCEPT !.at = "stamped"] EXCEPT !.id = clock + 1]
    BY DEF Request
  <2> QED BY <2>2, <2>3
<1>3. PICK stamped \in Request : stamped = next
  BY <1>2
<1>4. /\ stamped.at = "stamped" /\ stamped.id = clock + 1 /\ stamped.from = r.from
      /\ stamped.from \in Nat
  BY <1>3 DEF Request
<1>5. requests' = [requests EXCEPT ![h] = stamped]
  BY <1>1, <1>3 DEF Stamped
<1> HIDE DEF next
<1>6. DOMAIN plans \subseteq 1..clock /\ DOMAIN plans' \subseteq 1..clock'
  BY <1>0, <1>1 DEF LedgerInv, Typed
<1>7. Typed'
  <2>1. requests' \in [Handlers -> Request]
    BY <1>0, <1>5
  <2> QED BY <1>1, <2>1, <1>6 DEF LedgerInv, Typed
<1>8. Sound(stamped)'
  <2>1. clock + 1 \notin DOMAIN plans' /\ clock + 1 \in 1..clock'
    BY <1>0, <1>1, <1>6
  <2>2. stamped.from = NoPlan \/ (stamped.from \in DOMAIN plans' /\ stamped.from < clock + 1)
    BY <1>0, <1>4, <1>6
  <2> QED BY <1>4, <2>1, <2>2 DEF Sound
<1>9. ASSUME NEW g \in Handlers, g # h
      PROVE  /\ requests'[g] = requests[g]
             /\ Sound(requests[g])'
             /\ Apart(requests'[g], stamped) /\ Apart(stamped, requests'[g])
  <2>1. Sound(requests[g]) /\ requests'[g] = requests[g]
    BY <1>0, <1>5, <1>9 DEF LedgerInv
  <2>2. requests[g].at = "stamped" => requests[g].id \in 1..clock
    BY <2>1 DEF Sound
  <2>3. Sound(requests[g])'
    BY <1>0, <1>1, <2>1 DEF Sound
  <2>4. requests[g].at = "stamped" => requests[g].id # clock + 1
    BY <1>0, <2>2
  <2> QED BY <1>4, <2>1, <2>3, <2>4 DEF Apart
<1>10. requests'[h] = stamped
  BY <1>0, <1>5
<1>11. \A g \in Handlers : Sound(requests[g])'
  <2>1. Sound(requests[h])'
    BY <1>8, <1>10 DEF Sound
  <2> QED BY <1>9, <2>1
<1>12. \A f, g \in Handlers : f # g => Apart(requests[f], requests[g])'
  <2> SUFFICES ASSUME NEW f \in Handlers, NEW g \in Handlers, f # g
               PROVE  Apart(requests'[f], requests'[g])
    BY DEF Apart
  <2>1. CASE f # h /\ g # h
    BY <2>1, <1>9 DEF LedgerInv
  <2>2. CASE f = h
    BY <2>2, <1>9, <1>10
  <2>3. CASE g = h
    BY <2>3, <1>9, <1>10
  <2> QED BY <2>1, <2>2, <2>3
<1>13. Newest' /\ HasLatest'
  BY DEF LedgerInv, Newest, HasLatest, Admitted
<1> QED BY <1>7, <1>11, <1>12, <1>13 DEF LedgerInv

-----------------------------------------------------------------------------
(* What each step does to the requests. *)
LEMMA GenerateKeeps ==
  ASSUME LedgerInv, NEW h \in Handlers, Generate(h)
  PROVE  LedgerInv'
<1>1. PICK steps \in Placements(Active, 0) : Stamped(h, [Idle EXCEPT !.steps = steps])
  BY DEF Generate
<1>2. steps \in Steps
  BY PlacementsAreSteps DEF Active
<1>3. [Idle EXCEPT !.steps = steps] \in Request
  BY <1>2, IdleIsRequest DEF Request
<1>4. [Idle EXCEPT !.steps = steps].from = NoPlan
  BY DEF Idle
<1>5. UNCHANGED <<plans, status, logged>>
  BY DEF Generate
<1> QED BY <1>1, <1>3, <1>4, <1>5, StampKeeps

LEMMA RepairStampKeeps ==
  ASSUME LedgerInv, NEW h \in Handlers, RepairStamp(h)
  PROVE  LedgerInv'
<1>1. requests[h] \in Request /\ requests[h].from \in DOMAIN plans
  BY DEF LedgerInv, Typed, RepairStamp, Sound
<1>2. Stamped(h, requests[h]) /\ UNCHANGED <<plans, status, logged>>
  BY DEF RepairStamp
<1> QED BY <1>1, <1>2, StampKeeps

LEMMA StopKeeps ==
  ASSUME LedgerInv, NEW h \in Handlers, Stop(h)
  PROVE  LedgerInv'
<1>1. Sound(Idle)
  BY DEF Sound, Idle
<1>2. Idle.at # "stamped" /\ requests' = [requests EXCEPT ![h] = Idle]
  BY IdleIsRequest DEF Stop, Answer
<1>3. UNCHANGED <<plans, clock, status, logged>>
  BY DEF Stop
<1> QED BY <1>1, <1>2, <1>3, IdleIsRequest, RequestMoves

LEMMA RecalculateKeeps ==
  ASSUME LedgerInv, NEW h \in Handlers, Recalculate(h)
  PROVE  LedgerInv'
<1> DEFINE kept == (FrozenByStore \ Settled) \cap DOMAIN plans[Latest].steps
           r == [Idle EXCEPT !.at = "prior", !.from = Latest, !.kept = kept, !.gone = Settled]
<1>1. Latest \in DOMAIN plans /\ Latest \in Nat
  BY LatestIsAdmitted DEF LedgerInv, Recalculate, Typed
<1>2. kept \in SUBSET Tasks /\ Settled \in SUBSET Occurrences
  BY DEF LedgerInv, Typed, FrozenByStore, Settled
<1> HIDE DEF kept
<1>3. r \in Request
  <2>1. [Idle EXCEPT !.at = "prior"] \in Request
    BY IdleIsRequest DEF Request, Stages
  <2>2. [[Idle EXCEPT !.at = "prior"] EXCEPT !.from = Latest] \in Request
    BY <1>1, <2>1 DEF Request
  <2>3. [[[Idle EXCEPT !.at = "prior"] EXCEPT !.from = Latest] EXCEPT !.kept = kept] \in Request
    BY <1>2, <2>2 DEF Request
  <2>4. [[[[Idle EXCEPT !.at = "prior"] EXCEPT !.from = Latest] EXCEPT !.kept = kept]
           EXCEPT !.gone = Settled] \in Request
    BY <1>2, <2>3 DEF Request
  <2> QED BY <2>4
<1>4. r.at = "prior" /\ r.from = Latest /\ r.id = NoPlan
  BY DEF Idle
<1>5. requests' = [requests EXCEPT ![h] = r] /\ UNCHANGED <<plans, clock, status, logged>>
  BY DEF Recalculate, Begin, kept
<1> HIDE DEF r
<1>6. Sound(r)
  BY <1>1, <1>4 DEF Sound
<1> QED BY <1>3, <1>4, <1>5, <1>6, RequestMoves

LEMMA FrozenTasks ==
  ASSUME Typed, NEW prior
  PROVE  FrozenIds(prior) \in SUBSET Tasks
BY DEF Typed, FrozenIds, FrozenByStore

LEMMA ReadFrozenKeeps ==
  ASSUME LedgerInv, NEW h \in Handlers, ReadFrozen(h)
  PROVE  LedgerInv'
<1> DEFINE was == requests[h]
           r == [was EXCEPT !.at = "frozen", !.frozen = FrozenIds(was.from)]
<1>1. was \in Request /\ was.at = "prior" /\ Sound(was)
  BY DEF LedgerInv, Typed, ReadFrozen
<1>2. r \in Request
  <2>1. [was EXCEPT !.at = "frozen"] \in Request
    BY <1>1 DEF Request, Stages
  <2>2. [[was EXCEPT !.at = "frozen"] EXCEPT !.frozen = FrozenIds(was.from)] \in Request
    BY <2>1, FrozenTasks DEF Request, LedgerInv
  <2> QED BY <1>1, <2>2 DEF Request
<1>3. r.at = "frozen" /\ r.from = was.from /\ r.id = was.id
  BY <1>1 DEF Request
<1>4. requests' = [requests EXCEPT ![h] = r] /\ UNCHANGED <<plans, clock, status, logged>>
  BY DEF ReadFrozen, Continue
<1> HIDE DEF r
<1>5. Sound(r)
  BY <1>1, <1>3 DEF Sound
<1> QED BY <1>2, <1>3, <1>4, <1>5, RequestMoves

LEMMA RepairKeeps ==
  ASSUME LedgerInv, NEW h \in Handlers, Repair(h)
  PROVE  LedgerInv'
<1> DEFINE was == requests[h]
           r(f) == [was EXCEPT !.at = "repaired", !.frozen = {}, !.alone = (Latest = was.from),
                               !.steps = f]
<1>1. was \in Request /\ was.at = "frozen" /\ Sound(was) /\ was.from \in DOMAIN plans
      /\ was.frozen \in SUBSET Tasks
  BY DEF LedgerInv, Typed, Repair, Sound, Request
<1>2. PICK placed \in Placements(Active \ was.frozen, Floor(was.frozen)) :
        Continue(h, r(Merged(was.frozen, placed, was.from)))
  BY DEF Repair
<1>3. placed \in Steps
  BY PlacementsAreSteps DEF Active
<1>4. Merged(was.frozen, placed, was.from) \in Steps
  BY <1>1, <1>3, MergedIsSteps DEF LedgerInv
<1>5. PICK f \in Steps : f = Merged(was.frozen, placed, was.from)
  BY <1>4
<1>6. r(f) \in Request
  <2>1. [was EXCEPT !.at = "repaired"] \in Request
    BY <1>1 DEF Request, Stages
  <2>2. [[was EXCEPT !.at = "repaired"] EXCEPT !.frozen = {}] \in Request
    BY <2>1 DEF Request
  <2>3. [[[was EXCEPT !.at = "repaired"] EXCEPT !.frozen = {}]
           EXCEPT !.alone = (Latest = was.from)] \in Request
    BY <2>2 DEF Request
  <2>4. [[[[was EXCEPT !.at = "repaired"] EXCEPT !.frozen = {}]
           EXCEPT !.alone = (Latest = was.from)] EXCEPT !.steps = f] \in Request
    BY <2>3 DEF Request
  <2> QED BY <1>1, <2>4 DEF Request
<1>7. r(f).at = "repaired" /\ r(f).from = was.from /\ r(f).id = was.id
  BY <1>1 DEF Request
<1>8. requests' = [requests EXCEPT ![h] = r(f)] /\ UNCHANGED <<plans, clock, status, logged>>
  BY <1>2, <1>5 DEF Repair, Continue
<1> HIDE DEF r
<1>9. Sound(r(f))
  BY <1>1, <1>7 DEF Sound
<1> QED BY <1>6, <1>7, <1>8, <1>9, RequestMoves

LEMMA OwnerKeeps ==
  ASSUME LedgerInv, NEW t \in Tasks, Note(t) \/ End(t)
  PROVE  LedgerInv'
<1>1. Typed'
  BY DEF LedgerInv, Typed, Note, End
<1>2. UNCHANGED <<plans, clock, requests>>
  BY DEF Note, End
<1> QED BY <1>1, <1>2 DEF LedgerInv, Sound, Apart, Newest, HasLatest, Admitted

-----------------------------------------------------------------------------
(* The two steps that write the ledger. *)

(* A Plan is stored at the time its request was given: it is new, and it is  *)
(* admitted.                                                                 *)
LEMMA StoreWrites ==
  ASSUME LedgerInv, NEW h \in Handlers, Store(h)
  PROVE  LET r == requests[h]
         IN /\ r.at = "stamped" /\ r.id \in 1..clock /\ r.id \notin DOMAIN plans
            /\ r.steps \in Steps
            /\ DOMAIN plans' = DOMAIN plans \cup {r.id}
            /\ plans'[r.id] = [admitted |-> TRUE, steps |-> r.steps]
            /\ \A p \in DOMAIN plans : plans'[p] = plans[p]
            /\ Admitted' = Admitted \cup {r.id}
            /\ plans' \in [DOMAIN plans' -> Plan]
            /\ UNCHANGED <<clock, status, logged>>
<1> DEFINE r == requests[h]
<1>1. r \in Request /\ Sound(r) /\ plans \in [DOMAIN plans -> Plan]
  BY DEF LedgerInv, Typed
<1>2. r.at = "stamped"
  BY DEF Store, StoreAt
<1>3. r.id \in 1..clock /\ r.id \notin DOMAIN plans /\ r.steps \in Steps
  BY <1>1, <1>2 DEF Sound, Request
<1>4. plans' = [p \in DOMAIN plans \cup {r.id} |->
                  IF p = r.id THEN [admitted |-> TRUE, steps |-> r.steps] ELSE plans[p]]
  BY DEF Store
<1> HIDE DEF r
<1>5. /\ DOMAIN plans' = DOMAIN plans \cup {r.id}
      /\ plans'[r.id] = [admitted |-> TRUE, steps |-> r.steps]
      /\ \A p \in DOMAIN plans : plans'[p] = plans[p]
  BY <1>3, <1>4
<1>6. plans'[r.id].admitted
  BY <1>5
<1>7. Admitted' = Admitted \cup {r.id}
  BY <1>5, <1>6 DEF Admitted
<1>8. [admitted |-> TRUE, steps |-> r.steps] \in Plan
  BY <1>3 DEF Plan
<1>9. plans' \in [DOMAIN plans' -> Plan]
  BY <1>1, <1>4, <1>8
<1>10. UNCHANGED <<clock, status, logged>>
  BY DEF Store
<1> QED BY <1>2, <1>3, <1>5, <1>7, <1>9, <1>10 DEF r

(* A Plan is superseded by the request that stored a newer one.              *)
LEMMA SupersedeWrites ==
  ASSUME LedgerInv, NEW h \in Handlers, Supersede(h)
  PROVE  LET r == requests[h]
         IN /\ r.from \in DOMAIN plans /\ r.id \in DOMAIN plans /\ r.from < r.id
            /\ DOMAIN plans' = DOMAIN plans
            /\ \A p \in DOMAIN plans : plans'[p].steps = plans[p].steps
            /\ Admitted' = Admitted \ {r.from}
            /\ plans' \in [DOMAIN plans' -> Plan]
            /\ requests' = [requests EXCEPT ![h] = Idle]
            /\ UNCHANGED <<clock, status, logged>>
<1> DEFINE r == requests[h]
<1>1. r.at = "stored" /\ r.from # NoPlan
  BY DEF Supersede, RetireAt, StoreAt
<1>2. Sound(r) /\ plans \in [DOMAIN plans -> Plan]
  BY DEF LedgerInv, Typed
<1>3. r.from \in DOMAIN plans /\ r.id \in DOMAIN plans /\ r.from < r.id
  BY <1>1, <1>2 DEF Sound
<1>4. plans' = [plans EXCEPT ![r.from].admitted = FALSE]
  BY DEF Supersede
<1>5. requests' = [requests EXCEPT ![h] = Idle] /\ UNCHANGED <<clock, status, logged>>
  BY <1>1 DEF Supersede, Answer
<1> HIDE DEF r
<1>6. DOMAIN plans' = DOMAIN plans /\ \A p \in DOMAIN plans \ {r.from} : plans'[p] = plans[p]
  BY <1>2, <1>3, <1>4
<1>7. plans'[r.from] = [plans[r.from] EXCEPT !.admitted = FALSE]
  BY <1>2, <1>3, <1>4
<1>8. /\ plans'[r.from].steps = plans[r.from].steps /\ ~ plans'[r.from].admitted
      /\ plans'[r.from] \in Plan
  BY <1>2, <1>3, <1>7 DEF Plan
<1>9. Admitted' = Admitted \ {r.from}
  BY <1>3, <1>6, <1>8 DEF Admitted
<1>10. plans' \in [DOMAIN plans' -> Plan]
  BY <1>2, <1>4, <1>6, <1>8
<1> QED BY <1>3, <1>5, <1>6, <1>8, <1>9, <1>10 DEF r

LEMMA StoreKeeps ==
  ASSUME LedgerInv, NEW h \in Handlers, Store(h)
  PROVE  LedgerInv'
<1>1. PICK r \in Request : r = requests[h]
  BY DEF LedgerInv, Typed
<1>2. /\ r.at = "stamped" /\ r.id \in 1..clock /\ r.id \notin DOMAIN plans
      /\ DOMAIN plans' = DOMAIN plans \cup {r.id}
      /\ Admitted' = Admitted \cup {r.id}
      /\ plans' \in [DOMAIN plans' -> Plan]
      /\ UNCHANGED <<clock, status, logged>>
  BY <1>1, StoreWrites
<1>3. /\ requests \in [Handlers -> Request] /\ clock \in 0..MaxPlans /\ MaxPlans \in Nat
      /\ DOMAIN plans \subseteq 1..clock /\ Admitted \subseteq DOMAIN plans
  BY PlanBounds DEF LedgerInv, Typed, Admitted
<1>4. PICK s \in Request : /\ requests' = [requests EXCEPT ![h] = s]
                           /\ \/ s = Idle
                              \/ /\ s = [Idle EXCEPT !.at = "stored", !.id = r.id, !.from = r.from]
                                 /\ r.from # NoPlan
  <2>1. CASE r.from = NoPlan
    BY <2>1, <1>1, IdleIsRequest DEF Store, Answer
  <2>2. CASE r.from # NoPlan
    <3>1. [Idle EXCEPT !.at = "stored"] \in Request
      BY IdleIsRequest DEF Request, Stages
    <3>2. [[Idle EXCEPT !.at = "stored"] EXCEPT !.id = r.id] \in Request
      BY <3>1 DEF Request
    <3>3. [[[Idle EXCEPT !.at = "stored"] EXCEPT !.id = r.id] EXCEPT !.from = r.from] \in Request
      BY <3>2 DEF Request
    <3>4. [Idle EXCEPT !.at = "stored", !.id = r.id, !.from = r.from] \in Request
      BY <3>3
    <3>5. requests' = [requests EXCEPT ![h] =
                         [Idle EXCEPT !.at = "stored", !.id = r.id, !.from = r.from]]
      BY <1>1, <1>2, <2>2 DEF Store, Continue
    <3> QED BY <2>2, <3>4, <3>5
  <2> QED BY <2>1, <2>2
<1>5. Typed'
  <2>1. requests' \in [Handlers -> Request]
    BY <1>3, <1>4
  <2> QED BY <1>2, <1>3, <2>1 DEF LedgerInv, Typed
<1>6. s.at # "stamped" /\ Sound(s)'
  <2>1. CASE s = Idle
    BY <2>1 DEF Sound, Idle
  <2>2. CASE s # Idle
    <3>1. s.at = "stored" /\ s.id = r.id /\ s.from = r.from /\ r.from # NoPlan
      BY <1>4, <2>2 DEF Idle
    <3>2. r.from \in DOMAIN plans /\ r.from < r.id
      BY <1>1, <1>2, <3>1 DEF LedgerInv, Sound
    <3> QED BY <1>2, <3>1, <3>2 DEF Sound
  <2> QED BY <2>1, <2>2
<1>7. ASSUME NEW g \in Handlers, g # h
      PROVE  requests'[g] = requests[g] /\ Sound(requests[g])'
  <2>1. requests'[g] = requests[g] /\ Sound(requests[g]) /\ Apart(requests[g], requests[h])
    BY <1>3, <1>4, <1>7 DEF LedgerInv
  <2>2. requests[g].at = "stamped" => requests[g].id # r.id
    BY <1>1, <1>2, <2>1 DEF Apart
  <2> QED BY <1>2, <2>1, <2>2 DEF Sound
<1>8. requests'[h] = s
  BY <1>3, <1>4
<1>9. \A g \in Handlers : Sound(requests[g])'
  <2>1. Sound(requests[h])'
    BY <1>6, <1>8 DEF Sound
  <2> QED BY <1>7, <2>1
<1>10. \A f, g \in Handlers : f # g => Apart(requests[f], requests[g])'
  <2> SUFFICES ASSUME NEW f \in Handlers, NEW g \in Handlers, f # g
               PROVE  Apart(requests'[f], requests'[g])
    BY DEF Apart
  <2>1. CASE f # h /\ g # h
    BY <2>1, <1>7 DEF LedgerInv
  <2>2. CASE f = h \/ g = h
    BY <2>2, <1>6, <1>8 DEF Apart
  <2> QED BY <2>1, <2>2
<1>11. Newest'
  BY <1>2, <1>3 DEF LedgerInv, Newest
<1>12. HasLatest'
  <2>1. CASE Admitted = {}
    BY <2>1, <1>2 DEF HasLatest
  <2>2. CASE Admitted # {}
    <3>1. PICK p \in Admitted : \A q \in Admitted : q <= p
      BY <2>2 DEF LedgerInv, HasLatest
    <3>2. p \in Nat /\ r.id \in Nat /\ Admitted \subseteq Nat
      BY <1>2, <1>3
    <3>3. CASE r.id <= p
      BY <3>1, <3>3, <1>2 DEF HasLatest
    <3>4. CASE p <= r.id
      BY <3>1, <3>2, <3>4, <1>2 DEF HasLatest
    <3> QED BY <3>2, <3>3, <3>4
  <2> QED BY <2>1, <2>2
<1> QED BY <1>5, <1>9, <1>10, <1>11, <1>12 DEF LedgerInv

(* The Plan behind the one that is superseded, newer and admitted. *)
LEMMA Successor ==
  ASSUME LedgerInv, NEW p \in DOMAIN plans, NEW q \in DOMAIN plans, p < q
  PROVE  \E n \in Admitted : n >= q /\ n > p
<1>1. DOMAIN plans \subseteq Nat /\ Admitted \subseteq DOMAIN plans
  BY DEF LedgerInv, Typed, Admitted
<1>2. PICK n \in Admitted : n >= q
  BY DEF LedgerInv, Newest
<1> QED BY <1>1, <1>2

LEMMA SupersedeKeeps ==
  ASSUME LedgerInv, NEW h \in Handlers, Supersede(h)
  PROVE  LedgerInv'
<1>1. PICK r \in Request : r = requests[h]
  BY DEF LedgerInv, Typed
<1>2. /\ r.from \in DOMAIN plans /\ r.id \in DOMAIN plans /\ r.from < r.id
      /\ DOMAIN plans' = DOMAIN plans
      /\ Admitted' = Admitted \ {r.from}
      /\ plans' \in [DOMAIN plans' -> Plan]
      /\ requests' = [requests EXCEPT ![h] = Idle]
      /\ UNCHANGED <<clock, status, logged>>
  BY <1>1, SupersedeWrites
<1>3. /\ requests \in [Handlers -> Request]
      /\ DOMAIN plans \subseteq Nat /\ Admitted \subseteq DOMAIN plans
  BY DEF LedgerInv, Typed, Admitted
<1>4. Typed'
  <2>1. requests' \in [Handlers -> Request]
    BY <1>2, <1>3, IdleIsRequest
  <2> QED BY <1>2, <2>1 DEF LedgerInv, Typed
<1>5. \A g \in Handlers : Sound(requests[g])'
  <2>1. ASSUME NEW g \in Handlers, g # h
        PROVE  Sound(requests[g])'
    <3>1. requests'[g] = requests[g] /\ Sound(requests[g])
      BY <1>2, <1>3, <2>1 DEF LedgerInv
    <3> QED BY <1>2, <3>1 DEF Sound
  <2>2. requests'[h] = Idle
    BY <1>2, <1>3
  <2>3. Sound(requests[h])'
    BY <2>2 DEF Sound, Idle
  <2> QED BY <2>1, <2>3
<1>6. \A f, g \in Handlers : f # g => Apart(requests[f], requests[g])'
  <2>1. \A g \in Handlers : requests'[g] = IF g = h THEN Idle ELSE requests[g]
    BY <1>2, <1>3
  <2> QED BY <2>1, IdleIsRequest DEF LedgerInv, Apart
<1>7. PICK n \in Admitted : n >= r.id /\ n > r.from
  BY <1>2, Successor
<1>8. n \in Admitted' /\ n \in Nat /\ r.from \in Nat
  BY <1>2, <1>3, <1>7
<1>9. Newest'
  <2>1. ASSUME NEW p \in DOMAIN plans
        PROVE  \E q \in Admitted' : q >= p
    <3>1. PICK q \in Admitted : q >= p
      BY DEF LedgerInv, Newest
    <3>2. CASE q = r.from
      <4>1. p \in Nat
        BY <1>3
      <4>2. n >= p
        BY <1>7, <1>8, <3>1, <3>2, <4>1
      <4> QED BY <1>8, <4>2
    <3>3. CASE q # r.from
      BY <1>2, <3>1, <3>3
    <3> QED BY <3>2, <3>3
  <2> QED BY <1>2, <2>1 DEF Newest
<1>10. HasLatest'
  <2>1. PICK p \in Admitted : \A q \in Admitted : q <= p
    BY <1>7 DEF LedgerInv, HasLatest
  <2>2. n <= p /\ p \in Nat
    BY <1>3, <2>1
  <2>3. p # r.from
    BY <1>7, <1>8, <2>2
  <2> QED BY <1>2, <2>1, <2>3 DEF HasLatest
<1> QED BY <1>4, <1>5, <1>6, <1>9, <1>10 DEF LedgerInv

-----------------------------------------------------------------------------
(* LedgerInvariant: at every moment each request still has the Plan it is     *)
(* about to supersede and a newer one stored, and the admitted Plans have a   *)
(* latest (services/recalculation_service.rs stores before it supersedes).    *)
THEOREM LedgerInvariant == Spec => []LedgerInv
<1>1. Init => LedgerInv
  <2> SUFFICES ASSUME Init PROVE LedgerInv
    OBVIOUS
  <2>1. DOMAIN plans = {} /\ plans \in [DOMAIN plans -> Plan]
    BY DEF Init
  <2>2. requests \in [Handlers -> Request] /\ \A h \in Handlers : requests[h] = Idle
    BY IdleIsRequest DEF Init
  <2>3. Typed
    BY <2>1, <2>2, PlanBounds DEF Init, Typed
  <2>4. \A h \in Handlers : Sound(requests[h])
    BY <2>2 DEF Sound, Idle
  <2>5. \A g, h \in Handlers : Apart(requests[g], requests[h])
    BY <2>2 DEF Apart, Idle
  <2>6. Newest /\ HasLatest
    BY <2>1 DEF Newest, HasLatest, Admitted
  <2> QED BY <2>3, <2>4, <2>5, <2>6 DEF LedgerInv
<1>2. LedgerInv /\ [Next]_vars => LedgerInv'
  <2> SUFFICES ASSUME LedgerInv, [Next]_vars
               PROVE  LedgerInv'
    OBVIOUS
  <2>1. ASSUME NEW h \in Handlers, Generate(h) PROVE LedgerInv'
    BY <2>1, GenerateKeeps
  <2>2. ASSUME NEW h \in Handlers, RepairStamp(h) PROVE LedgerInv'
    BY <2>2, RepairStampKeeps
  <2>3. ASSUME NEW h \in Handlers, Store(h) PROVE LedgerInv'
    BY <2>3, StoreKeeps
  <2>4. ASSUME NEW h \in Handlers, Supersede(h) PROVE LedgerInv'
    BY <2>4, SupersedeKeeps
  <2>5. ASSUME NEW h \in Handlers, Recalculate(h) PROVE LedgerInv'
    BY <2>5, RecalculateKeeps
  <2>6. ASSUME NEW h \in Handlers, ReadFrozen(h) PROVE LedgerInv'
    BY <2>6, ReadFrozenKeeps
  <2>7. ASSUME NEW h \in Handlers, Repair(h) PROVE LedgerInv'
    BY <2>7, RepairKeeps
  <2>8. ASSUME NEW h \in Handlers, Stop(h) PROVE LedgerInv'
    BY <2>8, StopKeeps
  <2>9. ASSUME NEW t \in Tasks, Note(t) \/ End(t) PROVE LedgerInv'
    BY <2>9, OwnerKeeps
  <2>10. CASE UNCHANGED vars
    BY <2>10 DEF vars, LedgerInv, Typed, Sound, Apart, Newest, HasLatest, Admitted
  <2> QED BY <2>1, <2>2, <2>3, <2>4, <2>5, <2>6, <2>7, <2>8, <2>9, <2>10 DEF Next
<1> QED BY <1>1, <1>2, PTL DEF Spec

(* A step that leaves the Plans alone is a stutter of the ledger.            *)
LEMMA SamePlans ==
  ASSUME plans' = plans
  PROVE  UNCHANGED <<[p \in DOMAIN plans |-> plans[p].steps], Admitted>>
BY DEF Admitted

LEMMA StoreAdmits ==
  ASSUME LedgerInv, NEW h \in Handlers, Store(h)
  PROVE  Ledger!Next
<1> DEFINE placed == [p \in DOMAIN plans |-> plans[p].steps]
<1>1. PICK r \in Request : r = requests[h]
  BY DEF LedgerInv, Typed
<1>2. /\ r.id \in 1..clock /\ r.id \notin DOMAIN plans
      /\ r.steps \in Steps
      /\ DOMAIN plans' = DOMAIN plans \cup {r.id}
      /\ plans'[r.id] = [admitted |-> TRUE, steps |-> r.steps]
      /\ \A p \in DOMAIN plans : plans'[p] = plans[p]
      /\ Admitted' = Admitted \cup {r.id}
      /\ plans' \in [DOMAIN plans' -> Plan]
  BY <1>1, StoreWrites
<1>3. r.id \in 1..MaxPlans
  BY <1>2, PlanBounds DEF LedgerInv, Typed
<1>4. Ledger!Stored = DOMAIN plans /\ DOMAIN placed' = DOMAIN plans'
  BY DEF Ledger!Stored
<1>5. placed' \in [DOMAIN plans \cup {r.id} -> Steps]
  BY <1>2 DEF Plan
<1>6. \A q \in DOMAIN plans : placed'[q] = placed[q]
  BY <1>2
<1>7. Ledger!Admit(r.id)
  BY <1>2, <1>4, <1>5, <1>6 DEF Ledger!Admit
<1> QED BY <1>3, <1>7 DEF Ledger!Next

LEMMA SupersedeRetires ==
  ASSUME LedgerInv, NEW h \in Handlers, Supersede(h)
  PROVE  Ledger!Next
<1> DEFINE placed == [p \in DOMAIN plans |-> plans[p].steps]
<1>1. PICK r \in Request : r = requests[h]
  BY DEF LedgerInv, Typed
<1>2. /\ r.from \in DOMAIN plans /\ r.id \in DOMAIN plans /\ r.from < r.id
      /\ DOMAIN plans' = DOMAIN plans
      /\ \A p \in DOMAIN plans : plans'[p].steps = plans[p].steps
      /\ Admitted' = Admitted \ {r.from}
  BY <1>1, SupersedeWrites
<1>3. PICK n \in Admitted : n > r.from
  BY <1>2, Successor
<1>4. Ledger!Stored = DOMAIN plans
  BY DEF Ledger!Stored
<1>5. placed' = placed
  BY <1>2
<1>6. Ledger!Retire(r.from)
  BY <1>2, <1>3, <1>4, <1>5 DEF Ledger!Retire
<1> QED BY <1>2, <1>4, <1>6 DEF Ledger!Next

(* LifecycleKeepsLedger: every generation, recalculation, stop and edit maps  *)
(* to a step of the ledger of Plans or leaves it alone, so what PlanLedger    *)
(* promises holds of the stored Plans: a latest admitted Plan exists once     *)
(* there has been one, and only a newer one replaces it.                      *)
THEOREM LifecycleKeepsLedger == Spec => KeepsTheLedger
<1> DEFINE placed == [p \in DOMAIN plans |-> plans[p].steps]
<1>1. Init => Ledger!Init
  <2> SUFFICES ASSUME Init PROVE Ledger!Init
    OBVIOUS
  <2>1. DOMAIN plans = {}
    BY DEF Init
  <2>2. placed \in [{} -> Steps] /\ Admitted = {}
    BY <2>1 DEF Admitted
  <2> QED BY <2>2 DEF Ledger!Init
<1>2. LedgerInv /\ [Next]_vars => [Ledger!Next]_<<placed, Admitted>>
  <2> SUFFICES ASSUME LedgerInv, [Next]_vars
               PROVE  Ledger!Next \/ UNCHANGED <<placed, Admitted>>
    OBVIOUS
  <2>1. ASSUME NEW h \in Handlers, Store(h) PROVE Ledger!Next
    BY <2>1, StoreAdmits
  <2>2. ASSUME NEW h \in Handlers, Supersede(h) PROVE Ledger!Next
    BY <2>2, SupersedeRetires
  <2>3. ASSUME NEW h \in Handlers,
               \/ Generate(h) \/ RepairStamp(h) \/ Recalculate(h) \/ ReadFrozen(h)
               \/ Repair(h) \/ Stop(h)
        PROVE  plans' = plans
    BY <2>3 DEF Generate, RepairStamp, Recalculate, ReadFrozen, Repair, Stop
  <2>4. ASSUME NEW t \in Tasks, Note(t) \/ End(t) PROVE plans' = plans
    BY <2>4 DEF Note, End
  <2>5. CASE UNCHANGED vars
    BY <2>5, SamePlans DEF vars
  <2> QED BY <2>1, <2>2, <2>3, <2>4, <2>5, SamePlans DEF Next
<1> QED BY <1>1, <1>2, LedgerInvariant, PTL DEF Spec, KeepsTheLedger, Ledger!Spec

-----------------------------------------------------------------------------
(* What a request knows of the past, at each of its stages: the Tasks that   *)
(* were frozen when it began are settled by now, or where its Plan has them. *)
Past(r) ==
  /\ r.from = NoPlan => r.kept = {}
  /\ r.at = "prior" => /\ r.kept \subseteq FrozenByStore
                       /\ r.kept \subseteq DOMAIN plans[r.from].steps
                       /\ r.gone \subseteq Settled
  /\ r.at = "frozen" => /\ r.kept \subseteq Settled \cup r.frozen
                        /\ r.kept \subseteq DOMAIN plans[r.from].steps
                        /\ r.gone \subseteq Settled
                        /\ r.gone \cap r.frozen = {}
  /\ r.at \in {"repaired", "stamped"} =>
       /\ \A t \in r.kept : \/ t \in Settled
                           \/ /\ t \in DOMAIN r.steps
                              /\ r.steps[t] = plans[r.from].steps[t]
       /\ r.gone \cap DOMAIN r.steps = {}

PastInv == LedgerInv /\ \A h \in Handlers : Past(requests[h])

(* What is settled or frozen stays so, and a Plan keeps its steps. *)
LEMMA TimePasses ==
  ASSUME LedgerInv, [Next]_vars
  PROVE  /\ Settled \subseteq Settled' /\ FrozenByStore \subseteq FrozenByStore'
         /\ DOMAIN plans \subseteq DOMAIN plans'
         /\ \A p \in DOMAIN plans : plans'[p].steps = plans[p].steps
<1>1. ASSUME UNCHANGED <<status, logged>>
      PROVE  Settled' = Settled /\ FrozenByStore' = FrozenByStore
  BY <1>1 DEF Settled, FrozenByStore
<1>2. ASSUME plans' = plans
      PROVE  /\ DOMAIN plans \subseteq DOMAIN plans'
             /\ \A p \in DOMAIN plans : plans'[p].steps = plans[p].steps
  BY <1>2
<1>3. ASSUME NEW h \in Handlers,
             \/ Generate(h) \/ RepairStamp(h) \/ Recalculate(h) \/ ReadFrozen(h)
             \/ Repair(h) \/ Stop(h)
      PROVE  UNCHANGED <<plans, status, logged>>
  BY <1>3 DEF Generate, RepairStamp, Recalculate, ReadFrozen, Repair, Stop
<1>4. ASSUME NEW h \in Handlers, Store(h)
      PROVE  /\ UNCHANGED <<status, logged>> /\ DOMAIN plans \subseteq DOMAIN plans'
             /\ \A p \in DOMAIN plans : plans'[p].steps = plans[p].steps
  BY <1>4, StoreWrites
<1>5. ASSUME NEW h \in Handlers, Supersede(h)
      PROVE  /\ UNCHANGED <<status, logged>> /\ DOMAIN plans \subseteq DOMAIN plans'
             /\ \A p \in DOMAIN plans : plans'[p].steps = plans[p].steps
  BY <1>5, SupersedeWrites
<1>6. ASSUME NEW t \in Tasks, Note(t)
      PROVE  Settled \subseteq Settled' /\ FrozenByStore \subseteq FrozenByStore' /\ plans' = plans
  BY <1>6 DEF Note, Settled, FrozenByStore
<1>7. ASSUME NEW t \in Tasks, End(t)
      PROVE  Settled \subseteq Settled' /\ FrozenByStore \subseteq FrozenByStore' /\ plans' = plans
  <2>1. status \in [Tasks -> {"active", "completed"}] /\ Occurrences \subseteq Tasks
    BY PlanBounds DEF LedgerInv, Typed
  <2>2. status' = [status EXCEPT ![t] = "completed"] /\ logged' = logged \cup {t} /\ plans' = plans
    BY <1>7 DEF End
  <2> QED BY <2>1, <2>2 DEF Settled, FrozenByStore
<1>8. CASE UNCHANGED vars
  BY <1>8, <1>1, <1>2 DEF vars
<1> QED BY <1>1, <1>2, <1>3, <1>4, <1>5, <1>6, <1>7, <1>8 DEF Next

(* A request that rests keeps what it knows. *)
LEMMA RestingPast ==
  ASSUME LedgerInv, [Next]_vars, NEW r \in Request, Sound(r), Past(r)
  PROVE  Past(r)'
<1>1. /\ Settled \subseteq Settled' /\ FrozenByStore \subseteq FrozenByStore'
      /\ DOMAIN plans \subseteq DOMAIN plans'
      /\ \A p \in DOMAIN plans : plans'[p].steps = plans[p].steps
  BY TimePasses
<1>2. CASE r.at \in {"prior", "frozen"}
  <2>1. r.from \in DOMAIN plans
    BY <1>2 DEF Sound
  <2> QED BY <1>1, <1>2, <2>1 DEF Past
<1>3. CASE r.at \in {"repaired", "stamped"}
  <2>1. r.kept # {} => r.from \in DOMAIN plans
    BY <1>3 DEF Sound, Past
  <2> QED BY <1>1, <1>3, <2>1 DEF Past
<1>4. CASE r.at \notin {"prior", "frozen", "repaired", "stamped"}
  BY <1>4 DEF Past
<1> QED BY <1>2, <1>3, <1>4

(* The three steps of a recalculation that learn or use the past. *)
LEMMA RecalculatePast ==
  ASSUME PastInv, NEW h \in Handlers, Recalculate(h)
  PROVE  Past(requests[h])'
<1>1. requests \in [Handlers -> Request]
  BY DEF PastInv, LedgerInv, Typed
<1>2. /\ requests'[h].at = "prior" /\ requests'[h].from = Latest /\ Latest # NoPlan
      /\ requests'[h].kept = (FrozenByStore \ Settled) \cap DOMAIN plans[Latest].steps
      /\ requests'[h].gone = Settled
      /\ UNCHANGED <<plans, status, logged>>
  BY <1>1 DEF Recalculate, Begin, Idle
<1>3. Settled' = Settled /\ FrozenByStore' = FrozenByStore
  BY <1>2 DEF Settled, FrozenByStore
<1> QED BY <1>2, <1>3 DEF Past

LEMMA ReadFrozenPast ==
  ASSUME PastInv, NEW h \in Handlers, ReadFrozen(h)
  PROVE  Past(requests[h])'
<1>1. PICK r \in Request : r = requests[h] /\ r.at = "prior" /\ Past(r)
  BY DEF PastInv, LedgerInv, Typed, ReadFrozen
<1>2. requests \in [Handlers -> Request]
  BY DEF PastInv, LedgerInv, Typed
<1>3. requests'[h] = [r EXCEPT !.at = "frozen", !.frozen = FrozenIds(r.from)]
  BY <1>1, <1>2 DEF ReadFrozen, Continue
<1>4. /\ requests'[h].at = "frozen" /\ requests'[h].frozen = FrozenIds(r.from)
      /\ requests'[h].from = r.from /\ requests'[h].kept = r.kept /\ requests'[h].gone = r.gone
  BY <1>3 DEF Request
<1>5. UNCHANGED <<plans, status, logged>> /\ Settled' = Settled
  BY DEF ReadFrozen, Settled
<1>6. r.kept \subseteq FrozenByStore \cap DOMAIN plans[r.from].steps /\ r.gone \subseteq Settled
  BY <1>1 DEF Past
<1>7. r.kept \subseteq Settled \cup FrozenIds(r.from) /\ r.gone \cap FrozenIds(r.from) = {}
  BY <1>6 DEF FrozenIds
<1> QED BY <1>1, <1>4, <1>5, <1>6, <1>7 DEF Past

LEMMA RepairPast ==
  ASSUME PastInv, NEW h \in Handlers, Repair(h)
  PROVE  Past(requests[h])'
<1>1. PICK r \in Request : /\ r = requests[h] /\ r.at = "frozen" /\ Past(r)
                           /\ r.from \in DOMAIN plans
  BY DEF PastInv, LedgerInv, Typed, Repair, Sound
<1>2. requests \in [Handlers -> Request] /\ r.frozen \in SUBSET Tasks
  BY DEF PastInv, LedgerInv, Typed, Request
<1>3. PICK placed \in Placements(Active \ r.frozen, Floor(r.frozen)) :
        requests' = [requests EXCEPT ![h] =
          [r EXCEPT !.at = "repaired", !.frozen = {}, !.alone = (Latest = r.from),
                    !.steps = Merged(r.frozen, placed, r.from)]]
  BY <1>1 DEF Repair, Continue
<1>4. PICK f : f = Merged(r.frozen, placed, r.from)
  OBVIOUS
<1>5. /\ requests'[h].at = "repaired" /\ requests'[h].steps = f
      /\ requests'[h].from = r.from /\ requests'[h].kept = r.kept /\ requests'[h].gone = r.gone
  BY <1>2, <1>3, <1>4 DEF Request
<1>6. placed \in Steps /\ DOMAIN placed = Active \ r.frozen
  BY PlacementsAreSteps DEF Active
<1>7. /\ DOMAIN f = (r.frozen \cap DOMAIN plans[r.from].steps) \cup (Active \ r.frozen)
      /\ \A t \in r.frozen \cap DOMAIN plans[r.from].steps : f[t] = plans[r.from].steps[t]
  <2>1. Typed
    BY DEF PastInv, LedgerInv
  <2>2. LET m == Merged(r.frozen, placed, r.from)
            was == plans[r.from].steps
        IN /\ DOMAIN m = (r.frozen \cap DOMAIN was) \cup DOMAIN placed
           /\ \A t \in r.frozen \cap DOMAIN was : m[t] = was[t]
    <3>1. /\ r.frozen \in SUBSET Tasks /\ placed \in Steps
          /\ r.from \in DOMAIN plans
      BY <1>1, <1>2, <1>6
    <3> QED BY ONLY <2>1, <3>1, MergedIsSteps
  <2> QED BY <1>4, <1>6, <2>2
<1>8. UNCHANGED <<plans, status, logged>> /\ Settled' = Settled
  BY DEF Repair, Settled
<1>9. \A t \in r.kept : t \in Settled \/ (t \in DOMAIN f /\ f[t] = plans[r.from].steps[t])
  BY <1>1, <1>7 DEF Past
<1>10. r.gone \cap DOMAIN f = {}
  BY <1>1, <1>7 DEF Past, Settled, Active
<1> QED BY <1>1, <1>5, <1>8, <1>9, <1>10 DEF Past

LEMMA StampedPast ==
  ASSUME PastInv, NEW h \in Handlers, RepairStamp(h)
  PROVE  Past(requests[h])'
<1>1. PICK r \in Request : r = requests[h] /\ r.at = "repaired" /\ Past(r)
  BY DEF PastInv, LedgerInv, Typed, RepairStamp
<1>2. requests \in [Handlers -> Request]
  BY DEF PastInv, LedgerInv, Typed
<1>3. requests'[h] = [r EXCEPT !.at = "stamped", !.id = clock']
  BY <1>1, <1>2 DEF RepairStamp, Stamped
<1>4. /\ requests'[h].at = "stamped" /\ requests'[h].steps = r.steps
      /\ requests'[h].from = r.from /\ requests'[h].kept = r.kept /\ requests'[h].gone = r.gone
  BY <1>3 DEF Request
<1>5. UNCHANGED <<plans, status, logged>> /\ Settled' = Settled
  BY DEF RepairStamp, Settled
<1> QED BY <1>1, <1>4, <1>5 DEF Past

LEMMA GeneratedPast ==
  ASSUME PastInv, NEW h \in Handlers, Generate(h)
  PROVE  Past(requests[h])'
<1>1. requests \in [Handlers -> Request]
  BY DEF PastInv, LedgerInv, Typed
<1>2. PICK steps : Stamped(h, [Idle EXCEPT !.steps = steps])
  BY DEF Generate
<1>3. requests'[h].at = "stamped" /\ requests'[h].kept = {} /\ requests'[h].gone = {}
  BY <1>1, <1>2 DEF Stamped, Idle
<1> QED BY <1>3 DEF Past

-----------------------------------------------------------------------------
(* A step leaves a request as it is, ends it, has it store, or is one of its  *)
(* own five other steps.                                                      *)
LEMMA RequestSteps ==
  ASSUME LedgerInv, [Next]_vars, NEW g \in Handlers
  PROVE  \/ requests'[g] = requests[g]
         \/ requests'[g].at \in {"idle", "stored"} /\ requests'[g].kept = {}
         \/ Generate(g) \/ RepairStamp(g) \/ Recalculate(g) \/ ReadFrozen(g) \/ Repair(g)
<1>1. requests \in [Handlers -> Request]
  BY DEF LedgerInv, Typed
<1>2. ASSUME NEW h \in Handlers, NEW r, requests' = [requests EXCEPT ![h] = r], g # h
      PROVE  requests'[g] = requests[g]
  BY <1>1, <1>2
<1>3. ASSUME NEW h \in Handlers, requests' = [requests EXCEPT ![h] = Idle]
      PROVE  \/ requests'[g] = requests[g]
             \/ requests'[g].at \in {"idle", "stored"} /\ requests'[g].kept = {}
  BY <1>1, <1>3 DEF Idle
<1>4. ASSUME NEW h \in Handlers, g # h,
             \/ Generate(h) \/ RepairStamp(h) \/ Recalculate(h) \/ ReadFrozen(h) \/ Repair(h)
      PROVE  requests'[g] = requests[g]
  BY <1>2, <1>4 DEF Generate, RepairStamp, Recalculate, ReadFrozen, Repair, Stamped, Begin, Continue
<1>5. ASSUME NEW h \in Handlers, Store(h)
      PROVE  \/ requests'[g] = requests[g]
             \/ requests'[g].at \in {"idle", "stored"} /\ requests'[g].kept = {}
  <2>1. \/ requests' = [requests EXCEPT ![h] = Idle]
        \/ requests' = [requests EXCEPT ![h] =
                          [Idle EXCEPT !.at = "stored", !.id = requests[h].id,
                                       !.from = requests[h].from]]
    BY <1>5 DEF Store, Answer, Continue
  <2>2. ASSUME NEW i, NEW f, requests' = [requests EXCEPT ![h] =
                          [Idle EXCEPT !.at = "stored", !.id = i, !.from = f]]
        PROVE  \/ requests'[g] = requests[g]
               \/ requests'[g].at \in {"idle", "stored"} /\ requests'[g].kept = {}
    BY <1>1, <2>2 DEF Idle
  <2> QED BY <1>3, <2>1, <2>2
<1>6. ASSUME NEW h \in Handlers, Supersede(h) \/ Stop(h)
      PROVE  requests' = [requests EXCEPT ![h] = Idle]
  BY <1>6, SupersedeWrites DEF Stop, Answer
<1>7. ASSUME NEW t \in Tasks, Note(t) \/ End(t)
      PROVE  requests' = requests
  BY <1>7 DEF Note, End
<1>8. CASE UNCHANGED vars
  BY <1>8 DEF vars
<1> QED BY <1>3, <1>4, <1>5, <1>6, <1>7, <1>8 DEF Next

(* The step that stores a request's Plan is its own, and stores what it holds. *)
LEMMA StoringSteps ==
  ASSUME LedgerInv, Next, NEW g \in Handlers, Storing(g)
  PROVE  requests[g].at = "stamped" /\ StoredSteps(g) = requests[g].steps
<1>1. PICK r \in Request : r = requests[g] /\ Sound(r)
  BY DEF LedgerInv, Typed
<1>2. r.id \in DOMAIN plans' /\ r.id \notin DOMAIN plans
  BY <1>1 DEF Storing
<1>3. PICK h \in Handlers : Store(h)
  <2>1. ASSUME NEW h \in Handlers,
               \/ Generate(h) \/ RepairStamp(h) \/ Recalculate(h) \/ ReadFrozen(h)
               \/ Repair(h) \/ Stop(h)
        PROVE  plans' = plans
    BY <2>1 DEF Generate, RepairStamp, Recalculate, ReadFrozen, Repair, Stop
  <2>2. ASSUME NEW t \in Tasks, Note(t) \/ End(t) PROVE plans' = plans
    BY <2>2 DEF Note, End
  <2>3. ASSUME NEW h \in Handlers, Supersede(h) PROVE DOMAIN plans' = DOMAIN plans
    BY <2>3, SupersedeWrites DEF LedgerInv
  <2> QED BY <1>2, <2>1, <2>2, <2>3 DEF Next
<1>4. PICK s \in Request : s = requests[h]
  BY DEF LedgerInv, Typed
<1>5. /\ s.at = "stamped" /\ s.id \in 1..clock
      /\ DOMAIN plans' = DOMAIN plans \cup {s.id}
      /\ plans'[s.id] = [admitted |-> TRUE, steps |-> s.steps]
      /\ UNCHANGED <<status, logged>>
  BY <1>3, <1>4, StoreWrites DEF LedgerInv
<1>6. r.id = s.id
  BY <1>2, <1>5
<1>7. r.at = "stamped"
  <2>1. r.id # NoPlan
    BY <1>5, <1>6 DEF NoPlan, LedgerInv, Typed
  <2>2. r.at # "stored"
    BY <1>1, <1>2 DEF Sound
  <2> QED BY <1>1, <2>1, <2>2 DEF Sound, Request, Stages
<1>8. g = h
  BY <1>1, <1>4, <1>5, <1>6, <1>7 DEF LedgerInv, Apart
<1>9. StoredSteps(g) = r.steps
  BY <1>1, <1>4, <1>5, <1>8 DEF StoredSteps
<1> QED BY <1>1, <1>7, <1>9

(* PastInvariant: what a recalculation is about to store has the frozen Tasks *)
(* where it found them, whatever was generated, logged or ended meanwhile     *)
(* (services/recalculation_service.rs reads the Tasks, the logs and the       *)
(* latest Plan one after the other).                                          *)
THEOREM PastInvariant == Spec => []PastInv
<1>1. Init => \A h \in Handlers : Past(requests[h])
  BY DEF Init, Past, Idle
<1>2. PastInv /\ LedgerInv' /\ [Next]_vars => PastInv'
  <2> SUFFICES ASSUME PastInv, LedgerInv', [Next]_vars, NEW g \in Handlers
               PROVE  Past(requests[g])'
    BY DEF PastInv
  <2>1. requests \in [Handlers -> Request] /\ Sound(requests[g]) /\ Past(requests[g])
    BY DEF PastInv, LedgerInv, Typed
  <2>2. ASSUME requests'[g] = requests[g]
        PROVE  Past(requests[g])'
    <3>1. PICK r \in Request : r = requests[g]
      BY <2>1
    <3>2. Past(r)'
      BY <2>1, <3>1, RestingPast DEF PastInv
    <3> QED BY <2>2, <3>1, <3>2 DEF Past
  <2>3. ASSUME requests'[g].at \in {"idle", "stored"}, requests'[g].kept = {}
        PROVE  Past(requests[g])'
    BY <2>3 DEF Past
  <2> QED BY <2>2, <2>3, RequestSteps, GeneratedPast, StampedPast, RecalculatePast,
             ReadFrozenPast, RepairPast DEF PastInv
<1>3. Spec => []LedgerInv
  BY LedgerInvariant
<1>4. PastInv <=> LedgerInv /\ \A h \in Handlers : Past(requests[h])
  BY DEF PastInv
<1> QED BY <1>1, <1>2, <1>3, <1>4, PTL DEF Spec

(* PastKept: a repair stores every Task that was frozen when it began where   *)
(* the Plan it repairs has it, and no occurrence that was over by then.       *)
THEOREM PastKept == Spec => RepairsKeepThePast
<1>1. PastInv /\ [Next]_vars => [\A h \in Handlers : Storing(h) => KeepsThePast(h)]_vars
  <2> SUFFICES ASSUME PastInv, Next, NEW g \in Handlers, Storing(g)
               PROVE  KeepsThePast(g)
    BY DEF vars
  <2>1. requests[g].at = "stamped" /\ StoredSteps(g) = requests[g].steps
    BY StoringSteps DEF PastInv
  <2> QED BY <2>1 DEF PastInv, Past, KeepsThePast
<1> QED BY <1>1, PastInvariant, PTL DEF Spec, RepairsKeepThePast

-----------------------------------------------------------------------------
(* What a request knows of the slots: what it is about to store places no two *)
(* Tasks at once, if the Plan it repairs did not and was the latest at both   *)
(* reads.                                                                     *)
Books(r) ==
  r.at \in {"repaired", "stamped"} /\ r.alone
  /\ (r.from # NoPlan => Disjoint(plans[r.from].steps)) => Disjoint(r.steps)

BookInv == LedgerInv /\ \A h \in Handlers : Books(requests[h])

(* A set of slots has a last one. *)
LEMMA LastSlot ==
  ASSUME NEW n \in Nat, NEW S \in SUBSET (0..n), S # {}
  PROVE  Max(S) \in S /\ \A x \in S : x <= Max(S)
<1> DEFINE T == {n - x : x \in S}
<1>1. \A x \in S : x \in Nat /\ n - x \in Nat
  OBVIOUS
<1>2. T \subseteq Nat /\ T # {}
  BY <1>1
<1>3. PICK R : R = OpToRel(<, Nat) /\ IsWellFoundedOn(R, Nat)
  BY NatLessThanWellFounded
<1>4. PICK least \in T : \A y \in T : ~ (<<y, least>> \in R)
  <2> HIDE DEF T
  <2> QED BY <1>2, <1>3, WFMin
<1>5. PICK last \in S : least = n - last
  OBVIOUS
<1>6. ASSUME NEW x \in S
      PROVE  last >= x
  <2>1. n - x \in T /\ n - x \in Nat /\ least \in Nat
    BY <1>1, <1>2
  <2>2. <<n - x, least>> \notin R
    BY <1>4, <2>1
  <2>3. ~ (n - x < least)
    BY <1>3, <2>1, <2>2 DEF OpToRel
  <2>4. ~ (n - x < n - last) /\ x \in Nat /\ last \in Nat
    BY <1>1, <1>5, <2>3
  <2> QED BY <2>4
<1>7. Max(S) \in S /\ \A x \in S : Max(S) >= x
  BY <1>5, <1>6 DEF Max
<1>8. \A x \in S : x \in Nat
  BY <1>1
<1> QED BY <1>7, <1>8

-----------------------------------------------------------------------------
(* Past the last frozen step, and at slots apart: a repair of the latest Plan *)
(* books every slot once if that Plan did.                                    *)
LEMMA PastTheFloor ==
  ASSUME LedgerInv, NEW frozen \in SUBSET Tasks, Latest # NoPlan
  PROVE  /\ Floor(frozen) \in Nat
         /\ \A t \in frozen \cap DOMAIN plans[Latest].steps :
              plans[Latest].steps[t] <= Floor(frozen)
<1>1. PICK steps \in Steps : steps = plans[Latest].steps
  BY LatestIsAdmitted DEF LedgerInv, Typed, Plan
<1>2. DOMAIN steps \subseteq Tasks /\ steps \in [DOMAIN steps -> 1..Slots]
  BY <1>1, StepsAreFunctions
<1> DEFINE S == {0} \cup {steps[u] : u \in DOMAIN steps \cap frozen}
<1>3. S \in SUBSET (0..Slots) /\ S # {} /\ Slots \in Nat
  BY <1>2, PlanBounds
<1>4. \A t \in frozen \cap DOMAIN steps : steps[t] \in S
  OBVIOUS
<1>5. Floor(frozen) = Max(S)
  BY <1>1 DEF Floor
<1> HIDE DEF S
<1>6. Max(S) \in S /\ \A x \in S : x <= Max(S)
  BY <1>3, LastSlot
<1>7. Max(S) \in Nat
  <2>1. PICK last \in 0..Slots : last = Max(S)
    BY <1>3, <1>6
  <2> QED BY <1>3, <2>1
<1>8. \A t \in frozen \cap DOMAIN steps : steps[t] <= Floor(frozen)
  BY <1>4, <1>5, <1>6
<1> QED BY <1>1, <1>5, <1>7, <1>8

LEMMA MergedPlaces ==
  ASSUME Typed, NEW frozen \in SUBSET Tasks, NEW prior \in DOMAIN plans,
         NEW S \in SUBSET Tasks, S \cap frozen = {}, NEW placed \in [S -> 1..Slots]
  PROVE  LET f == Merged(frozen, placed, prior)
             kept == frozen \cap DOMAIN plans[prior].steps
         IN /\ DOMAIN f = kept \cup S
            /\ \A t \in kept : f[t] = plans[prior].steps[t]
            /\ \A t \in S : f[t] = placed[t] /\ t \notin kept
<1> DEFINE was == plans[prior].steps
           kept == frozen \cap DOMAIN was
<1>1. Merged(frozen, placed, prior)
        = [t \in kept \cup S |-> IF t \in kept THEN was[t] ELSE placed[t]]
  BY DEF Merged
<1>2. \A t \in S : t \notin kept
  OBVIOUS
<1> HIDE DEF was, kept
<1>3. LET f == Merged(frozen, placed, prior)
      IN /\ DOMAIN f = kept \cup S
         /\ \A t \in kept : f[t] = was[t]
         /\ \A t \in S : f[t] = placed[t] /\ t \notin kept
  BY <1>1, <1>2
<1> QED BY <1>3 DEF was, kept

LEMMA MergedBooksOnce ==
  ASSUME LedgerInv, NEW frozen \in SUBSET Tasks, Latest # NoPlan,
         Disjoint(plans[Latest].steps),
         NEW placed \in Placements(Active \ frozen, Floor(frozen))
  PROVE  Disjoint(Merged(frozen, placed, Latest))
<1> DEFINE S == Active \ frozen
           kept == frozen \cap DOMAIN plans[Latest].steps
<1>1. /\ placed \in [S -> 1..Slots] /\ S \in SUBSET Tasks /\ S \cap frozen = {}
      /\ Disjoint(placed) /\ \A t \in S : placed[t] > Floor(frozen)
  BY DEF Placements, Active
<1>2. Latest \in DOMAIN plans /\ Typed
  BY LatestIsAdmitted DEF LedgerInv
<1>3. PICK f : f = Merged(frozen, placed, Latest)
  OBVIOUS
<1>4. PICK was \in Steps : was = plans[Latest].steps
  BY <1>2 DEF Typed, Plan
<1> HIDE DEF S
<1>5. /\ DOMAIN f = kept \cup S
      /\ \A t \in kept : f[t] = was[t]
      /\ \A t \in S : f[t] = placed[t]
  <2>1. LET m == Merged(frozen, placed, Latest)
            stays == frozen \cap DOMAIN plans[Latest].steps
        IN /\ DOMAIN m = stays \cup S
           /\ \A t \in stays : m[t] = plans[Latest].steps[t]
           /\ \A t \in S : m[t] = placed[t] /\ t \notin stays
    BY <1>1, <1>2, MergedPlaces
  <2> QED BY <1>3, <1>4, <2>1
<1>6. /\ Floor(frozen) \in Nat
      /\ \A t \in kept : was[t] <= Floor(frozen)
  BY <1>4, PastTheFloor
<1>7. /\ \A t \in kept : was[t] \in Nat
      /\ \A t \in S : placed[t] \in Nat
  BY <1>1, <1>4, PlanBounds, StepsAreFunctions
<1>8. \A t \in kept, u \in S : was[t] # placed[u]
  BY <1>1, <1>6, <1>7
<1>9. /\ \A t, u \in kept : t # u => was[t] # was[u]
      /\ \A t, u \in S : t # u => placed[t] # placed[u]
  BY <1>1, <1>4 DEF Disjoint
<1> HIDE DEF kept
<1>10. Disjoint(f)
  BY <1>5, <1>8, <1>9 DEF Disjoint
<1> QED BY <1>3, <1>10

LEMMA RepairBooks ==
  ASSUME BookInv, NEW h \in Handlers, Repair(h)
  PROVE  Books(requests[h])'
<1>1. PICK r \in Request : r = requests[h] /\ r.at = "frozen" /\ r.from \in DOMAIN plans
  BY DEF BookInv, LedgerInv, Typed, Repair, Sound
<1>2. requests \in [Handlers -> Request] /\ r.frozen \in SUBSET Tasks
  BY DEF BookInv, LedgerInv, Typed, Request
<1>3. PICK placed \in Placements(Active \ r.frozen, Floor(r.frozen)) :
        requests' = [requests EXCEPT ![h] =
          [r EXCEPT !.at = "repaired", !.frozen = {}, !.alone = (Latest = r.from),
                    !.steps = Merged(r.frozen, placed, r.from)]]
  BY <1>1 DEF Repair, Continue
<1>4. /\ requests'[h].from = r.from /\ requests'[h].alone = (Latest = r.from)
      /\ requests'[h].steps = Merged(r.frozen, placed, r.from)
  BY <1>2, <1>3 DEF Request
<1>5. r.from # NoPlan /\ plans' = plans
  BY <1>1 DEF BookInv, LedgerInv, Typed, NoPlan, Repair
<1>6. PICK f : f = Merged(r.frozen, placed, r.from)
  OBVIOUS
<1>7. Latest = r.from /\ Disjoint(plans[r.from].steps) => Disjoint(f)
  BY <1>2, <1>5, <1>6, MergedBooksOnce DEF BookInv
<1>8. requests'[h].alone /\ Disjoint(plans'[requests'[h].from].steps)
        => Disjoint(requests'[h].steps)
  BY <1>4, <1>5, <1>6, <1>7
<1>9. requests'[h].from # NoPlan
  BY <1>4, <1>5
<1> QED BY <1>8, <1>9 DEF Books, Disjoint

LEMMA GeneratedBooks ==
  ASSUME BookInv, NEW h \in Handlers, Generate(h)
  PROVE  Books(requests[h])'
<1>1. requests \in [Handlers -> Request]
  BY DEF BookInv, LedgerInv, Typed
<1>2. PICK steps \in Placements(Active, 0) : Stamped(h, [Idle EXCEPT !.steps = steps])
  BY DEF Generate
<1>3. requests'[h].steps = steps /\ Disjoint(steps)
  BY <1>1, <1>2 DEF Stamped, Idle, Placements
<1> QED BY <1>3 DEF Books, Disjoint

(* A request that rests, or is given its time, books as it did. *)
LEMMA RestingBooks ==
  ASSUME LedgerInv, [Next]_vars, NEW r \in Request, Sound(r), Books(r)
  PROVE  Books(r)'
<1>1. /\ DOMAIN plans \subseteq DOMAIN plans'
      /\ \A p \in DOMAIN plans : plans'[p].steps = plans[p].steps
  BY TimePasses
<1>2. r.at \in {"repaired", "stamped"} => r.from = NoPlan \/ r.from \in DOMAIN plans
  BY DEF Sound
<1> QED BY <1>1, <1>2 DEF Books, Disjoint

LEMMA StampedBooks ==
  ASSUME BookInv, NEW h \in Handlers, RepairStamp(h)
  PROVE  Books(requests[h])'
<1>1. PICK r \in Request : r = requests[h] /\ r.at = "repaired" /\ Books(r)
  BY DEF BookInv, LedgerInv, Typed, RepairStamp
<1>2. requests \in [Handlers -> Request]
  BY DEF BookInv, LedgerInv, Typed
<1>3. requests'[h] = [r EXCEPT !.at = "stamped", !.id = clock']
  BY <1>1, <1>2 DEF RepairStamp, Stamped
<1>4. /\ requests'[h].steps = r.steps /\ requests'[h].from = r.from
      /\ requests'[h].alone = r.alone /\ plans' = plans
  BY <1>3 DEF Request, RepairStamp
<1> QED BY <1>1, <1>4 DEF Books, Disjoint

(* BookInvariant: what a request is about to store books every slot once, if  *)
(* the Plan it repairs did and stayed the latest between its two reads.       *)
THEOREM BookInvariant == Spec => []BookInv
<1>1. Init => \A h \in Handlers : Books(requests[h])
  BY DEF Init, Books, Idle
<1>2. BookInv /\ LedgerInv' /\ [Next]_vars => BookInv'
  <2> SUFFICES ASSUME BookInv, LedgerInv', [Next]_vars, NEW g \in Handlers
               PROVE  Books(requests[g])'
    BY DEF BookInv
  <2>1. PICK r \in Request : r = requests[g] /\ Sound(r) /\ Books(r)
    BY DEF BookInv, LedgerInv, Typed
  <2>2. ASSUME requests'[g] = requests[g]
        PROVE  Books(requests[g])'
    <3>1. Books(r)'
      BY <2>1, RestingBooks DEF BookInv
    <3> QED BY <2>1, <2>2, <3>1 DEF Books, Disjoint
  <2>3. ASSUME requests'[g].at \in {"idle", "stored"}
        PROVE  Books(requests[g])'
    BY <2>3 DEF Books
  <2>4. ASSUME Recalculate(g) \/ ReadFrozen(g)
        PROVE  requests'[g].at \in {"prior", "frozen"}
    <3>1. requests \in [Handlers -> Request]
      BY DEF BookInv, LedgerInv, Typed
    <3>2. CASE Recalculate(g)
      BY <3>1, <3>2 DEF Recalculate, Begin, Idle
    <3>3. CASE ReadFrozen(g)
      <4>1. requests'[g] = [r EXCEPT !.at = "frozen", !.frozen = FrozenIds(r.from)]
        BY <2>1, <3>1, <3>3 DEF ReadFrozen, Continue
      <4> QED BY <4>1 DEF Request
    <3> QED BY <2>4, <3>2, <3>3
  <2>5. ASSUME Recalculate(g) \/ ReadFrozen(g)
        PROVE  Books(requests[g])'
    BY <2>4, <2>5 DEF Books
  <2> QED BY <2>2, <2>3, <2>5, RequestSteps, GeneratedBooks, StampedBooks, RepairBooks
          DEF BookInv
<1>3. Spec => []LedgerInv
  BY LedgerInvariant
<1>4. BookInv <=> LedgerInv /\ \A h \in Handlers : Books(requests[h])
  BY DEF BookInv
<1> QED BY <1>1, <1>2, <1>3, <1>4, PTL DEF Spec

(* SlotsBookedOnce: no request stores a Plan that places two Tasks in one     *)
(* slot, frozen steps included, unless the Plan it repairs did or another     *)
(* Plan became the latest between the two reads of the recalculation.         *)
THEOREM SlotsBookedOnce == Spec => RepairsBookOnce
<1>1. BookInv /\ [Next]_vars => [\A h \in Handlers : Storing(h) => BooksOnce(h)]_vars
  <2> SUFFICES ASSUME BookInv, Next, NEW g \in Handlers, Storing(g)
               PROVE  BooksOnce(g)
    BY DEF vars
  <2>1. requests[g].at = "stamped" /\ StoredSteps(g) = requests[g].steps
    BY StoringSteps DEF BookInv
  <2> QED BY <2>1 DEF BookInv, Books, BooksOnce
<1> QED BY <1>1, BookInvariant, PTL DEF Spec, RepairsBookOnce
=============================================================================
