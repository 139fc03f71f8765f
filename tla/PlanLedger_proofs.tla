--------------------------- MODULE PlanLedger_proofs ---------------------------
(* What the ledger of Plans promises its readers, for all Plans and times.   *)
EXTENDS PlanLedger, TLAPS

(* TypeCorrect: the ledger maps times to what a Plan may place, and admits    *)
(* only what it holds (the plans table, as services/planning_service.rs       *)
(* reads it).                                                                 *)
THEOREM TypeCorrect == Spec => []TypeOK
<1>1. Init => TypeOK
  BY DEF Init, TypeOK, Stored
<1>2. TypeOK /\ [Next]_<<content, admitted>> => TypeOK'
  <2> SUFFICES ASSUME TypeOK, [Next]_<<content, admitted>>
               PROVE  TypeOK'
    OBVIOUS
  <2>1. ASSUME NEW p \in Times, Admit(p)
        PROVE  TypeOK'
    <3>1. Stored \cup {p} \in SUBSET Times
      BY DEF TypeOK, Stored
    <3>2. content' \in [Stored \cup {p} -> Content] /\ DOMAIN content' = Stored \cup {p}
      BY <2>1 DEF Admit
    <3>3. admitted' \subseteq DOMAIN content'
      BY <2>1, <3>2 DEF Admit, TypeOK, Stored
    <3> QED BY <3>1, <3>2, <3>3 DEF TypeOK, Stored
  <2>2. ASSUME NEW p \in Stored, Retire(p)
        PROVE  TypeOK'
    BY <2>2 DEF Retire, TypeOK, Stored
  <2>3. CASE UNCHANGED <<content, admitted>>
    BY <2>3 DEF TypeOK, Stored
  <2> QED BY <2>1, <2>2, <2>3 DEF Next
<1> QED BY <1>1, <1>2, PTL DEF Spec

(* NewestAdmitted: behind every stored Plan there is an admitted one at least *)
(* as new, so the newest Plan of all is never superseded and "the latest      *)
(* admitted Plan" of services/planning_service.rs exists once there is one.   *)
THEOREM NewestAdmitted ==
  ASSUME Times \subseteq Nat
  PROVE  Spec => []NewestIsAdmitted
<1>1. Init => NewestIsAdmitted
  BY DEF Init, NewestIsAdmitted, Stored
<1>2. TypeOK /\ NewestIsAdmitted /\ [Next]_<<content, admitted>> => NewestIsAdmitted'
  <2> SUFFICES ASSUME TypeOK, NewestIsAdmitted, [Next]_<<content, admitted>>
               PROVE  NewestIsAdmitted'
    OBVIOUS
  <2>0. Stored \subseteq Nat /\ admitted \subseteq Nat
    BY DEF TypeOK, Stored
  <2>1. ASSUME NEW p \in Times, Admit(p)
        PROVE  NewestIsAdmitted'
    <3>1. Stored' = Stored \cup {p} /\ admitted' = admitted \cup {p} /\ p \in Nat
      BY <2>1 DEF Admit, Stored
    <3> QED BY <3>1, <2>0 DEF NewestIsAdmitted
  <2>2. ASSUME NEW p \in Stored, Retire(p)
        PROVE  NewestIsAdmitted'
    <3>1. PICK q \in admitted : q > p
      BY <2>2 DEF Retire
    <3>2. Stored' = Stored /\ admitted' = admitted \ {p} /\ q \in admitted'
      BY <2>2, <3>1, <2>0 DEF Retire, Stored
    <3>3. ASSUME NEW r \in Stored
          PROVE  \E x \in admitted' : x >= r
      <4>1. PICK y \in admitted : y >= r
        BY DEF NewestIsAdmitted
      <4>2. CASE y = p
        <5>0. p \in Nat /\ q \in Nat /\ r \in Nat
          BY <2>0
        <5>1. q >= r
          BY <4>1, <4>2, <3>1, <5>0
        <5> QED BY <5>1, <3>2
      <4>3. CASE y # p
        BY <4>1, <4>3, <3>2
      <4> QED BY <4>2, <4>3
    <3> QED BY <3>2, <3>3 DEF NewestIsAdmitted
  <2>3. CASE UNCHANGED <<content, admitted>>
    BY <2>3 DEF NewestIsAdmitted, Stored
  <2> QED BY <2>1, <2>2, <2>3 DEF Next
<1> QED BY <1>1, <1>2, TypeCorrect, PTL DEF Spec

(* PlansForever: a stored Plan keeps what it places, and one that has been    *)
(* superseded is not admitted again.                                          *)
THEOREM PlansForever == Spec => PlansAreForever
<1> DEFINE Kept == \A p \in Stored : /\ p \in Stored' /\ content'[p] = content[p]
                                     /\ p \in admitted' => p \in admitted
<1>1. [Next]_<<content, admitted>> => [Kept]_<<content, admitted>>
  <2>1. ASSUME NEW p \in Times, Admit(p)
        PROVE  Kept
    BY <2>1 DEF Admit, Stored
  <2>2. ASSUME NEW p \in Stored, Retire(p)
        PROVE  Kept
    BY <2>2 DEF Retire, Stored
  <2> QED BY <2>1, <2>2 DEF Next
<1> QED BY <1>1, PTL DEF Spec, PlansAreForever

(* CurrentForward: the Plan that everything reads is only ever replaced by a  *)
(* newer one.                                                                 *)
THEOREM CurrentForward ==
  ASSUME Times \subseteq Nat
  PROVE  Spec => CurrentNeverGoesBack
<1> DEFINE Forward == \A p, q \in Times : IsCurrent(p) /\ IsCurrent(q)' => q >= p
<1>1. TypeOK /\ [Next]_<<content, admitted>> => [Forward]_<<content, admitted>>
  <2> SUFFICES ASSUME TypeOK, Next, NEW p \in Times, NEW q \in Times,
                      IsCurrent(p), IsCurrent(q)'
               PROVE  q >= p
    OBVIOUS
  <2>1. ASSUME NEW r \in Times, Admit(r)
        PROVE  q >= p
    BY <2>1 DEF Admit, IsCurrent
  <2>2. ASSUME NEW r \in Stored, Retire(r)
        PROVE  q >= p
    <3>1. PICK x \in admitted : x > r
      BY <2>2 DEF Retire
    <3>2. x \in Nat /\ r \in Nat /\ p >= x
      BY <3>1 DEF IsCurrent, TypeOK, Stored
    <3>3. p # r
      BY <3>1, <3>2
    <3>4. p \in admitted'
      BY <2>2, <3>3 DEF Retire, IsCurrent
    <3> QED BY <3>4 DEF IsCurrent
  <2> QED BY <2>1, <2>2 DEF Next
<1> QED BY <1>1, TypeCorrect, PTL DEF Spec, CurrentNeverGoesBack
=============================================================================
