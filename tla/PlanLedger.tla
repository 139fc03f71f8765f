------------------------------ MODULE PlanLedger ------------------------------
(* What the rest of the program relies on about the stored Plans: a Plan is  *)
(* admitted once, what it places never changes, and it is retired only while *)
(* a newer one is admitted.  A Plan's id is the time it was made.            *)
EXTENDS Naturals

CONSTANTS Content,    \* what a Plan may place
          Times       \* the times Plans are made at, their ids

VARIABLES content,    \* Plan -> what it places
          admitted    \* the Plans that are not superseded

Stored == DOMAIN content

TypeOK ==
  /\ content \in UNION {[S -> Content] : S \in SUBSET Times}
  /\ admitted \subseteq Stored

Init ==
  /\ content \in [{} -> Content]
  /\ admitted = {}

Admit(p) ==
  /\ p \notin Stored
  /\ admitted' = admitted \cup {p}
  /\ content' \in [Stored \cup {p} -> Content]
  /\ \A q \in Stored : content'[q] = content[q]

Retire(p) ==
  /\ p \in Stored
  /\ \E q \in admitted : q > p
  /\ admitted' = admitted \ {p}
  /\ UNCHANGED content

Next ==
  \/ \E p \in Times : Admit(p)
  \/ \E p \in Stored : Retire(p)

Spec == Init /\ [][Next]_<<content, admitted>>

-----------------------------------------------------------------------------
(* Current: the Plan everything reads, the newest that is admitted.          *)
IsCurrent(p) == p \in admitted /\ \A q \in admitted : q <= p

(* NewestIsAdmitted: behind every Plan there is one at least as new that is   *)
(* admitted: once there has been a Plan there always is one, and the newest   *)
(* Plan of all is never retired (services/planning_service.rs reads "the      *)
(* latest admitted Plan" everywhere and calls its absence missing_prior_plan).*)
NewestIsAdmitted == \A p \in Stored : \E q \in admitted : q >= p

(* PlansAreForever: a stored Plan keeps what it places; it is never stored    *)
(* again and never admitted again once it has been superseded.                *)
PlansAreForever ==
  [][\A p \in Stored : /\ p \in Stored' /\ content'[p] = content[p]
                       /\ p \in admitted' => p \in admitted]_<<content, admitted>>

(* CurrentNeverGoesBack: the current Plan is only ever replaced by a newer    *)
(* one.                                                                       *)
CurrentNeverGoesBack ==
  [][\A p, q \in Times : IsCurrent(p) /\ IsCurrent(q)' => q >= p]_<<content, admitted>>
=============================================================================
