--------------------------- MODULE Services_proofs ---------------------------
(* What holds of the locks, of bootstrap, of the GitHub projection and of    *)
(* the Quick UbU import for every number of requests, labels, previews and   *)
(* snapshots and every bound.                                                *)
EXTENDS MCServices, SequenceTheorems, FiniteSetTheorems, NaturalsInduction,
        WellFoundedInduction, TLAPS

-----------------------------------------------------------------------------
(* The order of the locks *)

(* The locks in the order in which requests come by them; the run lock of    *)
(* the advisory queue is taken before the action lock only.                  *)
Rank == [projection |-> 1, import |-> 2, materialization |-> 3, action |-> 4, run |-> 1]

LockSteps == [do : {"take", "drop"}, lock : Locking!LockNames]

(* A program takes no lock of a rank below n; what it takes it drops; and    *)
(* while it has one, it takes higher ones only.                              *)
TakesFrom(p, n) == \A i \in 1..Len(p) : p[i].do = "take" => n <= Rank[p[i].lock]

Drops(p, i, l) == \E j \in 1..Len(p) : i < j /\ p[j] = Locking!Drop(l)

Balanced(p) == \A i \in 1..Len(p) : p[i].do = "take" => Drops(p, i, p[i].lock)

Kept(p, i, j, l) == \A m \in 1..Len(p) : i < m /\ m < j => p[m] # Locking!Drop(l)

Climbs(p) ==
  \A i, j \in 1..Len(p) :
    i < j /\ p[i].do = "take" /\ p[j].do = "take" /\ Kept(p, i, j, p[i].lock) =>
      Rank[p[i].lock] < Rank[p[j].lock]

Ordered(p, n) == p \in Seq(LockSteps) /\ TakesFrom(p, n) /\ Balanced(p) /\ Climbs(p)

(* A rank is one of four. *)
LEMMA Ranks == \A l \in Locking!LockNames : Rank[l] \in 1..4
  BY DEF Rank, Locking!LockNames

(* A step is of a lock that has a rank. *)
LEMMA StepAt ==
  ASSUME NEW p \in Seq(LockSteps), NEW i \in 1..Len(p)
  PROVE  /\ p[i] \in LockSteps /\ p[i].lock \in Locking!LockNames
         /\ Rank[p[i].lock] \in 1..4
  <1>1. p[i] \in LockSteps
    BY ElementOfSeq
  <1>2. p[i].lock \in Locking!LockNames
    BY <1>1 DEF LockSteps
  <1> QED
    BY <1>1, <1>2, Ranks

(* Nothing to do is in order. *)
LEMMA NothingOrdered == ASSUME NEW n \in Nat PROVE Ordered(<<>>, n)
  BY DEF Ordered, TakesFrom, Balanced, Climbs

(* What takes nothing below a rank takes nothing below a lower one. *)
LEMMA OrderedBelow ==
  ASSUME NEW p, NEW n \in Nat, NEW m \in Nat, m <= n, Ordered(p, n)
  PROVE  Ordered(p, m)
  <1>1. \A i \in 1..Len(p) : Rank[p[i].lock] \in Nat
    BY StepAt DEF Ordered
  <1> QED
    BY <1>1 DEF Ordered, TakesFrom

(* One program after another: the first has dropped what it took. *)
LEMMA ThenOrdered ==
  ASSUME NEW p, NEW q, NEW n \in Nat, Ordered(p, n), Ordered(q, n)
  PROVE  Ordered(p \o q, n)
  <1> DEFINE s == p \o q
  <1>1. p \in Seq(LockSteps) /\ q \in Seq(LockSteps) /\ Len(p) \in Nat /\ Len(q) \in Nat
    BY DEF Ordered
  <1>2. /\ s \in Seq(LockSteps) /\ Len(s) = Len(p) + Len(q)
        /\ \A i \in 1..Len(p) : s[i] = p[i]
        /\ \A i \in 1..Len(q) : s[i + Len(p)] = q[i]
        /\ \A i \in 1..Len(s) : i > Len(p) => s[i] = q[i - Len(p)]
    BY <1>1, ConcatProperties
  <1> HIDE DEF s
  <1>3. TakesFrom(s, n)
    <2> SUFFICES ASSUME NEW i \in 1..Len(s), s[i].do = "take" PROVE n <= Rank[s[i].lock]
      BY DEF TakesFrom
    <2>1. CASE i <= Len(p)
      BY <1>1, <1>2, <2>1 DEF Ordered, TakesFrom
    <2>2. CASE i > Len(p)
      <3>1. i - Len(p) \in 1..Len(q) /\ s[i] = q[i - Len(p)]
        BY <1>1, <1>2, <2>2
      <3> QED
        BY <3>1 DEF Ordered, TakesFrom
    <2> QED
      BY <1>1, <1>2, <2>1, <2>2
  <1>4. \A i \in 1..Len(p) : p[i].do = "take" =>
          \E j \in 1..Len(p) : i < j /\ s[j] = Locking!Drop(p[i].lock)
    BY <1>1, <1>2 DEF Ordered, Balanced, Drops
  <1>5. \A i \in 1..Len(q) : q[i].do = "take" =>
          \E j \in 1..Len(s) : i + Len(p) < j /\ s[j] = Locking!Drop(q[i].lock)
    <2> SUFFICES ASSUME NEW i \in 1..Len(q), q[i].do = "take"
                 PROVE  \E j \in 1..Len(s) : i + Len(p) < j /\ s[j] = Locking!Drop(q[i].lock)
      OBVIOUS
    <2>1. PICK k \in 1..Len(q) : i < k /\ q[k] = Locking!Drop(q[i].lock)
      BY DEF Ordered, Balanced, Drops
    <2>2. /\ k + Len(p) \in 1..Len(s) /\ i + Len(p) < k + Len(p)
          /\ s[k + Len(p)] = Locking!Drop(q[i].lock)
      BY <1>1, <1>2, <2>1
    <2> QED
      BY <2>2
  <1>6. Balanced(s)
    <2> SUFFICES ASSUME NEW i \in 1..Len(s), s[i].do = "take" PROVE Drops(s, i, s[i].lock)
      BY DEF Balanced
    <2>1. CASE i <= Len(p)
      <3>1. i \in 1..Len(p) /\ s[i] = p[i]
        BY <1>1, <1>2, <2>1
      <3>2. PICK j \in 1..Len(p) : i < j /\ s[j] = Locking!Drop(p[i].lock)
        BY <1>4, <3>1
      <3>3. j \in 1..Len(s)
        BY <1>1, <1>2
      <3> QED
        BY <3>1, <3>2, <3>3 DEF Drops
    <2>2. CASE i > Len(p)
      <3>1. i - Len(p) \in 1..Len(q) /\ s[i] = q[i - Len(p)] /\ (i - Len(p)) + Len(p) = i
        BY <1>1, <1>2, <2>2
      <3> QED
        BY <1>5, <3>1 DEF Drops
    <2> QED
      BY <1>1, <1>2, <2>1, <2>2
  <1>7. Climbs(s)
    <2> SUFFICES ASSUME NEW i \in 1..Len(s), NEW j \in 1..Len(s),
                        i < j, s[i].do = "take", s[j].do = "take", Kept(s, i, j, s[i].lock)
                 PROVE  Rank[s[i].lock] < Rank[s[j].lock]
      BY DEF Climbs
    <2>1. CASE j <= Len(p)
      <3>1. i \in 1..Len(p) /\ j \in 1..Len(p) /\ s[i] = p[i] /\ s[j] = p[j]
        BY <1>1, <1>2, <2>1
      <3>2. Kept(p, i, j, p[i].lock)
        BY <1>1, <1>2, <3>1 DEF Kept
      <3> QED
        BY <3>1, <3>2 DEF Ordered, Climbs
    <2>2. CASE i <= Len(p) /\ j > Len(p)
      <3>1. PICK k \in 1..Len(p) : i < k /\ s[k] = Locking!Drop(s[i].lock)
        BY <1>1, <1>2, <1>4, <2>2
      <3> QED
        BY <1>1, <1>2, <2>2, <3>1 DEF Kept
    <2>3. CASE i > Len(p)
      <3>1. /\ i - Len(p) \in 1..Len(q) /\ j - Len(p) \in 1..Len(q)
            /\ i - Len(p) < j - Len(p)
            /\ s[i] = q[i - Len(p)] /\ s[j] = q[j - Len(p)]
        BY <1>1, <1>2, <2>3
      <3>2. Kept(q, i - Len(p), j - Len(p), s[i].lock)
        <4> SUFFICES ASSUME NEW m \in 1..Len(q), i - Len(p) < m, m < j - Len(p)
                     PROVE  q[m] # Locking!Drop(s[i].lock)
          BY DEF Kept
        <4>1. m + Len(p) \in 1..Len(s) /\ i < m + Len(p) /\ m + Len(p) < j
          BY <1>1, <1>2
        <4> QED
          BY <1>2, <4>1 DEF Kept
      <3> QED
        BY <3>1, <3>2 DEF Ordered, Climbs
    <2> QED
      BY <1>1, <1>2, <2>1, <2>2, <2>3
  <1> QED
    BY <1>2, <1>3, <1>6, <1>7 DEF Ordered, s

(* A step of a program is a record of what it does to which lock. *)
LEMMA TakeAndDrop ==
  ASSUME NEW l \in Locking!LockNames
  PROVE  /\ Locking!Take(l) \in LockSteps /\ Locking!Drop(l) \in LockSteps
         /\ Locking!Take(l).do = "take" /\ Locking!Take(l).lock = l
         /\ Locking!Drop(l).do = "drop" /\ Locking!Drop(l).lock = l
  BY DEF Locking!Take, Locking!Drop, LockSteps

(* The steps of work done under a lock. *)
LEMMA UnderSteps ==
  ASSUME NEW l \in Locking!LockNames, NEW work \in Seq(LockSteps)
  PROVE  LET s == Locking!Under(l, work) IN
         /\ s \in Seq(LockSteps) /\ Len(s) = Len(work) + 2
         /\ s[1] = Locking!Take(l) /\ s[Len(work) + 2] = Locking!Drop(l)
         /\ \A i \in 2..(Len(work) + 1) : i - 1 \in 1..Len(work) /\ s[i] = work[i - 1]
  <1> DEFINE first == <<Locking!Take(l)>>
             last == <<Locking!Drop(l)>>
             s == Locking!Under(l, work)
  <1>1. /\ first \in Seq(LockSteps) /\ Len(first) = 1 /\ first[1] = Locking!Take(l)
        /\ last \in Seq(LockSteps) /\ Len(last) = 1 /\ last[1] = Locking!Drop(l)
        /\ Len(work) \in Nat
    BY TakeAndDrop
  <1>2. s = (first \o work) \o last
    BY DEF Locking!Under
  <1> HIDE DEF first, last, s
  <1>3. /\ first \o work \in Seq(LockSteps) /\ Len(first \o work) = Len(work) + 1
        /\ (first \o work)[1] = Locking!Take(l)
        /\ \A i \in 2..(Len(work) + 1) : (first \o work)[i] = work[i - 1]
    BY <1>1, ConcatProperties
  <1>4. /\ s \in Seq(LockSteps) /\ Len(s) = Len(work) + 2
        /\ \A i \in 1..(Len(work) + 1) : s[i] = (first \o work)[i]
        /\ s[Len(work) + 2] = last[1]
    BY <1>1, <1>2, <1>3, ConcatProperties
  <1>5. 1 \in 1..(Len(work) + 1) /\ 2..(Len(work) + 1) \subseteq 1..(Len(work) + 1)
        /\ \A i \in 2..(Len(work) + 1) : i - 1 \in 1..Len(work)
    BY <1>1
  <1> QED
    BY <1>1, <1>3, <1>4, <1>5 DEF s

(* Work under a lock takes higher locks only: the whole is in order. *)
LEMMA UnderOrdered ==
  ASSUME NEW l \in Locking!LockNames, NEW work, Ordered(work, Rank[l] + 1)
  PROVE  Ordered(Locking!Under(l, work), Rank[l])
  <1> DEFINE s == Locking!Under(l, work)
  <1>0. Rank[l] \in 1..4 /\ work \in Seq(LockSteps) /\ Len(work) \in Nat
    BY Ranks DEF Ordered
  <1>1. /\ s \in Seq(LockSteps) /\ Len(s) = Len(work) + 2
        /\ s[1] = Locking!Take(l) /\ s[Len(s)] = Locking!Drop(l)
        /\ \A i \in 2..(Len(s) - 1) : i - 1 \in 1..Len(work) /\ s[i] = work[i - 1]
    BY <1>0, UnderSteps
  <1> HIDE DEF s
  <1>2. s[1].do = "take" /\ s[1].lock = l /\ s[Len(s)].do = "drop"
    BY <1>1, TakeAndDrop
  <1>3. \A i \in 1..Len(work) : i + 1 \in 2..(Len(s) - 1) /\ s[i + 1] = work[i]
    BY <1>0, <1>1
  <1>4. TakesFrom(s, Rank[l])
    <2> SUFFICES ASSUME NEW i \in 1..Len(s), s[i].do = "take" PROVE Rank[l] <= Rank[s[i].lock]
      BY DEF TakesFrom
    <2>1. CASE i = 1
      BY <1>0, <1>2, <2>1
    <2>2. CASE i # 1
      <3>1. i \in 2..(Len(s) - 1)
        BY <1>0, <1>1, <1>2, <2>2
      <3>2. i - 1 \in 1..Len(work) /\ s[i] = work[i - 1]
        BY <1>1, <3>1
      <3>3. Rank[l] + 1 <= Rank[s[i].lock] /\ Rank[s[i].lock] \in 1..4
        BY <1>0, <3>2, StepAt DEF Ordered, TakesFrom
      <3> QED
        BY <1>0, <3>3
    <2> QED
      BY <2>1, <2>2
  <1>5. Balanced(s)
    <2> SUFFICES ASSUME NEW i \in 1..Len(s), s[i].do = "take" PROVE Drops(s, i, s[i].lock)
      BY DEF Balanced
    <2>1. CASE i = 1
      <3>1. Len(s) \in 1..Len(s) /\ 1 < Len(s)
        BY <1>0, <1>1
      <3> QED
        BY <1>1, <1>2, <2>1, <3>1 DEF Drops
    <2>2. CASE i # 1
      <3>1. i \in 2..(Len(s) - 1)
        BY <1>0, <1>1, <1>2, <2>2
      <3>2. i - 1 \in 1..Len(work) /\ s[i] = work[i - 1]
        BY <1>1, <3>1
      <3>3. PICK j \in 1..Len(work) : i - 1 < j /\ work[j] = Locking!Drop(s[i].lock)
        BY <3>2 DEF Ordered, Balanced, Drops
      <3>4. j + 1 \in 1..Len(s) /\ i < j + 1 /\ s[j + 1] = Locking!Drop(s[i].lock)
        BY <1>0, <1>1, <1>3, <3>1, <3>3
      <3> QED
        BY <3>4 DEF Drops
    <2> QED
      BY <2>1, <2>2
  <1>6. Climbs(s)
    <2> SUFFICES ASSUME NEW i \in 1..Len(s), NEW j \in 1..Len(s),
                        i < j, s[i].do = "take", s[j].do = "take", Kept(s, i, j, s[i].lock)
                 PROVE  Rank[s[i].lock] < Rank[s[j].lock]
      BY DEF Climbs
    <2>1. j \in 2..(Len(s) - 1)
      BY <1>0, <1>1, <1>2
    <2>2. j - 1 \in 1..Len(work) /\ s[j] = work[j - 1]
      BY <1>1, <2>1
    <2>3. CASE i = 1
      <3>1. Rank[l] + 1 <= Rank[s[j].lock] /\ Rank[s[j].lock] \in 1..4
        BY <1>0, <2>2, StepAt DEF Ordered, TakesFrom
      <3> QED
        BY <1>0, <1>2, <2>3, <3>1
    <2>4. CASE i # 1
      <3>1. i \in 2..(Len(s) - 1)
        BY <1>0, <1>1, <2>1, <2>4
      <3>2. i - 1 \in 1..Len(work) /\ s[i] = work[i - 1] /\ i - 1 < j - 1
        BY <1>1, <3>1, <2>1
      <3>3. Kept(work, i - 1, j - 1, s[i].lock)
        <4> SUFFICES ASSUME NEW m \in 1..Len(work), i - 1 < m, m < j - 1
                     PROVE  work[m] # Locking!Drop(s[i].lock)
          BY DEF Kept
        <4>1. m + 1 \in 1..Len(s) /\ i < m + 1 /\ m + 1 < j /\ s[m + 1] = work[m]
          BY <1>0, <1>1, <1>3, <3>1, <2>1
        <4> QED
          BY <4>1 DEF Kept
      <3> QED
        BY <2>2, <3>2, <3>3 DEF Ordered, Climbs
    <2> QED
      BY <2>3, <2>4
  <1> QED
    BY <1>1, <1>4, <1>5, <1>6 DEF Ordered, s

(* Every program of a request is in order. *)
LEMMA ProgramsOrdered == \A p \in Locking!Programs : Ordered(p, 1)
  <1> USE DEF Locking!LockNames, Rank
  <1>1. Ordered(Locking!TaskAction, 4)
    BY NothingOrdered, UnderOrdered DEF Locking!TaskAction, Locking!Nothing
  <1>2. Ordered(Locking!Under("materialization", Locking!Nothing), 3)
        /\ Ordered(Locking!Under("materialization", Locking!TaskAction), 3)
    BY <1>1, NothingOrdered, UnderOrdered DEF Locking!Nothing
  <1>3. /\ Ordered(Locking!Materialization, 2) /\ Ordered(Locking!Override, 2)
    BY <1>2, UnderOrdered DEF Locking!Materialization, Locking!Override
  <1>4. Ordered(Locking!TaskAction, 3) /\ Ordered(Locking!TaskAction, 2)
    BY <1>1, OrderedBelow
  <1>5. Ordered(Locking!Authoring, 2) /\ Ordered(Locking!ImportOrObjective, 2)
    BY <1>4, NothingOrdered, UnderOrdered
       DEF Locking!Authoring, Locking!ImportOrObjective, Locking!Nothing
  <1>6. /\ Ordered(Locking!Projection, 1) /\ Ordered(Locking!Review, 1)
        /\ Ordered(Locking!AdmitTarget, 1)
    BY <1>4, NothingOrdered, UnderOrdered
       DEF Locking!Projection, Locking!Review, Locking!AdmitTarget, Locking!Nothing
  <1>7. Ordered(Locking!Capture, 1)
    <2>1. Ordered(Locking!Override \o Locking!TaskAction, 2)
      BY <1>3, <1>4, ThenOrdered
    <2> QED
      BY <2>1, UnderOrdered DEF Locking!Capture
  <1>8. Ordered(Locking!LegacyAction, 2)
    BY <1>3, <1>4, ThenOrdered DEF Locking!LegacyAction
  <1> QED
    BY <1>3, <1>4, <1>5, <1>6, <1>7, <1>8, OrderedBelow DEF Locking!Programs

-----------------------------------------------------------------------------
(* What is left of a program, and who waits in a queue *)

(* A lock that is held has its drop ahead, and until then only higher locks *)
(* are taken.                                                               *)
Owed(p, k) ==
  /\ Drops(p, 0, k)
  /\ \A j \in 1..Len(p) : p[j].do = "take" /\ Kept(p, 0, j, k) => Rank[k] < Rank[p[j].lock]

(* A program stays in order as it runs; what it has taken is owed, and what *)
(* it owes it owes until it drops it.                                       *)
LEMMA ProgramRuns ==
  ASSUME NEW p, p # <<>>, Ordered(p, 1)
  PROVE  /\ p[1] \in LockSteps /\ Head(p) = p[1]
         /\ Ordered(Tail(p), 1)
         /\ \A k \in Locking!LockNames : p[1] = Locking!Take(k) => Owed(Tail(p), k)
         /\ \A k \in Locking!LockNames :
              Owed(p, k) /\ p[1] # Locking!Drop(k) => Owed(Tail(p), k)
  <1> DEFINE s == Tail(p)
  <1>1. /\ p \in Seq(LockSteps) /\ Len(p) \in Nat /\ 1 \in 1..Len(p) /\ Head(p) = p[1]
        /\ s \in Seq(LockSteps) /\ Len(s) = Len(p) - 1
        /\ \A i \in 1..Len(s) : s[i] = p[i + 1] /\ i + 1 \in 1..Len(p)
    BY HeadTailProperties DEF Ordered
  <1> HIDE DEF s
  <1>2. p[1] \in LockSteps
    BY <1>1, StepAt
  <1>3. \A j \in 2..Len(p) : j - 1 \in 1..Len(s) /\ s[j - 1] = p[j]
    BY <1>1
  <1>4. ASSUME NEW i \in 0..Len(s), NEW k, Drops(p, i + 1, k) PROVE Drops(s, i, k)
    <2>1. PICK j \in 1..Len(p) : i + 1 < j /\ p[j] = Locking!Drop(k)
      BY <1>4 DEF Drops
    <2>2. j \in 2..Len(p) /\ i < j - 1
      BY <1>1, <2>1
    <2> QED
      BY <1>3, <2>1, <2>2 DEF Drops
  <1>5. ASSUME NEW i \in 0..Len(s), NEW j \in 1..Len(s), NEW k, Kept(s, i, j, k)
        PROVE  Kept(p, i + 1, j + 1, k)
    <2> SUFFICES ASSUME NEW m \in 1..Len(p), i + 1 < m, m < j + 1 PROVE p[m] # Locking!Drop(k)
      BY DEF Kept
    <2>1. m \in 2..Len(p) /\ i < m - 1 /\ m - 1 < j
      BY <1>1
    <2> QED
      BY <1>3, <1>5, <2>1 DEF Kept
  <1>6. TakesFrom(s, 1)
    BY <1>1 DEF Ordered, TakesFrom
  <1>7. Balanced(s)
    BY <1>1, <1>4 DEF Ordered, Balanced
  <1>8. Climbs(s)
    <2> SUFFICES ASSUME NEW i \in 1..Len(s), NEW j \in 1..Len(s),
                        i < j, s[i].do = "take", s[j].do = "take", Kept(s, i, j, s[i].lock)
                 PROVE  Rank[s[i].lock] < Rank[s[j].lock]
      BY DEF Climbs
    <2>1. /\ i + 1 \in 1..Len(p) /\ j + 1 \in 1..Len(p) /\ i + 1 < j + 1
          /\ s[i] = p[i + 1] /\ s[j] = p[j + 1]
      BY <1>1
    <2>2. Kept(p, i + 1, j + 1, p[i + 1].lock)
      BY <1>1, <1>5, <2>1
    <2> QED
      BY <2>1, <2>2 DEF Ordered, Climbs
  <1>9. ASSUME NEW k \in Locking!LockNames, p[1] = Locking!Take(k) PROVE Owed(s, k)
    <2>1. p[1].do = "take" /\ p[1].lock = k
      BY <1>9, TakeAndDrop
    <2>2. Drops(s, 0, k)
      <3>1. Drops(p, 0 + 1, k)
        BY <1>1, <2>1 DEF Ordered, Balanced
      <3> QED
        BY <1>1, <1>4, <3>1
    <2>3. ASSUME NEW j \in 1..Len(s), s[j].do = "take", Kept(s, 0, j, k)
          PROVE  Rank[k] < Rank[s[j].lock]
      <3>1. Kept(p, 0 + 1, j + 1, k)
        BY <1>1, <1>5, <2>3
      <3>2. j + 1 \in 1..Len(p) /\ 1 < j + 1 /\ s[j] = p[j + 1] /\ 0 + 1 = 1
        BY <1>1
      <3> QED
        BY <1>1, <2>1, <2>3, <3>1, <3>2 DEF Ordered, Climbs
    <2> QED
      BY <2>2, <2>3 DEF Owed
  <1>10. ASSUME NEW k \in Locking!LockNames, Owed(p, k), p[1] # Locking!Drop(k)
         PROVE  Owed(s, k)
    <2>1. Drops(s, 0, k)
      <3>1. PICK j \in 1..Len(p) : 0 < j /\ p[j] = Locking!Drop(k)
        BY <1>10 DEF Owed, Drops
      <3>2. 0 + 1 < j
        BY <1>1, <1>10, <3>1
      <3>3. Drops(p, 0 + 1, k)
        BY <3>1, <3>2 DEF Drops
      <3> QED
        BY <1>1, <1>4, <3>3
    <2>2. ASSUME NEW j \in 1..Len(s), s[j].do = "take", Kept(s, 0, j, k)
          PROVE  Rank[k] < Rank[s[j].lock]
      <3>1. Kept(p, 0 + 1, j + 1, k)
        BY <1>1, <1>5, <2>2
      <3>2. Kept(p, 0, j + 1, k)
        BY <1>1, <1>10, <3>1 DEF Kept
      <3>3. j + 1 \in 1..Len(p) /\ s[j] = p[j + 1]
        BY <1>1
      <3> QED
        BY <1>10, <2>2, <3>2, <3>3 DEF Owed
    <2> QED
      BY <2>1, <2>2 DEF Owed
  <1> QED
    BY <1>1, <1>2, <1>6, <1>7, <1>8, <1>9, <1>10 DEF Ordered, s

(* Nobody stands in a queue twice. *)
OnceIn(q) == \A i, j \in 1..Len(q) : q[i] = q[j] => i = j

(* Who leaves a queue leaves the others in it, in their order. *)
LEMMA WithoutOne ==
  ASSUME NEW q \in Seq(Requests), NEW r, OnceIn(q)
  PROVE  LET s == Locking!Without(q, r) IN
         /\ s \in Seq(Requests) /\ OnceIn(s)
         /\ \A i \in 1..Len(s) : s[i] # r /\ \E j \in 1..Len(q) : s[i] = q[j]
         /\ q # <<>> /\ q[1] # r => s # <<>> /\ s[1] = q[1]
  <1>1. CASE \A i \in 1..Len(q) : q[i] # r
    BY <1>1 DEF Locking!Without, Locking!ToSet
  <1>2. CASE \E i \in 1..Len(q) : q[i] = r
    <2> DEFINE n == CHOOSE i \in DOMAIN q : q[i] = r
               s == Locking!RemoveAt(q, n)
    <2>1. n \in 1..Len(q) /\ q[n] = r /\ Len(q) \in Nat
      BY <1>2
    <2>2. Locking!Without(q, r) = s
      BY <1>2 DEF Locking!Without, Locking!ToSet
    <2> HIDE DEF n
    <2>3. \A i \in 1..Len(q) : i # n => q[i] # r
      BY <2>1 DEF OnceIn
    <2>4. /\ SubSeq(q, 1, n - 1) \in Seq(Requests) /\ Len(SubSeq(q, 1, n - 1)) = n - 1
          /\ \A i \in 1..(n - 1) : SubSeq(q, 1, n - 1)[i] = q[i]
      BY <2>1
    <2>5. /\ SubSeq(q, n + 1, Len(q)) \in Seq(Requests)
          /\ Len(SubSeq(q, n + 1, Len(q))) = Len(q) - n
          /\ \A i \in 1..(Len(q) - n) : SubSeq(q, n + 1, Len(q))[i] = q[n + i]
      BY <2>1
    <2>6. /\ s \in Seq(Requests) /\ Len(s) = Len(q) - 1
          /\ \A i \in 1..Len(s) : s[i] = IF i < n THEN q[i] ELSE q[i + 1]
      <3>1. s = SubSeq(q, 1, n - 1) \o SubSeq(q, n + 1, Len(q))
        BY DEF Locking!RemoveAt
      <3> HIDE DEF s
      <3>2. /\ s \in Seq(Requests) /\ Len(s) = (n - 1) + (Len(q) - n)
            /\ \A i \in 1..Len(s) :
                 s[i] = IF i <= n - 1 THEN SubSeq(q, 1, n - 1)[i]
                        ELSE SubSeq(q, n + 1, Len(q))[i - (n - 1)]
        <4>1. PICK front \in Seq(Requests) : front = SubSeq(q, 1, n - 1)
          BY <2>4
        <4>2. PICK back \in Seq(Requests) : back = SubSeq(q, n + 1, Len(q))
          BY <2>5
        <4>3. /\ front \o back \in Seq(Requests)
              /\ Len(front \o back) = Len(front) + Len(back)
              /\ \A i \in 1..Len(front) + Len(back) :
                   (front \o back)[i] = IF i <= Len(front) THEN front[i]
                                        ELSE back[i - Len(front)]
          BY ConcatProperties
        <4>4. s = front \o back /\ Len(front) = n - 1 /\ Len(back) = Len(q) - n
          BY <2>4, <2>5, <3>1, <4>1, <4>2
        <4>5. /\ s \in Seq(Requests) /\ Len(s) = (n - 1) + (Len(q) - n)
              /\ \A i \in 1..Len(s) :
                   s[i] = IF i <= n - 1 THEN front[i] ELSE back[i - (n - 1)]
          BY <4>3, <4>4
        <4> QED
          BY <4>1, <4>2, <4>5
      <3>3. Len(s) = Len(q) - 1
        BY <2>1, <3>2
      <3>4. ASSUME NEW i \in 1..Len(s) PROVE s[i] = IF i < n THEN q[i] ELSE q[i + 1]
        <4>1. CASE i < n
          BY <2>1, <2>4, <3>2, <3>3, <4>1
        <4>2. CASE i >= n
          <5>1. i - (n - 1) \in 1..(Len(q) - n) /\ n + (i - (n - 1)) = i + 1 /\ ~(i <= n - 1)
            BY <2>1, <3>3, <4>2
          <5> QED
            BY <2>1, <2>5, <3>2, <4>2, <5>1
        <4> QED
          BY <2>1, <3>3, <4>1, <4>2
      <3> QED
        BY <3>2, <3>3, <3>4
    <2> HIDE DEF s
    <2>7. \A i \in 1..Len(s) :
            LET j == IF i < n THEN i ELSE i + 1 IN j \in 1..Len(q) /\ j # n /\ s[i] = q[j]
      BY <2>1, <2>6
    <2>8. OnceIn(s)
      BY <2>1, <2>6, <2>7 DEF OnceIn
    <2>9. q[1] # r => s # <<>> /\ s[1] = q[1]
      <3> SUFFICES ASSUME q[1] # r PROVE s # <<>> /\ s[1] = q[1]
        OBVIOUS
      <3>1. 1 < n /\ Len(s) >= 1
        BY <2>1, <2>6
      <3> QED
        BY <2>6, <3>1
    <2> QED
      BY <2>2, <2>3, <2>6, <2>7, <2>8, <2>9
  <1> QED
    BY <1>1, <1>2

-----------------------------------------------------------------------------
(* The locks *)

LocksTypeOK ==
  /\ program \in [Requests -> Seq(LockSteps)]
  /\ held \in [Requests -> SUBSET Locking!LockNames]
  /\ queue \in [Locking!LockNames -> Seq(Requests)]

(* Every request has an orderly program left, and owes what it holds. *)
ProgramsClimb ==
  \A r \in Requests :
    Ordered(program[r], 1) /\ \A k \in held[r] : Owed(program[r], k)

QueuedOnce == \A l \in Locking!LockNames : OnceIn(queue[l])

(* Who stands in a queue holds the lock or waits for it. *)
QueuedForIt ==
  \A l \in Locking!LockNames : \A g \in Requests :
    Locking!Queued(g, l) => l \in held[g] \/ Locking!Wants(g, l)

(* Who holds a lock is at the head of its queue. *)
HoldersLead ==
  \A r \in Requests : \A l \in held[r] : queue[l] # <<>> /\ queue[l][1] = r

LocksInv == LocksTypeOK /\ ProgramsClimb /\ QueuedOnce /\ QueuedForIt /\ HoldersLead

(* No request, no lock. *)
LEMMA LocksStart == Locking!Init => LocksInv
  <1> SUFFICES ASSUME Locking!Init PROVE LocksInv
    OBVIOUS
  <1>1. /\ program = [r \in Requests |-> <<>>] /\ held = [r \in Requests |-> {}]
        /\ queue = [l \in Locking!LockNames |-> <<>>]
    BY DEF Locking!Init, Locking!Nothing
  <1>2. Ordered(<<>>, 1)
    BY NothingOrdered
  <1> QED
    BY <1>1, <1>2 DEF LocksInv, LocksTypeOK, ProgramsClimb, QueuedOnce, OnceIn, QueuedForIt,
       HoldersLead, Locking!Queued, Locking!ToSet

(* A request that starts holds nothing and stands in no queue. *)
LEMMA StartKeeps ==
  ASSUME LocksInv, NEW r \in Requests, Locking!Start(r)
  PROVE  LocksInv'
  <1>1. PICK p \in Locking!Programs : program' = [program EXCEPT ![r] = p]
    BY DEF Locking!Start
  <1>2. /\ program[r] = <<>> /\ UNCHANGED <<held, queue>>
        /\ Ordered(p, 1) /\ p \in Seq(LockSteps)
    BY ProgramsOrdered DEF Locking!Start, Locking!Nothing, Ordered
  <1>3. held[r] = {}
    <2>1. \A k \in held[r] : Drops(<<>>, 0, k)
      BY <1>2 DEF LocksInv, ProgramsClimb, Owed
    <2> QED
      BY <2>1 DEF Drops
  <1>4. \A l \in Locking!LockNames : ~Locking!Queued(r, l)
    BY <1>2, <1>3 DEF LocksInv, QueuedForIt, Locking!Wants, Locking!Nothing
  <1>5. program'[r] = p /\ \A g \in Requests \ {r} : program'[g] = program[g]
    BY <1>1 DEF LocksInv, LocksTypeOK
  <1>6. LocksTypeOK' /\ QueuedOnce' /\ HoldersLead'
    BY <1>1, <1>2 DEF LocksInv, LocksTypeOK, QueuedOnce, HoldersLead
  <1>7. ProgramsClimb'
    BY <1>2, <1>3, <1>5 DEF LocksInv, ProgramsClimb
  <1>8. QueuedForIt'
    <2> SUFFICES ASSUME NEW l \in Locking!LockNames, NEW g \in Requests, Locking!Queued(g, l)
                 PROVE  l \in held[g] \/ Locking!Wants(g, l)'
      BY <1>2 DEF QueuedForIt, Locking!Queued
    <2>1. g # r
      BY <1>4
    <2> QED
      BY <1>5, <2>1 DEF LocksInv, QueuedForIt, Locking!Wants
  <1> QED
    BY <1>6, <1>7, <1>8 DEF LocksInv

(* A request lines up for what it wants. *)
LEMMA LineUpKeeps ==
  ASSUME LocksInv, NEW r \in Requests, Locking!LineUp(r)
  PROVE  LocksInv'
  <1>1. PICK l \in Locking!LockNames :
          /\ Locking!Wants(r, l) /\ ~Locking!Queued(r, l)
          /\ queue' = [queue EXCEPT ![l] = Append(@, r)]
    BY DEF Locking!LineUp
  <1>2. UNCHANGED <<program, held>>
    BY DEF Locking!LineUp
  <1> PICK q \in Seq(Requests) : q = queue[l]
    BY DEF LocksInv, LocksTypeOK
  <1>3. \A i \in 1..Len(q) : q[i] # r
    BY <1>1 DEF Locking!Queued, Locking!ToSet
  <1>4. /\ Len(q) \in Nat
        /\ Append(q, r) \in Seq(Requests) /\ Len(Append(q, r)) = Len(q) + 1
        /\ \A i \in 1..Len(q) : Append(q, r)[i] = q[i]
        /\ Append(q, r)[Len(q) + 1] = r
    OBVIOUS
  <1>5. queue'[l] = Append(q, r)
        /\ \A k \in Locking!LockNames \ {l} : queue'[k] = queue[k]
    BY <1>1 DEF LocksInv, LocksTypeOK
  <1>6. LocksTypeOK' /\ ProgramsClimb'
    BY <1>1, <1>2, <1>4 DEF LocksInv, LocksTypeOK, ProgramsClimb
  <1>7. QueuedOnce'
    <2>1. OnceIn(q)
      BY DEF LocksInv, QueuedOnce
    <2>2. OnceIn(Append(q, r))
      BY <1>3, <1>4, <2>1 DEF OnceIn
    <2> QED
      BY <1>5, <2>2 DEF LocksInv, QueuedOnce
  <1>8. QueuedForIt'
    <2> SUFFICES ASSUME NEW k \in Locking!LockNames, NEW g \in Requests, Locking!Queued(g, k)'
                 PROVE  k \in held[g] \/ Locking!Wants(g, k)
      BY <1>2 DEF QueuedForIt, Locking!Wants
    <2>1. CASE k = l /\ g # r
      <3>1. Locking!Queued(g, k)
        BY <1>4, <1>5, <2>1 DEF Locking!Queued, Locking!ToSet
      <3> QED
        BY <3>1 DEF LocksInv, QueuedForIt
    <2>2. CASE k # l
      BY <1>5, <2>2 DEF LocksInv, QueuedForIt, Locking!Queued
    <2> QED
      BY <1>1, <2>1, <2>2
  <1>9. HoldersLead'
    <2> SUFFICES ASSUME NEW g \in Requests, NEW k \in held[g]
                 PROVE  queue'[k] # <<>> /\ queue'[k][1] = g
      BY <1>2 DEF HoldersLead
    <2>1. k \in Locking!LockNames /\ queue[k] # <<>> /\ queue[k][1] = g
      BY DEF LocksInv, LocksTypeOK, HoldersLead
    <2>2. CASE k = l
      <3>1. 1 \in 1..Len(q)
        BY <2>1, <2>2
      <3> QED
        BY <1>4, <1>5, <2>1, <2>2, <3>1
    <2>3. CASE k # l
      BY <1>5, <2>1, <2>3
    <2> QED
      BY <2>2, <2>3
  <1> QED
    BY <1>6, <1>7, <1>8, <1>9 DEF LocksInv

(* The one at the head of the queue gets the lock, which is higher than      *)
(* what it has.                                                              *)
LEMMA AcquireKeeps ==
  ASSUME LocksInv, NEW r \in Requests, Locking!Acquire(r)
  PROVE  LocksInv'
  <1>1. PICK l \in Locking!LockNames :
          /\ Locking!Wants(r, l) /\ Locking!Queued(r, l) /\ Head(queue[l]) = r
          /\ held' = [held EXCEPT ![r] = @ \cup {l}]
    BY DEF Locking!Acquire
  <1>2. UNCHANGED queue /\ program' = [program EXCEPT ![r] = Tail(@)]
    BY DEF Locking!Acquire, Locking!Advance
  <1> PICK p : p = program[r]
    OBVIOUS
  <1>3. /\ p # <<>> /\ Head(p) = Locking!Take(l) /\ Ordered(p, 1) /\ p \in Seq(LockSteps)
        /\ \A k \in held[r] : Owed(p, k)
    BY <1>1 DEF Locking!Wants, Locking!Nothing, LocksInv, ProgramsClimb, Ordered
  <1>4. p[1] = Locking!Take(l) /\ Ordered(Tail(p), 1) /\ Tail(p) \in Seq(LockSteps)
    BY <1>3, ProgramRuns DEF Ordered
  <1>5. /\ program'[r] = Tail(p) /\ held'[r] = held[r] \cup {l}
        /\ \A g \in Requests \ {r} : program'[g] = program[g] /\ held'[g] = held[g]
        /\ held[r] \subseteq Locking!LockNames
    BY <1>1, <1>2 DEF LocksInv, LocksTypeOK
  <1>6. \A k \in held'[r] : Owed(Tail(p), k)
    <2>1. \A k \in Locking!LockNames : p[1] # Locking!Drop(k)
      BY <1>4, TakeAndDrop
    <2> QED
      BY <1>3, <1>4, <1>5, <2>1, ProgramRuns
  <1>7. LocksTypeOK' /\ QueuedOnce'
    BY <1>1, <1>2, <1>4 DEF LocksInv, LocksTypeOK, QueuedOnce
  <1>8. ProgramsClimb'
    BY <1>4, <1>5, <1>6 DEF LocksInv, ProgramsClimb
  <1>9. QueuedForIt'
    <2> SUFFICES ASSUME NEW k \in Locking!LockNames, NEW g \in Requests, Locking!Queued(g, k)
                 PROVE  k \in held'[g] \/ Locking!Wants(g, k)'
      BY <1>2 DEF QueuedForIt, Locking!Queued
    <2>1. k \in held[g] \/ Locking!Wants(g, k)
      BY DEF LocksInv, QueuedForIt
    <2>2. CASE g = r
      <3>1. Locking!Wants(r, k) => k = l
        BY <1>3, TakeAndDrop DEF Locking!Wants
      <3> QED
        BY <1>5, <2>1, <2>2, <3>1
    <2>3. CASE g # r
      BY <1>5, <2>1, <2>3 DEF Locking!Wants
    <2> QED
      BY <2>2, <2>3
  <1>10. HoldersLead'
    <2>1. queue[l] # <<>> /\ queue[l][1] = r
      BY <1>1 DEF LocksInv, LocksTypeOK, Locking!Queued, Locking!ToSet
    <2> QED
      BY <1>2, <1>5, <2>1 DEF LocksInv, HoldersLead
  <1> QED
    BY <1>7, <1>8, <1>9, <1>10 DEF LocksInv

(* A request that leaves queues for good, wholly or of one lock, leaves the  *)
(* others as they were.                                                      *)
LEMMA LeavingQueues ==
  ASSUME LocksInv, NEW r \in Requests, NEW left \in SUBSET Locking!LockNames,
         queue' = [l \in Locking!LockNames |->
                     IF l \in left THEN Locking!Without(queue[l], r) ELSE queue[l]],
         held' \in [Requests -> SUBSET Locking!LockNames],
         held'[r] = held[r] \ left,
         \A g \in Requests \ {r} : program'[g] = program[g] /\ held'[g] = held[g],
         \A l \in Locking!LockNames \ left :
           Locking!Wants(r, l) => Locking!Wants(r, l)'
  PROVE  /\ queue' \in [Locking!LockNames -> Seq(Requests)]
         /\ QueuedOnce' /\ QueuedForIt' /\ HoldersLead'
  <1>1. ASSUME NEW l \in Locking!LockNames
        PROVE  /\ queue'[l] \in Seq(Requests) /\ OnceIn(queue'[l])
               /\ \A i \in 1..Len(queue'[l]) :
                    /\ \E j \in 1..Len(queue[l]) : queue'[l][i] = queue[l][j]
                    /\ l \in left => queue'[l][i] # r
               /\ queue[l] # <<>> /\ (queue[l][1] # r \/ l \notin left) =>
                    queue'[l] # <<>> /\ queue'[l][1] = queue[l][1]
    <2>1. queue[l] \in Seq(Requests) /\ OnceIn(queue[l])
      BY DEF LocksInv, LocksTypeOK, QueuedOnce
    <2>2. CASE l \in left
      <3>1. queue'[l] = Locking!Without(queue[l], r)
        BY <2>2
      <3> QED
        BY <2>1, <2>2, <3>1, WithoutOne
    <2>3. CASE l \notin left
      <3>1. queue'[l] = queue[l]
        BY <2>3
      <3> QED
        BY <2>1, <2>3, <3>1
    <2> QED
      BY <2>2, <2>3
  <1>2. queue' \in [Locking!LockNames -> Seq(Requests)] /\ QueuedOnce'
    BY <1>1 DEF QueuedOnce
  <1>3. QueuedForIt'
    <2> SUFFICES ASSUME NEW l \in Locking!LockNames, NEW g \in Requests, Locking!Queued(g, l)'
                 PROVE  l \in held'[g] \/ Locking!Wants(g, l)'
      BY DEF QueuedForIt
    <2>1. PICK i \in 1..Len(queue'[l]) : queue'[l][i] = g
      BY <1>1 DEF Locking!Queued, Locking!ToSet
    <2>2. Locking!Queued(g, l) /\ (g = r => l \notin left)
      <3>1. PICK j \in 1..Len(queue[l]) : queue'[l][i] = queue[l][j]
        BY <1>1
      <3>2. l \in left => queue'[l][i] # r
        BY <1>1
      <3>3. DOMAIN queue[l] = 1..Len(queue[l])
        BY DEF LocksInv, LocksTypeOK
      <3> QED
        BY <2>1, <3>1, <3>2, <3>3 DEF Locking!Queued, Locking!ToSet
    <2>3. l \in held[g] \/ Locking!Wants(g, l)
      BY <2>2 DEF LocksInv, QueuedForIt
    <2>4. CASE g = r
      BY <2>2, <2>3, <2>4
    <2>5. CASE g # r
      BY <2>3, <2>5 DEF Locking!Wants
    <2> QED
      BY <2>4, <2>5
  <1>4. HoldersLead'
    <2> SUFFICES ASSUME NEW g \in Requests, NEW l \in held'[g]
                 PROVE  queue'[l] # <<>> /\ queue'[l][1] = g
      BY DEF HoldersLead
    <2>1. l \in Locking!LockNames /\ l \in held[g] /\ (g = r => l \notin left)
      OBVIOUS
    <2>2. queue[l] # <<>> /\ queue[l][1] = g
      BY <2>1 DEF LocksInv, HoldersLead
    <2> QED
      BY <1>1, <2>1, <2>2
  <1> QED
    BY <1>2, <1>3, <1>4

(* A guard is dropped when its work is done: the lock was at the head of the *)
(* program, and no other that is owed goes with it.                          *)
LEMMA ReleaseKeeps ==
  ASSUME LocksInv, NEW r \in Requests, Locking!Release(r)
  PROVE  LocksInv'
  <1> PICK p : p = program[r]
    OBVIOUS
  <1>1. /\ p # <<>> /\ Head(p).do = "drop" /\ Ordered(p, 1) /\ p \in Seq(LockSteps)
        /\ \A k \in held[r] : k \in Locking!LockNames /\ Owed(p, k)
    BY DEF Locking!Release, Locking!Nothing, LocksInv, LocksTypeOK, ProgramsClimb, Ordered
  <1>2. /\ Head(p) = p[1] /\ p[1] \in LockSteps /\ Ordered(Tail(p), 1)
        /\ Tail(p) \in Seq(LockSteps)
    BY <1>1, ProgramRuns DEF Ordered
  <1> PICK l : l = p[1].lock
    OBVIOUS
  <1>3. l \in Locking!LockNames /\ p[1] = Locking!Drop(l)
    BY <1>1, <1>2 DEF LockSteps, Locking!Drop
  <1>4. /\ held' = [held EXCEPT ![r] = @ \ {l}]
        /\ queue' = [queue EXCEPT ![l] = Locking!Without(@, r)]
        /\ program' = [program EXCEPT ![r] = Tail(@)]
    BY <1>2 DEF Locking!Release, Locking!Advance
  <1>5. /\ program'[r] = Tail(p) /\ held'[r] = held[r] \ {l}
        /\ \A g \in Requests \ {r} : program'[g] = program[g] /\ held'[g] = held[g]
        /\ held' \in [Requests -> SUBSET Locking!LockNames]
        /\ queue' = [k \in Locking!LockNames |->
                       IF k \in {l} THEN Locking!Without(queue[k], r) ELSE queue[k]]
    BY <1>3, <1>4 DEF LocksInv, LocksTypeOK
  <1>6. \A k \in Locking!LockNames : ~Locking!Wants(r, k)
    BY <1>1, TakeAndDrop DEF Locking!Wants
  <1>7. /\ queue' \in [Locking!LockNames -> Seq(Requests)]
        /\ QueuedOnce' /\ QueuedForIt' /\ HoldersLead'
    BY <1>3, <1>5, <1>6, LeavingQueues
  <1>8. \A k \in held'[r] : Owed(Tail(p), k)
    <2>1. \A k \in Locking!LockNames \ {l} : p[1] # Locking!Drop(k)
      BY <1>3, TakeAndDrop
    <2> QED
      BY <1>1, <1>5, <2>1, ProgramRuns
  <1>9. LocksTypeOK'
    BY <1>2, <1>4, <1>5, <1>7 DEF LocksInv, LocksTypeOK
  <1>10. ProgramsClimb'
    BY <1>2, <1>5, <1>8 DEF LocksInv, ProgramsClimb
  <1> QED
    BY <1>7, <1>9, <1>10 DEF LocksInv

(* A request that is dropped leaves every queue.                             *)
LEMMA AbandonKeeps ==
  ASSUME LocksInv, NEW r \in Requests, Locking!Abandon(r)
  PROVE  LocksInv'
  <1>1. /\ program' = [program EXCEPT ![r] = <<>>] /\ held' = [held EXCEPT ![r] = {}]
        /\ queue' = [l \in Locking!LockNames |-> Locking!Without(queue[l], r)]
    BY DEF Locking!Abandon, Locking!Nothing
  <1>2. /\ program'[r] = <<>> /\ held'[r] = {}
        /\ \A g \in Requests \ {r} : program'[g] = program[g] /\ held'[g] = held[g]
        /\ held' \in [Requests -> SUBSET Locking!LockNames]
        /\ held'[r] = held[r] \ Locking!LockNames
        /\ queue' = [l \in Locking!LockNames |->
                       IF l \in Locking!LockNames THEN Locking!Without(queue[l], r)
                       ELSE queue[l]]
    BY <1>1 DEF LocksInv, LocksTypeOK
  <1>3. /\ queue' \in [Locking!LockNames -> Seq(Requests)]
        /\ QueuedOnce' /\ QueuedForIt' /\ HoldersLead'
    BY <1>2, LeavingQueues
  <1>4. LocksTypeOK'
    BY <1>1, <1>2, <1>3 DEF LocksInv, LocksTypeOK
  <1>5. ProgramsClimb'
    BY <1>2, NothingOrdered DEF LocksInv, ProgramsClimb
  <1> QED
    BY <1>3, <1>4, <1>5 DEF LocksInv

(* Every step of every request. *)
LEMMA LocksStep == LocksInv /\ [Locking!Next]_lockVars => LocksInv'
  <1> SUFFICES ASSUME LocksInv, [Locking!Next]_lockVars PROVE LocksInv'
    OBVIOUS
  <1>1. CASE UNCHANGED lockVars
    BY <1>1 DEF lockVars, LocksInv, LocksTypeOK, ProgramsClimb, QueuedOnce, QueuedForIt,
       HoldersLead, Locking!Wants, Locking!Queued
  <1>2. CASE Locking!Next
    BY <1>2, StartKeeps, LineUpKeeps, AcquireKeeps, ReleaseKeeps, AbandonKeeps
       DEF Locking!Next
  <1> QED
    BY <1>1, <1>2

(* Who waits in a circle waits for one of the circle that wants a higher lock. *)
LEMMA CirclesClimb ==
  ASSUME LocksInv, NEW circle \in SUBSET Requests,
         \A r \in circle : \E l \in Locking!LockNames :
           /\ Locking!Wants(r, l) /\ queue[l] # <<>>
           /\ Head(queue[l]) \in circle \ {r},
         NEW r \in circle, NEW l \in Locking!LockNames, Locking!Wants(r, l)
  PROVE  \E g \in circle : \E k \in Locking!LockNames :
           Locking!Wants(g, k) /\ Rank[l] < Rank[k]
  <1>1. queue[l] # <<>> /\ Head(queue[l]) \in circle \ {r}
    BY TakeAndDrop DEF Locking!Wants
  <1> PICK g : g = Head(queue[l])
    OBVIOUS
  <1>2. PICK k \in Locking!LockNames :
          /\ Locking!Wants(g, k) /\ queue[k] # <<>> /\ Head(queue[k]) # g
    BY <1>1
  <1>3. Locking!Queued(g, l)
    BY <1>1 DEF LocksInv, LocksTypeOK, Locking!Queued, Locking!ToSet
  <1>4. l # k
    BY <1>2
  <1>5. l \in held[g]
    BY <1>1, <1>2, <1>3, <1>4, TakeAndDrop DEF LocksInv, QueuedForIt, Locking!Wants
  <1> PICK p : p = program[g]
    OBVIOUS
  <1>6. Owed(p, l) /\ p # <<>> /\ Head(p) = Locking!Take(k) /\ Ordered(p, 1)
    BY <1>1, <1>2, <1>5 DEF LocksInv, ProgramsClimb, Locking!Wants, Locking!Nothing
  <1>7. 1 \in 1..Len(p) /\ p[1] = Locking!Take(k) /\ Kept(p, 0, 1, l)
    BY <1>6 DEF Ordered, Kept
  <1>8. Rank[l] < Rank[k]
    BY <1>6, <1>7, TakeAndDrop DEF Owed
  <1> QED
    BY <1>1, <1>2, <1>8

(* There are four ranks, so nobody waits in a circle. *)
LEMMA NoCircle == LocksInv => Locking!NoCircularWait
  <1> SUFFICES ASSUME LocksInv, NEW circle \in (SUBSET Requests) \ {{}},
                      \A r \in circle : \E l \in Locking!LockNames :
                        /\ Locking!Wants(r, l) /\ queue[l] # <<>>
                        /\ Head(queue[l]) \in circle \ {r}
               PROVE  FALSE
    BY DEF Locking!NoCircularWait
  <1> DEFINE Stuck(n) == \E r \in circle : \E l \in Locking!LockNames :
                           Locking!Wants(r, l) /\ n <= Rank[l]
  <1>1. Stuck(1)
    BY Ranks
  <1>2. ASSUME NEW n \in 1..4, Stuck(n) PROVE Stuck(n + 1)
    <2>1. PICK r \in circle : \E l \in Locking!LockNames : Locking!Wants(r, l) /\ n <= Rank[l]
      BY <1>2
    <2>2. PICK l \in Locking!LockNames : Locking!Wants(r, l) /\ n <= Rank[l]
      BY <2>1
    <2>3. PICK g \in circle : \E k \in Locking!LockNames :
            Locking!Wants(g, k) /\ Rank[l] < Rank[k]
      BY <2>2, CirclesClimb
    <2> QED
      BY <2>2, <2>3, Ranks
  <1> HIDE DEF Stuck
  <1>3. Stuck(5)
    BY <1>1, <1>2
  <1>4. ~Stuck(5)
    BY Ranks DEF Stuck
  <1> QED
    BY <1>3, <1>4

(* The locks of state.rs: requests that have lined up for them are never all *)
(* waiting for one another, however many there are.                          *)
THEOREM NobodyWaitsInACircle == ServicesSpec => []NoCircularWait
  <1>1. ServicesInit => LocksInv
    BY LocksStart DEF ServicesInit
  <1>2. LocksInv /\ [ServicesNext]_<<part, faults, vars, labelVars, importVars, seedVars, lockVars>>
          => LocksInv'
    BY LocksStep DEF ServicesNext
  <1>3. LocksInv => NoCircularWait
    BY NoCircle DEF NoCircularWait
  <1> QED
    BY <1>1, <1>2, <1>3, PTL DEF ServicesSpec

-----------------------------------------------------------------------------
(* Bootstrap *)

Progress == {"idle", "objective", "settings", "tasks", "universe"}

SeedJobs == [pc : Progress, seed : Nat, left : SUBSET (Settings \cup Issues)]

UniverseRows == [by : {"bootstrap", "effects"}, held : Nat]

SeedsTypeOK ==
  /\ seedJob \in [Seeders -> SeedJobs] /\ seeds \in Nat
  /\ universes \in Seq(UniverseRows)

Booted == {u \in DOMAIN universes : universes[u].by = "bootstrap"}

AtMostOne(S) == \A x, y \in S : x = y

(* One seed is in flight at a time, and had found the store unseeded: what   *)
(* is there of each kind it has put there, or it is not there yet.           *)
ApartInv ==
  /\ \A s, t \in Seeders : seedJob[s].pc # "idle" /\ seedJob[t].pc # "idle" => s = t
  /\ \A s \in Seeders :
       /\ seedJob[s].pc = "objective" => objectives = {} /\ settings = {}
       /\ seedJob[s].pc = "settings" => \A p \in settings : p[2] \notin seedJob[s].left
       /\ seedJob[s].pc \in {"settings", "tasks", "universe"} => objectives # {}
       /\ seedJob[s].pc # "idle" => Booted = {}
  /\ Booted # {} => objectives # {}
  /\ AtMostOne(objectives) /\ AtMostOne(Booted)
  /\ \A p, q \in settings : p[2] = q[2] => p = q

SeedsInv == SeedsTypeOK /\ (~together => ApartInv)

(* The instance counts as the library does. *)
LEMMA SameCount == \A S : Seeding!Cardinality(S) = Cardinality(S)
  BY DEF Seeding!Cardinality, Cardinality

(* At most one of a set is a set of at most one. *)
LEMMA OneOrNone == ASSUME NEW S, AtMostOne(S) PROVE Cardinality(S) <= 1
  <1>1. CASE S = {}
    BY <1>1, FS_EmptySet
  <1>2. CASE S # {}
    <2>1. PICK x : x \in S
      BY <1>2
    <2>2. S = {x}
      BY <2>1 DEF AtMostOne
    <2>3. Cardinality({x}) = 1
      BY FS_Singleton
    <2> QED
      BY <2>2, <2>3
  <1> QED
    BY <1>1, <1>2

(* The check is the one step that starts a seed. *)
LEMMA CheckKeeps ==
  ASSUME SeedsInv, NEW s \in Seeders, Seeding!Check(s)
  PROVE  SeedsInv'
  <1>1. /\ objectives = {} /\ settings = {} /\ seeds' = seeds + 1
        /\ seedJob' = [seedJob EXCEPT ![s] =
                         [pc |-> "objective", seed |-> seeds + 1, left |-> {}]]
        /\ together' = (together \/ \E t \in Seeders : seedJob[t].pc # "idle")
        /\ UNCHANGED <<objectives, settings, universes>>
    BY DEF Seeding!Check, Seeding!Seeded
  <1>2. SeedsTypeOK'
    BY <1>1 DEF SeedsInv, SeedsTypeOK, SeedJobs, Progress
  <1>3. ASSUME ~together' PROVE ApartInv'
    <2>1. ApartInv /\ \A t \in Seeders : seedJob[t].pc = "idle"
      BY <1>1, <1>3 DEF SeedsInv
    <2>2. /\ seedJob'[s].pc = "objective"
          /\ \A t \in Seeders \ {s} : seedJob'[t].pc = "idle"
      BY <1>1, <2>1 DEF SeedsInv, SeedsTypeOK
    <2>3. Booted' = Booted /\ Booted = {}
      BY <1>1, <2>1 DEF ApartInv, Booted
    <2> QED
      BY <1>1, <2>1, <2>2, <2>3 DEF ApartInv, AtMostOne
  <1> QED
    BY <1>2, <1>3 DEF SeedsInv

(* A step of a seed under way, which leaves the universes alone. *)
LEMMA SeedStepKeeps ==
  ASSUME SeedsInv, NEW s \in Seeders,
         \/ Seeding!AdmitObjective(s) \/ Seeding!AdmitSetting(s) \/ Seeding!ReadRepository(s)
         \/ Seeding!AdmitMappedTask(s) \/ Seeding!StoreReferences(s) \/ Seeding!Fail(s)
  PROVE  SeedsInv'
  <1> PICK job \in SeedJobs : job = seedJob[s]
    BY DEF SeedsInv, SeedsTypeOK
  <1> USE DEF Seeding!Goto, Seeding!Idle
  <1>1. /\ job.pc # "idle" /\ seeds' = seeds /\ UNCHANGED <<universes, together>>
        /\ Booted' = Booted
    BY DEF Seeding!AdmitObjective, Seeding!AdmitSetting, Seeding!ReadRepository,
       Seeding!AdmitMappedTask, Seeding!StoreReferences, Seeding!Fail, Booted
  <1>2. PICK next \in SeedJobs :
          /\ seedJob' = [seedJob EXCEPT ![s] = next]
          /\ \/ /\ job.pc = "objective" /\ next.pc = "settings"
                /\ objectives' = objectives \cup {job.seed} /\ UNCHANGED settings
             \/ /\ job.pc = "settings" /\ next.pc = "settings"
                /\ \E name \in job.left : /\ settings' = settings \cup {<<job.seed, name>>}
                                          /\ next.left = job.left \ {name}
                /\ UNCHANGED objectives
             \/ /\ job.pc \in {"settings", "tasks"} /\ next.pc \in {"tasks", "universe"}
                /\ UNCHANGED <<objectives, settings>>
             \/ next.pc = "idle" /\ UNCHANGED <<objectives, settings>>
    <2>1. CASE Seeding!AdmitObjective(s)
      <3>1. [job EXCEPT !.pc = "settings", !.left = Settings] \in SeedJobs
        BY DEF SeedJobs, Progress
      <3> QED
        BY <2>1, <3>1 DEF Seeding!AdmitObjective, SeedsInv, SeedsTypeOK, SeedJobs
    <2>2. CASE Seeding!AdmitSetting(s)
      <3>1. PICK name \in job.left :
              /\ settings' = settings \cup {<<job.seed, name>>}
              /\ seedJob' = [seedJob EXCEPT ![s].pc = "settings", ![s].left = job.left \ {name}]
        BY <2>2 DEF Seeding!AdmitSetting
      <3>2. [job EXCEPT !.pc = "settings", !.left = job.left \ {name}] \in SeedJobs
        BY DEF SeedJobs, Progress
      <3> QED
        BY <2>2, <3>1, <3>2 DEF Seeding!AdmitSetting, SeedsInv, SeedsTypeOK, SeedJobs
    <2>3. CASE Seeding!ReadRepository(s)
      <3>1. [job EXCEPT !.pc = "tasks", !.left = Issues] \in SeedJobs
        BY DEF SeedJobs, Progress
      <3> QED
        BY <2>3, <3>1 DEF Seeding!ReadRepository, SeedsInv, SeedsTypeOK, SeedJobs
    <2>4. CASE Seeding!AdmitMappedTask(s)
      <3>1. PICK issue \in job.left :
              seedJob' = [seedJob EXCEPT ![s].pc = "tasks", ![s].left = job.left \ {issue}]
        BY <2>4 DEF Seeding!AdmitMappedTask
      <3>2. [job EXCEPT !.pc = "tasks", !.left = job.left \ {issue}] \in SeedJobs
        BY DEF SeedJobs, Progress
      <3> QED
        BY <2>4, <3>1, <3>2 DEF Seeding!AdmitMappedTask, SeedsInv, SeedsTypeOK, SeedJobs
    <2>5. CASE Seeding!StoreReferences(s)
      <3>1. [job EXCEPT !.pc = "universe", !.left = {}] \in SeedJobs
        BY DEF SeedJobs, Progress
      <3> QED
        BY <2>5, <3>1 DEF Seeding!StoreReferences, SeedsInv, SeedsTypeOK, SeedJobs
    <2>6. CASE Seeding!Fail(s)
      <3>1. [pc |-> "idle", seed |-> 0, left |-> {}] \in SeedJobs
        BY DEF SeedJobs, Progress
      <3> QED
        BY <2>6, <3>1 DEF Seeding!Fail
    <2> QED
      BY <2>1, <2>2, <2>3, <2>4, <2>5, <2>6
  <1>3. SeedsTypeOK'
    BY <1>1, <1>2 DEF SeedsInv, SeedsTypeOK
  <1>4. ASSUME ~together PROVE ApartInv'
    <2>1. /\ ApartInv /\ seedJob'[s] = next
          /\ \A t \in Seeders \ {s} : seedJob'[t] = seedJob[t] /\ seedJob[t].pc = "idle"
      BY <1>1, <1>2, <1>4 DEF SeedsInv, SeedsTypeOK, ApartInv
    <2>2. Booted = {}
      BY <1>1, <2>1 DEF ApartInv
    <2>3. CASE job.pc = "objective" /\ next.pc = "settings" /\ settings' = settings
               /\ objectives' = objectives \cup {job.seed}
      <3>1. settings' = {} /\ objectives' = {job.seed}
        BY <2>1, <2>3 DEF ApartInv
      <3> QED
        BY <1>1, <2>1, <2>2, <2>3, <3>1 DEF ApartInv, AtMostOne
    <2>4. CASE job.pc = "settings" /\ next.pc = "settings" /\ objectives' = objectives
               /\ \E name \in job.left : /\ settings' = settings \cup {<<job.seed, name>>}
                                         /\ next.left = job.left \ {name}
      <3>1. PICK name \in job.left : /\ settings' = settings \cup {<<job.seed, name>>}
                                     /\ next.left = job.left \ {name}
        BY <2>4
      <3>2. \A p \in settings : p[2] \notin job.left
        BY <2>1, <2>4 DEF ApartInv
      <3>3. /\ \A p \in settings' : p[2] \notin next.left
            /\ \A p, q \in settings' : p[2] = q[2] => p = q
        BY <2>1, <3>1, <3>2 DEF ApartInv
      <3> QED
        BY <1>1, <2>1, <2>2, <2>4, <3>3 DEF ApartInv
    <2>5. CASE /\ job.pc \in {"settings", "tasks"} /\ next.pc \in {"tasks", "universe"}
               /\ UNCHANGED <<objectives, settings>>
      BY <1>1, <2>1, <2>2, <2>5 DEF ApartInv
    <2>6. CASE next.pc = "idle" /\ UNCHANGED <<objectives, settings>>
      BY <1>1, <2>1, <2>2, <2>6 DEF ApartInv
    <2> QED
      BY <1>2, <2>3, <2>4, <2>5, <2>6
  <1> QED
    BY <1>1, <1>3, <1>4 DEF SeedsInv

(* The UniverseState comes last. *)
LEMMA AdmitUniverseKeeps ==
  ASSUME SeedsInv, NEW s \in Seeders, Seeding!AdmitUniverse(s)
  PROVE  SeedsInv'
  <1> PICK stored \in Seq(UniverseRows) : stored = universes
    BY DEF SeedsInv, SeedsTypeOK
  <1> DEFINE row == [by |-> "bootstrap", held |-> 0]
  <1>1. /\ seedJob[s].pc = "universe" /\ universes' = Append(stored, row)
        /\ seedJob' = [seedJob EXCEPT ![s] = [pc |-> "idle", seed |-> 0, left |-> {}]]
        /\ UNCHANGED <<objectives, settings, together, seeds>>
    BY DEF Seeding!AdmitUniverse, Seeding!Idle
  <1>2. row \in UniverseRows
    BY DEF UniverseRows
  <1>3. SeedsTypeOK'
    BY <1>1, <1>2 DEF SeedsInv, SeedsTypeOK, SeedJobs, Progress
  <1>4. ASSUME ~together PROVE ApartInv'
    <2>1. /\ ApartInv /\ seedJob'[s].pc = "idle"
          /\ \A t \in Seeders \ {s} : seedJob'[t] = seedJob[t] /\ seedJob[t].pc = "idle"
      BY <1>1, <1>4 DEF SeedsInv, SeedsTypeOK, ApartInv
    <2>2. Booted = {} /\ objectives # {}
      BY <1>1, <2>1 DEF ApartInv
    <2>3. \A u \in Booted' : u = Len(stored) + 1
      <3> SUFFICES ASSUME NEW u \in DOMAIN Append(stored, row), u # Len(stored) + 1
                   PROVE  Append(stored, row)[u].by # "bootstrap"
        BY <1>1 DEF Booted
      <3>1. u \in DOMAIN stored /\ Append(stored, row)[u] = stored[u]
        BY <1>2
      <3> QED
        BY <2>2, <3>1 DEF Booted
    <2> QED
      BY <1>1, <2>1, <2>2, <2>3 DEF ApartInv, AtMostOne
  <1> QED
    BY <1>1, <1>3, <1>4 DEF SeedsInv

(* Nobody else admits a bootstrap row, or makes one of another. *)
LEMMA BesideKeeps ==
  ASSUME SeedsInv, Seeding!Import \/ Seeding!ReadUniverse \/ Seeding!WriteUniverse
  PROVE  SeedsInv'
  <1> PICK stored \in Seq(UniverseRows) : stored = universes
    BY DEF SeedsInv, SeedsTypeOK
  <1>1. UNCHANGED <<objectives, settings, seedJob, together, seeds>>
    BY DEF Seeding!Import, Seeding!ReadUniverse, Seeding!WriteUniverse
  <1>2. universes' \in Seq(UniverseRows) /\ Booted' = Booted
    <2>1. CASE universes' = stored
      BY <2>1 DEF Booted
    <2>2. CASE \E row : universes' = [stored EXCEPT ![row].held = @ + 1]
      <3>1. PICK row : universes' = [stored EXCEPT ![row].held = @ + 1]
        BY <2>2
      <3>2. DOMAIN universes' = DOMAIN stored /\ Len(stored) \in Nat
            /\ DOMAIN stored = 1..Len(stored) /\ \A u \in DOMAIN stored : stored[u] \in UniverseRows
        BY <3>1
      <3>3. \A u \in DOMAIN stored :
              universes'[u] \in UniverseRows /\ universes'[u].by = stored[u].by
        BY <3>1, <3>2 DEF UniverseRows
      <3>4. universes' = [u \in 1..Len(stored) |-> universes'[u]]
        BY <3>1, <3>2
      <3>5. universes' \in Seq(UniverseRows)
        BY <3>2, <3>3, <3>4, IsASeq
      <3> QED
        BY <3>2, <3>3, <3>5 DEF Booted
    <2>3. CASE universes' = Append(stored, [by |-> "effects", held |-> 1])
      <3>1. [by |-> "effects", held |-> 1] \in UniverseRows
        BY DEF UniverseRows
      <3>2. /\ universes' \in Seq(UniverseRows) /\ DOMAIN stored = 1..Len(stored)
            /\ DOMAIN universes' = DOMAIN stored \cup {Len(stored) + 1}
            /\ \A u \in DOMAIN stored : universes'[u] = stored[u]
            /\ universes'[Len(stored) + 1].by # "bootstrap"
        BY <2>3, <3>1
      <3> QED
        BY <3>2 DEF Booted
    <2> QED
      BY <2>1, <2>2, <2>3 DEF Seeding!Import, Seeding!ReadUniverse, Seeding!WriteUniverse
  <1>3. SeedsTypeOK'
    BY <1>1, <1>2 DEF SeedsInv, SeedsTypeOK
  <1>4. ASSUME ApartInv PROVE ApartInv'
    BY <1>1, <1>2, <1>4 DEF ApartInv
  <1> QED
    BY <1>1, <1>3, <1>4 DEF SeedsInv

(* Every step of bootstrap. *)
LEMMA SeedsStep == SeedsInv /\ [Seeding!Next]_seedVars => SeedsInv'
  <1> SUFFICES ASSUME SeedsInv, [Seeding!Next]_seedVars PROVE SeedsInv'
    OBVIOUS
  <1>1. CASE UNCHANGED seedVars
    BY <1>1 DEF seedVars, SeedsInv, SeedsTypeOK, ApartInv, Booted
  <1>2. CASE Seeding!Next
    BY <1>2, CheckKeeps, SeedStepKeeps, AdmitUniverseKeeps, BesideKeeps DEF Seeding!Next
  <1> QED
    BY <1>1, <1>2

(* bootstrap_service.rs: seeds that do not meet leave one Objective, one     *)
(* answer to each setting and one UniverseState at most, whichever of them   *)
(* failed where, for every number of seeds, settings and issues.             *)
THEOREM OneSeedIsEnough == ServicesSpec => []SeedsApartAreOne
  <1>1. ServicesInit => SeedsInv
    BY DEF ServicesInit, Seeding!Init, Seeding!Idle, SeedsInv, SeedsTypeOK, SeedJobs, Progress,
       ApartInv, AtMostOne, Booted
  <1>2. SeedsInv /\ [ServicesNext]_<<part, faults, vars, labelVars, importVars, seedVars, lockVars>>
          => SeedsInv'
    BY SeedsStep DEF ServicesNext
  <1>3. SeedsInv => SeedsApartAreOne
    <2>1. ASSUME SeedsInv, ~together PROVE Seeding!SeedsApartAreOne
      <3>1. ApartInv /\ Cardinality(objectives) <= 1 /\ Cardinality(Booted) <= 1
        BY <2>1, OneOrNone DEF SeedsInv, ApartInv
      <3> QED
        BY <3>1, SameCount DEF ApartInv, Booted, Seeding!SeedsApartAreOne
    <2> QED
      BY <2>1 DEF SeedsApartAreOne, Seeding!SeedsApartAreOne
  <1> QED
    BY <1>1, <1>2, <1>3, PTL DEF ServicesSpec

-----------------------------------------------------------------------------
(* The GitHub projection *)

LabelOps == [kind : {"preflight", "apply", "remove"}, labels : SUBSET Managed]

Outcomes == {"applied", "skipped", "failed"}

PreviewRows == [operations : Seq(LabelOps), legitimate : BOOLEAN]

ApprovalRows == [preview : Nat, approved : BOOLEAN]

Exports == [pc : {"rest", "gate", "export"}, row : Nat, preview : Nat,
            outcomes : Seq(Outcomes), landed : SUBSET Nat]

ResultRows == [row : Nat, preview : Nat, status : {"applied", "partial", "failed"},
               outcomes : Seq(Outcomes), landed : SUBSET Nat]

LabelsTypeOK ==
  /\ issueLabels \in SUBSET Managed /\ author \in [Managed -> Nat \X Nat]
  /\ previews \in Seq(PreviewRows) /\ approvals \in Seq(ApprovalRows)
  /\ approving \in [Approvers -> Exports] /\ results \in Seq(ResultRows)
  /\ touches \in Nat

(* What is reported of the operations against what was written. *)
Truthful(outcomes, landed) ==
  \A i \in DOMAIN outcomes : /\ outcomes[i] = "applied" => i \in landed
                             /\ outcomes[i] = "skipped" => i \notin landed

ApprovalsHold == \A n \in DOMAIN approvals : approvals[n].preview \in DOMAIN previews

(* An approval under way is recorded as one, has reported the truth so far,  *)
(* and exports only what its preview's policy accepts and the log allows.    *)
ExportsHold ==
  \A a \in Approvers :
    LET job == approving[a] IN
    /\ Truthful(job.outcomes, job.landed) /\ job.landed \subseteq 1..Len(job.outcomes)
    /\ job.pc # "rest" =>
         /\ job.row \in DOMAIN approvals /\ approvals[job.row].approved
         /\ approvals[job.row].preview = job.preview
    /\ job.pc = "export" =>
         /\ Len(job.outcomes) + 1 \in DOMAIN previews[job.preview].operations
         /\ previews[job.preview].legitimate
         /\ <<job.row, Len(job.outcomes) + 1>> \in boundary

ResultsHold ==
  \A r \in DOMAIN results :
    /\ Truthful(results[r].outcomes, results[r].landed)
    /\ results[r].row \in DOMAIN approvals
    /\ approvals[results[r].row].preview = results[r].preview

(* Operation i of approval n put the label where it is. *)
WroteIt(n, i, l) ==
  /\ n \in DOMAIN approvals
  /\ i \in DOMAIN previews[approvals[n].preview].operations
  /\ LET o == previews[approvals[n].preview].operations[i] IN
     /\ l \in o.labels /\ o.kind # "preflight"
     /\ l \in issueLabels <=> o.kind = "apply"

AuthorsHold ==
  \A l \in Managed : author[l] # <<0, 0>> => WroteIt(author[l][1], author[l][2], l)

LabelsInv ==
  LabelsTypeOK /\ ApprovalsHold /\ ExportsHold /\ ResultsHold /\ AuthorsHold

(* A finite set is listed by a sequence. *)
LEMMA ListOf ==
  ASSUME NEW S, IsFiniteSet(S)
  PROVE  Labels!SetToSeq(S) \in Seq(S)
  <1>1. Cardinality(S) \in Nat /\ ExistsBijection(1..Cardinality(S), S)
    BY FS_CardinalityType
  <1>2. \E f \in [1..Cardinality(S) -> S] : Labels!IsInjective(f)
    BY <1>1 DEF ExistsBijection, Bijection, Injection, IsInjective, Labels!IsInjective
  <1>3. Labels!Cardinality(S) = Cardinality(S)
    BY DEF Labels!Cardinality, Cardinality
  <1>4. Labels!SetToSeq(S) \in [1..Cardinality(S) -> S]
    BY <1>2, <1>3 DEF Labels!SetToSeq
  <1> QED
    BY <1>1, <1>4

(* The operations of one kind on a set of labels. *)
LEMMA OperationsOn ==
  ASSUME NEW kind \in {"apply", "remove"}, NEW L \in SUBSET Managed
  PROVE  Labels!SetToSeq({Labels!Operation(kind, l) : l \in L}) \in Seq(LabelOps)
  <1> DEFINE f == [l \in L |-> Labels!Operation(kind, l)]
             T == {Labels!Operation(kind, l) : l \in L}
  <1>1. IsFiniteSet(L)
    BY FS_Subset, LabelConstants
  <1>2. f \in Surjection(L, T)
    BY DEF Surjection
  <1>3. IsFiniteSet(T)
    BY <1>1, <1>2, FS_Surjection
  <1>4. T \subseteq LabelOps
    BY DEF Labels!Operation, LabelOps
  <1> HIDE DEF T
  <1>5. Labels!SetToSeq(T) \in Seq(T)
    BY <1>3, ListOf
  <1>6. Labels!SetToSeq(T) \in Seq(LabelOps)
    BY <1>4, <1>5
  <1> QED
    BY <1>6 DEF T

(* A batch is a sequence of operations on managed labels. *)
LEMMA BatchType ==
  ASSUME NEW desired \in SUBSET Managed, NEW observed \in SUBSET Managed, NEW existing
  PROVE  Labels!Batch(desired, observed, existing) \in Seq(LabelOps)
  <1>1. Labels!Preflight(existing) \in Seq(LabelOps)
    <2>1. [kind |-> "preflight", labels |-> Managed \ existing] \in LabelOps
      BY DEF LabelOps
    <2> QED
      BY <2>1 DEF Labels!Preflight
  <1>2. Labels!LabelDiff(desired, observed) \in Seq(LabelOps)
    <2>1. desired \ observed \in SUBSET Managed /\ observed \ desired \in SUBSET Managed
      OBVIOUS
    <2> DEFINE on == Labels!SetToSeq({Labels!Operation("apply", l) : l \in desired \ observed})
               off == Labels!SetToSeq({Labels!Operation("remove", l) : l \in observed \ desired})
    <2>2. on \in Seq(LabelOps)
      BY <2>1, OperationsOn
    <2>3. off \in Seq(LabelOps)
      BY <2>1, OperationsOn
    <2>4. Labels!LabelDiff(desired, observed) = on \o off
      BY DEF Labels!LabelDiff
    <2> HIDE DEF on, off
    <2> QED
      BY <2>2, <2>3, <2>4, ConcatProperties
  <1> QED
    BY <1>1, <1>2 DEF Labels!Batch

(* Nothing is previewed, approved or written to begin with. *)
LEMMA LabelsStart == Labels!Init => LabelsInv
  <1> SUFFICES ASSUME Labels!Init PROVE LabelsInv
    OBVIOUS
  <1>1. /\ issueLabels \in SUBSET Managed /\ author = [l \in Managed |-> <<0, 0>>]
        /\ previews = <<>> /\ approvals = <<>> /\ results = <<>> /\ touches = 0
        /\ approving = [a \in Approvers |->
             [pc |-> "rest", row |-> 0, preview |-> 0, outcomes |-> <<>>, landed |-> {}]]
    BY DEF Labels!Init, Labels!Owner, Labels!Resting
  <1>2. [pc |-> "rest", row |-> 0, preview |-> 0, outcomes |-> <<>>, landed |-> {}] \in Exports
    BY DEF Exports
  <1>3. LabelsTypeOK
    BY <1>1, <1>2 DEF LabelsTypeOK
  <1>4. ApprovalsHold /\ ResultsHold /\ AuthorsHold
    BY <1>1 DEF ApprovalsHold, ResultsHold, AuthorsHold
  <1>5. ExportsHold
    BY <1>1 DEF ExportsHold, Truthful
  <1> QED
    BY <1>3, <1>4, <1>5 DEF LabelsInv

(* A preview is added; the others stay what they are. *)
LEMMA PreviewKeeps == LabelsInv /\ Labels!Preview => LabelsInv'
  <1> SUFFICES ASSUME LabelsInv, Labels!Preview PROVE LabelsInv'
    OBVIOUS
  <1> PICK known \in Seq(PreviewRows) : known = previews
    BY DEF LabelsInv, LabelsTypeOK
  <1>1. PICK batch \in Seq(LabelOps), forbidden \in BOOLEAN :
          previews' = Append(known, [operations |-> batch, legitimate |-> ~forbidden])
    <2>1. PICK desired \in SUBSET Managed, observed \in {issueLabels, {}},
               existing \in {repoLabels, {}}, forbidden \in BOOLEAN :
            previews' = Append(known, [operations |-> Labels!Batch(desired, observed, existing),
                                       legitimate |-> ~forbidden])
      BY DEF Labels!Preview
    <2>2. observed \in SUBSET Managed
      BY DEF LabelsInv, LabelsTypeOK
    <2>3. Labels!Batch(desired, observed, existing) \in Seq(LabelOps)
      BY <2>2, BatchType
    <2> QED
      BY <2>1, <2>3
  <1> DEFINE row == [operations |-> batch, legitimate |-> ~forbidden]
  <1>2. row \in PreviewRows
    BY DEF PreviewRows
  <1> HIDE DEF row
  <1>3. /\ UNCHANGED <<issueLabels, author, approvals, boundary, approving, results, touches>>
    BY DEF Labels!Preview, Labels!github
  <1>4. /\ previews' \in Seq(PreviewRows) /\ DOMAIN known \subseteq DOMAIN previews'
        /\ \A p \in DOMAIN known : previews'[p] = known[p]
    BY <1>1, <1>2 DEF row
  <1>5. LabelsTypeOK'
    BY <1>3, <1>4 DEF LabelsInv, LabelsTypeOK
  <1>6. ApprovalsHold' /\ ResultsHold'
    BY <1>3, <1>4 DEF LabelsInv, ApprovalsHold, ResultsHold
  <1>7. ExportsHold'
    BY <1>3, <1>4 DEF LabelsInv, ApprovalsHold, ExportsHold
  <1>8. AuthorsHold'
    BY <1>3, <1>4 DEF LabelsInv, ApprovalsHold, AuthorsHold, WroteIt
  <1> QED
    BY <1>5, <1>6, <1>7, <1>8 DEF LabelsInv

(* What an approval that exports nothing answers of every operation. *)
LEMMA FilledIs ==
  ASSUME NEW n \in Nat, NEW status \in Outcomes
  PROVE  /\ Labels!Filled(n, status) \in Seq(Outcomes) /\ Len(Labels!Filled(n, status)) = n
         /\ \A i \in 1..n : Labels!Filled(n, status)[i] = status
  BY DEF Labels!Filled

(* An export that did not take place failed, whatever it had to do. *)
LEMMA FailedResult ==
  ASSUME NEW n, NEW p, NEW o, NEW done
  PROVE  [Labels!Result(n, p, o, done) EXCEPT !.status = "failed"]
           = [row |-> n, preview |-> p, status |-> "failed", outcomes |-> o, landed |-> done]
  <1> PICK status : status = Labels!ResultStatus(o)
    OBVIOUS
  <1>1. Labels!Result(n, p, o, done)
          = [row |-> n, preview |-> p, status |-> status, outcomes |-> o, landed |-> done]
    BY DEF Labels!Result
  <1> QED
    BY <1>1

(* An approval is recorded; it is under way, or it is answered at once. *)
LEMMA ApproveKeeps ==
  ASSUME LabelsInv, NEW a \in Approvers, Labels!Approve(a)
  PROVE  LabelsInv'
  <1> PICK known \in Seq(ApprovalRows) : known = approvals
    BY DEF LabelsInv, LabelsTypeOK
  <1> PICK told \in Seq(ResultRows) : told = results
    BY DEF LabelsInv, LabelsTypeOK
  <1>1. PICK p \in DOMAIN previews, approved \in BOOLEAN, token \in BOOLEAN :
          /\ approvals' = Append(known, [preview |-> p, approved |-> approved])
          /\ IF approved /\ token
               THEN /\ approving' = [approving EXCEPT ![a] =
                         [Labels!Resting EXCEPT !.pc = "gate", !.row = Len(known) + 1,
                                                !.preview = p]]
                    /\ UNCHANGED results
               ELSE LET answer == IF approved THEN "failed" ELSE "skipped"
                        outcomes == Labels!Filled(Len(previews[p].operations), answer)
                    IN /\ results' = Append(told,
                            [Labels!Result(Len(known) + 1, p, outcomes, {})
                               EXCEPT !.status = "failed"])
                       /\ UNCHANGED approving
    BY DEF Labels!Approve
  <1>2. UNCHANGED <<issueLabels, author, previews, boundary, touches>>
    BY DEF Labels!Approve, Labels!github
  <1>3. /\ p \in Nat /\ previews[p].operations \in Seq(LabelOps)
        /\ Len(previews[p].operations) \in Nat
    <2>1. previews \in Seq(PreviewRows)
      BY DEF LabelsInv, LabelsTypeOK
    <2>2. p \in 1..Len(previews) /\ Len(previews) \in Nat
      BY <2>1
    <2>3. previews[p] \in PreviewRows
      BY <2>1, <2>2, ElementOfSeq
    <2> QED
      BY <2>2, <2>3 DEF PreviewRows
  <1> DEFINE row == [preview |-> p, approved |-> approved]
  <1>4. row \in ApprovalRows
    BY <1>3 DEF ApprovalRows
  <1>5. /\ approvals' = Append(known, row) /\ approvals' \in Seq(ApprovalRows)
        /\ DOMAIN approvals' = DOMAIN known \cup {Len(known) + 1}
        /\ \A n \in DOMAIN known : approvals'[n] = known[n]
        /\ approvals'[Len(known) + 1] = row
    BY <1>1, <1>4
  <1>6. ApprovalsHold'
    BY <1>2, <1>5 DEF LabelsInv, ApprovalsHold
  <1>7. AuthorsHold'
    BY <1>2, <1>5 DEF LabelsInv, AuthorsHold, WroteIt
  <1>8. CASE approved /\ token
    <2> DEFINE next == [pc |-> "gate", row |-> Len(known) + 1, preview |-> p,
                        outcomes |-> <<>>, landed |-> {}]
    <2>1. approving' = [approving EXCEPT ![a] = next] /\ UNCHANGED results
      BY <1>1, <1>8 DEF Labels!Resting
    <2>2. next \in Exports
      BY <1>3 DEF Exports
    <2>3. LabelsTypeOK' /\ ResultsHold'
      BY <1>2, <1>5, <2>1, <2>2 DEF LabelsInv, LabelsTypeOK, ResultsHold
    <2>4. approving'[a] = next /\ \A b \in Approvers \ {a} : approving'[b] = approving[b]
      BY <2>1 DEF LabelsInv, LabelsTypeOK
    <2>5. ExportsHold'
      <3> SUFFICES ASSUME NEW b \in Approvers
                   PROVE  LET job == approving'[b] IN
                          /\ Truthful(job.outcomes, job.landed)
                          /\ job.landed \subseteq 1..Len(job.outcomes)
                          /\ job.pc # "rest" =>
                               /\ job.row \in DOMAIN approvals' /\ approvals'[job.row].approved
                               /\ approvals'[job.row].preview = job.preview
                          /\ job.pc = "export" =>
                               /\ Len(job.outcomes) + 1 \in DOMAIN previews[job.preview].operations
                               /\ previews[job.preview].legitimate
                               /\ <<job.row, Len(job.outcomes) + 1>> \in boundary
        BY <1>2 DEF ExportsHold
      <3>1. CASE b = a
        BY <1>5, <1>8, <2>4, <3>1 DEF Truthful
      <3>2. CASE b # a
        <4> PICK job : job = approving[b]
          OBVIOUS
        <4>1. approving'[b] = job
          BY <2>4, <3>2
        <4>2. /\ Truthful(job.outcomes, job.landed) /\ job.landed \subseteq 1..Len(job.outcomes)
              /\ job.pc # "rest" =>
                   /\ job.row \in DOMAIN known /\ known[job.row].approved
                   /\ known[job.row].preview = job.preview
              /\ job.pc = "export" =>
                   /\ Len(job.outcomes) + 1 \in DOMAIN previews[job.preview].operations
                   /\ previews[job.preview].legitimate
                   /\ <<job.row, Len(job.outcomes) + 1>> \in boundary
          BY DEF LabelsInv, ExportsHold
        <4>3. job.row \in DOMAIN known =>
                job.row \in DOMAIN approvals' /\ approvals'[job.row] = known[job.row]
          BY <1>5
        <4> QED
          BY <4>1, <4>2, <4>3
      <3> QED
        BY <3>1, <3>2
    <2> QED
      BY <1>6, <1>7, <2>3, <2>5 DEF LabelsInv
  <1>9. CASE ~(approved /\ token)
    <2> DEFINE answer == IF approved THEN "failed" ELSE "skipped"
               outcomes == Labels!Filled(Len(previews[p].operations), answer)
               result == [row |-> Len(known) + 1, preview |-> p, status |-> "failed",
                          outcomes |-> outcomes, landed |-> {}]
    <2>1. results' = Append(told, result) /\ UNCHANGED approving
      <3> DEFINE whole == Labels!Result(Len(known) + 1, p, outcomes, {})
      <3>1. results' = Append(told, [whole EXCEPT !.status = "failed"]) /\ UNCHANGED approving
        BY <1>1, <1>9
      <3>2. [whole EXCEPT !.status = "failed"] = result
        <4> PICK o, n : o = outcomes /\ n = Len(known) + 1
          OBVIOUS
        <4>1. \A done : [Labels!Result(n, p, o, done) EXCEPT !.status = "failed"]
                = [row |-> n, preview |-> p, status |-> "failed", outcomes |-> o, landed |-> done]
          BY FailedResult
        <4>2. [Labels!Result(n, p, o, {}) EXCEPT !.status = "failed"]
                = [row |-> n, preview |-> p, status |-> "failed", outcomes |-> o, landed |-> {}]
          BY <4>1
        <4> QED
          BY <4>2
      <3> QED
        BY <3>1, <3>2
    <2>2. /\ outcomes \in Seq(Outcomes)
          /\ \A i \in DOMAIN outcomes : outcomes[i] \in {"failed", "skipped"}
      <3>1. answer \in Outcomes /\ answer \in {"failed", "skipped"}
        BY DEF Outcomes
      <3> HIDE DEF answer
      <3>2. PICK n \in Nat : n = Len(previews[p].operations)
        BY <1>3
      <3>3. /\ Labels!Filled(n, answer) \in Seq(Outcomes)
            /\ Len(Labels!Filled(n, answer)) = n
            /\ \A i \in 1..n : Labels!Filled(n, answer)[i] = answer
        BY <3>1, FilledIs
      <3>4. outcomes = Labels!Filled(n, answer)
        BY <3>2
      <3> HIDE DEF outcomes
      <3> QED
        BY <3>1, <3>3, <3>4
    <2> HIDE DEF outcomes
    <2>3. result \in ResultRows
      BY <1>3, <2>2 DEF ResultRows
    <2>4. Truthful(outcomes, {})
      BY <2>2 DEF Truthful
    <2>5. /\ results' \in Seq(ResultRows) /\ DOMAIN results' = DOMAIN told \cup {Len(told) + 1}
          /\ \A r \in DOMAIN told : results'[r] = told[r]
          /\ results'[Len(told) + 1] = result
      BY <2>1, <2>3
    <2>6. LabelsTypeOK'
      BY <1>2, <1>5, <2>1, <2>5 DEF LabelsInv, LabelsTypeOK
    <2>7. ResultsHold'
      <3>1. ASSUME NEW r \in DOMAIN told
            PROVE  /\ Truthful(results'[r].outcomes, results'[r].landed)
                   /\ results'[r].row \in DOMAIN approvals'
                   /\ approvals'[results'[r].row].preview = results'[r].preview
        <4>1. /\ Truthful(told[r].outcomes, told[r].landed) /\ told[r].row \in DOMAIN known
              /\ known[told[r].row].preview = told[r].preview
          BY DEF LabelsInv, ResultsHold
        <4> QED
          BY <1>5, <2>5, <4>1
      <3>2. /\ Truthful(result.outcomes, result.landed) /\ result.row \in DOMAIN approvals'
            /\ approvals'[result.row].preview = result.preview
        BY <1>5, <2>4
      <3> HIDE DEF result
      <3> QED
        BY <2>5, <3>1, <3>2 DEF ResultsHold
    <2>8. ExportsHold'
      BY <1>2, <1>5, <2>1 DEF LabelsInv, ExportsHold
    <2> QED
      BY <1>6, <1>7, <2>6, <2>7, <2>8 DEF LabelsInv
  <1> QED
    BY <1>8, <1>9

(* An approval goes on: what it has done is true, and it has left the rest alone. *)
LEMMA JobGoesOn ==
  ASSUME LabelsInv, NEW a \in Approvers, NEW next \in Exports,
         approving' = [approving EXCEPT ![a] = next],
         UNCHANGED <<previews, approvals>>, boundary \subseteq boundary',
         Truthful(next.outcomes, next.landed), next.landed \subseteq 1..Len(next.outcomes),
         next.pc # "rest" =>
           approving[a].pc # "rest" /\ next.row = approving[a].row
             /\ next.preview = approving[a].preview,
         next.pc = "export" =>
           /\ Len(next.outcomes) + 1 \in DOMAIN previews[next.preview].operations
           /\ previews[next.preview].legitimate
           /\ <<next.row, Len(next.outcomes) + 1>> \in boundary'
  PROVE  approving' \in [Approvers -> Exports] /\ ApprovalsHold' /\ ExportsHold'
  <1>1. /\ approving' \in [Approvers -> Exports] /\ approving'[a] = next
        /\ \A b \in Approvers \ {a} : approving'[b] = approving[b]
    BY DEF LabelsInv, LabelsTypeOK
  <1>2. ApprovalsHold'
    BY DEF LabelsInv, ApprovalsHold
  <1>3. ASSUME NEW b \in Approvers
        PROVE  LET job == approving'[b] IN
               /\ Truthful(job.outcomes, job.landed)
               /\ job.landed \subseteq 1..Len(job.outcomes)
               /\ job.pc # "rest" =>
                    /\ job.row \in DOMAIN approvals /\ approvals[job.row].approved
                    /\ approvals[job.row].preview = job.preview
               /\ job.pc = "export" =>
                    /\ Len(job.outcomes) + 1 \in DOMAIN previews[job.preview].operations
                    /\ previews[job.preview].legitimate
                    /\ <<job.row, Len(job.outcomes) + 1>> \in boundary'
    <2>1. CASE b = a
      BY <1>1, <2>1 DEF LabelsInv, ExportsHold
    <2>2. CASE b # a
      BY <1>1, <2>2 DEF LabelsInv, ExportsHold
    <2> QED
      BY <2>1, <2>2
  <1> QED
    BY <1>1, <1>2, <1>3 DEF ExportsHold

(* One more operation is answered: it landed, or it did not. *)
LEMMA AnsweredIsTrue ==
  ASSUME NEW o \in Seq(Outcomes), NEW done \in SUBSET Nat,
         Truthful(o, done), done \subseteq 1..Len(o),
         NEW outcome \in Outcomes, NEW more \in {{}, {Len(o) + 1}},
         outcome = "applied" => more # {}, outcome = "skipped" => more = {}
  PROVE  /\ Append(o, outcome) \in Seq(Outcomes) /\ Len(Append(o, outcome)) = Len(o) + 1
         /\ done \cup more \in SUBSET Nat /\ done \cup more \subseteq 1..(Len(o) + 1)
         /\ Truthful(Append(o, outcome), done \cup more)
  <1>1. /\ Append(o, outcome) \in Seq(Outcomes) /\ Len(Append(o, outcome)) = Len(o) + 1
        /\ Len(o) \in Nat /\ DOMAIN o = 1..Len(o)
        /\ DOMAIN Append(o, outcome) = DOMAIN o \cup {Len(o) + 1}
        /\ \A i \in DOMAIN o : Append(o, outcome)[i] = o[i]
        /\ Append(o, outcome)[Len(o) + 1] = outcome
    OBVIOUS
  <1>2. \A i \in DOMAIN o : i \in done \cup more <=> i \in done
    BY <1>1
  <1>3. Len(o) + 1 \notin done
    BY <1>1
  <1>4. Truthful(Append(o, outcome), done \cup more)
    BY <1>1, <1>2, <1>3 DEF Truthful
  <1> QED
    BY <1>1, <1>4

(* The batch ends early: the operations that were left are skipped. *)
LEMMA SkippedIsTrue ==
  ASSUME NEW o \in Seq(Outcomes), NEW done \in SUBSET Nat,
         Truthful(o, done), done \subseteq 1..Len(o), NEW n \in Nat
  PROVE  LET s == o \o Labels!Filled(n, "skipped") IN
         s \in Seq(Outcomes) /\ done \subseteq 1..Len(s) /\ Truthful(s, done)
  <1> DEFINE rest == Labels!Filled(n, "skipped")
             s == o \o rest
  <1>1. rest \in Seq(Outcomes) /\ Len(rest) = n /\ \A i \in 1..n : rest[i] = "skipped"
    BY FilledIs DEF Outcomes
  <1> HIDE DEF rest
  <1>2. /\ s \in Seq(Outcomes) /\ Len(s) = Len(o) + n /\ Len(o) \in Nat
        /\ \A i \in 1..Len(o) : s[i] = o[i]
        /\ \A i \in 1..Len(s) : i > Len(o) => s[i] = rest[i - Len(o)]
    <2>1. /\ s \in Seq(Outcomes) /\ Len(s) = Len(o) + Len(rest)
          /\ \A i \in 1..Len(s) : s[i] = IF i <= Len(o) THEN o[i] ELSE rest[i - Len(o)]
      BY <1>1, ConcatProperties
    <2> HIDE DEF s
    <2>2. Len(o) \in Nat
      OBVIOUS
    <2> QED
      BY <1>1, <2>1, <2>2
  <1> HIDE DEF s
  <1>3. \A i \in 1..Len(s) : i > Len(o) => s[i] = "skipped" /\ i \notin done
    BY <1>1, <1>2
  <1>4. Truthful(s, done)
    <2> SUFFICES ASSUME NEW i \in 1..Len(s)
                 PROVE  (s[i] = "applied" => i \in done) /\ (s[i] = "skipped" => i \notin done)
      BY <1>2 DEF Truthful
    <2>1. CASE i <= Len(o)
      BY <1>2, <2>1 DEF Truthful
    <2>2. CASE i > Len(o)
      BY <1>3, <2>2
    <2> QED
      BY <1>2, <2>1, <2>2
  <1> QED
    BY <1>2, <1>4 DEF s, rest

(* What an approval under way is about. *)
LEMMA JobIs ==
  ASSUME LabelsInv, NEW a \in Approvers
  PROVE  /\ approving[a] \in Exports /\ Labels!Here(a) = Len(approving[a].outcomes) + 1
         /\ Labels!Operations(a) = previews[approving[a].preview].operations
         /\ Truthful(approving[a].outcomes, approving[a].landed)
         /\ approving[a].landed \subseteq 1..Len(approving[a].outcomes)
         /\ approving[a].pc # "rest" =>
              /\ approving[a].preview \in DOMAIN previews
              /\ Labels!Operations(a) \in Seq(LabelOps)
  <1>1. /\ approving[a] \in Exports /\ Truthful(approving[a].outcomes, approving[a].landed)
        /\ approving[a].landed \subseteq 1..Len(approving[a].outcomes)
    BY DEF LabelsInv, LabelsTypeOK, ExportsHold
  <1>2. ASSUME approving[a].pc # "rest"
        PROVE  /\ approving[a].preview \in DOMAIN previews
               /\ previews[approving[a].preview].operations \in Seq(LabelOps)
    <2>1. approving[a].preview \in DOMAIN previews
      BY <1>2 DEF LabelsInv, ExportsHold, ApprovalsHold
    <2>2. previews[approving[a].preview] \in PreviewRows
      BY <2>1 DEF LabelsInv, LabelsTypeOK
    <2> QED
      BY <2>1, <2>2 DEF PreviewRows
  <1> QED
    BY <1>1, <1>2 DEF Labels!Here, Labels!Operations

(* The gate's decision is logged, and then acted upon. *)
LEMMA GateKeeps ==
  ASSUME LabelsInv, NEW a \in Approvers, Labels!Gate(a)
  PROVE  LabelsInv'
  <1> PICK job \in Exports : job = approving[a]
    BY JobIs
  <1>1. /\ job.pc = "gate"
        /\ Len(job.outcomes) + 1 \in DOMAIN previews[job.preview].operations
        /\ boundary' = boundary \cup {<<job.row, Len(job.outcomes) + 1>>}
        /\ UNCHANGED <<issueLabels, author, previews, approvals, results, touches>>
    BY JobIs DEF Labels!Gate, Labels!github
  <1>2. Truthful(job.outcomes, job.landed) /\ job.landed \subseteq 1..Len(job.outcomes)
    BY JobIs
  <1>3. approving' \in [Approvers -> Exports] /\ ApprovalsHold' /\ ExportsHold'
    <2>1. CASE previews[job.preview].legitimate
      <3> PICK next : next = [job EXCEPT !.pc = "export"]
        OBVIOUS
      <3>1. /\ next \in Exports /\ next.pc = "export" /\ next.row = job.row
            /\ next.preview = job.preview /\ next.outcomes = job.outcomes
            /\ next.landed = job.landed
        BY DEF Exports
      <3>2. approving' = [approving EXCEPT ![a] = next]
        BY <2>1 DEF Labels!Gate
      <3>3. previews[next.preview].legitimate
        BY <2>1, <3>1
      <3>4. /\ Truthful(next.outcomes, next.landed) /\ next.landed \subseteq 1..Len(next.outcomes)
            /\ Len(next.outcomes) + 1 \in DOMAIN previews[next.preview].operations
            /\ <<next.row, Len(next.outcomes) + 1>> \in boundary'
            /\ boundary \subseteq boundary' /\ UNCHANGED <<previews, approvals>>
            /\ approving[a].pc # "rest" /\ next.row = approving[a].row
            /\ next.preview = approving[a].preview
        BY <1>1, <1>2, <3>1
      <3> QED
        BY <3>1, <3>2, <3>3, <3>4, JobGoesOn
    <2>2. CASE ~previews[job.preview].legitimate
      <3> PICK next : next = [job EXCEPT !.pc = "gate", !.outcomes = Append(@, "skipped"),
                                         !.landed = @ \cup {}]
        OBVIOUS
      <3>1. /\ job.outcomes \in Seq(Outcomes) /\ job.landed \in SUBSET Nat
            /\ "skipped" \in Outcomes
        BY DEF Exports, Outcomes
      <3>2. /\ Append(job.outcomes, "skipped") \in Seq(Outcomes)
            /\ Len(Append(job.outcomes, "skipped")) = Len(job.outcomes) + 1
            /\ job.landed \cup {} \in SUBSET Nat
            /\ job.landed \cup {} \subseteq 1..(Len(job.outcomes) + 1)
            /\ Truthful(Append(job.outcomes, "skipped"), job.landed \cup {})
        <4> PICK o, done, more : o = job.outcomes /\ done = job.landed /\ more = {}
          OBVIOUS
        <4>1. /\ o \in Seq(Outcomes) /\ done \in SUBSET Nat /\ Truthful(o, done)
              /\ done \subseteq 1..Len(o) /\ more \in {{}, {Len(o) + 1}}
          BY <1>2, <3>1
        <4> QED
          BY <3>1, <4>1, AnsweredIsTrue
      <3>3. /\ next \in Exports /\ next.pc = "gate" /\ next.row = job.row
            /\ next.preview = job.preview /\ next.outcomes = Append(job.outcomes, "skipped")
            /\ next.landed = job.landed \cup {}
        BY <3>2 DEF Exports
      <3>4. approving' = [approving EXCEPT ![a] = next]
        BY <2>2 DEF Labels!Gate, Labels!Answered
      <3> QED
        BY <1>1, <3>2, <3>3, <3>4, JobGoesOn
    <2> QED
      BY <2>1, <2>2
  <1>4. LabelsTypeOK' /\ ResultsHold' /\ AuthorsHold'
    BY <1>1, <1>3 DEF LabelsInv, LabelsTypeOK, ResultsHold, AuthorsHold, WroteIt
  <1> QED
    BY <1>3, <1>4 DEF LabelsInv

(* GitHub does one operation: it touches what the operation names, and the  *)
(* operation is from then on the author of that.                            *)
LEMMA LandsIsAuthored ==
  ASSUME LabelsInv, NEW a \in Approvers, approving[a].pc = "export",
         Labels!Lands(a, Labels!Operations(a)[Labels!Here(a)]),
         UNCHANGED <<previews, approvals>>
  PROVE  /\ issueLabels' \in SUBSET Managed /\ author' \in [Managed -> Nat \X Nat]
         /\ AuthorsHold'
         /\ \A l \in Managed \ Labels!Operations(a)[Labels!Here(a)].labels :
              l \in issueLabels' <=> l \in issueLabels
  <1> PICK job \in Exports : job = approving[a]
    BY JobIs
  <1> PICK i : i = Len(job.outcomes) + 1
    OBVIOUS
  <1>1. /\ job.row \in DOMAIN approvals /\ approvals[job.row].preview = job.preview
        /\ i \in DOMAIN previews[job.preview].operations /\ i \in Nat /\ job.row \in Nat
        /\ previews[job.preview].operations \in Seq(LabelOps)
    <2>1. job.row \in Nat /\ Len(job.outcomes) \in Nat
      BY DEF Exports
    <2>2. /\ job.row \in DOMAIN approvals /\ approvals[job.row].preview = job.preview
          /\ Len(job.outcomes) + 1 \in DOMAIN previews[job.preview].operations
      BY DEF LabelsInv, ExportsHold
    <2>3. previews[job.preview].operations \in Seq(LabelOps)
      BY JobIs
    <2> QED
      BY <2>1, <2>2, <2>3
  <1> PICK o \in LabelOps : o = previews[job.preview].operations[i]
    BY <1>1
  <1>2. Labels!Operations(a)[Labels!Here(a)] = o /\ Labels!Here(a) = i
    BY JobIs
  <1>3. /\ o.labels \in SUBSET Managed /\ issueLabels \in SUBSET Managed
        /\ author \in [Managed -> Nat \X Nat]
    BY DEF LabelOps, LabelsInv, LabelsTypeOK
  <1>4. \/ o.kind = "preflight" /\ UNCHANGED <<issueLabels, author>>
        \/ /\ o.kind = "apply" /\ issueLabels' = issueLabels \cup o.labels
           /\ author' = Labels!Written(o, <<job.row, i>>)
        \/ /\ o.kind = "remove" /\ issueLabels' = issueLabels \ o.labels
           /\ author' = Labels!Written(o, <<job.row, i>>)
    BY <1>2 DEF Labels!Lands
  <1>5. CASE UNCHANGED <<issueLabels, author>>
    BY <1>2, <1>3, <1>5 DEF LabelsInv, AuthorsHold, WroteIt
  <1>6. CASE /\ o.kind \in {"apply", "remove"} /\ author' = Labels!Written(o, <<job.row, i>>)
             /\ \A l \in Managed :
                  l \in issueLabels' <=> IF l \in o.labels THEN o.kind = "apply"
                                         ELSE l \in issueLabels
             /\ issueLabels' \in SUBSET Managed
    <2>1. author' = [l \in Managed |-> IF l \in o.labels THEN <<job.row, i>> ELSE author[l]]
      BY <1>6 DEF Labels!Written
    <2>2. author' \in [Managed -> Nat \X Nat]
      BY <1>1, <1>3, <2>1
    <2>3. ASSUME NEW l \in Managed, l \in o.labels
          PROVE  author'[l] = <<job.row, i>> /\ WroteIt(job.row, i, l)'
      BY <1>1, <1>6, <2>1, <2>3 DEF WroteIt
    <2>4. ASSUME NEW l \in Managed, l \notin o.labels
          PROVE  /\ author'[l] = author[l]
                 /\ \A n, k : WroteIt(n, k, l) => WroteIt(n, k, l)'
      BY <1>6, <2>1, <2>4 DEF WroteIt
    <2>5. ASSUME NEW l \in Managed, author'[l] # <<0, 0>>
          PROVE  WroteIt(author[l][1], author[l][2], l)'
      <3> PICK n, k : n = author'[l][1] /\ k = author'[l][2]
        OBVIOUS
      <3>1. CASE l \in o.labels
        <4>1. n = job.row /\ k = i
          BY <2>3, <3>1
        <4> QED
          BY <2>3, <3>1, <4>1
      <3>2. CASE l \notin o.labels
        <4>1. author'[l] = author[l]
          BY <2>4, <3>2
        <4>2. WroteIt(n, k, l)
          BY <2>5, <4>1 DEF LabelsInv, AuthorsHold
        <4> QED
          BY <2>4, <3>2, <4>2
      <3> QED
        BY <3>1, <3>2
    <2>6. AuthorsHold'
      BY <2>5 DEF AuthorsHold
    <2> QED
      BY <1>2, <1>6, <2>2, <2>6
  <1> QED
    BY <1>3, <1>4, <1>5, <1>6

(* An operation is sent: it is answered, or the batch ends with it; and what *)
(* GitHub was told is among what has landed, whatever the answer was.        *)
LEMMA ExportKeeps ==
  ASSUME LabelsInv, NEW a \in Approvers, Labels!Export(a)
  PROVE  LabelsInv'
  <1> PICK job \in Exports : job = approving[a]
    BY JobIs
  <1> PICK o : o = Labels!Operations(a)[Labels!Here(a)]
    OBVIOUS
  <1>1. /\ job.pc = "export" /\ job.outcomes \in Seq(Outcomes) /\ job.landed \in SUBSET Nat
        /\ Truthful(job.outcomes, job.landed) /\ job.landed \subseteq 1..Len(job.outcomes)
        /\ UNCHANGED <<previews, approvals, boundary, results, touches>>
    BY JobIs DEF Labels!Export, Exports
  <1>2. Labels!Here(a) = Len(job.outcomes) + 1 /\ Labels!Remaining(a) \in Nat
    <2>1. /\ Labels!Here(a) = Len(job.outcomes) + 1
          /\ Labels!Operations(a) = previews[job.preview].operations
          /\ Labels!Operations(a) \in Seq(LabelOps)
      BY <1>1, JobIs
    <2>2. Len(job.outcomes) + 1 \in DOMAIN previews[job.preview].operations
      BY <1>1 DEF LabelsInv, ExportsHold
    <2>3. Labels!Here(a) \in 1..Len(Labels!Operations(a)) /\ Len(Labels!Operations(a)) \in Nat
      BY <2>1, <2>2
    <2> QED
      BY <2>1, <2>3 DEF Labels!Remaining
  <1>3. PICK more \in {{}, {Len(job.outcomes) + 1}} :
          \/ /\ Labels!Answered(a, "applied", more) /\ more # {} /\ Labels!Lands(a, o)
          \/ /\ Labels!Answered(a, "failed", more) /\ UNCHANGED <<issueLabels, author>>
          \/ /\ Labels!Stop(a, more)
             /\ Labels!Lands(a, o) \/ UNCHANGED <<issueLabels, author>>
    BY <1>2 DEF Labels!Export, Labels!github
  <1> PICK landed : landed = job.landed \cup more
    OBVIOUS
  <1>4. ASSUME NEW outcome \in {"applied", "failed"}, outcome = "applied" => more # {}
        PROVE  /\ Append(job.outcomes, outcome) \in Seq(Outcomes)
               /\ Len(Append(job.outcomes, outcome)) = Len(job.outcomes) + 1
               /\ landed \in SUBSET Nat /\ landed \subseteq 1..(Len(job.outcomes) + 1)
               /\ Truthful(Append(job.outcomes, outcome), landed)
    <2>1. outcome \in Outcomes /\ outcome # "skipped"
      BY DEF Outcomes
    <2> PICK known, done : known = job.outcomes /\ done = job.landed
      OBVIOUS
    <2>2. /\ known \in Seq(Outcomes) /\ done \in SUBSET Nat /\ Truthful(known, done)
          /\ done \subseteq 1..Len(known) /\ more \in {{}, {Len(known) + 1}}
      BY <1>1
    <2> QED
      BY <1>4, <2>1, <2>2, AnsweredIsTrue
  <1>5. \E s \in Seq(Outcomes) :
          /\ approving' = [approving EXCEPT ![a] = [job EXCEPT !.pc = "gate", !.outcomes = s,
                                                               !.landed = landed]]
          /\ Truthful(s, landed) /\ landed \subseteq 1..Len(s)
    <2>1. ASSUME NEW outcome \in {"applied", "failed"}, outcome = "applied" => more # {},
                 Labels!Answered(a, outcome, more)
          PROVE  \E s \in Seq(Outcomes) :
                   /\ approving' = [approving EXCEPT ![a] =
                                      [job EXCEPT !.pc = "gate", !.outcomes = s,
                                                  !.landed = landed]]
                   /\ Truthful(s, landed) /\ landed \subseteq 1..Len(s)
      <3> PICK s : s = Append(job.outcomes, outcome)
        OBVIOUS
      <3>1. /\ s \in Seq(Outcomes) /\ Truthful(s, landed) /\ landed \subseteq 1..Len(s)
        BY <1>4, <2>1
      <3>2. approving' = [approving EXCEPT ![a] = [job EXCEPT !.pc = "gate", !.outcomes = s,
                                                             !.landed = landed]]
        BY <2>1 DEF Labels!Answered
      <3> QED
        BY <3>1, <3>2
    <2>2. CASE Labels!Stop(a, more)
      <3> PICK failed : failed = Append(job.outcomes, "failed")
        OBVIOUS
      <3> PICK n \in Nat : n = Labels!Remaining(a)
        BY <1>2
      <3> PICK s : s = failed \o Labels!Filled(n, "skipped")
        OBVIOUS
      <3>1. /\ failed \in Seq(Outcomes) /\ Truthful(failed, landed) /\ landed \in SUBSET Nat
            /\ landed \subseteq 1..Len(failed)
        BY <1>4
      <3>2. s \in Seq(Outcomes) /\ Truthful(s, landed) /\ landed \subseteq 1..Len(s)
        BY <3>1, SkippedIsTrue
      <3>3. approving' = [approving EXCEPT ![a] = [job EXCEPT !.pc = "gate", !.outcomes = s,
                                                             !.landed = landed]]
        BY <2>2 DEF Labels!Stop
      <3> QED
        BY <3>2, <3>3
    <2> QED
      BY <1>3, <2>1, <2>2
  <1>6. PICK s \in Seq(Outcomes) :
          /\ approving' = [approving EXCEPT ![a] = [job EXCEPT !.pc = "gate", !.outcomes = s,
                                                               !.landed = landed]]
          /\ Truthful(s, landed) /\ landed \subseteq 1..Len(s)
    BY <1>5
  <1>7. approving' \in [Approvers -> Exports] /\ ApprovalsHold' /\ ExportsHold'
    <2> PICK next : next = [job EXCEPT !.pc = "gate", !.outcomes = s, !.landed = landed]
      OBVIOUS
    <2>1. landed \in SUBSET Nat
      BY <1>4
    <2>2. /\ next \in Exports /\ next.pc = "gate" /\ next.row = job.row
          /\ next.preview = job.preview /\ next.outcomes = s /\ next.landed = landed
      BY <2>1 DEF Exports
    <2>3. approving' = [approving EXCEPT ![a] = next]
      BY <1>6
    <2>4. /\ Truthful(next.outcomes, next.landed) /\ next.landed \subseteq 1..Len(next.outcomes)
          /\ approving[a].pc # "rest" /\ next.row = approving[a].row
          /\ next.preview = approving[a].preview /\ next.pc # "export"
          /\ boundary \subseteq boundary' /\ UNCHANGED <<previews, approvals>>
      BY <1>1, <1>6, <2>2
    <2> QED
      BY <2>2, <2>3, <2>4, JobGoesOn
  <1>8. /\ issueLabels' \in SUBSET Managed /\ author' \in [Managed -> Nat \X Nat]
        /\ AuthorsHold'
    <2>1. CASE Labels!Lands(a, o)
      BY <1>1, <2>1, LandsIsAuthored
    <2>2. CASE UNCHANGED <<issueLabels, author>>
      BY <1>1, <2>2 DEF LabelsInv, LabelsTypeOK, AuthorsHold, WroteIt
    <2> QED
      BY <1>3, <2>1, <2>2
  <1>9. LabelsTypeOK' /\ ResultsHold'
    BY <1>1, <1>7, <1>8 DEF LabelsInv, LabelsTypeOK, ResultsHold
  <1> QED
    BY <1>7, <1>8, <1>9 DEF LabelsInv

(* The result says what the approval has reported. *)
LEMMA FinishKeeps ==
  ASSUME LabelsInv, NEW a \in Approvers, Labels!Finish(a)
  PROVE  LabelsInv'
  <1> PICK job \in Exports : job = approving[a]
    BY JobIs
  <1> PICK told \in Seq(ResultRows) : told = results
    BY DEF LabelsInv, LabelsTypeOK
  <1> PICK status : status = Labels!ResultStatus(job.outcomes)
    OBVIOUS
  <1>1. /\ job.pc # "rest" /\ Truthful(job.outcomes, job.landed)
        /\ job.row \in DOMAIN approvals /\ approvals[job.row].preview = job.preview
        /\ UNCHANGED <<issueLabels, author, previews, approvals, boundary, touches>>
    BY DEF Labels!Finish, Labels!github, LabelsInv, ExportsHold
  <1> DEFINE result == [row |-> job.row, preview |-> job.preview, status |-> status,
                        outcomes |-> job.outcomes, landed |-> job.landed]
  <1>2. results' = Append(told, result)
    BY DEF Labels!Finish, Labels!Result
  <1>3. result \in ResultRows
    <2>1. status \in {"applied", "partial", "failed"}
      BY DEF Labels!ResultStatus
    <2> QED
      BY <2>1 DEF ResultRows, Exports
  <1>4. /\ Truthful(result.outcomes, result.landed) /\ result.row \in DOMAIN approvals
        /\ approvals[result.row].preview = result.preview
    BY <1>1
  <1> HIDE DEF result
  <1>5. /\ results' \in Seq(ResultRows) /\ DOMAIN results' = DOMAIN told \cup {Len(told) + 1}
        /\ \A r \in DOMAIN told : results'[r] = told[r]
        /\ results'[Len(told) + 1] = result
    BY <1>2, <1>3
  <1>6. ResultsHold'
    BY <1>1, <1>4, <1>5 DEF LabelsInv, ResultsHold
  <1>7. approving' \in [Approvers -> Exports] /\ ApprovalsHold' /\ ExportsHold'
    <2> PICK next : next = [pc |-> "rest", row |-> 0, preview |-> 0, outcomes |-> <<>>,
                            landed |-> {}]
      OBVIOUS
    <2>1. /\ next \in Exports /\ next.pc = "rest" /\ Truthful(next.outcomes, next.landed)
          /\ next.landed \subseteq 1..Len(next.outcomes)
      BY DEF Exports, Truthful
    <2>2. approving' = [approving EXCEPT ![a] = next]
      BY DEF Labels!Finish, Labels!Resting
    <2> QED
      BY <1>1, <2>1, <2>2, JobGoesOn
  <1>8. LabelsTypeOK' /\ AuthorsHold'
    BY <1>1, <1>5, <1>7 DEF LabelsInv, LabelsTypeOK, AuthorsHold, WroteIt
  <1> QED
    BY <1>6, <1>7, <1>8 DEF LabelsInv

(* What GitHub was told stays told; nobody speaks of it. *)
LEMMA LoseKeeps == LabelsInv /\ Labels!Lose => LabelsInv'
  <1> SUFFICES ASSUME LabelsInv, Labels!Lose PROVE LabelsInv'
    OBVIOUS
  <1> PICK rest : rest = [pc |-> "rest", row |-> 0, preview |-> 0, outcomes |-> <<>>,
                          landed |-> {}]
    OBVIOUS
  <1>1. /\ rest \in Exports /\ rest.pc = "rest" /\ Truthful(rest.outcomes, rest.landed)
        /\ rest.landed \subseteq 1..Len(rest.outcomes)
    BY DEF Exports, Truthful
  <1>2. PICK lost : approving' = [a \in Approvers |-> IF a \in lost THEN rest ELSE approving[a]]
    BY DEF Labels!Lose, Labels!Resting
  <1>3. UNCHANGED <<issueLabels, author, previews, approvals, boundary, results, touches>>
    BY DEF Labels!Lose, Labels!github
  <1>4. \A a \in Approvers : approving'[a] \in {rest, approving[a]}
    BY <1>2
  <1>5. LabelsTypeOK'
    BY <1>1, <1>2, <1>3 DEF LabelsInv, LabelsTypeOK
  <1>6. ExportsHold'
    BY <1>1, <1>3, <1>4 DEF LabelsInv, ExportsHold
  <1>7. ApprovalsHold' /\ ResultsHold' /\ AuthorsHold'
    BY <1>3 DEF LabelsInv, ApprovalsHold, ResultsHold, AuthorsHold, WroteIt
  <1> QED
    BY <1>5, <1>6, <1>7 DEF LabelsInv

(* The owner takes the authorship of what is touched. *)
LEMMA OwnerKeeps == LabelsInv /\ Labels!OwnerTouches => LabelsInv'
  <1> SUFFICES ASSUME LabelsInv, Labels!OwnerTouches PROVE LabelsInv'
    OBVIOUS
  <1>1. PICK l \in Managed :
          /\ issueLabels' = IF l \in issueLabels THEN issueLabels \ {l} ELSE issueLabels \cup {l}
          /\ author' = [author EXCEPT ![l] = <<0, 0>>]
    BY DEF Labels!OwnerTouches, Labels!Owner
  <1>2. /\ touches' = touches + 1
        /\ UNCHANGED <<previews, approvals, boundary, approving, results>>
    BY DEF Labels!OwnerTouches
  <1>3. /\ issueLabels' \in SUBSET Managed /\ author' \in [Managed -> Nat \X Nat]
        /\ author'[l] = <<0, 0>>
        /\ \A k \in Managed \ {l} :
             author'[k] = author[k] /\ (k \in issueLabels' <=> k \in issueLabels)
    BY <1>1 DEF LabelsInv, LabelsTypeOK
  <1>4. LabelsTypeOK'
    BY <1>2, <1>3 DEF LabelsInv, LabelsTypeOK
  <1>5. ApprovalsHold' /\ ExportsHold' /\ ResultsHold'
    BY <1>2 DEF LabelsInv, ApprovalsHold, ExportsHold, ResultsHold
  <1>6. AuthorsHold'
    BY <1>2, <1>3 DEF LabelsInv, AuthorsHold, WroteIt
  <1> QED
    BY <1>4, <1>5, <1>6 DEF LabelsInv

(* Every step of the projection. *)
LEMMA LabelsStep == LabelsInv /\ [Labels!Next]_labelVars => LabelsInv'
  <1> SUFFICES ASSUME LabelsInv, [Labels!Next]_labelVars PROVE LabelsInv'
    OBVIOUS
  <1>1. CASE UNCHANGED <<issueLabels, author, previews, approvals, boundary, approving, results,
                         touches>>
    BY <1>1 DEF LabelsInv, LabelsTypeOK, ApprovalsHold, ExportsHold, ResultsHold, AuthorsHold,
       WroteIt
  <1>2. CASE UNCHANGED labelVars \/ Labels!Reconcile \/ Labels!AcceptExternal
    BY <1>1, <1>2 DEF labelVars, Labels!Reconcile, Labels!AcceptExternal, Labels!github
  <1>3. CASE Labels!Preview \/ Labels!Lose \/ Labels!OwnerTouches
    BY <1>3, PreviewKeeps, LoseKeeps, OwnerKeeps
  <1>4. CASE \E a \in Approvers :
               Labels!Approve(a) \/ Labels!Gate(a) \/ Labels!Export(a) \/ Labels!Finish(a)
    BY <1>4, ApproveKeeps, GateKeeps, ExportKeeps, FinishKeeps
  <1> QED
    BY <1>2, <1>3, <1>4 DEF Labels!Next

(* UbU changes GitHub by an export only. *)
LEMMA ExportsOnly ==
  ASSUME LabelsInv, Labels!Next, <<repoLabels, issueLabels>>' # <<repoLabels, issueLabels>>,
         touches' = touches
  PROVE  \E a \in Approvers :
           /\ Labels!Export(a) /\ Labels!Lands(a, Labels!Operations(a)[Labels!Here(a)])
  <1>1. touches \in Nat /\ touches + 1 # touches
    BY DEF LabelsInv, LabelsTypeOK
  <1>2. ~Labels!OwnerTouches
    BY <1>1 DEF Labels!OwnerTouches
  <1>3. \E a \in Approvers : Labels!Export(a)
    BY <1>2 DEF Labels!Next, Labels!Preview, Labels!Lose, Labels!Reconcile,
       Labels!AcceptExternal, Labels!Approve, Labels!Gate, Labels!Finish, Labels!github
  <1> QED
    BY <1>3 DEF Labels!Export, Labels!github

(* An export is of an approved preview that the policy accepts, and is in    *)
(* the log; it touches what its operation names.                             *)
LEMMA ExportIsLegitimate ==
  ASSUME LabelsInv, Labels!Next
  PROVE  Labels!LegitimateExport
  <1> SUFFICES ASSUME <<repoLabels, issueLabels>>' # <<repoLabels, issueLabels>>,
                      touches' = touches
               PROVE  \E a \in Approvers :
                        /\ Labels!Running(a) /\ approvals[approving[a].row].approved
                        /\ previews[approvals[approving[a].row].preview].legitimate
                        /\ <<approving[a].row, Labels!Here(a)>> \in boundary
                        /\ \A l \in Managed \ Labels!Operations(a)[Labels!Here(a)].labels :
                             l \in issueLabels' <=> l \in issueLabels
    BY DEF Labels!LegitimateExport
  <1>1. PICK a \in Approvers :
          /\ Labels!Export(a) /\ Labels!Lands(a, Labels!Operations(a)[Labels!Here(a)])
    BY ExportsOnly
  <1>2. approving[a].pc = "export" /\ UNCHANGED <<previews, approvals>>
    BY <1>1 DEF Labels!Export
  <1>3. /\ Labels!Running(a) /\ approvals[approving[a].row].approved
        /\ previews[approvals[approving[a].row].preview].legitimate
        /\ <<approving[a].row, Labels!Here(a)>> \in boundary
    BY <1>2 DEF LabelsInv, ExportsHold, Labels!Running, Labels!Here
  <1>4. \A l \in Managed \ Labels!Operations(a)[Labels!Here(a)].labels :
          l \in issueLabels' <=> l \in issueLabels
    BY <1>1, <1>2, LandsIsAuthored
  <1> QED
    BY <1>3, <1>4

(* What the last applied result did to a label is not what is seen, so       *)
(* somebody has written it since.                                            *)
LEMMA ConflictIsAuthored ==
  ASSUME LabelsInv, NEW r \in DOMAIN results, NEW i, NEW l, <<i, l>> \in Labels!Conflicts(r)
  PROVE  \/ previews[results[r].preview].operations[i].kind = "preflight"
         \/ results[r].outcomes[i] = "applied" /\ author[l] # <<results[r].row, i>>
  <1> PICK operations : operations = previews[results[r].preview].operations
    OBVIOUS
  <1> PICK row : row = results[r].row
    OBVIOUS
  <1>1. /\ l \in Managed /\ results[r].outcomes[i] = "applied" /\ l \in operations[i].labels
        /\ l \in issueLabels <=> operations[i].kind = "remove"
    BY DEF Labels!Conflicts, Labels!Compared
  <1>2. row \in DOMAIN approvals /\ approvals[row].preview = results[r].preview
    BY DEF LabelsInv, ResultsHold
  <1>3. ASSUME author[l] = <<row, i>> PROVE operations[i].kind = "preflight"
    <2>1. row # 0
      BY <1>2 DEF LabelsInv, LabelsTypeOK
    <2>2. author[l] # <<0, 0>> /\ author[l][1] = row /\ author[l][2] = i
      BY <1>3, <2>1
    <2>3. WroteIt(row, i, l)
      BY <1>1, <2>2 DEF LabelsInv, AuthorsHold
    <2>4. operations[i].kind # "preflight" /\ (l \in issueLabels <=> operations[i].kind = "apply")
      BY <1>2, <2>3 DEF WroteIt
    <2>5. operations[i].kind \in {"preflight", "apply", "remove"}
      <3>1. results[r].preview \in DOMAIN previews /\ previews \in Seq(PreviewRows)
        BY <1>2 DEF LabelsInv, ApprovalsHold, LabelsTypeOK
      <3>2. previews[results[r].preview] \in PreviewRows
        BY <3>1
      <3>3. operations \in Seq(LabelOps) /\ i \in DOMAIN operations
        BY <1>2, <2>3, <3>2 DEF PreviewRows, WroteIt
      <3>4. operations[i] \in LabelOps
        BY <3>3
      <3> QED
        BY <3>4 DEF LabelOps
    <2> QED
      BY <1>1, <2>4, <2>5
  <1> QED
    BY <1>1, <1>3

(* A verdict is a reconciliation's. *)
LEMMA VerdictIsAuthored ==
  ASSUME LabelsInv, Labels!Next
  PROVE  Labels!AuthoredConflict
  <1> SUFFICES ASSUME verdict' # verdict PROVE Labels!AuthoredConflict
    BY DEF Labels!AuthoredConflict
  <1>1. Labels!Reconcile
    BY DEF Labels!Next, Labels!Preview, Labels!Lose, Labels!OwnerTouches,
       Labels!AcceptExternal, Labels!Approve, Labels!Gate, Labels!Export, Labels!Finish
  <1>2. PICK r \in DOMAIN results : verdict' = [result |-> r, conflicts |-> Labels!Conflicts(r)]
    BY <1>1 DEF Labels!Reconcile, Labels!LastApplied
  <1>3. verdict'.result = r /\ verdict'.conflicts = Labels!Conflicts(r)
    BY <1>2
  <1>4. ASSUME NEW c \in Labels!Conflicts(r)
        PROVE  \/ previews[results[r].preview].operations[c[1]].kind = "preflight"
               \/ results[r].outcomes[c[1]] = "applied" /\ author[c[2]] # <<results[r].row, c[1]>>
    <2>1. c = <<c[1], c[2]>>
      BY DEF Labels!Conflicts
    <2> PICK i, l : i = c[1] /\ l = c[2]
      OBVIOUS
    <2>2. <<i, l>> \in Labels!Conflicts(r)
      BY <2>1
    <2> QED
      BY <2>2, ConflictIsAuthored
  <1> QED
    BY <1>3, <1>4 DEF Labels!AuthoredConflict

(* The invariant of the projection holds whichever service runs. *)
LEMMA ProjectionInvariant == ServicesSpec => []LabelsInv
  <1>1. ServicesInit => LabelsInv
    BY LabelsStart DEF ServicesInit
  <1>2. LabelsInv /\ [ServicesNext]_<<part, faults, vars, labelVars, importVars, seedVars, lockVars>>
          => LabelsInv'
    BY LabelsStep DEF ServicesNext
  <1> QED
    BY <1>1, <1>2, PTL DEF ServicesSpec

(* While the projection runs, a step that changes its state is its own.      *)
LEMMA ProjectionSteps ==
  [ServicesNext]_<<part, faults, vars, labelVars, importVars, seedVars, lockVars>>
    /\ part = "labels" => [Labels!Next]_labelVars
  BY DEF ServicesNext

(* projection_service.rs: a stored result is the truth about its calls, for  *)
(* every batch and however it ended.                                         *)
THEOREM ResultsAreTrue == ServicesSpec => []ReportedIsDone
  <1>1. LabelsInv => ReportedIsDone
    BY DEF LabelsInv, ResultsHold, Truthful, ReportedIsDone, Labels!ReportedIsDone
  <1> QED
    BY <1>1, ProjectionInvariant, PTL

(* projection_service.rs: UbU changes GitHub only by an operation of an      *)
(* approved preview whose export the policy accepts and whose boundary       *)
(* decision is in the log, and changes only what the operation names.        *)
THEOREM ExportsAreApproved == ServicesSpec => ExportsAreLegitimate
  <1>1. /\ LabelsInv
        /\ [ServicesNext]_<<part, faults, vars, labelVars, importVars, seedVars, lockVars>>
        => [part = "labels" => Labels!LegitimateExport]_labelVars
    BY ProjectionSteps, ExportIsLegitimate
  <1> QED
    BY <1>1, ProjectionInvariant, PTL DEF ServicesSpec, ExportsAreLegitimate

(* projection_service.rs: a conflict that a reconciliation reports on the    *)
(* issue is another hand's doing.                                            *)
THEOREM ConflictsAreForeign == ServicesSpec => ConflictsHaveAnAuthor
  <1>1. /\ LabelsInv
        /\ [ServicesNext]_<<part, faults, vars, labelVars, importVars, seedVars, lockVars>>
        => [part = "labels" => Labels!AuthoredConflict]_labelVars
    BY ProjectionSteps, VerdictIsAuthored
  <1> QED
    BY <1>1, ProjectionInvariant, PTL DEF ServicesSpec, ConflictsHaveAnAuthor

-----------------------------------------------------------------------------
(* The quick UbU import *)

SameObject(a, b) == a.type = b.type /\ a.source = b.source

(* An id was minted for one object of one type. *)
IdOf(id, type, source) == \E n : id = <<type, source, n>>

IsRoutine(p) ==
  /\ p = [rule |-> p.rule, scheduleVersion |-> p.scheduleVersion,
          templateVersion |-> p.templateVersion, template |-> p.template]
  /\ p.scheduleVersion \in Nat /\ p.templateVersion \in Nat

IsSwitch(p) == p = [order |-> p.order, enabled |-> p.enabled, pair |-> p.pair]

PayloadOf(type, p) ==
  /\ type = "Objective" => IsRoutine(p)
  /\ type = "Preference" => IsSwitch(p)

Row(id, type, source, version, status, payload) ==
  [id |-> id, type |-> type, source |-> source, version |-> version, status |-> status,
   payload |-> payload]

IsRow(r) ==
  /\ r = Row(r.id, r.type, r.source, r.version, r.status, r.payload)
  /\ r.version \in Nat /\ IdOf(r.id, r.type, r.source) /\ PayloadOf(r.type, r.payload)

OneEach(S) == \A a, b \in S : SameObject(a, b) => a = b

RowsHold == (\A r \in rows : IsRow(r)) /\ OneEach(rows)

(* What a counter has stood for is behind the routine, or what it is. *)
Behind(p, part_, counter, content) ==
  p[2] = part_ /\ p[3] \in Nat /\ p[3] <= counter /\ (p[3] = counter => p[4] = content)

BehindRow(p, r) ==
  /\ r.type = "Objective" /\ r.id = p[1]
  /\ \/ Behind(p, "schedule", r.payload.scheduleVersion, r.payload.rule)
     \/ Behind(p, "template", r.payload.templateVersion, r.payload.template)

OneContent(P) == \A p, q \in P : p[1] = q[1] /\ p[2] = q[2] /\ p[3] = q[3] => p[4] = q[4]

PublishedHold ==
  /\ \A p \in published : \E r \in rows : BehindRow(p, r)
  /\ OneContent(published)

(* A row that was read is behind the store's, or still the one there. *)
ReadBefore(E) ==
  \A k \in E : /\ IsRow(k)
               /\ \A r \in rows : r.id = k.id => /\ k.version <= r.version
                                                 /\ k.version = r.version => r = k

(* What is still to be written was read, or is nowhere in the store. *)
ToWrite(E, T) ==
  \A m \in T : /\ IdOf(m.id, m.type, m.source) /\ PayloadOf(m.type, m.payload)
               /\ \A k \in E : SameObject(k, m) => m.id = k.id
               /\ (\A k \in E : ~ SameObject(k, m)) => \A r \in rows : ~ SameObject(r, m)

IsImport(j) == j = [pc |-> j.pc, file |-> j.file, existing |-> j.existing, todo |-> j.todo]

RunHolds(i) ==
  importJob[i].pc = "write" =>
    /\ importLock = i
    /\ ReadBefore(importJob[i].existing) /\ OneEach(importJob[i].existing)
    /\ ToWrite(importJob[i].existing, importJob[i].todo) /\ OneEach(importJob[i].todo)

RunsHold ==
  /\ importJob = [i \in Importers |-> importJob[i]]
  /\ \A i \in Importers : IsImport(importJob[i]) /\ RunHolds(i)

ImportsInv == RowsHold /\ PublishedHold /\ RunsHold /\ userActs \in Nat

(* An id says whose it is. *)
LEMMA ObjectOfId ==
  ASSUME NEW id, NEW t, NEW s, NEW u, NEW v, IdOf(id, t, s), IdOf(id, u, v)
  PROVE  t = u /\ s = v
  BY DEF IdOf

LEMMA SameIdSameObject ==
  ASSUME NEW a, NEW b, IsRow(a), IsRow(b), a.id = b.id
  PROVE  SameObject(a, b)
  BY ObjectOfId DEF IsRow, SameObject

(* A counter that moves exactly when its content does keeps its promise. *)
Advances(old, new) ==
  /\ old.scheduleVersion <= new.scheduleVersion
  /\ old.scheduleVersion = new.scheduleVersion => old.rule = new.rule
  /\ old.templateVersion <= new.templateVersion
  /\ old.templateVersion = new.templateVersion => old.template = new.template

LEMMA RevisedAdvances ==
  ASSUME NEW old, NEW new, IsRoutine(old), IsRoutine(new)
  PROVE  IsRoutine(Snapshot!Revised(old, new)) /\ Advances(old, Snapshot!Revised(old, new))
  <1> DEFINE schedule == Snapshot!Counter(old.rule, new.rule, old.scheduleVersion)
             template == Snapshot!Counter(old.template, new.template, old.templateVersion)
  <1>1. /\ schedule \in Nat /\ old.scheduleVersion <= schedule
        /\ old.scheduleVersion = schedule => old.rule = new.rule
    BY DEF Snapshot!Counter, IsRoutine
  <1>2. /\ template \in Nat /\ old.templateVersion <= template
        /\ old.templateVersion = template => old.template = new.template
    BY DEF Snapshot!Counter, IsRoutine
  <1>3. Snapshot!Revised(old, new) =
          [new EXCEPT !.scheduleVersion = schedule, !.templateVersion = template]
    BY DEF Snapshot!Revised
  <1> HIDE DEF schedule, template
  <1>4. PICK rule, v, w, t :
          new = [rule |-> rule, scheduleVersion |-> v, templateVersion |-> w, template |-> t]
    BY DEF IsRoutine
  <1>5. Snapshot!Revised(old, new) =
          [rule |-> rule, scheduleVersion |-> schedule, templateVersion |-> template,
           template |-> t]
    BY <1>3, <1>4
  <1> QED
    BY <1>1, <1>2, <1>4, <1>5 DEF IsRoutine, Advances

(* What a row publishes is behind the row, and agrees with what was. *)
LEMMA PublishedOf ==
  ASSUME NEW r, IsRow(r), NEW p \in Snapshot!Publish(r)
  PROVE  BehindRow(p, r)
  <1>1. r.type = "Objective" /\ IsRoutine(r.payload)
    BY DEF Snapshot!Publish, IsRow, PayloadOf
  <1>2. \/ p = <<r.id, "schedule", r.payload.scheduleVersion, r.payload.rule>>
        \/ p = <<r.id, "template", r.payload.templateVersion, r.payload.template>>
    BY <1>1 DEF Snapshot!Publish
  <1>3. r.payload.scheduleVersion \in Nat /\ r.payload.templateVersion \in Nat
    BY <1>1 DEF IsRoutine
  <1> QED
    BY <1>1, <1>2, <1>3 DEF BehindRow, Behind

(* Two publications of one number are of one content, if a row is at one of *)
(* them and the other is behind it.                                         *)
LEMMA PublishedAgree ==
  ASSUME NEW r, IsRow(r), NEW p \in Snapshot!Publish(r), NEW q, BehindRow(q, r),
         p[1] = q[1], p[2] = q[2], p[3] = q[3]
  PROVE  p[4] = q[4]
  <1>1. r.type = "Objective"
    BY DEF Snapshot!Publish
  <1>2. \/ p = <<r.id, "schedule", r.payload.scheduleVersion, r.payload.rule>>
        \/ p = <<r.id, "template", r.payload.templateVersion, r.payload.template>>
    BY <1>1 DEF Snapshot!Publish
  <1> QED
    BY <1>2 DEF BehindRow, Behind

(* A row that moves on takes what was behind it along. *)
LEMMA BehindMovesOn ==
  ASSUME NEW old, NEW new, IsRow(old), IsRow(new), old.id = new.id, old.type = new.type,
         old.type = "Objective" => Advances(old.payload, new.payload),
         NEW p, BehindRow(p, old)
  PROVE  BehindRow(p, new)
  <1>1. /\ Advances(old.payload, new.payload)
        /\ IsRoutine(old.payload) /\ IsRoutine(new.payload)
    BY DEF BehindRow, IsRow, PayloadOf
  <1>2. CASE Behind(p, "schedule", old.payload.scheduleVersion, old.payload.rule)
    <2>1. Behind(p, "schedule", new.payload.scheduleVersion, new.payload.rule)
      BY <1>1, <1>2 DEF Behind, Advances, IsRoutine
    <2> QED
      BY <2>1 DEF BehindRow
  <1>3. CASE Behind(p, "template", old.payload.templateVersion, old.payload.template)
    <2>1. Behind(p, "template", new.payload.templateVersion, new.payload.template)
      BY <1>1, <1>3 DEF Behind, Advances, IsRoutine
    <2> QED
      BY <2>1 DEF BehindRow
  <1> QED
    BY <1>2, <1>3 DEF BehindRow

(* A row is written over, or put where its object has none. *)
Rewrites(old, new) ==
  /\ old \in rows /\ IsRow(new) /\ SameObject(old, new) /\ new.id = old.id
  /\ new.version = old.version + 1
  /\ old.type = "Objective" => Advances(old.payload, new.payload)
  /\ rows' = (rows \ {old}) \cup {new}
  /\ published' = published \cup Snapshot!Publish(new)

Adds(new) ==
  /\ IsRow(new) /\ \A r \in rows : ~ SameObject(r, new)
  /\ rows' = rows \cup {new}
  /\ published' = published \cup Snapshot!Publish(new)

LEMMA RewriteKeepsRows ==
  ASSUME RowsHold, NEW old, NEW new, Rewrites(old, new)
  PROVE  RowsHold'
  <1>1. \A r \in rows' : IsRow(r)
    BY DEF Rewrites, RowsHold
  <1>2. ASSUME NEW a \in rows', NEW b \in rows', SameObject(a, b)  PROVE a = b
    BY <1>2 DEF Rewrites, RowsHold, OneEach, SameObject
  <1> QED
    BY <1>1, <1>2 DEF RowsHold, OneEach

LEMMA RewriteKeepsPublished ==
  ASSUME RowsHold, PublishedHold, NEW old, NEW new, Rewrites(old, new)
  PROVE  PublishedHold'
  <1>1. IsRow(old) /\ IsRow(new) /\ new \in rows' /\ \A r \in rows \ {old} : r \in rows'
    BY DEF Rewrites, RowsHold
  <1>2. \A p : BehindRow(p, old) => BehindRow(p, new)
    BY <1>1, BehindMovesOn DEF Rewrites, SameObject
  <1>3. \A p \in Snapshot!Publish(new) : BehindRow(p, new)
    BY <1>1, PublishedOf
  <1>4. \A p \in published' : \E r \in rows' : BehindRow(p, r)
    BY <1>1, <1>2, <1>3 DEF Rewrites, PublishedHold
  <1>5. ASSUME NEW q \in published, q[1] = new.id  PROVE BehindRow(q, new)
    <2>1. PICK r \in rows : BehindRow(q, r)
      BY DEF PublishedHold
    <2>2. r.id = old.id
      BY <1>5, <2>1 DEF BehindRow, Rewrites
    <2>3. SameObject(r, old)
      BY <1>1, <2>2, SameIdSameObject DEF RowsHold
    <2>4. r = old
      BY <2>3 DEF RowsHold, OneEach, Rewrites
    <2> QED
      BY <1>2, <2>1, <2>4
  <1>6. \A p \in Snapshot!Publish(new) : p[1] = new.id
    BY <1>3 DEF BehindRow
  <1>7. ASSUME NEW p \in published', NEW q \in published', p[1] = q[1], p[2] = q[2], p[3] = q[3]
        PROVE  p[4] = q[4]
    <2>1. CASE p \in Snapshot!Publish(new)
      <3>1. BehindRow(q, new)
        BY <1>3, <1>5, <1>6, <1>7, <2>1 DEF Rewrites
      <3> QED
        BY <1>1, <1>7, <2>1, <3>1, PublishedAgree
    <2>2. CASE q \in Snapshot!Publish(new)
      <3>1. BehindRow(p, new)
        BY <1>3, <1>5, <1>6, <1>7, <2>2 DEF Rewrites
      <3>2. q[4] = p[4]
        BY <1>1, <1>7, <2>2, <3>1, PublishedAgree
      <3> QED
        BY <3>2
    <2>3. CASE p \in published /\ q \in published
      BY <1>7, <2>3 DEF PublishedHold, OneContent
    <2> QED
      BY <1>7, <2>1, <2>2, <2>3 DEF Rewrites
  <1> QED
    BY <1>4, <1>7 DEF PublishedHold, OneContent

LEMMA AddKeepsRows ==
  ASSUME RowsHold, NEW new, Adds(new)
  PROVE  RowsHold'
  <1>1. \A r \in rows' : IsRow(r)
    BY DEF Adds, RowsHold
  <1>2. ASSUME NEW a \in rows', NEW b \in rows', SameObject(a, b)  PROVE a = b
    BY <1>2 DEF Adds, RowsHold, OneEach, SameObject
  <1> QED
    BY <1>1, <1>2 DEF RowsHold, OneEach

LEMMA AddKeepsPublished ==
  ASSUME RowsHold, PublishedHold, NEW new, Adds(new)
  PROVE  PublishedHold'
  <1>1. IsRow(new) /\ new \in rows' /\ rows \subseteq rows'
    BY DEF Adds
  <1>2. \A p \in Snapshot!Publish(new) : BehindRow(p, new)
    BY <1>1, PublishedOf
  <1>3. \A p \in published' : \E r \in rows' : BehindRow(p, r)
    BY <1>1, <1>2 DEF Adds, PublishedHold
  <1>4. ASSUME NEW q \in published  PROVE q[1] # new.id
    <2>1. PICK r \in rows : BehindRow(q, r)
      BY DEF PublishedHold
    <2>2. r.id # new.id
      BY <1>1, SameIdSameObject DEF Adds, RowsHold
    <2> QED
      BY <2>1, <2>2 DEF BehindRow
  <1>5. \A p \in Snapshot!Publish(new) : p[1] = new.id
    BY <1>2 DEF BehindRow
  <1>6. ASSUME NEW p \in published', NEW q \in published', p[1] = q[1], p[2] = q[2], p[3] = q[3]
        PROVE  p[4] = q[4]
    <2>1. CASE p \in Snapshot!Publish(new)
      <3>1. BehindRow(q, new)
        BY <1>2, <1>4, <1>5, <1>6, <2>1 DEF Adds
      <3> QED
        BY <1>1, <1>6, <2>1, <3>1, PublishedAgree
    <2>2. CASE p \in published /\ q \in published
      BY <1>6, <2>2 DEF PublishedHold, OneContent
    <2>3. CASE p \in published /\ q \in Snapshot!Publish(new)
      BY <1>4, <1>5, <1>6, <2>3
    <2> QED
      BY <1>6, <2>1, <2>2, <2>3 DEF Adds
  <1> QED
    BY <1>3, <1>6 DEF PublishedHold, OneContent

(* What a run read, and has still to write, outlasts both. *)
LEMMA RewriteKeepsRuns ==
  ASSUME RowsHold, NEW old, NEW new, Rewrites(old, new), NEW E, NEW T
  PROVE  /\ ReadBefore(E) => ReadBefore(E)'
         /\ ToWrite(E, T) => ToWrite(E, T)'
  <1>1. IsRow(old) /\ IsRow(new)
    BY DEF Rewrites, RowsHold
  <1>2. old.version \in Nat /\ new.version = old.version + 1
    BY <1>1 DEF IsRow, Rewrites
  <1>3. ASSUME ReadBefore(E), NEW k \in E, NEW r \in rows', r.id = k.id
        PROVE  k.version <= r.version /\ (k.version = r.version => r = k)
    <2>1. CASE r \in rows
      BY <1>3, <2>1 DEF ReadBefore
    <2>2. CASE r = new
      <3>1. old.id = k.id /\ old \in rows
        BY <1>3, <2>2 DEF Rewrites
      <3>2. k.version <= old.version /\ k.version \in Nat
        BY <1>3, <3>1 DEF ReadBefore, IsRow
      <3> QED
        BY <1>2, <2>2, <3>2
    <2> QED
      BY <2>1, <2>2 DEF Rewrites
  <1>4. ReadBefore(E) => ReadBefore(E)'
    BY <1>3 DEF ReadBefore
  <1>5. ASSUME NEW m, \A r \in rows : ~ SameObject(r, m), NEW r \in rows'
        PROVE  ~ SameObject(r, m)
    BY <1>5 DEF Rewrites, SameObject
  <1>6. ToWrite(E, T) => ToWrite(E, T)'
    BY <1>5 DEF ToWrite
  <1> QED
    BY <1>4, <1>6

LEMMA AddKeepsRuns ==
  ASSUME RowsHold, NEW new, Adds(new), NEW E, NEW T, NEW m \in T,
         SameObject(m, new), new.id = m.id,
         \A k \in E : ~ SameObject(k, m),
         ReadBefore(E), ToWrite(E, T), OneEach(T)
  PROVE  ReadBefore(E)' /\ ToWrite(E, T \ {m})'
  <1>1. ASSUME NEW k \in E, NEW r \in rows', r.id = k.id
        PROVE  k.version <= r.version /\ (k.version = r.version => r = k)
    <2>1. CASE r \in rows
      BY <1>1, <2>1 DEF ReadBefore
    <2>2. CASE r = new
      <3>1. IsRow(k) /\ IsRow(new)
        BY DEF ReadBefore, Adds
      <3>2. SameObject(k, new)
        BY <1>1, <2>2, <3>1, SameIdSameObject
      <3> QED
        BY <3>2 DEF SameObject
    <2> QED
      BY <2>1, <2>2 DEF Adds
  <1>2. ReadBefore(E)'
    BY <1>1 DEF ReadBefore
  <1>3. ASSUME NEW n \in T \ {m}, \A k \in E : ~ SameObject(k, n), NEW r \in rows'
        PROVE  ~ SameObject(r, n)
    <2>1. CASE r \in rows
      BY <1>3, <2>1 DEF ToWrite
    <2>2. CASE r = new
      <3>1. ~ SameObject(m, n)
        BY <1>3 DEF OneEach
      <3> QED
        BY <2>2, <3>1 DEF SameObject
    <2> QED
      BY <2>1, <2>2 DEF Adds
  <1>4. ToWrite(E, T \ {m})'
    BY <1>3 DEF ToWrite
  <1> QED
    BY <1>2, <1>4

(* A row with one field changed. *)
LEMMA RowFields ==
  ASSUME NEW r, NEW id, NEW type, NEW source, NEW version, NEW status, NEW payload,
         r = Row(id, type, source, version, status, payload), NEW x
  PROVE  /\ [r EXCEPT !.version = x] = Row(id, type, source, x, status, payload)
         /\ [r EXCEPT !.status = x] = Row(id, type, source, version, x, payload)
         /\ [r EXCEPT !.payload = x] = Row(id, type, source, version, status, x)
  <1>1. [r EXCEPT !.version = x] = Row(id, type, source, x, status, payload)
    BY DEF Row
  <1>2. [r EXCEPT !.status = x] = Row(id, type, source, version, x, payload)
    BY DEF Row
  <1>3. [r EXCEPT !.payload = x] = Row(id, type, source, version, status, x)
    BY DEF Row
  <1> QED
    BY <1>1, <1>2, <1>3

LEMMA RowChanged ==
  ASSUME NEW r, IsRow(r), NEW x
  PROVE  /\ [r EXCEPT !.status = x] = Row(r.id, r.type, r.source, r.version, x, r.payload)
         /\ [r EXCEPT !.payload = x] = Row(r.id, r.type, r.source, r.version, r.status, x)
  <1>1. PICK id, type, source, version, status, payload :
          /\ id = r.id /\ type = r.type /\ source = r.source
          /\ version = r.version /\ status = r.status /\ payload = r.payload
    OBVIOUS
  <1>2. r = Row(id, type, source, version, status, payload)
    BY <1>1 DEF IsRow
  <1>3. /\ [r EXCEPT !.status = x] = Row(id, type, source, version, x, payload)
        /\ [r EXCEPT !.payload = x] = Row(id, type, source, version, status, x)
    BY <1>2, RowFields
  <1> QED
    BY <1>1, <1>3

(* A row with another status and payload, one version on. *)
LEMMA RowMovesOn ==
  ASSUME NEW r, IsRow(r), NEW status, NEW payload, PayloadOf(r.type, payload), NEW new,
         new = Row(r.id, r.type, r.source, r.version + 1, status, payload)
  PROVE  IsRow(new) /\ SameObject(r, new) /\ new.id = r.id /\ new.version = r.version + 1
  <1>1. /\ new.id = r.id /\ new.type = r.type /\ new.source = r.source
        /\ new.version = r.version + 1 /\ new.status = status /\ new.payload = payload
    BY DEF Row
  <1>3. new = Row(new.id, new.type, new.source, new.version, new.status, new.payload)
    BY <1>1
  <1>2. r.version + 1 \in Nat
    BY DEF IsRow
  <1> QED
    BY <1>1, <1>2, <1>3 DEF IsRow, SameObject

(* What the operator's requests make of a row. *)
LEMMA ChangeRewrites ==
  ASSUME RowsHold, NEW r \in rows, NEW status, NEW payload, PayloadOf(r.type, payload),
         r.type = "Objective" => Advances(r.payload, payload),
         NEW changed, changed = Row(r.id, r.type, r.source, r.version, status, payload),
         Snapshot!Change(r, changed)
  PROVE  \E new : Rewrites(r, new)
  <1>1. IsRow(r)
    BY DEF RowsHold
  <1>4. PICK new : new = Row(r.id, r.type, r.source, r.version + 1, status, payload)
    OBVIOUS
  <1>5. [changed EXCEPT !.version = r.version + 1] = new
    BY <1>4, RowFields
  <1>6. Snapshot!Publish(changed) = Snapshot!Publish(new)
    <2>1. changed.id = new.id /\ changed.type = new.type /\ changed.payload = new.payload
      BY <1>4 DEF Row
    <2> QED
      BY <2>1 DEF Snapshot!Publish
  <1>7. rows' = (rows \ {r}) \cup {new} /\ published' = published \cup Snapshot!Publish(new)
    BY <1>5, <1>6 DEF Snapshot!Change
  <1>8. IsRow(new) /\ SameObject(r, new) /\ new.id = r.id /\ new.version = r.version + 1
    BY <1>1, <1>4, RowMovesOn
  <1>9. new.payload = payload
    BY <1>4 DEF Row
  <1> QED
    BY <1>7, <1>8, <1>9 DEF Rewrites

LEMMA TaskActRewrites ==
  ASSUME RowsHold, NEW r \in rows, Snapshot!ActOnTask(r)
  PROVE  \E new : Rewrites(r, new)
  <1>1. r.type = "Task" /\ IsRow(r)
    BY DEF Snapshot!ActOnTask, RowsHold
  <1>2. \A payload : PayloadOf(r.type, payload)
    BY <1>1 DEF PayloadOf
  <1>4. CASE Snapshot!Change(r, [r EXCEPT !.status = "completed"])
    <2>1. PICK changed : changed = [r EXCEPT !.status = "completed"]
      OBVIOUS
    <2>2. changed = Row(r.id, r.type, r.source, r.version, "completed", r.payload)
      BY <1>1, <2>1, RowChanged
    <2>3. Snapshot!Change(r, changed)
      BY <1>4, <2>1
    <2> QED
      BY <1>1, <1>2, <2>2, <2>3, ChangeRewrites
  <1>5. CASE Snapshot!Change(r, [r EXCEPT !.payload.body = "mine"])
    <2>1. PICK changed : changed = [r EXCEPT !.payload.body = "mine"]
      OBVIOUS
    <2>2. PICK payload : payload = [r.payload EXCEPT !.body = "mine"]
      OBVIOUS
    <2>3. changed = [r EXCEPT !.payload = payload]
      BY <2>1, <2>2
    <2>4. changed = Row(r.id, r.type, r.source, r.version, r.status, payload)
      BY <1>1, <2>3, RowChanged
    <2>5. Snapshot!Change(r, changed)
      BY <1>5, <2>1
    <2> QED
      BY <1>1, <1>2, <2>4, <2>5, ChangeRewrites
  <1> QED
    BY <1>4, <1>5 DEF Snapshot!ActOnTask

LEMMA OtherActRewrites ==
  ASSUME RowsHold, NEW r \in rows, Snapshot!ActOnOther(r)
  PROVE  \E new : Rewrites(r, new)
  <1>1. IsRow(r) /\ PayloadOf(r.type, r.payload)
    BY DEF RowsHold, IsRow
  <1>3. CASE r.type = "Preference" /\ Snapshot!Change(r, [r EXCEPT !.payload.enabled = FALSE])
    <2>1. PICK changed : changed = [r EXCEPT !.payload.enabled = FALSE]
      OBVIOUS
    <2>2. PICK order, on, pair : r.payload = [order |-> order, enabled |-> on, pair |-> pair]
      BY <1>1, <1>3 DEF PayloadOf, IsSwitch
    <2> PICK off : off = FALSE
      OBVIOUS
    <2>3. PICK payload : payload = [order |-> order, enabled |-> off, pair |-> pair]
      OBVIOUS
    <2>4. [r.payload EXCEPT !.enabled = off] = payload
      BY <2>2, <2>3
    <2>5. changed = [r EXCEPT !.payload = payload]
      BY <2>1, <2>4
    <2>6. changed = Row(r.id, r.type, r.source, r.version, r.status, payload)
      BY <1>1, <2>5, RowChanged
    <2>7. PayloadOf(r.type, payload)
      BY <1>3, <2>3 DEF PayloadOf, IsSwitch
    <2>8. Snapshot!Change(r, changed)
      BY <1>3, <2>1
    <2> QED
      BY <1>3, <2>6, <2>7, <2>8, ChangeRewrites
  <1>4. CASE r.type = "Objective" /\ Snapshot!Change(r, [r EXCEPT !.status = "paused"])
    <2>1. PICK changed : changed = [r EXCEPT !.status = "paused"]
      OBVIOUS
    <2>2. changed = Row(r.id, r.type, r.source, r.version, "paused", r.payload)
      BY <1>1, <2>1, RowChanged
    <2>3. Advances(r.payload, r.payload)
      BY <1>1, <1>4 DEF PayloadOf, IsRoutine, Advances
    <2>4. Snapshot!Change(r, changed)
      BY <1>4, <2>1
    <2> QED
      BY <1>1, <1>4, <2>2, <2>3, <2>4, ChangeRewrites
  <1>5. ASSUME NEW template, r.type = "Objective",
               Snapshot!Change(r, [r EXCEPT !.payload = Snapshot!Revised(r.payload,
                                              [r.payload EXCEPT !.template = template])])
        PROVE  \E new : Rewrites(r, new)
    <2>1. PICK edited : edited = [r.payload EXCEPT !.template = template]
      OBVIOUS
    <2>2. IsRoutine(r.payload)
      BY <1>1, <1>5 DEF PayloadOf
    <2>3. IsRoutine(edited)
      <3>1. PICK rule, v, w, t :
              /\ r.payload = [rule |-> rule, scheduleVersion |-> v, templateVersion |-> w,
                              template |-> t]
              /\ v \in Nat /\ w \in Nat
        BY <2>2 DEF IsRoutine
      <3>2. edited = [rule |-> rule, scheduleVersion |-> v, templateVersion |-> w,
                      template |-> template]
        BY <2>1, <3>1
      <3> QED
        BY <3>1, <3>2 DEF IsRoutine
    <2>4. PICK payload : payload = Snapshot!Revised(r.payload, edited)
      OBVIOUS
    <2>5. IsRoutine(payload) /\ Advances(r.payload, payload)
      BY <2>2, <2>3, <2>4, RevisedAdvances
    <2>6. PICK changed : changed = [r EXCEPT !.payload = payload]
      OBVIOUS
    <2>7. changed = Row(r.id, r.type, r.source, r.version, r.status, payload)
      BY <1>1, <2>6, RowChanged
    <2>8. PayloadOf(r.type, payload)
      BY <1>5, <2>5 DEF PayloadOf
    <2>9. Snapshot!Change(r, changed)
      BY <1>5, <2>1, <2>4, <2>6
    <2> QED
      BY <2>5, <2>7, <2>8, <2>9, ChangeRewrites
  <1> QED
    BY <1>3, <1>4, <1>5 DEF Snapshot!ActOnOther

(* While a run writes it has the lock, and no other one does. *)
LEMMA WriterHasLock ==
  ASSUME RunsHold, NEW i \in Importers, importJob[i].pc = "write"
  PROVE  importLock = i /\ importLock # Snapshot!Nobody
  BY ImportConstants DEF RunsHold, RunHolds, Snapshot!Nobody

LEMMA OperateKeeps ==
  ASSUME ImportsInv, Snapshot!Operate
  PROVE  ImportsInv'
  <1>1. PICK r \in rows : Snapshot!ActOnTask(r) \/ Snapshot!ActOnOther(r)
    BY DEF Snapshot!Operate
  <1>2. PICK new : Rewrites(r, new)
    BY <1>1, TaskActRewrites, OtherActRewrites DEF ImportsInv
  <1>3. RowsHold' /\ PublishedHold'
    BY <1>2, RewriteKeepsRows, RewriteKeepsPublished DEF ImportsInv
  <1>4. UNCHANGED <<importLock, importJob>> /\ userActs' \in Nat
    BY DEF Snapshot!Operate, ImportsInv
  <1>5. ASSUME NEW i \in Importers  PROVE RunHolds(i)'
    <2>1. SUFFICES ASSUME importJob[i].pc = "write" PROVE RunHolds(i)'
      BY <1>4 DEF RunHolds
    <2>2. PICK E, T : E = importJob[i].existing /\ T = importJob[i].todo
      OBVIOUS
    <2>3. importLock = i /\ ReadBefore(E) /\ OneEach(E) /\ ToWrite(E, T) /\ OneEach(T)
      BY <2>1, <2>2 DEF ImportsInv, RunsHold, RunHolds
    <2>4. ReadBefore(E)' /\ ToWrite(E, T)'
      BY <1>2, <2>3, RewriteKeepsRuns DEF ImportsInv
    <2>5. OneEach(E)' /\ OneEach(T)'
      BY <2>3 DEF OneEach
    <2> QED
      BY <1>4, <2>2, <2>3, <2>4, <2>5 DEF RunHolds, ReadBefore, ToWrite, OneEach
  <1> QED
    BY <1>3, <1>4, <1>5 DEF ImportsInv, RunsHold

(* What was read of a source object is one row, whose id its mapping bears. *)
LEMMA KnownIs ==
  ASSUME NEW E, OneEach(E), NEW m, NEW k \in E, SameObject(k, m)
  PROVE  /\ Snapshot!Known(E, m.type, m.source) = {k}
         /\ (CHOOSE r \in Snapshot!Known(E, m.type, m.source) : TRUE) = k
  <1>1. Snapshot!Known(E, m.type, m.source) = {k}
    BY DEF Snapshot!Known, OneEach, SameObject
  <1>2. (CHOOSE r \in {k} : TRUE) = k
    OBVIOUS
  <1> QED
    BY <1>1, <1>2

LEMMA KnownNot ==
  ASSUME NEW E, NEW m
  PROVE  Snapshot!Known(E, m.type, m.source) = {} <=> \A k \in E : ~ SameObject(k, m)
  BY DEF Snapshot!Known, SameObject

LEMMA IdForIs ==
  ASSUME RowsHold, NEW type, NEW source, NEW run, NEW id,
         id = Snapshot!IdFor(Snapshot!Existing, type, source, run)
  PROVE  /\ IdOf(id, type, source)
         /\ \A k \in Snapshot!Existing : k.type = type /\ k.source = source => id = k.id
  <1> PICK known : known = Snapshot!Known(Snapshot!Existing, type, source)
    OBVIOUS
  <1>1. known \subseteq rows /\ \A k \in known : k.type = type /\ k.source = source
    BY DEF Snapshot!Known, Snapshot!Existing
  <1>2. \A k \in Snapshot!Existing : k.type = type /\ k.source = source => k \in known
    BY DEF Snapshot!Known
  <1>3. CASE known = {}
    <2>1. id = <<type, source, run>>
      BY <1>3 DEF Snapshot!IdFor
    <2> QED
      BY <1>2, <1>3, <2>1 DEF IdOf
  <1>4. CASE known # {}
    <2>1. PICK k \in known : id = k.id
      <3>1. (CHOOSE r \in known : TRUE) \in known
        BY <1>4
      <3> QED
        BY <1>4, <3>1 DEF Snapshot!IdFor
    <2>2. IsRow(k)
      BY <1>1 DEF RowsHold
    <2>3. \A l \in known : l = k
      BY <1>1 DEF RowsHold, OneEach, SameObject
    <2> QED
      BY <1>1, <1>2, <2>1, <2>2, <2>3 DEF IsRow
  <1> QED
    BY <1>3, <1>4

(* Each kind of mapping is what its source object says. *)
LEMMA RoutineMappingIs ==
  ASSUME RowsHold, NEW s \in Snapshots, NEW r \in Snapshot!MappedRoutines(s), NEW run, NEW m,
         m = Snapshot!RoutineMapping(s, r, Snapshot!Existing, run)
  PROVE  /\ m.type = "Objective" /\ m.source = r /\ r # "native"
         /\ IdOf(m.id, m.type, m.source) /\ PayloadOf(m.type, m.payload)
         /\ \A k \in Snapshot!Existing : SameObject(k, m) => m.id = k.id
  <1>1. m.type = "Objective" /\ m.source = r
    BY DEF Snapshot!RoutineMapping, Snapshot!Mapping
  <1>2. m.id = Snapshot!IdFor(Snapshot!Existing, "Objective", r, run)
    BY DEF Snapshot!RoutineMapping, Snapshot!Mapping
  <1>3. m.payload = [rule |-> s.routines[r].rule, scheduleVersion |-> 1, templateVersion |-> 1,
                     template |-> Snapshot!Resolved(Snapshot!Template(s, r),
                                                    Snapshot!Existing, run)]
    BY DEF Snapshot!RoutineMapping, Snapshot!Mapping
  <1>4. IsRoutine(m.payload)
    BY <1>3 DEF IsRoutine
  <1>5. r # "native"
    BY ImportConstants DEF Snapshot!MappedRoutines
  <1>6. IdOf(m.id, "Objective", r)
    BY <1>2, IdForIs
  <1>7. \A k \in Snapshot!Existing : k.type = "Objective" /\ k.source = r => m.id = k.id
    BY <1>2, IdForIs
  <1> QED
    BY <1>1, <1>4, <1>5, <1>6, <1>7 DEF PayloadOf, SameObject

LEMMA TaskMappingIs ==
  ASSUME RowsHold, NEW s \in Snapshots, NEW t, NEW run, NEW m,
         m = Snapshot!TaskMapping(s, t, Snapshot!Existing, run)
  PROVE  /\ m.type = "Task" /\ m.source = t
         /\ IdOf(m.id, m.type, m.source) /\ PayloadOf(m.type, m.payload)
         /\ \A k \in Snapshot!Existing : SameObject(k, m) => m.id = k.id
  <1>1. m.type = "Task" /\ m.source = t
    BY DEF Snapshot!TaskMapping, Snapshot!Mapping
  <1>2. m.id = Snapshot!IdFor(Snapshot!Existing, "Task", t, run)
    BY DEF Snapshot!TaskMapping, Snapshot!Mapping
  <1>3. IdOf(m.id, "Task", t)
    BY <1>2, IdForIs
  <1>4. \A k \in Snapshot!Existing : k.type = "Task" /\ k.source = t => m.id = k.id
    BY <1>2, IdForIs
  <1> QED
    BY <1>1, <1>3, <1>4 DEF PayloadOf, SameObject

LEMMA PreferenceMappingIs ==
  ASSUME RowsHold, NEW s \in Snapshots, NEW n \in Snapshot!KeptPreferences(s), NEW run, NEW m,
         m = Snapshot!PreferenceMapping(s, n, Snapshot!Existing, run)
  PROVE  /\ m.type = "Preference"
         /\ m.source = <<s.preferences[n].left, s.preferences[n].right>>
         /\ IdOf(m.id, m.type, m.source) /\ PayloadOf(m.type, m.payload)
         /\ \A k \in Snapshot!Existing : SameObject(k, m) => m.id = k.id
  <1> PICK pair : pair = <<s.preferences[n].left, s.preferences[n].right>>
    OBVIOUS
  <1>1. m.type = "Preference" /\ m.source = pair
    BY DEF Snapshot!PreferenceMapping, Snapshot!Mapping
  <1>2. m.id = Snapshot!IdFor(Snapshot!Existing, "Preference", pair, run)
    BY DEF Snapshot!PreferenceMapping, Snapshot!Mapping
  <1>3. \E order, on, sides : m.payload = [order |-> order, enabled |-> on, pair |-> sides]
    BY DEF Snapshot!PreferenceMapping, Snapshot!Mapping
  <1>4. IsSwitch(m.payload)
    BY <1>3 DEF IsSwitch
  <1>5. IdOf(m.id, "Preference", pair)
    BY <1>2, IdForIs
  <1>6. \A k \in Snapshot!Existing : k.type = "Preference" /\ k.source = pair => m.id = k.id
    BY <1>2, IdForIs
  <1> QED
    BY <1>1, <1>4, <1>5, <1>6 DEF PayloadOf, SameObject

(* A run maps a source object once. *)
LEMMA MappingsAre ==
  ASSUME RowsHold, NEW s \in Snapshots, NEW run, NEW T,
         T = Snapshot!Mappings(s, Snapshot!Existing, run)
  PROVE  ToWrite(Snapshot!Existing, T) /\ OneEach(T)
  <1>1. \A m \in T : \/ \E r \in Snapshot!MappedRoutines(s) :
                          m = Snapshot!RoutineMapping(s, r, Snapshot!Existing, run)
                     \/ \E t \in Snapshot!KeptTasks(s) :
                          m = Snapshot!TaskMapping(s, t, Snapshot!Existing, run)
                     \/ \E k \in Snapshot!KeptPreferences(s) :
                          m = Snapshot!PreferenceMapping(s, k, Snapshot!Existing, run)
    BY DEF Snapshot!Mappings
  <1>2. ASSUME NEW m \in T
        PROVE  /\ IdOf(m.id, m.type, m.source) /\ PayloadOf(m.type, m.payload)
               /\ \A k \in Snapshot!Existing : SameObject(k, m) => m.id = k.id
               /\ m.type = "Objective" => m.source # "native"
    BY <1>1, RoutineMappingIs, TaskMappingIs, PreferenceMappingIs
  <1>3. ASSUME NEW m \in T, \A k \in Snapshot!Existing : ~ SameObject(k, m), NEW r \in rows
        PROVE  ~ SameObject(r, m)
    <2>1. CASE r \in Snapshot!Existing
      BY <1>3, <2>1
    <2>2. CASE r.id = Snapshot!NativeId
      <3>1. IdOf(r.id, r.type, r.source) /\ IdOf(r.id, "Objective", "native")
        BY <2>2 DEF RowsHold, IsRow, IdOf, Snapshot!NativeId
      <3>2. r.type = "Objective" /\ r.source = "native"
        BY <3>1, ObjectOfId
      <3> QED
        BY <1>2, <3>2 DEF SameObject
    <2> QED
      BY <2>1, <2>2 DEF Snapshot!Existing
  <1>4. ASSUME NEW k \in Snapshot!KeptPreferences(s), NEW l \in Snapshot!KeptPreferences(s),
               s.preferences[k].left = s.preferences[l].left,
               s.preferences[k].right = s.preferences[l].right
        PROVE  k = l
    <2>1. k \in Nat \ {0} /\ l \in Nat \ {0}
      BY ImportConstants DEF Snapshot!KeptPreferences
    <2>2. ~ k < l /\ ~ l < k
      BY <1>4, <2>1 DEF Snapshot!KeptPreferences
    <2> QED
      BY <2>1, <2>2
  <1>5. ASSUME NEW m \in T, NEW n \in T, SameObject(m, n)  PROVE m = n
    <2>1. ASSUME NEW r \in Snapshot!MappedRoutines(s),
                 m = Snapshot!RoutineMapping(s, r, Snapshot!Existing, run)
          PROVE  m = n
      <3>1. n.type = "Objective" /\ n.source = r
        BY <1>5, <2>1, RoutineMappingIs DEF SameObject
      <3>2. PICK q \in Snapshot!MappedRoutines(s) :
              n = Snapshot!RoutineMapping(s, q, Snapshot!Existing, run)
        BY <1>1, <3>1, TaskMappingIs, PreferenceMappingIs
      <3>3. q = r
        BY <3>1, <3>2, RoutineMappingIs
      <3> QED
        BY <2>1, <3>2, <3>3
    <2>2. ASSUME NEW t \in Snapshot!KeptTasks(s),
                 m = Snapshot!TaskMapping(s, t, Snapshot!Existing, run)
          PROVE  m = n
      <3>1. n.type = "Task" /\ n.source = t
        BY <1>5, <2>2, TaskMappingIs DEF SameObject
      <3>2. PICK u \in Snapshot!KeptTasks(s) :
              n = Snapshot!TaskMapping(s, u, Snapshot!Existing, run)
        BY <1>1, <3>1, RoutineMappingIs, PreferenceMappingIs
      <3>3. u = t
        BY <3>1, <3>2, TaskMappingIs
      <3> QED
        BY <2>2, <3>2, <3>3
    <2>3. ASSUME NEW k \in Snapshot!KeptPreferences(s),
                 m = Snapshot!PreferenceMapping(s, k, Snapshot!Existing, run)
          PROVE  m = n
      <3>1. /\ n.type = "Preference"
            /\ n.source = <<s.preferences[k].left, s.preferences[k].right>>
        BY <1>5, <2>3, PreferenceMappingIs DEF SameObject
      <3>2. PICK l \in Snapshot!KeptPreferences(s) :
              n = Snapshot!PreferenceMapping(s, l, Snapshot!Existing, run)
        BY <1>1, <3>1, RoutineMappingIs, TaskMappingIs
      <3>3. n.source = <<s.preferences[l].left, s.preferences[l].right>>
        BY <3>2, PreferenceMappingIs
      <3>4. k = l
        BY <1>4, <3>1, <3>3
      <3> QED
        BY <2>3, <3>2, <3>4
    <2> QED
      BY <1>1, <2>1, <2>2, <2>3
  <1> QED
    BY <1>2, <1>3, <1>5 DEF ToWrite, OneEach

LEMMA ExistingRead ==
  ASSUME RowsHold
  PROVE  ReadBefore(Snapshot!Existing) /\ OneEach(Snapshot!Existing)
  <1>1. Snapshot!Existing \subseteq rows
    BY DEF Snapshot!Existing
  <1>2. ASSUME NEW k \in Snapshot!Existing, NEW r \in rows, r.id = k.id  PROVE r = k
    BY <1>1, <1>2, SameIdSameObject DEF RowsHold, OneEach
  <1>3. \A k \in Snapshot!Existing : IsRow(k) /\ k.version <= k.version
    BY <1>1 DEF RowsHold, IsRow
  <1> QED
    BY <1>1, <1>2, <1>3 DEF ReadBefore, RowsHold, OneEach

(* What an import writes over a row keeps its counters and its switch. *)
LEMMA PayloadIs ==
  ASSUME NEW E, OneEach(E), ReadBefore(E), NEW m, PayloadOf(m.type, m.payload),
         NEW k \in E, SameObject(k, m), NEW payload, payload = Snapshot!Payload(E, m)
  PROVE  /\ PayloadOf(m.type, payload)
         /\ m.type = "Objective" => Advances(k.payload, payload)
         /\ m.type = "Preference" => payload.enabled = k.payload.enabled
  <1>1. /\ Snapshot!Known(E, m.type, m.source) # {}
        /\ (CHOOSE r \in Snapshot!Known(E, m.type, m.source) : TRUE) = k
    BY KnownIs
  <1>2. /\ m.type = "Objective" => payload = Snapshot!Revised(k.payload, m.payload)
        /\ m.type = "Preference" => payload = [m.payload EXCEPT !.enabled = k.payload.enabled]
    BY <1>1 DEF Snapshot!Payload
  <1>3. PayloadOf(m.type, k.payload)
    BY DEF ReadBefore, IsRow, SameObject
  <1>4. CASE m.type = "Objective"
    BY <1>2, <1>3, <1>4, RevisedAdvances DEF PayloadOf
  <1>5. CASE m.type = "Preference"
    <2>1. PICK order, on, pair : m.payload = [order |-> order, enabled |-> on, pair |-> pair]
      BY <1>5 DEF PayloadOf, IsSwitch
    <2>2. PICK was : was = k.payload.enabled
      OBVIOUS
    <2>3. payload = [order |-> order, enabled |-> was, pair |-> pair]
      BY <1>2, <1>5, <2>1, <2>2
    <2>4. IsSwitch(payload) /\ payload.enabled = was
      BY <2>3 DEF IsSwitch
    <2> QED
      BY <1>5, <2>2, <2>4 DEF PayloadOf
  <1>6. CASE m.type \notin {"Objective", "Preference"}
    BY <1>6 DEF PayloadOf
  <1> QED
    BY <1>4, <1>5, <1>6

(* A write that the store admits: over the row that was read, or where the  *)
(* object has none.                                                         *)
Wrote(i, m) ==
  \/ \E new : /\ Adds(new) /\ SameObject(m, new) /\ new.id = m.id
              /\ \A k \in importJob[i].existing : ~ SameObject(k, m)
  \/ \E k \in importJob[i].existing : \E new :
       /\ Rewrites(k, new) /\ k.status = "active"
       /\ k.type = "Preference" => new.payload.enabled = k.payload.enabled

LEMMA IsRewrite ==
  ASSUME NEW k \in rows, NEW new, IsRow(new), SameObject(k, new), new.id = k.id,
         new.version = k.version + 1,
         k.type = "Objective" => Advances(k.payload, new.payload),
         rows' = (rows \ {k}) \cup {new},
         published' = published \cup Snapshot!Publish(new)
  PROVE  Rewrites(k, new)
  BY DEF Rewrites

LEMMA OverIsWrote ==
  ASSUME NEW i, NEW m, NEW k \in importJob[i].existing, NEW new,
         Rewrites(k, new), k.status = "active",
         k.type = "Preference" => new.payload.enabled = k.payload.enabled
  PROVE  Wrote(i, m)
  BY DEF Wrote

LEMMA WriteWrites ==
  ASSUME ImportsInv, NEW i \in Importers, NEW m \in importJob[i].todo,
         Snapshot!WriteNext(i, m), ~ UNCHANGED <<rows, published>>
  PROVE  Wrote(i, m)
  <1> PICK E, T : E = importJob[i].existing /\ T = importJob[i].todo
    OBVIOUS
  <1>1. /\ ReadBefore(E) /\ OneEach(E) /\ ToWrite(E, T) /\ m \in T
        /\ importJob[i].pc = "write"
    BY DEF ImportsInv, RunsHold, RunHolds, Snapshot!WriteNext
  <1>2. /\ IdOf(m.id, m.type, m.source) /\ PayloadOf(m.type, m.payload)
        /\ \A k \in E : SameObject(k, m) => m.id = k.id
        /\ (\A k \in E : ~ SameObject(k, m)) => \A r \in rows : ~ SameObject(r, m)
    BY <1>1 DEF ToWrite
  <1> PICK known : known = Snapshot!Known(E, m.type, m.source)
    OBVIOUS
  <1> PICK payload : payload = Snapshot!Payload(E, m)
    OBVIOUS
  <1> PICK current_ : current_ = {r \in rows : r.id = m.id}
    OBVIOUS
  <1> PICK version : version = IF known = {} THEN 1 ELSE (CHOOSE r \in known : TRUE).version + 1
    OBVIOUS
  <1> PICK new : new = Row(m.id, m.type, m.source, version, "active", payload)
    OBVIOUS
  <1>3. /\ ~ Snapshot!Diverged(E, m)
        /\ {r.version : r \in current_} = {r.version : r \in known}
        /\ rows' = (rows \ current_) \cup {new}
        /\ published' = published \cup Snapshot!Publish(new)
    BY DEF Snapshot!WriteNext, Row
  <1>4. /\ new.id = m.id /\ new.type = m.type /\ new.source = m.source
        /\ new.version = version /\ new.status = "active" /\ new.payload = payload
    BY DEF Row
  <1>5. version \in Nat /\ PayloadOf(m.type, payload) => IsRow(new)
    BY <1>2, <1>4 DEF IsRow
  <1>6. CASE \A k \in E : ~ SameObject(k, m)
    <2>1. known = {}
      BY <1>6, KnownNot
    <2>2. current_ = {}
      BY <1>3, <2>1
    <2>3. payload = m.payload /\ version = 1
      BY <2>1 DEF Snapshot!Payload
    <2>4. IsRow(new)
      BY <1>2, <1>5, <2>3
    <2>5. Adds(new)
      BY <1>2, <1>3, <1>4, <1>6, <2>2, <2>4 DEF Adds, SameObject
    <2> QED
      BY <1>4, <1>6, <2>5 DEF Wrote, SameObject
  <1>7. ASSUME NEW k \in E, SameObject(k, m)  PROVE Wrote(i, m)
    <2>1. known = {k} /\ (CHOOSE r \in known : TRUE) = k
      BY <1>1, <1>7, KnownIs
    <2>2. IsRow(k) /\ k.id = m.id /\ k.version \in Nat
      BY <1>1, <1>2, <1>7 DEF ReadBefore, IsRow
    <2>3. k \in rows
      <3>1. {r.version : r \in current_} = {k.version}
        BY <1>3, <2>1
      <3>2. PICK r \in current_ : r.version = k.version
        BY <3>1
      <3>3. r \in rows /\ r.id = k.id
        BY <2>2
      <3>4. r = k
        BY <1>1, <3>2, <3>3 DEF ReadBefore
      <3> QED
        BY <3>3, <3>4
    <2>4. current_ = {k}
      <3>1. \A r \in rows : r.id = k.id => r = k
        BY <2>2, <2>3, SameIdSameObject DEF ImportsInv, RowsHold, OneEach
      <3> QED
        BY <2>2, <2>3, <3>1
    <2>5. version = k.version + 1 /\ version \in Nat
      BY <2>1, <2>2
    <2>6. /\ PayloadOf(m.type, payload)
          /\ m.type = "Objective" => Advances(k.payload, payload)
          /\ m.type = "Preference" => payload.enabled = k.payload.enabled
      BY <1>1, <1>2, <1>7, PayloadIs
    <2>7. IsRow(new)
      BY <1>5, <2>5, <2>6
    <2>8. k.status = "active"
      BY <1>3, <2>1 DEF Snapshot!Diverged
    <2>9. k.type = m.type /\ k.source = m.source
      BY <1>7 DEF SameObject
    <2>10. Rewrites(k, new)
      <3>1. /\ rows' = (rows \ {k}) \cup {new}
            /\ published' = published \cup Snapshot!Publish(new)
        BY <1>3, <2>4
      <3>2. SameObject(k, new) /\ new.id = k.id /\ new.version = k.version + 1
        BY <1>4, <2>2, <2>5, <2>9 DEF SameObject
      <3>3. k.type = "Objective" => Advances(k.payload, new.payload)
        BY <1>4, <2>6, <2>9
      <3> QED
        BY <2>3, <2>7, <3>1, <3>2, <3>3, IsRewrite
    <2>11. k.type = "Preference" => new.payload.enabled = k.payload.enabled
      BY <1>4, <2>6, <2>9
    <2> QED
      BY <2>8, <2>10, <2>11, OverIsWrote
  <1> QED
    BY <1>6, <1>7

(* One run writes at a time: the others are idle while it goes on, or leaves. *)
LEMMA RunGoesOn ==
  ASSUME RunsHold, NEW i \in Importers, importJob[i].pc = "write",
         NEW E, E = importJob[i].existing, NEW T, T = importJob[i].todo, NEW m,
         Snapshot!Passed(i, m), UNCHANGED importLock,
         ReadBefore(E)', ToWrite(E, T \ {m})'
  PROVE  RunsHold'
  <1> PICK file : file = importJob[i].file
    OBVIOUS
  <1> PICK new : new = [pc |-> "write", file |-> file, existing |-> E, todo |-> T \ {m}]
    OBVIOUS
  <1>1. /\ importLock = i /\ OneEach(E) /\ OneEach(T)
        /\ importJob[i] = [pc |-> "write", file |-> file, existing |-> E, todo |-> T]
        /\ importJob = [l \in Importers |-> importJob[l]]
    BY DEF RunsHold, RunHolds, IsImport
  <1>2. importJob' = [importJob EXCEPT ![i] = new]
    <2> PICK j : j = importJob[i]
      OBVIOUS
    <2>1. importJob' = [importJob EXCEPT ![i] = [j EXCEPT !.todo = j.todo \ {m}]]
      BY DEF Snapshot!Passed
    <2>2. [j EXCEPT !.todo = j.todo \ {m}] = new
      BY <1>1
    <2> QED
      BY <2>1, <2>2
  <1>3. importJob' = [l \in Importers |-> IF l = i THEN new ELSE importJob[l]]
    BY <1>1, <1>2
  <1>4. OneEach(T \ {m})
    BY <1>1 DEF OneEach
  <1>5. ASSUME NEW l \in Importers  PROVE IsImport(importJob'[l]) /\ RunHolds(l)'
    <2>1. CASE l = i
      <3>1. importJob'[l] = new
        BY <1>3, <2>1
      <3>2. IsImport(importJob'[l])
        BY <3>1 DEF IsImport
      <3>3. importJob'[l].existing = E /\ importJob'[l].todo = T \ {m}
        BY <3>1
      <3>4. ReadBefore(importJob[l].existing)' /\ ToWrite(importJob[l].existing, importJob[l].todo)'
        BY <3>3 DEF ReadBefore, ToWrite
      <3>5. OneEach(importJob[l].existing)' /\ OneEach(importJob[l].todo)'
        BY <1>1, <1>4, <3>3 DEF OneEach
      <3> QED
        BY <1>1, <2>1, <3>2, <3>4, <3>5 DEF RunHolds
    <2>2. CASE l # i
      <3>1. importJob'[l] = importJob[l]
        BY <1>3, <2>2
      <3>2. IsImport(importJob[l]) /\ importJob[l].pc # "write"
        BY <1>1, <2>2 DEF RunsHold, RunHolds
      <3> QED
        BY <3>1, <3>2 DEF RunHolds
    <2> QED
      BY <2>1, <2>2
  <1> QED
    BY <1>3, <1>5 DEF RunsHold

LEMMA RunLeaves ==
  ASSUME RunsHold, NEW i \in Importers, importJob[i].pc = "write", Snapshot!Leave(i)
  PROVE  RunsHold'
  <1>1. importLock = i /\ importJob = [l \in Importers |-> importJob[l]]
    BY DEF RunsHold, RunHolds
  <1>2. importJob' = [l \in Importers |-> IF l = i THEN Snapshot!Idle ELSE importJob[l]]
    BY <1>1 DEF Snapshot!Leave
  <1>3. ASSUME NEW l \in Importers  PROVE IsImport(importJob'[l]) /\ importJob'[l].pc # "write"
    <2>1. CASE l = i
      BY <1>2, <2>1 DEF Snapshot!Idle, IsImport
    <2>2. CASE l # i
      BY <1>1, <1>2, <2>2 DEF RunsHold, RunHolds
    <2> QED
      BY <2>1, <2>2
  <1> QED
    BY <1>2, <1>3 DEF RunsHold, RunHolds

LEMMA BeginKeeps ==
  ASSUME ImportsInv, NEW i \in Importers, Snapshot!Begin(i)
  PROVE  ImportsInv'
  <1>1. UNCHANGED <<rows, published, userActs>> /\ importLock = Snapshot!Nobody
    BY DEF Snapshot!Begin, Snapshot!Taken
  <1>2. RowsHold' /\ PublishedHold' /\ userActs' \in Nat
    BY <1>1 DEF ImportsInv, RowsHold, PublishedHold, OneEach
  <1>3. \A l \in Importers : IsImport(importJob[l]) /\ importJob[l].pc # "write"
    BY <1>1, WriterHasLock DEF ImportsInv, RunsHold
  <1>4. importJob = [l \in Importers |-> importJob[l]]
    BY DEF ImportsInv, RunsHold
  <1>5. CASE UNCHANGED <<importLock, importJob>>
    BY <1>2, <1>3, <1>4, <1>5 DEF ImportsInv, RunsHold, RunHolds
  <1>6. CASE ~ UNCHANGED <<importLock, importJob>>
    <2>1. PICK s \in Snapshots :
            LET mappings == Snapshot!Mappings(s, Snapshot!Existing, runs + 1)
            IN /\ importLock' = i
               /\ importJob' = [importJob EXCEPT ![i] = [pc |-> "write", file |-> s,
                                    existing |-> Snapshot!Existing, todo |-> mappings]]
      BY <1>6 DEF Snapshot!Begin
    <2> PICK E : E = Snapshot!Existing
      OBVIOUS
    <2> PICK T : T = Snapshot!Mappings(s, Snapshot!Existing, runs + 1)
      OBVIOUS
    <2> PICK new : new = [pc |-> "write", file |-> s, existing |-> E, todo |-> T]
      OBVIOUS
    <2>2. importJob' = [l \in Importers |-> IF l = i THEN new ELSE importJob[l]]
      BY <1>4, <2>1
    <2>3. ReadBefore(E) /\ OneEach(E) /\ ToWrite(E, T) /\ OneEach(T)
      BY MappingsAre, ExistingRead DEF ImportsInv
    <2>4. ReadBefore(E)' /\ OneEach(E)' /\ ToWrite(E, T)' /\ OneEach(T)'
      BY <1>1, <2>3 DEF ReadBefore, ToWrite, OneEach
    <2>5. ASSUME NEW l \in Importers  PROVE IsImport(importJob'[l]) /\ RunHolds(l)'
      <3>1. CASE l = i
        <4>1. importJob'[l] = new
          BY <2>2, <3>1
        <4>2. IsImport(importJob'[l])
          BY <4>1 DEF IsImport
        <4>3. importJob'[l].existing = E /\ importJob'[l].todo = T
          BY <4>1
        <4> QED
          BY <2>1, <2>4, <3>1, <4>2, <4>3 DEF RunHolds, ReadBefore, ToWrite, OneEach
      <3>2. CASE l # i
        BY <1>3, <2>2, <3>2 DEF RunHolds
      <3> QED
        BY <3>1, <3>2
    <2> QED
      BY <1>2, <2>2, <2>5 DEF ImportsInv, RunsHold
  <1> QED
    BY <1>5, <1>6

LEMMA WriteKeeps ==
  ASSUME ImportsInv, NEW i \in Importers, NEW m \in importJob[i].todo, Snapshot!WriteNext(i, m)
  PROVE  ImportsInv'
  <1> PICK E, T : E = importJob[i].existing /\ T = importJob[i].todo
    OBVIOUS
  <1>1. /\ importJob[i].pc = "write"
        /\ ReadBefore(E) /\ OneEach(E) /\ ToWrite(E, T) /\ OneEach(T) /\ m \in T
        /\ userActs' \in Nat
    BY DEF ImportsInv, RunsHold, RunHolds, Snapshot!WriteNext
  <1>2. ASSUME ToWrite(E, T)'  PROVE ToWrite(E, T \ {m})'
    BY <1>2 DEF ToWrite
  <1>3. CASE UNCHANGED <<rows, published>>
    <2>1. RowsHold' /\ PublishedHold'
      BY <1>3 DEF ImportsInv, RowsHold, PublishedHold, OneEach
    <2>2. ReadBefore(E)' /\ ToWrite(E, T)'
      BY <1>1, <1>3 DEF ReadBefore, ToWrite
    <2>3. Snapshot!Leave(i) \/ (Snapshot!Passed(i, m) /\ UNCHANGED importLock)
      BY DEF Snapshot!WriteNext
    <2>4. RunsHold'
      BY <1>1, <1>2, <2>2, <2>3, RunGoesOn, RunLeaves DEF ImportsInv
    <2> QED
      BY <1>1, <2>1, <2>4 DEF ImportsInv
  <1>4. CASE ~ UNCHANGED <<rows, published>>
    <2>1. Snapshot!Passed(i, m) /\ UNCHANGED importLock
      BY <1>4 DEF Snapshot!WriteNext
    <2>2. ASSUME NEW new, Adds(new), SameObject(m, new), new.id = m.id,
                 \A k \in E : ~ SameObject(k, m)
          PROVE  ImportsInv'
      <3>1. RowsHold' /\ PublishedHold'
        BY <2>2, AddKeepsRows, AddKeepsPublished DEF ImportsInv
      <3>2. ReadBefore(E)' /\ ToWrite(E, T \ {m})'
        BY <1>1, <2>2, AddKeepsRuns DEF ImportsInv
      <3>3. RunsHold'
        BY <1>1, <2>1, <3>2, RunGoesOn DEF ImportsInv
      <3> QED
        BY <1>1, <3>1, <3>3 DEF ImportsInv
    <2>3. ASSUME NEW k, NEW new, Rewrites(k, new)  PROVE ImportsInv'
      <3>1. RowsHold' /\ PublishedHold'
        BY <2>3, RewriteKeepsRows, RewriteKeepsPublished DEF ImportsInv
      <3>2. ReadBefore(E)' /\ ToWrite(E, T \ {m})'
        BY <1>1, <1>2, <2>3, RewriteKeepsRuns DEF ImportsInv
      <3>3. RunsHold'
        BY <1>1, <2>1, <3>2, RunGoesOn DEF ImportsInv
      <3> QED
        BY <1>1, <3>1, <3>3 DEF ImportsInv
    <2> QED
      BY <1>4, <2>2, <2>3, WriteWrites DEF Wrote
  <1> QED
    BY <1>3, <1>4

LEMMA EndKeeps ==
  ASSUME ImportsInv, NEW i \in Importers, Snapshot!End(i) \/ Snapshot!Break(i)
  PROVE  ImportsInv'
  <1>1. importJob[i].pc = "write" /\ Snapshot!Leave(i) /\ UNCHANGED <<rows, published, userActs>>
    BY DEF Snapshot!End, Snapshot!Break
  <1>2. RowsHold' /\ PublishedHold'
    BY <1>1 DEF ImportsInv, RowsHold, PublishedHold, OneEach
  <1>3. RunsHold'
    BY <1>1, RunLeaves DEF ImportsInv
  <1> QED
    BY <1>1, <1>2, <1>3 DEF ImportsInv

LEMMA ImportsStart == Snapshot!Init => ImportsInv
  <1> SUFFICES ASSUME Snapshot!Init  PROVE ImportsInv
    OBVIOUS
  <1> PICK native : native = Row(Snapshot!NativeId, "Objective", "native", 1, "active", Native)
    OBVIOUS
  <1>1. rows = {native} /\ published = {}
    BY DEF Snapshot!Init, Row
  <1>2. /\ native.id = Snapshot!NativeId /\ native.type = "Objective"
        /\ native.source = "native" /\ native.version = 1 /\ native.status = "active"
        /\ native.payload = Native
    BY DEF Row
  <1>3. IdOf(native.id, native.type, native.source)
    BY <1>2 DEF IdOf, Snapshot!NativeId
  <1>4. PayloadOf(native.type, native.payload)
    BY <1>2, ImportConstants DEF PayloadOf, IsRoutine
  <1>5. IsRow(native)
    BY <1>2, <1>3, <1>4 DEF IsRow
  <1>6. RowsHold /\ PublishedHold /\ userActs \in Nat
    BY <1>1, <1>5 DEF Snapshot!Init, RowsHold, PublishedHold, OneEach, OneContent
  <1>7. importJob = [i \in Importers |-> Snapshot!Idle]
    BY DEF Snapshot!Init
  <1>8. RunsHold
    BY <1>7 DEF RunsHold, RunHolds, IsImport, Snapshot!Idle
  <1> QED
    BY <1>6, <1>8 DEF ImportsInv

LEMMA ImportsStep == ImportsInv /\ [Snapshot!Next]_importVars => ImportsInv'
  <1> SUFFICES ASSUME ImportsInv, [Snapshot!Next]_importVars  PROVE ImportsInv'
    OBVIOUS
  <1>1. CASE UNCHANGED importVars
    BY <1>1 DEF importVars, ImportsInv, RowsHold, PublishedHold, RunsHold, RunHolds, OneEach,
                ReadBefore, ToWrite
  <1>2. CASE Snapshot!Operate
    BY <1>2, OperateKeeps
  <1>3. ASSUME NEW i \in Importers, \/ Snapshot!Begin(i) \/ Snapshot!End(i) \/ Snapshot!Break(i)
                                    \/ \E m \in importJob[i].todo : Snapshot!WriteNext(i, m)
        PROVE  ImportsInv'
    BY <1>3, BeginKeeps, EndKeeps, WriteKeeps
  <1> QED
    BY <1>1, <1>2, <1>3 DEF Snapshot!Next

(* A step of the import leaves a row, or writes over what it read of it. *)
LEMMA OverwritesWhatItRead ==
  ASSUME ImportsInv, [Snapshot!Next]_importVars
  PROVE  [Snapshot!WritesWhatItRead]_importVars
  <1> SUFFICES ASSUME NEW r \in rows, r \notin rows', userActs' = userActs
               PROVE  /\ r.status = "active"
                      /\ \E i \in Importers : r \in importJob[i].existing
                      /\ r.type = "Preference" =>
                           \E n \in rows' : n.id = r.id /\ n.payload.enabled = r.payload.enabled
    BY DEF Snapshot!WritesWhatItRead
  <1>1. PICK i \in Importers : \E m \in importJob[i].todo : Snapshot!WriteNext(i, m)
    <2>1. ~ Snapshot!Operate
      BY DEF Snapshot!Operate, ImportsInv
    <2>2. \A i \in Importers : ~ Snapshot!Begin(i) /\ ~ Snapshot!End(i) /\ ~ Snapshot!Break(i)
      BY DEF Snapshot!Begin, Snapshot!End, Snapshot!Break
    <2> QED
      BY <2>1, <2>2 DEF Snapshot!Next, importVars
  <1>2. PICK m \in importJob[i].todo : Snapshot!WriteNext(i, m)
    BY <1>1
  <1>3. Wrote(i, m)
    BY <1>2, WriteWrites
  <1>4. PICK k \in importJob[i].existing : \E new :
          /\ Rewrites(k, new) /\ k.status = "active"
          /\ k.type = "Preference" => new.payload.enabled = k.payload.enabled
    BY <1>3 DEF Wrote, Adds
  <1> QED
    BY <1>4 DEF Rewrites

(* The invariant of the import holds whichever service runs. *)
LEMMA ImportInvariant == ServicesSpec => []ImportsInv
  <1>1. ServicesInit => ImportsInv
    BY ImportsStart DEF ServicesInit
  <1>2. ImportsInv /\ [ServicesNext]_<<part, faults, vars, labelVars, importVars, seedVars, lockVars>>
          => ImportsInv'
    BY ImportsStep DEF ServicesNext
  <1> QED
    BY <1>1, <1>2, PTL DEF ServicesSpec

(* quick_ubu_import.rs: for every snapshot, however often it is imported, by *)
(* whom at once, whatever the operator does beside it and wherever a run     *)
(* breaks off, a source object is one object here and a counter of a routine *)
(* has stood for one content only.                                           *)
THEOREM ImportsAreOne == ServicesSpec => []ImportInv
  <1>1. ImportsInv => ImportInv
    BY DEF ImportsInv, RowsHold, OneEach, SameObject, PublishedHold, OneContent, ImportInv,
           Snapshot!ImportInv
  <1> QED
    BY <1>1, ImportInvariant, PTL

(* quick_ubu_import.rs: an import writes only over the row it read, and only *)
(* while it was active: no edit or switch of the operator is undone.         *)
THEOREM ImportsWriteWhatTheyRead == ServicesSpec => MainlineWins
  <1>1. /\ ImportsInv
        /\ [ServicesNext]_<<part, faults, vars, labelVars, importVars, seedVars, lockVars>>
        => [part = "import" => Snapshot!WritesWhatItRead]_importVars
    <2>1. [ServicesNext]_<<part, faults, vars, labelVars, importVars, seedVars, lockVars>>
            /\ part = "import" => [Snapshot!Next]_importVars
      BY DEF ServicesNext
    <2> QED
      BY <2>1, OverwritesWhatItRead
  <1> QED
    BY <1>1, ImportInvariant, PTL DEF ServicesSpec, MainlineWins

-----------------------------------------------------------------------------
(* The order of a routine *)

(* The first of any numbers there are. *)
LEMMA FirstOf ==
  ASSUME NEW T, T \subseteq Nat, T # {}
  PROVE  \E least \in T : \A x \in T : least <= x
  <1>1. PICK R : R = OpToRel(<, Nat) /\ IsWellFoundedOn(R, Nat)
    BY NatLessThanWellFounded
  <1>2. PICK least \in T : \A x \in T : <<x, least>> \notin R
    BY <1>1, WFMin
  <1>3. ASSUME NEW x \in T PROVE least <= x
    <2>1. x \in Nat /\ least \in Nat
      OBVIOUS
    <2>2. ~ (x < least)
      BY <1>1, <1>2, <2>1 DEF OpToRel
    <2> QED
      BY <2>1, <2>2
  <1> QED
    BY <1>3

(* Induction, over numbers and over finite sets, of what is told by a set.   *)
LEMMA NumbersInduct ==
  ASSUME NEW Good, 0 \in Good, \A n \in Nat : n \in Good => n + 1 \in Good
  PROVE  Nat \subseteq Good
  <1>1. SUFFICES ASSUME Nat \ Good # {} PROVE FALSE
    OBVIOUS
  <1>2. PICK n \in Nat \ Good : \A m \in Nat \ Good : n <= m
    BY <1>1, FirstOf
  <1>3. n # 0 /\ n - 1 \in Nat
    BY <1>2
  <1>4. n - 1 \in Good
    BY <1>2, <1>3
  <1>5. (n - 1) + 1 \in Good
    BY <1>3, <1>4
  <1> QED
    BY <1>2, <1>5

(* A finite set of numbers has a last one.                                   *)
LEMMA LastOf ==
  ASSUME NEW T, T \subseteq Nat, T # {}, IsFiniteSet(T)
  PROVE  \E most \in T : \A x \in T : x <= most
  <1> DEFINE Good == {n \in Nat : \A S \in SUBSET T : S # {} /\ Cardinality(S) = n =>
                                    \E most \in S : \A x \in S : x <= most}
  <1>1. 0 \in Good
    <2>1. \A S \in SUBSET T : Cardinality(S) = 0 => S = {}
      BY FS_Subset, FS_EmptySet
    <2> QED
      BY <2>1
  <1>2. ASSUME NEW n \in Nat, n \in Good
        PROVE  n + 1 \in Good
    <2>1. ASSUME NEW S \in SUBSET T, S # {}, Cardinality(S) = n + 1
          PROVE  \E most \in S : \A x \in S : x <= most
      <3>1. PICK y \in S : TRUE
        BY <2>1
      <3>2. IsFiniteSet(S)
        BY FS_Subset
      <3>3. Cardinality(S \ {y}) = n
        <4>1. Cardinality(S \ {y}) = Cardinality(S) - 1
          BY <3>1, <3>2, FS_RemoveElement
        <4> QED
          BY <2>1, <4>1
      <3>4. CASE S \ {y} = {}
        <4>1. S = {y}
          BY <3>1, <3>4
        <4> QED
          BY <4>1
      <3>5. CASE S \ {y} # {}
        <4>1. PICK most \in S \ {y} : \A x \in S \ {y} : x <= most
          BY <1>2, <3>3, <3>5
        <4>2. CASE y <= most
          BY <4>1, <4>2
        <4>3. CASE most <= y
          <5>1. \A x \in S : x <= y
            BY <3>1, <4>1, <4>3
          <5> QED
            BY <3>1, <5>1
        <4> QED
          BY <3>1, <4>2, <4>3
      <3> QED
        BY <3>4, <3>5
    <2> QED
      BY <2>1
  <1> HIDE DEF Good
  <1>3. Nat \subseteq Good
    BY <1>1, <1>2, NumbersInduct
  <1>4. Cardinality(T) \in Good
    BY <1>3, FS_CardinalityType
  <1> QED
    BY <1>4 DEF Good

(* What a function takes of a finite set is finite.                          *)
LEMMA ImageIsFinite ==
  ASSUME NEW S, IsFiniteSet(S), NEW f, DOMAIN f = S
  PROVE  IsFiniteSet({f[x] : x \in S})
  <1> DEFINE T == {f[x] : x \in S}
          g == [x \in S |-> f[x]]
  <1>1. g \in Surjection(S, T)
    BY DEF Surjection
  <1> QED
    BY <1>1, FS_Surjection

(* The least of some numbers is one of them.                                   *)
LEMMA LeastIs ==
  ASSUME NEW numbers, numbers \subseteq Nat, numbers # {}
  PROVE  /\ Snapshot!Min(numbers) \in numbers
         /\ \A x \in numbers : Snapshot!Min(numbers) <= x
  <1>1. \E x \in numbers : \A y \in numbers : x <= y
    BY FirstOf
  <1>2. Snapshot!Min(numbers) = CHOOSE x \in numbers : \A y \in numbers : x =< y
    BY DEF Snapshot!Min
  <1> QED
    BY <1>1, <1>2

(* Recursion over numbers: a function that starts and goes on as it is told. *)
LEMMA RecursionHolds ==
  ASSUME NEW T, NEW first \in T, NEW n \in Nat, NEW step \in [1..n -> [T -> T]]
  PROVE  \E h : /\ h \in [0..n -> T] /\ h[0] = first
                /\ \A i \in 1..n : h[i] = step[i][h[i - 1]]
  <1> DEFINE Goes(h, m) == /\ h \in [0..m -> T] /\ h[0] = first
                           /\ \A i \in 1..m : h[i] = step[i][h[i - 1]]
             Good == {m \in Nat : m <= n => \E h : Goes(h, m)}
  <1>1. 0 \in Good
    <2>1. Goes([i \in 0..0 |-> first], 0)
      OBVIOUS
    <2> HIDE DEF Goes
    <2> QED
      BY <2>1
  <1>2. ASSUME NEW m \in Nat, m \in Good  PROVE m + 1 \in Good
    <2>1. SUFFICES ASSUME m + 1 <= n  PROVE \E h : Goes(h, m + 1)
      OBVIOUS
    <2>2. PICK f : Goes(f, m)
      BY <1>2, <2>1
    <2> PICK last : last = step[m + 1][f[m]]
      OBVIOUS
    <2>3. last \in T
      <3>1. f[m] \in T /\ m + 1 \in 1..n
        BY <2>1, <2>2
      <3> QED
        BY <3>1
    <2> DEFINE h == [i \in 0..(m + 1) |-> IF i = m + 1 THEN last ELSE f[i]]
    <2>4. /\ DOMAIN h = 0..(m + 1) /\ h[m + 1] = last
          /\ \A i \in 0..m : h[i] = f[i] /\ h[i] \in T
      BY <2>2
    <2> HIDE DEF h
    <2>5. h \in [0..(m + 1) -> T]
      <3>1. \A i \in 0..(m + 1) : i = m + 1 \/ i \in 0..m
        OBVIOUS
      <3>2. \A i \in 0..(m + 1) : h[i] \in T
        BY <2>3, <2>4, <3>1
      <3>3. h = [i \in 0..(m + 1) |-> h[i]]
        <4> DEFINE Recursive(g) == [i \in 0..(m + 1) |-> IF i = m + 1 THEN last ELSE f[i]]
        <4> QED
          BY <2>4 DEF h
      <3> QED
        BY ONLY <3>2, <3>3
    <2>6. h[0] = first
      BY <2>2, <2>4
    <2>7. ASSUME NEW i \in 1..(m + 1)  PROVE h[i] = step[i][h[i - 1]]
      <3>1. CASE i = m + 1
        <4>1. i - 1 = m /\ m \in 0..m
          BY <3>1
        <4> QED
          BY <2>4, <3>1, <4>1
      <3>2. CASE i # m + 1
        <4>1. i \in 1..m /\ i \in 0..m /\ i - 1 \in 0..m
          BY <3>2
        <4> QED
          BY <2>2, <2>4, <4>1
      <3> QED
        BY <3>1, <3>2
    <2>8. Goes(h, m + 1)
      BY <2>5, <2>6, <2>7
    <2> HIDE DEF Goes
    <2> QED
      BY <2>8
  <1>3. n \in Good
    <2> HIDE DEF Good
    <2> QED
      BY <1>1, <1>2, NumbersInduct
  <1> HIDE DEF Goes
  <1>4. \E h : Goes(h, n)
    BY <1>3
  <1> QED
    BY <1>4 DEF Goes

(* An element more. *)
LEMMA AppendAdds ==
  ASSUME NEW S, NEW t \in Seq(S), NEW x \in S
  PROVE  Snapshot!ToSet(Append(t, x)) = Snapshot!ToSet(t) \cup {x}
  <1> PICK n, u : n = Len(t) /\ u = Append(t, x)
    OBVIOUS
  <1>1. /\ n \in Nat /\ DOMAIN t = 1..n /\ DOMAIN u = 1..(n + 1)
        /\ u[n + 1] = x /\ \A i \in 1..n : u[i] = t[i]
    OBVIOUS
  <1>2. DOMAIN u = DOMAIN t \cup {n + 1}
    BY <1>1
  <1>3. {u[i] : i \in DOMAIN u} = {t[i] : i \in DOMAIN t} \cup {x}
    BY <1>1, <1>2
  <1> QED
    BY <1>3 DEF Snapshot!ToSet

(* Kept: what a sequence has at the given places.                            *)
LEMMA KeptIs ==
  ASSUME NEW S, NEW entries \in Seq(S), NEW places
  PROVE  /\ Snapshot!Kept(entries, places) \in Seq(S)
         /\ Snapshot!ToSet(Snapshot!Kept(entries, places))
              = {entries[k] : k \in places \cap DOMAIN entries}
  <1> PICK n \in Nat : n = Len(entries) /\ DOMAIN entries = 1..n
    OBVIOUS
  <1> DEFINE More(i, t) == IF i \in places THEN Append(t, entries[i]) ELSE t
             Up(g) == [i \in 0..Len(entries) |-> IF i = 0 THEN <<>> ELSE More(i, g[i - 1])]
             step == [i \in 1..n |-> [t \in Seq(S) |-> More(i, t)]]
  <1>1. \A i \in 1..n : entries[i] \in S
    OBVIOUS
  <1>2. \A i \in 1..n, t \in Seq(S) : More(i, t) \in Seq(S)
    BY <1>1
  <1>3. PICK h : /\ h \in [0..n -> Seq(S)] /\ h[0] = <<>>
                 /\ \A i \in 1..n : h[i] = More(i, h[i - 1])
    <2> HIDE DEF More
    <2>1. step \in [1..n -> [Seq(S) -> Seq(S)]]
      BY <1>2
    <2>2. \A i \in 1..n, t \in Seq(S) : step[i][t] = More(i, t)
      OBVIOUS
    <2> HIDE DEF step
    <2> PICK T, empty, f : T = Seq(S) /\ empty = <<>> /\ f = step
      OBVIOUS
    <2>3. empty \in T /\ f \in [1..n -> [T -> T]] /\ n \in Nat
      BY <2>1
    <2>4. PICK h : h \in [0..n -> T] /\ h[0] = empty /\ \A i \in 1..n : h[i] = f[i][h[i - 1]]
      BY ONLY <2>3, RecursionHolds
    <2>5. ASSUME NEW i \in 1..n  PROVE h[i] = More(i, h[i - 1])
      <3>1. i - 1 \in 0..n
        OBVIOUS
      <3>2. h[i - 1] \in Seq(S)
        BY <2>4, <3>1
      <3>3. f[i][h[i - 1]] = More(i, h[i - 1])
        BY <2>2, <3>2
      <3> QED
        BY <2>4, <3>3
    <2> QED
      BY <2>4, <2>5
  <1>4. h = Up(h)
    <2>1. \A i \in 0..n : h[i] = IF i = 0 THEN <<>> ELSE More(i, h[i - 1])
      <3>1. \A i \in 0..n : i = 0 \/ i \in 1..n
        OBVIOUS
      <3>2. \A i \in 1..n : i # 0
        OBVIOUS
      <3> HIDE DEF More
      <3> QED
        BY <1>3, <3>1, <3>2
    <2> HIDE DEF More
    <2> QED
      BY <1>3, <2>1
  <1> PICK up : up = CHOOSE g : g = Up(g)
    OBVIOUS
  <1>5. Snapshot!Kept(entries, places) = up[n]
    BY DEF Snapshot!Kept
  <1>6. up = Up(up)
    <2> HIDE DEF Up
    <2> QED
      BY <1>4
  <1>7. /\ up[0] = <<>>
        /\ \A i \in 1..n : up[i] = More(i, up[i - 1])
    <2> HIDE DEF More
    <2>1. \A i \in 0..n : up[i] = IF i = 0 THEN <<>> ELSE More(i, up[i - 1])
      BY <1>6
    <2>2. \A i \in 1..n : i \in 0..n /\ i # 0
      OBVIOUS
    <2>3. 0 \in 0..n
      OBVIOUS
    <2> QED
      BY <2>1, <2>2, <2>3
  <1> DEFINE Some(i) == {entries[k] : k \in places \cap (1..i)}
             Fine == {m \in Nat : m <= n => /\ up[m] \in Seq(S)
                                            /\ Snapshot!ToSet(up[m]) = Some(m)}
  <1> HIDE DEF Some
  <1>8. 0 \in Fine
    <2>1. Snapshot!ToSet(<<>>) = {}
      BY DEF Snapshot!ToSet
    <2>2. Some(0) = {}
      <3>1. 1..0 = {}
        OBVIOUS
      <3> QED
        BY <3>1 DEF Some
    <2>3. <<>> \in Seq(S)
      OBVIOUS
    <2> QED
      BY <1>7, <2>1, <2>2, <2>3
  <1>9. ASSUME NEW m \in Nat, m \in Fine  PROVE m + 1 \in Fine
    <2>1. SUFFICES ASSUME m + 1 <= n  PROVE /\ up[m + 1] \in Seq(S)
                                            /\ Snapshot!ToSet(up[m + 1]) = Some(m + 1)
      OBVIOUS
    <2> PICK t, x : t = up[m] /\ x = entries[m + 1]
      OBVIOUS
    <2>2. t \in Seq(S) /\ Snapshot!ToSet(t) = Some(m)
      <3>1. m <= n
        BY <2>1
      <3> QED
        BY <1>9, <3>1
    <2>3. x \in S /\ m + 1 \in 1..n /\ (m + 1) - 1 = m
      BY <1>1, <2>1
    <2>4. up[m + 1] = More(m + 1, t)
      BY <1>7, <2>3
    <2>5. CASE m + 1 \in places
      <3>1. up[m + 1] = Append(t, x)
        BY <2>4, <2>5
      <3>2. /\ Append(t, x) \in Seq(S)
            /\ Snapshot!ToSet(Append(t, x)) = Snapshot!ToSet(t) \cup {x}
        <4>1. t \in Seq(S) /\ x \in S
          BY <2>2, <2>3
        <4>2. Append(t, x) \in Seq(S)
          BY ONLY <4>1
        <4> QED
          BY ONLY <4>1, <4>2, AppendAdds
      <3>3. Some(m + 1) = Some(m) \cup {x}
        <4>1. places \cap (1..(m + 1)) = (places \cap (1..m)) \cup {m + 1}
          BY <2>5
        <4> QED
          BY <4>1 DEF Some
      <3>4. Snapshot!ToSet(t) = Some(m)
        BY <2>2
      <3> QED
        BY ONLY <3>1, <3>2, <3>3, <3>4
    <2>6. CASE m + 1 \notin places
      <3>1. up[m + 1] = t
        BY <2>4, <2>6
      <3>2. Some(m + 1) = Some(m)
        <4>1. places \cap (1..(m + 1)) = places \cap (1..m)
          BY <2>6
        <4> QED
          BY <4>1 DEF Some
      <3> QED
        BY <2>2, <3>1, <3>2
    <2> QED
      BY <2>5, <2>6
  <1>10. n \in Fine
    <2> HIDE DEF Fine
    <2> QED
      BY <1>8, <1>9, NumbersInduct
  <1>11. up[n] \in Seq(S) /\ Snapshot!ToSet(up[n]) = Some(n)
    BY <1>10
  <1> QED
    BY <1>5, <1>11 DEF Some

(* The greatest of some numbers is one of them.                              *)
LEMMA GreatestIs ==
  ASSUME NEW numbers, numbers \subseteq Nat, numbers # {}, IsFiniteSet(numbers)
  PROVE  /\ Snapshot!Max(numbers) \in numbers
         /\ \A x \in numbers : x <= Snapshot!Max(numbers)
  <1>1. \E x \in numbers : \A y \in numbers : y <= x
    BY LastOf
  <1>2. \E x \in numbers : \A y \in numbers : x >= y
    BY <1>1
  <1>3. Snapshot!Max(numbers) = CHOOSE x \in numbers : \A y \in numbers : x >= y
    BY DEF Snapshot!Max
  <1> QED
    BY <1>2, <1>3

EdgeRecords == [to : STRING, min : Nat, max : Nat]

(* The bounds that a routine has for another one, with a new one. *)
BoundsWith(edges, edge) == {e \in Snapshot!ToSet(edges) : e.to = edge.to} \cup {edge}

(* The strictest of them. *)
Strictest(s, bounds) ==
  /\ \A b \in bounds : b.min <= s.min /\ s.max <= b.max
  /\ \E f, g \in bounds : s.min = f.min /\ s.max = g.max

LEMMA ToSetIs ==
  ASSUME NEW S, NEW t \in Seq(S)
  PROVE  /\ Snapshot!ToSet(t) = {t[k] : k \in DOMAIN t}
         /\ Snapshot!ToSet(t) \subseteq S
         /\ IsFiniteSet(Snapshot!ToSet(t))
  <1>1. Snapshot!ToSet(t) = {t[k] : k \in DOMAIN t}
    BY DEF Snapshot!ToSet
  <1>2. DOMAIN t = 1..Len(t) /\ Len(t) \in Nat
    OBVIOUS
  <1>3. IsFiniteSet(DOMAIN t)
    BY <1>2, FS_Interval
  <1>4. IsFiniteSet({t[k] : k \in DOMAIN t})
    <2> PICK D : D = DOMAIN t
      OBVIOUS
    <2>1. IsFiniteSet(D)
      BY <1>3
    <2>2. IsFiniteSet({t[k] : k \in D})
      BY ONLY <2>1, D = DOMAIN t, ImageIsFinite
    <2> QED
      BY <2>2
  <1>5. \A k \in DOMAIN t : t[k] \in S
    OBVIOUS
  <1> QED
    BY <1>1, <1>4, <1>5

(* Merge: an edge as strict as all bounds, unless they contradict it.        *)
LEMMA MergeIs ==
  ASSUME NEW edges \in Seq(EdgeRecords), NEW edge \in EdgeRecords
  PROVE  /\ Snapshot!Merge(edges, edge) \in Seq(EdgeRecords)
         /\ \E s \in EdgeRecords :
              /\ s.to = edge.to /\ Strictest(s, BoundsWith(edges, edge))
              /\ \/ /\ s.min > s.max
                    /\ Snapshot!ToSet(Snapshot!Merge(edges, edge)) = Snapshot!ToSet(edges)
                 \/ /\ s.min <= s.max
                    /\ Snapshot!ToSet(Snapshot!Merge(edges, edge))
                         = {e \in Snapshot!ToSet(edges) : e.to # edge.to} \cup {s}
  <1> DEFINE same == {i \in DOMAIN edges : edges[i].to = edge.to}
             bounds == {edges[i] : i \in same} \cup {edge}
             mins == {b.min : b \in bounds}
             maxs == {b.max : b \in bounds}
             s == [to |-> edge.to, min |-> Snapshot!Max(mins), max |-> Snapshot!Min(maxs)]
             result == Snapshot!Merge(edges, edge)
  <1>1. bounds = BoundsWith(edges, edge)
    <2>1. {edges[i] : i \in same} = {e \in Snapshot!ToSet(edges) : e.to = edge.to}
      BY ToSetIs
    <2> QED
      BY <2>1 DEF BoundsWith
  <1>2. bounds \subseteq EdgeRecords /\ IsFiniteSet(bounds) /\ edge \in bounds
    <2>1. BoundsWith(edges, edge) \subseteq Snapshot!ToSet(edges) \cup {edge}
      BY DEF BoundsWith
    <2>2. Snapshot!ToSet(edges) \subseteq EdgeRecords /\ IsFiniteSet(Snapshot!ToSet(edges))
      BY ToSetIs
    <2>3. IsFiniteSet(Snapshot!ToSet(edges) \cup {edge})
      BY <2>2, FS_AddElement
    <2> QED
      BY <1>1, <2>1, <2>2, <2>3, FS_Subset
  <1>3. /\ mins \subseteq Nat /\ maxs \subseteq Nat /\ mins # {} /\ maxs # {}
        /\ IsFiniteSet(mins) /\ IsFiniteSet(maxs)
    <2> PICK B : B = bounds
      OBVIOUS
    <2>1. B \subseteq EdgeRecords /\ IsFiniteSet(B) /\ edge \in B
      BY <1>2
    <2>2. \A b \in B : b.min \in Nat /\ b.max \in Nat
      BY <2>1 DEF EdgeRecords
    <2> DEFINE f == [b \in B |-> b.min]
               g == [b \in B |-> b.max]
    <2>3. IsFiniteSet({f[b] : b \in B}) /\ IsFiniteSet({g[b] : b \in B})
      <3>1. DOMAIN f = B /\ DOMAIN g = B
        OBVIOUS
      <3> HIDE DEF f, g
      <3> QED
        BY <2>1, <3>1, ImageIsFinite
    <2>4. {f[b] : b \in B} = {b.min : b \in B} /\ {g[b] : b \in B} = {b.max : b \in B}
      OBVIOUS
    <2>5. /\ {b.min : b \in B} \subseteq Nat /\ {b.min : b \in B} # {}
          /\ {b.max : b \in B} \subseteq Nat /\ {b.max : b \in B} # {}
      BY <2>1, <2>2
    <2>6. mins = {b.min : b \in B} /\ maxs = {b.max : b \in B}
      OBVIOUS
    <2> HIDE DEF mins, maxs, f, g
    <2> QED
      BY <2>3, <2>4, <2>5, <2>6
  <1>4. /\ Snapshot!Max(mins) \in mins /\ \A x \in mins : x <= Snapshot!Max(mins)
        /\ Snapshot!Min(maxs) \in maxs /\ \A x \in maxs : Snapshot!Min(maxs) <= x
    <2> PICK lows, highs : lows = mins /\ highs = maxs
      OBVIOUS
    <2>1. /\ lows \subseteq Nat /\ highs \subseteq Nat /\ lows # {} /\ highs # {}
          /\ IsFiniteSet(lows)
      BY <1>3
    <2>2. /\ Snapshot!Max(lows) \in lows /\ \A x \in lows : x <= Snapshot!Max(lows)
          /\ Snapshot!Min(highs) \in highs /\ \A x \in highs : Snapshot!Min(highs) <= x
      BY ONLY <2>1, GreatestIs, LeastIs
    <2> QED
      BY <2>2
  <1>5. s \in EdgeRecords
    BY <1>3, <1>4 DEF EdgeRecords
  <1>6. Strictest(s, BoundsWith(edges, edge))
    <2>1. \A b \in bounds : b.min \in mins /\ b.max \in maxs
      OBVIOUS
    <2>2. /\ \E f \in bounds : f.min = Snapshot!Max(mins)
          /\ \E g \in bounds : g.max = Snapshot!Min(maxs)
      BY <1>4
    <2> PICK B, low, high : B = bounds /\ low = Snapshot!Max(mins) /\ high = Snapshot!Min(maxs)
      OBVIOUS
    <2>3. s.min = low /\ s.max = high
      OBVIOUS
    <2>4. /\ \A b \in B : b.min <= low /\ high <= b.max
          /\ \E f, g \in B : low = f.min /\ high = g.max
      BY <1>4, <2>1, <2>2
    <2> HIDE DEF s, bounds, mins, maxs
    <2> QED
      BY <1>1, <2>3, <2>4 DEF Strictest
  <1> PICK strict : strict = s
    OBVIOUS
  <1>7. result = IF strict.min > strict.max THEN edges
                 ELSE IF same = {} THEN Append(edges, strict)
                 ELSE Snapshot!Kept([edges EXCEPT ![Snapshot!Min(same)] = strict],
                                    (DOMAIN edges \ same) \cup {Snapshot!Min(same)})
    BY DEF Snapshot!Merge, Snapshot!Edge
  <1>8. /\ strict \in EdgeRecords /\ strict.to = edge.to
        /\ Strictest(strict, BoundsWith(edges, edge))
        /\ strict.min \in Nat /\ strict.max \in Nat
    BY <1>5, <1>6 DEF EdgeRecords
  <1> HIDE DEF s, bounds, mins, maxs, result
  <1>9. CASE strict.min > strict.max
    <2>1. result = edges
      BY <1>7, <1>9
    <2> QED
      BY <1>8, <1>9, <2>1 DEF result
  <1>10. ASSUME strict.min <= strict.max,
                /\ result \in Seq(EdgeRecords)
                /\ Snapshot!ToSet(result)
                     = {e \in Snapshot!ToSet(edges) : e.to # edge.to} \cup {strict}
         PROVE  /\ result \in Seq(EdgeRecords)
                /\ \E t \in EdgeRecords :
                     /\ t.to = edge.to /\ Strictest(t, BoundsWith(edges, edge))
                     /\ \/ t.min > t.max /\ Snapshot!ToSet(result) = Snapshot!ToSet(edges)
                        \/ /\ t.min <= t.max
                           /\ Snapshot!ToSet(result)
                                = {e \in Snapshot!ToSet(edges) : e.to # edge.to} \cup {t}
    BY <1>8, <1>10
  <1>11. CASE strict.min <= strict.max /\ same = {}
    <2>1. result = Append(edges, strict)
      BY <1>7, <1>8, <1>11
    <2>2. edges \in Seq(EdgeRecords) /\ strict \in EdgeRecords
      BY <1>8
    <2>3. result \in Seq(EdgeRecords)
      BY ONLY <2>1, <2>2
    <2>4. Snapshot!ToSet(result) = Snapshot!ToSet(edges) \cup {strict}
      BY ONLY <2>1, <2>2, AppendAdds
    <2>5. {e \in Snapshot!ToSet(edges) : e.to # edge.to} = Snapshot!ToSet(edges)
      BY <1>11, ToSetIs
    <2> QED
      BY <1>10, <1>11, <2>3, <2>4, <2>5 DEF result
  <1>12. CASE strict.min <= strict.max /\ same # {}
    <2> PICK S, place, changed, places :
          /\ S = same /\ place = Snapshot!Min(S)
          /\ changed = [edges EXCEPT ![place] = strict]
          /\ places = (DOMAIN edges \ S) \cup {place}
      OBVIOUS
    <2>1. place \in DOMAIN edges /\ edges[place].to = edge.to
      <3>1. S \subseteq Nat /\ S # {}
        BY <1>12
      <3>2. place \in S
        BY <3>1, LeastIs
      <3> QED
        BY <3>2
    <2>2. changed \in Seq(EdgeRecords) /\ DOMAIN changed = DOMAIN edges
      BY <1>8, <2>1
    <2>3. changed[place] = strict /\ \A k \in DOMAIN edges : k # place => changed[k] = edges[k]
      BY <2>1
    <2>4. result = Snapshot!Kept(changed, places)
      BY <1>7, <1>8, <1>12
    <2>5. /\ result \in Seq(EdgeRecords)
          /\ Snapshot!ToSet(result) = {changed[k] : k \in places \cap DOMAIN changed}
      BY ONLY <2>2, <2>4, KeptIs
    <2>6. places \cap DOMAIN changed = {k \in DOMAIN edges : edges[k].to # edge.to} \cup {place}
      BY <2>1, <2>2
    <2> PICK others : others = {j \in DOMAIN edges : edges[j].to # edge.to}
      OBVIOUS
    <2>7. {changed[k] : k \in places \cap DOMAIN changed}
            = {edges[k] : k \in others} \cup {strict}
      <3>1. \A k \in others : changed[k] = edges[k]
        BY <2>1, <2>3
      <3>2. places \cap DOMAIN changed = others \cup {place}
        BY <2>6
      <3>3. changed[place] = strict
        BY <2>3
      <3>4. {changed[k] : k \in others \cup {place}} = {changed[k] : k \in others} \cup {strict}
        BY ONLY <3>3
      <3>5. {changed[k] : k \in others} = {edges[k] : k \in others}
        BY ONLY <3>1
      <3> QED
        BY ONLY <3>2, <3>4, <3>5
    <2>8. {edges[k] : k \in others}
            = {e \in Snapshot!ToSet(edges) : e.to # edge.to}
      BY ToSetIs
    <2>9. Snapshot!ToSet(result) = {e \in Snapshot!ToSet(edges) : e.to # edge.to} \cup {strict}
      BY <2>5, <2>7, <2>8
    <2> QED
      BY <1>10, <1>12, <2>5, <2>9 DEF result
  <1> QED
    BY <1>8, <1>9, <1>11, <1>12 DEF result

LEMMA SeqNarrows ==
  ASSUME NEW S, NEW T, NEW t \in Seq(S), Snapshot!ToSet(t) \subseteq T
  PROVE  t \in Seq(T)
  <1>1. \A k \in 1..Len(t) : t[k] \in T
    BY DEF Snapshot!ToSet
  <1> QED
    BY <1>1

(* An edge among them is at least as strict as the bound; or one is, or none *)
(* could be.                                                                 *)
KeepsBound(R, b) == \E m \in R : m.to = b.to /\ Snapshot!Within(m, b)

MeetsBound(R, b) ==
  KeepsBound(R, b) \/ Snapshot!Contradict({m \in R : m.to = b.to} \cup {b})

(* What a merge leaves of a set of edges. *)
MergedSet(R, s) == {e \in R : e.to # s.to} \cup {s}

(* A stricter edge in the place of others breaks no bound that was met. *)
LEMMA MergedMeets ==
  ASSUME NEW R \in SUBSET EdgeRecords, NEW s \in EdgeRecords, s.min <= s.max,
         \A e \in R : e.to = s.to => e.min <= s.min /\ s.max <= e.max,
         NEW b \in EdgeRecords
  PROVE  /\ KeepsBound(R, b) => KeepsBound(MergedSet(R, s), b)
         /\ MeetsBound(R, b) => MeetsBound(MergedSet(R, s), b)
  <1> PICK M : M = MergedSet(R, s)
    OBVIOUS
  <1>1. \A e \in R : e.to = s.to \/ e \in M
    BY DEF MergedSet
  <1>2. s \in M /\ M \subseteq EdgeRecords
    BY DEF MergedSet
  <1>3. /\ \A e \in EdgeRecords : e.min \in Nat /\ e.max \in Nat
        /\ \A e \in R : e \in EdgeRecords
    BY DEF EdgeRecords
  <1>4. ASSUME KeepsBound(R, b)  PROVE KeepsBound(M, b)
    <2>1. PICK m \in R : m.to = b.to /\ Snapshot!Within(m, b)
      BY <1>4 DEF KeepsBound
    <2>2. CASE m \in M
      BY <2>1, <2>2 DEF KeepsBound
    <2>3. CASE m.to = s.to
      <3>1. Snapshot!Within(s, b)
        BY <1>3, <2>1, <2>3 DEF Snapshot!Within
      <3> QED
        BY <1>2, <2>1, <2>3, <3>1 DEF KeepsBound
    <2> QED
      BY <1>1, <2>2, <2>3
  <1>5. ASSUME Snapshot!Contradict({m \in R : m.to = b.to} \cup {b})
        PROVE  Snapshot!Contradict({m \in M : m.to = b.to} \cup {b})
    <2>1. PICK e, f \in {m \in R : m.to = b.to} \cup {b} : e.min > f.max
      BY <1>5 DEF Snapshot!Contradict
    <2>2. ASSUME NEW x \in {m \in R : m.to = b.to} \cup {b}
          PROVE  \E y \in {m \in M : m.to = b.to} \cup {b} : x.min <= y.min /\ y.max <= x.max
      <3>1. CASE x = b \/ x \in M
        BY <1>3, <2>2, <3>1
      <3>2. CASE x \in R /\ x.to = b.to /\ x.to = s.to
        <4>1. s \in {m \in M : m.to = b.to} /\ x.min <= s.min /\ s.max <= x.max
          BY <1>2, <3>2
        <4> QED
          BY <4>1
      <3> QED
        BY <1>1, <2>2, <3>1, <3>2
    <2>3. PICK g \in {m \in M : m.to = b.to} \cup {b} : e.min <= g.min
      BY <2>2
    <2>4. PICK h \in {m \in M : m.to = b.to} \cup {b} : h.max <= f.max
      BY <2>2
    <2>5. /\ e \in EdgeRecords /\ f \in EdgeRecords /\ g \in EdgeRecords /\ h \in EdgeRecords
      BY <1>2, <1>3, <2>1, <2>3, <2>4
    <2>6. g.min > h.max
      BY <1>3, <2>1, <2>3, <2>4, <2>5
    <2> QED
      BY <2>3, <2>4, <2>6 DEF Snapshot!Contradict
  <1> QED
    BY <1>4, <1>5 DEF MeetsBound

(* The edges of a routine after its first n requirements. *)
Orderly(R, s, r, n) ==
  /\ \A e \in R : /\ Snapshot!Sound(e)
                  /\ \E f, g \in Snapshot!Given(s, r) : /\ f.to = e.to /\ f.min = e.min
                                                        /\ g.to = e.to /\ g.max = e.max
  /\ \A b \in Snapshot!ToSet(Snapshot!Explicit(s, r)) : KeepsBound(R, b)
  /\ \A k \in 1..n : LET q == s.routines[r].requires[k]
                     IN Snapshot!Resolvable(s, r, q) => MeetsBound(R, Snapshot!EdgeFor(s, r, q))

LEMMA ExplicitIs ==
  ASSUME NEW s \in Snapshots, NEW r \in Snapshot!MappedRoutines(s)
  PROVE  /\ Snapshot!Explicit(s, r) \in Seq(EdgeRecords)
         /\ \A e \in Snapshot!ToSet(Snapshot!Explicit(s, r)) : Snapshot!Sound(e)
  <1> PICK after : after = s.routines[r].after
    OBVIOUS
  <1> DEFINE Raw == [to : STRING, min : Int, max : Int]
             places == {k \in DOMAIN after : /\ after[k].to \in Snapshot!MappedRoutines(s) \ {r}
                                             /\ Snapshot!Sound(after[k])}
             kept == Snapshot!Explicit(s, r)
  <1>1. after \in Seq(Raw)
    BY ImportConstants DEF Snapshot!MappedRoutines
  <1>2. kept = Snapshot!Kept(after, places)
    BY DEF Snapshot!Explicit
  <1>3. kept \in Seq(Raw) /\ Snapshot!ToSet(kept) = {after[k] : k \in places \cap DOMAIN after}
    <2> PICK S, P : S = Raw /\ P = places
      OBVIOUS
    <2>1. after \in Seq(S) /\ kept = Snapshot!Kept(after, P)
      BY <1>1, <1>2
    <2>2. kept \in Seq(S) /\ Snapshot!ToSet(kept) = {after[k] : k \in P \cap DOMAIN after}
      BY ONLY <2>1, KeptIs
    <2> QED
      BY <2>2
  <1>4. \A e \in Snapshot!ToSet(kept) : Snapshot!Sound(e) /\ e \in EdgeRecords
    <2>1. \A k \in DOMAIN after : after[k] \in Raw
      <3> PICK S : S = Raw
        OBVIOUS
      <3>1. after \in Seq(S)
        BY <1>1
      <3>2. \A k \in DOMAIN after : after[k] \in S
        BY ONLY <3>1
      <3> QED
        BY <3>2
    <2>2. ASSUME NEW e \in Raw, Snapshot!Sound(e)  PROVE e \in EdgeRecords
      <3>1. e.min \in Nat /\ e.max \in Nat
        BY <2>2 DEF Snapshot!Sound
      <3> QED
        BY <3>1 DEF EdgeRecords
    <2> QED
      BY <1>3, <2>1, <2>2
  <1>5. kept \in Seq(EdgeRecords)
    <2> PICK S : S = Raw
      OBVIOUS
    <2>1. kept \in Seq(S) /\ Snapshot!ToSet(kept) \subseteq EdgeRecords
      BY <1>3, <1>4
    <2> QED
      BY ONLY <2>1, SeqNarrows
  <1> QED
    BY <1>4, <1>5

LEMMA EdgeForIs ==
  ASSUME NEW s \in Snapshots, NEW r \in Snapshot!MappedRoutines(s),
         NEW q \in [fact : STRING, min : Int, max : Int], Snapshot!Resolvable(s, r, q)
  PROVE  /\ Snapshot!EdgeFor(s, r, q) \in EdgeRecords
         /\ Snapshot!Nearest(s, r, q.fact) = {Snapshot!EdgeFor(s, r, q).to}
         /\ Snapshot!EdgeFor(s, r, q).min = q.min /\ Snapshot!EdgeFor(s, r, q).max = q.max
         /\ Snapshot!Sound(Snapshot!EdgeFor(s, r, q))
  <1> PICK to : to = CHOOSE e \in Snapshot!MappedRoutines(s) : Snapshot!Nearest(s, r, q.fact) = {e}
    OBVIOUS
  <1>1. /\ \E e \in Snapshot!MappedRoutines(s) : Snapshot!Nearest(s, r, q.fact) = {e}
        /\ 0 <= q.min /\ q.min <= q.max
    BY DEF Snapshot!Resolvable, Snapshot!Sound
  <1>2. to \in Snapshot!MappedRoutines(s) /\ Snapshot!Nearest(s, r, q.fact) = {to}
    BY <1>1
  <1>3. to \in STRING
    BY <1>2, ImportConstants DEF Snapshot!MappedRoutines
  <1> PICK edge : edge = Snapshot!EdgeFor(s, r, q)
    OBVIOUS
  <1>4. edge = [to |-> to, min |-> q.min, max |-> q.max]
    BY DEF Snapshot!EdgeFor, Snapshot!Edge
  <1>5. q.min \in Nat /\ q.max \in Nat
    BY <1>1
  <1>6. edge \in EdgeRecords
    BY <1>3, <1>4, <1>5 DEF EdgeRecords
  <1> QED
    BY <1>1, <1>2, <1>4, <1>6 DEF Snapshot!Sound

(* One requirement more. *)
LEMMA MergeIsOrderly ==
  ASSUME NEW s \in Snapshots, NEW r \in Snapshot!MappedRoutines(s),
         NEW n \in Nat, n + 1 \in 1..Len(s.routines[r].requires),
         NEW edges \in Seq(EdgeRecords), Orderly(Snapshot!ToSet(edges), s, r, n),
         NEW edge, edge = Snapshot!EdgeFor(s, r, s.routines[r].requires[n + 1]),
         Snapshot!Resolvable(s, r, s.routines[r].requires[n + 1])
  PROVE  /\ Snapshot!Merge(edges, edge) \in Seq(EdgeRecords)
         /\ Orderly(Snapshot!ToSet(Snapshot!Merge(edges, edge)), s, r, n + 1)
  <1> PICK R, M : R = Snapshot!ToSet(edges) /\ M = Snapshot!ToSet(Snapshot!Merge(edges, edge))
    OBVIOUS
  <1> PICK requires : requires = s.routines[r].requires
    OBVIOUS
  <1>1. requires \in Seq([fact : STRING, min : Int, max : Int])
    BY ImportConstants DEF Snapshot!MappedRoutines
  <1>2. \A k \in 1..(n + 1) : requires[k] \in [fact : STRING, min : Int, max : Int]
    <2> PICK S : S = [fact : STRING, min : Int, max : Int]
      OBVIOUS
    <2>1. requires \in Seq(S) /\ n \in Nat /\ n + 1 \in 1..Len(requires)
      BY <1>1
    <2>2. \A k \in 1..(n + 1) : requires[k] \in S
      BY ONLY <2>1
    <2> QED
      BY <2>2
  <1>3. edge \in EdgeRecords /\ Snapshot!Sound(edge)
    BY <1>2, EdgeForIs
  <1>4. R \in SUBSET EdgeRecords
    BY ToSetIs
  <1>5. Snapshot!Merge(edges, edge) \in Seq(EdgeRecords)
    BY ONLY <1>3, edges \in Seq(EdgeRecords), MergeIs
  <1>6. PICK strict \in EdgeRecords :
          /\ strict.to = edge.to /\ Strictest(strict, BoundsWith(edges, edge))
          /\ \/ strict.min > strict.max /\ M = R
             \/ /\ strict.min <= strict.max
                /\ M = {e \in R : e.to # edge.to} \cup {strict}
    <2>1. edges \in Seq(EdgeRecords) /\ edge \in EdgeRecords
      BY <1>3
    <2>2. \E t \in EdgeRecords :
            /\ t.to = edge.to /\ Strictest(t, BoundsWith(edges, edge))
            /\ \/ /\ t.min > t.max
                  /\ Snapshot!ToSet(Snapshot!Merge(edges, edge)) = Snapshot!ToSet(edges)
               \/ /\ t.min <= t.max
                  /\ Snapshot!ToSet(Snapshot!Merge(edges, edge))
                       = {e \in Snapshot!ToSet(edges) : e.to # edge.to} \cup {t}
      BY ONLY <2>1, MergeIs
    <2> QED
      BY <2>2
  <1>7. /\ \A b \in R : b.to = edge.to => b.min <= strict.min /\ strict.max <= b.max
        /\ edge.min <= strict.min /\ strict.max <= edge.max
        /\ \E f, g \in {e \in R : e.to = edge.to} \cup {edge} :
             strict.min = f.min /\ strict.max = g.max
    BY <1>6 DEF Strictest, BoundsWith
  <1>8. edge \in Snapshot!Given(s, r)
    <2>1. requires[n + 1] \in Snapshot!ToSet(requires)
      <3>1. n + 1 \in DOMAIN requires
        BY <1>1
      <3> QED
        BY ONLY <3>1 DEF Snapshot!ToSet
    <2> QED
      BY <2>1 DEF Snapshot!Given
  <1>9. /\ \A e \in R : /\ Snapshot!Sound(e)
                        /\ \E f, g \in Snapshot!Given(s, r) : /\ f.to = e.to /\ f.min = e.min
                                                              /\ g.to = e.to /\ g.max = e.max
        /\ \A b \in Snapshot!ToSet(Snapshot!Explicit(s, r)) : KeepsBound(R, b)
        /\ \A k \in 1..n : Snapshot!Resolvable(s, r, requires[k])
                             => MeetsBound(R, Snapshot!EdgeFor(s, r, requires[k]))
    BY DEF Orderly
  <1>10. ASSUME \A e \in M : /\ Snapshot!Sound(e)
                             /\ \E f, g \in Snapshot!Given(s, r) :
                                  /\ f.to = e.to /\ f.min = e.min
                                  /\ g.to = e.to /\ g.max = e.max,
                \A b \in EdgeRecords : /\ KeepsBound(R, b) => KeepsBound(M, b)
                                       /\ MeetsBound(R, b) => MeetsBound(M, b),
                MeetsBound(M, edge)
         PROVE  Orderly(M, s, r, n + 1)
    <2>1. \A b \in Snapshot!ToSet(Snapshot!Explicit(s, r)) : b \in EdgeRecords
      <3>1. Snapshot!Explicit(s, r) \in Seq(EdgeRecords)
        BY ExplicitIs
      <3> QED
        BY <3>1, ToSetIs
    <2>2. \A b \in Snapshot!ToSet(Snapshot!Explicit(s, r)) : KeepsBound(M, b)
      BY <1>9, <1>10, <2>1
    <2>3. ASSUME NEW k \in 1..(n + 1), Snapshot!Resolvable(s, r, requires[k])
          PROVE  MeetsBound(M, Snapshot!EdgeFor(s, r, requires[k]))
      <3>1. CASE k = n + 1
        BY <1>10, <3>1
      <3>2. CASE k # n + 1
        <4>1. k \in 1..n
          BY <3>2
        <4>2. Snapshot!EdgeFor(s, r, requires[k]) \in EdgeRecords
          BY <1>2, <2>3, EdgeForIs
        <4> QED
          BY <1>9, <1>10, <2>3, <4>1, <4>2
      <3> QED
        BY <3>1, <3>2
    <2> QED
      BY <1>10, <2>2, <2>3 DEF Orderly
  <1>11. /\ \A e \in EdgeRecords : e.min \in Nat /\ e.max \in Nat
         /\ strict \in EdgeRecords
    BY <1>6 DEF EdgeRecords
  <1>12. CASE strict.min > strict.max /\ M = R
    <2>1. PICK f, g \in {e \in R : e.to = edge.to} \cup {edge} :
            strict.min = f.min /\ strict.max = g.max
      BY <1>7
    <2>2. f.min > g.max
      BY <1>12, <2>1
    <2>3. Snapshot!Contradict({e \in R : e.to = edge.to} \cup {edge})
      BY <2>2 DEF Snapshot!Contradict
    <2>4. MeetsBound(M, edge)
      BY <1>12, <2>3 DEF MeetsBound
    <2> QED
      BY <1>5, <1>9, <1>10, <1>12, <2>4
  <1>13. CASE strict.min <= strict.max /\ M = {e \in R : e.to # edge.to} \cup {strict}
    <2>1. M = MergedSet(R, strict)
      BY <1>6, <1>13 DEF MergedSet
    <2>2. \A b \in EdgeRecords : /\ KeepsBound(R, b) => KeepsBound(M, b)
                                 /\ MeetsBound(R, b) => MeetsBound(M, b)
      <3>1. /\ R \in SUBSET EdgeRecords /\ strict \in EdgeRecords /\ strict.min <= strict.max
            /\ \A e \in R : e.to = strict.to => e.min <= strict.min /\ strict.max <= e.max
        BY <1>4, <1>6, <1>7, <1>13
      <3> QED
        BY ONLY <2>1, <3>1, MergedMeets
    <2>3. MeetsBound(M, edge)
      <3>1. Snapshot!Within(strict, edge)
        BY <1>3, <1>7, <1>11 DEF Snapshot!Within
      <3>2. strict \in M /\ strict.to = edge.to
        BY <1>6, <1>13
      <3> QED
        BY <3>1, <3>2 DEF MeetsBound, KeepsBound
    <2>4. ASSUME NEW e \in M
          PROVE  /\ Snapshot!Sound(e)
                 /\ \E f, g \in Snapshot!Given(s, r) : /\ f.to = e.to /\ f.min = e.min
                                                       /\ g.to = e.to /\ g.max = e.max
      <3>1. CASE e \in R
        BY <1>9, <3>1
      <3>2. CASE e = strict
        <4>1. Snapshot!Sound(e)
          BY <1>11, <1>13, <3>2 DEF Snapshot!Sound
        <4> PICK G : G = Snapshot!Given(s, r)
          OBVIOUS
        <4>2. PICK f, g \in {b \in R : b.to = edge.to} \cup {edge} :
                strict.min = f.min /\ strict.max = g.max
          BY <1>7
        <4>3. ASSUME NEW x \in {b \in R : b.to = edge.to} \cup {edge}
              PROVE  /\ \E y \in G : y.to = edge.to /\ y.min = x.min
                     /\ \E y \in G : y.to = edge.to /\ y.max = x.max
          <5>1. CASE x = edge
            BY <1>8, <5>1
          <5>2. CASE x \in R /\ x.to = edge.to
            <6>1. \E y, z \in G : y.to = x.to /\ y.min = x.min /\ z.to = x.to /\ z.max = x.max
              BY <1>9, <5>2
            <6> QED
              BY ONLY <5>2, <6>1
          <5> QED
            BY <5>1, <5>2
        <4>4. PICK y \in G : y.to = edge.to /\ y.min = f.min
          BY <4>2, <4>3
        <4>5. PICK z \in G : z.to = edge.to /\ z.max = g.max
          BY <4>2, <4>3
        <4>6. /\ y.to = e.to /\ y.min = e.min
              /\ z.to = e.to /\ z.max = e.max
          BY ONLY <1>6, <3>2, <4>2, <4>4, <4>5
        <4> QED
          BY <4>1, <4>6
      <3> QED
        BY <1>13, <3>1, <3>2
    <2> QED
      BY <1>5, <1>10, <2>2, <2>3, <2>4
  <1> QED
    BY <1>6, <1>12, <1>13

(* After: the requirements merged one by one into what is explicit. *)
LEMMA AfterIs ==
  ASSUME NEW s \in Snapshots, NEW r \in Snapshot!MappedRoutines(s)
  PROVE  Orderly(Snapshot!ToSet(Snapshot!After(s, r)), s, r, Len(s.routines[r].requires))
  <1> PICK requires, explicit, T :
        /\ requires = s.routines[r].requires /\ explicit = Snapshot!Explicit(s, r)
        /\ T = Seq(EdgeRecords)
    OBVIOUS
  <1>1. requires \in Seq([fact : STRING, min : Int, max : Int])
    BY ImportConstants DEF Snapshot!MappedRoutines
  <1> PICK n \in Nat : n = Len(requires)
    BY <1>1
  <1>2. \A k \in 1..n : requires[k] \in [fact : STRING, min : Int, max : Int]
    <2> PICK S : S = [fact : STRING, min : Int, max : Int]
      OBVIOUS
    <2>1. requires \in Seq(S) /\ n = Len(requires)
      BY <1>1
    <2>2. \A k \in 1..n : requires[k] \in S
      BY ONLY <2>1
    <2> QED
      BY <2>2
  <1> DEFINE More(k, t) == IF Snapshot!Resolvable(s, r, requires[k])
                             THEN Snapshot!Merge(t, Snapshot!EdgeFor(s, r, requires[k])) ELSE t
             Up(g) == [k \in 0..Len(requires) |-> IF k = 0 THEN explicit ELSE More(k, g[k - 1])]
             step == [k \in 1..n |-> [t \in T |-> More(k, t)]]
  <1>3. explicit \in T
    BY ExplicitIs
  <1>4. ASSUME NEW k \in 1..n, NEW t \in T  PROVE More(k, t) \in T
    <2>1. CASE Snapshot!Resolvable(s, r, requires[k])
      <3> PICK edge : edge = Snapshot!EdgeFor(s, r, requires[k])
        OBVIOUS
      <3>1. edge \in EdgeRecords
        BY <1>2, <2>1, EdgeForIs
      <3>2. t \in Seq(EdgeRecords)
        OBVIOUS
      <3>3. Snapshot!Merge(t, edge) \in Seq(EdgeRecords)
        BY ONLY <3>1, <3>2, MergeIs
      <3> QED
        BY <2>1, <3>3
    <2>2. CASE ~ Snapshot!Resolvable(s, r, requires[k])
      BY <2>2
    <2> QED
      BY <2>1, <2>2
  <1>5. PICK h : /\ h \in [0..n -> T] /\ h[0] = explicit
                 /\ \A k \in 1..n : h[k] = More(k, h[k - 1])
    <2> HIDE DEF More
    <2>1. step \in [1..n -> [T -> T]]
      BY <1>4
    <2>2. \A k \in 1..n, t \in T : step[k][t] = More(k, t)
      OBVIOUS
    <2> HIDE DEF step
    <2> PICK f : f = step
      OBVIOUS
    <2>3. explicit \in T /\ f \in [1..n -> [T -> T]] /\ n \in Nat
      BY <1>3, <2>1
    <2>4. PICK h : h \in [0..n -> T] /\ h[0] = explicit /\ \A k \in 1..n : h[k] = f[k][h[k - 1]]
      BY ONLY <2>3, RecursionHolds
    <2>5. ASSUME NEW k \in 1..n  PROVE h[k] = More(k, h[k - 1])
      <3>1. k - 1 \in 0..n
        OBVIOUS
      <3>2. h[k - 1] \in T
        BY <2>4, <3>1
      <3>3. f[k][h[k - 1]] = More(k, h[k - 1])
        BY <2>2, <3>2
      <3> QED
        BY <2>4, <3>3
    <2> QED
      BY <2>4, <2>5
  <1>6. h = Up(h)
    <2>1. \A k \in 0..n : h[k] = IF k = 0 THEN explicit ELSE More(k, h[k - 1])
      <3>1. \A k \in 0..n : k = 0 \/ k \in 1..n
        OBVIOUS
      <3>2. \A k \in 1..n : k # 0
        OBVIOUS
      <3> HIDE DEF More
      <3> QED
        BY <1>5, <3>1, <3>2
    <2> HIDE DEF More
    <2> QED
      BY <1>5, <2>1
  <1> PICK up : up = CHOOSE g : g = Up(g)
    OBVIOUS
  <1>7. Snapshot!After(s, r) = up[n]
    BY DEF Snapshot!After
  <1>8. /\ up[0] = explicit
        /\ \A k \in 1..n : up[k] = More(k, up[k - 1])
    <2>1. up = Up(up)
      <3> HIDE DEF Up
      <3> QED
        BY <1>6
    <2> HIDE DEF More
    <2>2. \A k \in 0..n : up[k] = IF k = 0 THEN explicit ELSE More(k, up[k - 1])
      BY <2>1
    <2>3. \A k \in 1..n : k \in 0..n /\ k # 0
      OBVIOUS
    <2>4. 0 \in 0..n
      OBVIOUS
    <2> QED
      BY <2>2, <2>3, <2>4
  <1> DEFINE Fine == {m \in Nat : m <= n => /\ up[m] \in T
                                            /\ Orderly(Snapshot!ToSet(up[m]), s, r, m)}
  <1>9. 0 \in Fine
    <2> PICK R : R = Snapshot!ToSet(explicit)
      OBVIOUS
    <2>1. /\ R \subseteq EdgeRecords /\ R \subseteq Snapshot!Given(s, r)
          /\ \A e \in R : Snapshot!Sound(e)
      BY <1>3, ExplicitIs, ToSetIs DEF Snapshot!Given
    <2>2. \A b \in R : KeepsBound(R, b)
      <3>1. \A b \in R : b.min \in Nat /\ b.max \in Nat
        BY <2>1 DEF EdgeRecords
      <3> QED
        BY <3>1 DEF KeepsBound, Snapshot!Within
    <2>3. Orderly(R, s, r, 0)
      <3>1. 1..0 = {}
        OBVIOUS
      <3> QED
        BY <2>1, <2>2, <3>1 DEF Orderly
    <2> QED
      BY <1>3, <1>8, <2>3
  <1>10. ASSUME NEW m \in Nat, m \in Fine  PROVE m + 1 \in Fine
    <2>1. SUFFICES ASSUME m + 1 <= n
                   PROVE  up[m + 1] \in T /\ Orderly(Snapshot!ToSet(up[m + 1]), s, r, m + 1)
      OBVIOUS
    <2> PICK t : t = up[m]
      OBVIOUS
    <2>2. t \in T /\ Orderly(Snapshot!ToSet(t), s, r, m)
      <3>1. m <= n
        BY <2>1
      <3> QED
        BY <1>10, <3>1
    <2>3. m + 1 \in 1..n /\ (m + 1) - 1 = m
      BY <2>1
    <2>4. up[m + 1] = More(m + 1, t)
      BY <1>8, <2>3
    <2>5. CASE Snapshot!Resolvable(s, r, requires[m + 1])
      <3> PICK edge : edge = Snapshot!EdgeFor(s, r, requires[m + 1])
        OBVIOUS
      <3>1. up[m + 1] = Snapshot!Merge(t, edge)
        BY <2>4, <2>5
      <3>2. t \in Seq(EdgeRecords) /\ m + 1 \in 1..Len(s.routines[r].requires)
        BY <2>2, <2>3
      <3>3. /\ Snapshot!Merge(t, edge) \in Seq(EdgeRecords)
            /\ Orderly(Snapshot!ToSet(Snapshot!Merge(t, edge)), s, r, m + 1)
        BY <2>2, <2>5, <3>2, MergeIsOrderly
      <3> QED
        BY <3>1, <3>3
    <2>6. CASE ~ Snapshot!Resolvable(s, r, requires[m + 1])
      <3>1. up[m + 1] = t
        BY <2>4, <2>6
      <3>2. \A k \in 1..(m + 1) : k \in 1..m \/ k = m + 1
        OBVIOUS
      <3> HIDE DEF More, Up, step, Fine
      <3>3. Orderly(Snapshot!ToSet(t), s, r, m + 1)
        BY <2>2, <2>6, <3>2 DEF Orderly
      <3> QED
        BY <2>2, <3>1, <3>3
    <2> QED
      BY <2>5, <2>6
  <1>11. n \in Fine
    <2> HIDE DEF Fine
    <2> QED
      BY <1>9, <1>10, NumbersInduct
  <1> HIDE DEF More, Up, step
  <1>12. Orderly(Snapshot!ToSet(up[n]), s, r, n)
    BY <1>11
  <1> HIDE DEF Fine
  <1> QED
    BY <1>7, <1>12

(* What a run writes it read of a snapshot. *)
FilesAre == \A i \in Importers : importJob[i].pc = "write" => importJob[i].file \in Snapshots

(* A change of one run. *)
LEMMA RunChanged ==
  ASSUME RunsHold, NEW i \in Importers, NEW new, importJob' = [importJob EXCEPT ![i] = new]
  PROVE  \A l \in Importers : importJob'[l] = IF l = i THEN new ELSE importJob[l]
  <1>1. importJob = [l \in Importers |-> importJob[l]]
    BY DEF RunsHold
  <1>2. importJob' = [l \in Importers |-> IF l = i THEN new ELSE importJob[l]]
    BY <1>1
  <1> QED
    BY <1>2

LEMMA FilesStep == ImportsInv /\ FilesAre /\ [Snapshot!Next]_importVars => FilesAre'
  <1> SUFFICES ASSUME ImportsInv, FilesAre, [Snapshot!Next]_importVars  PROVE FilesAre'
    OBVIOUS
  <1>1. CASE UNCHANGED importJob
    BY <1>1 DEF FilesAre
  <1>2. ASSUME NEW i \in Importers, NEW new, importJob' = [importJob EXCEPT ![i] = new],
               new.pc = "write" => new.file \in Snapshots
        PROVE  FilesAre'
    <2>1. \A l \in Importers : importJob'[l] = IF l = i THEN new ELSE importJob[l]
      BY <1>2, RunChanged DEF ImportsInv
    <2> QED
      BY <1>2, <2>1 DEF FilesAre
  <1>3. ASSUME NEW i \in Importers, Snapshot!Begin(i)  PROVE FilesAre'
    <2>1. CASE ~ UNCHANGED importJob
      <3>1. PICK s, T : s \in Snapshots /\ importJob' = [importJob EXCEPT ![i] =
                [pc |-> "write", file |-> s, existing |-> Snapshot!Existing, todo |-> T]]
        BY <1>3, <2>1 DEF Snapshot!Begin
      <3> PICK new : new = [pc |-> "write", file |-> s, existing |-> Snapshot!Existing,
                            todo |-> T]
        OBVIOUS
      <3>2. importJob' = [importJob EXCEPT ![i] = new] /\ new.file \in Snapshots
        BY <3>1
      <3> QED
        BY <1>2, <3>2
    <2> QED
      BY <1>1, <2>1
  <1>4. ASSUME NEW i \in Importers, Snapshot!Leave(i)  PROVE FilesAre'
    BY <1>2, <1>4 DEF Snapshot!Leave, Snapshot!Idle
  <1>5. ASSUME NEW i \in Importers, NEW m \in importJob[i].todo, Snapshot!WriteNext(i, m)
        PROVE  FilesAre'
    <2>1. importJob[i].pc = "write" /\ (Snapshot!Leave(i) \/ Snapshot!Passed(i, m))
      BY <1>5 DEF Snapshot!WriteNext
    <2>2. CASE Snapshot!Passed(i, m)
      <3> PICK new : new = [importJob[i] EXCEPT !.todo = @ \ {m}]
        OBVIOUS
      <3>1. importJob' = [importJob EXCEPT ![i] = new]
        BY <2>2 DEF Snapshot!Passed
      <3>2. IsImport(importJob[i]) /\ importJob[i].file \in Snapshots
        BY <2>1 DEF ImportsInv, RunsHold, FilesAre
      <3>3. new.file \in Snapshots
        BY <3>2 DEF IsImport
      <3> QED
        BY <1>2, <3>1, <3>3
    <2> QED
      BY <1>4, <2>1, <2>2
  <1> QED
    <2>1. CASE Snapshot!Operate
      BY <1>1, <2>1 DEF Snapshot!Operate
    <2>2. ASSUME NEW i \in Importers, Snapshot!End(i) \/ Snapshot!Break(i)  PROVE FilesAre'
      BY <1>4, <2>2 DEF Snapshot!End, Snapshot!Break
    <2>3. CASE UNCHANGED importVars
      BY <1>1, <2>3 DEF importVars
    <2> QED
      BY <1>3, <1>5, <2>1, <2>2, <2>3 DEF Snapshot!Next

(* quick_ubu_import.rs: for every snapshot, the order an import writes for a *)
(* routine keeps or narrows every bound of after and meets every requirement *)
(* with one nearest establisher, unless no delay suits it and what is kept;  *)
(* and each edge has bounds that were given.                                 *)
THEOREM ImportsKeepOrder == ServicesSpec => []OrderIsKept
  <1>1. ServicesInit => FilesAre
    BY DEF ServicesInit, Snapshot!Init, Snapshot!Idle, FilesAre
  <1>2. /\ ImportsInv /\ FilesAre
        /\ [ServicesNext]_<<part, faults, vars, labelVars, importVars, seedVars, lockVars>>
        => FilesAre'
    <2>1. [ServicesNext]_<<part, faults, vars, labelVars, importVars, seedVars, lockVars>>
            => [Snapshot!Next]_importVars
      BY DEF ServicesNext
    <2> QED
      BY <2>1, FilesStep
  <1>3. FilesAre => OrderIsKept
    <2>1. SUFFICES ASSUME NEW s \in Snapshots, NEW r \in Snapshot!MappedRoutines(s)
                   PROVE  LET edges == Snapshot!ToSet(Snapshot!After(s, r))
                          IN /\ \A f \in Snapshot!ToSet(Snapshot!Explicit(s, r)) :
                                  \E e \in edges : e.to = f.to /\ Snapshot!Within(e, f)
                             /\ \A q \in Snapshot!ToSet(s.routines[r].requires) :
                                  Snapshot!Resolvable(s, r, q) =>
                                    LET kept == {e \in edges : Snapshot!Nearest(s, r, q.fact) = {e.to}}
                                    IN \/ \E e \in kept : Snapshot!Within(e, q)
                                       \/ Snapshot!Contradict(kept \cup {q})
                             /\ \A e \in edges :
                                  /\ Snapshot!Sound(e)
                                  /\ \E f, g \in Snapshot!Given(s, r) :
                                       /\ f.to = e.to /\ f.min = e.min
                                       /\ g.to = e.to /\ g.max = e.max
      BY DEF FilesAre, OrderIsKept, Snapshot!OrderIsKept
    <2> PICK R : R = Snapshot!ToSet(Snapshot!After(s, r))
      OBVIOUS
    <2> PICK requires : requires = s.routines[r].requires
      OBVIOUS
    <2>2. Orderly(R, s, r, Len(requires))
      BY AfterIs
    <2>3. ASSUME NEW q \in Snapshot!ToSet(requires), Snapshot!Resolvable(s, r, q)
          PROVE  LET kept == {e \in R : Snapshot!Nearest(s, r, q.fact) = {e.to}}
                 IN \/ \E e \in kept : Snapshot!Within(e, q)
                    \/ Snapshot!Contradict(kept \cup {q})
      <3>1. requires \in Seq([fact : STRING, min : Int, max : Int])
        BY ImportConstants DEF Snapshot!MappedRoutines
      <3>2. q \in [fact : STRING, min : Int, max : Int] /\ \E k \in 1..Len(requires) : q = requires[k]
        <4> PICK S : S = [fact : STRING, min : Int, max : Int]
          OBVIOUS
        <4>1. requires \in Seq(S)
          BY <3>1
        <4>2. /\ Snapshot!ToSet(requires) = {requires[k] : k \in DOMAIN requires}
              /\ Snapshot!ToSet(requires) \subseteq S
          BY ONLY <4>1, ToSetIs
        <4>3. DOMAIN requires = 1..Len(requires)
          BY ONLY <4>1
        <4> QED
          BY <2>3, <4>2, <4>3
      <3> PICK b : b = Snapshot!EdgeFor(s, r, q)
        OBVIOUS
      <3>3. MeetsBound(R, b)
        BY <2>2, <2>3, <3>2 DEF Orderly
      <3>4. /\ Snapshot!Nearest(s, r, q.fact) = {b.to}
            /\ b.min = q.min /\ b.max = q.max
        BY <2>3, <3>2, EdgeForIs
      <3> PICK kept : kept = {e \in R : Snapshot!Nearest(s, r, q.fact) = {e.to}}
        OBVIOUS
      <3>5. kept = {e \in R : e.to = b.to}
        BY <3>4
      <3>6. CASE KeepsBound(R, b)
        <4>1. PICK e \in kept : Snapshot!Within(e, b)
          BY <3>5, <3>6 DEF KeepsBound
        <4>2. Snapshot!Within(e, q)
          BY <3>4, <4>1 DEF Snapshot!Within
        <4> QED
          BY <4>2
      <3>7. CASE Snapshot!Contradict(kept \cup {b})
        <4>1. PICK e, f \in kept \cup {b} : e.min > f.max
          BY <3>7 DEF Snapshot!Contradict
        <4>2. \A x \in kept \cup {b} : \E y \in kept \cup {q} : y.min = x.min /\ y.max = x.max
          BY <3>4
        <4>3. PICK g \in kept \cup {q} : g.min = e.min
          BY <4>2
        <4>4. PICK h \in kept \cup {q} : h.max = f.max
          BY <4>2
        <4>5. Snapshot!Contradict(kept \cup {q})
          BY <4>1, <4>3, <4>4 DEF Snapshot!Contradict
        <4> QED
          BY <4>5
      <3> QED
        BY <3>3, <3>5, <3>6, <3>7 DEF MeetsBound
    <2> QED
      BY <2>2, <2>3 DEF Orderly, KeepsBound
  <1> QED
    BY <1>1, <1>2, <1>3, ImportInvariant, PTL DEF ServicesSpec

=============================================================================
