------------------------------- MODULE Locks --------------------------------
(* The locks of AppState, and the order in which each request takes and      *)
(* drops them.  A lock is a tokio mutex: those that wait for it are served   *)
(* in the order they came, and a request that is dropped gives back what it  *)
(* holds and leaves every queue.                                             *)
EXTENDS Naturals, Sequences, SequencesExt, FiniteSets

CONSTANTS Requests,     \* requests in flight
          MaxStarts     \* bound

VARIABLES program,   \* what each request has still to do
          held,      \* the locks it holds
          queue,     \* of each lock, its holder first
          starts

vars == <<program, held, queue, starts>>

LockNames == {"projection", "import", "materialization", "action", "run"}

Take(l) == [do |-> "take", lock |-> l]

Drop(l) == [do |-> "drop", lock |-> l]

Nothing == <<>>

(* A guard lives as long as the work under it.                               *)
Under(l, work) == <<Take(l)>> \o work \o <<Drop(l)>>

TaskAction == Under("action", Nothing)

Authoring == Under("import", TaskAction)

ImportOrObjective == Under("import", Nothing)

Override == Under("import", Under("materialization", TaskAction))

Materialization == Under("import", Under("materialization", Nothing))

Projection == Under("projection", Nothing)

Review == Under("run", Nothing)

AdmitTarget == Under("run", TaskAction)

(* A capture acts on gestures, of which one may move an occurrence.          *)
Capture == Under("projection", Override \o TaskAction)

WrongLegacyAction == Under("action", Materialization)

(* A legacy action drops its guard before it has the plan recalculated.      *)
LegacyAction == TaskAction \o Materialization

Programs == {TaskAction, Authoring, ImportOrObjective, Override, Materialization,
             Projection, Review, AdmitTarget, Capture, LegacyAction}

Init ==
  /\ program = [r \in Requests |-> Nothing]
  /\ held = [r \in Requests |-> {}]
  /\ queue = [l \in LockNames |-> <<>>]
  /\ starts = 0

-----------------------------------------------------------------------------

(* A queue without the one that leaves it, wherever it stands.                *)
Without(waiting, r) ==
  IF r \in ToSet(waiting) THEN RemoveAt(waiting, CHOOSE i \in DOMAIN waiting : waiting[i] = r)
  ELSE waiting

Start(r) ==
  /\ program[r] = Nothing /\ starts < MaxStarts
  /\ starts' = starts + 1
  /\ \E p \in Programs : program' = [program EXCEPT ![r] = p]
  /\ UNCHANGED <<held, queue>>

Advance(r) == program' = [program EXCEPT ![r] = Tail(@)]

Wants(r, l) == program[r] # Nothing /\ Head(program[r]) = Take(l)

Queued(r, l) == r \in ToSet(queue[l])

(* Lines up, even when nobody is before it.                                  *)
LineUp(r) ==
  /\ \E l \in LockNames : /\ Wants(r, l) /\ ~ Queued(r, l)
                          /\ queue' = [queue EXCEPT ![l] = Append(@, r)]
  /\ UNCHANGED <<program, held, starts>>

Acquire(r) ==
  /\ \E l \in LockNames : /\ Wants(r, l) /\ Queued(r, l) /\ Head(queue[l]) = r
                          /\ held' = [held EXCEPT ![r] = @ \cup {l}]
  /\ Advance(r)
  /\ UNCHANGED <<queue, starts>>

Release(r) ==
  /\ program[r] # Nothing /\ Head(program[r]).do = "drop"
  /\ LET l == Head(program[r]).lock
     IN /\ held' = [held EXCEPT ![r] = @ \ {l}]
        /\ queue' = [queue EXCEPT ![l] = Without(@, r)]
  /\ Advance(r)
  /\ UNCHANGED starts

(* The client hangs up, or the request fails: guards are dropped.            *)
Abandon(r) ==
  /\ program[r] # Nothing
  /\ program' = [program EXCEPT ![r] = Nothing]
  /\ held' = [held EXCEPT ![r] = {}]
  /\ queue' = [l \in LockNames |-> Without(queue[l], r)]
  /\ UNCHANGED starts

Next == \E r \in Requests :
          Start(r) \/ LineUp(r) \/ Acquire(r) \/ Release(r) \/ Abandon(r)

Spec == Init /\ [][Next]_vars

-----------------------------------------------------------------------------
(* Requests that have lined up are never all waiting for one another: in     *)
(* every set of them one does not wait, or waits for somebody outside.       *)
NoCircularWait ==
  \A circle \in (SUBSET Requests) \ {{}} : \E r \in circle :
    \A l \in LockNames : Wants(r, l) => queue[l] = <<>> \/ Head(queue[l]) \notin circle \ {r}

=============================================================================
