----------------------------- MODULE PlanRequest -----------------------------
(* One planning request: what services/planning_service.rs makes of the      *)
(* store (build_request_from_store_with_context), hands to the planning      *)
(* kernel, and publishes from the kernel's placements.  The actions are the  *)
(* stages of that function in their order; the occurrences are seated, the   *)
(* exclusions propagated and the Tasks ordered one step of their loop at a   *)
(* time.  The kernel is outside the repository: Place is its contract.       *)
(*                                                                           *)
(* A request is what the function reads:                                     *)
(*   now, stored and asked horizons, repair (a recalculation), frozen (the   *)
(*   steps of the prior Plan that a repair keeps), the active Tasks, the     *)
(*   container segments, the enabled Task Preferences.                       *)
(* A Task: static window, capacity, occurrence (of a routine), range (the    *)
(* allowed time), floor and ceiling (the bounds realized `after` relations   *)
(* give), length, after (its dependencies), condition, observed (duration).  *)
EXTENDS Priorities

CONSTANTS Requests,       \* the requests checked
          Minute,         \* the grain Dynamic packing starts on
          HorizonLength,  \* planning_horizon_seconds
          LeastRepair     \* DEFAULT_TASK_DURATION_SECONDS

VARIABLES ask,       \* the request
          stage,     \* how far the function has come
          horizon,   \* the planning horizon, after a repair moved its start
          span,      \* the kernel's time window
          bodies,    \* id -> body: the Tasks the kernel will see
          direct,    \* id -> body: the Static Tasks that take no capacity
          absent,    \* id -> span: Static windows the kernel does not see
          segments,  \* carrier -> the Tasks placed one after another as one
          covered,   \* id -> own window of a Static inside a carrier's span
          carried,   \* carrier -> own window of the Static that carries a group
          removed,   \* the Dynamic Tasks left out
          seats,     \* the seating of the Dynamic occurrences
          order,     \* the topological order, as far as it is made
          plan       \* id -> span: the steps published

vars == <<ask, stage, horizon, span, bodies, direct, absent, segments, covered,
          carried, removed, seats, order, plan>>

Empty == <<>>
NextWholeMinute(t) == ((t + Minute - 1) \div Minute) * Minute
Anchor == NextWholeMinute(ask.now)
Rows == ask.tasks
-----------------------------------------------------------------------------
(* The horizon: the one asked for, else the latest stored one if it is not   *)
(* empty, else the configured length from the next whole minute.             *)
Given ==
  IF ask.asked # NoSpan THEN ask.asked
  ELSE IF ask.stored.start < ask.stored.end THEN ask.stored
  ELSE Span(Anchor, Anchor + HorizonLength)

(* The Tasks that go on: not frozen, and with their precondition met.        *)
Eligible == {t \in DOMAIN Rows \ DOMAIN ask.frozen : Rows[t].condition # "unmet"}
Mandatory == {t \in Eligible : Rows[t].occurrence}

WrongRepaired(given) == Span(Later(given.start, ask.now), given.end)
Repaired(given) ==
  LET start == Latest({ask.frozen[t].end : t \in DOMAIN ask.frozen},
                      Later(given.start, ask.now))
      work == Total([t \in DOMAIN Rows |-> IF t \in Eligible THEN Rows[t].length ELSE 0])
  IN IF ~ask.repair THEN given
     ELSE Span(start, IF given.end <= start THEN start + Later(work, LeastRepair)
                      ELSE given.end)

Commitments == {t \in Eligible : Rows[t].static # NoSpan /\ Overlaps(Rows[t].static, horizon)}

(* A Dynamic Task's window: the horizon cut to the allowed range; an         *)
(* occurrence keeps the whole end of its range and its realized bounds.      *)
AllowedWindow(t) ==
  LET row == Rows[t]
      start == Later(horizon.start, row.range.start)
  IN IF row.range = NoSpan THEN horizon
     ELSE IF ~row.occurrence THEN Span(start, Sooner(horizon.end, row.range.end))
     ELSE Span(Later(start, row.floor),
               IF row.ceiling # 0 THEN row.ceiling ELSE row.range.end)

(* An occurrence whose range misses the horizon waits for another one.       *)
Due(t) ==
  Rows[t].occurrence /\ Rows[t].range # NoSpan => Overlaps(Rows[t].range, Given)

StaticBody(t) ==
  [window |-> Rows[t].static, anchored |-> TRUE, after |-> Rows[t].after,
   length |-> Rows[t].static.end - Rows[t].static.start]
DynamicBody(t) ==
  [window |-> AllowedWindow(t), anchored |-> FALSE, after |-> Rows[t].after,
   length |-> Rows[t].length]

Init ==
  /\ ask \in Requests
  /\ stage = "horizon"
  /\ horizon = NoSpan /\ span = NoSpan
  /\ bodies = Empty /\ direct = Empty /\ absent = Empty /\ segments = Empty
  /\ covered = Empty /\ carried = Empty /\ removed = {} /\ order = Empty
  /\ seats = [pending |-> {}, taken |-> Empty, failed |-> {}]
  /\ plan = Empty

(* An asked horizon that does not start before its end is refused.           *)
Refuse ==
  /\ stage = "horizon"
  /\ ask.asked # NoSpan /\ ask.asked.start >= ask.asked.end
  /\ stage' = "refused"
  /\ UNCHANGED <<ask, horizon, span, bodies, direct, absent, segments, covered,
                 carried, removed, seats, order, plan>>

Resolve ==
  /\ stage = "horizon"
  /\ ask.asked = NoSpan \/ ask.asked.start < ask.asked.end
  /\ stage' = "collect"
  /\ horizon' = Repaired(Given)
  /\ UNCHANGED <<ask, span, bodies, direct, absent, segments, covered, carried,
                 removed, seats, order, plan>>

(* Which Tasks take part: the commitments inside the horizon, and the        *)
(* Dynamic Tasks that take capacity or are due occurrences.                  *)
Collect ==
  LET fixed == {t \in Commitments : Rows[t].capacity}
      free == {t \in Eligible : Rows[t].static = NoSpan
                                /\ (Rows[t].capacity \/ Rows[t].occurrence) /\ Due(t)}
  IN /\ stage = "collect"
     /\ stage' = "settle"
     /\ bodies' = [t \in fixed \cup free |->
                     IF t \in fixed THEN StaticBody(t) ELSE DynamicBody(t)]
     /\ direct' = [t \in Commitments \ fixed |-> StaticBody(t)]
     /\ absent' = [t \in {u \in Eligible : Rows[u].static # NoSpan} \ fixed |->
                     Rows[t].static]
     /\ span' = Span(Soonest({Rows[t].static.start : t \in fixed}, horizon.start),
                     Latest({Rows[t].static.end : t \in fixed}, horizon.end))
     /\ UNCHANGED <<ask, horizon, segments, covered, carried, removed, seats,
                    order, plan>>

-----------------------------------------------------------------------------
(* An edge between two Static Tasks that cannot hold is dropped, unless one  *)
(* is inside the other; between two occurrences it is dropped even then.     *)
Dropped(t) ==
  {d \in Rows[t].after :
     /\ d \in DOMAIN Rows /\ Rows[d].static # NoSpan
     /\ Rows[d].static.end > Rows[t].static.start
     /\ {t, d} \subseteq Mandatory \/ ~Nested(Rows[t].static, Rows[d].static)}
WithoutDropped(f) ==
  [t \in DOMAIN f |-> IF t \in Commitments
                      THEN [f[t] EXCEPT !.after = @ \ Dropped(t)] ELSE f[t]]

SettleConflicts ==
  /\ stage = "settle"
  /\ stage' = "compile"
  /\ bodies' = WithoutDropped(bodies)
  /\ direct' = WithoutDropped(direct)
  /\ UNCHANGED <<ask, horizon, span, absent, segments, covered, carried, removed,
                 seats, order, plan>>

(* The part of a container segment still to be done: its last Tasks, from    *)
(* the first that is planned, none of them missing.                          *)
Present(unit) == {i \in DOMAIN unit : unit[i] \in DOMAIN bodies}
Unstarted(unit) ==
  IF Present(unit) = {} \/ \E i \in DOMAIN unit \ Present(unit) : i > Min(Present(unit))
  THEN <<>> ELSE SubSeq(unit, Min(Present(unit)), Len(unit))
Compilable(unit) ==
  /\ Len(unit) > 1
  /\ \A i \in DOMAIN unit : ~bodies[unit[i]].anchored /\ Rows[unit[i]].condition = "none"

(* The first member stands for the whole segment.                            *)
Carrier(unit) ==
  LET parts == {bodies[m] : m \in ToSet(unit)}
  IN [window |-> Span(Latest({b.window.start : b \in parts}, 0),
                      Min({b.window.end : b \in parts})),
      anchored |-> FALSE,
      after |-> (UNION {b.after : b \in parts}) \ ToSet(unit),
      length |-> Total([i \in DOMAIN unit |-> bodies[unit[i]].length])]

Compile ==
  LET units == {u \in {Unstarted(s) : s \in ask.segments} : Compilable(u)}
      Rest(u) == ToSet(u) \ {u[1]}
      tails == UNION {Rest(u) : u \in units}
      Stands(m) == IF m \in tails THEN (CHOOSE u \in units : m \in Rest(u))[1] ELSE m
      UnitOf(c) == CHOOSE u \in units : u[1] = c
      Body(t) == IF \E u \in units : u[1] = t THEN Carrier(UnitOf(t)) ELSE bodies[t]
  IN /\ stage = "compile"
     /\ stage' = "cluster"
     /\ segments' = [c \in {u[1] : u \in units} |-> UnitOf(c)]
     /\ bodies' = [t \in DOMAIN bodies \ tails |->
                     [Body(t) EXCEPT !.after = {Stands(d) : d \in @} \ {t}]]
     /\ direct' = [t \in DOMAIN direct |->
                     [direct[t] EXCEPT !.after = {Stands(d) : d \in @}]]
     /\ UNCHANGED <<ask, horizon, span, absent, covered, carried, removed, seats,
                    order, plan>>

-----------------------------------------------------------------------------
(* Every group of anchored bodies that share time is one busy span: its      *)
(* first Static stands for it and waits for what any of them waits for.      *)
Anchored == {t \in DOMAIN bodies : bodies[t].anchored}
SharedTime == {g \in Groups([t \in Anchored |-> bodies[t].window]) : Cardinality(g) > 1}
LeadsGroup(t, g) ==
  \A u \in g \ {t} :
    LET w == bodies[t].window  v == bodies[u].window
    IN \/ w.start < v.start
       \/ w.start = v.start /\ w.end > v.end
       \/ w = v /\ t < u
Leader(g) == CHOOSE t \in g : LeadsGroup(t, g)
WrongGroupBody(g) ==
  [bodies[Leader(g)] EXCEPT !.after = (UNION {bodies[t].after : t \in g}) \ g]
GroupBody(g) ==
  LET start == bodies[Leader(g)].window.start
      end == Latest({bodies[t].window.end : t \in g}, 0)
  IN [window |-> Span(start, end), anchored |-> TRUE, length |-> end - start,
      after |-> (UNION {bodies[t].after : t \in g}) \ g]

Cluster ==
  LET leaders == {Leader(g) : g \in SharedTime}
      GroupOf(t) == CHOOSE g \in SharedTime : t \in g
      hidden == (UNION SharedTime) \ leaders
  IN /\ stage = "cluster"
     /\ stage' = "exclude"
     /\ bodies' = [t \in DOMAIN bodies \ hidden |->
                     IF t \in leaders THEN GroupBody(GroupOf(t)) ELSE bodies[t]]
     /\ covered' = [t \in hidden |-> bodies[t].window]
     /\ carried' = [t \in leaders |-> bodies[t].window]
     /\ absent' = Merged(absent, [t \in hidden |-> bodies[t].window])
     /\ UNCHANGED <<ask, horizon, span, direct, segments, removed, seats, order, plan>>

Fixed == {bodies[t].window : t \in Anchored}
Dynamic == DOMAIN bodies \ Anchored

(* A Dynamic Task starts after the Static prerequisites the kernel does not  *)
(* see, and never before the anchor.                                         *)
HiddenBefore(t) == {absent[d].end : d \in (bodies[t].after \ DOMAIN bodies) \cap DOMAIN absent}
WrongPushed(t) ==
  [bodies[t] EXCEPT !.window.start = Later(@, Anchor)]
Pushed(t) ==
  [bodies[t] EXCEPT !.window.start = Latest(HiddenBefore(t), Later(@, Anchor))]
Fits(t, body) ==
  /\ \A e \in HiddenBefore(t) : e < horizon.end
  /\ body.window.start < body.window.end
  /\ body.window.start + body.length <= body.window.end
  /\ t \in Mandatory => EarliestFit(body.window, Fixed, body.length) # NoSpan

Exclude ==
  LET out == {t \in Dynamic : ~Fits(t, Pushed(t))}
      kept == DOMAIN bodies \ out
  IN /\ stage = "exclude"
     /\ stage' = "seat"
     /\ removed' = out
     /\ bodies' = [t \in kept |-> IF t \in Dynamic THEN Pushed(t) ELSE bodies[t]]
     /\ seats' = [pending |-> Mandatory \cap kept \cap Dynamic,
                  taken |-> Empty, failed |-> {}]
     /\ UNCHANGED <<ask, horizon, span, direct, absent, segments, covered, carried,
                    order, plan>>

-----------------------------------------------------------------------------
(* The occurrences still pending whose prerequisites among the occurrences   *)
(* are settled; the earliest end, then the least id, goes first.             *)
Settled == seats.pending = {} \/ \A t \in seats.pending : bodies[t].after \cap seats.pending # {}
NextSeat(t) ==
  LET Ready == {u \in seats.pending : bodies[u].after \cap seats.pending = {}}
      Key(u) == <<bodies[u].window.end, u>>
  IN /\ t \in Ready
     /\ \A u \in Ready \ {t} : Key(t)[1] < Key(u)[1] \/ (Key(t)[1] = Key(u)[1] /\ t < u)

EndOf(d) == IF d \in DOMAIN seats.taken THEN seats.taken[d].end ELSE bodies[d].window.end
WrongSeatFor(t) == EarliestFit(bodies[t].window, Fixed, bodies[t].length)
SeatFor(t) ==
  LET known == bodies[t].after \cap (Anchored \cup DOMAIN seats.taken)
      window == [bodies[t].window EXCEPT !.start = Latest({EndOf(d) : d \in known}, @)]
  IN EarliestFit(window, Fixed \cup {seats.taken[u] : u \in DOMAIN seats.taken}, bodies[t].length)

Seat ==
  /\ stage = "seat"
  /\ \E t \in seats.pending :
       /\ NextSeat(t)
       /\ seats' =
            IF bodies[t].after \cap seats.failed # {} \/ SeatFor(t) = NoSpan
            THEN [seats EXCEPT !.pending = @ \ {t}, !.failed = @ \cup {t}]
            ELSE [seats EXCEPT !.pending = @ \ {t}, !.taken = Merged(@, [u \in {t} |-> SeatFor(u)])]
  /\ UNCHANGED <<ask, stage, horizon, span, bodies, direct, absent, segments,
                 covered, carried, removed, order, plan>>

SeatingEnds ==
  /\ stage = "seat" /\ Settled
  /\ stage' = "propagate"
  /\ removed' = removed \cup seats.failed
  /\ bodies' = [t \in DOMAIN bodies \ seats.failed |-> bodies[t]]
  /\ UNCHANGED <<ask, horizon, span, direct, absent, segments, covered, carried,
                 seats, order, plan>>

(* A Dynamic Task that depends on one left out is left out too, again and    *)
(* again; a Static one stays where it is.                                    *)
Stranded == {t \in Dynamic : bodies[t].after \cap removed # {}}
Propagate ==
  /\ stage = "propagate" /\ Stranded # {}
  /\ removed' = removed \cup Stranded
  /\ bodies' = [t \in DOMAIN bodies \ Stranded |-> bodies[t]]
  /\ UNCHANGED <<ask, stage, horizon, span, direct, absent, segments, covered,
                 carried, seats, order, plan>>

(* Edges to what the kernel does not see go; the observed durations replace  *)
(* the declared ones; the kernel's window reaches every kept occurrence.     *)
AllPropagated == stage = "propagate" /\ Stranded = {}
Finish ==
  /\ AllPropagated
  /\ stage' = "order"
  /\ bodies' = [t \in DOMAIN bodies |->
                  [bodies[t] EXCEPT
                     !.after = @ \cap DOMAIN bodies,
                     !.length = IF t \in Dynamic \cap Mandatory /\ Rows[t].observed # 0
                                THEN Rows[t].observed ELSE @]]
  /\ span' = [span EXCEPT !.end =
                Latest({bodies[t].window.end : t \in Dynamic \cap Mandatory}, @)]
  /\ UNCHANGED <<ask, horizon, direct, absent, segments, covered, carried, removed,
                 seats, order, plan>>

-----------------------------------------------------------------------------
(* What Preferences rank: every Task that is no occurrence, the members of a *)
(* segment each for themselves; a carrier is worth its best member.          *)
Rankable ==
  UNION {IF t \in DOMAIN segments THEN ToSet(segments[t]) ELSE {t} :
           t \in DOMAIN bodies \ Mandatory}
LayersHere == Layers(Named(ask.preferences, Rankable))
Value(t) ==
  IF t \in Mandatory THEN 0
  ELSE IF t \in DOMAIN segments
       THEN Latest({PreferenceValue(LayersHere, m) : m \in ToSet(segments[t])}, 0)
       ELSE PreferenceValue(LayersHere, t)

(* Kahn's algorithm: of the Tasks whose prerequisites are ordered, the       *)
(* occurrences first, then by layer, by deadline and by id.                  *)
Ready == {t \in DOMAIN bodies \ ToSet(order) : bodies[t].after \subseteq ToSet(order)}
KeyOf(layers, t) ==
  <<IF t \in Mandatory THEN 0 ELSE 1,
    IF t \in Mandatory THEN 0 ELSE OrderKey(layers, t),
    IF Rows[t].range = NoSpan THEN 1000 ELSE Rows[t].range.end, t>>
Precedes(k, l) == \E i \in 1..4 : k[i] < l[i] /\ \A j \in 1..(i - 1) : k[j] = l[j]

Pop ==
  LET layers == LayersHere
  IN /\ stage = "order"
     /\ \E t \in Ready :
          /\ \A u \in Ready \ {t} : Precedes(KeyOf(layers, t), KeyOf(layers, u))
          /\ order' = Append(order, t)
     /\ UNCHANGED <<ask, stage, horizon, span, bodies, direct, absent, segments,
                    covered, carried, removed, seats, plan>>

(* All ordered: the kernel is called, unless there is nothing to plan.       *)
CallKernel ==
  /\ stage = "order" /\ ToSet(order) = DOMAIN bodies
  /\ stage' = IF bodies = Empty THEN "nothing" ELSE "kernel"
  /\ UNCHANGED <<ask, horizon, span, bodies, direct, absent, segments, covered,
                 carried, removed, seats, order, plan>>

RejectCycle ==
  /\ stage = "order" /\ Ready = {} /\ ToSet(order) # DOMAIN bodies
  /\ stage' = "cyclic"
  /\ UNCHANGED <<ask, horizon, span, bodies, direct, absent, segments, covered,
                 carried, removed, seats, order, plan>>

-----------------------------------------------------------------------------
(* The kernel's contract: the anchors where they are, any of the Dynamic     *)
(* Tasks in their windows, after their prerequisites, none at the same time. *)
Starts(t) ==
  IF bodies[t].anchored THEN {bodies[t].window.start}
  ELSE {s \in bodies[t].window.start..bodies[t].window.end :
          s + bodies[t].length <= bodies[t].window.end}
Schedules ==
  UNION {{f \in [chosen \cup Anchored -> UNION {Starts(t) : t \in chosen \cup Anchored}] :
            \A t \in DOMAIN f :
              /\ f[t] \in Starts(t)
              /\ bodies[t].after \subseteq DOMAIN f
              /\ \A d \in bodies[t].after : f[d] + bodies[d].length <= f[t]
              /\ \A u \in DOMAIN f \ {t} :
                   ~Overlaps(Span(f[t], f[t] + bodies[t].length),
                             Span(f[u], f[u] + bodies[u].length))} :
           chosen \in SUBSET Dynamic}

(* A segment's steps follow one another; a carrier gets its own window back. *)
Expand(t, start) ==
  LET unit == IF t \in DOMAIN segments THEN segments[t] ELSE <<t>>
      lengths == [i \in DOMAIN unit |->
                    IF t \in DOMAIN segments THEN Rows[unit[i]].length ELSE bodies[t].length]
  IN IF t \in DOMAIN carried THEN [m \in {t} |-> carried[m]]
     ELSE [m \in ToSet(unit) |->
             LET i == CHOOSE k \in DOMAIN unit : unit[k] = m
             IN Span(start + Offsets(lengths)[i - 1], start + Offsets(lengths)[i])]

(* merge_steps: the frozen steps first, then the kernel's, then the Static   *)
(* ones the kernel did not see.                                              *)
Steps(schedule) ==
  LET parts == {Expand(t, schedule[t]) : t \in DOMAIN schedule}
      Part(id) == CHOOSE part \in parts : id \in DOMAIN part
      placed == [id \in UNION {DOMAIN part : part \in parts} |-> Part(id)[id]]
      unseen == Merged([t \in DOMAIN direct |-> direct[t].window], covered)
  IN Merged(ask.frozen, Merged(placed, unseen))

Publish ==
  /\ stage = "kernel"
  /\ \E schedule \in Schedules : plan' = Steps(schedule)
  /\ stage' = "published"
  /\ UNCHANGED <<ask, horizon, span, bodies, direct, absent, segments, covered,
                 carried, removed, seats, order>>

(* The kernel may return no candidate.                                       *)
NoCandidate ==
  /\ stage = "kernel"
  /\ stage' = "nothing"
  /\ UNCHANGED <<ask, horizon, span, bodies, direct, absent, segments, covered,
                 carried, removed, seats, order, plan>>

Next ==
  \/ Refuse \/ Resolve \/ Collect \/ SettleConflicts \/ Compile \/ Cluster
  \/ Exclude \/ Seat \/ SeatingEnds \/ Propagate \/ Finish \/ Pop \/ CallKernel
  \/ RejectCycle \/ Publish \/ NoCandidate

Spec == Init /\ [][Next]_vars

-----------------------------------------------------------------------------
Commitment(t) == Rows[t].static # NoSpan
Published == stage = "published"

(* WindowsAreKept: every Static Task inside the horizon is in the published   *)
(* Plan at its own window, whether it was an anchor, carried a group, was     *)
(* covered by one or bypassed the kernel; and no Dynamic step shares time     *)
(* with another Dynamic step, with a frozen one, or with a Static that takes  *)
(* capacity.                                                                  *)
CommitmentsKeepTheirs ==
  \A t \in Commitments : t \in DOMAIN plan /\ plan[t] = Rows[t].static
WorkAvoidsCommitments ==
  \A t \in {u \in DOMAIN plan \ DOMAIN ask.frozen : ~Commitment(u)} :
    \A u \in DOMAIN plan \ {t} :
      Overlaps(plan[t], plan[u]) => Commitment(u) /\ ~Rows[u].capacity
WindowsAreKept == Published => CommitmentsKeepTheirs /\ WorkAvoidsCommitments

(* The segment's own order, in which its steps follow one another.           *)
InSegmentOrder(t, d) ==
  \E c \in DOMAIN segments : \E i, j \in DOMAIN segments[c] :
    i < j /\ segments[c][i] = t /\ segments[c][j] = d

(* WorkFollowsPrerequisites: a Dynamic step starts after the end of each of   *)
(* its prerequisites: the Static ones wherever they are, planned, covered,    *)
(* without capacity or outside the horizon, the Dynamic ones where the Plan   *)
(* has them, through segments and groups.  Only inside a segment its own      *)
(* order wins, also over a dependency a member was given later.               *)
WorkFollowsPrerequisites ==
  Published =>
    \A t \in {u \in DOMAIN plan \ DOMAIN ask.frozen : ~Commitment(u)} :
      \A d \in (Rows[t].after \cap Eligible) \ {t} :
        /\ Commitment(d) => Rows[d].static.end <= plan[t].start
        /\ ~Commitment(d) /\ d \in DOMAIN plan /\ ~InSegmentOrder(t, d) =>
             plan[d].end <= plan[t].start

(* OccurrencesFitTogether: the occurrences that are kept have places, each in *)
(* its window and after its prerequisites, that no fixed commitment and no    *)
(* other kept occurrence shares.                                              *)
OccurrencesFitTogether ==
  stage = "propagate" =>
    \A t \in DOMAIN seats.taken \cap DOMAIN bodies :
      LET seat == seats.taken[t]
      IN /\ bodies[t].window.start <= seat.start /\ seat.end <= bodies[t].window.end
         /\ seat.end - seat.start = bodies[t].length
         /\ \A w \in Fixed \cup {seats.taken[u] : u \in DOMAIN seats.taken \ {t}} :
              ~Overlaps(seat, w)
         /\ \A d \in bodies[t].after \cap DOMAIN seats.taken :
              seats.taken[d].end <= seat.start

(* PreferredIsWorthMore: outside a preference cycle a Task preferred to       *)
(* another has the higher value and the earlier key, along any chain of       *)
(* preferences and indifferences.                                             *)
PreferredIsWorthMore ==
  stage = "kernel" =>
    LET pairs == Named(ask.preferences, Rankable)
        reaches == Reaches(pairs)
        Rank(t) == PreferenceValue(LayersHere, t)
    IN \A p \in pairs :
         <<p.b, p.a>> \notin reaches =>
           Rank(p.a) > Rank(p.b) /\ OrderKey(LayersHere, p.a) < OrderKey(LayersHere, p.b)

(* RepairKeepsFrozen: a repair's Plan has every frozen step where it was, and *)
(* its new work starts after all of them.                                     *)
RepairKeepsFrozen ==
  Published /\ ask.repair =>
    \A f \in DOMAIN ask.frozen :
      /\ plan[f] = ask.frozen[f]
      /\ \A t \in DOMAIN plan \ DOMAIN ask.frozen :
           ~Commitment(t) => ask.frozen[f].end <= plan[t].start

=============================================================================
