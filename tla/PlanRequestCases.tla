-------------------------- MODULE PlanRequestCases ---------------------------
(* Small requests in six families: colliding commitments, occurrences that   *)
(* compete, container segments, repairs over frozen steps, preferences, and  *)
(* what cannot be planned.                                                   *)
EXTENDS PlanWindows, TLC

Plain(length, after) ==
  [static |-> NoSpan, capacity |-> TRUE, occurrence |-> FALSE, range |-> NoSpan,
   floor |-> 0, ceiling |-> 0, length |-> length, after |-> after,
   condition |-> "none", observed |-> 0]
Static(window, after) == [Plain(1, after) EXCEPT !.static = window]
Occurrence(range, length, after) ==
  [Plain(length, after) EXCEPT !.occurrence = TRUE, !.range = range]

Request(tasks) ==
  [now |-> 1, asked |-> NoSpan, stored |-> Span(0, 8), repair |-> FALSE,
   frozen |-> <<>>, tasks |-> tasks, segments |-> {}, preferences |-> {}]

(* Three commitments that overlap, touch, enclose one another or miss the    *)
(* horizon, and one piece of work before or after them.                      *)
Collisions ==
  {Request(<<Static(w[1], {}), [Static(w[2], a2) EXCEPT !.capacity = c],
             Static(w[3], a3), Plain(1, a4)>>) :
     w \in [1..3 -> {Span(2, 4), Span(3, 6), Span(4, 5), Span(8, 9)}],
     c \in BOOLEAN, a2 \in {{}, {1}}, a3 \in {{}, {2}}, a4 \in {{1}, {2}, {3}}}

(* Two occurrences, one after the other or not, around a commitment, and     *)
(* work that waits for them.                                                 *)
Competing ==
  {Request(<<[Occurrence(r, l, {}) EXCEPT !.observed = o],
             [Occurrence(Span(2, 5), 1, a) EXCEPT !.floor = f, !.capacity = FALSE],
             Static(w, b), Plain(1, {2}), Plain(1, {4})>>) :
     r \in {Span(2, 5), Span(3, 6), Span(6, 9)}, l \in {1, 2}, o \in {0, 2},
     a \in {{}, {1}}, f \in {0, 4},
     w \in {Span(2, 4), Span(3, 5), Span(3, 4), Span(6, 7)}, b \in {{}, {1}}}

(* A container segment of three, parts of it started, moved or conditional.  *)
Segmented ==
  {[Request(<<t1, Plain(1, {}), [Plain(1, {2}) EXCEPT !.condition = c],
             Plain(1, {m}), Static(w, {})>>)
      EXCEPT !.segments = {<<1, 2, 3>>}, !.frozen = f, !.repair = (f # <<>>),
             !.preferences = {[a |-> 2, b |-> 4, strict |-> TRUE]}] :
     t1 \in {Plain(2, {5}), Plain(1, {}), Plain(1, {3}), Static(Span(2, 3), {})},
     c \in {"none", "met", "unmet"}, m \in {1, 2, 3}, w \in {Span(2, 3), Span(4, 5)},
     f \in {<<>>, 1 :> Span(1, 2), 2 :> Span(1, 3)}}

(* A recalculation that keeps one or two steps of the prior Plan, in a       *)
(* horizon that still runs or is over.                                       *)
Repairing ==
  {[Request(<<Plain(1, {}), Plain(2, {1}), Static(w, {1}), Plain(1, {3})>>)
      EXCEPT !.repair = TRUE, !.frozen = f, !.stored = h, !.now = n] :
     w \in {Span(2, 4), Span(5, 6), Span(1, 3)}, n \in {1, 4},
     f \in {1 :> Span(1, 3), (1 :> Span(1, 3)) @@ (2 :> Span(3, 5))},
     h \in {Span(0, 3), Span(0, 7), Span(0, 0)}}

(* Chains, ties and cycles of preferences over four Tasks.                   *)
Prefer(a, b) == [a |-> a, b |-> b, strict |-> TRUE]
Preferring ==
  {[Request([i \in 1..4 |-> Plain(1, {})])
      EXCEPT !.stored = Span(2, 5), !.asked = h, !.preferences = p] :
     p \in SUBSET {Prefer(1, 2), Prefer(2, 3), Prefer(3, 1), Prefer(4, 1),
                   [a |-> 2, b |-> 3, strict |-> FALSE],
                   [a |-> 3, b |-> 4, strict |-> FALSE]},
     h \in {Span(2, 4), Span(3, 2)}}

(* Dependencies that no order satisfies, and a request with nothing to plan. *)
Degenerate ==
  {Request(<<Plain(1, {2}), Plain(1, {1})>>),
   Request(<<[Static(Span(2, 4), {}) EXCEPT !.capacity = FALSE]>>)}

(* A segment whose first member was edited to wait for its last.             *)
EditedSegment ==
  {[Request(<<Plain(l, {3}), Plain(1, {}), Plain(1, {2})>>)
      EXCEPT !.segments = {<<1, 2, 3>>}, !.now = n] : l \in {1, 2}, n \in {0, 1}}

AllCases == Collisions \cup Competing \cup Segmented \cup Repairing \cup Preferring
              \cup Degenerate \cup EditedSegment

=============================================================================
