----------------------------- MODULE PlanWindows -----------------------------
(* The arithmetic of Plan windows: half-open spans of seconds, the earliest  *)
(* free gap of a window, the groups of fixed commitments that share time.    *)
EXTENDS Naturals, Sequences, FiniteSets, SequencesExt

Span(s, e) == [start |-> s, end |-> e]
NoSpan == Span(0, 0)

Later(a, b) == IF a > b THEN a ELSE b
Sooner(a, b) == IF a < b THEN a ELSE b
Latest(times, floor) == Max(times \cup {floor})
Soonest(times, ceiling) == Min(times \cup {ceiling})

(* f, and of g what f does not have.                                         *)
Merged(f, g) ==
  [i \in DOMAIN f \cup DOMAIN g |-> IF i \in DOMAIN f THEN f[i] ELSE g[i]]

(* Offsets(lengths)[i] is what the first i lengths add up to.                *)
Offsets(lengths) ==
  LET sum[i \in 0..Len(lengths)] == IF i = 0 THEN 0 ELSE sum[i - 1] + lengths[i]
  IN sum
Total(lengths) == Offsets(lengths)[Len(lengths)]

Overlaps(a, b) == a.start < b.end /\ a.end > b.start

(* Equal spans are not one inside the other.                                 *)
Encloses(outer, inner) ==
  outer.start <= inner.start /\ outer.end >= inner.end /\ outer # inner
Nested(a, b) == Encloses(a, b) \/ Encloses(b, a)

Before(a, b) == a.start < b.start \/ (a.start = b.start /\ a.end < b.end)

(* A cursor walks the occupied spans that touch the window, in order: there  *)
(* is a gap from where it stands to each span it comes to, and one after the *)
(* last.  The first gap of the wanted length is taken, from its start.       *)
EarliestFit(window, occupied, length) ==
  LET touching == {o \in occupied : Overlaps(o, window)}
      Cursor(passed) == Latest({o.end : o \in passed}, window.start)
      gaps == {Span(Cursor({p \in touching : Before(p, o)}), Sooner(o.start, window.end)) :
                 o \in touching} \cup {Span(Cursor(touching), window.end)}
      starts == {g.start : g \in {h \in gaps : h.start + length <= h.end}}
  IN IF starts = {} THEN NoSpan ELSE Span(Min(starts), Min(starts) + length)

(* The connected components of overlap, as sets of the ids of f's domain: the *)
(* smallest sets that share no time with the rest.                           *)
Apart(f, g) == \A i \in g, j \in DOMAIN f \ g : ~Overlaps(f[i], f[j])
Groups(f) ==
  {g \in (SUBSET DOMAIN f) \ {{}} :
     Apart(f, g) /\ \A h \in (SUBSET g) \ {{}, g} : ~Apart(f, h)}

=============================================================================
