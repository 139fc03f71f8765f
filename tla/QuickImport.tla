---------------------------- MODULE QuickImport -----------------------------
(* The one-way import of a Quick UbU snapshot: routines, Tasks and           *)
(* preferences are mapped, their references resolved, the routines that      *)
(* would be live checked for overlaps, and each object admitted in a         *)
(* transaction of its own.  Beside it run the requests of the operator that  *)
(* the import lock does not exclude, and those that it does.                 *)
(*                                                                           *)
(* Times are hours of one day, recurrences and zones are left out, and so    *)
(* are the fields that are copied without a condition.                       *)
EXTENDS Integers, Sequences, SequencesExt, FiniteSets, Functions

CONSTANTS Snapshots,     \* snapshot files, as records
          Native,        \* the routine the operator wrote
          Importers,     \* requests in flight
          MaxRuns, MaxUserActs, MaxFaults    \* bounds

VARIABLES rows,       \* imported objects and the native routine
          importLock, \* quick_ubu_import_lock
          job,        \* the progress of each import
          published,  \* the contents every counter of a routine has stood for
          runs, userActs, faults

vars == <<rows, importLock, job, published, runs, userActs, faults>>

Nobody == "nobody"

Idle == [pc |-> "idle", file |-> <<>>, existing |-> {}, todo |-> {}]

NativeId == <<"Objective", "native", 0>>

RowOf(type, source) == {r \in rows : r.type = type /\ r.source = source}

Init ==
  /\ rows = {[id |-> NativeId, type |-> "Objective", source |-> "native",
              version |-> 1, status |-> "active", payload |-> Native]}
  /\ importLock = Nobody
  /\ job = [i \in Importers |-> Idle]
  /\ published = {}
  /\ runs = 0 /\ userActs = 0 /\ faults = 0

-----------------------------------------------------------------------------
(* Mapping routines *)

MappedRoutines(s) == {r \in DOMAIN s.routines : s.routines[r].representable}

EndOf(s, r) == s.routines[r].start + s.routines[r].length

Edge(to, min, max) == [to |-> to, min |-> min, max |-> max]

(* What a sequence has at the given places, in its order.                    *)
Kept(entries, places) ==
  LET upTo[n \in 0..Len(entries)] ==
        IF n = 0 THEN <<>>
        ELSE IF n \in places THEN Append(upTo[n - 1], entries[n]) ELSE upTo[n - 1]
  IN upTo[Len(entries)]

(* An absent maximum is one that no minimum reaches.                         *)
Sound(bounds) == 0 <= bounds.min /\ bounds.min <= bounds.max

(* The entries of after that name another mapped routine with sound bounds.  *)
Explicit(s, r) ==
  LET after == s.routines[r].after
  IN Kept(after, {k \in DOMAIN after : /\ after[k].to \in MappedRoutines(s) \ {r}
                                       /\ Sound(after[k])})

Establishers(s, r, fact) ==
  {e \in MappedRoutines(s) \ {r} : /\ fact \in s.routines[e].establishes
                                   /\ EndOf(s, e) <= s.routines[r].start}

Nearest(s, r, fact) ==
  {e \in Establishers(s, r, fact) :
     \A other \in Establishers(s, r, fact) : EndOf(s, other) <= EndOf(s, e)}

(* A requirement holds an order only with one nearest establisher.           *)
Resolvable(s, r, q) == Sound(q) /\ \E e \in MappedRoutines(s) : Nearest(s, r, q.fact) = {e}

EdgeFor(s, r, q) ==
  Edge(CHOOSE e \in MappedRoutines(s) : Nearest(s, r, q.fact) = {e}, q.min, q.max)

WrongMerge(edges, edge) ==
  Append(Kept(edges, {i \in DOMAIN edges : edges[i].to # edge.to}), edge)

(* One edge to a routine carries the strictest of its bounds, at the place   *)
(* of the first; an edge that contradicts the others is left out.            *)
Merge(edges, edge) ==
  LET same == {i \in DOMAIN edges : edges[i].to = edge.to}
      bounds == {edges[i] : i \in same} \cup {edge}
      strict == Edge(edge.to, Max({b.min : b \in bounds}), Min({b.max : b \in bounds}))
  IN IF strict.min > strict.max THEN edges
     ELSE IF same = {} THEN Append(edges, strict)
     ELSE Kept([edges EXCEPT ![Min(same)] = strict],
               (DOMAIN edges \ same) \cup {Min(same)})

(* The requirements are merged into it one by one.                           *)
After(s, r) ==
  LET requires == s.routines[r].requires
      upTo[n \in 0..Len(requires)] ==
        IF n = 0 THEN Explicit(s, r)
        ELSE IF Resolvable(s, r, requires[n])
          THEN Merge(upTo[n - 1], EdgeFor(s, r, requires[n])) ELSE upTo[n - 1]
  IN upTo[Len(requires)]

Template(s, r) ==
  [start |-> s.routines[r].start, length |-> s.routines[r].length,
   static |-> s.routines[r].static, after |-> After(s, r)]

-----------------------------------------------------------------------------
(* Mapping Tasks and preferences *)

MappedTasks(s) ==
  {t \in DOMAIN s.tasks : /\ s.tasks[t].origin # "occurrence" /\ ~ s.tasks[t].done
                          /\ s.tasks[t].pin # "past"}

(* The core refuses a Task that waits for itself.                            *)
Admissible(t, dependencies) == t \notin dependencies

(* Whom a refused Task leaves behind waits for it no more.                   *)
KeptTasks(s) ==
  {t \in MappedTasks(s) : Admissible(t, s.tasks[t].blockedBy \cap MappedTasks(s))}

Dependencies(s, t) == s.tasks[t].blockedBy \cap KeptTasks(s)

(* The first of the entries for a pair of bundles, of one kept Task each.    *)
KeptPreferences(s) ==
  {k \in DOMAIN s.preferences :
     LET p == s.preferences[k]
     IN /\ \A j \in 1..(k - 1) : s.preferences[j].left # p.left \/ s.preferences[j].right # p.right
        /\ \A side \in {p.left, p.right} : Cardinality(side) = 1 /\ side \subseteq KeptTasks(s)}

-----------------------------------------------------------------------------
(* What a run would write *)

Existing == {r \in rows : r.id # NativeId}

Known(existing, type, source) == {r \in existing : r.type = type /\ r.source = source}

(* An object keeps the id it was first given.                                *)
IdFor(existing, type, source, run) ==
  IF Known(existing, type, source) = {} THEN <<type, source, run>>
  ELSE (CHOOSE r \in Known(existing, type, source) : TRUE).id

Mapping(existing, type, source, at, run, payload) ==
  [type |-> type, source |-> source, at |-> at, id |-> IdFor(existing, type, source, run),
   payload |-> payload]

Position(names, n) == CHOOSE k \in DOMAIN names : names[k] = n

(* The edges of a template name routines by their ids.                       *)
Resolved(template, existing, run) ==
  [template EXCEPT !.after =
     [k \in DOMAIN @ |-> [@[k] EXCEPT !.to = IdFor(existing, "Objective", @, run)]]]

RoutineMapping(s, r, existing, run) ==
  Mapping(existing, "Objective", r, Position(s.routineOrder, r), run,
    [rule |-> s.routines[r].rule, scheduleVersion |-> 1, templateVersion |-> 1,
     template |-> Resolved(Template(s, r), existing, run)])

TaskMapping(s, t, existing, run) ==
  Mapping(existing, "Task", t, Len(s.routineOrder) + Position(s.taskOrder, t), run,
    [body |-> s.tasks[t].body, pin |-> s.tasks[t].pin,
     blockedBy |-> {IdFor(existing, "Task", d, run) : d \in Dependencies(s, t)}])

PreferenceMapping(s, k, existing, run) ==
  LET p == s.preferences[k]
      only(side) == CHOOSE t \in side : TRUE
  IN Mapping(existing, "Preference", <<p.left, p.right>>,
       Len(s.routineOrder) + Len(s.taskOrder) + k, run,
       [order |-> p.order, enabled |-> TRUE,
        pair |-> [a |-> IdFor(existing, "Task", only(p.left), run),
                  b |-> IdFor(existing, "Task", only(p.right), run)]])

(* Written in the order of `at`: routines, then Tasks, by their names, then  *)
(* preferences.                                                              *)
Mappings(s, existing, run) ==
  {RoutineMapping(s, r, existing, run) : r \in MappedRoutines(s)}
    \cup {TaskMapping(s, t, existing, run) : t \in KeptTasks(s)}
    \cup {PreferenceMapping(s, k, existing, run) : k \in KeptPreferences(s)}

WrongDiverged(existing, m) == FALSE

(* Mainline status wins: what is no longer active is never updated.          *)
Diverged(existing, m) ==
  \E r \in Known(existing, m.type, m.source) : r.status # "active"

(* The routines that would be live: the mapped ones over the stored ones.    *)
Prospective(existing, mappings) ==
  LET written == {m \in mappings : m.type = "Objective" /\ ~ Diverged(existing, m)}
  IN {m.payload.template @@ [id |-> m.id] : m \in written}
     \cup {r.payload.template @@ [id |-> r.id] :
             r \in {o \in rows : o.type = "Objective" /\ o.status = "active"
                                  /\ \A m \in written : m.id # o.id}}

Meets(a, b) == a.start < b.start + b.length /\ b.start < a.start + a.length

Overlapping(definitions) ==
  \E a, b \in definitions : a.id # b.id /\ a.static /\ b.static /\ Meets(a, b)

(* The counter of a part moves exactly when the part does.                   *)
Counter(old, new, stored) == IF old = new THEN stored ELSE stored + 1

Revised(old, payload) ==
  [payload EXCEPT !.scheduleVersion = Counter(old.rule, payload.rule, old.scheduleVersion),
                  !.templateVersion = Counter(old.template, payload.template,
                                              old.templateVersion)]

(* A preference keeps the operator's switch.                                 *)
Payload(existing, m) ==
  IF Known(existing, m.type, m.source) = {} THEN m.payload
  ELSE LET old == (CHOOSE r \in Known(existing, m.type, m.source) : TRUE).payload
       IN CASE m.type = "Objective" -> Revised(old, m.payload)
            [] m.type = "Preference" -> [m.payload EXCEPT !.enabled = old.enabled]
            [] OTHER -> m.payload

Publish(r) ==
  IF r.type # "Objective" THEN {}
  ELSE {<<r.id, "schedule", r.payload.scheduleVersion, r.payload.rule>>,
        <<r.id, "template", r.payload.templateVersion, r.payload.template>>}

-----------------------------------------------------------------------------
(* The import *)

WrongTaken == FALSE

Taken == importLock # Nobody

(* A dry run, and one whose routines would overlap, writes nothing.          *)
Begin(i) ==
  /\ ~ Taken /\ job[i].pc = "idle" /\ runs < MaxRuns
  /\ runs' = runs + 1
  /\ \E s \in Snapshots :
       LET mappings == Mappings(s, Existing, runs + 1)
       IN IF Overlapping(Prospective(Existing, mappings))
            THEN UNCHANGED <<importLock, job>>
            ELSE /\ importLock' = i
                 /\ job' = [job EXCEPT ![i] = [pc |-> "write", file |-> s,
                                               existing |-> Existing, todo |-> mappings]]
  /\ UNCHANGED <<rows, published, userActs, faults>>

Leave(i) ==
  /\ job' = [job EXCEPT ![i] = Idle]
  /\ importLock' = Nobody

Passed(i, m) == job' = [job EXCEPT ![i].todo = @ \ {m}]

(* The store admits the version that was read, or none.                      *)
WriteNext(i, m) ==
  /\ job[i].pc = "write" /\ m \in job[i].todo
  /\ \A n \in job[i].todo : m.at <= n.at
  /\ LET known == Known(job[i].existing, m.type, m.source)
         payload == Payload(job[i].existing, m)
         current == {r \in rows : r.id = m.id}
         row == [id |-> m.id, type |-> m.type, source |-> m.source, status |-> "active",
                 version |-> IF known = {} THEN 1
                             ELSE (CHOOSE r \in known : TRUE).version + 1,
                 payload |-> payload]
     IN IF Diverged(job[i].existing, m) \/ (\E r \in known : r.payload = payload)
          THEN Passed(i, m) /\ UNCHANGED <<rows, importLock, published>>
          ELSE IF {r.version : r \in current} = {r.version : r \in known}
            THEN /\ rows' = (rows \ current) \cup {row}
                 /\ published' = published \cup Publish(row)
                 /\ Passed(i, m) /\ UNCHANGED importLock
            ELSE Leave(i) /\ UNCHANGED <<rows, published>>
  /\ UNCHANGED <<runs, userActs, faults>>

End(i) ==
  /\ job[i].pc = "write" /\ job[i].todo = {}
  /\ Leave(i)
  /\ UNCHANGED <<rows, published, runs, userActs, faults>>

(* A store call fails or the process stops: what was admitted stays.         *)
Break(i) ==
  /\ job[i].pc = "write" /\ faults < MaxFaults
  /\ faults' = faults + 1
  /\ Leave(i)
  /\ UNCHANGED <<rows, published, runs, userActs>>

-----------------------------------------------------------------------------
(* The operator *)

Change(r, new) ==
  /\ rows' = (rows \ {r}) \cup {[new EXCEPT !.version = r.version + 1]}
  /\ published' = published \cup Publish(new)

(* Task requests take no import lock.                                        *)
ActOnTask(r) ==
  /\ r.type = "Task" /\ r.status = "active"
  /\ \/ Change(r, [r EXCEPT !.status = "completed"])
     \/ Change(r, [r EXCEPT !.payload.body = "mine"])

(* Objectives and preferences are written under the import lock.             *)
ActOnOther(r) ==
  /\ importLock = Nobody
  /\ \/ /\ r.type = "Preference" /\ r.payload.enabled
        /\ Change(r, [r EXCEPT !.payload.enabled = FALSE])
     \/ /\ r.type = "Objective" /\ r.status = "active"
        /\ \/ Change(r, [r EXCEPT !.status = "paused"])
           \/ LET template == [r.payload.template EXCEPT !.length = 1]
              IN Change(r, [r EXCEPT !.payload = Revised(r.payload,
                                                 [r.payload EXCEPT !.template = template])])

Operate ==
  /\ userActs < MaxUserActs /\ userActs' = userActs + 1
  /\ \E r \in rows : ActOnTask(r) \/ ActOnOther(r)
  /\ UNCHANGED <<importLock, job, runs, faults>>

Next ==
  \/ Operate
  \/ \E i \in Importers : \/ Begin(i) \/ End(i) \/ Break(i)
                          \/ \E m \in job[i].todo : WriteNext(i, m)

Spec == Init /\ [][Next]_vars

-----------------------------------------------------------------------------
(* However often a snapshot is imported, by whom at once and however a run   *)
(* ended, a source object is one object here, and a counter of a routine has *)
(* stood for one content only: whoever saw that number saw this routine.     *)
ImportInv ==
  /\ \A r, s \in rows : r.type = s.type /\ r.source = s.source => r = s
  /\ \A p, q \in published : p[1] = q[1] /\ p[2] = q[2] /\ p[3] = q[3] => p[4] = q[4]

(* An import writes only over what it read: it does not reopen what the      *)
(* operator ended, lose an edit made since, or turn a preference on again.   *)
WritesWhatItRead ==
  \A r \in rows : r \in rows' \/ userActs' # userActs \/
     /\ r.status = "active"
     /\ \E i \in Importers : r \in job[i].existing
     /\ r.type = "Preference" =>
          \E n \in rows' : n.id = r.id /\ n.payload.enabled = r.payload.enabled

MainlineWins == [][WritesWhatItRead]_vars

Within(e, bounds) == e.min >= bounds.min /\ e.max <= bounds.max

(* No delay suits them all.                                                  *)
Contradict(bounds) == \E e, f \in bounds : e.min > f.max

(* The bounds a routine was given: its own and those of its requirements.    *)
Given(s, r) ==
  ToSet(Explicit(s, r)) \cup
    {EdgeFor(s, r, q) : q \in {p \in ToSet(s.routines[r].requires) : Resolvable(s, r, p)}}

(* The order an import writes for a routine loses nothing it was given: each *)
(* bound of after is kept by an edge at least as strict, and each            *)
(* requirement with one nearest establisher is met, unless no delay suits it *)
(* and what is kept.  And it invents nothing: an edge has the minimum of one *)
(* and the maximum of one of the bounds given for that routine.              *)
OrderIsKept ==
  \A i \in Importers : job[i].pc = "write" =>
    \A r \in MappedRoutines(job[i].file) :
    LET s == job[i].file
        edges == ToSet(After(s, r))
    IN /\ \A f \in ToSet(Explicit(s, r)) : \E e \in edges : e.to = f.to /\ Within(e, f)
       /\ \A q \in ToSet(s.routines[r].requires) : Resolvable(s, r, q) =>
            LET kept == {e \in edges : Nearest(s, r, q.fact) = {e.to}}
            IN (\E e \in kept : Within(e, q)) \/ Contradict(kept \cup {q})
       /\ \A e \in edges :
            /\ Sound(e)
            /\ \E f, g \in Given(s, r) : /\ f.to = e.to /\ f.min = e.min
                                         /\ g.to = e.to /\ g.max = e.max

=============================================================================
