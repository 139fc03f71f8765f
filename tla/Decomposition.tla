--------------------------- MODULE Decomposition ----------------------------
(* The structural replacement of a Task by a checklist of Tasks, and its     *)
(* undo: each reads, decides and admits one batch, which the versions of     *)
(* what was read guard against the requests that take no lock.               *)
(*                                                                           *)
(* A child lasts one unit of time.  The fields that are copied without a     *)
(* condition are one value, the body.                                        *)
EXTENDS Naturals, Sequences, SequencesExt, FiniteSets, FiniteSetsExt

CONSTANTS Origins,       \* the Tasks there are at first, as records
          Proposals,     \* the checklists the operator may write
          Clients,       \* requests in flight
          Horizon, MaxTasks, MaxEdits    \* bounds

VARIABLES tasks,       \* id -> Task
          containers,  \* id -> Container, with the snapshot its Log keeps
          actionLock,  \* task_action_lock
          job,         \* what each client read
          now, edits

vars == <<tasks, containers, actionLock, job, now, edits>>

Nobody == "nobody"

Idle == [pc |-> "idle", on |-> 0, expected |-> 0, seen |-> <<>>, proposal |-> <<>>]

NoWindow == [kind |-> "none", from |-> 0, to |-> 0]

NewTask(body, window, after, work, parent) ==
  [status |-> "active", version |-> 1, body |-> body, window |-> window,
   after |-> after, work |-> work, parent |-> parent]

Init ==
  /\ tasks = [t \in DOMAIN Origins |-> NewTask(0, Origins[t].window, Origins[t].after, t, 0)]
  /\ containers = <<>>
  /\ actionLock = Nobody
  /\ job = [c \in Clients |-> Idle]
  /\ now = 0 /\ edits = 0

-----------------------------------------------------------------------------
(* What a proposal must be *)

(* Split points cut the checklist into segments.                             *)
Segments(p) ==
  LET cuts == {0, Len(p.children)} \cup ToSet(p.splits)
  IN {(x[1] + 1)..x[2] : x \in {y \in cuts \X cuts :
        y[1] < y[2] /\ \A c \in cuts : c <= y[1] \/ y[2] <= c}}

(* A segment of several children is done in one go: none of them is fixed in *)
(* time or gated, and what they share of the time ahead holds them all.      *)
Contiguous(p, segment) ==
  LET windows == {p.children[i].window : i \in segment}
      ranges == {w \in windows : w.kind = "range"}
      start == Max({now} \cup {w.from : w \in ranges})
      end == Min({Horizon + MaxTasks} \cup {w.to : w \in ranges})
  IN /\ \A i \in segment : ~ p.children[i].gated
     /\ \A w \in windows : w.kind # "static"
     /\ start + Cardinality(segment) <= end

Acceptable(p) ==
  /\ Len(p.children) >= 2
  /\ \A k \in DOMAIN p.splits : p.splits[k] \in 1..(Len(p.children) - 1)
  /\ \A k, l \in DOMAIN p.splits : k < l => p.splits[k] < p.splits[l]
  /\ \A i \in DOMAIN p.children : p.children[i].after \subseteq 1..(i - 1)
  /\ \A segment \in Segments(p) : Cardinality(segment) > 1 => Contiguous(p, segment)

IsChild(t) == \E c \in DOMAIN containers : t \in ToSet(containers[c].items)

-----------------------------------------------------------------------------
(* Decompose *)

Take(c, step) ==
  /\ actionLock = Nobody /\ actionLock' = c
  /\ job[c].pc = "idle" /\ job' = [job EXCEPT ![c] = step]

Leave(c) == actionLock' = Nobody /\ job' = [job EXCEPT ![c] = Idle]

(* The client names the version it saw, which may be an old one.             *)
ReadOrigin(c) ==
  /\ \E t \in DOMAIN tasks, p \in Proposals :
       /\ tasks[t].status = "active" /\ ~ IsChild(t) /\ Acceptable(p)
       /\ Len(tasks) + Len(p.children) <= MaxTasks
       /\ \E expected \in {tasks[t].version, tasks[t].version - 1} \ {0} :
            Take(c, [pc |-> "decompose", on |-> t, expected |-> expected,
                     seen |-> [o \in {t} |-> tasks[o]], proposal |-> p])
  /\ UNCHANGED <<tasks, containers, now, edits>>

Moot(row) == [row EXCEPT !.status = "moot", !.version = @ + 1]

(* Each child waits for its predecessor besides what it names.               *)
Children(p, work, parent) ==
  [i \in DOMAIN p.children |->
     NewTask(0, p.children[i].window,
             {Len(tasks) + d : d \in p.children[i].after \cup (IF i > 1 THEN {i - 1} ELSE {})},
             work, parent)]

(* One batch: the Log, the children, the Container, the origin.              *)
AdmitChecklist(c) ==
  LET j == job[c]
      p == j.proposal
      id == Len(containers) + 1
  IN /\ j.pc = "decompose"
     /\ IF tasks[j.on].version = j.expected
          THEN /\ tasks' = [tasks EXCEPT ![j.on] = Moot(j.seen[j.on])]
                             \o Children(p, tasks[j.on].work, id)
               /\ containers' = Append(containers,
                    [status |-> "active", version |-> 1, origin |-> j.on,
                     snapshot |-> j.seen[j.on], splits |-> p.splits, left |-> {},
                     items |-> [i \in DOMAIN p.children |-> Len(tasks) + i], restored |-> 0])
          ELSE UNCHANGED <<tasks, containers>>
     /\ Leave(c)
     /\ UNCHANGED <<now, edits>>

-----------------------------------------------------------------------------
(* Undo *)

WrongUndoable(k) == TRUE

Undoable(k) == containers[k].status = "active"

(* The Container, its origin and every child are read, and the versions of   *)
(* all of them, of the completed ones too, are what the batch depends on.    *)
ReadContainer(c) ==
  /\ \E k \in DOMAIN containers :
       /\ Undoable(k) /\ Len(tasks) < MaxTasks
       /\ Take(c, [pc |-> "undo", on |-> k, expected |-> containers[k].version, proposal |-> <<>>,
                   seen |-> [t \in {containers[k].origin} \cup ToSet(containers[k].items) |->
                               tasks[t]]])
  /\ UNCHANGED <<tasks, containers, now, edits>>

(* A time that has passed, or can hold the work no more, is left out.        *)
Carried(window) ==
  CASE window.kind = "static" /\ (window.from < now \/ window.to <= now) -> NoWindow
    [] window.kind = "range" /\ Max({window.from, now}) + 1 > window.to -> NoWindow
    [] OTHER -> window

WrongUnchanged(seen) == TRUE

Unchanged(seen) == \A t \in DOMAIN seen : tasks[t].version = seen[t].version

AdmitUndo(c) ==
  LET j == job[c]
      k == containers[j.on]
      done == {t \in ToSet(k.items) : j.seen[t].status = "completed"}
      restored == NewTask(k.snapshot.body, Carried(k.snapshot.window), k.snapshot.after,
                          k.snapshot.work, 0)
  IN /\ j.pc = "undo"
     /\ IF Unchanged(j.seen) /\ k.version = j.expected
          THEN /\ tasks' = Append([t \in DOMAIN tasks |->
                              IF t \in ToSet(k.items) \ done THEN Moot(j.seen[t]) ELSE tasks[t]],
                            restored)
               /\ containers' = [containers EXCEPT
                    ![j.on] = [k EXCEPT !.status = "superseded", !.version = @ + 1,
                                        !.left = done, !.restored = Len(tasks) + 1]]
          ELSE UNCHANGED <<tasks, containers>>
     /\ Leave(c)
     /\ UNCHANGED <<now, edits>>

-----------------------------------------------------------------------------
(* The other requests *)

(* Task actions are made under the lock, in one piece as seen from here.     *)
Act ==
  /\ actionLock = Nobody
  /\ edits < MaxEdits /\ edits' = edits + 1
  /\ \E t \in DOMAIN tasks, to \in {"active", "completed", "skipped"} :
       /\ tasks[t].status = (IF to = "active" THEN "completed" ELSE "active")
       /\ tasks' = [tasks EXCEPT ![t].status = to, ![t].version = @ + 1]
  /\ UNCHANGED <<containers, actionLock, job, now>>

(* PATCH /task/:id takes no lock and checks no status.                       *)
Patch ==
  /\ edits < MaxEdits /\ edits' = edits + 1
  /\ \E t \in DOMAIN tasks :
       tasks' = [tasks EXCEPT ![t].body = @ + 1, ![t].version = @ + 1]
  /\ UNCHANGED <<containers, actionLock, job, now>>

(* The request is dropped, or a store call fails: nothing was admitted.      *)
Drop(c) ==
  /\ job[c].pc # "idle" /\ Leave(c)
  /\ UNCHANGED <<tasks, containers, now, edits>>

Tick ==
  /\ now < Horizon /\ now' = now + 1
  /\ UNCHANGED <<tasks, containers, actionLock, job, edits>>

Next ==
  \/ Act \/ Patch \/ Tick
  \/ \E c \in Clients : ReadOrigin(c) \/ AdmitChecklist(c)
                          \/ ReadContainer(c) \/ AdmitUndo(c) \/ Drop(c)

Spec == Init /\ [][Next]_vars

-----------------------------------------------------------------------------
(* A piece of work is on the list in one form: as the Task it was or became, *)
(* or as an active checklist.  Only a child that an undo left completed can  *)
(* come back beside it, when its completion is undone afterwards.            *)
OneFormOfTheWork ==
  \A work \in DOMAIN Origins :
    LET whole == {t \in DOMAIN tasks : /\ tasks[t].work = work /\ tasks[t].status = "active"
                                       /\ tasks[t].parent = 0}
        parts == {tasks[t].parent : t \in {u \in DOMAIN tasks :
                    /\ tasks[u].work = work /\ tasks[u].status = "active" /\ tasks[u].parent # 0
                    /\ u \notin containers[tasks[u].parent].left}}
    IN Cardinality(whole) + Cardinality(parts) <= 1

(* Replacing and undoing take work off the list and nothing else: an edit    *)
(* made meanwhile is kept, a completion is never erased, and the snapshot a  *)
(* Container is undone from is the Task as it was replaced.                  *)
ErasesNothing ==
  edits' = edits =>
     /\ \A t \in DOMAIN tasks :
          /\ tasks'[t].body = tasks[t].body
          /\ tasks[t].status = "completed" => tasks'[t] = tasks[t]
     /\ \A k \in DOMAIN containers' : k \notin DOMAIN containers =>
          containers'[k].snapshot = tasks[containers'[k].origin]

NothingIsErased == [][ErasesNothing]_vars

=============================================================================
