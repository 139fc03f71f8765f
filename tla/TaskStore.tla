----------------------------- MODULE TaskStore -----------------------------
(***************************************************************************)
(* The slice of the SQLite store (the external crate ubu_store) that every *)
(* handler touching a Task shares: the current row of each Task and the    *)
(* append-only log.  A row is replaced only by a write that observed its   *)
(* current version; a log entry may name the versions it observed, and is  *)
(* refused when one of them is stale.                                      *)
(*                                                                         *)
(* A moot Task keeps its reason code in its payload; the status here folds *)
(* the two together: "skipped" is moot/user_declared_moot, "superseded" is *)
(* moot/superseded and "replaced" is moot/replaced_by_new_plan_structure.  *)
(***************************************************************************)
EXTENDS Integers, Sequences

CONSTANTS
  Tasks,        \* the Task ids of the instance
  Occurrences   \* the Tasks that are routine occurrences

ASSUME OccurrencesAreTasks == Occurrences \subseteq Tasks

VARIABLES
  task,   \* the current row of each Task
  log     \* the log, in append order; an entry's id is its position

Statuses == {"absent", "active", "completed", "failed",
             "skipped", "superseded", "replaced"}

TaskRow == [status : Statuses, version : Nat, static : BOOLEAN]

CompletionEvents == {"task_completed", "task_done"}
OutcomeEvents    == {"task_failed", "task_moot"}   \* logged by the materializer
Events == CompletionEvents \union OutcomeEvents
            \union {"task_reopened", "occurrence_skipped", "noted"}

LogEntry == [event : Events, about : Tasks,
             source : {"app", "calendar", "system"}, undoes : Nat]

StoreTypeOK ==
  /\ task \in [Tasks -> TaskRow]
  /\ log \in Seq(LogEntry)

(* Admission replaces a row whose version is the observed one. *)
WrongFresh(t, seen) == seen.version <= task[t].version   \* an older one will do

Fresh(t, seen) == task[t].version = seen.version

Admit(t, seen, status, static) ==
  /\ Fresh(t, seen)
  /\ task' = [task EXCEPT ![t] = [status  |-> status,
                                  version |-> seen.version + 1,
                                  static  |-> static]]

Entry(event, t, source, undoes) ==
  [event |-> event, about |-> t, source |-> source, undoes |-> undoes]

Record(entry) == log' = Append(log, entry)

(* The log entries that count as a completion of t: the canonical decision *)
(* and the legacy task_done fact.                                          *)
Completions(t) ==
  {i \in 1..Len(log) : log[i].about = t /\ log[i].event \in CompletionEvents}

IsLatestCompletion(i, t) ==
  i \in Completions(t) /\ \A j \in Completions(t) : j <= i

(* Any log entry naming an occurrence is execution evidence, except the    *)
(* materializer's own outcomes.                                            *)
Evidence(t) ==
  \E i \in 1..Len(log) : log[i].about = t /\ log[i].event \notin OutcomeEvents

=============================================================================
