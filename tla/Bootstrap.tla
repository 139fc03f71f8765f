----------------------------- MODULE Bootstrap ------------------------------
(* The seeding of an empty store: a check that nothing was seeded, then an   *)
(* Objective, the settings, the issues of a repository and a UniverseState,  *)
(* each admitted by itself and under no lock, beside the writers of the      *)
(* UniverseState and the import of issues on request.                        *)
EXTENDS Naturals, Sequences, FiniteSets

CONSTANTS Seeders,     \* seed requests in flight
          Issues,      \* of the selected repository, as mapped by the adapter
          Settings,    \* the settings a seed answers
          MaxSeeds, MaxImports, MaxEffects, MaxFaults    \* bounds

VARIABLES objectives,  \* bootstrap Objectives, by the seed that admitted them
          settings,    \* bootstrap Settings: seed and name
          imported,    \* one row for each admission of an issue
          references,  \* ExternalReferences stored
          universes,   \* UniverseState rows: who admitted them, which effects they hold
          current,     \* the row with the latest updated_at
          job, effect, \* a seed's progress; the row a completion has read
          together,    \* two seeds were in flight at once
          seeds, imports, effects, faults

vars == <<objectives, settings, imported, references, universes, current, job,
          effect, together, seeds, imports, effects, faults>>

Idle == [pc |-> "idle", seed |-> 0, left |-> {}]

NoRead == [reading |-> FALSE, row |-> 0]

Init ==
  /\ objectives = {} /\ settings = {} /\ imported = <<>> /\ references = 0
  /\ universes = <<>> /\ current = 0
  /\ job = [s \in Seeders |-> Idle]
  /\ effect = NoRead /\ together = FALSE
  /\ seeds = 0 /\ imports = 0 /\ effects = 0 /\ faults = 0

-----------------------------------------------------------------------------
(* Seeding *)

WrongSeeded == \E u \in DOMAIN universes : universes[u].by = "bootstrap"

(* Only Objectives and Settings are asked for.                               *)
Seeded == objectives # {} \/ settings # {}

Goto(s, pc, left) == job' = [job EXCEPT ![s].pc = pc, ![s].left = left]

(* Refused when seeded, and when no token is there to import with.           *)
Check(s) ==
  /\ job[s].pc = "idle" /\ seeds < MaxSeeds /\ ~ Seeded
  /\ seeds' = seeds + 1
  /\ job' = [job EXCEPT ![s] = [pc |-> "objective", seed |-> seeds + 1, left |-> {}]]
  /\ together' = (together \/ \E other \in Seeders : job[other].pc # "idle")
  /\ UNCHANGED <<objectives, settings, imported, references, universes, current,
                 effect, imports, effects, faults>>

AdmitObjective(s) ==
  /\ job[s].pc = "objective"
  /\ objectives' = objectives \cup {job[s].seed}
  /\ Goto(s, "settings", Settings)
  /\ UNCHANGED <<settings, imported, references, universes, current, effect,
                 together, seeds, imports, effects, faults>>

AdmitSetting(s) ==
  /\ job[s].pc = "settings" /\ job[s].left # {}
  /\ \E name \in job[s].left :
       /\ settings' = settings \cup {<<job[s].seed, name>>}
       /\ Goto(s, "settings", job[s].left \ {name})
  /\ UNCHANGED <<objectives, imported, references, universes, current, effect,
                 together, seeds, imports, effects, faults>>

(* The repository is read before the first of its issues is admitted; each   *)
(* gets a Task of its own, whatever was imported before.                     *)
ReadRepository(s) ==
  /\ job[s].pc = "settings" /\ job[s].left = {}
  /\ Goto(s, "tasks", Issues)
  /\ UNCHANGED <<objectives, settings, imported, references, universes, current,
                 effect, together, seeds, imports, effects, faults>>

AdmitMappedTask(s) ==
  /\ job[s].pc = "tasks" /\ job[s].left # {}
  /\ \E issue \in job[s].left :
       /\ imported' = Append(imported, [issue |-> issue, objective |-> job[s].seed])
       /\ Goto(s, "tasks", job[s].left \ {issue})
  /\ UNCHANGED <<objectives, settings, references, universes, current, effect,
                 together, seeds, imports, effects, faults>>

StoreReferences(s) ==
  /\ job[s].pc = "tasks" /\ job[s].left = {}
  /\ references' = references + Cardinality(Issues)
  /\ Goto(s, "universe", {})
  /\ UNCHANGED <<objectives, settings, imported, universes, current, effect,
                 together, seeds, imports, effects, faults>>

(* A new row, which becomes the current one and holds no effect.             *)
AdmitUniverse(s) ==
  /\ job[s].pc = "universe"
  /\ universes' = Append(universes, [by |-> "bootstrap", held |-> 0])
  /\ current' = Len(universes')
  /\ job' = [job EXCEPT ![s] = Idle]
  /\ UNCHANGED <<objectives, settings, imported, references, effect,
                 together, seeds, imports, effects, faults>>

(* GitHub or the store fails, or the request is dropped.                     *)
Fail(s) ==
  /\ job[s].pc # "idle" /\ faults < MaxFaults
  /\ faults' = faults + 1
  /\ job' = [job EXCEPT ![s] = Idle]
  /\ UNCHANGED <<objectives, settings, imported, references, universes, current,
                 effect, together, seeds, imports, effects>>

-----------------------------------------------------------------------------
(* Beside it *)

(* A fixture, or a repository the operator names, may stop after any issue.  *)
Import ==
  /\ imports < MaxImports /\ imports' = imports + 1
  /\ \E issue \in Issues :
       /\ imported' = Append(imported, [issue |-> issue, objective |-> 0])
       /\ references' \in {references, references + 1}
  /\ UNCHANGED <<objectives, settings, universes, current, job, effect,
                 together, seeds, effects, faults>>

(* A completion or an operator's edit, under task_action_lock.               *)
ReadUniverse ==
  /\ ~ effect.reading /\ effects < MaxEffects /\ effects' = effects + 1
  /\ effect' = [reading |-> TRUE, row |-> current]
  /\ UNCHANGED <<objectives, settings, imported, references, universes, current,
                 job, together, seeds, imports, faults>>

WriteUniverse ==
  /\ effect.reading /\ effect' = NoRead
  /\ LET row == effect.row
     IN IF row = 0 THEN /\ universes' = Append(universes, [by |-> "effects", held |-> 1])
                        /\ current' = Len(universes')
        ELSE /\ universes' = [universes EXCEPT ![row].held = @ + 1]
             /\ current' = row
  /\ UNCHANGED <<objectives, settings, imported, references, job,
                 together, seeds, imports, effects, faults>>

Next ==
  \/ Import \/ ReadUniverse \/ WriteUniverse
  \/ \E s \in Seeders :
       \/ Check(s) \/ AdmitObjective(s) \/ AdmitSetting(s) \/ ReadRepository(s)
       \/ AdmitMappedTask(s) \/ StoreReferences(s) \/ AdmitUniverse(s) \/ Fail(s)

Spec == Init /\ [][Next]_vars

-----------------------------------------------------------------------------
(* Seeds that do not meet leave one bootstrap Objective, one answer to each  *)
(* setting and one UniverseState at most, whichever of them failed where.    *)
SeedsApartAreOne ==
  together \/ /\ Cardinality(objectives) <= 1
              /\ \A p, q \in settings : p[2] = q[2] => p = q
              /\ Cardinality({u \in DOMAIN universes : universes[u].by = "bootstrap"}) <= 1

=============================================================================
