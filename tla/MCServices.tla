------------------------------ MODULE MCServices ------------------------------
(* Services that have no state in common, one at a time: `part` names the    *)
(* one that runs, the others stay in an initial state.  They are the         *)
(* advisory queue (extended here), the GitHub projection, the quick UbU      *)
(* import, bootstrap and the locks of them all.  The count of faults is      *)
(* shared by three.                                                          *)
EXTENDS AdvisoryQueue, Integers, TLC

CONSTANTS h1, h2, free, none, always, fuelled, fuel, ubu, a1, a2, i1, i2, s1, s2, r1, r2, r3

CONSTANTS Managed, Approvers, MaxPreviews, MaxApprovals, MaxTouches,   \* GitHubLabels
          Snapshots, Native, Importers, MaxRuns, MaxUserActs,          \* QuickImport
          Seeders, Issues, Settings, MaxSeeds, MaxImports, MaxEffects, \* Bootstrap
          Requests, MaxStarts,                                         \* Locks
          MaxFaults                                                    \* of the first three

(* projection_service.rs lists the labels it manages.                        *)
ASSUME LabelConstants == IsFiniteSet(Managed)

(* Nobody is no importer; the operator's routine is none of a snapshot's,    *)
(* whose routines bound delays by any numbers of seconds.                    *)
ASSUME ImportConstants ==
  /\ "nobody" \notin Importers
  /\ Native = [rule |-> Native.rule, scheduleVersion |-> Native.scheduleVersion,
               templateVersion |-> Native.templateVersion, template |-> Native.template]
  /\ Native.scheduleVersion \in Nat /\ Native.templateVersion \in Nat
  /\ \A s \in Snapshots : /\ "native" \notin DOMAIN s.routines
                          /\ DOMAIN s.preferences \subseteq Nat \ {0}
                          /\ DOMAIN s.routines \subseteq STRING
                          /\ \A r \in DOMAIN s.routines :
                               /\ s.routines[r].after
                                    \in Seq([to : STRING, min : Int, max : Int])
                               /\ s.routines[r].requires
                                    \in Seq([fact : STRING, min : Int, max : Int])

VARIABLES part, faults,
          repoLabels, issueLabels, author, previews, approvals, boundary,
          approving, results, verdict, accepted, touches,
          rows, importLock, importJob, published, runs, userActs,
          objectives, settings, imported, references, universes, current,
          seedJob, effect, together, seeds, imports, effects,
          program, held, queue, starts

labelVars == <<repoLabels, issueLabels, author, previews, approvals, boundary,
               approving, results, verdict, accepted, touches>>
importVars == <<rows, importLock, importJob, published, runs, userActs>>
seedVars == <<objectives, settings, imported, references, universes, current,
              seedJob, effect, together, seeds, imports, effects>>
lockVars == <<program, held, queue, starts>>

Labels == INSTANCE GitHubLabels
Snapshot == INSTANCE QuickImport WITH job <- importJob
Seeding == INSTANCE Bootstrap WITH job <- seedJob
Locking == INSTANCE Locks

-----------------------------------------------------------------------------
(* Of the advisory queue: one tree needs no fact, the other one.             *)
TreeNeeds == [t \in {always, fuelled} |-> IF t = fuelled THEN {fuel} ELSE {}]

(* Fixtures of QuickImport: two routines of which one waits for the other,   *)
(* two Tasks, two preferences that contradict each other.                    *)
Edge(to, min, max) == [to |-> to, min |-> min, max |-> max]

Routine(start, waits, requires, establishes) ==
  [rule |-> "daily", start |-> start, length |-> 2, static |-> TRUE, representable |-> TRUE,
   after |-> waits, requires |-> requires, establishes |-> establishes]

Requires(min, max) == [fact |-> "fed", min |-> min, max |-> max]

Item(blockedBy) ==
  [origin |-> "manual", done |-> FALSE, pin |-> "none", body |-> "theirs", blockedBy |-> blockedBy]

Ranked(left, right, order) == [left |-> left, right |-> right, order |-> order]

First ==
  [routines |-> [breakfast |-> Routine(6, <<>>, <<>>, {"fed"}),
                 walk |-> Routine(9, <<Edge("breakfast", 1, 5), Edge("breakfast", 0, 4)>>,
                                 <<Requires(0, 3)>>, {})],
   routineOrder |-> <<"breakfast", "walk">>,
   tasks |-> [call |-> Item({"write"}), write |-> Item({})],
   taskOrder |-> <<"call", "write">>,
   preferences |-> <<Ranked({"call"}, {"write"}, "preferred"), Ranked({"call"}, {"write"}, "same")>>]

(* Only the order of the walk differs: breakfast's bounds are narrowed once  *)
(* and then contradicted, supper's contradict each other from the start and  *)
(* one of them is negative; a Task waits for itself.                         *)
Second ==
  [First EXCEPT !.routines =
     [breakfast |-> Routine(6, <<>>, <<>>, {"fed"}),
      supper |-> Routine(4, <<>>, <<>>, {"rested"}),
      walk |-> Routine(9, <<Edge("supper", 0, 1), Edge("breakfast", 0, 2),
                          Edge("supper", 3, 4), Edge("supper", -1, 9)>>,
                       <<Requires(1, 4), Requires(3, 4),
                         [fact |-> "rested", min |-> 1, max |-> 3]>>, {})],
                !.routineOrder = <<"breakfast", "supper", "walk">>,
                !.tasks.write = Item({"write"})]

(* The walk collides with the operator's own routine.                        *)
Third == [First EXCEPT !.routines.walk = Routine(12, <<>>, <<>>, {})]

Files == {First, Second, Third}

Mine == [rule |-> "daily", scheduleVersion |-> 1, templateVersion |-> 1,
         template |-> [start |-> 13, length |-> 2, static |-> TRUE, after |-> <<>>]]

-----------------------------------------------------------------------------
ServicesInit ==
  /\ part \in {"advice", "labels", "import", "seed", "locks"}
  /\ Init /\ (part # "advice" => task.tree = none /\ world.facts = {})
  /\ Labels!Init /\ (part # "labels" => repoLabels = {})
  /\ Snapshot!Init /\ Seeding!Init /\ Locking!Init

ServicesNext ==
  \/ /\ part = "advice" /\ Next
     /\ UNCHANGED <<part, faults, labelVars, importVars, seedVars, lockVars>>
  \/ /\ part = "labels" /\ Labels!Next
     /\ UNCHANGED <<part, vars, importVars, seedVars, lockVars>>
  \/ /\ part = "import" /\ Snapshot!Next
     /\ UNCHANGED <<part, vars, labelVars, seedVars, lockVars>>
  \/ /\ part = "seed" /\ Seeding!Next
     /\ UNCHANGED <<part, vars, labelVars, importVars, lockVars>>
  \/ /\ part = "locks" /\ Locking!Next
     /\ UNCHANGED <<part, faults, vars, labelVars, importVars, seedVars>>

ServicesSpec ==
  ServicesInit
    /\ [][ServicesNext]_<<part, faults, vars, labelVars, importVars, seedVars, lockVars>>

Symmetry == Permutations(Handlers) \cup Permutations(Approvers)

-----------------------------------------------------------------------------
(* A stored result of an export is the truth about its calls, however the    *)
(* batch ended (services/projection_service.rs).                             *)
ReportedIsDone == part = "labels" => Labels!ReportedIsDone

(* UbU changes GitHub only by an operation of an approved preview whose      *)
(* export the policy accepts and whose boundary decision is in the log.      *)
ExportsAreLegitimate ==
  [][part = "labels" => Labels!LegitimateExport]_labelVars

(* A conflict a reconciliation reports on the issue is another hand's doing. *)
ConflictsHaveAnAuthor ==
  [][part = "labels" => Labels!AuthoredConflict]_labelVars

(* However often a snapshot is imported, a source object is one object here  *)
(* and a counter of a routine has stood for one content only                 *)
(* (services/quick_ubu_import.rs).                                           *)
ImportInv == part = "import" => Snapshot!ImportInv

(* An import writes only over what it read: it never undoes the operator's   *)
(* own edit of what it imported.                                             *)
MainlineWins ==
  [][part = "import" => Snapshot!WritesWhatItRead]_importVars

(* The order an import writes for a routine keeps every bound it was given.  *)
OrderIsKept == part = "import" => Snapshot!OrderIsKept

(* Seeds that do not meet leave one bootstrap Objective, one answer to each  *)
(* setting and one UniverseState at most (services/bootstrap_service.rs).    *)
SeedsApartAreOne == part = "seed" => Seeding!SeedsApartAreOne

(* Requests that have lined up for the locks of state.rs are never all       *)
(* waiting for one another.                                                  *)
NoCircularWait == part = "locks" => Locking!NoCircularWait
=============================================================================
