--------------------------- MODULE GitHubLabels -----------------------------
(* The projection of managed labels onto a GitHub issue: a preview of the    *)
(* label operations, an approval that exports them one call at a time        *)
(* through the export gate, the reconciliation of the last applied result    *)
(* with what the issue shows, and the acceptance of an external change.      *)
(*                                                                           *)
(* One repository and one issue.  The envelope of a log entry, the wording   *)
(* of a result and the HTTP shapes are left out; the core export gate and    *)
(* GitHub are external.                                                      *)
EXTENDS Naturals, Sequences, SequencesExt, FiniteSets

CONSTANTS Managed,      \* UbU-managed labels
          Approvers,    \* approvals in flight
          MaxPreviews, MaxApprovals, MaxTouches, MaxFaults   \* bounds

VARIABLES repoLabels, issueLabels,   \* GitHub
          author,      \* who wrote each label of the issue last
          previews,    \* projection_previews, each with its policy summary
          approvals,   \* projection_approvals rows: preview, approved or not
          boundary,    \* compartment_boundary_decided entries: approval, operation
          approving,   \* an approval's progress
          results,     \* projection_results in the order of applied_at
          verdict,     \* the last projection_reconciliations row
          accepted,    \* ExternalEvents admitted for its conflicts
          touches, faults

vars == <<repoLabels, issueLabels, author, previews, approvals, boundary,
          approving, results, verdict, accepted, touches, faults>>

github == <<repoLabels, issueLabels, author>>

Resting == [pc |-> "rest", row |-> 0, preview |-> 0, outcomes |-> <<>>, landed |-> {}]

Owner == <<0, 0>>

NoVerdict == [result |-> 0, conflicts |-> {}]

Init ==
  /\ repoLabels \in SUBSET Managed /\ issueLabels \in SUBSET repoLabels
  /\ author = [l \in Managed |-> Owner]
  /\ previews = <<>> /\ results = <<>>
  /\ approvals = <<>> /\ boundary = {} /\ accepted = {}
  /\ approving = [a \in Approvers |-> Resting]
  /\ verdict = NoVerdict
  /\ touches = 0 /\ faults = 0

-----------------------------------------------------------------------------
(* Preview *)

Operation(kind, l) == [kind |-> kind, labels |-> {l}]

(* The labels of the repository are ensured before any of the issue's.       *)
Preflight(existing) ==
  IF existing = Managed THEN <<>>
  ELSE <<[kind |-> "preflight", labels |-> Managed \ existing]>>

LabelDiff(desired, observed) ==
  SetToSeq({Operation("apply", l) : l \in desired \ observed})
    \o SetToSeq({Operation("remove", l) : l \in observed \ desired})

(* A preview without a difference falls back on the preflight, which is then *)
(* put before itself.                                                        *)
Batch(desired, observed, existing) ==
  LET diff == LabelDiff(desired, observed)
  IN Preflight(existing) \o (IF diff = <<>> THEN Preflight(existing) ELSE diff)

(* The caller says what it observes; the store is given the policy with it.  *)
Preview ==
  /\ Len(previews) < MaxPreviews
  /\ \E desired \in SUBSET Managed, observed \in {issueLabels, {}},
        existing \in {repoLabels, {}}, forbidden \in BOOLEAN :
       previews' = Append(previews, [operations |-> Batch(desired, observed, existing),
                                     legitimate |-> ~ forbidden])
  /\ UNCHANGED <<github, approvals, boundary, approving, results, verdict,
                 accepted, touches, faults>>

-----------------------------------------------------------------------------
(* Approve *)

Running(a) == approving[a].pc # "rest"

Operations(a) == previews[approving[a].preview].operations

(* The operation an approval is at.                                          *)
Here(a) == Len(approving[a].outcomes) + 1

Filled(n, status) == [i \in 1..n |-> status]

(* Applied, partial or failed.                                               *)
ResultStatus(outcomes) ==
  CASE \A i \in DOMAIN outcomes : outcomes[i] = "applied" -> "applied"
    [] \E i \in DOMAIN outcomes : outcomes[i] = "applied" /\
       \E j \in DOMAIN outcomes : outcomes[j] # "applied" -> "partial"
    [] OTHER -> "failed"

Result(row, p, outcomes, landed) ==
  [row |-> row, preview |-> p, status |-> ResultStatus(outcomes),
   outcomes |-> outcomes, landed |-> landed]

(* The approval is recorded first; a refusal and a live export without a     *)
(* session token are results of their own, of status failed even when empty. *)
Approve(a) ==
  /\ ~ Running(a) /\ Len(approvals) < MaxApprovals
  /\ \E p \in DOMAIN previews, approved, token \in BOOLEAN :
       /\ approvals' = Append(approvals, [preview |-> p, approved |-> approved])
       /\ IF approved /\ token
            THEN /\ approving' = [approving EXCEPT ![a] =
                      [Resting EXCEPT !.pc = "gate", !.row = Len(approvals) + 1, !.preview = p]]
                 /\ UNCHANGED results
            ELSE LET answer == IF approved THEN "failed" ELSE "skipped"
                     outcomes == Filled(Len(previews[p].operations), answer)
                 IN /\ results' = Append(results,
                         [Result(Len(approvals) + 1, p, outcomes, {}) EXCEPT !.status = "failed"])
                    /\ UNCHANGED approving
  /\ UNCHANGED <<github, previews, boundary, verdict, accepted, touches, faults>>

Answered(a, outcome, landed) ==
  approving' = [approving EXCEPT ![a].pc = "gate",
                                 ![a].outcomes = Append(@, outcome),
                                 ![a].landed = @ \cup landed]

WrongGate(a) ==
  /\ approving[a].pc = "gate" /\ Here(a) \in DOMAIN Operations(a)
  /\ boundary' = boundary \cup {<<approving[a].row, Here(a)>>}
  /\ approving' = [approving EXCEPT ![a].pc = "export"]
  /\ UNCHANGED <<github, previews, approvals, results, verdict, accepted, touches, faults>>

(* The gate's decision is logged before it is acted upon; an operation the   *)
(* policy of the preview does not accept is skipped.                         *)
Gate(a) ==
  /\ approving[a].pc = "gate" /\ Here(a) \in DOMAIN Operations(a)
  /\ boundary' = boundary \cup {<<approving[a].row, Here(a)>>}
  /\ IF previews[approving[a].preview].legitimate
       THEN approving' = [approving EXCEPT ![a].pc = "export"]
       ELSE Answered(a, "skipped", {})
  /\ UNCHANGED <<github, previews, approvals, results, verdict, accepted, touches, faults>>

Written(o, hand) == [l \in Managed |-> IF l \in o.labels THEN hand ELSE author[l]]

(* What GitHub does with one operation.                                      *)
Lands(a, o) ==
  \/ /\ o.kind = "preflight"
     /\ repoLabels' = repoLabels \cup o.labels
     /\ UNCHANGED <<issueLabels, author>>
  \/ /\ o.kind = "apply"
     /\ issueLabels' = issueLabels \cup o.labels
     /\ repoLabels' = repoLabels \cup o.labels
     /\ author' = Written(o, <<approving[a].row, Here(a)>>)
  \/ /\ o.kind = "remove"
     /\ issueLabels' = issueLabels \ o.labels
     /\ author' = Written(o, <<approving[a].row, Here(a)>>)
     /\ UNCHANGED repoLabels

Remaining(a) == Len(Operations(a)) - Here(a)

WrongStop(a, landed) ==
  approving' = [approving EXCEPT ![a].pc = "gate", ![a].landed = @ \cup landed,
     ![a].outcomes = @ \o Filled(Remaining(a) + 1, "skipped")]

(* A rate limit or a transport failure ends the batch: the rest is skipped.  *)
Stop(a, landed) ==
  approving' = [approving EXCEPT ![a].pc = "gate", ![a].landed = @ \cup landed,
     ![a].outcomes = Append(@, "failed") \o Filled(Remaining(a), "skipped")]

Export(a) ==
  /\ approving[a].pc = "export"
  /\ LET o == Operations(a)[Here(a)]
     IN \/ Lands(a, o) /\ Answered(a, "applied", {Here(a)})
        \/ UNCHANGED github /\ Answered(a, "failed", {})
        \/ UNCHANGED github /\ Stop(a, {})
        \/ Lands(a, o) /\ Stop(a, {Here(a)})
  /\ UNCHANGED <<previews, approvals, boundary, results, verdict, accepted, touches, faults>>

Finish(a) ==
  /\ approving[a].pc = "gate" /\ Here(a) \notin DOMAIN Operations(a)
  /\ results' = Append(results, Result(approving[a].row, approving[a].preview,
                                       approving[a].outcomes, approving[a].landed))
  /\ approving' = [approving EXCEPT ![a] = Resting]
  /\ UNCHANGED <<github, previews, approvals, boundary, verdict, accepted, touches, faults>>

(* The process stops, or a store call of an approval fails: what GitHub was  *)
(* told stays told, and no result says so.                                   *)
Lose ==
  /\ faults < MaxFaults /\ faults' = faults + 1
  /\ \E lost \in SUBSET {a \in Approvers : Running(a)} :
       /\ lost # {}
       /\ approving' = [a \in Approvers |-> IF a \in lost THEN Resting ELSE approving[a]]
  /\ UNCHANGED <<github, previews, approvals, boundary, results, verdict, accepted, touches>>

-----------------------------------------------------------------------------
(* Reconcile *)

LastApplied == {i \in DOMAIN results :
                  /\ results[i].status # "failed"
                  /\ \A j \in (i + 1)..Len(results) : results[j].status = "failed"}

WrongCompared(r) == DOMAIN results[r].outcomes

Compared(r) == {i \in DOMAIN results[r].outcomes : results[r].outcomes[i] = "applied"}

(* The labels of the issue are what a preflight, too, is compared with.      *)
Conflicts(r) ==
  LET operations == previews[results[r].preview].operations
  IN {c \in Compared(r) \X Managed :
        /\ c[2] \in operations[c[1]].labels
        /\ c[2] \in issueLabels <=> operations[c[1]].kind = "remove"}

(* A batch without an operation on an issue cannot be reconciled.            *)
Reconcile ==
  /\ \E r \in LastApplied :
       /\ \E i \in DOMAIN previews[results[r].preview].operations :
            previews[results[r].preview].operations[i].kind # "preflight"
       /\ verdict' = [result |-> r, conflicts |-> Conflicts(r)]
  /\ accepted' = {}
  /\ UNCHANGED <<github, previews, approvals, boundary, approving, results, touches, faults>>

(* Accepting records an ExternalEvent; it exports nothing and leaves the     *)
(* reconciliation as it is.  The operation names its first conflict only.    *)
AcceptExternal ==
  /\ \E c \in verdict.conflicts : c \notin accepted /\ accepted' = accepted \cup {c}
  /\ UNCHANGED <<github, previews, approvals, boundary, approving, results,
                 verdict, touches, faults>>

(* Somebody works on GitHub.                                                 *)
OwnerTouches ==
  /\ touches < MaxTouches /\ touches' = touches + 1
  /\ \E l \in Managed :
       /\ issueLabels' = IF l \in issueLabels THEN issueLabels \ {l} ELSE issueLabels \cup {l}
       /\ repoLabels' = repoLabels \cup {l}
       /\ author' = [author EXCEPT ![l] = Owner]
  /\ UNCHANGED <<previews, approvals, boundary, approving, results, verdict, accepted, faults>>

Next ==
  \/ Preview \/ Lose \/ Reconcile \/ AcceptExternal \/ OwnerTouches
  \/ \E a \in Approvers : Approve(a) \/ Gate(a) \/ Export(a) \/ Finish(a)

Spec == Init /\ [][Next]_vars

-----------------------------------------------------------------------------
(* A stored result is the truth about its calls, however the batch ended: an *)
(* operation reported applied was written, and one reported skipped was not. *)
ReportedIsDone ==
  \A r \in DOMAIN results : \A i \in DOMAIN results[r].outcomes :
    /\ results[r].outcomes[i] = "applied" => i \in results[r].landed
    /\ results[r].outcomes[i] = "skipped" => i \notin results[r].landed

(* UbU changes GitHub only by an operation of a preview that was approved,   *)
(* whose policy accepts the export and whose boundary decision is already in *)
(* the log, and only within what that operation names.                       *)
LegitimateExport ==
  <<repoLabels, issueLabels>>' # <<repoLabels, issueLabels>> /\ touches' = touches =>
     \E a \in Approvers :
       /\ Running(a) /\ approvals[approving[a].row].approved
       /\ previews[approvals[approving[a].row].preview].legitimate
       /\ <<approving[a].row, Here(a)>> \in boundary
       /\ LET named == Operations(a)[Here(a)].labels
          IN \A l \in Managed \ named : l \in issueLabels' <=> l \in issueLabels

ExportsAreLegitimate == [][LegitimateExport]_vars

(* A conflict on the issue is another hand's doing: it names an operation    *)
(* the last applied result did apply, and not that operation but the owner   *)
(* or another approval was the last to write the label.                      *)
AuthoredConflict ==
  verdict' # verdict =>
     LET r == results[verdict'.result]
     IN \A c \in verdict'.conflicts :
          \/ previews[r.preview].operations[c[1]].kind = "preflight"
          \/ /\ r.outcomes[c[1]] = "applied"
             /\ author[c[2]] # <<r.row, c[1]>>

ConflictsHaveAnAuthor == [][AuthoredConflict]_vars

=============================================================================
