------------------------------ MODULE Transfer ------------------------------
(***************************************************************************)
(* What the two ends of a link promise together: transfers are submitted   *)
(* one after the other, each is handed to the receiving application at     *)
(* most once, whole, in the order of submission, and the sending           *)
(* application is told SX_OK only for a transfer that has been handed      *)
(* over.  A transfer may fail at any time, handed over or not.             *)
(***************************************************************************)
EXTENDS Naturals, Sequences

CONSTANTS Workloads, Failures

VARIABLES
  jobs,          \* the transfers of this run, in order
  current,       \* the last one submitted
  outcome,       \* what the sending application was told of each
  handed         \* what the receiving application got, in order

vars == <<jobs, current, outcome, handed>>

\* A transfer's content: fragment i of transfer j is <<j, i>>.
Content(j) == [i \in 1..jobs[j].n |-> <<j, i>>]

HandedOver(j) == \E k \in DOMAIN handed: handed[k] = Content(j)

Init ==
  /\ jobs \in Workloads
  /\ current = 0
  /\ outcome = [j \in DOMAIN jobs |-> "pending"]
  /\ handed = <<>>

Submit ==
  /\ current < Len(jobs)
  /\ current > 0 => outcome[current] # "pending"
  /\ current' = current + 1
  /\ UNCHANGED <<jobs, outcome, handed>>

HandOver(j) ==
  /\ \A k \in j..Len(jobs): ~HandedOver(k)
  /\ handed' = Append(handed, Content(j))
  /\ UNCHANGED <<jobs, current, outcome>>

Report(code) ==
  /\ current > 0
  /\ outcome[current] = "pending"
  /\ code = "SX_OK" => HandedOver(current)
  /\ outcome' = [outcome EXCEPT ![current] = code]
  /\ UNCHANGED <<jobs, current, handed>>

Next ==
  \/ Submit
  \/ \E j \in 1..current: HandOver(j)
  \/ \E code \in Failures \cup {"SX_OK"}: Report(code)

Spec == Init /\ [][Next]_vars
=============================================================================
