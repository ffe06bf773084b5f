---------------------------- MODULE ReviewLedger ----------------------------
(***************************************************************************)
(* What the review queue promises an operator and an agent, with nothing   *)
(* of how it keeps it: every review is proposed at most once, ruled on at  *)
(* most once, and a ruling is final.  ReviewQueue implements this.         *)
(***************************************************************************)
CONSTANTS ReviewIds, Verdicts

VARIABLE status

Absent == "absent"
Pending == "pending"

LedgerTypeOK == status \in [ReviewIds -> {Absent, Pending} \cup Verdicts]

Init == status = [id \in ReviewIds |-> Absent]

\* A review that did not exist starts waiting for a ruling.
Propose(id) ==
    /\ status[id] = Absent
    /\ status' = [status EXCEPT ![id] = Pending]

\* An operator rules on a review that is waiting.
Rule(id, verdict) ==
    /\ status[id] = Pending
    /\ status' = [status EXCEPT ![id] = verdict]

Next == \E id \in ReviewIds :
            \/ Propose(id)
            \/ \E v \in Verdicts : Rule(id, v)

Spec == Init /\ [][Next]_status
=============================================================================
