-------------------------- MODULE ReviewQueue_proofs --------------------------
(***************************************************************************)
(* Proofs about ReviewQueue for any ids, keys, operators and payloads.     *)
(* The inductive invariant adds to the two audit invariants only that a    *)
(* pending review and the _keys table agree on its key.                    *)
(***************************************************************************)
EXTENDS ReviewQueue, TLAPS

KeysAgree ==
    \A id \in DOMAIN pending :
        /\ id \in DOMAIN keys <=> pending[id].dedup_key # NoKey
        /\ id \in DOMAIN keys => keys[id] = pending[id].dedup_key

IInv == TypeOK /\ ReplayRebuildsState /\ OneStoryPerReview /\ KeysAgree

-----------------------------------------------------------------------------
(* Dictionaries and the log *)

\* What appending a row does to the log, row by row.
LEMMA AppendRow ==
    ASSUME NEW log \in Seq(AuditRow), NEW row \in AuditRow
    PROVE  /\ Append(log, row) \in Seq(AuditRow)
           /\ DOMAIN Append(log, row) = DOMAIN log \cup {Len(log) + 1}
           /\ Len(log) + 1 \notin DOMAIN log
           /\ \A i \in DOMAIN log : i \in Nat /\ i < Len(log) + 1
           /\ \A i \in DOMAIN log : Append(log, row)[i] = log[i]
           /\ Append(log, row)[Len(log) + 1] = row
OBVIOUS

\* What appending a row does to the ids the log mentions: the row's kind
\* gains the row's id, the other kind gains nothing.
LEMMA AppendMentions ==
    ASSUME NEW log \in Seq(AuditRow), NEW row \in AuditRow, NEW kind
    PROVE  /\ row.kind = kind =>
                 Mentioned(Append(log, row), kind) = Mentioned(log, kind) \cup {row.review_id}
           /\ row.kind # kind =>
                 Mentioned(Append(log, row), kind) = Mentioned(log, kind)
<1>1. Rows(log, kind) \subseteq DOMAIN log
    BY DEF Rows
<1>2. CASE row.kind = kind
    <2>1. Rows(Append(log, row), kind) = Rows(log, kind) \cup {Len(log) + 1}
        BY <1>2, AppendRow DEF Rows
    <2>2. QED  BY <1>1, <1>2, <2>1, AppendRow DEF Mentioned
<1>3. CASE row.kind # kind
    <2>1. Rows(Append(log, row), kind) = Rows(log, kind)
        BY <1>3, AppendRow DEF Rows
    <2>2. QED  BY <1>1, <1>3, <2>1, AppendRow DEF Mentioned
<1>4. QED  BY <1>2, <1>3

\* Every row is about a review the queue knows.
LEMMA RowsAreKnown ==
    ASSUME IInv, NEW i \in DOMAIN audit
    PROVE  /\ audit[i].review_id \in Known
           /\ audit[i].kind \in {"enqueue", "decide"}
           /\ audit[i].review_id \in DOMAIN pending => audit[i].kind = "enqueue"
<1>1. audit[i] \in AuditRow
    BY DEF IInv, TypeOK
<1>2. audit[i].kind \in {"enqueue", "decide"}
    BY <1>1 DEF AuditRow, EnqueueRow, DecideRow
<1>3. audit[i].review_id \in Mentioned(audit, audit[i].kind)
    BY DEF Mentioned, Rows
<1>4. QED  BY <1>2, <1>3 DEF IInv, ReplayRebuildsState, Known

-----------------------------------------------------------------------------
(* The invariant *)

LEMMA InitIInv == Init => IInv
BY DEF Init, IInv, TypeOK, DictOf, EmptyDict, Known, ReplayRebuildsState, OneStoryPerReview,
       KeysAgree, Mentioned, Rows

LEMMA EnqueueIInv ==
    ASSUME IInv, NEW id \in ReviewIds, NEW key \in Keys \cup {NoKey}, NEW payload \in Payloads,
           Enqueue(id, key, payload)
    PROVE  IInv'
<1> DEFINE review == [dedup_key |-> key, payload |-> payload]
           row == [kind |-> "enqueue", review_id |-> id]
<1>1. /\ id \notin Known
      /\ pending' = Put(pending, id, review)
      /\ keys' = IF key = NoKey THEN keys ELSE Put(keys, id, key)
      /\ audit' = Append(audit, row)
      /\ decisions' = decisions
    BY DEF Enqueue, FreshId
<1>2. row \in AuditRow /\ audit \in Seq(AuditRow)
    BY DEF IInv, TypeOK, AuditRow, EnqueueRow
<1> HIDE DEF row
<1>3. row.kind = "enqueue" /\ row.review_id = id
    BY DEF row
<1>4. review \in PendingReview
    BY DEF PendingReview
<1>5. /\ DOMAIN pending' = DOMAIN pending \cup {id}
      /\ pending'[id] = review
      /\ \A x \in DOMAIN pending : pending'[x] = pending[x]
      /\ pending' = [x \in DOMAIN pending' |-> pending'[x]]
    BY <1>1 DEF Put, Known
<1>6. id \notin DOMAIN keys
    BY <1>1 DEF IInv, TypeOK, DictOf
<1>7. TypeOK'
    <2>1. DictOf(pending, ReviewIds, PendingReview)'
        BY <1>4, <1>5 DEF IInv, TypeOK, DictOf
    <2>2. DictOf(decisions, ReviewIds, ReviewDecision)'
        BY <1>1 DEF IInv, TypeOK
    <2>3. DictOf(keys, Known, Keys)'
        <3>1. Known' = Known \cup {id}
            BY <1>1, <1>5 DEF Known
        <3>2. CASE key = NoKey
            BY <1>1, <3>1, <3>2 DEF IInv, TypeOK, DictOf
        <3>3. CASE key # NoKey
            BY <1>1, <3>1, <3>3 DEF Put, IInv, TypeOK, DictOf
        <3>4. QED  BY <3>2, <3>3
    <2>4. (audit \in Seq(AuditRow))'
        BY <1>1, <1>2, AppendRow
    <2>5. QED  BY <2>1, <2>2, <2>3, <2>4 DEF TypeOK
<1>8. ReplayRebuildsState'
    <2>1. /\ Mentioned(audit', "decide") = Mentioned(audit, "decide")
          /\ Mentioned(audit', "enqueue") = Mentioned(audit, "enqueue") \cup {id}
        BY <1>1, <1>2, <1>3, AppendMentions, "enqueue" # "decide"
    <2>2. id \notin Mentioned(audit, "decide")
        BY <1>1 DEF IInv, ReplayRebuildsState, Known
    <2>3. Rows(audit', "decide") = Rows(audit, "decide")
        BY <1>1, <1>2, <1>3, AppendRow DEF Rows
    <2>4. \A i \in Rows(audit, "decide") : audit'[i] = audit[i]
        BY <1>1, <1>2, AppendRow DEF Rows
    <2>5. QED  BY <1>1, <1>5, <2>1, <2>2, <2>3, <2>4 DEF IInv, ReplayRebuildsState
<1>9. OneStoryPerReview'
    <2> SUFFICES ASSUME NEW i \in DOMAIN audit', NEW j \in DOMAIN audit',
                        audit'[i].review_id = audit'[j].review_id, i < j
                 PROVE  audit'[i].kind = "enqueue" /\ audit'[j].kind = "decide"
        BY DEF OneStoryPerReview
    <2>1. \A n \in DOMAIN audit : audit[n].review_id # id
        BY <1>1, RowsAreKnown
    <2>2. i \in DOMAIN audit /\ j \in DOMAIN audit
        BY <1>1, <1>2, <1>3, <2>1, AppendRow
    <2>3. audit'[i] = audit[i] /\ audit'[j] = audit[j]
        BY <1>1, <1>2, <2>2, AppendRow
    <2>4. QED  BY <2>2, <2>3 DEF IInv, OneStoryPerReview
<1>10. KeysAgree'
    BY <1>1, <1>5, <1>6 DEF Put, IInv, KeysAgree, Known
<1>11. QED  BY <1>7, <1>8, <1>9, <1>10 DEF IInv

LEMMA DecideIInv ==
    ASSUME IInv, NEW id \in ReviewIds, NEW verdict \in ReviewVerdict,
           NEW operator \in OperatorIds \cup {NoOperator},
           NEW modified \in Payloads \cup {NoPayload},
           Decide(id, verdict, operator, modified)
    PROVE  IInv'
<1> DEFINE decision == [verdict |-> verdict, operator_id |-> operator,
                        modified_payload |-> modified]
           row == DecideRowOf(id, verdict, operator, modified)
<1>1. /\ id \in DOMAIN pending
      /\ operator \in OperatorIds
      /\ decisions' = Put(decisions, id, decision)
      /\ pending' = Pop(pending, id)
      /\ audit' = Append(audit, row)
      /\ keys' = keys
    BY DEF Decide, Decidable
<1>2. row \in AuditRow /\ audit \in Seq(AuditRow)
    BY <1>1 DEF IInv, TypeOK, AuditRow, DecideRow, DecideRowOf
<1>3. /\ row.kind = "decide" /\ row.review_id = id
      /\ row.verdict = verdict /\ row.operator_id = operator
    BY DEF DecideRowOf
<1> HIDE DEF row
<1>4. decision \in ReviewDecision /\ decision.verdict = verdict /\ decision.operator_id = operator
    BY <1>1 DEF ReviewDecision
<1> HIDE DEF decision
<1>5. id \notin DOMAIN decisions
    BY <1>1 DEF IInv, ReplayRebuildsState
<1>6. /\ DOMAIN decisions' = DOMAIN decisions \cup {id}
      /\ decisions'[id] = decision
      /\ \A x \in DOMAIN decisions : decisions'[x] = decisions[x]
      /\ decisions' = [x \in DOMAIN decisions' |-> decisions'[x]]
    BY <1>1, <1>5 DEF Put
<1>7. /\ DOMAIN pending' = DOMAIN pending \ {id}
      /\ \A x \in DOMAIN pending' : pending'[x] = pending[x]
      /\ pending' = [x \in DOMAIN pending' |-> pending'[x]]
    BY <1>1 DEF Pop
<1>8. TypeOK'
    <2>1. DictOf(pending, ReviewIds, PendingReview)'
        BY <1>7 DEF IInv, TypeOK, DictOf
    <2>2. DictOf(decisions, ReviewIds, ReviewDecision)'
        BY <1>4, <1>6 DEF IInv, TypeOK, DictOf
    <2>3. DictOf(keys, Known, Keys)'
        BY <1>1, <1>6, <1>7 DEF IInv, TypeOK, DictOf, Known
    <2>4. (audit \in Seq(AuditRow))'
        BY <1>1, <1>2, AppendRow
    <2>5. QED  BY <2>1, <2>2, <2>3, <2>4 DEF TypeOK
<1>9. ReplayRebuildsState'
    <2>1. /\ Mentioned(audit', "decide") = Mentioned(audit, "decide") \cup {id}
          /\ Mentioned(audit', "enqueue") = Mentioned(audit, "enqueue")
        BY <1>1, <1>2, <1>3, AppendMentions, "enqueue" # "decide"
    <2>2. Rows(audit', "decide") = Rows(audit, "decide") \cup {Len(audit) + 1}
        BY <1>1, <1>2, <1>3, AppendRow DEF Rows
    <2>3. \A i \in Rows(audit, "decide") : audit'[i] = audit[i]
        BY <1>1, <1>2, AppendRow DEF Rows
    <2>4. audit'[Len(audit) + 1] = row
        BY <1>1, <1>2, AppendRow
    <2>5. \A i \in Rows(audit, "decide") : audit[i].review_id \in DOMAIN decisions
        BY DEF IInv, ReplayRebuildsState, Mentioned
    <2>6. \A i \in Rows(audit', "decide") :
              LET d == decisions'[audit'[i].review_id]
              IN  d.verdict = audit'[i].verdict /\ d.operator_id = audit'[i].operator_id
        BY <1>3, <1>4, <1>6, <2>2, <2>3, <2>4, <2>5 DEF IInv, ReplayRebuildsState
    <2>7. QED  BY <1>1, <1>6, <1>7, <2>1, <2>6 DEF IInv, ReplayRebuildsState
<1>10. OneStoryPerReview'
    <2> SUFFICES ASSUME NEW i \in DOMAIN audit', NEW j \in DOMAIN audit',
                        audit'[i].review_id = audit'[j].review_id, i < j
                 PROVE  audit'[i].kind = "enqueue" /\ audit'[j].kind = "decide"
        BY DEF OneStoryPerReview
    <2>1. i \in DOMAIN audit
        BY <1>1, <1>2, AppendRow
    <2>2. CASE j \in DOMAIN audit
        BY <1>1, <1>2, <2>1, <2>2, AppendRow DEF IInv, OneStoryPerReview
    <2>3. CASE j \notin DOMAIN audit
        <3>1. audit'[j] = row /\ audit'[i] = audit[i]
            BY <1>1, <1>2, <2>1, <2>3, AppendRow
        <3>2. audit[i].review_id \in DOMAIN pending
            BY <1>1, <1>3, <3>1
        <3>3. QED  BY <1>3, <2>1, <3>1, <3>2, RowsAreKnown
    <2>4. QED  BY <2>2, <2>3
<1>11. KeysAgree'
    BY <1>1, <1>7 DEF IInv, KeysAgree
<1>12. QED  BY <1>8, <1>9, <1>10, <1>11 DEF IInv

LEMMA StutterIInv ==
    ASSUME IInv, UNCHANGED vars
    PROVE  IInv'
<1>1. /\ pending' = pending /\ decisions' = decisions
      /\ keys' = keys /\ audit' = audit
    BY DEF vars
<1>2. TypeOK'
    BY <1>1 DEF IInv, TypeOK, DictOf, Known
<1>3. ReplayRebuildsState'
    <2>1. /\ Mentioned(audit', "decide") = Mentioned(audit, "decide")
          /\ Mentioned(audit', "enqueue") = Mentioned(audit, "enqueue")
          /\ Rows(audit', "decide") = Rows(audit, "decide")
        BY <1>1
    <2>2. QED  BY <1>1, <2>1 DEF IInv, ReplayRebuildsState
<1>4. OneStoryPerReview' /\ KeysAgree'
    BY <1>1 DEF IInv, OneStoryPerReview, KeysAgree
<1>5. QED  BY <1>2, <1>3, <1>4 DEF IInv

LEMMA StepIInv == IInv /\ [Next]_vars => IInv'
BY EnqueueIInv, DecideIInv, StutterIInv DEF Next, EnqueueSome, DecideSome

LEMMA Invariant == Spec => []IInv
BY InitIInv, StepIInv, PTL DEF Spec

\* The containers are well typed and no decision lacks its operator.
THEOREM TypeCorrect == Spec => []TypeOK
BY Invariant, PTL DEF IInv

\* The audit log always rebuilds the pending and decided reviews.
THEOREM ReplayCorrect == Spec => []ReplayRebuildsState
BY Invariant, PTL DEF IInv

\* The audit log enqueues a review once, and decides it at most once, later.
THEOREM StoryCorrect == Spec => []OneStoryPerReview
BY Invariant, PTL DEF IInv

-----------------------------------------------------------------------------
(* What a step may never do *)

LEMMA StepKeepsPast ==
    ASSUME IInv, [Next]_vars
    PROVE  [PastKept]_vars
<1>1. CASE EnqueueSome
    <2> PICK id \in ReviewIds, key \in Keys \cup {NoKey}, payload \in Payloads :
                 Enqueue(id, key, payload)
        BY <1>1 DEF EnqueueSome
    <2> DEFINE row == [kind |-> "enqueue", review_id |-> id]
    <2>1. row \in AuditRow /\ audit \in Seq(AuditRow)
        BY DEF IInv, TypeOK, AuditRow, EnqueueRow
    <2>2. audit' = Append(audit, row) /\ decisions' = decisions
        BY DEF Enqueue
    <2>3. \A i \in DOMAIN audit : i \in DOMAIN audit' /\ audit'[i] = audit[i]
        BY <2>1, <2>2, AppendRow
    <2>4. /\ id \notin Known
          /\ keys' = keys \/ keys' = Put(keys, id, key)
        BY DEF Enqueue, FreshId
    <2>5. \A x \in Known : /\ x \in DOMAIN keys' <=> x \in DOMAIN keys
                           /\ x \in DOMAIN keys => keys'[x] = keys[x]
        BY <2>4 DEF Put
    <2>6. QED  BY <2>2, <2>3, <2>5 DEF PastKept
<1>2. CASE DecideSome
    <2> PICK id \in ReviewIds, verdict \in ReviewVerdict,
             operator \in OperatorIds \cup {NoOperator},
             modified \in Payloads \cup {NoPayload} :
                 Decide(id, verdict, operator, modified)
        BY <1>2 DEF DecideSome
    <2> DEFINE row == DecideRowOf(id, verdict, operator, modified)
    <2>1. row \in AuditRow /\ audit \in Seq(AuditRow)
        BY DEF IInv, TypeOK, AuditRow, DecideRow, DecideRowOf, Decide, Decidable
    <2>2. audit' = Append(audit, row) /\ keys' = keys
        BY DEF Decide
    <2>3. \A i \in DOMAIN audit : i \in DOMAIN audit' /\ audit'[i] = audit[i]
        BY <2>1, <2>2, AppendRow
    <2>4. id \notin DOMAIN decisions
        BY DEF IInv, ReplayRebuildsState, Decide, Decidable
    <2>5. \A x \in DOMAIN decisions :
              x \in DOMAIN decisions' /\ decisions'[x] = decisions[x]
        BY <2>4 DEF Decide, Put
    <2>6. QED  BY <2>2, <2>3, <2>5 DEF PastKept
<1>3. QED  BY <1>1, <1>2 DEF Next

\* Decisions, key bindings and audit rows are written once and never change.
THEOREM PastImmutable == Spec => PastIsImmutable
<1>1. IInv /\ [Next]_vars => [PastKept]_vars
    BY StepKeepsPast
<1>2. QED  BY <1>1, Invariant, PTL DEF Spec, PastIsImmutable

LEMMA StepClears ==
    ASSUME IInv, [Next]_vars
    PROVE  [ClearedByApprove]_vars
<1> SUFFICES ASSUME Next, NEW k \in Keys, ~IsKeyApproved(k), IsKeyApproved(k)'
             PROVE  \E id \in DOMAIN pending :
                        /\ pending[id].dedup_key = k
                        /\ id \in DOMAIN decisions'
                        /\ decisions'[id].verdict = Approve
    BY DEF ClearedByApprove
<1>1. PICK r \in DOMAIN decisions' :
          decisions'[r].verdict = Approve /\ r \in DOMAIN keys' /\ keys'[r] = k
    BY DEF IsKeyApproved, HasKey
<1>2. CASE EnqueueSome
    <2> PICK id \in ReviewIds, key \in Keys \cup {NoKey}, payload \in Payloads :
                 Enqueue(id, key, payload)
        BY <1>2 DEF EnqueueSome
    <2>1. /\ id \notin Known /\ decisions' = decisions
          /\ keys' = keys \/ keys' = Put(keys, id, key)
        BY DEF Enqueue, FreshId
    <2>2. r \in Known /\ r # id
        BY <1>1, <2>1 DEF Known
    <2>3. r \in DOMAIN keys /\ keys[r] = k
        BY <1>1, <2>1, <2>2 DEF Put
    <2>4. QED  BY <1>1, <2>1, <2>3 DEF IsKeyApproved, HasKey
<1>3. CASE DecideSome
    <2> PICK id \in ReviewIds, verdict \in ReviewVerdict,
             operator \in OperatorIds \cup {NoOperator},
             modified \in Payloads \cup {NoPayload} :
                 Decide(id, verdict, operator, modified)
        BY <1>3 DEF DecideSome
    <2>1. id \in DOMAIN pending /\ keys' = keys
        BY DEF Decide, Decidable
    <2>2. r = id
        BY <1>1, <2>1 DEF Decide, Put, IsKeyApproved, HasKey
    <2>3. pending[id].dedup_key = k
        BY <1>1, <2>1, <2>2 DEF IInv, KeysAgree
    <2>4. QED  BY <1>1, <2>1, <2>2, <2>3
<1>4. QED  BY <1>2, <1>3 DEF Next

\* Only an APPROVE of a review pending with a key makes the key approved.
THEOREM ApprovalSound == Spec => ApprovedOnlyByApprove
<1>1. IInv /\ [Next]_vars => [ClearedByApprove]_vars
    BY StepClears
<1>2. QED  BY <1>1, Invariant, PTL DEF Spec, ApprovedOnlyByApprove

-----------------------------------------------------------------------------
(* The queue implements the ledger *)

LEMMA InitLedger == Init => Ledger!Init
BY DEF Init, EmptyDict, Ledger!Init, Ledger!Absent, LedgerStatus

LEMMA StepLedger ==
    ASSUME IInv, [Next]_vars
    PROVE  [Ledger!Next]_LedgerStatus
<1>1. CASE EnqueueSome
    <2> PICK id \in ReviewIds, key \in Keys \cup {NoKey}, payload \in Payloads :
                 Enqueue(id, key, payload)
        BY <1>1 DEF EnqueueSome
    <2>1. /\ id \notin DOMAIN pending /\ id \notin DOMAIN decisions
          /\ decisions' = decisions
          /\ DOMAIN pending' = DOMAIN pending \cup {id}
        BY DEF Enqueue, FreshId, Known, Put
    <2>2. LedgerStatus[id] = "absent"
        BY <2>1 DEF LedgerStatus
    <2>3. LedgerStatus' = [LedgerStatus EXCEPT ![id] = "pending"]
        BY <2>1 DEF LedgerStatus
    <2>4. Ledger!Propose(id)
        BY <2>2, <2>3 DEF Ledger!Propose, Ledger!Absent, Ledger!Pending
    <2>5. QED  BY <2>4 DEF Ledger!Next
<1>2. CASE DecideSome
    <2> PICK id \in ReviewIds, verdict \in ReviewVerdict,
             operator \in OperatorIds \cup {NoOperator},
             modified \in Payloads \cup {NoPayload} :
                 Decide(id, verdict, operator, modified)
        BY <1>2 DEF DecideSome
    <2>1. id \in DOMAIN pending /\ id \notin DOMAIN decisions
        BY DEF Decide, Decidable, IInv, ReplayRebuildsState
    <2>2. /\ DOMAIN decisions' = DOMAIN decisions \cup {id}
          /\ DOMAIN pending' = DOMAIN pending \ {id}
          /\ decisions'[id].verdict = verdict
          /\ \A x \in DOMAIN decisions : decisions'[x] = decisions[x]
        BY <2>1 DEF Decide, Put, Pop
    <2>3. LedgerStatus[id] = "pending"
        BY <2>1 DEF LedgerStatus
    <2>4. LedgerStatus' = [LedgerStatus EXCEPT ![id] = verdict]
        BY <2>2 DEF LedgerStatus
    <2>5. Ledger!Rule(id, verdict)
        BY <2>3, <2>4 DEF Ledger!Rule, Ledger!Pending
    <2>6. QED  BY <2>5 DEF Ledger!Next
<1>3. CASE UNCHANGED vars
    BY <1>3 DEF vars, LedgerStatus
<1>4. QED  BY <1>1, <1>2, <1>3 DEF Next

\* Every behaviour of the queue is one of the ledger: a review is proposed
\* once, ruled on once, and its ruling is final.
THEOREM QueueImplementsLedger == Spec => ImplementsLedger
<1>1. IInv /\ [Next]_vars => [Ledger!Next]_LedgerStatus
    BY StepLedger
<1>2. QED  BY <1>1, InitLedger, Invariant, PTL DEF Spec, ImplementsLedger, Ledger!Spec
=============================================================================
