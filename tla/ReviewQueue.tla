----------------------------- MODULE ReviewQueue -----------------------------
(***************************************************************************)
(* The in-memory review queue and audit log of the operator UI             *)
(* (operator_ui/review_queue.py).  Every public method of the class runs   *)
(* under one re-entrant lock, so each is one atomic step here.             *)
(*                                                                         *)
(* Abstracted: timestamps, rationale, and the display fields of a review   *)
(* (agent, action kind, summary, reasoning) -- its payload stands for what *)
(* the operator is shown.                                                  *)
(***************************************************************************)
EXTENDS Naturals, Sequences

CONSTANTS
    ReviewIds,      \* ids the id factory can mint
    Keys,           \* dedup keys: content hashes of commands
    NoKey,          \* dedup_key=None
    OperatorIds,    \* authenticated operators
    NoOperator,     \* the empty operator_id
    Payloads,       \* payload dictionaries, EmptyPayload among them
    EmptyPayload,   \* {}
    NoPayload,      \* modified_payload=None
    NoReview        \* what get() returns for an id it does not know

ASSUME QueueAssumption ==
    /\ NoKey \notin Keys
    /\ NoOperator \notin OperatorIds
    /\ EmptyPayload \in Payloads
    /\ NoPayload \notin Payloads

VARIABLES
    pending,    \* _pending: id -> review
    decisions,  \* _decisions: id -> decision
    keys,       \* _keys: id -> dedup key
    audit       \* _audit: the audit rows, in order

vars == <<pending, decisions, keys, audit>>

-----------------------------------------------------------------------------
(* Records *)

Approve == "approve"
Reject == "reject"
Modify == "modify"
ReviewVerdict == {Approve, Reject, Modify}

PendingReview == [dedup_key : Keys \cup {NoKey}, payload : Payloads]

ReviewDecision == [verdict : ReviewVerdict,
                   operator_id : OperatorIds,
                   modified_payload : Payloads \cup {NoPayload}]

EnqueueRow == [kind : {"enqueue"}, review_id : ReviewIds]
DecideRow == [kind : {"decide"}, review_id : ReviewIds, verdict : ReviewVerdict,
              operator_id : OperatorIds, modified : BOOLEAN]
AuditRow == EnqueueRow \cup DecideRow

\* Python's d[k] = v and d.pop(k): a dictionary is a function on its keys.
Put(d, k, v) == [x \in DOMAIN d \cup {k} |-> IF x = k THEN v ELSE d[x]]
Pop(d, k) == [x \in DOMAIN d \ {k} |-> d[x]]
EmptyDict == [x \in {} |-> x]

Known == DOMAIN pending \cup DOMAIN decisions

-----------------------------------------------------------------------------
(* Lookups *)

\* get: the pending review, else a snapshot rebuilt from its enqueue row,
\* which keeps neither the payload nor the dedup key.
CompletedView(id) ==
    IF \E i \in DOMAIN audit : audit[i].review_id = id /\ audit[i].kind = "enqueue"
    THEN [dedup_key |-> NoKey, payload |-> EmptyPayload]
    ELSE NoReview

Get(id) == IF id \in DOMAIN pending THEN pending[id] ELSE CompletedView(id)

HasKey(id, key) == id \in DOMAIN keys /\ keys[id] = key

\* A bug that takes MODIFY for an approval.
MutantIsKeyApprovedAnyRuling(key) ==
    \E id \in DOMAIN decisions : decisions[id].verdict # Reject /\ HasKey(id, key)

IsKeyApproved(key) ==
    \E id \in DOMAIN decisions : decisions[id].verdict = Approve /\ HasKey(id, key)

HasPendingKey(key) == \E id \in DOMAIN pending : pending[id].dedup_key = key

-----------------------------------------------------------------------------
(* Operations *)

Init ==
    /\ pending = EmptyDict
    /\ decisions = EmptyDict
    /\ keys = EmptyDict
    /\ audit = <<>>

\* A bug that mints an id no longer pending, but already decided.
MutantFreshId(id) == id \notin DOMAIN pending

\* The id factory draws 32 random bits; a collision with an id in use is
\* outside this model (README, "Not modelled").
FreshId(id) == id \notin Known

\* A bug that forgets the audit row.
MutantEnqueue(id, key, payload) ==
    /\ FreshId(id)
    /\ pending' = Put(pending, id, [dedup_key |-> key, payload |-> payload])
    /\ keys' = IF key = NoKey THEN keys ELSE Put(keys, id, key)
    /\ UNCHANGED <<decisions, audit>>

Enqueue(id, key, payload) ==
    /\ FreshId(id)
    /\ pending' = Put(pending, id, [dedup_key |-> key, payload |-> payload])
    /\ keys' = IF key = NoKey THEN keys ELSE Put(keys, id, key)
    /\ audit' = Append(audit, [kind |-> "enqueue", review_id |-> id])
    /\ UNCHANGED decisions

\* A bug that lets a review be decided again.
MutantDecidableAgain(id, verdict, operator, modified) ==
    /\ id \in Known
    /\ operator # NoOperator
    /\ verdict = Modify => modified # NoPayload

\* A bug that accepts a decision without an operator.
MutantDecidableAnonymous(id, verdict, operator, modified) ==
    /\ id \in DOMAIN pending
    /\ verdict = Modify => modified # NoPayload

\* The checks decide makes before it changes anything; where one fails it
\* raises ReviewQueueError and the queue is as it was.
Decidable(id, verdict, operator, modified) ==
    /\ id \in DOMAIN pending
    /\ operator # NoOperator
    /\ verdict = Modify => modified # NoPayload

DecideRowOf(id, verdict, operator, modified) ==
    [kind |-> "decide", review_id |-> id, verdict |-> verdict, operator_id |-> operator,
     modified |-> modified \notin {NoPayload, EmptyPayload}]

\* A bug that leaves the review pending after it was decided.
MutantDecideKeepsPending(id, verdict, operator, modified) ==
    /\ Decidable(id, verdict, operator, modified)
    /\ decisions' = Put(decisions, id, [verdict |-> verdict, operator_id |-> operator,
                                        modified_payload |-> modified])
    /\ audit' = Append(audit, DecideRowOf(id, verdict, operator, modified))
    /\ UNCHANGED <<pending, keys>>

Decide(id, verdict, operator, modified) ==
    /\ Decidable(id, verdict, operator, modified)
    /\ decisions' = Put(decisions, id, [verdict |-> verdict, operator_id |-> operator,
                                        modified_payload |-> modified])
    /\ pending' = Pop(pending, id)
    /\ audit' = Append(audit, DecideRowOf(id, verdict, operator, modified))
    /\ UNCHANGED keys

EnqueueSome ==
    \E id \in ReviewIds, key \in Keys \cup {NoKey}, payload \in Payloads :
        Enqueue(id, key, payload)

DecideSome ==
    \E id \in ReviewIds, verdict \in ReviewVerdict,
       operator \in OperatorIds \cup {NoOperator}, modified \in Payloads \cup {NoPayload} :
        Decide(id, verdict, operator, modified)

Next == EnqueueSome \/ DecideSome

Spec == Init /\ [][Next]_vars

-----------------------------------------------------------------------------
(* Properties *)

\* d is a dictionary with keys in K and values in V.
DictOf(d, K, V) ==
    /\ d = [x \in DOMAIN d |-> d[x]]
    /\ DOMAIN d \subseteq K
    /\ \A x \in DOMAIN d : d[x] \in V

\* The four containers hold what their annotations say; in particular every
\* recorded decision carries a non-empty operator id (review_queue.py:166).
TypeOK ==
    /\ DictOf(pending, ReviewIds, PendingReview)
    /\ DictOf(decisions, ReviewIds, ReviewDecision)
    /\ DictOf(keys, Known, Keys)
    /\ audit \in Seq(AuditRow)

Rows(log, kind) == {i \in DOMAIN log : log[i].kind = kind}
Mentioned(log, kind) == {log[i].review_id : i \in Rows(log, kind)}

\* Replaying the audit log, with no tool run again, rebuilds what the queue
\* knows: which reviews wait, which were decided, and how and by whom
\* (module docstring and replay()).
ReplayRebuildsState ==
    /\ DOMAIN decisions = Mentioned(audit, "decide")
    /\ DOMAIN pending = Mentioned(audit, "enqueue") \ Mentioned(audit, "decide")
    /\ \A i \in Rows(audit, "decide") :
          LET decision == decisions[audit[i].review_id]
          IN  /\ decision.verdict = audit[i].verdict
              /\ decision.operator_id = audit[i].operator_id

\* The log tells one story per review: it is enqueued once and decided at
\* most once, and never decided before it was enqueued.
OneStoryPerReview ==
    \A i, j \in DOMAIN audit :
        audit[i].review_id = audit[j].review_id /\ i < j =>
            audit[i].kind = "enqueue" /\ audit[j].kind = "decide"

PastKept ==
    /\ \A id \in DOMAIN decisions :
          id \in DOMAIN decisions' /\ decisions'[id] = decisions[id]
    /\ \A id \in Known : /\ id \in DOMAIN keys' <=> id \in DOMAIN keys
                         /\ id \in DOMAIN keys => keys'[id] = keys[id]
    /\ \A i \in DOMAIN audit : i \in DOMAIN audit' /\ audit'[i] = audit[i]

\* No step rewrites the past: a recorded decision, the key a review was
\* enqueued with and every audit row stay as they are.  An APPROVE can
\* therefore never move to another command, nor a double decide replace it.
PastIsImmutable == [][PastKept]_vars

ClearedByApprove ==
    \A key \in Keys :
        ~IsKeyApproved(key) /\ IsKeyApproved(key)' =>
            \E id \in DOMAIN pending :
                /\ pending[id].dedup_key = key
                /\ id \in DOMAIN decisions'
                /\ decisions'[id].verdict = Approve

\* A key becomes approved only in a step that approves a review which was
\* pending with that very key: neither REJECT nor MODIFY, nor enqueueing a
\* command again, clears it (is_key_approved's docstring).
ApprovedOnlyByApprove == [][ClearedByApprove]_vars

\* The queue implements the ledger: absent, pending, ruled on, in that order.
LedgerStatus ==
    [id \in ReviewIds |-> IF id \in DOMAIN decisions THEN decisions[id].verdict
                          ELSE IF id \in DOMAIN pending THEN "pending" ELSE "absent"]

Ledger == INSTANCE ReviewLedger WITH status <- LedgerStatus, Verdicts <- ReviewVerdict

ImplementsLedger == Ledger!Spec
=============================================================================
