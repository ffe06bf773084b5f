-------------------------- MODULE OperatorUI_proofs --------------------------
(***************************************************************************)
(* Proofs about OperatorUI, for any clients, tokens, credentials and ids.  *)
(* Requests reach the queue only through its operations, so the queue's    *)
(* invariant holds; to it, UIInv adds what a client holds about the queue: *)
(* a confirmed ruling stands, and the review on a screen is known and, as  *)
(* long as it waits, has the payload shown.                                *)
(***************************************************************************)
EXTENDS OperatorUI, ReviewQueue_proofs

\* Screens agree with the queue.
ScreensAgree ==
    \A client \in Clients :
        LET shown == screen[client] IN
        shown # NoScreen =>
            /\ shown.id \in Known
            /\ shown.id \in DOMAIN pending => pending[shown.id].payload = shown.payload

UIInv ==
    /\ IInv
    /\ screen = [client \in Clients |-> screen[client]]
    /\ ConfirmedIsRecorded
    /\ ScreensAgree

-----------------------------------------------------------------------------
(* Requests and the queue *)

\* Whatever step of the UI is a step of the queue, or leaves it alone.
LEMMA UIStepIsQueueStep == [UINext]_uiVars => [Next]_vars
<1>1. ASSUME UNCHANGED uiVars PROVE UNCHANGED vars
    BY <1>1 DEF uiVars, vars
<1>2. ASSUME Refuse PROVE UNCHANGED vars
    BY <1>2 DEF Refuse
<1>3. ASSUME NEW client \in Clients, ListReviews(client) \/ \E id \in ReviewIds : GetReview(client, id)
      PROVE  UNCHANGED vars
    BY <1>2, <1>3 DEF ListReviews, GetReview, Show
<1>4. ASSUME NEW client \in Clients, NEW credential \in Credentials, NEW id \in ReviewIds,
             NEW verdict \in ReviewVerdict \cup {UnknownVerdict}, NEW label \in Labels,
             NEW modified \in Payloads \cup {NoPayload},
             DecideReview(client, credential, id, verdict, label, modified)
      PROVE  [Next]_vars
    <2>1. CASE Refuse
        BY <1>2, <2>1
    <2>2. CASE Decide(id, verdict, DeciderOf(credential, label), modified) /\ verdict # UnknownVerdict
        <3>1. DeciderOf(credential, label) \in OperatorIds \cup {NoOperator}
            BY <1>4, UIAssumption DEF DecideReview, Authenticated, DeciderOf, Principal
        <3>2. verdict \in ReviewVerdict
            BY <2>2
        <3>3. DecideSome
            BY <2>2, <3>1, <3>2 DEF DecideSome
        <3>4. QED  BY <3>3 DEF Next
    <2>3. QED  BY <1>4, <2>1, <2>2 DEF DecideReview
<1>5. ASSUME SessionEnqueues \/ OthersDecide PROVE Next
    BY <1>5 DEF SessionEnqueues, OthersDecide, Next
<1>6. ASSUME HttpRequest PROVE [Next]_vars
    BY <1>2, <1>3, <1>4, <1>6 DEF HttpRequest, Unauthorised
<1>7. QED  BY <1>1, <1>5, <1>6 DEF UINext

\* Driven over HTTP and in process, the queue behaves as specified: every
\* theorem about it holds behind the API.
THEOREM UIUsesQueue == UISpec => Spec
<1>1. UIInit => Init
    BY DEF UIInit
<1>2. QED  BY <1>1, UIStepIsQueueStep, PTL DEF UISpec, Spec

\* What no step of the queue changes about a review, as the past is kept and
\* an id in use is never minted again.
LEMMA QueueKeepsReviews ==
    ASSUME IInv, [Next]_vars
    PROVE  /\ \A id \in DOMAIN decisions : id \in DOMAIN decisions' /\ decisions'[id] = decisions[id]
           /\ \A id \in Known : id \in Known' /\ (id \in DOMAIN pending' =>
                    id \in DOMAIN pending /\ pending'[id] = pending[id])
<1>1. CASE EnqueueSome
    BY <1>1 DEF EnqueueSome, Enqueue, FreshId, Known, Put
<1>2. CASE DecideSome
    BY <1>2 DEF DecideSome, Decide, Decidable, Known, Put, Pop, IInv, ReplayRebuildsState
<1>3. CASE UNCHANGED vars
    BY <1>3 DEF vars, Known
<1>4. QED  BY <1>1, <1>2, <1>3 DEF Next

-----------------------------------------------------------------------------
(* The invariant *)

LEMMA UIInitInv == UIInit => UIInv
<1> SUFFICES ASSUME UIInit PROVE UIInv
    OBVIOUS
<1>1. IInv
    BY InitIInv DEF UIInit
<1>2. ConfirmedIsRecorded
    BY DEF UIInit, ConfirmedIsRecorded, Confirmed
<1>3. screen = [client \in Clients |-> screen[client]] /\ ScreensAgree
    BY DEF UIInit, ScreensAgree
<1>4. QED  BY <1>1, <1>2, <1>3 DEF UIInv

\* A step that changes no screen keeps them in agreement.
LEMMA SameScreens ==
    ASSUME UIInv, [Next]_vars, UNCHANGED screen
    PROVE  ScreensAgree'
BY QueueKeepsReviews DEF UIInv, ScreensAgree

\* A step that confirms nothing new keeps what was confirmed.
LEMMA SameAnswer ==
    ASSUME UIInv, [Next]_vars, answer' = NoAnswer \/ UNCHANGED answer
    PROVE  ConfirmedIsRecorded'
<1>1. CASE answer' = NoAnswer
    BY <1>1 DEF ConfirmedIsRecorded, Confirmed
<1>2. CASE UNCHANGED answer
    BY <1>2, QueueKeepsReviews DEF UIInv, ConfirmedIsRecorded, Confirmed
<1>3. QED  BY <1>1, <1>2

\* What a client fetches is known, and is what waits.
LEMMA ShowInv ==
    ASSUME UIInv, NEW client \in Clients, NEW id \in Known, NEW review,
           id \in DOMAIN pending => review = pending[id], Show(client, id, review)
    PROVE  UIInv'
<1>1. UNCHANGED vars /\ answer' = NoAnswer
    BY DEF Show
<1>2. IInv'
    BY <1>1, StutterIInv DEF UIInv
<1>3. ConfirmedIsRecorded'
    BY <1>1, SameAnswer
<1>4. CASE UNCHANGED screen
    BY <1>1, <1>2, <1>3, <1>4, SameScreens DEF UIInv
<1>5. CASE screen' = [screen EXCEPT ![client] = [id |-> id, payload |-> review.payload]]
    <2>1. /\ screen' = [c \in Clients |-> screen'[c]]
          /\ \A c \in Clients : screen'[c] = IF c = client THEN [id |-> id, payload |-> review.payload]
                                              ELSE screen[c]
        BY <1>5 DEF UIInv
    <2>2. Known' = Known /\ pending' = pending
        BY <1>1 DEF vars, Known
    <2>3. ScreensAgree'
        BY <2>1, <2>2 DEF UIInv, ScreensAgree
    <2>4. QED  BY <1>2, <1>3, <2>1, <2>3 DEF UIInv
<1>6. QED  BY <1>4, <1>5 DEF Show

LEMMA RefuseInv == ASSUME UIInv, Refuse PROVE UIInv'
<1>1. UNCHANGED vars /\ UNCHANGED screen /\ answer' = NoAnswer
    BY DEF Refuse
<1>2. IInv'
    BY <1>1, StutterIInv DEF UIInv
<1>3. QED  BY <1>1, <1>2, SameAnswer, SameScreens DEF UIInv

LEMMA GetReviewInv ==
    ASSUME UIInv, NEW client \in Clients, NEW id \in ReviewIds, GetReview(client, id)
    PROVE  UIInv'
<1>1. CASE Refuse
    BY <1>1, RefuseInv
<1>2. CASE Get(id) # NoReview /\ Show(client, id, Get(id))
    <2>1. id \in Known
        <3>1. CASE id \in DOMAIN pending
            BY <3>1 DEF Known
        <3>2. CASE id \notin DOMAIN pending
            <4>1. PICK i \in DOMAIN audit : audit[i].review_id = id
                BY <1>2, <3>2 DEF Get, CompletedView
            <4>2. QED  BY <4>1, RowsAreKnown DEF UIInv
        <3>3. QED  BY <3>1, <3>2
    <2>2. id \in DOMAIN pending => Get(id) = pending[id]
        BY DEF Get
    <2>3. QED  BY <1>2, <2>1, <2>2, ShowInv
<1>3. QED  BY <1>1, <1>2 DEF GetReview

LEMMA DecideReviewInv ==
    ASSUME UIInv, NEW client \in Clients, NEW credential \in Credentials, NEW id \in ReviewIds,
           NEW verdict \in ReviewVerdict \cup {UnknownVerdict}, NEW label \in Labels,
           NEW modified \in Payloads \cup {NoPayload},
           DecideReview(client, credential, id, verdict, label, modified)
    PROVE  UIInv'
<1>1. CASE Refuse
    BY <1>1, RefuseInv
<1>2. CASE ~Refuse
    <2>1. /\ Decide(id, verdict, DeciderOf(credential, label), modified)
          /\ answer' \in {[client |-> client, credential |-> credential,
                            id |-> id, verdict |-> verdict], NoAnswer}
          /\ UNCHANGED screen
        BY <1>2 DEF DecideReview
    <2>2. [Next]_vars
        <3>1. HttpRequest
            BY DEF HttpRequest
        <3>2. QED  BY <3>1, UIStepIsQueueStep DEF UINext
    <2>3. IInv'
        BY <2>2, StepIInv DEF UIInv
    <2>4. ScreensAgree'
        BY <2>1, <2>2, SameScreens
    <2>5. /\ id \in DOMAIN decisions'
          /\ decisions'[id].verdict = verdict
          /\ decisions'[id].operator_id = Principal(credential)
        BY <2>1 DEF Decide, Put, DeciderOf
    <2>6. ConfirmedIsRecorded'
        <3>1. CASE answer' = NoAnswer
            BY <3>1 DEF ConfirmedIsRecorded, Confirmed
        <3>2. CASE answer' # NoAnswer
            <4>1. answer' = [client |-> client, credential |-> credential, id |-> id, verdict |-> verdict]
                BY <2>1, <3>2
            <4>2. answer'.id = id /\ answer'.verdict = verdict /\ answer'.credential = credential
                BY <4>1
            <4>3. Principal(answer'.credential) = Principal(credential)
                BY <4>2
            <4>4. QED  BY <2>5, <4>2, <4>3 DEF ConfirmedIsRecorded, Principal, TokenOf
        <3>3. QED  BY <3>1, <3>2
    <2>7. QED  BY <2>1, <2>3, <2>4, <2>6 DEF UIInv
<1>3. QED  BY <1>1, <1>2

LEMMA UIStepInv == UIInv /\ [UINext]_uiVars => UIInv'
<1> SUFFICES ASSUME UIInv, [UINext]_uiVars PROVE UIInv'
    OBVIOUS
<1>1. CASE UNCHANGED uiVars
    <2>1. UNCHANGED vars /\ UNCHANGED <<screen, answer>>
        BY <1>1 DEF uiVars, vars
    <2>2. IInv'
        BY <2>1, StutterIInv DEF UIInv
    <2>3. QED  BY <2>1, <2>2, SameAnswer, SameScreens DEF UIInv
<1>2. CASE SessionEnqueues \/ OthersDecide
    <2>1. [Next]_vars /\ UNCHANGED <<screen, answer>>
        BY <1>2 DEF SessionEnqueues, OthersDecide, Next
    <2>2. IInv'
        BY <2>1, StepIInv DEF UIInv
    <2>3. QED  BY <2>1, <2>2, SameAnswer, SameScreens DEF UIInv
<1>3. CASE Unauthorised
    BY <1>3, RefuseInv DEF Unauthorised
<1>4. ASSUME NEW client \in Clients, ListReviews(client) PROVE UIInv'
    BY <1>4, ShowInv DEF ListReviews, Known
<1>5. CASE HttpRequest
    BY <1>3, <1>4, <1>5, GetReviewInv, DecideReviewInv DEF HttpRequest
<1>6. QED  BY <1>1, <1>2, <1>5 DEF UINext

LEMMA UIInvariant == UISpec => []UIInv
BY UIInitInv, UIStepInv, PTL DEF UISpec

\* Whoever was told that their ruling was recorded finds it, under the
\* operator of their token.
THEOREM ConfirmationsHold == UISpec => []ConfirmedIsRecorded
BY UIInvariant, PTL DEF UIInv

\* A ruling falls on the payload its author was shown.
THEOREM RulingsMatchScreens == UISpec => RulesOnWhatWasShown
<1> DEFINE OnShown ==
        \A client \in Clients :
            LET shown == screen[client] IN
            shown # NoScreen /\ RulingOf(client, shown.id) =>
                pending[shown.id].payload = shown.payload
<1>1. UIInv /\ [UINext]_uiVars => [OnShown]_uiVars
    BY DEF UIInv, ScreensAgree, RulingOf
<1>2. QED  BY <1>1, UIInvariant, PTL DEF UISpec, RulesOnWhatWasShown
=============================================================================
