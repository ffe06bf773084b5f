------------------------------ MODULE OperatorUI ------------------------------
(***************************************************************************)
(* The operator UI's HTTP endpoints over the review queue                  *)
(* (operator_ui/api.py), and the people who use them.  A person acts on    *)
(* what they last fetched, by which time the queue may have moved on; a    *)
(* reply may be lost after the request was carried out, and the person     *)
(* sends it again.  Each handler calls the locked queue once, so a request *)
(* is one step.                                                            *)
(***************************************************************************)
EXTENDS ReviewQueue

CONSTANTS
    Clients,        \* people with a browser
    Tokens, NoToken,    \* tokens a request may carry; NoToken: header absent
    BlankToken,     \* "Bearer" followed by nothing but spaces
    ApiKeys,        \* create_app's api_keys: token -> operator
    Credentials,    \* the pairs of headers requests carry
    Labels,         \* operator_id in request bodies
    UnknownVerdict, \* a verdict string ReviewVerdict does not have
    NoScreen, NoAnswer

ASSUME UIAssumption ==
    /\ DOMAIN ApiKeys \subseteq Tokens
    /\ \A t \in DOMAIN ApiKeys : ApiKeys[t] \in OperatorIds \cup {NoOperator}
    /\ NoToken \notin Tokens /\ BlankToken \notin Tokens
    /\ Credentials \subseteq [bearer : Tokens \cup {NoToken, BlankToken},
                              x_api_key : Tokens \cup {NoToken, BlankToken}]
    /\ Labels \subseteq OperatorIds \cup {NoOperator}
    /\ UnknownVerdict \notin ReviewVerdict

VARIABLES
    screen,     \* the review each client last fetched
    answer      \* the ruling last confirmed to a client

uiVars == <<pending, decisions, keys, audit, screen, answer>>

-----------------------------------------------------------------------------
(* authenticate_operator *)

\* X-API-Key counts only where there is no bearer token; a blank one is one.
TokenOf(credential) ==
    IF credential.bearer # NoToken THEN credential.bearer ELSE credential.x_api_key

Authenticated(credential) == TokenOf(credential) \in DOMAIN ApiKeys

Principal(credential) == ApiKeys[TokenOf(credential)]

-----------------------------------------------------------------------------
(* Endpoints *)

\* 401, 404, 400 and 409: nothing changes.
Refuse == answer' = NoAnswer /\ UNCHANGED <<vars, screen>>

Unauthorised == \E credential \in Credentials : ~Authenticated(credential) /\ Refuse

\* Put a review on the client's screen, unless the reply is lost.
Show(client, id, review) ==
    /\ \/ screen' = [screen EXCEPT ![client] = [id |-> id, payload |-> review.payload]]
       \/ UNCHANGED screen
    /\ answer' = NoAnswer
    /\ UNCHANGED vars

ListReviews(client) ==
    /\ \E credential \in Credentials : Authenticated(credential)
    /\ \E id \in DOMAIN pending : Show(client, id, pending[id])

GetReview(client, id) ==
    /\ \E credential \in Credentials : Authenticated(credential)
    /\ IF Get(id) = NoReview THEN Refuse ELSE Show(client, id, Get(id))

\* A bug that attributes the decision to the name in the request body.
MutantDeciderOf(credential, label) == label

\* The operator of the token; the body's operator_id is only a label.
DeciderOf(credential, label) == Principal(credential)

DecideReview(client, credential, id, verdict, label, modified) ==
    /\ Authenticated(credential)
    /\ IF verdict = UnknownVerdict THEN Refuse
       ELSE IF ~Decidable(id, verdict, DeciderOf(credential, label), modified) THEN Refuse
       ELSE /\ Decide(id, verdict, DeciderOf(credential, label), modified)
            /\ answer' \in {[client |-> client, credential |-> credential,
                              id |-> id, verdict |-> verdict], NoAnswer}
            /\ UNCHANGED screen

HttpRequest ==
    \/ Unauthorised
    \/ \E client \in Clients :
          \/ ListReviews(client)
          \/ \E id \in ReviewIds :
                \/ GetReview(client, id)
                \/ \E credential \in Credentials, verdict \in ReviewVerdict \cup {UnknownVerdict},
                      label \in Labels,
                      modified \in Payloads \cup {NoPayload} :
                         DecideReview(client, credential, id, verdict, label, modified)

\* A session of the same program files a review of what its gate escalates.
SessionEnqueues == EnqueueSome /\ UNCHANGED <<screen, answer>>

\* Someone not among the Clients rules: the program that embeds the queue may.
OthersDecide == DecideSome /\ UNCHANGED <<screen, answer>>

UIInit ==
    /\ Init
    /\ screen = [client \in Clients |-> NoScreen]
    /\ answer = NoAnswer

UINext == HttpRequest \/ SessionEnqueues \/ OthersDecide

UISpec == UIInit /\ [][UINext]_uiVars

-----------------------------------------------------------------------------
(* Properties *)

Confirmed == answer # NoAnswer

\* Whoever is told that their ruling was recorded finds it recorded, under
\* the operator their token stands for and no other name, whatever the
\* request body said and whoever ruled, retried or enqueued since (module
\* docstring; the comment at api.py:154).
ConfirmedIsRecorded ==
    Confirmed =>
        /\ answer.id \in DOMAIN decisions
        /\ decisions[answer.id].verdict = answer.verdict
        /\ decisions[answer.id].operator_id = Principal(answer.credential)

RulingOf(client, id) ==
    /\ id \in DOMAIN pending /\ id \in DOMAIN decisions'
    /\ Confirmed' /\ answer'.client = client /\ answer'.id = id

\* A ruling is on the command its author was shown: however late it arrives,
\* the review it decides still has the payload that was on the screen.
RulesOnWhatWasShown ==
    [][ \A client \in Clients :
            LET shown == screen[client] IN
            shown # NoScreen /\ RulingOf(client, shown.id) =>
                pending[shown.id].payload = shown.payload ]_uiVars
===============================================================================
