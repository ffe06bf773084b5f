---------------------------- MODULE MCReviewQueue ----------------------------
(* Small instances of ReviewQueue and OperatorUI for TLC. *)
EXTENDS OperatorUI, TLC

CONSTANTS alice, bob, tokenA, tokenB, stray

\* stray is nobody's token.
MCApiKeys == tokenA :> alice @@ tokenB :> bob

\* A bearer token beside another key, which does not count; a key alone; a
\* blank bearer before a good key; nothing; a token nobody has.
MCCredentials ==
    {[bearer |-> tokenA, x_api_key |-> tokenB],
     [bearer |-> NoToken, x_api_key |-> tokenB],
     [bearer |-> BlankToken, x_api_key |-> tokenB],
     [bearer |-> NoToken, x_api_key |-> NoToken],
     [bearer |-> stray, x_api_key |-> NoToken]}

\* Ids and keys are interchangeable: nothing orders them.
QueueSymmetry == Permutations(ReviewIds) \cup Permutations(Keys)
=============================================================================
