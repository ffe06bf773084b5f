---------------------------- MODULE OllamaTransport ----------------------------
(***************************************************************************)
(* One POST at a time to the Ollama daemon, with its retries               *)
(* (agents/research/ollama_backend.py, OllamaTransport).  The delays       *)
(* between attempts are left out.                                          *)
(***************************************************************************)
EXTENDS Naturals

CONSTANTS
    MaxRetries,     \* max_retries; 4 in the code
    NoCall

ASSUME TransportAssumption == MaxRetries \in Nat

VARIABLE call   \* the POST in progress or just over

\* How one attempt fails.  A daemon that closes the connection before it
\* answered ("dropped") makes urlopen raise RemoteDisconnected or
\* ConnectionResetError, which is neither HTTPError, URLError nor
\* TimeoutError: it leaves _post_once as it is.
Retryable == {"http_5xx", "unreachable", "timeout"}
Failures == Retryable \cup {"http_4xx", "non_json", "dropped"}

Endpoints == {"embed", "generate", "judge"}
Bodies == {"content", "empty"}

CallType ==
    [endpoint : Endpoints, attempt : 0 .. MaxRetries,
     state : {"sending", "raised"} \cup Bodies, failure : Failures \cup {"none"}]

TransportInit == call = NoCall

NewCall(endpoint) ==
    [endpoint |-> endpoint, attempt |-> 0, state |-> "sending", failure |-> "none"]

Sending == call # NoCall /\ call.state = "sending"
Raised == call # NoCall /\ call.state = "raised"
Returned == call # NoCall /\ call.state \in Bodies

\* A bug that allows one attempt too many.
MutantGivesUp(failure) == failure \notin Retryable \/ call.attempt > MaxRetries

GivesUp(failure) == failure \notin Retryable \/ call.attempt = MaxRetries

AttemptFails(failure) ==
    /\ Sending
    /\ call' = IF GivesUp(failure)
               THEN [call EXCEPT !.state = "raised", !.failure = failure]
               ELSE [call EXCEPT !.attempt = @ + 1]

\* A 2xx answer; a blank body gives {}.
AttemptSucceeds(body) ==
    /\ Sending
    /\ call' = [call EXCEPT !.state = body]

Attempt ==
    \/ \E failure \in Failures : AttemptFails(failure)
    \/ \E body \in Bodies : AttemptSucceeds(body)

-----------------------------------------------------------------------------
(* Properties *)

NetworkErrors == {"unreachable", "timeout", "dropped"}

\* A call fails with a network or timeout error only when every attempt did
\* ("5xx and network/timeout errors are retried", ollama_backend.py:115).
NetworkErrorsAreRetried ==
    Raised /\ call.failure \in NetworkErrors => call.attempt = MaxRetries
=============================================================================
