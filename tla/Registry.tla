------------------------------ MODULE Registry ------------------------------
(***************************************************************************)
(* src/registry: one request to the registry and what the chain of         *)
(* transports makes of it,                                                 *)
(*                                                                         *)
(*     ErrorTransport (BasicTransport (TokenTransport (http)))             *)
(*                                                                         *)
(* A refusal that names a token service is answered by one request to that *)
(* service and one repetition of the request; whatever comes of that, and  *)
(* any other answer, goes back to the caller, as an error from 400 on.     *)
(* All requests of docker search and docker merge are GETs.                *)
(***************************************************************************)
EXTENDS Naturals, Sequences

VARIABLE req   \* the request in progress

\* For whom the registry keeps what is asked for: for everyone, for bearers of a
\* token, or for those with a password, which the user does not have.
Auths == {"open", "bearer", "password"}

\* A plausible bug, no part of Next: errors are made of answers too early.
BugChain == <<"token", "basic", "error">>

\* WrapTransport, from the outside: a request goes through them from the first to
\* the last, its answer the other way.  Nobody adds to the request on its first
\* way: BasicTransport has no name and no password to add.
Chain == <<"error", "basic", "token">>

Requests ==
    [auth    : Auths,
     at      : {"idle", "sent", "back", "token", "over"},
     place   : 0..Len(Chain),               \* back: the transport that has it
     token   : {"none", "empty", "good"},   \* what the request carries
     service : {"unasked", "granted", "withheld"},   \* what the service did
     got     : {"none", "ok", "missing", "fault", "refused", "lost"},
     err     : BOOLEAN]                     \* is it an error by now

NoRequest ==
    [auth |-> "open", at |-> "idle", place |-> 0, token |-> "none",
     service |-> "unasked", got |-> "none", err |-> FALSE]

-----------------------------------------------------------------------------
(* The registry and its token service, as the client sees them; a redirect *)
(* is part of the answer it leads to.  A token that was granted for a      *)
(* request is good for it.                                                 *)

Admits == req.auth = "open" \/ req.token = "good"

\* An answer that cannot be read is as good as lost.
RegistryAnswers ==
    {"lost", "fault"} \cup IF Admits THEN {"ok", "missing"} ELSE {"refused"}

\* 200 with a "token"; 200 without one, as of a service that calls it
\* "access_token"; any other status; no answer, or one that is no JSON.
ServiceAnswers == {"token", "bare", "status", "lost"}

-----------------------------------------------------------------------------
(* The client *)

Ask ==
    \E auth \in Auths : req' = [NoRequest EXCEPT !.at = "sent", !.auth = auth]

\* An answer that is lost is an error from the start.
Answered ==
    /\ req.at = "sent"
    /\ \E answer \in RegistryAnswers :
          req' = [req EXCEPT !.at = "back", !.place = Len(Chain),
                             !.got = answer, !.err = (answer = "lost")]

\* isTokenDemand: a refusal that carries a bearer challenge, the first one.
TokenDemand ==
    ~req.err /\ req.got = "refused" /\ req.auth = "bearer" /\ req.token = "none"

\* TokenTransport asks the service that the refusal names.
Demands ==
    /\ req.at = "back" /\ Chain[req.place] = "token" /\ TokenDemand
    /\ req' = [req EXCEPT !.at = "token", !.got = "none"]

\* Any transport else hands on what it has; ErrorTransport makes errors of
\* answers from 400 on.
HandsOn ==
    /\ req.at = "back"
    /\ ~ (Chain[req.place] = "token" /\ TokenDemand)
    /\ req' = [req EXCEPT
                  !.err = @ \/ (Chain[req.place] = "error" /\ req.got # "ok"),
                  !.place = @ - 1,
                  !.at = IF req.place = 1 THEN "over" ELSE "back"]

\* retry: the request again, with whatever auth returned.
Retry(token) == [req EXCEPT !.at = "sent", !.token = token]

\* auth: the token service answers.  What is not a token makes an empty one and
\* no error, unless the answer is lost.
TokenAnswered ==
    /\ req.at = "token"
    /\ \E answer \in ServiceAnswers :
          req' = CASE answer = "token" ->
                        [Retry("good") EXCEPT !.service = "granted"]
                   [] answer \in {"bare", "status"} ->
                        [Retry("empty") EXCEPT !.service = "withheld"]
                   [] answer = "lost" ->
                        [req EXCEPT !.at = "back", !.got = "lost", !.err = TRUE,
                                    !.service = "withheld"]

Travels == Answered \/ Demands \/ HandsOn \/ TokenAnswered

\* For the caller, what is not an error is the answer.
Succeeds == req.at = "over" /\ ~req.err

Fails == req.at = "over" /\ req.err

-----------------------------------------------------------------------------

RegistryTypeOK == req \in Requests

\* What a caller takes for an answer is one, and no refusal or fault; and it is
\* refused what the registry keeps for bearers of a token only if the token service
\* has been asked and has granted none (WrapTransport's order of the transports,
\* TokenTransport's one repetition, ErrorTransport).
GoodAnswerOrError ==
    req.at = "over" =>
        /\ Succeeds => req.got = "ok"
        /\ req.got = "refused" /\ req.auth = "bearer" =>
              req.service = "withheld"
=============================================================================
