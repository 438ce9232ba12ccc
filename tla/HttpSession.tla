---------------------------- MODULE HttpSession ----------------------------
(***************************************************************************)
(* The unsafe requests of a page (api/http-init.ts under HttpUtil): the    *)
(* cached CSRF token, the shared fetch of a new one, the meta tag that     *)
(* wins over it, the single retry of a request that is refused with 403,   *)
(* and the end of the session with 401.  Another tab may log in again,     *)
(* which changes the session's token under this page, or log out.          *)
(*                                                                         *)
(* Abstracted: tokens are numbered as the session issues them; a request   *)
(* is what the pages call through HttpUtil.post, once per model value.     *)
(***************************************************************************)
EXTENDS Naturals

CONSTANTS
  Calls,       \* the requests of the page
  MaxTokens    \* bound on the tokens of the session

ASSUME HttpAssumption == MaxTokens \in Nat \ {0}

VARIABLES
  current,     \* the session's token at the server
  loggedIn,    \* is the session logged in?
  meta,        \* the token of the page's meta tag, or NoToken
  csrfToken,   \* the cached token, or NoToken
  pending,     \* csrfFetchPromise: none, or the token current when it was sent
  stage,       \* per call: where it is, and the token it carries
  executed,    \* how often the server carried the call out
  sessionExpired,
  blamed       \* history: calls with a cause for a refusal that stays

httpVars == <<current, loggedIn, meta, csrfToken, pending, stage, executed, sessionExpired, blamed>>
loginState == <<current, loggedIn, meta>>

NoToken == 0
NoTokenFetch == MaxTokens + 1
Token == 0..MaxTokens
At(name, token) == [at |-> name, token |-> token]
Stages == [at : {"idle", "wait", "rewait", "done", "refused", "failed", "hung"}, token : {NoToken}]
            \cup [at : {"sent", "resent", "forbidden", "denied", "ok", "reforbidden"}, token : Token]

HttpTypeOK ==
  /\ current \in 1..MaxTokens
  /\ loggedIn \in BOOLEAN
  /\ meta \in Token
  /\ csrfToken \in Token
  /\ pending \in 1..NoTokenFetch
  /\ stage \in [Calls -> Stages]
  /\ executed \in [Calls -> Nat]
  /\ sessionExpired \in BOOLEAN
  /\ blamed \subseteq Calls

\* setupHttp: the server renders the tag into the page, or could not.
HttpInit ==
  /\ current = 1
  /\ loggedIn = TRUE
  /\ meta \in {NoToken, current}
  /\ csrfToken = meta
  /\ pending = NoTokenFetch
  /\ stage = [c \in Calls |-> At("idle", NoToken)]
  /\ executed = [c \in Calls |-> 0]
  /\ sessionExpired = FALSE
  /\ blamed = {}

Active == {c \in Calls : stage[c].at \notin {"idle", "done", "refused", "failed", "hung"}}

-----------------------------------------------------------------------------
(* The page *)

\* ensureCsrfToken for a call that carries cached: the token at hand goes with
\* the request, else the call waits for the shared fetch.
EnsureToken(c, cached, send, wait) ==
  LET known == IF cached # NoToken THEN cached ELSE meta IN
  IF known # NoToken
  THEN /\ csrfToken' = known
       /\ stage' = [stage EXCEPT ![c] = At(send, known)]
       /\ UNCHANGED pending
  ELSE /\ csrfToken' = NoToken
       /\ stage' = [stage EXCEPT ![c] = At(wait, NoToken)]
       /\ pending' = IF pending = NoTokenFetch THEN current ELSE pending

\* performFetch, first attempt
performFetch(c) ==
  /\ stage[c].at = "idle"
  /\ ~ sessionExpired
  /\ EnsureToken(c, csrfToken, "sent", "wait")
  /\ UNCHANGED <<loginState, executed, sessionExpired, blamed>>

\* fetchCsrfToken answers with a token of the time between, or with none;
\* everybody who waits goes on.  A retry without a token is not made.
TokenFetched ==
  /\ pending # NoTokenFetch
  /\ pending' = NoTokenFetch
  /\ \E t \in pending..current \cup {NoToken} :
       LET known == IF t # NoToken THEN t ELSE csrfToken IN
       /\ csrfToken' = known
       /\ stage' = [c \in Calls |->
                      CASE stage[c].at = "wait" -> At("sent", known)
                        [] stage[c].at = "rewait" ->
                             IF known = NoToken THEN At("refused", NoToken) ELSE At("resent", known)
                        [] OTHER -> stage[c]]
       /\ blamed' = IF t = NoToken
                    THEN blamed \cup {c \in Calls : stage[c].at = "rewait"} ELSE blamed
  /\ UNCHANGED <<loginState, executed, sessionExpired>>

\* A 403: the token is dropped and another is asked for, once per call.
Forbidden(c) ==
  /\ stage[c].at = "forbidden"
  /\ EnsureToken(c, NoToken, "resent", "rewait")
  /\ blamed' = IF meta \in {NoToken, current} THEN blamed ELSE blamed \cup {c}
  /\ UNCHANGED <<loginState, executed, sessionExpired>>

\* The second 403 is thrown; HttpUtil makes a failed message of it.
Refused(c) ==
  /\ stage[c].at = "reforbidden"
  /\ stage' = [stage EXCEPT ![c] = At("refused", NoToken)]
  /\ UNCHANGED <<loginState, csrfToken, pending, executed, sessionExpired, blamed>>

\* A 401: the page is left once and the call never returns.
Denied(c) ==
  /\ stage[c].at = "denied"
  /\ sessionExpired' = TRUE
  /\ stage' = [stage EXCEPT ![c] = At("hung", NoToken)]
  /\ UNCHANGED <<loginState, csrfToken, pending, executed, blamed>>

Returned(c) ==
  /\ stage[c].at = "ok"
  /\ stage' = [stage EXCEPT ![c] = At("done", NoToken)]
  /\ UNCHANGED <<loginState, csrfToken, pending, executed, sessionExpired, blamed>>

-----------------------------------------------------------------------------
(* The network and the server *)

\* Mutant: the request is carried out before its token is looked at.
ExecutesFirst(c) ==
  /\ stage[c].at \in {"sent", "resent"}
  /\ executed' = [executed EXCEPT ![c] = @ + 1]
  /\ stage' = [stage EXCEPT ![c] =
       IF stage[c].token # current
       THEN At(IF stage[c].at = "sent" THEN "forbidden" ELSE "reforbidden", stage[c].token)
       ELSE IF ~ loggedIn THEN At("denied", stage[c].token)
       ELSE At("ok", stage[c].token)]
  /\ UNCHANGED <<loginState, csrfToken, pending, sessionExpired, blamed>>

ServerAnswers(c) ==
  /\ stage[c].at \in {"sent", "resent"}
  /\ stage' = [stage EXCEPT ![c] =
       IF ~ loggedIn THEN At("denied", stage[c].token)
       ELSE IF stage[c].token # current
       THEN At(IF stage[c].at = "sent" THEN "forbidden" ELSE "reforbidden", stage[c].token)
       ELSE At("ok", stage[c].token)]
  /\ executed' = IF loggedIn /\ stage[c].token = current
                 THEN [executed EXCEPT ![c] = @ + 1] ELSE executed
  /\ UNCHANGED <<loginState, csrfToken, pending, sessionExpired, blamed>>

\* The request or its answer is lost, or the timeout aborts it.
NetworkFails(c) ==
  /\ stage[c].at \in {"sent", "resent", "ok", "forbidden", "reforbidden", "denied"}
  /\ stage' = [stage EXCEPT ![c] = At("failed", NoToken)]
  /\ UNCHANGED <<loginState, csrfToken, pending, executed, sessionExpired, blamed>>

\* Another tab logs in: the session goes on with another token.
OtherLogin ==
  /\ current < MaxTokens
  /\ current' = current + 1
  /\ loggedIn' = TRUE
  /\ blamed' = blamed \cup Active
  /\ UNCHANGED <<meta, csrfToken, pending, stage, executed, sessionExpired>>

SessionEnds ==
  /\ loggedIn
  /\ loggedIn' = FALSE
  /\ UNCHANGED <<current, meta, csrfToken, pending, stage, executed, sessionExpired, blamed>>

HttpNext ==
  \/ \E c \in Calls :
       \/ performFetch(c) \/ Forbidden(c) \/ Refused(c) \/ Denied(c) \/ Returned(c)
       \/ ServerAnswers(c) \/ NetworkFails(c)
  \/ TokenFetched \/ OtherLogin \/ SessionEnds

HttpSpec == HttpInit /\ [][HttpNext]_httpVars

-----------------------------------------------------------------------------
(* Properties *)

\* The retry never carries a call out a second time (httpRequest).
AtMostOnce == \A c \in Calls : executed[c] <= 1

\* A call is refused for its token only when the session's token changed while
\* the call ran, a new one could not be fetched, or the page's meta tag holds an
\* old one: the retry takes that token before it asks the server for another, so
\* that a page which was open when another tab logged in stays refused.  An old
\* cached token alone costs one retry and no more.
RefusedForCause == \A c \in Calls : stage[c].at = "refused" => c \in blamed
=============================================================================
