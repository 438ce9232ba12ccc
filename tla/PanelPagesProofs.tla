------------------------- MODULE PanelPagesProofs -------------------------
(***************************************************************************)
(* Proofs about the pages of the panel: the requests of a page and their   *)
(* CSRF token, the update of the panel from its own page, the lists of     *)
(* clients, inbounds, groups, nodes and geodata with what is opened from   *)
(* them, and all pages together, with those of DraftPagesProofs.           *)
(***************************************************************************)
EXTENDS PanelPages, DraftPagesProofs

-----------------------------------------------------------------------------
(* The requests, for any number of calls and any number of tokens: the     *)
(* retry never makes the server carry a call out twice, and a call is      *)
(* refused for its token only with a cause.  The second rests on what a    *)
(* shared fetch of the token can still be waited for: a fetch from before  *)
(* the last login is joined only by calls that are still to make their     *)
(* first attempt.                                                          *)

Fetching == pending # NoTokenFetch

\* A call that may still be carried out has not been carried out.
Unexecuted ==
  \A c \in Calls :
    /\ executed[c] \in {0, 1}
    /\ stage[c].at \in {"idle", "wait", "rewait", "sent", "resent", "forbidden"}
         => executed[c] = 0

\* While a fetch is under way nobody has a token to send.
FetchMeansNone == Fetching => csrfToken = NoToken /\ meta = NoToken /\ pending \in 1..current

\* A call without a cause for a refusal carries the session's token on its
\* retry, or waits for a fetch that brings it; and a fetch that may bring an
\* older one meets no such call between its first answer and its retry.
RetryIsCurrent ==
  \A c \in Calls \ blamed :
    /\ stage[c].at = "resent" => stage[c].token = current
    /\ stage[c].at = "rewait" => pending = current
    /\ (Fetching /\ pending # current) => stage[c].at \notin {"sent", "forbidden"}
    /\ stage[c].at \notin {"reforbidden", "refused"}

HttpInv == HttpTypeOK /\ Unexecuted /\ FetchMeansNone /\ RetryIsCurrent

-----------------------------------------------------------------------------
\* current is never the mark of "no fetch".
LEMMA CurrentIsToken ==
  ASSUME HttpTypeOK
  PROVE  /\ current \in Token /\ current # NoTokenFetch /\ current # NoToken
         /\ current \in 1..NoTokenFetch /\ 1 \in 1..MaxTokens /\ NoTokenFetch \in 1..NoTokenFetch
BY HttpAssumption DEF HttpTypeOK, Token, NoTokenFetch, NoToken

\* What ensureCsrfToken makes of the state of a call.
LEMMA EnsureTokenResult ==
  ASSUME HttpTypeOK, NEW c \in Calls, NEW held \in Token, NEW send, NEW wait,
         EnsureToken(c, held, send, wait)
  PROVE  \/ /\ \E t \in Token \ {NoToken} :
                 /\ csrfToken' = t
                 /\ stage' = [stage EXCEPT ![c] = At(send, t)]
            /\ pending' = pending
            /\ held # NoToken \/ (meta # NoToken /\ csrfToken' = meta)
         \/ /\ csrfToken' = NoToken
            /\ stage' = [stage EXCEPT ![c] = At(wait, NoToken)]
            /\ pending' = IF pending = NoTokenFetch THEN current ELSE pending
            /\ held = NoToken /\ meta = NoToken
BY DEF EnsureToken, HttpTypeOK

-----------------------------------------------------------------------------
(* Types *)

LEMMA StageType ==
  ASSUME HttpTypeOK, NEW c \in Calls, NEW st \in Stages, stage' = [stage EXCEPT ![c] = st]
  PROVE  stage' \in [Calls -> Stages] /\ stage'[c] = st
         /\ \A d \in Calls \ {c} : stage'[d] = stage[d]
BY DEF HttpTypeOK

LEMMA StageRecords ==
  /\ \A a \in {"idle", "wait", "rewait", "done", "refused", "failed", "hung"} :
       At(a, NoToken) \in Stages
  /\ \A a \in {"sent", "resent", "forbidden", "denied", "ok", "reforbidden"}, t \in Token :
       At(a, t) \in Stages
BY DEF Stages, At

LEMMA StageTokens ==
  ASSUME NEW st \in Stages, st.at \in {"sent", "resent", "forbidden", "denied", "ok", "reforbidden"}
  PROVE  st.token \in Token
BY DEF Stages

LEMMA AtFields == ASSUME NEW a, NEW t PROVE At(a, t).at = a /\ At(a, t).token = t
BY DEF At

-----------------------------------------------------------------------------
(* The invariant is inductive *)

LEMMA HttpInvInit == HttpInit => HttpInv
<1> SUFFICES ASSUME HttpInit PROVE HttpInv
  OBVIOUS
<1>1. 1 \in 1..MaxTokens /\ 1 \in Token /\ NoToken \in Token /\ NoTokenFetch \in 1..NoTokenFetch
  BY HttpAssumption DEF Token, NoToken, NoTokenFetch
<1>2. HttpTypeOK
  <2>1. stage \in [Calls -> Stages]
    BY StageRecords DEF HttpInit
  <2>2. executed \in [Calls -> Nat]
    BY DEF HttpInit
  <2> QED
    BY <1>1, <2>1, <2>2 DEF HttpInit, HttpTypeOK
<1>3. \A c \in Calls : stage[c].at = "idle" /\ executed[c] = 0
  BY AtFields DEF HttpInit
<1> QED
  BY <1>2, <1>3 DEF HttpInit, HttpInv, Unexecuted, FetchMeansNone, RetryIsCurrent, Fetching

\* A step that moves one call, with the rest of the state as it was, keeps the
\* invariant when it keeps what the invariant says of that call.
LEMMA OneCallMoves ==
  ASSUME HttpInv, NEW c \in Calls, NEW st \in Stages,
         stage' = [stage EXCEPT ![c] = st],
         UNCHANGED <<current, loggedIn, meta, csrfToken, pending, blamed>>,
         sessionExpired' \in BOOLEAN,
         \/ executed' = executed
         \/ executed[c] = 0 /\ executed' = [executed EXCEPT ![c] = 1] /\ st.at = "ok",
         st.at \in {"ok", "denied", "hung", "done", "failed", "forbidden", "reforbidden", "refused"},
         st.at = "forbidden" => stage[c].at \in {"sent", "forbidden"},
         st.at \in {"reforbidden", "refused"} => c \in blamed
  PROVE  HttpInv'
<1>1. /\ stage' \in [Calls -> Stages] /\ stage'[c] = st
      /\ \A d \in Calls \ {c} : stage'[d] = stage[d]
  BY StageType DEF HttpInv
<1>2. /\ executed' \in [Calls -> Nat]
      /\ \A d \in Calls \ {c} : executed'[d] = executed[d]
      /\ executed'[c] = executed[c] \/ (executed'[c] = 1 /\ st.at = "ok")
  BY DEF HttpInv, HttpTypeOK
<1>3. HttpTypeOK'
  BY <1>1, <1>2 DEF HttpInv, HttpTypeOK
<1>4. Unexecuted'
  <2> SUFFICES ASSUME NEW d \in Calls
               PROVE  /\ executed'[d] \in {0, 1}
                      /\ stage'[d].at \in {"idle", "wait", "rewait", "sent", "resent", "forbidden"}
                           => executed'[d] = 0
    BY DEF Unexecuted
  <2> QED
    BY <1>1, <1>2 DEF HttpInv, Unexecuted
<1>5. FetchMeansNone'
  BY DEF HttpInv, FetchMeansNone, Fetching
<1>6. RetryIsCurrent'
  BY <1>1 DEF HttpInv, RetryIsCurrent, Fetching
<1> QED
  BY <1>3, <1>4, <1>5, <1>6 DEF HttpInv

LEMMA AnswersKeep ==
  ASSUME HttpInv, NEW c \in Calls,
         Refused(c) \/ Denied(c) \/ Returned(c) \/ NetworkFails(c)
  PROVE  HttpInv'
<1>1. PICK a \in {"refused", "hung", "done", "failed"} :
        /\ stage' = [stage EXCEPT ![c] = At(a, NoToken)]
        /\ a = "refused" => stage[c].at = "reforbidden"
  BY DEF Refused, Denied, Returned, NetworkFails
<1>2. At(a, NoToken) \in Stages /\ At(a, NoToken).at = a
  BY StageRecords, AtFields
<1>3. a = "refused" => c \in blamed
  BY <1>1 DEF HttpInv, RetryIsCurrent
<1>4. /\ UNCHANGED <<current, loggedIn, meta, csrfToken, pending, blamed, executed>>
      /\ sessionExpired' \in BOOLEAN
  BY DEF Refused, Denied, Returned, NetworkFails, loginState, HttpInv, HttpTypeOK
<1> QED
  BY <1>1, <1>2, <1>3, <1>4, OneCallMoves

LEMMA ServerAnswersKeeps ==
  ASSUME HttpInv, NEW c \in Calls, ServerAnswers(c)
  PROVE  HttpInv'
<1>1. stage[c] \in Stages /\ stage[c].at \in {"sent", "resent"} /\ executed[c] = 0
  BY DEF ServerAnswers, HttpInv, HttpTypeOK, Unexecuted
<1>2. stage[c].token \in Token
  BY <1>1, StageTokens
<1>3. /\ UNCHANGED <<current, loggedIn, meta, csrfToken, pending, blamed>>
      /\ sessionExpired' \in BOOLEAN
  BY DEF ServerAnswers, loginState, HttpInv, HttpTypeOK
<1>4. executed[c] + 1 = 1
  BY <1>1
<1>5. PICK a \in {"denied", "forbidden", "reforbidden", "ok"} :
        /\ stage' = [stage EXCEPT ![c] = At(a, stage[c].token)]
        /\ \/ a # "ok" /\ executed' = executed
           \/ a = "ok" /\ executed' = [executed EXCEPT ![c] = 1]
        /\ a = "forbidden" => stage[c].at = "sent"
        /\ a = "reforbidden" => stage[c].at = "resent" /\ stage[c].token # current
  <2>1. CASE ~ loggedIn
    BY <2>1 DEF ServerAnswers
  <2>2. CASE loggedIn /\ stage[c].token = current
    BY <1>4, <2>2 DEF ServerAnswers
  <2>3. CASE loggedIn /\ stage[c].token # current
    BY <1>1, <2>3 DEF ServerAnswers
  <2> QED
    BY <2>1, <2>2, <2>3
<1>6. a = "reforbidden" => c \in blamed
  BY <1>5 DEF HttpInv, RetryIsCurrent
<1>7. PICK st \in Stages : st = At(a, stage[c].token)
  BY <1>2, StageRecords
<1>8. st.at = a
  BY <1>7, AtFields
<1> QED
  BY <1>1, <1>3, <1>5, <1>6, <1>7, <1>8, OneCallMoves

\* A call that asks for a token and sends, or waits for the shared fetch.
LEMMA EnsureKeeps ==
  ASSUME HttpInv, NEW c \in Calls, NEW held \in Token, NEW send, NEW wait,
         EnsureToken(c, held, send, wait),
         UNCHANGED <<loginState, executed, sessionExpired>>,
         executed[c] = 0,
         blamed \subseteq blamed', blamed' \subseteq Calls,
         \/ /\ send = "sent" /\ wait = "wait"
            /\ Fetching => held = NoToken
         \/ /\ send = "resent" /\ wait = "rewait" /\ held = NoToken
            /\ stage[c].at = "forbidden"
            /\ meta \in {NoToken, current} \/ c \in blamed'
  PROVE  HttpInv'
<1> DEFINE SendsNow ==
             /\ \E t \in Token \ {NoToken} :
                  /\ csrfToken' = t
                  /\ stage' = [stage EXCEPT ![c] = At(send, t)]
             /\ pending' = pending
             /\ held # NoToken \/ (meta # NoToken /\ csrfToken' = meta)
           WaitsNow ==
             /\ csrfToken' = NoToken
             /\ stage' = [stage EXCEPT ![c] = At(wait, NoToken)]
             /\ pending' = IF pending = NoTokenFetch THEN current ELSE pending
             /\ held = NoToken /\ meta = NoToken
<1>1. SendsNow \/ WaitsNow
  BY EnsureTokenResult DEF HttpInv
<1>2. UNCHANGED <<current, loggedIn, meta, executed, sessionExpired>>
  BY DEF loginState
<1>3. /\ current \in Token /\ current # NoTokenFetch /\ current \in 1..NoTokenFetch
      /\ current \in 1..current /\ NoToken \in Token
  BY CurrentIsToken, HttpAssumption DEF HttpInv, HttpTypeOK, Token, NoToken
<1>4. CASE SendsNow
  <2>1. PICK t \in Token \ {NoToken} :
          csrfToken' = t /\ stage' = [stage EXCEPT ![c] = At(send, t)]
    BY <1>4
  <2>2. /\ At(send, t) \in Stages /\ At(send, t).at = send
    BY StageRecords, AtFields
  <2>3. /\ stage' \in [Calls -> Stages] /\ stage'[c].at = send
        /\ \A d \in Calls \ {c} : stage'[d] = stage[d]
    BY <2>1, <2>2, StageType DEF HttpInv
  <2>4. ~ Fetching /\ ~ Fetching'
    BY <1>4 DEF HttpInv, FetchMeansNone, Fetching, NoTokenFetch
  <2>5. HttpTypeOK'
    BY <1>2, <1>4, <2>1, <2>3 DEF HttpInv, HttpTypeOK
  <2>6. send = "resent" /\ c \notin blamed' => stage'[c].token = current
    <3>1. stage'[c].token = t
      BY <2>1, AtFields, StageRecords, StageType DEF HttpInv
    <3> QED  BY <1>4, <2>1, <3>1
  <2> QED
    BY <1>2, <1>4, <2>3, <2>4, <2>5, <2>6
    DEF HttpInv, Unexecuted, FetchMeansNone, RetryIsCurrent
<1>5. CASE WaitsNow
  <2>1. At(wait, NoToken) \in Stages /\ At(wait, NoToken).at = wait
    BY StageRecords, AtFields
  <2>2. /\ stage' \in [Calls -> Stages] /\ stage'[c].at = wait
        /\ \A d \in Calls \ {c} : stage'[d] = stage[d]
    BY <1>5, <2>1, StageType DEF HttpInv
  <2>3. pending' \in 1..NoTokenFetch
    BY <1>3, <1>5 DEF HttpInv, HttpTypeOK
  <2>4. HttpTypeOK'
    BY <1>2, <1>3, <1>5, <2>2, <2>3 DEF HttpInv, HttpTypeOK
  <2>5. FetchMeansNone'
    BY <1>2, <1>3, <1>5 DEF HttpInv, FetchMeansNone, Fetching
  <2>6. \A d \in Calls \ blamed' :
          (Fetching' /\ pending' # current) => Fetching /\ pending # current
    BY <1>5 DEF Fetching
  <2>7. (wait = "rewait" /\ c \notin blamed') => pending' = current
    BY <1>5 DEF HttpInv, RetryIsCurrent, Fetching
  <2>8. \A d \in Calls \ blamed : stage[d].at = "rewait" => pending' = pending
    BY <1>3, <1>5 DEF HttpInv, RetryIsCurrent
  <2>9. RetryIsCurrent'
    <3> SUFFICES ASSUME NEW d \in Calls \ blamed'
                 PROVE  /\ stage'[d].at = "resent" => stage'[d].token = current'
                        /\ stage'[d].at = "rewait" => pending' = current'
                        /\ (Fetching' /\ pending' # current')
                             => stage'[d].at \notin {"sent", "forbidden"}
                        /\ stage'[d].at \notin {"reforbidden", "refused"}
      BY DEF RetryIsCurrent
    <3>1. CASE d = c
      BY <1>2, <2>2, <2>7, <3>1
    <3>2. CASE d # c
      BY <1>2, <2>2, <2>6, <2>8, <3>2 DEF HttpInv, RetryIsCurrent
    <3> QED
      BY <3>1, <3>2
  <2>10. Unexecuted'
    BY <1>2, <2>2 DEF HttpInv, Unexecuted
  <2> QED
    BY <2>4, <2>5, <2>9, <2>10 DEF HttpInv
<1> QED
  BY <1>1, <1>4, <1>5

LEMMA TokenFetchedKeeps ==
  ASSUME HttpInv, TokenFetched
  PROVE  HttpInv'
<1>1. /\ Fetching /\ ~ Fetching' /\ pending' = NoTokenFetch /\ meta = NoToken
      /\ csrfToken = NoToken /\ pending \in 1..current
      /\ UNCHANGED <<current, loggedIn, meta, executed, sessionExpired>>
  BY DEF TokenFetched, loginState, HttpInv, FetchMeansNone, Fetching
<1>2. PICK t \in pending..current \cup {NoToken} :
        /\ csrfToken' = t
        /\ stage' = [c \in Calls |->
                       CASE stage[c].at = "wait" -> At("sent", t)
                         [] stage[c].at = "rewait" ->
                              IF t = NoToken THEN At("refused", NoToken) ELSE At("resent", t)
                         [] OTHER -> stage[c]]
        /\ blamed' = IF t = NoToken
                     THEN blamed \cup {c \in Calls : stage[c].at = "rewait"} ELSE blamed
  BY <1>1 DEF TokenFetched, NoToken
<1>3. t \in Token /\ NoToken \in Token
  BY <1>1, HttpAssumption DEF HttpInv, HttpTypeOK, Token, NoToken
<1>4. \A c \in Calls :
        \/ stage[c].at = "wait" /\ stage'[c] = At("sent", t)
        \/ stage[c].at = "rewait" /\ t = NoToken /\ stage'[c] = At("refused", NoToken)
        \/ stage[c].at = "rewait" /\ t # NoToken /\ stage'[c] = At("resent", t)
        \/ stage[c].at \notin {"wait", "rewait"} /\ stage'[c] = stage[c]
  BY <1>2
<1>5. stage' \in [Calls -> Stages]
  <2>1. \A c \in Calls : stage'[c] \in Stages
    BY <1>3, <1>4, StageRecords DEF HttpInv, HttpTypeOK
  <2> QED
    BY <1>2, <2>1
<1>6. HttpTypeOK'
  <2>1. blamed' \subseteq Calls
    BY <1>2 DEF HttpInv, HttpTypeOK
  <2>2. pending' \in 1..NoTokenFetch
    BY <1>1, CurrentIsToken DEF HttpInv
  <2> QED
    BY <1>1, <1>2, <1>3, <1>5, <2>1, <2>2 DEF HttpInv, HttpTypeOK
<1>7. Unexecuted'
  BY <1>1, <1>4, AtFields DEF HttpInv, Unexecuted
<1>8. RetryIsCurrent'
  <2> SUFFICES ASSUME NEW c \in Calls \ blamed'
               PROVE  /\ stage'[c].at = "resent" => stage'[c].token = current
                      /\ stage'[c].at # "rewait"
                      /\ stage'[c].at \notin {"reforbidden", "refused"}
    BY <1>1 DEF RetryIsCurrent
  <2>1. c \notin blamed /\ (t = NoToken => stage[c].at # "rewait")
    BY <1>2
  <2>2. (stage[c].at = "rewait" /\ t # NoToken) => t = current
    <3>1. stage[c].at = "rewait" => pending = current
      BY <2>1 DEF HttpInv, RetryIsCurrent
    <3> QED
      BY <3>1 DEF HttpInv, HttpTypeOK
  <2> QED
    BY <1>4, <2>1, <2>2, AtFields DEF HttpInv, RetryIsCurrent
<1> QED
  BY <1>1, <1>6, <1>7, <1>8 DEF HttpInv, FetchMeansNone

LEMMA OtherLoginKeeps ==
  ASSUME HttpInv, OtherLogin
  PROVE  HttpInv'
<1>1. /\ current' = current + 1 /\ current' \in 1..MaxTokens
      /\ blamed' = blamed \cup Active
      /\ UNCHANGED <<meta, csrfToken, pending, stage, executed, sessionExpired>>
  BY HttpAssumption DEF OtherLogin, HttpInv, HttpTypeOK
<1>2. HttpTypeOK'
  BY <1>1 DEF OtherLogin, HttpInv, HttpTypeOK, Active
<1>3. FetchMeansNone'
  BY <1>1 DEF HttpInv, HttpTypeOK, FetchMeansNone, Fetching
<1>4. \A c \in Calls \ blamed' :
        /\ c \notin blamed
        /\ stage[c].at \in {"idle", "done", "refused", "failed", "hung"}
  BY <1>1 DEF Active
<1>5. RetryIsCurrent'
  BY <1>1, <1>4 DEF HttpInv, RetryIsCurrent
<1> QED
  BY <1>1, <1>2, <1>3, <1>5 DEF HttpInv, Unexecuted

LEMMA HttpInvStep == HttpInv /\ [HttpNext]_httpVars => HttpInv'
<1> SUFFICES ASSUME HttpInv, [HttpNext]_httpVars PROVE HttpInv'
  OBVIOUS
<1>1. ASSUME NEW c \in Calls, performFetch(c) PROVE HttpInv'
  <2>1. /\ stage[c].at = "idle" /\ EnsureToken(c, csrfToken, "sent", "wait")
        /\ UNCHANGED <<loginState, executed, sessionExpired, blamed>>
    BY <1>1 DEF performFetch
  <2>2. /\ csrfToken \in Token /\ blamed' \subseteq Calls /\ executed[c] = 0
        /\ Fetching => csrfToken = NoToken
    BY <2>1 DEF HttpInv, HttpTypeOK, FetchMeansNone, Unexecuted
  <2> QED
    BY <2>1, <2>2, EnsureKeeps
<1>2. ASSUME NEW c \in Calls, Forbidden(c) PROVE HttpInv'
  <2>1. /\ stage[c].at = "forbidden" /\ EnsureToken(c, NoToken, "resent", "rewait")
        /\ UNCHANGED <<loginState, executed, sessionExpired>>
    BY <1>2 DEF Forbidden
  <2>2. /\ blamed \subseteq blamed' /\ blamed' \subseteq Calls /\ executed[c] = 0
        /\ meta \in {NoToken, current} \/ c \in blamed'
    BY <1>2, <2>1 DEF Forbidden, HttpInv, HttpTypeOK, Unexecuted
  <2>3. NoToken \in Token
    BY HttpAssumption DEF Token, NoToken
  <2> QED
    BY <2>1, <2>2, <2>3, EnsureKeeps
<1>3. ASSUME NEW c \in Calls, ServerAnswers(c) PROVE HttpInv'
  BY <1>3, ServerAnswersKeeps
<1>4. ASSUME NEW c \in Calls, Refused(c) \/ Denied(c) \/ Returned(c) \/ NetworkFails(c)
      PROVE  HttpInv'
  BY <1>4, AnswersKeep
<1>5. CASE SessionEnds
  <2>1. UNCHANGED <<current, meta, csrfToken, pending, stage, executed, sessionExpired, blamed>>
        /\ loggedIn' \in BOOLEAN
    BY <1>5 DEF SessionEnds
  <2> QED
    BY <2>1 DEF HttpInv, HttpTypeOK, Unexecuted, FetchMeansNone, RetryIsCurrent, Fetching
<1>6. CASE UNCHANGED httpVars
  BY <1>6
  DEF httpVars, HttpInv, HttpTypeOK, Unexecuted, FetchMeansNone, RetryIsCurrent, Fetching
<1> QED
  BY <1>1, <1>2, <1>3, <1>4, <1>5, <1>6, TokenFetchedKeeps, OtherLoginKeeps DEF HttpNext

LEMMA HttpInvariant == HttpSpec => []HttpInv
BY HttpInvInit, HttpInvStep, PTL DEF HttpSpec

-----------------------------------------------------------------------------
\* The session of a page keeps its shape (api/http-init.ts).
THEOREM HttpTyping == HttpSpec => []HttpTypeOK
<1>1. HttpInv => HttpTypeOK
  BY DEF HttpInv
<1> QED
  BY <1>1, HttpInvariant, PTL

\* However often tokens change, fetches are shared and answers are lost, the
\* server carries a call out at most once (httpRequest's single retry).
THEOREM CarriedOutAtMostOnce == HttpSpec => []AtMostOnce
<1>1. HttpInv => AtMostOnce
  <2>1. \A n \in {0, 1} : n <= 1
    OBVIOUS
  <2> QED
    BY <2>1 DEF HttpInv, Unexecuted, AtMostOnce
<1> QED
  BY <1>1, HttpInvariant, PTL

\* A call is refused for its token only when the session's token changed while the
\* call ran, no new one could be fetched, or the page's meta tag holds an old one:
\* an old cached token alone is repaired by the one retry (the 403 branch of
\* httpRequest).
THEOREM RefusalHasCause == HttpSpec => []RefusedForCause
<1>1. HttpInv => RefusedForCause
  BY DEF HttpInv, RetryIsCurrent, RefusedForCause
<1> QED
  BY <1>1, HttpInvariant, PTL

-----------------------------------------------------------------------------

Verdicts == {"success", "failed"}

UpdateTypes ==
  /\ runs \in 0..MaxRuns
  /\ scripts \subseteq 1..runs
  /\ slot \in 0..runs
  /\ expected \in 0..runs
  /\ endings \in [1..MaxRuns -> {"none", "success", "failed", "killed"}]
  /\ file \in [run : 0..runs, state : {"pending", "success", "failed", "killed"}]

\* The run r is over and ended as `how`.
EndedAs(r, how) == r \in 1..runs /\ r \notin scripts /\ endings[r] = how

\* What the file says is how its run ended.
FileIsTrue == file.state # "pending" => EndedAs(file.run, file.state) /\ file.state \in Verdicts

\* What the page says is how the run it waits for ended, and it says nothing
\* before it has been told.
OutcomeIsTrue ==
  /\ outcome \in Verdicts => EndedAs(expected, outcome)
  /\ page_ # "told" => outcome = "none"
  /\ outcome \in Verdicts \cup {"none", "timeout"}

UpdateInv == UpdateTypes /\ FileIsTrue /\ OutcomeIsTrue

Overlay == CoveredWhileBusy /\ (spinning => busy) /\ overlapped \in BOOLEAN

-----------------------------------------------------------------------------
LEMMA UpdateInvInit == PanelUpdateInit => UpdateInv /\ Overlay
<1> SUFFICES ASSUME PanelUpdateInit PROVE UpdateInv /\ Overlay
  OBVIOUS
<1>1. 0 \in 0..MaxRuns /\ 0 \in 0..0
  BY UpdateAssumption
<1>2. UpdateTypes
  BY <1>1 DEF PanelUpdateInit, UpdateTypes, NoFile
<1> QED
  BY <1>2
  DEF PanelUpdateInit, UpdateInv, FileIsTrue, OutcomeIsTrue, Overlay, CoveredWhileBusy, NoFile,
      Verdicts

\* A run that starts is a new one: it changes nothing of those that ended.
LEMMA LaunchKeepsEndings ==
  ASSUME UpdateInv, runs < MaxRuns, Launches, endings' = endings, file' = file
  PROVE  /\ runs' = runs + 1 /\ runs' \in 0..MaxRuns
         /\ scripts' \subseteq 1..runs' /\ slot' \in 0..runs' /\ runs' \in 0..runs'
         /\ \A r, how : EndedAs(r, how) => EndedAs(r, how)'
         /\ FileIsTrue'
         /\ file' \in [run : 0..runs', state : {"pending", "success", "failed", "killed"}]
<1>1. runs \in Nat /\ runs' = runs + 1 /\ runs' \in 0..MaxRuns /\ slot' = runs'
      /\ scripts' = scripts \cup {runs'} /\ runs' \notin 1..runs /\ 0..runs \subseteq 0..runs'
      /\ 1..runs \subseteq 1..runs' /\ runs' \in 1..runs' /\ runs' \in 0..runs'
  BY UpdateAssumption DEF Launches, UpdateInv, UpdateTypes
<1>2. scripts' \subseteq 1..runs'
  BY <1>1 DEF UpdateInv, UpdateTypes
<1>3. ASSUME NEW r, NEW how, EndedAs(r, how) PROVE EndedAs(r, how)'
  BY <1>1, <1>3 DEF EndedAs
<1>4. FileIsTrue'
  BY <1>3 DEF UpdateInv, FileIsTrue
<1>5. file' \in [run : 0..runs', state : {"pending", "success", "failed", "killed"}]
  BY <1>1 DEF UpdateInv, UpdateTypes
<1> QED
  BY <1>1, <1>2, <1>3, <1>4, <1>5

LEMMA OthersUpdateKeeps == ASSUME UpdateInv, OthersUpdate PROVE UpdateInv'
<1>1. /\ runs < MaxRuns /\ Launches
      /\ UNCHANGED <<file, endings, page_, expected, outcome>>
  BY DEF OthersUpdate
<1>2. expected' \in 0..runs'
  BY <1>1, LaunchKeepsEndings, UpdateAssumption DEF UpdateInv, UpdateTypes
<1>3. UpdateTypes'
  BY <1>1, <1>2, LaunchKeepsEndings DEF UpdateInv, UpdateTypes
<1>4. OutcomeIsTrue'
  BY <1>1, LaunchKeepsEndings DEF UpdateInv, OutcomeIsTrue
<1> QED
  BY <1>1, <1>3, <1>4, LaunchKeepsEndings DEF UpdateInv

LEMMA UpdateStartedKeeps == ASSUME UpdateInv, UpdateStarted PROVE UpdateInv'
<1>1. /\ runs < MaxRuns /\ Launches /\ page_ = "asking" /\ page_' = "polling"
      /\ expected' = runs' /\ UNCHANGED <<file, endings, outcome>>
  BY DEF UpdateStarted
<1>2. UpdateTypes'
  BY <1>1, LaunchKeepsEndings DEF UpdateInv, UpdateTypes
<1>3. OutcomeIsTrue'
  BY <1>1 DEF UpdateInv, OutcomeIsTrue, Verdicts
<1> QED
  BY <1>1, <1>2, <1>3, LaunchKeepsEndings DEF UpdateInv

\* A script that ends was at work, so no result that is told is its own.
LEMMA ScriptEndsKeeps ==
  ASSUME UpdateInv, NEW r \in scripts, NEW how \in {"success", "failed", "killed"},
         ScriptEnds(r, how)
  PROVE  UpdateInv'
<1>1. /\ scripts' = scripts \ {r} /\ endings' = [endings EXCEPT ![r] = how]
      /\ file' = IF how = "killed" THEN file ELSE [run |-> r, state |-> how]
      /\ UNCHANGED <<slot, runs, page_, expected, outcome>>
  BY DEF ScriptEnds
<1>2. r \in 1..runs /\ r \in 1..MaxRuns /\ r \in 0..runs
  BY UpdateAssumption DEF UpdateInv, UpdateTypes
<1>3. endings' \in [1..MaxRuns -> {"none", "success", "failed", "killed"}] /\ endings'[r] = how
  BY <1>1, <1>2 DEF UpdateInv, UpdateTypes
<1>4. UpdateTypes'
  BY <1>1, <1>2, <1>3 DEF UpdateInv, UpdateTypes
<1>5. ASSUME NEW q, NEW kind, EndedAs(q, kind) PROVE EndedAs(q, kind)'
  <2>1. q # r /\ q \in 1..MaxRuns
    BY <1>5, UpdateAssumption DEF EndedAs, UpdateInv, UpdateTypes
  <2>2. endings'[q] = endings[q]
    BY <1>1, <2>1 DEF UpdateInv, UpdateTypes
  <2> QED
    BY <1>1, <1>5, <2>2 DEF EndedAs
<1>6. EndedAs(r, how)'
  BY <1>1, <1>2, <1>3 DEF EndedAs
<1>7. FileIsTrue'
  <2>1. CASE how = "killed"
    BY <1>1, <1>5, <2>1 DEF UpdateInv, FileIsTrue
  <2>2. CASE how # "killed"
    BY <1>1, <1>6, <2>2 DEF FileIsTrue, Verdicts
  <2> QED
    BY <2>1, <2>2
<1>8. OutcomeIsTrue'
  BY <1>1, <1>5 DEF UpdateInv, OutcomeIsTrue
<1> QED
  BY <1>4, <1>7, <1>8 DEF UpdateInv

LEMMA PollKeeps == ASSUME UpdateInv, pollUpdateStatus PROVE UpdateInv'
<1>1. UNCHANGED <<slot, scripts, file, endings, runs, expected>> /\ page_ = "polling"
  BY DEF pollUpdateStatus
<1>2. UpdateTypes' /\ FileIsTrue'
  BY <1>1 DEF UpdateInv, UpdateTypes, FileIsTrue, EndedAs
<1>3. OutcomeIsTrue'
  <2>1. CASE serving /\ ResultIsOurs
    <3>1. outcome' = file.state /\ page_' = "told" /\ file.run = expected /\ file.state # "pending"
      BY <2>1 DEF pollUpdateStatus, ResultIsOurs
    <3> QED
      BY <1>1, <3>1 DEF UpdateInv, FileIsTrue, OutcomeIsTrue, EndedAs
  <2>2. CASE ~ (serving /\ ResultIsOurs)
    BY <1>1, <2>2 DEF pollUpdateStatus, UpdateInv, OutcomeIsTrue, EndedAs
  <2> QED
    BY <2>1, <2>2
<1> QED
  BY <1>2, <1>3 DEF UpdateInv

\* The other steps leave the runs alone and report no result.
LEMMA RestKeeps ==
  ASSUME UpdateInv, UNCHANGED <<scripts, file, endings, runs>>, slot' \in {slot, 0},
         \/ UNCHANGED <<expected, outcome, page_>>
         \/ expected' = expected /\ outcome = "none" /\ outcome' \in {"none", "timeout"}
            /\ (page_' # "told" => outcome' = "none")
         \/ expected' = 0 /\ outcome' = "none"
  PROVE  UpdateInv'
<1>1. 0 \in 0..runs
  BY UpdateAssumption DEF UpdateInv, UpdateTypes
<1>2. UpdateTypes'
  BY <1>1 DEF UpdateInv, UpdateTypes
<1>3. FileIsTrue'
  BY DEF UpdateInv, FileIsTrue, EndedAs
<1>4. OutcomeIsTrue'
  BY DEF UpdateInv, OutcomeIsTrue, EndedAs, Verdicts
<1> QED
  BY <1>2, <1>3, <1>4 DEF UpdateInv

LEMMA UpdateInvStep == UpdateInv /\ [PanelUpdateNext]_updateVars => UpdateInv'
<1> SUFFICES ASSUME UpdateInv, [PanelUpdateNext]_updateVars PROVE UpdateInv'
  OBVIOUS
<1>1. CASE ScriptStops \/ PanelStarts \/ openPanelVersion \/ closePanelVersion \/ SpinShows
           \/ EndTask \/ UNCHANGED updateVars
  <2>1. /\ UNCHANGED <<scripts, file, endings, runs>> /\ slot' \in {slot, 0}
        /\ UNCHANGED <<expected, outcome, page_>>
    BY <1>1
    DEF ScriptStops, PanelStarts, openPanelVersion, closePanelVersion, SpinShows, EndTask,
        updateVars
  <2> QED
    BY <2>1, RestKeeps
<1>2. ASSUME NEW kind \in {"config", "awg"}, StartTask(kind) PROVE UpdateInv'
  <2>1. /\ UNCHANGED <<scripts, file, endings, runs>> /\ slot' \in {slot, 0}
        /\ UNCHANGED <<expected, outcome, page_>>
    BY <1>2 DEF StartTask
  <2> QED
    BY <2>1, RestKeeps
<1>3. CASE updatePanel \/ UpdateRefused \/ DeadlinePasses
  <2>1. /\ UNCHANGED <<scripts, file, endings, runs>> /\ slot' \in {slot, 0}
        /\ expected' = expected /\ outcome = "none" /\ outcome' \in {"none", "timeout"}
        /\ (page_' # "told" => outcome' = "none")
    BY <1>3 DEF updatePanel, UpdateRefused, DeadlinePasses, UpdateInv, OutcomeIsTrue
  <2> QED
    BY <2>1, RestKeeps
<1>4. CASE Reload
  <2>1. /\ UNCHANGED <<scripts, file, endings, runs>> /\ slot' \in {slot, 0}
        /\ expected' = 0 /\ outcome' = "none"
    BY <1>4 DEF Reload
  <2> QED
    BY <2>1, RestKeeps
<1>5. ASSUME NEW r \in scripts, NEW how \in {"success", "failed", "killed"}, ScriptEnds(r, how)
      PROVE  UpdateInv'
  BY <1>5, ScriptEndsKeeps
<1> QED
  BY <1>1, <1>2, <1>3, <1>4, <1>5, OthersUpdateKeeps, UpdateStartedKeeps, PollKeeps
  DEF PanelUpdateNext

LEMMA UpdateInvariant == PanelUpdateSpec => []UpdateInv
<1>1. PanelUpdateInit => UpdateInv
  BY UpdateInvInit
<1> QED
  BY <1>1, UpdateInvStep, PTL DEF PanelUpdateSpec

-----------------------------------------------------------------------------
(* The update of the panel, for any number of runs, polls and other        *)
(* operations: what the page reports is how the run that it started ended, *)
(* and the overlay is up for as long as it is needed.  The first rests on  *)
(* what the status file can say: the result of a script that has ended,    *)
(* which no later run changes.                                             *)
\* The page reports the result of the run that it started and of no other, with
\* any number of updates by others, of scripts that are killed and of restarts
\* in between (updatePanel's wait for its run in the status file).
THEOREM ReportsItsOwnRun == PanelUpdateSpec => []OutcomeIsOurs
<1>1. UpdateInv => OutcomeIsOurs
  BY DEF UpdateInv, OutcomeIsTrue, OutcomeIsOurs, EndedAs, Verdicts
<1> QED
  BY <1>1, UpdateInvariant, PTL

LEMMA OverlayStep == Overlay /\ [PanelUpdateNext]_updateVars => Overlay'
<1> SUFFICES ASSUME Overlay, [PanelUpdateNext]_updateVars PROVE Overlay'
  OBVIOUS
<1> USE DEF Overlay, CoveredWhileBusy
<1>1. CASE OthersUpdate \/ ScriptStops \/ PanelStarts \/ openPanelVersion \/ closePanelVersion
           \/ UNCHANGED updateVars
  BY <1>1 DEF OthersUpdate, ScriptStops, PanelStarts, openPanelVersion, closePanelVersion,
              updateVars
<1>2. ASSUME NEW r \in scripts, NEW how, ScriptEnds(r, how) PROVE Overlay'
  BY <1>2 DEF ScriptEnds
<1>3. CASE updatePanel \/ UpdateRefused
  BY <1>3 DEF updatePanel, UpdateRefused
<1>4. CASE UpdateStarted
  BY <1>4 DEF UpdateStarted
<1>5. CASE pollUpdateStatus
  <2>1. UNCHANGED <<tasks, overlapped>>
    BY <1>5 DEF pollUpdateStatus
  <2>2. \/ page_' = "told" /\ busy' = FALSE /\ spinning' = FALSE
        \/ UNCHANGED <<page_, busy, spinning>>
    BY <1>5 DEF pollUpdateStatus
  <2> QED
    BY <2>1, <2>2
<1>8. CASE DeadlinePasses \/ Reload
  <2>1. page_' = "told" \/ page_' = "idle"
    BY <1>8 DEF DeadlinePasses, Reload
  <2>2. busy' = FALSE /\ spinning' = FALSE
    BY <1>8 DEF DeadlinePasses, Reload
  <2>3. overlapped' = overlapped \/ overlapped' = FALSE
    BY <1>8 DEF DeadlinePasses, Reload
  <2>4. overlapped' \in BOOLEAN
    BY <2>3
  <2>5. ~(page_' \in {"asking", "polling"})
    BY <2>1
  <2> QED
    BY <2>2, <2>4, <2>5
<1>6. CASE SpinShows
  BY <1>6 DEF SpinShows
<1>9. CASE EndTask
  <2>1. busy' = FALSE /\ spinning' = FALSE /\ page_' = page_
    BY <1>9 DEF EndTask
  <2>2. overlapped' = (page_ \in {"asking", "polling"})
    BY <1>9 DEF EndTask
  <2>3. overlapped' \in BOOLEAN
    BY <2>2
  <2>4. (page_' \in {"asking", "polling"}) => overlapped'
    BY <2>1, <2>2
  <2> QED
    BY <2>1, <2>3, <2>4
<1>7. ASSUME NEW kind \in {"config", "awg"}, StartTask(kind) PROVE Overlay'
  BY <1>7 DEF StartTask, Reachable_
<1> QED
  BY <1>1, <1>2, <1>3, <1>4, <1>5, <1>6, <1>7, <1>8, <1>9 DEF PanelUpdateNext

\* The page is covered while its update is under way, unless an operation that
\* began before the overlay was up has ended, and an overlay is there for
\* something (setBusy and the cards' operations).
THEOREM CoveredUntilTold == PanelUpdateSpec => []CoveredWhileBusy
<1>1. PanelUpdateInit => Overlay
  BY UpdateInvInit
<1>2. Overlay => CoveredWhileBusy
  BY DEF Overlay
<1> QED
  BY <1>1, <1>2, OverlayStep, PTL DEF PanelUpdateSpec

-----------------------------------------------------------------------------
(* The live rows of the inbounds page.  The counts that are taken with an  *)
(* assignment made for older rows still show a client once, because any    *)
(* assignment gives a client one inbound of a node.                        *)

AssignedOnce ==
  \A i, j \in Inbounds : (i # j /\ Guid[i] = Guid[j]) => assigned[i] \cap assigned[j] = {}

RollupInv == RollupTypeOK /\ AssignedOnce /\ OnlineOnce /\ CountsCurrent

LEMMA AssignsOnce ==
  ASSUME NEW rs, NEW on, NEW se
  PROVE  /\ Assign(rs, on, se) \in [Inbounds -> SUBSET Users]
         /\ \A i, j \in Inbounds : (i # j /\ Guid[i] = Guid[j])
              => Assign(rs, on, se)[i] \cap Assign(rs, on, se)[j] = {}
<1>1. Assign(rs, on, se) \in [Inbounds -> SUBSET Users]
  BY DEF Assign
<1>2. ASSUME NEW i \in Inbounds, NEW j \in Inbounds, i # j, Guid[i] = Guid[j],
             NEW e \in Assign(rs, on, se)[i], e \in Assign(rs, on, se)[j]
      PROVE  FALSE
  <2> DEFINE all == Candidates(rs, on, Guid[i], e)
  <2>1. IF se[Guid[i]][e] # NoTag THEN i = se[Guid[i]][e] ELSE all = {i}
    BY <1>2 DEF Assign
  <2>2. IF se[Guid[i]][e] # NoTag THEN j = se[Guid[i]][e] ELSE all = {j}
    BY <1>2 DEF Assign
  <2> HIDE DEF all
  <2> QED  BY <2>1, <2>2, <1>2
<1> QED  BY <1>1, <1>2

LEMMA RollupOnce ==
  ASSUME NEW rs, NEW on, NEW ac, NEW as,
         \A i, j \in Inbounds : (i # j /\ Guid[i] = Guid[j]) => as[i] \cap as[j] = {}
  PROVE  /\ Rollup(rs, on, ac, as) \in [Inbounds -> [online : SUBSET Users, ended : SUBSET Users]]
         /\ \A i, j \in Inbounds : (i # j /\ Guid[i] = Guid[j])
              => Rollup(rs, on, ac, as)[i].online \cap Rollup(rs, on, ac, as)[j].online = {}
<1>1. Rollup(rs, on, ac, as) \in [Inbounds -> [online : SUBSET Users, ended : SUBSET Users]]
  BY DEF Rollup
<1>2. \A i \in Inbounds : Rollup(rs, on, ac, as)[i].online \subseteq as[i]
  BY DEF Rollup
<1> QED  BY <1>1, <1>2

LEMMA RollupInvInit == RollupInit => RollupInv
<1> SUFFICES ASSUME RollupInit PROVE RollupInv
  OBVIOUS
<1> USE DEF RollupInit
<1>1. RollupTypeOK
  <2>1. session \in [Guids -> [Users -> Inbounds \cup {NoTag}]]
    BY Zenon
  <2>2. counts \in [Inbounds -> [online : SUBSET Users, ended : SUBSET Users]]
    OBVIOUS
  <2> QED  BY <2>1, <2>2 DEF RollupTypeOK
<1>2. AssignedOnce /\ OnlineOnce
  BY DEF AssignedOnce, OnlineOnce
<1>3. CountsCurrent
  BY DEF CountsCurrent, Rollup
<1> QED  BY <1>1, <1>2, <1>3 DEF RollupInv

\* The counts are taken again from what a step leaves on the screen.
LEMMA RebuildKeeps ==
  ASSUME Rebuild(rows', online', active', session')
  PROVE  /\ assigned' \in [Inbounds -> SUBSET Users]
         /\ counts' \in [Inbounds -> [online : SUBSET Users, ended : SUBSET Users]]
         /\ seeded' \in BOOLEAN
         /\ AssignedOnce' /\ OnlineOnce' /\ CountsCurrent'
<1>1. /\ assigned' \in [Inbounds -> SUBSET Users]
      /\ AssignedOnce'
  BY AssignsOnce DEF Rebuild, AssignedOnce
<1>2. /\ counts' \in [Inbounds -> [online : SUBSET Users, ended : SUBSET Users]]
      /\ OnlineOnce'
  BY <1>1, RollupOnce DEF Rebuild, AssignedOnce, OnlineOnce
<1> QED  BY <1>1, <1>2 DEF Rebuild, CountsCurrent

LEMMA RollupInvStep ==
  ASSUME RollupInv, RollupNext
  PROVE  RollupInv'
<1> USE DEF RollupInv
<1> USE RollupAssumption
<1>1. CASE SeedRows
  <2>1. rows' \in [Inbounds -> Row \cup {Absent}]
    BY <1>1 DEF SeedRows, RollupTypeOK
  <2>2. assigned' \in [Inbounds -> SUBSET Users] /\ AssignedOnce'
    BY <1>1, AssignsOnce DEF SeedRows, AssignedOnce
  <2>3. /\ counts' \in [Inbounds -> [online : SUBSET Users, ended : SUBSET Users]]
        /\ OnlineOnce'
    BY <1>1, RollupOnce DEF SeedRows, AssignedOnce, OnlineOnce
  <2> QED  BY <1>1, <2>1, <2>2, <2>3 DEF SeedRows, RollupTypeOK, CountsCurrent, maps
<1>2. CASE SeedOnline
  <2>1. Rebuild(rows', online', active', session')
    BY <1>2 DEF SeedOnline, Rebuild
  <2>2. rows' = rows /\ active' = active /\ session' = session /\ online' \in [Guids -> SUBSET Users]
    BY <1>2 DEF SeedOnline, RollupTypeOK
  <2> QED  BY <2>1, <2>2, RebuildKeeps DEF RollupTypeOK
<1>3. CASE SeedActive
  <2>1. Rebuild(rows', online', active', session')
    BY <1>3 DEF SeedActive, Rebuild
  <2>2. /\ rows' = rows /\ online' = online /\ session' = session
        /\ active' \in [Guids -> (SUBSET Inbounds) \cup {Absent}]
    BY <1>3 DEF SeedActive, RollupTypeOK
  <2> QED  BY <2>1, <2>2, RebuildKeeps DEF RollupTypeOK
<1>4. CASE SeedSession
  <2>1. Rebuild(rows', online', active', session')
    BY <1>4 DEF SeedSession, Rebuild
  <2>2. /\ rows' = rows /\ online' = online /\ active' = active
        /\ session' \in [Guids -> [Users -> Inbounds \cup {NoTag}]]
    BY <1>4 DEF SeedSession, RollupTypeOK
  <2> QED  BY <2>1, <2>2, RebuildKeeps DEF RollupTypeOK
<1>5. CASE applyTrafficEvent
  <2>1. Rebuild(rows', online', active', session') /\ rows' = rows
    BY <1>5 DEF applyTrafficEvent, Rebuild
  <2>2. /\ online' \in [Guids -> SUBSET Users]
        /\ active' \in [Guids -> (SUBSET Inbounds) \cup {Absent}]
        /\ session' = session
    BY <1>5, SMTT(30) DEF applyTrafficEvent, RollupTypeOK, maps
  <2> QED  BY <2>1, <2>2, RebuildKeeps DEF RollupTypeOK
<1>6. CASE applyClientStatsEvent
  <2>1. Rebuild(rows', online', active', session') /\ UNCHANGED maps
    BY <1>6 DEF applyClientStatsEvent, Rebuild, maps
  <2>2. rows' \in [Inbounds -> Row \cup {Absent}]
    <3>1. PICK i \in Present, e \in Users :
            \E c \in SameSettings(rows[i][e]) :
              rows[i][e] # "none" /\ rows' = [rows EXCEPT ![i][e] = c]
      BY <1>6 DEF applyClientStatsEvent
    <3>2. PICK c \in SameSettings(rows[i][e]) : rows[i][e] # "none" /\ rows' = [rows EXCEPT ![i][e] = c]
      BY <3>1
    <3>3. rows[i] \in Row /\ i \in Inbounds
      BY DEF Present, RollupTypeOK
    <3>4. c \in ClientState
      BY <3>2, <3>3 DEF SameSettings, Row, ClientState
    <3>5. [rows[i] EXCEPT ![e] = c] \in Row
      BY <3>3, <3>4 DEF Row
    <3> QED  BY <3>2, <3>3, <3>5 DEF RollupTypeOK
  <2> QED  BY <2>1, <2>2, RebuildKeeps DEF RollupTypeOK, maps
<1> QED  BY <1>1, <1>2, <1>3, <1>4, <1>5, <1>6 DEF RollupNext

LEMMA RollupInvStutter == RollupInv /\ UNCHANGED rollupVars => RollupInv'
BY DEF RollupInv, rollupVars, RollupTypeOK, AssignedOnce, OnlineOnce, CountsCurrent

-----------------------------------------------------------------------------
(* The list of clients.  A page past the first is one that the pager or    *)
(* the reset left there: while no client changed, it has rows of whatever  *)
(* the controls last seen by the reset let through.                        *)

Count(c) == Cardinality(Matching(QueryOf(c, 1)))

ListTyped ==
  /\ listed \in [DOMAIN listed -> Buckets] /\ DOMAIN listed \subseteq KnownEmails
  /\ listControls \in [filter : SUBSET Buckets, search : SUBSET KnownEmails, typed : SUBSET KnownEmails]
  /\ listSeen \in [filter : SUBSET Buckets, search : SUBSET KnownEmails]
  /\ listPage \in 1..Len(ListEmails)
  /\ listQuery \in [filter : SUBSET Buckets, search : SUBSET KnownEmails, page : 1..Len(ListEmails)]
  /\ listShown.rows \subseteq KnownEmails /\ Cardinality(listShown.rows) <= PageSize
  /\ listSelection \subseteq KnownEmails /\ listBulk.emails \subseteq KnownEmails
  /\ listBulk.kind \in BulkKinds \cup {"none"}
  /\ listAlibi \in BOOLEAN

AnswerCurrent ==
  ~ listAlibi => /\ listShown = AnswerTo(listShown.query)
                 /\ listPage = 1 \/ (listPage - 1) * PageSize < Count(listSeen)

ListInv == ListTyped /\ AnswerCurrent

\* The places of the members of a set of positions are 1, 2, 3, ... each of
\* them once.
LEMMA PlacesCount ==
  ASSUME NEW n \in Nat, NEW keep \in SUBSET (1..n)
  PROVE  /\ IsFiniteSet(keep) /\ Cardinality(keep) \in Nat
         /\ \A i \in keep : Place(keep, i) \in 1..Cardinality(keep)
         /\ \A i, j \in keep : Place(keep, i) = Place(keep, j) => i = j
         /\ \A k \in 1..Cardinality(keep) : \E i \in keep : Place(keep, i) = k
<1> DEFINE N == Cardinality(keep)
           place == [i \in keep |-> Place(keep, i)]
<1>1. IsFiniteSet(keep) /\ N \in Nat
  <2>1. IsFiniteSet(1..n)
    BY FS_Interval
  <2> QED  BY <2>1, FS_Subset, FS_CardinalityType
<1>2. ASSUME NEW i \in keep
      PROVE  IsFiniteSet({j \in keep : j <= i}) /\ Place(keep, i) \in 1..N
  <2>1. {j \in keep : j <= i} \in SUBSET keep
    OBVIOUS
  <2>2. /\ IsFiniteSet({j \in keep : j <= i}) /\ Place(keep, i) <= N /\ Place(keep, i) \in Nat
    BY <1>1, <2>1, FS_Subset, FS_CardinalityType DEF Place
  <2>3. i \in {j \in keep : j <= i}
    OBVIOUS
  <2>4. Place(keep, i) # 0
    BY <2>2, <2>3, FS_EmptySet DEF Place
  <2> QED  BY <2>2, <2>4, <1>1
<1>3. ASSUME NEW i \in keep, NEW j \in keep, i < j
      PROVE  Place(keep, i) # Place(keep, j)
  <2>1. {k \in keep : k <= i} \in SUBSET {k \in keep : k <= j}
    <3>1. \A k \in keep : k \in Int /\ i \in Int /\ j \in Int
      OBVIOUS
    <3>2. \A k \in keep : k <= i => k <= j
      BY <1>3, <3>1
    <3> QED  BY <3>2
  <2>2. {k \in keep : k <= i} # {k \in keep : k <= j}
    <3>1. j \in {k \in keep : k <= j} /\ j \notin {k \in keep : k <= i}
      BY <1>3
    <3> QED  BY <3>1
  <2> QED  BY <1>2, <2>1, <2>2, FS_Subset DEF Place
<1>4. ASSUME NEW i \in keep, NEW j \in keep, Place(keep, i) = Place(keep, j)
      PROVE  i = j
  <2>1. i \in Int /\ j \in Int
    OBVIOUS
  <2> QED  BY <1>3, <1>4, <2>1
<1>5. place \in Injection(keep, 1..N)
  BY <1>2, <1>4 DEF Injection, IsInjective
<1>6. IsFiniteSet(1..N) /\ Cardinality(1..N) = N
  BY <1>1, FS_Interval
<1>7. place \in Surjection(keep, 1..N)
  BY <1>5, <1>6, FS_Injection
<1>8. ASSUME NEW k \in 1..N PROVE \E i \in keep : Place(keep, i) = k
  BY <1>7 DEF Surjection
<1> QED  BY <1>1, <1>2, <1>4, <1>8

LEMMA EmailsListed ==
  /\ Len(ListEmails) \in Nat /\ Len(ListEmails) >= 1 /\ DOMAIN ListEmails = 1..Len(ListEmails)
  /\ \A i \in DOMAIN ListEmails : ListEmails[i] \in KnownEmails
  /\ PageSize \in Nat /\ PageSize >= 1
<1>1. ListEmails \in Seq(ToSet(ListEmails)) /\ ListEmails # << >> /\ PageSize \in Nat \ {0}
  BY ClientsListAssumption
<1> QED  BY <1>1 DEF KnownEmails, ToSet

\* An answer: known clients, no more than a page of them, and some if its page
\* begins before the end of what matches.
LEMMA AnswerShape ==
  ASSUME NEW q, q.page \in Nat, q.page >= 1
  PROVE  /\ AnswerTo(q).query = q
         /\ AnswerTo(q).filtered = Cardinality(Matching(q)) /\ Cardinality(Matching(q)) \in Nat
         /\ AnswerTo(q).rows \subseteq KnownEmails
         /\ Cardinality(AnswerTo(q).rows) <= PageSize
         /\ (q.page - 1) * PageSize < Cardinality(Matching(q)) => AnswerTo(q).rows # {}
<1> DEFINE m == Matching(q)
           first == (q.page - 1) * PageSize + 1
           last == first + PageSize - 1
           slice == {j \in m : Place(m, j) \in first..last}
           mails == {ListEmails[i] : i \in slice}
<1>1. m \in SUBSET (1..Len(ListEmails)) /\ m \subseteq DOMAIN ListEmails
  BY EmailsListed DEF Matching
<1>2. first \in Nat /\ first >= 1 /\ last \in Nat /\ last = first + PageSize - 1
  <2>1. (q.page - 1) * PageSize \in Nat
    BY EmailsListed
  <2> QED  BY <2>1, EmailsListed
<1>3. AnswerTo(q) = [query |-> q, filtered |-> Cardinality(m), rows |-> mails]
  BY DEF AnswerTo
<1>4. /\ IsFiniteSet(m) /\ Cardinality(m) \in Nat
      /\ \A i, j \in m : Place(m, i) = Place(m, j) => i = j
      /\ \A k \in 1..Cardinality(m) : \E i \in m : Place(m, i) = k
  BY <1>1, EmailsListed, PlacesCount
<1>5. mails \subseteq KnownEmails
  BY <1>1, EmailsListed
<1> HIDE DEF first, last, m
<1>6. Cardinality(mails) <= PageSize
  <2> DEFINE place == [i \in slice |-> Place(m, i)]
             email == [i \in slice |-> ListEmails[i]]
  <2>1. IsFiniteSet(first..last) /\ Cardinality(first..last) = PageSize
    <3>1. first \in Int /\ last \in Int /\ ~ first > last /\ last - first + 1 = PageSize
      BY <1>2, EmailsListed
    <3> QED  BY <3>1, FS_Interval
  <2>2. place \in Injection(slice, first..last)
    BY <1>4 DEF Injection, IsInjective
  <2>3. IsFiniteSet(slice) /\ Cardinality(slice) <= PageSize
    BY <2>1, <2>2, FS_Injection
  <2>4. email \in Surjection(slice, mails)
    BY DEF Surjection
  <2>5. IsFiniteSet(mails) /\ Cardinality(mails) <= Cardinality(slice)
    BY <2>3, <2>4, FS_Surjection
  <2>6. Cardinality(mails) \in Nat /\ Cardinality(slice) \in Nat
    BY <2>3, <2>5, FS_CardinalityType
  <2> QED  BY <2>3, <2>5, <2>6, EmailsListed
<1>7. ASSUME (q.page - 1) * PageSize < Cardinality(m) PROVE mails # {}
  <2>1. first <= Cardinality(m)
    <3>1. (q.page - 1) * PageSize \in Nat
      BY EmailsListed
    <3> QED  BY <3>1, <1>4, <1>7 DEF first
  <2>2. PICK i \in m : Place(m, i) = first
    BY <2>1, <1>2, <1>4
  <2>3. i \in slice
    BY <2>2, <1>2, EmailsListed
  <2> QED  BY <2>3
<1> QED  BY <1>3, <1>4, <1>5, <1>6, <1>7 DEF m

\* How many match depends on the filter and the search alone.
LEMMA CountOfQuery ==
  ASSUME NEW c, NEW p, NEW k
  PROVE  /\ Matching(QueryOf(c, p)) = Matching(QueryOf(c, k))
         /\ QueryOf(c, p).page = p
BY DEF Matching, QueryOf

LEMMA ListInvInit == ClientsListInit => ListInv
<1> SUFFICES ASSUME ClientsListInit PROVE ListInv
  OBVIOUS
<1> USE ClientsListAssumption DEF ClientsListInit
<1>1. FirstListed \subseteq KnownEmails /\ 1 \in 1..Len(ListEmails)
  BY EmailsListed DEF KnownEmails
<1>2. listSeen \in [filter : SUBSET Buckets, search : SUBSET KnownEmails]
  BY DEF Controls, AnyBucket, EverySearch
<1>3. /\ listQuery \in [filter : SUBSET Buckets, search : SUBSET KnownEmails, page : 1..Len(ListEmails)]
      /\ listQuery.page = 1
  BY <1>1, <1>2 DEF QueryOf
<1>4. /\ listShown.rows \subseteq KnownEmails /\ Cardinality(listShown.rows) <= PageSize
      /\ listShown.query = listQuery
  BY <1>3, AnswerShape
<1>5. listed \in [DOMAIN listed -> Buckets] /\ DOMAIN listed \subseteq KnownEmails
  BY <1>1
<1>6. listControls \in [filter : SUBSET Buckets, search : SUBSET KnownEmails, typed : SUBSET KnownEmails]
  BY DEF AnyBucket, EverySearch
<1>7. listBulk.emails \subseteq KnownEmails /\ listBulk.kind = "none"
  OBVIOUS
<1>8. ListTyped
  BY <1>1, <1>2, <1>3, <1>4, <1>5, <1>6, <1>7 DEF ListTyped
<1> QED  BY <1>4, <1>8 DEF ListInv, AnswerCurrent

\* Nothing about the answer changes when only the selection, the bulk dialog or
\* the controls do.
LEMMA ListAnswerStays ==
  ASSUME ListInv, UNCHANGED <<listed, listPage, listSeen, listShown, listAlibi>>
  PROVE  AnswerCurrent'
BY DEF ListInv, AnswerCurrent, AnswerTo, Matching, Count

\* Clients taken away, or put into another bucket.
LEMMA ListedWithout ==
  ASSUME ListInv, NEW S
  PROVE  /\ Without(S) \in [DOMAIN Without(S) -> Buckets] /\ DOMAIN Without(S) \subseteq KnownEmails
BY DEF ListInv, ListTyped, Without

LEMMA ListInvStep ==
  ASSUME ListInv, ClientsListNext
  PROVE  ListInv'
<1>0. ListTyped /\ AnswerCurrent
  BY DEF ListInv
<1>1. ASSUME PickFilter \/ clearOneFilter \/ TypeSearch \/ SearchSettles PROVE ListInv'
  <2>1. listControls' \in [filter : SUBSET Buckets, search : SUBSET KnownEmails, typed : SUBSET KnownEmails]
    BY <1>0, <1>1, ClientsListAssumption
       DEF PickFilter, clearOneFilter, TypeSearch, SearchSettles, ListTyped, AnyBucket, EverySearch
  <2>2. UNCHANGED <<listed, listPage, listSeen, listQuery, listShown, listSelection, listBulk, listAlibi>>
    BY <1>1 DEF PickFilter, clearOneFilter, TypeSearch, SearchSettles
  <2>3. AnswerCurrent'
    BY <2>2, ListAnswerStays
  <2> QED  BY <1>0, <2>1, <2>2, <2>3 DEF ListInv, ListTyped
<1>2. CASE onTableChange
  <2>1. PICK p \in 1..Len(ListEmails) :
          /\ ListSettled /\ (p - 1) * PageSize < listShown.filtered
          /\ listPage' = p
          /\ UNCHANGED <<listed, listControls, listSeen, listQuery, listShown, listSelection,
                         listBulk, listAlibi>>
    BY <1>2 DEF onTableChange
  <2>2. ASSUME ~ listAlibi PROVE listShown.filtered = Count(listSeen)
    <3>1. listShown = AnswerTo(listShown.query) /\ listShown.query = QueryOf(listSeen, listPage)
      BY <2>1, <2>2, <1>0 DEF AnswerCurrent, ListSettled
    <3>2. listShown.query.page \in Nat /\ listShown.query.page >= 1
      BY <3>1, <1>0, EmailsListed DEF QueryOf, ListTyped
    <3>3. listShown.filtered = Cardinality(Matching(listShown.query))
      BY <3>1, <3>2, AnswerShape
    <3> QED  BY <3>1, <3>3, CountOfQuery DEF Count
  <2>3. AnswerCurrent'
    BY <2>1, <2>2, <1>0 DEF AnswerCurrent, AnswerTo, Matching, Count
  <2> QED  BY <1>0, <2>1, <2>3 DEF ListInv, ListTyped
<1>3. CASE Effects
  <2>1. /\ listSeen' = Applied /\ listQuery' = QueryOf(Applied, listPage)
        /\ listPage' = IF listSeen # Applied THEN 1 ELSE listPage
        /\ UNCHANGED <<listed, listControls, listShown, listSelection, listBulk, listAlibi>>
    BY <1>3 DEF Effects
  <2>2. Applied \in [filter : SUBSET Buckets, search : SUBSET KnownEmails]
    BY <1>0 DEF Applied, Controls, ListTyped
  <2>3. listQuery' \in [filter : SUBSET Buckets, search : SUBSET KnownEmails, page : 1..Len(ListEmails)]
    BY <2>1, <2>2, <1>0 DEF QueryOf, ListTyped
  <2>4. listPage' \in 1..Len(ListEmails)
    BY <2>1, <1>0, EmailsListed DEF ListTyped
  <2>5. AnswerCurrent'
    BY <2>1, <1>0 DEF AnswerCurrent, AnswerTo, Matching, Count
  <2> QED  BY <1>0, <2>1, <2>2, <2>3, <2>4, <2>5 DEF ListInv, ListTyped
<1>4. CASE ListAnswers
  <2>1. /\ listShown' = AnswerTo(listQuery)
        /\ listAlibi' = (listAlibi /\ ~ (listPage = 1 /\ listQuery.page = 1))
        /\ UNCHANGED <<listed, listControls, listPage, listSeen, listQuery, listSelection, listBulk>>
    BY <1>4 DEF ListAnswers
  <2>2. listQuery.page \in Nat /\ listQuery.page >= 1
    BY <1>0, EmailsListed DEF ListTyped
  <2>3. /\ listShown'.query = listQuery
        /\ listShown'.rows \subseteq KnownEmails /\ Cardinality(listShown'.rows) <= PageSize
    BY <2>1, <2>2, AnswerShape
  <2>5. AnswerCurrent'
    <3>1. (AnswerTo(listShown.query))' = AnswerTo(listQuery)
      BY <2>1, <2>3 DEF AnswerTo, Matching
    <3>2. (Count(listSeen))' = Count(listSeen)
      BY <2>1 DEF Count, Matching
    <3> QED  BY <3>1, <3>2, <2>1, <1>0 DEF AnswerCurrent
  <2>6. listAlibi' \in BOOLEAN
    BY <2>1
  <2> QED  BY <1>0, <2>1, <2>3, <2>5, <2>6 DEF ListInv, ListTyped
<1>5. ASSUME rowSelection \/ toggleSelect \/ selectAll \/ AskBulk \/ CancelBulk PROVE ListInv'
  <2>1. UNCHANGED <<listed, listControls, listPage, listSeen, listQuery, listShown, listAlibi>>
    BY <1>5 DEF rowSelection, toggleSelect, selectAll, Ticks, AskBulk, CancelBulk
  <2>2. listSelection' \subseteq KnownEmails /\ listBulk'.emails \subseteq KnownEmails
        /\ listBulk'.kind \in BulkKinds \cup {"none"}
    <3>1. CASE rowSelection
      BY <3>1, <1>0 DEF rowSelection, Ticks, OnScreen, Flip, ListTyped
    <3>2. CASE toggleSelect
      BY <3>2, <1>0 DEF toggleSelect, Ticks, OnScreen, Flip, ListTyped
    <3>3. CASE selectAll
      BY <3>3, <1>0 DEF selectAll, Ticks, OnScreen, ListTyped
    <3>4. CASE AskBulk
      BY <3>4, <1>0 DEF AskBulk, ListTyped
    <3>5. CASE CancelBulk
      BY <3>5, <1>0 DEF CancelBulk, ListTyped
    <3> QED  BY <3>1, <3>2, <3>3, <3>4, <3>5, <1>5
  <2>3. AnswerCurrent'
    BY <2>1, ListAnswerStays
  <2> QED  BY <1>0, <2>1, <2>2, <2>3 DEF ListInv, ListTyped
<1>6. ASSUME NEW ok \in BOOLEAN, BulkAnswers(ok) PROVE ListInv'
  <2> DEFINE off == [e \in DOMAIN listed |-> IF e \in listBulk.emails THEN "depleted" ELSE listed[e]]
  <2>1. /\ listed' = listed \/ listed' = Without(listBulk.emails) \/ listed' = off
        /\ listSelection' = listSelection \/ listSelection' = {}
        /\ listBulk'.emails = {} /\ listBulk'.kind = "none"
        /\ listAlibi' = (listAlibi \/ listed' # listed)
        /\ UNCHANGED <<listControls, listPage, listSeen, listQuery, listShown>>
    BY <1>0, <1>6 DEF BulkAnswers, ListTyped, BulkKinds
  <2>2. off \in [DOMAIN off -> Buckets] /\ DOMAIN off \subseteq KnownEmails
    BY <1>0 DEF ListTyped, Buckets
  <2>3. listed' \in [DOMAIN listed' -> Buckets] /\ DOMAIN listed' \subseteq KnownEmails
    BY <2>1, <2>2, <1>0, ListedWithout DEF ListTyped
  <2>4. AnswerCurrent'
    <3>1. CASE listed' = listed
      <4>1. listAlibi' = listAlibi
        BY <3>1, <2>1, <1>0 DEF ListTyped
      <4> QED  BY <3>1, <4>1, <2>1, ListAnswerStays
    <3>2. CASE listed' # listed
      BY <3>2, <2>1 DEF AnswerCurrent
    <3> QED  BY <3>1, <3>2
  <2>5. listAlibi' \in BOOLEAN
    BY <2>1
  <2> QED  BY <1>0, <2>1, <2>3, <2>4, <2>5 DEF ListInv, ListTyped
<1>7. ASSUME onDelete \/ onDelDepleted \/ onDeleteOrphans \/ onResetAllTraffics \/ ClientsChange
      PROVE  ListInv'
  <2>1. listed' \in [DOMAIN listed' -> Buckets] /\ DOMAIN listed' \subseteq KnownEmails
    <3>1. CASE \E S : listed' = Without(S)
      BY <3>1, ListedWithout
    <3>2. CASE onResetAllTraffics
      BY <3>2, <1>0 DEF onResetAllTraffics, MenuAnswers, ListTyped, Buckets
    <3>3. CASE ClientsChange
      BY <3>3, <1>0 DEF ClientsChange, ListTyped
    <3> QED
      BY <3>1, <3>2, <3>3, <1>7 DEF onDelete, onDelDepleted, onDeleteOrphans, MenuAnswers
  <2>2. /\ listAlibi'
        /\ UNCHANGED <<listControls, listPage, listSeen, listQuery, listShown, listSelection, listBulk>>
    BY <1>7 DEF onDelete, onDelDepleted, onDeleteOrphans, onResetAllTraffics, MenuAnswers, ClientsChange
  <2>3. listAlibi' \in BOOLEAN
    BY <1>7 DEF onDelete, onDelDepleted, onDeleteOrphans, onResetAllTraffics, MenuAnswers, ClientsChange
  <2> QED  BY <1>0, <2>1, <2>2, <2>3 DEF ListInv, ListTyped, AnswerCurrent
<1> QED  BY <1>1, <1>2, <1>3, <1>4, <1>5, <1>6, <1>7 DEF ClientsListNext

LEMMA ListInvStutter == ListInv /\ UNCHANGED listVars => ListInv'
<1> SUFFICES ASSUME ListInv, UNCHANGED listVars PROVE ListInv'
  OBVIOUS
<1>1. AnswerCurrent'
  BY ListAnswerStays DEF listVars
<1> QED  BY <1>1 DEF ListInv, ListTyped, listVars

LEMMA ListTruth == ListInv => ClientsListTypeOK /\ EmptyMeansNone
<1> SUFFICES ASSUME ListInv PROVE ClientsListTypeOK /\ EmptyMeansNone
  OBVIOUS
<1>1. ClientsListTypeOK
  BY DEF ListInv, ListTyped, ClientsListTypeOK
<1>2. EmptyMeansNone
  <2> SUFFICES ASSUME ListSettled, ~ listAlibi, listShown.filtered # 0 PROVE listShown.rows # {}
    BY DEF EmptyMeansNone
  <2> DEFINE q == QueryOf(listSeen, listPage)
  <2>1. listShown = AnswerTo(q) /\ (listPage = 1 \/ (listPage - 1) * PageSize < Count(listSeen))
    BY DEF ListInv, AnswerCurrent, ListSettled
  <2>2. q.page = listPage /\ listPage \in Nat /\ listPage >= 1
    BY EmailsListed DEF ListInv, ListTyped, QueryOf
  <2>3. Cardinality(Matching(q)) = Count(listSeen)
    BY CountOfQuery DEF Count
  <2>4. listShown.filtered = Cardinality(Matching(q)) /\ Cardinality(Matching(q)) \in Nat
    BY <2>1, <2>2, AnswerShape
  <2>5. (q.page - 1) * PageSize < Cardinality(Matching(q))
    <3>1. CASE listPage = 1
      <4>1. (listPage - 1) * PageSize = 0
        BY <3>1, EmailsListed
      <4> QED  BY <4>1, <2>2, <2>4
    <3>2. CASE listPage # 1
      BY <3>2, <2>1, <2>2, <2>3
    <3> QED  BY <3>1, <3>2
  <2> QED  BY <2>1, <2>2, <2>5, AnswerShape
<1> QED  BY <1>1, <1>2

-----------------------------------------------------------------------------
(* The dialogs that show a client.  A dialog awaits links for the client   *)
(* that it shows only, and a closed one awaits and holds none.             *)

AwaitsItsOwn ==
  \A d \in Dialogs :
    /\ clientView[d].ask # Nobody => clientView[d].open /\ clientView[d].ask = clientView[d].client
    /\ ~ clientView[d].open => clientView[d].links = Nobody
    /\ clientView[d].open => clientView[d].client \in Viewed

LateWhenShut == (~ clientView["info"].open /\ viewIps # Nobody) => viewAlibi.late

ViewsInv ==
  /\ ClientViewsTypeOK
  /\ viewAlibi \in [swapped : BOOLEAN, late : BOOLEAN]
  /\ AwaitsItsOwn /\ LateWhenShut /\ ViewsShowTheirClient

LEMMA ViewsInvInit == ClientViewsInit => ViewsInv
<1> SUFFICES ASSUME ClientViewsInit PROVE ViewsInv
  OBVIOUS
<1>1. /\ clientView \in [Dialogs -> [open: BOOLEAN, client: Viewed \cup {Nobody},
                           links: WithSub \cup {Nobody}, ask: WithSub \cup {Nobody}]]
      /\ \A d \in Dialogs : ~ clientView[d].open /\ clientView[d].links = Nobody /\ clientView[d].ask = Nobody
  BY DEF ClientViewsInit
<1> QED  BY <1>1 DEF ClientViewsInit, ViewsInv, ClientViewsTypeOK, AwaitsItsOwn, LateWhenShut,
                     ViewsShowTheirClient, Dialogs

LEMMA ViewsInvStep ==
  ASSUME ViewsInv, ClientViewsNext
  PROVE  ViewsInv'
<1> USE ClientViewsAssumption DEF ViewsInv, ClientViewsTypeOK
<1> DEFINE ShownIn == [open: BOOLEAN, client: Viewed \cup {Nobody},
                    links: WithSub \cup {Nobody}, ask: WithSub \cup {Nobody}]
<1>0. "info" \in Dialogs /\ "qr" \in Dialogs /\ \A d \in Dialogs : clientView[d] \in ShownIn
  BY DEF Dialogs
<1>1. ASSUME NEW d \in Dialogs, NEW c \in Viewed, onShow(d, c) PROVE ViewsInv'
  BY <1>1 DEF onShow, AwaitsItsOwn, LateWhenShut, ViewsShowTheirClient
<1>2. ASSUME NEW d \in Dialogs, NEW c \in Viewed, Shows(d, c) PROVE ViewsInv'
  <2> DEFINE now == clientView[d]
             rerun == ~ now.open \/ now.client # c
             ask == IF ~ rerun THEN now.ask ELSE IF c \in WithSub THEN c ELSE Nobody
             linksNow == IF rerun /\ c \notin WithSub /\ d = "qr" THEN Nobody ELSE now.links
             next == [open |-> TRUE, client |-> c, ask |-> ask, links |-> linksNow]
  <2>1. /\ viewAsks' \subseteq viewAsks
        /\ clientView' = [clientView EXCEPT ![d] = next]
        /\ viewAlibi' = [viewAlibi EXCEPT
             !.swapped = @ \/ (d = "info" /\ now.open /\ c \notin WithSub),
             !.late = @ \/ (d = "info" /\ now.open /\ viewIps \notin {Nobody, c})]
        /\ UNCHANGED <<viewIps, viewIpAsks>>
    BY <1>2 DEF Shows
  <2>2. ask \in WithSub \cup {Nobody} /\ linksNow \in WithSub \cup {Nobody}
    BY <1>0
  <2>3. ask # Nobody => ask = c
    BY <1>0 DEF AwaitsItsOwn
  <2>4. /\ viewAlibi' \in [swapped : BOOLEAN, late : BOOLEAN]
        /\ viewAlibi.swapped => viewAlibi'.swapped
        /\ viewAlibi.late => viewAlibi'.late
        /\ (d = "info" /\ now.open /\ c \notin WithSub) => viewAlibi'.swapped
        /\ (d = "info" /\ now.open /\ viewIps \notin {Nobody, c}) => viewAlibi'.late
    <3> DEFINE s == d = "info" /\ now.open /\ c \notin WithSub
               l == d = "info" /\ now.open /\ viewIps \notin {Nobody, c}
    <3>1. viewAlibi' = [viewAlibi EXCEPT !.swapped = @ \/ s, !.late = @ \/ l]
      BY <2>1
    <3>2. s \in BOOLEAN /\ l \in BOOLEAN
      OBVIOUS
    <3> HIDE DEF s, l
    <3>3. /\ viewAlibi' \in [swapped : BOOLEAN, late : BOOLEAN]
          /\ viewAlibi.swapped => viewAlibi'.swapped
          /\ viewAlibi.late => viewAlibi'.late
          /\ s => viewAlibi'.swapped
          /\ l => viewAlibi'.late
      BY <3>1, <3>2
    <3> QED  BY <3>3 DEF s, l
  <2>5. (linksNow # Nobody /\ ask = Nobody /\ ~ (d = "info" /\ viewAlibi'.swapped)) => linksNow = c
    BY <1>0, <2>4 DEF AwaitsItsOwn, ViewsShowTheirClient, Dialogs
  <2>6. (d = "info" /\ viewIps # Nobody /\ ~ viewAlibi'.late) => viewIps = c
    BY <1>0, <2>4 DEF LateWhenShut, ViewsShowTheirClient
  <2> HIDE DEF ask, linksNow, now, rerun
  <2>7. next \in ShownIn /\ clientView' \in [Dialogs -> ShownIn] /\ clientView'[d] = next
        /\ \A x \in Dialogs : x # d => clientView'[x] = clientView[x]
    BY <2>1, <2>2
  <2>8. next.open /\ next.client = c /\ next.ask = ask /\ next.links = linksNow
    OBVIOUS
  <2> HIDE DEF next
  <2>9. AwaitsItsOwn' /\ LateWhenShut'
    BY <2>1, <2>3, <2>4, <2>7, <2>8 DEF AwaitsItsOwn, LateWhenShut
  <2>10. ViewsShowTheirClient'
    BY <2>1, <2>4, <2>5, <2>6, <2>7, <2>8 DEF ViewsShowTheirClient
  <2> QED  BY <2>1, <2>4, <2>7, <2>9, <2>10
<1>3. ASSUME NEW d \in Dialogs, NEW ok \in BOOLEAN, LinksAnswered(d, ok) PROVE ViewsInv'
  <2> DEFINE got == IF ok THEN clientView[d].ask ELSE Nobody
  <2>1. /\ clientView[d].ask # Nobody
        /\ clientView' = [clientView EXCEPT ![d].links = got, ![d].ask = Nobody]
        /\ UNCHANGED <<viewAsks, viewIps, viewIpAsks, viewAlibi>>
    BY <1>3 DEF LinksAnswered
  <2>2. got \in WithSub \cup {Nobody} /\ (got # Nobody => got = clientView[d].client)
    BY <1>0, <2>1 DEF AwaitsItsOwn
  <2> HIDE DEF got
  <2>3. /\ clientView' \in [Dialogs -> ShownIn]
        /\ clientView'[d].links = got /\ clientView'[d].ask = Nobody
        /\ clientView'[d].client = clientView[d].client /\ clientView'[d].open = clientView[d].open
        /\ \A x \in Dialogs : x # d => clientView'[x] = clientView[x]
    BY <1>0, <2>1, <2>2
  <2>4. clientView[d].open
    BY <2>1 DEF AwaitsItsOwn
  <2>5. AwaitsItsOwn' /\ LateWhenShut'
    BY <2>1, <2>3, <2>4, <1>0 DEF AwaitsItsOwn, LateWhenShut
  <2>6. ViewsShowTheirClient'
    BY <2>1, <2>2, <2>3, <1>0 DEF ViewsShowTheirClient
  <2> QED  BY <2>1, <2>3, <2>5, <2>6
<1>4. ASSUME NEW d \in Dialogs, CloseView(d) PROVE ViewsInv'
  <2>1. /\ clientView' = [clientView EXCEPT ![d].open = FALSE, ![d].links = Nobody, ![d].ask = Nobody]
        /\ viewIps' = IF d = "info" THEN Nobody ELSE viewIps
        /\ viewAlibi' = IF d = "info" THEN [swapped |-> FALSE, late |-> FALSE] ELSE viewAlibi
        /\ UNCHANGED <<viewAsks, viewIpAsks>>
    BY <1>4 DEF CloseView
  <2>2. /\ clientView' \in [Dialogs -> ShownIn]
        /\ ~ clientView'[d].open /\ clientView'[d].links = Nobody /\ clientView'[d].ask = Nobody
        /\ \A x \in Dialogs : x # d => clientView'[x] = clientView[x]
    <3>1. clientView[d] \in ShownIn /\ Nobody \in WithSub \cup {Nobody}
      BY <1>0
    <3> DEFINE v == [clientView[d] EXCEPT !.open = FALSE, !.links = Nobody, !.ask = Nobody]
    <3>2. v \in ShownIn /\ ~ v.open /\ v.links = Nobody /\ v.ask = Nobody
      BY <3>1
    <3>3. clientView' = [clientView EXCEPT ![d] = v]
      BY <1>0, <2>1
    <3> HIDE DEF v
    <3> QED  BY <1>0, <3>2, <3>3
  <2>3. AwaitsItsOwn' /\ LateWhenShut'
    BY <2>1, <2>2, <1>0 DEF AwaitsItsOwn, LateWhenShut
  <2>4. ViewsShowTheirClient'
    BY <2>1, <2>2, <1>0 DEF ViewsShowTheirClient
  <2>5. viewAlibi' \in [swapped : BOOLEAN, late : BOOLEAN] /\ viewIps' \in Viewed \cup {Nobody}
    BY <2>1
  <2> QED  BY <2>1, <2>2, <2>3, <2>4, <2>5
<1>5. CASE loadIps
  BY <1>0, <1>5 DEF loadIps, AwaitsItsOwn, LateWhenShut, ViewsShowTheirClient
<1>6. ASSUME NEW c \in Viewed, NEW ok \in BOOLEAN, IpsAnswered(c, ok) PROVE ViewsInv'
  <2> DEFINE tooLate == ok /\ ~ (clientView["info"].open /\ clientView["info"].client = c)
  <2>1. /\ viewIpAsks' \subseteq viewIpAsks
        /\ viewIps' = IF ok THEN c ELSE Nobody
        /\ viewAlibi' = [viewAlibi EXCEPT !.late = tooLate]
        /\ UNCHANGED <<viewAsks, clientView>>
    BY <1>6 DEF IpsAnswered
  <2>2. tooLate \in BOOLEAN
    OBVIOUS
  <2>3. (viewIps' # Nobody /\ ~ tooLate) => clientView["info"].open /\ viewIps' = clientView["info"].client
    BY <2>1
  <2> HIDE DEF tooLate
  <2>4. viewAlibi' \in [swapped : BOOLEAN, late : BOOLEAN] /\ viewAlibi'.late = tooLate
        /\ viewAlibi'.swapped = viewAlibi.swapped
    BY <2>1, <2>2
  <2>5. AwaitsItsOwn' /\ LateWhenShut' /\ ViewsShowTheirClient'
    BY <2>1, <2>2, <2>3, <2>4 DEF AwaitsItsOwn, LateWhenShut, ViewsShowTheirClient
  <2>6. viewIps' \in Viewed \cup {Nobody}
    BY <2>1
  <2> QED  BY <2>1, <2>4, <2>5, <2>6
<1>7. CASE clearIps
  BY <1>0, <1>7 DEF clearIps, AwaitsItsOwn, LateWhenShut, ViewsShowTheirClient
<1> QED  BY <1>1, <1>2, <1>3, <1>4, <1>5, <1>6, <1>7 DEF ClientViewsNext

LEMMA ViewsInvStutter == ViewsInv /\ UNCHANGED viewVars => ViewsInv'
BY DEF ViewsInv, viewVars, ClientViewsTypeOK, AwaitsItsOwn, LateWhenShut, ViewsShowTheirClient

-----------------------------------------------------------------------------
(* The inbounds page around its dialogs.  A list of clients is used by the *)
(* opening that asked for it and by no later one, and openings are counted *)
(* up, so that what an open picker shows was read for its inbound.         *)

PickerState ==
  [kind : Pickers \cup {"none"}, of : Rows \cup {NoRow}, rows : SUBSET Customers,
   selected : SUBSET Customers, targets : SUBSET Rows, loading : BOOLEAN, read : Rows \cup {NoRow}]

ActionsTyped ==
  /\ picker \in PickerState
  /\ actAlibi \in [openings : Nat, seen : SUBSET Rows]
  /\ pickerAsks \subseteq [opening : Nat, of : Rows]
  /\ hydrates \subseteq [key : Hydrating, of : Rows]
  /\ \A i \in InboundPresent : attached[i] \subseteq Customers
  /\ \A i \in DOMAIN rowsListed : rowsListed[i] \subseteq Customers
  /\ pickerSaving # NoRequest => pickerSaving.emails \subseteq Customers
  /\ confirm.of \subseteq Rows

PickerReadsItsInbound ==
  /\ picker.kind # "none" => picker.of \in Rows
  /\ picker.kind \in {"attach", "detach"} => picker.read = picker.of /\ ~ picker.loading
  /\ (picker.kind = "existing" /\ ~ picker.loading) => picker.read = picker.of
  /\ \A ask \in pickerAsks :
       /\ ask.opening <= actAlibi.openings
       /\ (picker.kind = "existing" /\ ask.opening = actAlibi.openings) => ask.of = picker.of

ActionsInv ==
  /\ InboundActionsTypeOK /\ ActionsTyped /\ PickerReadsItsInbound
  /\ PickedForItsInbound /\ SelectionSeen

LEMMA ActionsInvInit == InboundActionsInit => ActionsInv
<1> SUFFICES ASSUME InboundActionsInit PROVE ActionsInv
  OBVIOUS
<1> USE InboundActionsAssumption DEF InboundActionsInit
<1>1. NoPicker \in PickerState /\ NoPicker.kind = "none" /\ NoPicker.selected \subseteq NoPicker.rows
  BY DEF NoPicker, PickerState
<1>2. ActionsTyped
  BY <1>1 DEF ActionsTyped, InboundPresent, NoConfirm
<1>3. PickerReadsItsInbound
  BY <1>1 DEF PickerReadsItsInbound
<1>4. InboundActionsTypeOK
  BY <1>1 DEF InboundActionsTypeOK, InboundPresent
<1>5. PickedForItsInbound /\ SelectionSeen
  BY DEF PickedForItsInbound, SelectionSeen, NoConfirm
<1> QED  BY <1>2, <1>3, <1>4, <1>5 DEF ActionsInv

\* What a step that leaves the picker, its lists and its request alone has to show.
LEMMA PickerAsideKeeps ==
  ASSUME ActionsInv, UNCHANGED <<picker, pickerAsks, pickerSaving, hydrates>>,
         actAlibi'.openings = actAlibi.openings,
         actAlibi' \in [openings : Nat, seen : SUBSET Rows],
         DOMAIN attached' \subseteq Rows, DOMAIN rowsListed' \subseteq Rows,
         \A i \in DOMAIN attached' : attached'[i] \subseteq Customers,
         \A i \in DOMAIN rowsListed' : rowsListed'[i] \subseteq Customers,
         selectedRows' \subseteq Rows, confirm'.of \subseteq Rows,
         selectedRows' \cup confirm'.of \subseteq actAlibi'.seen
  PROVE  ActionsInv'
<1>1. ActionsTyped'
  BY DEF ActionsInv, ActionsTyped, InboundPresent
<1>2. PickerReadsItsInbound' /\ PickedForItsInbound'
  BY DEF ActionsInv, PickerReadsItsInbound, PickedForItsInbound
<1>3. InboundActionsTypeOK' /\ SelectionSeen'
  BY DEF ActionsInv, InboundActionsTypeOK, SelectionSeen, InboundPresent
<1> QED  BY <1>1, <1>2, <1>3 DEF ActionsInv

\* What a step that leaves the list alone has to show.
LEMMA ListAsideKeeps ==
  ASSUME ActionsInv, UNCHANGED <<attached, rowsListed, selectedRows, confirm>>,
         actAlibi'.seen = actAlibi.seen, actAlibi' \in [openings : Nat, seen : SUBSET Rows],
         picker' \in PickerState, picker'.selected \subseteq picker'.rows,
         pickerAsks' \subseteq [opening : Nat, of : Rows],
         hydrates' \subseteq [key : Hydrating, of : Rows],
         pickerSaving' # NoRequest => pickerSaving'.emails \subseteq Customers,
         PickerReadsItsInbound', PickedForItsInbound'
  PROVE  ActionsInv'
<1>1. ActionsTyped'
  BY DEF ActionsInv, ActionsTyped, InboundPresent
<1>2. InboundActionsTypeOK' /\ SelectionSeen'
  BY DEF ActionsInv, InboundActionsTypeOK, SelectionSeen, InboundPresent, PickerReadsItsInbound
<1> QED  BY <1>1, <1>2 DEF ActionsInv

\* A dialog opens, whatever was open before.
LEMMA OpenKeeps ==
  ASSUME ActionsInv, NEW key \in Hydrating \cup Direct, NEW i \in Rows,
         NEW record \in SUBSET Customers, OpenFor(key, i, record),
         UNCHANGED <<attached, rowsListed, pickerSaving, selectedRows, confirm>>,
         hydrates' \subseteq [key : Hydrating, of : Rows]
  PROVE  ActionsInv'
<1> DEFINE opened == actAlibi.openings + 1
<1>0. /\ picker \in PickerState /\ actAlibi \in [openings : Nat, seen : SUBSET Rows]
      /\ picker.selected \subseteq picker.rows
      /\ pickerAsks \subseteq [opening : Nat, of : Rows]
      /\ opened \in Nat /\ opened > actAlibi.openings
      /\ pickerSaving # NoRequest => pickerSaving.emails \subseteq Customers
  BY DEF ActionsInv, ActionsTyped, InboundActionsTypeOK
<1>1. CASE key \in Pickers
  <2>0. OpenPicker(key, i, record)
    BY <1>1 DEF OpenFor
  <2>1. /\ actAlibi' \in [openings : Nat, seen : SUBSET Rows]
        /\ actAlibi'.seen = actAlibi.seen /\ actAlibi'.openings = opened
    BY <2>0, <1>0 DEF OpenPicker
  <2> HIDE DEF opened
  <2>2. CASE key = "existing"
    <3>1. /\ picker' = [kind |-> "existing", of |-> i, targets |-> {}, rows |-> picker.rows,
                        selected |-> picker.selected, loading |-> TRUE, read |-> picker.read]
          /\ pickerAsks' = pickerAsks \cup {[opening |-> opened, of |-> i]}
      BY <2>0, <2>2 DEF OpenPicker, opened
    <3>2. /\ picker' \in PickerState /\ picker'.selected \subseteq picker'.rows
          /\ pickerAsks' \subseteq [opening : Nat, of : Rows]
      BY <3>1, <1>0 DEF PickerState, Pickers
    <3>3. PickerReadsItsInbound'
      BY <3>1, <2>1, <1>0 DEF PickerReadsItsInbound, ActionsInv
    <3>4. PickedForItsInbound'
      BY DEF PickedForItsInbound, ActionsInv
    <3> QED  BY <3>2, <3>3, <3>4, <2>1, <1>0, ListAsideKeeps
  <2>3. CASE key # "existing"
    <3>0. key \in {"attach", "detach"}
      BY <1>1, <2>3 DEF Pickers
    <3> DEFINE marked == IF key = "attach" THEN record ELSE {}
    <3>1. /\ picker' = [kind |-> key, of |-> i, targets |-> {}, rows |-> record,
                        selected |-> marked, loading |-> FALSE, read |-> i]
          /\ pickerAsks' = pickerAsks
      BY <2>0, <3>0 DEF OpenPicker
    <3>a. marked \subseteq record
      OBVIOUS
    <3> HIDE DEF marked
    <3>2. picker' \in PickerState /\ picker'.selected \subseteq picker'.rows
      BY <3>1, <3>0, <3>a DEF PickerState, Pickers
    <3>3. PickerReadsItsInbound'
      BY <3>1, <3>0, <2>1, <1>0 DEF PickerReadsItsInbound, ActionsInv
    <3>4. PickedForItsInbound'
      BY DEF PickedForItsInbound, ActionsInv
    <3> QED  BY <3>1, <3>2, <3>3, <3>4, <2>1, <1>0, ListAsideKeeps
  <2> QED  BY <2>2, <2>3
<1>2. CASE key \notin Pickers
  <2>1. UNCHANGED <<picker, pickerAsks, actAlibi>>
    BY <1>2 DEF OpenFor
  <2>2. PickerReadsItsInbound' /\ PickedForItsInbound'
    BY <2>1 DEF PickerReadsItsInbound, PickedForItsInbound, ActionsInv
  <2> QED  BY <2>1, <2>2, <1>0, ListAsideKeeps
<1> QED  BY <1>1, <1>2

LEMMA ActionsInvStep ==
  ASSUME ActionsInv, InboundActionsNext
  PROVE  ActionsInv'
<1>0. /\ picker \in PickerState /\ actAlibi \in [openings : Nat, seen : SUBSET Rows]
      /\ picker.selected \subseteq picker.rows
      /\ pickerAsks \subseteq [opening : Nat, of : Rows]
      /\ hydrates \subseteq [key : Hydrating, of : Rows]
      /\ DOMAIN attached \subseteq Rows /\ DOMAIN rowsListed \subseteq Rows
      /\ \A i \in DOMAIN attached : attached[i] \subseteq Customers
      /\ \A i \in DOMAIN rowsListed : rowsListed[i] \subseteq Customers
      /\ pickerSaving # NoRequest => pickerSaving.emails \subseteq Customers
      /\ selectedRows \subseteq Rows /\ confirm.of \subseteq Rows
      /\ selectedRows \subseteq actAlibi.seen /\ confirm.of \subseteq actAlibi.seen
      /\ PickerReadsItsInbound /\ PickedForItsInbound
  BY DEF ActionsInv, ActionsTyped, InboundActionsTypeOK, InboundPresent, SelectionSeen
<1>1. ASSUME NEW i \in Rows, NEW key \in Hydrating \cup Direct, onRowAction(key, i)
      PROVE  ActionsInv'
  <2>1. CASE key \in Hydrating
    <3>1. /\ hydrates' \subseteq [key : Hydrating, of : Rows]
          /\ UNCHANGED <<picker, pickerAsks, actAlibi, attached, rowsListed, pickerSaving,
                         selectedRows, confirm>>
      BY <1>1, <2>1, <1>0 DEF onRowAction
    <3>2. PickerReadsItsInbound' /\ PickedForItsInbound'
      BY <3>1, <1>0 DEF PickerReadsItsInbound, PickedForItsInbound
    <3> QED  BY <3>1, <3>2, <1>0, ListAsideKeeps
  <2>2. CASE key \notin Hydrating
    <3>1. /\ OpenFor(key, i, rowsListed[i]) /\ i \in DOMAIN rowsListed
          /\ UNCHANGED <<attached, rowsListed, pickerSaving, selectedRows, confirm, hydrates>>
      BY <1>1, <2>2 DEF onRowAction, Visible
    <3> QED  BY <3>1, <1>0, OpenKeeps
  <2> QED  BY <2>1, <2>2
<1>2. ASSUME NEW h \in hydrates, InboundHydrated(h)
      PROVE  ActionsInv'
  <2>1. h.key \in Hydrating /\ h.of \in Rows
    BY <1>0
  <2>2. /\ hydrates' \subseteq [key : Hydrating, of : Rows]
        /\ UNCHANGED <<attached, rowsListed, pickerSaving, selectedRows, confirm>>
    BY <1>2, <1>0 DEF InboundHydrated
  <2>3. CASE h.of \in InboundPresent /\ OpenFor(h.key, h.of, attached[h.of])
    BY <2>1, <2>2, <2>3, <1>0, OpenKeeps DEF InboundPresent
  <2>4. CASE h.of \in DOMAIN rowsListed /\ OpenFor(h.key, h.of, rowsListed[h.of])
    BY <2>1, <2>2, <2>4, <1>0, OpenKeeps
  <2>5. CASE OpenFor(h.key, h.of, {})
    BY <2>1, <2>2, <2>5, OpenKeeps
  <2> QED  BY <2>3, <2>4, <2>5, <1>2 DEF InboundHydrated
<1>3. ASSUME \/ \E d \in DOMAIN shown : CloseDialog(d)
             \/ \E i \in Rows : InfoIpsArrive(i)
             \/ clearClientIps
             \/ \E n \in {AllNodes} \cup {NodeOf[i] : i \in Rows} : FilterNodes(n)
             \/ Dismissed
      PROVE  ActionsInv'
  <2>1. /\ UNCHANGED <<picker, pickerAsks, pickerSaving, hydrates, actAlibi, attached, rowsListed,
                       selectedRows>>
        /\ confirm'.of = confirm.of \/ confirm'.of = {}
    BY <1>3 DEF CloseDialog, InfoIpsArrive, clearClientIps, FilterNodes, Dismissed, listRest, NoConfirm
  <2> QED  BY <2>1, <1>0, PickerAsideKeeps
<1>4. ASSUME NEW ask \in pickerAsks, PickListAnswers(ask)
      PROVE  ActionsInv'
  <2>1. /\ pickerAsks' = pickerAsks \ {ask}
        /\ UNCHANGED <<attached, rowsListed, hydrates, selectedRows, confirm, pickerSaving, actAlibi>>
    BY <1>4 DEF PickListAnswers, pickerRest
  <2>2. PickedForItsInbound'
    BY <2>1, <1>0 DEF PickedForItsInbound
  <2>3. CASE picker.kind = "existing" /\ ask.opening = actAlibi.openings
    <3>1. PICK free \in {IF ask.of \in InboundPresent THEN Customers \ attached[ask.of] ELSE Customers, {}} :
            picker' = [picker EXCEPT !.rows = free, !.selected = free, !.loading = FALSE,
                                     !.read = ask.of]
      BY <1>4, <2>3 DEF PickListAnswers
    <3>2. free \in SUBSET Customers /\ ask.of \in Rows /\ ask.of = picker.of
      BY <1>0, <2>3 DEF PickerReadsItsInbound
    <3>3. /\ picker' \in PickerState /\ picker'.selected \subseteq picker'.rows
          /\ picker'.kind = picker.kind /\ picker'.of = picker.of /\ picker'.read = picker.of
      BY <3>1, <3>2, <1>0 DEF PickerState
    <3>4. PickerReadsItsInbound'
      BY <3>3, <2>1, <2>3, <1>0 DEF PickerReadsItsInbound
    <3> QED  BY <3>3, <3>4, <2>1, <2>2, <1>0, ListAsideKeeps
  <2>4. CASE ~ (picker.kind = "existing" /\ ask.opening = actAlibi.openings)
    <3>1. picker' = picker
      BY <1>4, <2>4 DEF PickListAnswers
    <3>2. PickerReadsItsInbound'
      BY <3>1, <2>1, <1>0 DEF PickerReadsItsInbound
    <3> QED  BY <3>1, <3>2, <2>1, <2>2, <1>0, ListAsideKeeps
  <2> QED  BY <2>3, <2>4
<1>5. ASSUME \/ \E c \in Customers : ToggleCustomer(c)
             \/ \E i \in Rows : PickTarget(i)
             \/ ClosePicker
      PROVE  ActionsInv'
  <2>1. UNCHANGED <<attached, rowsListed, hydrates, selectedRows, confirm, pickerSaving, actAlibi,
                    pickerAsks>>
    BY <1>5 DEF ToggleCustomer, PickTarget, ClosePicker, pickerRest
  <2>2. /\ picker' \in PickerState /\ picker'.selected \subseteq picker'.rows
        /\ picker'.of = picker.of /\ picker'.read = picker.read /\ picker'.loading = picker.loading
        /\ picker'.kind = picker.kind \/ picker'.kind = "none"
    <3>1. CASE \E c \in Customers : ToggleCustomer(c)
      BY <3>1, <1>0 DEF ToggleCustomer, PickerState
    <3>2. CASE \E i \in Rows : PickTarget(i)
      BY <3>2, <1>0 DEF PickTarget, PickerState
    <3>3. CASE ClosePicker
      BY <3>3, <1>0 DEF ClosePicker, PickerState
    <3> QED  BY <3>1, <3>2, <3>3, <1>5
  <2>3. PickerReadsItsInbound' /\ PickedForItsInbound'
    BY <2>1, <2>2, <1>0 DEF PickerReadsItsInbound, PickedForItsInbound
  <2> QED  BY <2>1, <2>2, <2>3, <1>0, ListAsideKeeps
<1>6. CASE SubmitPicker
  <2> DEFINE on == IF picker.kind = "attach" THEN picker.targets ELSE {picker.of}
             kind == IF picker.kind = "detach" THEN "detach" ELSE "attach"
  <2>1. /\ UNCHANGED <<attached, rowsListed, hydrates, selectedRows, confirm, picker, actAlibi,
                       pickerAsks>>
        /\ picker.kind # "none"
        /\ pickerSaving' = [kind |-> kind, by |-> picker.kind, emails |-> picker.selected, on |-> on,
                            blind |-> picker.loading, read |-> picker.read]
    BY <1>6 DEF SubmitPicker, pickerRest
  <2>2. picker.kind # "attach" => on = {picker.of}
    OBVIOUS
  <2> HIDE DEF on, kind
  <2>3. picker.kind \in Pickers /\ picker.selected \subseteq Customers
    BY <2>1, <1>0 DEF PickerState
  <2>4. PickedForItsInbound'
    BY <2>1, <2>2, <2>3, <1>0 DEF PickedForItsInbound, PickerReadsItsInbound, Pickers
  <2>5. PickerReadsItsInbound' /\ (pickerSaving' # NoRequest => pickerSaving'.emails \subseteq Customers)
    BY <2>1, <2>3, <1>0 DEF PickerReadsItsInbound
  <2> QED  BY <2>1, <2>4, <2>5, <1>0, ListAsideKeeps
<1>7. ASSUME NEW ok \in BOOLEAN, PickerAnswered(ok)
      PROVE  ActionsInv'
  <2>1. /\ UNCHANGED <<hydrates, pickerAsks, selectedRows, confirm, actAlibi>>
        /\ pickerSaving' = NoRequest
    BY <1>7 DEF PickerAnswered
  <2>2. /\ DOMAIN attached' \subseteq Rows /\ DOMAIN rowsListed' \subseteq Rows
        /\ \A i \in DOMAIN attached' : attached'[i] \subseteq Customers
        /\ \A i \in DOMAIN rowsListed' : rowsListed'[i] \subseteq Customers
    BY <1>7, <1>0 DEF PickerAnswered, InboundPresent
  <2>3. /\ picker' \in PickerState /\ picker'.selected \subseteq picker'.rows
        /\ picker'.of = picker.of /\ picker'.read = picker.read /\ picker'.loading = picker.loading
        /\ picker'.kind = picker.kind \/ picker'.kind = "none"
    BY <1>7, <1>0 DEF PickerAnswered, PickerState
  <2>4. ActionsTyped'
    BY <2>1, <2>2, <2>3, <1>0 DEF ActionsTyped, InboundPresent
  <2>5. PickerReadsItsInbound' /\ PickedForItsInbound'
    BY <2>1, <2>3, <1>0 DEF PickerReadsItsInbound, PickedForItsInbound
  <2>6. InboundActionsTypeOK' /\ SelectionSeen'
    BY <2>1, <2>2, <2>3, <2>5, <1>0
       DEF InboundActionsTypeOK, SelectionSeen, InboundPresent, PickerReadsItsInbound
  <2> QED  BY <2>4, <2>5, <2>6 DEF ActionsInv
<1>8. ASSUME \/ \E i \in Rows : toggleSelectInbound(i) \/ confirmDelete(i)
             \/ selectAllInbounds
             \/ confirmBulkDelete
      PROVE  ActionsInv'
  <2>0. Visible \subseteq Rows
    BY <1>0 DEF Visible
  <2>1. UNCHANGED <<picker, pickerAsks, pickerSaving, hydrates, attached, rowsListed>>
    BY <1>8 DEF toggleSelectInbound, confirmDelete, selectAllInbounds, confirmBulkDelete, listRest
  <2>2. /\ actAlibi' \in [openings : Nat, seen : SUBSET Rows]
        /\ actAlibi'.openings = actAlibi.openings
        /\ selectedRows' \subseteq actAlibi'.seen
        /\ confirm'.of \subseteq actAlibi'.seen
    <3>1. ASSUME NEW i \in Rows, toggleSelectInbound(i) PROVE <2>2!1 /\ <2>2!2 /\ <2>2!3 /\ <2>2!4
      BY <3>1, <1>0 DEF toggleSelectInbound, Seen
    <3>2. ASSUME NEW i \in Rows, confirmDelete(i) PROVE <2>2!1 /\ <2>2!2 /\ <2>2!3 /\ <2>2!4
      BY <3>2, <1>0 DEF confirmDelete, Seen
    <3>3. CASE selectAllInbounds
      BY <3>3, <2>0, <1>0 DEF selectAllInbounds, Seen
    <3>4. CASE confirmBulkDelete
      BY <3>4, <1>0 DEF confirmBulkDelete
    <3> QED  BY <3>1, <3>2, <3>3, <3>4, <1>8
  <2>3. selectedRows' \subseteq Rows /\ confirm'.of \subseteq Rows
    BY <2>2
  <2> QED  BY <2>1, <2>2, <2>3, <1>0, PickerAsideKeeps
<1>9. ASSUME NEW ok \in BOOLEAN, Confirmed(ok)
      PROVE  ActionsInv'
  <2>1. /\ UNCHANGED <<picker, pickerAsks, pickerSaving, hydrates, actAlibi>>
        /\ confirm' = NoConfirm /\ selectedRows' \subseteq selectedRows
    BY <1>9 DEF Confirmed
  <2>2. /\ DOMAIN attached' \subseteq Rows
        /\ \A i \in DOMAIN attached' : attached'[i] \subseteq Customers
    BY <1>9, <1>0 DEF Confirmed, InboundPresent
  <2>3. rowsListed' = attached' \/ rowsListed' = rowsListed
    BY <1>9 DEF Confirmed
  <2> QED  BY <2>1, <2>2, <2>3, <1>0, PickerAsideKeeps DEF NoConfirm
<1>10. ASSUME \/ \E i \in Rows : DeletedElsewhere(i)
              \/ refresh
       PROVE  ActionsInv'
  <2>1. /\ UNCHANGED <<picker, pickerAsks, pickerSaving, hydrates, actAlibi, confirm, selectedRows>>
    BY <1>10 DEF DeletedElsewhere, refresh, listRest
  <2>2. /\ DOMAIN attached' \subseteq Rows
        /\ \A i \in DOMAIN attached' : attached'[i] \subseteq Customers
    BY <1>10, <1>0 DEF DeletedElsewhere, refresh, InboundPresent, listRest
  <2>3. rowsListed' = attached' \/ rowsListed' = rowsListed
    BY <1>10 DEF DeletedElsewhere, refresh, listRest
  <2> QED  BY <2>1, <2>2, <2>3, <1>0, PickerAsideKeeps
<1> QED
  BY <1>1, <1>2, <1>3, <1>4, <1>5, <1>6, <1>7, <1>8, <1>9, <1>10 DEF InboundActionsNext

LEMMA ActionsInvStutter == ActionsInv /\ UNCHANGED actionVars => ActionsInv'
BY DEF ActionsInv, actionVars, InboundActionsTypeOK, ActionsTyped, PickerReadsItsInbound,
       PickedForItsInbound, SelectionSeen, InboundPresent

-----------------------------------------------------------------------------
(* The groups.  An answer under way that was read after the last change of *)
(* the groups shows them as they are; and while a request is executed but  *)
(* not answered, an answer will still ask for the lists.                   *)

DialogKinds == MemberPickers \cup Fetched

GroupsTyped ==
  /\ dialogs \subseteq DialogKinds
  /\ clickedFor \in [DialogKinds -> GroupNames \cup {NoGroup}]
  /\ groupAlibi \in [hurried : SUBSET DialogKinds, outside : BOOLEAN]
  /\ opens \subseteq [kind : Fetched, group : GroupNames]
  /\ \A p \in posts : "done" \in DOMAIN p

ListsReadCurrent ==
  (~ groupAlibi.outside /\ \A p \in posts : ~ p.done) =>
    /\ listAsk.at = "none" => cached = Serving
    /\ listAsk.at = "read" => listAsk.lists = Serving

\* No members are awaited beside a dialog that opened without.
AimsAlone ==
  /\ DialogsAimRight
  /\ dialogs \ groupAlibi.hurried # {} => opens = {}

GroupsInv == GroupsTyped /\ AimsAlone /\ ListsReadCurrent

LEMMA GroupsInvInit == GroupsInit => GroupsInv
<1> SUFFICES ASSUME GroupsInit PROVE GroupsInv
  OBVIOUS
<1>1. /\ dialogs = {} /\ opens = {} /\ posts = {}
      /\ clickedFor = [d \in DialogKinds |-> NoGroup]
      /\ groupAlibi = [hurried |-> {}, outside |-> FALSE]
      /\ cached = Serving /\ listAsk.at = "none"
  BY DEF GroupsInit, DialogKinds, IdleDialog
<1>2. GroupsTyped
  BY <1>1 DEF GroupsTyped
<1> QED  BY <1>1, <1>2 DEF GroupsInv, AimsAlone, DialogsAimRight, ListsReadCurrent

\* Requests and lists leave the dialogs alone, or close one.
LEMMA AsideOfDialogs ==
  ASSUME GroupsTyped, AimsAlone, dialogs' \subseteq dialogs,
         UNCHANGED <<clickedFor, opens, forAction>>,
         groupAlibi' \in [hurried : SUBSET DialogKinds, outside : BOOLEAN],
         groupAlibi'.hurried = groupAlibi.hurried,
         \A p \in posts' : "done" \in DOMAIN p
  PROVE  GroupsTyped' /\ AimsAlone'
BY DEF GroupsTyped, AimsAlone, DialogsAimRight

\* Dialogs leave the lists alone.
LEMMA AsideOfLists ==
  ASSUME ListsReadCurrent, UNCHANGED <<groupOf, groupsStored, cached, listAsk, posts>>,
         groupAlibi'.outside = groupAlibi.outside
  PROVE  ListsReadCurrent'
BY DEF ListsReadCurrent, Serving

LEMMA OpenPickerKeeps ==
  ASSUME GroupsInv, NEW d \in MemberPickers, NEW g \in GroupNames, openPicker(d, g)
  PROVE  GroupsInv'
<1>1. /\ dialogs = {} /\ dialogs' = {d} /\ forAction' = g
      /\ clickedFor' = [clickedFor EXCEPT ![d] = g]
      /\ groupAlibi' = [groupAlibi EXCEPT !.hurried = Hurried(d, opens)]
      /\ UNCHANGED <<groupOf, groupsStored, cached, listAsk, opens, posts>>
  BY DEF openPicker, ClickGroup
<1>2. GroupsTyped /\ AimsAlone /\ ListsReadCurrent /\ d \in DialogKinds
  BY DEF GroupsInv, DialogKinds
<1>3. clickedFor' \in [DialogKinds -> GroupNames \cup {NoGroup}] /\ clickedFor'[d] = g
  BY <1>1, <1>2 DEF GroupsTyped
<1>4. /\ groupAlibi' \in [hurried : SUBSET DialogKinds, outside : BOOLEAN]
      /\ groupAlibi'.outside = groupAlibi.outside
      /\ groupAlibi'.hurried = Hurried(d, opens)
  <2>1. Hurried(d, opens) \subseteq DialogKinds
    BY <1>2 DEF GroupsTyped, Hurried
  <2> QED  BY <1>1, <1>2, <2>1 DEF GroupsTyped
<1>5. ListsReadCurrent'
  BY <1>1, <1>2, <1>4, AsideOfLists
<1>6. GroupsTyped'
  BY <1>1, <1>2, <1>3, <1>4 DEF GroupsTyped
<1>7. AimsAlone'
  BY <1>1, <1>3, <1>4 DEF AimsAlone, DialogsAimRight, Hurried
<1> QED  BY <1>5, <1>6, <1>7 DEF GroupsInv

LEMMA MembersArriveKeeps ==
  ASSUME GroupsInv, NEW o \in opens, MembersArrive(o)
  PROVE  GroupsInv'
<1> DEFINE found == membersOf(groupOf, o.group)
<1>1. /\ UNCHANGED <<groupOf, groupsStored, cached, listAsk, posts>>
      /\ opens' = opens \ {o}
      /\ \/ UNCHANGED <<forAction, dialogs, clickedFor, groupAlibi>>
         \/ OpenedWith(o, found)
  BY DEF MembersArrive, OpenedWith
<1>2. GroupsTyped /\ AimsAlone /\ ListsReadCurrent /\ o.kind \in DialogKinds /\ o.group \in GroupNames
  BY DEF GroupsInv, DialogKinds, GroupsTyped
<1>3. CASE UNCHANGED <<forAction, dialogs, clickedFor, groupAlibi>>
  BY <1>1, <1>2, <1>3, AsideOfLists DEF GroupsInv, GroupsTyped, AimsAlone, DialogsAimRight
<1>4. CASE OpenedWith(o, found)
  <2> DEFINE strayed == Hurried(o.kind, opens')
  <2>1. /\ forAction' = o.group /\ dialogs' = dialogs \cup {o.kind}
        /\ clickedFor' = [clickedFor EXCEPT ![o.kind] = o.group]
        /\ groupAlibi' = [groupAlibi EXCEPT !.hurried = strayed]
    BY <1>4 DEF OpenedWith
  <2>2. strayed \subseteq DialogKinds
    BY <1>2 DEF GroupsTyped, Hurried
  <2>3. /\ clickedFor' \in [DialogKinds -> GroupNames \cup {NoGroup}]
        /\ clickedFor'[o.kind] = o.group
        /\ \A d \in DialogKinds \ {o.kind} : clickedFor'[d] = clickedFor[d]
    BY <1>2, <2>1 DEF GroupsTyped
  <2>4. /\ groupAlibi' \in [hurried : SUBSET DialogKinds, outside : BOOLEAN]
        /\ groupAlibi'.outside = groupAlibi.outside /\ groupAlibi'.hurried = strayed
    <3> HIDE DEF strayed
    <3> QED  BY <1>2, <2>1, <2>2 DEF GroupsTyped
  <2>5. ListsReadCurrent'
    BY <1>1, <1>2, <2>4, AsideOfLists
  <2>6. GroupsTyped'
    <3> HIDE DEF strayed
    <3> QED  BY <1>1, <1>2, <2>1, <2>3, <2>4 DEF GroupsTyped
  <2>7. dialogs \ groupAlibi.hurried = {}
    BY <1>2 DEF AimsAlone
  <2>8. AimsAlone'
    <3>1. dialogs' \ strayed \subseteq {o.kind} /\ (opens' # {} => o.kind \in strayed)
      BY <2>1, <2>7 DEF Hurried
    <3> HIDE DEF strayed
    <3> QED  BY <2>1, <2>3, <2>4, <3>1 DEF AimsAlone, DialogsAimRight
  <2> QED  BY <2>5, <2>6, <2>8 DEF GroupsInv
<1> QED  BY <1>1, <1>3, <1>4

LEMMA SendsKeeps ==
  ASSUME GroupsInv, NEW p, "done" \in DOMAIN p, ~ p.done, Sends(p)
  PROVE  GroupsInv'
<1>1. /\ posts' = posts \cup {p}
      /\ UNCHANGED <<groupOf, groupsStored, cached, listAsk, opens, forAction, dialogs, clickedFor, groupAlibi>>
  BY DEF Sends
<1>2. GroupsTyped' /\ AimsAlone'
  BY <1>1 DEF GroupsInv, GroupsTyped, AimsAlone, DialogsAimRight
<1>3. ListsReadCurrent'
  BY <1>1 DEF GroupsInv, ListsReadCurrent, Serving
<1> QED  BY <1>2, <1>3 DEF GroupsInv

LEMMA PostUndone ==
  ASSUME NEW kind, NEW group, NEW of, NEW to
  PROVE  "done" \in DOMAIN Post(kind, group, of, to) /\ ~ Post(kind, group, of, to).done
BY DEF Post

LEMMA GroupsInvStep ==
  ASSUME GroupsInv, GroupsNext
  PROVE  GroupsInv'
<1>0. /\ GroupsTyped /\ AimsAlone /\ ListsReadCurrent
      /\ groupAlibi \in [hurried : SUBSET DialogKinds, outside : BOOLEAN]
      /\ \A p \in posts : "done" \in DOMAIN p
  BY DEF GroupsInv, GroupsTyped
<1>1. CASE Refetch \/ ListsArrive
  <2>1. GroupsTyped' /\ AimsAlone'
    BY <1>0, <1>1, AsideOfDialogs DEF Refetch, ListsArrive
  <2>2. ListsReadCurrent'
    BY <1>0, <1>1 DEF Refetch, ListsArrive, ListsReadCurrent, Serving, IdleDialog
  <2> QED  BY <2>1, <2>2 DEF GroupsInv
<1>2. CASE ServerLists
  <2>1. /\ groupAlibi' = [groupAlibi EXCEPT !.outside = FALSE]
        /\ listAsk'.at = "read" /\ listAsk'.lists = Serving
        /\ UNCHANGED <<groupOf, groupsStored, dialogs, posts, clickedFor, opens, forAction>>
    BY <1>2 DEF ServerLists
  <2>2. GroupsTyped' /\ AimsAlone'
    BY <1>0, <2>1, AsideOfDialogs
  <2>3. ListsReadCurrent'
    BY <2>1 DEF ListsReadCurrent, Serving
  <2> QED  BY <2>2, <2>3 DEF GroupsInv
<1>3. ASSUME NEW g \in GroupNames, NEW d \in Fetched, openFetched(d, g) PROVE GroupsInv'
  <2>1. /\ opens' = opens \cup {[kind |-> d, group |-> g]}
        /\ dialogs = {} /\ dialogs' = {}
        /\ UNCHANGED <<groupOf, groupsStored, cached, listAsk, forAction, posts, clickedFor, groupAlibi>>
    BY <1>3 DEF openFetched, ClickGroup
  <2> QED  BY <1>0, <2>1, AsideOfLists DEF GroupsInv, GroupsTyped, AimsAlone, DialogsAimRight
<1>4. ASSUME NEW g \in GroupNames,
             \/ confirmCreate(g) \/ onDeleteGroup(g) \/ onDeleteClients(g)
             \/ \E name \in GroupNames : confirmRename(g, name)
      PROVE  GroupsInv'
  BY <1>4, SendsKeeps, PostUndone DEF confirmCreate, onDeleteGroup, onDeleteClients, confirmRename
<1>5. ASSUME NEW d \in MemberPickers, submitPicker(d) PROVE GroupsInv'
  <2>1. Sends(Post(d, forAction, picked, IF d = "add" THEN forAction ELSE NoGroup))
    BY <1>5 DEF submitPicker
  <2> QED  BY <2>1, SendsKeeps, PostUndone
<1>6. CASE submitAdjust
  <2>1. Sends(Post("adjust", forAction, emails, NoGroup))
    BY <1>6 DEF submitAdjust
  <2> QED  BY <2>1, SendsKeeps, PostUndone
<1>7. CASE \/ \E d \in MemberPickers, c \in Members : TogglePicked(d, c)
           \/ \E d \in dialogs : onCancel(d)
  <2>1. /\ dialogs' \subseteq dialogs
        /\ UNCHANGED <<groupOf, groupsStored, cached, listAsk, posts, clickedFor, opens, forAction, groupAlibi>>
    BY <1>7 DEF TogglePicked, onCancel
  <2> QED  BY <1>0, <2>1, AsideOfDialogs, AsideOfLists DEF GroupsInv
<1>8. ASSUME NEW p \in posts, Executes(p) PROVE GroupsInv'
  <2> DEFINE q == [p EXCEPT !.done = TRUE]
  <2>1. /\ posts' = (posts \ {p}) \cup {q}
        /\ UNCHANGED <<dialogs, clickedFor, opens, forAction, groupAlibi>>
    BY <1>8 DEF Executes
  <2>2. "done" \in DOMAIN q /\ q.done
    BY <1>0
  <2>3. GroupsTyped' /\ AimsAlone'
    <3> HIDE DEF q
    <3> QED  BY <1>0, <2>1, <2>2, AsideOfDialogs
  <2>4. ListsReadCurrent'
    <3> HIDE DEF q
    <3> QED  BY <2>1, <2>2 DEF ListsReadCurrent
  <2> QED  BY <2>3, <2>4 DEF GroupsInv
<1>9. ASSUME NEW p \in posts, PostAnswered(p) PROVE GroupsInv'
  <2>1. /\ posts' = posts \ {p} /\ dialogs' \subseteq dialogs /\ listAsk'.at = "asked"
        /\ UNCHANGED <<clickedFor, opens, forAction, groupAlibi>>
    BY <1>9 DEF PostAnswered
  <2> QED  BY <1>0, <2>1, AsideOfDialogs DEF GroupsInv, ListsReadCurrent
<1>10. ASSUME NEW p \in posts, Fails(p) PROVE GroupsInv'
  <2>1. /\ posts' = posts \ {p} /\ ~ p.done
        /\ UNCHANGED <<groupOf, groupsStored, cached, listAsk, dialogs, clickedFor, opens, forAction, groupAlibi>>
    BY <1>10 DEF Fails
  <2>2. ListsReadCurrent'
    BY <1>0, <2>1 DEF ListsReadCurrent, Serving
  <2> QED  BY <1>0, <2>1, <2>2, AsideOfDialogs DEF GroupsInv
<1>11. ASSUME NEW c \in Members, NEW g \in GroupNames \cup {NoGroup}, OthersMove(c, g) PROVE GroupsInv'
  <2>1. /\ groupAlibi' = [groupAlibi EXCEPT !.outside = TRUE]
        /\ UNCHANGED <<dialogs, posts, clickedFor, opens, forAction>>
    BY <1>11 DEF OthersMove
  <2>2. GroupsTyped' /\ AimsAlone'
    BY <1>0, <2>1, AsideOfDialogs, ZenonT(60)
  <2>3. ListsReadCurrent'
    BY <1>0, <2>1 DEF ListsReadCurrent
  <2> QED  BY <2>2, <2>3 DEF GroupsInv
<1> QED
  BY <1>1, <1>2, <1>3, <1>4, <1>5, <1>6, <1>7, <1>8, <1>9, <1>10, <1>11, OpenPickerKeeps, MembersArriveKeeps
     DEF GroupsNext

LEMMA GroupsInvStutter == GroupsInv /\ UNCHANGED groupVars => GroupsInv'
BY DEF GroupsInv, groupVars, GroupsTyped, AimsAlone, DialogsAimRight, ListsReadCurrent, Serving

LEMMA GroupsTruth == GroupsInv => DialogsAimRight /\ ListsCurrent
BY DEF GroupsInv, AimsAlone, ListsReadCurrent, ListsCurrent, IdleDialog

-----------------------------------------------------------------------------
(* The nodes.  The channel that will be sent is the one that is shown.     *)
(* Only a node that was reached is stored, so that a stored pin is that of *)
(* its own machine, and a late answer with another node's certificate      *)
(* makes a dialog fail its test.                                           *)

Node == [address : Machines, scheme : {"http", "https"}, verify : {"verify", "skip", "pin"},
         pin : Machines \cup {NoPin}, tags : {"all"} \cup Machines, enable : BOOLEAN]

Pinned(n) == IF n.verify = "pin" THEN n.scheme = "https" /\ n.pin = n.address ELSE n.pin = NoPin

GoodNodes == {n \in Node : Pinned(n)}

FormTypes ==
  [mode : {"add", "edit"}, id : NodeIds \cup {NoNode}, fields : Node, options : Machines \cup {NoPin},
   submitting : BOOLEAN, opened : GoodNodes \cup {NoNode}, touched : BOOLEAN]

NodesTyped ==
  /\ nodeRows \in [NodeIds -> GoodNodes \cup {NoNode}]
  /\ nodesListed.rows \in [NodeIds -> GoodNodes \cup {NoNode}]
  /\ up \subseteq Machines /\ selectedIds \subseteq NodeIds /\ devRef \in BOOLEAN
  /\ form = Shut \/ form \in FormTypes
  /\ asks \subseteq [kind : {"pin", "inbounds", "test", "save"}, of : Node]

\* A pin is https's, in the dialog too.
FormSound ==
  form # Shut =>
    /\ form.fields.verify = "pin" => form.fields.scheme = "https"
    /\ form.mode = "add" => form.touched
    /\ ~ form.touched => /\ form.opened \in GoodNodes
                         /\ [form.fields EXCEPT !.pin = NoPin] = [form.opened EXCEPT !.pin = NoPin]

Saves == {"test", "save"}

AsksSound ==
  /\ \A a, b \in asks : (a.kind = b.kind \/ {a.kind, b.kind} \subseteq Saves) => a = b
  /\ \A a \in asks : a.kind \in Saves => form # Shut /\ form.submitting
  /\ \A a \in asks : a.of.verify # "pin" => a.of.pin = NoPin
  /\ \A a \in asks : a.of.verify = "pin" => a.of.scheme = "https"
  /\ \A a \in asks : (a.kind \in Saves /\ ~ form.touched) =>
       [a.of EXCEPT !.pin = NoPin] = [form.opened EXCEPT !.pin = NoPin]
  /\ \A a \in asks : a.kind = "save" => a.of \in GoodNodes /\ Connection(a.of) = reached

ChannelHeld ==
  /\ confirming # Shut => "shown" \in DOMAIN confirming /\ confirming.shown \in BOOLEAN
                          /\ devRef = confirming.shown
  /\ ChannelAsShown

NodesInv == NodesTyped /\ FormSound /\ AsksSound /\ ChannelHeld

LEMMA PayloadOfNode ==
  ASSUME NEW n \in Node
  PROVE  /\ buildPayload(n) \in Node
         /\ buildPayload(n).verify = n.verify /\ buildPayload(n).scheme = n.scheme
         /\ buildPayload(n).verify # "pin" => buildPayload(n).pin = NoPin
         /\ [buildPayload(n) EXCEPT !.pin = NoPin] = [n EXCEPT !.pin = NoPin]
<1> DEFINE p == IF n.verify = "pin" THEN n.pin ELSE NoPin
<1>1. buildPayload(n) = [n EXCEPT !.pin = p] /\ p \in Machines \cup {NoPin}
  BY DEF buildPayload, Node
<1>2. n.verify # "pin" => p = NoPin
  OBVIOUS
<1> HIDE DEF p
<1>3. [n EXCEPT !.pin = p] \in Node /\ [n EXCEPT !.pin = p].pin = p
  BY <1>1 DEF Node
<1> QED  BY <1>1, <1>2, <1>3 DEF Node

\* A node whose pin is that of its machine is kept by what is sent of it.
LEMMA SameButPin ==
  ASSUME NEW n \in GoodNodes, NEW m \in GoodNodes, [n EXCEPT !.pin = NoPin] = [m EXCEPT !.pin = NoPin]
  PROVE  n = m
<1>1. n \in Node /\ m \in Node /\ Pinned(n) /\ Pinned(m)
  BY DEF GoodNodes
<1>2. /\ n.address = m.address /\ n.scheme = m.scheme /\ n.verify = m.verify
      /\ n.tags = m.tags /\ n.enable = m.enable
  BY <1>1 DEF Node
<1>3. n.pin = m.pin
  BY <1>1, <1>2 DEF Pinned
<1> QED  BY <1>1, <1>2, <1>3 DEF Node

LEMMA GoodIsItsPayload == \A n \in GoodNodes : buildPayload(n) = n
<1> SUFFICES ASSUME NEW n \in GoodNodes PROVE buildPayload(n) = n
  OBVIOUS
<1> DEFINE p == IF n.verify = "pin" THEN n.pin ELSE NoPin
<1>1. buildPayload(n) = [n EXCEPT !.pin = p] /\ n \in Node
  BY DEF buildPayload, GoodNodes
<1>2. p = n.pin
  BY DEF GoodNodes, Pinned
<1> HIDE DEF p
<1> QED  BY <1>1, <1>2 DEF Node

LEMMA ReachedIsGood ==
  ASSUME NEW n \in Node, n.verify # "pin" => n.pin = NoPin, n.verify = "pin" => n.scheme = "https", Online(n)
  PROVE  n \in GoodNodes
BY DEF Online, GoodNodes, Pinned, Node

LEMMA SeededIsGood == \A n \in GoodNodes : Seeded(n) \in GoodNodes
BY DEF Seeded, GoodNodes, Pinned, Node

LEMMA NodesInvInit == NodesInit => NodesInv
<1> SUFFICES ASSUME NodesInit PROVE NodesInv
  OBVIOUS
<1>1. \A m \in Machines : FirstNode(m) \in GoodNodes
  BY NodesAssumption DEF FirstNode, GoodNodes, Pinned, Node
<1>2. nodeRows \in [NodeIds -> GoodNodes \cup {NoNode}]
  <2>1. PICK m \in Machines : nodeRows = FirstNodes(m)
    BY DEF NodesInit
  <2> QED  BY <1>1, <2>1 DEF FirstNodes
<1>3. nodesListed.rows = nodeRows
  BY DEF NodesInit, Listing
<1>4. /\ form = Shut /\ asks = {} /\ confirming = Shut /\ updates = NoNode /\ up = Machines
      /\ selectedIds = {} /\ devRef = FALSE
  BY DEF NodesInit
<1> QED
  BY <1>2, <1>3, <1>4 DEF NodesInv, NodesTyped, FormSound, AsksSound, ChannelHeld, ChannelAsShown

-----------------------------------------------------------------------------
LEMMA ChannelStep == ChannelHeld /\ NodesNext => ChannelHeld'
<1> SUFFICES ASSUME ChannelHeld, NodesNext PROVE ChannelHeld'
  BY SMTT(30)
<1> USE DEF ChannelHeld, ChannelAsShown
<1>1. CASE onAddNode \/ TypeNode \/ \E s \in {"http", "https"} : PickScheme(s)
  BY <1>1 DEF onAddNode, TypeNode, Types_, PickScheme
<1>2. CASE onFetchPin \/ onFetchInbounds \/ onFinish \/ close \/ ListArrives
  BY <1>2 DEF onFetchPin, onFetchInbounds, Ask, onFinish, close, ListArrives
<1>3. CASE \E a \in asks : HelpAnswered(a) \/ FinishTested(a) \/ SaveAnswered_(a)
  BY <1>3 DEF HelpAnswered, FinishTested, SaveAnswered_
<1>4. CASE \E i \in NodeIds : onEditNode(i) \/ onToggleEnable_(i) \/ onDelete_(i) \/ SelectNode(i)
  BY <1>4 DEF onEditNode, onToggleEnable_, onDelete_, SelectNode
<1>5. CASE \E m \in Machines : MachineFlips(m)
  BY <1>5 DEF MachineFlips
<1>6. CASE onUpdateSelected \/ \E i \in NodeIds : onUpdateNode(i)
  <2>1. PICK ids : ConfirmsUpdate(ids)
    BY <1>6 DEF onUpdateSelected, onUpdateNode
  <2>2. /\ confirming' = [mode |-> "update", ids |-> ids, shown |-> FALSE]
        /\ devRef' = FALSE /\ UNCHANGED updates
    BY <2>1 DEF ConfirmsUpdate
  <2>3. "shown" \in DOMAIN confirming' /\ confirming'.shown = FALSE
    BY <2>2
  <2> QED  BY <2>2, <2>3
<1>7. CASE UpdateChannelChoice
  BY <1>7 DEF UpdateChannelChoice
<1>8. CASE CancelUpdate \/ \E ok \in BOOLEAN : runUpdate(ok)
  BY <1>8 DEF CancelUpdate, runUpdate
<1> QED  BY <1>1, <1>2, <1>3, <1>4, <1>5, <1>6, <1>7, <1>8 DEF NodesNext

\* The table leaves the dialog and its requests alone.
LEMMA TableStep ==
  ASSUME NodesInv, ChannelHeld', UNCHANGED <<form, asks, reached>>,
         nodeRows' \in [NodeIds -> GoodNodes \cup {NoNode}],
         nodesListed'.rows \in [NodeIds -> GoodNodes \cup {NoNode}],
         up' \subseteq Machines, selectedIds' \subseteq NodeIds, devRef' \in BOOLEAN
  PROVE  NodesInv'
<1>1. NodesTyped'
  BY DEF NodesInv, NodesTyped
<1>2. FormSound' /\ AsksSound'
  BY DEF NodesInv, FormSound, AsksSound
<1> QED  BY <1>1, <1>2 DEF NodesInv

\* The dialog leaves the table alone.
LEMMA DialogStep ==
  ASSUME NodesInv, ChannelHeld', UNCHANGED <<nodeRows, nodesListed, up, selectedIds, devRef>>,
         form' = Shut \/ form' \in FormTypes, FormSound', AsksSound',
         asks' \subseteq [kind : {"pin", "inbounds", "test", "save"}, of : Node]
  PROVE  NodesInv'
<1>1. NodesTyped'
  BY DEF NodesInv, NodesTyped
<1> QED  BY <1>1 DEF NodesInv

LEMMA OpenNodeKeeps ==
  ASSUME NodesInv, ChannelHeld', onAddNode \/ \E i \in NodeIds : onEditNode(i)
  PROVE  NodesInv'
<1>1. /\ form = Shut /\ UNCHANGED <<nodeRows, nodesListed, up, selectedIds, devRef, asks>>
  BY DEF onAddNode, onEditNode, Click_
<1>2. PICK mode \in {"add", "edit"}, id \in NodeIds \cup {NoNode}, fields \in Node,
           opened \in GoodNodes \cup {NoNode}, touched \in BOOLEAN :
        /\ form' = [mode |-> mode, id |-> id, fields |-> fields, options |-> NoPin,
                    submitting |-> FALSE, opened |-> opened, touched |-> touched]
        /\ fields.verify = "pin" => fields.scheme = "https"
        /\ mode = "add" => touched
        /\ ~ touched => opened = fields /\ opened \in GoodNodes
  <2>1. CASE onAddNode
    <3>1. PICK m \in Machines :
            form' = [mode |-> "add", id |-> NoNode, fields |-> defaultValues(m), options |-> NoPin,
                     submitting |-> FALSE, opened |-> NoNode, touched |-> TRUE]
      BY <2>1 DEF onAddNode
    <3>2. defaultValues(m) \in Node /\ defaultValues(m).verify # "pin"
      BY DEF defaultValues, Node
    <3> QED  BY <3>1, <3>2
  <2>2. ASSUME NEW i \in NodeIds, onEditNode(i)
        PROVE  \E fields \in GoodNodes :
                 form' = [mode |-> "edit", id |-> i, fields |-> fields, options |-> NoPin,
                          submitting |-> FALSE, opened |-> fields, touched |-> FALSE]
    <3> DEFINE n == Seeded(nodesListed.rows[i])
    <3>1. nodesListed.rows[i] \in GoodNodes
      BY <2>2 DEF NodesInv, NodesTyped, onEditNode
    <3>2. n \in GoodNodes
      BY <3>1, SeededIsGood
    <3>3. form' = [mode |-> "edit", id |-> i, fields |-> n, options |-> NoPin,
                   submitting |-> FALSE, opened |-> n, touched |-> FALSE]
      BY <2>2 DEF onEditNode
    <3> HIDE DEF n
    <3> QED  BY <3>2, <3>3
  <2>3. \A fields \in GoodNodes : fields \in Node /\ (fields.verify = "pin" => fields.scheme = "https")
    BY DEF GoodNodes, Pinned
  <2>4. CASE \E i \in NodeIds : onEditNode(i)
    <3>1. PICK i \in NodeIds, fields \in GoodNodes :
                 form' = [mode |-> "edit", id |-> i, fields |-> fields, options |-> NoPin,
                          submitting |-> FALSE, opened |-> fields, touched |-> FALSE]
      BY <2>2, <2>4
    <3>2. fields \in Node /\ (fields.verify = "pin" => fields.scheme = "https")
      BY <2>3
    <3> QED  BY <3>1, <3>2
  <2> QED  BY <2>1, <2>4
<1>3. form' \in FormTypes
  BY <1>2 DEF FormTypes
<1>4. FormSound'
  BY <1>2 DEF FormSound
<1>5. \A a \in asks : a.kind \notin Saves
  BY <1>1 DEF NodesInv, AsksSound
<1>6. AsksSound'
  BY <1>1, <1>5 DEF NodesInv, AsksSound, Saves
<1> QED  BY <1>1, <1>3, <1>4, <1>6, DialogStep DEF NodesInv, NodesTyped

LEMMA TypesKeeps ==
  ASSUME NodesInv, ChannelHeld', NEW f \in Node, f.verify = "pin" => f.scheme = "https", Types_(f)
  PROVE  NodesInv'
<1>1. /\ form' = [form EXCEPT !.fields = f, !.touched = TRUE] /\ form # Shut
      /\ UNCHANGED <<nodeRows, nodesListed, up, selectedIds, devRef, asks, reached>>
  BY DEF Types_
<1>2. form \in FormTypes
  BY <1>1 DEF NodesInv, NodesTyped
<1>3. /\ form' \in FormTypes /\ form'.fields = f /\ form'.touched /\ form'.submitting = form.submitting
      /\ form'.mode = form.mode /\ form' # Shut
  BY <1>1, <1>2 DEF FormTypes, Shut
<1>4. FormSound'
  BY <1>3 DEF FormSound
<1>5. AsksSound'
  BY <1>1, <1>3 DEF NodesInv, AsksSound
<1> QED  BY <1>1, <1>3, <1>4, <1>5, DialogStep DEF NodesInv, NodesTyped

LEMMA TypedKeeps ==
  ASSUME NodesInv, ChannelHeld', TypeNode \/ \E s \in {"http", "https"} : PickScheme(s)
  PROVE  NodesInv'
<1>1. form # Shut
  BY DEF TypeNode, PickScheme
<1>2. form.fields \in Node /\ form.options \in Machines \cup {NoPin}
      /\ (form.fields.verify = "pin" => form.fields.scheme = "https")
  BY <1>1 DEF NodesInv, NodesTyped, FormSound, FormTypes
<1> DEFINE n == form.fields
<1>3. ASSUME NEW s \in {"http", "https"}, PickScheme(s) PROVE NodesInv'
  <2> DEFINE v == IF s = "http" THEN "skip" ELSE n.verify
  <2>1. Types_([n EXCEPT !.scheme = s, !.verify = v])
    BY <1>3 DEF PickScheme
  <2>2. v \in {"verify", "skip", "pin"} /\ (v = "pin" => s = "https")
    BY <1>2 DEF Node
  <2> HIDE DEF v
  <2>3. [n EXCEPT !.scheme = s, !.verify = v] \in Node
        /\ [n EXCEPT !.scheme = s, !.verify = v].verify = v
        /\ [n EXCEPT !.scheme = s, !.verify = v].scheme = s
    BY <1>2, <2>2 DEF Node
  <2> QED  BY <2>1, <2>2, <2>3, TypesKeeps
<1>4. CASE TypeNode
  <2>1. CASE \E m \in Machines : Types_([n EXCEPT !.address = m])
    <3>1. PICK m \in Machines : Types_([n EXCEPT !.address = m])
      BY <2>1
    <3>2. [n EXCEPT !.address = m] \in Node /\ [n EXCEPT !.address = m].verify = n.verify
          /\ [n EXCEPT !.address = m].scheme = n.scheme
      BY <1>2 DEF Node
    <3> QED  BY <1>2, <3>1, <3>2, TypesKeeps
  <2>2. CASE \E v \in {"verify", "skip", "pin"} : n.scheme = "https" /\ Types_([n EXCEPT !.verify = v])
    <3>1. PICK v \in {"verify", "skip", "pin"} : n.scheme = "https" /\ Types_([n EXCEPT !.verify = v])
      BY <2>2
    <3>2. [n EXCEPT !.verify = v] \in Node /\ [n EXCEPT !.verify = v].scheme = n.scheme
      BY <1>2 DEF Node
    <3> QED  BY <3>1, <3>2, TypesKeeps
  <2>3. CASE \E m \in Machines : n.verify = "pin" /\ Types_([n EXCEPT !.pin = m])
    <3>1. PICK m \in Machines : n.verify = "pin" /\ Types_([n EXCEPT !.pin = m])
      BY <2>3
    <3>2. [n EXCEPT !.pin = m] \in Node /\ [n EXCEPT !.pin = m].scheme = n.scheme
      BY <1>2 DEF Node
    <3> QED  BY <1>2, <3>1, <3>2, TypesKeeps
  <2>4. CASE form.options # NoPin /\ Types_([n EXCEPT !.tags = form.options])
    <3>1. [n EXCEPT !.tags = form.options] \in Node
          /\ [n EXCEPT !.tags = form.options].verify = n.verify
          /\ [n EXCEPT !.tags = form.options].scheme = n.scheme
      BY <1>2, <2>4 DEF Node
    <3> QED  BY <1>2, <2>4, <3>1, TypesKeeps
  <2> QED  BY <1>4, <2>1, <2>2, <2>3, <2>4 DEF TypeNode
<1> QED  BY <1>3, <1>4

LEMMA AsksKeep ==
  ASSUME NodesInv, ChannelHeld', onFetchPin \/ onFetchInbounds
  PROVE  NodesInv'
<1>1. PICK kind \in {"pin", "inbounds"} : Ask(kind)
  BY DEF onFetchPin, onFetchInbounds
<1> DEFINE new == [kind |-> kind, of |-> buildPayload(form.fields)]
<1>2. /\ form # Shut /\ \A a \in asks : a.kind # kind
      /\ asks' = asks \cup {new}
      /\ UNCHANGED <<nodeRows, nodesListed, up, selectedIds, devRef, form, reached>>
  BY <1>1 DEF Ask
<1>3. form.fields \in Node /\ (form.fields.verify = "pin" => form.fields.scheme = "https")
  BY <1>2 DEF NodesInv, NodesTyped, FormSound, FormTypes
<1>4. /\ new.of \in Node /\ new.kind = kind /\ new.kind \notin Saves
      /\ new.of.verify # "pin" => new.of.pin = NoPin
      /\ new.of.verify = "pin" => new.of.scheme = "https"
      /\ new \in [kind : {"pin", "inbounds", "test", "save"}, of : Node]
  BY <1>3, PayloadOfNode DEF Saves
<1> HIDE DEF new
<1>5. AsksSound'
  <2>1. AsksSound
    BY DEF NodesInv
  <2>2. \A a, b \in asks' : (a.kind = b.kind \/ {a.kind, b.kind} \subseteq Saves) => a = b
    BY <1>2, <1>4, <2>1 DEF AsksSound
  <2> QED  BY <1>2, <1>4, <2>1, <2>2 DEF AsksSound
<1>6. asks' \subseteq [kind : {"pin", "inbounds", "test", "save"}, of : Node]
  BY <1>2, <1>4 DEF NodesInv, NodesTyped
<1>7. FormSound' /\ (form' = Shut \/ form' \in FormTypes)
  BY <1>2 DEF NodesInv, NodesTyped, FormSound
<1> QED  BY <1>2, <1>5, <1>6, <1>7, DialogStep

LEMMA HelpKeeps ==
  ASSUME NodesInv, ChannelHeld', NEW a \in asks, HelpAnswered(a)
  PROVE  NodesInv'
<1>1. /\ a.kind \notin Saves /\ asks' = asks \ {a} /\ form' = FormHelped(a)
      /\ UNCHANGED <<nodeRows, nodesListed, up, selectedIds, devRef, reached>>
  BY DEF HelpAnswered, Saves
<1>2. a.of \in Node /\ up \subseteq Machines /\ (form = Shut \/ form \in FormTypes)
  BY DEF NodesInv, NodesTyped
<1>3. \/ form' = form
      \/ form # Shut /\ \E m \in Machines : form' = [form EXCEPT !.fields.pin = m]
      \/ form # Shut /\ \E m \in Machines : form' = [form EXCEPT !.options = m]
  BY <1>1, <1>2 DEF FormHelped, Node
<1> DEFINE Kept ==
       /\ form' = Shut \/ form' \in FormTypes
       /\ FormSound'
       /\ (form' = Shut) = (form = Shut)
       /\ form # Shut => /\ form'.submitting = form.submitting /\ form'.touched = form.touched
                          /\ form'.opened = form.opened
<1>4. Kept
  <2>1. CASE form' = form
    BY <1>2, <2>1 DEF NodesInv, FormSound
  <2>2. ASSUME NEW m \in Machines, form # Shut, form' = [form EXCEPT !.fields.pin = m]
        PROVE  Kept
    <3> DEFINE f == [form.fields EXCEPT !.pin = m]
    <3>1. form \in FormTypes /\ form.fields \in Node
      BY <1>2, <2>2 DEF FormTypes
    <3>2. /\ f \in Node /\ f.verify = form.fields.verify /\ f.scheme = form.fields.scheme
          /\ [f EXCEPT !.pin = NoPin] = [form.fields EXCEPT !.pin = NoPin]
      BY <3>1 DEF Node
    <3>3. form' = [form EXCEPT !.fields = f]
      BY <2>2, <3>1 DEF FormTypes
    <3> HIDE DEF f
    <3>4. /\ form' \in FormTypes /\ form'.fields = f /\ form'.submitting = form.submitting
          /\ form'.touched = form.touched /\ form'.opened = form.opened
          /\ form'.mode = form.mode /\ form' # Shut
      BY <3>1, <3>2, <3>3 DEF FormTypes, Shut
    <3>5. FormSound'
      BY <2>2, <3>2, <3>4 DEF NodesInv, FormSound
    <3> QED  BY <2>2, <3>4, <3>5
  <2>3. ASSUME NEW m \in Machines, form # Shut, form' = [form EXCEPT !.options = m]
        PROVE  Kept
    <3>1. form \in FormTypes
      BY <1>2, <2>3
    <3>4. /\ form' \in FormTypes /\ form'.fields = form.fields /\ form'.submitting = form.submitting
          /\ form'.touched = form.touched /\ form'.opened = form.opened
          /\ form'.mode = form.mode /\ form' # Shut
      BY <2>3, <3>1 DEF FormTypes, Shut
    <3>5. FormSound'
      BY <2>3, <3>4 DEF NodesInv, FormSound
    <3> QED  BY <2>3, <3>4, <3>5
  <2> QED  BY <1>3, <2>1, <2>2, <2>3
<1>5. AsksSound'
  BY <1>1, <1>4 DEF NodesInv, AsksSound
<1>6. asks' \subseteq [kind : {"pin", "inbounds", "test", "save"}, of : Node]
  BY <1>1 DEF NodesInv, NodesTyped
<1> QED  BY <1>1, <1>4, <1>5, <1>6, DialogStep

LEMMA FinishKeeps ==
  ASSUME NodesInv, ChannelHeld', onFinish
  PROVE  NodesInv'
<1> DEFINE new == [kind |-> "test", of |-> buildPayload(form.fields)]
<1>1. /\ form # Shut /\ ~ form.submitting
      /\ asks' = asks \cup {new}
      /\ form' = [form EXCEPT !.submitting = TRUE]
      /\ UNCHANGED <<nodeRows, nodesListed, up, selectedIds, devRef, reached>>
  BY DEF onFinish
<1>2. /\ form \in FormTypes /\ form.fields \in Node
      /\ form.fields.verify = "pin" => form.fields.scheme = "https"
      /\ ~ form.touched => [form.fields EXCEPT !.pin = NoPin] = [form.opened EXCEPT !.pin = NoPin]
  BY <1>1 DEF NodesInv, NodesTyped, FormSound, FormTypes
<1>3. \A a \in asks : a.kind \notin Saves
  BY <1>1 DEF NodesInv, AsksSound
<1>4. /\ new.of \in Node /\ new.kind = "test"
      /\ new.of.verify # "pin" => new.of.pin = NoPin
      /\ new.of.verify = "pin" => new.of.scheme = "https"
      /\ [new.of EXCEPT !.pin = NoPin] = [form.fields EXCEPT !.pin = NoPin]
      /\ new \in [kind : {"pin", "inbounds", "test", "save"}, of : Node]
  BY <1>2, PayloadOfNode
<1> HIDE DEF new
<1>5. /\ form' \in FormTypes /\ form'.fields = form.fields /\ form'.submitting
      /\ form'.touched = form.touched /\ form'.opened = form.opened
      /\ form'.mode = form.mode /\ form' # Shut
  BY <1>1, <1>2 DEF FormTypes, Shut
<1>6. FormSound'
  BY <1>1, <1>5 DEF NodesInv, FormSound
<1>7. AsksSound'
  <2>1. AsksSound
    BY DEF NodesInv
  <2>2. \A a, b \in asks' : (a.kind = b.kind \/ {a.kind, b.kind} \subseteq Saves) => a = b
    BY <1>1, <1>3, <1>4, <2>1 DEF AsksSound, Saves
  <2>3. \A a \in asks' : a.kind = "save" => a.of \in GoodNodes /\ Connection(a.of) = reached'
    BY <1>1, <1>4, <2>1 DEF AsksSound
  <2> QED  BY <1>1, <1>2, <1>3, <1>4, <1>5, <2>1, <2>2, <2>3 DEF AsksSound
<1>8. asks' \subseteq [kind : {"pin", "inbounds", "test", "save"}, of : Node]
  BY <1>1, <1>4 DEF NodesInv, NodesTyped
<1> QED  BY <1>1, <1>5, <1>6, <1>7, <1>8, DialogStep

LEMMA SubmittingEnds ==
  ASSUME NodesInv, NEW a \in asks, a.kind \in Saves, form' = [form EXCEPT !.submitting = FALSE],
         asks' = asks \ {a}
  PROVE  form' \in FormTypes /\ FormSound' /\ AsksSound'
<1>1. form \in FormTypes /\ form # Shut
  BY DEF NodesInv, NodesTyped, AsksSound
<1>2. /\ form' \in FormTypes /\ form'.fields = form.fields
      /\ form'.touched = form.touched /\ form'.opened = form.opened
      /\ form'.mode = form.mode /\ form' # Shut
  BY <1>1 DEF FormTypes, Shut
<1>3. FormSound'
  BY <1>1, <1>2 DEF NodesInv, FormSound
<1>4. \A b \in asks' : b.kind \notin Saves
  BY DEF NodesInv, AsksSound
<1>5. AsksSound'
  BY <1>4 DEF NodesInv, AsksSound, Saves
<1> QED  BY <1>2, <1>3, <1>5

LEMMA TestKeeps ==
  ASSUME NodesInv, ChannelHeld', NEW a \in asks, FinishTested(a)
  PROVE  NodesInv'
<1>1. /\ a.kind = "test" /\ a.of \in Node
      /\ a.of.verify # "pin" => a.of.pin = NoPin
      /\ a.of.verify = "pin" => a.of.scheme = "https"
      /\ UNCHANGED <<nodeRows, nodesListed, up, selectedIds, devRef>>
  BY DEF FinishTested, NodesInv, NodesTyped, AsksSound
<1>2. CASE Online(a.of)
  <2> DEFINE new == [kind |-> "save", of |-> a.of]
  <2>1. asks' = (asks \ {a}) \cup {new} /\ reached' = Connection(a.of) /\ form' = form
    BY <1>2 DEF FinishTested
  <2>2. /\ a.of \in GoodNodes /\ new.kind = "save" /\ new.of = a.of
        /\ new \in [kind : {"pin", "inbounds", "test", "save"}, of : Node]
    BY <1>1, <1>2, ReachedIsGood
  <2> HIDE DEF new
  <2>3. AsksSound
    BY DEF NodesInv
  <2>4. \A b \in asks \ {a} : b.kind \notin Saves
    BY <1>1, <2>3 DEF AsksSound, Saves
  <2>5. \A b, c \in asks' : (b.kind = c.kind \/ {b.kind, c.kind} \subseteq Saves) => b = c
    BY <2>1, <2>2, <2>3, <2>4 DEF AsksSound, Saves
  <2>6. AsksSound'
    BY <1>1, <2>1, <2>2, <2>3, <2>4, <2>5 DEF AsksSound, Saves
  <2>7. asks' \subseteq [kind : {"pin", "inbounds", "test", "save"}, of : Node]
    BY <2>1, <2>2 DEF NodesInv, NodesTyped
  <2>8. FormSound' /\ (form' = Shut \/ form' \in FormTypes)
    BY <2>1 DEF NodesInv, NodesTyped, FormSound
  <2> QED  BY <1>1, <2>6, <2>7, <2>8, DialogStep
<1>3. CASE ~ Online(a.of)
  <2>1. asks' = asks \ {a} /\ form' = [form EXCEPT !.submitting = FALSE]
    BY <1>3 DEF FinishTested
  <2>2. form' \in FormTypes /\ FormSound' /\ AsksSound'
    BY <1>1, <2>1, SubmittingEnds DEF Saves
  <2> QED  BY <1>1, <2>1, <2>2, DialogStep DEF NodesInv, NodesTyped
<1> QED  BY <1>2, <1>3

LEMMA SaveKeeps ==
  ASSUME NodesInv, ChannelHeld', NEW a \in asks, SaveAnswered_(a)
  PROVE  NodesInv'
<1>1. /\ a.kind = "save" /\ a.of \in GoodNodes /\ asks' = asks \ {a} /\ form # Shut
      /\ UNCHANGED <<nodesListed, up, selectedIds, devRef, reached>>
  BY DEF SaveAnswered_, NodesInv, AsksSound, Saves
<1>2. CASE form' = [form EXCEPT !.submitting = FALSE] /\ nodeRows' = nodeRows
  <2>2. form' \in FormTypes /\ FormSound' /\ AsksSound'
    BY <1>1, <1>2, SubmittingEnds DEF Saves
  <2> QED  BY <1>1, <1>2, <2>2, DialogStep DEF NodesInv, NodesTyped
<1>3. CASE form' = Shut /\ \E i \in NodeIds : nodeRows' = [nodeRows EXCEPT ![i] = a.of]
  <2>1. nodeRows' \in [NodeIds -> GoodNodes \cup {NoNode}]
    BY <1>1, <1>3 DEF NodesInv, NodesTyped
  <2>2. \A b \in asks' : b.kind \notin Saves
    BY <1>1 DEF NodesInv, AsksSound, Saves
  <2>3. AsksSound'
    BY <1>1, <2>2 DEF NodesInv, AsksSound, Saves
  <2>4. NodesTyped'
    BY <1>1, <1>3, <2>1 DEF NodesInv, NodesTyped
  <2> QED  BY <1>3, <2>3, <2>4 DEF NodesInv, FormSound
<1> QED  BY <1>2, <1>3 DEF SaveAnswered_

LEMMA ShutKeeps ==
  ASSUME NodesInv, ChannelHeld', close
  PROVE  NodesInv'
<1>1. \A a \in asks : a.kind \notin Saves
  BY DEF close, NodesInv, AsksSound
<1>2. AsksSound'
  BY <1>1 DEF close, NodesInv, AsksSound, Saves
<1> QED  BY <1>2, DialogStep DEF close, NodesInv, NodesTyped, FormSound

-----------------------------------------------------------------------------
LEMMA TableKeeps ==
  ASSUME NodesInv, ChannelHeld',
         \/ ListArrives \/ onUpdateSelected \/ UpdateChannelChoice \/ CancelUpdate
         \/ \E ok \in BOOLEAN : runUpdate(ok)
         \/ \E i \in NodeIds : onToggleEnable_(i) \/ onDelete_(i) \/ SelectNode(i) \/ onUpdateNode(i)
         \/ \E m \in Machines : MachineFlips(m)
  PROVE  NodesInv'
<1>1. NodesTyped
  BY DEF NodesInv
<1>2. CASE ListArrives
  BY <1>1, <1>2, TableStep DEF ListArrives, Listing, NodesTyped
<1>3. CASE onUpdateSelected \/ \E i \in NodeIds : onUpdateNode(i)
  <2>1. PICK ids : ConfirmsUpdate(ids)
    BY <1>3 DEF onUpdateSelected, onUpdateNode
  <2> QED  BY <1>1, <2>1, TableStep DEF ConfirmsUpdate, NodesTyped
<1>4. CASE UpdateChannelChoice
  <2>1. confirming.shown \in BOOLEAN
    BY <1>4 DEF UpdateChannelChoice, NodesInv, ChannelHeld
  <2> QED  BY <1>1, <1>4, <2>1, TableStep DEF UpdateChannelChoice, NodesTyped
<1>5. CASE CancelUpdate \/ \E ok \in BOOLEAN : runUpdate(ok)
  BY <1>1, <1>5, TableStep DEF CancelUpdate, runUpdate, NodesTyped
<1>6. ASSUME NEW i \in NodeIds, onToggleEnable_(i) PROVE NodesInv'
  <2> DEFINE n == [nodeRows[i] EXCEPT !.enable = ~ nodesListed.rows[i].enable]
  <2>1. nodeRows[i] \in GoodNodes /\ nodesListed.rows[i] \in GoodNodes
    BY <1>1, <1>6 DEF onToggleEnable_, NodeStored, NodesTyped
  <2>2. n \in GoodNodes
    BY <2>1 DEF GoodNodes, Node, Pinned
  <2>3. nodeRows' = [nodeRows EXCEPT ![i] = n]
    BY <1>6 DEF onToggleEnable_
  <2> HIDE DEF n
  <2>4. nodeRows' \in [NodeIds -> GoodNodes \cup {NoNode}]
    BY <1>1, <2>2, <2>3 DEF NodesTyped
  <2> QED  BY <1>1, <1>6, <2>4, TableStep DEF onToggleEnable_, NodesTyped
<1>7. ASSUME NEW i \in NodeIds, onDelete_(i) \/ SelectNode(i) PROVE NodesInv'
  BY <1>1, <1>7, TableStep DEF onDelete_, SelectNode, NodesTyped
<1>8. ASSUME NEW m \in Machines, MachineFlips(m) PROVE NodesInv'
  BY <1>1, <1>8, TableStep DEF MachineFlips, NodesTyped
<1> QED  BY <1>2, <1>3, <1>4, <1>5, <1>6, <1>7, <1>8

LEMMA NodesInvStep == NodesInv /\ NodesNext => NodesInv'
<1> SUFFICES ASSUME NodesInv, NodesNext PROVE NodesInv'
  OBVIOUS
<1>1. ChannelHeld'
  BY ChannelStep DEF NodesInv
<1> QED
  BY <1>1, OpenNodeKeeps, TypedKeeps, AsksKeep, HelpKeeps, FinishKeeps, TestKeeps, SaveKeeps,
     ShutKeeps, TableKeeps DEF NodesNext

LEMMA NodesInvStutter == NodesInv /\ UNCHANGED nodeVars => NodesInv'
BY DEF NodesInv, NodesTyped, FormSound, AsksSound, ChannelHeld, ChannelAsShown, nodeVars

LEMMA NodesInvTypes == NodesInv => NodesTypeOK /\ ChannelAsShown
<1> SUFFICES ASSUME NodesInv PROVE NodesTypeOK /\ ChannelAsShown
  OBVIOUS
<1>1. form # Shut => form.fields.pin \in Machines \cup {NoPin}
  BY DEF NodesInv, NodesTyped, FormTypes, Node
<1> QED  BY <1>1 DEF NodesInv, NodesTyped, AsksSound, ChannelHeld, NodesTypeOK

\* Only the answer to a save changes a node while the dialog is open, and what it
\* stores is a node that was reached.
LEMMA NodesStored ==
  ASSUME NodesInv, NodesNext \/ UNCHANGED nodeVars
  PROVE  SavedWasReached /\ UntouchedNodeKept
<1> SUFFICES ASSUME form # Shut, nodeRows' # nodeRows
             PROVE  SavedWasReached /\ UntouchedNodeKept
  BY SMTT(30) DEF SavedWasReached, UntouchedNodeKept
<1>1. PICK a \in asks : SaveAnswered_(a) /\ nodeRows' # nodeRows
  BY ZenonT(60) DEF NodesNext, nodeVars, onAddNode, TypeNode, Types_, PickScheme, onFetchPin, onFetchInbounds,
         Ask, onFinish, close, HelpAnswered, FinishTested, ListArrives, onUpdateSelected, ConfirmsUpdate,
         UpdateChannelChoice, CancelUpdate, runUpdate, onEditNode, onToggleEnable_, onDelete_,
         SelectNode, onUpdateNode, MachineFlips, Click_
<1>2. /\ a.of \in GoodNodes /\ Connection(a.of) = reached
      /\ ~ form.touched => [a.of EXCEPT !.pin = NoPin] = [form.opened EXCEPT !.pin = NoPin]
                           /\ form.opened \in GoodNodes /\ form.mode = "edit"
  BY <1>1 DEF SaveAnswered_, NodesInv, NodesTyped, FormTypes, FormSound, AsksSound, Saves
<1>3. PICK i \in NodeIds : /\ nodeRows' = [nodeRows EXCEPT ![i] = a.of]
                           /\ form.mode = "edit" => i = form.id
  BY <1>1 DEF SaveAnswered_
<1>4. nodeRows'[i] = a.of /\ \A j \in NodeIds \ {i} : nodeRows'[j] = nodeRows[j]
  BY <1>3 DEF NodesInv, NodesTyped
<1>5. SavedWasReached
  BY <1>2, <1>4 DEF SavedWasReached
<1>6. ~ form.touched => a.of = form.opened /\ buildPayload(form.opened) = form.opened /\ i = form.id
  BY <1>2, <1>3, SameButPin, GoodIsItsPayload
<1>7. UntouchedNodeKept
  BY <1>4, <1>6 DEF UntouchedNodeKept
<1> QED  BY <1>5, <1>7

-----------------------------------------------------------------------------
(* The dialog of the geodata.  What is to be saved is put together when    *)
(* the button is clicked and travels unchanged; a restart that follows a   *)
(* save serves it unless somebody else has saved in between.               *)

IsSave(j) ==
  j.kind = "save" =>
    /\ j.next \in Templates /\ j.from \in Templates /\ j.shown \in Geos
    /\ j.next = [j.from EXCEPT !.geo = j.shown]

GeoTyped ==
  /\ GeodataTypeOK
  /\ loads \subseteq [nth : Nat, read : Templates \cup {NotLoaded}]
  /\ folds \in Nat /\ foreign \in 0..MaxForeign
  /\ foreignSince \in BOOLEAN
  /\ confirmGeo.kind \in {"none", "save", "install", "geofile"}

StoredIsServed ==
  /\ (job.kind = "restart" /\ ~ foreignSince) => job.geo = xrayTemplate.geo
  /\ job.kind # "none" => settled = NotLoaded
  /\ (settled # NotLoaded /\ ~ foreignSince) => running = xrayTemplate /\ xrayTemplate.geo = settled

GeoInv == GeoTyped /\ IsSave(confirmGeo) /\ IsSave(job) /\ StoredIsServed

LEMMA GeoInvInit == GeodataInit => GeoInv
<1> SUFFICES ASSUME GeodataInit PROVE GeoInv
  OBVIOUS
<1> USE GeodataAssumption DEF GeodataInit
<1>1. xrayTemplate \in Templates
  <2>1. 0 \in 0..MaxForeign
    OBVIOUS
  <2> QED  BY <2>1 DEF Templates
<1>2. NoJob.kind = "none"
  BY DEF NoJob
<1>3. GeoTyped
  <2>1. foreign \in 0..MaxForeign /\ loads \subseteq [nth : Nat, read : Templates \cup {NotLoaded}]
    OBVIOUS
  <2> QED  BY <1>1, <1>2, <2>1 DEF GeoTyped, GeodataTypeOK
<1> QED  BY <1>2, <1>3 DEF GeoInv, IsSave, StoredIsServed

LEMMA GeoInvStep ==
  ASSUME GeoInv, GeodataNext
  PROVE  GeoInv'
<1>0. /\ xrayTemplate \in Templates /\ running \in Templates
      /\ templateRef \in Templates \cup {NotLoaded} /\ geoDraft \in Geos
      /\ loading => loads # {}
      /\ loads \subseteq [nth : Nat, read : Templates \cup {NotLoaded}]
      /\ folds \in Nat /\ foreign \in 0..MaxForeign /\ foreignSince \in BOOLEAN
      /\ IsSave(confirmGeo) /\ IsSave(job) /\ StoredIsServed
      /\ confirmGeo.kind \in {"none", "save", "install", "geofile"}
      /\ NoJob.kind = "none" /\ MaxForeign \in Nat
  BY GeodataAssumption DEF GeoInv, GeoTyped, GeodataTypeOK, NoJob
<1>1. ASSUME UNCHANGED <<xrayTemplate, running, confirmGeo, job, foreignSince, settled, foreign>>,
             templateRef' \in Templates \cup {NotLoaded}, geoDraft' \in Geos,
             loading' => loads' # {}, folds' \in Nat,
             loads' \subseteq [nth : Nat, read : Templates \cup {NotLoaded}]
      PROVE  GeoInv'
  <2>1. GeoTyped'
    BY <1>0, <1>1 DEF GeoTyped, GeodataTypeOK
  <2> QED  BY <1>0, <1>1, <2>1 DEF GeoInv, IsSave, StoredIsServed
<1>2. CASE OpenVersions \/ CloseVersions \/ \E g \in Geos : setRow(g)
  BY <1>0, <1>1, <1>2 DEF OpenVersions, CloseVersions, setRow, Fold
<1>3. ASSUME NEW k \in {"1", "2", "3"}, setActiveKey(k) PROVE GeoInv'
  <2>1. [nth |-> folds, read |-> NotLoaded] \in [nth : Nat, read : Templates \cup {NotLoaded}]
    BY <1>0
  <2>2. /\ UNCHANGED <<xrayTemplate, running, confirmGeo, job, foreignSince, settled, foreign, templateRef, geoDraft>>
        /\ folds' \in Nat
    BY <1>0, <1>3 DEF setActiveKey, Fold
  <2>3. CASE k = "3"
    <3>1. loads' # {} /\ loads' \subseteq [nth : Nat, read : Templates \cup {NotLoaded}]
      BY <1>0, <1>3, <2>1, <2>3 DEF setActiveKey
    <3> QED  BY <1>0, <1>1, <2>2, <3>1
  <2>4. CASE k # "3"
    <3>1. UNCHANGED <<loads, loading>>
      BY <1>3, <2>4 DEF setActiveKey
    <3> QED  BY <1>0, <1>1, <2>2, <3>1
  <2> QED  BY <2>3, <2>4
<1>4. ASSUME NEW l \in loads, LoadRead(l) \/ LoadArrives(l) \/ LoadFails(l) PROVE GeoInv'
  <2>1. l \in [nth : Nat, read : Templates \cup {NotLoaded}]
    BY <1>0
  <2>2. CASE LoadRead(l)
    <3>1. [l EXCEPT !.read = xrayTemplate] \in [nth : Nat, read : Templates \cup {NotLoaded}]
      BY <1>0, <2>1
    <3> QED  BY <1>0, <1>1, <2>2, <3>1 DEF LoadRead
  <2>3. CASE LoadArrives(l)
    <3>1. l.read \in Templates /\ l.read.geo \in Geos
      BY <2>1, <2>3 DEF LoadArrives, Templates
    <3> QED  BY <1>0, <1>1, <2>3, <3>1 DEF LoadArrives
  <2>4. CASE LoadFails(l)
    BY <1>0, <1>1, <2>4 DEF LoadFails
  <2> QED  BY <2>2, <2>3, <2>4, <1>4
<1>5. CASE saveGeodata
  <2> DEFINE next == [templateRef EXCEPT !.geo = geoDraft]
  <2>1. templateRef \in Templates
    BY <1>0, <1>5 DEF saveGeodata
  <2>2. next \in Templates
    BY <1>0, <2>1 DEF Templates
  <2>3. /\ confirmGeo' = [kind |-> "save", next |-> next, shown |-> geoDraft, from |-> templateRef]
        /\ UNCHANGED <<xrayTemplate, running, loads, loading, templateRef, geoDraft, job,
                       foreignSince, settled, folds, foreign>>
    BY <1>5 DEF saveGeodata
  <2>4. IsSave(confirmGeo')
    BY <1>0, <2>1, <2>2, <2>3 DEF IsSave
  <2> QED  BY <1>0, <2>3, <2>4 DEF GeoInv, GeoTyped, GeodataTypeOK, IsSave, StoredIsServed
<1>6. ASSUME \/ CancelConfirm
             \/ \E kind \in {"install", "geofile"} : confirmOther(kind)
      PROVE  GeoInv'
  <2>1. /\ UNCHANGED <<xrayTemplate, running, loads, loading, templateRef, geoDraft, job,
                       foreignSince, settled, folds, foreign>>
        /\ confirmGeo'.kind \in {"none", "install", "geofile"}
    BY <1>0, <1>6 DEF CancelConfirm, confirmOther
  <2> QED  BY <1>0, <2>1 DEF GeoInv, GeoTyped, GeodataTypeOK, IsSave, StoredIsServed
<1>7. CASE ConfirmGeo
  <2>1. /\ UNCHANGED <<xrayTemplate, running, loads, loading, templateRef, geoDraft,
                       foreignSince, folds, foreign>>
        /\ job' = confirmGeo /\ confirmGeo' = NoJob /\ settled' = NotLoaded
        /\ confirmGeo.kind # "restart"
    BY <1>0, <1>7 DEF ConfirmGeo
  <2> QED  BY <1>0, <2>1 DEF GeoInv, GeoTyped, GeodataTypeOK, IsSave, StoredIsServed
<1>8. ASSUME NEW ok \in BOOLEAN, TemplateSaved(ok) PROVE GeoInv'
  <2>1. /\ job.kind = "save" /\ foreignSince' = FALSE
        /\ xrayTemplate' = IF ok THEN job.next ELSE xrayTemplate
        /\ job' = IF ok THEN [kind |-> "restart", geo |-> job.next.geo] ELSE NoJob
        /\ UNCHANGED <<running, loads, loading, templateRef, geoDraft, confirmGeo, settled, folds, foreign>>
    BY <1>8 DEF TemplateSaved
  <2>2. /\ xrayTemplate' \in Templates /\ settled = NotLoaded
        /\ job'.kind \in {"restart", "none"}
        /\ job'.kind = "restart" => job'.geo = xrayTemplate'.geo
    BY <1>0, <2>1 DEF IsSave, StoredIsServed
  <2> QED  BY <1>0, <2>1, <2>2 DEF GeoInv, GeoTyped, GeodataTypeOK, IsSave, StoredIsServed
<1>9. ASSUME NEW ok \in BOOLEAN, XrayRestarted(ok) PROVE GeoInv'
  <2>1. /\ job.kind = "restart" /\ job' = NoJob
        /\ running' = IF ok THEN xrayTemplate ELSE running
        /\ settled' = IF ok THEN job.geo ELSE settled
        /\ UNCHANGED <<xrayTemplate, loads, loading, templateRef, geoDraft, confirmGeo,
                       foreignSince, folds, foreign>>
    BY <1>9 DEF XrayRestarted
  <2>2. /\ running' \in Templates
        /\ (settled' # NotLoaded /\ ~ foreignSince) => running' = xrayTemplate /\ xrayTemplate.geo = settled'
    BY <1>0, <2>1 DEF StoredIsServed
  <2> QED  BY <1>0, <2>1, <2>2 DEF GeoInv, GeoTyped, GeodataTypeOK, IsSave, StoredIsServed
<1>10. ASSUME NEW ok \in BOOLEAN, OtherJobEnds(ok) PROVE GeoInv'
  <2>1. /\ job.kind \in {"install", "geofile"} /\ job' = NoJob
        /\ running' = IF ok THEN xrayTemplate ELSE running
        /\ UNCHANGED <<xrayTemplate, loads, loading, templateRef, geoDraft, confirmGeo,
                       foreignSince, settled, folds, foreign>>
    BY <1>10 DEF OtherJobEnds
  <2>2. running' \in Templates /\ settled = NotLoaded
    BY <1>0, <2>1 DEF StoredIsServed
  <2> QED  BY <1>0, <2>1, <2>2 DEF GeoInv, GeoTyped, GeodataTypeOK, IsSave, StoredIsServed
<1>11. CASE ForeignSave
  <2>1. /\ foreign' \in 0..MaxForeign /\ foreignSince' = TRUE
        /\ UNCHANGED <<running, loads, loading, templateRef, geoDraft, confirmGeo, job, settled, folds>>
    BY <1>0, <1>11 DEF ForeignSave
  <2>2. xrayTemplate' \in Templates
    BY <2>1, <1>11 DEF ForeignSave, Templates
  <2> QED  BY <1>0, <2>1, <2>2 DEF GeoInv, GeoTyped, GeodataTypeOK, IsSave, StoredIsServed
<1> QED
  BY <1>2, <1>3, <1>4, <1>5, <1>6, <1>7, <1>8, <1>9, <1>10, <1>11 DEF GeodataNext

LEMMA GeoInvStutter == GeoInv /\ UNCHANGED geodataVars => GeoInv'
BY DEF GeoInv, geodataVars, GeoTyped, GeodataTypeOK, IsSave, StoredIsServed

LEMMA GeoTruth == GeoInv => GeodataTypeOK /\ SavedAsClicked /\ GeodataServed
BY DEF GeoInv, GeoTyped, IsSave, StoredIsServed, SavedAsClicked, GeodataServed

-----------------------------------------------------------------------------
(* The WARP dialog.  As long as it was told of every change of the account *)
(* (~untold), at most one of its requests is under way, and what it shows  *)
(* and what it has staged are of the stored account, except while the      *)
(* answer to its own change is on the way.                                 *)

\* The server has changed the account for a request of the dialog.
Changed(q) == q.at = "served" /\ q.kind \in {"reg", "changeIp", "del"}

Told ==
  /\ warpAsks # {} => warpLoading
  /\ \A p, q \in warpAsks : p = q
  /\ \A q \in warpAsks : q.at = "served" => q.got = warpStore
  /\ \A q \in warpAsks : q.at = "read" => q.kind = "license" /\ q.got = warpStore
  /\ warpOpen =>
       /\ (\A q \in warpAsks : q.kind # "data" /\ ~ Changed(q)) => warpData = warpStore
       /\ (\A q \in warpAsks : ~ Changed(q))
            => staged \in {NoOutbound, [key |-> warpStore, device |-> warpStore]}
       /\ \A q \in warpAsks : q.kind = "config" => q.data = warpStore

WarpInv == WarpTypeOK /\ warpClicks \in 0..MaxWarpClicks /\ untold \in BOOLEAN /\ (untold \/ Told)

LEMMA WarpInvInit == WarpInit => WarpInv
<1> SUFFICES ASSUME WarpInit PROVE WarpInv
  OBVIOUS
<1>1. 0 \in Accounts /\ 1 \in Accounts /\ registered \in Accounts
  BY WarpAssumption DEF WarpInit, Accounts
<1>2. NoOutbound \in WarpOutbounds /\ [key |-> registered, device |-> registered] \in WarpOutbounds
  BY <1>1 DEF NoOutbound, WarpOutbounds
<1>3. WarpTypeOK
  BY <1>1, <1>2 DEF WarpInit, WarpTypeOK
<1>4. warpClicks \in 0..MaxWarpClicks /\ untold \in BOOLEAN
  <2>1. warpClicks \in 0..MaxWarpClicks
    BY WarpAssumption DEF WarpInit
  <2>2. untold \in BOOLEAN
    BY DEF WarpInit
  <2> QED  BY <2>1, <2>2
<1>5. Told
  BY DEF WarpInit, Told
<1> QED  BY <1>3, <1>4, <1>5 DEF WarpInv

-----------------------------------------------------------------------------
LEMMA AskTyped ==
  ASSUME WarpTypeOK, warpClicks \in 0..MaxWarpClicks, NEW kind \in WarpKinds, WarpAsk(kind)
  PROVE  warpAsks' \subseteq WarpRequests /\ warpClicks' \in 0..MaxWarpClicks
<1> DEFINE had == warpDraft # NoOutbound
           q == [id |-> warpClicks', kind |-> kind, data |-> warpData, had |-> had, at |-> "sent", got |-> 0]
<1>1. warpClicks' = warpClicks + 1 /\ warpClicks' \in 1..MaxWarpClicks /\ warpData \in Accounts
      /\ 0 \in Accounts /\ had \in BOOLEAN
  BY WarpAssumption DEF WarpAsk, WarpTypeOK, Accounts
<1> HIDE DEF had
<1>2. q \in WarpRequests
  BY <1>1 DEF WarpRequests
<1>3. warpAsks' = warpAsks \cup {q}
  BY DEF WarpAsk, had
<1> QED  BY <1>1, <1>2, <1>3, WarpAssumption DEF WarpTypeOK

LEMMA AskedOnly ==
  ASSUME warpAsks = {}, NEW kind, WarpAsk(kind)
  PROVE  \E q : warpAsks' = {q} /\ q.kind = kind /\ q.data = warpData /\ q.at = "sent"
<1> DEFINE had == warpDraft # NoOutbound
           q == [id |-> warpClicks', kind |-> kind, data |-> warpData, had |-> had, at |-> "sent", got |-> 0]
<1>1. warpAsks' = {q}
  BY DEF WarpAsk
<1> HIDE DEF had
<1>2. q.kind = kind /\ q.data = warpData /\ q.at = "sent"
  OBVIOUS
<1> QED  BY <1>1, <1>2

LEMMA ReplyTyped ==
  ASSUME WarpTypeOK, NEW q \in warpAsks, NEW at \in {"read", "served", "failed"}, NEW got \in Accounts,
         Reply(q, at, got)
  PROVE  /\ warpAsks' \subseteq WarpRequests
         /\ \E r \in WarpRequests :
              /\ warpAsks' = (warpAsks \ {q}) \cup {r}
              /\ r.at = at /\ r.got = got /\ r.kind = q.kind /\ r.data = q.data /\ r.had = q.had
<1> DEFINE r == [q EXCEPT !.at = at, !.got = got]
<1>1. q \in WarpRequests
  BY DEF WarpTypeOK
<1>2. /\ r \in WarpRequests
      /\ r.at = at /\ r.got = got /\ r.kind = q.kind /\ r.data = q.data /\ r.had = q.had
  BY <1>1 DEF WarpRequests
<1>3. warpAsks' = (warpAsks \ {q}) \cup {r}
  BY DEF Reply
<1> HIDE DEF r
<1> QED  BY <1>2, <1>3 DEF WarpTypeOK

LEMMA WarpTypeStep ==
  ASSUME WarpTypeOK, warpClicks \in 0..MaxWarpClicks, untold \in BOOLEAN, WarpNext
  PROVE  WarpTypeOK' /\ warpClicks' \in 0..MaxWarpClicks /\ untold' \in BOOLEAN
<1> USE DEF warpServer, warpShown
<1>0. 0 \in Accounts /\ NoOutbound \in WarpOutbounds
      /\ \A a, b \in Accounts : collectConfig(a, b) \in WarpOutbounds /\ collectConfig(a, b).device = b
  BY WarpAssumption DEF Accounts, NoOutbound, WarpOutbounds, collectConfig
<1>1. CASE OpenWarp
  <2>1. WarpAsk("data") /\ "data" \in WarpKinds
    BY <1>1 DEF OpenWarp, WarpKinds
  <2>2. warpAsks' \subseteq WarpRequests /\ warpClicks' \in 0..MaxWarpClicks
    BY <2>1, AskTyped
  <2> QED  BY <1>0, <1>1, <2>2 DEF OpenWarp, WarpTypeOK
<1>2. CASE WarpClick
  <2>1. PICK kind \in WarpKinds : WarpAsk(kind)
    BY <1>2 DEF WarpClick, WarpKinds
  <2>2. warpAsks' \subseteq WarpRequests /\ warpClicks' \in 0..MaxWarpClicks
    BY <2>1, AskTyped
  <2> QED  BY <1>2, <2>2 DEF WarpClick, WarpTypeOK
<1>3. CASE CloseWarp \/ UseStaged
  BY <1>3 DEF CloseWarp, UseStaged, WarpTypeOK
<1>4. CASE Rotate
  BY <1>4, WarpAssumption DEF Rotate, WarpTypeOK, Accounts
<1>5. ASSUME NEW q \in warpAsks,
             ServeWarp(q) \/ RegWarp(q) \/ ReadForLicense(q) \/ SetWarpLicense(q) \/ RefuseWarp(q)
      PROVE  WarpTypeOK' /\ warpClicks' \in 0..MaxWarpClicks /\ untold' \in BOOLEAN
  <2>1. PICK at \in {"read", "served", "failed"}, got \in Accounts : Reply(q, at, got)
    BY <1>0, <1>5, WarpAssumption
       DEF ServeWarp, RegWarp, ReadForLicense, SetWarpLicense, RefuseWarp, WarpTypeOK, WarpRequests, Accounts
  <2>2. warpAsks' \subseteq WarpRequests
    BY <2>1, ReplyTyped
  <2>3. warpStore' \in Accounts /\ registered' \in Accounts
    BY <1>0, <1>5, WarpAssumption
       DEF ServeWarp, RegWarp, ReadForLicense, SetWarpLicense, RefuseWarp, WarpTypeOK, WarpRequests, Accounts
  <2>4. UNCHANGED <<warpShown, warpClicks>> /\ untold' \in BOOLEAN
    BY <1>5 DEF ServeWarp, RegWarp, ReadForLicense, SetWarpLicense, RefuseWarp
  <2> QED  BY <2>2, <2>3, <2>4 DEF WarpTypeOK
<1>6. ASSUME NEW q \in warpAsks,
             DataArrives(q) \/ register(q) \/ getConfig(q) \/ ReplacesIp(q) \/ updateLicense(q)
             \/ DeletesAccount(q) \/ WarpFails(q)
      PROVE  WarpTypeOK' /\ warpClicks' \in 0..MaxWarpClicks /\ untold' \in BOOLEAN
  <2>1. q.got \in Accounts /\ q.data \in Accounts
    BY DEF WarpTypeOK, WarpRequests
  <2>2. warpAsks' \subseteq WarpRequests
    BY <1>6 DEF DataArrives, register, getConfig, ReplacesIp, updateLicense, DeletesAccount, WarpFails,
                WarpAnswered, WarpTypeOK
  <2>3. UNCHANGED <<warpServer, warpClicks>> /\ untold' \in BOOLEAN
    BY <1>6 DEF DataArrives, register, getConfig, ReplacesIp, updateLicense, DeletesAccount, WarpFails
  <2>4. warpData' \in Accounts /\ warpConfig' \in Accounts
    BY <1>0, <1>6, <2>1
       DEF DataArrives, register, getConfig, ReplacesIp, updateLicense, DeletesAccount, WarpFails, WarpTypeOK
  <2>5. staged' \in WarpOutbounds /\ (warpConfig' # 0 => staged'.device # 0)
    BY <1>0, <1>6, <2>1
       DEF DataArrives, register, getConfig, ReplacesIp, updateLicense, DeletesAccount, WarpFails, WarpTypeOK
  <2>6. warpDraft' \in WarpOutbounds
    BY <1>0, <1>6, <2>1, <2>5
       DEF DataArrives, register, getConfig, ReplacesIp, updateLicense, DeletesAccount, WarpFails, WarpTypeOK
  <2> QED  BY <2>2, <2>3, <2>4, <2>5, <2>6 DEF WarpTypeOK
<1> QED  BY <1>1, <1>2, <1>3, <1>4, <1>5, <1>6 DEF WarpNext

-----------------------------------------------------------------------------
LEMMA ToldStep ==
  ASSUME WarpInv, WarpNext, ~ untold'
  PROVE  Told'
<1> USE DEF warpServer, warpShown, Told, Changed
<1>0. WarpTypeOK
  BY DEF WarpInv
<1>1. CASE OpenWarp
  <2>1. warpAsks = {} /\ warpLoading' /\ staged' = NoOutbound
    BY <1>1 DEF OpenWarp, WarpAsk
  <2>2. PICK q : warpAsks' = {q} /\ q.kind = "data" /\ q.at = "sent"
    BY <1>1, <2>1, AskedOnly DEF OpenWarp
  <2> QED  BY <2>1, <2>2
<1>2. CASE WarpClick
  <2>1. warpAsks = {} /\ Told /\ warpLoading' /\ warpOpen
        /\ UNCHANGED <<warpServer, warpOpen, warpData, warpConfig, staged>>
    BY <1>2 DEF WarpClick, WarpAsk, WarpInv
  <2>2. PICK q : warpAsks' = {q} /\ q.data = warpData /\ q.at = "sent"
    BY <1>2, <2>1, AskedOnly DEF WarpClick
  <2> QED  BY <2>1, <2>2
<1>3. CASE CloseWarp \/ UseStaged
  BY <1>3 DEF CloseWarp, UseStaged, WarpInv
<1>4. CASE Rotate
  BY <1>4 DEF Rotate
<1>5. ASSUME NEW q \in warpAsks,
             ServeWarp(q) \/ RegWarp(q) \/ ReadForLicense(q) \/ SetWarpLicense(q) \/ RefuseWarp(q)
      PROVE  Told'
  <2>1. Told /\ UNCHANGED warpShown
    BY <1>5 DEF ServeWarp, RegWarp, ReadForLicense, SetWarpLicense, RefuseWarp, WarpInv
  <2>2. PICK at \in {"read", "served", "failed"}, got \in Accounts :
          /\ Reply(q, at, got)
          /\ \/ at = "served" /\ got = warpStore' /\ (q.kind \in {"reg", "changeIp", "del"} \/ warpStore' = warpStore)
             \/ at = "read" /\ got = warpStore /\ warpStore' = warpStore /\ q.kind = "license"
             \/ at = "failed" /\ warpStore' = warpStore
    <3>1. CASE ServeWarp(q)
      BY <1>0, <3>1, WarpAssumption DEF ServeWarp, WarpTypeOK, Accounts
    <3>2. CASE RegWarp(q)
      BY <1>0, <3>2, WarpAssumption DEF RegWarp, WarpTypeOK, Accounts, WarpInv
    <3>3. CASE ReadForLicense(q)
      BY <1>0, <3>3 DEF ReadForLicense, WarpTypeOK
    <3>4. CASE SetWarpLicense(q)
      BY <1>0, <2>1, <3>4 DEF SetWarpLicense, WarpTypeOK
    <3>5. CASE RefuseWarp(q)
      BY <1>0, <3>5, WarpAssumption DEF RefuseWarp, Accounts
    <3> QED  BY <1>5, <3>1, <3>2, <3>3, <3>4, <3>5
  <2>3. PICK r : /\ warpAsks' = {r}
                 /\ r.at = at /\ r.got = got /\ r.kind = q.kind /\ r.data = q.data
    <3>1. PICK r : /\ warpAsks' = (warpAsks \ {q}) \cup {r}
                   /\ r.at = at /\ r.got = got /\ r.kind = q.kind /\ r.data = q.data
      BY <1>0, <2>2, ReplyTyped
    <3>2. warpAsks = {q}
      BY <2>1
    <3> QED  BY <3>1, <3>2
  <2>4. warpLoading' /\ (r.at = "served" => r.got = warpStore')
        /\ (r.at = "read" => r.kind = "license" /\ r.got = warpStore')
    BY <2>1, <2>2, <2>3
  <2>5. q.at \in {"sent", "read"} /\ warpAsks = {q}
    BY <1>5, <2>1 DEF ServeWarp, RegWarp, ReadForLicense, SetWarpLicense, RefuseWarp
  <2>6. ASSUME warpOpen', ~ Changed(r) PROVE warpStore' = warpStore /\ ~ Changed(q)
    BY <2>2, <2>3, <2>5, <2>6
  <2>7. ASSUME warpOpen', r.kind = "config" PROVE warpStore' = warpStore /\ q.data = warpStore
    BY <2>1, <2>2, <2>3, <2>5, <2>7
  <2> QED  BY <2>1, <2>3, <2>4, <2>5, <2>6, <2>7
<1>6. ASSUME NEW q \in warpAsks,
             DataArrives(q) \/ register(q) \/ getConfig(q) \/ ReplacesIp(q) \/ updateLicense(q)
             \/ DeletesAccount(q) \/ WarpFails(q)
      PROVE  Told'
  <2>1. Told /\ UNCHANGED warpServer
    BY <1>6 DEF DataArrives, register, getConfig, ReplacesIp, updateLicense, DeletesAccount, WarpFails, WarpInv
  <2>2. warpAsks = {q} /\ warpAsks' = {}
    BY <1>6, <2>1 DEF DataArrives, register, getConfig, ReplacesIp, updateLicense, DeletesAccount, WarpFails,
                WarpAnswered
  <2>3. ASSUME warpOpen'
        PROVE  warpData' = warpStore /\ staged' \in {NoOutbound, [key |-> warpStore, device |-> warpStore]}
    <3>1. CASE DataArrives(q)
      BY <2>1, <2>2, <2>3, <3>1 DEF DataArrives
    <3>2. CASE register(q) \/ ReplacesIp(q)
      BY <2>1, <2>2, <2>3, <3>2 DEF register, ReplacesIp, collectConfig
    <3>3. CASE getConfig(q)
      BY <2>1, <2>2, <2>3, <3>3 DEF getConfig, collectConfig
    <3>4. CASE updateLicense(q)
      BY <2>1, <2>2, <2>3, <3>4 DEF updateLicense
    <3>5. CASE DeletesAccount(q)
      BY <2>3, <3>5 DEF DeletesAccount
    <3>6. CASE WarpFails(q)
      BY <2>1, <2>2, <2>3, <3>6 DEF WarpFails
    <3> QED  BY <1>6, <3>1, <3>2, <3>3, <3>4, <3>5, <3>6
  <2> QED  BY <2>1, <2>2, <2>3
<1> QED  BY <1>1, <1>2, <1>3, <1>4, <1>5, <1>6 DEF WarpNext

LEMMA WarpInvStep == WarpInv /\ WarpNext => WarpInv'
BY WarpTypeStep, ToldStep DEF WarpInv

LEMMA WarpInvStutter == WarpInv /\ UNCHANGED warpVars => WarpInv'
BY DEF WarpInv, WarpTypeOK, Told, Changed, warpVars

\* What is put into the draft is staged, or the answer that was just given.
LEMMA WarpStaged ==
  ASSUME WarpInv, WarpNext \/ UNCHANGED warpVars
  PROVE  StagedIsStored
<1> SUFFICES ASSUME warpDraft' # warpDraft, warpDraft' # NoOutbound, ~ untold
             PROVE  warpDraft' = [key |-> warpStore, device |-> warpStore]
  BY DEF WarpInv, StagedIsStored
<1>1. Told
  BY DEF WarpInv
<1>2. UseStaged \/ \E q \in warpAsks : ReplacesIp(q)
  BY DEF WarpNext, warpVars, warpServer, warpShown, OpenWarp, CloseWarp, WarpClick, Rotate, ServeWarp,
         RegWarp, ReadForLicense, SetWarpLicense, RefuseWarp, DataArrives, register, getConfig,
         updateLicense, DeletesAccount, WarpFails
<1>3. CASE UseStaged
  BY <1>1, <1>3 DEF UseStaged, Told
<1>4. ASSUME NEW q \in warpAsks, ReplacesIp(q) PROVE warpDraft' = [key |-> warpStore, device |-> warpStore]
  BY <1>1, <1>4 DEF ReplacesIp, Told, collectConfig
<1> QED  BY <1>2, <1>3, <1>4

-----------------------------------------------------------------------------
(* The pages together.  A behaviour of PagesSpec stays on its page, so the *)
(* invariant of that page is all that is known and all that is needed.     *)

PagesInv ==
  /\ page = "settings" => SettingsInv
  /\ page = "dns" => DnsInv /\ ServerOpenInv
  /\ page = "http" => HttpInv
  /\ page = "rollup" => RollupInv
  /\ page = "client form" => ClientFormInv
  /\ page = "clients" => ListInv
  /\ page = "client views" => ViewsInv
  /\ page = "inbound form" => FormInv /\ FormKnows
  /\ page = "outbound form" => OutInv
  /\ page = "inbounds" => ActionsInv
  /\ page = "groups" => GroupsInv
  /\ page = "nodes" => NodesInv
  /\ page = "hosts" => HostsInv
  /\ page = "update" => UpdateInv /\ Overlay
  /\ page = "geodata" => GeoInv
  /\ page = "basics" => BasicsInv /\ OutboundsSound /\ TemplateSound
  /\ page = "warp" => WarpInv
  /\ page = "template" => EditorInv /\ UntouchedInv

LEMMA PagesInvInit == PagesInit => PagesInv
BY SettingsInvInit, DnsInvInit, ServerOpenInit, HttpInvInit, RollupInvInit, ClientFormInvInit,
   ListInvInit, ViewsInvInit, FormInvInit, FormKnowsInit, OutInvInit, ActionsInvInit,
   GroupsInvInit, NodesInvInit, HostsInvInit, UpdateInvInit, GeoInvInit, BasicsInvInit,
   OutboundsSoundInit, TemplateSoundInit, WarpInvInit, EditorInvInit, UntouchedInit
   DEF PagesInit, PagesInv

\* A step of the system is a step of the page that is shown.
LEMMA StepOfPage ==
  ASSUME PagesNext
  PROVE  /\ page' = page
         /\ page = "settings" => SettingsNext
         /\ page = "dns" => DnsNext
         /\ page = "http" => HttpNext
         /\ page = "rollup" => RollupNext
         /\ page = "client form" => ClientFormNext
         /\ page = "clients" => ClientsListNext
         /\ page = "client views" => ClientViewsNext
         /\ page = "inbound form" => InboundFormNext
         /\ page = "outbound form" => OutboundFormNext
         /\ page = "inbounds" => InboundActionsNext
         /\ page = "groups" => GroupsNext
         /\ page = "nodes" => NodesNext
         /\ page = "hosts" => HostsNext
         /\ page = "update" => PanelUpdateNext
         /\ page = "geodata" => GeodataNext
         /\ page = "basics" => BasicsNext
         /\ page = "warp" => WarpNext
         /\ page = "template" => EditorNext
BY ZenonT(60) DEF PagesNext

LEMMA PagesInvStep == PagesInv /\ [PagesNext]_pageVars => PagesInv'
<1> SUFFICES ASSUME PagesInv, [PagesNext]_pageVars PROVE PagesInv'
  OBVIOUS
<1>1. CASE PagesNext
  <2>1. page' = page
    BY <1>1, StepOfPage
  <2>2. page' = "settings" => SettingsInv'
    BY <1>1, <2>1, StepOfPage, SettingsInvStep DEF PagesInv
  <2>3. page' = "dns" => DnsInv' /\ ServerOpenInv'
    BY <1>1, <2>1, StepOfPage, DnsInvStep, ServerOpenStep DEF PagesInv
  <2>4. page' = "http" => HttpInv'
    BY <1>1, <2>1, StepOfPage, HttpInvStep DEF PagesInv
  <2>5. page' = "rollup" => RollupInv'
    BY <1>1, <2>1, StepOfPage, RollupInvStep DEF PagesInv
  <2>6. page' = "client form" => ClientFormInv'
    BY <1>1, <2>1, StepOfPage, ClientFormInvStep DEF PagesInv
  <2>7. page' = "clients" => ListInv'
    BY <1>1, <2>1, StepOfPage, ListInvStep DEF PagesInv
  <2>8. page' = "client views" => ViewsInv'
    BY <1>1, <2>1, StepOfPage, ViewsInvStep DEF PagesInv
  <2>9. page' = "inbound form" => FormInv' /\ FormKnows'
    BY <1>1, <2>1, StepOfPage, FormInvStep, FormKnowsStep DEF PagesInv
  <2>10. page' = "outbound form" => OutInv'
    BY <1>1, <2>1, StepOfPage, OutInvStep DEF PagesInv
  <2>11. page' = "inbounds" => ActionsInv'
    BY <1>1, <2>1, StepOfPage, ActionsInvStep DEF PagesInv
  <2>12. page' = "groups" => GroupsInv'
    BY <1>1, <2>1, StepOfPage, GroupsInvStep DEF PagesInv
  <2>13. page' = "nodes" => NodesInv'
    BY <1>1, <2>1, StepOfPage, NodesInvStep DEF PagesInv
  <2>14. page' = "hosts" => HostsInv'
    BY <1>1, <2>1, StepOfPage, HostsInvStep DEF PagesInv
  <2>15. page' = "update" => UpdateInv' /\ Overlay'
    BY <1>1, <2>1, StepOfPage, UpdateInvStep, OverlayStep DEF PagesInv
  <2>16. page' = "geodata" => GeoInv'
    BY <1>1, <2>1, StepOfPage, GeoInvStep DEF PagesInv
  <2>17. page' = "basics" => BasicsInv' /\ OutboundsSound' /\ TemplateSound'
    BY <1>1, <2>1, StepOfPage, BasicsInvStep, OutboundsSoundStep, TemplateSoundStep DEF PagesInv
  <2>18. page' = "warp" => WarpInv'
    BY <1>1, <2>1, StepOfPage, WarpInvStep DEF PagesInv
  <2>19. page' = "template" => EditorInv' /\ UntouchedInv'
    BY <1>1, <2>1, StepOfPage, EditorInvStep, UntouchedStep DEF PagesInv
  <2> QED  BY <2>2, <2>3, <2>4, <2>5, <2>6, <2>7, <2>8, <2>9, <2>10, <2>11, <2>12, <2>13,
           <2>14, <2>15, <2>16, <2>17, <2>18, <2>19
           DEF PagesInv
<1>2. CASE UNCHANGED pageVars
  <2>1. /\ page' = page
        /\ UNCHANGED settingsVars /\ UNCHANGED dnsVars /\ UNCHANGED httpVars
        /\ UNCHANGED rollupVars /\ UNCHANGED clientVars /\ UNCHANGED listVars
        /\ UNCHANGED viewVars /\ UNCHANGED inbVars /\ UNCHANGED outboundVars
        /\ UNCHANGED actionVars /\ UNCHANGED groupVars /\ UNCHANGED nodeVars
        /\ UNCHANGED hostVars /\ UNCHANGED updateVars /\ UNCHANGED geodataVars
        /\ UNCHANGED basicsVars /\ UNCHANGED warpVars /\ UNCHANGED editorVars
    BY <1>2 DEF pageVars
  <2>2. page' = "settings" => SettingsInv'
    BY <2>1, SettingsInvStutter DEF PagesInv
  <2>3. page' = "dns" => DnsInv' /\ ServerOpenInv'
    BY <2>1, DnsInvStutter, ServerOpenStutter DEF PagesInv
  <2>4. page' = "http" => HttpInv'
    BY <2>1, HttpInvStep DEF PagesInv
  <2>5. page' = "rollup" => RollupInv'
    BY <2>1, RollupInvStutter DEF PagesInv
  <2>6. page' = "client form" => ClientFormInv'
    BY <2>1, ClientFormInvStutter DEF PagesInv
  <2>7. page' = "clients" => ListInv'
    BY <2>1, ListInvStutter DEF PagesInv
  <2>8. page' = "client views" => ViewsInv'
    BY <2>1, ViewsInvStutter DEF PagesInv
  <2>9. page' = "inbound form" => FormInv' /\ FormKnows'
    BY <2>1, FormInvStutter, FormKnowsStutter DEF PagesInv
  <2>10. page' = "outbound form" => OutInv'
    BY <2>1, OutInvStutter DEF PagesInv
  <2>11. page' = "inbounds" => ActionsInv'
    BY <2>1, ActionsInvStutter DEF PagesInv
  <2>12. page' = "groups" => GroupsInv'
    BY <2>1, GroupsInvStutter DEF PagesInv
  <2>13. page' = "nodes" => NodesInv'
    BY <2>1, NodesInvStutter DEF PagesInv
  <2>14. page' = "hosts" => HostsInv'
    BY <2>1, HostsInvStutter DEF PagesInv
  <2>15. page' = "update" => UpdateInv' /\ Overlay'
    BY <2>1, UpdateInvStep, OverlayStep DEF PagesInv
  <2>16. page' = "geodata" => GeoInv'
    BY <2>1, GeoInvStutter DEF PagesInv
  <2>17. page' = "basics" => BasicsInv' /\ OutboundsSound' /\ TemplateSound'
    BY <2>1, BasicsInvStutter, OutboundsSoundStutter, TemplateSoundStutter DEF PagesInv
  <2>18. page' = "warp" => WarpInv'
    BY <2>1, WarpInvStutter DEF PagesInv
  <2>19. page' = "template" => EditorInv' /\ UntouchedInv'
    BY <2>1, EditorInvStutter, UntouchedStutter DEF PagesInv
  <2> QED  BY <2>2, <2>3, <2>4, <2>5, <2>6, <2>7, <2>8, <2>9, <2>10, <2>11, <2>12, <2>13,
           <2>14, <2>15, <2>16, <2>17, <2>18, <2>19
           DEF PagesInv
<1> QED  BY <1>1, <1>2

LEMMA PagesInvariant == PagesSpec => []PagesInv
<1> QED  BY PagesInvInit, PagesInvStep, PTL DEF PagesSpec

-----------------------------------------------------------------------------
\* Whatever order a page is edited in and whatever answers overtake each other,
\* what it sends is well formed: one transport in an inbound, no secret both typed
\* and cleared, one execution of a request, only templates that parse.
THEOREM RequestsSound == PagesSpec => []RequestsAreSound
<1>1. PagesInv => RequestsAreSound
  <2>1. HttpInv => AtMostOnce /\ RefusedForCause
    <3>1. \A n \in {0, 1} : n <= 1
      OBVIOUS
    <3> QED  BY <3>1 DEF HttpInv, Unexecuted, RetryIsCurrent, AtMostOnce, RefusedForCause
  <2>2. SettingsInv => NeverTypedAndCleared
    BY DEF SettingsInv, NothingArmed
  <2>3. DnsInv => FakednsUsable
    BY DEF DnsInv
  <2>4. BasicsInv => MetricsHaveStats
    BY DEF BasicsInv
  <2> QED  BY <2>1, <2>2, <2>3, <2>4, FormTruth, EditorTruth DEF PagesInv, RequestsAreSound
<1> QED  BY <1>1, PagesInvariant, PTL

\* What a page says of what is stored is so, in whatever order its own requests are
\* answered, except in the cases that PagesShowTheTruth names: an empty list means
\* that there is nothing unless clients were changed while a later page was shown,
\* counts are of the clients that are counted once they follow a list, what is
\* selected was seen, a draft at rest and without edits shows what is stored unless
\* the server moved without it or a save went unheard, lists that nothing is asked
\* for are current unless others changed them, and an update is covered until its
\* outcome is told unless an operation begun before it ends.
THEOREM ShownIsTrue == PagesSpec => []PagesShowTheTruth
<1>1. PagesInv => PagesShowTheTruth
  <2>1. RollupInv => CountsCurrent /\ OnlineOnce
    BY DEF RollupInv
  <2>2. ActionsInv => SelectionSeen
    BY DEF ActionsInv
  <2>3. DnsInv => HostsShown
    BY DEF DnsInv
  <2>4. Overlay => CoveredWhileBusy
    BY DEF Overlay
  <2> QED
    BY <2>1, <2>2, <2>3, <2>4, ListTruth, SettingsTruth, EditorTruth, GroupsTruth, GeoTruth
       DEF PagesInv, PagesShowTheTruth
<1> QED  BY <1>1, PagesInvariant, PTL

\* A dialog acts on what it was opened for.  Any answers may arrive while it is
\* open; a client's form and a group's dialog keep their subject when no other
\* row's record, and no other group's members, were awaited as they opened, and
\* the other exceptions are those that DialogsActOnTheirSubject names.
THEOREM DialogsKeepTheirSubject == PagesSpec => []DialogsActOnTheirSubject
<1>1. PagesInv => DialogsActOnTheirSubject
  <2>1. ClientFormInv => FormIsItsClient
    BY ClientFormInvTypes
  <2>2. ViewsInv => ViewsShowTheirClient
    BY DEF ViewsInv
  <2>3. ActionsInv => PickedForItsInbound
    BY DEF ActionsInv
  <2>4. NodesInv => ChannelAsShown
    BY NodesInvTypes
  <2>5. UpdateInv => OutcomeIsOurs
    BY DEF UpdateInv, OutcomeIsTrue, OutcomeIsOurs, EndedAs, Verdicts
  <2> QED
    BY <2>1, <2>2, <2>3, <2>4, <2>5, GroupsTruth, GeoTruth DEF PagesInv, DialogsActOnTheirSubject
<1> QED  BY <1>1, PagesInvariant, PTL

\* What a page holds is what its requests and answers can bring, on every page,
\* with what its type says beside types: the settings of the direct outbound are
\* there with the outbound, an operation that is shown is covered.
THEOREM PagesTyped == PagesSpec => []PagesTypeOK
<1>1. PagesInv => PagesTypeOK
  <2>1. /\ SettingsInv => SettingsTypeOK
        /\ DnsInv => DnsTypeOK
        /\ HttpInv => HttpTypeOK
        /\ RollupInv => RollupTypeOK
        /\ ViewsInv => ClientViewsTypeOK
        /\ ActionsInv => InboundActionsTypeOK
        /\ UpdateInv /\ Overlay => PanelUpdateTypeOK
        /\ GeoInv => GeodataTypeOK
        /\ WarpInv => WarpTypeOK
        /\ EditorInv => EditorTypeOK
    BY DEF SettingsInv, DnsInv, HttpInv, RollupInv, ViewsInv, ActionsInv, UpdateInv, UpdateTypes, Overlay,
           PanelUpdateTypeOK, GeoInv, GeoTyped, WarpInv, EditorInv
  <2>2. FormInv /\ FormKnows => InboundFormTypeOK
    BY FormKnowsTypes
  <2>3. /\ ClientFormInv => ClientFormTypeOK
        /\ ListInv => ClientsListTypeOK
        /\ NodesInv => NodesTypeOK
        /\ HostsInv => HostsTypeOK
        /\ OutboundsSound => BasicsTypeOK
    BY ClientFormInvTypes, ListTruth, NodesInvTypes, HostsInvTypes, BasicsTyped
  <2> SUFFICES ASSUME PagesInv PROVE PagesTypeOK
    OBVIOUS
  <2>4. /\ page = "settings" => SettingsTypeOK
        /\ page = "dns" => DnsTypeOK
        /\ page = "http" => HttpTypeOK
        /\ page = "rollup" => RollupTypeOK
    BY <2>1 DEF PagesInv
  <2>5. /\ page = "client form" => ClientFormTypeOK
        /\ page = "clients" => ClientsListTypeOK
        /\ page = "client views" => ClientViewsTypeOK
        /\ page = "inbound form" => InboundFormTypeOK
        /\ page = "inbounds" => InboundActionsTypeOK
    BY <2>1, <2>2, <2>3 DEF PagesInv
  <2>6. /\ page = "nodes" => NodesTypeOK
        /\ page = "hosts" => HostsTypeOK
        /\ page = "update" => PanelUpdateTypeOK
        /\ page = "geodata" => GeodataTypeOK
    BY <2>1, <2>3 DEF PagesInv
  <2>7. /\ page = "basics" => BasicsTypeOK
        /\ page = "warp" => WarpTypeOK
        /\ page = "template" => EditorTypeOK
    BY <2>1, <2>3 DEF PagesInv
  <2> QED  BY <2>4, <2>5, <2>6, <2>7 DEF PagesTypeOK
<1> QED  BY <1>1, PagesInvariant, PTL

\* A dialog that is saved as it was opened stores what it was opened with, in the
\* fields that it shows and in those that it does not, and one that was changed
\* stores what it showed when it was confirmed.  The saves that the code does not
\* keep whole are those that SavedIsWhatWasShown names: beside a client's form that
\* was given another client, after a save that stopped halfway, before an
\* inbound's fallback rows were shown, and of what a form has no field for.
THEOREM SavesStoreTheDialog == PagesSpec => SavedIsWhatWasShown
<1>1. PagesInv /\ [PagesNext]_pageVars =>
        [/\ page = "client form" => UntouchedSaveKeeps /\ SavedWhole
         /\ page = "inbound form" => InboundKept
         /\ page = "outbound form" => ConfirmedAsEdited
         /\ page = "nodes" => UntouchedNodeKept /\ SavedWasReached
         /\ page = "hosts" => HostKept
         /\ page = "warp" => StagedIsStored]_pageVars
  <2> SUFFICES ASSUME PagesInv, PagesNext
               PROVE  /\ page = "client form" => UntouchedSaveKeeps /\ SavedWhole
                      /\ page = "inbound form" => InboundKept
                      /\ page = "outbound form" => ConfirmedAsEdited
                      /\ page = "nodes" => UntouchedNodeKept /\ SavedWasReached
                      /\ page = "hosts" => HostKept
                      /\ page = "warp" => StagedIsStored
    OBVIOUS
  <2>1. page = "client form" => UntouchedSaveKeeps /\ SavedWhole
    BY StepOfPage, UntouchedSaves, SavesWhole DEF PagesInv
  <2>2. page = "inbound form" => InboundKept
    BY StepOfPage, FormKnowsStep DEF PagesInv
  <2>3. page = "outbound form" => ConfirmedAsEdited
    BY StepOfPage, ConfirmedFromInv DEF PagesInv
  <2>4. page = "nodes" => UntouchedNodeKept /\ SavedWasReached
    BY StepOfPage, NodesStored DEF PagesInv
  <2>5. page = "hosts" => HostKept
    BY HostKeeps DEF PagesInv
  <2>6. page = "warp" => StagedIsStored
    BY StepOfPage, WarpStaged DEF PagesInv
  <2> QED  BY <2>1, <2>2, <2>3, <2>4, <2>5, <2>6
<1> QED  BY <1>1, PagesInvariant, PTL DEF PagesSpec, SavedIsWhatWasShown

\* An edit changes what it is an edit of and nothing beside it: a server of the DNS
\* section no other server, a list of the basic controls no other list and nothing
\* that the controls do not show, a move of a host only the two that change places.
\* An answer takes the edits of a draft only if it brings news: they were made
\* while a save or a refetch was on its way, or the server had moved, or stored a
\* save, without the draft being told.
THEOREM EditsStandApart == PagesSpec => EditsStayApart
<1>1. PagesInv /\ [PagesNext]_pageVars =>
        [/\ page = "dns" => OneServerChanges
         /\ page = "basics" => ListsReadBack /\ UnshownKept
         /\ page = "hosts" => MovesSwap
         /\ page = "settings" => DiscardedOnlyByNews /\ RestartServesTarget
         /\ page = "template" => TakenOnlyByNews /\ KeysKept]_pageVars
  <2> SUFFICES ASSUME PagesInv, PagesNext
               PROVE  /\ page = "dns" => OneServerChanges
                      /\ page = "basics" => ListsReadBack /\ UnshownKept
                      /\ page = "hosts" => MovesSwap
                      /\ page = "settings" => DiscardedOnlyByNews /\ RestartServesTarget
                      /\ page = "template" => TakenOnlyByNews /\ KeysKept
    OBVIOUS
  <2>1. page = "dns" => OneServerChanges
    BY DnsStepsApart DEF PagesInv
  <2>2. page = "basics" => ListsReadBack /\ UnshownKept
    BY StepOfPage, BasicsStepsApart DEF PagesInv
  <2>3. page = "hosts" => MovesSwap
    BY HostsStepsApart DEF PagesInv
  <2>4. page = "settings" => DiscardedOnlyByNews /\ RestartServesTarget
    BY SettingsStepsApart DEF PagesInv
  <2>5. page = "template" => TakenOnlyByNews /\ KeysKept
    BY EditorStepsApart DEF PagesInv
  <2> QED  BY <2>1, <2>2, <2>3, <2>4, <2>5
<1> QED  BY <1>1, PagesInvariant, PTL DEF PagesSpec, EditsStayApart
=============================================================================
