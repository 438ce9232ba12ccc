--------------------------- MODULE LivePartsProofs ---------------------------
(***************************************************************************)
(* Proofs about the parts of the web interface that have to come to rest:  *)
(* for every number of lists' changes, messages, sockets, outbounds and    *)
(* selections.  The parts share no variable, so that an invariant of a     *)
(* part is one of the composition.                                         *)
(***************************************************************************)
EXTENDS LiveParts, FiniteSetTheorems, TLAPS

-----------------------------------------------------------------------------
(* The WebSocket client, for any number of sockets and pages and any limit *)
(* of attempts: it is never left without a socket and without a timer, it  *)
(* never has two sockets, and its steps are steps of the link that the     *)
(* pages are promised (ReliableLink).                                      *)

\* The reconnect flag is set whenever it may be read to keep the link: with a
\* socket in use, and while a page has asked for the link.
ReconnectMeant ==
  /\ ws \in Sockets => shouldReconnect
  /\ asked => shouldReconnect

\* A client that was not asked is at rest.
RestWhenNotAsked == ~ asked => ws = None /\ timer = "none"

\* A link that is up has forgotten the attempts that it took.
UpCountsFromZero == (ws \in Sockets /\ sock[ws] = "open") => attempts = 0

SocketInv ==
  /\ SocketTypeOK
  /\ ReconnectMeant
  /\ RestWhenNotAsked
  /\ UpCountsFromZero
  /\ NeverStranded
  /\ OneSocket

-----------------------------------------------------------------------------
\* Without a live socket in use there is none at all.
LEMMA NoneAlive ==
  ASSUME SocketInv, ws \notin Alive
  PROVE  Alive = {}
BY DEF SocketInv, OneSocket

\* openSocket keeps the invariant where it is called: the link is wanted and no
\* socket is alive.
LEMMA OpenSocketKeeps ==
  ASSUME SocketInv, Alive = {}, openSocket,
         asked', shouldReconnect', listeners' \in SUBSET Pages,
         isConnected' = isConnected, reachable' = reachable
  PROVE  SocketInv'
<1>1. CASE \E s \in Sockets :
             /\ sock[s] = "free"
             /\ sock' = [sock EXCEPT ![s] = "connecting"]
             /\ ws' = s /\ timer' = "none" /\ UNCHANGED attempts
  <2>1. PICK s \in Sockets :
          /\ sock' = [sock EXCEPT ![s] = "connecting"]
          /\ ws' = s /\ timer' = "none" /\ attempts' = attempts
    BY <1>1
  <2>2. sock' \in [Sockets -> {"free", "connecting", "open", "closing"}] /\ sock'[s] = "connecting"
    BY <2>1 DEF SocketInv, SocketTypeOK
  <2>3. Alive' = {s}
    BY <2>1, <2>2 DEF Alive, SocketInv, SocketTypeOK
  <2>4. SocketTypeOK'
    BY <2>1, <2>2 DEF SocketInv, SocketTypeOK
  <2> QED
    BY <2>1, <2>2, <2>3, <2>4
    DEF SocketInv, ReconnectMeant, RestWhenNotAsked, UpCountsFromZero, NeverStranded, OneSocket
<1>2. CASE ~ reachable /\ scheduleReconnect /\ UNCHANGED <<sock, ws>>
  <2>1. Alive' = {} /\ timer' \in {"backoff", "slow"} /\ attempts' \in 0..MaxAttempts
    BY <1>2, SocketAssumption DEF Alive, scheduleReconnect, SocketInv, SocketTypeOK
  <2>2. ~ (ws' \in Sockets /\ sock'[ws'] = "open")
    BY <1>2 DEF Alive
  <2> QED
    BY <1>2, <2>1, <2>2
    DEF SocketInv, SocketTypeOK, ReconnectMeant, RestWhenNotAsked, UpCountsFromZero,
        NeverStranded, OneSocket
<1> QED
  BY <1>1, <1>2 DEF openSocket

-----------------------------------------------------------------------------
(* The invariant is inductive *)

LEMMA SocketInvInit == SocketInit => SocketInv
<1> SUFFICES ASSUME SocketInit PROVE SocketInv
  OBVIOUS
<1>1. Alive = {} /\ ws \notin Sockets
  BY SocketAssumption DEF SocketInit, Alive
<1>2. SocketTypeOK
  <2>1. 0 \in 0..MaxAttempts
    BY SocketAssumption
  <2> QED
    BY <2>1 DEF SocketInit, SocketTypeOK
<1> QED
  BY <1>1, <1>2
  DEF SocketInit, SocketInv, ReconnectMeant, RestWhenNotAsked, UpCountsFromZero, NeverStranded,
      OneSocket

LEMMA ConnectKeeps ==
  ASSUME SocketInv, NEW p \in Pages, Connect(p)
  PROVE  SocketInv'
<1>1. CASE ws \in Alive
  BY <1>1
  DEF Connect, SocketInv, SocketTypeOK, ReconnectMeant, RestWhenNotAsked, UpCountsFromZero,
      NeverStranded, OneSocket, Alive
<1>2. CASE ws \notin Alive
  <2>1. Alive = {}
    BY <1>2, NoneAlive
  <2>2. /\ openSocket /\ asked' /\ shouldReconnect'
        /\ isConnected' = isConnected /\ reachable' = reachable
    BY <1>2 DEF Connect
  <2>3. listeners' \in SUBSET Pages
    BY DEF Connect, SocketInv, SocketTypeOK
  <2> QED
    BY <2>1, <2>2, <2>3, OpenSocketKeeps
<1> QED
  BY <1>1, <1>2

LEMMA LeaveKeeps ==
  ASSUME SocketInv, NEW p \in Pages, Leave(p)
  PROVE  SocketInv'
<1>1. listeners' \in SUBSET Pages
  BY DEF Leave, SocketInv, SocketTypeOK
<1>2. UNCHANGED <<sock, ws, shouldReconnect, attempts, isConnected, timer, asked, reachable>>
  BY DEF Leave
<1> QED
  BY <1>1, <1>2
  DEF SocketInv, SocketTypeOK, ReconnectMeant, RestWhenNotAsked, UpCountsFromZero, NeverStranded,
      OneSocket, Alive

LEMMA DisconnectKeeps ==
  ASSUME SocketInv, disconnect
  PROVE  SocketInv'
<1>1. Alive' = {}
  BY DEF disconnect, Alive, SocketInv, SocketTypeOK, OneSocket
<1>2. SocketTypeOK'
  <2>1. 0 \in 0..MaxAttempts
    BY SocketAssumption
  <2>2. sock' \in [Sockets -> {"free", "connecting", "open", "closing"}]
    BY DEF disconnect, SocketInv, SocketTypeOK
  <2> QED
    BY <2>1, <2>2 DEF disconnect, SocketInv, SocketTypeOK
<1> QED
  BY <1>1, <1>2, SocketAssumption
  DEF disconnect, SocketInv, ReconnectMeant, RestWhenNotAsked, UpCountsFromZero, NeverStranded,
      OneSocket

LEMMA OpensKeeps ==
  ASSUME SocketInv, NEW s \in Sockets, Opens(s)
  PROVE  SocketInv'
<1>1. s = ws /\ s \in Alive
  BY DEF Opens, SocketInv, OneSocket, Alive
<1>2. attempts' = 0 /\ Alive' = Alive
  BY <1>1 DEF Opens, Alive, SocketInv, SocketTypeOK
<1>3. SocketTypeOK'
  BY <1>1, <1>2, SocketAssumption DEF Opens, wish, SocketInv, SocketTypeOK
<1>4. UNCHANGED <<ws, shouldReconnect, asked, timer>>
  BY DEF Opens, wish
<1> QED
  BY <1>1, <1>2, <1>3, <1>4
  DEF SocketInv, ReconnectMeant, RestWhenNotAsked, UpCountsFromZero, NeverStranded, OneSocket

LEMMA ClosesKeeps ==
  ASSUME SocketInv, NEW s \in Sockets, Closes(s)
  PROVE  SocketInv'
<1>1. Alive' = Alive \ {s}
  BY DEF Closes, Alive, SocketInv, SocketTypeOK
<1>2. CASE ws = s
  <2>1. Alive' = {}
    BY <1>1, <1>2 DEF SocketInv, OneSocket
  <2>2. scheduleReconnect /\ shouldReconnect'
    BY <1>2 DEF Closes, wish, SocketInv, ReconnectMeant
  <2>3. timer' \in {"backoff", "slow"} /\ attempts' \in 0..MaxAttempts
    BY <2>2, SocketAssumption DEF scheduleReconnect, SocketInv, SocketTypeOK
  <2>4. ws' = None /\ asked' = asked /\ asked
    BY <1>2, SocketAssumption DEF Closes, wish, SocketInv, RestWhenNotAsked
  <2>5. SocketTypeOK'
    BY <1>2, <2>3, <2>4 DEF Closes, wish, SocketInv, SocketTypeOK
  <2> QED
    BY <2>1, <2>2, <2>3, <2>4, <2>5, SocketAssumption
    DEF SocketInv, ReconnectMeant, RestWhenNotAsked, UpCountsFromZero, NeverStranded, OneSocket
<1>3. CASE ws # s
  <2>1. SocketTypeOK'
    BY <1>3 DEF Closes, wish, SocketInv, SocketTypeOK
  <2>2. ws \in Sockets => sock'[ws] = sock[ws]
    BY <1>3 DEF Closes, SocketInv, SocketTypeOK
  <2> QED
    BY <1>1, <1>3, <2>1, <2>2
    DEF Closes, wish, SocketInv, ReconnectMeant, RestWhenNotAsked, UpCountsFromZero,
        NeverStranded, OneSocket
<1> QED
  BY <1>2, <1>3

LEMMA TooBigKeeps ==
  ASSUME SocketInv, TooBig
  PROVE  SocketInv'
<1>1. SocketTypeOK' /\ sock'[ws] = "closing"
  BY DEF TooBig, wish, SocketInv, SocketTypeOK
<1>2. Alive' = {}
  BY <1>1 DEF TooBig, Alive, SocketInv, SocketTypeOK, OneSocket
<1> QED
  BY <1>1, <1>2
  DEF TooBig, wish, SocketInv, ReconnectMeant, RestWhenNotAsked, UpCountsFromZero, NeverStranded,
      OneSocket

LEMMA TimerFiresKeeps ==
  ASSUME SocketInv, TimerFires
  PROVE  SocketInv'
<1>1. asked /\ shouldReconnect
  BY DEF TimerFires, SocketInv, RestWhenNotAsked, ReconnectMeant
<1>2. /\ openSocket /\ Alive = {} /\ asked' /\ shouldReconnect'
      /\ isConnected' = isConnected /\ reachable' = reachable
  BY <1>1 DEF TimerFires, wish, SocketInv, OneSocket
<1>3. listeners' \in SUBSET Pages
  BY DEF TimerFires, wish, SocketInv, SocketTypeOK
<1> QED
  BY <1>2, <1>3, OpenSocketKeeps

LEMMA NetworkChangesKeeps ==
  ASSUME SocketInv, NetworkChanges
  PROVE  SocketInv'
BY DEF NetworkChanges, wish, SocketInv, SocketTypeOK, ReconnectMeant, RestWhenNotAsked,
       UpCountsFromZero, NeverStranded, OneSocket, Alive

LEMMA SocketInvStep == SocketInv /\ [SocketNext]_socketVars => SocketInv'
<1> SUFFICES ASSUME SocketInv, [SocketNext]_socketVars PROVE SocketInv'
  OBVIOUS
<1>1. ASSUME NEW p \in Pages, Connect(p) \/ Leave(p) PROVE SocketInv'
  BY <1>1, ConnectKeeps, LeaveKeeps
<1>2. ASSUME NEW s \in Sockets, Opens(s) \/ Closes(s) PROVE SocketInv'
  BY <1>2, OpensKeeps, ClosesKeeps
<1>3. CASE UNCHANGED socketVars
  BY <1>3
  DEF socketVars, SocketInv, SocketTypeOK, ReconnectMeant, RestWhenNotAsked, UpCountsFromZero,
      NeverStranded, OneSocket, Alive
<1> QED
  BY <1>1, <1>2, <1>3, DisconnectKeeps, TooBigKeeps, TimerFiresKeeps, NetworkChangesKeeps
  DEF SocketNext

LEMMA SocketInvariant == SocketSpec => []SocketInv
BY SocketInvInit, SocketInvStep, PTL DEF SocketSpec

-----------------------------------------------------------------------------
\* The client's state keeps its shape (WebSocketClient's fields).
THEOREM SocketTyping == SocketSpec => []SocketTypeOK
<1>1. SocketInv => SocketTypeOK
  BY DEF SocketInv
<1> QED
  BY <1>1, SocketInvariant, PTL

\* While a page has asked for the link there is a socket or a timer that will
\* make one; there is one live socket at most; and after disconnect nothing
\* comes back (scheduleReconnect, the guards of the event handlers).
THEOREM NeverStrandedNorDouble == SocketSpec => []SocketOrTimer
<1>1. SocketInv => QuietAfterDisconnect
  BY SocketAssumption DEF SocketInv, OneSocket, RestWhenNotAsked, QuietAfterDisconnect, Alive
<1>2. SocketInv => SocketOrTimer
  BY <1>1 DEF SocketInv, SocketOrTimer
<1> QED
  BY <1>2, SocketInvariant, PTL

\* A link that was up is retried with the short delay, however many attempts an
\* earlier outage took (the open handler resets the count).
THEOREM RetriedFast == SocketSpec => LostIsRetriedFast
<1>1. ASSUME SocketInv, [SocketNext]_socketVars,
             ws \in Sockets, sock[ws] = "open", ws' = None, timer' # "none"
      PROVE  timer' = "backoff"
  <2>1. attempts = 0 /\ ws # None /\ ws \in Alive /\ timer = "none" /\ 0 < MaxAttempts
    BY <1>1, SocketAssumption DEF SocketInv, UpCountsFromZero, OneSocket, Alive
  <2>2. ASSUME NEW s \in Sockets, Closes(s) PROVE timer' = "backoff"
    BY <1>1, <2>1, <2>2 DEF Closes, scheduleReconnect
  <2>3. ASSUME NEW p \in Pages, Connect(p) \/ Leave(p) PROVE FALSE
    BY <1>1, <2>1, <2>3 DEF Connect, Leave
  <2>4. ASSUME NEW s \in Sockets, Opens(s) PROVE FALSE
    BY <1>1, <2>1, <2>4 DEF Opens
  <2>5. ~ disconnect /\ ~ TooBig /\ ~ TimerFires /\ ~ NetworkChanges /\ ~ UNCHANGED socketVars
    BY <1>1, <2>1 DEF disconnect, TooBig, TimerFires, NetworkChanges, socketVars
  <2> QED
    BY <1>1, <2>2, <2>3, <2>4, <2>5 DEF SocketNext
<1>2. SocketInv /\ [SocketNext]_socketVars =>
        [(ws \in Sockets /\ sock[ws] = "open" /\ ws' = None /\ timer' # "none")
           => timer' = "backoff"]_socketVars
  BY <1>1
<1> QED
  BY <1>2, SocketInvariant, PTL DEF SocketSpec, LostIsRetriedFast

-----------------------------------------------------------------------------
(* The client implements the link *)

\* The refinement mapping of `link`.
LinkNow == IF ws \in Sockets THEN IF sock[ws] = "open" THEN "up" ELSE "down" ELSE "down"

LEMMA DownUnlessAlive == ws \notin Alive => LinkNow = "down"
BY DEF LinkNow, Alive

\* A socket that is opened leaves the link down.
LEMMA OpenSocketStaysDown ==
  ASSUME SocketInv, Alive = {}, openSocket
  PROVE  LinkNow = "down" /\ LinkNow' = "down"
<1>1. LinkNow = "down"
  BY DownUnlessAlive
<1>2. CASE \E s \in Sockets : sock' = [sock EXCEPT ![s] = "connecting"] /\ ws' = s
  <2>1. PICK s \in Sockets : sock' = [sock EXCEPT ![s] = "connecting"] /\ ws' = s
    BY <1>2
  <2>2. sock'[s] = "connecting"
    BY <2>1 DEF SocketInv, SocketTypeOK
  <2> QED
    BY <1>1, <2>1, <2>2 DEF LinkNow
<1>3. CASE UNCHANGED <<sock, ws>>
  BY <1>1, <1>3 DEF LinkNow
<1> QED
  BY <1>1, <1>2, <1>3 DEF openSocket

\* Every step of the client is a step of the link or changes nothing of it.
LEMMA LinkStep ==
  ASSUME SocketInv, [SocketNext]_socketVars
  PROVE  [Link!LinkNext]_(Link!linkVars)
<1> USE DEF Link!LinkNext, Link!linkVars
<1> DEFINE Same == asked' = asked /\ LinkNow' = LinkNow /\ reachable' = reachable
<1>0. Same => UNCHANGED Link!linkVars
  BY DEF LinkNow
<1>1. ASSUME NEW p \in Pages, Connect(p) PROVE Link!Want
  <2>1. LinkNow' = LinkNow
    BY <1>1, NoneAlive, OpenSocketStaysDown DEF Connect, LinkNow
  <2> QED
    BY <1>1, <2>1 DEF Connect, Link!Want, LinkNow
<1>2. ASSUME NEW p \in Pages, Leave(p) PROVE Same
  BY <1>2 DEF Leave, LinkNow
<1>3. CASE disconnect
  <2>1. LinkNow' = "down"
    BY <1>3, SocketAssumption DEF disconnect, LinkNow
  <2> QED
    BY <1>3, <2>1 DEF disconnect, Link!Unwant, LinkNow
<1>4. ASSUME NEW s \in Sockets, Opens(s) PROVE Link!ComeUp
  <2>1. s = ws /\ asked
    BY <1>4, SocketAssumption DEF Opens, SocketInv, OneSocket, Alive, RestWhenNotAsked
  <2>2. LinkNow = "down" /\ LinkNow' = "up"
    BY <1>4, <2>1 DEF Opens, LinkNow, SocketInv, SocketTypeOK
  <2> QED
    BY <1>4, <2>1, <2>2 DEF Opens, wish, Link!ComeUp, LinkNow
<1>5. ASSUME NEW s \in Sockets, Closes(s) PROVE Same \/ Link!GoDown
  <2>1. CASE ws = s
    <3>1. LinkNow' = "down" /\ asked' = asked /\ reachable' = reachable
      BY <1>5, <2>1, SocketAssumption DEF Closes, wish, LinkNow
    <3>2. LinkNow \in {"up", "down"}
      BY DEF LinkNow
    <3> QED
      BY <3>1, <3>2 DEF Link!GoDown, LinkNow
  <2>2. CASE ws # s
    BY <1>5, <2>2 DEF Closes, wish, LinkNow, SocketInv, SocketTypeOK
  <2> QED
    BY <2>1, <2>2
<1>6. CASE TooBig
  <2>1. LinkNow = "up" /\ LinkNow' = "down"
    BY <1>6 DEF TooBig, LinkNow, SocketInv, SocketTypeOK
  <2> QED
    BY <1>6, <2>1 DEF TooBig, wish, Link!GoDown, LinkNow
<1>7. CASE TimerFires
  <2>1. openSocket /\ Alive = {}
    BY <1>7 DEF TimerFires, SocketInv, OneSocket, RestWhenNotAsked, ReconnectMeant
  <2> QED
    BY <1>0, <1>7, <2>1, OpenSocketStaysDown DEF TimerFires, wish
<1>8. CASE NetworkChanges
  BY <1>8 DEF NetworkChanges, wish, Link!Reachability
<1>9. CASE UNCHANGED socketVars
  BY <1>9 DEF socketVars
<1> QED
  BY <1>0, <1>1, <1>2, <1>3, <1>4, <1>5, <1>6, <1>7, <1>8, <1>9 DEF SocketNext

\* The WebSocket client implements the safety part of ReliableLink: the link
\* comes up only while it is wanted and the server can be reached, and no call
\* or event of an old socket touches it.
THEOREM ImplementsLink == SocketSpec => Link!LinkSafety
<1>1. SocketInit => Link!LinkInit
  BY SocketAssumption DEF SocketInit, Link!LinkInit
<1>2. SocketInv /\ [SocketNext]_socketVars => [Link!LinkNext]_(Link!linkVars)
  BY LinkStep
<1> QED
  BY <1>1, <1>2, SocketInvariant, PTL DEF SocketSpec, Link!LinkSafety

-----------------------------------------------------------------------------
(* The lists: why a list that is at rest is fresh *)

Has(m) == \E i \in DOMAIN inbox : inbox[i] = m

ListOf(v) == [kind |-> "list", version |-> v]

\* A list that differs from the server's has something under way that will
\* bring it up to date, or is marked for the opening of its page.
Pending(l) ==
  \/ cached[l] = stored[l]
  \/ listFetch[l] = stored[l]
  \/ l \in marked
  \/ bridgeTimer = l
  \/ post \in {"clients", l}
  \/ Has(Notice(l))
  \/ l = "inbounds" /\ Has(ListOf(stored[l]))

\* No version is known before the server has it.
VersionsStored ==
  /\ \A l \in Lists :
       cached[l] <= stored[l] /\ (listFetch[l] # NoListFetch => listFetch[l] <= stored[l])
  /\ \A i \in DOMAIN inbox : inbox[i].kind = "list" => inbox[i].version <= stored["inbounds"]

\* The fetch under way will not bring back a version older than the cached one.
FetchForward(l) == listFetch[l] # NoListFetch => cached[l] <= listFetch[l]

LiveInv ==
  /\ LiveTypeOK
  /\ VersionsStored
  /\ \A l \in Lists \ excused : FetchForward(l) /\ Pending(l)

LEMMA NoFetchIsNoVersion ==
  ASSUME LiveTypeOK, NEW l \in Lists
  PROVE  stored[l] \in Nat /\ cached[l] \in Nat /\ listFetch[l] \in Nat
         /\ NoListFetch \in Nat /\ stored[l] # NoListFetch /\ cached[l] # NoListFetch
         /\ stored[l] \in 0..MaxChanges /\ listFetch[l] \in 0..NoListFetch
BY LiveAssumption DEF LiveTypeOK, NoListFetch

LEMMA AtRestFresh == LiveInv => FreshOrExcused
<1> SUFFICES ASSUME LiveInv, Settled, NEW l \in Lists \ excused
             PROVE  cached[l] = stored[l] \/ l \in marked
  BY DEF FreshOrExcused
<1>1. Pending(l) /\ LiveTypeOK
  BY DEF LiveInv
<1>2. listFetch[l] # stored[l]
  BY <1>1, NoFetchIsNoVersion DEF Settled
<1>3. ~Has(Notice(l)) /\ ~Has(ListOf(stored[l]))
  BY DEF Settled, Has
<1>4. bridgeTimer # l /\ post \notin {"clients", l}
  BY DEF Settled, NoTimer, NoPost, Lists
<1> QED
  BY <1>1, <1>2, <1>3, <1>4 DEF Pending

\* What is in a sequence stays in it when messages are appended, and when the
\* first one, another, is taken.
LEMMA StaysAppended ==
  ASSUME inbox \in Seq(Message), NEW ms \in Seq(Message), inbox' = inbox \o ms,
         NEW m, Has(m) \/ \E i \in DOMAIN ms : ms[i] = m
  PROVE  Has(m)'
<1>1. CASE Has(m)
  BY <1>1 DEF Has
<1>2. CASE \E i \in DOMAIN ms : ms[i] = m
  <2>1. PICK i \in DOMAIN ms : ms[i] = m
    BY <1>2
  <2>2. Len(inbox) + i \in DOMAIN (inbox \o ms) /\ (inbox \o ms)[Len(inbox) + i] = m
    BY <2>1
  <2> QED
    BY <2>2 DEF Has
<1> QED
  BY <1>1, <1>2

LEMMA StaysBehind ==
  ASSUME inbox \in Seq(Message), NEW a, Arrives(a), NEW m, m # a, Has(m)
  PROVE  Has(m)'
<1>1. PICK i \in DOMAIN inbox : inbox[i] = m
  BY DEF Has
<1>2. i # 1 /\ i - 1 \in DOMAIN Tail(inbox) /\ Tail(inbox)[i - 1] = m
  BY <1>1 DEF Arrives
<1> QED
  BY <1>2 DEF Has, Arrives

LEMMA LiveInvInit == LiveInit => LiveInv
<1> SUFFICES ASSUME LiveInit PROVE LiveInv
  OBVIOUS
<1>1. LiveTypeOK
  <2>1. inbox \in Seq(Message) /\ Len(inbox) <= MaxInbox
    BY LiveAssumption DEF LiveInit
  <2>2. 0 \in 0..MaxChanges /\ NoListFetch \in 0..NoListFetch
    BY LiveAssumption DEF NoListFetch
  <2> QED
    BY <2>1, <2>2 DEF LiveInit, LiveTypeOK
<1>2. VersionsStored
  BY LiveAssumption DEF LiveInit, VersionsStored
<1>3. ASSUME NEW l \in Lists PROVE FetchForward(l) /\ Pending(l)
  BY <1>3 DEF LiveInit, FetchForward, Pending
<1> QED
  BY <1>1, <1>2, <1>3 DEF LiveInv

-----------------------------------------------------------------------------
\* A change at the server that is told by messages, or by the answer of the
\* request that made it.
LEMMA ServerChangeKeeps ==
  ASSUME LiveInv, NEW S \in SUBSET Lists, Change(S), NEW ms \in Seq(Message), Broadcast(ms),
         \A l \in S : \/ \E i \in DOMAIN ms : ms[i] = Notice(l)
                      \/ l = "inbounds" /\ \E i \in DOMAIN ms : ms[i] = ListOf(stored'[l])
                      \/ post' = "clients",
         \A i \in DOMAIN ms : ms[i].kind = "list" => ms[i].version <= stored'["inbounds"],
         UNCHANGED <<listCache, bridge, link>>,
         post' \in Lists \cup {NoPost}, post' = post \/ post = NoPost
  PROVE  LiveInv'
<1> USE DEF listCache, bridge
<1>1. /\ stored' \in [Lists -> 0..MaxChanges]
      /\ \A l \in Lists : stored[l] <= stored'[l] /\ (l \notin S => stored'[l] = stored[l])
      /\ \A l \in Lists : stored[l] \in Nat /\ cached[l] \in Nat /\ listFetch[l] \in Nat
  <2>1. \A l \in Lists : stored[l] \in 0..MaxChanges /\ cached[l] \in Nat /\ listFetch[l] \in Nat
    BY NoFetchIsNoVersion DEF LiveInv
  <2> QED
    BY <2>1, LiveAssumption DEF Change
<1>2. inbox' \in Seq(Message) /\ Len(inbox') <= MaxInbox /\ excused' \in SUBSET Lists
      /\ excused \subseteq excused'
  <2>1. inbox \in Seq(Message) /\ Len(inbox) <= MaxInbox /\ excused \in SUBSET Lists
    BY DEF LiveInv, LiveTypeOK
  <2>2. inbox \o ms \in Seq(Message) /\ Len(inbox \o ms) = Len(inbox) + Len(ms)
    BY <2>1
  <2> QED
    BY <2>1, <2>2 DEF Broadcast
<1>3. LiveTypeOK'
  <2>1. /\ cached' = cached /\ listFetch' = listFetch /\ marked' = marked /\ route' = route
        /\ bridgeTimer' = bridgeTimer /\ recent' = recent /\ link' = link
    OBVIOUS
  <2>2. LiveTypeOK
    BY DEF LiveInv
  <2> QED
    BY <1>1, <1>2, <2>1, <2>2 DEF LiveTypeOK
<1>4. VersionsStored'
  <2>1. ASSUME NEW l \in Lists
        PROVE  cached[l] <= stored'[l] /\ (listFetch[l] # NoListFetch => listFetch[l] <= stored'[l])
    BY <1>1 DEF LiveInv, VersionsStored
  <2>2. ASSUME NEW i \in DOMAIN inbox', inbox'[i].kind = "list"
        PROVE  inbox'[i].version <= stored'["inbounds"]
    <3>1. CASE i \in DOMAIN inbox /\ inbox'[i] = inbox[i]
      <4>1. inbox[i] \in Message /\ inbox[i].kind = "list"
        BY <2>2, <3>1 DEF LiveInv, LiveTypeOK
      <4>2. inbox[i].version \in Nat
        BY <4>1, LiveAssumption DEF Message
      <4>3. inbox[i].version <= stored["inbounds"]
        BY <3>1, <4>1 DEF LiveInv, VersionsStored
      <4> QED
        BY <1>1, <3>1, <4>2, <4>3 DEF Lists
    <3>2. CASE inbox' = inbox \o ms /\ ~(i \in DOMAIN inbox /\ inbox'[i] = inbox[i])
      <4>1. PICK j \in DOMAIN ms : inbox'[i] = ms[j]
        BY <3>2 DEF LiveInv, LiveTypeOK
      <4> QED
        BY <2>2, <4>1
    <3> QED
      BY <3>1, <3>2 DEF Broadcast
  <2> QED
    BY <2>1, <2>2 DEF VersionsStored
<1>5. ASSUME NEW l \in Lists \ excused' PROVE FetchForward(l)'
  BY <1>2, <1>5 DEF LiveInv, FetchForward
<1>6. ASSUME NEW l \in Lists \ excused' PROVE Pending(l)'
  <2>1. FetchForward(l) /\ Pending(l)
    BY <1>2, <1>6 DEF LiveInv
  <2>2. CASE link # "up"
    <3>1. stored'[l] = stored[l] /\ inbox' = inbox
      BY <1>6, <2>2 DEF Broadcast
    <3> QED
      BY <2>1, <3>1 DEF Pending, Has, NoPost, Lists
  <2>3. CASE link = "up"
    <3>1. inbox' = inbox \o ms /\ inbox \in Seq(Message)
      BY <2>3 DEF Broadcast, LiveInv, LiveTypeOK
    <3>2. \A m : (Has(m) \/ \E i \in DOMAIN ms : ms[i] = m) => Has(m)'
      BY <3>1, StaysAppended
    <3>3. CASE l \in S
      BY <3>2, <3>3 DEF Pending, Notice, ListOf
    <3>4. CASE l \notin S
      <4>1. stored'[l] = stored[l]
        BY <1>1, <3>4
      <4> QED
        BY <2>1, <3>2, <4>1 DEF Pending, Notice, ListOf, NoPost, Lists
    <3> QED
      BY <3>3, <3>4
  <2> QED
    BY <2>2, <2>3
<1> QED
  BY <1>3, <1>4, <1>5, <1>6 DEF LiveInv

LEMMA NoticesAreMessages ==
  \A l \in Lists : Notice(l) \in Message /\ Notice(l).kind # "list"
BY DEF Notice, Message

LEMMA PushedIsMessage ==
  ASSUME LiveInv, NEW S \in SUBSET Lists, Change(S)
  PROVE  Pushed \in Message /\ Pushed = ListOf(stored'["inbounds"])
         /\ Pushed.version = stored'["inbounds"] /\ stored'["inbounds"] \in Nat
<1>1. stored["inbounds"] \in 0..MaxChanges /\ "inbounds" \in Lists
  BY NoFetchIsNoVersion DEF LiveInv, Lists
<1>2. stored'["inbounds"] \in 0..MaxChanges
  BY <1>1, LiveAssumption DEF Change
<1> QED
  BY <1>2, LiveAssumption DEF Pushed, ListOf, Message

LEMMA NodeChangesKeeps == LiveInv /\ NodeChanges => LiveInv'
<1> SUFFICES ASSUME LiveInv, NodeChanges PROVE LiveInv'
  OBVIOUS
<1> DEFINE ms == <<Notice("inbounds"), Notice("clients")>>
<1>1. ms \in Seq(Message) /\ ms[1] = Notice("inbounds") /\ ms[2] = Notice("clients")
      /\ DOMAIN ms = {1, 2}
  BY NoticesAreMessages DEF Lists
<1>2. \A l \in Lists : \E i \in DOMAIN ms : ms[i] = Notice(l)
  BY <1>1 DEF Lists
<1>3. \A i \in DOMAIN ms : ms[i].kind # "list"
  BY <1>1, NoticesAreMessages DEF Lists
<1>4. post' \in Lists \cup {NoPost} /\ post' = post
  BY DEF NodeChanges, LiveInv, LiveTypeOK
<1>5. Change(Lists) /\ Broadcast(ms) /\ UNCHANGED <<listCache, bridge, link>>
  BY DEF NodeChanges
<1> HIDE DEF ms
<1> QED
  BY <1>1, <1>2, <1>3, <1>4, <1>5, ServerChangeKeeps

\* One message that names the list, or brings it.
LEMMA ToldByNotice ==
  ASSUME LiveInv, NEW S \in SUBSET Lists, Change(S), NEW l \in Lists, Broadcast(<<Notice(l)>>),
         S \subseteq {l} \/ post' = "clients",
         UNCHANGED <<listCache, bridge, link>>,
         post' \in Lists \cup {NoPost}, post' = post \/ post = NoPost
  PROVE  LiveInv'
<1> DEFINE ms == <<Notice(l)>>
<1>1. ms \in Seq(Message) /\ ms[1] = Notice(l) /\ DOMAIN ms = {1}
  BY NoticesAreMessages
<1>2. \A k \in S : (\E i \in DOMAIN ms : ms[i] = Notice(k)) \/ post' = "clients"
  BY <1>1
<1>3. \A i \in DOMAIN ms : ms[i].kind # "list"
  BY <1>1, NoticesAreMessages
<1>4. Broadcast(ms)
  OBVIOUS
<1> HIDE DEF ms
<1> QED
  BY <1>1, <1>2, <1>3, <1>4, ServerChangeKeeps

LEMMA ToldByList ==
  ASSUME LiveInv, Change({"inbounds"}), Broadcast(<<Pushed>>),
         UNCHANGED <<listCache, bridge, link>>,
         post' \in Lists \cup {NoPost}, post' = post \/ post = NoPost
  PROVE  LiveInv'
<1> DEFINE ms == <<Pushed>>
<1>1. /\ Pushed \in Message /\ Pushed = ListOf(stored'["inbounds"])
      /\ Pushed.version = stored'["inbounds"] /\ stored'["inbounds"] \in Nat
  BY PushedIsMessage DEF Lists
<1>2. ms \in Seq(Message) /\ ms[1] = Pushed /\ DOMAIN ms = {1}
  BY <1>1
<1>3. \A k \in {"inbounds"} : k = "inbounds" /\ \E i \in DOMAIN ms : ms[i] = ListOf(stored'[k])
  BY <1>1, <1>2
<1>4. \A i \in DOMAIN ms : ms[i].version <= stored'["inbounds"]
  BY <1>1, <1>2
<1>5. Broadcast(ms) /\ {"inbounds"} \in SUBSET Lists
  BY DEF Lists
<1> HIDE DEF ms
<1> QED
  BY <1>2, <1>3, <1>4, <1>5, ServerChangeKeeps

LEMMA OtherChangesKeeps == LiveInv /\ OtherChanges => LiveInv'
<1> SUFFICES ASSUME LiveInv, OtherChanges PROVE LiveInv'
  OBVIOUS
<1>1. /\ post' \in Lists \cup {NoPost} /\ post' = post
      /\ UNCHANGED <<listCache, bridge, link>>
  BY DEF OtherChanges, LiveInv, LiveTypeOK
<1>2. CASE Change({"clients"}) /\ Broadcast(<<Notice("clients")>>)
  BY <1>1, <1>2, ToldByNotice DEF Lists
<1>3. CASE Change({"inbounds"}) /\ Broadcast(<<Notice("inbounds")>>)
  BY <1>1, <1>3, ToldByNotice DEF Lists
<1>4. CASE Change({"inbounds"}) /\ Broadcast(<<Pushed>>)
  BY <1>1, <1>4, ToldByList
<1> QED
  BY <1>2, <1>3, <1>4 DEF OtherChanges

LEMMA LocalChangeKeeps == LiveInv /\ LocalChange => LiveInv'
<1> SUFFICES ASSUME LiveInv, LocalChange PROVE LiveInv'
  OBVIOUS
<1>1. /\ post' \in Lists \cup {NoPost} /\ post = NoPost /\ post' = route
      /\ UNCHANGED <<listCache, bridge, link>>
  BY DEF LocalChange, LiveInv, LiveTypeOK
<1>2. CASE route = "clients"
  BY <1>1, <1>2, ToldByNotice DEF LocalChange, Lists
<1>3. CASE route # "clients" /\ Broadcast(<<Notice("inbounds")>>)
  BY <1>1, <1>3, ToldByNotice DEF LocalChange, Lists
<1>4. CASE route # "clients" /\ Broadcast(<<Pushed>>)
  BY <1>1, <1>4, ToldByList DEF LocalChange
<1> QED
  BY <1>2, <1>3, <1>4 DEF LocalChange
-----------------------------------------------------------------------------
\* The lists S are asked for again, or marked: whatever told of them has done
\* its part.
LEMMA InvalidateKeeps ==
  ASSUME LiveInv, NEW S \in SUBSET Lists, InvalidateLists(S),
         UNCHANGED <<stored, link, inbox, excused>>,
         bridgeTimer' \in Lists \cup {NoTimer}, recent' \in BOOLEAN,
         post' \in Lists \cup {NoPost},
         \A l \in Lists \ S : (bridgeTimer = l => bridgeTimer' = l)
                              /\ (post \in {"clients", l} => post' \in {"clients", l})
  PROVE  LiveInv'
<1>1. /\ listFetch' \in [Lists -> 0..NoListFetch]
      /\ \A l \in Lists : listFetch'[l] = IF l \in S /\ l = route THEN stored[l] ELSE listFetch[l]
  <2>1. \A l \in Lists : stored[l] \in 0..NoListFetch /\ listFetch[l] \in 0..NoListFetch
    BY NoFetchIsNoVersion, LiveAssumption DEF LiveInv, NoListFetch
  <2> QED
    BY <2>1 DEF InvalidateLists
<1>2. marked' = (marked \ S) \cup (S \ {route}) /\ cached' = cached /\ route' = route
      /\ stored' = stored /\ link' = link /\ inbox' = inbox /\ excused' = excused
  BY DEF InvalidateLists
<1>3. LiveTypeOK'
  <2>1. LiveTypeOK
    BY DEF LiveInv
  <2> QED
    BY <1>1, <1>2, <2>1 DEF LiveTypeOK
<1>4. VersionsStored'
  BY <1>1, <1>2, NoFetchIsNoVersion DEF LiveInv, VersionsStored
<1>5. ASSUME NEW l \in Lists \ excused' PROVE FetchForward(l)' /\ Pending(l)'
  <2>1. FetchForward(l) /\ Pending(l) /\ cached[l] <= stored[l]
    BY <1>2, <1>5 DEF LiveInv, VersionsStored
  <2>2. FetchForward(l)'
    BY <1>1, <1>2, <2>1, <1>5 DEF FetchForward
  <2>3. CASE l \in S
    BY <2>2, <1>1, <1>2, <1>5, <2>3 DEF Pending
  <2>4. CASE l \notin S
    BY <2>2, <1>1, <1>2, <1>5, <2>1, <2>4 DEF Pending, Has, Notice, ListOf
  <2> QED
    BY <2>2, <2>3, <2>4
<1> QED
  BY <1>3, <1>4, <1>5 DEF LiveInv

LEMMA LocalAnsweredKeeps == LiveInv /\ LocalAnswered => LiveInv'
<1> SUFFICES ASSUME LiveInv, LocalAnswered PROVE LiveInv'
  OBVIOUS
<1>1. /\ UNCHANGED <<stored, link, inbox, excused, bridgeTimer>>
      /\ post' = NoPost /\ post # NoPost
      /\ bridgeTimer \in Lists \cup {NoTimer} /\ recent \in BOOLEAN /\ post \in Lists \cup {NoPost}
  BY DEF LocalAnswered, LiveInv, LiveTypeOK
<1>2. CASE post = "clients"
  BY <1>1, <1>2, InvalidateKeeps DEF LocalAnswered
<1>3. CASE post # "clients"
  <2>1. InvalidateLists({"inbounds"}) /\ recent' = recent /\ post = "inbounds"
    BY <1>1, <1>3 DEF LocalAnswered, Lists
  <2>2. \A l \in Lists \ {"inbounds"} : post \notin {"clients", l}
    BY <2>1
  <2>3. {"inbounds"} \in SUBSET Lists
    BY DEF Lists
  <2>4. \A l \in Lists \ {"inbounds"} : (bridgeTimer = l => bridgeTimer' = l)
                              /\ (post \in {"clients", l} => post' \in {"clients", l})
    BY <1>1, <2>2
  <2> QED
    BY <1>1, <2>1, <2>3, <2>4, InvalidateKeeps
<1> QED
  BY <1>2, <1>3

LEMMA BridgeTimerFiresKeeps == LiveInv /\ BridgeTimerFires => LiveInv'
<1> SUFFICES ASSUME LiveInv, BridgeTimerFires PROVE LiveInv'
  OBVIOUS
<1>1. /\ UNCHANGED <<stored, link, inbox, post, recent>>
      /\ bridgeTimer' = NoTimer /\ bridgeTimer \in Lists
      /\ recent \in BOOLEAN /\ post \in Lists \cup {NoPost} /\ LiveTypeOK
  BY DEF BridgeTimerFires, LiveInv, LiveTypeOK, listServer
<1>2. CASE recent
  <2>1. /\ excused' = excused \cup {bridgeTimer}
        /\ UNCHANGED <<cached, listFetch, marked, route>>
    BY <1>2 DEF BridgeTimerFires, listCache
  <2>2. LiveTypeOK'
    BY <1>1, <2>1 DEF LiveTypeOK
  <2>3. VersionsStored'
    BY <1>1, <2>1 DEF LiveInv, VersionsStored
  <2>4. ASSUME NEW l \in Lists \ excused' PROVE FetchForward(l)' /\ Pending(l)'
    <3>1. FetchForward(l) /\ Pending(l) /\ l # bridgeTimer
      BY <2>1, <2>4 DEF LiveInv
    <3> QED
      BY <1>1, <2>1, <3>1 DEF FetchForward, Pending, Has, Notice, ListOf
  <2> QED
    BY <2>2, <2>3, <2>4 DEF LiveInv
<1>3. CASE ~recent
  <2>1. InvalidateLists({bridgeTimer}) /\ excused' = excused
    BY <1>3 DEF BridgeTimerFires
  <2>2. {bridgeTimer} \in SUBSET Lists
    BY <1>1
  <2>3. \A l \in Lists \ {bridgeTimer} : (bridgeTimer = l => bridgeTimer' = l)
                              /\ (post \in {"clients", l} => post' \in {"clients", l})
    BY <1>1
  <2> QED
    BY <1>1, <2>1, <2>2, <2>3, InvalidateKeeps
<1> QED
  BY <1>2, <1>3

-----------------------------------------------------------------------------
(* The query cache *)

LEMMA FetchedKeeps ==
  ASSUME LiveInv, NEW l \in Lists, Fetched(l)
  PROVE  LiveInv'
<1>1. PICK v \in listFetch[l]..stored[l] :
        /\ cached' = [cached EXCEPT ![l] = v]
        /\ excused' = IF l \in marked /\ v # stored[l] THEN excused \cup {l} ELSE excused
  BY DEF Fetched
<1>2. /\ listFetch[l] # NoListFetch
      /\ listFetch' = [listFetch EXCEPT ![l] = NoListFetch]
      /\ marked' = marked \ {l}
      /\ UNCHANGED <<stored, post, route, link, inbox, bridgeTimer, recent>>
  BY DEF Fetched, listServer, bridge
<1>3. /\ LiveTypeOK
      /\ \A k \in Lists : /\ stored[k] \in 0..MaxChanges /\ stored[k] \in Nat
                          /\ cached[k] \in Nat /\ listFetch[k] \in Nat
      /\ NoListFetch \in 0..NoListFetch /\ MaxChanges \in Nat
  BY NoFetchIsNoVersion, LiveAssumption DEF LiveInv, NoListFetch
<1>4. v \in 0..MaxChanges /\ v <= stored[l] /\ listFetch[l] <= v
  BY <1>1, <1>3
<1>5. LiveTypeOK'
  BY <1>1, <1>2, <1>3, <1>4 DEF LiveTypeOK
<1>6. cached'[l] = v /\ listFetch'[l] = NoListFetch
      /\ \A k \in Lists \ {l} : cached'[k] = cached[k] /\ listFetch'[k] = listFetch[k]
  BY <1>1, <1>2, <1>3 DEF LiveTypeOK
<1>7. VersionsStored'
  BY <1>2, <1>3, <1>4, <1>6 DEF LiveInv, VersionsStored
<1>8. ASSUME NEW k \in Lists \ excused' PROVE FetchForward(k)' /\ Pending(k)'
  <2>1. FetchForward(k) /\ Pending(k)
    BY <1>1, <1>8 DEF LiveInv
  <2>2. CASE k # l
    BY <1>2, <1>6, <2>1, <2>2 DEF FetchForward, Pending, Has, Notice, ListOf
  <2>3. CASE k = l
    <3>1. FetchForward(k)'
      BY <1>6, <2>3 DEF FetchForward, NoListFetch
    <3>2. CASE v = stored[l]
      BY <3>1, <1>2, <1>6, <2>3, <3>2 DEF Pending
    <3>3. CASE v # stored[l]
      <4>1. l \notin marked
        BY <1>1, <1>8, <2>3, <3>3
      <4>2. cached[l] # stored[l] /\ listFetch[l] # stored[l]
        BY <1>2, <1>3, <1>4, <2>1, <2>3, <3>3 DEF FetchForward
      <4> QED
        BY <3>1, <1>2, <1>6, <2>1, <2>3, <4>1, <4>2 DEF Pending, Has, Notice, ListOf
    <3> QED
      BY <3>1, <3>2, <3>3
  <2> QED
    BY <2>2, <2>3
<1> QED
  BY <1>5, <1>7, <1>8 DEF LiveInv

LEMMA ListFetchFailsKeeps ==
  ASSUME LiveInv, NEW l \in Lists, ListFetchFails(l)
  PROVE  LiveInv'
<1>1. /\ listFetch' = [listFetch EXCEPT ![l] = NoListFetch]
      /\ excused' = excused \cup {l}
      /\ UNCHANGED <<stored, post, cached, marked, route, link, inbox, bridgeTimer, recent>>
  BY DEF ListFetchFails, listServer, bridge
<1>2. LiveTypeOK /\ NoListFetch \in 0..NoListFetch
  BY LiveAssumption DEF LiveInv, NoListFetch
<1>3. LiveTypeOK'
  BY <1>1, <1>2 DEF LiveTypeOK
<1>4. listFetch'[l] = NoListFetch /\ \A k \in Lists \ {l} : listFetch'[k] = listFetch[k]
  BY <1>1, <1>2 DEF LiveTypeOK
<1>5. VersionsStored'
  BY <1>1, <1>4 DEF LiveInv, VersionsStored, NoListFetch
<1>6. ASSUME NEW k \in Lists \ excused' PROVE FetchForward(k)' /\ Pending(k)'
  <2>1. FetchForward(k) /\ Pending(k) /\ k # l
    BY <1>1, <1>6 DEF LiveInv
  <2> QED
    BY <1>1, <1>4, <2>1 DEF FetchForward, Pending, Has, Notice, ListOf
<1> QED
  BY <1>3, <1>5, <1>6 DEF LiveInv

\* A fetch of a list begins: it reads what is stored now, or later.
LEMMA FetchBeginsKeeps ==
  ASSUME LiveInv, NEW l \in Lists,
         listFetch' = [listFetch EXCEPT ![l] = stored[l]], marked' = marked \ {l},
         route' \in Lists,
         UNCHANGED <<stored, cached, link, inbox, bridgeTimer, recent, post, excused>>
  PROVE  LiveInv'
<1>1. LiveTypeOK /\ \A k \in Lists : stored[k] \in 0..NoListFetch
  BY NoFetchIsNoVersion, LiveAssumption DEF LiveInv, NoListFetch
<1>2. LiveTypeOK'
  BY <1>1 DEF LiveTypeOK
<1>3. listFetch'[l] = stored[l] /\ \A k \in Lists \ {l} : listFetch'[k] = listFetch[k]
  BY <1>1 DEF LiveTypeOK
<1>4. VersionsStored'
  BY <1>1, <1>3 DEF LiveInv, VersionsStored
<1>5. ASSUME NEW k \in Lists \ excused' PROVE FetchForward(k)' /\ Pending(k)'
  <2>1. FetchForward(k) /\ Pending(k) /\ cached[k] <= stored[k]
    BY <1>5 DEF LiveInv, VersionsStored
  <2>2. CASE k = l
    BY <1>3, <2>1, <2>2 DEF FetchForward, Pending
  <2>3. CASE k # l
    BY <1>3, <2>1, <2>3 DEF FetchForward, Pending, Has, Notice, ListOf
  <2> QED
    BY <2>2, <2>3
<1> QED
  BY <1>2, <1>4, <1>5 DEF LiveInv

LEMMA PollKeeps == LiveInv /\ Poll => LiveInv'
BY FetchBeginsKeeps DEF Poll, Lists, listServer, bridge, LiveInv, LiveTypeOK

\* What does not touch the lists, the messages or the timer keeps the invariant.
LEMMA AsideKeeps ==
  ASSUME LiveInv, route' \in Lists, recent' \in BOOLEAN,
         UNCHANGED <<stored, cached, listFetch, marked, link, inbox, bridgeTimer, post, excused>>
  PROVE  LiveInv'
<1>1. LiveTypeOK'
  BY DEF LiveInv, LiveTypeOK
<1>2. VersionsStored'
  BY DEF LiveInv, VersionsStored
<1>3. ASSUME NEW k \in Lists \ excused' PROVE FetchForward(k)' /\ Pending(k)'
  BY <1>3 DEF LiveInv, FetchForward, Pending, Has, Notice, ListOf
<1> QED
  BY <1>1, <1>2, <1>3 DEF LiveInv

LEMMA NavigateKeeps == LiveInv /\ Navigate => LiveInv'
<1> SUFFICES ASSUME LiveInv, Navigate PROVE LiveInv'
  OBVIOUS
<1>1. PICK l \in Lists \ {route} :
        /\ route' = l
        /\ IF l \in marked /\ listFetch[l] = NoListFetch
           THEN /\ marked' = marked \ {l}
                /\ listFetch' = [listFetch EXCEPT ![l] = stored[l]]
           ELSE UNCHANGED <<marked, listFetch>>
  BY DEF Navigate
<1>2. UNCHANGED <<stored, post, cached, link, inbox, bridgeTimer, recent, excused>>
      /\ recent \in BOOLEAN
  BY DEF Navigate, listServer, bridge, LiveInv, LiveTypeOK
<1>3. CASE l \in marked /\ listFetch[l] = NoListFetch
  BY <1>1, <1>2, <1>3, FetchBeginsKeeps
<1>4. CASE ~(l \in marked /\ listFetch[l] = NoListFetch)
  BY <1>1, <1>2, <1>4, AsideKeeps
<1> QED
  BY <1>3, <1>4

LEMMA WindowEndsKeeps == LiveInv /\ WindowEnds => LiveInv'
BY AsideKeeps DEF WindowEnds, listServer, listCache, LiveInv, LiveTypeOK

-----------------------------------------------------------------------------
(* The messages *)

LEMMA TailIsMessages ==
  ASSUME LiveInv, NEW a, Arrives(a)
  PROVE  /\ inbox' \in Seq(Message) /\ Len(inbox') <= MaxInbox /\ inbox \in Seq(Message)
         /\ \A i \in DOMAIN inbox' : i + 1 \in DOMAIN inbox /\ inbox'[i] = inbox[i + 1]
         /\ 1 \in DOMAIN inbox /\ inbox[1] = a
<1>1. inbox \in Seq(Message) /\ Len(inbox) <= MaxInbox /\ MaxInbox \in Nat
  BY LiveAssumption DEF LiveInv, LiveTypeOK
<1> QED
  BY <1>1 DEF Arrives

LEMMA onInvalidateKeeps == LiveInv /\ onInvalidate => LiveInv'
<1> SUFFICES ASSUME LiveInv, onInvalidate PROVE LiveInv'
  OBVIOUS
<1>1. PICK a \in Lists : /\ Arrives(Notice(a))
                         /\ bridgeTimer' = a
                         /\ excused' = excused \cup ({bridgeTimer} \ {a, NoTimer})
  BY DEF onInvalidate
<1>2. /\ UNCHANGED <<stored, post, cached, listFetch, marked, route, link, recent>>
      /\ LiveTypeOK
  BY DEF onInvalidate, listServer, listCache, LiveInv
<1>3. inbox' \in Seq(Message) /\ Len(inbox') <= MaxInbox /\ inbox \in Seq(Message)
  BY <1>1, TailIsMessages
<1>4. LiveTypeOK'
  <2>1. excused' \in SUBSET Lists
    BY <1>1, <1>2 DEF LiveTypeOK
  <2> QED
    BY <1>1, <1>2, <1>3, <2>1 DEF LiveTypeOK
<1>5. VersionsStored'
  <2>1. \A i \in DOMAIN inbox' : inbox'[i].kind = "list" => inbox'[i].version <= stored["inbounds"]
    BY <1>1, TailIsMessages DEF LiveInv, VersionsStored
  <2> QED
    BY <1>2, <2>1 DEF LiveInv, VersionsStored
<1>6. ASSUME NEW k \in Lists \ excused' PROVE FetchForward(k)' /\ Pending(k)'
  <2>1. FetchForward(k) /\ Pending(k)
    BY <1>1, <1>6 DEF LiveInv
  <2>2. FetchForward(k)'
    BY <1>2, <2>1 DEF FetchForward
  <2>3. CASE k = a
    BY <2>2, <1>1, <2>3 DEF Pending
  <2>4. CASE k # a
    <3>1. bridgeTimer # k
      BY <1>1, <1>6, <2>4 DEF NoTimer, Lists
    <3>2. Notice(k) # Notice(a) /\ ListOf(stored[k]) # Notice(a)
      BY <2>4 DEF Notice, ListOf
    <3>3. /\ Has(Notice(k)) => Has(Notice(k))'
          /\ Has(ListOf(stored[k])) => Has(ListOf(stored[k]))'
      <4>1. \A m : m # Notice(a) /\ Has(m) => \E i \in DOMAIN inbox' : inbox'[i] = m
        BY <1>1, <1>3, StaysBehind DEF Has
      <4> QED
        BY <1>2, <3>2, <4>1 DEF Has, Notice, ListOf
    <3> QED
      BY <2>2, <1>2, <2>1, <3>1, <3>3 DEF Pending
  <2> QED
    BY <2>2, <2>3, <2>4
<1> QED
  BY <1>4, <1>5, <1>6 DEF LiveInv

LEMMA onInboundsKeeps == LiveInv /\ onInbounds => LiveInv'
<1> SUFFICES ASSUME LiveInv, onInbounds PROVE LiveInv'
  OBVIOUS
<1> DEFINE d == "inbounds"
<1>1. PICK v \in 0..MaxChanges :
        /\ Arrives(ListOf(v))
        /\ cached' = [cached EXCEPT ![d] = v]
        /\ excused' = IF \/ listFetch[d] # NoListFetch
                         \/ v < cached[d]
                         \/ d \in marked /\ v # stored[d]
                      THEN excused \cup {d} ELSE excused
  BY DEF onInbounds, ListOf
<1>2. /\ marked' = marked \ {d}
      /\ UNCHANGED <<stored, post, listFetch, route, link, bridgeTimer, recent>>
      /\ LiveTypeOK /\ d \in Lists
  BY DEF onInbounds, listServer, bridge, LiveInv, Lists
<1>3. /\ inbox' \in Seq(Message) /\ Len(inbox') <= MaxInbox /\ inbox \in Seq(Message)
      /\ \A i \in DOMAIN inbox' : i + 1 \in DOMAIN inbox /\ inbox'[i] = inbox[i + 1]
      /\ 1 \in DOMAIN inbox /\ inbox[1] = ListOf(v)
  BY <1>1, TailIsMessages
<1>4. LiveTypeOK'
  <2>1. excused' \in SUBSET Lists
    BY <1>1, <1>2 DEF LiveTypeOK
  <2> QED
    BY <1>1, <1>2, <1>3, <2>1 DEF LiveTypeOK
<1>5. v <= stored[d]
  BY <1>3 DEF LiveInv, VersionsStored, ListOf
<1>6. /\ cached'[d] = v
      /\ \A k \in Lists \ {d} : cached'[k] = cached[k]
  BY <1>1, <1>2 DEF LiveTypeOK
<1>7. VersionsStored'
  <2>1. \A i \in DOMAIN inbox' : inbox'[i].kind = "list" => inbox'[i].version <= stored[d]
    BY <1>3 DEF LiveInv, VersionsStored
  <2> QED
    BY <1>2, <1>5, <1>6, <2>1 DEF LiveInv, VersionsStored
<1>8. ASSUME NEW k \in Lists \ excused' PROVE FetchForward(k)' /\ Pending(k)'
  <2>1. FetchForward(k) /\ Pending(k)
    BY <1>1, <1>8 DEF LiveInv
  <2>2. \A m : m # ListOf(v) /\ Has(m) => \E i \in DOMAIN inbox' : inbox'[i] = m
    BY <1>1, <1>3, StaysBehind DEF Has
  <2>3. Has(Notice(k)) => Has(Notice(k))'
    BY <2>2 DEF Has, Notice, ListOf
  <2>4. CASE k # d
    BY <1>2, <1>6, <2>1, <2>3, <2>4 DEF FetchForward, Pending
  <2>5. CASE k = d
    <3>1. listFetch[d] = NoListFetch /\ cached[d] <= v /\ (d \in marked => v = stored[d])
      <4>1. v \in Nat /\ cached[d] \in Nat
        BY <1>2, NoFetchIsNoVersion, LiveAssumption
      <4> QED
        BY <1>1, <1>8, <2>5, <4>1
    <3>2. FetchForward(k)'
      BY <1>2, <2>5, <3>1 DEF FetchForward, NoListFetch
    <3>3. CASE v = stored[d]
      BY <3>2, <1>2, <1>6, <2>5, <3>3 DEF Pending
    <3>4. CASE v # stored[d]
      <4>1. cached[d] # stored[d] /\ listFetch[d] # stored[d] /\ d \notin marked
        BY <1>2, <1>5, <3>1, <3>4, NoFetchIsNoVersion, LiveAssumption
      <4>2. Has(ListOf(stored[k])) => Has(ListOf(stored[k]))'
        BY <1>2, <2>2, <2>5, <3>4 DEF Has, ListOf
      <4> QED
        BY <3>2, <1>2, <2>1, <2>3, <2>5, <4>1, <4>2 DEF Pending
    <3> QED
      BY <3>2, <3>3, <3>4
  <2> QED
    BY <2>4, <2>5
<1> QED
  BY <1>4, <1>7, <1>8 DEF LiveInv

LEMMA LinkChangesKeeps == LiveInv /\ LinkChanges => LiveInv'
<1> SUFFICES ASSUME LiveInv, LinkChanges PROVE LiveInv'
  OBVIOUS
<1> DEFINE Named == {m.list : m \in {inbox[i] : i \in DOMAIN inbox} \cap [kind : {"invalidate"}, list : Lists]}
<1>1. /\ link' \in {"up", "down"} /\ inbox' = << >>
      /\ excused' = excused \cup Named
                    \cup (IF \E i \in DOMAIN inbox : inbox[i].kind = "list" THEN {"inbounds"} ELSE {})
      /\ UNCHANGED <<stored, post, cached, listFetch, marked, route, bridgeTimer, recent>>
      /\ LiveTypeOK
  BY DEF LinkChanges, listServer, listCache, bridge, LiveInv
<1>2. LiveTypeOK'
  <2>1. inbox' \in Seq(Message) /\ Len(inbox') <= MaxInbox
    BY <1>1, LiveAssumption
  <2>2. excused' \in SUBSET Lists
    BY <1>1 DEF LiveTypeOK, Lists
  <2> HIDE DEF Named
  <2> QED
    BY <1>1, <2>1, <2>2 DEF LiveTypeOK
<1>3. \A k \in Lists \ excused' : ~Has(Notice(k)) /\ (k = "inbounds" => ~Has(ListOf(stored[k])))
  BY <1>1 DEF Has, Notice, ListOf
<1>4. VersionsStored'
  BY <1>1 DEF LiveInv, VersionsStored
<1>5. ASSUME NEW k \in Lists \ excused' PROVE FetchForward(k)' /\ Pending(k)'
  <2>1. FetchForward(k) /\ Pending(k)
    BY <1>1, <1>5 DEF LiveInv
  <2> HIDE DEF Named
  <2> QED
    BY <1>1, <1>3, <2>1 DEF FetchForward, Pending
<1> QED
  BY <1>2, <1>4, <1>5 DEF LiveInv

LEMMA LocalLostKeeps == LiveInv /\ LocalLost => LiveInv'
<1> SUFFICES ASSUME LiveInv, LocalLost PROVE LiveInv'
  OBVIOUS
<1>1. /\ post' = NoPost /\ excused' = Lists
      /\ UNCHANGED <<stored, cached, listFetch, marked, route, bridgeTimer, recent, link, inbox>>
      /\ LiveTypeOK
  BY DEF LocalLost, listCache, bridge, LiveInv
<1>2. LiveTypeOK'
  BY <1>1 DEF LiveTypeOK
<1>3. VersionsStored'
  BY <1>1 DEF LiveInv, VersionsStored
<1> QED
  BY <1>1, <1>2, <1>3 DEF LiveInv

LEMMA LiveInvStep == LiveInv /\ [LiveNext]_liveVars => LiveInv'
<1> SUFFICES ASSUME LiveInv, [LiveNext]_liveVars PROVE LiveInv'
  OBVIOUS
<1>1. ASSUME NEW l \in Lists, Fetched(l) \/ ListFetchFails(l) PROVE LiveInv'
  BY <1>1, FetchedKeeps, ListFetchFailsKeeps
<1>2. CASE UNCHANGED liveVars
  <2>1. route \in Lists /\ recent \in BOOLEAN
    BY DEF LiveInv, LiveTypeOK
  <2> QED
    BY <1>2, <2>1, AsideKeeps DEF liveVars
<1> QED
  BY <1>1, <1>2, NodeChangesKeeps, OtherChangesKeeps, PollKeeps, NavigateKeeps, onInvalidateKeeps,
     onInboundsKeeps, BridgeTimerFiresKeeps, WindowEndsKeeps, LinkChangesKeeps, LocalChangeKeeps,
     LocalAnsweredKeeps, LocalLostKeeps
  DEF LiveNext

-----------------------------------------------------------------------------
(* The tests of the outbounds *)

\* What a test that is under way is for is the outbound of its row.
Right(x) == x.kind = "row" => x.at \in Indexes /\ x.outbound = Listed[x.at]

InFlight == testAll.tcp \cup testAll.dialing \cup testAll.tpl \cup testAll.sub \cup testAll.batch
            \cup {s.item : s \in single}

Unmoved ==
  ~ moved =>
    /\ rows = Listed
    /\ \A x \in InFlight : Right(x)
    /\ \A i \in Indexes : rowTests[i].result \in {"none", "busy", Listed[i]}

\* The lock a test of all holds is that of the batch it waits for.
LockHasBatch == lock = "all" => testAll.batch # NoBatch

TestsInv == TestsTypeOK /\ Unmoved /\ RunsDoNotMix /\ LockHasBatch

LEMMA RowsAreRows ==
  ASSUME TestsTypeOK
  PROVE  DOMAIN rows \subseteq Indexes /\ \A i \in DOMAIN rows : rows[i] \in Outbounds
BY TestsAssumption DEF TestsTypeOK, Indexes

LEMMA ListedIsListed == Listed \in Seq(Outbounds)
<1>1. Listed \in Seq(TcpLike \cup UdpLike \cup {"direct"})
  BY TestsAssumption DEF TestsAssumption
<1>2. \A i \in 1..Len(Listed) : Listed[i] \in Outbounds
  BY <1>1 DEF Outbounds, ToSet
<1> QED
  BY <1>1, <1>2

LEMMA TestsInvInit == TestsInit => TestsInv
<1> SUFFICES ASSUME TestsInit PROVE TestsInv
  OBVIOUS
<1>1. rows \in Seq(Outbounds) /\ Len(rows) <= Len(Listed)
  BY ListedIsListed DEF TestsInit
<1>2. Cardinality(NoBatch) <= Chunk
  BY FS_EmptySet, TestsAssumption DEF NoBatch, TestsAssumption
<1>3. TestsTypeOK
  BY <1>1, <1>2 DEF TestsInit, TestsTypeOK, AllIdle, NoBatch, Untested, TestState
<1>4. Unmoved
  BY DEF TestsInit, Unmoved, InFlight, AllIdle, NoBatch, Untested
<1>5. RunsDoNotMix /\ LockHasBatch
  BY DEF TestsInit, RunsDoNotMix, LanesDone, AllIdle, LockHasBatch
<1> QED
  BY <1>3, <1>4, <1>5 DEF TestsInv

\* What a chunk shows: its rows the result of their own test, or that the
\* endpoint was busy, and the others what they showed.
LEMMA ShowsOwn ==
  ASSUME TestsTypeOK, NEW items \in SUBSET Items,
         ShowTesting(items) \/ ShowOwn(items) \/ ShowBusy(items)
  PROVE  /\ rowTests' \in [Indexes -> TestState]
         /\ subTests' \in [Subscribed -> TestState]
         /\ \A i \in Indexes :
              \/ rowTests'[i] = rowTests[i]
              \/ rowTests'[i].result \in {"none", "busy"}
              \/ \E x \in items : x.kind = "row" /\ x.at = i /\ rowTests'[i].result = x.outbound
<1> DEFINE At(i) == {x \in items : x.kind = "row" /\ x.at = i}
           Of(o) == {x \in items : x.kind = "sub" /\ x.outbound = o}
<1>1. \A x \in items : x.outbound \in Outbounds
  BY DEF Items, Outbounds
<1>2. Testing \in TestState /\ Tested("busy") \in TestState /\ \A o \in Outbounds : Tested(o) \in TestState
  BY DEF Testing, Tested, TestState
<1>3. rowTests \in [Indexes -> TestState] /\ subTests \in [Subscribed -> TestState]
  BY DEF TestsTypeOK
<1>4. CASE ShowTesting(items)
  <2>1. /\ rowTests' = [i \in Indexes |-> IF At(i) # {} THEN Testing ELSE rowTests[i]]
        /\ subTests' = [o \in Subscribed |-> IF Of(o) # {} THEN Testing ELSE subTests[o]]
    BY <1>4 DEF ShowTesting, Show
  <2> QED
    BY <1>2, <1>3, <2>1 DEF Testing
<1>5. CASE ShowBusy(items)
  <2>1. /\ rowTests' = [i \in Indexes |-> IF At(i) # {} THEN Tested("busy") ELSE rowTests[i]]
        /\ subTests' = [o \in Subscribed |-> IF Of(o) # {} THEN Tested("busy") ELSE subTests[o]]
    BY <1>5 DEF ShowBusy, Show
  <2> QED
    BY <1>2, <1>3, <2>1 DEF Tested
<1>6. CASE ShowOwn(items)
  <2> DEFINE a(i) == CHOOSE x \in items : x.kind = "row" /\ x.at = i
             b(o) == CHOOSE x \in items : x.kind = "sub" /\ x.outbound = o
  <2>1. /\ rowTests' = [i \in Indexes |->
             IF \E x \in items : x.kind = "row" /\ x.at = i THEN Tested(a(i).outbound) ELSE rowTests[i]]
        /\ subTests' = [o \in Subscribed |->
             IF \E x \in items : x.kind = "sub" /\ x.outbound = o THEN Tested(b(o).outbound) ELSE subTests[o]]
    BY <1>6 DEF ShowOwn, Show
  <2>2. ASSUME NEW i \in Indexes, \E x \in items : x.kind = "row" /\ x.at = i
        PROVE  a(i) \in items /\ a(i).kind = "row" /\ a(i).at = i
    BY <2>2
  <2>3. ASSUME NEW o \in Subscribed, \E x \in items : x.kind = "sub" /\ x.outbound = o
        PROVE  b(o) \in items
    BY <2>3
  <2> HIDE DEF a, b
  <2>4. \A i \in Indexes : rowTests'[i] \in TestState /\
          \/ rowTests'[i] = rowTests[i]
          \/ \E x \in items : x.kind = "row" /\ x.at = i /\ rowTests'[i].result = x.outbound
    BY <1>1, <1>2, <1>3, <2>1, <2>2 DEF Tested
  <2>5. \A o \in Subscribed : subTests'[o] \in TestState
    BY <1>1, <1>2, <1>3, <2>1, <2>3
  <2> QED
    BY <2>1, <2>4, <2>5
<1> QED
  BY <1>4, <1>5, <1>6
\* What shows something of the tests under way, and starts none of another row.
LEMMA ShowsKeeps ==
  ASSUME TestsInv, NEW items \in SUBSET Items,
         ShowTesting(items) \/ ShowOwn(items) \/ ShowBusy(items),
         UNCHANGED <<rows, moved>>,
         ~ moved => \A x \in items : Right(x),
         InFlight' \subseteq InFlight \cup items,
         testAll' \in [on : BOOLEAN, tcp : SUBSET Items, dialing : SUBSET Items,
                       tpl : SUBSET Items, sub : SUBSET Items, batch : SUBSET Items],
         Cardinality(testAll'.batch) <= Chunk,
         single' \subseteq [item : Items, http : BOOLEAN],
         lock' \in {"free", "all", "single"},
         RunsDoNotMix', LockHasBatch'
  PROVE  TestsInv'
<1>1. /\ rowTests' \in [Indexes -> TestState]
      /\ subTests' \in [Subscribed -> TestState]
      /\ \A i \in Indexes :
           \/ rowTests'[i] = rowTests[i]
           \/ rowTests'[i].result \in {"none", "busy"}
           \/ \E x \in items : x.kind = "row" /\ x.at = i /\ rowTests'[i].result = x.outbound
  BY ShowsOwn DEF TestsInv
<1>2. TestsTypeOK'
  BY <1>1 DEF TestsInv, TestsTypeOK
<1>3. ASSUME ~ moved PROVE Unmoved'
  <2>1. /\ rows = Listed /\ \A x \in InFlight : Right(x)
        /\ \A i \in Indexes : rowTests[i].result \in {"none", "busy", Listed[i]}
    BY <1>3 DEF TestsInv, Unmoved
  <2>2. \A x \in InFlight' : Right(x)
    BY <1>3, <2>1
  <2>3. \A i \in Indexes : rowTests'[i].result \in {"none", "busy", Listed[i]}
    BY <1>1, <1>3, <2>1 DEF Right
  <2> QED
    BY <2>1, <2>2, <2>3 DEF Unmoved, Right
<1>4. Unmoved'
  BY <1>3 DEF Unmoved
<1> QED
  BY <1>2, <1>4 DEF TestsInv

\* What is under way is for items, and for the right ones.
LEMMA InFlightRight ==
  ASSUME TestsInv PROVE InFlight \subseteq Items /\ (~ moved => \A x \in InFlight : Right(x))
<1>1. \A s \in single : s.item \in Items
  BY DEF TestsInv, TestsTypeOK
<1> QED
  BY <1>1 DEF TestsInv, TestsTypeOK, Unmoved, InFlight

LEMMA RowItemRight ==
  ASSUME TestsInv, NEW i \in DOMAIN rows
  PROVE  RowItem(i) \in Items /\ (~ moved => Right(RowItem(i)))
BY RowsAreRows DEF TestsInv, Unmoved, RowItem, Item, Items, Right, Indexes

LEMMA SubItemRight ==
  ASSUME NEW o \in Subscribed PROVE SubItem(o) \in Items /\ Right(SubItem(o))
BY DEF SubItem, Item, Items, Right

-----------------------------------------------------------------------------
(* The test of one row *)

\* What starts, answers or locks for a single test keeps the invariant.
LEMMA SingleKeeps ==
  ASSUME TestsInv, NEW x \in Items, ~ moved => Right(x),
         ShowTesting({x}) \/ ShowOwn({x}) \/ ShowBusy({x}),
         single' \subseteq single \cup [item : {x}, http : BOOLEAN],
         lock' \in {lock, "free"},
         UNCHANGED <<rows, testAll, moved>>
  PROVE  TestsInv'
<1> DEFINE items == {x}
<1>1. TestsTypeOK /\ RunsDoNotMix /\ LockHasBatch
  BY DEF TestsInv
<1>2. InFlight' \subseteq InFlight \cup items
  BY DEF InFlight
<1>3. single' \subseteq [item : Items, http : BOOLEAN]
  BY <1>1 DEF TestsTypeOK
<1>4. RunsDoNotMix' /\ LockHasBatch'
  BY <1>1 DEF RunsDoNotMix, LanesDone, LockHasBatch
<1>5. lock' \in {"free", "all", "single"}
  BY <1>1 DEF TestsTypeOK
<1>6. items \in SUBSET Items /\ (~ moved => \A y \in items : Right(y))
  OBVIOUS
<1>7. ShowTesting(items) \/ ShowOwn(items) \/ ShowBusy(items)
  OBVIOUS
<1> HIDE DEF items
<1> QED
  BY <1>1, <1>2, <1>3, <1>4, <1>5, <1>6, <1>7, ShowsKeeps DEF TestsTypeOK

LEMMA testOutboundKeeps == ASSUME TestsInv, NEW mode, testOutbound(mode) PROVE TestsInv'
<1>1. PICK i \in DOMAIN rows :
        /\ single' = single \cup {[item |-> RowItem(i), http |-> mode # "tcp" \/ rows[i] \in UdpLike]}
        /\ ShowTesting({RowItem(i)})
  BY DEF testOutbound
<1>2. single' \subseteq single \cup [item : {RowItem(i)}, http : BOOLEAN]
  <2> DEFINE http == mode # "tcp" \/ rows[i] \in UdpLike
  <2>1. http \in BOOLEAN
    OBVIOUS
  <2>2. single' = single \cup {[item |-> RowItem(i), http |-> http]}
    BY <1>1
  <2> HIDE DEF http
  <2> QED
    BY <2>1, <2>2
<1> QED
  BY <1>1, <1>2, RowItemRight, SingleKeeps DEF testOutbound

LEMMA testSubscriptionOutboundKeeps ==
  ASSUME TestsInv, NEW mode, testSubscriptionOutbound(mode) PROVE TestsInv'
<1>1. PICK o \in Subscribed :
        /\ single' = single \cup {[item |-> SubItem(o), http |-> mode # "tcp" \/ o \in UdpLike]}
        /\ ShowTesting({SubItem(o)})
  BY DEF testSubscriptionOutbound
<1>2. single' \subseteq single \cup [item : {SubItem(o)}, http : BOOLEAN]
  <2> DEFINE http == mode # "tcp" \/ o \in UdpLike
  <2>1. http \in BOOLEAN
    OBVIOUS
  <2>2. single' = single \cup {[item |-> SubItem(o), http |-> http]}
    BY <1>1
  <2> HIDE DEF http
  <2> QED
    BY <2>1, <2>2
<1> QED
  BY <1>1, <1>2, SubItemRight, SingleKeeps DEF testSubscriptionOutbound

LEMMA SingleAnsweredKeeps == TestsInv /\ (SingleAnswered \/ SingleProbed) => TestsInv'
<1> SUFFICES ASSUME TestsInv, SingleAnswered \/ SingleProbed PROVE TestsInv'
  OBVIOUS
<1>1. PICK s \in single : single' = single \ {s} /\ (ShowBusy({s.item}) \/ ShowOwn({s.item}))
  BY DEF SingleAnswered, SingleProbed
<1>2. s.item \in Items /\ (~ moved => Right(s.item))
  BY InFlightRight DEF InFlight
<1>3. lock' \in {lock, "free"} /\ UNCHANGED <<rows, testAll, moved>>
  BY DEF SingleAnswered, SingleProbed
<1> QED
  BY <1>1, <1>2, <1>3, SingleKeeps

LEMMA SingleProbesKeeps == TestsInv /\ SingleProbes => TestsInv'
<1> SUFFICES ASSUME TestsInv, SingleProbes PROVE TestsInv'
  OBVIOUS
<1>1. TestsTypeOK' /\ LockHasBatch'
  BY DEF TestsInv, TestsTypeOK, SingleProbes, LockHasBatch
<1>2. RunsDoNotMix' /\ Unmoved'
  BY DEF TestsInv, SingleProbes, RunsDoNotMix, LanesDone, Unmoved, InFlight, Right
<1> QED
  BY <1>1, <1>2 DEF TestsInv
-----------------------------------------------------------------------------
(* The test of all of them *)

LEMMA AllTyped ==
  ASSUME TestsInv
  PROVE  /\ testAll \in [on : BOOLEAN, tcp : SUBSET Items, dialing : SUBSET Items,
                         tpl : SUBSET Items, sub : SUBSET Items, batch : SUBSET Items]
         /\ Cardinality(testAll.batch) <= Chunk
         /\ single \subseteq [item : Items, http : BOOLEAN]
         /\ lock \in {"free", "all", "single"}
BY DEF TestsInv, TestsTypeOK

LEMMA testAllOutboundsKeeps == ASSUME TestsInv, NEW mode, testAllOutbounds(mode) PROVE TestsInv'
<1> DEFINE all == {RowItem(i) : i \in {j \in DOMAIN rows : ~ isUntestable(rows[j])}}
           subs == {SubItem(o) : o \in {q \in Subscribed : ~ isUntestable(q)}}
           Http(x) == mode # "tcp" \/ x.outbound \in UdpLike
<1>1. testAll' = [on |-> TRUE,
                  tcp |-> {x \in all \cup subs : ~ Http(x)}, dialing |-> {},
                  tpl |-> {x \in all : Http(x)}, sub |-> {x \in subs : Http(x)},
                  batch |-> NoBatch]
      /\ ~ testAll.on
      /\ UNCHANGED <<rows, rowTests, subTests, single, lock, moved>>
  BY DEF testAllOutbounds
<1>2. all \subseteq Items /\ (~ moved => \A x \in all : Right(x))
  BY RowItemRight
<1>3. subs \subseteq Items /\ \A x \in subs : Right(x)
  BY SubItemRight
<1> HIDE DEF all, subs, Http
<1>4. Cardinality(testAll'.batch) <= Chunk
  BY <1>1, FS_EmptySet, TestsAssumption DEF NoBatch, TestsAssumption
<1>5. TestsTypeOK'
  <2>1. testAll' \in [on : BOOLEAN, tcp : SUBSET Items, dialing : SUBSET Items,
                      tpl : SUBSET Items, sub : SUBSET Items, batch : SUBSET Items]
    BY <1>1, <1>2, <1>3 DEF NoBatch
  <2> QED
    BY <1>1, <1>4, <2>1 DEF TestsInv, TestsTypeOK
<1>6. Unmoved'
  <2>1. InFlight' \subseteq all \cup subs \cup InFlight
    BY <1>1 DEF InFlight, NoBatch
  <2> QED
    BY <1>1, <1>2, <1>3, <2>1 DEF TestsInv, Unmoved, Right
<1>7. RunsDoNotMix'
  BY <1>1 DEF RunsDoNotMix
\* Nothing holds the lock for a run that is over.
<1>8. LockHasBatch'
  BY <1>1 DEF TestsInv, LockHasBatch, RunsDoNotMix, LanesDone
<1> QED
  BY <1>5, <1>6, <1>7, <1>8 DEF TestsInv

LEMMA WorkersKeep == TestsInv /\ (WorkerTakes \/ WorkerAnswered) => TestsInv'
<1> SUFFICES ASSUME TestsInv, WorkerTakes \/ WorkerAnswered PROVE TestsInv'
  OBVIOUS
<1>1. PICK x \in testAll.tcp \cup testAll.dialing :
        /\ \/ testAll' = [testAll EXCEPT !.tcp = @ \ {x}, !.dialing = @ \cup {x}]
           \/ testAll' = [testAll EXCEPT !.dialing = @ \ {x}]
        /\ ShowTesting({x}) \/ ShowOwn({x})
  BY DEF WorkerTakes, WorkerAnswered
<1> DEFINE items == {x}
<1>2. UNCHANGED <<rows, single, lock, moved>>
  BY DEF WorkerTakes, WorkerAnswered
<1>3. items \in SUBSET Items /\ (~ moved => \A y \in items : Right(y))
  BY InFlightRight DEF InFlight
<1>4. testAll' \in [on : BOOLEAN, tcp : SUBSET Items, dialing : SUBSET Items,
                    tpl : SUBSET Items, sub : SUBSET Items, batch : SUBSET Items]
      /\ testAll'.batch = testAll.batch /\ testAll'.on = testAll.on
  BY <1>1, <1>3, AllTyped
<1>5. InFlight' \subseteq InFlight \cup items
  BY <1>1, <1>2, AllTyped DEF InFlight
<1>6. testAll.on
  BY <1>1 DEF TestsInv, RunsDoNotMix, LanesDone
<1>7. RunsDoNotMix' /\ LockHasBatch'
  BY <1>2, <1>4, <1>6 DEF TestsInv, RunsDoNotMix, LockHasBatch
<1>8. ShowTesting(items) \/ ShowOwn(items)
  BY <1>1
<1> HIDE DEF items
<1> QED
  BY <1>2, <1>3, <1>4, <1>5, <1>7, <1>8, AllTyped, ShowsKeeps

LEMMA SendKeeps ==
  ASSUME TestsInv, NEW queue \in {testAll.tpl, testAll.sub}, NEW chunk \in Chunks(queue),
         testAll.batch = NoBatch,
         NEW next \in {[testAll EXCEPT !.tpl = @ \ chunk], [testAll EXCEPT !.sub = @ \ chunk]},
         Send(chunk, next),
         UNCHANGED <<rows, single, moved>>
  PROVE  TestsInv'
<1>1. chunk \subseteq queue /\ chunk # {} /\ Cardinality(chunk) <= Chunk
  BY DEF Chunks
<1>2. /\ lock' \in {"free", "all", "single"}
      /\ \/ testAll' = [next EXCEPT !.batch = chunk]
         \/ testAll' = next /\ lock # "free" /\ lock' = lock
      /\ ShowTesting(chunk) \/ ShowBusy(chunk)
  BY AllTyped DEF Send
<1>3. chunk \in SUBSET Items /\ (~ moved => \A y \in chunk : Right(y)) /\ chunk \subseteq InFlight
  BY <1>1, InFlightRight DEF InFlight
<1>4. next \in [on : BOOLEAN, tcp : SUBSET Items, dialing : SUBSET Items,
                tpl : SUBSET Items, sub : SUBSET Items, batch : SUBSET Items]
      /\ next.batch = testAll.batch /\ next.on = testAll.on
      /\ next.tcp \subseteq testAll.tcp /\ next.dialing \subseteq testAll.dialing
      /\ next.tpl \subseteq testAll.tpl /\ next.sub \subseteq testAll.sub
  BY AllTyped
<1>5. testAll' \in [on : BOOLEAN, tcp : SUBSET Items, dialing : SUBSET Items,
                    tpl : SUBSET Items, sub : SUBSET Items, batch : SUBSET Items]
      /\ Cardinality(testAll'.batch) <= Chunk /\ testAll'.on = testAll.on
  BY <1>1, <1>2, <1>3, <1>4, AllTyped
<1>6. InFlight' \subseteq InFlight \cup chunk
  BY <1>2, <1>4 DEF InFlight
<1>7. testAll.on
  BY <1>1 DEF TestsInv, RunsDoNotMix, LanesDone
<1>8. RunsDoNotMix'
  BY <1>5, <1>7 DEF RunsDoNotMix
<1>9. LockHasBatch'
  <2>1. CASE testAll' = [next EXCEPT !.batch = chunk]
    BY <1>1, <1>4, <2>1 DEF LockHasBatch, NoBatch
  <2>2. CASE testAll' = next /\ lock' = lock
    BY <1>4, <2>2 DEF TestsInv, LockHasBatch
  <2> QED
    BY <1>2, <2>1, <2>2
<1> QED
  BY <1>2, <1>3, <1>5, <1>6, <1>8, <1>9, AllTyped, ShowsKeeps

LEMMA LanesKeep == TestsInv /\ (runTplHttpLane \/ runSubHttpLane) => TestsInv'
<1> SUFFICES ASSUME TestsInv, runTplHttpLane \/ runSubHttpLane PROVE TestsInv'
  OBVIOUS
<1>1. CASE runTplHttpLane
  BY <1>1, SendKeeps DEF runTplHttpLane
<1>2. CASE runSubHttpLane
  BY <1>2, SendKeeps DEF runSubHttpLane
<1> QED
  BY <1>1, <1>2

LEMMA BatchAnsweredKeeps == TestsInv /\ BatchAnswered => TestsInv'
<1> SUFFICES ASSUME TestsInv, BatchAnswered PROVE TestsInv'
  OBVIOUS
<1> DEFINE items == testAll.batch
<1>1. /\ testAll.batch # NoBatch /\ lock' = "free"
      /\ testAll' = [testAll EXCEPT !.batch = NoBatch]
      /\ UNCHANGED <<rows, single, moved>>
      /\ ShowOwn(items)
  BY DEF BatchAnswered
<1>2. items \in SUBSET Items /\ (~ moved => \A y \in items : Right(y))
  BY InFlightRight DEF InFlight
<1>3. testAll' \in [on : BOOLEAN, tcp : SUBSET Items, dialing : SUBSET Items,
                    tpl : SUBSET Items, sub : SUBSET Items, batch : SUBSET Items]
      /\ testAll'.on = testAll.on /\ testAll'.batch = NoBatch
  BY <1>1, AllTyped DEF NoBatch
<1>4. Cardinality(testAll'.batch) <= Chunk
  BY <1>3, FS_EmptySet, TestsAssumption DEF NoBatch, TestsAssumption
<1>5. InFlight' \subseteq InFlight \cup items
  BY <1>1, AllTyped DEF InFlight, NoBatch
<1>6. RunsDoNotMix' /\ LockHasBatch'
  BY <1>1, <1>3 DEF TestsInv, RunsDoNotMix, LanesDone, LockHasBatch
<1> HIDE DEF items
<1> QED
  BY <1>1, <1>2, <1>3, <1>4, <1>5, <1>6, AllTyped, ShowsKeeps

LEMMA TestAllEndsKeeps == TestsInv /\ TestAllEnds => TestsInv'
<1> SUFFICES ASSUME TestsInv, TestAllEnds PROVE TestsInv'
  OBVIOUS
<1>1. /\ LanesDone
      /\ testAll' = [testAll EXCEPT !.on = FALSE]
      /\ UNCHANGED <<rows, rowTests, subTests, single, lock, moved>>
  BY DEF TestAllEnds
<1>2. TestsTypeOK'
  BY <1>1, AllTyped DEF TestsInv, TestsTypeOK
<1>3. InFlight' = InFlight /\ RunsDoNotMix' /\ LockHasBatch'
  BY <1>1, AllTyped DEF TestsInv, InFlight, RunsDoNotMix, LanesDone, LockHasBatch
<1>4. Unmoved'
  BY <1>1, <1>3 DEF TestsInv, Unmoved, Right
<1> QED
  BY <1>2, <1>3, <1>4 DEF TestsInv

-----------------------------------------------------------------------------
(* The rows that go and that are moved *)

LEMMA RemovalKeepsType ==
  ASSUME NEW S, NEW s \in Seq(S), NEW i \in DOMAIN s
  PROVE  RemoveAt(s, i) \in Seq(S) /\ Len(RemoveAt(s, i)) = Len(s) - 1
<1>1. i \in Nat /\ 1 <= i /\ i <= Len(s) /\ Len(s) \in Nat
  OBVIOUS
<1>2. SubSeq(s, 1, i - 1) \in Seq(S) /\ Len(SubSeq(s, 1, i - 1)) = i - 1
  BY <1>1
<1>3. SubSeq(s, i + 1, Len(s)) \in Seq(S) /\ Len(SubSeq(s, i + 1, Len(s))) = Len(s) - i
  BY <1>1
<1> HIDE DEF RemoveAt
<1>4. ASSUME NEW a \in Seq(S), NEW b \in Seq(S)
      PROVE  a \o b \in Seq(S) /\ Len(a \o b) = Len(a) + Len(b)
  OBVIOUS
<1>5. RemoveAt(s, i) = SubSeq(s, 1, i - 1) \o SubSeq(s, i + 1, Len(s))
  BY DEF RemoveAt
<1> DEFINE a == SubSeq(s, 1, i - 1)
           b == SubSeq(s, i + 1, Len(s))
<1>6. a \in Seq(S) /\ Len(a) = i - 1
  BY <1>2
<1>7. b \in Seq(S) /\ Len(b) = Len(s) - i
  BY <1>3
<1>8. RemoveAt(s, i) = a \o b
  BY <1>5
<1> HIDE DEF a, b
<1> QED
  BY <1>1, <1>4, <1>6, <1>7, <1>8

LEMMA RowsMoveKeeps == TestsInv /\ (RowGoes \/ RowToTop) => TestsInv'
<1> SUFFICES ASSUME TestsInv, RowGoes \/ RowToTop PROVE TestsInv'
  OBVIOUS
<1>1. PICK i \in DOMAIN rows : rows' = RemoveAt(rows, i) \/ rows' = <<rows[i]>> \o RemoveAt(rows, i)
  BY DEF RowGoes, RowToTop
<1>2. moved' = TRUE /\ UNCHANGED <<rowTests, subTests, testAll, single, lock>>
  BY DEF RowGoes, RowToTop
<1>3. rows \in Seq(Outbounds) /\ Len(rows) <= Len(Listed) /\ Len(Listed) \in Nat
  BY ListedIsListed DEF TestsInv, TestsTypeOK
<1>4. rows' \in Seq(Outbounds) /\ Len(rows') <= Len(Listed)
  <2>1. RemoveAt(rows, i) \in Seq(Outbounds) /\ Len(RemoveAt(rows, i)) = Len(rows) - 1
    BY <1>3, RemovalKeepsType
  <2>2. rows[i] \in Outbounds
    BY <1>3
  <2> HIDE DEF RemoveAt
  <2> QED
    BY <1>1, <1>3, <2>1, <2>2
<1>5. TestsTypeOK' /\ LockHasBatch' /\ RunsDoNotMix'
  BY <1>2, <1>4 DEF TestsInv, TestsTypeOK, LockHasBatch, RunsDoNotMix, LanesDone
<1> QED
  BY <1>2, <1>5 DEF TestsInv, Unmoved

LEMMA TestsInvStep == TestsInv /\ [TestsNext]_testsVars => TestsInv'
<1> SUFFICES ASSUME TestsInv, [TestsNext]_testsVars PROVE TestsInv'
  OBVIOUS
<1>1. CASE UNCHANGED testsVars
  <2>1. TestsTypeOK' /\ RunsDoNotMix' /\ LockHasBatch'
    BY <1>1 DEF testsVars, TestsInv, TestsTypeOK, RunsDoNotMix, LanesDone, LockHasBatch
  <2>2. Unmoved'
    BY <1>1 DEF testsVars, TestsInv, Unmoved, InFlight, Right
  <2> QED
    BY <2>1, <2>2 DEF TestsInv
<1> QED
  BY <1>1, testOutboundKeeps, testSubscriptionOutboundKeeps, testAllOutboundsKeeps,
     SingleAnsweredKeeps, SingleProbesKeeps, WorkersKeep, LanesKeep, BatchAnsweredKeeps,
     TestAllEndsKeeps, RowsMoveKeeps DEF TestsNext

\* Neither lane is sent on while the lock is held by a batch of the run.
LEMMA LanesRespectLock ==
  TestsInv /\ [TestsNext]_testsVars =>
    [(testAll.on /\ (testAll'.tpl # testAll.tpl \/ testAll'.sub # testAll.sub))
       => lock \in {"free", "single"}]_testsVars
<1> SUFFICES ASSUME TestsInv, TestsNext, testAll.on,
                    testAll'.tpl # testAll.tpl \/ testAll'.sub # testAll.sub
             PROVE  lock \in {"free", "single"}
  OBVIOUS
<1>1. CASE runTplHttpLane \/ runSubHttpLane
  BY <1>1, AllTyped DEF runTplHttpLane, runSubHttpLane, TestsInv, LockHasBatch
<1>2. CASE WorkerTakes \/ WorkerAnswered \/ BatchAnswered \/ TestAllEnds
  BY <1>2, AllTyped DEF WorkerTakes, WorkerAnswered, BatchAnswered, TestAllEnds
<1>3. CASE \/ SingleAnswered \/ SingleProbes \/ SingleProbed \/ RowGoes \/ RowToTop
           \/ \E mode \in Modes : \/ testOutbound(mode) \/ testSubscriptionOutbound(mode)
                                  \/ testAllOutbounds(mode)
  BY <1>3 DEF SingleAnswered, SingleProbes, SingleProbed, RowGoes, RowToTop,
              testOutbound, testSubscriptionOutbound, testAllOutbounds
<1> QED
  BY <1>1, <1>2, <1>3 DEF TestsNext

LEMMA TestsShowTruth == TestsInv => TestsTypeOK /\ ResultsBelong /\ RunsDoNotMix
BY DEF TestsInv, ResultsBelong, Unmoved, Indexes
-----------------------------------------------------------------------------
(* The views that poll *)

LEMMA ChartsInvInit == ChartsInit => ChartsTypeOK
BY ChartsAssumption DEF ChartsInit, ChartsTypeOK, ChartsAssumption

\* The timer asks for what is shown exactly while there is something to poll.
LEMMA TimerTyped ==
  ASSUME NEW open, NEW s \in Selections, NEW auto,
         view' = view, pollTimer' = SetTimer(open, s, auto),
         viewOpen' = open, selected' = s, autoUpdate' = auto
  PROVE  /\ pollTimer' \in Selections \cup {Nothing_}
         /\ pollTimer' # Nothing_ => Polled(viewOpen, selected, autoUpdate)'
<1>1. pollTimer' = IF Polled(open, s, auto) THEN s ELSE Nothing_
  BY DEF SetTimer
<1>2. Polled(viewOpen, selected, autoUpdate)' <=> Polled(open, s, auto)
  BY DEF Polled
<1> HIDE DEF Polled
<1> QED
  BY <1>1, <1>2

LEMMA AskedTyped ==
  ASSUME ChartsTypeOK, NEW s \in Selections
  PROVE  Asked(s) \subseteq [of : Selections, series : {1, 2}]
BY DEF ChartsTypeOK, Asked

LEMMA ChartsPicksKeep ==
  ChartsTypeOK /\ (OpenView \/ CloseView_ \/ TickAuto \/ \E s \in Selections : PickSelection(s))
    => ChartsTypeOK'
<1> SUFFICES ASSUME ChartsTypeOK,
                    OpenView \/ CloseView_ \/ TickAuto \/ \E s \in Selections : PickSelection(s)
             PROVE  ChartsTypeOK'
  OBVIOUS
<1>1. First \in Selections /\ selected \in Selections
  BY ChartsAssumption DEF ChartsAssumption, ChartsTypeOK
<1>2. CASE OpenView
  <2>1. /\ selected' \in Selections /\ viewOpen' = TRUE /\ autoUpdate' = autoUpdate
        /\ view' = view /\ pollTimer' = SetTimer(TRUE, selected', autoUpdate)
        /\ flight' = Asked(selected) \cup Asked(selected')
        /\ UNCHANGED <<drawn, drawn2>>
    BY <1>1, <1>2 DEF OpenView
  <2>2. flight' \subseteq [of : Selections, series : {1, 2}]
    BY <1>1, <2>1, AskedTyped
  <2>3. /\ pollTimer' \in Selections \cup {Nothing_}
        /\ pollTimer' # Nothing_ => Polled(viewOpen, selected, autoUpdate)'
    BY <2>1, TimerTyped
  <2> QED
    BY <2>1, <2>2, <2>3 DEF ChartsTypeOK
<1>3. ASSUME NEW open, NEW s \in Selections, NEW auto, Changes_(open, s, auto)
      PROVE  ChartsTypeOK'
  <2>1. /\ selected' = s /\ viewOpen' = open /\ autoUpdate' = auto
        /\ view' = view /\ pollTimer' = SetTimer(open, s, auto)
        /\ flight' \in {Asked(s), flight}
        /\ UNCHANGED <<drawn, drawn2>>
    BY <1>3 DEF Changes_
  <2>2. flight' \subseteq [of : Selections, series : {1, 2}]
    BY <2>1, AskedTyped DEF ChartsTypeOK
  <2>3. /\ pollTimer' \in Selections \cup {Nothing_}
        /\ pollTimer' # Nothing_ => Polled(viewOpen, selected, autoUpdate)'
    BY <2>1, TimerTyped
  <2> QED
    BY <2>1, <2>2, <2>3 DEF ChartsTypeOK
<1>4. CASE CloseView_ \/ TickAuto \/ \E s \in Selections : PickSelection(s)
  BY <1>1, <1>3, <1>4 DEF CloseView_, TickAuto, PickSelection
<1> QED
  BY <1>2, <1>4

\* An answer changes what is drawn and what is under way, and nothing else.
LEMMA ChartsAnswersKeep ==
  ASSUME ChartsTypeOK, NEW f \in flight, AnswerDrawn(f) \/ AnswerFails(f)
  PROVE  ChartsTypeOK'
<1>1. f \in [of : Selections, series : {1, 2}]
  BY DEF ChartsTypeOK
<1>2. f.of \in Selections /\ [f EXCEPT !.series = 2] \in [of : Selections, series : {1, 2}]
  BY <1>1
<1>3. flight' \subseteq flight \cup {[f EXCEPT !.series = 2]}
  BY DEF AnswerDrawn, AnswerFails
<1>4. {drawn', drawn2'} \subseteq {drawn, drawn2, f.of, Nothing_}
  BY DEF AnswerDrawn, AnswerFails
<1>5. UNCHANGED <<view, viewOpen, selected, autoUpdate, pollTimer>>
  BY DEF AnswerDrawn, AnswerFails
<1>6. flight' \subseteq [of : Selections, series : {1, 2}]
  BY <1>2, <1>3 DEF ChartsTypeOK
<1>7. {drawn', drawn2'} \subseteq Selections \cup {Nothing_}
  BY <1>2, <1>4 DEF ChartsTypeOK
<1>8. Polled(viewOpen, selected, autoUpdate)' <=> Polled(viewOpen, selected, autoUpdate)
  BY <1>5 DEF Polled
<1> QED
  BY <1>5, <1>6, <1>7, <1>8 DEF ChartsTypeOK

LEMMA ChartsInvStep == ChartsTypeOK /\ [ChartsNext]_chartVars => ChartsTypeOK'
<1> SUFFICES ASSUME ChartsTypeOK, [ChartsNext]_chartVars PROVE ChartsTypeOK'
  OBVIOUS
<1>1. CASE Interval
  <2>1. /\ flight' = Asked(IF view = "logs" THEN selected ELSE pollTimer)
        /\ pollTimer # Nothing_
        /\ UNCHANGED <<view, viewOpen, selected, autoUpdate, pollTimer, drawn, drawn2>>
    BY <1>1 DEF Interval
  <2>2. flight' \subseteq [of : Selections, series : {1, 2}]
    BY <2>1, AskedTyped DEF ChartsTypeOK
  <2>3. Polled(viewOpen, selected, autoUpdate)' <=> Polled(viewOpen, selected, autoUpdate)
    BY <2>1 DEF Polled
  <2> QED
    BY <2>1, <2>2, <2>3 DEF ChartsTypeOK
<1>2. CASE UNCHANGED chartVars
  <2>1. Polled(viewOpen, selected, autoUpdate)' <=> Polled(viewOpen, selected, autoUpdate)
    BY <1>2 DEF Polled, chartVars
  <2> QED
    BY <1>2, <2>1 DEF ChartsTypeOK, chartVars
<1> QED
  BY <1>1, <1>2, ChartsPicksKeep, ChartsAnswersKeep DEF ChartsNext

-----------------------------------------------------------------------------
(* The parts together *)

PartsInv == SocketInv /\ LiveInv /\ TestsInv /\ ChartsTypeOK

LEMMA PartsInvInit == PartsInit => PartsInv
BY SocketInvInit, LiveInvInit, TestsInvInit, ChartsInvInit DEF PartsInit, PartsInv

\* A step is one of a part, and leaves the others where they are.
LEMMA StepOfPart ==
  [PartsNext]_partVars =>
    /\ [SocketNext]_socketVars /\ [LiveNext]_liveVars
    /\ [TestsNext]_testsVars /\ [ChartsNext]_chartVars
BY DEF PartsNext, partVars

LEMMA PartsInvStep == PartsInv /\ [PartsNext]_partVars => PartsInv'
BY StepOfPart, SocketInvStep, LiveInvStep, TestsInvStep, ChartsInvStep DEF PartsInv

LEMMA PartsInvariant == PartsSpec => []PartsInv
<1> QED
  BY PartsInvInit, PartsInvStep, PTL DEF PartsSpec

\* Every variable of every part has its type, whichever part it is that runs.
THEOREM PartsTyping == PartsSpec => []PartsTypeOK
<1>1. PartsInv => PartsTypeOK
  BY DEF PartsInv, PartsTypeOK, SocketInv, LiveInv, TestsInv
<1> QED
  BY <1>1, PartsInvariant, PTL

\* A screen shows what it claims to show: a list that is at rest is the
\* server's or its staleness has a cause, a row shows the result of its own
\* test, and a test of all that is over has left nothing under way.
THEOREM ScreensAreTruthful == PartsSpec => []ScreensTruthful
<1>1. PartsInv => ScreensTruthful
  BY AtRestFresh, TestsShowTruth DEF PartsInv, ScreensTruthful
<1> QED
  BY <1>1, PartsInvariant, PTL

\* A behaviour of the parts is one of the client, which may stutter.
LEMMA SocketIsAPart == PartsSpec => SocketSpec
<1>1. PartsInit => SocketInit
  BY DEF PartsInit
<1> QED
  BY <1>1, StepOfPart, PTL DEF PartsSpec, SocketSpec

\* The page has a socket or a timer whenever it wants the link, and never two
\* sockets (websocket.ts), in the composition as well.
THEOREM PartsNeverStranded == PartsSpec => []SocketOrTimer
BY SocketIsAPart, NeverStrandedNorDouble, PTL

\* A run's batches are refused for the sake of another test only, never of the
\* run itself, and a lost link is retried with the short delay.
THEOREM RetriesArePrompt == PartsSpec => PromptRetries
<1>1. TestsInv /\ [TestsNext]_testsVars =>
        [(testAll.on /\ (testAll'.tpl # testAll.tpl \/ testAll'.sub # testAll.sub))
           => lock \in {"free", "single"}]_testsVars
  BY LanesRespectLock
<1>2. PartsInv => TestsInv
  BY DEF PartsInv
<1>3. PartsSpec => NoBatchRefusesItself
  BY <1>1, <1>2, StepOfPart, PartsInvariant, PTL DEF PartsSpec, NoBatchRefusesItself
<1> QED
  BY <1>3, SocketIsAPart, RetriedFast, PTL DEF PromptRetries

\* The client implements the reliable link's safety part among the other parts.
THEOREM PartsKeepLink == PartsSpec => Link!LinkSafety
BY SocketIsAPart, ImplementsLink, PTL
=============================================================================
