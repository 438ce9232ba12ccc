-------------------------- MODULE WebSocketClient --------------------------
(***************************************************************************)
(* The WebSocket client of the panel (api/websocket.ts): the socket in     *)
(* use, the sockets it has given up and whose close events are still to    *)
(* come, the reconnect timer with its back-off, and the calls of the pages *)
(* that mount and unmount (hooks/useWebSocket.ts).  A socket is known by a *)
(* model value that is used again once its close event has been handled.   *)
(*                                                                         *)
(* Abstracted: the delay of a reconnect is "backoff" (one of the growing   *)
(* delays) or "slow"; the messages themselves are in LiveList; a connection *)
(* attempt succeeds when the server is reachable at the moment it is       *)
(* decided, and the constructor may throw when it is not.                  *)
(***************************************************************************)
EXTENDS Naturals

CONSTANTS
  Sockets,      \* the sockets that may be alive at once
  None,         \* no socket
  Pages,        \* the components that listen
  MaxAttempts   \* maxReconnectAttempts

ASSUME SocketAssumption ==
  /\ None \notin Sockets
  /\ MaxAttempts \in Nat \ {0}

VARIABLES
  sock,             \* the browser's state of each socket
  ws,               \* this.ws
  shouldReconnect,
  attempts,         \* reconnectAttempts
  isConnected,
  timer,            \* reconnectTimer: none, or the kind of its delay
  listeners,        \* who has registered a handler
  asked,            \* history: connect was the last call, not disconnect
  reachable         \* can the server be reached?

socketVars == <<sock, ws, shouldReconnect, attempts, isConnected, timer, listeners, asked,
                reachable>>
wish == <<shouldReconnect, listeners, asked>>

SocketTypeOK ==
  /\ sock \in [Sockets -> {"free", "connecting", "open", "closing"}]
  /\ ws \in Sockets \cup {None}
  /\ shouldReconnect \in BOOLEAN
  /\ attempts \in 0..MaxAttempts
  /\ isConnected \in BOOLEAN
  /\ timer \in {"none", "backoff", "slow"}
  /\ listeners \in SUBSET Pages
  /\ asked \in BOOLEAN
  /\ reachable \in BOOLEAN

SocketInit ==
  /\ sock = [s \in Sockets |-> "free"]
  /\ ws = None
  /\ shouldReconnect = TRUE
  /\ attempts = 0
  /\ isConnected = FALSE
  /\ timer = "none"
  /\ listeners = {}
  /\ asked = FALSE
  /\ reachable = TRUE

Alive == {s \in Sockets : sock[s] \in {"connecting", "open"}}

-----------------------------------------------------------------------------
(* The private methods; both are reached with no timer running *)

\* Mutant: the attempts are counted without end, one too many.
CountPastLimit ==
  /\ attempts' = attempts + 1
  /\ timer' = IF attempts < MaxAttempts THEN "backoff" ELSE "slow"

scheduleReconnect ==
  IF attempts < MaxAttempts
  THEN attempts' = attempts + 1 /\ timer' = "backoff"
  ELSE attempts' = attempts /\ timer' = "slow"

\* openSocket: a constructor that throws leaves this.ws as it is.
openSocket ==
  \/ \E s \in Sockets :
       /\ sock[s] = "free"
       /\ sock' = [sock EXCEPT ![s] = "connecting"]
       /\ ws' = s
       /\ timer' = "none"
       /\ UNCHANGED attempts
  \/ /\ ~ reachable
     /\ scheduleReconnect
     /\ UNCHANGED <<sock, ws>>

-----------------------------------------------------------------------------
(* The calls of the pages *)

\* connect, by a page that mounts and registers its handlers
Connect(p) ==
  /\ listeners' = listeners \cup {p}
  /\ asked' = TRUE
  /\ IF ws \in Alive
     THEN UNCHANGED <<sock, ws, shouldReconnect, attempts, timer>>
     ELSE shouldReconnect' = TRUE /\ openSocket
  /\ UNCHANGED <<isConnected, reachable>>

\* The cleanup of the effect takes the handlers away and leaves the link.
Leave(p) ==
  /\ listeners' = listeners \ {p}
  /\ UNCHANGED <<sock, ws, shouldReconnect, attempts, isConnected, timer, asked, reachable>>

\* Mutant: the running timer is forgotten.
DisconnectKeepsTimer ==
  /\ shouldReconnect' = FALSE
  /\ attempts' = 0
  /\ sock' = [s \in Sockets |-> IF s = ws THEN "closing" ELSE sock[s]]
  /\ ws' = None
  /\ isConnected' = FALSE
  /\ asked' = FALSE
  /\ UNCHANGED <<timer, listeners, reachable>>

disconnect ==
  /\ shouldReconnect' = FALSE
  /\ timer' = "none"
  /\ attempts' = 0
  /\ sock' = [s \in Sockets |-> IF s = ws THEN "closing" ELSE sock[s]]
  /\ ws' = None
  /\ isConnected' = FALSE
  /\ asked' = FALSE
  /\ UNCHANGED <<listeners, reachable>>

-----------------------------------------------------------------------------
(* The events of a socket: those of a socket that is not this.ws are ignored *)

Opens(s) ==
  /\ sock[s] = "connecting"
  /\ reachable
  /\ sock' = [sock EXCEPT ![s] = "open"]
  /\ IF ws = s
     THEN isConnected' = TRUE /\ attempts' = 0
     ELSE UNCHANGED <<isConnected, attempts>>
  /\ UNCHANGED <<ws, wish, timer, reachable>>

\* An attempt fails, an open link drops, or a close comes to its end.
CanClose(s) ==
  \/ sock[s] = "connecting" /\ ~ reachable
  \/ sock[s] \in {"open", "closing"}

\* Mutant: a link is retried only when it had been up.
ClosesUpOnly(s) ==
  /\ CanClose(s)
  /\ sock' = [sock EXCEPT ![s] = "free"]
  /\ IF ws = s
     THEN /\ isConnected' = FALSE
          /\ ws' = None
          /\ IF shouldReconnect /\ isConnected
             THEN scheduleReconnect
             ELSE UNCHANGED <<attempts, timer>>
     ELSE UNCHANGED <<isConnected, ws, attempts, timer>>
  /\ UNCHANGED <<wish, reachable>>

Closes(s) ==
  /\ CanClose(s)
  /\ sock' = [sock EXCEPT ![s] = "free"]
  /\ IF ws = s
     THEN /\ isConnected' = FALSE
          /\ ws' = None
          /\ IF shouldReconnect THEN scheduleReconnect ELSE UNCHANGED <<attempts, timer>>
     ELSE UNCHANGED <<isConnected, ws, attempts, timer>>
  /\ UNCHANGED <<wish, reachable>>

\* onMessage: a payload over the limit closes the socket.
TooBig ==
  /\ ws \in Sockets
  /\ sock[ws] = "open"
  /\ sock' = [sock EXCEPT ![ws] = "closing"]
  /\ UNCHANGED <<ws, wish, attempts, isConnected, timer, reachable>>

\* The callback of the reconnect timer.
TimerFires ==
  /\ timer # "none"
  /\ IF shouldReconnect
     THEN openSocket
     ELSE timer' = "none" /\ UNCHANGED <<sock, ws, attempts>>
  /\ UNCHANGED <<wish, isConnected, reachable>>

NetworkChanges ==
  /\ reachable' = ~ reachable
  /\ UNCHANGED <<sock, ws, wish, attempts, isConnected, timer>>

SocketNext ==
  \/ \E p \in Pages : Connect(p) \/ Leave(p)
  \/ disconnect
  \/ \E s \in Sockets : Opens(s) \/ Closes(s)
  \/ TooBig \/ TimerFires \/ NetworkChanges

SocketSpec == SocketInit /\ [][SocketNext]_socketVars

\* Timers fire; the browser decides an attempt and ends a close.
SocketFairness ==
  /\ WF_socketVars(TimerFires)
  /\ \A s \in Sockets :
       /\ WF_socketVars(Opens(s))
       /\ WF_socketVars(sock[s] # "open" /\ Closes(s))

-----------------------------------------------------------------------------
(* Properties *)

\* As long as a page has asked for the link, the client has a socket or a
\* timer that will make one: no order of closes, failed constructors and
\* calls leaves it with neither (scheduleReconnect, the close handler).
NeverStranded == asked => ws \in Sockets \/ timer # "none"

\* There is at most one socket alive, it is this.ws, and no timer runs that
\* would open another beside it (the guards `this.ws !== socket`, connect).
OneSocket ==
  /\ \A s \in Alive : s = ws
  /\ timer # "none" => Alive = {}

\* After disconnect nothing reconnects, whatever event is still to come.
QuietAfterDisconnect == ~ asked => timer = "none" /\ Alive = {}

\* While the pages want the WebSocket there is one socket or a timer that will
\* open one, and afterwards neither (websocket.ts).
SocketOrTimer == NeverStranded /\ OneSocket /\ QuietAfterDisconnect

\* A link that was up is retried with a growing delay, never with the slow
\* one: the attempts of an earlier outage do not count (the open handler).
LostIsRetriedFast ==
  [][(ws \in Sockets /\ sock[ws] = "open" /\ ws' = None /\ timer' # "none")
       => timer' = "backoff"]_socketVars

Link == INSTANCE ReliableLink WITH
  want <- asked,
  link <- IF ws \in Sockets THEN IF sock[ws] = "open" THEN "up" ELSE "down" ELSE "down"

\* The client keeps the promise of the link: only its steps, and the link
\* comes up while it is wanted and the server can be reached (ReliableLink).
KeepsLink == Link!LinkSpec
=============================================================================
