------------------------------ MODULE LiveList ------------------------------
(***************************************************************************)
(* How the inbounds list and the clients list stay fresh: the notices and  *)
(* the pushed lists that come over the WebSocket, the bridge that turns a  *)
(* notice into a refetch after a delay (api/websocketBridge.ts), the window *)
(* after a change of one's own in which notices are dropped                *)
(* (api/invalidationTracker.ts), the query cache, the poll of the clients  *)
(* page and the local changes of both pages (useInbounds, useClients).     *)
(*                                                                         *)
(* Abstracted: a list is the number of changes the server had made to it   *)
(* when it was read; a fetch reads at any moment between its request and   *)
(* its answer.  Only the list of the open page is fetched; the other one   *)
(* is marked and fetched when its page is opened.  One local change is in  *)
(* flight at a time.  The link is that of ReliableLink; what is sent    *)
(* while it is down is lost.                                               *)
(***************************************************************************)
EXTENDS Naturals, Sequences

CONSTANTS
  MaxChanges,  \* bound on the changes of each list
  MaxInbox     \* bound on the messages under way

ASSUME LiveAssumption == MaxChanges \in Nat \ {0} /\ MaxInbox \in Nat \ {0}

Lists == {"inbounds", "clients"}

VARIABLES
  stored,     \* the server's lists
  cached,     \* the query cache
  listFetch,  \* per list: none, or the version stored when it was asked for
  marked,     \* the inactive lists that are invalidated
  route,      \* which of the two pages is open
  link,       \* is the WebSocket up?
  inbox,      \* messages under way
  bridgeTimer,\* invalidateTimer of the bridge: none, or the list of its notice
  recent,     \* isRecentLocalInvalidate
  post,       \* the local change that is stored and to be answered: none, or its page
  excused     \* history: lists one of whose notices was dropped, lost or overtaken

liveVars == <<stored, cached, listFetch, marked, route, link, inbox, bridgeTimer, recent, post, excused>>
listServer == <<stored, post>>
listCache == <<cached, listFetch, marked, route>>
bridge == <<bridgeTimer, recent>>

NoTimer == "none"
NoPost == "none"
NoListFetch == MaxChanges + 1
Notice(l) == [kind |-> "invalidate", list |-> l]
Pushed == [kind |-> "list", version |-> stored'["inbounds"]]

Message == [kind : {"invalidate"}, list : Lists] \cup [kind : {"list"}, version : 0..MaxChanges]

LiveTypeOK ==
  /\ stored \in [Lists -> 0..MaxChanges]
  /\ cached \in [Lists -> 0..MaxChanges]
  /\ listFetch \in [Lists -> 0..NoListFetch]
  /\ marked \in SUBSET Lists
  /\ route \in Lists
  /\ link \in {"up", "down"}
  /\ inbox \in Seq(Message) /\ Len(inbox) <= MaxInbox
  /\ bridgeTimer \in Lists \cup {NoTimer}
  /\ recent \in BOOLEAN
  /\ post \in Lists \cup {NoPost}
  /\ excused \in SUBSET Lists

LiveInit ==
  /\ stored = [l \in Lists |-> 0]
  /\ cached = stored
  /\ listFetch = [l \in Lists |-> NoListFetch]
  /\ marked = {}
  /\ route \in Lists
  /\ link = "up"
  /\ inbox = << >>
  /\ bridgeTimer = NoTimer
  /\ recent = FALSE
  /\ post = NoPost
  /\ excused = {}

-----------------------------------------------------------------------------
(* The server *)

\* A broadcast reaches an open link and is lost to this panel otherwise.
Broadcast(messages) ==
  IF link = "up"
  THEN /\ Len(inbox) + Len(messages) <= MaxInbox
       /\ inbox' = inbox \o messages
       /\ UNCHANGED excused
  ELSE /\ excused' = excused \cup {l \in Lists : stored'[l] # stored[l]}
       /\ UNCHANGED inbox

Change(lists) ==
  /\ \A l \in lists : stored[l] < MaxChanges
  /\ stored' = [l \in Lists |-> IF l \in lists THEN stored[l] + 1 ELSE stored[l]]

\* A node reported another structure: two notices, one after the other.
NodeChanges ==
  /\ Change(Lists)
  /\ Broadcast(<<Notice("inbounds"), Notice("clients")>>)
  /\ UNCHANGED <<listCache, bridge, link, post>>

\* Another operator's change of a client (notifyClientsChanged) gives a notice;
\* one of an inbound gives the list, or a notice when there are too many clients
\* (broadcastInboundsUpdate), as the job that disables clients does.
OtherChanges ==
  /\ \/ Change({"clients"}) /\ Broadcast(<<Notice("clients")>>)
     \/ Change({"inbounds"}) /\ (Broadcast(<<Notice("inbounds")>>) \/ Broadcast(<<Pushed>>))
  /\ UNCHANGED <<listCache, bridge, link, post>>

-----------------------------------------------------------------------------
(* The query cache *)

\* invalidateQueries: the list on the screen is asked for again, dropping the
\* fetch that runs; the other one is marked.
InvalidateLists(lists) ==
  /\ listFetch' = [l \in Lists |-> IF l \in lists /\ l = route THEN stored[l] ELSE listFetch[l]]
  /\ marked' = (marked \ lists) \cup (lists \ {route})
  /\ UNCHANGED <<cached, route>>

\* An answer clears the mark, one that was set while it was under way too.
Fetched(l) ==
  /\ listFetch[l] # NoListFetch
  /\ \E v \in listFetch[l]..stored[l] :
       /\ cached' = [cached EXCEPT ![l] = v]
       /\ excused' = IF l \in marked /\ v # stored[l] THEN excused \cup {l} ELSE excused
  /\ listFetch' = [listFetch EXCEPT ![l] = NoListFetch]
  /\ marked' = marked \ {l}
  /\ UNCHANGED <<listServer, route, link, inbox, bridge>>

\* The request and its retry failed; an answer that was read is lost.
ListFetchFails(l) ==
  /\ listFetch[l] # NoListFetch
  /\ listFetch' = [listFetch EXCEPT ![l] = NoListFetch]
  /\ excused' = excused \cup {l}
  /\ UNCHANGED <<listServer, cached, marked, route, link, inbox, bridge>>

\* Mutant: the clients page does not poll.
NoPoll ==
  /\ FALSE
  /\ UNCHANGED liveVars

\* refetchInterval of the clients page
Poll ==
  /\ route = "clients"
  /\ listFetch["clients"] = NoListFetch
  /\ listFetch' = [listFetch EXCEPT !["clients"] = stored["clients"]]
  /\ marked' = marked \ {"clients"}
  /\ UNCHANGED <<listServer, cached, route, link, inbox, bridge, excused>>

\* A page is opened and mounts its query.  With staleTime Infinity its list is
\* fetched only when it has been marked, and not when a fetch that began earlier
\* is still under way.
Navigate ==
  /\ \E l \in Lists \ {route} :
       /\ route' = l
       /\ IF l \in marked /\ listFetch[l] = NoListFetch
          THEN /\ marked' = marked \ {l}
               /\ listFetch' = [listFetch EXCEPT ![l] = stored[l]]
          ELSE UNCHANGED <<marked, listFetch>>
  /\ UNCHANGED <<listServer, cached, link, inbox, bridge, excused>>

-----------------------------------------------------------------------------
(* The bridge *)

Arrives(m) == inbox # << >> /\ m = Head(inbox) /\ inbox' = Tail(inbox)

\* onInvalidate: one timer serves both lists, a notice replaces the one that
\* waits.
onInvalidate ==
  /\ \E l \in Lists :
       /\ Arrives(Notice(l))
       /\ bridgeTimer' = l
       /\ excused' = excused \cup ({bridgeTimer} \ {l, NoTimer})
  /\ UNCHANGED <<listServer, listCache, link, recent>>

\* onInbounds: setQueryData, whatever a fetch has brought or will bring; it
\* clears the mark like an answer.
onInbounds ==
  /\ \E v \in 0..MaxChanges :
       /\ Arrives([kind |-> "list", version |-> v])
       /\ cached' = [cached EXCEPT !["inbounds"] = v]
       /\ excused' = IF \/ listFetch["inbounds"] # NoListFetch
                        \/ v < cached["inbounds"]
                        \/ "inbounds" \in marked /\ v # stored["inbounds"]
                     THEN excused \cup {"inbounds"} ELSE excused
  /\ marked' = marked \ {"inbounds"}
  /\ UNCHANGED <<listServer, listFetch, route, link, bridge>>

\* Mutant: a fired timer refetches nothing.
FiresIdle ==
  /\ bridgeTimer # NoTimer
  /\ bridgeTimer' = NoTimer
  /\ excused' = IF recent THEN excused \cup {bridgeTimer} ELSE excused
  /\ UNCHANGED <<listServer, listCache, link, inbox, recent>>

\* The callback of the timer: nothing inside the window of a change of one's own.
BridgeTimerFires ==
  /\ bridgeTimer # NoTimer
  /\ bridgeTimer' = NoTimer
  /\ IF recent
     THEN excused' = excused \cup {bridgeTimer} /\ UNCHANGED listCache
     ELSE InvalidateLists({bridgeTimer}) /\ UNCHANGED excused
  /\ UNCHANGED <<listServer, link, inbox, recent>>

WindowEnds ==
  /\ recent
  /\ recent' = FALSE
  /\ UNCHANGED <<listServer, listCache, link, inbox, bridgeTimer, excused>>

\* Nobody refetches when the link comes back.
LinkChanges ==
  /\ link' = IF link = "up" THEN "down" ELSE "up"
  /\ inbox' = << >>
  /\ excused' = excused \cup {m.list : m \in {inbox[i] : i \in DOMAIN inbox} \cap [kind : {"invalidate"}, list : Lists]}
                        \cup (IF \E i \in DOMAIN inbox : inbox[i].kind = "list" THEN {"inbounds"} ELSE {})
  /\ UNCHANGED <<listServer, listCache, bridge>>

-----------------------------------------------------------------------------
(* Changes of one's own *)

\* A mutation of the open page, at the server: the clients pages' requests
\* change clients and what the inbounds list shows of them.
LocalChange ==
  /\ post = NoPost
  /\ post' = route
  /\ IF route = "clients"
     THEN Change(Lists) /\ Broadcast(<<Notice("clients")>>)
     ELSE Change({"inbounds"}) /\ (Broadcast(<<Notice("inbounds")>>) \/ Broadcast(<<Pushed>>))
  /\ UNCHANGED <<listCache, bridge, link>>

\* onSuccess, also after its page was left: invalidateAll of useClients opens
\* the window, refresh of useInbounds does not.  (Its keys also cover the online maps.)
LocalAnswered ==
  /\ post # NoPost
  /\ post' = NoPost
  /\ IF post = "clients"
     THEN recent' = TRUE /\ InvalidateLists(Lists)
     ELSE InvalidateLists({"inbounds"}) /\ UNCHANGED recent
  /\ UNCHANGED <<stored, link, inbox, bridgeTimer, excused>>

\* The answer was lost: nothing is refetched.
LocalLost ==
  /\ post # NoPost
  /\ post' = NoPost
  /\ excused' = Lists
  /\ UNCHANGED <<stored, listCache, bridge, link, inbox>>

LiveNext ==
  \/ NodeChanges \/ OtherChanges
  \/ \E l \in Lists : Fetched(l) \/ ListFetchFails(l)
  \/ Poll \/ Navigate
  \/ onInvalidate \/ onInbounds \/ BridgeTimerFires \/ WindowEnds \/ LinkChanges
  \/ LocalChange \/ LocalAnswered \/ LocalLost

LiveSpec == LiveInit /\ [][LiveNext]_liveVars

\* The poll goes on while its page is open; requests may fail, but not all of
\* them for ever (a server that is never reached defeats every list).
LiveFairness == WF_liveVars(Poll) /\ SF_liveVars(Fetched("clients"))

-----------------------------------------------------------------------------
(* Properties *)

Settled ==
  /\ inbox = << >> /\ bridgeTimer = NoTimer /\ post = NoPost
  /\ \A l \in Lists : listFetch[l] = NoListFetch

\* At rest a list shows what the server stores or is marked for the opening
\* of its page, except where a notice was dropped: replaced in the timer by
\* one of the other list, inside the window of a change of one's own, lost
\* with the link, or overtaken by a fetch (websocketBridge.ts, useClients).
FreshOrExcused ==
  Settled => \A l \in Lists \ excused : cached[l] = stored[l] \/ l \in marked

\* A notice that was heard waits until the list it names is asked for again,
\* or marked where its page is closed: what BroadcastInvalidate tells the
\* panels to do.
NoticesHonoured ==
  [][\A l \in Lists : bridgeTimer = l /\ bridgeTimer' # l =>
       listFetch'[l] = stored[l] \/ l \in marked']_liveVars

\* Whatever was dropped, the clients page catches up while it is open.
ClientsCatchUp ==
  (route = "clients" /\ cached["clients"] # stored["clients"])
    ~> (route # "clients" \/ cached["clients"] = stored["clients"])
=============================================================================
