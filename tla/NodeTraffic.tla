---------------------------- MODULE NodeTraffic ----------------------------
(***************************************************************************)
(* How a master panel accounts the traffic its nodes report                *)
(* (setRemoteTrafficLocked and its helpers in                              *)
(* internal/web/service/inbound_node.go, the resets of inbound_traffic.go  *)
(* and client_traffic.go).                                                 *)
(*                                                                         *)
(* A node counts the traffic of a client once and shows the counter under  *)
(* every inbound the client is on.  The master fetches a snapshot and      *)
(* later merges it, on the serial writer, into one accumulator row per     *)
(* client that all nodes and the local Xray share: it adds what the        *)
(* counter gained over the baseline stored for (node, client).             *)
(*                                                                         *)
(* The upload and download counters are accounted alike and are one        *)
(* counter here.  A client is its email.  An expiry is -1 (start after     *)
(* first use), or a deadline.  The node itself is external: it is          *)
(* modelled from what the master reads of it.                              *)
(***************************************************************************)
EXTENDS Integers, FiniteSets, FiniteSetsExt

CONSTANTS
    Nodes,        \* node panels
    Tags,         \* inbound tags
    Emails,       \* clients
    LocalEmails,  \* clients that are also on an inbound of the master itself
    AutoRenew,    \* clients with reset > 0
    Editable,     \* bound: the nodes on which inbounds and clients are edited
    Deletable,    \* bound: the clients that the master deletes
    Requested,    \* bound: the clients it puts on inbounds and takes off them
    MaxGen,       \* bound on the traffic of a client on one node, and locally
    MaxExp        \* bound on the deadlines

ASSUME TrafficAssumption ==
    /\ IsFiniteSet(Nodes)
    /\ LocalEmails \subseteq Emails /\ AutoRenew \subseteq Emails
    /\ Editable \subseteq Nodes /\ Deletable \subseteq Emails \ LocalEmails
    /\ Requested \subseteq Emails
    /\ MaxGen \in Nat /\ MaxExp \in Nat

VARIABLES
    hosts,    \* node -> tags of its inbounds
    on,       \* node -> pairs <<tag, client>>: the client is on the inbound
    ctr,      \* node -> client -> cumulative counter of the node
    exp,      \* node -> client -> expiry on the node
    snap,     \* node -> snapshot fetched and not yet merged, or NoSnap
    central,  \* inbounds rows of nodes: pairs <<node, tag>>
    conf,     \* settings.clients: pairs <<inbound, client>>
    link,     \* client_inbounds: pairs <<inbound, client>>
    row,      \* client -> client_traffics row, or NoRow
    base,     \* node -> client -> node_client_traffics baseline, or None
    tomb,     \* clients with a live delete tombstone
    del,      \* client -> the run of Delete in progress
    req,      \* inbound -> the request that holds its lock, or NoReq
    gen,      \* history: node -> client -> traffic that really happened
    charged,  \* history: node -> client -> the node's share of row[client].used
    local,    \* history: client -> the master's own share
    exact,    \* history: node -> client -> the share must be exact
    since,    \* history: node -> client -> traffic before the share became exact
    sticks    \* history: client -> what its deletion must have removed for good

nodeVars    == <<hosts, on, ctr, exp, gen>>
historyVars == <<charged, local, exact, since>>
vars == <<nodeVars, snap, central, conf, link, row, base, tomb, del, req,
          historyVars, sticks>>

None    == -1
NoSnap  == [tags |-> {}, on |-> {}, none |-> TRUE]
NoRow   == [used |-> -1]
LocalIb == <<"local">>
GoneIb  == <<"gone">>
NoDel   == [active |-> FALSE, keep |-> FALSE, todo |-> {}]
NoReq   == [op |-> "none"]
Inbound == Nodes \X Tags

HasRow(e) == row[e] # NoRow

\* The master knows no inbound of a node yet; a node that is not edited hosts
\* every inbound with every client.
Init ==
    /\ hosts = [n \in Nodes |-> IF n \in Editable THEN {} ELSE Tags]
    /\ on = [n \in Nodes |-> IF n \in Editable THEN {} ELSE Tags \X Emails]
    /\ ctr = [n \in Nodes |-> [e \in Emails |-> 0]]
    /\ exp = [n \in Nodes |-> [e \in Emails |-> -1]]
    /\ snap = [n \in Nodes |-> NoSnap]
    /\ central = {} /\ conf = {} /\ link = {} /\ tomb = {}
    /\ row = [e \in Emails |-> IF e \in LocalEmails
                                 THEN [used |-> 0, home |-> LocalIb, exp |-> -1]
                                 ELSE NoRow]
    /\ base = [n \in Nodes |-> [e \in Emails |-> None]]
    /\ del = [e \in Emails |-> NoDel]
    /\ req = [ib \in Inbound |-> NoReq]
    /\ gen = [n \in Nodes |-> [e \in Emails |-> 0]]
    /\ charged = [n \in Nodes |-> [e \in Emails |-> 0]]
    /\ local = [e \in Emails |-> 0]
    /\ exact = [n \in Nodes |-> [e \in Emails |-> FALSE]]
    /\ sticks = [e \in Emails |-> "no"]
    /\ since = [n \in Nodes |-> [e \in Emails |-> 0]]

-----------------------------------------------------------------------------
(***************************************************************************)
(* The node.  A counter that falls (a reset or a renewal on the node, or   *)
(* the client leaving and returning) ends the exactness of the share.      *)
(***************************************************************************)

OnNode(n, e) == \E t \in hosts[n] : <<t, e>> \in on[n]

\* The counters of clients E of node n start again from zero.
CounterFalls(n, E) ==
    /\ ctr' = [ctr EXCEPT ![n] = [e \in Emails |-> IF e \in E THEN 0 ELSE @[e]]]
    /\ exact' = [exact EXCEPT ![n] = [e \in Emails |-> @[e] /\ e \notin E]]
    /\ snap' = IF snap[n] = NoSnap THEN snap
                 ELSE [snap EXCEPT ![n].live = @ \ E]

\* The inbounds of node n become H with clients C; who leaves loses its counter.
NodeEdit(n, H, C) ==
    /\ n \in Editable
    /\ hosts' = [hosts EXCEPT ![n] = H]
    /\ on' = [on EXCEPT ![n] = C]
    /\ CounterFalls(n, {e \in Emails : ~ \E t \in H : <<t, e>> \in C})
    /\ UNCHANGED <<exp, gen, central, conf, link, row, base, tomb, del, req, sticks, charged,
                   local, since>>

NodeAddInbound(n, t) ==
    /\ t \notin hosts[n]
    /\ \E E \in SUBSET Emails : NodeEdit(n, hosts[n] \cup {t}, on[n] \cup ({t} \X E))

NodeDelInbound(n, t) ==
    /\ t \in hosts[n]
    /\ NodeEdit(n, hosts[n] \ {t}, on[n] \ ({t} \X Emails))

\* The tag of an inbound changes (it carries the port) and its clients stay.
NodeRename(n, t, u) ==
    /\ t \in hosts[n] /\ u \notin hosts[n]
    /\ NodeEdit(n, (hosts[n] \ {t}) \cup {u},
                {<<IF p[1] = t THEN u ELSE p[1], p[2]>> : p \in on[n]})

NodeAttach(n, t, e) ==
    /\ t \in hosts[n] /\ <<t, e>> \notin on[n]
    /\ NodeEdit(n, hosts[n], on[n] \cup {<<t, e>>})

NodeDetach(n, t, e) ==
    /\ <<t, e>> \in on[n]
    /\ NodeEdit(n, hosts[n], on[n] \ {<<t, e>>})

\* Traffic on a node; the first of it turns a duration into a deadline.
Use(n, e) ==
    /\ OnNode(n, e) /\ gen[n][e] < MaxGen
    /\ ctr' = [ctr EXCEPT ![n][e] = @ + 1]
    /\ gen' = [gen EXCEPT ![n][e] = @ + 1]
    /\ exp' = [exp EXCEPT ![n][e] = IF @ < 0 THEN 1 ELSE @]
    /\ UNCHANGED <<hosts, on, snap, central, conf, link, row, base, tomb, del, req, sticks,
                   historyVars>>

\* The node resets the counter, or renews: it resets and moves the deadline.
NodeReset(n, e) ==
    /\ OnNode(n, e)
    /\ CounterFalls(n, {e})
    /\ UNCHANGED <<hosts, on, exp, gen, central, conf, link, row, base, tomb, del, req, sticks,
                   charged, local, since>>

NodeRenew(n, e) ==
    /\ OnNode(n, e) /\ e \in AutoRenew /\ exp[n][e] \in 1..(MaxExp - 1)
    /\ exp' = [exp EXCEPT ![n][e] = @ + 1]
    /\ CounterFalls(n, {e})
    /\ UNCHANGED <<hosts, on, gen, central, conf, link, row, base, tomb, del, req, sticks,
                   charged, local, since>>

-----------------------------------------------------------------------------
(***************************************************************************)
(* Fetching a snapshot.  The copy of the counter under one inbound may be  *)
(* stale, but some inbound of the client shows its present value.          *)
(***************************************************************************)
Fetch(n) ==
    /\ snap[n] = NoSnap
    /\ \E copy \in [Tags \X Emails -> 0..MaxGen] :
         /\ \A t \in Tags, e \in Emails :
              IF <<t, e>> \in on[n] THEN copy[<<t, e>>] <= ctr[n][e]
                                    ELSE copy[<<t, e>>] = 0
         /\ \A e \in Emails : OnNode(n, e) =>
              \E t \in hosts[n] : <<t, e>> \in on[n] /\ copy[<<t, e>>] = ctr[n][e]
         /\ snap' = [snap EXCEPT ![n] =
              [tags |-> hosts[n], on |-> on[n], copy |-> copy, exp |-> exp[n],
               gen |-> gen[n], top |-> ctr[n], live |-> Emails, none |-> FALSE]]
    /\ UNCHANGED <<nodeVars, central, conf, link, row, base, tomb, del, req, sticks, historyVars>>

\* A node in the middle of a restart answers with no inbounds at all.
FetchBlank(n) ==
    /\ snap[n] = NoSnap
    /\ snap' = [snap EXCEPT ![n] =
         [tags |-> {}, on |-> {}, copy |-> [p \in Tags \X Emails |-> 0],
          exp |-> exp[n], gen |-> gen[n], top |-> ctr[n], live |-> Emails,
          none |-> FALSE]]
    /\ UNCHANGED <<nodeVars, central, conf, link, row, base, tomb, del, req, sticks, historyVars>>

\* The merge fails (an error rolls the transaction back, or the writer's queue
\* is full) and the snapshot is dropped.
DropSnapshot(n) ==
    /\ snap[n] # NoSnap
    /\ snap' = [snap EXCEPT ![n] = NoSnap]
    /\ UNCHANGED <<nodeVars, central, conf, link, row, base, tomb, del, req, sticks, historyVars>>
-----------------------------------------------------------------------------
(***************************************************************************)
(* setRemoteTrafficLocked.  The parameters of the operators are the node,  *)
(* its snapshot s, whether the node is config-dirty, and the unknown       *)
(* inbounds for which a central row could be made (their tag was free).    *)
(***************************************************************************)

Reporting(s, e) == {t \in s.tags : <<t, e>> \in s.on}
Known(n, s)     == {t \in s.tags : <<n, t>> \in central}
Mapped(n, s, made) == Known(n, s) \cup made

\* Fault: the smallest copy instead of the largest (#5274).
CanonLowest(s, e) ==
    LET copies == {s.copy[<<t, e>>] : t \in Reporting(s, e)}
    IN  CHOOSE v \in copies : \A w \in copies : v <= w

\* nodeEmailTotals: the largest copy the snapshot has of the client's counter.
Canon(s, e) ==
    LET copies == {s.copy[<<t, e>>] : t \in Reporting(s, e)}
    IN  CHOOSE v \in copies : \A w \in copies : w <= v

\* Central inbounds that the node no longer reports.
Swept(n, s, dirty) ==
    IF dirty \/ s.tags = {} THEN {}
    ELSE {t \in Tags : <<n, t>> \in central /\ t \notin s.tags}

\* emailUsedByOtherInbounds: reads the stored settings, outside the transaction.
UsedElsewhere(e, ib) ==
    e \in LocalEmails \/ \E o \in central \ {ib} : <<o, e>> \in conf

HomeSwept(n, s, dirty, e) ==
    HasRow(e) /\ row[e].home \in {n} \X Swept(n, s, dirty)

\* The rows after the sweep of inbounds: dropped, detached from their inbound,
\* or as before.
RowAfterSweep(n, s, dirty, e) ==
    IF ~HomeSwept(n, s, dirty, e) THEN row[e]
    ELSE IF UsedElsewhere(e, row[e].home) THEN [row[e] EXCEPT !.home = GoneIb]
    ELSE NoRow

\* Fault: the node's value always wins.
AdoptExpiry(old, new) == new

MergeActivationExpiry(old, new) == IF old > 0 /\ new <= 0 THEN old ELSE new

\* nodeClientRenewed, and the two conditions of its call: a baseline, and a row
\* that belongs to an inbound of this node.
NodeClientRenewed(n, s, e) ==
    /\ base[n][e] # None
    /\ row[e].home \in central /\ row[e].home[1] = n
    /\ e \in AutoRenew /\ row[e].exp > 0 /\ s.exp[e] > row[e].exp
    /\ Canon(s, e) < base[n][e]

\* Fault: a counter that fell is not clamped.
DeltaUnclamped(n, s, e) ==
    IF base[n][e] # None THEN Canon(s, e) - base[n][e] ELSE 0

Delta(n, s, e) ==
    IF base[n][e] # None /\ Canon(s, e) > base[n][e]
      THEN Canon(s, e) - base[n][e] ELSE 0

\* A client without a row gets one under an inbound that reports it, unless the
\* node is dirty; a tombstone keeps it out of the inbounds already known.
Seeders(n, s, dirty, made, e) ==
    IF HasRow(e) \/ dirty THEN {}
    ELSE {t \in Reporting(s, e) \cap Mapped(n, s, made) : t \in made \/ e \notin tomb}

Seeded(n, s, dirty, made, e) == Seeders(n, s, dirty, made, e) # {}

SeedOf(s, made, t, e) == IF t \in made /\ e \notin tomb THEN Canon(s, e) ELSE 0

\* The client is in the statistics of an inbound the master knows, and had a row.
Updated(n, s, made, e) ==
    HasRow(e) /\ Reporting(s, e) \cap Mapped(n, s, made) # {}

\* Fault: the row takes the node's counter instead of its gain.
RowOverwritten(n, s, dirty, made, first, e) ==
    LET r == RowAfterSweep(n, s, dirty, e)
    IN  IF Seeded(n, s, dirty, made, e)
          THEN [used |-> SeedOf(s, made, first[e], e), home |-> <<n, first[e]>>,
                exp |-> s.exp[e]]
        ELSE IF ~Updated(n, s, made, e) \/ r = NoRow THEN r
        ELSE [r EXCEPT !.used = Canon(s, e),
                       !.exp = MergeActivationExpiry(@, s.exp[e])]

\* The rows after the statistics: first says which reporting inbound comes first.
RowAfterStats(n, s, dirty, made, first, e) ==
    LET r == RowAfterSweep(n, s, dirty, e)
    IN  IF Seeded(n, s, dirty, made, e)
          THEN [used |-> SeedOf(s, made, first[e], e), home |-> <<n, first[e]>>,
                exp |-> s.exp[e]]
        ELSE IF ~Updated(n, s, made, e) \/ r = NoRow THEN r
        ELSE IF NodeClientRenewed(n, s, e)
          THEN [r EXCEPT !.used = Canon(s, e), !.exp = s.exp[e]]
        ELSE [r EXCEPT !.used = @ + Delta(n, s, e),
                       !.exp = MergeActivationExpiry(@, s.exp[e])]

\* Fault: the siblings of the inbound are not asked (#5202).
StatGoneHere(n, s, dirty, made, e) ==
    /\ ~dirty /\ HasRow(e)
    /\ row[e].home \in {n} \X (Mapped(n, s, made) \ Reporting(s, e))

\* The client left the statistics of its row's inbound and of the whole node.
StatGone(n, s, dirty, made, e) ==
    /\ ~dirty /\ HasRow(e) /\ Reporting(s, e) = {}
    /\ row[e].home \in {n} \X Mapped(n, s, made)

\* SyncInbound for every reported inbound, and the detached ones of the sweep.
LinkAfter(n, s, dirty, made) ==
    IF dirty THEN link
    ELSE {p \in link : p[1] \notin {n} \X (Mapped(n, s, made) \cup Swept(n, s, dirty))}
         \cup {<<<<n, p[1]>>, p[2]>> : p \in {q \in s.on : q[1] \in Mapped(n, s, made) /\ q[2] \notin tomb}}

\* Adopted settings: without the tombstoned clients on an inbound already known.
ConfAfter(n, s, dirty, made) ==
    IF dirty THEN conf
    ELSE {p \in conf : p[1] \notin {n} \X (Known(n, s) \cup Swept(n, s, dirty))}
         \cup {<<<<n, p[1]>>, p[2]>> : p \in {q \in s.on :
                 q[1] \in made \/ (q[1] \in Known(n, s) /\ q[2] \notin tomb)}}

\* A client that lost its last attachment: its rows go, on every node.
Orphaned(n, s, dirty, made, e) ==
    /\ ~dirty /\ e \notin LocalEmails
    /\ \E t \in Known(n, s) : <<<<n, t>>, e>> \in link
    /\ ~ \E p \in LinkAfter(n, s, dirty, made) : p[2] = e

RowAfter(n, s, dirty, made, first, e) ==
    IF \/ Orphaned(n, s, dirty, made, e)
       \/ StatGone(n, s, dirty, made, e) /\ ~UsedElsewhere(e, row[e].home)
      THEN NoRow
      ELSE RowAfterStats(n, s, dirty, made, first, e)

\* The baseline of the node: dropped with a client that left the node, moved to
\* the snapshot's counter for a client it reports.
BaseAfter(n, s, dirty, made, e) ==
    IF \/ StatGone(n, s, dirty, made, e)
       \/ HomeSwept(n, s, dirty, e) /\ Reporting(s, e) = {}
      THEN None
    ELSE IF Seeded(n, s, dirty, made, e) \/ Updated(n, s, made, e) THEN Canon(s, e)
    ELSE base[n][e]

\* What the merge adds to the node's share of the row.
ShareAfter(n, s, dirty, made, first, e) ==
    IF RowAfter(n, s, dirty, made, first, e) = NoRow THEN 0
    ELSE IF Seeded(n, s, dirty, made, e) THEN SeedOf(s, made, first[e], e)
    ELSE IF ~Updated(n, s, made, e) THEN charged[n][e]
    ELSE IF NodeClientRenewed(n, s, e) THEN Canon(s, e)
    ELSE charged[n][e] + Delta(n, s, e)

\* The row is gone, or starts a new window with this node's counter alone.
Restarts(n, s, dirty, made, first, e) ==
    \/ RowAfter(n, s, dirty, made, first, e) = NoRow
    \/ Seeded(n, s, dirty, made, e)
    \/ Updated(n, s, made, e) /\ NodeClientRenewed(n, s, e)

\* The share of a client the merge found and that is not exact yet becomes exact.
BecomesExact(n, s, dirty, made, first, e) ==
    /\ RowAfter(n, s, dirty, made, first, e) # NoRow
    /\ Seeded(n, s, dirty, made, e) \/ Updated(n, s, made, e)
    /\ e \in s.live
    /\ ~exact[n][e] \/ Restarts(n, s, dirty, made, first, e)

MergeHistory(n, s, dirty, made, first) ==
    /\ charged' = [m \in Nodes |-> [e \in Emails |->
         IF m = n THEN ShareAfter(n, s, dirty, made, first, e)
         ELSE IF Restarts(n, s, dirty, made, first, e) THEN 0
         ELSE charged[m][e]]]
    /\ local' = [e \in Emails |->
         IF Restarts(n, s, dirty, made, first, e) THEN 0 ELSE local[e]]
    /\ exact' = [m \in Nodes |-> [e \in Emails |->
         IF Restarts(n, s, dirty, made, first, e) \/ (m = n /\ ~exact[m][e])
           THEN m = n /\ BecomesExact(n, s, dirty, made, first, e)
         ELSE exact[m][e] /\ (m = n => Reporting(s, e) # {} \/ s.tags = {})]]
    /\ since' = [since EXCEPT ![n] = [e \in Emails |->
         IF BecomesExact(n, s, dirty, made, first, e)
           THEN s.gen[e] - ShareAfter(n, s, dirty, made, first, e)
           ELSE @[e]]]

\* An inbound created anew has an id of its own: a deletion does not know it, and
\* the save of a request that still holds the old one fails on the unique tag.
NewInbounds(I) ==
    /\ req' = [ib \in Inbound |-> IF ib \in I /\ req[ib] # NoReq
                                    THEN [req[ib] EXCEPT !.lost = TRUE] ELSE req[ib]]
    /\ del' = [e \in Emails |-> [del[e] EXCEPT !.todo = @ \ I]]

\* A deletion of clients E has failed, or need not stick any more.
NoLonger(E) == sticks' = [e \in Emails |-> IF e \in E THEN "no" ELSE sticks[e]]

\* What the merge makes of the tables: made are the inbounds it creates, and first
\* says under which inbound a client without a row gets one.
MergeWith(n, dirty, made, first) ==
    LET s == snap[n]
    IN  /\ made \subseteq s.tags \ Known(n, s) /\ (dirty => made = {})
        /\ \A e \in Emails : Seeded(n, s, dirty, made, e) =>
             first[e] \in Seeders(n, s, dirty, made, e)
        /\ row' = [e \in Emails |-> RowAfter(n, s, dirty, made, first, e)]
        /\ base' = [m \in Nodes |-> [e \in Emails |->
              IF Orphaned(n, s, dirty, made, e) THEN None
              ELSE IF m = n THEN BaseAfter(n, s, dirty, made, e)
              ELSE base[m][e]]]
        /\ central' = (central \cup ({n} \X made)) \ ({n} \X Swept(n, s, dirty))
        /\ conf' = ConfAfter(n, s, dirty, made)
        /\ link' = LinkAfter(n, s, dirty, made)
        /\ MergeHistory(n, s, dirty, made, first)

\* One transaction on the serial writer.
SetRemoteTraffic(n) ==
    /\ snap[n] # NoSnap
    /\ \E dirty \in BOOLEAN, made \in SUBSET Tags, first \in [Emails -> Tags] :
         /\ MergeWith(n, dirty, made, first)
         /\ NewInbounds({n} \X made)
         /\ NoLonger({e \in Emails : Reporting(snap[n], e) \cap made # {}})
    /\ snap' = [snap EXCEPT ![n] = NoSnap]
    /\ UNCHANGED <<nodeVars, tomb>>

-----------------------------------------------------------------------------
(***************************************************************************)
(* The master's own operations on the rows.                                *)
(***************************************************************************)

\* addClientTraffic for a client of a local inbound.
AddLocalTraffic(e) ==
    /\ e \in LocalEmails /\ HasRow(e) /\ local[e] < MaxGen
    /\ row' = [row EXCEPT ![e].used = @ + 1, ![e].exp = IF @ < 0 THEN 1 ELSE @]
    /\ local' = [local EXCEPT ![e] = @ + 1]
    /\ UNCHANGED <<nodeVars, snap, central, conf, link, base, tomb, del, req, sticks, charged,
                   exact, since>>

\* A row set back to zero, and the history that goes with it.
Zeroed(E) ==
    /\ row' = [e \in Emails |-> IF e \in E /\ HasRow(e) THEN [row[e] EXCEPT !.used = 0]
                                ELSE row[e]]
    /\ charged' = [n \in Nodes |-> [e \in Emails |-> IF e \in E THEN 0 ELSE charged[n][e]]]
    /\ local' = [e \in Emails |-> IF e \in E THEN 0 ELSE local[e]]

\* ResetClientTrafficByEmail, BulkResetTraffic, ResetAllClientTraffics: the
\* baselines of the client go with its usage, the nodes are not told.
ResetClientTrafficByEmail(e) ==
    /\ HasRow(e)
    /\ Zeroed({e})
    /\ base' = [n \in Nodes |-> [base[n] EXCEPT ![e] = None]]
    /\ exact' = [n \in Nodes |-> [exact[n] EXCEPT ![e] = FALSE]]
    /\ UNCHANGED <<nodeVars, snap, central, conf, link, tomb, del, req, sticks, since>>

\* ResetClientTraffic on an inbound of a node: as above, and the node is asked to
\* reset its counter; the call may fail.
ResetClientTraffic(n, t, e) ==
    /\ HasRow(e) /\ <<<<n, t>>, e>> \in link
    /\ Zeroed({e})
    /\ base' = [m \in Nodes |-> [base[m] EXCEPT ![e] = None]]
    /\ exact' = [m \in Nodes |-> [exact[m] EXCEPT ![e] = FALSE]]
    /\ \/ UNCHANGED <<ctr, snap>>
       \/ /\ ctr' = [ctr EXCEPT ![n][e] = 0]
          /\ snap' = IF snap[n] = NoSnap THEN snap
                       ELSE [snap EXCEPT ![n].live = @ \ {e}]
    /\ UNCHANGED <<hosts, on, exp, gen, central, conf, link, tomb, del, req, sticks, since>>

\* ClientService.ResetAllTraffics: every usage, and no baseline.
ResetAllTraffics ==
    /\ \E e \in Emails : HasRow(e)
    /\ Zeroed(Emails)
    /\ exact' = [n \in Nodes |-> [e \in Emails |-> FALSE]]
    /\ UNCHANGED <<nodeVars, snap, central, conf, link, base, tomb, del, req, sticks, since>>

(***************************************************************************)
(* A request that changes the clients of an inbound holds the inbound's    *)
(* lock; it reads the settings and decides what goes with them, and saves  *)
(* the settings whole in a transaction of its own.  A merge takes no such  *)
(* lock.  The push that follows reaches the node later, or never: it is an *)
(* edit of the node.                                                       *)
(***************************************************************************)

\* The request op for client e locks the inbound and reads; stat says that the
\* traffic of the client goes with the save.
ReadSettings(ib, op, e, stat) ==
    /\ req[ib] = NoReq
    /\ req' = [req EXCEPT ![ib] =
         [op |-> op, client |-> e, stat |-> stat, lost |-> FALSE,
          read |-> {f \in Emails : <<ib, f>> \in conf}]]
    /\ UNCHANGED <<nodeVars, snap, central, conf, link, row, base, tomb, del,
                   sticks, historyVars>>

\* The master puts a client on an inbound of a node.
AddClient(n, t, e) ==
    /\ e \in Requested
    /\ <<n, t>> \in central /\ <<<<n, t>>, e>> \notin conf
    /\ ReadSettings(<<n, t>>, "add", e, FALSE)

\* Detach takes a client off an inbound and keeps its traffic.
Detach(n, t, e) ==
    /\ e \in Requested
    /\ <<n, t>> \in central /\ <<<<n, t>>, e>> \in conf
    /\ ReadSettings(<<n, t>>, "detach", e, FALSE)

\* Some inbound is locked by the deletion of e.
Deleting(e) == \E ib \in Inbound : req[ib].op = "delete" /\ req[ib].client = e

\* Fault: the settings are looked at before the lock is taken.
DelUnlocked(e, ib) ==
    /\ ib \in del[e].todo /\ ~Deleting(e)
    /\ IF ib \in central /\ <<ib, e>> \in conf
         THEN ReadSettings(ib, "delete", e, HasRow(e) /\ ~UsedElsewhere(e, ib))
         ELSE /\ del' = [del EXCEPT ![e].todo = @ \ {ib}]
              /\ UNCHANGED <<nodeVars, snap, central, conf, link, row, base, tomb,
                             req, sticks, historyVars>>

\* The deletion takes the next inbound: one that is gone, or no longer has the
\* client, is skipped.  The traffic is to go with the last inbound.
DelInboundClientByEmail(e, ib) ==
    /\ ib \in del[e].todo /\ ~Deleting(e)
    /\ IF ib \in central /\ <<ib, e>> \in conf
         THEN ReadSettings(ib, "delete", e, HasRow(e) /\ ~UsedElsewhere(e, ib))
         ELSE /\ ib \in central => req[ib] = NoReq
              /\ del' = [del EXCEPT ![e].todo = @ \ {ib}]
              /\ UNCHANGED <<nodeVars, snap, central, conf, link, row, base, tomb,
                             req, sticks, historyVars>>

\* The row, the baselines and the shares of the client go.
TrafficRemoved(e) ==
    /\ row' = [row EXCEPT ![e] = NoRow]
    /\ base' = [n \in Nodes |-> [base[n] EXCEPT ![e] = None]]
    /\ charged' = [n \in Nodes |-> [charged[n] EXCEPT ![e] = 0]]
    /\ local' = [local EXCEPT ![e] = 0]
    /\ exact' = [n \in Nodes |-> [exact[n] EXCEPT ![e] = FALSE]]

TrafficKept == UNCHANGED <<row, base, charged, local, exact>>

\* AddClientStat: a row that exists stays as it is.
AddClientStat(e, ib) ==
    /\ row' = [row EXCEPT ![e] = IF HasRow(e) THEN @
                                 ELSE [used |-> 0, home |-> ib, exp |-> -1]]
    /\ UNCHANGED <<base, charged, local, exact>>

\* The clients of the settings that request r saves.
SavedClients(r) ==
    IF r.op = "add" THEN r.read \cup {r.client} ELSE r.read \ {r.client}

\* The transaction: the settings as they were read, with the change, replace what
\* a merge has stored since; an inbound that a sweep has taken is inserted again.
SaveSettings(ib) ==
    /\ req[ib] # NoReq /\ ~req[ib].lost
    /\ central' = central \cup {ib}
    /\ conf' = {p \in conf : p[1] # ib} \cup ({ib} \X SavedClients(req[ib]))
    /\ link' = {p \in link : p[1] # ib} \cup ({ib} \X SavedClients(req[ib]))
    /\ IF req[ib].op = "add" THEN AddClientStat(req[ib].client, ib)
       ELSE IF req[ib].stat THEN TrafficRemoved(req[ib].client)
       ELSE TrafficKept
    /\ req' = [req EXCEPT ![ib] = NoReq]
    /\ del' = IF req[ib].op = "delete"
                 THEN [del EXCEPT ![req[ib].client].todo = @ \ {ib}] ELSE del
    /\ NoLonger(IF ib \notin central THEN SavedClients(req[ib])
                ELSE IF req[ib].op = "add" THEN {req[ib].client} ELSE {})
    /\ UNCHANGED <<nodeVars, snap, tomb, since>>

\* The push plan or the transaction fails, and a deletion ends half done.
SaveFails(ib) ==
    /\ req[ib] # NoReq
    /\ req' = [req EXCEPT ![ib] = NoReq]
    /\ del' = IF req[ib].op = "delete" THEN [del EXCEPT ![req[ib].client] = NoDel]
              ELSE del
    /\ NoLonger(IF req[ib].op = "delete" THEN {req[ib].client} ELSE {})
    /\ UNCHANGED <<nodeVars, snap, central, conf, link, row, base, tomb, historyVars>>

(***************************************************************************)
(* Delete: the tombstone and the list of inbounds, DelInboundClientByEmail *)
(* for each of them in turn, and a last transaction for the rest.          *)
(***************************************************************************)
\* No request that read the client in the settings of an inbound outside the list
\* is still to save them.
Listed(e) ==
    /\ {p \in conf : p[2] = e} = {p \in link : p[2] = e}
    /\ \A ib \in Inbound :
         req[ib] # NoReq /\ <<ib, e>> \notin link => e \notin req[ib].read

Delete(e, keepTraffic) ==
    /\ e \in Deletable /\ ~del[e].active
    /\ \E p \in link : p[2] = e
    /\ tomb' = tomb \cup {e}
    /\ del' = [del EXCEPT ![e] = [active |-> TRUE, keep |-> keepTraffic,
                                  todo |-> {p[1] : p \in {q \in link : q[2] = e}}]]
    /\ sticks' = [sticks EXCEPT ![e] =
         IF ~Listed(e) THEN "no" ELSE IF keepTraffic THEN "kept" ELSE "all"]
    /\ UNCHANGED <<nodeVars, snap, central, conf, link, row, base, req, historyVars>>

DeleteFinish(e) ==
    /\ del[e].active /\ del[e].todo = {} /\ ~Deleting(e)
    /\ del' = [del EXCEPT ![e] = NoDel]
    /\ link' = {p \in link : p[2] # e}
    /\ IF del[e].keep THEN TrafficKept ELSE TrafficRemoved(e)
    /\ UNCHANGED <<nodeVars, snap, central, conf, tomb, req, sticks, since>>

\* An error in one of the transactions ends the deletion half done.
DeleteFails(e) ==
    /\ del[e].active /\ ~Deleting(e)
    /\ del' = [del EXCEPT ![e] = NoDel]
    /\ NoLonger({e})
    /\ UNCHANGED <<nodeVars, snap, central, conf, link, row, base, tomb, req,
                   historyVars>>

\* deleteTombstoneTTL has passed.
TombstoneExpires(e) ==
    /\ e \in tomb
    /\ tomb' = tomb \ {e}
    /\ NoLonger({e})
    /\ UNCHANGED <<nodeVars, snap, central, conf, link, row, base, del, req,
                   historyVars>>

-----------------------------------------------------------------------------
Node(n) ==
    \/ \E t \in Tags : NodeAddInbound(n, t) \/ NodeDelInbound(n, t)
    \/ \E t, u \in Tags : NodeRename(n, t, u)
    \/ \E t \in Tags, e \in Emails : NodeAttach(n, t, e) \/ NodeDetach(n, t, e)
    \/ \E e \in Emails : Use(n, e) \/ NodeReset(n, e) \/ NodeRenew(n, e)

Sync(n) == Fetch(n) \/ FetchBlank(n) \/ DropSnapshot(n) \/ SetRemoteTraffic(n)

Master ==
    \/ \E e \in Emails :
         \/ AddLocalTraffic(e) \/ ResetClientTrafficByEmail(e)
         \/ \E keepTraffic \in BOOLEAN : Delete(e, keepTraffic)
         \/ \E ib \in del[e].todo : DelInboundClientByEmail(e, ib)
         \/ DeleteFinish(e) \/ DeleteFails(e) \/ TombstoneExpires(e)
    \/ \E n \in Nodes, t \in Tags, e \in Emails :
         ResetClientTraffic(n, t, e) \/ AddClient(n, t, e) \/ Detach(n, t, e)
    \/ \E ib \in Inbound : SaveSettings(ib) \/ SaveFails(ib)
    \/ ResetAllTraffics

Next == Master \/ \E n \in Nodes : Node(n) \/ Sync(n)

Spec == Init /\ [][Next]_vars

-----------------------------------------------------------------------------
(***************************************************************************)
(* Properties.                                                             *)
(***************************************************************************)

Row == [used : Nat, home : Inbound \cup {LocalIb, GoneIb}, exp : Int]

Snapshot ==
    [tags : SUBSET Tags, on : SUBSET (Tags \X Emails), copy : [Tags \X Emails -> Nat],
     exp : [Emails -> Int], gen : [Emails -> Nat], top : [Emails -> Nat],
     live : SUBSET Emails, none : {FALSE}]

Request == [op : {"add", "detach", "delete"}, client : Emails, stat : BOOLEAN,
            lost : BOOLEAN, read : SUBSET Emails]

\* The shape of the tables, of the nodes and of the snapshots.
TypeOK ==
    /\ hosts \in [Nodes -> SUBSET Tags]
    /\ on \in [Nodes -> SUBSET (Tags \X Emails)]
    /\ ctr \in [Nodes -> [Emails -> Nat]] /\ gen \in [Nodes -> [Emails -> Nat]]
    /\ exp \in [Nodes -> [Emails -> Int]]
    /\ \A n \in Nodes : snap[n] = NoSnap \/ snap[n] \in Snapshot
    /\ central \subseteq Inbound
    /\ conf \subseteq Inbound \X Emails /\ link \subseteq Inbound \X Emails
    /\ \A e \in Emails : row[e] = NoRow \/ row[e] \in Row
    /\ base \in [Nodes -> [Emails -> Nat \cup {None}]]
    /\ tomb \subseteq Emails
    /\ del \in [Emails -> [active : BOOLEAN, keep : BOOLEAN, todo : SUBSET Inbound]]
    /\ req \in [Inbound -> Request \cup {NoReq}]
    /\ charged \in [Nodes -> [Emails -> Nat]] /\ local \in [Emails -> Nat]
    /\ exact \in [Nodes -> [Emails -> BOOLEAN]] /\ since \in [Nodes -> [Emails -> Int]]
    /\ sticks \in [Emails -> {"no", "kept", "all"}]

\* Nothing is charged twice: whatever the order of fetches, merges, resets on
\* either side, renewals, stale copies and moves between inbounds, the share a
\* node has in a client's row is at most the traffic the client had there.
ChargedOnce ==
    \A n \in Nodes, e \in Emails : charged[n][e] <= gen[n][e]

\* The shared row is the sum of the shares: a merge of one node never touches
\* what another node, or the local Xray, has put into the accumulator.
RowIsSum ==
    \A e \in Emails : HasRow(e) =>
        row[e].used = local[e] + MapThenSumSet(LAMBDA n : charged[n][e], Nodes)

\* Nothing is lost either: from the merge that first sees a client on a node, and
\* until its counter falls, it is reset or it leaves the node, the share and what
\* the counter gained over the baseline are together all its traffic (#5202).
ExactShare ==
    \A n \in Nodes, e \in Emails : exact[n][e] =>
        /\ base[n][e] # None
        /\ charged[n][e] + (ctr[n][e] - base[n][e]) = gen[n][e] - since[n][e]

\* A deadline once activated is never turned back into a duration by a node that
\* has not seen the client yet (mergeActivationExpiry).
ActivatedStays ==
    [][\A e \in Emails : HasRow(e) /\ row'[e] # NoRow /\ row[e].exp > 0
                          => row'[e].exp > 0]_vars

\* The accumulator row of a client goes only with its last attachment (comment
\* in the sweep of setRemoteTrafficLocked).
RowOutlivesInbound ==
    [][\A e \in Emails : HasRow(e) /\ row'[e] = NoRow
                          => ~ \E p \in link' : p[2] = e]_vars

\* A deletion that ended well sticks while its tombstone lives, whatever snapshots
\* are in flight, inbounds are swept and requests save what they read before: the
\* client is in no settings and on no inbound, and has no row, until a request
\* puts it back, the node brings it in with an inbound new to the master, or a
\* request inserts an inbound again that a sweep has taken.
DeletedIsGone ==
    \A e \in Emails : sticks[e] # "no" /\ ~del[e].active =>
        /\ \A p \in conf \cup link : p[2] # e
        /\ sticks[e] = "all" => ~HasRow(e)

=============================================================================
