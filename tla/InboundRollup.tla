--------------------------- MODULE InboundRollup ---------------------------
(***************************************************************************)
(* The live rows of the inbounds page (useInbounds): the rows seeded from  *)
(* the list query, the maps of who is online, which inbounds are active    *)
(* and which inbound a session uses, the assignment of online clients to   *)
(* inbounds and the counts that the table shows.                           *)
(*                                                                         *)
(* Abstracted: an inbound's tag is its identity, and every inbound is of a *)
(* protocol that counts clients; a client of the settings is enabled or    *)
(* not and by its counters ended (expired or over its quota) or not; the   *)
(* counts kept are those of the online and of the ended clients.  The      *)
(* speed column is left out.                                               *)
(***************************************************************************)
EXTENDS Naturals

CONSTANTS
  Inbounds,   \* inbounds, equal to their tags
  Users,      \* clients
  Local,      \* the inbounds of the panel itself: nodeId is null
  Guids,      \* the panelGuids of the panel and its nodes
  Guid,       \* the panelGuid of the node that hosts an inbound
  Absent      \* no such inbound, no such entry

ASSUME RollupAssumption == Local \subseteq Inbounds /\ Guid \in [Inbounds -> Guids]

NoTag == "no tag"

VARIABLES
  rows,       \* dbInbounds: per inbound absent, or the state of its clients
  online,     \* onlineByGuidRef
  active,     \* activeByGuidRef: absent for a node that reports none
  session,    \* sessionByGuidRef: the tag that a client's session uses
  assigned,   \* onlineByInboundRef
  counts,     \* clientCount: per inbound the clients shown online and ended
  seeded      \* history: the last change of the counts was a seed of the rows

rollupVars == <<rows, online, active, session, assigned, counts, seeded>>
maps == <<online, active, session>>

\* enabled and not ended, disabled, enabled and ended, disabled and ended
ClientState == {"none", "on", "off", "ended", "over"}
Row == [Users -> ClientState]
Ended == {"ended", "over"}

\* The counters change, the settings do not.
SameSettings(c) == IF c \in {"on", "ended"} THEN {"on", "ended"} ELSE {c, "off", "over"} \ {"none"}
Present == {i \in Inbounds : rows[i] # Absent}

RollupTypeOK ==
  /\ rows \in [Inbounds -> Row \cup {Absent}]
  /\ online \in [Guids -> SUBSET Users]
  /\ active \in [Guids -> (SUBSET Inbounds) \cup {Absent}]
  /\ session \in [Guids -> [Users -> Inbounds \cup {NoTag}]]
  /\ assigned \in [Inbounds -> SUBSET Users]
  /\ counts \in [Inbounds -> [online : SUBSET Users, ended : SUBSET Users]]
  /\ seeded \in BOOLEAN

-----------------------------------------------------------------------------
(* buildOnlineInboundAssignments *)

\* The inbounds of a node on which an enabled client could be online.
Candidates(rs, on, g, e) ==
  {i \in Inbounds : /\ Guid[i] = g /\ rs[i] # Absent /\ e \in on[g]
                    /\ rs[i][e] \in {"on", "ended"}}

\* A client goes to the inbound of its session, or to its only candidate
\* when no session is known.
Assign(rs, on, se) ==
  [i \in Inbounds |->
     {e \in Users : LET all == Candidates(rs, on, Guid[i], e) IN
        IF se[Guid[i]][e] # NoTag THEN i \in all /\ i = se[Guid[i]][e] ELSE all = {i}}]

\* rollupClients, for every row: an ended client is not online, and where a
\* node reports activity an idle inbound has nobody online.
Rollup(rs, on, ac, as) ==
  [i \in Inbounds |->
     IF rs[i] = Absent THEN [online |-> {}, ended |-> {}]
     ELSE [ended |-> {e \in Users : rs[i][e] \in Ended},
           online |-> {e \in Users : /\ rs[i][e] = "on"
                                     /\ e \in on[Guid[i]] \cap as[i]
                                     /\ ac[Guid[i]] = Absent \/ i \in ac[Guid[i]]}]]

\* rebuildClientCount
Rebuild(rs, on, ac, se) ==
  /\ assigned' = Assign(rs, on, se)
  /\ counts' = Rollup(rs, on, ac, Assign(rs, on, se))
  /\ seeded' = FALSE

-----------------------------------------------------------------------------
(* The effects of the queries *)

RollupInit ==
  /\ rows = [i \in Inbounds |-> Absent]
  /\ online = [g \in Guids |-> {}]
  /\ active = [g \in Guids |-> Absent]
  /\ session = [g \in Guids |-> [e \in Users |-> NoTag]]
  /\ assigned = [i \in Inbounds |-> {}]
  /\ counts = [i \in Inbounds |-> [online |-> {}, ended |-> {}]]
  /\ seeded = FALSE

\* Another list arrives: the counts are taken with the assignment of the old
\* rows, then the assignment is renewed.
SeedRows ==
  /\ \E i \in Inbounds, r \in Row \cup {Absent} : rows' = [rows EXCEPT ![i] = r]
  /\ counts' = Rollup(rows', online, active, assigned)
  /\ assigned' = Assign(rows', online, session)
  /\ seeded' = TRUE
  /\ UNCHANGED <<maps>>

SeedOnline ==
  /\ \E g \in Guids, on \in SUBSET Users : online' = [online EXCEPT ![g] = on]
  /\ Rebuild(rows, online', active, session)
  /\ UNCHANGED <<rows, active, session>>

\* Only the panel itself reports the activity of its inbounds.
SeedActive ==
  /\ \E g \in {Guid[i] : i \in Local}, ac \in SUBSET Local : active' = [active EXCEPT ![g] = ac]
  /\ Rebuild(rows, online, active', session)
  /\ UNCHANGED <<rows, online, session>>

SeedSession ==
  /\ \E g \in Guids, e \in Users : \E t \in {i \in Inbounds : Guid[i] = g} \cup {NoTag} :
       session' = [session EXCEPT ![g][e] = t]
  /\ Rebuild(rows, online, active, session')
  /\ UNCHANGED <<rows, online, active>>

-----------------------------------------------------------------------------
(* The events *)

\* applyTrafficEvent: the payload may bring any of the three maps; the counts
\* are taken again also when it brings none (and only speeds).
applyTrafficEvent ==
  /\ \/ \E g \in Guids, on \in SUBSET Users :
          online' = [online EXCEPT ![g] = on] /\ UNCHANGED <<active, session>>
     \/ \E g \in {Guid[i] : i \in Local}, ac \in SUBSET Local :
          active' = [active EXCEPT ![g] = ac] /\ UNCHANGED <<online, session>>
     \/ UNCHANGED maps
  /\ Rebuild(rows, online', active', session')
  /\ UNCHANGED rows

\* applyClientStatsEvent: the counters of a client on the rows that have it.
applyClientStatsEvent ==
  /\ \E i \in Present, e \in Users : \E c \in SameSettings(rows[i][e]) :
       rows[i][e] # "none" /\ rows' = [rows EXCEPT ![i][e] = c]
  /\ Rebuild(rows', online, active, session)
  /\ UNCHANGED <<maps>>

RollupNext ==
  \/ SeedRows \/ SeedOnline \/ SeedActive \/ SeedSession
  \/ applyTrafficEvent \/ applyClientStatsEvent

RollupSpec == RollupInit /\ [][RollupNext]_rollupVars

-----------------------------------------------------------------------------
(* Properties *)

\* A client of a node is shown online on one of its inbounds at most, also
\* when the rows change under an older assignment.
OnlineOnce ==
  \A i, j \in Inbounds :
    (i # j /\ Guid[i] = Guid[j]) => counts[i].online \cap counts[j].online = {}

\* Except right after a list arrived, the counts are those of the rows and
\* the maps on the screen (rebuildClientCount).
CountsCurrent ==
  ~ seeded => counts = Rollup(rows, online, active, Assign(rows, online, session))
=============================================================================
