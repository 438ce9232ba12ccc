---------------------------- MODULE ClientQuota ----------------------------
(***************************************************************************)
(* Quotas, deadlines and the three copies of a client.                     *)
(*                                                                         *)
(* A client's deadline and its enable flag are stored in the row of        *)
(* client_traffics (row), in the settings JSON of every inbound it is on   *)
(* (conf) and in the table clients (rec).  A tick of the traffic poll, one *)
(* transaction of the traffic writer, adds usage, starts delayed           *)
(* deadlines, renews and disables clients in all copies.  A client edit    *)
(* (ClientService.Update) is a sequence of transactions, one per inbound,  *)
(* each saving the whole settings of an inbound it read beforehand.  The   *)
(* requests lock an inbound while they read and save it; a tick does not,  *)
(* and may fall anywhere between their steps.                              *)
(* A client is in the generated Xray configuration (GetXrayConfig) when    *)
(* row and rec both enable it.                                             *)
(***************************************************************************)
EXTENDS Integers

CONSTANTS
  Emails,      \* the clients, each on all inbounds
  N,           \* number of local inbounds; their ids are 1 .. N
  AutoRenew,   \* the clients with reset > 0
  Period,      \* their renewal period
  Total,       \* the quota of every client; usage counts up to it (a bound)
  Deadlines,   \* expiryTime values of new clients: < 0 is a delayed start, 0 no
               \* deadline
  Edits,       \* the deadline and flag an administrator may enter in an edit
  MaxTime,     \* a bound on the clock
  MaxRequests  \* a bound on the client requests

Inbounds == 1 .. N

\* what an inbound's settings and the table clients hold of a client
Client == [exp : Int, on : BOOLEAN]

ASSUME QuotaAssumption ==
  /\ N \in Nat \ {0}
  /\ AutoRenew \subseteq Emails
  /\ Period \in Nat \ {0}
  /\ Total \in Nat \ {0}
  /\ Deadlines \subseteq Int /\ Edits \subseteq Client
  /\ MaxTime \in Nat \ {0} /\ MaxRequests \in Nat

\* a client request: Update, or ResetTrafficByEmail when reset is true.
\* It is about to read inbound at, to save it, to write the record's flag
\* (finish), or to reset the row (reset).
Steps == {"none", "read", "save", "finish", "reset"}

VARIABLES
  now,    \* the clock
  asked,  \* the number of client requests so far
  row,    \* client_traffics
  conf,   \* conf[i][e]: client e in the settings of inbound i
  rec,    \* clients
  op,     \* op[e]: the request on client e
  snap,   \* snap[i]: the settings read by the request that holds the lock of i
  missed, \* history: missed[i]: the clients whose settings in i a tick changed
          \* since they were read into snap[i]
  stale   \* history: the clients of whom a request has saved, or goes on to
          \* save, what it knew before a tick changed them

history == <<missed, stale>>
vars == <<now, asked, row, conf, rec, op, snap, history>>

Off == [exp |-> 0, on |-> FALSE]

Blank == [e \in Emails |-> Off]

NoOp == [step |-> "none", at |-> 1, val |-> Off, reset |-> FALSE]

TypeOK ==
  /\ now \in 1 .. MaxTime /\ asked \in 0 .. MaxRequests
  /\ row \in [Emails -> [used : 0 .. Total, exp : Int, on : BOOLEAN]]
  /\ conf \in [Inbounds -> [Emails -> Client]]
  /\ rec \in [Emails -> Client]
  /\ op \in [Emails -> [step : Steps, at : Inbounds, val : Client, reset : BOOLEAN]]
  /\ snap \in [Inbounds -> [Emails -> Client]]
  /\ missed \in [Inbounds -> SUBSET Emails]
  /\ stale \subseteq Emails

\* the clients were just added (AddInboundClient, AddClientStat, SyncInbound)
Init ==
  /\ now = 1 /\ asked = 0
  /\ \E exp \in [Emails -> Deadlines] :
       /\ row = [e \in Emails |-> [used |-> 0, exp |-> exp[e], on |-> TRUE]]
       /\ rec = [e \in Emails |-> [exp |-> exp[e], on |-> TRUE]]
  /\ conf = [i \in Inbounds |-> rec]
  /\ op = [e \in Emails |-> NoOp]
  /\ snap = [i \in Inbounds |-> Blank]
  /\ missed = [i \in Inbounds |-> {}]
  /\ stale = {}

-----------------------------------------------------------------------------
(***************************************************************************)
(* AddTraffic: the parts of addTrafficLocked, each a function of the       *)
(* database d = [row, conf, rec] the previous one left.                    *)
(***************************************************************************)
Database == [row |-> row, conf |-> conf, rec |-> rec]

\* SyncInbound of every inbound in turn: the last one's settings stay
SyncInbounds(c) == c[N]

\* a row with another deadline, a row that is disabled
Moved(r, exp) == [used |-> r.used, exp |-> exp, on |-> r.on]

RowOff(r) == [used |-> r.used, exp |-> r.exp, on |-> FALSE]

\* addClientTraffic: the emails of T moved one unit of traffic
AddUsage(d, T) ==
  [d EXCEPT !.row = [e \in Emails |->
     [d.row[e] EXCEPT !.used = IF e \in T /\ @ < Total THEN @ + 1 ELSE @]]]

\* a delayed start that begins on the first inbound only
AdjustFirstInbound(d, T) ==
  LET started == {e \in T : d.row[e].exp < 0}
      expiry  == [e \in Emails |-> now - d.row[e].exp]
      cs == [d.conf EXCEPT ![1] = [e \in Emails |->
               IF e \in started THEN [exp |-> expiry[e], on |-> d.conf[1][e].on]
                                ELSE d.conf[1][e]]]
  IN IF started = {} THEN d
     ELSE [row  |-> [e \in Emails |->
                       IF e \in started THEN Moved(d.row[e], expiry[e])
                                        ELSE d.row[e]],
           conf |-> cs,
           rec  |-> SyncInbounds(cs)]

\* a delayed start that begins in the row only
AdjustRowOnly(d, T) ==
  [d EXCEPT !.row = [e \in Emails |->
     IF e \in T /\ d.row[e].exp < 0 THEN Moved(d.row[e], now - d.row[e].exp)
                                    ELSE d.row[e]]]

\* adjustTraffics: a delayed start begins with the first traffic
AdjustTraffics(d, T) ==
  LET started == {e \in T : d.row[e].exp < 0}
      expiry  == [e \in Emails |-> now - d.row[e].exp]
      cs == [i \in Inbounds |-> [e \in Emails |->
               IF e \in started THEN [exp |-> expiry[e], on |-> d.conf[i][e].on]
                                ELSE d.conf[i][e]]]
  IN IF started = {} THEN d
     ELSE [row  |-> [e \in Emails |->
                       IF e \in started THEN Moved(d.row[e], expiry[e])
                                        ELSE d.row[e]],
           conf |-> cs,
           rec  |-> SyncInbounds(cs)]

\* for newExpiryTime < now { newExpiryTime += reset }
NextExpiry(exp) == exp + Period * ((now - exp + Period - 1) \div Period)

Expired(exp) == exp > 0 /\ exp <= now

\* a renewal that enables the client on every inbound would be 1 .. N here:
\* traffic.Enable is set when the first one is visited
EnabledByRenewal == {1}

AutoRenewClients(d) ==
  LET due == {e \in AutoRenew : Expired(d.row[e].exp)}
      cs == [i \in Inbounds |-> [e \in Emails |->
               IF e \notin due THEN d.conf[i][e]
               ELSE [exp |-> NextExpiry(d.row[e].exp),
                     on  |-> \/ d.conf[i][e].on
                             \/ ~d.row[e].on /\ i \in EnabledByRenewal]]]
  IN IF due = {} THEN d
     ELSE [row  |-> [e \in Emails |->
                       IF e \in due
                       THEN [used |-> 0, exp |-> NextExpiry(d.row[e].exp), on |-> TRUE]
                       ELSE d.row[e]],
           conf |-> cs,
           rec  |-> SyncInbounds(cs)]

Depleted(r) == r.used >= Total \/ Expired(r.exp)

\* a disabling that leaves the table clients alone
DisableNotRecord(d) ==
  LET cut == {e \in Emails : d.row[e].on /\ Depleted(d.row[e])}
  IN [row  |-> [e \in Emails |->
                  IF e \in cut THEN RowOff(d.row[e]) ELSE d.row[e]],
      conf |-> [i \in Inbounds |-> [e \in Emails |->
                  IF e \in cut THEN [exp |-> d.conf[i][e].exp, on |-> FALSE]
                               ELSE d.conf[i][e]]],
      rec  |-> d.rec]

\* disableInvalidClients: row, settings of every inbound and record
DisableInvalidClients(d) ==
  LET cut == {e \in Emails : d.row[e].on /\ Depleted(d.row[e])}
  IN [row  |-> [e \in Emails |->
                  IF e \in cut THEN RowOff(d.row[e]) ELSE d.row[e]],
      conf |-> [i \in Inbounds |-> [e \in Emails |->
                  IF e \in cut THEN [exp |-> d.conf[i][e].exp, on |-> FALSE]
                               ELSE d.conf[i][e]]],
      rec  |-> [e \in Emails |->
                  IF e \in cut THEN [exp |-> d.rec[e].exp, on |-> FALSE] ELSE d.rec[e]]]

\* lockInbound: held from the reading of the inbound to its saving
Locked(i) == \E f \in Emails : op[f].step = "save" /\ op[f].at = i

\* a request that has passed an inbound, or carries a deadline it has read, and
\* is not done writing
Underway(r) ==
  \/ r.step = "finish"
  \/ r.step \in {"read", "save"} /\ (r.at # 1 \/ r.reset)

\* the tick changed the client in the row or in the settings of an inbound
Touched(e) ==
  \/ row'[e].exp # row[e].exp \/ row'[e].on # row[e].on
  \/ \E i \in Inbounds : conf'[i][e] # conf[i][e]

\* A renewal writes every copy anew.
TickHistory ==
  /\ missed' = [i \in Inbounds |->
       IF Locked(i) THEN missed[i] \cup {e \in Emails : conf'[i][e] # conf[i][e]}
                    ELSE missed[i]]
  /\ stale' = (stale \ {e \in AutoRenew : Expired(row[e].exp) /\ ~Underway(op[e])})
                \cup {e \in Emails : Underway(op[e]) /\ Touched(e)}

\* a tick that disables before it adds
DisableFirst(T) ==
  /\ UNCHANGED <<now, asked, op, snap>>
  /\ LET d == AutoRenewClients(AddUsage(AdjustTraffics(DisableInvalidClients(Database), T), T))
     IN row' = d.row /\ conf' = d.conf /\ rec' = d.rec
  /\ TickHistory

\* addTrafficLocked
AddTraffic(T) ==
  /\ UNCHANGED <<now, asked, op, snap>>
  /\ LET d == DisableInvalidClients(AutoRenewClients(AddUsage(AdjustTraffics(Database, T), T)))
     IN row' = d.row /\ conf' = d.conf /\ rec' = d.rec
  /\ TickHistory

Tick == \E T \in SUBSET Emails : AddTraffic(T)

Clock ==
  /\ now < MaxTime
  /\ now' = now + 1
  /\ UNCHANGED <<asked, row, conf, rec, op, snap, history>>

-----------------------------------------------------------------------------
(***************************************************************************)
(* Client requests                                                         *)
(***************************************************************************)
Request(step, c, reset) == [step |-> step, at |-> 1, val |-> c, reset |-> reset]

\* ClientService.Update with a client that an administrator entered
Update(e, c) ==
  /\ op[e].step = "none" /\ asked < MaxRequests
  /\ asked' = asked + 1
  /\ op' = [op EXCEPT ![e] = Request("read", c, FALSE)]
  /\ UNCHANGED <<now, row, conf, rec, snap, history>>

\* ResetTrafficByEmail enables a disabled client through Update first
ResetTrafficByEmail(e) ==
  /\ op[e].step = "none" /\ asked < MaxRequests
  /\ asked' = asked + 1
  /\ op' = [op EXCEPT ![e] =
              IF rec[e].on THEN Request("reset", rec[e], TRUE)
              ELSE Request("read", [exp |-> rec[e].exp, on |-> TRUE], TRUE)]
  /\ UNCHANGED <<now, row, conf, rec, snap, history>>

\* the request r at another step
Goto(r, step, i) == [step |-> step, at |-> i, val |-> r.val, reset |-> r.reset]

\* a loop over the inbounds that goes one too far
NextInboundOneMore(r) ==
  IF r.at <= N THEN Goto(r, "read", r.at + 1) ELSE Goto(r, "finish", 1)

\* the request after its work on inbound at
NextInbound(r) ==
  IF r.at < N THEN Goto(r, "read", r.at + 1) ELSE Goto(r, "finish", 1)

\* UpdateInboundClient up to its transaction; nothing to do when the settings
\* would stay the same
ReadInbound(e) ==
  LET i == op[e].at IN
  /\ op[e].step = "read"
  /\ ~Locked(i)
  /\ IF conf[i][e] = op[e].val
     THEN /\ op' = [op EXCEPT ![e] = NextInbound(@)]
          /\ UNCHANGED snap
     ELSE /\ op' = [op EXCEPT ![e] = Goto(@, "save", i)]
          /\ snap' = [snap EXCEPT ![i] = conf[i]]
  /\ UNCHANGED <<now, asked, row, conf, rec, history>>

\* its transaction: UpdateClientStat, Save of the inbound, SyncInbound
SaveInbound(e) ==
  LET i == op[e].at
      c == op[e].val
      settings == [snap[i] EXCEPT ![e] = c]
  IN
  /\ op[e].step = "save"
  /\ row' = [row EXCEPT ![e] = [used |-> @.used, exp |-> c.exp, on |-> c.on]]
  /\ conf' = [conf EXCEPT ![i] = settings]
  /\ rec' = settings
  /\ op' = [op EXCEPT ![e] = NextInbound(@)]
  /\ snap' = [snap EXCEPT ![i] = Blank]
  /\ missed' = [missed EXCEPT ![i] = {}]
  /\ stale' = stale \cup (missed[i] \ {e})
  /\ UNCHANGED <<now, asked>>

\* Update writes the record's flag once more and returns
FinishUpdate(e) ==
  /\ op[e].step = "finish"
  /\ rec' = [rec EXCEPT ![e] = [exp |-> @.exp, on |-> op[e].val.on]]
  /\ op' = [op EXCEPT ![e] = IF @.reset THEN Request("reset", @.val, TRUE) ELSE NoOp]
  /\ UNCHANGED <<now, asked, row, conf, snap, history>>

\* one ResetClientTraffic per inbound
ResetClientTraffic(e) ==
  /\ op[e].step = "reset"
  /\ row' = [row EXCEPT ![e] = [used |-> 0, exp |-> @.exp, on |-> TRUE]]
  /\ op' = [op EXCEPT ![e] = IF @.at < N THEN Goto(@, "reset", @.at + 1) ELSE NoOp]
  /\ UNCHANGED <<now, asked, conf, rec, snap, history>>

\* the periodic reset of an inbound's clients
ResetAllClientTraffics ==
  /\ row' = [e \in Emails |-> [used |-> 0, exp |-> row[e].exp, on |-> TRUE]]
  /\ UNCHANGED <<now, asked, conf, rec, op, snap, history>>

Next ==
  \/ Tick
  \/ Clock
  \/ \E e \in Emails, c \in Edits : Update(e, c)
  \/ \E e \in Emails : \/ ResetTrafficByEmail(e)
                       \/ ReadInbound(e)
                       \/ SaveInbound(e)
                       \/ FinishUpdate(e)
                       \/ ResetClientTraffic(e)
  \/ ResetAllClientTraffics

Spec == Init /\ [][Next]_vars

-----------------------------------------------------------------------------
(***************************************************************************)
(* Properties                                                              *)
(***************************************************************************)

\* the clients of the configuration that GetXrayConfig generates
Served(e) == row[e].on /\ rec[e].on

Idle == \A e \in Emails : op[e].step = "none"

\* When no request is under way every copy of a client has the same deadline,
\* whatever ticks, edits of several clients and resets came before and between:
\* the copies part in one way only, when a tick changes a client between the
\* reading and the saving of the settings, or between two writes of its own
\* request, and the request writes what it knew.  A renewal mends that.
DeadlinesAgree ==
  Idle => \A e \in Emails \ stale, i \in Inbounds :
            rec[e].exp = row[e].exp /\ conf[i][e].exp = row[e].exp

\* A client that the table clients shows as enabled is not kept out of the core
\* by its traffic row, but for the same lost update: a disabling by a tick that
\* a request in progress overwrites.
ShownIsServed == Idle => \A e \in Emails \ stale : rec[e].on => row[e].on

\* After a tick nobody in the generated configuration is out of quota or past
\* the deadline: the renewal must come before the disabling and agree with it
\* on what is expired.
LimitsEnforced ==
  [][Tick => \A e \in Emails : Served(e)' => ~Depleted(row'[e])]_vars

\* Once a delayed start has begun, only the saving of an administrator's edit
\* takes its deadline back: no tick and no renewal does, and no traffic reset,
\* which also runs an Update, unless the deadline began, or was overwritten,
\* between its reading of the record and its saving.
ActivatedStays ==
  [][\A e \in Emails :
       row[e].exp > 0 /\ row'[e].exp < 0
         => op[e].step = "save" /\ (op[e].reset => e \in stale)]_vars

=============================================================================
