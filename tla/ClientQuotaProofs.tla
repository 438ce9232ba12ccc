------------------------- MODULE ClientQuotaProofs -------------------------
(***************************************************************************)
(* Proofs about ClientQuota, for any number of clients and inbounds and    *)
(* ticks between any two steps of the requests: the copies of a client     *)
(* agree unless a request overwrites what a tick has changed.              *)
(***************************************************************************)
EXTENDS ClientQuota, TLAPS

Row == [used : 0 .. Total, exp : Int, on : BOOLEAN]

Typed(d) ==
  /\ d.row \in [Emails -> Row]
  /\ d.conf \in [Inbounds -> [Emails -> Client]]
  /\ d.rec \in [Emails -> Client]

\* the copies of client e in the database d agree on the deadline, and the row
\* enables it when the settings or the record do
Agrees(d, e) ==
  /\ \A i \in Inbounds :
       d.conf[i][e].exp = d.row[e].exp /\ (d.conf[i][e].on => d.row[e].on)
  /\ d.rec[e].exp = d.row[e].exp /\ (d.rec[e].on => d.row[e].on)

\* the database d1 keeps the agreement that d0 has on a client
Keeps(d0, d1) == \A e \in Emails : Agrees(d0, e) => Agrees(d1, e)

-----------------------------------------------------------------------------
(***************************************************************************)
(* Every part of a tick keeps the types and the agreement.                 *)
(***************************************************************************)
\* The deadlines of a typed database are numbers.
LEMMA DeadlineIsInt ==
  ASSUME NEW d, Typed(d)
  PROVE  \A e \in Emails : d.row[e].exp \in Int
BY DEF Typed, Row

\* A renewed deadline is a number.
LEMMA NextExpiryIsInt ==
  ASSUME NEW x \in Int, now \in Int
  PROVE  NextExpiry(x) \in Int
BY QuotaAssumption DEF NextExpiry

\* addClientTraffic keeps the types and the agreement.
LEMMA AddUsageAgrees ==
  ASSUME NEW d, Typed(d), NEW T
  PROVE  Typed(AddUsage(d, T)) /\ Keeps(d, AddUsage(d, T))
BY QuotaAssumption DEF Typed, Keeps, Agrees, AddUsage, Row

\* So does adjustTraffics: every copy gets the same new deadline.
LEMMA AdjustAgrees ==
  ASSUME NEW d, Typed(d), NEW T, now \in Int
  PROVE  Typed(AdjustTraffics(d, T)) /\ Keeps(d, AdjustTraffics(d, T))
<1> DEFINE started == {e \in T : d.row[e].exp < 0}
<1> DEFINE expiry  == [e \in Emails |-> now - d.row[e].exp]
<1> DEFINE cs == [i \in Inbounds |-> [e \in Emails |->
                   IF e \in started THEN [exp |-> expiry[e], on |-> d.conf[i][e].on]
                                    ELSE d.conf[i][e]]]
<1> DEFINE rs == [e \in Emails |->
                   IF e \in started THEN Moved(d.row[e], expiry[e]) ELSE d.row[e]]
<1>1. CASE started = {}
  BY <1>1 DEF AdjustTraffics, Keeps
<1>2. CASE started # {}
  <2>1. AdjustTraffics(d, T) = [row |-> rs, conf |-> cs, rec |-> cs[N]]
    BY <1>2 DEF AdjustTraffics, SyncInbounds
  <2>2. \A e \in Emails : expiry[e] \in Int
    BY DeadlineIsInt
  <2>3. \A e \in Emails : rs[e] \in Row
    <3> HIDE DEF expiry, started
    <3> QED BY <2>2 DEF Typed, Row, Moved
  <2>4. \A e \in Emails, i \in Inbounds : cs[i][e] \in Client
    BY <2>2 DEF Typed, Client
  <2>5. ASSUME NEW e \in Emails, Agrees(d, e), NEW i \in Inbounds
        PROVE  cs[i][e].exp = rs[e].exp /\ (cs[i][e].on => rs[e].on)
    BY <2>5 DEF Agrees, Moved
  <2>6. N \in Inbounds
    BY QuotaAssumption DEF Inbounds
  <2>7. cs \in [Inbounds -> [Emails -> Client]]
    BY <2>4
  <2>8. rs \in [Emails -> Row]
    BY <2>3
  <2> HIDE DEF cs, rs
  <2> QED BY <2>1, <2>5, <2>6, <2>7, <2>8 DEF Typed, Keeps, Agrees
<1> QED BY <1>1, <1>2

\* So does autoRenewClients: it enables a client nowhere but in an enabled row.
LEMMA RenewAgrees ==
  ASSUME NEW d, Typed(d), now \in Int
  PROVE  Typed(AutoRenewClients(d)) /\ Keeps(d, AutoRenewClients(d))
<1> DEFINE due == {e \in AutoRenew : Expired(d.row[e].exp)}
<1> DEFINE cs == [i \in Inbounds |-> [e \in Emails |->
               IF e \notin due THEN d.conf[i][e]
               ELSE [exp |-> NextExpiry(d.row[e].exp),
                     on  |-> \/ d.conf[i][e].on
                             \/ ~d.row[e].on /\ i \in EnabledByRenewal]]]
<1> DEFINE rs == [e \in Emails |->
                       IF e \in due
                       THEN [used |-> 0, exp |-> NextExpiry(d.row[e].exp), on |-> TRUE]
                       ELSE d.row[e]]
<1>1. CASE due = {}
  BY <1>1 DEF AutoRenewClients, Keeps
<1>2. CASE due # {}
  <2>1. AutoRenewClients(d) = [row |-> rs, conf |-> cs, rec |-> cs[N]]
    BY <1>2 DEF AutoRenewClients, SyncInbounds
  <2>2. \A e \in Emails : NextExpiry(d.row[e].exp) \in Int
    BY DeadlineIsInt, NextExpiryIsInt
  <2>3. \A e \in Emails : rs[e] \in Row
    <3> HIDE DEF due
    <3>1. 0 \in 0 .. Total
      BY QuotaAssumption
    <3> QED BY <2>2, <3>1 DEF Typed, Row
  <2>4. \A e \in Emails, i \in Inbounds : cs[i][e] \in Client
    <3> HIDE DEF due
    <3> SUFFICES ASSUME NEW e \in Emails, NEW i \in Inbounds PROVE cs[i][e] \in Client
      OBVIOUS
    <3>1. d.conf[i][e] \in Client /\ d.conf[i][e].on \in BOOLEAN /\ d.row[e].on \in BOOLEAN
      BY DEF Typed, Client, Row
    <3> QED BY <2>2, <3>1 DEF Client
  <2>5. ASSUME NEW e \in Emails, Agrees(d, e), NEW i \in Inbounds
        PROVE  cs[i][e].exp = rs[e].exp /\ (cs[i][e].on => rs[e].on)
    BY <2>5 DEF Agrees
  <2>6. N \in Inbounds
    BY QuotaAssumption DEF Inbounds
  <2>7. cs \in [Inbounds -> [Emails -> Client]]
    BY <2>4
  <2>8. rs \in [Emails -> Row]
    BY <2>3
  <2> HIDE DEF cs, rs
  <2> QED BY <2>1, <2>5, <2>6, <2>7, <2>8 DEF Typed, Keeps, Agrees
<1> QED BY <1>1, <1>2

\* So does disableInvalidClients: it disables every copy of whom it disables.
LEMMA DisableAgrees ==
  ASSUME NEW d, Typed(d)
  PROVE  Typed(DisableInvalidClients(d)) /\ Keeps(d, DisableInvalidClients(d))
<1> DEFINE cut == {e \in Emails : d.row[e].on /\ Depleted(d.row[e])}
<1> DEFINE rs == [e \in Emails |-> IF e \in cut THEN RowOff(d.row[e]) ELSE d.row[e]]
<1> DEFINE cs == [i \in Inbounds |-> [e \in Emails |->
                  IF e \in cut THEN [exp |-> d.conf[i][e].exp, on |-> FALSE]
                               ELSE d.conf[i][e]]]
<1> DEFINE qs == [e \in Emails |->
                  IF e \in cut THEN [exp |-> d.rec[e].exp, on |-> FALSE] ELSE d.rec[e]]
<1>1. DisableInvalidClients(d) = [row |-> rs, conf |-> cs, rec |-> qs]
  BY DEF DisableInvalidClients
<1> HIDE DEF cut
<1>2. rs \in [Emails -> Row]
  BY DEF Typed, Row, RowOff
<1>3. \A e \in Emails, i \in Inbounds : cs[i][e] \in Client
  BY DEF Typed, Client
<1>4. qs \in [Emails -> Client]
  BY DEF Typed, Client
<1>5. ASSUME NEW e \in Emails, Agrees(d, e), NEW i \in Inbounds
      PROVE  cs[i][e].exp = rs[e].exp /\ (cs[i][e].on => rs[e].on)
  BY <1>5 DEF Agrees, RowOff
<1>6. ASSUME NEW e \in Emails, Agrees(d, e)
      PROVE  qs[e].exp = rs[e].exp /\ (qs[e].on => rs[e].on)
  BY <1>6 DEF Agrees, RowOff
<1>7. cs \in [Inbounds -> [Emails -> Client]]
  BY <1>3
<1> HIDE DEF cs, rs, qs
<1> QED BY <1>1, <1>2, <1>4, <1>5, <1>6, <1>7 DEF Typed, Keeps, Agrees

\* Hence a whole tick keeps them.
LEMMA TickAgrees ==
  ASSUME now \in Int, Typed(Database), NEW T, AddTraffic(T)
  PROVE  Typed(Database)' /\ \A e \in Emails : Agrees(Database, e) => Agrees(Database, e)'
<1> DEFINE d1 == AdjustTraffics(Database, T)
           d2 == AddUsage(d1, T)
           d3 == AutoRenewClients(d2)
           d4 == DisableInvalidClients(d3)
<1>1. Typed(d1) /\ Keeps(Database, d1)
  BY AdjustAgrees
<1>2. Typed(d2) /\ Keeps(d1, d2)
  BY <1>1, AddUsageAgrees
<1>3. Typed(d3) /\ Keeps(d2, d3)
  BY <1>2, RenewAgrees
<1>4. Typed(d4) /\ Keeps(d3, d4)
  BY <1>3, DisableAgrees
<1>5. row' = d4.row /\ conf' = d4.conf /\ rec' = d4.rec
  BY DEF AddTraffic
<1>6. Keeps(Database, d4)
  <2> HIDE DEF d1, d2, d3, d4
  <2> QED BY <1>1, <1>2, <1>3, <1>4 DEF Keeps
<1> HIDE DEF d1, d2, d3, d4
<1> QED BY <1>4, <1>5, <1>6 DEF Typed, Keeps, Agrees, Database

\* A tick that renews a client writes every copy of it, so that they agree even
\* if they did not before.
LEMMA RenewalMends ==
  ASSUME now \in Int, Typed(Database), NEW T, AddTraffic(T),
         NEW e \in Emails, e \in AutoRenew, Expired(row[e].exp)
  PROVE  Agrees(Database, e)'
<1> DEFINE d1 == AdjustTraffics(Database, T)
           d2 == AddUsage(d1, T)
           d3 == AutoRenewClients(d2)
           d4 == DisableInvalidClients(d3)
<1>1. Typed(d1) /\ d1.row[e].exp = row[e].exp
  <2>1. row[e].exp \in Int /\ row[e].exp > 0
    BY DEF Typed, Database, Row, Expired
  <2>2. d1.row[e].exp = row[e].exp
    BY <2>1 DEF AdjustTraffics, Database, Typed, Row
  <2>3. Typed(d1)
    BY AdjustAgrees
  <2> QED BY <2>2, <2>3
<1>2. Typed(d2) /\ d2.row[e].exp = row[e].exp
  <2>1. ASSUME NEW d, Typed(d) PROVE AddUsage(d, T).row[e].exp = d.row[e].exp
    BY <2>1 DEF AddUsage, Typed, Row
  <2>2. Typed(d2)
    BY <1>1, AddUsageAgrees
  <2> HIDE DEF d1
  <2> QED BY <2>1, <2>2, <1>1
<1>3. Agrees(d3, e)
  <2> HIDE DEF d2
  <2>1. {f \in AutoRenew : Expired(d2.row[f].exp)} # {} /\ Expired(d2.row[e].exp)
    BY <1>2
  <2>2. /\ d3.row[e].exp = NextExpiry(d2.row[e].exp) /\ d3.row[e].on
        /\ \A i \in Inbounds : d3.conf[i][e].exp = NextExpiry(d2.row[e].exp)
        /\ d3.rec = d3.conf[N]
    BY <2>1 DEF AutoRenewClients, SyncInbounds
  <2>3. N \in Inbounds
    BY QuotaAssumption DEF Inbounds
  <2> HIDE DEF d3
  <2> QED BY <2>2, <2>3 DEF Agrees
<1>4. Typed(d3)
  BY <1>2, RenewAgrees
<1>5. Agrees(d4, e)
  <2> HIDE DEF d3
  <2> QED BY <1>3, <1>4, DisableAgrees DEF Keeps
<1>6. row' = d4.row /\ conf' = d4.conf /\ rec' = d4.rec
  BY DEF AddTraffic
<1> HIDE DEF d1, d2, d3, d4
<1> QED BY <1>5, <1>6 DEF Agrees, Database

\* The record that a tick leaves is the one it found, or that of the last
\* inbound, unless the row's flag changed with it.
LEMMA RecordAfterTick ==
  ASSUME now \in Int, Typed(Database), NEW T, AddTraffic(T), NEW e \in Emails,
         row'[e].on = row[e].on
  PROVE  rec'[e] = rec[e] \/ rec'[e] = conf'[N][e]
<1> DEFINE d1 == AdjustTraffics(Database, T)
           d2 == AddUsage(d1, T)
           d3 == AutoRenewClients(d2)
           d4 == DisableInvalidClients(d3)
<1>1. Typed(d1) /\ (d1.rec = d1.conf[N] \/ d1 = Database)
  <2>1. d1.rec = d1.conf[N] \/ d1 = Database
    BY DEF AdjustTraffics, SyncInbounds
  <2>2. Typed(d1)
    BY AdjustAgrees
  <2> QED BY <2>1, <2>2
<1>2. Typed(d2) /\ (d2.rec = d2.conf[N] \/ (d2.rec = rec /\ d2.row[e].on = row[e].on))
  <2>1. d2.rec = d1.rec /\ d2.conf = d1.conf /\ d2.row[e].on = d1.row[e].on
    <3> HIDE DEF d1
    <3> QED BY <1>1 DEF AddUsage, Typed, Row
  <2>2. Typed(d2)
    BY <1>1, AddUsageAgrees
  <2> HIDE DEF d1, d2
  <2> QED BY <1>1, <2>1, <2>2 DEF Database
<1>3. d3.rec = d3.conf[N] \/ (d3.rec = rec /\ d3.row[e].on = row[e].on)
  <2> HIDE DEF d2
  <2> QED BY <1>2 DEF AutoRenewClients, SyncInbounds
<1>4. /\ d4.rec[e] = IF d3.row[e].on /\ Depleted(d3.row[e])
                       THEN [exp |-> d3.rec[e].exp, on |-> FALSE] ELSE d3.rec[e]
      /\ d4.conf[N][e] = IF d3.row[e].on /\ Depleted(d3.row[e])
                       THEN [exp |-> d3.conf[N][e].exp, on |-> FALSE] ELSE d3.conf[N][e]
      /\ d3.row[e].on /\ Depleted(d3.row[e]) => ~d4.row[e].on
  <2> HIDE DEF d3
  <2>1. N \in Inbounds
    BY QuotaAssumption DEF Inbounds
  <2> QED BY <2>1 DEF DisableInvalidClients, RowOff
<1>5. row' = d4.row /\ conf' = d4.conf /\ rec' = d4.rec
  BY DEF AddTraffic
<1> HIDE DEF d1, d2, d3, d4
<1> QED BY <1>3, <1>4, <1>5

-----------------------------------------------------------------------------
OpType == [step : Steps, at : Inbounds, val : Client, reset : BOOLEAN]

\* Every reachable state has the types of the tables and requests.
THEOREM TypeCorrect == Spec => []TypeOK
<1>1. Init => TypeOK
  <2> SUFFICES ASSUME Init PROVE TypeOK
    OBVIOUS
  <2>1. Off \in Client
    BY DEF Off, Client
  <2>2. NoOp \in OpType /\ Blank \in [Emails -> Client]
    BY <2>1, QuotaAssumption DEF NoOp, OpType, Steps, Inbounds, Blank
  <2>3. PICK exp \in [Emails -> Deadlines] :
          /\ row = [e \in Emails |-> [used |-> 0, exp |-> exp[e], on |-> TRUE]]
          /\ rec = [e \in Emails |-> [exp |-> exp[e], on |-> TRUE]]
    BY DEF Init
  <2>4. \A e \in Emails : exp[e] \in Int
    BY QuotaAssumption
  <2>5. row \in [Emails -> [used : 0 .. Total, exp : Int, on : BOOLEAN]]
    BY <2>3, <2>4, QuotaAssumption
  <2>6. rec \in [Emails -> Client]
    BY <2>3, <2>4 DEF Client
  <2>7. now \in 1 .. MaxTime /\ asked \in 0 .. MaxRequests
    BY QuotaAssumption DEF Init
  <2> QED BY <2>2, <2>5, <2>6, <2>7 DEF Init, TypeOK, OpType
<1>2. TypeOK /\ [Next]_vars => TypeOK'
  <2> SUFFICES ASSUME TypeOK, [Next]_vars PROVE TypeOK'
    OBVIOUS
  <2>t. /\ now \in 1 .. MaxTime /\ asked \in 0 .. MaxRequests
        /\ missed \in [Inbounds -> SUBSET Emails] /\ stale \subseteq Emails
        /\ row \in [Emails -> Row]
        /\ conf \in [Inbounds -> [Emails -> Client]]
        /\ rec \in [Emails -> Client]
        /\ op \in [Emails -> OpType]
        /\ snap \in [Inbounds -> [Emails -> Client]]
    BY DEF TypeOK, Row, OpType
  <2>u. ASSUME now' \in 1 .. MaxTime, asked' \in 0 .. MaxRequests,
               missed' \in [Inbounds -> SUBSET Emails], stale' \subseteq Emails,
               row' \in [Emails -> Row],
               conf' \in [Inbounds -> [Emails -> Client]], rec' \in [Emails -> Client],
               op' \in [Emails -> OpType], snap' \in [Inbounds -> [Emails -> Client]]
        PROVE  TypeOK'
    BY <2>u DEF TypeOK, Row, OpType
  <2>i. 1 \in Inbounds /\ N \in Inbounds
    BY QuotaAssumption DEF Inbounds
  <2>n. NoOp \in OpType /\ Blank \in [Emails -> Client]
    BY <2>i DEF NoOp, OpType, Steps, Blank, Off, Client
  <2>0. CASE UNCHANGED vars
    BY <2>0, <2>t, <2>u DEF vars, history
  <2>1. ASSUME NEW T \in SUBSET Emails, AddTraffic(T) PROVE TypeOK'
    <3>1. Typed(Database)
      BY <2>t DEF Typed, Database
    <3>2. now \in Int
      BY <2>t, QuotaAssumption
    <3>3. Typed(Database)'
      BY <2>1, <3>1, <3>2, TickAgrees
    <3>4. missed' \in [Inbounds -> SUBSET Emails] /\ stale' \subseteq Emails
      BY <2>1, <2>t DEF AddTraffic, TickHistory
    <3> QED BY <2>1, <2>t, <2>u, <3>3, <3>4 DEF Typed, Database, AddTraffic
  <2>2. CASE Clock
    <3>1. now' \in 1 .. MaxTime
      BY <2>2, <2>t, QuotaAssumption DEF Clock
    <3> QED BY <2>2, <2>t, <2>u, <3>1 DEF Clock, history
  <2>3. ASSUME NEW e \in Emails, NEW c \in Edits, Update(e, c) PROVE TypeOK'
    <3>1. Request("read", c, FALSE) \in OpType
      BY QuotaAssumption, <2>i DEF Request, OpType, Steps
    <3>2. asked' \in 0 .. MaxRequests
      BY <2>3, <2>t, QuotaAssumption DEF Update
    <3> QED BY <2>3, <2>t, <2>u, <3>1, <3>2 DEF Update, history
  <2>4. ASSUME NEW e \in Emails, ResetTrafficByEmail(e) PROVE TypeOK'
    <3>1. rec[e] \in Client /\ [exp |-> rec[e].exp, on |-> TRUE] \in Client
      BY <2>t DEF Client
    <3>2. /\ Request("reset", rec[e], TRUE) \in OpType
          /\ Request("read", [exp |-> rec[e].exp, on |-> TRUE], TRUE) \in OpType
      BY <3>1, <2>i DEF Request, OpType, Steps
    <3>3. asked' \in 0 .. MaxRequests
      BY <2>4, <2>t, QuotaAssumption DEF ResetTrafficByEmail
    <3> QED BY <2>4, <2>t, <2>u, <3>2, <3>3 DEF ResetTrafficByEmail, history
  <2>5. ASSUME NEW e \in Emails PROVE NextInbound(op[e]) \in OpType
    <3>1. op[e].at < N => op[e].at + 1 \in Inbounds
      BY <2>t, QuotaAssumption DEF OpType, Inbounds
    <3> QED BY <2>t, <2>i, <3>1 DEF NextInbound, Goto, OpType, Steps
  <2>6. ASSUME NEW e \in Emails, ReadInbound(e) PROVE TypeOK'
    <3>1. op[e].at \in Inbounds
      BY <2>t DEF OpType
    <3>2. Goto(op[e], "save", op[e].at) \in OpType
      BY <2>t DEF Goto, OpType, Steps
    <3>3. CASE conf[op[e].at][e] = op[e].val
      BY <2>6, <2>5, <2>t, <2>u, <3>3 DEF ReadInbound, history
    <3>4. CASE conf[op[e].at][e] # op[e].val
      <4>1. op' = [op EXCEPT ![e] = Goto(op[e], "save", op[e].at)]
        BY <2>6, <3>4, <2>t DEF ReadInbound
      <4>2. snap' = [snap EXCEPT ![op[e].at] = conf[op[e].at]]
        BY <2>6, <3>4 DEF ReadInbound
      <4>3. op' \in [Emails -> OpType]
        BY <4>1, <3>2, <2>t
      <4>4. snap' \in [Inbounds -> [Emails -> Client]]
        BY <4>2, <3>1, <2>t
      <4> QED BY <2>6, <2>t, <2>u, <4>3, <4>4 DEF ReadInbound, history
    <3> QED BY <3>3, <3>4
  <2>7. ASSUME NEW e \in Emails, SaveInbound(e) PROVE TypeOK'
    <3> DEFINE i == op[e].at
               settings == [snap[i] EXCEPT ![e] = op[e].val]
    <3>1. i \in Inbounds /\ op[e].val \in Client
      BY <2>t DEF OpType
    <3>2. settings \in [Emails -> Client]
      BY <2>t, <3>1
    <3>3. row' \in [Emails -> Row]
      <4>1. [used |-> row[e].used, exp |-> op[e].val.exp, on |-> op[e].val.on] \in Row
        BY <2>t, <3>1 DEF Row, Client
      <4>2. row' = [row EXCEPT ![e] =
                      [used |-> row[e].used, exp |-> op[e].val.exp, on |-> op[e].val.on]]
        BY <2>7, <2>t DEF SaveInbound
      <4> QED BY <4>1, <4>2, <2>t
    <3>4. conf' = [conf EXCEPT ![i] = settings] /\ rec' = settings
      BY <2>7 DEF SaveInbound
    <3>5. op' \in [Emails -> OpType]
      BY <2>7, <2>5, <2>t DEF SaveInbound
    <3>6. snap' \in [Inbounds -> [Emails -> Client]]
      BY <2>7, <2>n, <2>t DEF SaveInbound
    <3> HIDE DEF settings
    <3>7. conf' \in [Inbounds -> [Emails -> Client]] /\ rec' \in [Emails -> Client]
      BY <3>2, <3>4, <2>t
    <3>8. missed' \in [Inbounds -> SUBSET Emails] /\ stale' \subseteq Emails
      BY <2>7, <2>t, <3>1 DEF SaveInbound
    <3> QED BY <2>7, <2>t, <2>u, <3>3, <3>5, <3>6, <3>7, <3>8 DEF SaveInbound
  <2>8. ASSUME NEW e \in Emails, FinishUpdate(e) PROVE TypeOK'
    <3>1. op[e].val \in Client
      BY <2>t DEF OpType
    <3>2. Request("reset", op[e].val, TRUE) \in OpType
      BY <2>i, <3>1 DEF Request, OpType, Steps
    <3>3. op' \in [Emails -> OpType]
      BY <2>8, <2>n, <2>t, <3>2 DEF FinishUpdate
    <3>4. rec' \in [Emails -> Client]
      BY <2>8, <2>t, <3>1 DEF FinishUpdate, Client
    <3> QED BY <2>8, <2>t, <2>u, <3>3, <3>4 DEF FinishUpdate, history
  <2>9. ASSUME NEW e \in Emails, ResetClientTraffic(e) PROVE TypeOK'
    <3>1. op[e].at < N => op[e].at + 1 \in Inbounds
      BY <2>t, QuotaAssumption DEF OpType, Inbounds
    <3>2. op[e].at < N => Goto(op[e], "reset", op[e].at + 1) \in OpType
      BY <2>t, <3>1 DEF Goto, OpType, Steps
    <3>3. op' \in [Emails -> OpType]
      BY <2>9, <2>n, <2>t, <3>2 DEF ResetClientTraffic
    <3>4. row' \in [Emails -> Row]
      BY <2>9, <2>t, QuotaAssumption DEF ResetClientTraffic, Row
    <3> QED BY <2>9, <2>t, <2>u, <3>3, <3>4 DEF ResetClientTraffic, history
  <2>10. CASE ResetAllClientTraffics
    <3>1. row' \in [Emails -> Row]
      BY <2>10, <2>t, QuotaAssumption DEF ResetAllClientTraffics, Row
    <3> QED BY <2>10, <2>t, <2>u, <3>1 DEF ResetAllClientTraffics, history
  <2> QED BY <2>0, <2>1, <2>2, <2>3, <2>4, <2>6, <2>7, <2>8, <2>9, <2>10 DEF Next, Tick
<1> QED BY <1>1, <1>2, PTL DEF Spec

-----------------------------------------------------------------------------
(***************************************************************************)
(* The inductive invariant.                                                *)
(***************************************************************************)

\* the request on e has not written anything, or has written everything
Fresh(e) ==
  \/ op[e].step \in {"none", "reset"}
  \/ op[e].step \in {"read", "save"} /\ op[e].at = 1

\* the row agrees with every inbound, and enables whom a copy enables
Settled(e) ==
  /\ \A i \in Inbounds :
       conf[i][e].exp = row[e].exp /\ (conf[i][e].on => row[e].on)
  /\ rec[e].on => row[e].on

\* the row and the inbounds visited so far have the new client
Moving(e) ==
  /\ op[e].val.exp = row[e].exp
  /\ op[e].val.on => row[e].on
  /\ \A i \in Inbounds : i < op[e].at \/ op[e].step = "finish" => conf[i][e] = op[e].val

\* the record's deadline comes from some inbound
Copied(e) == \E i \in Inbounds : rec[e].exp = conf[i][e].exp

\* a traffic reset that is updating the client carries the deadline it found
Carried(e) ==
  op[e].reset /\ op[e].step \in {"read", "save"} => op[e].val.exp = row[e].exp

\* what a request is about to save of a client is what is there, unless a tick
\* has changed it since: the lock of the inbound
Guarded ==
  \A e \in Emails : op[e].step = "save" =>
    /\ \A f \in Emails \ missed[op[e].at] : snap[op[e].at][f] = conf[op[e].at][f]
    /\ \A f \in Emails : op[f].step = "save" /\ op[f].at = op[e].at => f = e

CopiesOf(e) ==
  /\ Fresh(e) => Settled(e)
  /\ ~Fresh(e) => Moving(e)
  /\ Copied(e)
  /\ Carried(e)

Copies(e) == e \notin stale => CopiesOf(e)

CopiesInv == Guarded /\ \A e \in Emails : Copies(e)

\* A client whose request does not move, whose row keeps its deadline and is
\* not disabled, and whose record stays or is copied from an inbound, keeps
\* its part of the invariant.
LEMMA OthersKeep ==
  ASSUME NEW f \in Emails, Copies(f),
         f \in stale => f \in stale',
         op'[f] = op[f],
         row'[f].exp = row[f].exp,
         row[f].on => row'[f].on,
         \A i \in Inbounds : conf'[i][f] = conf[i][f],
         rec'[f] = rec[f] \/ \E i \in Inbounds : rec'[f] = conf[i][f]
  PROVE  Copies(f)'
<1> SUFFICES ASSUME f \notin stale' PROVE CopiesOf(f)'
  BY DEF Copies
<1>0. CopiesOf(f)
  BY DEF Copies
<1>1. Fresh(f)' <=> Fresh(f)
  BY DEF Fresh
<1>2. Fresh(f) => Settled(f)'
  BY <1>0 DEF CopiesOf, Settled
<1>3. ~Fresh(f) => Moving(f)'
  BY <1>0 DEF CopiesOf, Moving
<1>4. Copied(f)'
  BY <1>0 DEF CopiesOf, Copied
<1>5. Carried(f)'
  BY <1>0 DEF CopiesOf, Carried
<1> QED BY <1>1, <1>2, <1>3, <1>4, <1>5 DEF CopiesOf

\* A database of new clients satisfies the invariant.
LEMMA InitCopies == Init => CopiesInv
<1> SUFFICES ASSUME Init PROVE CopiesInv
  OBVIOUS
<1>1. PICK exp \in [Emails -> Deadlines] :
        /\ row = [e \in Emails |-> [used |-> 0, exp |-> exp[e], on |-> TRUE]]
        /\ rec = [e \in Emails |-> [exp |-> exp[e], on |-> TRUE]]
  BY DEF Init
<1>2. conf = [i \in Inbounds |-> rec] /\ op = [e \in Emails |-> NoOp]
  BY DEF Init
<1>3. 1 \in Inbounds
  BY QuotaAssumption DEF Inbounds
<1>4. Guarded
  BY <1>2 DEF Guarded, NoOp
<1>5. ASSUME NEW e \in Emails PROVE Copies(e)
  <2>1. Fresh(e) /\ Carried(e)
    BY <1>2 DEF Fresh, Carried, NoOp
  <2>2. Settled(e)
    BY <1>1, <1>2 DEF Settled
  <2>3. Copied(e)
    BY <1>2, <1>3 DEF Copied
  <2> QED BY <2>1, <2>2, <2>3 DEF Copies, CopiesOf
<1> QED BY <1>4, <1>5 DEF CopiesInv

\* Before a request has written anything the invariant is the agreement of the
\* copies.
LEMMA FreshAgrees ==
  ASSUME CopiesInv, NEW e \in Emails \ stale, Fresh(e)
  PROVE  Agrees(Database, e)
<1>1. Settled(e) /\ Copied(e)
  BY DEF CopiesInv, Copies, CopiesOf
<1> QED BY <1>1 DEF Agrees, Settled, Copied, Database

\* A request that is not under way has not written anything, and carries no
\* deadline that it read.
LEMMA NotUnderway ==
  ASSUME NEW e \in Emails, op[e] \in OpType, ~Underway(op[e])
  PROVE  Fresh(e) /\ Carried(e)
BY DEF OpType, Steps, Underway, Fresh, Carried

\* A tick between any two steps of the requests keeps the invariant.
LEMMA TickCopies ==
  ASSUME TypeOK, CopiesInv, NEW T, AddTraffic(T)
  PROVE  CopiesInv'
<1>1. Typed(Database) /\ now \in Int
  BY QuotaAssumption DEF TypeOK, Typed, Database, Row
<1>2. op' = op /\ snap' = snap /\ TickHistory
  BY DEF AddTraffic
<1>3. Guarded'
  <2> SUFFICES ASSUME NEW e \in Emails, op[e].step = "save"
               PROVE  /\ \A f \in Emails \ missed'[op[e].at] :
                           snap[op[e].at][f] = conf'[op[e].at][f]
                      /\ \A f \in Emails : op[f].step = "save" /\ op[f].at = op[e].at => f = e
    BY <1>2 DEF Guarded
  <2>1. op[e].at \in Inbounds /\ Locked(op[e].at)
    BY DEF TypeOK, Locked
  <2>2. missed'[op[e].at] = missed[op[e].at]
          \cup {f \in Emails : conf'[op[e].at][f] # conf[op[e].at][f]}
    BY <1>2, <2>1 DEF TickHistory
  <2> QED BY <2>2 DEF Guarded, CopiesInv
<1>4. ASSUME NEW f \in Emails PROVE Copies(f)'
  <2> SUFFICES ASSUME f \notin stale' PROVE CopiesOf(f)'
    BY DEF Copies
  <2>0. op[f] \in OpType
    BY DEF TypeOK, OpType
  <2>1. \/ f \notin stale
        \/ f \in AutoRenew /\ Expired(row[f].exp) /\ ~Underway(op[f])
    BY <1>2 DEF TickHistory
  <2>2. ~(Underway(op[f]) /\ Touched(f))
    BY <1>2 DEF TickHistory
  <2>3. ASSUME ~Underway(op[f]), Agrees(Database, f)' PROVE CopiesOf(f)'
    <3>1. op'[f] \in OpType /\ ~Underway(op'[f])
      BY <1>2, <2>0, <2>3
    <3>2. Fresh(f)' /\ Carried(f)'
      BY <3>1 DEF OpType, Steps, Underway, Fresh, Carried
    <3>3. Settled(f)' /\ Copied(f)'
      BY <2>3, QuotaAssumption DEF Agrees, Database, Settled, Copied, Inbounds
    <3> QED BY <3>2, <3>3 DEF CopiesOf
  <2>4. CASE f \in AutoRenew /\ Expired(row[f].exp) /\ ~Underway(op[f])
    BY <1>1, <2>3, <2>4, RenewalMends
  <2>5. CASE f \notin stale /\ ~Underway(op[f])
    <3>1. Agrees(Database, f)
      BY <2>0, <2>5, NotUnderway, FreshAgrees
    <3> QED BY <1>1, <2>3, <2>5, <3>1, TickAgrees
  <2>6. CASE f \notin stale /\ ~Touched(f)
    <3>1. /\ row'[f].exp = row[f].exp /\ row'[f].on = row[f].on
          /\ \A i \in Inbounds : conf'[i][f] = conf[i][f]
      BY <2>6 DEF Touched
    <3>2. rec'[f] = rec[f] \/ rec'[f] = conf'[N][f]
      BY <1>1, <3>1, RecordAfterTick
    <3>3. N \in Inbounds
      BY QuotaAssumption DEF Inbounds
    <3>4. Copies(f)'
      BY <1>2, <2>6, <3>1, <3>2, <3>3, OthersKeep DEF CopiesInv
    <3> QED BY <3>4 DEF Copies
  <2> QED BY <2>1, <2>2, <2>4, <2>5, <2>6
<1> QED BY <1>3, <1>4 DEF CopiesInv

\* A step of the request on e that changes neither rows nor settings.
LEMMA StartCopies ==
  ASSUME TypeOK, CopiesInv, NEW e \in Emails, NEW c, NEW step \in {"read", "reset"},
         NEW reset \in BOOLEAN, op[e].step = "none",
         op' = [op EXCEPT ![e] = Request(step, c, reset)],
         reset /\ e \notin stale => c.exp = row[e].exp,
         UNCHANGED <<row, conf, rec, snap, history>>
  PROVE  CopiesInv'
<1>0. /\ \A f \in Emails \ {e} : op'[f] = op[f]
      /\ op'[e] = Request(step, c, reset)
  BY DEF TypeOK
<1>1. op'[e].step = step /\ op'[e].at = 1 /\ op'[e].val = c /\ op'[e].reset = reset
  BY <1>0 DEF Request
<1>2. Fresh(e) /\ Fresh(e)'
  BY <1>1 DEF Fresh
<1>3. Copies(e)'
  <2> SUFFICES ASSUME e \notin stale PROVE CopiesOf(e)'
    BY DEF Copies, history
  <2>1. Settled(e)' /\ Copied(e)'
    BY <1>2 DEF CopiesInv, Copies, CopiesOf, Settled, Copied
  <2>2. Carried(e)'
    BY <1>1 DEF Carried
  <2> QED BY <1>2, <2>1, <2>2 DEF CopiesOf
<1>4. ASSUME NEW f \in Emails \ {e} PROVE Copies(f)'
  BY <1>0, OthersKeep DEF CopiesInv, history
<1>5. Guarded'
  <2>1. \A f \in Emails : op'[f].step = "save" => f # e /\ op'[f] = op[f]
    BY <1>0, <1>1
  <2> QED BY <2>1 DEF Guarded, CopiesInv, history
<1> QED BY <1>3, <1>4, <1>5 DEF CopiesInv

\* An edit begins.
LEMMA UpdateCopies ==
  ASSUME TypeOK, CopiesInv, NEW e \in Emails, NEW c, Update(e, c)
  PROVE  CopiesInv'
BY StartCopies DEF Update

\* A traffic reset begins, with the deadline of the record, which is the row's.
LEMMA ResetTrafficByEmailCopies ==
  ASSUME TypeOK, CopiesInv, NEW e \in Emails, ResetTrafficByEmail(e)
  PROVE  CopiesInv'
<1>1. Fresh(e)
  BY DEF ResetTrafficByEmail, Fresh
<1>2. e \notin stale => rec[e].exp = row[e].exp
  BY <1>1 DEF CopiesInv, Copies, CopiesOf, Settled, Copied
<1>3. CASE rec[e].on
  BY <1>2, <1>3, StartCopies DEF ResetTrafficByEmail
<1>4. CASE ~rec[e].on
  <2> DEFINE c == [exp |-> rec[e].exp, on |-> TRUE]
  <2>1. op' = [op EXCEPT ![e] = Request("read", c, TRUE)]
    BY <1>4 DEF ResetTrafficByEmail
  <2>2. e \notin stale => c.exp = row[e].exp
    BY <1>2
  <2> HIDE DEF c
  <2> QED BY <2>1, <2>2, StartCopies DEF ResetTrafficByEmail
<1> QED BY <1>3, <1>4

\* The request on e has finished its inbound: this one and those before hold
\* the new client, and so does the row.
LEMMA AdvanceCopies ==
  ASSUME NEW e \in Emails, op[e] \in OpType,
         op'[e] = NextInbound(op[e]),
         op[e].val.exp = row'[e].exp,
         op[e].val.on => row'[e].on,
         \A i \in Inbounds : i <= op[e].at => conf'[i][e] = op[e].val,
         Copied(e)'
  PROVE  CopiesOf(e)'
<1>1. op[e].at \in 1 .. N
  BY DEF OpType, Inbounds
<1>2. /\ op'[e].val = op[e].val
      /\ \/ op'[e].step = "read" /\ op'[e].at = op[e].at + 1
         \/ op'[e].step = "finish" /\ op[e].at = N
  BY <1>1, QuotaAssumption DEF NextInbound, Goto
<1>3. ~Fresh(e)'
  BY <1>1, <1>2 DEF Fresh
<1>4. Moving(e)'
  <2>1. ASSUME NEW i \in Inbounds, i < op'[e].at \/ op'[e].step = "finish"
        PROVE  i <= op[e].at
    BY <1>1, <1>2, <2>1, QuotaAssumption DEF Inbounds
  <2> QED BY <1>2, <2>1 DEF Moving
<1>5. Carried(e)'
  BY <1>2 DEF Carried
<1> QED BY <1>3, <1>4, <1>5 DEF CopiesOf

\* A request reads an inbound under its lock, or finds nothing to do there.
LEMMA ReadCopies ==
  ASSUME TypeOK, CopiesInv, NEW e \in Emails, ReadInbound(e)
  PROVE  CopiesInv'
<1> DEFINE i == op[e].at
<1>0. op[e] \in OpType /\ i \in Inbounds /\ op[e].step = "read"
  BY DEF TypeOK, OpType, ReadInbound
<1>1. UNCHANGED <<row, conf, rec, missed, stale>> /\ \A f \in Emails \ {e} : op'[f] = op[f]
  BY DEF TypeOK, ReadInbound, history
<1>2. ASSUME NEW f \in Emails \ {e} PROVE Copies(f)'
  BY <1>1, OthersKeep DEF CopiesInv
<1>3. CASE conf[i][e] = op[e].val
  <2>1. op'[e] = NextInbound(op[e]) /\ snap' = snap
    BY <1>3 DEF ReadInbound, TypeOK
  <2>2. e \notin stale => op[e].val.exp = row[e].exp /\ (op[e].val.on => row[e].on)
    BY <1>0, <1>3 DEF CopiesInv, Copies, CopiesOf, Settled, Moving
  <2>3. ASSUME e \notin stale, NEW j \in Inbounds, j <= i PROVE conf[j][e] = op[e].val
    <3>1. CASE j = i
      BY <3>1, <1>3
    <3>2. CASE j # i
      <4>1. j < i /\ i # 1
        BY <3>2, <2>3, <1>0, QuotaAssumption DEF Inbounds
      <4>2. ~Fresh(e)
        BY <4>1, <1>0 DEF Fresh
      <4> QED BY <2>3, <4>1, <4>2 DEF CopiesInv, Copies, CopiesOf, Moving
    <3> QED BY <3>1, <3>2
  <2>4. e \notin stale => Copied(e)'
    BY <1>1 DEF CopiesInv, Copies, CopiesOf, Copied
  <2>5. Copies(e)'
    BY <1>0, <1>1, <2>1, <2>2, <2>3, <2>4, AdvanceCopies DEF Copies
  <2>6. op'[e].step # "save"
    BY <2>1 DEF NextInbound, Goto
  <2>7. \A f \in Emails : op'[f].step = "save" => f # e /\ op'[f] = op[f]
    BY <1>1, <2>6
  <2>8. Guarded'
    BY <1>1, <2>1, <2>7 DEF Guarded, CopiesInv
  <2> QED BY <1>2, <2>5, <2>8 DEF CopiesInv
<1>4. CASE conf[i][e] # op[e].val
  <2>1. op'[e] = Goto(op[e], "save", i) /\ snap' = [snap EXCEPT ![i] = conf[i]]
    BY <1>4 DEF ReadInbound, TypeOK
  <2>2. /\ op'[e].step = "save" /\ op'[e].at = i
        /\ op'[e].val = op[e].val /\ op'[e].reset = op[e].reset
    BY <2>1 DEF Goto
  <2>3. Copies(e)'
    <3> SUFFICES ASSUME e \notin stale PROVE CopiesOf(e)'
      BY <1>1 DEF Copies
    <3>0. CopiesOf(e)
      BY DEF CopiesInv, Copies
    <3>1. Fresh(e)' <=> Fresh(e)
      BY <1>0, <2>2 DEF Fresh
    <3>2. Fresh(e) => Settled(e)'
      BY <1>1, <3>0 DEF CopiesOf, Settled
    <3>3. ~Fresh(e) => Moving(e)'
      BY <1>0, <1>1, <2>2, <3>0 DEF CopiesOf, Moving
    <3>4. Copied(e)' /\ Carried(e)'
      BY <1>0, <1>1, <2>2, <3>0 DEF CopiesOf, Copied, Carried
    <3> QED BY <3>1, <3>2, <3>3, <3>4 DEF CopiesOf
  <2>4. \A f \in Emails : op[f].step = "save" => op[f].at # i
    BY DEF ReadInbound, Locked
  <2>5. snap'[i] = conf[i] /\ \A j \in Inbounds : j # i => snap'[j] = snap[j]
    BY <1>0, <2>1 DEF TypeOK
  <2>6. \A f \in Emails : op[f].at \in Inbounds
    BY DEF TypeOK
  <2>7. Guarded'
    <3> SUFFICES ASSUME NEW f \in Emails, op'[f].step = "save"
                 PROVE  /\ \A g \in Emails \ missed'[op'[f].at] :
                             snap'[op'[f].at][g] = conf'[op'[f].at][g]
                        /\ \A g \in Emails : op'[g].step = "save" /\ op'[g].at = op'[f].at => g = f
      BY DEF Guarded
    <3>1. CASE f = e
      BY <1>1, <2>2, <2>4, <2>5, <3>1
    <3>2. CASE f # e
      <4>1. op'[f] = op[f] /\ op[f].at # i
        BY <1>1, <2>4, <3>2
      <4> QED BY <1>1, <2>2, <2>5, <2>6, <4>1 DEF Guarded, CopiesInv
    <3> QED BY <3>1, <3>2
  <2> QED BY <1>2, <2>3, <2>7 DEF CopiesInv
<1> QED BY <1>3, <1>4

\* A request saves an inbound: the other clients in it stay as they are, because
\* the lock kept the settings that were read, or become stale.
LEMMA SaveCopies ==
  ASSUME TypeOK, CopiesInv, NEW e \in Emails, SaveInbound(e)
  PROVE  CopiesInv'
<1> DEFINE i == op[e].at
           c == op[e].val
<1>0. op[e] \in OpType /\ i \in Inbounds /\ op[e].step = "save"
  BY DEF TypeOK, OpType, SaveInbound
<1>1. \A f \in Emails \ missed[i] : snap[i][f] = conf[i][f]
  BY <1>0 DEF Guarded, CopiesInv
<1>2. /\ conf' = [conf EXCEPT ![i] = [snap[i] EXCEPT ![e] = c]]
      /\ rec' = [snap[i] EXCEPT ![e] = c]
      /\ stale' = stale \cup (missed[i] \ {e})
      /\ missed' = [missed EXCEPT ![i] = {}]
  BY DEF SaveInbound
<1>3. /\ conf \in [Inbounds -> [Emails -> Client]]
      /\ snap[i] \in [Emails -> Client] /\ missed \in [Inbounds -> SUBSET Emails]
  BY <1>0 DEF TypeOK
<1>4. /\ \A f \in Emails \ ({e} \cup missed[i]) : rec'[f] = conf[i][f]
      /\ \A f \in Emails \ ({e} \cup missed[i]), j \in Inbounds : conf'[j][f] = conf[j][f]
      /\ rec'[e] = c /\ conf'[i][e] = c
      /\ \A j \in Inbounds : j # i => conf'[j] = conf[j]
  BY <1>0, <1>1, <1>2, <1>3
<1>5. /\ \A f \in Emails \ {e} : op'[f] = op[f] /\ row'[f] = row[f]
      /\ op'[e] = NextInbound(op[e])
      /\ row'[e].exp = c.exp /\ row'[e].on = c.on
  BY DEF SaveInbound, TypeOK
<1>6. ASSUME NEW f \in Emails \ {e} PROVE Copies(f)'
  <2>1. CASE f \in missed[i]
    BY <1>2, <2>1 DEF Copies
  <2>2. CASE f \notin missed[i]
    BY <1>0, <1>2, <1>4, <1>5, <2>2, OthersKeep DEF CopiesInv
  <2> QED BY <2>1, <2>2
<1>7. Copies(e)'
  <2> SUFFICES ASSUME e \notin stale PROVE CopiesOf(e)'
    BY <1>2 DEF Copies
  <2>1. ASSUME NEW j \in Inbounds, j <= i PROVE conf'[j][e] = c
    <3>1. CASE j = i
      BY <3>1, <1>4
    <3>2. CASE j # i
      <4>1. j < i /\ i # 1
        BY <3>2, <2>1, <1>0, QuotaAssumption DEF Inbounds
      <4>2. ~Fresh(e)
        BY <4>1, <1>0 DEF Fresh
      <4>3. conf[j][e] = c
        BY <4>1, <4>2 DEF CopiesInv, Copies, CopiesOf, Moving
      <4> QED BY <1>4, <3>2, <4>3
    <3> QED BY <3>1, <3>2
  <2>2. Copied(e)'
    BY <1>0, <1>4 DEF Copied
  <2> QED BY <1>0, <1>5, <2>1, <2>2, AdvanceCopies
<1>8. Guarded'
  <2>1. op'[e].step # "save"
    BY <1>5 DEF NextInbound, Goto
  <2>2. \A f \in Emails : op'[f].step = "save" => f # e /\ op'[f] = op[f] /\ op[f].at # i
    BY <1>0, <1>5, <2>1 DEF Guarded, CopiesInv
  <2>3. \A j \in Inbounds : j # i => snap'[j] = snap[j] /\ missed'[j] = missed[j]
    BY <1>2, <1>3 DEF SaveInbound, TypeOK
  <2>4. \A f \in Emails : op[f].at \in Inbounds
    BY DEF TypeOK
  <2> QED BY <1>4, <2>2, <2>3, <2>4 DEF Guarded, CopiesInv
<1> QED BY <1>6, <1>7, <1>8 DEF CopiesInv

\* An edit ends: all copies have the new client.
LEMMA FinishCopies ==
  ASSUME TypeOK, CopiesInv, NEW e \in Emails, FinishUpdate(e)
  PROVE  CopiesInv'
<1> DEFINE c == op[e].val
<1>1. /\ UNCHANGED <<row, conf, snap, missed, stale>>
      /\ \A f \in Emails \ {e} : op'[f] = op[f] /\ rec'[f] = rec[f]
      /\ rec'[e].exp = rec[e].exp /\ rec'[e].on = c.on
      /\ op'[e] = IF op[e].reset THEN Request("reset", c, TRUE) ELSE NoOp
  BY DEF FinishUpdate, TypeOK, history
<1>2. op'[e].step \in {"reset", "none"}
  BY <1>1 DEF Request, NoOp
<1>6. Copies(e)'
  <2> SUFFICES ASSUME e \notin stale PROVE CopiesOf(e)'
    BY <1>1 DEF Copies
  <2>1. Fresh(e)' /\ Carried(e)'
    BY <1>2 DEF Fresh, Carried
  <2>2. Moving(e) /\ Copied(e)
    BY DEF FinishUpdate, CopiesInv, Copies, CopiesOf, Fresh
  <2>3. \A j \in Inbounds : conf[j][e] = c
    BY <2>2 DEF Moving, FinishUpdate
  <2>4. Settled(e)'
    BY <1>1, <2>2, <2>3 DEF Settled, Moving
  <2>5. Copied(e)'
    BY <1>1, <2>2 DEF Copied
  <2> QED BY <2>1, <2>4, <2>5 DEF CopiesOf
<1>7. ASSUME NEW f \in Emails \ {e} PROVE Copies(f)'
  BY <1>1, OthersKeep DEF CopiesInv
<1>8. Guarded'
  <2>1. \A f \in Emails : op'[f].step = "save" => op'[f] = op[f]
    BY <1>1, <1>2
  <2> QED BY <1>1, <2>1 DEF Guarded, CopiesInv
<1> QED BY <1>6, <1>7, <1>8 DEF CopiesInv

\* The row is reset and enabled, and keeps its deadline.
LEMMA ResetCopies ==
  ASSUME TypeOK, CopiesInv, NEW e \in Emails, ResetClientTraffic(e)
  PROVE  CopiesInv'
<1>1. /\ UNCHANGED <<conf, rec, snap, missed, stale>>
      /\ \A f \in Emails \ {e} : op'[f] = op[f] /\ row'[f] = row[f]
      /\ row'[e].exp = row[e].exp /\ row'[e].on
      /\ op'[e] = IF op[e].at < N THEN Goto(op[e], "reset", op[e].at + 1) ELSE NoOp
  BY DEF ResetClientTraffic, TypeOK, history
<1>2. op'[e].step \in {"reset", "none"}
  BY <1>1 DEF Goto, NoOp
<1>4. Copies(e)'
  <2> SUFFICES ASSUME e \notin stale PROVE CopiesOf(e)'
    BY <1>1 DEF Copies
  <2>1. Fresh(e) /\ Fresh(e)' /\ Carried(e)'
    BY <1>2 DEF Fresh, Carried, ResetClientTraffic
  <2>2. Settled(e)' /\ Copied(e)'
    BY <1>1, <2>1 DEF Settled, Copied, CopiesOf, Copies, CopiesInv
  <2> QED BY <2>1, <2>2 DEF CopiesOf
<1>5. ASSUME NEW f \in Emails \ {e} PROVE Copies(f)'
  BY <1>1, OthersKeep DEF CopiesInv
<1>6. Guarded'
  <2>1. \A f \in Emails : op'[f].step = "save" => op'[f] = op[f]
    BY <1>1, <1>2
  <2> QED BY <1>1, <2>1 DEF Guarded, CopiesInv
<1> QED BY <1>4, <1>5, <1>6 DEF CopiesInv

\* The invariant is inductive.
LEMMA NextCopies ==
  ASSUME TypeOK, CopiesInv, [Next]_vars
  PROVE  CopiesInv'
<1>1. CASE Tick
  BY <1>1, TickCopies DEF Tick
<1>2. CASE Clock
  BY <1>2, OthersKeep DEF Clock, CopiesInv, Guarded, history
<1>3. ASSUME NEW e \in Emails, NEW c, Update(e, c) PROVE CopiesInv'
  BY <1>3, UpdateCopies
<1>4. ASSUME NEW e \in Emails, ResetTrafficByEmail(e) PROVE CopiesInv'
  BY <1>4, ResetTrafficByEmailCopies
<1>5. ASSUME NEW e \in Emails, ReadInbound(e) PROVE CopiesInv'
  BY <1>5, ReadCopies
<1>6. ASSUME NEW e \in Emails, SaveInbound(e) PROVE CopiesInv'
  BY <1>6, SaveCopies
<1>7. ASSUME NEW e \in Emails, FinishUpdate(e) PROVE CopiesInv'
  BY <1>7, FinishCopies
<1>8. ASSUME NEW e \in Emails, ResetClientTraffic(e) PROVE CopiesInv'
  BY <1>8, ResetCopies
<1>9. CASE ResetAllClientTraffics
  <2>1. \A e \in Emails : row'[e].exp = row[e].exp /\ row'[e].on
    BY <1>9 DEF ResetAllClientTraffics
  <2>2. UNCHANGED <<conf, rec, op, snap, missed, stale>>
    BY <1>9 DEF ResetAllClientTraffics, history
  <2>3. ASSUME NEW f \in Emails PROVE Copies(f)'
    BY <2>1, <2>2, OthersKeep DEF CopiesInv
  <2> QED BY <2>2, <2>3 DEF CopiesInv, Guarded
<1>10. CASE UNCHANGED vars
  BY <1>10, OthersKeep DEF vars, history, CopiesInv, Guarded
<1> QED BY <1>1, <1>2, <1>3, <1>4, <1>5, <1>6, <1>7, <1>8, <1>9, <1>10 DEF Next

\* The copies of a client have the same deadline whenever no request is under
\* way, for any number of clients and inbounds, any deadlines, any interleaving
\* of concurrent edits and ticks between any of their steps, except for clients
\* of whom a request has overwritten what a tick had changed.
THEOREM CopiesShareDeadline == Spec => []DeadlinesAgree
<1>1. TypeOK /\ CopiesInv /\ [Next]_vars => CopiesInv'
  BY NextCopies
<1>2. CopiesInv => DeadlinesAgree
  BY FreshAgrees DEF DeadlinesAgree, Idle, Fresh, Agrees, Database
<1> QED BY <1>1, <1>2, InitCopies, TypeCorrect, PTL DEF Spec

\* Nobody else whom the table clients shows as enabled is kept out of the core by
\* the traffic row.
THEOREM EnabledIsServed == Spec => []ShownIsServed
<1>1. TypeOK /\ CopiesInv /\ [Next]_vars => CopiesInv'
  BY NextCopies
<1>2. CopiesInv => ShownIsServed
  BY FreshAgrees DEF ShownIsServed, Idle, Fresh, Agrees, Database
<1> QED BY <1>1, <1>2, InitCopies, TypeCorrect, PTL DEF Spec

-----------------------------------------------------------------------------
\* Every tick ends with nobody served who is out of quota or past the
\* deadline, wherever it falls among the steps of the requests: the disabling is
\* its last part and looks at the rows the renewal left.
THEOREM TickEnforcesLimits == Spec => LimitsEnforced
<1>1. ASSUME NEW d, NEW e \in Emails, DisableInvalidClients(d).row[e].on
      PROVE  ~Depleted(DisableInvalidClients(d).row[e])
  BY <1>1 DEF DisableInvalidClients, RowOff
<1>2. ASSUME Tick, NEW e \in Emails, Served(e)' PROVE ~Depleted(row'[e])
  BY <1>1, <1>2 DEF Tick, AddTraffic, Served
<1>3. [Next]_vars => [Tick => \A e \in Emails : Served(e)' => ~Depleted(row'[e])]_vars
  BY <1>2
<1> QED BY <1>3, PTL DEF Spec, LimitsEnforced

-----------------------------------------------------------------------------
\* A renewal never moves a deadline back.
LEMMA NextExpiryLater ==
  ASSUME NEW x \in Int, now \in Int, x <= now
  PROVE  NextExpiry(x) >= x
<1> DEFINE k == (now - x + Period - 1) \div Period
<1>1. now - x + Period - 1 \in Nat /\ Period \in Nat \ {0}
  BY QuotaAssumption
<1>2. k \in Nat
  BY <1>1
<1> HIDE DEF k
<1>3. Period * k \in Nat
  BY <1>1, <1>2
<1>4. NextExpiry(x) = x + Period * k
  BY DEF NextExpiry, k
<1> QED BY <1>3, <1>4

\* No part of a tick takes back a deadline that has begun.
LEMMA TickKeepsDeadline ==
  ASSUME TypeOK, NEW T, AddTraffic(T), NEW e \in Emails, row[e].exp > 0
  PROVE  row'[e].exp > 0
<1> DEFINE d1 == AdjustTraffics(Database, T)
           d2 == AddUsage(d1, T)
           d3 == AutoRenewClients(d2)
           d4 == DisableInvalidClients(d3)
<1>0. Typed(Database) /\ now \in Int
  BY QuotaAssumption DEF TypeOK, Typed, Database, Row
<1>1. d1.row[e].exp = row[e].exp
  BY <1>0 DEF AdjustTraffics, Database, Typed, Row
<1>2. Typed(d1)
  BY <1>0, AdjustAgrees
<1>a. ASSUME NEW d, Typed(d) PROVE AddUsage(d, T).row[e].exp = d.row[e].exp
  BY <1>a DEF AddUsage, Typed, Row
<1>b. Typed(d2)
  BY <1>2, AddUsageAgrees
<1> HIDE DEF d1
<1>3. d2.row[e].exp = d1.row[e].exp /\ Typed(d2)
  BY <1>2, <1>a, <1>b
<1> HIDE DEF d1, d2
<1>4. d3.row[e].exp > 0
  <2>1. d2.row[e].exp \in Int /\ d2.row[e].exp > 0
    BY <1>0, <1>1, <1>3 DEF Typed, Row, Database
  <2>2. Expired(d2.row[e].exp) => NextExpiry(d2.row[e].exp) > 0
    BY <1>0, <2>1, NextExpiryLater, NextExpiryIsInt DEF Expired
  <2>3. d3.row[e].exp \in {d2.row[e].exp, NextExpiry(d2.row[e].exp)}
    BY DEF AutoRenewClients
  <2>4. d3.row[e].exp = d2.row[e].exp \/ Expired(d2.row[e].exp)
    BY DEF AutoRenewClients
  <2> QED BY <2>1, <2>2, <2>3, <2>4
<1> HIDE DEF d3
<1>5. d4.row[e].exp = d3.row[e].exp
  BY DEF DisableInvalidClients, RowOff
<1>6. row' = d4.row
  BY DEF AddTraffic, d1, d2, d3
<1> QED BY <1>4, <1>5, <1>6

\* A delayed start that has begun is taken back only by an administrator's edit,
\* or by a traffic reset that read the record before the deadline began, or read
\* one that such a lost update had set back.
THEOREM ActivationIsKept == Spec => ActivatedStays
<1>1. TypeOK /\ CopiesInv /\ [Next]_vars => CopiesInv'
  BY NextCopies
<1>2. ASSUME TypeOK, CopiesInv, Next, NEW e \in Emails, row[e].exp > 0, row'[e].exp < 0
      PROVE  op[e].step = "save" /\ (op[e].reset => e \in stale)
  <2>0. row[e].exp \in Int
    BY <1>2 DEF TypeOK
  <2>1. CASE Tick
    <3>1. row'[e].exp > 0
      BY <1>2, <2>1, TickKeepsDeadline DEF Tick
    <3>2. Typed(Database)'
      BY <1>2, <2>1, TickAgrees, QuotaAssumption DEF Tick, TypeOK, Typed, Database, Row
    <3>3. row'[e].exp \in Int
      BY <3>2 DEF Typed, Database, Row
    <3> QED BY <1>2, <3>1, <3>3
  <2>2. ASSUME row'[e].exp = row[e].exp PROVE FALSE
    BY <1>2, <2>0, <2>2
  <2>3. ASSUME NEW f \in Emails, SaveInbound(f)
        PROVE  op[e].step = "save" /\ (op[e].reset => e \in stale)
    <3>1. f = e
      BY <1>2, <2>2, <2>3 DEF SaveInbound, TypeOK
    <3>2. op[e].step = "save" /\ row'[e].exp = op[e].val.exp
      BY <1>2, <2>3, <3>1 DEF SaveInbound, TypeOK
    <3>3. op[e].reset /\ e \notin stale => op[e].val.exp = row[e].exp
      BY <1>2, <3>2 DEF CopiesInv, Copies, CopiesOf, Carried
    <3> QED BY <3>2, <3>3, <2>2
  <2>4. ASSUME NEW f \in Emails, ResetClientTraffic(f) PROVE row'[e].exp = row[e].exp
    BY <1>2, <2>4 DEF ResetClientTraffic, TypeOK
  <2>5. CASE ResetAllClientTraffics
    BY <2>2, <2>5 DEF ResetAllClientTraffics
  <2>6. CASE row' = row
    BY <2>2, <2>6
  <2> QED BY <1>2, <2>1, <2>2, <2>3, <2>4, <2>5, <2>6
       DEF Next, Clock, Update, ResetTrafficByEmail, ReadInbound, FinishUpdate
<1>3. TypeOK /\ CopiesInv /\ [Next]_vars =>
        [\A e \in Emails : row[e].exp > 0 /\ row'[e].exp < 0
           => op[e].step = "save" /\ (op[e].reset => e \in stale)]_vars
  BY <1>2
<1> QED BY <1>1, <1>3, InitCopies, TypeCorrect, PTL DEF Spec, ActivatedStays

=============================================================================
