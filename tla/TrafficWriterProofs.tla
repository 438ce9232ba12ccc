------------------------ MODULE TrafficWriterProofs ------------------------
(***************************************************************************)
(* Proofs about TrafficWriter, for any number of callers, any queue size,  *)
(* any number of attempts, calls and generations.                          *)
(*                                                                         *)
(* The argument has two layers.  Inv says who holds twMu, which generation *)
(* is the live one and where the request of a waiting caller can be; it    *)
(* gives the properties about stopping.  Once says that a pending request  *)
(* is pending in one place only and belongs to the attempt its caller      *)
(* waits for; with it a commit is counted once.                            *)
(***************************************************************************)
EXTENDS TrafficWriter, TLAPS

\* A caller inside a call has counted the call and the attempt.
Counted ==
    \A c \in Callers : cpc[c] # "idle" => ncall[c] >= 1 /\ attempt[c] >= 1

\* twMu is held across the send, and only there; the channel sent to is the
\* live one and its context is not cancelled.
Locked ==
    \A c \in Callers :
        /\ mu = c <=> cpc[c] = "send"
        /\ cpc[c] = "send" => cur # 0 /\ cgen[c] = cur /\ ~cancelled[cur]
        /\ cpc[c] = "wait" => cgen[c] \in 1..gens

\* Only a cancelled writer drains, only a drained one ends, and only an ended
\* one closes its channel.
Phases ==
    \A g \in Gen :
        /\ wpc[g] \in {"drain", "drainApply", "exit"} => cancelled[g]
        /\ wpc[g] = "exit" => queue[g] = <<>>
        /\ closed[g] => wpc[g] = "exit"
        /\ wreq[g] # NoReq <=> wpc[g] \in {"apply", "drainApply"}
        /\ g > gens => wpc[g] = "unborn" /\ queue[g] = <<>> /\ ~cancelled[g]

\* A generation that is not the live one is closed; Stop waits for the live one.
Superseded ==
    /\ \A g \in 1..gens : g # cur => closed[g]
    /\ mpc = "stopping" => cur # 0 /\ mgen = cur /\ cancelled[cur]

Pending(r, g) == wreq[g] = r \/ \E i \in 1..Len(queue[g]) : queue[g][i] = r

\* The request of a waiting caller is answered, or with the writer, or queued.
Held ==
    \A c \in Callers :
        cpc[c] = "wait" => reply[ReqOf(c)] # "none" \/ Pending(ReqOf(c), cgen[c])

\* r is the unanswered request some caller waits for on generation g.
Awaited(r, g) ==
    \E c \in Callers : /\ cpc[c] = "wait" /\ cgen[c] = g
                       /\ r = ReqOf(c) /\ reply[r] = "none"

\* Pending requests are awaited, each in one place.
Distinct(q, r) ==
    \A i \in 1..Len(q) : q[i] # r /\ \A j \in 1..Len(q) : i # j => q[i] # q[j]

PendingOnce ==
    \A g \in Gen :
        /\ wreq[g] # NoReq => Awaited(wreq[g], g)
        /\ \A i \in 1..Len(queue[g]) : Awaited(queue[g][i], g)
        /\ Distinct(queue[g], wreq[g])

\* No reply before the request is sent.
Fresh ==
    \A c \in Callers, n \in 1..MaxCalls, a \in 1..MaxAttempts :
        \/ n > ncall[c]
        \/ n = ncall[c] /\ a > attempt[c]
        \/ n = ncall[c] /\ a = attempt[c] /\ cpc[c] \in {"lock", "send", "inline"}
        => reply[<<c, n, a>>] = "none"

\* What has been committed for a call that is over, running, or to come.
AccountOf(c, n) ==
    LET k == <<c, n>> IN
    /\ n > ncall[c] => commits[k] = 0 /\ result[k] = "none"
    /\ n < ncall[c] \/ (n = ncall[c] /\ cpc[c] = "idle") =>
         commits[k] = (IF result[k] = "ok" THEN 1 ELSE 0)
    /\ n = ncall[c] /\ cpc[c] # "idle" => result[k] = "none"
    /\ n = ncall[c] /\ cpc[c] \in {"lock", "send", "inline"} => commits[k] = 0
    /\ n = ncall[c] /\ cpc[c] = "wait" =>
         commits[k] = (IF reply[<<c, n, attempt[c]>>] = "ok" THEN 1 ELSE 0)

Account == \A c \in Callers, n \in 1..MaxCalls : AccountOf(c, n)

Once == PendingOnce /\ Fresh /\ Account

Inv == TypeOK /\ Counted /\ Locked /\ Phases /\ Superseded /\ Held

-----------------------------------------------------------------------------
\* A caller inside a call names a request and a call.
LEMMA ReqType ==
    ASSUME TypeOK, Counted, NEW c \in Callers, cpc[c] # "idle"
    PROVE  ReqOf(c) \in Req /\ CallOf(c) \in Call
BY WriterAssumption DEF TypeOK, Counted, ReqOf, CallOf, Req, Call

\* Init establishes the invariant.
LEMMA InitInv == Init => Inv
<1> SUFFICES ASSUME Init PROVE Inv
  OBVIOUS
<1> USE WriterAssumption DEF Init
<1>1. TypeOK
  BY DEF TypeOK, Gen, Outcome, Returns, Req, Call, NoReq
<1>2. Counted /\ Locked
  BY DEF Counted, Locked
<1>3. Phases
  BY DEF Phases, Gen, NoReq
<1>4. Superseded /\ Held
  BY DEF Superseded, Held
<1> QED
  BY <1>1, <1>2, <1>3, <1>4 DEF Inv

\* A counter per call stays one when a call's counter goes up.
LEMMA CountUp ==
    ASSUME NEW S, NEW f \in [S -> Nat], NEW x \in S
    PROVE  [f EXCEPT ![x] = @ + 1] \in [S -> Nat]
OBVIOUS

\* The writer has a request exactly while it applies one.
LEMMA WriterReq ==
    ASSUME TypeOK, Phases, NEW g \in Gen, wpc[g] \in {"apply", "drainApply"}
    PROVE  /\ wreq[g] \in Req
           /\ <<wreq[g][1], wreq[g][2]>> \in Call
<1>1. wreq[g] \in Req
  BY DEF TypeOK, Phases
<1> QED
  BY <1>1 DEF Req, Call

\* Every step keeps the shape of the state.
LEMMA TypeStep == Inv /\ [Next]_vars => TypeOK'
<1> SUFFICES ASSUME TypeOK, Counted, Locked, Phases, [Next]_vars PROVE TypeOK'
  BY DEF Inv
<1> DEFINE CPC == {"idle", "lock", "send", "wait", "inline"}
<1>1. ASSUME NEW c \in Callers, Submit(c) PROVE TypeOK'
  BY <1>1, WriterAssumption DEF TypeOK, Submit, writerVars, callerVars, mainVars
<1>2. ASSUME NEW c \in Callers, Inspect(c) PROVE TypeOK'
  <2>1. mu' \in Callers \cup {"free"}
    BY <1>2 DEF TypeOK, Inspect
  <2>2. cpc' \in [Callers -> CPC]
    <3>1. \/ cpc' = [cpc EXCEPT ![c] = "inline"]
          \/ cpc' = [cpc EXCEPT ![c] = "send"]
      BY <1>2 DEF Inspect
    <3> QED
      BY <3>1 DEF TypeOK
  <2>3. cgen' \in [Callers -> 0..MaxGen]
    BY <1>2, WriterAssumption DEF TypeOK, Inspect
  <2> QED
    BY <1>2, <2>1, <2>2, <2>3 DEF TypeOK, Inspect, writerVars, callerVars, mainVars
<1>3. ASSUME NEW c \in Callers, Enqueue(c) PROVE TypeOK'
  <2>1. ReqOf(c) \in Req
    BY <1>3, ReqType DEF Enqueue
  <2>2. cgen[c] \in Gen /\ queue[cgen[c]] \in Seq(Req)
    BY <1>3, WriterAssumption DEF Enqueue, Locked, TypeOK, Gen
  <2>4. queue' \in [Gen -> Seq(Req)]
    BY <1>3, <2>1, <2>2 DEF TypeOK, Enqueue
  <2>3. cpc' \in [Callers -> CPC]
    BY <1>3 DEF TypeOK, Enqueue
  <2> QED
    BY <1>3, <2>3, <2>4 DEF TypeOK, Enqueue, writerVars, callerVars, mainVars
<1>f. ASSUME NEW c \in Callers, NEW err \in Returns, Finish(c, err)
      PROVE  /\ attempt' \in [Callers -> 0..MaxAttempts]
             /\ cpc' \in [Callers -> CPC]
             /\ result' \in [Call -> Returns \cup {"none"}]
  <2>1. CASE err = "deadlock" /\ attempt[c] < MaxAttempts
    <3>1. attempt[c] + 1 \in 0..MaxAttempts
      BY <2>1, WriterAssumption DEF TypeOK
    <3> QED
      BY <1>f, <2>1, <3>1 DEF TypeOK, Finish
  <2>2. CASE ~(err = "deadlock" /\ attempt[c] < MaxAttempts)
    BY <1>f, <2>2 DEF TypeOK, Finish
  <2> QED
    BY <2>1, <2>2
<1>4. ASSUME NEW c \in Callers, QueueFull(c) PROVE TypeOK'
  BY <1>4, <1>f DEF TypeOK, QueueFull, Returns, writerVars, callerVars, mainVars
<1>5. ASSUME NEW c \in Callers, AwaitReply(c) PROVE TypeOK'
  <2>1. ReqOf(c) \in Req
    BY <1>5, ReqType DEF AwaitReply
  <2>2. (IF reply[ReqOf(c)] # "none" THEN reply[ReqOf(c)] ELSE "stopped") \in Returns
    BY <2>1 DEF TypeOK, Returns
  <2> QED
    BY <1>5, <1>f, <2>2 DEF TypeOK, AwaitReply, writerVars, callerVars, mainVars
<1>6. ASSUME NEW c \in Callers, RunInline(c) PROVE TypeOK'
  <2>1. PICK out \in Outcome :
          /\ commits' = IF out = "ok" THEN [commits EXCEPT ![CallOf(c)] = @ + 1]
                                      ELSE commits
          /\ Finish(c, out)
    BY <1>6 DEF RunInline
  <2>2. CallOf(c) \in Call
    BY <1>6, ReqType DEF RunInline
  <2>3. commits' \in [Call -> Nat]
    BY <2>1, <2>2, CountUp DEF TypeOK
  <2> QED
    BY <1>6, <1>f, <2>1, <2>3 DEF TypeOK, RunInline, Returns, writerVars, callerVars, mainVars
<1>7. ASSUME NEW g \in Gen, Receive(g) PROVE TypeOK'
  <2>1. Head(queue[g]) \in Req /\ Tail(queue[g]) \in Seq(Req)
    BY <1>7 DEF TypeOK, Receive
  <2> QED
    BY <1>7, <2>1 DEF TypeOK, Receive, writerVars, callerVars, mainVars
<1>8. ASSUME NEW g \in Gen, Apply(g) PROVE TypeOK'
  <2>1. PICK out \in Outcome :
          /\ reply' = [reply EXCEPT ![wreq[g]] = out]
          /\ commits' = IF out = "ok"
                          THEN [commits EXCEPT ![<<wreq[g][1], wreq[g][2]>>] = @ + 1]
                          ELSE commits
    BY <1>8 DEF Apply
  <2>2. <<wreq[g][1], wreq[g][2]>> \in Call
    BY <1>8, WriterReq DEF Apply
  <2>3. commits' \in [Call -> Nat]
    BY <2>1, <2>2, CountUp DEF TypeOK
  <2>4. reply' \in [Req -> Outcome \cup {"none"}]
    BY <2>1 DEF TypeOK
  <2> QED
    BY <1>8, <2>3, <2>4 DEF TypeOK, Apply, writerVars, callerVars, mainVars
<1>9. ASSUME NEW g \in Gen, SeeCancel(g) \/ DrainEmpty(g) \/ CloseDone(g)
      PROVE  TypeOK'
  BY <1>9 DEF TypeOK, SeeCancel, DrainEmpty, CloseDone, writerVars, callerVars, mainVars
<1>10. CASE StartTrafficWriter
  <2>1. gens' \in 0..MaxGen /\ cur' \in 0..gens'
    BY <1>10, WriterAssumption DEF TypeOK, StartTrafficWriter
  <2> QED
    BY <1>10, <2>1 DEF TypeOK, StartTrafficWriter, writerVars, callerVars, mainVars
<1>11. CASE StopCancel
  <2>1. mgen' \in 0..MaxGen
    BY <1>11, WriterAssumption DEF TypeOK, StopCancel
  <2> QED
    BY <1>11, <2>1 DEF TypeOK, StopCancel, writerVars, callerVars, mainVars
<1>12. CASE StopClear
  BY <1>12, WriterAssumption DEF TypeOK, StopClear, writerVars, callerVars, mainVars
<1>13. CASE UNCHANGED vars
  BY <1>13 DEF TypeOK, vars, writerVars, callerVars, mainVars
<1> QED
  BY <1>1, <1>2, <1>3, <1>4, <1>5, <1>6, <1>7, <1>8, <1>9, <1>10, <1>11,
     <1>12, <1>13
  DEF Next, Caller, Writer, Main

\* No request is the empty one.
LEMMA NoReqType == NoReq \notin Req
<1> SUFFICES ASSUME NEW r \in Req PROVE r # <<>>
  BY DEF NoReq
<1>1. PICK a \in Callers, n \in 1..MaxCalls, m \in 1..MaxAttempts : r = <<a, n, m>>
  BY DEF Req
<1>2. Len(r) = 3 /\ Len(<<>>) = 0
  BY <1>1
<1> QED
  BY <1>2

\* A step of one caller that does not end in waiting, and leaves the channels
\* and the replies alone, keeps Held.
LEMMA HeldFrame ==
    ASSUME TypeOK, Held, NEW c \in Callers, cpc'[c] # "wait",
           UNCHANGED <<queue, wreq, reply>>,
           \A d \in Callers : d # c =>
               /\ cpc'[d] = cpc[d] /\ ncall'[d] = ncall[d]
               /\ attempt'[d] = attempt[d] /\ cgen'[d] = cgen[d]
    PROVE  Held'
<1> SUFFICES ASSUME NEW d \in Callers, cpc'[d] = "wait"
             PROVE  (reply[ReqOf(d)] # "none" \/ Pending(ReqOf(d), cgen[d]))'
  BY DEF Held
<1>1. /\ cpc[d] = "wait" /\ ncall'[d] = ncall[d]
      /\ attempt'[d] = attempt[d] /\ cgen'[d] = cgen[d]
  OBVIOUS
<1>2. ReqOf(d)' = ReqOf(d)
  BY <1>1 DEF ReqOf
<1>3. reply[ReqOf(d)] # "none" \/ Pending(ReqOf(d), cgen[d])
  BY <1>1 DEF Held
<1> QED
  BY <1>1, <1>2, <1>3 DEF Pending

\* Every step keeps the invariant.
LEMMA InvStep == Inv /\ [Next]_vars => Inv'
<1> SUFFICES ASSUME Inv, [Next]_vars PROVE Inv'
  OBVIOUS
<1> USE DEF Inv, writerVars, callerVars, mainVars
<1>g. gens \in Nat /\ cur \in Nat /\ MaxGen \in Nat /\ gens <= MaxGen /\ cur <= gens
  BY WriterAssumption DEF TypeOK
<1>m. "free" \notin Callers
  BY WriterAssumption
<1>h. \A x \in 1..gens : x \in Gen
  BY <1>g DEF Gen
<1>t. TypeOK'
  BY TypeStep
<1>1. ASSUME NEW c \in Callers, Submit(c) PROVE Inv'
  <2>1. Counted' /\ Locked' /\ Phases' /\ Superseded'
    BY <1>1 DEF Submit, TypeOK, Counted, Locked, Phases, Superseded
  <2>2. Held'
    BY <1>1, HeldFrame DEF Submit, TypeOK
  <2> QED
    BY <1>t, <2>1, <2>2
<1>2. ASSUME NEW c \in Callers, Inspect(c) PROVE Inv'
  <2>1. Counted' /\ Phases' /\ Superseded'
    BY <1>2 DEF Inspect, TypeOK, Counted, Phases, Superseded
  <2>2. Locked'
    <3>1. CASE cur = 0 \/ cancelled[cur]
      BY <1>2, <1>m, <3>1 DEF Inspect, TypeOK, Locked
    <3>2. CASE ~(cur = 0 \/ cancelled[cur])
      BY <1>2, <1>m, <3>2 DEF Inspect, TypeOK, Locked
    <3> QED
      BY <3>1, <3>2
  <2>3. Held'
    <3>1. cpc'[c] # "wait" /\ \A d \in Callers : d # c => cpc'[d] = cpc[d]
      BY <1>2 DEF Inspect, TypeOK
    <3>2. \A d \in Callers : d # c => cgen'[d] = cgen[d]
      BY <1>2 DEF Inspect, TypeOK
    <3> QED
      BY <1>2, <3>1, <3>2, HeldFrame DEF Inspect
  <2> QED
    BY <1>t, <2>1, <2>2, <2>3
<1>3. ASSUME NEW c \in Callers, Enqueue(c) PROVE Inv'
  <2>0. /\ cgen[c] \in Gen /\ cgen[c] = cur /\ ~cancelled[cur] /\ cur # 0
        /\ queue[cur] \in Seq(Req) /\ mu = c /\ ReqOf(c) \in Req
    <3>1. cgen[c] = cur /\ ~cancelled[cur] /\ cur # 0 /\ mu = c /\ cpc[c] # "idle"
      BY <1>3 DEF Enqueue, Locked
    <3>2. cur \in Gen
      BY <1>g, <3>1 DEF Gen
    <3> QED
      BY <3>1, <3>2, ReqType DEF TypeOK
  <2>1. Counted' /\ Superseded'
    BY <1>3 DEF Enqueue, TypeOK, Counted, Superseded
  <2>2. Locked'
    <3>1. cpc'[c] = "wait" /\ \A d \in Callers : d # c => cpc'[d] = cpc[d]
      BY <1>3 DEF Enqueue, TypeOK
    <3>2. mu' = "free" /\ cgen' = cgen /\ cur' = cur /\ cancelled' = cancelled /\ gens' = gens
      BY <1>3 DEF Enqueue
    <3>3. cgen[c] \in 1..gens
      BY <1>g, <2>0
    <3> QED
      BY <1>m, <2>0, <3>1, <3>2, <3>3 DEF Locked
  <2>3. Phases'
    BY <1>3, <2>0 DEF Enqueue, TypeOK, Phases
  <2>4. ASSUME NEW d \in Callers, cpc'[d] = "wait"
        PROVE  reply'[ReqOf(d)'] # "none" \/ Pending(ReqOf(d), cgen[d])'
    <3>1. queue' = [queue EXCEPT ![cur] = Append(@, ReqOf(c))]
      BY <1>3, <2>0 DEF Enqueue
    <3>2. /\ Len(queue'[cur]) = Len(queue[cur]) + 1
          /\ queue'[cur][Len(queue[cur]) + 1] = ReqOf(c)
          /\ \A i \in 1..Len(queue[cur]) : queue'[cur][i] = queue[cur][i]
      BY <2>0, <3>1 DEF TypeOK
    <3>3. ReqOf(d)' = ReqOf(d) /\ cgen'[d] = cgen[d] /\ reply' = reply /\ wreq' = wreq
      BY <1>3 DEF Enqueue, ReqOf
    <3>4. CASE d = c
      BY <2>0, <3>2, <3>3, <3>4 DEF Pending, TypeOK
    <3>5. CASE d # c
      <4>1. cpc[d] = "wait"
        BY <1>3, <2>4, <3>5 DEF Enqueue, TypeOK
      <4>2. CASE cgen[d] = cur
        <5>1. CASE \E i \in 1..Len(queue[cur]) : queue[cur][i] = ReqOf(d)
          <6>1. PICK i \in 1..Len(queue[cur]) : queue[cur][i] = ReqOf(d)
            BY <5>1
          <6>2. i \in 1..Len(queue'[cur]) /\ queue'[cur][i] = ReqOf(d)
            BY <2>0, <3>2, <6>1
          <6> QED
            BY <3>3, <4>2, <6>2 DEF Pending
        <5>2. CASE reply[ReqOf(d)] # "none" \/ wreq[cur] = ReqOf(d)
          BY <3>3, <4>2, <5>2 DEF Pending
        <5> QED
          BY <4>1, <4>2, <5>1, <5>2 DEF Held, Pending
      <4>3. CASE cgen[d] # cur
        <5>1. queue'[cgen[d]] = queue[cgen[d]]
          BY <3>1, <4>3, <4>1 DEF Locked, TypeOK
        <5> QED
          BY <3>3, <4>1, <5>1 DEF Held, Pending
      <4> QED
        BY <4>2, <4>3
    <3> QED
      BY <3>4, <3>5
  <2> QED
    BY <1>t, <2>1, <2>2, <2>3, <2>4 DEF Held
<1>f. ASSUME NEW c \in Callers, NEW err \in Returns, Finish(c, err),
             cpc[c] # "idle", UNCHANGED <<cur, gens, queue, cancelled, writerVars, reply,
                                ncall, cgen, mainVars>>,
             mu' = (IF cpc[c] = "send" THEN "free" ELSE mu)
      PROVE  Inv'
  <2>1. Counted'
    BY <1>f DEF Finish, TypeOK, Counted
  <2>0. /\ cpc'[c] \in {"lock", "idle"}
        /\ \A d \in Callers : d # c => cpc'[d] = cpc[d] /\ attempt'[d] = attempt[d]
    BY <1>f DEF Finish, TypeOK
  <2>2. Locked'
    BY <1>f, <1>m, <2>0 DEF Locked
  <2>3. Phases' /\ Superseded'
    BY <1>f DEF Phases, Superseded
  <2>4. Held'
    BY <1>f, <2>0, HeldFrame
  <2> QED
    BY <1>t, <2>1, <2>2, <2>3, <2>4
<1>4. ASSUME NEW c \in Callers, QueueFull(c) PROVE Inv'
  BY <1>4, <1>f DEF QueueFull, Returns
<1>5. ASSUME NEW c \in Callers, AwaitReply(c) PROVE Inv'
  <2>1. (IF reply[ReqOf(c)] # "none" THEN reply[ReqOf(c)] ELSE "stopped") \in Returns
    BY <1>5, ReqType DEF AwaitReply, TypeOK, Returns
  <2> QED
    BY <1>5, <1>f, <2>1 DEF AwaitReply
<1>6. ASSUME NEW c \in Callers, RunInline(c) PROVE Inv'
  BY <1>6, <1>f DEF RunInline, Returns
<1>7. ASSUME NEW g \in Gen, Receive(g) PROVE Inv'
  <2>1. Counted' /\ Locked' /\ Superseded'
    BY <1>7 DEF Receive, Counted, Locked, Superseded
  <2>2. queue[g] \in Seq(Req) /\ queue[g] # <<>> /\ Head(queue[g]) \in Req
    BY <1>7 DEF Receive, TypeOK
  <2>3. Phases'
    <3>1. /\ wreq'[g] # NoReq /\ wpc'[g] = IF wpc[g] = "select" THEN "apply" ELSE "drainApply"
          /\ wpc[g] # "unborn" /\ ~closed[g]
      BY <1>7, <2>2, NoReqType DEF Receive, TypeOK, Phases
    <3>2. /\ wpc[g] = "drain" => cancelled[g]
          /\ g <= gens
      BY <1>7, <1>g DEF Receive, Phases, Gen
    <3>3. \A h \in Gen : h # g => wpc'[h] = wpc[h] /\ queue'[h] = queue[h] /\ wreq'[h] = wreq[h]
      BY <1>7 DEF Receive, TypeOK
    <3>4. closed' = closed /\ cancelled' = cancelled /\ gens' = gens /\ wpc[g] \in {"select", "drain"}
      BY <1>7 DEF Receive
    <3> QED
      BY <1>g, <3>1, <3>2, <3>3, <3>4 DEF Phases, Gen
  <2>4. ASSUME NEW d \in Callers, cpc'[d] = "wait"
        PROVE  reply'[ReqOf(d)'] # "none" \/ Pending(ReqOf(d), cgen[d])'
    <3>1. /\ cpc[d] = "wait" /\ ReqOf(d)' = ReqOf(d) /\ cgen'[d] = cgen[d]
          /\ reply' = reply /\ cgen[d] \in Gen
      BY <1>7, <1>h, <2>4 DEF Receive, ReqOf, Locked
    <3>2. CASE cgen[d] = g
      <4>1. wreq[g] = NoReq
        BY <1>7 DEF Receive, Phases
      <4>2. ReqOf(d) # NoReq
        BY <3>1, ReqType, NoReqType
      <4>3. wreq'[g] = queue[g][1] /\ queue'[g] = Tail(queue[g])
        BY <1>7, <2>2 DEF Receive, TypeOK
      <4>4. \A i \in 2..Len(queue[g]) :
              i - 1 \in 1..Len(queue'[g]) /\ queue'[g][i - 1] = queue[g][i]
        BY <2>2, <4>3
      <4>5. CASE reply[ReqOf(d)] # "none"
        BY <3>1, <4>5
      <4>6. ASSUME NEW i \in 1..Len(queue[g]), queue[g][i] = ReqOf(d)
            PROVE  Pending(ReqOf(d), g)'
        <5>1. CASE i = 1
          BY <3>1, <4>3, <4>6, <5>1 DEF Pending
        <5>2. CASE i \in 2..Len(queue[g])
          BY <3>1, <4>4, <4>6, <5>2 DEF Pending
        <5> QED
          BY <5>1, <5>2, <2>2
      <4> QED
        BY <3>1, <3>2, <4>1, <4>2, <4>5, <4>6 DEF Held, Pending
    <3>3. CASE cgen[d] # g
      <4>1. queue'[cgen[d]] = queue[cgen[d]] /\ wreq'[cgen[d]] = wreq[cgen[d]]
        BY <1>7, <3>1, <3>3 DEF Receive, TypeOK
      <4> QED
        BY <3>1, <4>1 DEF Held, Pending
    <3> QED
      BY <3>2, <3>3
  <2> QED
    BY <1>t, <2>1, <2>3, <2>4 DEF Held
<1>8. ASSUME NEW g \in Gen, Apply(g) PROVE Inv'
  <2>1. Counted' /\ Locked' /\ Superseded'
    BY <1>8 DEF Apply, Counted, Locked, Superseded
  <2>2. Phases'
    BY <1>8 DEF Apply, TypeOK, Phases
  <2>3. Held'
    <3>1. PICK out \in Outcome : reply' = [reply EXCEPT ![wreq[g]] = out]
      BY <1>8 DEF Apply
    <3>2. ASSUME NEW d \in Callers, cpc[d] = "wait"
          PROVE  reply'[ReqOf(d)] # "none" \/ Pending(ReqOf(d), cgen[d])'
      <4>1. ReqOf(d) \in Req /\ cgen[d] \in Gen
        BY <1>h, <3>2, ReqType DEF Locked
      <4>2. CASE ReqOf(d) = wreq[g]
        BY <3>1, <4>1, <4>2 DEF TypeOK, Outcome
      <4>3. CASE ReqOf(d) # wreq[g]
        <5>1. reply'[ReqOf(d)] = reply[ReqOf(d)] /\ queue' = queue
          BY <1>8, <3>1, <4>1, <4>3 DEF Apply, TypeOK
        <5>2. wreq[cgen[d]] = ReqOf(d) => wreq'[cgen[d]] = ReqOf(d)
          BY <1>8, <4>1, <4>3 DEF Apply, TypeOK
        <5>3. ReqOf(d)' = ReqOf(d) /\ cgen' = cgen
          BY <1>8 DEF Apply, ReqOf
        <5> QED
          BY <3>2, <5>1, <5>2, <5>3 DEF Held, Pending
      <4> QED
        BY <4>2, <4>3
    <3> QED
      BY <1>8, <3>2 DEF Apply, Held, ReqOf, Pending
  <2> QED
    BY <1>t, <2>1, <2>2, <2>3
<1>9. ASSUME NEW g \in Gen, SeeCancel(g) \/ DrainEmpty(g) \/ CloseDone(g)
      PROVE  Inv'
  <2>1. Counted' /\ Locked' /\ Superseded'
    <3>1. Counted' /\ Locked'
      BY <1>9 DEF SeeCancel, DrainEmpty, CloseDone, Counted, Locked
    <3>2. Superseded'
      <4>1. \A x \in Gen : closed[x] => closed'[x]
        BY <1>9 DEF SeeCancel, DrainEmpty, CloseDone, TypeOK
      <4> QED
        BY <1>9, <1>h, <4>1 DEF SeeCancel, DrainEmpty, CloseDone, Superseded
    <3> QED
      BY <3>1, <3>2
  <2>2. Phases'
    BY <1>9 DEF SeeCancel, DrainEmpty, CloseDone, TypeOK, Phases
  <2>3. Held'
    BY <1>9 DEF SeeCancel, DrainEmpty, CloseDone, Held, ReqOf, Pending
  <2> QED
    BY <1>t, <2>1, <2>2, <2>3
<1>10. CASE StartTrafficWriter
  <2>1. Counted' /\ Locked' /\ Superseded'
    <3>1. Counted'
      BY <1>10 DEF StartTrafficWriter, Counted
    <3>2. Locked'
      BY <1>10, <1>g, <1>m DEF StartTrafficWriter, Locked
    <3>3. Superseded'
      BY <1>10, <1>g DEF StartTrafficWriter, Superseded
    <3> QED
      BY <3>1, <3>2, <3>3
  <2>2. Phases'
    <3>1. gens + 1 \in Gen
      BY <1>10, <1>g DEF StartTrafficWriter, Gen
    <3>2. wpc[gens + 1] = "unborn" /\ wpc'[gens + 1] = "select"
      BY <1>10, <1>g, <3>1 DEF StartTrafficWriter, Phases, TypeOK
    <3>3. \A h \in Gen : h # gens + 1 => wpc'[h] = wpc[h]
      BY <1>10 DEF StartTrafficWriter, TypeOK
    <3> QED
      BY <1>10, <1>g, <3>1, <3>2, <3>3 DEF StartTrafficWriter, Phases, Gen
  <2>3. Held'
    BY <1>10 DEF StartTrafficWriter, Held, ReqOf, Pending
  <2> QED
    BY <1>t, <2>1, <2>2, <2>3
<1>11. CASE StopCancel
  <2>1. Counted' /\ Locked' /\ Superseded'
    <3>1. Counted' /\ Locked'
      BY <1>11, <1>m DEF StopCancel, Counted, Locked
    <3>2. Superseded'
      <4>1. cur \in Gen
        BY <1>11, <1>g DEF StopCancel, Gen
      <4>2. cancelled'[cur]
        BY <1>11, <4>1 DEF StopCancel, TypeOK
      <4> QED
        BY <1>11, <4>2 DEF StopCancel, Superseded
    <3> QED
      BY <3>1, <3>2
  <2>2. Phases'
    BY <1>11 DEF StopCancel, TypeOK, Phases
  <2>3. Held'
    BY <1>11 DEF StopCancel, Held, ReqOf, Pending
  <2> QED
    BY <1>t, <2>1, <2>2, <2>3
<1>12. CASE StopClear
  <2>1. Counted' /\ Locked' /\ Superseded'
    BY <1>12 DEF StopClear, TypeOK, Counted, Locked, Superseded
  <2>2. Phases'
    BY <1>12 DEF StopClear, TypeOK, Phases
  <2>3. Held'
    BY <1>12 DEF StopClear, Held, ReqOf, Pending
  <2> QED
    BY <1>t, <2>1, <2>2, <2>3
<1>13. CASE UNCHANGED vars
  BY <1>t, <1>13 DEF vars, Counted, Locked, Phases, Superseded, Held, Pending, ReqOf
<1> QED
  BY <1>1, <1>2, <1>3, <1>4, <1>5, <1>6, <1>7, <1>8, <1>9, <1>10, <1>11,
     <1>12, <1>13
  DEF Next, Caller, Writer, Main

\* The invariant holds throughout every behaviour of the writer.
THEOREM Invariance == Spec => []Inv
<1>1. Init => Inv
  BY InitInv
<1>2. Inv /\ [Next]_vars => Inv'
  BY InvStep
<1> QED
  BY <1>1, <1>2, PTL DEF Spec

\* The package state, the channels and the goroutines keep their shape.
THEOREM TypeCorrect == Spec => []TypeOK
<1>1. Inv => TypeOK
  BY DEF Inv
<1> QED
  BY <1>1, Invariance, PTL

\* No request that entered the channel is left without an answer when the
\* writer goes, whatever the moment of StopTrafficWriter.
THEOREM NoWriteAbandoned == Spec => []NoAbandonedWrite
<1>1. Inv => NoAbandonedWrite
  <2> SUFFICES ASSUME Inv, NEW c \in Callers, cpc[c] = "wait", closed[cgen[c]]
               PROVE  reply[ReqOf(c)] # "none"
    BY DEF NoAbandonedWrite
  <2>1. cgen[c] \in Gen
    BY WriterAssumption DEF Inv, Locked, TypeOK, Gen
  <2>2. queue[cgen[c]] = <<>> /\ wreq[cgen[c]] = NoReq
    BY <2>1 DEF Inv, Phases
  <2>3. ReqOf(c) # NoReq
    BY ReqType, NoReqType DEF Inv
  <2>4. ~Pending(ReqOf(c), cgen[c])
    BY <2>2, <2>3 DEF Pending
  <2> QED
    BY <2>4 DEF Inv, Held
<1> QED
  BY <1>1, Invariance, PTL

\* When StopTrafficWriter has returned, the generation it stopped is drained.
THEOREM StopHasDrained == Spec => []StopDrains
<1>1. Inv => StopDrains
  <2> SUFFICES ASSUME Inv, NEW g \in 1..gens, g # cur
               PROVE  queue[g] = <<>> /\ wreq[g] = NoReq
    BY DEF StopDrains
  <2>1. g \in Gen
    BY WriterAssumption DEF Inv, TypeOK, Gen
  <2>2. wpc[g] = "exit"
    BY <2>1 DEF Inv, Superseded, Phases
  <2> QED
    BY <2>1, <2>2 DEF Inv, Phases
<1> QED
  BY <1>1, Invariance, PTL

\* At most one writer goroutine applies requests, across restarts.
THEOREM SingleWriter == Spec => []OneWriter
<1>1. Inv => OneWriter
  <2> SUFFICES ASSUME Inv, NEW g \in Gen, wreq[g] # NoReq PROVE g = cur
    BY DEF OneWriter
  <2>1. wpc[g] # "exit" /\ wpc[g] # "unborn"
    BY DEF Inv, Phases
  <2>2. g \in 1..gens
    BY <2>1, WriterAssumption DEF Inv, Phases, TypeOK, Gen
  <2> QED
    BY <2>1, <2>2 DEF Inv, Superseded, Phases
<1> QED
  BY <1>1, Invariance, PTL

\* Only a send and a receive change a channel.
LEMMA QueueSteps ==
    Next => \/ queue' = queue
            \/ \E c \in Callers : Enqueue(c)
            \/ \E g \in Gen : Receive(g)
<1>1. ASSUME NEW c \in Callers, Caller(c) PROVE queue' = queue \/ Enqueue(c)
  BY <1>1 DEF Caller, Submit, Inspect, QueueFull, AwaitReply, RunInline
<1>2. ASSUME NEW g \in Gen, Writer(g) PROVE queue' = queue \/ Receive(g)
  BY <1>2 DEF Writer, Apply, SeeCancel, DrainEmpty, CloseDone
<1>3. Main => queue' = queue
  BY DEF Main, StartTrafficWriter, StopCancel, StopClear
<1> QED
  BY <1>1, <1>2, <1>3 DEF Next

\* Nothing is sent to a channel whose context is cancelled.
THEOREM CancelledIsClosedToSends == Spec => NoSendAfterCancel
<1>1. ASSUME Inv, [Next]_vars
      PROVE  [\A g \in Gen : cancelled[g] => Len(queue'[g]) <= Len(queue[g])]_vars
  <2> SUFFICES ASSUME Next, NEW g \in Gen, cancelled[g]
               PROVE  Len(queue'[g]) <= Len(queue[g])
    BY <1>1
  <2>0. queue[g] \in Seq(Req) /\ Len(queue[g]) \in Nat
    BY <1>1 DEF Inv, TypeOK
  <2>1. CASE queue' = queue
    BY <2>0, <2>1
  <2>2. ASSUME NEW c \in Callers, Enqueue(c) PROVE queue'[g] = queue[g]
    BY <1>1, <2>2 DEF Inv, Locked, TypeOK, Enqueue
  <2>3. ASSUME NEW h \in Gen, Receive(h) PROVE Len(queue'[g]) <= Len(queue[g])
    <3>1. CASE h = g
      BY <1>1, <2>0, <2>3, <3>1 DEF Inv, TypeOK, Receive
    <3>2. CASE h # g
      BY <1>1, <2>0, <2>3, <3>2 DEF Inv, TypeOK, Receive
    <3> QED
      BY <3>1, <3>2
  <2> QED
    BY <2>0, <2>1, <2>2, <2>3, QueueSteps
<1> QED
  BY <1>1, Invariance, PTL DEF Spec, NoSendAfterCancel

-----------------------------------------------------------------------------
\* Requests of different callers differ.
LEMMA ReqInjective ==
    ASSUME NEW c \in Callers, NEW d \in Callers, ReqOf(c) = ReqOf(d) PROVE c = d
BY DEF ReqOf

\* The counters of Once are numbers and its requests requests.
LEMMA Sorts ==
    ASSUME TypeOK
    PROVE  /\ \A c \in Callers : ncall[c] \in Nat /\ attempt[c] \in Nat
           /\ \A c \in Callers, n \in 1..MaxCalls : <<c, n>> \in Call
           /\ \A c \in Callers, n \in 1..MaxCalls, a \in 1..MaxAttempts :
                <<c, n, a>> \in Req
           /\ \A g \in Gen : queue[g] \in Seq(Req)
BY WriterAssumption DEF TypeOK, Call, Req

\* Appending a new request keeps the requests of a channel distinct.
LEMMA DistinctAppend ==
    ASSUME NEW q \in Seq(Req), NEW w, NEW r \in Req, Distinct(q, w), r # w,
           \A i \in 1..Len(q) : q[i] # r
    PROVE  Distinct(Append(q, r), w)
<1> DEFINE p == Append(q, r)
           m == Len(q)
<1>1. /\ m \in Nat /\ Len(p) = m + 1 /\ p[m + 1] = r
      /\ \A i \in 1..m : p[i] = q[i]
  OBVIOUS
<1>2. \A i \in 1..m : q[i] # w /\ \A j \in 1..m : i # j => q[i] # q[j]
  BY DEF Distinct
<1>3. \A i \in 1..m : q[i] # r
  OBVIOUS
<1>4. \A i \in 1..(m + 1) : i \in 1..m \/ i = m + 1
  BY <1>1
<1> HIDE DEF p, m
<1>5. \A i \in 1..(m + 1) : p[i] # w
  BY <1>1, <1>2, <1>4
<1>6. \A i, j \in 1..(m + 1) : i # j => p[i] # p[j]
  BY <1>1, <1>2, <1>3, <1>4
<1>7. Distinct(p, w)
  BY <1>1, <1>5, <1>6 DEF Distinct
<1> QED
  BY <1>7 DEF p

\* Taking the head of a channel keeps its requests distinct.
LEMMA DistinctTail ==
    ASSUME NEW q \in Seq(Req), NEW w, Distinct(q, w), q # <<>>
    PROVE  Distinct(Tail(q), Head(q))
<1> DEFINE p == Tail(q)
           m == Len(q)
<1>1. /\ m \in Nat /\ m >= 1 /\ Len(p) = m - 1 /\ Head(q) = q[1]
      /\ \A i \in 1..(m - 1) : p[i] = q[i + 1]
  OBVIOUS
<1>2. \A i \in 1..m : \A j \in 1..m : i # j => q[i] # q[j]
  BY DEF Distinct
<1>3. \A i \in 1..(m - 1) : i + 1 \in 1..m /\ i + 1 # 1
  BY <1>1
<1>4. 1 \in 1..m
  BY <1>1
<1> HIDE DEF p, m
<1>5. \A i \in 1..(m - 1) : p[i] # q[1]
  BY <1>1, <1>2, <1>3, <1>4
<1>6. \A i, j \in 1..(m - 1) : i # j => p[i] # p[j]
  <2> SUFFICES ASSUME NEW i \in 1..(m - 1), NEW j \in 1..(m - 1), i # j
               PROVE  p[i] # p[j]
    OBVIOUS
  <2>1. i + 1 \in 1..m /\ j + 1 \in 1..m /\ i + 1 # j + 1
    BY <1>1
  <2> QED
    BY <1>1, <1>2, <2>1
<1>7. Distinct(p, q[1])
  BY <1>1, <1>5, <1>6 DEF Distinct
<1> QED
  BY <1>1, <1>7 DEF p

\* Init establishes the second layer.
LEMMA InitOnce == Init => Once
<1> SUFFICES ASSUME Init PROVE Once
  OBVIOUS
<1>1. PendingOnce
  BY DEF Init, PendingOnce, Distinct
<1>2. Fresh
  BY DEF Init, Fresh, Req
<1>3. Account
  BY DEF Init, Account, AccountOf, Call
<1> QED
  BY <1>1, <1>2, <1>3 DEF Once

\* A step of a caller that is not waiting keeps the pending requests awaited.
LEMMA PendingFrame ==
    ASSUME TypeOK, PendingOnce, UNCHANGED <<queue, wreq, reply>>,
           \A d \in Callers : cpc[d] = "wait" /\ reply[ReqOf(d)] = "none" =>
               /\ cpc'[d] = "wait" /\ ncall'[d] = ncall[d]
               /\ attempt'[d] = attempt[d] /\ cgen'[d] = cgen[d]
    PROVE  PendingOnce'
<1>1. ASSUME NEW r, NEW g \in Gen, Awaited(r, g) PROVE Awaited(r, g)'
  <2>1. PICK d \in Callers : /\ cpc[d] = "wait" /\ cgen[d] = g
                             /\ r = ReqOf(d) /\ reply[r] = "none"
    BY <1>1 DEF Awaited
  <2>2. ReqOf(d)' = ReqOf(d) /\ cpc'[d] = "wait" /\ cgen'[d] = g
    BY <2>1 DEF ReqOf
  <2> QED
    BY <2>1, <2>2 DEF Awaited
<1> QED
  BY <1>1 DEF PendingOnce

\* Every step keeps the second layer.
LEMMA OnceStep == Inv /\ Once /\ [Next]_vars => Once'
<1> SUFFICES ASSUME Inv, Once, [Next]_vars PROVE Once'
  OBVIOUS
<1> USE DEF Inv, Once
<1>s. /\ TypeOK
      /\ \A c \in Callers : ncall[c] \in Nat /\ attempt[c] \in Nat
      /\ \A c \in Callers, n \in 1..MaxCalls : <<c, n>> \in Call
      /\ \A c \in Callers, n \in 1..MaxCalls, a \in 1..MaxAttempts :
                <<c, n, a>> \in Req
      /\ \A g \in Gen : queue[g] \in Seq(Req)
  BY Sorts
<1>1. ASSUME NEW c \in Callers, Submit(c) PROVE Once'
  <2>1. /\ cpc[c] = "idle" /\ cpc'[c] = "lock"
        /\ ncall'[c] = ncall[c] + 1 /\ attempt'[c] = 1
        /\ \A d \in Callers : d # c => /\ cpc'[d] = cpc[d] /\ ncall'[d] = ncall[d]
                                      /\ attempt'[d] = attempt[d]
        /\ UNCHANGED <<queue, wreq, reply, cgen, commits, result>>
    BY <1>1 DEF Submit, TypeOK, writerVars
  <2>2. PendingOnce'
    BY <2>1, PendingFrame
  <2>3. Fresh'
    BY <1>s, <2>1 DEF Fresh
  <2>4. Account'
    <3>1. \A n \in 1..MaxCalls :
            /\ n < ncall[c] + 1 => n < ncall[c] \/ n = ncall[c]
            /\ n >= ncall[c] + 1 => n > ncall[c]
      BY <1>s
    <3>2. \A n \in 1..MaxCalls : n > ncall'[c] => n > ncall[c]
      BY <1>s, <2>1
    <3> SUFFICES ASSUME NEW d \in Callers, NEW n \in 1..MaxCalls
                 PROVE  AccountOf(d, n)'
      BY DEF Account
    <3>3. AccountOf(d, n)
      BY DEF Account
    <3>4. CASE d = c
      BY <2>1, <3>1, <3>2, <3>3, <3>4 DEF AccountOf
    <3>5. CASE d # c
      BY <2>1, <3>3, <3>5 DEF AccountOf
    <3> QED
      BY <3>4, <3>5
  <2> QED
    BY <2>2, <2>3, <2>4
<1>2. ASSUME NEW c \in Callers, Inspect(c) PROVE Once'
  <2>1. /\ cpc[c] = "lock" /\ cpc'[c] \in {"inline", "send"}
        /\ \A d \in Callers : d # c => cpc'[d] = cpc[d] /\ cgen'[d] = cgen[d]
    BY <1>2 DEF Inspect, TypeOK
  <2>2. UNCHANGED <<queue, wreq, reply, ncall, attempt, commits, result>>
    BY <1>2 DEF Inspect, writerVars
  <2>3. PendingOnce'
    BY <2>1, <2>2, PendingFrame
  <2>4. Fresh' /\ Account'
    BY <2>1, <2>2 DEF Fresh, Account, AccountOf
  <2> QED
    BY <2>3, <2>4
<1>3. ASSUME NEW c \in Callers, Enqueue(c) PROVE Once'
  <2> DEFINE h == cgen[c]
  <2>1. /\ cpc[c] = "send" /\ cpc'[c] = "wait"
        /\ \A d \in Callers : d # c => cpc'[d] = cpc[d]
        /\ UNCHANGED <<wreq, reply, ncall, attempt, cgen, commits, result>>
        /\ queue' = [queue EXCEPT ![h] = Append(@, ReqOf(c))]
    BY <1>3 DEF Enqueue, TypeOK, writerVars
  <2>2. h \in Gen /\ ReqOf(c) \in Req /\ reply[ReqOf(c)] = "none"
    <3>1. h = cur /\ cur # 0
      BY <2>1 DEF Locked
    <3>2. h \in Gen
      BY <3>1, WriterAssumption DEF TypeOK, Gen
    <3>3. ncall[c] \in 1..MaxCalls /\ attempt[c] \in 1..MaxAttempts
      BY <2>1, WriterAssumption DEF TypeOK, Counted
    <3>4. reply[<<c, ncall[c], attempt[c]>>] = "none"
      BY <2>1, <3>3 DEF Fresh
    <3> QED
      BY <1>s, <3>2, <3>3, <3>4 DEF ReqOf
  <2>3. Fresh'
    BY <2>1 DEF Fresh
  <2>4. Account'
    <3>1. \A d \in Callers, n \in 1..MaxCalls :
            n = ncall[d] /\ d = c => commits[<<d, n>>] = 0 /\ result[<<d, n>>] = "none"
                                     /\ reply[<<d, n, attempt[d]>>] = "none"
      BY <2>1, <2>2 DEF Account, AccountOf, ReqOf
    <3> SUFFICES ASSUME NEW d \in Callers, NEW n \in 1..MaxCalls
                 PROVE  AccountOf(d, n)'
      BY DEF Account
    <3>2. AccountOf(d, n)
      BY DEF Account
    <3>3. CASE d = c
      BY <2>1, <3>1, <3>2, <3>3 DEF AccountOf
    <3>4. CASE d # c
      BY <2>1, <3>2, <3>4 DEF AccountOf
    <3> QED
      BY <3>3, <3>4
  <2>5. PendingOnce'
    <3>1. ASSUME NEW r, NEW g \in Gen, Awaited(r, g) PROVE Awaited(r, g)' /\ r # ReqOf(c)
      <4>1. PICK d \in Callers : /\ cpc[d] = "wait" /\ cgen[d] = g
                                 /\ r = ReqOf(d) /\ reply[r] = "none"
        BY <3>1 DEF Awaited
      <4>2. d # c /\ ReqOf(d)' = ReqOf(d)
        BY <2>1, <4>1 DEF ReqOf
      <4> QED
        BY <2>1, <4>1, <4>2, ReqInjective DEF Awaited
    <3>2. Awaited(ReqOf(c), h)'
      BY <2>1, <2>2 DEF Awaited, ReqOf
    <3>3. ReqOf(c)' = ReqOf(c) /\ ReqOf(c) # NoReq
      BY <2>1, <2>2, NoReqType DEF ReqOf
    <3>4. ASSUME NEW g \in Gen
          PROVE  /\ wreq'[g] # NoReq => Awaited(wreq[g], g)'
                 /\ \A i \in 1..Len(queue'[g]) : Awaited(queue[g][i], g)'
                 /\ Distinct(queue'[g], wreq'[g])
      <4>1. wreq'[g] # NoReq => Awaited(wreq[g], g)'
        BY <2>1, <3>1 DEF PendingOnce, Awaited
      <4>2. CASE g # h
        <5>1. queue'[g] = queue[g]
          BY <2>1, <4>2 DEF TypeOK
        <5>2. ASSUME NEW i \in 1..Len(queue'[g]) PROVE Awaited(queue[g][i], g)'
          <6>1. Awaited(queue[g][i], g)
            BY <5>1, <5>2 DEF PendingOnce
          <6> QED
            BY <3>1, <5>1, <6>1 DEF Awaited
        <5>3. Distinct(queue'[g], wreq'[g])
          BY <2>1, <5>1 DEF PendingOnce
        <5> QED
          BY <4>1, <5>2, <5>3
      <4>3. CASE g = h
        <5>1. \A i \in 1..Len(queue[h]) : Awaited(queue[h][i], h) /\ queue[h][i] # ReqOf(c)
          BY <2>2, <3>1 DEF PendingOnce
        <5>2. queue'[h] = Append(queue[h], ReqOf(c))
          BY <2>1, <2>2 DEF TypeOK
        <5>3. ASSUME NEW i \in 1..Len(queue'[h]) PROVE Awaited(queue[h][i], h)'
          <6>1. CASE i \in 1..Len(queue[h])
            <7>1. queue'[h][i] = queue[h][i] /\ h' = h
              BY <1>s, <2>1, <2>2, <5>2, <6>1
            <7>2. PICK r : r = queue[h][i]
              OBVIOUS
            <7>3. Awaited(r, h)
              BY <5>1, <6>1, <7>2
            <7>4. Awaited(r, h)'
              BY <2>2, <3>1, <7>1, <7>3
            <7> QED
              BY <7>1, <7>2, <7>4
          <6>2. CASE i = Len(queue[h]) + 1
            <7>1. queue'[h][i] = ReqOf(c) /\ h' = h
              BY <1>s, <2>1, <2>2, <5>2, <6>2
            <7> QED
              BY <3>2, <3>3, <7>1 DEF Awaited
          <6> QED
            BY <1>s, <2>2, <5>2, <6>1, <6>2
        <5>4. wreq[h] # ReqOf(c)
          BY <2>2, <3>1, <3>3 DEF PendingOnce
        <5>5. Distinct(queue[h], wreq[h])
          BY <2>2 DEF PendingOnce
        <5>6. Distinct(queue'[h], wreq[h])
          BY <1>s, <2>2, <5>1, <5>2, <5>4, <5>5, DistinctAppend
        <5>7. wreq'[h] = wreq[h] /\ h' = h
          BY <2>1
        <5> QED
          BY <4>1, <4>3, <5>3, <5>6, <5>7
      <4> QED
        BY <4>2, <4>3
    <3> QED
      BY <3>4 DEF PendingOnce, Awaited
  <2> QED
    BY <2>3, <2>4, <2>5
<1>f. ASSUME NEW c \in Callers, NEW err, NEW up \in {0, 1}, Finish(c, err),
             cpc[c] # "idle",
             UNCHANGED <<queue, wreq, reply, ncall, cgen>>,
             commits' = [commits EXCEPT ![CallOf(c)] = @ + up],
             commits'[CallOf(c)] = (IF err = "ok" THEN 1 ELSE 0),
             cpc[c] = "wait" => reply[ReqOf(c)] # "none",
             err # "none"
      PROVE  Once'
  <2>1. /\ ncall[c] \in 1..MaxCalls /\ attempt[c] \in 1..MaxAttempts
        /\ CallOf(c) \in Call
    BY <1>f, ReqType, WriterAssumption DEF TypeOK, Counted
  <2>2. /\ \A d \in Callers : d # c => cpc'[d] = cpc[d] /\ attempt'[d] = attempt[d]
        /\ \/ err = "deadlock" /\ cpc'[c] = "lock" /\ result' = result
              /\ attempt'[c] = attempt[c] + 1
           \/ cpc'[c] = "idle" /\ result' = [result EXCEPT ![CallOf(c)] = err]
              /\ attempt'[c] = attempt[c]
    BY <1>f DEF Finish, TypeOK
  <2>3. PendingOnce'
    <3>1. ASSUME NEW d \in Callers, cpc[d] = "wait", reply[ReqOf(d)] = "none"
          PROVE  cpc'[d] = "wait" /\ attempt'[d] = attempt[d]
      BY <1>f, <2>2, <3>1
    <3> QED
      BY <1>f, <3>1, PendingFrame
  <2>4. Fresh'
    <3> SUFFICES ASSUME NEW d \in Callers, NEW n \in 1..MaxCalls, NEW a \in 1..MaxAttempts,
                        \/ n > ncall'[d]
                        \/ n = ncall'[d] /\ a > attempt'[d]
                        \/ n = ncall'[d] /\ a = attempt'[d]
                             /\ cpc'[d] \in {"lock", "send", "inline"}
                 PROVE  reply[<<d, n, a>>] = "none"
      BY <1>f DEF Fresh
    <3>1. CASE d # c
      BY <1>f, <2>2, <3>1 DEF Fresh
    <3>2. CASE d = c
      <4>1. n > ncall[d] \/ (n = ncall[d] /\ a > attempt[d])
        BY <1>f, <1>s, <2>2, <3>2
      <4> QED
        BY <4>1 DEF Fresh
    <3> QED
      BY <3>1, <3>2
  <2>5. Account'
    <3> SUFFICES ASSUME NEW d \in Callers, NEW n \in 1..MaxCalls
                 PROVE  AccountOf(d, n)'
      BY DEF Account
    <3>1. AccountOf(d, n) /\ <<d, n>> \in Call
      BY <1>s DEF Account
    <3>2. CASE d = c /\ n = ncall[c]
      <4>1. CallOf(c) = <<d, n>>
        BY <3>2 DEF CallOf
      <4>2. commits'[<<d, n>>] = (IF err = "ok" THEN 1 ELSE 0) /\ ncall' = ncall
        BY <1>f, <4>1
      <4>3. CASE err = "deadlock" /\ cpc'[c] = "lock" /\ result' = result
        BY <1>f, <3>1, <3>2, <4>2, <4>3 DEF AccountOf
      <4>4. CASE cpc'[c] = "idle" /\ result' = [result EXCEPT ![CallOf(c)] = err]
        <5>1. result'[<<d, n>>] = err
          BY <3>1, <4>1, <4>4 DEF TypeOK
        <5> QED
          BY <1>s, <3>2, <4>2, <4>4, <5>1 DEF AccountOf
      <4> QED
        BY <2>2, <4>3, <4>4
    <3>3. CASE ~(d = c /\ n = ncall[c])
      <4>1. CallOf(c) # <<d, n>>
        BY <3>3 DEF CallOf
      <4>2. commits'[<<d, n>>] = commits[<<d, n>>] /\ result'[<<d, n>>] = result[<<d, n>>]
        BY <1>f, <2>2, <3>1, <4>1 DEF TypeOK
      <4>3. ncall' = ncall /\ reply' = reply
        BY <1>f
      <4>4. CASE d = c
        BY <3>1, <3>3, <4>2, <4>3, <4>4 DEF AccountOf
      <4>5. CASE d # c
        BY <2>2, <3>1, <4>2, <4>3, <4>5 DEF AccountOf
      <4> QED
        BY <4>4, <4>5
    <3> QED
      BY <3>2, <3>3
  <2> QED
    BY <2>3, <2>4, <2>5
<1>e. ASSUME NEW c \in Callers, cpc[c] # "idle"
      PROVE  /\ CallOf(c) \in Call /\ ReqOf(c) \in Req /\ commits[CallOf(c)] \in Nat
             /\ cpc[c] \in {"lock", "send", "inline"} => commits[CallOf(c)] = 0
             /\ cpc[c] = "wait" => commits[CallOf(c)] = (IF reply[ReqOf(c)] = "ok" THEN 1 ELSE 0)
             /\ commits = [commits EXCEPT ![CallOf(c)] = @ + 0]
  <2>1. ncall[c] \in 1..MaxCalls
    BY <1>e, WriterAssumption DEF TypeOK, Counted
  <2>2. AccountOf(c, ncall[c])
    BY <2>1 DEF Account
  <2>3. CallOf(c) \in Call /\ ReqOf(c) \in Req
    BY <1>e, ReqType
  <2>4. commits[CallOf(c)] \in Nat
    BY <2>3 DEF TypeOK
  <2>5. commits = [commits EXCEPT ![CallOf(c)] = @ + 0]
    BY <2>3, <2>4 DEF TypeOK
  <2> QED
    BY <2>2, <2>3, <2>4, <2>5 DEF AccountOf, CallOf, ReqOf
<1>4. ASSUME NEW c \in Callers, QueueFull(c) PROVE Once'
  <2>1. /\ cpc[c] = "send" /\ Finish(c, "full")
        /\ UNCHANGED <<queue, wreq, reply, ncall, cgen, commits>>
    BY <1>4 DEF QueueFull, writerVars
  <2> QED
    BY <1>e, <1>f, <2>1
<1>5. ASSUME NEW c \in Callers, AwaitReply(c) PROVE Once'
  <2>1. /\ cpc[c] = "wait"
        /\ UNCHANGED <<queue, wreq, reply, ncall, cgen, commits>>
    BY <1>5 DEF AwaitReply, writerVars
  <2>2. reply[ReqOf(c)] # "none"
    <3>1. closed[cgen[c]] => ~Pending(ReqOf(c), cgen[c])
      <4>1. cgen[c] \in Gen
        BY <2>1, WriterAssumption DEF Locked, TypeOK, Gen
      <4>2. ReqOf(c) # NoReq
        BY <2>1, ReqType, NoReqType
      <4> QED
        BY <4>1, <4>2 DEF Phases, Pending
    <3> QED
      BY <1>5, <2>1, <3>1 DEF AwaitReply, Held
  <2>3. Finish(c, reply[ReqOf(c)])
    BY <1>5, <2>2 DEF AwaitReply
  <2> QED
    BY <1>e, <1>f, <2>1, <2>2, <2>3
<1>6. ASSUME NEW c \in Callers, RunInline(c) PROVE Once'
  <2>1. PICK out \in Outcome :
          /\ commits' = IF out = "ok" THEN [commits EXCEPT ![CallOf(c)] = @ + 1]
                                      ELSE commits
          /\ Finish(c, out)
    BY <1>6 DEF RunInline
  <2>2. cpc[c] = "inline" /\ UNCHANGED <<queue, wreq, reply, ncall, cgen>>
    BY <1>6 DEF RunInline, writerVars
  <2>3. CASE out = "ok"
    <3>1. commits'[CallOf(c)] = 1
      BY <1>e, <2>1, <2>2, <2>3 DEF TypeOK
    <3> QED
      BY <1>f, <2>1, <2>2, <2>3, <3>1
  <2>4. CASE out # "ok"
    BY <1>e, <1>f, <2>1, <2>2, <2>4 DEF Outcome
  <2> QED
    BY <2>3, <2>4
<1>7. ASSUME NEW g \in Gen, Receive(g) PROVE Once'
  <2>1. /\ wreq' = [wreq EXCEPT ![g] = Head(queue[g])]
        /\ queue' = [queue EXCEPT ![g] = Tail(@)] /\ queue[g] # <<>>
        /\ UNCHANGED <<reply, cpc, ncall, attempt, cgen, commits, result>>
    BY <1>7 DEF Receive, callerVars
  <2>2. Fresh' /\ Account'
    BY <2>1 DEF Fresh, Account, AccountOf
  <2>3. \A r, x : Awaited(r, x)' <=> Awaited(r, x)
    BY <2>1 DEF Awaited, ReqOf
  <2>4. /\ wreq'[g] = queue[g][1] /\ queue'[g] = Tail(queue[g]) /\ 1 \in 1..Len(queue[g])
        /\ \A i \in 1..Len(queue'[g]) :
             queue'[g][i] = queue[g][i + 1] /\ i + 1 \in 1..Len(queue[g])
    BY <1>s, <2>1 DEF TypeOK
  <2>5. Distinct(queue'[g], wreq'[g])
    BY <1>s, <2>1, <2>4, DistinctTail DEF PendingOnce, TypeOK
  <2>6. \A x \in Gen : x # g => queue'[x] = queue[x] /\ wreq'[x] = wreq[x]
    BY <2>1 DEF TypeOK
  <2>7. PendingOnce'
    <3>1. ASSUME NEW x \in Gen
          PROVE  /\ wreq'[x] # NoReq => Awaited(wreq'[x], x)
                 /\ \A i \in 1..Len(queue'[x]) : Awaited(queue'[x][i], x)
                 /\ Distinct(queue'[x], wreq'[x])
      <4>1. CASE x = g
        BY <2>4, <2>5, <4>1 DEF PendingOnce
      <4>2. CASE x # g
        BY <2>6, <4>2 DEF PendingOnce
      <4> QED
        BY <4>1, <4>2
    <3>2. ASSUME NEW x \in Gen, NEW r, Awaited(r, x) PROVE Awaited(r, x)'
      BY <2>3, <3>2
    <3>3. ASSUME NEW x \in Gen, wreq'[x] # NoReq PROVE Awaited(wreq[x], x)'
      <4>1. PICK r : r = wreq'[x] /\ Awaited(r, x)
        BY <3>1, <3>3
      <4>2. Awaited(r, x)'
        BY <3>2, <4>1
      <4> QED
        BY <4>1, <4>2
    <3>4. ASSUME NEW x \in Gen, NEW i \in 1..Len(queue'[x]) PROVE Awaited(queue[x][i], x)'
      <4>1. PICK r : r = queue'[x][i] /\ Awaited(r, x)
        BY <3>1, <3>4
      <4>2. Awaited(r, x)'
        BY <3>2, <4>1
      <4> QED
        BY <4>1, <4>2
    <3> QED
      BY <3>1, <3>3, <3>4 DEF PendingOnce
  <2> QED
    BY <2>2, <2>7
<1>8. ASSUME NEW g \in Gen, Apply(g) PROVE Once'
  <2>1. PICK out \in Outcome :
          /\ reply' = [reply EXCEPT ![wreq[g]] = out]
          /\ commits' = IF out = "ok"
                          THEN [commits EXCEPT ![<<wreq[g][1], wreq[g][2]>>] = @ + 1]
                          ELSE commits
    BY <1>8 DEF Apply
  <2>2. wreq[g] \in Req /\ wreq[g] # NoReq
    BY <1>8, WriterReq, NoReqType DEF Apply
  <2>3. PICK c \in Callers : /\ cpc[c] = "wait" /\ cgen[c] = g
                             /\ wreq[g] = ReqOf(c) /\ reply[wreq[g]] = "none"
    BY <2>2 DEF PendingOnce, Awaited
  <2>4. /\ wreq' = [wreq EXCEPT ![g] = NoReq]
        /\ UNCHANGED <<queue, cpc, ncall, attempt, cgen, result>>
    BY <1>8 DEF Apply, callerVars
  <2>5. <<wreq[g][1], wreq[g][2]>> = CallOf(c) /\ CallOf(c) \in Call
    <3>1. CallOf(c) \in Call
      BY <1>e, <2>3
    <3>2. wreq[g] = <<c, ncall[c], attempt[c]>>
      BY <2>3 DEF ReqOf
    <3> QED
      BY <3>1, <3>2 DEF CallOf
  <2>6. \A r \in Req : r # ReqOf(c) => reply'[r] = reply[r]
    BY <2>1, <2>3 DEF TypeOK
  <2>7. reply'[ReqOf(c)] = out
    BY <2>1, <2>2, <2>3 DEF TypeOK
  <2>8. Fresh'
    <3>1. ASSUME NEW d \in Callers, NEW n \in 1..MaxCalls, NEW a \in 1..MaxAttempts,
                        \/ n > ncall[d]
                        \/ n = ncall[d] /\ a > attempt[d]
                        \/ n = ncall[d] /\ a = attempt[d]
                             /\ cpc[d] \in {"lock", "send", "inline"}
          PROVE  reply'[<<d, n, a>>] = "none"
      <4>1. <<d, n, a>> # ReqOf(c)
        BY <1>s, <2>3, <3>1 DEF ReqOf
      <4> QED
        BY <1>s, <2>6, <3>1, <4>1 DEF Fresh
    <3> QED
      BY <2>4, <3>1 DEF Fresh
  <2>9. Account'
    <3> SUFFICES ASSUME NEW d \in Callers, NEW n \in 1..MaxCalls
                 PROVE  AccountOf(d, n)'
      BY DEF Account
    <3>1. AccountOf(d, n) /\ <<d, n>> \in Call
      BY <1>s DEF Account
    <3>2. CASE d = c /\ n = ncall[c]
      <4>1. CallOf(c) = <<d, n>> /\ ReqOf(c) = <<d, n, attempt[d]>>
        BY <3>2 DEF CallOf, ReqOf
      <4>2. commits[<<d, n>>] = 0
        BY <2>3, <3>1, <3>2, <4>1 DEF AccountOf
      <4>3. commits'[<<d, n>>] = (IF out = "ok" THEN 1 ELSE 0)
        <5>1. commits' = IF out = "ok" THEN [commits EXCEPT ![<<d, n>>] = @ + 1] ELSE commits
          BY <2>1, <2>5, <4>1
        <5> QED
          BY <3>1, <4>2, <5>1 DEF TypeOK
      <4>4. reply'[<<d, n, attempt'[d]>>] = out
        BY <2>4, <2>7, <4>1
      <4> QED
        BY <1>s, <2>3, <2>4, <3>1, <3>2, <4>3, <4>4 DEF AccountOf
    <3>3. CASE ~(d = c /\ n = ncall[c])
      <4>1. CallOf(c) # <<d, n>> /\ ReqOf(c) # <<d, n, attempt[d]>>
        BY <3>3 DEF CallOf, ReqOf
      <4>2. commits'[<<d, n>>] = commits[<<d, n>>]
        BY <2>1, <2>5, <3>1, <4>1 DEF TypeOK
      <4>3. CASE n = ncall[d] /\ cpc[d] = "wait"
        <5>1. <<d, n, attempt[d]>> \in Req
          BY <1>e, <4>3 DEF ReqOf
        <5>2. reply'[<<d, n, attempt[d]>>] = reply[<<d, n, attempt[d]>>]
          BY <2>6, <4>1, <5>1
        <5> QED
          BY <2>4, <3>1, <4>2, <4>3, <5>2 DEF AccountOf
      <4>4. CASE ~(n = ncall[d] /\ cpc[d] = "wait")
        BY <2>4, <3>1, <4>2, <4>4 DEF AccountOf
      <4> QED
        BY <4>3, <4>4
    <3> QED
      BY <3>2, <3>3
  <2>10. PendingOnce'
    <3>1. ASSUME NEW r \in Req, NEW x \in Gen, Awaited(r, x), r # ReqOf(c)
          PROVE  Awaited(r, x)'
      <4>1. PICK d \in Callers : /\ cpc[d] = "wait" /\ cgen[d] = x
                                 /\ r = ReqOf(d) /\ reply[r] = "none"
        BY <3>1 DEF Awaited
      <4>2. ReqOf(d)' = ReqOf(d) /\ reply'[r] = "none"
        BY <2>4, <2>6, <3>1, <4>1 DEF ReqOf
      <4> QED
        BY <2>4, <4>1, <4>2 DEF Awaited
    <3>2. ASSUME NEW x \in Gen, NEW i \in 1..Len(queue[x])
          PROVE  queue[x][i] # ReqOf(c) /\ queue[x][i] \in Req
      <4>1. CASE x = g
        BY <1>s, <2>3, <3>2, <4>1 DEF PendingOnce, Distinct
      <4>2. CASE x # g
        <5>1. PICK d \in Callers : cgen[d] = x /\ queue[x][i] = ReqOf(d)
          BY <3>2 DEF PendingOnce, Awaited
        <5> QED
          BY <1>s, <2>3, <3>2, <4>2, <5>1, ReqInjective
      <4> QED
        BY <4>1, <4>2
    <3>3. ASSUME NEW x \in Gen, wreq'[x] # NoReq
          PROVE  x # g /\ wreq'[x] = wreq[x] /\ wreq[x] \in Req /\ wreq[x] # ReqOf(c)
      <4>1. x # g /\ wreq'[x] = wreq[x] /\ wreq[x] \in Req
        BY <2>4, <3>3 DEF TypeOK
      <4>2. PICK d \in Callers : cgen[d] = x /\ wreq[x] = ReqOf(d)
        BY <3>3, <4>1 DEF PendingOnce, Awaited
      <4> QED
        BY <2>3, <4>1, <4>2, ReqInjective
    <3>4. ASSUME NEW x \in Gen
          PROVE  /\ wreq'[x] # NoReq => Awaited(wreq[x], x)'
                 /\ \A i \in 1..Len(queue'[x]) : Awaited(queue[x][i], x)'
                 /\ Distinct(queue'[x], wreq'[x])
      <4>1. ASSUME wreq'[x] # NoReq PROVE Awaited(wreq[x], x)'
        <5>1. PICK r \in Req : r = wreq[x] /\ r # ReqOf(c) /\ wreq'[x] = r
          BY <3>3, <4>1
        <5>2. Awaited(r, x)
          BY <4>1, <5>1 DEF PendingOnce
        <5>3. Awaited(r, x)'
          BY <3>1, <5>1, <5>2
        <5> QED
          BY <5>1, <5>3
      <4>2. ASSUME NEW i \in 1..Len(queue'[x]) PROVE Awaited(queue[x][i], x)'
        <5>1. PICK r \in Req : r = queue[x][i] /\ r # ReqOf(c) /\ queue'[x][i] = r
          BY <2>4, <3>2, <4>2
        <5>2. Awaited(r, x)
          BY <2>4, <4>2, <5>1 DEF PendingOnce
        <5>3. Awaited(r, x)'
          BY <3>1, <5>1, <5>2
        <5> QED
          BY <5>1, <5>3
      <4>3. Distinct(queue'[x], wreq'[x])
        <5>1. Distinct(queue[x], wreq[x])
          BY DEF PendingOnce
        <5>2. \A i \in 1..Len(queue[x]) : queue[x][i] # wreq'[x]
          <6>1. CASE x = g
            BY <2>4, <3>2, <6>1, NoReqType DEF TypeOK
          <6>2. CASE x # g
            BY <2>4, <5>1, <6>2 DEF TypeOK, Distinct
          <6> QED
            BY <6>1, <6>2
        <5> QED
          BY <2>4, <5>1, <5>2 DEF Distinct
      <4> QED
        BY <4>1, <4>2, <4>3
    <3> QED
      BY <3>4 DEF PendingOnce
  <2> QED
    BY <2>8, <2>9, <2>10
<1>9. ASSUME UNCHANGED <<queue, wreq, reply, cpc, ncall, attempt, cgen, result, commits>>
      PROVE  Once'
  BY <1>9 DEF PendingOnce, Fresh, Account, AccountOf, Awaited, ReqOf
<1>10. ASSUME NEW g \in Gen, SeeCancel(g) \/ DrainEmpty(g) \/ CloseDone(g)
       PROVE  Once'
  BY <1>9, <1>10 DEF SeeCancel, DrainEmpty, CloseDone, callerVars
<1>11. CASE Main
  BY <1>9, <1>11 DEF Main, StartTrafficWriter, StopCancel, StopClear, callerVars, writerVars
<1>12. CASE UNCHANGED vars
  BY <1>9, <1>12 DEF vars, callerVars, writerVars
<1> QED
  BY <1>1, <1>2, <1>3, <1>4, <1>5, <1>6, <1>7, <1>8, <1>10, <1>11, <1>12
  DEF Next, Caller, Writer

\* A call's function commits at most once, and the call succeeds exactly when
\* it did, whatever the retries and the moment of a stop.
THEOREM ResultIsEffect == Spec => []ResultMatchesEffect
<1>1. Inv /\ Once => ResultMatchesEffect
  <2> SUFFICES ASSUME Inv, Once, NEW c \in Callers, NEW n \in 1..MaxCalls
               PROVE  LET k == <<c, n>> IN
                      /\ commits[k] <= 1
                      /\ result[k] # "none" => (commits[k] = 1 <=> result[k] = "ok")
    BY DEF ResultMatchesEffect, Call
  <2>1. AccountOf(c, n)
    BY DEF Once, Account
  <2>2. /\ ncall[c] \in Nat
        /\ cpc[c] \in {"idle", "lock", "send", "wait", "inline"}
    BY WriterAssumption DEF Inv, TypeOK
  <2>3. n > ncall[c] \/ n < ncall[c] \/ n = ncall[c]
    BY <2>2
  <2> QED
    BY <2>1, <2>2, <2>3 DEF AccountOf
<1>2. Init => Inv /\ Once
  BY InitInv, InitOnce
<1>3. Inv /\ Once /\ [Next]_vars => (Inv /\ Once)'
  BY InvStep, OnceStep
<1> QED
  BY <1>1, <1>2, <1>3, PTL DEF Spec
=============================================================================
