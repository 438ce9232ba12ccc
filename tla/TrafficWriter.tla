--------------------------- MODULE TrafficWriter ---------------------------
(***************************************************************************)
(* The serial database writer of the panel                                 *)
(* (internal/web/service/traffic_writer.go).                               *)
(*                                                                         *)
(* Every mutation of the hot client_traffics and inbounds rows is handed   *)
(* to one goroutine through a bounded channel.  A submitter keeps twMu     *)
(* from the moment it reads the package state until its request is in the  *)
(* channel, waits for the reply, and retries an attempt that Postgres      *)
(* aborted as a deadlock.  The main goroutine starts and stops the writer; *)
(* each Start makes a new generation of channels, so a submitter can be    *)
(* waiting on the channels of a generation that is already gone.           *)
(*                                                                         *)
(* A request is named by the call and the attempt that built it.  What the *)
(* submitted function does is abstracted to its outcome: it commits, it is *)
(* aborted as a deadlock, or it fails (an error, or a panic caught by      *)
(* safeApply).                                                             *)
(***************************************************************************)
EXTENDS Integers, Sequences, FiniteSets

CONSTANTS
    Callers,      \* goroutines that call submitTrafficWrite: jobs and handlers
    QueueSize,    \* trafficWriterQueueSize
    MaxAttempts,  \* maxAttempts of submitTrafficWrite
    MaxGen,       \* bound on the number of StartTrafficWriter generations
    MaxCalls      \* bound on the number of calls of each caller

ASSUME WriterAssumption ==
    /\ QueueSize \in Nat \ {0}
    /\ MaxAttempts \in Nat \ {0}
    /\ MaxGen \in Nat \ {0}
    /\ MaxCalls \in Nat
    /\ Callers \cap {"main", "free"} = {}

VARIABLES
    mu,        \* twMu: the goroutine that holds it, or "free"
    cur,       \* the generation twQueue, twCtx, twCancel, twDone point to; 0 = nil
    gens,      \* number of generations made so far
    queue,     \* generation -> buffered requests
    cancelled, \* generation -> its context is cancelled
    closed,    \* generation -> its done channel is closed
    wpc,       \* generation -> control state of runTrafficWriter
    wreq,      \* generation -> the request the writer is applying
    reply,     \* request -> content of its done channel, "none" while empty
    cpc,       \* caller -> control state of submitTrafficWrite
    ncall,     \* caller -> number of its current (or last) call
    attempt,   \* caller -> attempt of the retry loop
    cgen,      \* caller -> the generation it read under twMu
    result,    \* call -> what submitTrafficWrite returned, "none" before
    commits,   \* call -> how often its function has committed
    mpc,       \* control state of the main goroutine
    mgen       \* generation StopTrafficWriter is waiting for

writerVars == <<wpc, wreq, closed>>
callerVars == <<cpc, ncall, attempt, cgen, result>>
mainVars   == <<mpc, mgen>>
vars == <<mu, cur, gens, queue, cancelled, writerVars, reply,
          callerVars, commits, mainVars>>

Gen == 1..MaxGen
Call == Callers \X (1..MaxCalls)
Req == Callers \X (1..MaxCalls) \X (1..MaxAttempts)
NoReq == <<>>

CallOf(c) == <<c, ncall[c]>>
ReqOf(c)  == <<c, ncall[c], attempt[c]>>

Outcome == {"ok", "deadlock", "error"}
Returns == Outcome \cup {"full", "stopped"}

(***************************************************************************)
(* Server.start starts the writer before it starts the scheduler and the   *)
(* HTTP server, so the first generation is running when calls begin.       *)
(***************************************************************************)
Init ==
    /\ mu = "free" /\ cur = 1 /\ gens = 1
    /\ queue = [g \in Gen |-> <<>>]
    /\ cancelled = [g \in Gen |-> FALSE]
    /\ closed = [g \in Gen |-> FALSE]
    /\ wpc = [g \in Gen |-> IF g = 1 THEN "select" ELSE "unborn"]
    /\ wreq = [g \in Gen |-> NoReq]
    /\ reply = [r \in Req |-> "none"]
    /\ cpc = [c \in Callers |-> "idle"]
    /\ ncall = [c \in Callers |-> 0]
    /\ cgen = [c \in Callers |-> 0]
    /\ attempt = [c \in Callers |-> 0]
    /\ result = [k \in Call |-> "none"]
    /\ commits = [k \in Call |-> 0]
    /\ mpc = "idle" /\ mgen = 0

-----------------------------------------------------------------------------
(***************************************************************************)
(* submitTrafficWrite and submitTrafficWriteOnce.                          *)
(***************************************************************************)

\* A call: the first attempt builds its request and goes for twMu.
Submit(c) ==
    /\ cpc[c] = "idle" /\ ncall[c] < MaxCalls
    /\ ncall' = [ncall EXCEPT ![c] = @ + 1]
    /\ attempt' = [attempt EXCEPT ![c] = 1]
    /\ cpc' = [cpc EXCEPT ![c] = "lock"]
    /\ UNCHANGED <<mu, cur, gens, queue, cancelled, writerVars, reply, cgen,
                   result, commits, mainVars>>

\* Fault: the mutex is released before the request is in the channel.
InspectUnlocked(c) ==
    /\ cpc[c] = "lock" /\ mu = "free"
    /\ cgen' = [cgen EXCEPT ![c] = cur]
    /\ cpc' = [cpc EXCEPT ![c] = IF cur = 0 \/ cancelled[cur] THEN "inline" ELSE "send"]
    /\ UNCHANGED <<mu, cur, gens, queue, cancelled, writerVars, reply, ncall,
                   attempt, result, commits, mainVars>>

\* Fault: the context is not looked at before the request is sent.
InspectNoCtx(c) ==
    /\ cpc[c] = "lock" /\ mu = "free"
    /\ cgen' = [cgen EXCEPT ![c] = cur]
    /\ IF cur = 0
         THEN /\ cpc' = [cpc EXCEPT ![c] = "inline"]
              /\ UNCHANGED mu
         ELSE /\ cpc' = [cpc EXCEPT ![c] = "send"]
              /\ mu' = c
    /\ UNCHANGED <<cur, gens, queue, cancelled, writerVars, reply, ncall,
                   attempt, result, commits, mainVars>>

\* Under twMu: without a live writer the function runs inline, otherwise the
\* caller goes on to the channel with the mutex still held.
Inspect(c) ==
    /\ cpc[c] = "lock" /\ mu = "free"
    /\ cgen' = [cgen EXCEPT ![c] = cur]
    /\ IF cur = 0 \/ cancelled[cur]
         THEN /\ cpc' = [cpc EXCEPT ![c] = "inline"]
              /\ UNCHANGED mu
         ELSE /\ cpc' = [cpc EXCEPT ![c] = "send"]
              /\ mu' = c
    /\ UNCHANGED <<cur, gens, queue, cancelled, writerVars, reply, ncall,
                   attempt, result, commits, mainVars>>

\* The channel has room.
Enqueue(c) ==
    /\ cpc[c] = "send" /\ Len(queue[cgen[c]]) < QueueSize
    /\ queue' = [queue EXCEPT ![cgen[c]] = Append(@, ReqOf(c))]
    /\ mu' = "free"
    /\ cpc' = [cpc EXCEPT ![c] = "wait"]
    /\ UNCHANGED <<cur, gens, cancelled, writerVars, reply, ncall, cgen,
                   attempt, result, commits, mainVars>>

\* Fault: one attempt too many.
FinishOneMore(c, err) ==
    IF err = "deadlock" /\ attempt[c] <= MaxAttempts
      THEN /\ attempt' = [attempt EXCEPT ![c] = @ + 1]
           /\ cpc' = [cpc EXCEPT ![c] = "lock"]
           /\ UNCHANGED result
      ELSE /\ cpc' = [cpc EXCEPT ![c] = "idle"]
           /\ result' = [result EXCEPT ![CallOf(c)] = err]
           /\ UNCHANGED attempt

\* What the retry loop does with the error of an attempt: only a deadlock is
\* tried again, with a new request, and only while attempts are left.
Finish(c, err) ==
    IF err = "deadlock" /\ attempt[c] < MaxAttempts
      THEN /\ attempt' = [attempt EXCEPT ![c] = @ + 1]
           /\ cpc' = [cpc EXCEPT ![c] = "lock"]
           /\ UNCHANGED result
      ELSE /\ cpc' = [cpc EXCEPT ![c] = "idle"]
           /\ result' = [result EXCEPT ![CallOf(c)] = err]
           /\ UNCHANGED attempt

\* The channel stays full for trafficWriterSubmitTimeout.
QueueFull(c) ==
    /\ cpc[c] = "send" /\ Len(queue[cgen[c]]) = QueueSize
    /\ mu' = "free"
    /\ Finish(c, "full")
    /\ UNCHANGED <<cur, gens, queue, cancelled, writerVars, reply, ncall,
                   cgen, commits, mainVars>>

\* Fault: a closed done channel wins over a reply that is already there.
AwaitReplyEager(c) ==
    /\ cpc[c] = "wait" /\ (reply[ReqOf(c)] # "none" \/ closed[cgen[c]])
    /\ Finish(c, IF closed[cgen[c]] THEN "stopped" ELSE reply[ReqOf(c)])
    /\ UNCHANGED <<mu, cur, gens, queue, cancelled, writerVars, reply, ncall,
                   cgen, commits, mainVars>>

\* The reply has arrived, or the writer is gone; a reply that is there counts
\* even when the writer is gone.
AwaitReply(c) ==
    /\ cpc[c] = "wait" /\ (reply[ReqOf(c)] # "none" \/ closed[cgen[c]])
    /\ Finish(c, IF reply[ReqOf(c)] # "none" THEN reply[ReqOf(c)] ELSE "stopped")
    /\ UNCHANGED <<mu, cur, gens, queue, cancelled, writerVars, reply, ncall,
                   cgen, commits, mainVars>>

\* The function runs on the caller's own goroutine.
RunInline(c) ==
    /\ cpc[c] = "inline"
    /\ \E out \in Outcome :
         /\ commits' = IF out = "ok" THEN [commits EXCEPT ![CallOf(c)] = @ + 1]
                                     ELSE commits
         /\ Finish(c, out)
    /\ UNCHANGED <<mu, cur, gens, queue, cancelled, writerVars, reply, ncall,
                   cgen, mainVars>>

-----------------------------------------------------------------------------
(***************************************************************************)
(* runTrafficWriter.  The outer select may take a request even after the   *)
(* context is cancelled; the inner loop drains what is left and returns.   *)
(***************************************************************************)

\* Receives a request, in the outer select or in the draining loop.
Receive(g) ==
    /\ wpc[g] \in {"select", "drain"} /\ queue[g] # <<>>
    /\ wreq' = [wreq EXCEPT ![g] = Head(queue[g])]
    /\ queue' = [queue EXCEPT ![g] = Tail(@)]
    /\ wpc' = [wpc EXCEPT ![g] = IF @ = "select" THEN "apply" ELSE "drainApply"]
    /\ UNCHANGED <<mu, cur, gens, cancelled, closed, reply, callerVars,
                   commits, mainVars>>

\* Runs the function under safeApply and puts its error in the reply channel.
Apply(g) ==
    /\ wpc[g] \in {"apply", "drainApply"}
    /\ \E out \in Outcome :
         /\ reply' = [reply EXCEPT ![wreq[g]] = out]
         /\ commits' = IF out = "ok"
                         THEN [commits EXCEPT ![<<wreq[g][1], wreq[g][2]>>] = @ + 1]
                         ELSE commits
    /\ wreq' = [wreq EXCEPT ![g] = NoReq]
    /\ wpc' = [wpc EXCEPT ![g] = IF @ = "apply" THEN "select" ELSE "drain"]
    /\ UNCHANGED <<mu, cur, gens, queue, cancelled, closed, callerVars,
                   mainVars>>

\* ctx.Done() is ready: on to the draining loop.
SeeCancel(g) ==
    /\ wpc[g] = "select" /\ cancelled[g]
    /\ wpc' = [wpc EXCEPT ![g] = "drain"]
    /\ UNCHANGED <<mu, cur, gens, queue, cancelled, closed, wreq, reply,
                   callerVars, commits, mainVars>>

\* Fault: the empty channel only ends the inner loop.
DrainEmptyBreak(g) ==
    /\ wpc[g] = "drain" /\ queue[g] = <<>>
    /\ wpc' = [wpc EXCEPT ![g] = "select"]
    /\ UNCHANGED <<mu, cur, gens, queue, cancelled, closed, wreq, reply,
                   callerVars, commits, mainVars>>

\* The draining loop finds the channel empty and returns ...
DrainEmpty(g) ==
    /\ wpc[g] = "drain" /\ queue[g] = <<>>
    /\ wpc' = [wpc EXCEPT ![g] = "exit"]
    /\ UNCHANGED <<mu, cur, gens, queue, cancelled, closed, wreq, reply,
                   callerVars, commits, mainVars>>

\* ... and the deferred close runs.
CloseDone(g) ==
    /\ wpc[g] = "exit" /\ ~closed[g]
    /\ closed' = [closed EXCEPT ![g] = TRUE]
    /\ UNCHANGED <<mu, cur, gens, queue, cancelled, wpc, wreq, reply,
                   callerVars, commits, mainVars>>

-----------------------------------------------------------------------------
(***************************************************************************)
(* StartTrafficWriter and StopTrafficWriter, called by the main goroutine  *)
(* from Server.start and Server.stop.                                      *)
(***************************************************************************)

\* Fault: a running writer is replaced (the panel-only restart starts again).
StartTwice ==
    /\ mpc = "idle" /\ mu = "free"
    /\ gens < MaxGen
    /\ gens' = gens + 1
    /\ cur' = gens + 1
    /\ wpc' = [wpc EXCEPT ![gens + 1] = "select"]
    /\ UNCHANGED <<mu, queue, cancelled, wreq, closed, reply, callerVars,
                   commits, mainVars>>

\* Fault: the goroutine is only ever spawned once, as under a sync.Once.
StartOnce ==
    /\ mpc = "idle" /\ mu = "free"
    /\ cur # 0 => closed[cur]
    /\ gens < MaxGen
    /\ gens' = gens + 1
    /\ cur' = gens + 1
    /\ UNCHANGED <<mu, queue, cancelled, writerVars, reply, callerVars,
                   commits, mainVars>>

\* Start finds no writer, or one whose goroutine has ended: new generation.
\* (A start that finds a live writer changes nothing.)
StartTrafficWriter ==
    /\ mpc = "idle" /\ mu = "free"
    /\ cur # 0 => closed[cur]
    /\ gens < MaxGen
    /\ gens' = gens + 1
    /\ cur' = gens + 1
    /\ wpc' = [wpc EXCEPT ![gens + 1] = "select"]
    /\ UNCHANGED <<mu, queue, cancelled, wreq, closed, reply, callerVars,
                   commits, mainVars>>

\* Stop cancels the context under twMu and starts to wait.
StopCancel ==
    /\ mpc = "idle" /\ mu = "free" /\ cur # 0
    /\ cancelled' = [cancelled EXCEPT ![cur] = TRUE]
    /\ mgen' = cur
    /\ mpc' = "stopping"
    /\ UNCHANGED <<mu, cur, gens, queue, writerVars, reply, callerVars,
                   commits>>

\* Fault: Stop does not wait for the writer.
StopNoWait ==
    /\ mpc = "stopping" /\ mu = "free"
    /\ cur' = IF cur = mgen THEN 0 ELSE cur
    /\ mpc' = "idle"
    /\ mgen' = 0
    /\ UNCHANGED <<mu, gens, queue, cancelled, writerVars, reply, callerVars,
                   commits>>

\* The writer has closed its done channel: Stop clears the package state.
StopClear ==
    /\ mpc = "stopping" /\ closed[mgen] /\ mu = "free"
    /\ cur' = IF cur = mgen THEN 0 ELSE cur
    /\ mpc' = "idle"
    /\ mgen' = 0
    /\ UNCHANGED <<mu, gens, queue, cancelled, writerVars, reply,
                   callerVars, commits>>

-----------------------------------------------------------------------------
Caller(c) ==
    \/ Submit(c) \/ Inspect(c) \/ Enqueue(c) \/ QueueFull(c)
    \/ AwaitReply(c) \/ RunInline(c)

Writer(g) ==
    Receive(g) \/ Apply(g) \/ SeeCancel(g) \/ DrainEmpty(g) \/ CloseDone(g)

Main == StartTrafficWriter \/ StopCancel \/ StopClear

Next == Main \/ (\E c \in Callers : Caller(c)) \/ (\E g \in Gen : Writer(g))

Spec == Init /\ [][Next]_vars

(***************************************************************************)
(* Goroutines that can run do run; Go's mutex hands itself to the longest  *)
(* waiter after 1ms, so whoever keeps asking for twMu gets it.  Nothing    *)
(* forces a caller to submit or the main goroutine to start or stop.       *)
(***************************************************************************)
Fairness ==
    /\ \A c \in Callers :
         /\ SF_vars(Inspect(c))
         /\ WF_vars(Enqueue(c) \/ QueueFull(c))
         /\ WF_vars(AwaitReply(c))
         /\ WF_vars(RunInline(c))
    /\ \A g \in Gen : WF_vars(Writer(g))
    /\ SF_vars(StopClear)

FairSpec == Spec /\ Fairness

-----------------------------------------------------------------------------
(***************************************************************************)
(* Properties.                                                             *)
(***************************************************************************)

\* The shape of the package state, the channels and the goroutines' state.
TypeOK ==
    /\ mu \in Callers \cup {"free"}
    /\ gens \in 0..MaxGen /\ cur \in 0..gens
    /\ queue \in [Gen -> Seq(Req)]
    /\ cancelled \in [Gen -> BOOLEAN]
    /\ closed \in [Gen -> BOOLEAN]
    /\ wpc \in [Gen -> {"unborn", "select", "apply", "drain", "drainApply", "exit"}]
    /\ wreq \in [Gen -> Req \cup {NoReq}]
    /\ reply \in [Req -> Outcome \cup {"none"}]
    /\ cpc \in [Callers -> {"idle", "lock", "send", "wait", "inline"}]
    /\ ncall \in [Callers -> 0..MaxCalls]
    /\ attempt \in [Callers -> 0..MaxAttempts]
    /\ cgen \in [Callers -> 0..MaxGen]
    /\ result \in [Call -> Returns \cup {"none"}]
    /\ commits \in [Call -> Nat]
    /\ mpc \in {"idle", "stopping"}
    /\ mgen \in 0..MaxGen

\* A request that made it into the channel is answered before the writer's done
\* channel closes, whenever StopTrafficWriter runs: the error "traffic writer
\* stopped before write completed" of submitTrafficWriteOnce is never returned.
NoAbandonedWrite ==
    \A c \in Callers :
        cpc[c] = "wait" /\ closed[cgen[c]] => reply[ReqOf(c)] # "none"

\* Whatever the retries of submitTrafficWrite and the moment of a stop, the
\* function of a call commits at most once, and the call reports success
\* exactly when it did.
ResultMatchesEffect ==
    \A k \in Call :
        /\ commits[k] <= 1
        /\ result[k] # "none" => (commits[k] = 1 <=> result[k] = "ok")

\* Once StopTrafficWriter has returned, the generation it stopped holds no
\* request and applies none: the pending requests are drained before it returns.
StopDrains ==
    \A g \in 1..gens :
        mpc = "idle" /\ g # cur => queue[g] = <<>> /\ wreq[g] = NoReq

\* No two writer goroutines ever apply at the same time, across restarts.
OneWriter ==
    \A g, h \in Gen : wreq[g] # NoReq /\ wreq[h] # NoReq => g = h

\* Once its context is cancelled no request enters a channel any more: what
\* lets the draining loop of runTrafficWriter end.
NoSendAfterCancel ==
    [][\A g \in Gen : cancelled[g] => Len(queue'[g]) <= Len(queue[g])]_vars

\* Every call of submitTrafficWrite returns, across stops and restarts.
SubmitReturns == \A c \in Callers : cpc[c] # "idle" ~> cpc[c] = "idle"

\* StopTrafficWriter returns.
StopReturns == mpc = "stopping" ~> mpc = "idle"

\* Nobody waits forever: neither a caller for the answer of a write nor the
\* caller of StopTrafficWriter, across stops, restarts and retried attempts.
CallsReturn == SubmitReturns /\ StopReturns

=============================================================================
