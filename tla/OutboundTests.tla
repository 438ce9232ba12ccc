---------------------------- MODULE OutboundTests ----------------------------
(***************************************************************************)
(* The tests of the outbounds (useXraySetting and the outbounds tab): the  *)
(* test of one row and the test of all of them, which runs a lane of       *)
(* workers for TCP probes beside a lane of HTTP batches, and the endpoint, *)
(* which refuses a batch while another one runs.  Rows come and go while   *)
(* tests are in flight, and the results of template rows are kept by       *)
(* index.                                                                  *)
(*                                                                         *)
(* Abstracted: a result is the outbound it is about, or that the endpoint  *)
(* was busy; a lost request counts as a result that says so; the order in  *)
(* which a lane takes its tests, which no result depends on.               *)
(***************************************************************************)
EXTENDS Naturals, Sequences, FiniteSets, SequencesExt

CONSTANTS
  Listed,     \* the template's outbounds when the page is opened
  Subscribed,   \* the outbounds of the subscriptions
  TcpLike, UdpLike, \* outbounds that a dial can probe, and that need HTTP; any
                \* other is not a proxy and is never tested
  MaxSingle,    \* bound on the tests of one row in flight
  Workers,      \* 8 TCP probes at a time
  Chunk         \* HTTP_BATCH_CHUNK

ASSUME TestsAssumption ==
  /\ Listed \in Seq(TcpLike \cup UdpLike \cup {"direct"})
  /\ Workers \in Nat \ {0}
  /\ Chunk \in Nat \ {0}

VARIABLES
  rows,         \* templateSettings.outbounds
  rowTests,     \* outboundTestStates, by index
  subTests,     \* subscriptionTestStates, by tag
  testAll,      \* testingAll, and the lanes with what they have left to do
  single,       \* the tests of one row that are in flight
  lock,         \* the endpoint's lock: the batch it probes, if any
  moved         \* history: rows were moved or removed

testsVars == <<rows, rowTests, subTests, testAll, single, lock, moved>>

Outbounds == ToSet(Listed) \cup Subscribed
Indexes == DOMAIN Listed
Untested == [testing |-> FALSE, result |-> "none"]
Testing == [testing |-> TRUE, result |-> "none"]
Tested(result) == [testing |-> FALSE, result |-> result]
NoBatch == {}
AllIdle == [on |-> FALSE, tcp |-> {}, dialing |-> {}, tpl |-> {}, sub |-> {}, batch |-> NoBatch]

\* What a test is for: a row by index, or a subscription outbound by tag.
Item(kind, at, outbound) == [kind |-> kind, at |-> at, outbound |-> outbound]
RowItem(i) == Item("row", i, rows[i])
SubItem(o) == Item("sub", 0, o)
Items == [kind : {"row"}, at : Indexes, outbound : Outbounds]
         \cup [kind : {"sub"}, at : {0}, outbound : Subscribed]

TestState == [testing : BOOLEAN, result : Outbounds \cup {"none", "busy"}]

TestsTypeOK ==
  /\ rows \in Seq(Outbounds) /\ Len(rows) <= Len(Listed)
  /\ rowTests \in [Indexes -> TestState]
  /\ subTests \in [Subscribed -> TestState]
  /\ testAll \in [on : BOOLEAN, tcp : SUBSET Items, dialing : SUBSET Items,
                  tpl : SUBSET Items, sub : SUBSET Items, batch : SUBSET Items]
  /\ Cardinality(testAll.batch) <= Chunk
  /\ single \subseteq [item : Items, http : BOOLEAN]
  /\ lock \in {"free", "all", "single"}
  /\ moved \in BOOLEAN

TestsInit ==
  /\ rows = Listed
  /\ rowTests = [i \in Indexes |-> Untested]
  /\ subTests = [o \in Subscribed |-> Untested]
  /\ testAll = AllIdle
  /\ single = {}
  /\ lock = "free"
  /\ moved = FALSE

isUntestable(o) == o \notin TcpLike \cup UdpLike

\* Every item of a chunk shows state(item) from now on.
Show(items, state(_)) ==
  /\ rowTests' = [i \in Indexes |->
       IF \E x \in items : x.kind = "row" /\ x.at = i
       THEN state(CHOOSE x \in items : x.kind = "row" /\ x.at = i) ELSE rowTests[i]]
  /\ subTests' = [o \in Subscribed |->
       IF \E x \in items : x.kind = "sub" /\ x.outbound = o
       THEN state(CHOOSE x \in items : x.kind = "sub" /\ x.outbound = o) ELSE subTests[o]]

ShowTesting(items) == Show(items, LAMBDA x : Testing)
ShowOwn(items) == Show(items, LAMBDA x : Tested(x.outbound))
ShowBusy(items) == Show(items, LAMBDA x : Tested("busy"))

-----------------------------------------------------------------------------
(* The test of one row: the button is disabled while the row is tested.    *)

testOutbound(mode) ==
  /\ \E i \in DOMAIN rows :
       /\ ~ isUntestable(rows[i])
       /\ ~ rowTests[i].testing
       /\ Cardinality(single) < MaxSingle
       /\ single' = single \cup {[item |-> RowItem(i), http |-> mode # "tcp" \/ rows[i] \in UdpLike]}
       /\ ShowTesting({RowItem(i)})
  /\ UNCHANGED <<rows, testAll, lock, moved>>

testSubscriptionOutbound(mode) ==
  /\ \E o \in Subscribed :
       /\ ~ isUntestable(o)
       /\ ~ subTests[o].testing
       /\ Cardinality(single) < MaxSingle
       /\ single' = single \cup {[item |-> SubItem(o), http |-> mode # "tcp" \/ o \in UdpLike]}
       /\ ShowTesting({SubItem(o)})
  /\ UNCHANGED <<rows, testAll, lock, moved>>

\* A dial needs no lock; a batch that finds the lock taken is refused at once.
SingleAnswered ==
  /\ \E s \in single :
       /\ single' = single \ {s}
       /\ IF s.http /\ lock # "free" THEN ShowBusy({s.item}) ELSE ShowOwn({s.item})
  /\ UNCHANGED <<rows, testAll, lock, moved>>

\* The probe of a single HTTP test holds the lock for as long as it takes.
SingleProbes ==
  /\ lock = "free"
  /\ \E s \in single : s.http
  /\ lock' = "single"
  /\ UNCHANGED <<rows, rowTests, subTests, testAll, single, moved>>

SingleProbed ==
  /\ lock = "single"
  /\ \E s \in single :
       /\ s.http
       /\ single' = single \ {s}
       /\ ShowOwn({s.item})
  /\ lock' = "free"
  /\ UNCHANGED <<rows, testAll, moved>>

-----------------------------------------------------------------------------
(* The test of all of them *)

testAllOutbounds(mode) ==
  /\ ~ testAll.on
  /\ rows # <<>> \/ Subscribed # {}
  /\ LET all == {RowItem(i) : i \in {j \in DOMAIN rows : ~ isUntestable(rows[j])}}
         subs == {SubItem(o) : o \in {q \in Subscribed : ~ isUntestable(q)}}
         Http(x) == mode # "tcp" \/ x.outbound \in UdpLike
     IN testAll' = [on |-> TRUE,
                    tcp |-> {x \in all \cup subs : ~ Http(x)}, dialing |-> {},
                    tpl |-> {x \in all : Http(x)}, sub |-> {x \in subs : Http(x)},
                    batch |-> NoBatch]
  /\ UNCHANGED <<rows, rowTests, subTests, single, lock, moved>>

\* A worker takes the next dial.
WorkerTakes ==
  /\ Cardinality(testAll.dialing) < Workers
  /\ \E x \in testAll.tcp :
       /\ testAll' = [testAll EXCEPT !.tcp = @ \ {x}, !.dialing = @ \cup {x}]
       /\ ShowTesting({x})
  /\ UNCHANGED <<rows, single, lock, moved>>

WorkerAnswered ==
  /\ \E x \in testAll.dialing :
       /\ testAll' = [testAll EXCEPT !.dialing = @ \ {x}]
       /\ ShowOwn({x})
  /\ UNCHANGED <<rows, single, lock, moved>>

\* As many of the queue as a batch may have.
Chunks(queue) ==
  {c \in SUBSET queue :
     c # {} /\ Cardinality(c) <= Chunk /\ (c = queue \/ Cardinality(c) = Chunk)}

\* A batch is sent: the endpoint takes the lock or refuses the batch.
Send(chunk, next) ==
  \/ /\ lock = "free"
     /\ lock' = "all"
     /\ testAll' = [next EXCEPT !.batch = chunk]
     /\ ShowTesting(chunk)
  \/ /\ lock # "free"
     /\ testAll' = next
     /\ ShowBusy(chunk)
     /\ UNCHANGED lock

runTplHttpLane ==
  /\ testAll.batch = NoBatch
  /\ \E chunk \in Chunks(testAll.tpl) : Send(chunk, [testAll EXCEPT !.tpl = @ \ chunk])
  /\ UNCHANGED <<rows, single, moved>>

\* Mutant: both HTTP lanes run side by side.
SubLaneBeside ==
  /\ \E chunk \in Chunks(testAll.sub) : Send(chunk, [testAll EXCEPT !.sub = @ \ chunk])
  /\ UNCHANGED <<rows, single, moved>>

\* The subscription lane waits for the template lane.
runSubHttpLane ==
  /\ testAll.tpl = {}
  /\ testAll.batch = NoBatch
  /\ \E chunk \in Chunks(testAll.sub) : Send(chunk, [testAll EXCEPT !.sub = @ \ chunk])
  /\ UNCHANGED <<rows, single, moved>>

BatchAnswered ==
  /\ testAll.batch # NoBatch
  /\ lock' = "free"
  /\ testAll' = [testAll EXCEPT !.batch = NoBatch]
  /\ ShowOwn(testAll.batch)
  /\ UNCHANGED <<rows, single, moved>>

LanesDone == testAll.tcp = {} /\ testAll.dialing = {} /\ testAll.tpl = {}
             /\ testAll.sub = {} /\ testAll.batch = NoBatch

\* Promise.all of the lanes
TestAllEnds ==
  /\ testAll.on
  /\ LanesDone
  /\ testAll' = [testAll EXCEPT !.on = FALSE]
  /\ UNCHANGED <<rows, rowTests, subTests, single, lock, moved>>

-----------------------------------------------------------------------------
(* The operator goes on editing: nothing moves the results along.  Bound:  *)
(* one such edit.                                                          *)

RowGoes ==
  /\ ~ moved
  /\ \E i \in DOMAIN rows : rows' = RemoveAt(rows, i)
  /\ moved' = TRUE
  /\ UNCHANGED <<rowTests, subTests, testAll, single, lock>>

RowToTop ==
  /\ ~ moved
  /\ \E i \in DOMAIN rows : i > 1 /\ rows' = <<rows[i]>> \o RemoveAt(rows, i)
  /\ moved' = TRUE
  /\ UNCHANGED <<rowTests, subTests, testAll, single, lock>>

Modes == {"tcp", "http"}   \* real goes the way of http

TestsNext ==
  \/ \E mode \in Modes : testOutbound(mode)
  \/ \E mode \in Modes : testSubscriptionOutbound(mode)
  \/ \E mode \in Modes : testAllOutbounds(mode)
  \/ SingleAnswered \/ SingleProbes \/ SingleProbed
  \/ WorkerTakes \/ WorkerAnswered
  \/ runTplHttpLane \/ runSubHttpLane \/ BatchAnswered \/ TestAllEnds
  \/ RowGoes \/ RowToTop

\* Requests are answered, and the lanes are scheduled.
Lanes == WorkerTakes \/ WorkerAnswered \/ runTplHttpLane \/ runSubHttpLane
         \/ BatchAnswered \/ TestAllEnds

TestsFairness == WF_testsVars(Lanes) /\ WF_testsVars(SingleProbed)

-----------------------------------------------------------------------------
(* Properties *)

\* The batches of a test of all outbounds never find the endpoint busy by
\* themselves: only the test of a single row, which holds the lock, makes the
\* endpoint refuse one (the comment in testAllOutbounds).
NoBatchRefusesItself ==
  [][(testAll.on /\ (testAll'.tpl # testAll.tpl \/ testAll'.sub # testAll.sub))
       => lock \in {"free", "single"}]_testsVars

\* A row shows the result of a test of itself, as long as no row was moved or
\* removed: nothing else clears a result (outboundTestStates).
ResultsBelong ==
  ~ moved => \A i \in DOMAIN rows :
    rowTests[i].result \in {"none", "busy", rows[i]}

\* When the button of the test of all outbounds is free again, no probe of
\* its is still in flight: a second run never mixes with the first.
RunsDoNotMix == ~ testAll.on => LanesDone

\* A test of all outbounds comes to its end (its finally block).
TestAllEnding == testAll.on ~> ~ testAll.on
=============================================================================
