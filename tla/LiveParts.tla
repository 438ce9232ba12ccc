------------------------------ MODULE LiveParts ------------------------------
(***************************************************************************)
(* The parts of the web interface that have to come to an end or to a      *)
(* common state by themselves: the WebSocket, the lists it keeps fresh,    *)
(* the tests of the outbounds, and the views that poll.  They share no     *)
(* variable, so that their interleavings show nothing a part does not show *)
(* alone: a behaviour is one of a part, and the other parts rest in a      *)
(* state they may start in.                                                *)
(***************************************************************************)
EXTENDS WebSocketClient, LiveList, OutboundTests, Charts

VARIABLE part

partVars == <<part, socketVars, liveVars, testsVars, chartVars>>

PartsInit ==
  /\ part \in {"socket", "lists", "tests", "charts"}
  /\ IF part = "lists" THEN TRUE ELSE route = "clients"
  /\ IF part = "charts" THEN TRUE ELSE view = "logs"
  /\ SocketInit /\ LiveInit /\ TestsInit /\ ChartsInit

PartsNext ==
  /\ part' = part
  /\ \/ /\ part = "socket" /\ SocketNext
        /\ UNCHANGED <<liveVars, testsVars, chartVars>>
     \/ /\ part = "lists" /\ LiveNext
        /\ UNCHANGED <<socketVars, testsVars, chartVars>>
     \/ /\ part = "tests" /\ TestsNext
        /\ UNCHANGED <<socketVars, liveVars, chartVars>>
     \/ /\ part = "charts" /\ ChartsNext
        /\ UNCHANGED <<socketVars, liveVars, testsVars>>

\* The fairness of each part, for the behaviours that are its own.
PartsFairness ==
  /\ WF_socketVars(part = "socket" /\ TimerFires)
  /\ \A s \in Sockets :
       /\ WF_socketVars(part = "socket" /\ Opens(s))
       /\ WF_socketVars(part = "socket" /\ sock[s] # "open" /\ Closes(s))
  /\ WF_liveVars(part = "lists" /\ Poll)
  /\ SF_liveVars(part = "lists" /\ Fetched("clients"))
  /\ WF_testsVars(part = "tests" /\ Lanes)
  /\ WF_testsVars(part = "tests" /\ SingleProbed)
  /\ WF_chartVars(part = "charts" /\ Interval)
  /\ \A s \in Selections, n \in {1, 2} :
       WF_chartVars(part = "charts" /\ AnswerDrawn([of |-> s, series |-> n]))

PartsSpec == PartsInit /\ [][PartsNext]_partVars /\ PartsFairness

-----------------------------------------------------------------------------
\* The type invariants of the parts.
PartsTypeOK == SocketTypeOK /\ LiveTypeOK /\ TestsTypeOK /\ ChartsTypeOK

\* What a screen shows is what it claims to show: a list is fresh or its
\* staleness has a cause, a result is that of its row, and a test of all that
\* is over leaves no work behind.
ScreensTruthful ==
  /\ FreshOrExcused
  /\ ResultsBelong /\ RunsDoNotMix

\* A batch of tests is never refused because of its own run, and a link that is
\* lost is retried without the wait of an earlier outage.
PromptRetries == NoBatchRefusesItself /\ LostIsRetriedFast

\* Every part comes to rest where it should: the clients page shows what is
\* stored, a test of all outbounds ends, a view that polls shows what is selected.
PartsSettle == ClientsCatchUp /\ TestAllEnding /\ ChartHeals
=============================================================================
