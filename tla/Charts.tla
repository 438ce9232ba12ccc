------------------------------- MODULE Charts --------------------------------
(***************************************************************************)
(* The views that keep asking the panel for what they show: the history of *)
(* the system and of a node, the metrics of Xray, and the two logs         *)
(* (frontend/src/pages/index/SystemHistoryModal, XrayMetricsModal,         *)
(* LogModal, XrayLogModal, pages/nodes/NodeHistoryPanel).  A view asks     *)
(* when it opens and whenever the selection changes, some of them at       *)
(* intervals too; answers come in any order and are drawn as they come.    *)
(***************************************************************************)
EXTENDS Naturals

CONSTANTS
  Selections,  \* what a view may be asked to show: a metric, an interval, a filter
  First,       \* the selection a view opens with
  Watched,     \* the selection of the Xray metrics that is polled (the observatory)
  Nothing_,
  MaxPicks,    \* bound: changes of the selection, openings and closings
  MaxErrors    \* bound: requests that fail

ASSUME ChartsAssumption == {First, Watched} \subseteq Selections /\ Nothing_ \notin Selections

VARIABLES
  view,       \* which of the views this is
  viewOpen,   \* whether it is open
  selected,
  autoUpdate, \* the box of the logs
  pollTimer,      \* what the interval asks for, or Nothing_
  flight,     \* requests under way: the selection and the series asked for
  drawn,      \* what the first series shows
  drawn2,     \* what the series beside it shows
  picks, errors

chartVars == <<view, viewOpen, selected, autoUpdate, pollTimer, flight, drawn, drawn2, picks, errors>>

Views == {"history", "metrics", "logs", "node"}

ChartsInit ==
  /\ view \in Views
  /\ viewOpen = FALSE /\ selected = First /\ autoUpdate = FALSE
  /\ pollTimer = Nothing_ /\ flight = {}
  /\ drawn = Nothing_ /\ drawn2 = Nothing_
  /\ picks = 0 /\ errors = 0

\* The history and a node's panel are always polled, the metrics while the
\* observatory is selected, the logs when the box is ticked.
Polled(open, s, auto) ==
  open /\ CASE view \in {"history", "node"} -> TRUE
            [] view = "metrics" -> s = Watched
            [] view = "logs" -> auto

\* The effect with the interval: it is cleared and set with every change.
SetTimer(open, s, auto) == IF Polled(open, s, auto) THEN s ELSE Nothing_

Asked(s) == flight \cup {[of |-> s, series |-> 1]}

\* The effects that run when the view closes or shows something else.
Changes_(open, s, auto) ==
  /\ picks < MaxPicks /\ picks' = picks + 1
  /\ viewOpen' = open /\ selected' = s /\ autoUpdate' = auto
  /\ pollTimer' = SetTimer(open, s, auto)
  /\ flight' = IF open /\ s # selected THEN Asked(s) ELSE flight
  /\ UNCHANGED <<view, drawn, drawn2, errors>>

\* The charts open with their first metric again, after a request for the last
\* one has left; the logs keep their filter.
OpenView ==
  /\ ~viewOpen /\ picks < MaxPicks /\ picks' = picks + 1
  /\ viewOpen' = TRUE
  /\ selected' = IF view = "logs" THEN selected ELSE First
  /\ pollTimer' = SetTimer(TRUE, selected', autoUpdate)
  /\ flight' = Asked(selected) \cup Asked(selected')
  /\ UNCHANGED <<view, autoUpdate, drawn, drawn2, errors>>
CloseView_ == viewOpen /\ Changes_(FALSE, selected, autoUpdate)
PickSelection(s) == viewOpen /\ s # selected /\ Changes_(TRUE, s, autoUpdate)
TickAuto == viewOpen /\ view = "logs" /\ Changes_(TRUE, selected, ~autoUpdate)

\* The logs' interval asks for what is selected by then (refreshRef).
Interval ==
  /\ pollTimer # Nothing_
  /\ flight' = Asked(IF view = "logs" THEN selected ELSE pollTimer)
  /\ flight' # flight
  /\ UNCHANGED <<view, viewOpen, selected, autoUpdate, pollTimer, drawn, drawn2, picks, errors>>

\* A node's panel leaves out the answers to what it no longer shows.
Cancelled(f) == view = "node" /\ (~viewOpen \/ f.of # selected)

\* The second series of the history is asked for when the first has come.
AnswerDrawn(f) ==
  /\ f \in flight
  /\ IF Cancelled(f) THEN UNCHANGED <<drawn, drawn2>> /\ flight' = flight \ {f}
     ELSE IF f.series = 2 THEN drawn2' = f.of /\ drawn' = drawn /\ flight' = flight \ {f}
     ELSE /\ drawn' = f.of
          /\ IF view = "history"
             THEN drawn2' = drawn2 /\ flight' = (flight \ {f}) \cup {[f EXCEPT !.series = 2]}
             ELSE drawn2' = f.of /\ flight' = flight \ {f}
  /\ UNCHANGED <<view, viewOpen, selected, autoUpdate, pollTimer, picks, errors>>

\* A failure leaves an empty chart, and a log as it was.
AnswerFails(f) ==
  /\ f \in flight /\ errors < MaxErrors
  /\ errors' = errors + 1
  /\ flight' = flight \ {f}
  /\ IF view = "logs" \/ Cancelled(f) THEN UNCHANGED <<drawn, drawn2>>
     ELSE drawn' = (IF f.series = 1 THEN Nothing_ ELSE drawn) /\ drawn2' = Nothing_
  /\ UNCHANGED <<view, viewOpen, selected, autoUpdate, pollTimer, picks>>

ChartsNext ==
  \/ OpenView \/ CloseView_ \/ TickAuto \/ Interval
  \/ \E s \in Selections : PickSelection(s)
  \/ \E f \in flight : AnswerDrawn(f) \/ AnswerFails(f)

ChartsSpec == ChartsInit /\ [][ChartsNext]_chartVars

\* Every request is answered at last, and intervals go on.
ChartsFairness ==
  /\ WF_chartVars(Interval)
  /\ \A s \in Selections, n \in {1, 2} : WF_chartVars(AnswerDrawn([of |-> s, series |-> n]))

-----------------------------------------------------------------------------
ChartsTypeOK ==
  /\ selected \in Selections /\ pollTimer \in Selections \cup {Nothing_}
  /\ flight \subseteq [of : Selections, series : {1, 2}]
  /\ {drawn, drawn2} \subseteq Selections \cup {Nothing_}
  /\ pollTimer # Nothing_ => Polled(viewOpen, selected, autoUpdate)

\* A view that is polled comes to show what is selected, both series of it, and
\* goes on to: an answer that was overtaken is drawn over and not for good.
ChartHeals == <>[](pollTimer # Nothing_ => drawn = selected /\ drawn2 = selected)
=============================================================================
