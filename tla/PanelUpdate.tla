----------------------------- MODULE PanelUpdate ------------------------------
(***************************************************************************)
(* The dashboard's update of the panel by itself                           *)
(* (frontend/src/pages/index/PanelUpdateModal, IndexPage).  The server     *)
(* starts a script under a run id and keeps the run in memory; the script  *)
(* stops the panel, starts another one and leaves its result in a file,    *)
(* which may still hold the result of an earlier run.  The page waits for  *)
(* the result of its own run under an overlay that all the operations of   *)
(* the dashboard share.                                                    *)
(***************************************************************************)
EXTENDS Naturals

CONSTANTS
  MaxRuns,    \* bound: updates started, by this page or by somebody else
  MaxPolls,   \* the polls that fit before the deadline
  MaxTasks    \* bound: other operations of the dashboard

ASSUME UpdateAssumption == MaxRuns \in Nat /\ MaxPolls \in Nat \ {0} /\ MaxTasks \in Nat

VARIABLES
  serving,    \* the panel answers
  slot,       \* the run the panel has in memory, 0 for none
  scripts,    \* the runs whose script is at work
  file,       \* the status file: the run and its state
  endings,    \* history: run -> how its script ended
  runs,       \* the number of runs started
  page_,      \* what the page does: "idle", "asking", "polling", "told", "reloaded"
  expected,   \* the run the page waits for
  pollsLeft,
  outcome,    \* what the page concluded
  busy,       \* loading: the overlay is asked for
  spinning,   \* the overlay is shown, which it is after a delay
  tasks,      \* the other operation under way: "none", "config", "awg"
  updateOpen, \* the dialog of the update is open
  overlapped, \* history: an operation ended while an update was under way
  started     \* the operations started

updateVars == <<serving, slot, scripts, file, endings, runs, page_, expected, pollsLeft, outcome,
                busy, spinning, tasks, updateOpen, overlapped, started>>

NoFile == [run |-> 0, state |-> "pending"]

PanelUpdateInit ==
  /\ serving = TRUE /\ slot = 0 /\ scripts = {} /\ file = NoFile
  /\ endings = [r \in 1..MaxRuns |-> "none"] /\ runs = 0
  /\ page_ = "idle" /\ expected = 0 /\ pollsLeft = 0 /\ outcome = "none"
  /\ busy = FALSE /\ spinning = FALSE /\ tasks = "none" /\ updateOpen = FALSE
  /\ overlapped = FALSE /\ started = 0

-----------------------------------------------------------------------------
(* The server *)

\* acquireUpdateSlot: one run at a time, as long as the panel remembers it and
\* the file does not say that it has ended.
SlotFree == slot = 0 \/ (file.run = slot /\ file.state # "pending")

Launches ==
  /\ runs' = runs + 1
  /\ slot' = runs'
  /\ scripts' = scripts \cup {runs'}

\* Somebody else updates the panel, or a master node does.
OthersUpdate ==
  /\ runs < MaxRuns /\ serving /\ SlotFree
  /\ Launches
  /\ UNCHANGED <<serving, file, endings, page_, expected, pollsLeft, outcome, busy, spinning,
                 tasks, updateOpen, overlapped, started>>

\* The panel that is started again remembers no run.
ScriptStops ==
  /\ scripts # {} /\ serving
  /\ serving' = FALSE /\ slot' = 0
  /\ UNCHANGED <<scripts, file, endings, runs, page_, expected, pollsLeft, outcome, busy,
                 spinning, tasks, updateOpen, overlapped, started>>

PanelStarts ==
  /\ ~serving
  /\ serving' = TRUE
  /\ UNCHANGED <<slot, scripts, file, endings, runs, page_, expected, pollsLeft, outcome, busy,
                 spinning, tasks, updateOpen, overlapped, started>>

\* update.sh writes its result as it exits, unless it is killed.
ScriptEnds(r, how) ==
  /\ r \in scripts
  /\ scripts' = scripts \ {r}
  /\ endings' = [endings EXCEPT ![r] = how]
  /\ file' = IF how = "killed" THEN file ELSE [run |-> r, state |-> how]
  /\ UNCHANGED <<serving, slot, runs, page_, expected, pollsLeft, outcome, busy, spinning,
                 tasks, updateOpen, overlapped, started>>

-----------------------------------------------------------------------------
(* The page *)

Reachable_ == ~spinning /\ ~updateOpen /\ page_ = "idle"

openPanelVersion ==
  /\ Reachable_
  /\ updateOpen' = TRUE
  /\ UNCHANGED <<serving, slot, scripts, file, endings, runs, page_, expected, pollsLeft,
                 outcome, busy, spinning, tasks, overlapped, started>>

closePanelVersion ==
  /\ updateOpen /\ page_ = "idle"
  /\ updateOpen' = FALSE
  /\ UNCHANGED <<serving, slot, scripts, file, endings, runs, page_, expected, pollsLeft,
                 outcome, busy, spinning, tasks, overlapped, started>>

\* updatePanel, confirmed: the dialog closes and the overlay is asked for.
updatePanel ==
  /\ updateOpen /\ page_ = "idle"
  /\ updateOpen' = FALSE
  /\ page_' = "asking" /\ busy' = TRUE /\ overlapped' = FALSE
  /\ UNCHANGED <<serving, slot, scripts, file, endings, runs, expected, pollsLeft, outcome,
                 spinning, tasks, started>>

UpdateStarted ==
  /\ page_ = "asking" /\ serving /\ SlotFree /\ runs < MaxRuns
  /\ Launches
  /\ page_' = "polling" /\ expected' = runs' /\ pollsLeft' = MaxPolls
  /\ UNCHANGED <<serving, file, endings, outcome, busy, spinning, tasks, updateOpen,
                 overlapped, started>>

\* It is refused, or the panel does not answer.
UpdateRefused ==
  /\ page_ = "asking"
  /\ page_' = "idle" /\ busy' = FALSE /\ spinning' = FALSE
  /\ UNCHANGED <<serving, slot, scripts, file, endings, runs, expected, pollsLeft, outcome,
                 tasks, updateOpen, overlapped, started>>

\* The result counts when it is that of the run the page started.
ResultIsOurs == file.run = expected /\ file.state # "pending"

\* pollUpdateStatus: a poll that fails is repeated, until the deadline.
pollUpdateStatus ==
  /\ page_ = "polling" /\ pollsLeft > 0
  /\ IF serving /\ ResultIsOurs
     THEN /\ outcome' = file.state /\ page_' = "told" /\ busy' = FALSE /\ spinning' = FALSE
          /\ pollsLeft' = pollsLeft
     ELSE /\ pollsLeft' = pollsLeft - 1
          /\ UNCHANGED <<outcome, page_, busy, spinning>>
  /\ UNCHANGED <<serving, slot, scripts, file, endings, runs, expected, tasks, updateOpen,
                 overlapped, started>>

DeadlinePasses ==
  /\ page_ = "polling" /\ pollsLeft = 0
  /\ outcome' = "timeout" /\ page_' = "told" /\ busy' = FALSE /\ spinning' = FALSE
  /\ UNCHANGED <<serving, slot, scripts, file, endings, runs, expected, pollsLeft, tasks,
                 updateOpen, overlapped, started>>

\* The page is loaded again: by itself after a success, by the operator otherwise.
Reload ==
  /\ page_ = "told"
  /\ page_' = "idle" /\ outcome' = "none" /\ expected' = 0 /\ pollsLeft' = 0
  /\ busy' = FALSE /\ spinning' = FALSE /\ tasks' = "none" /\ updateOpen' = FALSE
  /\ overlapped' = FALSE
  /\ UNCHANGED <<serving, slot, scripts, file, endings, runs, started>>

\* The overlay covers the cards 200 ms after it was asked for.
SpinShows ==
  /\ busy /\ ~spinning
  /\ spinning' = TRUE
  /\ UNCHANGED <<serving, slot, scripts, file, endings, runs, page_, expected, pollsLeft,
                 outcome, busy, tasks, updateOpen, overlapped, started>>

\* openConfig, startAwg, stopAwg, restartAwg: the overlay goes when they end.
StartTask(kind) ==
  /\ Reachable_ /\ tasks = "none" /\ started < MaxTasks
  /\ tasks' = kind /\ busy' = TRUE /\ started' = started + 1
  /\ UNCHANGED <<serving, slot, scripts, file, endings, runs, page_, expected, pollsLeft,
                 outcome, spinning, updateOpen, overlapped>>

\* A task that ends takes away the overlay, of an update that was started within
\* the delay as well.
EndTask ==
  /\ tasks # "none"
  /\ tasks' = "none" /\ busy' = FALSE /\ spinning' = FALSE
  /\ overlapped' = (page_ \in {"asking", "polling"})
  /\ UNCHANGED <<serving, slot, scripts, file, endings, runs, page_, expected, pollsLeft,
                 outcome, updateOpen, started>>

PanelUpdateNext ==
  \/ OthersUpdate \/ ScriptStops \/ PanelStarts
  \/ \E r \in scripts, how \in {"success", "failed", "killed"} : ScriptEnds(r, how)
  \/ openPanelVersion \/ closePanelVersion \/ updatePanel \/ UpdateStarted \/ UpdateRefused
  \/ pollUpdateStatus \/ DeadlinePasses \/ Reload \/ SpinShows
  \/ \E kind \in {"config", "awg"} : StartTask(kind)
  \/ EndTask

PanelUpdateSpec == PanelUpdateInit /\ [][PanelUpdateNext]_updateVars

-----------------------------------------------------------------------------
PanelUpdateTypeOK ==
  /\ scripts \subseteq 1..runs /\ slot \in 0..runs /\ expected \in 0..runs
  /\ spinning => busy

\* The page reports the result of the run it started, never that of an earlier
\* run whose file was still there or of one that somebody else started.
OutcomeIsOurs == outcome \in {"success", "failed"} => endings[expected] = outcome

\* The page is covered for as long as the update it started is under way, unless
\* an operation begun before the overlay was up has ended meanwhile; and an
\* overlay is there for something.
CoveredWhileBusy ==
  /\ (page_ \in {"asking", "polling"} /\ ~overlapped) => busy
  /\ busy => page_ \in {"asking", "polling"} \/ tasks # "none"
=============================================================================
