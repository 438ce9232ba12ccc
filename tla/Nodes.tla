-------------------------------- MODULE Nodes --------------------------------
(***************************************************************************)
(* The nodes page (frontend/src/pages/nodes/): the table of the remote     *)
(* panels, the dialog that adds or edits one, and the confirmation that    *)
(* updates the panels of the selected ones.  The dialog asks the node for  *)
(* its certificate and for its inbounds while it is being filled in, tests *)
(* the connection before it saves, and stays open until the save has been  *)
(* answered.  A machine is identified with its certificate and its inbound *)
(* tags.                                                                   *)
(***************************************************************************)
EXTENDS Naturals, FiniteSets

CONSTANTS
  NodeIds,       \* the ids nodes may have
  Machines,      \* the panels that may be reached
  PlainMachines, \* those that serve http
  Trusted,       \* those whose certificate a public authority signed
  NoNode, NoPin,
  MaxNodeTyped,      \* bound: changes typed in the dialog
  MaxNodeClicks,     \* bound: clicks on the page
  MaxFlips       \* bound: machines going up or down

ASSUME NodesAssumption == PlainMachines \subseteq Machines /\ NoPin \notin Machines
                          /\ NoNode \notin NodeIds

VARIABLES
  nodeRows,     \* the server: id -> node, or NoNode
  up,           \* the machines that answer
  nodesListed,       \* the list of the page, with what it says of each node's status
  form,         \* the dialog
  asks,         \* requests of the dialog under way: at most one of a kind
  selectedIds,
  confirming,   \* the open confirmation of an update
  devRef,       \* the channel the next update is sent with
  updates,      \* the last update sent
  reached,      \* history: the connection that the dialog's last test found to work
  clicks_, typed_, flips

nodeVars == <<nodeRows, up, nodesListed, form, asks, selectedIds, confirming, devRef, updates,
              reached, clicks_, typed_, flips>>

Shut == [mode |-> "closed"]

\* defaultValues: https, verified by an authority.
defaultValues(m) == [address |-> m, scheme |-> "https", verify |-> "verify", pin |-> NoPin,
                     tags |-> "all", enable |-> TRUE]

buildPayload(f) == [f EXCEPT !.pin = IF f.verify = "pin" THEN @ ELSE NoPin]

\* What of a node decides whether it is reached.
Connection(n) == [address |-> n.address, scheme |-> n.scheme, verify |-> n.verify, pin |-> n.pin]

\* Probe, for the machines that answer.
Online(n) ==
  /\ n.address \in up
  /\ (n.scheme = "http") = (n.address \in PlainMachines)
  /\ \/ n.scheme = "http" \/ n.verify = "skip"
     \/ n.verify = "verify" /\ n.address \in Trusted
     \/ n.verify = "pin" /\ n.pin = n.address

NodeStored(i) == nodeRows[i] # NoNode
Listing == [rows |-> nodeRows, online |-> {i \in NodeIds : NodeStored(i) /\ Online(nodeRows[i])}]

\* One node, as it was added: over http, or with its certificate pinned.
FirstNode(m) ==
  LET plain == m \in PlainMachines
  IN [address |-> m, scheme |-> IF plain THEN "http" ELSE "https",
      verify |-> IF plain THEN "skip" ELSE "pin", pin |-> IF plain THEN NoPin ELSE m,
      tags |-> "all", enable |-> TRUE]
FirstNodes(m) == [j \in NodeIds |-> IF j = CHOOSE i \in NodeIds : TRUE THEN FirstNode(m) ELSE NoNode]

NodesInit ==
  /\ \E m \in Machines : nodeRows = FirstNodes(m)
  /\ up = Machines
  /\ nodesListed = Listing
  /\ form = Shut /\ asks = {} /\ selectedIds = {}
  /\ confirming = Shut /\ devRef = FALSE /\ updates = NoNode /\ reached = NoNode
  /\ clicks_ = 0 /\ typed_ = 0 /\ flips = 0

\* The dialogs cover the page.
Click_ == form = Shut /\ confirming = Shut /\ clicks_ < MaxNodeClicks /\ clicks_' = clicks_ + 1

-----------------------------------------------------------------------------
(* The dialog *)

onAddNode ==
  /\ Click_
  /\ \E m \in Machines :
       form' = [mode |-> "add", id |-> NoNode, fields |-> defaultValues(m), options |-> NoPin,
                submitting |-> FALSE, opened |-> NoNode, touched |-> TRUE]
  /\ reached' = NoNode
  /\ UNCHANGED <<nodeRows, up, nodesListed, asks, selectedIds, confirming, devRef, updates, typed_, flips>>

\* The row as it is listed; a node reached over http is never verified.
Seeded(n) == IF n.scheme = "http" THEN [n EXCEPT !.verify = "skip"] ELSE n

onEditNode(i) ==
  /\ Click_
  /\ nodesListed.rows[i] # NoNode
  /\ LET n == Seeded(nodesListed.rows[i])
     IN form' = [mode |-> "edit", id |-> i, fields |-> n, options |-> NoPin,
                 submitting |-> FALSE, opened |-> n, touched |-> FALSE]
  /\ reached' = NoNode
  /\ UNCHANGED <<nodeRows, up, nodesListed, asks, selectedIds, confirming, devRef, updates, typed_, flips>>

Types_(f) ==
  /\ form # Shut /\ typed_ < MaxNodeTyped
  /\ f # form.fields
  /\ form' = [form EXCEPT !.fields = f, !.touched = TRUE]
  /\ typed_' = typed_ + 1
  /\ UNCHANGED <<nodeRows, up, nodesListed, asks, selectedIds, confirming, devRef, updates, reached,
                 clicks_, flips>>

\* Choosing http switches the verification off, and choosing https leaves it off.
PickScheme(s) ==
  form # Shut /\ Types_([form.fields EXCEPT !.scheme = s, !.verify = IF s = "http" THEN "skip" ELSE @])

TypeNode ==
  /\ form # Shut
  /\ \/ \E m \in Machines : Types_([form.fields EXCEPT !.address = m])
     \/ \E v \in {"verify", "skip", "pin"} :
          form.fields.scheme = "https" /\ Types_([form.fields EXCEPT !.verify = v])
     \/ \E m \in Machines :
          form.fields.verify = "pin" /\ Types_([form.fields EXCEPT !.pin = m])
     \/ form.options # NoPin /\ Types_([form.fields EXCEPT !.tags = form.options])

\* A request made with what the dialog shows; its button waits for the answer.
Ask(kind) ==
  /\ form # Shut
  /\ \A a \in asks : a.kind # kind
  /\ asks' = asks \cup {[kind |-> kind, of |-> buildPayload(form.fields)]}
  /\ UNCHANGED <<nodeRows, up, nodesListed, form, selectedIds, confirming, devRef, updates, reached,
                 clicks_, typed_, flips>>

onFetchPin == form # Shut /\ form.fields.verify = "pin" /\ Ask("pin")
onFetchInbounds == Ask("inbounds")

\* The answer goes to the dialog that is open by then.
FormHelped(a) ==
  CASE a.kind = "pin" /\ a.of.address \in up \ PlainMachines /\ a.of.scheme = "https" /\ form # Shut ->
         [form EXCEPT !.fields.pin = a.of.address]
    [] a.kind = "inbounds" /\ Online(a.of) /\ form # Shut -> [form EXCEPT !.options = a.of.address]
    [] OTHER -> form

HelpAnswered(a) ==
  /\ a \in asks /\ a.kind \in {"pin", "inbounds"}
  /\ form' = FormHelped(a)
  /\ asks' = asks \ {a}
  /\ UNCHANGED <<nodeRows, up, nodesListed, selectedIds, confirming, devRef, updates, reached,
                 clicks_, typed_, flips>>

\* onFinish: the connection is tested with the values that will be saved.
onFinish ==
  /\ form # Shut /\ ~form.submitting
  /\ asks' = asks \cup {[kind |-> "test", of |-> buildPayload(form.fields)]}
  /\ form' = [form EXCEPT !.submitting = TRUE]
  /\ UNCHANGED <<nodeRows, up, nodesListed, selectedIds, confirming, devRef, updates, reached,
                 clicks_, typed_, flips>>

\* Mutant: what is saved is read from the dialog when the test is answered.
SavesWhatIsShown(a) ==
  /\ a \in asks /\ a.kind = "test"
  /\ IF Online(a.of)
     THEN /\ asks' = (asks \ {a}) \cup {[kind |-> "save", of |-> buildPayload(form.fields)]}
          /\ reached' = Connection(a.of)
          /\ form' = form
     ELSE /\ asks' = asks \ {a}
          /\ form' = [form EXCEPT !.submitting = FALSE]
          /\ reached' = reached
  /\ UNCHANGED <<nodeRows, up, nodesListed, selectedIds, confirming, devRef, updates, clicks_,
                 typed_, flips>>

\* The values that were tested are saved, and nothing when the node was not reached.
FinishTested(a) ==
  /\ a \in asks /\ a.kind = "test"
  /\ IF Online(a.of)
     THEN /\ asks' = (asks \ {a}) \cup {[kind |-> "save", of |-> a.of]}
          /\ reached' = Connection(a.of)
          /\ form' = form
     ELSE /\ asks' = asks \ {a}
          /\ form' = [form EXCEPT !.submitting = FALSE]
          /\ reached' = reached
  /\ UNCHANGED <<nodeRows, up, nodesListed, selectedIds, confirming, devRef, updates, clicks_,
                 typed_, flips>>

\* update and create; a pin is required to be one.  The list is asked for again.
SaveAnswered_(a) ==
  /\ a \in asks /\ a.kind = "save"
  /\ asks' = asks \ {a}
  /\ \/ /\ ~(a.of.verify = "pin" /\ a.of.pin = NoPin)
        /\ \E i \in {j \in NodeIds : IF form.mode = "edit" THEN j = form.id /\ NodeStored(j) ELSE ~NodeStored(j)} :
             nodeRows' = [nodeRows EXCEPT ![i] = a.of]
        /\ form' = Shut
     \/ nodeRows' = nodeRows /\ form' = [form EXCEPT !.submitting = FALSE]
  /\ UNCHANGED <<up, nodesListed, selectedIds, confirming, devRef, updates, reached, clicks_,
                 typed_, flips>>

close == form # Shut /\ ~form.submitting /\ form' = Shut
         /\ UNCHANGED <<nodeRows, up, nodesListed, asks, selectedIds, confirming, devRef, updates,
                        reached, clicks_, typed_, flips>>

-----------------------------------------------------------------------------
(* The table *)

\* useNodesQuery: after a change, a probe or an interval.
ListArrives ==
  /\ nodesListed # Listing
  /\ nodesListed' = Listing
  /\ UNCHANGED <<nodeRows, up, form, asks, selectedIds, confirming, devRef, updates, reached,
                 clicks_, typed_, flips>>

onToggleEnable_(i) ==
  /\ Click_ /\ NodeStored(i) /\ nodesListed.rows[i] # NoNode
  /\ nodeRows' = [nodeRows EXCEPT ![i].enable = ~nodesListed.rows[i].enable]
  /\ UNCHANGED <<up, nodesListed, form, asks, selectedIds, confirming, devRef, updates, reached,
                 typed_, flips>>

onDelete_(i) ==
  /\ Click_ /\ nodesListed.rows[i] # NoNode
  /\ nodeRows' = [nodeRows EXCEPT ![i] = NoNode]
  /\ UNCHANGED <<up, nodesListed, form, asks, selectedIds, confirming, devRef, updates, reached,
                 typed_, flips>>

isUpdateEligible(i) == nodesListed.rows[i] # NoNode /\ nodesListed.rows[i].enable /\ i \in nodesListed.online

SelectNode(i) ==
  /\ Click_ /\ isUpdateEligible(i)
  /\ selectedIds' = IF i \in selectedIds THEN selectedIds \ {i} ELSE selectedIds \cup {i}
  /\ UNCHANGED <<nodeRows, up, nodesListed, form, asks, confirming, devRef, updates, reached,
                 typed_, flips>>

\* A confirmation starts with the stable channel.
ConfirmsUpdate(ids) ==
  /\ Click_ /\ ids # {}
  /\ confirming' = [mode |-> "update", ids |-> ids, shown |-> FALSE]
  /\ devRef' = FALSE
  /\ UNCHANGED <<nodeRows, up, nodesListed, form, asks, selectedIds, updates, reached, typed_, flips>>

\* The button of a row, which is there for eligible nodes, and the one above the table.
onUpdateNode(i) == isUpdateEligible(i) /\ ConfirmsUpdate({i})
onUpdateSelected == ConfirmsUpdate({i \in selectedIds : isUpdateEligible(i)})

UpdateChannelChoice ==
  /\ confirming # Shut
  /\ confirming' = [confirming EXCEPT !.shown = ~@]
  /\ devRef' = ~confirming.shown
  /\ UNCHANGED <<nodeRows, up, nodesListed, form, asks, selectedIds, updates, reached, clicks_,
                 typed_, flips>>

\* runUpdate: a success clears the selection; the confirmation closes either way.
runUpdate(ok) ==
  /\ confirming # Shut
  /\ updates' = [dev |-> devRef, shown |-> confirming.shown]
  /\ selectedIds' = IF ok THEN {} ELSE selectedIds
  /\ confirming' = Shut
  /\ UNCHANGED <<nodeRows, up, nodesListed, form, asks, devRef, reached, clicks_, typed_, flips>>

CancelUpdate ==
  /\ confirming # Shut
  /\ confirming' = Shut
  /\ UNCHANGED <<nodeRows, up, nodesListed, form, asks, selectedIds, devRef, updates, reached,
                 clicks_, typed_, flips>>

MachineFlips(m) ==
  /\ flips < MaxFlips
  /\ up' = IF m \in up THEN up \ {m} ELSE up \cup {m}
  /\ flips' = flips + 1
  /\ UNCHANGED <<nodeRows, nodesListed, form, asks, selectedIds, confirming, devRef, updates,
                 reached, clicks_, typed_>>

NodesNext ==
  \/ onAddNode \/ TypeNode \/ \E s \in {"http", "https"} : PickScheme(s)
  \/ onFetchPin \/ onFetchInbounds \/ onFinish \/ close
  \/ \E a \in asks : HelpAnswered(a) \/ FinishTested(a) \/ SaveAnswered_(a)
  \/ ListArrives \/ onUpdateSelected \/ UpdateChannelChoice \/ CancelUpdate
  \/ \E ok \in BOOLEAN : runUpdate(ok)
  \/ \E i \in NodeIds :
       \/ onEditNode(i) \/ onToggleEnable_(i) \/ onDelete_(i) \/ SelectNode(i) \/ onUpdateNode(i)
  \/ \E m \in Machines : MachineFlips(m)

NodesSpec == NodesInit /\ [][NodesNext]_nodeVars

-----------------------------------------------------------------------------
NodesTypeOK ==
  /\ up \subseteq Machines /\ selectedIds \subseteq NodeIds /\ devRef \in BOOLEAN
  /\ form = Shut \/ form.fields.pin \in Machines \cup {NoPin}
  /\ \A a, b \in asks : a.kind = b.kind => a = b

\* A dialog stores a node only with the connection that its test found to work,
\* whatever was typed or answered while it was tested and saved: a late answer
\* with another node's certificate never becomes the pin of this one.
SavedWasReached ==
  \A i \in NodeIds :
    (form # Shut /\ nodeRows'[i] # nodeRows[i]) => Connection(nodeRows'[i]) = reached

\* A dialog that was opened and saved without a change stores the node it was
\* opened with.
UntouchedNodeKept ==
  \A i \in NodeIds :
    (form # Shut /\ form' = Shut /\ nodeRows'[i] # nodeRows[i] /\ ~form.touched)
      => i = form.id /\ nodeRows'[i] = buildPayload(form.opened)

\* The panels are updated to the channel that their confirmation showed.
ChannelAsShown == updates # NoNode => updates.dev = updates.shown
=============================================================================
