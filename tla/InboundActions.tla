---------------------------- MODULE InboundActions ----------------------------
(***************************************************************************)
(* The inbounds page around its dialogs                                    *)
(* (frontend/src/pages/inbounds/InboundsPage.tsx and list/InboundList.tsx):*)
(* the menu of a row, most of whose entries first fetch the whole inbound  *)
(* ("hydrate"), the dialogs they open, the selection and the filter of the *)
(* list with the deletion of what is selected, and the three pickers that  *)
(* attach clients to inbounds and detach them.                             *)
(*                                                                         *)
(* An inbound is the node it runs on and the set of its clients; everything*)
(* else a dialog shows stands for the inbound it was read from.            *)
(***************************************************************************)
EXTENDS Naturals, FiniteSets

CONSTANTS
  Rows,            \* inbounds
  Customers,       \* clients
  NodeOf,          \* the node an inbound runs on
  FirstAttached,   \* the inbounds there are at first, with their clients
  NoRow,           \* no inbound
  MaxPicks         \* bound on the menu entries, buttons and boxes clicked

ASSUME InboundActionsAssumption ==
  /\ DOMAIN NodeOf = Rows /\ DOMAIN FirstAttached \subseteq Rows
  /\ \A i \in DOMAIN FirstAttached : FirstAttached[i] \subseteq Customers
  /\ NoRow \notin Rows /\ MaxPicks \in Nat

Hydrating == {"info", "qr", "attach", "group"}
Direct == {"detach", "existing"}
Pickers == {"attach", "detach", "existing"}
AllNodes == "all"

VARIABLES
  attached,      \* the server: the inbounds that exist, with their clients
  rowsListed,        \* the page's copy of it
  hydrates,      \* menu entries whose inbound is awaited: [key, of]
  shown,         \* dialog -> the inbound it shows, or none
  infoIps,       \* the information dialog: whose addresses are shown
  infoIpAsks,    \* and whose are awaited
  picker,        \* the open picker: the rows that can be ticked, and for whom they were read
  pickerAsks,    \* lists of all clients under way: the opening they are for
  pickerSaving,  \* the request of a picker under way
  selectedRows,  \* selectedRowKeys of the list
  nodeFilter,    \* the filter of the list
  confirm,       \* the confirmation open: [what, of]
  picks,         \* history: clicks so far
  actAlibi       \* history: [openings, seen]: pickers opened, and the rows that
                 \* have been on screen selected

actionVars == <<attached, rowsListed, hydrates, shown, infoIps, infoIpAsks, picker, pickerAsks,
                pickerSaving, selectedRows, nodeFilter, confirm, picks, actAlibi>>

NoPicker == [kind |-> "none", of |-> NoRow, rows |-> {}, selected |-> {}, targets |-> {},
             loading |-> FALSE, read |-> NoRow]
NoRequest == [kind |-> "none"]
NoConfirm == [what |-> "none", of |-> {}]
InboundPresent == DOMAIN attached
Visible == {i \in DOMAIN rowsListed : nodeFilter \in {AllNodes, NodeOf[i]}}
Pick == picks < MaxPicks /\ picks' = picks + 1

InboundActionsInit ==
  /\ attached = FirstAttached
  /\ rowsListed = FirstAttached
  /\ hydrates = {}
  /\ shown = [d \in {"info", "qr", "group"} |-> NoRow]
  /\ infoIps = NoRow /\ infoIpAsks = {}
  /\ picker = NoPicker /\ pickerAsks = {} /\ pickerSaving = NoRequest
  /\ selectedRows = {}
  /\ nodeFilter = AllNodes
  /\ confirm = NoConfirm
  /\ picks = 0
  /\ actAlibi = [openings |-> 0, seen |-> {}]

(***************************************************************************)
(* The menu of a row.                                                      *)
(***************************************************************************)
(* The picker of existing clients keeps the rows and the selection it had   *)
(* until the list of all clients arrives; the others read the inbound.     *)
OpenPicker(kind, i, record) ==
  /\ picker' = [kind |-> kind, of |-> i, targets |-> {},
       rows |-> IF kind = "existing" THEN picker.rows ELSE record,
       selected |-> CASE kind = "existing" -> picker.selected
                      [] kind = "attach" -> record
                      [] kind = "detach" -> {},
       loading |-> kind = "existing",
       read |-> IF kind = "existing" THEN picker.read ELSE i]
  /\ pickerAsks' = IF kind = "existing" THEN pickerAsks \cup {[opening |-> actAlibi.openings + 1, of |-> i]}
                   ELSE pickerAsks
  /\ actAlibi' = [actAlibi EXCEPT !.openings = @ + 1]

(* A dialog opens for an inbound; the one with the information forgets the  *)
(* addresses it showed and asks for those of the first client.             *)
OpenFor(key, i, record) ==
  IF key \in Pickers
  THEN OpenPicker(key, i, record) /\ UNCHANGED <<shown, infoIps, infoIpAsks>>
  ELSE /\ shown' = [shown EXCEPT ![key] = i]
       /\ infoIps' = IF key = "info" THEN NoRow ELSE infoIps
       /\ infoIpAsks' = IF key = "info" /\ record # {} THEN infoIpAsks \cup {i} ELSE infoIpAsks
       /\ UNCHANGED <<picker, pickerAsks, actAlibi>>

(* A dialog covers the page: while one is open no menu can be reached.      *)
Reachable == /\ \A d \in DOMAIN shown : shown[d] = NoRow
             /\ picker.kind = "none" /\ confirm = NoConfirm

onRowAction(key, i) ==
  /\ Reachable /\ Pick
  /\ i \in Visible
  /\ IF key \in Hydrating
     THEN /\ hydrates' = hydrates \cup {[key |-> key, of |-> i]}
          /\ UNCHANGED <<shown, infoIps, infoIpAsks, picker, pickerAsks, actAlibi>>
     ELSE OpenFor(key, i, rowsListed[i]) /\ UNCHANGED hydrates
  /\ UNCHANGED <<attached, rowsListed, pickerSaving, selectedRows, nodeFilter, confirm>>

(* The inbound arrives, or the row of the list has to do.                   *)
InboundHydrated(h) ==
  /\ h \in hydrates
  /\ hydrates' = hydrates \ {h}
  /\ \/ h.of \in InboundPresent /\ OpenFor(h.key, h.of, attached[h.of])
     \/ h.of \in DOMAIN rowsListed /\ OpenFor(h.key, h.of, rowsListed[h.of])
     \/ h.of \notin DOMAIN rowsListed \cup InboundPresent /\ OpenFor(h.key, h.of, {})
  /\ UNCHANGED <<attached, rowsListed, pickerSaving, selectedRows, nodeFilter, confirm, picks>>

CloseDialog(d) ==
  /\ shown[d] # NoRow
  /\ shown' = [shown EXCEPT ![d] = NoRow]
  /\ UNCHANGED <<attached, rowsListed, hydrates, infoIps, infoIpAsks, picker, pickerAsks,
                 pickerSaving, selectedRows, nodeFilter, confirm, picks, actAlibi>>

(* The addresses arrive and are shown in whatever dialog is open by then.   *)
InfoIpsArrive(i) ==
  /\ i \in infoIpAsks
  /\ infoIpAsks' = infoIpAsks \ {i}
  /\ infoIps' = i
  /\ UNCHANGED <<attached, rowsListed, hydrates, shown, picker, pickerAsks, pickerSaving,
                 selectedRows, nodeFilter, confirm, picks, actAlibi>>

clearClientIps ==
  /\ shown["info"] # NoRow /\ infoIps # NoRow
  /\ infoIps' = NoRow
  /\ UNCHANGED <<attached, rowsListed, hydrates, shown, infoIpAsks, picker, pickerAsks, pickerSaving,
                 selectedRows, nodeFilter, confirm, picks, actAlibi>>

(***************************************************************************)
(* The pickers.                                                            *)
(***************************************************************************)
pickerRest == <<attached, rowsListed, hydrates, shown, infoIps, infoIpAsks, selectedRows,
                nodeFilter, confirm>>

(* Whatever dialog is open, the answer fills the rows.                      *)
AnyListAnswers(ask) ==
  /\ ask \in pickerAsks
  /\ pickerAsks' = pickerAsks \ {ask}
  /\ \E free \in {IF ask.of \in InboundPresent THEN Customers \ attached[ask.of] ELSE Customers, {}} :
       picker' = [picker EXCEPT !.rows = free, !.selected = free, !.loading = FALSE, !.read = ask.of]
  /\ UNCHANGED <<pickerRest, pickerSaving, picks, actAlibi>>

(* The list of all clients, of which those not attached can be ticked: of no *)
(* use to a picker that is closed or another ("cancelled"); a failure lists *)
(* nobody.                                                                 *)
PickListAnswers(ask) ==
  /\ ask \in pickerAsks
  /\ pickerAsks' = pickerAsks \ {ask}
  /\ IF picker.kind = "existing" /\ ask.opening = actAlibi.openings
     THEN \E free \in {IF ask.of \in InboundPresent THEN Customers \ attached[ask.of] ELSE Customers, {}} :
            picker' = [picker EXCEPT !.rows = free, !.selected = free,
                                     !.loading = FALSE, !.read = ask.of]
     ELSE UNCHANGED picker
  /\ UNCHANGED <<pickerRest, pickerSaving, picks, actAlibi>>

ToggleCustomer(c) ==
  /\ picker.kind # "none" /\ c \in picker.rows /\ ~picker.loading
  /\ Pick
  /\ picker' = [picker EXCEPT !.selected = (@ \ {c}) \cup ({c} \ @)]
  /\ UNCHANGED <<pickerRest, pickerAsks, pickerSaving, actAlibi>>

PickTarget(i) ==
  /\ picker.kind = "attach" /\ i \in DOMAIN rowsListed \ {picker.of}
  /\ Pick
  /\ picker' = [picker EXCEPT !.targets = (@ \ {i}) \cup ({i} \ @)]
  /\ UNCHANGED <<pickerRest, pickerAsks, pickerSaving, actAlibi>>

(* A picker that closes keeps its rows and its selection.                   *)
ClosePicker ==
  /\ picker.kind # "none"
  /\ picker' = [picker EXCEPT !.kind = "none"]
  /\ UNCHANGED <<pickerRest, pickerAsks, pickerSaving, picks, actAlibi>>

SubmitPicker ==
  LET on == IF picker.kind = "attach" THEN picker.targets ELSE {picker.of} IN
  /\ picker.kind # "none" /\ pickerSaving = NoRequest
  /\ picker.selected # {} /\ on # {}
  /\ pickerSaving' = [kind |-> IF picker.kind = "detach" THEN "detach" ELSE "attach",
       by |-> picker.kind, emails |-> picker.selected, on |-> on,
       blind |-> picker.loading, read |-> picker.read]
  /\ Pick
  /\ UNCHANGED <<pickerRest, picker, pickerAsks, actAlibi>>

(* The server attaches or detaches; inbounds deleted meanwhile are skipped. *)
(* Success refreshes the page and closes the picker that is open.          *)
PickerAnswered(ok) ==
  LET s == pickerSaving IN
  /\ s # NoRequest
  /\ pickerSaving' = NoRequest
  /\ IF ok
     THEN /\ attached' = [i \in InboundPresent |->
               IF i \notin s.on THEN attached[i]
               ELSE IF s.kind = "attach" THEN attached[i] \cup s.emails
               ELSE attached[i] \ s.emails]
          /\ rowsListed' = attached'
          /\ picker' = [picker EXCEPT !.kind = "none"]
     ELSE UNCHANGED <<attached, rowsListed, picker>>
  /\ UNCHANGED <<hydrates, shown, infoIps, infoIpAsks, pickerAsks, selectedRows,
                 nodeFilter, confirm, picks, actAlibi>>

(***************************************************************************)
(* The list: filter, selection, deletion.                                  *)
(***************************************************************************)
listRest == <<attached, hydrates, shown, infoIps, infoIpAsks, picker, pickerAsks, pickerSaving>>
Seen(sel) == actAlibi' = [actAlibi EXCEPT !.seen = @ \cup sel]

FilterNodes(n) ==
  /\ Reachable /\ Pick
  /\ nodeFilter' = n
  /\ UNCHANGED <<listRest, rowsListed, selectedRows, confirm, actAlibi>>

toggleSelectInbound(i) ==
  /\ Reachable /\ Pick
  /\ i \in Visible
  /\ selectedRows' = (selectedRows \ {i}) \cup ({i} \ selectedRows)
  /\ Seen({i})
  /\ UNCHANGED <<listRest, rowsListed, nodeFilter, confirm>>

(* The box above the list: everything listed, hidden or not.                *)
SelectListed ==
  /\ Reachable /\ Pick
  /\ selectedRows' = IF Cardinality(selectedRows) = Cardinality(Visible) THEN {} ELSE DOMAIN rowsListed
  /\ Seen(Visible)
  /\ UNCHANGED <<listRest, rowsListed, nodeFilter, confirm>>

(* The box is checked when as many are selected as are visible.             *)
selectAllInbounds ==
  /\ Reachable /\ Pick
  /\ selectedRows' = IF Cardinality(selectedRows) = Cardinality(Visible) THEN {} ELSE Visible
  /\ Seen(Visible)
  /\ UNCHANGED <<listRest, rowsListed, nodeFilter, confirm>>

confirmDelete(i) ==
  /\ Reachable /\ Pick
  /\ i \in Visible
  /\ confirm' = [what |-> "delete", of |-> {i}]
  /\ Seen({i})
  /\ UNCHANGED <<listRest, rowsListed, selectedRows, nodeFilter>>

confirmBulkDelete ==
  /\ Reachable /\ Pick
  /\ selectedRows # {}
  /\ confirm' = [what |-> "bulk", of |-> selectedRows]
  /\ UNCHANGED <<listRest, rowsListed, selectedRows, nodeFilter, actAlibi>>

(* Deleting everything selected clears the selection, whether or not the    *)
(* server refused; deleting one row does not.                              *)
Confirmed(ok) ==
  /\ confirm # NoConfirm
  /\ attached' = IF ok THEN [i \in InboundPresent \ confirm.of |-> attached[i]] ELSE attached
  /\ rowsListed' = IF ok \/ confirm.what = "bulk" THEN attached' ELSE rowsListed
  /\ selectedRows' = IF confirm.what = "bulk" THEN {} ELSE selectedRows
  /\ confirm' = NoConfirm
  /\ UNCHANGED <<hydrates, shown, infoIps, infoIpAsks, picker, pickerAsks, pickerSaving,
                 nodeFilter, picks, actAlibi>>

Dismissed ==
  /\ confirm # NoConfirm
  /\ confirm' = NoConfirm
  /\ UNCHANGED <<listRest, rowsListed, selectedRows, nodeFilter, picks, actAlibi>>

(* Another administrator deletes an inbound; the page refreshes when told.  *)
DeletedElsewhere(i) ==
  /\ i \in InboundPresent /\ Pick
  /\ attached' = [x \in InboundPresent \ {i} |-> attached[x]]
  /\ UNCHANGED <<rowsListed, hydrates, shown, infoIps, infoIpAsks, picker, pickerAsks, pickerSaving,
                 selectedRows, nodeFilter, confirm, actAlibi>>

refresh ==
  /\ rowsListed # attached
  /\ rowsListed' = attached
  /\ UNCHANGED <<listRest, selectedRows, nodeFilter, confirm, picks, actAlibi>>

InboundActionsNext ==
  \/ \E i \in Rows :
       \/ \E key \in Hydrating \cup Direct : onRowAction(key, i)
       \/ InfoIpsArrive(i) \/ PickTarget(i) \/ toggleSelectInbound(i) \/ confirmDelete(i)
       \/ DeletedElsewhere(i)
  \/ \E h \in hydrates : InboundHydrated(h)
  \/ \E d \in DOMAIN shown : CloseDialog(d)
  \/ \E ask \in pickerAsks : PickListAnswers(ask)
  \/ \E c \in Customers : ToggleCustomer(c)
  \/ \E n \in {AllNodes} \cup {NodeOf[i] : i \in Rows} : FilterNodes(n)
  \/ \E ok \in BOOLEAN : PickerAnswered(ok) \/ Confirmed(ok)
  \/ clearClientIps \/ ClosePicker \/ SubmitPicker \/ selectAllInbounds \/ confirmBulkDelete
  \/ Dismissed \/ refresh

InboundActionsSpec == InboundActionsInit /\ [][InboundActionsNext]_actionVars

-----------------------------------------------------------------------------
InboundActionsTypeOK ==
  /\ InboundPresent \subseteq Rows /\ DOMAIN rowsListed \subseteq Rows
  /\ selectedRows \subseteq Rows
  /\ picker.selected \subseteq picker.rows
  /\ picker.kind \in {"attach", "detach"} => picker.read = picker.of

(* What a picker of existing clients sends to an inbound was listed for that*)
(* inbound, however the lists of several openings arrive; except when it is *)
(* submitted before its list has come, which the page allows.              *)
PickedForItsInbound ==
  pickerSaving # NoRequest /\ ~pickerSaving.blind =>
    \/ pickerSaving.by = "attach"
    \/ pickerSaving.on = {pickerSaving.read}

(* An inbound that is selected has been on screen since the page opened, so *)
(* deleting the selection deletes nothing the operator has not seen.       *)
SelectionSeen == selectedRows \cup confirm.of \subseteq actAlibi.seen
=============================================================================
