----------------------------- MODULE ClientViews -----------------------------
(***************************************************************************)
(* The two dialogs that show a client, ClientInfoModal.tsx and             *)
(* ClientQrModal.tsx, opened by the clients page once the whole record has *)
(* arrived.  An open dialog fetches the subscription links of its client   *)
(* and drops the answer when it was closed or shows another client by      *)
(* then; the addresses a client connected from are fetched without that.   *)
(***************************************************************************)
EXTENDS Naturals, FiniteSets

CONSTANTS
  Viewed,            \* the clients
  WithSub,           \* those that have a subscription id
  Nobody,            \* no client
  MaxViews           \* bound: clicks that open a dialog

ASSUME ClientViewsAssumption ==
  WithSub \subseteq Viewed /\ Nobody \notin Viewed /\ MaxViews \in Nat

Dialogs == {"info", "qr"}

VARIABLES
  viewAsks,          \* records awaited for a dialog: [dialog, client]
  clientView,        \* dialog -> [open, client, links, ask]: whose links show, whose are awaited
  viewIps,           \* whose addresses the info dialog holds
  viewIpAsks,        \* whose addresses are awaited
  viewAlibi,         \* history: [swapped, late], see ViewsShowTheirClient
  viewClicks         \* history: dialogs asked for so far

viewVars == <<viewAsks, clientView, viewIps, viewIpAsks, viewAlibi, viewClicks>>

ClientViewsInit ==
  /\ viewAsks = {}
  /\ clientView = [d \in Dialogs |-> [open |-> FALSE, client |-> Nobody, links |-> Nobody, ask |-> Nobody]]
  /\ viewIps = Nobody
  /\ viewIpAsks = {}
  /\ viewAlibi = [swapped |-> FALSE, late |-> FALSE]
  /\ viewClicks = 0

(* The QR and info buttons of a row; an open dialog covers the rows. *)
onShow(d, c) ==
  /\ \A x \in Dialogs : ~clientView[x].open
  /\ viewClicks < MaxViews /\ viewClicks' = viewClicks + 1
  /\ viewAsks' = viewAsks \cup {[dialog |-> d, client |-> c]}
  /\ UNCHANGED <<clientView, viewIps, viewIpAsks, viewAlibi>>

(* The record arrives and the dialog opens, or an open one changes its     *)
(* client; its effect asks for the links of a client that has any, and     *)
(* only the QR dialog clears them for one that has none.                   *)
Shows(d, c) ==
  LET now == clientView[d]
      rerun == ~now.open \/ now.client # c
  IN
  /\ [dialog |-> d, client |-> c] \in viewAsks
  /\ viewAsks' = viewAsks \ {[dialog |-> d, client |-> c]}
  /\ clientView' = [clientView EXCEPT ![d] =
       [open |-> TRUE, client |-> c,
        ask |-> IF ~rerun THEN now.ask ELSE IF c \in WithSub THEN c ELSE Nobody,
        links |-> IF rerun /\ c \notin WithSub /\ d = "qr" THEN Nobody ELSE now.links]]
  /\ viewAlibi' = [viewAlibi EXCEPT
       !.swapped = @ \/ (d = "info" /\ now.open /\ c \notin WithSub),
       !.late = @ \/ (d = "info" /\ now.open /\ viewIps \notin {Nobody, c})]
  /\ UNCHANGED <<viewIps, viewIpAsks, viewClicks>>

(* The links arrive for the client the dialog still shows. *)
LinksAnswered(d, ok) ==
  /\ clientView[d].ask # Nobody
  /\ clientView' = [clientView EXCEPT ![d].links = IF ok THEN clientView[d].ask ELSE Nobody,
                          ![d].ask = Nobody]
  /\ UNCHANGED <<viewAsks, viewIps, viewIpAsks, viewAlibi, viewClicks>>

(* The links of a closed dialog are still taken when they arrive. *)
CloseKeepsAsk(d) ==
  /\ clientView[d].open
  /\ clientView' = [clientView EXCEPT ![d].open = FALSE, ![d].links = Nobody]
  /\ viewIps' = IF d = "info" THEN Nobody ELSE viewIps
  /\ viewAlibi' = IF d = "info" THEN [swapped |-> FALSE, late |-> FALSE] ELSE viewAlibi
  /\ UNCHANGED <<viewAsks, viewIpAsks, viewClicks>>

(* Closing empties the dialog and cancels the request for its links. *)
CloseView(d) ==
  /\ clientView[d].open
  /\ clientView' = [clientView EXCEPT ![d].open = FALSE, ![d].links = Nobody, ![d].ask = Nobody]
  /\ viewIps' = IF d = "info" THEN Nobody ELSE viewIps
  /\ viewAlibi' = IF d = "info" THEN [swapped |-> FALSE, late |-> FALSE] ELSE viewAlibi
  /\ UNCHANGED <<viewAsks, viewIpAsks, viewClicks>>

(* The eye that opens the list of addresses, and its Refresh button. *)
loadIps ==
  /\ clientView["info"].open
  /\ viewIpAsks' = viewIpAsks \cup {clientView["info"].client}
  /\ UNCHANGED <<viewAsks, clientView, viewIps, viewAlibi, viewClicks>>

IpsAnswered(c, ok) ==
  /\ c \in viewIpAsks
  /\ viewIpAsks' = viewIpAsks \ {c}
  /\ viewIps' = IF ok THEN c ELSE Nobody
  /\ viewAlibi' = [viewAlibi EXCEPT
       !.late = ok /\ ~(clientView["info"].open /\ clientView["info"].client = c)]
  /\ UNCHANGED <<viewAsks, clientView, viewClicks>>

clearIps ==
  /\ clientView["info"].open /\ viewIps # Nobody
  /\ viewIps' = Nobody
  /\ viewAlibi' = [viewAlibi EXCEPT !.late = FALSE]
  /\ UNCHANGED <<viewAsks, clientView, viewIpAsks, viewClicks>>

ClientViewsNext ==
  \/ \E d \in Dialogs, c \in Viewed : onShow(d, c) \/ Shows(d, c)
  \/ \E d \in Dialogs, ok \in BOOLEAN : LinksAnswered(d, ok)
  \/ \E d \in Dialogs : CloseView(d)
  \/ loadIps
  \/ \E c \in Viewed, ok \in BOOLEAN : IpsAnswered(c, ok)
  \/ clearIps

ClientViewsSpec == ClientViewsInit /\ [][ClientViewsNext]_viewVars

ClientViewsTypeOK ==
  /\ viewAsks \subseteq [dialog: Dialogs, client: Viewed]
  /\ clientView \in [Dialogs -> [open: BOOLEAN, client: Viewed \cup {Nobody},
                           links: WithSub \cup {Nobody}, ask: WithSub \cup {Nobody}]]
  /\ viewIps \in Viewed \cup {Nobody} /\ viewIpAsks \subseteq Viewed

(* An open dialog that awaits nothing shows the links and the addresses of *)
(* its own client, in whatever order the records, the links and the        *)
(* addresses of several clients arrived.  Excused in the info dialog are a *)
(* client without subscription that replaced another while it was open,    *)
(* and addresses that arrived after the dialog had moved on.               *)
ViewsShowTheirClient == \A d \in Dialogs : clientView[d].open =>
  /\ clientView[d].links # Nobody /\ clientView[d].ask = Nobody /\ ~(d = "info" /\ viewAlibi.swapped) =>
       clientView[d].links = clientView[d].client
  /\ d = "info" /\ viewIps # Nobody /\ ~viewAlibi.late => viewIps = clientView[d].client
=============================================================================
