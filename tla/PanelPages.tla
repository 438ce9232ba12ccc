---------------------------- MODULE PanelPages -----------------------------
(***************************************************************************)
(* The pages and dialogs of the panel.  The web interface shows one page   *)
(* at a time, and the pages share no variable with each other: a behaviour *)
(* is one of a page, while the others rest in a state they may start in.   *)
(* Every page keeps its own model of the server and of whoever else        *)
(* changes it.                                                             *)
(***************************************************************************)
EXTENDS SettingsDraft, DnsEditor, HttpSession, InboundRollup, ClientForm,
        ClientsList, ClientViews, InboundForm, InboundActions,
        OutboundForm, Groups, Nodes, Hosts, PanelUpdate, Geodata,
        XrayBasics, WarpModal, XrayEditor, ShareLinks

VARIABLE page

pageVars ==
  <<page, settingsVars, dnsVars, httpVars, rollupVars, clientVars, listVars, viewVars, inbVars,
    actionVars, outboundVars, groupVars, nodeVars, hostVars, updateVars, geodataVars,
    basicsVars, warpVars, editorVars, linkVars>>

PageNames ==
  {"settings", "dns", "http", "rollup", "client form", "clients", "client views",
   "inbound form", "inbounds", "outbound form", "groups", "nodes", "hosts", "update",
   "geodata", "basics", "warp", "template", "links"}

FirstInbound == CHOOSE i \in LinkInbounds : TRUE
FirstHost == CHOOSE h \in Hosts : TRUE

\* Only the page that is shown tells two states apart.
PageShown ==
  CASE page = "settings" -> <<page, settingsVars>>
    [] page = "dns" -> <<page, dnsVars>>
    [] page = "http" -> <<page, httpVars>>
    [] page = "rollup" -> <<page, rollupVars>>
    [] page = "client form" -> <<page, clientShown>>
    [] page = "clients" -> <<page, listVars>>
    [] page = "client views" -> <<page, viewVars>>
    [] page = "inbound form" -> <<page, inbShown>>
    [] page = "inbounds" -> <<page, actionVars>>
    [] page = "outbound form" -> <<page, outboundVars>>
    [] page = "groups" -> <<page, groupVars>>
    [] page = "nodes" -> <<page, nodeVars>>
    [] page = "hosts" -> <<page, hostVars>>
    [] page = "update" -> <<page, updateVars>>
    [] page = "geodata" -> <<page, geodataVars>>
    [] page = "basics" -> <<page, basicsVars>>
    [] page = "warp" -> <<page, warpVars>>
    [] page = "template" -> <<page, editorVars>>
    [] page = "links" -> <<page, linkVars>>

PagesInit ==
  /\ page \in PageNames
  /\ IF page = "settings" THEN TRUE ELSE stored = [plain |-> FirstPlain, secret |-> 0, tfa |-> FALSE]
  /\ SettingsInit
  /\ IF page = "dns" THEN TRUE ELSE dns = Off
  /\ DnsInit
  /\ IF page = "http" THEN TRUE ELSE meta = NoToken
  /\ HttpInit
  /\ RollupInit
  /\ ClientFormInit
  /\ IF page = "clients" THEN TRUE ELSE listed = [c \in FirstListed |-> CHOOSE b \in Buckets : TRUE]
  /\ ClientsListInit
  /\ ClientViewsInit
  /\ InboundFormInit
  /\ InboundActionsInit
  /\ OutboundFormInit
  /\ IF page = "groups" THEN TRUE ELSE groupOf = [c \in Members |-> NoGroup]
  /\ GroupsInit
  /\ IF page = "nodes" THEN TRUE ELSE nodeRows = FirstNodes(CHOOSE m \in Machines : TRUE)
  /\ NodesInit
  /\ IF page = "hosts" THEN TRUE ELSE hostStore = FirstHosts("same")
  /\ HostsInit
  /\ PanelUpdateInit
  /\ IF page = "geodata" THEN TRUE ELSE xrayTemplate = [geo |-> NoGeo, rest |-> 0]
  /\ GeodataInit
  /\ IF page = "basics" THEN TRUE ELSE tt = Shipped
  /\ BasicsInit
  /\ IF page = "warp" THEN TRUE ELSE registered = 1 /\ warpDraft = NoOutbound
  /\ WarpInit
  /\ EditorInit
  /\ IF page = "links" THEN TRUE ELSE inbound = FirstInbound /\ externals = << >> /\ host = FirstHost
  /\ ShareLinksInit

PagesNext ==
  /\ page' = page
  /\ \/ /\ page = "settings"
        /\ UNCHANGED <<dnsVars, httpVars, rollupVars, clientVars, listVars, viewVars, inbVars,
                       actionVars, outboundVars, groupVars, nodeVars, hostVars, updateVars,
                       geodataVars, basicsVars, warpVars, editorVars, linkVars>>
        /\ SettingsNext
     \/ /\ page = "dns"
        /\ UNCHANGED <<settingsVars, httpVars, rollupVars, clientVars, listVars, viewVars,
                       inbVars, actionVars, outboundVars, groupVars, nodeVars, hostVars,
                       updateVars, geodataVars, basicsVars, warpVars, editorVars, linkVars>>
        /\ DnsNext
     \/ /\ page = "http"
        /\ UNCHANGED <<settingsVars, dnsVars, rollupVars, clientVars, listVars, viewVars,
                       inbVars, actionVars, outboundVars, groupVars, nodeVars, hostVars,
                       updateVars, geodataVars, basicsVars, warpVars, editorVars, linkVars>>
        /\ HttpNext
     \/ /\ page = "rollup"
        /\ UNCHANGED <<settingsVars, dnsVars, httpVars, clientVars, listVars, viewVars,
                       inbVars, actionVars, outboundVars, groupVars, nodeVars, hostVars,
                       updateVars, geodataVars, basicsVars, warpVars, editorVars, linkVars>>
        /\ RollupNext
     \/ /\ page = "client form"
        /\ UNCHANGED <<settingsVars, dnsVars, httpVars, rollupVars, listVars, viewVars,
                       inbVars, actionVars, outboundVars, groupVars, nodeVars, hostVars,
                       updateVars, geodataVars, basicsVars, warpVars, editorVars, linkVars>>
        /\ ClientFormNext
     \/ /\ page = "clients"
        /\ UNCHANGED <<settingsVars, dnsVars, httpVars, rollupVars, clientVars, viewVars,
                       inbVars, actionVars, outboundVars, groupVars, nodeVars, hostVars,
                       updateVars, geodataVars, basicsVars, warpVars, editorVars, linkVars>>
        /\ ClientsListNext
     \/ /\ page = "client views"
        /\ UNCHANGED <<settingsVars, dnsVars, httpVars, rollupVars, clientVars, listVars,
                       inbVars, actionVars, outboundVars, groupVars, nodeVars, hostVars,
                       updateVars, geodataVars, basicsVars, warpVars, editorVars, linkVars>>
        /\ ClientViewsNext
     \/ /\ page = "inbound form"
        /\ UNCHANGED <<settingsVars, dnsVars, httpVars, rollupVars, clientVars, listVars,
                       viewVars, actionVars, outboundVars, groupVars, nodeVars, hostVars,
                       updateVars, geodataVars, basicsVars, warpVars, editorVars, linkVars>>
        /\ InboundFormNext
     \/ /\ page = "inbounds"
        /\ UNCHANGED <<settingsVars, dnsVars, httpVars, rollupVars, clientVars, listVars,
                       viewVars, inbVars, outboundVars, groupVars, nodeVars, hostVars,
                       updateVars, geodataVars, basicsVars, warpVars, editorVars, linkVars>>
        /\ InboundActionsNext
     \/ /\ page = "outbound form"
        /\ UNCHANGED <<settingsVars, dnsVars, httpVars, rollupVars, clientVars, listVars,
                       viewVars, inbVars, actionVars, groupVars, nodeVars, hostVars,
                       updateVars, geodataVars, basicsVars, warpVars, editorVars, linkVars>>
        /\ OutboundFormNext
     \/ /\ page = "groups"
        /\ UNCHANGED <<settingsVars, dnsVars, httpVars, rollupVars, clientVars, listVars,
                       viewVars, inbVars, actionVars, outboundVars, nodeVars, hostVars,
                       updateVars, geodataVars, basicsVars, warpVars, editorVars, linkVars>>
        /\ GroupsNext
     \/ /\ page = "nodes"
        /\ UNCHANGED <<settingsVars, dnsVars, httpVars, rollupVars, clientVars, listVars,
                       viewVars, inbVars, actionVars, outboundVars, groupVars, hostVars,
                       updateVars, geodataVars, basicsVars, warpVars, editorVars, linkVars>>
        /\ NodesNext
     \/ /\ page = "hosts"
        /\ UNCHANGED <<settingsVars, dnsVars, httpVars, rollupVars, clientVars, listVars,
                       viewVars, inbVars, actionVars, outboundVars, groupVars, nodeVars,
                       updateVars, geodataVars, basicsVars, warpVars, editorVars, linkVars>>
        /\ HostsNext
     \/ /\ page = "update"
        /\ UNCHANGED <<settingsVars, dnsVars, httpVars, rollupVars, clientVars, listVars,
                       viewVars, inbVars, actionVars, outboundVars, groupVars, nodeVars,
                       hostVars, geodataVars, basicsVars, warpVars, editorVars, linkVars>>
        /\ PanelUpdateNext
     \/ /\ page = "geodata"
        /\ UNCHANGED <<settingsVars, dnsVars, httpVars, rollupVars, clientVars, listVars,
                       viewVars, inbVars, actionVars, outboundVars, groupVars, nodeVars,
                       hostVars, updateVars, basicsVars, warpVars, editorVars, linkVars>>
        /\ GeodataNext
     \/ /\ page = "basics"
        /\ UNCHANGED <<settingsVars, dnsVars, httpVars, rollupVars, clientVars, listVars,
                       viewVars, inbVars, actionVars, outboundVars, groupVars, nodeVars,
                       hostVars, updateVars, geodataVars, warpVars, editorVars, linkVars>>
        /\ BasicsNext
     \/ /\ page = "warp"
        /\ UNCHANGED <<settingsVars, dnsVars, httpVars, rollupVars, clientVars, listVars,
                       viewVars, inbVars, actionVars, outboundVars, groupVars, nodeVars,
                       hostVars, updateVars, geodataVars, basicsVars, editorVars, linkVars>>
        /\ WarpNext
     \/ /\ page = "template"
        /\ UNCHANGED <<settingsVars, dnsVars, httpVars, rollupVars, clientVars, listVars,
                       viewVars, inbVars, actionVars, outboundVars, groupVars, nodeVars,
                       hostVars, updateVars, geodataVars, basicsVars, warpVars, linkVars>>
        /\ EditorNext
     \/ /\ page = "links"
        /\ UNCHANGED <<settingsVars, dnsVars, httpVars, rollupVars, clientVars, listVars,
                       viewVars, inbVars, actionVars, outboundVars, groupVars, nodeVars,
                       hostVars, updateVars, geodataVars, basicsVars, warpVars, editorVars>>
        /\ ShareLinksNext

PagesSpec == PagesInit /\ [][PagesNext]_pageVars

-----------------------------------------------------------------------------
\* The type invariant of the page that is shown.
PagesTypeOK ==
  /\ page = "settings" => SettingsTypeOK
  /\ page = "dns" => DnsTypeOK
  /\ page = "http" => HttpTypeOK
  /\ page = "rollup" => RollupTypeOK
  /\ page = "client form" => ClientFormTypeOK
  /\ page = "clients" => ClientsListTypeOK
  /\ page = "client views" => ClientViewsTypeOK
  /\ page = "inbound form" => InboundFormTypeOK
  /\ page = "inbounds" => InboundActionsTypeOK
  /\ page = "nodes" => NodesTypeOK
  /\ page = "hosts" => HostsTypeOK
  /\ page = "update" => PanelUpdateTypeOK
  /\ page = "geodata" => GeodataTypeOK
  /\ page = "basics" => BasicsTypeOK
  /\ page = "warp" => WarpTypeOK
  /\ page = "template" => EditorTypeOK

\* A dialog acts on the subject it was opened for: the client, the inbound, the
\* group, the channel, the rows or the run that it showed (ClientsPage.onEdit,
\* InboundsPage's pickers, GroupsPage, NodesPage, GeodataSection,
\* PanelUpdateModal).  Not claimed, since the code does not keep it: for a
\* client's form or a group's dialog that opened while the record of another
\* row, or the members of another group, were still awaited (that answer
\* replaces what the open dialog shows); for the addresses in a client's
\* information when they come after the dialog has turned to another client,
\* and its links when that client has no subscription; for a picker confirmed
\* before its list came.
DialogsActOnTheirSubject ==
  /\ page = "client form" => FormIsItsClient
  /\ page = "client views" => ViewsShowTheirClient
  /\ page = "inbounds" => PickedForItsInbound
  /\ page = "groups" => DialogsAimRight
  /\ page = "nodes" => ChannelAsShown
  /\ page = "geodata" => SavedAsClicked
  /\ page = "update" => OutcomeIsOurs

\* A page shows what it says it shows: an empty list means that there is nothing,
\* counts are of the clients that are counted, what is selected has been seen, a
\* page without changes shows what is stored, an update is covered until it ends.
\* Each part names what it is silent about: clients changed by others while a
\* later page is shown (their deletion leaves an empty last page); counts right
\* after a list arrived; drafts with a save or refetch on its way or unheard, or
\* behind a server that moved without them; a template replaced under the DNS
\* tab; groups and geodata changed by others since they were read; an update
\* beside which an earlier operation ended.
PagesShowTheTruth ==
  /\ page = "clients" => EmptyMeansNone
  /\ page = "rollup" => CountsCurrent /\ OnlineOnce
  /\ page = "inbounds" => SelectionSeen
  /\ page = "settings" => CleanShowsStored /\ SavedIsClean
  /\ page = "template" => CleanIsStored /\ ViewsAgree
  /\ page = "dns" => HostsShown
  /\ page = "groups" => ListsCurrent
  /\ page = "update" => CoveredWhileBusy
  /\ page = "geodata" => GeodataServed

\* What is sent is well formed whatever order it was edited in: one transport,
\* no secret both typed and cleared, one execution of a request that is sent
\* again, only templates that parse, metrics with their stats.
RequestsAreSound ==
  /\ page = "inbound form" => OneTransport
  /\ page = "settings" => NeverTypedAndCleared
  /\ page = "dns" => FakednsUsable
  /\ page = "template" => OnlyTemplatesSent
  /\ page = "http" => AtMostOnce /\ RefusedForCause
  /\ page = "basics" => MetricsHaveStats

\* A link that is shared leads back to the inbound it was made from: the form
\* of an outbound that imports it gets the inbound's stream and login
\* (inbound-link.ts against outbound-link-parser.ts), at an address that a
\* client can reach.  What the parser is known to lose is named in StreamLost and
\* LoginLost, and nothing else is lost.
LinksLeadBack == page = "links" => ImportKeeps /\ HostReachable

\* A dialog saved without a change stores what it was opened with, and a dialog
\* that was changed stores what was shown when it was confirmed (the submit
\* handlers of the client, inbound, outbound, node and host forms); what the WARP
\* dialog puts together from two answers is of one account, the stored one.
\* Not claimed, since the code does not keep it: for a save of a client beside
\* which its form was given another client, or a row's switch was answered; for
\* one that follows a save that stopped halfway; for the fallbacks of an inbound
\* whose rows had not been shown yet, or failed to load (they are deleted); for
\* what an outbound holds and its form has no field for; for the hidden mark of a
\* host; for a WARP account that somebody else changed, or whose requests overlapped
\* or went unanswered, since the dialog was opened.
SavedIsWhatWasShown ==
  [][/\ page = "client form" => UntouchedSaveKeeps /\ SavedWhole
     /\ page = "inbound form" => InboundKept
     /\ page = "outbound form" => ConfirmedAsEdited
     /\ page = "nodes" => UntouchedNodeKept /\ SavedWasReached
     /\ page = "hosts" => HostKept
     /\ page = "warp" => StagedIsStored]_pageVars

\* An edit changes what it is an edit of and nothing beside it, and only an answer
\* that brings news takes edits away (DnsTab, BasicsTab, HostsPage, useAllSettings,
\* useXraySetting): edits made at rest survive the refetches of a server that has
\* not moved.  A template replaced while a server of the DNS tab is edited, lists
\* whose rules said more than the controls show, and a move carried out on other
\* hosts than the page showed are left out by name.
EditsStayApart ==
  [][/\ page = "dns" => OneServerChanges
     /\ page = "basics" => ListsReadBack /\ UnshownKept
     /\ page = "hosts" => MovesSwap
     /\ page = "settings" => DiscardedOnlyByNews /\ RestartServesTarget
     /\ page = "template" => TakenOnlyByNews /\ KeysKept]_pageVars
=============================================================================
