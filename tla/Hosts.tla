-------------------------------- MODULE Hosts --------------------------------
(***************************************************************************)
(* The hosts page (frontend/src/pages/hosts/): the addresses an inbound is *)
(* offered under, in the order the subscriptions use.  A host is moved by  *)
(* sending the whole order of its inbound, computed from the list the page *)
(* has; the server numbers the hosts by their places in what was sent.     *)
(***************************************************************************)
EXTENDS Naturals, FiniteSets, Sequences

CONSTANTS
  HostIds,      \* the ids of hosts: numbers
  Hidden,       \* hosts the operator has marked hidden elsewhere (isHidden)
  NoHost,
  MaxTouches,   \* bound: clicks of the operator
  MaxOthers     \* bound: changes made by somebody else

Securities == {"same", "tls", "reality"}
StoredHost == [sortOrder : Nat, off : BOOLEAN, security : Securities, sni : {"none", "own", "typed"},
         hidden : BOOLEAN]

ASSUME HostsAssumption ==
  /\ HostIds \subseteq Nat /\ IsFiniteSet(HostIds) /\ Hidden \subseteq HostIds
  /\ NoHost \notin StoredHost

VARIABLES
  hostStore,     \* the server: id -> host, or NoHost
  hosts,        \* the list of the page
  reading,      \* the request for it: none, asked, or the rows read
  ticked,       \* selectedIds
  hostForm,     \* the dialog
  sent,         \* requests under way
  touches, others

hostVars == <<hostStore, hosts, reading, ticked, hostForm, sent, touches, others>>

ClosedHostForm == [mode |-> "closed"]
NoRead == [at |-> "none"]

HostExists(rows, h) == rows[h] # NoHost
InList(rows) == {h \in HostIds : HostExists(rows, h)}

\* inboundHostsInOrder, sortHosts: by sortOrder, then by id.
Before(rows, a, b) ==
  rows[a].sortOrder < rows[b].sortOrder \/ (rows[a].sortOrder = rows[b].sortOrder /\ a < b)

Ascending(rows, order) == \A i, j \in DOMAIN order : i < j => Before(rows, order[i], order[j])

inboundHostsInOrder(rows) ==
  CHOOSE order \in [1..Cardinality(InList(rows)) -> InList(rows)] : Ascending(rows, order)

\* All hosts but the last, which may be added.
FirstHosts(s) ==
  [h \in HostIds |->
    IF \E other \in HostIds : h < other
    THEN [sortOrder |-> 0, off |-> FALSE, security |-> s,
          sni |-> IF s = "same" THEN "none" ELSE "own", hidden |-> h \in Hidden]
    ELSE NoHost]

HostsInit ==
  /\ \E s \in Securities : hostStore = FirstHosts(s)
  /\ hosts = hostStore
  /\ reading = NoRead /\ ticked = {} /\ sent = {}
  /\ hostForm = ClosedHostForm
  /\ touches = 0 /\ others = 0

Touch == hostForm = ClosedHostForm /\ touches < MaxTouches /\ touches' = touches + 1

Sends_(r) ==
  /\ r \notin sent
  /\ sent' = sent \cup {r}
  /\ UNCHANGED <<hostStore, hosts, reading, ticked, hostForm, others>>

-----------------------------------------------------------------------------
(* The table *)

Position(order, h) == CHOOSE i \in 1..Len(order) : order[i] = h

Swapped(order, i, j) == [order EXCEPT ![i] = order[j], ![j] = order[i]]

\* onMove; the arrows at the ends are disabled.
onMove(h, step) ==
  /\ Touch
  /\ HostExists(hosts, h)
  /\ LET order == inboundHostsInOrder(hosts)
         i == Position(order, h)
         j == IF step = "up" THEN i - 1 ELSE i + 1
     IN /\ j \in 1..Len(order)
        /\ Sends_([kind |-> "reorder", ids |-> Swapped(order, i, j), base |-> hosts,
                   of |-> {h, order[j]}])

onToggleEnableHost(h) ==
  /\ Touch
  /\ HostExists(hosts, h)
  /\ Sends_([kind |-> "setEnable", ids |-> {h}, off |-> ~hosts[h].off])

onDeleteHost(h) == Touch /\ HostExists(hosts, h) /\ Sends_([kind |-> "del", ids |-> {h}])

\* antd drops what is not listed from the selection when a row is ticked.
TickHost(h) ==
  /\ Touch
  /\ HostExists(hosts, h)
  /\ ticked' = IF h \in ticked THEN ticked \ {h} ELSE (ticked \cap InList(hosts)) \cup {h}
  /\ UNCHANGED <<hostStore, hosts, reading, hostForm, sent, others>>

onBulkEnable(on) ==
  Touch /\ ticked # {} /\ Sends_([kind |-> "bulkEnable", ids |-> ticked, off |-> ~on])
onBulkDelete == Touch /\ ticked # {} /\ Sends_([kind |-> "bulkDel", ids |-> ticked])

-----------------------------------------------------------------------------
(* The dialog *)

onAddHost ==
  /\ Touch
  /\ hostForm' = [mode |-> "add", id |-> NoHost, security |-> "same", sni |-> "none", opened |-> NoHost,
                  touched |-> FALSE]
  /\ UNCHANGED <<hostStore, hosts, reading, ticked, sent, others>>

onEditHost(h) ==
  /\ Touch
  /\ HostExists(hosts, h)
  /\ hostForm' = [mode |-> "edit", id |-> h, security |-> hosts[h].security, sni |-> hosts[h].sni,
                  opened |-> hosts[h], touched |-> FALSE]
  /\ UNCHANGED <<hostStore, hosts, reading, ticked, sent, others>>

\* Hiding the TLS fields returns them to what the dialog was opened with.
PickSecurity(s) ==
  /\ hostForm # ClosedHostForm /\ s # hostForm.security
  /\ hostForm' = [hostForm EXCEPT !.security = s, !.touched = TRUE,
                    !.sni = IF s = "same" THEN (IF hostForm.opened = NoHost THEN "none" ELSE hostForm.opened.sni)
                            ELSE @]
  /\ UNCHANGED <<hostStore, hosts, reading, ticked, sent, touches, others>>

TypeSni ==
  /\ hostForm # ClosedHostForm /\ hostForm.security # "same" /\ hostForm.sni # "typed"
  /\ hostForm' = [hostForm EXCEPT !.sni = "typed", !.touched = TRUE]
  /\ UNCHANGED <<hostStore, hosts, reading, ticked, sent, touches, others>>

\* validateFields returns the fields that are shown: without TLS no sni, and
\* never whether the host is hidden.
ShownFields == [security |-> hostForm.security,
                sni |-> IF hostForm.security = "same" THEN "none" ELSE hostForm.sni]

\* onOk: nothing keeps the button from being clicked again before the answer.
onOkHost ==
  /\ hostForm # ClosedHostForm /\ touches < MaxTouches /\ touches' = touches + 1
  /\ Sends_([kind |-> hostForm.mode, ids |-> {hostForm.id}, of |-> ShownFields,
             nth |-> Cardinality(sent), touched |-> hostForm.touched, opened |-> hostForm.opened])

CloseHost ==
  /\ hostForm # ClosedHostForm
  /\ hostForm' = ClosedHostForm
  /\ UNCHANGED <<hostStore, hosts, reading, ticked, sent, touches, others>>

-----------------------------------------------------------------------------
(* The server and its answers *)

\* ReorderHosts: each listed host gets its place as its number.
Reordered(ids) ==
  [h \in HostIds |-> IF HostExists(hostStore, h) /\ \E i \in 1..Len(ids) : ids[i] = h
                     THEN [hostStore[h] EXCEPT !.sortOrder = Position(ids, h) - 1] ELSE hostStore[h]]

Only(ids, f(_)) ==
  [h \in HostIds |-> IF h \in ids /\ HostExists(hostStore, h) THEN f(hostStore[h]) ELSE hostStore[h]]

\* UpdateHost overwrites everything but the order; the dialog sends no isHidden.
Results(r) ==
  CASE r.kind = "reorder" -> {Reordered(r.ids)}
    [] r.kind \in {"setEnable", "bulkEnable"} -> {Only(r.ids, LAMBDA x : [x EXCEPT !.off = r.off])}
    [] r.kind \in {"del", "bulkDel"} -> {Only(r.ids, LAMBDA x : NoHost)}
    [] r.kind = "edit" -> {[hostStore EXCEPT ![h].security = r.of.security, ![h].sni = r.of.sni,
                                            ![h].hidden = FALSE] : h \in r.ids \cap InList(hostStore)}
    [] r.kind = "add" -> {[hostStore EXCEPT ![h] =
         [sortOrder |-> 0, off |-> FALSE, security |-> r.of.security, sni |-> r.of.sni,
          hidden |-> FALSE]] : h \in HostIds \ InList(hostStore)}

\* invalidate: a success asks for the list again; the requests that clear the
\* selection or close the dialog do so whatever is selected or open by then.
SucceedsHost(r) ==
  /\ r \in sent
  /\ hostStore' \in Results(r)
  /\ sent' = sent \ {r}
  /\ reading' = [at |-> "asked"]
  /\ ticked' = IF r.kind \in {"bulkEnable", "bulkDel"} THEN {} ELSE ticked
  /\ hostForm' = IF r.kind \in {"edit", "add"} THEN ClosedHostForm ELSE hostForm
  /\ UNCHANGED <<hosts, touches, others>>

FailsHost(r) ==
  /\ r \in sent
  /\ sent' = sent \ {r}
  /\ UNCHANGED <<hostStore, hosts, reading, ticked, hostForm, touches, others>>

ReadHosts ==
  /\ reading.at = "asked"
  /\ reading' = [at |-> "read", rows |-> hostStore]
  /\ UNCHANGED <<hostStore, hosts, ticked, hostForm, sent, touches, others>>

HostsArrive ==
  /\ reading.at = "read"
  /\ hosts' = reading.rows
  /\ reading' = NoRead
  /\ UNCHANGED <<hostStore, ticked, hostForm, sent, touches, others>>

\* Somebody else adds a host, deletes one, or moves one to the end.
OthersChange ==
  /\ others < MaxOthers
  /\ others' = others + 1
  /\ \E h \in HostIds :
       \/ HostExists(hostStore, h) /\ hostStore' = [hostStore EXCEPT ![h] = NoHost]
       \/ HostExists(hostStore, h) /\ hostStore' = [hostStore EXCEPT ![h].sortOrder = Cardinality(HostIds)]
  /\ UNCHANGED <<hosts, reading, ticked, hostForm, sent, touches>>

HostsNext ==
  \/ \E h \in HostIds :
       \/ \E step \in {"up", "down"} : onMove(h, step)
       \/ onToggleEnableHost(h) \/ onDeleteHost(h) \/ TickHost(h) \/ onEditHost(h)
  \/ \E on \in BOOLEAN : onBulkEnable(on)
  \/ onBulkDelete \/ onAddHost \/ TypeSni \/ onOkHost \/ CloseHost
  \/ \E s \in Securities : PickSecurity(s)
  \/ \E r \in sent : SucceedsHost(r) \/ FailsHost(r)
  \/ ReadHosts \/ HostsArrive \/ OthersChange

HostsSpec == HostsInit /\ [][HostsNext]_hostVars

-----------------------------------------------------------------------------
HostsTypeOK ==
  /\ ticked \subseteq HostIds
  /\ \A h \in HostIds : HostExists(hostStore, h) => hostStore[h].sni = "none" \/ hostStore[h].security # "same"

\* A move that the server carries out on the hosts the page showed swaps the
\* moved host with its neighbour and leaves the others where they are, also
\* when hosts share a number.
MovesSwap ==
  \A r \in sent :
    (r.kind = "reorder" /\ r.base = hostStore /\ SucceedsHost(r))
      => LET was == inboundHostsInOrder(hostStore)
             is == inboundHostsInOrder(hostStore')
         IN /\ Len(is) = Len(was)
            /\ \A i \in 1..Len(was) :
                 IF was[i] \in r.of THEN is[i] \in r.of \ {was[i]} ELSE is[i] = was[i]

\* A dialog that is saved without a change leaves the host as it was opened,
\* apart from the mark that it is hidden.
HostKept ==
  \A r \in sent : (r.kind = "edit" /\ ~r.touched /\ SucceedsHost(r)) =>
    \A h \in r.ids : HostExists(hostStore, h) =>
      /\ hostStore'[h].sni = r.opened.sni /\ hostStore'[h].security = r.opened.security
      /\ hostStore'[h].sortOrder = hostStore[h].sortOrder
=============================================================================
