------------------------------ MODULE DnsEditor ------------------------------
(***************************************************************************)
(* The DNS section of the Xray page: the dns and fakedns parts of the      *)
(* template, the list of host rows that the tab keeps beside dns.hosts,    *)
(* and the server dialog, which keeps the index it was opened for, while a *)
(* refetch may replace the template under both.                            *)
(*                                                                         *)
(* Abstracted: a host has a value or none; of a server, its address and    *)
(* whether any option differs from its default (valuesToWire writes a bare *)
(* address when none does).                                                *)
(***************************************************************************)
EXTENDS Naturals, Sequences, FiniteSets, SequencesExt

CONSTANTS
  Domains, Addresses, Presets, MaxHosts, MaxServers, MaxFakedns

NoDomain == ""   \* a host row whose domain is not typed yet
Null == 99       \* fakedns: null
Closed == 99

ASSUME DnsAssumption ==
  /\ IsFiniteSet(Domains) /\ NoDomain \notin Domains
  /\ Presets \subseteq Addresses
  /\ MaxHosts \in Nat /\ Cardinality(Domains) <= MaxHosts
  /\ MaxServers \in 1..(Closed - 1) /\ MaxFakedns \in 1..(Null - 1)

VARIABLES
  dns,          \* templateSettings.dns: on, its servers and its hosts
  fakedns,      \* the pools in templateSettings.fakedns; Null when there is none
  hostRows,     \* hostsList
  serverDialog, \* DnsServerModal: closed, or the index it edits (0: a new one)
  replaced      \* history: a refetch replaced the template on this tab

dnsVars == <<dns, fakedns, hostRows, serverDialog, replaced>>

Server == [address : Addresses, plain : BOOLEAN]
HostRow == [domain : Domains \cup {NoDomain}, valued : BOOLEAN]
Off == [on |-> FALSE, servers |-> <<>>, hosts |-> {}]
On == [on |-> TRUE, servers |-> <<>>, hosts |-> {}]   \* what toggleDNS writes

DnsTypeOK ==
  /\ dns.on \in BOOLEAN
  /\ dns.servers \in Seq(Server) /\ Len(dns.servers) <= MaxServers
  /\ dns.hosts \subseteq Domains
  /\ fakedns \in 0..MaxFakedns \cup {Null}
  /\ hostRows \in Seq(HostRow) /\ Len(hostRows) <= MaxHosts
  /\ serverDialog \in 0..MaxServers \cup {Closed}
  /\ replaced \in BOOLEAN

RowsOf(hosts) == [k \in 1..Cardinality(hosts) |-> [domain |-> SetToSeq(hosts)[k], valued |-> TRUE]]

DnsInit ==
  /\ dns \in {Off, [On EXCEPT !.hosts = Domains]}
  /\ fakedns = Null
  /\ hostRows = RowsOf(dns.hosts)
  /\ serverDialog = Closed
  /\ replaced = FALSE

\* Rows without a domain or a value are not written; of two rows with the
\* same domain the later one counts.
HostsOf(list) == {list[k].domain : k \in {j \in DOMAIN list : list[j].domain # NoDomain /\ list[j].valued}}

\* The effect that depends on dnsEnabled alone.
HostsEffect(next) ==
  hostRows' = IF next.on = dns.on THEN hostRows
              ELSE IF next.on THEN RowsOf(next.hosts) ELSE <<>>

toggleDNS ==
  /\ serverDialog = Closed
  /\ LET next == IF dns.on THEN Off ELSE On
     IN /\ dns' = next
        /\ HostsEffect(next)
  /\ fakedns' = Null
  /\ UNCHANGED <<serverDialog, replaced>>

syncHosts(list) ==
  /\ hostRows' = list
  /\ dns' = [dns EXCEPT !.hosts = HostsOf(list)]

\* The hosts panel: a row is added, edited or removed.
EditHosts ==
  /\ dns.on
  /\ serverDialog = Closed
  /\ \/ /\ Len(hostRows) < MaxHosts
        /\ syncHosts(Append(hostRows, [domain |-> NoDomain, valued |-> FALSE]))
     \/ \E k \in DOMAIN hostRows, row \in HostRow : syncHosts([hostRows EXCEPT ![k] = row])
     \/ \E k \in DOMAIN hostRows : syncHosts(RemoveAt(hostRows, k))
  /\ UNCHANGED <<fakedns, serverDialog, replaced>>

openServerModal ==
  /\ dns.on
  /\ serverDialog = Closed
  /\ serverDialog' \in {0} \cup DOMAIN dns.servers
  /\ UNCHANGED <<dns, fakedns, hostRows, replaced>>

\* onServerConfirm: writes at the index that was opened; when the list has
\* become shorter the assignment pads it.
onServerConfirm ==
  /\ serverDialog # Closed
  /\ \E s \in Server :
       dns' = IF ~ dns.on THEN dns
              ELSE IF serverDialog \in DOMAIN dns.servers
                   THEN [dns EXCEPT !.servers = [@ EXCEPT ![serverDialog] = s]]
              ELSE IF Len(dns.servers) < MaxServers
                   THEN [dns EXCEPT !.servers = Append(@, s)] ELSE dns
  /\ serverDialog' = Closed
  /\ UNCHANGED <<fakedns, hostRows, replaced>>

\* deleteServer, clearAllServers, onPresetInstall
RemoveServers ==
  /\ dns.on
  /\ serverDialog = Closed
  /\ \/ \E k \in DOMAIN dns.servers : dns' = [dns EXCEPT !.servers = RemoveAt(@, k)]
     \/ dns' = [dns EXCEPT !.servers = <<>>]
     \/ \E a \in Presets : dns' = [dns EXCEPT !.servers = <<[address |-> a, plain |-> TRUE]>>]
  /\ UNCHANGED <<fakedns, hostRows, serverDialog, replaced>>

\* addFakedns, deleteFakedns: the last pool leaves null.
EditFakedns ==
  /\ dns.on
  /\ serverDialog = Closed
  /\ \/ fakedns = Null /\ fakedns' = 1
     \/ fakedns \in 0..(MaxFakedns - 1) /\ fakedns' = fakedns + 1
     \/ fakedns \in 1..MaxFakedns /\ fakedns' = IF fakedns = 1 THEN Null ELSE fakedns - 1
  /\ UNCHANGED <<dns, hostRows, serverDialog, replaced>>

\* A refetch delivers another template while the tab is shown.
TemplateReplaced ==
  /\ ~ replaced
  /\ dns' \in {Off, On, [On EXCEPT !.hosts = Domains]}
  /\ fakedns' = Null
  /\ HostsEffect(dns')
  /\ replaced' = TRUE
  /\ UNCHANGED serverDialog

DnsNext ==
  \/ toggleDNS \/ EditHosts \/ openServerModal \/ onServerConfirm \/ RemoveServers
  \/ EditFakedns \/ TemplateReplaced

DnsSpec == DnsInit /\ [][DnsNext]_dnsVars

-----------------------------------------------------------------------------
(* Properties *)

\* dns.hosts is what the rows on the screen say, through every toggle and
\* edit; only a refetch that replaces the template under the tab separates
\* them, as the effect depends on whether there is a dns section and not on
\* its hosts (DnsTab.tsx).
HostsShown == ~ replaced => dns.hosts = HostsOf(hostRows)

\* fakedns is null or has a pool, and goes with the dns section: xray refuses
\* an empty list.
FakednsUsable == fakedns # 0 /\ (~ dns.on => fakedns = Null)

\* Confirming the dialog changes the server it was opened for and no other,
\* and only a new one makes the list longer, unless the template was replaced
\* meanwhile.
OneServerChanges ==
  (onServerConfirm /\ ~ replaced /\ serverDialog # 0)
    => /\ Len(dns'.servers) = Len(dns.servers)
       /\ \A k \in DOMAIN dns.servers \ {serverDialog} :
            dns'.servers[k] = dns.servers[k]
=============================================================================
