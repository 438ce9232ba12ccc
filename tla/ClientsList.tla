----------------------------- MODULE ClientsList -----------------------------
(***************************************************************************)
(* The list of clients: frontend/src/pages/clients/ClientsPage.tsx over    *)
(* hooks/useClients.ts.  The server filters, sorts and pages; the page     *)
(* keeps the controls, turns them into a query in an effect, and shows     *)
(* the answer to the last query while the next is on its way.  Ticked      *)
(* rows feed the bulk operations, whose dialogs are confirmed later.       *)
(*                                                                         *)
(* A client is an e-mail and one bucket; a filter is the set of buckets    *)
(* let through; the search box lags 300 ms behind what is typed in it.     *)
(***************************************************************************)
EXTENDS Naturals, Sequences, FiniteSets, SequencesExt

CONSTANTS
  ListEmails,        \* the e-mails, a sequence in the order of the server's sort
  FirstListed,       \* those that exist at first
  FilterChoices,     \* the filters the drawer can set: sets of buckets
  PageSize,          \* rows on a page
  MaxListChanges     \* bound: changes of the controls and of the clients

Buckets == {"active", "depleted"}

ASSUME ClientsListAssumption ==
  /\ ListEmails \in Seq(ToSet(ListEmails)) /\ ListEmails # << >>
  /\ PageSize \in Nat \ {0} /\ MaxListChanges \in Nat
  /\ FilterChoices \subseteq SUBSET Buckets
  /\ FirstListed \subseteq ToSet(ListEmails)

VARIABLES
  listed,            \* the server: e-mail -> bucket, for those that exist
  listControls,      \* [filter, search, typed]: search is debounced, typed is not yet
  listPage,          \* currentPage
  listSeen,          \* the controls that the page-reset effect ran for
  listQuery,         \* useClients: the query asked for
  listShown,         \* the answer on screen: [query, filtered], and rows, a set
  listSelection,     \* selectedRowKeys
  listBulk,          \* the bulk operation confirmed or under way: [kind, emails]
  listAlibi,         \* history: the clients changed since page 1 was answered
  listChanges        \* history: how many changes so far

listVars == <<listed, listControls, listPage, listSeen, listQuery, listShown,
              listSelection, listBulk, listAlibi, listChanges>>

KnownEmails == ToSet(ListEmails)
AnyBucket == Buckets
EverySearch == KnownEmails      \* an empty box matches every e-mail

(***************************************************************************)
(* The server's page (internal/web/service/client_paging.go, ListPaged):   *)
(* past the end it is empty, and the count tells how many match in all.    *)
(***************************************************************************)
Matching(q) == {i \in DOMAIN ListEmails :
  LET e == ListEmails[i] IN e \in DOMAIN listed /\ listed[e] \in q.filter /\ e \in q.search}

Place(keep, i) == Cardinality({j \in keep : j <= i})

AnswerTo(q) ==
  LET first == (q.page - 1) * PageSize + 1
      m == Matching(q) IN
  [query |-> q, filtered |-> Cardinality(m),
   rows |-> {ListEmails[i] : i \in {j \in m : Place(m, j) \in first .. first + PageSize - 1}}]

Controls(f, s) == [filter |-> f, search |-> s]
QueryOf(c, p) == [filter |-> c.filter, search |-> c.search, page |-> p]

ClientsListInit ==
  /\ \E how \in [FirstListed -> Buckets] : listed = how
  /\ listControls = [filter |-> AnyBucket, search |-> EverySearch, typed |-> EverySearch]
  /\ listPage = 1
  /\ listSeen = Controls(AnyBucket, EverySearch)
  /\ listQuery = QueryOf(listSeen, 1)
  /\ listShown = AnswerTo(listQuery)
  /\ listSelection = {}
  /\ listBulk = [kind |-> "none", emails |-> {}]
  /\ listAlibi = FALSE
  /\ listChanges = 0

Change == listChanges < MaxListChanges /\ listChanges' = listChanges + 1
Applied == Controls(listControls.filter, listControls.search)

(* The effects have run and the answer on screen is to this very query;    *)
(* until then a spinner covers the table and its pager.                    *)
ListSettled == listSeen = Applied /\ listQuery = QueryOf(Applied, listPage)
               /\ listShown.query = listQuery

(***************************************************************************)
(* The controls: the filter drawer and the tags that clear one filter, the *)
(* search box and the timer that lets it through, the pager.               *)
(***************************************************************************)
PickFilter == \E f \in FilterChoices :
  /\ f # listControls.filter /\ Change
  /\ listControls' = [listControls EXCEPT !.filter = f]
  /\ UNCHANGED <<listed, listPage, listSeen, listQuery, listShown, listSelection, listBulk, listAlibi>>

clearOneFilter ==
  /\ listControls.filter # AnyBucket /\ Change
  /\ listControls' = [listControls EXCEPT !.filter = AnyBucket]
  /\ UNCHANGED <<listed, listPage, listSeen, listQuery, listShown, listSelection, listBulk, listAlibi>>

TypeSearch == \E s \in {EverySearch} \cup {{e} : e \in KnownEmails} :
  /\ s # listControls.typed /\ Change
  /\ listControls' = [listControls EXCEPT !.typed = s]
  /\ UNCHANGED <<listed, listPage, listSeen, listQuery, listShown, listSelection, listBulk, listAlibi>>

SearchSettles ==
  /\ listControls.typed # listControls.search
  /\ listControls' = [listControls EXCEPT !.search = listControls.typed]
  /\ UNCHANGED <<listed, listPage, listSeen, listQuery, listShown, listSelection, listBulk, listAlibi, listChanges>>

(* The pager is there only while the answer on screen needs one. *)
onTableChange == \E p \in 1 .. Len(ListEmails) :
  /\ ListSettled /\ p # listPage /\ listShown.filtered > PageSize
  /\ (p - 1) * PageSize < listShown.filtered
  /\ listPage' = p
  /\ UNCHANGED <<listed, listControls, listSeen, listQuery, listShown, listSelection, listBulk, listAlibi, listChanges>>

(* The page is reset for the search box only. *)
EffectsForSearch ==
  /\ listSeen # Applied \/ listQuery # QueryOf(Applied, listPage)
  /\ listSeen' = Applied
  /\ listPage' = IF listSeen.search # listControls.search THEN 1 ELSE listPage
  /\ listQuery' = QueryOf(Applied, listPage)
  /\ UNCHANGED <<listed, listControls, listShown, listSelection, listBulk, listAlibi, listChanges>>

(* The effects of a render whose controls or page changed: one resets the  *)
(* page when a control changed, the other sends the query with the page of *)
(* this render; the next render sends it again with the page reset.        *)
Effects ==
  /\ listSeen # Applied \/ listQuery # QueryOf(Applied, listPage)
  /\ listSeen' = Applied
  /\ listPage' = IF listSeen # Applied THEN 1 ELSE listPage
  /\ listQuery' = QueryOf(Applied, listPage)
  /\ UNCHANGED <<listed, listControls, listShown, listSelection, listBulk, listAlibi, listChanges>>

(* An answer to the query: to the first request, the five-second poll or   *)
(* the refetch after a change.  An answer to another query is not shown.   *)
ListAnswers ==
  /\ listShown # AnswerTo(listQuery) \/ listAlibi
  /\ listShown' = AnswerTo(listQuery)
  /\ listAlibi' = (listAlibi /\ ~(listPage = 1 /\ listQuery.page = 1))
  /\ UNCHANGED <<listed, listControls, listPage, listSeen, listQuery, listSelection, listBulk, listChanges>>

(***************************************************************************)
(* Ticking rows.  The table drops the keys it has no row for whenever one  *)
(* of its boxes is clicked; the cards of a small screen keep them.         *)
(***************************************************************************)
OnScreen == listShown.rows
Ticks(keys) ==
  /\ ListSettled /\ listBulk.kind = "none" /\ keys # listSelection
  /\ listSelection' = keys
  /\ UNCHANGED <<listed, listControls, listPage, listSeen, listQuery, listShown, listBulk, listAlibi, listChanges>>

Flip(S, e) == (S \ {e}) \cup ({e} \ S)
rowSelection == \E e \in OnScreen : Ticks(Flip(listSelection, e) \cap OnScreen)
toggleSelect == \E e \in OnScreen : Ticks(Flip(listSelection, e))
selectAll == \E checked \in BOOLEAN : Ticks(IF checked THEN OnScreen ELSE {})

(***************************************************************************)
(* Bulk operations.  The e-mails are those ticked when the dialog opens,   *)
(* and the selection is emptied when the answer comes: always after a bulk *)
(* deletion or switching, after the others only when they succeeded.       *)
(***************************************************************************)
BulkKinds == {"delete", "disable", "group"}

AskBulk == \E kind \in BulkKinds :
  /\ listBulk.kind = "none" /\ listSelection # {} /\ Change
  /\ listBulk' = [kind |-> kind, emails |-> listSelection]
  /\ UNCHANGED <<listed, listControls, listPage, listSeen, listQuery, listShown, listSelection, listAlibi>>

CancelBulk ==
  /\ listBulk.kind # "none"
  /\ listBulk' = [kind |-> "none", emails |-> {}]
  /\ UNCHANGED <<listed, listControls, listPage, listSeen, listQuery, listShown, listSelection, listAlibi, listChanges>>

Without(S) == [e \in DOMAIN listed \ S |-> listed[e]]
BulkAnswers(ok) ==
  /\ listBulk.kind # "none"
  /\ listBulk' = [kind |-> "none", emails |-> {}]
  /\ listed' = IF ~ok THEN listed
               ELSE CASE listBulk.kind = "delete" -> Without(listBulk.emails)
                      [] listBulk.kind = "disable" -> [e \in DOMAIN listed |->
                           IF e \in listBulk.emails THEN "depleted" ELSE listed[e]]
                      [] listBulk.kind = "group" -> listed
  /\ listSelection' = IF listBulk.kind \in {"delete", "disable"} \/ ok THEN {} ELSE listSelection
  /\ listAlibi' = (listAlibi \/ listed' # listed)
  /\ UNCHANGED <<listControls, listPage, listSeen, listQuery, listShown, listChanges>>

(* The trash can of a row. *)
onDelete == \E e \in OnScreen \cap DOMAIN listed :
  /\ ListSettled /\ listBulk.kind = "none" /\ Change
  /\ listed' = Without({e})
  /\ listAlibi' = TRUE
  /\ UNCHANGED <<listControls, listPage, listSeen, listQuery, listShown, listSelection, listBulk>>

(* The menu that is there while nothing is ticked: the depleted clients are *)
(* deleted, or those that no inbound has; a reset of all traffic makes     *)
(* active whoever was depleted by it.                                      *)
MenuAnswers(after) ==
  /\ listSelection = {} /\ listBulk.kind = "none" /\ Change
  /\ listed' = after /\ after # listed
  /\ listAlibi' = TRUE
  /\ UNCHANGED <<listControls, listPage, listSeen, listQuery, listShown, listSelection, listBulk>>

onDelDepleted == MenuAnswers(Without({e \in DOMAIN listed : listed[e] = "depleted"}))
onDeleteOrphans == \E orphans \in SUBSET DOMAIN listed : MenuAnswers(Without(orphans))
onResetAllTraffics == \E S \in SUBSET DOMAIN listed :
  MenuAnswers([e \in DOMAIN listed |-> IF e \in S THEN "active" ELSE listed[e]])

(* Everything else that changes the clients: other administrators, the     *)
(* traffic job, an import.                                                 *)
ClientsChange == \E e \in KnownEmails, b \in Buckets :
  /\ Change
  /\ listed' = [x \in DOMAIN listed \cup {e} |-> IF x = e THEN b ELSE listed[x]]
  /\ listed' # listed
  /\ listAlibi' = TRUE
  /\ UNCHANGED <<listControls, listPage, listSeen, listQuery, listShown, listSelection, listBulk>>

ClientsListNext ==
  \/ PickFilter \/ clearOneFilter \/ TypeSearch \/ SearchSettles \/ onTableChange
  \/ Effects \/ ListAnswers
  \/ rowSelection \/ toggleSelect \/ selectAll
  \/ AskBulk \/ CancelBulk
  \/ \E ok \in BOOLEAN : BulkAnswers(ok)
  \/ onDelete \/ onDelDepleted \/ onDeleteOrphans \/ onResetAllTraffics \/ ClientsChange

ClientsListSpec == ClientsListInit /\ [][ClientsListNext]_listVars

(***************************************************************************)
(* Properties                                                              *)
(***************************************************************************)
ClientsListTypeOK ==
  /\ DOMAIN listed \subseteq KnownEmails /\ \A e \in DOMAIN listed : listed[e] \in Buckets
  /\ listControls \in [filter: SUBSET Buckets, search: SUBSET KnownEmails, typed: SUBSET KnownEmails]
  /\ listPage \in 1 .. Len(ListEmails) /\ listQuery.page \in 1 .. Len(ListEmails)
  /\ listShown.rows \subseteq KnownEmails /\ Cardinality(listShown.rows) <= PageSize
  /\ listSelection \subseteq KnownEmails /\ listBulk.emails \subseteq KnownEmails

(* Once the effects have run and the answer has come, the rows on screen   *)
(* are the answer to the controls on screen, and an empty table means that *)
(* nothing matches them: no sequence of filters, searches and pages leaves *)
(* an administrator on a page past the end.  Excused is a page that was    *)
(* emptied under the administrator, or reached by counts that were stale:  *)
(* nothing moves the list off it.                                          *)
EmptyMeansNone == ListSettled /\ ~listAlibi =>
  (listShown.rows = {} => listShown.filtered = 0)
=============================================================================
