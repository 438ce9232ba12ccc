------------------------------- MODULE Groups -------------------------------
(***************************************************************************)
(* The groups page (frontend/src/pages/groups/): the groups with their     *)
(* numbers of clients, and the dialogs that act on the clients of one      *)
(* group.  The page keeps one group and one list of e-mails for all its    *)
(* dialogs (groupForAction, groupEmails); the dialogs with links and with  *)
(* adjustments open only when a request for the members is answered, so    *)
(* one may open over another.  The two pickers choose among the clients of *)
(* a cached list, which is shown while a newer one is under way.           *)
(***************************************************************************)
EXTENDS Naturals, FiniteSets

CONSTANTS
  Members,      \* the clients
  GroupNames,   \* the names groups have
  NoGroup,
  MaxMoves,     \* bound: changes made by somebody else
  MaxActs       \* bound: menu clicks of this operator

ASSUME GroupsAssumption == NoGroup \notin GroupNames /\ MaxMoves \in Nat /\ MaxActs \in Nat

VARIABLES
  groupOf,       \* the server: client -> group
  groupsStored,        \* the server: the groups that exist without members too
  cached,        \* the lists of the page: client -> group, and the groups' names
  listAsk,       \* the request for them: none, asked or the answer under way
  opens,         \* openSubLinksFor and openAdjustFor waiting for the members
  dialogs,       \* the dialogs that are open
  forAction,     \* groupForAction
  emails,        \* groupEmails
  picked,        \* the clients selected in a picker
  posts,         \* the requests of the dialogs under way
  clickedFor,    \* history: the group each open dialog was opened for
  groupAlibi,    \* history: dialogs opened while the members of a group were still
                 \* awaited for another one, and whether somebody else changed the groups since the lists were read
  acts, moves

groupVars == <<groupOf, groupsStored, cached, listAsk, opens, dialogs, forAction, emails, picked,
               posts, clickedFor, groupAlibi, acts, moves>>

MemberPickers == {"add", "remove"}
Fetched == {"subLinks", "adjust"}
IdleDialog == [at |-> "none"]
Serving == [of |-> groupOf, names |-> groupsStored \cup ({groupOf[c] : c \in Members} \ {NoGroup})]

GroupsInit ==
  /\ groupOf \in [Members -> GroupNames \cup {NoGroup}]
  /\ groupsStored = {groupOf[c] : c \in Members} \ {NoGroup}
  /\ cached = Serving
  /\ listAsk = IdleDialog
  /\ opens = {} /\ dialogs = {} /\ posts = {}
  /\ forAction = NoGroup /\ emails = {} /\ picked = {}
  /\ clickedFor = [d \in MemberPickers \cup Fetched |-> NoGroup]
  /\ groupAlibi = [hurried |-> {}, outside |-> FALSE]
  /\ acts = 0 /\ moves = 0

membersOf(of, g) == {c \in Members : of[c] = g}

-----------------------------------------------------------------------------
(* The lists *)

\* A request for the lists starts again when another one is already under way.
Refetch ==
  /\ listAsk = IdleDialog
  /\ listAsk' = [at |-> "asked"]
  /\ UNCHANGED <<groupOf, groupsStored, cached, opens, dialogs, forAction, emails, picked, posts,
                 clickedFor, groupAlibi, acts, moves>>

ServerLists ==
  /\ listAsk.at = "asked"
  /\ listAsk' = [at |-> "read", lists |-> Serving]
  /\ groupAlibi' = [groupAlibi EXCEPT !.outside = FALSE]
  /\ UNCHANGED <<groupOf, groupsStored, cached, opens, dialogs, forAction, emails, picked, posts,
                 clickedFor, acts, moves>>

ListsArrive ==
  /\ listAsk.at = "read"
  /\ cached' = listAsk.lists
  /\ listAsk' = IdleDialog
  /\ UNCHANGED <<groupOf, groupsStored, opens, dialogs, forAction, emails, picked, posts,
                 clickedFor, groupAlibi, acts, moves>>

-----------------------------------------------------------------------------
(* Opening a dialog *)

\* A dialog covers the page: its menus are out of reach while one is open.
ClickGroup == dialogs = {} /\ acts < MaxActs /\ acts' = acts + 1

\* Dialog d opens while the answers to asks are still to come.
Hurried(d, asks) ==
  IF asks = {} THEN groupAlibi.hurried \ {d} ELSE groupAlibi.hurried \cup {d}

\* openAddClientsFor, openRemoveClientsFor: the picker starts with nothing selected.
openPicker(d, g) ==
  /\ ClickGroup
  /\ g \in cached.names
  /\ d = "remove" => membersOf(cached.of, g) # {}
  /\ forAction' = g
  /\ picked' = {}
  /\ dialogs' = dialogs \cup {d}
  /\ clickedFor' = [clickedFor EXCEPT ![d] = g]
  /\ groupAlibi' = [groupAlibi EXCEPT !.hurried = Hurried(d, opens)]
  /\ UNCHANGED <<groupOf, groupsStored, cached, listAsk, opens, emails, posts, moves>>

\* openSubLinksFor, openAdjustFor: the members are asked for first.
openFetched(d, g) ==
  /\ ClickGroup
  /\ g \in cached.names /\ membersOf(cached.of, g) # {}
  /\ opens' = opens \cup {[kind |-> d, group |-> g]}
  /\ UNCHANGED <<groupOf, groupsStored, cached, listAsk, dialogs, forAction, emails, picked, posts,
                 clickedFor, groupAlibi, moves>>

\* The group and its members take the place of those of whatever is open.
OpenedWith(o, found) ==
  /\ opens' = opens \ {o}
  /\ forAction' = o.group
  /\ emails' = found
  /\ dialogs' = dialogs \cup {o.kind}
  /\ clickedFor' = [clickedFor EXCEPT ![o.kind] = o.group]
  /\ groupAlibi' = [groupAlibi EXCEPT !.hurried = Hurried(o.kind, opens')]

MembersArrive(o) ==
  LET found == membersOf(groupOf, o.group)
  IN /\ IF found = {} THEN opens' = opens \ {o}
                           /\ UNCHANGED <<forAction, emails, dialogs, clickedFor, groupAlibi>>
                      ELSE OpenedWith(o, found)
     /\ UNCHANGED <<groupOf, groupsStored, cached, listAsk, picked, posts, acts, moves>>

\* What a picker offers.
Candidates_(d) ==
  IF d = "add" THEN {c \in Members : cached.of[c] # forAction} ELSE membersOf(cached.of, forAction)

TogglePicked(d, c) ==
  /\ d \in dialogs \cap MemberPickers
  /\ c \in Candidates_(d)
  /\ picked' = IF c \in picked THEN picked \ {c} ELSE picked \cup {c}
  /\ UNCHANGED <<groupOf, groupsStored, cached, listAsk, opens, dialogs, forAction, emails, posts,
                 clickedFor, groupAlibi, acts, moves>>

onCancel(d) ==
  /\ d \in dialogs
  /\ dialogs' = dialogs \ {d}
  /\ UNCHANGED <<groupOf, groupsStored, cached, listAsk, opens, forAction, emails, picked, posts,
                 clickedFor, groupAlibi, acts, moves>>

-----------------------------------------------------------------------------
(* Requests *)

Sends(p) ==
  /\ p \notin posts
  /\ posts' = posts \cup {p}
  /\ UNCHANGED <<groupOf, groupsStored, cached, listAsk, opens, forAction, emails, picked, dialogs,
                 clickedFor, groupAlibi, moves>>

Post(kind, group, of, to) == [kind |-> kind, group |-> group, of |-> of, to |-> to, done |-> FALSE]

\* The OK of a picker: its button waits for the answer of the last one.
submitPicker(d) ==
  /\ d \in dialogs \cap MemberPickers /\ picked # {}
  /\ \A p \in posts : p.kind # d
  /\ Sends(Post(d, forAction, picked, IF d = "add" THEN forAction ELSE NoGroup))
  /\ UNCHANGED acts

submitAdjust ==
  /\ "adjust" \in dialogs
  /\ \A p \in posts : p.kind # "adjust"
  /\ Sends(Post("adjust", forAction, emails, NoGroup))
  /\ UNCHANGED acts

\* The dialogs without a selection: a new group, a new name, deleting a group
\* with or without its clients.  A name that the list shows already is refused.
confirmCreate(name) ==
  /\ ClickGroup /\ name \notin cached.names
  /\ Sends(Post("create", name, {}, name))

confirmRename(g, name) ==
  /\ ClickGroup /\ g \in cached.names /\ name \notin cached.names
  /\ Sends(Post("rename", g, {}, name))

onDeleteGroup(g) ==
  /\ ClickGroup /\ g \in cached.names
  /\ Sends(Post("rename", g, {}, NoGroup))

\* onDeleteClients: the members are read once more before they are deleted.
onDeleteClients(g) ==
  /\ ClickGroup /\ g \in cached.names /\ membersOf(cached.of, g) # {}
  /\ membersOf(groupOf, g) # {}
  /\ Sends(Post("delete", g, membersOf(groupOf, g), NoGroup))

\* The server: a new name that another stored group has is refused when the
\* renamed group is stored too, and joins the groups otherwise.
Effect(p) ==
  CASE p.kind \in MemberPickers ->
         /\ groupOf' = [c \in Members |-> IF c \in p.of THEN p.to ELSE groupOf[c]]
         /\ groupsStored' = groupsStored \cup ({p.to} \ (Serving.names \cup {NoGroup}))
    [] p.kind = "create" -> groupOf' = groupOf /\ groupsStored' = groupsStored \cup {p.to}
    [] p.kind = "rename" /\ ~(p.group \in groupsStored /\ p.to \in groupsStored) ->
         /\ groupOf' = [c \in Members |-> IF groupOf[c] = p.group THEN p.to ELSE groupOf[c]]
         /\ groupsStored' = IF p.group \in groupsStored THEN (groupsStored \ {p.group}) \cup ({p.to} \ {NoGroup})
                      ELSE groupsStored
    [] OTHER -> UNCHANGED <<groupOf, groupsStored>>

Executes(p) ==
  /\ p \in posts /\ ~p.done
  /\ Effect(p)
  /\ posts' = (posts \ {p}) \cup {[p EXCEPT !.done = TRUE]}
  /\ UNCHANGED <<cached, listAsk, opens, dialogs, forAction, emails, picked, clickedFor,
                 groupAlibi, acts, moves>>

\* A success asks for the lists again and closes the dialog of its kind,
\* whichever group that one is open for by now.
PostAnswered(p) ==
  /\ p \in posts /\ p.done
  /\ posts' = posts \ {p}
  /\ dialogs' = dialogs \ {p.kind}
  /\ listAsk' = [at |-> "asked"]
  /\ UNCHANGED <<groupOf, groupsStored, cached, opens, forAction, emails, picked, clickedFor,
                 groupAlibi, acts, moves>>

\* A failure leaves everything, and its dialog open.
Fails(p) ==
  /\ p \in posts /\ ~p.done
  /\ posts' = posts \ {p}
  /\ UNCHANGED <<groupOf, groupsStored, cached, listAsk, opens, dialogs, forAction, emails, picked,
                 clickedFor, groupAlibi, acts, moves>>

\* Somebody else moves a client to another group.
OthersMove(c, g) ==
  /\ moves < MaxMoves
  /\ g \in groupsStored \cup {NoGroup} /\ g # groupOf[c]
  /\ groupOf' = [groupOf EXCEPT ![c] = g]
  /\ moves' = moves + 1
  /\ groupAlibi' = [groupAlibi EXCEPT !.outside = TRUE]
  /\ UNCHANGED <<groupsStored, cached, listAsk, opens, dialogs, forAction, emails, picked, posts,
                 clickedFor, acts>>

GroupsNext ==
  \/ Refetch \/ ServerLists \/ ListsArrive
  \/ \E g \in GroupNames :
       \/ \E d \in MemberPickers : openPicker(d, g)
       \/ \E d \in Fetched : openFetched(d, g)
       \/ confirmCreate(g) \/ onDeleteGroup(g) \/ onDeleteClients(g)
       \/ \E name \in GroupNames : confirmRename(g, name)
  \/ \E o \in opens : MembersArrive(o)
  \/ \E d \in MemberPickers, c \in Members : TogglePicked(d, c)
  \/ \E d \in MemberPickers : submitPicker(d)
  \/ submitAdjust
  \/ \E d \in dialogs : onCancel(d)
  \/ \E p \in posts : Executes(p) \/ PostAnswered(p) \/ Fails(p)
  \/ \E c \in Members, g \in GroupNames \cup {NoGroup} : OthersMove(c, g)

GroupsSpec == GroupsInit /\ [][GroupsNext]_groupVars

-----------------------------------------------------------------------------
\* A dialog acts on the group whose menu it was opened from, provided that no
\* members were awaited for another dialog when it opened: groupForAction is one
\* state for all of them, and the answer for that other dialog replaces the group
\* under the open one.
DialogsAimRight ==
  \A d \in dialogs \ groupAlibi.hurried : forAction = clickedFor[d]

\* The lists show what is stored whenever nothing is under way and nobody else
\* changed the groups since they were read (invalidateAll after every change):
\* a removal, which clears whatever group its clients are in by then, touches
\* members only.
ListsCurrent ==
  (listAsk = IdleDialog /\ (\A p \in posts : ~p.done) /\ ~groupAlibi.outside) => cached = Serving
=============================================================================
