----------------------------- MODULE ClientForm -----------------------------
(***************************************************************************)
(* The dialog that adds and edits a client: the clients page opens it      *)
(* (frontend/src/pages/clients/ClientsPage.tsx), ClientFormModal.tsx holds *)
(* what is typed, and useClients.ts sends the requests.  Opening it for an *)
(* edit first fetches the whole record ("hydrate"), because the rows of    *)
(* the list carry no flow, no credentials and no external links; saving it *)
(* is a chain of up to four requests, each of which may fail.  The switch  *)
(* of a row does its own fetch and its own update beside the dialog.       *)
(*                                                                         *)
(* A client is its e-mail and its subscription id, its traffic limit,      *)
(* whether it is enabled, the inbounds it is attached to, those of them on *)
(* which it has a flow, and its external links; the other fields of the    *)
(* form travel exactly as the limit does.  A limit is kept in bytes and    *)
(* shown in hundredths of a gigabyte: Step bytes each.                     *)
(***************************************************************************)
EXTENDS Naturals, FiniteSets

CONSTANTS
  Emails,           \* the e-mails a client may carry
  Gateways,         \* the inbounds
  FlowCapable,      \* the inbounds on which a flow means something
  Links,            \* external links
  Limits,           \* traffic limits, in bytes
  Step,             \* bytes in a hundredth of a gigabyte
  FirstClients,     \* the clients the panel starts with: e-mail -> record
  NoEmail,          \* no client at all
  MaxClicks, MaxTyped   \* bounds: on clicks, and on changes typed in one dialog

ASSUME ClientFormAssumption ==
  /\ FlowCapable \subseteq Gateways
  /\ Step \in Nat \ {0} /\ Limits \subseteq Nat
  /\ NoEmail \notin Emails
  /\ MaxClicks \in Nat /\ MaxTyped \in Nat
  /\ DOMAIN FirstClients \subseteq Emails
  /\ \A e \in DOMAIN FirstClients :
       LET r == FirstClients[e]
       IN r = [sub |-> 0, flows |-> r.flows, limit |-> r.limit, enable |-> r.enable,
               ids |-> r.ids, links |-> r.links]
          /\ r.limit \in Nat /\ r.enable \in BOOLEAN /\ r.ids \subseteq Gateways
          /\ r.links \subseteq Links /\ r.flows \subseteq r.ids \cap FlowCapable

VARIABLES
  clients,          \* the server: e-mail -> record, for the clients that exist
  optionsLoaded,    \* the list of inbounds has arrived (useClients inboundOptionsQuery)
  hydrating,        \* rows whose Edit was clicked and whose record is awaited
  clientForm,       \* the page: [open, mode, email, ids], the client being edited
  clientFields,     \* the dialog: what its inputs show
  clientSaving,     \* the save under way: its next request and all it carries; and, as history,
                    \* whether its form was untouched and whether it was disturbed
  toggling,         \* the row switch under way: [email, stage, base]
  clientAlibi,      \* history: what excuses the dialog, and whom it was seeded for
  clientClicks      \* history: clicks on Add, Edit, Save and on a switch so far

clientVars == <<clients, optionsLoaded, hydrating, clientForm, clientFields,
                clientSaving, toggling, clientAlibi, clientClicks>>

\* What tells two states apart: a dialog is filled, and its history begun, when it opens.
clientShown == <<clients, optionsLoaded, hydrating, clientForm, clientSaving, toggling, clientClicks,
                 IF clientForm.open THEN <<clientFields, clientAlibi>> ELSE <<>>>>

ClientRecord == [sub: Nat, flows: SUBSET Gateways, limit: Nat, enable: BOOLEAN,
                 ids: SUBSET Gateways, links: SUBSET Links]

(* A client has the flow that it has on any of its inbounds (EffectiveFlow). *)
HasFlow(record) == record.flows # {}
TakeFlow(ids) == ids \cap FlowCapable # {}

Shown(limit) == ((limit + Step \div 2) \div Step) * Step
NoFields == [email |-> NoEmail, sub |-> 0, flow |-> FALSE, limit |-> 0, enable |-> TRUE,
             ids |-> {}, links |-> {}]
NotSaving == [stage |-> "none", edit |-> FALSE, target |-> NoEmail, fields |-> NoFields,
              attach |-> {}, detach |-> {}, faithful |-> FALSE, undisturbed |-> FALSE, again |-> FALSE]
NotToggling == [email |-> NoEmail, stage |-> "none", base |-> NoFields]
ClosedForm == [open |-> FALSE, mode |-> "add", email |-> NoEmail, ids |-> {}]
NoAlibi == [for |-> NoEmail, typed |-> 0, blind |-> FALSE,
            halfway |-> FALSE, disturbed |-> FALSE, alone |-> FALSE]

(* A row of the paged list: no flow, no external links. *)
Slim(record) == [record EXCEPT !.flows = {}, !.links = {}]

ClientFormInit ==
  /\ clients = FirstClients
  /\ optionsLoaded = FALSE
  /\ hydrating = {}
  /\ clientForm = ClosedForm
  /\ clientFields = NoFields
  /\ clientSaving = NotSaving
  /\ toggling = NotToggling
  /\ clientAlibi = NoAlibi
  /\ clientClicks = 0

Click == clientClicks < MaxClicks /\ clientClicks' = clientClicks + 1

Exists(e) == e \in DOMAIN clients
ShowsFlow(ids) == optionsLoaded /\ TakeFlow(ids)

(***************************************************************************)
(* Opening.  The dialog reads its client only when it opens (the effect    *)
(* depends on [open, isEdit]); the effect that hides the flow runs with it.*)
(***************************************************************************)
WithoutHiddenFlow(f) == [f EXCEPT !.flow = f.flow /\ ShowsFlow(f.ids)]

SeededFields(e, record) ==
  WithoutHiddenFlow([email |-> e, sub |-> record.sub, flow |-> HasFlow(record),
    limit |-> Shown(record.limit), enable |-> record.enable,
    ids |-> record.ids, links |-> record.links])

(* A made-up e-mail is nobody's; none is left when Emails has run out. *)
FreshEmails == IF Emails \subseteq DOMAIN clients THEN {NoEmail} ELSE Emails \ DOMAIN clients

(* An empty form has fresh credentials and a subscription id of its own, *)
(* no inbound, and an e-mail that is made up.                            *)
EmptyForm == \E e \in FreshEmails : clientFields' = [NoFields EXCEPT !.email = e, !.sub = clientClicks']

(* The Add button *)
onAdd ==
  /\ ~clientForm.open
  /\ clientForm' = [open |-> TRUE, mode |-> "add", email |-> NoEmail, ids |-> {}]
  /\ Click /\ EmptyForm
  /\ clientAlibi' = NoAlibi
  /\ UNCHANGED <<clients, optionsLoaded, hydrating, clientSaving, toggling>>

(* The dialog opens at once and is filled when the record arrives. *)
OnEditOpensFirst(e) ==
  /\ ~clientForm.open /\ Exists(e)
  /\ clientForm' = [clientForm EXCEPT !.mode = "edit", !.open = clientForm.email # NoEmail]
  /\ hydrating' = hydrating \cup {[email |-> e, row |-> Slim(clients[e])]}
  /\ clientAlibi' = [NoAlibi EXCEPT !.for = e, !.alone = hydrating = {}]
  /\ Click
  /\ UNCHANGED <<clients, optionsLoaded, clientFields, clientSaving, toggling>>

(* The Edit button of a row sets the mode and asks for the record. *)
onEdit(e) ==
  /\ ~clientForm.open /\ Exists(e)
  /\ clientForm' = [clientForm EXCEPT !.mode = "edit"]
  /\ hydrating' = hydrating \cup {[email |-> e, row |-> Slim(clients[e])]}
  /\ Click
  /\ UNCHANGED <<clients, optionsLoaded, clientFields, clientSaving, toggling, clientAlibi>>

(* The record arrives, or the request fails and the row has to do.  The    *)
(* dialog opens; one that is open already keeps what it shows, although    *)
(* the page now edits another client.                                      *)
Hydrated(ask, ok) ==
  LET e == ask.email
      full == ok /\ Exists(e)
      record == IF full THEN clients[e] ELSE ask.row
  IN
  /\ ask \in hydrating
  /\ ok => Exists(e)
  /\ UNCHANGED clientClicks
  /\ hydrating' = hydrating \ {ask}
  /\ clientForm' = [clientForm EXCEPT !.open = TRUE, !.email = e, !.ids = record.ids]
  /\ IF clientForm.open
     THEN /\ clientAlibi' = [clientAlibi EXCEPT !.disturbed = TRUE]
          /\ UNCHANGED clientFields
     ELSE IF clientForm.mode = "edit"
     THEN /\ clientFields' = SeededFields(e, record)
          /\ clientAlibi' = [for |-> e, typed |-> 0,
               blind |-> ~full \/ ~optionsLoaded, halfway |-> ~full,
               disturbed |-> toggling.stage # "none" \/ clientSaving.stage # "none",
               alone |-> hydrating' = {}]
     ELSE EmptyForm /\ clientAlibi' = NoAlibi
  /\ UNCHANGED <<clients, optionsLoaded, clientSaving, toggling>>

OptionsArrive ==
  /\ ~optionsLoaded
  /\ optionsLoaded' = TRUE
  /\ UNCHANGED <<clients, hydrating, clientForm, clientFields, clientSaving, toggling, clientAlibi, clientClicks>>

(***************************************************************************)
(* Typing.  One input at a time; detaching the last inbound that takes a   *)
(* flow also clears the flow.                                              *)
(***************************************************************************)
Types(f) ==
  /\ clientForm.open /\ clientAlibi.typed < MaxTyped
  /\ f # clientFields
  /\ clientFields' = WithoutHiddenFlow(f)
  /\ clientAlibi' = [clientAlibi EXCEPT !.typed = @ + 1]
  /\ UNCHANGED <<clients, optionsLoaded, hydrating, clientForm, clientSaving, toggling, clientClicks>>

TypeBasics ==
  \/ \E e \in Emails : Types([clientFields EXCEPT !.email = e])
  \/ \E n \in Limits : Types([clientFields EXCEPT !.limit = Shown(n)])
  \/ Types([clientFields EXCEPT !.enable = ~@])
ToggleAttached == \E i \in Gateways :
  Types([clientFields EXCEPT !.ids = (@ \ {i}) \cup ({i} \ @)])
PickFlow == ShowsFlow(clientFields.ids) /\ Types([clientFields EXCEPT !.flow = ~@])
EditLinks == \E l \in Links :
  Types([clientFields EXCEPT !.links = (@ \ {l}) \cup ({l} \ @)])

CloseForm ==
  /\ clientForm.open
  /\ clientForm' = [clientForm EXCEPT !.open = FALSE]
  /\ UNCHANGED <<clients, optionsLoaded, hydrating, clientFields, clientSaving, toggling, clientAlibi, clientClicks>>

(***************************************************************************)
(* Saving.  An edit sends update, then attach and detach when there is     *)
(* something to attach or detach, then always the links; an addition sends *)
(* create and, when there are any, the links.  A failure ends the chain    *)
(* and leaves the dialog open; success closes it.                          *)
(***************************************************************************)
onSubmit ==
  LET edit == clientForm.mode = "edit" IN
  /\ clientForm.open /\ clientSaving.stage = "none"
  /\ clientFields.email # NoEmail
  /\ edit \/ clientFields.ids # {}
  /\ clientSaving' = [
       stage |-> IF edit THEN "update" ELSE "create",
       edit |-> edit,
       target |-> IF edit THEN clientForm.email ELSE clientFields.email,
       fields |-> WithoutHiddenFlow(clientFields),
       attach |-> IF edit THEN clientFields.ids \ clientForm.ids ELSE {},
       detach |-> IF edit THEN clientForm.ids \ clientFields.ids ELSE {},
       faithful |-> edit /\ clientAlibi.typed = 0 /\ ~clientAlibi.blind /\ ~clientAlibi.disturbed,
       undisturbed |-> ~clientAlibi.disturbed, again |-> clientAlibi.halfway]
  /\ Click
  /\ UNCHANGED <<clients, optionsLoaded, hydrating, clientForm, clientFields, toggling, clientAlibi>>

(* The request that follows the one just answered (ClientsPage onSave). *)
NextStage(s) ==
  CASE s.stage = "create" -> IF s.fields.links # {} THEN "links" ELSE "none"
    [] s.stage = "links" -> "none"
    [] OTHER -> IF s.stage = "update" /\ s.attach # {} THEN "attach"
                ELSE IF s.stage # "detach" /\ s.detach # {} THEN "detach" ELSE "links"

(* Create goes over the inbounds that were chosen: where the client is already it is *)
(* left, and it is always created enabled.  A flow stays with the inbounds that take *)
(* one (clientWithInboundFlow).                                                      *)
Created(s) ==
  LET f == s.fields
      r == IF Exists(f.email) THEN clients[f.email]
           ELSE [sub |-> f.sub, flows |-> {}, limit |-> f.limit, enable |-> TRUE, ids |-> {}, links |-> {}]
      new == f.ids \ r.ids
  IN IF new = {} THEN r
     ELSE [r EXCEPT !.ids = @ \cup new, !.limit = f.limit, !.enable = TRUE,
                    !.flows = @ \cup (IF f.flow THEN new \cap FlowCapable ELSE {})]

(* Update goes over the inbounds that the client is on, and writes the switch and the *)
(* e-mail into the record as well; so a client that is on none keeps its limit.       *)
Updated(r, f) ==
  [r EXCEPT !.flows = IF f.flow THEN r.ids \cap FlowCapable ELSE {},
            !.limit = IF r.ids = {} THEN @ ELSE f.limit, !.enable = f.enable]

Rekeyed(s) == [e \in (DOMAIN clients \ {s.target}) \cup {s.fields.email} |->
  IF e = s.fields.email THEN Updated(clients[s.target], s.fields) ELSE clients[e]]

(* Attach gives the flow that the client has elsewhere to the inbounds that take one. *)
Attached(r, new) ==
  [r EXCEPT !.ids = @ \cup new,
            !.flows = @ \cup (IF HasFlow(r) THEN (new \ r.ids) \cap FlowCapable ELSE {})]
Detached(r, old) == [r EXCEPT !.ids = @ \ old, !.flows = @ \ old]

(* What the server makes of a request that it accepts. *)
Answered(s) ==
  LET e == s.fields.email IN
  CASE s.stage = "create" -> [x \in DOMAIN clients \cup {e} |-> IF x = e THEN Created(s) ELSE clients[x]]
    [] s.stage = "update" -> Rekeyed(s)
    [] s.stage = "attach" -> [clients EXCEPT ![e] = Attached(@, s.attach)]
    [] s.stage = "detach" -> [clients EXCEPT ![e] = Detached(@, s.detach)]
    [] s.stage = "links"  -> [clients EXCEPT ![e].links = s.fields.links]

(* An e-mail that is taken is accepted from the dialog that has created it, which has *)
(* its subscription id; and that id is no other client's.                             *)
Acceptable(s) ==
  CASE s.stage = "create" ->
         \A x \in DOMAIN clients : (x = s.fields.email) = (clients[x].sub = s.fields.sub)
    [] s.stage = "update" -> Exists(s.target) /\ (s.fields.email # s.target => ~Exists(s.fields.email))
    [] OTHER -> Exists(s.fields.email)

RequestSucceeds ==
  LET s == clientSaving
      next == NextStage(s)
  IN
  /\ s.stage # "none" /\ Acceptable(s)
  /\ clients' = Answered(s)
  /\ clientSaving' = IF next = "none" THEN NotSaving ELSE [s EXCEPT !.stage = next]
  /\ clientForm' = [clientForm EXCEPT !.open = @ /\ next # "none"]
  /\ UNCHANGED <<optionsLoaded, hydrating, clientFields, toggling, clientAlibi, clientClicks>>

RequestFails ==
  /\ clientSaving.stage # "none"
  /\ clientSaving' = NotSaving
  /\ clientAlibi' = [clientAlibi EXCEPT !.halfway = @ \/ clientSaving.stage \in {"detach", "links"}]
  /\ UNCHANGED <<clients, optionsLoaded, hydrating, clientForm, clientFields, toggling, clientClicks>>

(***************************************************************************)
(* The switch of a row (useClients setEnable): fetch the record, then send *)
(* it all back with the other value of enable.                             *)
(***************************************************************************)
onToggleEnable(e) ==
  /\ ~clientForm.open /\ toggling.stage = "none" /\ Exists(e)
  /\ toggling' = [email |-> e, stage |-> "update",
                  base |-> [flow |-> HasFlow(clients[e]), limit |-> clients[e].limit,
                            enable |-> ~clients[e].enable]]
  /\ Click
  /\ UNCHANGED <<clients, optionsLoaded, hydrating, clientForm, clientFields, clientSaving, clientAlibi>>

ToggleAnswered(ok) ==
  LET e == toggling.email IN
  /\ toggling.stage = "update"
  /\ toggling' = NotToggling
  /\ clients' = IF ok /\ Exists(e)
                THEN [clients EXCEPT ![e] = Updated(@, toggling.base)] ELSE clients
  /\ clientAlibi' = [clientAlibi EXCEPT !.disturbed = TRUE]
  /\ clientSaving' = [clientSaving EXCEPT !.faithful = FALSE, !.undisturbed = FALSE]
  /\ UNCHANGED <<optionsLoaded, hydrating, clientForm, clientFields, clientClicks>>

ClientFormNext ==
  \/ onAdd
  \/ \E e \in Emails : onEdit(e)
  \/ \E ask \in hydrating, ok \in BOOLEAN : Hydrated(ask, ok)
  \/ OptionsArrive
  \/ TypeBasics \/ ToggleAttached \/ PickFlow \/ EditLinks
  \/ CloseForm
  \/ onSubmit
  \/ RequestSucceeds
  \/ RequestFails
  \/ \E e \in Emails : onToggleEnable(e)
  \/ \E ok \in BOOLEAN : ToggleAnswered(ok)

ClientFormSpec == ClientFormInit /\ [][ClientFormNext]_clientVars

(***************************************************************************)
(* Properties                                                              *)
(***************************************************************************)
ClientFormTypeOK ==
  /\ DOMAIN clients \subseteq Emails
  /\ \A e \in DOMAIN clients : clients[e] \in ClientRecord
  /\ optionsLoaded \in BOOLEAN
  /\ \A ask \in hydrating : ask.email \in Emails /\ ask.row \in ClientRecord
  /\ clientForm \in [open: BOOLEAN, mode: {"add", "edit"},
                     email: Emails \cup {NoEmail}, ids: SUBSET Gateways]
  /\ clientFields.email \in Emails \cup {NoEmail}
  /\ clientFields.limit % Step = 0
  /\ clientSaving.stage \in {"none", "create", "update", "attach", "detach", "links"}
  /\ clientSaving.detach \cap clientSaving.fields.ids = {}

(* The open dialog edits the client whose record fills it, so that a save  *)
(* writes one client's form over no other, provided that no other row's    *)
(* record was awaited when it opened: with two rows clicked before the     *)
(* first answer, the answer for the other replaces the client under the    *)
(* form (ClientsPage.tsx:471), and nothing else does.                      *)
FormIsItsClient ==
  clientForm.open /\ clientForm.mode = "edit" /\ clientAlibi.alone =>
    clientForm.email = clientAlibi.for

(* Opening a client and saving it untouched changes nothing but the limit, *)
(* and that by at most half of what the form shows: the flow survives the effect   *)
(* that hides it, the links survive their replacement and no inbound is    *)
(* attached or detached.  Excused are a form opened before the inbounds    *)
(* were known or without its record, and a switch flipped meanwhile.       *)
SameButRounding(r, s) ==
  /\ [r EXCEPT !.limit = 0, !.flows = {}] = [s EXCEPT !.limit = 0, !.flows = {}]
  /\ HasFlow(r) = HasFlow(s)
  /\ s.limit <= r.limit + Step \div 2 /\ r.limit <= s.limit + Step \div 2

UntouchedSaveKeeps ==
  clientSaving.faithful /\ toggling' = toggling =>
    /\ DOMAIN clients' = DOMAIN clients
    /\ \A e \in DOMAIN clients : SameButRounding(clients[e], clients'[e])

(* When the dialog closes on success the server holds everything that was    *)
(* submitted, the last of the links included, under the submitted e-mail.    *)
(* Excused are: a save beside which another row's record replaced the client *)
(* of the form, or the switch of a row was answered; the attachments and what travels with them, of a save that   *)
(* follows one which stopped halfway or of a dialog that was filled from its *)
(* row (what to attach and detach is counted from the attachments the dialog *)
(* was opened with); the limit of a client that was on no inbound, and a     *)
(* flow where it was on none that takes one, because the update comes before *)
(* the attachments; and the switch of a client that is added.                *)
Stored(s) ==
  LET e == s.fields.email
      r == clients'[e]
      was == (s.fields.ids \ s.attach) \cup s.detach
  IN
  /\ e \in DOMAIN clients'
  /\ r.links = s.fields.links
  /\ s.edit => r.enable = s.fields.enable
  /\ ~s.again => /\ r.ids = s.fields.ids
                 /\ was # {} => r.limit = s.fields.limit
                 /\ (s.fields.flow => TakeFlow(was)) => HasFlow(r) = s.fields.flow
SavedWhole ==
  clientForm.open /\ ~clientForm'.open /\ clientSaving.stage # "none"
    /\ clientSaving'.stage = "none" /\ clientSaving.undisturbed =>
       Stored(clientSaving)

=============================================================================
