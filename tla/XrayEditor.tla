----------------------------- MODULE XrayEditor -----------------------------
(***************************************************************************)
(* The draft of the Xray settings (useXraySetting and the Xray page): the  *)
(* text and the structured form of the template, which mirror each other,  *)
(* the poll that enables Save, and the requests that run while the         *)
(* operator goes on editing: the save, the refetch that follows it, the    *)
(* change of the WARP address and the subscription handlers, whose refetch *)
(* re-seeds the same draft.                                                *)
(*                                                                         *)
(* Abstracted: a template is a pair of what the operator edits and of the  *)
(* WARP keys, which the server replaces by itself; a query result is equal *)
(* to the cached one when its parts are (structural sharing), and then the *)
(* seed effect does not run.  One save and one change of the address are   *)
(* in flight at a time.  An answer that resets the template to the default *)
(* is one more edit.                                                       *)
(***************************************************************************)
EXTENDS Naturals

CONSTANTS
  Edits,       \* what an operator may write into the template
  Default,     \* the content when the page is opened
  Broken,      \* a text that is not JSON
  MaxKey,      \* bound on the WARP keys that are in use at a time
  MaxSubs      \* bound on the versions of the subscription outbounds

ASSUME EditorAssumption ==
  /\ Default \in Edits
  /\ MaxKey \in Nat \ {0}
  /\ MaxSubs \in Nat
  /\ Broken \notin [edit : Edits, key : 1..MaxKey]

VARIABLES
  server,      \* the stored template, and the subscription outbounds beside it
  cache,       \* configQuery.data
  fetch,       \* the refetch in flight: none, asked, or the payload it read
  failed,      \* configQuery.isError: the page shows the error and a retry
  save,        \* saveMut: none, asked, stored; and the text it sent
  rotated,     \* the keys in the answer of a WARP changeIp on its way, or 0
  text,        \* xraySetting
  template,    \* templateSettings
  oldText,     \* oldXraySettingRef
  saveDisabled,
  late,        \* history: edited while a save or a refetch had not succeeded
  behind       \* history: may the server hold what the cache does not?  Only
               \* keys that are on their way to the draft (ip), only keys that
               \* it was told (told), or anything (yes)

editorVars == <<server, cache, fetch, failed, save, rotated, text, template, oldText,
                saveDisabled, late, behind>>
draft == <<text, template>>
history == <<late, behind>>
requests == <<save, rotated>>
query == <<cache, fetch, failed>>

Template == [edit : Edits, key : 1..MaxKey]
Payload == [template : Template, subs : 0..MaxSubs]
NoFetch == [kind |-> "none"]
NoTemplateSave == [kind |-> "none"]
Behind == {"no", "ip", "told", "yes"}

EditorTypeOK ==
  /\ server \in Payload
  /\ cache \in Payload
  /\ fetch \in {NoFetch, [kind |-> "asked"]} \cup [kind : {"read"}, payload : Payload]
  /\ failed \in BOOLEAN
  /\ save \in {NoTemplateSave} \cup [kind : {"asked", "stored"}, sent : Template \cup {Broken}]
  /\ rotated \in 0..MaxKey
  /\ text \in Template \cup {Broken}
  /\ template \in Template
  /\ oldText \in Template
  /\ saveDisabled \in BOOLEAN
  /\ late \in BOOLEAN
  /\ behind \in Behind

\* The page after its first fetch: the seed effect has run.
EditorInit ==
  /\ server = [template |-> [edit |-> Default, key |-> 1], subs |-> 0]
  /\ cache = server
  /\ fetch = NoFetch
  /\ failed = FALSE
  /\ save = NoTemplateSave
  /\ rotated = 0
  /\ text = server.template
  /\ template = server.template
  /\ oldText = server.template
  /\ saveDisabled = TRUE
  /\ late = FALSE
  /\ behind = "no"

InFlight == fetch.kind # "none" \/ save.kind # "none"
Dirty == text # oldText

-----------------------------------------------------------------------------
(* The operator's edits *)

\* setTemplateSettings: the form writes both views.
setTemplateSettings(t) ==
  /\ template' = t
  /\ text' = t

\* Mutant: the text becomes the form's template without being parsed.
SetTextUnchecked(t) ==
  /\ text' = t
  /\ template' = t

\* setXraySetting: a text that does not parse leaves the form as it is.
setXraySetting(t) ==
  /\ text' = t
  /\ template' = IF t = Broken THEN template ELSE t

Edited == late' = (late \/ InFlight \/ failed)

EditText ==
  /\ ~ failed
  /\ \E t \in [edit : Edits, key : {template.key}] \cup {Broken} :
       t # text /\ setXraySetting(t)
  /\ Edited
  /\ UNCHANGED <<server, query, requests, oldText, saveDisabled, behind>>

\* Every tab, and the advanced editor's partial views, go through mutate.
EditTemplate ==
  /\ ~ failed
  /\ \E e \in Edits : e # template.edit /\ setTemplateSettings([template EXCEPT !.edit = e])
  /\ Edited
  /\ UNCHANGED <<server, query, requests, oldText, saveDisabled, behind>>

\* The interval of DIRTY_POLL_MS.
DirtyPoll ==
  /\ saveDisabled = Dirty
  /\ saveDisabled' = ~ Dirty
  /\ UNCHANGED <<server, query, requests, draft, oldText, history>>

-----------------------------------------------------------------------------
(* The config query *)

\* invalidateQueries: the running fetch is cancelled and a new one begins.
Invalidate == fetch' = [kind |-> "asked"]

ServerReads ==
  /\ fetch.kind = "asked"
  /\ fetch' = [kind |-> "read", payload |-> server]
  /\ UNCHANGED <<server, cache, failed, requests, draft, oldText, saveDisabled, history>>

\* Mutant: every answer seeds the draft, also one that brings nothing new.
SeedAlways(payload) ==
  /\ text' = payload.template
  /\ template' = payload.template
  /\ oldText' = payload.template
  /\ saveDisabled' = TRUE
  /\ late' = (save.kind # "none")
  /\ behind' = IF server = payload /\ save.kind = "none" THEN "no" ELSE "yes"

\* The seed effect runs when configQuery.data is another object.
Seed(payload) ==
  IF payload = cache
  THEN UNCHANGED <<draft, oldText, saveDisabled, history>>
  ELSE /\ text' = payload.template
       /\ template' = payload.template
       /\ oldText' = payload.template
       /\ saveDisabled' = TRUE
       /\ late' = (save.kind # "none")
       /\ behind' = IF server = payload /\ save.kind = "none" THEN "no" ELSE "yes"

Deliver ==
  /\ fetch.kind = "read"
  /\ cache' = fetch.payload
  /\ Seed(fetch.payload)
  /\ fetch' = NoFetch
  /\ failed' = FALSE
  /\ UNCHANGED <<server, requests>>

\* Both attempts failed; the data that is cached stays.
FetchFails ==
  /\ fetch.kind # "none"
  /\ fetch' = NoFetch
  /\ failed' = TRUE
  /\ UNCHANGED <<server, cache, requests, draft, oldText, saveDisabled, history>>

\* The button of the error screen, or the refetch when the window is focused.
Recheck ==
  /\ failed
  /\ fetch.kind = "none"
  /\ Invalidate
  /\ UNCHANGED <<server, cache, failed, requests, draft, oldText, saveDisabled, history>>

-----------------------------------------------------------------------------
(* Save *)

\* onSaveAll: a text that does not parse only opens the advanced section.
onSaveAll ==
  /\ ~ failed
  /\ ~ saveDisabled
  /\ save.kind = "none"
  /\ text # Broken
  /\ save' = [kind |-> "asked", sent |-> text]
  /\ UNCHANGED <<server, query, rotated, draft, oldText, saveDisabled, history>>

ServerStores ==
  /\ save.kind = "asked"
  /\ server' = [server EXCEPT !.template = save.sent]
  /\ save' = [save EXCEPT !.kind = "stored"]
  /\ UNCHANGED <<query, rotated, draft, oldText, saveDisabled, history>>

\* The server refused, or the answer was lost after it had stored the text.
SaveFails ==
  /\ save.kind # "none"
  /\ save' = NoTemplateSave
  /\ behind' = IF save.kind = "stored" THEN "yes" ELSE behind
  /\ UNCHANGED <<server, query, rotated, draft, oldText, saveDisabled, late>>

\* onSuccess of saveMut
SaveAnswered ==
  /\ save.kind = "stored"
  /\ oldText' = save.sent
  /\ saveDisabled' = TRUE
  /\ save' = NoTemplateSave
  /\ Invalidate
  /\ UNCHANGED <<server, cache, failed, rotated, draft, history>>

-----------------------------------------------------------------------------
(* Requests that change the draft or the server beside Save *)

\* Keys are numbered in the order in which they are given out; new ones are
\* later than any that are still somewhere.
New(k) ==
  /\ k > server.template.key /\ k > cache.template.key
  /\ k > template.key /\ k > oldText.key /\ k > rotated
  /\ fetch.kind = "read" => k > fetch.payload.template.key
  /\ save.kind # "none" => k > save.sent.key

\* The server rotates the keys and writes them into the stored template.
ServerChangesKeys(k) ==
  /\ New(k)
  /\ server' = [server EXCEPT !.template.key = k]

\* changeIp, asked for a template with a WARP outbound
ServerChangesIp ==
  /\ rotated = 0
  /\ \E k \in 1..MaxKey : ServerChangesKeys(k) /\ rotated' = k
  /\ behind' = IF behind = "yes" THEN "yes" ELSE "ip"
  /\ UNCHANGED <<query, save, draft, oldText, saveDisabled, late>>

\* The job that changes the address on an interval.
AutoChangeIp ==
  /\ \E k \in 1..MaxKey : ServerChangesKeys(k)
  /\ behind' = "yes"
  /\ UNCHANGED <<query, requests, draft, oldText, saveDisabled, late>>

\* changeIp: onResetOutbound with the keys of the answer, at the index that
\* the WARP outbound had when the operator asked; the server may have given
\* out later keys meanwhile.
ChangeIpAnswered ==
  /\ rotated # 0
  /\ rotated' = 0
  /\ setTemplateSettings([template EXCEPT !.key = rotated])
  /\ behind' = IF rotated < server.template.key THEN "yes"
               ELSE IF behind = "ip" THEN "told" ELSE behind
  /\ Edited
  /\ UNCHANGED <<server, query, save, oldText, saveDisabled>>

\* saveSub, toggleEnabled, moveSub, refreshOne, refreshAllSubs, deleteOne:
\* the server changes the subscription outbounds or leaves them; the answer
\* refetches (onRefreshXrayData) unless it is lost.
ChangeSubscriptions ==
  /\ \E s \in {server.subs, server.subs + 1} \cap 0..MaxSubs :
       /\ server' = [server EXCEPT !.subs = s]
       /\ behind' = IF s = server.subs THEN behind ELSE "yes"
  /\ Invalidate \/ UNCHANGED fetch
  /\ UNCHANGED <<cache, failed, requests, draft, oldText, saveDisabled, late>>

ChangeIpLost ==
  /\ rotated # 0
  /\ rotated' = 0
  /\ UNCHANGED <<server, query, save, draft, oldText, saveDisabled, history>>

EditorNext ==
  \/ EditText \/ EditTemplate \/ DirtyPoll
  \/ ServerReads \/ Deliver \/ FetchFails \/ Recheck
  \/ onSaveAll \/ ServerStores \/ SaveFails \/ SaveAnswered
  \/ ServerChangesIp \/ AutoChangeIp \/ ChangeIpAnswered
  \/ ChangeIpLost \/ ChangeSubscriptions

EditorSpec == EditorInit /\ [][EditorNext]_editorVars

\* The interval fires as long as the page is open; a fetch comes to an end.
EditorFairness ==
  /\ WF_editorVars(DirtyPoll)
  /\ WF_editorVars(ServerReads)
  /\ WF_editorVars(Deliver \/ FetchFails)

-----------------------------------------------------------------------------
(* Properties *)

\* Whenever the text of the advanced editor parses, the form shows the same
\* template: the two setters keep each other's view (useXraySetting.ts).
ViewsAgree == text # Broken => template = text

\* A text that does not parse is never sent (onSaveAll).
OnlyTemplatesSent == save.kind # "none" => save.sent # Broken

\* With nothing in flight and no change of the server that the draft has not
\* been told of, a draft that counts as clean is what the server stores: no
\* overlap of edits, saves and refetches makes an unsaved edit look saved.
CleanIsStored ==
  (~ InFlight /\ behind \in {"no", "told"} /\ ~ Dirty) => text = server.template

\* The seed effect overwrites the operator's unsaved edits with every answer
\* that differs from the one before it.  Only news do that: the edits were made
\* while a save or a refetch was on its way, or the server had moved without
\* the draft (a key change, a subscription change, a save whose answer was
\* lost).  Edits made at rest beside a server that stood still survive every
\* refetch: window focus, invalidations and answers that were late.
TakenOnlyByNews ==
  (Deliver /\ Dirty /\ text' # text) => (late \/ behind # "no")

\* A save does not put old WARP keys back: once the answer of a change of the
\* address has reached the editor, the draft carries the new keys through
\* every later edit, unless an older payload or a change that the server made
\* by itself came between (WarpModal.tsx changeIp).
KeysKept ==
  (onSaveAll /\ behind \in {"no", "told"})
    => save'.sent.key >= server.template.key

\* An unsaved edit is offered for saving, or stops being one
\* (the interval of useXraySetting.ts).
DirtyOffered == Dirty ~> (~ Dirty \/ ~ saveDisabled)
=============================================================================
