---------------------------- MODULE SettingsDraft ----------------------------
(***************************************************************************)
(* The draft of the panel settings (useAllSettings and the settings page): *)
(* the redacted view that the server gives of its settings, the draft that *)
(* the tabs edit, Save, the two-factor dialogs, and the restart that is    *)
(* offered when the draft is clean.                                        *)
(*                                                                         *)
(* Abstracted: plain stands for every setting that is shown as it is       *)
(* stored, one secret for the three that are redacted; a two-factor code   *)
(* is right or wrong.  One save is in flight at a time.                    *)
(***************************************************************************)
EXTENDS Naturals

CONSTANTS
  Plains,       \* values of the ordinary settings
  FirstPlain,   \* the values when the page is opened
  SchemaRefuses, ServerRefuses,  \* values that either side refuses
  MaxSecret     \* bound on the secrets an operator types; 0 is the empty one

ASSUME SettingsAssumption ==
  /\ FirstPlain \in Plains \ (SchemaRefuses \cup ServerRefuses)
  /\ MaxSecret \in Nat

VARIABLES
  stored,       \* the settings in the database
  view,         \* query.data: secrets are blanked, a flag says there is one
  refetch,      \* the refetch in flight
  settings,     \* the draft
  saving,       \* saveMut: none, asked, stored, refused; what it sent, and
                \* whether the two-factor dialog sent it
  dialog,       \* the modal that is open, with what it captured
  restart,      \* restartPanel: idle, or asked and the settings of its URL
  edits,        \* history: what became of the last edit: none, edited, late
                \* (while a save or a refetch had not succeeded, or behind
                \* an open dialog) or saved
  unheard       \* history: the answer of a save was lost

settingsVars == <<stored, view, refetch, settings, saving, dialog, restart, edits, unheard>>

StoredSettings == [plain : Plains, secret : 0..MaxSecret, tfa : BOOLEAN]
View == [plain : Plains, has : BOOLEAN, tfa : BOOLEAN]
Draft == [plain : Plains, has : BOOLEAN, tfa : BOOLEAN, typed : 0..MaxSecret,
          clear : BOOLEAN]

Redacted(s) == [plain |-> s.plain, has |-> s.secret # 0, tfa |-> s.tfa]
DraftOf(v) == [plain |-> v.plain, has |-> v.has, tfa |-> v.tfa, typed |-> 0, clear |-> FALSE]
NoRefetch == [kind |-> "none"]
NoDialog == [kind |-> "none"]
Idle == [kind |-> "idle"]
NotSavingSettings == [kind |-> "none"]

SettingsTypeOK ==
  /\ stored \in StoredSettings
  /\ view \in View
  /\ refetch \in {NoRefetch, [kind |-> "asked"], [kind |-> "failed"]}
                 \cup [kind : {"read"}, view : View]
  /\ settings \in Draft
  /\ saving \in {NotSavingSettings}
                \cup [kind : {"asked", "stored", "refused"}, sent : Draft, tfaOff : BOOLEAN]
  /\ dialog \in {NoDialog, [kind |-> "tfaOn"], [kind |-> "restart"]}
                \cup [kind : {"tfaOff"}, captured : Draft]
  /\ restart \in {Idle} \cup [kind : {"asked", "sleeping", "left"}, plain : Plains]
  /\ edits \in {"none", "edited", "late", "saved"}
  /\ unheard \in BOOLEAN

SettingsInit ==
  /\ stored \in [plain : {FirstPlain}, secret : {0, 1} \cap 0..MaxSecret, tfa : BOOLEAN]
  /\ view = Redacted(stored)
  /\ refetch = NoRefetch
  /\ settings = DraftOf(view)
  /\ saving = NotSavingSettings
  /\ dialog = NoDialog
  /\ restart = Idle
  /\ edits = "none"
  /\ unheard = FALSE

saveDisabled_ == settings = DraftOf(view)
OnPage == dialog = NoDialog /\ restart = Idle

-----------------------------------------------------------------------------
(* The tabs *)

updateSetting(d) ==
  /\ settings' = d
  /\ edits' = IF saving = NotSavingSettings /\ refetch = NoRefetch THEN "edited" ELSE "late"

EditPlain ==
  /\ OnPage
  /\ \E p \in Plains : p # settings.plain /\ updateSetting([settings EXCEPT !.plain = p])
  /\ UNCHANGED <<stored, view, refetch, saving, dialog, restart, unheard>>

\* SecretInput: the field
TypeSecret ==
  /\ OnPage
  /\ \E s \in 0..MaxSecret :
       /\ s # settings.typed
       /\ updateSetting([settings EXCEPT !.typed = s, !.clear = FALSE])
  /\ UNCHANGED <<stored, view, refetch, saving, dialog, restart, unheard>>

\* SecretInput: the button, there for a secret that is configured
ToggleClear ==
  /\ OnPage
  /\ settings.has
  /\ updateSetting([settings EXCEPT !.typed = 0, !.clear = ~ @])
  /\ UNCHANGED <<stored, view, refetch, saving, dialog, restart, unheard>>

-----------------------------------------------------------------------------
(* Save *)

onSave ==
  /\ OnPage
  /\ ~ saveDisabled_
  /\ saving = NotSavingSettings
  /\ settings.plain \notin SchemaRefuses
  /\ saving' = [kind |-> "asked", sent |-> settings, tfaOff |-> FALSE]
  /\ UNCHANGED <<stored, view, refetch, settings, dialog, restart, edits, unheard>>

\* preserveRedactedSecrets: a blank secret keeps the stored one unless it is
\* cleared.
SecretAfter(sent) ==
  IF sent.typed = 0 /\ ~ sent.clear THEN stored.secret ELSE sent.typed

\* UpdateAllSetting: valid settings are stored in one transaction.  Taking
\* two-factor away needs the code, which may be wrong.
ServerUpdates ==
  /\ saving.kind = "asked"
  /\ \/ /\ saving.sent.plain \notin ServerRefuses
        /\ stored' = [plain |-> saving.sent.plain, secret |-> SecretAfter(saving.sent),
                      tfa |-> saving.sent.tfa]
        /\ saving' = [saving EXCEPT !.kind = "stored"]
     \/ /\ saving.sent.plain \in ServerRefuses \/ (stored.tfa /\ ~ saving.sent.tfa)
        /\ saving' = [saving EXCEPT !.kind = "refused"]
        /\ UNCHANGED stored
  /\ UNCHANGED <<view, refetch, settings, dialog, restart, edits, unheard>>

\* onSuccess of saveMut, and what the two-factor dialog does after it
SettingsSaved ==
  /\ saving.kind = "stored"
  /\ saving' = NotSavingSettings
  /\ refetch' = [kind |-> "asked"]
  /\ settings' = IF saving.tfaOff THEN [settings EXCEPT !.tfa = FALSE] ELSE settings
  /\ edits' = IF edits # "late" /\ settings.plain = saving.sent.plain
               THEN "saved" ELSE edits
  /\ UNCHANGED <<stored, view, dialog, restart, unheard>>

\* Refused, not sent, or stored with the answer lost
SettingsNotSaved ==
  /\ saving.kind # "none"
  /\ saving' = NotSavingSettings
  /\ unheard' = (unheard \/ saving.kind = "stored")
  /\ UNCHANGED <<stored, view, refetch, settings, dialog, restart, edits>>

-----------------------------------------------------------------------------
(* The query *)

ServerShows ==
  /\ refetch.kind = "asked"
  /\ refetch' = [kind |-> "read", view |-> Redacted(stored)]
  /\ UNCHANGED <<stored, view, settings, saving, dialog, restart, edits, unheard>>

\* The seed effect runs when the view is another one.
SettingsArrive ==
  /\ refetch.kind = "read"
  /\ refetch' = NoRefetch
  /\ view' = refetch.view
  /\ IF refetch.view = view
     THEN /\ edits' = IF edits = "late" /\ saving = NotSavingSettings THEN "edited" ELSE edits
          /\ UNCHANGED settings
     ELSE /\ settings' = DraftOf(refetch.view)
          /\ edits' = "none"
  /\ UNCHANGED <<stored, saving, dialog, restart, unheard>>

RefetchFails ==
  /\ refetch.kind \in {"asked", "read"}
  /\ refetch' = [kind |-> "failed"]
  /\ UNCHANGED <<stored, view, settings, saving, dialog, restart, edits, unheard>>

\* The query is still stale when the window gets the focus.
Refocus ==
  /\ refetch.kind = "failed"
  /\ refetch' = [kind |-> "asked"]
  /\ UNCHANGED <<stored, view, settings, saving, dialog, restart, edits, unheard>>

-----------------------------------------------------------------------------
(* Two-factor authentication *)

toggleTwoFactor ==
  /\ OnPage
  /\ dialog' = IF settings.tfa THEN [kind |-> "tfaOff", captured |-> settings]
                               ELSE [kind |-> "tfaOn"]
  /\ UNCHANGED <<stored, view, refetch, settings, saving, restart, edits, unheard>>

\* The code matched the new token: the draft, not the server, has it on.
ConfirmTwoFactorOn ==
  /\ dialog.kind = "tfaOn"
  /\ dialog' = NoDialog
  /\ \E on \in BOOLEAN : updateSetting([settings EXCEPT !.tfa = on])
  /\ UNCHANGED <<stored, view, refetch, saving, restart, unheard>>

\* Sends the whole draft that the dialog captured, without the schema check.
ConfirmTwoFactorOff ==
  /\ dialog.kind = "tfaOff"
  /\ dialog' = NoDialog
  /\ saving = NotSavingSettings
  /\ saving' = [kind |-> "asked", sent |-> [dialog.captured EXCEPT !.tfa = FALSE],
                tfaOff |-> TRUE]
  /\ edits' = IF dialog.captured.plain = settings.plain THEN edits ELSE "late"
  /\ UNCHANGED <<stored, view, refetch, settings, restart, unheard>>

CancelDialog ==
  /\ dialog.kind \in {"tfaOff", "restart"}
  /\ dialog' = NoDialog
  /\ UNCHANGED <<stored, view, refetch, settings, saving, restart, edits, unheard>>

-----------------------------------------------------------------------------
(* Restart *)

\* The button is disabled while there is something to save.
restartPanel ==
  /\ OnPage
  /\ saveDisabled_
  /\ saving = NotSavingSettings
  /\ dialog' = [kind |-> "restart"]
  /\ UNCHANGED <<stored, view, refetch, settings, saving, restart, edits, unheard>>

\* rebuildUrlAfterRestart works on the draft of the render that was clicked.
ConfirmRestart ==
  /\ dialog.kind = "restart"
  /\ dialog' = NoDialog
  /\ restart' = [kind |-> "asked", plain |-> settings.plain]
  /\ UNCHANGED <<stored, view, refetch, settings, saving, edits, unheard>>

\* The server accepts, five seconds pass, the browser leaves; or it fails.
RestartGoesOn ==
  /\ \/ restart.kind = "asked" /\ restart' \in {Idle, [restart EXCEPT !.kind = "sleeping"]}
     \/ restart.kind = "sleeping" /\ restart' = [restart EXCEPT !.kind = "left"]
  /\ UNCHANGED <<stored, view, refetch, settings, saving, dialog, edits, unheard>>

SettingsNext ==
  \/ EditPlain \/ TypeSecret \/ ToggleClear
  \/ onSave \/ ServerUpdates \/ SettingsSaved \/ SettingsNotSaved
  \/ ServerShows \/ SettingsArrive \/ RefetchFails \/ Refocus
  \/ toggleTwoFactor \/ ConfirmTwoFactorOn \/ ConfirmTwoFactorOff \/ CancelDialog
  \/ restartPanel \/ ConfirmRestart \/ RestartGoesOn

SettingsSpec == SettingsInit /\ [][SettingsNext]_settingsVars

-----------------------------------------------------------------------------
(* Properties *)

AtRest == saving = NotSavingSettings /\ refetch = NoRefetch

\* A secret that the operator typed is never armed for clearing at the same
\* time, in the draft or in what is sent: the server would have to guess.
NeverTypedAndCleared ==
  /\ ~ (settings.typed # 0 /\ settings.clear)
  /\ saving.kind # "none" => ~ (saving.sent.typed # 0 /\ saving.sent.clear)

\* Once everything is answered a clean draft shows what the server stores.
CleanShowsStored ==
  (AtRest /\ ~ unheard /\ saveDisabled_) => settings = DraftOf(Redacted(stored))

\* A draft that was saved and not edited since is clean when its refetch has
\* come, so Save goes away and Restart is offered; a secret that is typed
\* over a configured one is left out, the view cannot tell it apart.
SavedIsClean ==
  (AtRest /\ ~ unheard /\ edits = "saved" /\ settings.typed = 0) => saveDisabled_

\* The panel is restarted for settings that are stored: the address that the
\* browser goes to is the one the new process serves, unless a refetch was
\* still in flight or the answer of a save was lost.
RestartServesTarget ==
  (ConfirmRestart /\ AtRest /\ ~ unheard)
    => restart'.plain = stored.plain

\* A refetch discards the edits when its answer is news to the draft: they were
\* made while a save or a refetch was on its way, or a save was stored without
\* its answer being heard.  Edits made at rest survive every other refetch; in
\* particular taking two-factor off at once, which saves too, does not throw
\* away what was edited before it.
DiscardedOnlyByNews ==
  (SettingsArrive /\ settings'.plain # settings.plain)
    => edits \in {"late", "none"} \/ unheard
=============================================================================
