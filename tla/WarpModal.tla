------------------------------ MODULE WarpModal ------------------------------
(***************************************************************************)
(* The WARP dialog of the Xray page                                        *)
(* (frontend/src/pages/xray/overrides/WarpModal.tsx) over the account that *)
(* the panel stores (internal/web/service/integration/warp.go).  The       *)
(* dialog builds the outbound of the tag 'warp' from two answers that it   *)
(* gets one after the other, the account and the configuration of its      *)
(* device, and hands it to the draft of the template later, by a button.   *)
(*                                                                         *)
(* An account is the number of its registration at Cloudflare and stands   *)
(* for its keys as well as for the configuration of its device; 0 is none. *)
(* An outbound is the account of its secret key and that of its addresses  *)
(* and peer.  The rotation by a job or by another operator changes the     *)
(* account without this page.                                              *)
(***************************************************************************)
EXTENDS Naturals, FiniteSets

CONSTANTS
  MaxAccounts,   \* bound on the registrations
  MaxWarpClicks  \* bound on the requests of the page

ASSUME WarpAssumption == MaxAccounts \in Nat \ {0} /\ MaxWarpClicks \in Nat \ {0}

VARIABLES
  warpStore,   \* the stored account (the setting 'warp')
  registered,  \* the registrations so far
  warpOpen,    \* is the dialog open?
  warpLoading, \* loading: the buttons spin and take no click
  warpData,    \* the account shown
  warpConfig,  \* the account whose configuration is shown
  staged,      \* stagedOutbound
  warpAsks,    \* requests without their answer
  warpDraft,   \* the outbound 'warp' of the template's draft
  untold,      \* history: the account may not be the one this opening was told of
  warpClicks   \* requests so far

warpVars == <<warpStore, registered, warpOpen, warpLoading, warpData, warpConfig,
              staged, warpAsks, warpDraft, untold, warpClicks>>
warpServer == <<warpStore, registered>>
warpShown == <<warpOpen, warpLoading, warpData, warpConfig, staged, warpDraft>>

Accounts == 0..MaxAccounts
NoOutbound == [key |-> 0, device |-> 0]
WarpOutbounds == [key : Accounts, device : Accounts]
WarpKinds == {"data", "reg", "config", "changeIp", "license", "del"}

\* A request: what the handler had read when it was sent (warpData and whether
\* the draft had the outbound), how far the server is, and its answer.
WarpRequests ==
  [id : 1..MaxWarpClicks, kind : WarpKinds, data : Accounts, had : BOOLEAN,
   at : {"sent", "read", "served", "failed"}, got : Accounts]

WarpTypeOK ==
  /\ warpStore \in Accounts /\ registered \in Accounts
  /\ {warpData, warpConfig} \subseteq Accounts
  /\ {staged, warpDraft} \subseteq WarpOutbounds
  /\ warpAsks \subseteq WarpRequests
  /\ warpConfig # 0 => staged.device # 0

WarpInit ==
  /\ registered \in {0, 1} /\ warpStore = registered
  /\ warpOpen = FALSE /\ warpLoading = FALSE
  /\ warpData = 0 /\ warpConfig = 0 /\ staged = NoOutbound
  /\ warpAsks = {} /\ warpClicks = 0
  /\ warpDraft \in {NoOutbound, [key |-> registered, device |-> registered]}
  /\ untold = FALSE

-----------------------------------------------------------------------------
(* The requests of the dialog.                                             *)

WarpAsk(kind) ==
  /\ warpClicks < MaxWarpClicks
  /\ warpClicks' = warpClicks + 1
  /\ warpAsks' = warpAsks \cup {[id |-> warpClicks', kind |-> kind, data |-> warpData,
                                 had |-> warpDraft # NoOutbound, at |-> "sent", got |-> 0]}
  /\ warpLoading' = TRUE

\* A fault: what was fetched in an earlier opening stays.
OpenKeepsConfig ==
  /\ ~warpOpen /\ warpOpen' = TRUE
  /\ WarpAsk("data") /\ untold' = (warpAsks # {})
  /\ UNCHANGED <<warpServer, warpConfig, staged, warpData, warpDraft>>

\* Opening forgets the configuration and asks for the account.  The page is about to
\* be told, unless a request of an earlier opening is still to be answered.
OpenWarp ==
  /\ ~warpOpen /\ warpOpen' = TRUE
  /\ warpConfig' = 0 /\ staged' = NoOutbound
  /\ WarpAsk("data") /\ untold' = (warpAsks # {})
  /\ UNCHANGED <<warpServer, warpData, warpDraft>>

CloseWarp ==
  /\ warpOpen /\ warpOpen' = FALSE
  /\ UNCHANGED <<warpServer, warpLoading, warpData, warpConfig, staged, warpAsks, warpDraft, untold, warpClicks>>

\* Without an account there is one button, with an account there are the others.
WarpClick ==
  /\ warpOpen /\ ~warpLoading
  /\ \/ warpData = 0 /\ WarpAsk("reg")
     \/ warpData # 0 /\ \E kind \in {"config", "changeIp", "license", "del"} : WarpAsk(kind)
  /\ untold' = (untold \/ warpAsks # {})
  /\ UNCHANGED <<warpServer, warpOpen, warpData, warpConfig, staged, warpDraft>>

-----------------------------------------------------------------------------
(* The server.                                                             *)

Reply(q, at, got) == warpAsks' = (warpAsks \ {q}) \cup {[q EXCEPT !.at = at, !.got = got]}

\* GetWarpData and DelWarpData touch the setting only; GetWarpConfig asks Cloudflare
\* for the stored device, and is refused without one.
ServeWarp(q) ==
  /\ q \in warpAsks /\ q.at = "sent"
  /\ \/ /\ q.kind = "data"
        /\ Reply(q, "served", warpStore) /\ UNCHANGED warpServer
     \/ /\ q.kind = "config" /\ warpStore # 0
        /\ Reply(q, "served", warpStore) /\ UNCHANGED warpServer
     \/ /\ q.kind = "del" /\ warpStore' = 0
        /\ Reply(q, "served", 0) /\ UNCHANGED registered
  /\ UNCHANGED <<warpShown, untold, warpClicks>>

\* RegWarp makes an account and stores it; ChangeWarpIP does so when there is one,
\* and still fails when it cannot put the keys into the saved template afterwards.
RegWarp(q) ==
  /\ q \in warpAsks /\ q.at = "sent"
  /\ q.kind = "reg" \/ (q.kind = "changeIp" /\ warpStore # 0)
  /\ registered < MaxAccounts /\ registered' = registered + 1
  /\ warpStore' = registered'
  /\ \/ Reply(q, "served", registered') /\ UNCHANGED untold
     \/ q.kind = "changeIp" /\ Reply(q, "failed", 0) /\ untold' = TRUE
  /\ UNCHANGED <<warpShown, warpClicks>>

\* SetWarpLicense reads the account, asks Cloudflare, and stores what it has read,
\* with the new licence.
ReadForLicense(q) ==
  /\ q \in warpAsks /\ q.at = "sent" /\ q.kind = "license" /\ warpStore # 0
  /\ Reply(q, "read", warpStore)
  /\ UNCHANGED <<warpServer, warpShown, untold, warpClicks>>

SetWarpLicense(q) ==
  /\ q \in warpAsks /\ q.at = "read"
  /\ warpStore' = q.got
  /\ Reply(q, "served", q.got)
  /\ UNCHANGED <<registered, warpShown, untold, warpClicks>>

\* Any request may fail before it has an effect.
RefuseWarp(q) ==
  /\ q \in warpAsks /\ q.at \in {"sent", "read"}
  /\ Reply(q, "failed", 0)
  /\ UNCHANGED <<warpServer, warpShown, untold, warpClicks>>

\* The job WarpIpJob, or another operator.
Rotate ==
  /\ warpStore # 0 /\ registered < MaxAccounts
  /\ registered' = registered + 1 /\ warpStore' = registered'
  /\ untold' = TRUE
  /\ UNCHANGED <<warpShown, warpAsks, warpClicks>>

-----------------------------------------------------------------------------
\* The outbound that is built from an account and a configuration, and staged.
collectConfig(data, config) == [key |-> data, device |-> config]

(* The answers.  Each ends the spinning of all buttons (finally).          *)

WarpAnswered(q) == q \in warpAsks /\ warpAsks' = warpAsks \ {q} /\ warpLoading' = FALSE

DataArrives(q) ==
  /\ WarpAnswered(q) /\ q.kind = "data" /\ q.at = "served"
  /\ warpData' = q.got
  /\ UNCHANGED <<warpServer, warpOpen, warpConfig, staged, warpDraft, untold, warpClicks>>

register(q) ==
  /\ WarpAnswered(q) /\ q.kind = "reg" /\ q.at = "served"
  /\ warpData' = q.got /\ warpConfig' = q.got
  /\ staged' = collectConfig(q.got, q.got)
  /\ UNCHANGED <<warpServer, warpOpen, warpDraft, untold, warpClicks>>

\* getConfig takes the key from the account it saw when the button was clicked.
getConfig(q) ==
  /\ WarpAnswered(q) /\ q.kind = "config" /\ q.at = "served"
  /\ warpConfig' = q.got
  /\ staged' = collectConfig(q.data, q.got)
  /\ UNCHANGED <<warpServer, warpOpen, warpData, warpDraft, untold, warpClicks>>

\* changeIp also replaces the outbound of the draft when there was one at the click.
ReplacesIp(q) ==
  /\ WarpAnswered(q) /\ q.kind = "changeIp" /\ q.at = "served"
  /\ warpData' = q.got /\ warpConfig' = q.got
  /\ staged' = collectConfig(q.got, q.got)
  /\ warpDraft' = IF q.had THEN staged' ELSE warpDraft
  /\ UNCHANGED <<warpServer, warpOpen, untold, warpClicks>>

\* updateLicense hides the configuration and leaves the staged outbound.
updateLicense(q) ==
  /\ WarpAnswered(q) /\ q.kind = "license" /\ q.at = "served"
  /\ warpData' = q.got /\ warpConfig' = 0
  /\ UNCHANGED <<warpServer, warpOpen, staged, warpDraft, untold, warpClicks>>

\* The deletion of the account takes the outbound out of the draft and closes the dialog.
DeletesAccount(q) ==
  /\ WarpAnswered(q) /\ q.kind = "del" /\ q.at = "served"
  /\ warpData' = 0 /\ warpConfig' = 0 /\ staged' = NoOutbound
  /\ warpDraft' = NoOutbound /\ warpOpen' = FALSE
  /\ UNCHANGED <<warpServer, untold, warpClicks>>

\* A refusal, or an answer that is lost: what is shown stays, of an earlier opening
\* when it is the account that was asked for.
WarpFails(q) ==
  /\ WarpAnswered(q) /\ q.at \in {"failed", "served"}
  /\ untold' = (untold \/ q.kind = "data" \/ (q.at = "served" /\ q.kind \in {"reg", "changeIp", "del"}))
  /\ UNCHANGED <<warpServer, warpOpen, warpData, warpConfig, staged, warpDraft, warpClicks>>

-----------------------------------------------------------------------------
(* addOutbound and resetOutbound: one of them is shown, with the account    *)
(* and the configuration, and hands over what is staged.                    *)
UseStaged ==
  /\ warpOpen /\ ~warpLoading /\ warpData # 0 /\ warpConfig # 0 /\ staged # NoOutbound
  /\ warpDraft' = staged
  /\ warpOpen' = FALSE
  /\ UNCHANGED <<warpServer, warpLoading, warpData, warpConfig, staged, warpAsks, untold, warpClicks>>

WarpNext ==
  \/ OpenWarp \/ CloseWarp \/ WarpClick \/ UseStaged \/ Rotate
  \/ \E q \in warpAsks :
       \/ ServeWarp(q) \/ RegWarp(q) \/ ReadForLicense(q) \/ SetWarpLicense(q) \/ RefuseWarp(q)
       \/ DataArrives(q) \/ register(q) \/ getConfig(q) \/ ReplacesIp(q) \/ updateLicense(q)
       \/ DeletesAccount(q) \/ WarpFails(q)

WarpSpec == WarpInit /\ [][WarpNext]_warpVars

-----------------------------------------------------------------------------
\* The outbound that the dialog puts into the draft has the key and the device of
\* the stored account, although the two were fetched one after the other and the
\* dialog was closed and opened in between; unless the account was changed by
\* somebody else, an answer was lost or requests overlapped since the dialog was
\* opened (collectConfig, the reset at opening).
StagedIsStored ==
  warpDraft' # warpDraft /\ warpDraft' # NoOutbound
    => untold \/ warpDraft' = [key |-> warpStore, device |-> warpStore]
=============================================================================
