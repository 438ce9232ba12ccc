------------------------------- MODULE Geodata -------------------------------
(***************************************************************************)
(* The dashboard's dialog of Xray's version and geodata                    *)
(* (frontend/src/pages/index/VersionModal, GeodataSection).  The section   *)
(* loads the whole template of Xray when its panel is unfolded, edits the  *)
(* geodata of it, and saves the whole template with them.  The dialog is   *)
(* hidden and not unmounted, so what was loaded stays.                     *)
(***************************************************************************)
EXTENDS Naturals

CONSTANTS
  Geos,       \* the geodata settings a template may have
  NoGeo,      \* a template without geodata
  NotLoaded,
  MaxFolds,   \* bound: panels folded or unfolded, dialogs opened
  MaxGeoEdits,\* bound: changes typed
  MaxForeign  \* bound: templates saved by somebody else

ASSUME GeodataAssumption == NoGeo \in Geos /\ MaxForeign \in Nat

VARIABLES
  xrayTemplate,   \* the server: [geo, rest]
  running,    \* the template that Xray runs
  versionOpen,
  activeKey,  \* the panel that is unfolded
  loads,      \* requests for the template under way, and what they have read
  loading,    \* the section is covered
  templateRef,
  geoDraft,   \* rows, cron and outbound, as shown
  confirmGeo, \* the open confirmation: what it will do, and what was shown then
  job,        \* the operation under way behind the overlay
  foreignSince, \* history: somebody else has saved since the job's save
  settled,    \* history: the geodata of the last job that succeeded in both steps
  folds, geoEdits, foreign

geodataVars == <<xrayTemplate, running, versionOpen, activeKey, loads, loading, templateRef, geoDraft,
                 confirmGeo, job, foreignSince, settled, folds, geoEdits, foreign>>

NoJob == [kind |-> "none"]
Templates == [geo : Geos, rest : 0..MaxForeign]

GeodataInit ==
  /\ \E g \in Geos : xrayTemplate = [geo |-> g, rest |-> 0]
  /\ running = xrayTemplate
  /\ versionOpen = FALSE /\ activeKey = "1"
  /\ loads = {} /\ loading = FALSE
  /\ templateRef = NotLoaded /\ geoDraft = NoGeo
  /\ confirmGeo = NoJob /\ job = NoJob
  /\ foreignSince = FALSE /\ settled = NotLoaded
  /\ folds = 0 /\ geoEdits = 0 /\ foreign = 0

Fold == folds < MaxFolds /\ folds' = folds + 1

\* The overlay covers the dashboard while an operation runs.
OpenVersions ==
  /\ Fold /\ ~versionOpen /\ job = NoJob
  /\ versionOpen' = TRUE
  /\ UNCHANGED <<xrayTemplate, running, activeKey, loads, loading, templateRef, geoDraft, confirmGeo,
                 job, foreignSince, settled, geoEdits, foreign>>

CloseVersions ==
  /\ versionOpen /\ confirmGeo = NoJob
  /\ versionOpen' = FALSE
  /\ UNCHANGED <<xrayTemplate, running, activeKey, loads, loading, templateRef, geoDraft, confirmGeo,
                 job, foreignSince, settled, folds, geoEdits, foreign>>

\* Unfolding the section loads the template; the dialog remembers the panel, so
\* that opening it again loads nothing.
setActiveKey(k) ==
  /\ Fold /\ versionOpen /\ confirmGeo = NoJob /\ k # activeKey
  /\ activeKey' = k
  /\ IF k = "3"
     THEN loads' = loads \cup {[nth |-> folds, read |-> NotLoaded]} /\ loading' = TRUE
     ELSE UNCHANGED <<loads, loading>>
  /\ UNCHANGED <<xrayTemplate, running, versionOpen, templateRef, geoDraft, confirmGeo, job,
                 foreignSince, settled, geoEdits, foreign>>

LoadRead(l) ==
  /\ l \in loads /\ l.read = NotLoaded
  /\ loads' = (loads \ {l}) \cup {[l EXCEPT !.read = xrayTemplate]}
  /\ UNCHANGED <<xrayTemplate, running, versionOpen, activeKey, loading, templateRef, geoDraft,
                 confirmGeo, job, foreignSince, settled, folds, geoEdits, foreign>>

\* load: what it brings replaces what is shown, edited or not.
LoadArrives(l) ==
  /\ l \in loads /\ l.read # NotLoaded
  /\ loads' = loads \ {l}
  /\ templateRef' = l.read /\ geoDraft' = l.read.geo
  /\ loading' = FALSE
  /\ UNCHANGED <<xrayTemplate, running, versionOpen, activeKey, confirmGeo, job, foreignSince,
                 settled, folds, geoEdits, foreign>>

LoadFails(l) ==
  /\ l \in loads
  /\ loads' = loads \ {l}
  /\ loading' = FALSE
  /\ UNCHANGED <<xrayTemplate, running, versionOpen, activeKey, templateRef, geoDraft, confirmGeo,
                 job, foreignSince, settled, folds, geoEdits, foreign>>

SectionShown == versionOpen /\ activeKey = "3" /\ ~loading /\ confirmGeo = NoJob

\* setRow, setCron, setOutbound, and the buttons that add and remove a row.
setRow(g) ==
  /\ SectionShown /\ geoEdits < MaxGeoEdits /\ g # geoDraft
  /\ geoDraft' = g /\ geoEdits' = geoEdits + 1
  /\ UNCHANGED <<xrayTemplate, running, versionOpen, activeKey, loads, loading, templateRef,
                 confirmGeo, job, foreignSince, settled, folds, foreign>>

\* save: the template and the rows that are to be saved are taken when the
\* button is clicked, before the confirmation.
saveGeodata ==
  /\ SectionShown /\ templateRef # NotLoaded
  /\ confirmGeo' = [kind |-> "save", next |-> [templateRef EXCEPT !.geo = geoDraft],
                    shown |-> geoDraft, from |-> templateRef]
  /\ UNCHANGED <<xrayTemplate, running, versionOpen, activeKey, loads, loading, templateRef, geoDraft,
                 job, foreignSince, settled, folds, geoEdits, foreign>>

\* switchXrayVersion and updateGeofile.
confirmOther(kind) ==
  /\ versionOpen /\ confirmGeo = NoJob /\ activeKey = (IF kind = "install" THEN "1" ELSE "2")
  /\ confirmGeo' = [kind |-> kind]
  /\ UNCHANGED <<xrayTemplate, running, versionOpen, activeKey, loads, loading, templateRef, geoDraft,
                 job, foreignSince, settled, folds, geoEdits, foreign>>

CancelConfirm ==
  /\ confirmGeo # NoJob /\ confirmGeo' = NoJob
  /\ UNCHANGED <<xrayTemplate, running, versionOpen, activeKey, loads, loading, templateRef, geoDraft,
                 job, foreignSince, settled, folds, geoEdits, foreign>>

\* onOk: the dialog is hidden and the overlay comes up.
ConfirmGeo ==
  /\ confirmGeo # NoJob
  /\ job' = confirmGeo
  /\ confirmGeo' = NoJob /\ versionOpen' = FALSE
  /\ settled' = NotLoaded
  /\ UNCHANGED <<xrayTemplate, running, activeKey, loads, loading, templateRef, geoDraft,
                 foreignSince, folds, geoEdits, foreign>>

\* The whole template is written; a success is followed by the restart.
TemplateSaved(ok) ==
  /\ job.kind = "save"
  /\ xrayTemplate' = IF ok THEN job.next ELSE xrayTemplate
  /\ job' = IF ok THEN [kind |-> "restart", geo |-> job.next.geo] ELSE NoJob
  /\ foreignSince' = FALSE
  /\ UNCHANGED <<running, versionOpen, activeKey, loads, loading, templateRef, geoDraft,
                 confirmGeo, settled, folds, geoEdits, foreign>>

\* A restart serves what is stored by then.
XrayRestarted(ok) ==
  /\ job.kind = "restart"
  /\ running' = IF ok THEN xrayTemplate ELSE running
  /\ settled' = IF ok THEN job.geo ELSE settled
  /\ job' = NoJob
  /\ UNCHANGED <<xrayTemplate, versionOpen, activeKey, loads, loading, templateRef, geoDraft,
                 confirmGeo, foreignSince, folds, geoEdits, foreign>>

\* installXray restarts Xray; a geo file is replaced, and Xray restarted too.
OtherJobEnds(ok) ==
  /\ job.kind \in {"install", "geofile"}
  /\ running' = IF ok THEN xrayTemplate ELSE running
  /\ job' = NoJob
  /\ UNCHANGED <<xrayTemplate, versionOpen, activeKey, loads, loading, templateRef, geoDraft,
                 confirmGeo, foreignSince, settled, folds, geoEdits, foreign>>

\* The page of Xray, or another operator, saves another template.
ForeignSave ==
  /\ foreign < MaxForeign
  /\ foreign' = foreign + 1
  /\ \E g \in Geos : xrayTemplate' = [geo |-> g, rest |-> foreign']
  /\ foreignSince' = TRUE
  /\ UNCHANGED <<running, versionOpen, activeKey, loads, loading, templateRef, geoDraft,
                 confirmGeo, job, settled, folds, geoEdits>>

GeodataNext ==
  \/ OpenVersions \/ CloseVersions \/ saveGeodata \/ CancelConfirm \/ ConfirmGeo \/ ForeignSave
  \/ \E k \in {"1", "2", "3"} : setActiveKey(k)
  \/ \E l \in loads : LoadRead(l) \/ LoadArrives(l) \/ LoadFails(l)
  \/ \E g \in Geos : setRow(g)
  \/ \E kind \in {"install", "geofile"} : confirmOther(kind)
  \/ \E ok \in BOOLEAN : TemplateSaved(ok) \/ XrayRestarted(ok) \/ OtherJobEnds(ok)

GeodataSpec == GeodataInit /\ [][GeodataNext]_geodataVars

-----------------------------------------------------------------------------
GeodataTypeOK ==
  /\ {xrayTemplate, running} \subseteq Templates
  /\ templateRef \in Templates \cup {NotLoaded} /\ geoDraft \in Geos
  /\ loading => loads # {}

\* What a save writes is the geodata that was shown when it was clicked, and of
\* the rest of the template what was loaded with them, whatever another load
\* brings while the confirmation is open.
SavedAsClicked ==
  job.kind = "save" => job.next = [job.from EXCEPT !.geo = job.shown]

\* When a save and its restart have succeeded and nobody else has saved since,
\* Xray runs what was stored.
GeodataServed ==
  (settled # NotLoaded /\ ~foreignSince /\ job = NoJob)
     => running = xrayTemplate /\ xrayTemplate.geo = settled
=============================================================================
