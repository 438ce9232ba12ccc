---------------------------- MODULE ReliableLink ----------------------------
(***************************************************************************)
(* What the panel's pages are promised by the WebSocket client: while they *)
(* want the link, a link that is down comes up again whenever the server   *)
(* can be reached, a message is heard over an open link only, and at most  *)
(* one link exists.                                                        *)
(***************************************************************************)
VARIABLES
  want,        \* do the pages want the link?
  link,        \* is it up?
  reachable    \* does the server accept connections?

linkVars == <<want, link, reachable>>

LinkInit == want = FALSE /\ link = "down" /\ reachable = TRUE

Want == want' = TRUE /\ UNCHANGED <<link, reachable>>

\* The pages give the link up; an open link goes down with it.
Unwant == want' = FALSE /\ link' = "down" /\ UNCHANGED reachable

ComeUp ==
  /\ want
  /\ reachable
  /\ link = "down"
  /\ link' = "up"
  /\ UNCHANGED <<want, reachable>>

GoDown == link = "up" /\ link' = "down" /\ UNCHANGED <<want, reachable>>

\* The server stops: what was up goes down with it or is found out later.
Reachability == reachable' = ~ reachable /\ UNCHANGED <<want, link>>

LinkNext == Want \/ Unwant \/ ComeUp \/ GoDown \/ Reachability

\* Only the safety part: which step the link may take.  The promise that it
\* comes up is the liveness part.
LinkSafety == LinkInit /\ [][LinkNext]_linkVars
LinkLiveness == (want /\ reachable) ~> (link = "up" \/ ~ want \/ ~ reachable)
LinkSpec == LinkSafety /\ WF_linkVars(ComeUp)
=============================================================================
