--------------------------- MODULE MCXrayTemplate ---------------------------
EXTENDS XrayTemplate

MCOutbounds == << [tag |-> "direct", dialer |-> ""] >>
MCRules == <<>>
MCSelectors == {{"direct", "warp"}}
MCPasted == [outbounds |-> {[tag |-> "warp", dialer |-> "nord-a"]},
             rules |-> {[out |-> "nord-a", bal |-> "b"]}]
=============================================================================
