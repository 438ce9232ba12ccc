SPECIFICATION Spec
CONSTANTS
  OutTags = {"direct", "blocked", "warp", "nord-a"}
  FormTags = {"direct"}
  BalTags = {"b"}
  NoTag = ""
  Warp = "warp"
  NordTags = {"nord-a"}
  BlockTags = {"blocked"}
  SyncTags = {"direct"}
  DefaultOutbounds <- MCOutbounds
  DefaultRules <- MCRules
  Selectors <- MCSelectors
  Pasted <- MCPasted
  MaxTaint = 1
  Picked = {"direct"}
  MaxOutbounds = 2
  MaxRules = 1
  MaxBalancers = 1
INVARIANTS TypeOK ReferencesResolve
PROPERTIES NoRuleDisarmed DeletesAsAnnounced
