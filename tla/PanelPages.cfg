SPECIFICATION PagesSpec
CONSTANTS
  ann = ann
  bob = bob
  cid = cid
  vision = vision
  trojan = trojan
  link = link
  Plains = {"a", "bad"}
  FirstPlain = "a"
  SchemaRefuses = {"bad"}
  ServerRefuses = {"bad"}
  MaxSecret = 1
  Domains = {"d"}
  Addresses = {"x"}
  Presets = {"x"}
  MaxHosts = 2
  MaxServers = 2
  MaxFakedns = 2
  Calls = {c1, c2}
  MaxTokens = 3
  Inbounds = {"in1", "in2"}
  Guids = {"panel", "node"}
  Users = {"a"}
  Absent = Absent
  Local = {"in1", "in2"}
  Guid <- MCGuid
  Emails = {ann, bob, cid}
  Gateways = {vision, trojan}
  FlowCapable = {vision}
  Links = {link}
  Limits = {4}
  Step = 4
  FirstClients <- MCFirst
  NoEmail = NoEmail
  MaxClicks = 3
  MaxTyped = 2
  ListEmails <- MCEmails
  FirstListed = {ann, bob}
  FilterChoices <- MCFilters
  PageSize = 1
  MaxListChanges = 2
  Viewed = {ann, bob}
  WithSub = {ann}
  Nobody = Nobody
  MaxViews = 3
  Masters = {"m1", "m2", "m3"}
  FirstInbounds <- MCInbounds
  Targets = {"c", "dest"}
  Nowhere = "nowhere"
  Dest = "dest"
  Protocols = {"vless", "hysteria", "amneziawg"}
  Networks = {"tcp", "kcp"}
  MaxKeyPair = 2
  MaxOpens = 2
  MaxTypedInbound = 1
  Rows = {"i1", "i2"}
  Customers = {"a", "b"}
  NodeOf <- MCNodeOf
  FirstAttached <- MCAttached
  NoRow = "no row"
  MaxPicks = 3
  LinkInbounds <- MCLinkInbounds
  Entries <- MCEntries
  Hosts <- MCHosts
  Opened <- MCOpened
  Pasted <- MCPasted
  OtherTags = {"other"}
  MaxEdits = 2
  Members = {c1}
  GroupNames = {g1, g2}
  NoGroup = NoGroup
  MaxMoves = 1
  MaxActs = 2
  NodeIds = {1, 2}
  Machines = {m1, m3}
  PlainMachines = {m3}
  Trusted = {m1}
  NoNode = NoNode
  NoPin = NoPin
  MaxNodeTyped = 1
  MaxNodeClicks = 2
  MaxFlips = 1
  HostIds = {1, 2, 3, 4}
  Hidden = {1}
  NoHost = NoHost
  MaxTouches = 2
  MaxOthers = 1
  MaxRuns = 3
  MaxPolls = 2
  MaxTasks = 1
  Geos = {NoGeo, g3}
  NoGeo = NoGeo
  NotLoaded = NotLoaded
  MaxFolds = 4
  MaxGeoEdits = 1
  MaxForeign = 1
  ListEntries = {"private", "bittorrent"}
  Missing = Missing
  MaxKnobs = 3
  Edits = {"default", "a"}
  Default = "default"
  Broken = Broken
  MaxAccounts = 2
  MaxWarpClicks = 3
  MaxKey = 2
  MaxSubs = 1
INVARIANTS PagesTypeOK DialogsActOnTheirSubject PagesShowTheTruth RequestsAreSound LinksLeadBack
PROPERTIES SavedIsWhatWasShown EditsStayApart
VIEW PageShown
CHECK_DEADLOCK FALSE
