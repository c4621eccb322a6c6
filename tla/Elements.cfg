SPECIFICATION Spec
CONSTANTS
  OsdIds = {"x"}
  Styles = {"y1", "y2"}
  OsdMedias = {"m/1", "m//1", "m/2"}
  NormalizePath <- MCNormalizePath
  OsdClients = {"c"}
  OsdObjects = {"o1", "o2", "o3", "o4"}
  FullStates <- MCFullStates
  Items = 2
  Day = 9
  Second = 3
  MinEosInterval = 2
  MinEosRetry = 4
  UndefinedDuration = 6
  Offsets = {0, 1, 2}
  Durations = {0, 1, 2}
  Defaults = {1, 2}
  MaxTime = 20
  MaxSets = 1
  Completions = {"k1", "k2"}
  MaxRequests = 4
  Bits = {1, 2}
  FlavourClients = {"c1", "c2"}
  FlavourObjects = {"p1", "p2", "p3"}
  Configurations <- MCConfigurations
  KeeperIds = {"x"}
  KeeperItems = {"t"}
  Values = {1, 2}
  KeeperClients = {"c"}
  RemoteIds = {"x", "y"}
  RemoteMedias = {"dir", "file"}
  Addresses = {"p"}
  Above <- MCAbove
  StateNames = {"a", "b"}
  LogicStates <- MCLogicStates
  LogicObjects = {"p1", "p2", "p3", "p4"}
  MaxCount = 2
INVARIANTS
  TypeOK
  NoDanglingClip
  ShownIsAssociated
  SetFullStateIsExact
  AssociationsAreDurable
  EosClears
  EndsWhenInterrupted
  FollowsSchedule
  NeverAsleep
  PlaylistIsDurable
  OneAnswerEach
  RegistrationsMatch
  CloseIsNotStuck
  LateClientsCatchUp
  CurrentStateIsLive
CHECK_DEADLOCK FALSE
