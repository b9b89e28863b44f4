SPECIFICATION PluginsSpec
CONSTANTS
  Plugins = {p, q}
  Sites = {0, 2, 3}
  Nops = {3}
  LastAddr = 5
  Disp = 1
  RelaySize = 2
  SlotSize = 1
  Capacity = 4
  MaxPatches = 4
  MaxPools = 3
  ModIds = {A, B}
  Closures = {f, g}
  MaxHandle = 4
  Objects = {o1, o2}
  Vacant = Vacant
  Places = {p1, p2}
  Nowhere = Nowhere
  MaxRequests = 2
  Keys = {"j", "k"}
  AttrNames = {"x", "y"}
  AttrTexts = {"game", "mod", "late"}
  MaxHeight = 2
  Bases <- MCBases
  Patches <- MCPatches
  Unreadable = Unreadable
  MaxFiles = 2
  engineCVar = engineCVar
  menuCVar = menuCVar
  switch = switch
  EngineCVars = {engineCVar}
  MenuCVars = {menuCVar}
  Switch = switch
  Lines <- MCLines
  Values = {0, 1}
  Default <- MCDefault
  Blank = Blank
  Absent = Absent
  MaxSessions = 3
  MaxEdits = 5
  MaxFaults = 1
  MaxMarks = 5
  Herbs = {"a", "b", "c"}
  Orders <- MCOrders
  Nothing = "nothing"
SYMMETRY Either
INVARIANTS
  UndoneExactly
  NoStrayJump
  
  RefsExact
  NoGhostRoute
  MergeIsOverride
  FileHoldsEntries
  MenuNeverDisputed
  LabelsCurrent
  BrewsRecipe
PROPERTIES
  RegistryIsTable
  TravelsAsAsked
  NeverForgets
  ReplaysRecorded
CHECK_DEADLOCK FALSE
