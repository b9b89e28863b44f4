SPECIFICATION FairSpec
CONSTANTS
  A = A
  B = B
  a1 = a1
  a2 = a2
  ModIds <- MCModIds
  ItemIds <- MCItemIds
  Values = {0, 1}
  Placeholder <- MCPlaceholder
  NoName = NoName
  NoMod = NoMod
  NoGrip = NoGrip
  Xml <- MCXmlOne
  CppBuilds <- MCCppBuilds
  LuaBuilds <- MCCppBuilds
  Owned = {}
  Unset = Unset
  NoEdit = NoEdit
  MaxOpens = 2
  MaxFailures = 3
PROPERTY PushRecovers
CHECK_DEADLOCK FALSE
