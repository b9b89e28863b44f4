SPECIFICATION Spec
CONSTANTS
  A = A
  B = B
  a1 = a1
  a2 = a2
  ModIds <- MCModIds
  ItemIds <- MCItemIds
  Values = {0, 1}
  Placeholder <- MCPlaceholder
  NoName = NoName
  NoMod = NoMod
  NoGrip = NoGrip
  Xml <- MCXml
  CppBuilds <- MCCppBuilds
  LuaBuilds <- MCLuaBuilds
  Owned <- MCOwned
  Unset = Unset
  NoEdit = NoEdit
  MaxOpens = 1
  MaxFailures = 0
INVARIANT SlidersShowStored
