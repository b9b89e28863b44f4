SPECIFICATION Spec
CONSTANTS
  Systems = {s1, s2}
  NoSystem = NoSystem
  MaxRestarts = 1
  MaxHiccups = 1
  MaxFaults = 2
  Mods = {m1, m2}
  pathA = pathA
  pathB = pathB
  evShared = evShared
  evGame = evGame
  BankPaths <- MCBankPaths
  EventPaths <- MCEventPaths
  BankEvents <- MCBankEvents
  Events3D <- MCEvents3D
  BankHandles = {b1, b2}
  EventHandles = {e1, e2}
  NoHandle = NoHandle
  Entities = {n1}
  NoEntity = NoEntity
  NoRecord = NoRecord
SYMMETRY Handles
INVARIANTS
  InstancesCounted
  OwnersLive
  PathTablesExact
  ReferencesMatch
  PointersCurrent
  NoStrayPlayback
