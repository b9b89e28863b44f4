SPECIFICATION FairSpec
CONSTANTS
  Systems = {s1, s2}
  NoSystem = NoSystem
  MaxRestarts = 1
  MaxHiccups = 1
  MaxFaults = 1
  Mods = {m1}
  Entities = {n1}
  NoEntity = NoEntity
  NoHandle = NoHandle
  NoRecord = NoRecord
  pathA = pathA
  evA = evA
  BankPaths = {pathA}
  EventPaths = {evA}
  BankEvents <- MCBankEvents
  Events3D = {evA}
  BankHandles = {b1}
  EventHandles = {e1}
  SoundPaths = {p1}
  Buses = {x1}
  SoundHandles = {h1}
  ChannelHandles = {c1}
  MaxBusChanges = 2
PROPERTIES
  ImplementsStudio
  ImplementsCore
  DueRetire
