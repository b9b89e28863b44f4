SPECIFICATION Spec
CONSTANTS
  Systems = {s1, s2}
  NoSystem = NoSystem
  MaxRestarts = 1
  MaxHiccups = 1
  MaxFaults = 2
  Mods = {m1, m2}
  SoundPaths = {p1}
  Buses = {x1, x2}
  SoundHandles = {h1}
  ChannelHandles = {c1, c2}
  NoHandle = NoHandle
  Entities = {n1}
  NoEntity = NoEntity
  NoRecord = NoRecord
  MaxBusChanges = 4
SYMMETRY Handles
INVARIANTS
  ActiveCountsExact
  LocksKnown
  LockedWhileUsed
  NoStrayChannel
