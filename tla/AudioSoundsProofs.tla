------------------------- MODULE AudioSoundsProofs -------------------------
(***************************************************************************)
(* Proofs about AudioSounds for any number of mods, sounds, channels,      *)
(* buses, restarts and failures.                                           *)
(***************************************************************************)
EXTENDS AudioSounds, FiniteSetTheorems, TLAPS

USE BackendAssumption, SoundsAssumption, NoSoundRecordAssumption

-----------------------------------------------------------------------------
(* Sets of channels are finite, and counting them gives numbers. *)
LEMMA ChannelSets ==
  ASSUME NEW S \in SUBSET ChannelHandles
  PROVE  IsFiniteSet(S) /\ Cardinality(S) \in Nat
BY FS_Subset, FS_CardinalityType

(* So are sets of buses. *)
LEMMA BusSets ==
  ASSUME NEW S \in SUBSET Buses
  PROVE  IsFiniteSet(S) /\ Cardinality(S) \in Nat
BY FS_Subset, FS_CardinalityType

(* A step of the manager changes nothing of the backend but the number of  *)
(* failures left, and only without a failure that number stays at its bound.*)
LEMMA FailsKeepsBackend ==
  ASSUME BackendTypeOK, NEW n \in Nat, Fails(n)
  PROVE  /\ BackendTypeOK'
         /\ UNCHANGED <<system, visible, active, epoch, restarts, hiccups>>
         /\ faults' = MaxFaults => faults = MaxFaults /\ n = 0
BY DEF BackendTypeOK, Fails

-----------------------------------------------------------------------------
(* What the outcomes of AcquireRoute and ReleaseRoute have in common: a     *)
(* well-formed route, and a bus whose locks changed as the route's did.     *)

Outcomes == [route: Route, count: Int, failed: Nat, ok: BOOLEAN]

(* A route that is taken anew: the lock it records is the one it took. *)
LEMMA FreshOutcomesGood ==
  ASSUME SoundsTypeOK, NEW b \in Buses, NEW count \in Int, NEW failed \in Nat,
         NEW o \in FreshOutcomes(b, count, failed)
  PROVE  /\ o \in Outcomes
         /\ WellFormed(o.route, b)
         /\ o.count = count + LockOf(o.route, b)
         /\ o.route.activeChannels = 0
         /\ o.ok => o.route.locked /\ o.route.group
         /\ ~o.ok /\ o.failed = failed => ~o.route.locked
<1>1. /\ buses[b] \in 0..MaxBusChanges
      /\ BusExists(b) => buses[b] # 0
  BY DEF SoundsTypeOK, BusExists
<1> DEFINE route(locked, group) ==
             [bus |-> buses[b], group |-> group, locked |-> locked, activeChannels |-> 0]
<1>2. /\ IdleRoute \in Route /\ WellFormed(IdleRoute, b) /\ LockOf(IdleRoute, b) = 0
      /\ IdleRoute.activeChannels = 0 /\ ~IdleRoute.locked
  BY <1>1 DEF IdleRoute, Route, WellFormed, LockOf
<1>3. ASSUME NEW locked \in BOOLEAN, NEW group \in BOOLEAN, BusExists(b),
             group => locked
      PROVE  /\ route(locked, group) \in Route /\ WellFormed(route(locked, group), b)
             /\ LockOf(route(locked, group), b) = IF locked THEN 1 ELSE 0
             /\ route(locked, group).activeChannels = 0
             /\ route(locked, group).locked = locked
             /\ route(locked, group).group = group
  BY <1>1, <1>3 DEF Route, WellFormed, LockOf, PointerValid
<1> DEFINE found == route(FALSE, FALSE)
           locked == route(TRUE, FALSE)
           whole == route(TRUE, TRUE)
<1>4. BusExists(b) =>
        /\ found \in Route /\ WellFormed(found, b) /\ found.activeChannels = 0
        /\ LockOf(found, b) = 0 /\ ~found.locked
        /\ locked \in Route /\ WellFormed(locked, b) /\ locked.activeChannels = 0
        /\ LockOf(locked, b) = 1
        /\ whole \in Route /\ WellFormed(whole, b) /\ whole.activeChannels = 0
        /\ LockOf(whole, b) = 1 /\ whole.locked /\ whole.group
  BY <1>3
<1>10. BusExists(b) =>
         \/ o = Outcome(IdleRoute, count, failed + 1, FALSE)
         \/ o = Outcome(found, count, failed + 1, FALSE)
         \/ o = Outcome(locked, count + 1, failed + 2, FALSE)
         \/ o = Outcome(whole, count + 1, failed, TRUE)
  BY DEF FreshOutcomes
<1>11. ~BusExists(b) => o = Outcome(IdleRoute, count, failed, FALSE)
  BY DEF FreshOutcomes
<1> HIDE DEF found, locked, whole
<1>5. CASE o = Outcome(IdleRoute, count, failed, FALSE)
  <2>1. /\ o.route = IdleRoute /\ o.count = count
        /\ o.failed = failed /\ o.ok = FALSE
    BY <1>5 DEF Outcome
  <2>2. o \in Outcomes
    BY <1>2, <1>5 DEF Outcome, Outcomes
  <2>. QED BY <1>2, <2>1, <2>2
<1>6. CASE o = Outcome(IdleRoute, count, failed + 1, FALSE)
  <2>1. /\ o.route = IdleRoute /\ o.count = count
        /\ o.failed = failed + 1 /\ o.ok = FALSE
    BY <1>6 DEF Outcome
  <2>2. o \in Outcomes
    BY <1>2, <1>6 DEF Outcome, Outcomes
  <2>. QED BY <1>2, <2>1, <2>2
<1>7. CASE BusExists(b) /\ o = Outcome(found, count, failed + 1, FALSE)
  <2>1. /\ o.route = found /\ o.count = count
        /\ o.failed = failed + 1 /\ o.ok = FALSE
    BY <1>7 DEF Outcome
  <2>2. o \in Outcomes
    BY <1>4, <1>7 DEF Outcome, Outcomes
  <2>3. o.failed # failed
    BY <2>1
  <2>4. LockOf(o.route, b) = 0
    BY <1>4, <1>7, <2>1
  <2>5. o.count = count + LockOf(o.route, b)
    BY <2>1, <2>4
  <2>6. ~o.ok
    BY <2>1
  <2>. QED BY <1>4, <1>7, <2>1, <2>2, <2>3, <2>5, <2>6
<1>8. CASE BusExists(b) /\ o = Outcome(locked, count + 1, failed + 2, FALSE)
  <2>1. /\ o.route = locked /\ o.count = count + 1
        /\ o.failed = failed + 2 /\ o.ok = FALSE
    BY <1>8 DEF Outcome
  <2>2. o \in Outcomes
    BY <1>4, <1>8 DEF Outcome, Outcomes
  <2>3. o.failed # failed
    BY <2>1
  <2>4. LockOf(o.route, b) = 1
    BY <1>4, <1>8, <2>1
  <2>5. o.count = count + LockOf(o.route, b)
    BY <2>1, <2>4
  <2>6. ~o.ok
    BY <2>1
  <2>. QED BY <1>4, <1>8, <2>1, <2>2, <2>3, <2>5, <2>6
<1>9. CASE BusExists(b) /\ o = Outcome(whole, count + 1, failed, TRUE)
  <2>1. /\ o.route = whole /\ o.count = count + 1
        /\ o.failed = failed /\ o.ok = TRUE
    BY <1>9 DEF Outcome
  <2>2. o \in Outcomes
    BY <1>4, <1>9 DEF Outcome, Outcomes
  <2>. QED BY <1>4, <1>9, <2>1, <2>2
<1>. QED BY <1>5, <1>6, <1>7, <1>8, <1>9, <1>10, <1>11

(* A route that is acquired: usable if the caller got it, the same as before *)
(* if channels are on it.                                                    *)
LEMMA AcquireOutcomesGood ==
  ASSUME SoundsTypeOK, RoutesWellFormed, NEW b \in Buses,
         NEW o \in AcquireOutcomes(b)
  PROVE  /\ o \in Outcomes
         /\ WellFormed(o.route, b)
         /\ o.count = locks[b] + LockOf(o.route, b) - LockOf(routes[b], b)
         /\ o.route.activeChannels = routes[b].activeChannels
         /\ o.ok => o.route.locked /\ o.route.group
         /\ routes[b].activeChannels # 0 => o.route = routes[b]
         /\ ~o.ok /\ o.failed = 0 /\ o.route.locked /\ PointerValid(o.route, b)
              => routes[b].activeChannels # 0
<1> DEFINE r == routes[b]
<1>1. r \in Route /\ locks[b] \in Int /\ WellFormed(r, b)
  BY DEF SoundsTypeOK, RoutesWellFormed
<1>2. ASSUME NEW failed \in {0, 1}, NEW ok \in BOOLEAN,
             o = Outcome(r, locks[b], failed, ok),
             ok => r.locked /\ r.group,
             ~ok /\ failed = 0 /\ r.locked /\ PointerValid(r, b)
               => r.activeChannels # 0
      PROVE  /\ o \in Outcomes
             /\ o.route = r /\ o.count = locks[b]
             /\ o.count = locks[b] + LockOf(o.route, b) - LockOf(r, b)
             /\ o.ok => o.route.locked /\ o.route.group
             /\ ~o.ok /\ o.failed = 0 /\ o.route.locked /\ PointerValid(o.route, b)
                  => r.activeChannels # 0
  <2>1. /\ o \in Outcomes
        /\ o.route = r /\ o.count = locks[b] /\ o.failed = failed /\ o.ok = ok
    BY <1>1, <1>2 DEF Outcome, Outcomes
  <2>2. LockOf(r, b) \in Int
    BY DEF LockOf
  <2>3. o.count = locks[b] + LockOf(o.route, b) - LockOf(r, b)
    BY <1>1, <2>1, <2>2
  <2>. QED BY <1>2, <2>1, <2>3
<1>3. CASE Usable(b)
  <2>1. o = Outcome(r, locks[b], 0, TRUE)
    BY <1>3 DEF AcquireOutcomes
  <2>. QED BY <1>1, <1>2, <1>3, <2>1 DEF Usable
<1>4. CASE ~Usable(b) /\ r.activeChannels # 0
  <2>1. o = Outcome(r, locks[b], 0, FALSE)
    BY <1>4 DEF AcquireOutcomes
  <2>. QED BY <1>1, <1>2, <1>4, <2>1
<1>5. CASE ~Usable(b) /\ r.activeChannels = 0 /\ r.locked
  <2>1. CASE ~PointerValid(r, b)
    <3>1. o = Outcome(r, locks[b], 0, FALSE)
      BY <1>5, <2>1 DEF AcquireOutcomes
    <3>. QED BY <1>1, <1>2, <1>5, <2>1, <3>1
  <2>2. CASE PointerValid(r, b) /\ o \in FreshOutcomes(b, locks[b] - 1, 0)
    <3>1. locks[b] - 1 \in Int /\ 0 \in Nat /\ LockOf(r, b) = 1
      BY <1>1, <1>5, <2>2 DEF LockOf
    <3>. DEFINE before == locks[b] - 1
    <3>2. before \in Int /\ o \in FreshOutcomes(b, before, 0)
      BY <2>2, <3>1
    <3>. HIDE DEF before
    <3>3. /\ o \in Outcomes /\ WellFormed(o.route, b)
          /\ o.count = before + LockOf(o.route, b)
          /\ o.route.activeChannels = 0
          /\ o.ok => o.route.locked /\ o.route.group
          /\ ~o.ok /\ o.failed = 0 => ~(o.route.locked /\ PointerValid(o.route, b))
      BY <3>1, <3>2, FreshOutcomesGood
    <3>4. LockOf(o.route, b) \in Int
      BY DEF LockOf
    <3>5. o.count = locks[b] + LockOf(o.route, b) - LockOf(r, b)
      BY <1>1, <3>1, <3>3, <3>4 DEF before
    <3>. QED BY <1>5, <3>3, <3>5
  <2>3. CASE PointerValid(r, b) /\ o \notin FreshOutcomes(b, locks[b] - 1, 0)
    <3>1. o = Outcome(r, locks[b], 1, FALSE)
      BY <1>5, <2>3 DEF AcquireOutcomes
    <3>2. 1 \in {0, 1} /\ FALSE \in BOOLEAN /\ 1 # 0
      OBVIOUS
    <3>. QED BY <1>1, <1>2, <1>5, <2>3, <3>1, <3>2
  <2>. QED BY <2>1, <2>2, <2>3
<1>6. CASE ~Usable(b) /\ r.activeChannels = 0 /\ ~r.locked
  <2>1. o \in FreshOutcomes(b, locks[b], 0)
    BY <1>6 DEF AcquireOutcomes
  <2>. QED BY <1>1, <1>6, <2>1, FreshOutcomesGood DEF LockOf
<1>. QED BY <1>1, <1>3, <1>4, <1>5, <1>6 DEF Route

(* A route that n channels leave: unlocked with the last one, unless the     *)
(* call fails or the bus is gone, and otherwise as it was.                   *)
LEMMA ReleaseOutcomesGood ==
  ASSUME SoundsTypeOK, NEW b \in Buses, NEW r, WellFormed(r, b),
         NEW count \in Int, NEW n \in Nat, n <= r.activeChannels, n # 0 => r.locked,
         NEW o \in ReleaseOutcomes(r, b, count, n)
  PROVE  /\ o \in Outcomes
         /\ WellFormed(o.route, b)
         /\ o.count = count + LockOf(o.route, b) - LockOf(r, b)
         /\ o.route.activeChannels = r.activeChannels - n
         /\ o.failed \in {0, 1}
         /\ n = 0 \/ n # r.activeChannels
              => /\ (o.route.locked <=> r.locked) /\ (o.route.group <=> r.group)
                 /\ o.route.bus = r.bus
         /\ o.failed = 0 /\ n # 0 /\ o.route.locked /\ PointerValid(o.route, b)
              => n # r.activeChannels
<1>1. r \in Route /\ r.activeChannels \in Nat /\ (r.locked => r.bus # 0)
  BY DEF WellFormed, Route
<1> DEFINE left == r.activeChannels - n
           kept == [r EXCEPT !.activeChannels = left]
<1>2. Monus(r.activeChannels, n) = left /\ left \in Nat
  BY <1>1 DEF Monus
<1>3. /\ kept \in Route /\ WellFormed(kept, b)
      /\ (kept.locked <=> r.locked) /\ (kept.group <=> r.group) /\ kept.bus = r.bus
      /\ kept.activeChannels = left
      /\ LockOf(kept, b) = LockOf(r, b) /\ LockOf(r, b) \in Int
      /\ PointerValid(kept, b) = PointerValid(r, b)
  BY <1>1, <1>2 DEF Route, WellFormed, LockOf, PointerValid
<1>4. IdleRoute \in Route /\ WellFormed(IdleRoute, b) /\ LockOf(IdleRoute, b) = 0
  BY DEF IdleRoute, Route, WellFormed, LockOf, SoundsTypeOK
<1> HIDE DEF left, kept
<1>5. CASE n = 0 \/ left # 0
  <2>1. o = Outcome(kept, count, 0, TRUE)
    BY <1>2, <1>5 DEF ReleaseOutcomes, kept
  <2>2. left # 0 => n # r.activeChannels
    BY <1>1 DEF left
  <2>. QED BY <1>1, <1>2, <1>3, <1>5, <2>1, <2>2 DEF Outcome, Outcomes, left
<1>6. CASE n # 0 /\ left = 0
  <2>1. r.locked /\ r.bus # 0
    BY <1>1, <1>6
  <2>2. o \in IF PointerValid(r, b)
              THEN {Outcome(IdleRoute, count - 1, 0, TRUE), Outcome(kept, count, 1, TRUE)}
              ELSE {Outcome(kept, count, 0, TRUE)}
    BY <1>2, <1>6, <2>1 DEF ReleaseOutcomes, kept
  <2>3. n = r.activeChannels
    BY <1>1, <1>6 DEF left
  <2>4. CASE o = Outcome(IdleRoute, count - 1, 0, TRUE) /\ PointerValid(r, b)
    <3>1. LockOf(r, b) = 1
      BY <2>1, <2>4 DEF LockOf
    <3>. QED BY <1>4, <1>6, <2>3, <2>4, <3>1 DEF Outcome, Outcomes, IdleRoute, left
  <2>5. CASE o = Outcome(kept, count, 1, TRUE)
    BY <1>3, <1>6, <2>3, <2>5 DEF Outcome, Outcomes, left
  <2>6. CASE o = Outcome(kept, count, 0, TRUE) /\ ~PointerValid(r, b)
    BY <1>3, <1>6, <2>3, <2>6 DEF Outcome, Outcomes, left
  <2>. QED BY <2>2, <2>4, <2>5, <2>6
<1>. QED BY <1>2, <1>5, <1>6

-----------------------------------------------------------------------------
(* A step of the manager that moves each bus's locks with its route: what it *)
(* keeps whatever it does to the channels.                                   *)
LEMMA RoutesStep ==
  ASSUME SoundsInvariant, Ready,
         UNCHANGED <<system, visible, active, hiccups, buses>>,
         routes' \in [Buses -> Route], locks' \in [Buses -> Int],
         \A b \in Buses :
           /\ WellFormed(routes'[b], b)
           /\ locks'[b] = locks[b] + LockOf(routes'[b], b) - LockOf(routes[b], b)
  PROVE  RoutesWellFormed' /\ NoRoutesUnready' /\ UnnoticedIsIdle' /\ LocksExact'
<1>1. active = system /\ active # NoSystem /\ visible
  BY DEF Ready, Reported
<1>2. RoutesWellFormed'
  BY DEF RoutesWellFormed, WellFormed
<1>3. NoRoutesUnready' /\ UnnoticedIsIdle'
  BY <1>1 DEF NoRoutesUnready, UnnoticedIsIdle
<1>4. LocksExact'
  <2>1. \A b \in Buses : LockOf(routes[b], b) \in Int /\ LockOf(routes'[b], b) \in Int
    BY DEF LockOf
  <2>2. \A b \in Buses : (LockOf(routes[b], b))' = LockOf(routes'[b], b)
    BY DEF LockOf, PointerValid
  <2>. QED BY <1>1, <2>1, <2>2 DEF SoundsInvariant, LocksExact
<1>. QED BY <1>2, <1>3, <1>4

(* One bus's route and locks change, its channels do not: a call that fails *)
(* somewhere between AcquireRoute and RetireChannel.                        *)
LEMMA RouteOnly ==
  ASSUME SoundsInvariant, Ready, NEW b \in Buses, NEW route, NEW count \in Int,
         WellFormed(route, b),
         count = locks[b] + LockOf(route, b) - LockOf(routes[b], b),
         route.activeChannels = routes[b].activeChannels,
         routes[b].activeChannels # 0 =>
           (route.locked <=> routes[b].locked) /\ (route.group <=> routes[b].group),
         routes' = [routes EXCEPT ![b] = route],
         locks' = [locks EXCEPT ![b] = count],
         NEW n \in Nat, Fails(n),
         n = 0 /\ route.locked /\ PointerValid(route, b)
           => routes[b].activeChannels # 0,
         UNCHANGED <<sounds, soundPaths, channels, playing, buses, entities, held>>
  PROVE  SoundsInvariant'
<1>1. /\ SoundsTypeOK /\ BackendTypeOK /\ RoutesWellFormed
      /\ ChannelsCounted /\ RoutesCounted /\ ChannelsHaveSounds
  BY DEF SoundsInvariant, ActiveCountsExact, SoundsTypeOK
<1>2. /\ BackendTypeOK'
      /\ UNCHANGED <<system, visible, active, hiccups>>
      /\ faults' = MaxFaults => faults = MaxFaults /\ n = 0
  BY <1>1, FailsKeepsBackend
<1>3. /\ routes'[b] = route /\ locks'[b] = count
      /\ \A x \in Buses \ {b} : routes'[x] = routes[x] /\ locks'[x] = locks[x]
      /\ routes' \in [Buses -> Route] /\ locks' \in [Buses -> Int]
  BY <1>1 DEF SoundsTypeOK, WellFormed
<1>4. RoutesWellFormed' /\ NoRoutesUnready' /\ UnnoticedIsIdle' /\ LocksExact'
  <2>1. \A x \in Buses : LockOf(routes[x], x) \in Int /\ locks[x] \in Int
    BY <1>1 DEF LockOf, SoundsTypeOK
  <2>2. \A x \in Buses :
          /\ WellFormed(routes'[x], x)
          /\ locks'[x] = locks[x] + LockOf(routes'[x], x) - LockOf(routes[x], x)
    BY <1>1, <1>3, <2>1 DEF RoutesWellFormed
  <2>. QED BY <1>2, <1>3, <2>2, RoutesStep
<1>5. /\ Sounds' = Sounds /\ Channels' = Channels
      /\ \A s \in SoundHandles : ChannelsOf(s)' = ChannelsOf(s)
      /\ \A x \in Buses : ChannelsOn(x)' = ChannelsOn(x)
  BY DEF Sounds, Channels, ChannelsOf, ChannelsOn
<1>6. SoundsTypeOK'
  BY <1>1, <1>2, <1>3 DEF SoundsTypeOK
<1>7. ChannelsCounted' /\ ChannelsHaveSounds'
  BY <1>1, <1>5 DEF ChannelsCounted, ChannelsHaveSounds, Sounds
<1>8. RoutesCounted'
  BY <1>1, <1>3, <1>5 DEF RoutesCounted
<1>9. ASSUME NEW x \in Buses, ChannelsOn(x) = {}
      PROVE  routes[x].activeChannels = 0
  BY <1>1, <1>9, FS_EmptySet DEF RoutesCounted
<1>10. ASSUME NEW x \in Buses, ChannelsOn(x) # {}
       PROVE  routes[x].activeChannels # 0
  BY <1>1, <1>10, FS_EmptySet, ChannelSets DEF RoutesCounted, ChannelsOn, Channels
<1>11. ChannelsKeepLock'
  <2> SUFFICES ASSUME NEW c \in Channels
               PROVE  /\ routes'[channels[c].bus].locked
                      /\ routes'[channels[c].bus].group
    BY <1>5 DEF ChannelsKeepLock
  <2>1. channels[c].bus \in Buses /\ c \in ChannelsOn(channels[c].bus)
    BY <1>1 DEF SoundsTypeOK, ChannelRecord, Channels, ChannelsOn
  <2>2. routes[channels[c].bus].locked /\ routes[channels[c].bus].group
    BY DEF SoundsInvariant, LockedWhileUsed, ChannelsKeepLock
  <2>. QED BY <1>3, <1>10, <2>1, <2>2
<1>12. IdleRoutesUnlocked'
  <2> SUFFICES ASSUME faults' = MaxFaults, NEW x \in Buses,
                      (routes[x].locked /\ PointerValid(routes[x], x))'
               PROVE  ChannelsOn(x) # {}
    BY <1>5 DEF IdleRoutesUnlocked
  <2>1. PointerValid(routes'[x], x)
    BY DEF PointerValid
  <2>. QED BY <1>2, <1>3, <1>9, <2>1
           DEF SoundsInvariant, LockedWhileUsed, IdleRoutesUnlocked
<1>13. NoStrayChannel'
  BY <1>2, <1>5 DEF SoundsInvariant, NoStrayChannel
<1>. QED BY <1>4, <1>6, <1>7, <1>8, <1>11, <1>12, <1>13
         DEF SoundsInvariant, ActiveCountsExact, LockedWhileUsed

(* The same route with another number of channels. *)
LEMMA Recounted ==
  ASSUME NEW route \in Route, NEW n \in Nat, NEW b \in Buses, WellFormed(route, b)
  PROVE  LET r == [route EXCEPT !.activeChannels = n]
         IN  /\ r \in Route /\ WellFormed(r, b)
             /\ r.activeChannels = n
             /\ (r.locked <=> route.locked) /\ (r.group <=> route.group)
             /\ LockOf(r, b) = LockOf(route, b)
<1> DEFINE r == [route EXCEPT !.activeChannels = n]
<1>1. /\ r \in Route /\ r.activeChannels = n
      /\ (r.locked <=> route.locked) /\ (r.group <=> route.group) /\ r.bus = route.bus
  BY DEF Route
<1> HIDE DEF r
<1>2. WellFormed(r, b) /\ LockOf(r, b) = LockOf(route, b)
  BY <1>1 DEF WellFormed, LockOf, PointerValid
<1>. QED BY <1>1, <1>2 DEF r

(* A channel that could not be kept gives its route back. *)
LEMMA GivenBack ==
  ASSUME SoundsInvariant, Ready, NEW b \in Buses,
         NEW a \in AcquireOutcomes(b), a.ok,
         NEW o \in ReleaseOutcomes([a.route EXCEPT !.activeChannels = @ + 1],
                                   b, a.count, 1),
         RouteTo(b, o, a.failed + 1),
         UNCHANGED <<sounds, soundPaths, channels, playing, buses, entities, held>>
  PROVE  SoundsInvariant'
<1> DEFINE r == [a.route EXCEPT !.activeChannels = @ + 1]
<1>1. SoundsTypeOK /\ RoutesWellFormed /\ routes[b] \in Route
  BY DEF SoundsInvariant, ActiveCountsExact, SoundsTypeOK
<1>2. /\ a \in Outcomes /\ WellFormed(a.route, b)
      /\ a.count = locks[b] + LockOf(a.route, b) - LockOf(routes[b], b)
      /\ a.route.activeChannels = routes[b].activeChannels
      /\ a.route.locked /\ a.route.group
      /\ routes[b].activeChannels # 0 => a.route = routes[b]
  BY <1>1, AcquireOutcomesGood
<1>3. /\ a.route \in Route /\ a.count \in Int /\ a.failed \in Nat
      /\ locks[b] \in Int /\ LockOf(a.route, b) \in Int /\ LockOf(routes[b], b) \in Int
  BY <1>1, <1>2 DEF Outcomes, LockOf, SoundsTypeOK
<1>4. a.route.activeChannels \in Nat /\ a.route.activeChannels + 1 \in Nat
  BY <1>3 DEF Route
<1>5. /\ r \in Route /\ WellFormed(r, b)
      /\ r.activeChannels = a.route.activeChannels + 1
      /\ r.locked /\ (r.group <=> a.route.group)
      /\ LockOf(r, b) = LockOf(a.route, b)
  BY <1>2, <1>3, <1>4, Recounted
<1>6. PICK one \in Nat : one = 1
  OBVIOUS
<1>7. o \in ReleaseOutcomes(r, b, a.count, one) /\ one <= r.activeChannels
  BY <1>4, <1>5, <1>6
<1> HIDE DEF r
<1>8. /\ o \in Outcomes /\ WellFormed(o.route, b)
      /\ o.count = a.count + LockOf(o.route, b) - LockOf(r, b)
      /\ o.route.activeChannels = r.activeChannels - one
      /\ o.failed \in {0, 1}
      /\ one # r.activeChannels =>
           (o.route.locked <=> r.locked) /\ (o.route.group <=> r.group)
  BY <1>1, <1>3, <1>5, <1>7, ReleaseOutcomesGood
<1>9. /\ o.count \in Int /\ LockOf(o.route, b) \in Int
      /\ o.count = locks[b] + LockOf(o.route, b) - LockOf(routes[b], b)
      /\ o.route.activeChannels = routes[b].activeChannels
  BY <1>2, <1>3, <1>4, <1>5, <1>6, <1>8 DEF Outcomes, LockOf
<1>10. routes[b].activeChannels # 0 =>
         (o.route.locked <=> routes[b].locked) /\ (o.route.group <=> routes[b].group)
  BY <1>2, <1>4, <1>5, <1>6, <1>8
<1>11. /\ routes' = [routes EXCEPT ![b] = o.route]
       /\ locks' = [locks EXCEPT ![b] = o.count]
       /\ Fails(o.failed + (a.failed + 1))
       /\ o.failed + (a.failed + 1) \in Nat /\ o.failed + (a.failed + 1) # 0
  BY <1>3, <1>8 DEF RouteTo
<1>. QED BY <1>8, <1>9, <1>10, <1>11, RouteOnly

(* A channel that plays is counted with its sound and on its route. *)
LEMMA PlayedPreserves ==
  ASSUME SoundsInvariant, Ready, NEW s \in Sounds, NEW b \in Buses,
         NEW is3D \in BOOLEAN, NEW entity \in Entities \cup {NoEntity},
         NEW a \in AcquireOutcomes(b), a.ok, Played(s, b, a, is3D, entity),
         UNCHANGED <<soundPaths, buses, entities, held>>
  PROVE  SoundsInvariant'
<1>1. /\ SoundsTypeOK /\ BackendTypeOK /\ RoutesWellFormed
      /\ ChannelsCounted /\ RoutesCounted /\ ChannelsHaveSounds
  BY DEF SoundsInvariant, ActiveCountsExact, SoundsTypeOK
<1>2. PICK c \in ChannelHandles \ (Channels \cup playing), cleanup \in BOOLEAN :
        /\ channels' = [channels EXCEPT ![c] = NewChannel(s, b, is3D, entity, cleanup)]
        /\ sounds' = [sounds EXCEPT ![s].activeInstances = @ + 1]
        /\ playing' = playing \cup {c}
        /\ RouteTo(b, [a EXCEPT !.route.activeChannels = @ + 1],
                   IF cleanup THEN 2 ELSE 0)
  BY DEF Played
<1> DEFINE r == [a.route EXCEPT !.activeChannels = @ + 1]
           new == NewChannel(s, b, is3D, entity, cleanup)
           n == a.failed + (IF cleanup THEN 2 ELSE 0)
<1>3. /\ a \in Outcomes /\ WellFormed(a.route, b)
      /\ a.count = locks[b] + LockOf(a.route, b) - LockOf(routes[b], b)
      /\ a.route.activeChannels = routes[b].activeChannels
      /\ a.route.locked /\ a.route.group
  BY <1>1, AcquireOutcomesGood
<1>4. /\ a.route \in Route /\ a.count \in Int /\ a.failed \in Nat
      /\ a.route.activeChannels + 1 \in Nat
  BY <1>3 DEF Outcomes, Route
<1>5. /\ r \in Route /\ WellFormed(r, b) /\ LockOf(r, b) = LockOf(a.route, b)
      /\ r.activeChannels = routes[b].activeChannels + 1
      /\ r.locked /\ r.group
  BY <1>3, <1>4, Recounted
<1>6. /\ routes' = [routes EXCEPT ![b] = r]
      /\ locks' = [locks EXCEPT ![b] = a.count]
      /\ Fails(n) /\ n \in Nat
  <2> DEFINE after == [a EXCEPT !.route.activeChannels = @ + 1]
  <2>1. after.route = r /\ after.count = a.count /\ after.failed = a.failed
    BY <1>3 DEF Outcomes
  <2>2. RouteTo(b, after, IF cleanup THEN 2 ELSE 0)
    BY <1>2
  <2> HIDE DEF after, r
  <2>3. n \in Nat
    BY <1>4
  <2>. QED BY <2>1, <2>2, <2>3 DEF RouteTo
<1>7. /\ new \in ChannelRecord /\ new.ownerSound = s /\ new.bus = b /\ new # NoRecord
  BY <1>1 DEF NewChannel, ChannelRecord, Ready, SoundsTypeOK, BackendTypeOK, Sounds
<1>8. channels' = [channels EXCEPT ![c] = new]
  BY <1>2
<1> HIDE DEF r, new, n
<1>9. /\ BackendTypeOK'
      /\ UNCHANGED <<system, visible, active, hiccups>>
      /\ faults' = MaxFaults => faults = MaxFaults
  BY <1>1, <1>6, FailsKeepsBackend
<1>10. /\ routes'[b] = r /\ locks'[b] = a.count
       /\ \A x \in Buses \ {b} : routes'[x] = routes[x] /\ locks'[x] = locks[x]
       /\ routes' \in [Buses -> Route] /\ locks' \in [Buses -> Int]
  BY <1>1, <1>4, <1>5, <1>6 DEF SoundsTypeOK
<1>11. RoutesWellFormed' /\ NoRoutesUnready' /\ UnnoticedIsIdle' /\ LocksExact'
  <2>1. \A x \in Buses : LockOf(routes[x], x) \in Int /\ locks[x] \in Int
    BY <1>1 DEF LockOf, SoundsTypeOK
  <2>2. \A x \in Buses :
          /\ WellFormed(routes'[x], x)
          /\ locks'[x] = locks[x] + LockOf(routes'[x], x) - LockOf(routes[x], x)
    BY <1>1, <1>3, <1>5, <1>10, <2>1 DEF RoutesWellFormed
  <2>. QED BY <1>9, <1>10, <2>2, RoutesStep
<1>12. /\ channels' \in [ChannelHandles -> ChannelRecord \cup {NoRecord}]
       /\ channels'[c] = new
       /\ \A d \in ChannelHandles \ {c} : channels'[d] = channels[d]
       /\ Channels' = Channels \cup {c} /\ c \notin Channels
  BY <1>1, <1>2, <1>7, <1>8 DEF SoundsTypeOK, Channels
<1>13. /\ sounds[s] \in SoundRecord
       /\ sounds'[s] = [sounds[s] EXCEPT !.activeInstances = @ + 1]
       /\ \A t \in SoundHandles \ {s} : sounds'[t] = sounds[t]
  BY <1>1, <1>2 DEF SoundsTypeOK, Sounds
<1>14. /\ sounds'[s] \in SoundRecord
       /\ sounds'[s].activeInstances = sounds[s].activeInstances + 1
       /\ sounds[s].activeInstances \in Nat
  BY <1>13 DEF SoundRecord
<1>15. /\ sounds' \in [SoundHandles -> SoundRecord \cup {NoRecord}]
       /\ Sounds' = Sounds
  BY <1>1, <1>2, <1>13, <1>14 DEF SoundsTypeOK, Sounds
<1>16. /\ ChannelsOf(s)' = ChannelsOf(s) \cup {c} /\ c \notin ChannelsOf(s)
       /\ \A t \in SoundHandles \ {s} : ChannelsOf(t)' = ChannelsOf(t)
       /\ ChannelsOn(b)' = ChannelsOn(b) \cup {c} /\ c \notin ChannelsOn(b)
       /\ \A x \in Buses \ {b} : ChannelsOn(x)' = ChannelsOn(x)
  BY <1>7, <1>12 DEF ChannelsOf, ChannelsOn, Channels
<1>17. \A S \in SUBSET Channels : S \in SUBSET ChannelHandles
  BY DEF Channels
<1>18. SoundsTypeOK'
  BY <1>1, <1>2, <1>9, <1>10, <1>12, <1>15 DEF SoundsTypeOK
<1>19. ChannelsCounted'
  <2>1. Cardinality(ChannelsOf(s)') = Cardinality(ChannelsOf(s)) + 1
    BY <1>16, <1>17, ChannelSets, FS_AddElement DEF ChannelsOf
  <2>2. ASSUME NEW t \in Sounds
        PROVE  sounds'[t].activeInstances = Cardinality(ChannelsOf(t)')
    BY <1>1, <1>13, <1>14, <1>16, <2>1 DEF ChannelsCounted, Sounds
  <2>. QED BY <1>15, <2>2 DEF ChannelsCounted
<1>20. RoutesCounted'
  <2>1. Cardinality(ChannelsOn(b)') = Cardinality(ChannelsOn(b)) + 1
    BY <1>16, <1>17, ChannelSets, FS_AddElement DEF ChannelsOn
  <2>2. ASSUME NEW x \in Buses
        PROVE  routes'[x].activeChannels = Cardinality(ChannelsOn(x)')
    BY <1>1, <1>5, <1>10, <1>16, <2>1 DEF RoutesCounted
  <2>. QED BY <2>2 DEF RoutesCounted
<1>21. ChannelsHaveSounds'
  BY <1>1, <1>7, <1>12, <1>15 DEF ChannelsHaveSounds, Channels
<1>22. ChannelsKeepLock'
  <2> SUFFICES ASSUME NEW d \in Channels \cup {c}
               PROVE  /\ routes'[channels'[d].bus].locked
                      /\ routes'[channels'[d].bus].group
    BY <1>12 DEF ChannelsKeepLock
  <2>1. CASE d = c
    BY <1>5, <1>7, <1>10, <1>12, <2>1
  <2>2. CASE d # c
    <3>1. d \in Channels /\ channels'[d] = channels[d] /\ channels[d].bus \in Buses
      BY <1>1, <1>12, <2>2 DEF SoundsTypeOK, ChannelRecord, Channels
    <3>2. routes[channels[d].bus].locked /\ routes[channels[d].bus].group
      BY <3>1 DEF SoundsInvariant, LockedWhileUsed, ChannelsKeepLock
    <3>. QED BY <1>5, <1>10, <3>1, <3>2
  <2>. QED BY <2>1, <2>2
<1>23. IdleRoutesUnlocked'
  <2> SUFFICES ASSUME faults' = MaxFaults, NEW x \in Buses,
                      (routes[x].locked /\ PointerValid(routes[x], x))'
               PROVE  ChannelsOn(x)' # {}
    BY DEF IdleRoutesUnlocked
  <2>1. routes'[x].locked /\ PointerValid(routes'[x], x)
    BY DEF PointerValid
  <2>. QED BY <1>9, <1>10, <1>16, <2>1
           DEF SoundsInvariant, LockedWhileUsed, IdleRoutesUnlocked
<1>24. NoStrayChannel'
  BY <1>2, <1>9, <1>12 DEF SoundsInvariant, NoStrayChannel
<1>. QED BY <1>11, <1>18, <1>19, <1>20, <1>21, <1>22, <1>23, <1>24
         DEF SoundsInvariant, ActiveCountsExact, LockedWhileUsed

(* PlaySound, wherever it fails. *)
LEMMA PlayPreserves ==
  ASSUME SoundsInvariant, NEW s \in SoundHandles, NEW b \in Buses,
         NEW is3D \in BOOLEAN, NEW entity \in Entities \cup {NoEntity},
         PlaySound(s, b, is3D, entity)
  PROVE  SoundsInvariant'
<1>1. /\ SoundsTypeOK /\ RoutesWellFormed /\ Ready /\ s \in Sounds
      /\ UNCHANGED <<soundPaths, buses, entities, held>>
      /\ routes[b] \in Route
  BY DEF SoundsInvariant, ActiveCountsExact, PlaySound, SoundsTypeOK
<1>2. PICK a \in AcquireOutcomes(b) :
        \/ ~a.ok /\ RouteTo(b, a, 0) /\ UNCHANGED <<sounds, channels, playing>>
        \/ a.ok /\ NotPlayed(b, a)
        \/ a.ok /\ Played(s, b, a, is3D, entity)
        \/ a.ok /\ Undone(b, a)
  BY DEF PlaySound
<1>3. /\ a \in Outcomes /\ WellFormed(a.route, b)
      /\ a.count = locks[b] + LockOf(a.route, b) - LockOf(routes[b], b)
      /\ a.route.activeChannels = routes[b].activeChannels
      /\ routes[b].activeChannels # 0 => a.route = routes[b]
      /\ ~a.ok /\ a.failed = 0 /\ a.route.locked /\ PointerValid(a.route, b)
           => routes[b].activeChannels # 0
  BY <1>1, AcquireOutcomesGood
<1>4. a.count \in Int /\ a.failed \in Nat /\ a.route \in Route
  BY <1>3 DEF Outcomes
<1>5. CASE ~a.ok /\ RouteTo(b, a, 0) /\ UNCHANGED <<sounds, channels, playing>>
  <2>1. /\ routes' = [routes EXCEPT ![b] = a.route]
        /\ locks' = [locks EXCEPT ![b] = a.count]
        /\ Fails(a.failed)
    BY <1>4, <1>5 DEF RouteTo, Fails
  <2>2. a.failed = 0 /\ a.route.locked /\ PointerValid(a.route, b)
          => routes[b].activeChannels # 0
    BY <1>3, <1>5
  <2>. QED BY <1>1, <1>3, <1>4, <1>5, <2>1, <2>2, RouteOnly
<1>6. CASE a.ok /\ NotPlayed(b, a)
  <2>1. CASE /\ a.route.activeChannels = 0
             /\ \E o \in ReleaseOutcomes([a.route EXCEPT !.activeChannels = 1],
                                         b, a.count, 1) :
                  RouteTo(b, o, a.failed + 1)
    <3>1. [a.route EXCEPT !.activeChannels = @ + 1]
            = [a.route EXCEPT !.activeChannels = 1]
      BY <2>1
    <3>. QED BY <1>1, <1>6, <2>1, <3>1, GivenBack DEF NotPlayed
  <2>2. CASE a.route.activeChannels # 0 /\ RouteTo(b, a, 1)
    <3>1. /\ routes' = [routes EXCEPT ![b] = a.route]
          /\ locks' = [locks EXCEPT ![b] = a.count]
          /\ Fails(a.failed + 1) /\ a.failed + 1 \in Nat /\ a.failed + 1 # 0
      BY <1>4, <2>2 DEF RouteTo
    <3>. QED BY <1>1, <1>3, <1>4, <1>6, <2>2, <3>1, RouteOnly DEF NotPlayed
  <2>. QED BY <1>6, <2>1, <2>2 DEF NotPlayed
<1>7. CASE a.ok /\ Played(s, b, a, is3D, entity)
  BY <1>1, <1>7, PlayedPreserves
<1>8. CASE a.ok /\ Undone(b, a)
  BY <1>1, <1>8, GivenBack DEF Undone
<1>. QED BY <1>2, <1>5, <1>6, <1>7, <1>8

-----------------------------------------------------------------------------
(* Retiring a set R of channels: what StopSound, ForceUnloadSound and Tick   *)
(* share.                                                                    *)

(* The counts stay exact: a sound loses one for each of its retired channels.*)
LEMMA RetireCounts ==
  ASSUME SoundsTypeOK, ChannelsCounted, NEW R \in SUBSET Channels,
         channels' = [c \in ChannelHandles |-> IF c \in R THEN NoRecord ELSE channels[c]]
  PROVE  /\ Channels' = Channels \ R
         /\ \A c \in Channels' : channels'[c] = channels[c]
         /\ channels' \in [ChannelHandles -> ChannelRecord \cup {NoRecord}]
         /\ \A s \in SoundHandles : ChannelsOf(s)' = ChannelsOf(s) \ R
         /\ \A b \in Buses :
              /\ ChannelsOn(b)' = ChannelsOn(b) \ R
              /\ Cardinality(ChannelsOn(b)') =
                   Cardinality(ChannelsOn(b)) - Cardinality(ChannelsOn(b) \cap R)
         /\ SoundsAfter(R) \in [SoundHandles -> SoundRecord \cup {NoRecord}]
         /\ \A s \in Sounds :
              /\ SoundsAfter(R)[s] # NoRecord
              /\ SoundsAfter(R)[s].activeInstances = Cardinality(ChannelsOf(s)')
         /\ \A s \in SoundHandles \ Sounds : SoundsAfter(R)[s] = NoRecord
<1>1. /\ Channels' = Channels \ R
      /\ \A c \in Channels' : channels'[c] = channels[c]
      /\ channels' \in [ChannelHandles -> ChannelRecord \cup {NoRecord}]
  BY DEF Channels, SoundsTypeOK
<1>2. /\ \A s \in SoundHandles : ChannelsOf(s)' = ChannelsOf(s) \ R
      /\ \A b \in Buses : ChannelsOn(b)' = ChannelsOn(b) \ R
  BY <1>1 DEF ChannelsOf, ChannelsOn
<1>3. ASSUME NEW S \in SUBSET Channels
      PROVE  /\ Cardinality(S) \in Nat /\ Cardinality(S \cap R) \in Nat
             /\ Cardinality(S \cap R) <= Cardinality(S)
             /\ Cardinality(S \ R) = Cardinality(S) - Cardinality(S \cap R)
  <2>1. S \in SUBSET ChannelHandles /\ S \cap R \in SUBSET ChannelHandles
    BY DEF Channels
  <2>. QED BY <2>1, ChannelSets, FS_Intersection, FS_Difference
<1>4. ASSUME NEW b \in Buses
      PROVE  Cardinality(ChannelsOn(b)') =
               Cardinality(ChannelsOn(b)) - Cardinality(ChannelsOn(b) \cap R)
  <2>1. ChannelsOn(b) \in SUBSET Channels
    BY DEF ChannelsOn
  <2>. QED BY <1>2, <1>3, <2>1
<1>5. ASSUME NEW s \in Sounds
      PROVE  /\ SoundsAfter(R)[s] \in SoundRecord
             /\ SoundsAfter(R)[s].activeInstances = Cardinality(ChannelsOf(s)')
  <2> DEFINE n == Cardinality(ChannelsOf(s) \cap R)
  <2>1. sounds[s] \in SoundRecord /\ s \in SoundHandles
    BY DEF SoundsTypeOK, Sounds
  <2>2. SoundsAfter(R)[s] = [sounds[s] EXCEPT !.activeInstances = Monus(@, n)]
    BY <2>1 DEF SoundsAfter
  <2>3. /\ sounds[s].activeInstances = Cardinality(ChannelsOf(s))
        /\ ChannelsOf(s) \in SUBSET Channels
    BY DEF ChannelsCounted, ChannelsOf
  <2>4. /\ Cardinality(ChannelsOf(s)) \in Nat /\ n \in Nat
        /\ n <= Cardinality(ChannelsOf(s))
        /\ Cardinality(ChannelsOf(s)') = Cardinality(ChannelsOf(s)) - n
    BY <1>2, <1>3, <2>1, <2>3
  <2>5. /\ Monus(sounds[s].activeInstances, n) = Cardinality(ChannelsOf(s)')
        /\ Monus(sounds[s].activeInstances, n) \in Nat
    BY <2>3, <2>4 DEF Monus
  <2> HIDE DEF n
  <2>. QED BY <2>1, <2>2, <2>5 DEF SoundRecord
<1>6. /\ SoundsAfter(R) \in [SoundHandles -> SoundRecord \cup {NoRecord}]
      /\ \A s \in SoundHandles \ Sounds : SoundsAfter(R)[s] = NoRecord
  <2>1. \A s \in SoundHandles :
          SoundsAfter(R)[s] = IF s \in Sounds THEN SoundsAfter(R)[s] ELSE NoRecord
    BY DEF SoundsAfter
  <2>2. SoundsAfter(R) = [s \in SoundHandles |-> SoundsAfter(R)[s]]
    BY DEF SoundsAfter
  <2>. QED BY <1>5, <2>1, <2>2
<1>. QED BY <1>1, <1>2, <1>4, <1>5, <1>6

(* The last channel of a route unlocks its bus, and no other does. *)
LEMMA RetirePreserves ==
  ASSUME SoundsInvariant, Ready, NEW R \in SUBSET Channels, NEW failed \in Nat,
         Retire(R, failed),
         NEW gone \in SUBSET SoundHandles,
         \A s \in gone : ChannelsOf(s) \subseteq R,
         sounds' = [s \in SoundHandles |->
                      IF s \in gone THEN NoRecord ELSE SoundsAfter(R)[s]],
         soundPaths' \in [SoundPaths -> SoundHandles \cup {NoHandle}],
         held' \in [Mods -> SUBSET SoundHandles],
         UNCHANGED <<buses, entities>>
  PROVE  SoundsInvariant'
<1> DEFINE n(b) == Cardinality(ChannelsOn(b) \cap R)
<1>1. /\ SoundsTypeOK /\ BackendTypeOK /\ RoutesWellFormed
      /\ ChannelsCounted /\ RoutesCounted /\ ChannelsHaveSounds
  BY DEF SoundsInvariant, ActiveCountsExact, SoundsTypeOK
<1>2. PICK o : /\ \A b \in Buses : o[b] \in ReleaseOutcomes(routes[b], b, locks[b], n(b))
               /\ routes' = [b \in Buses |-> o[b].route]
               /\ locks' = [b \in Buses |-> o[b].count]
               /\ Fails(failed + Cardinality({b \in Buses : o[b].failed = 1}))
               /\ channels' = [c \in ChannelHandles |->
                                 IF c \in R THEN NoRecord ELSE channels[c]]
               /\ playing' = playing \ R
  BY DEF Retire
<1>3. /\ Channels' = Channels \ R
      /\ \A c \in Channels' : channels'[c] = channels[c]
      /\ channels' \in [ChannelHandles -> ChannelRecord \cup {NoRecord}]
      /\ \A s \in SoundHandles : ChannelsOf(s)' = ChannelsOf(s) \ R
      /\ \A b \in Buses :
           /\ ChannelsOn(b)' = ChannelsOn(b) \ R
           /\ Cardinality(ChannelsOn(b)') = Cardinality(ChannelsOn(b)) - n(b)
      /\ SoundsAfter(R) \in [SoundHandles -> SoundRecord \cup {NoRecord}]
      /\ \A s \in Sounds :
           /\ SoundsAfter(R)[s] # NoRecord
           /\ SoundsAfter(R)[s].activeInstances = Cardinality(ChannelsOf(s)')
      /\ \A s \in SoundHandles \ Sounds : SoundsAfter(R)[s] = NoRecord
  BY <1>1, <1>2, RetireCounts
<1> DEFINE refused == {b \in Buses : o[b].failed = 1}
<1>4. /\ BackendTypeOK'
      /\ UNCHANGED <<system, visible, active, hiccups>>
      /\ faults' = MaxFaults => faults = MaxFaults /\ refused = {}
  <2>1. refused \in SUBSET Buses
    OBVIOUS
  <2>2. Cardinality(refused) \in Nat /\ (Cardinality(refused) = 0 => refused = {})
    BY <2>1, BusSets, FS_EmptySet
  <2>3. Fails(failed + Cardinality(refused))
    BY <1>2
  <2> HIDE DEF refused
  <2>4. failed + Cardinality(refused) \in Nat
    BY <2>2
  <2>5. failed + Cardinality(refused) = 0 => refused = {}
    BY <2>2
  <2>. QED BY <1>1, <2>3, <2>4, <2>5, FailsKeepsBackend
<1>5. ASSUME NEW b \in Buses
      PROVE  /\ n(b) \in Nat /\ n(b) <= routes[b].activeChannels
             /\ n(b) # 0 => routes[b].locked
             /\ routes[b].activeChannels = Cardinality(ChannelsOn(b))
             /\ Cardinality(ChannelsOn(b)) \in Nat
             /\ n(b) = 0 => ChannelsOn(b) \cap R = {}
             /\ n(b) = routes[b].activeChannels => ChannelsOn(b) \subseteq R
  <2>1. /\ ChannelsOn(b) \in SUBSET ChannelHandles
        /\ ChannelsOn(b) \cap R \in SUBSET ChannelHandles
    BY DEF ChannelsOn, Channels
  <2>2. /\ Cardinality(ChannelsOn(b)) \in Nat /\ n(b) \in Nat
        /\ n(b) <= Cardinality(ChannelsOn(b))
        /\ n(b) = 0 <=> ChannelsOn(b) \cap R = {}
    BY <2>1, ChannelSets, FS_Intersection, FS_EmptySet
  <2>3. n(b) = Cardinality(ChannelsOn(b)) => ChannelsOn(b) \cap R = ChannelsOn(b)
    BY <2>1, ChannelSets, FS_Subset
  <2>4. routes[b].activeChannels = Cardinality(ChannelsOn(b))
    BY <1>1 DEF RoutesCounted
  <2>5. n(b) # 0 => routes[b].locked
    BY <2>2 DEF SoundsInvariant, LockedWhileUsed, ChannelsKeepLock, ChannelsOn
  <2>. QED BY <2>2, <2>3, <2>4, <2>5
<1>6. ASSUME NEW b \in Buses
      PROVE  /\ WellFormed(routes'[b], b) /\ locks'[b] \in Int
             /\ locks'[b] = locks[b] + LockOf(routes'[b], b) - LockOf(routes[b], b)
             /\ routes'[b].activeChannels = routes[b].activeChannels - n(b)
             /\ n(b) = 0 \/ n(b) # routes[b].activeChannels
                  => /\ (routes'[b].locked <=> routes[b].locked)
                     /\ (routes'[b].group <=> routes[b].group)
                     /\ routes'[b].bus = routes[b].bus
             /\ b \notin refused /\ n(b) # 0 /\ routes'[b].locked
                  /\ PointerValid(routes'[b], b) => n(b) # routes[b].activeChannels
  <2>1. routes'[b] = o[b].route /\ locks'[b] = o[b].count
    BY <1>2
  <2>2. o[b] \in ReleaseOutcomes(routes[b], b, locks[b], n(b))
    BY <1>2
  <2>3. locks[b] \in Int /\ WellFormed(routes[b], b)
    BY <1>1 DEF SoundsTypeOK, RoutesWellFormed
  <2> DEFINE k == n(b)
             r == routes[b]
             x == o[b]
  <2>4. /\ k \in Nat /\ k <= r.activeChannels /\ (k # 0 => r.locked)
    BY <1>5
  <2>5. b \notin refused => x.failed # 1
    OBVIOUS
  <2> HIDE DEF k, r, x, n, refused
  <2>6. /\ x \in Outcomes
        /\ WellFormed(x.route, b)
        /\ x.count = locks[b] + LockOf(x.route, b) - LockOf(r, b)
        /\ x.route.activeChannels = r.activeChannels - k
        /\ x.failed \in {0, 1}
        /\ k = 0 \/ k # r.activeChannels
             => /\ (x.route.locked <=> r.locked) /\ (x.route.group <=> r.group)
                /\ x.route.bus = r.bus
        /\ x.failed = 0 /\ k # 0 /\ x.route.locked /\ PointerValid(x.route, b)
             => k # r.activeChannels
    <3>1. x \in ReleaseOutcomes(r, b, locks[b], k) /\ WellFormed(r, b)
      BY <2>2, <2>3 DEF k, r, x
    <3>. QED BY <1>1, <2>3, <2>4, <3>1, ReleaseOutcomesGood
  <2>7. routes'[b] = x.route /\ locks'[b] = x.count /\ x.count \in Int
    BY <2>1, <2>6 DEF Outcomes, x
  <2>8. b \notin refused => x.failed = 0
    BY <2>5, <2>6
  <2>9. /\ WellFormed(routes'[b], b) /\ locks'[b] \in Int
        /\ locks'[b] = locks[b] + LockOf(routes'[b], b) - LockOf(r, b)
        /\ routes'[b].activeChannels = r.activeChannels - k
        /\ k = 0 \/ k # r.activeChannels
             => /\ (routes'[b].locked <=> r.locked) /\ (routes'[b].group <=> r.group)
                /\ routes'[b].bus = r.bus
        /\ b \notin refused /\ k # 0 /\ routes'[b].locked /\ PointerValid(routes'[b], b)
             => k # r.activeChannels
    BY <2>6, <2>7, <2>8
  <2>. QED BY <2>9 DEF k, r, n
<1>7. routes' \in [Buses -> Route] /\ locks' \in [Buses -> Int]
  <2>1. \A b \in Buses : routes'[b] \in Route /\ locks'[b] \in Int
    BY <1>6 DEF WellFormed
  <2>2. routes' = [b \in Buses |-> routes'[b]] /\ locks' = [b \in Buses |-> locks'[b]]
    BY <1>2
  <2>. QED BY <2>1, <2>2
<1> HIDE DEF n, refused
<1>8. RoutesWellFormed' /\ NoRoutesUnready' /\ UnnoticedIsIdle' /\ LocksExact'
  BY <1>4, <1>6, <1>7, RoutesStep
<1>9. /\ sounds' \in [SoundHandles -> SoundRecord \cup {NoRecord}]
      /\ Sounds' = Sounds \ gone
      /\ \A s \in Sounds' : sounds'[s].activeInstances = Cardinality(ChannelsOf(s)')
  BY <1>3 DEF Sounds
<1>10. SoundsTypeOK'
  BY <1>1, <1>2, <1>3, <1>4, <1>7, <1>9 DEF SoundsTypeOK
<1>11. ChannelsCounted'
  BY <1>9 DEF ChannelsCounted
<1>12. RoutesCounted'
  BY <1>3, <1>5, <1>6 DEF RoutesCounted
<1>13. ChannelsHaveSounds'
  <2> SUFFICES ASSUME NEW c \in Channels'
               PROVE  channels[c].ownerSound \in Sounds \ gone
    BY <1>3, <1>9 DEF ChannelsHaveSounds
  <2>1. c \in Channels \ R
    BY <1>3
  <2>2. channels[c].ownerSound \in Sounds /\ c \in ChannelsOf(channels[c].ownerSound)
    BY <1>1, <2>1 DEF ChannelsHaveSounds, ChannelsOf
  <2>. QED BY <2>1, <2>2
<1>14. ChannelsKeepLock'
  <2> SUFFICES ASSUME NEW c \in Channels'
               PROVE  /\ routes'[channels[c].bus].locked
                      /\ routes'[channels[c].bus].group
    BY <1>3 DEF ChannelsKeepLock
  <2> DEFINE b == channels[c].bus
  <2>1. /\ c \in Channels \ R /\ b \in Buses /\ c \in ChannelsOn(b)
    BY <1>1, <1>3 DEF SoundsTypeOK, ChannelRecord, Channels, ChannelsOn
  <2>2. routes[b].locked /\ routes[b].group
    BY <2>1 DEF SoundsInvariant, LockedWhileUsed, ChannelsKeepLock
  <2>3. n(b) # routes[b].activeChannels
    BY <1>5, <2>1
  <2>. QED BY <1>6, <2>1, <2>2, <2>3
<1>15. IdleRoutesUnlocked'
  <2> SUFFICES ASSUME faults' = MaxFaults, NEW b \in Buses,
                      (routes[b].locked /\ PointerValid(routes[b], b))'
               PROVE  ChannelsOn(b) \ R # {}
    BY <1>3 DEF IdleRoutesUnlocked
  <2>1. routes'[b].locked /\ PointerValid(routes'[b], b)
    BY DEF PointerValid
  <2>2. faults = MaxFaults /\ b \notin refused
    BY <1>4
  <2>3. CASE n(b) = 0
    <3>1. routes[b].locked /\ PointerValid(routes[b], b)
      BY <1>6, <2>1, <2>3 DEF PointerValid
    <3>2. ChannelsOn(b) # {}
      BY <2>2, <3>1 DEF SoundsInvariant, LockedWhileUsed, IdleRoutesUnlocked
    <3>. QED BY <1>5, <2>3, <3>2
  <2>4. CASE n(b) # 0
    <3>1. n(b) # Cardinality(ChannelsOn(b))
      BY <1>5, <1>6, <2>1, <2>2, <2>4
    <3>2. ChannelsOn(b) \subseteq R => ChannelsOn(b) \cap R = ChannelsOn(b)
      OBVIOUS
    <3>. QED BY <3>1, <3>2 DEF n
  <2>. QED BY <2>3, <2>4
<1>16. NoStrayChannel'
  BY <1>2, <1>3, <1>4 DEF SoundsInvariant, NoStrayChannel
<1>. QED BY <1>8, <1>10, <1>11, <1>12, <1>13, <1>14, <1>15, <1>16
         DEF SoundsInvariant, ActiveCountsExact, LockedWhileUsed

-----------------------------------------------------------------------------
(* Steps that touch no channel and no route. *)

(* Sounds come and go, and references are counted: only a sound without     *)
(* channels comes or goes.                                                  *)
LEMMA SoundsOnly ==
  ASSUME SoundsInvariant,
         UNCHANGED <<channels, routes, fmodVars, entities, system, visible, active, hiccups>>,
         BackendTypeOK', faults' = MaxFaults => faults = MaxFaults,
         sounds' \in [SoundHandles -> SoundRecord \cup {NoRecord}],
         \A s \in SoundHandles :
           IF sounds'[s] = NoRecord THEN ChannelsOf(s) = {}
           ELSE sounds'[s].activeInstances = Cardinality(ChannelsOf(s)),
         soundPaths' \in [SoundPaths -> SoundHandles \cup {NoHandle}],
         held' \in [Mods -> SUBSET SoundHandles]
  PROVE  SoundsInvariant'
<1>1. /\ SoundsTypeOK /\ ChannelsCounted /\ RoutesCounted /\ ChannelsHaveSounds
  BY DEF SoundsInvariant, ActiveCountsExact
<1>2. /\ Channels' = Channels
      /\ \A s \in SoundHandles : ChannelsOf(s)' = ChannelsOf(s)
      /\ \A b \in Buses : ChannelsOn(b)' = ChannelsOn(b)
  BY DEF Channels, ChannelsOf, ChannelsOn
<1>3. SoundsTypeOK'
  BY <1>1 DEF SoundsTypeOK, fmodVars
<1>4. ChannelsCounted' /\ RoutesCounted'
  BY <1>1, <1>2 DEF ChannelsCounted, RoutesCounted, Sounds
<1>5. ChannelsHaveSounds'
  <2>1. \A c \in Channels : /\ channels[c].ownerSound \in SoundHandles
                            /\ c \in ChannelsOf(channels[c].ownerSound)
    BY <1>1 DEF SoundsTypeOK, ChannelRecord, Channels, ChannelsOf
  <2>2. \A c \in Channels : sounds'[channels[c].ownerSound] # NoRecord
    BY <2>1
  <2>. QED BY <1>2, <2>1, <2>2 DEF ChannelsHaveSounds, Sounds
<1>6. RoutesWellFormed' /\ NoRoutesUnready' /\ UnnoticedIsIdle' /\ LocksExact'
  BY DEF SoundsInvariant, RoutesWellFormed, WellFormed, NoRoutesUnready,
         UnnoticedIsIdle, LocksExact, LockOf, PointerValid, fmodVars
<1>7. LockedWhileUsed' /\ NoStrayChannel'
  BY <1>2 DEF SoundsInvariant, LockedWhileUsed, ChannelsKeepLock, IdleRoutesUnlocked,
              PointerValid, NoStrayChannel, fmodVars
<1>. QED BY <1>3, <1>4, <1>5, <1>6, <1>7 DEF SoundsInvariant, ActiveCountsExact

(* What the sounds' records say is what SoundsOnly asks of them. *)
LEMMA RecordsCounted ==
  ASSUME SoundsInvariant, NEW s \in SoundHandles
  PROVE  IF sounds[s] = NoRecord THEN ChannelsOf(s) = {}
         ELSE sounds[s].activeInstances = Cardinality(ChannelsOf(s))
BY DEF SoundsInvariant, ActiveCountsExact, ChannelsCounted, ChannelsHaveSounds,
       ChannelsOf, Sounds

(* The manager's calls fail and nothing else happens. *)
LEMMA FailedCall ==
  ASSUME SoundsInvariant, UNCHANGED soundsVars, NEW n \in Nat, NoFailure \/ Fails(n)
  PROVE  SoundsInvariant'
<1>1. /\ SoundsTypeOK /\ BackendTypeOK
  BY DEF SoundsInvariant, ActiveCountsExact, SoundsTypeOK
<1>2. /\ BackendTypeOK' /\ UNCHANGED <<system, visible, active, hiccups>>
      /\ faults' = MaxFaults => faults = MaxFaults
  BY <1>1, FailsKeepsBackend DEF NoFailure, BackendTypeOK, backendVars
<1>. QED BY <1>1, <1>2, RecordsCounted, SoundsOnly
         DEF SoundsTypeOK, soundsVars, soundPoolVars

(* A sound is shared, or loaded into a free handle. *)
LEMMA LoadPreserves ==
  ASSUME SoundsInvariant, NEW m \in Mods, NEW p \in SoundPaths, LoadSound(m, p)
  PROVE  SoundsInvariant'
<1>1. /\ SoundsTypeOK /\ BackendTypeOK /\ Ready
      /\ UNCHANGED <<channels, routes, fmodVars, entities>>
  BY DEF SoundsInvariant, ActiveCountsExact, SoundsTypeOK, LoadSound
<1>2. active \in Systems
  BY <1>1 DEF Ready, BackendTypeOK
<1> DEFINE known == soundPaths[p]
<1>3. CASE /\ known \in Sounds /\ known \notin held[m]
           /\ sounds' = [sounds EXCEPT ![known].references = @ + 1]
           /\ held' = [held EXCEPT ![m] = @ \cup {known}]
           /\ NoFailure /\ UNCHANGED soundPaths
  <2>1. known \in SoundHandles /\ sounds[known] \in SoundRecord
    BY <1>1, <1>3 DEF SoundsTypeOK, Sounds
  <2>2. sounds'[known] = [sounds[known] EXCEPT !.references = @ + 1]
    BY <1>1, <1>3, <2>1 DEF SoundsTypeOK
  <2>3. /\ sounds'[known] \in SoundRecord
        /\ sounds'[known].activeInstances = sounds[known].activeInstances
        /\ \A s \in SoundHandles \ {known} : sounds'[s] = sounds[s]
        /\ sounds' \in [SoundHandles -> SoundRecord \cup {NoRecord}]
    BY <1>1, <1>3, <2>1, <2>2 DEF SoundRecord, SoundsTypeOK
  <2>4. held' \in [Mods -> SUBSET SoundHandles]
    BY <1>1, <1>3, <2>1 DEF SoundsTypeOK
  <2>5. /\ BackendTypeOK' /\ UNCHANGED <<system, visible, active, hiccups, faults>>
    BY <1>1, <1>3 DEF NoFailure, backendVars, BackendTypeOK
  <2>6. \A s \in SoundHandles :
          IF sounds'[s] = NoRecord THEN ChannelsOf(s) = {}
          ELSE sounds'[s].activeInstances = Cardinality(ChannelsOf(s))
    <3> SUFFICES ASSUME NEW s \in SoundHandles
                 PROVE  IF sounds'[s] = NoRecord THEN ChannelsOf(s) = {}
                        ELSE sounds'[s].activeInstances = Cardinality(ChannelsOf(s))
      OBVIOUS
    <3>1. sounds[known] # NoRecord /\ sounds'[known] # NoRecord
      BY <2>1, <2>3
    <3>2. CASE s = known
      BY <2>3, <3>1, <3>2, RecordsCounted
    <3>3. CASE s # known
      BY <2>3, <3>3, RecordsCounted
    <3>. QED BY <3>2, <3>3
  <2> HIDE DEF known
  <2>. QED BY <1>1, <1>3, <2>3, <2>4, <2>5, <2>6, SoundsOnly DEF SoundsTypeOK
<1>4. ASSUME NEW s \in SoundHandles \ Sounds,
             sounds' = [sounds EXCEPT ![s] =
               [path |-> p, references |-> 1, activeInstances |-> 0, home |-> active]],
             soundPaths' = [soundPaths EXCEPT ![p] = s],
             held' = [held EXCEPT ![m] = @ \cup {s}],
             NoFailure
      PROVE  SoundsInvariant'
  <2> DEFINE new == [path |-> p, references |-> 1, activeInstances |-> 0, home |-> active]
  <2>1. new \in SoundRecord /\ new # NoRecord /\ new.activeInstances = 0
    BY <1>2 DEF SoundRecord
  <2>2. sounds' = [sounds EXCEPT ![s] = new]
    BY <1>4
  <2> HIDE DEF new
  <2>3. /\ sounds'[s] = new
        /\ \A t \in SoundHandles \ {s} : sounds'[t] = sounds[t]
        /\ sounds' \in [SoundHandles -> SoundRecord \cup {NoRecord}]
    BY <1>1, <2>1, <2>2 DEF SoundsTypeOK
  <2>4. /\ held' \in [Mods -> SUBSET SoundHandles]
        /\ soundPaths' \in [SoundPaths -> SoundHandles \cup {NoHandle}]
    BY <1>1, <1>4 DEF SoundsTypeOK
  <2>5. /\ BackendTypeOK' /\ UNCHANGED <<system, visible, active, hiccups, faults>>
    BY <1>1, <1>4 DEF NoFailure, backendVars, BackendTypeOK
  <2>6. ChannelsOf(s) = {} /\ Cardinality(ChannelsOf(s)) = 0
    BY RecordsCounted, FS_EmptySet DEF Sounds
  <2>7. \A t \in SoundHandles :
          IF sounds'[t] = NoRecord THEN ChannelsOf(t) = {}
          ELSE sounds'[t].activeInstances = Cardinality(ChannelsOf(t))
    BY <2>1, <2>3, <2>6, RecordsCounted
  <2>. QED BY <1>1, <2>3, <2>4, <2>5, <2>7, SoundsOnly
<1>5. CASE /\ Fails(1)
           /\ soundPaths' = [soundPaths EXCEPT ![p] = NoHandle]
           /\ UNCHANGED <<sounds, held>>
  <2>1. /\ BackendTypeOK' /\ UNCHANGED <<system, visible, active, hiccups>>
        /\ faults' = MaxFaults => faults = MaxFaults
    BY <1>1, <1>5, FailsKeepsBackend
  <2>2. soundPaths' \in [SoundPaths -> SoundHandles \cup {NoHandle}]
    BY <1>1, <1>5 DEF SoundsTypeOK
  <2>. QED BY <1>1, <1>5, <2>1, <2>2, RecordsCounted, SoundsOnly DEF SoundsTypeOK
<1>. QED BY <1>3, <1>4, <1>5 DEF LoadSound

(* A normal unload takes a reference back, or removes a sound without       *)
(* channels.                                                                *)
LEMMA UnloadPreserves ==
  ASSUME SoundsInvariant, NEW m \in Mods, NEW s \in SoundHandles, UnloadSound(m, s)
  PROVE  SoundsInvariant'
<1>1. /\ SoundsTypeOK /\ BackendTypeOK /\ sounds[s] \in SoundRecord
      /\ s \in Sounds /\ sounds[s] # NoRecord
      /\ UNCHANGED <<channels, routes, fmodVars, entities>>
  BY DEF SoundsInvariant, ActiveCountsExact, SoundsTypeOK, UnloadSound, Sounds
<1>2. CASE /\ sounds[s].references > 1
           /\ sounds' = [sounds EXCEPT ![s].references = @ - 1]
           /\ held' = [held EXCEPT ![m] = @ \ {s}]
           /\ NoFailure /\ UNCHANGED soundPaths
  <2>1. sounds'[s] = [sounds[s] EXCEPT !.references = @ - 1]
    BY <1>1, <1>2 DEF SoundsTypeOK
  <2>2. /\ sounds'[s] \in SoundRecord
        /\ sounds'[s].activeInstances = sounds[s].activeInstances
        /\ \A t \in SoundHandles \ {s} : sounds'[t] = sounds[t]
        /\ sounds' \in [SoundHandles -> SoundRecord \cup {NoRecord}]
    BY <1>1, <1>2, <2>1 DEF SoundRecord, SoundsTypeOK
  <2>3. /\ held' \in [Mods -> SUBSET SoundHandles]
        /\ BackendTypeOK' /\ UNCHANGED <<system, visible, active, hiccups, faults>>
    BY <1>1, <1>2 DEF SoundsTypeOK, NoFailure, backendVars, BackendTypeOK
  <2>4. \A t \in SoundHandles :
          IF sounds'[t] = NoRecord THEN ChannelsOf(t) = {}
          ELSE sounds'[t].activeInstances = Cardinality(ChannelsOf(t))
    <3>1. sounds'[s] # NoRecord
      BY <2>2
    <3>2. sounds'[s].activeInstances = Cardinality(ChannelsOf(s))
      BY <1>1, <2>2, RecordsCounted
    <3>. QED BY <2>2, <3>1, <3>2, RecordsCounted
  <2>. QED BY <1>1, <1>2, <2>2, <2>3, <2>4, SoundsOnly DEF SoundsTypeOK
<1>3. CASE ~UnloadRefused(s) /\ sounds' = [sounds EXCEPT ![s] = NoRecord]
             /\ Forget(s) /\ NoFailure
  <2>1. ChannelsOf(s) = {}
    <3>1. Cardinality(ChannelsOf(s)) = 0 /\ ChannelsOf(s) \in SUBSET ChannelHandles
      BY <1>1, <1>3, RecordsCounted DEF UnloadRefused, ChannelsOf, Channels
    <3>. QED BY <3>1, ChannelSets, FS_EmptySet
  <2>2. /\ sounds'[s] = NoRecord
        /\ \A t \in SoundHandles \ {s} : sounds'[t] = sounds[t]
        /\ sounds' \in [SoundHandles -> SoundRecord \cup {NoRecord}]
    BY <1>1, <1>3 DEF SoundsTypeOK
  <2>3. /\ held' \in [Mods -> SUBSET SoundHandles]
        /\ soundPaths' \in [SoundPaths -> SoundHandles \cup {NoHandle}]
    BY <1>1, <1>3 DEF SoundsTypeOK, Forget, SoundRecord
  <2>4. BackendTypeOK' /\ UNCHANGED <<system, visible, active, hiccups, faults>>
    BY <1>1, <1>3 DEF NoFailure, backendVars, BackendTypeOK
  <2>5. \A t \in SoundHandles :
          IF sounds'[t] = NoRecord THEN ChannelsOf(t) = {}
          ELSE sounds'[t].activeInstances = Cardinality(ChannelsOf(t))
    BY <2>1, <2>2, RecordsCounted
  <2>. QED BY <1>1, <2>2, <2>3, <2>4, <2>5, SoundsOnly
<1>4. CASE Fails(1) /\ UNCHANGED <<sounds, soundPaths, held>>
  BY <1>1, <1>4, FailedCall DEF soundsVars, soundPoolVars
<1>. QED BY <1>2, <1>3, <1>4 DEF UnloadSound

(* A forced unload retires the channels FMOD stopped and removes the sound   *)
(* only if it stopped them all.                                              *)
LEMMA ForceUnloadPreserves ==
  ASSUME SoundsInvariant, NEW m \in Mods, NEW s \in SoundHandles, ForceUnloadSound(m, s)
  PROVE  SoundsInvariant'
<1>1. /\ SoundsTypeOK /\ Ready /\ s \in Sounds /\ sounds[s] \in SoundRecord
      /\ UNCHANGED <<buses, entities>>
  BY DEF SoundsInvariant, ActiveCountsExact, SoundsTypeOK, ForceUnloadSound, Sounds
<1>2. PICK kept \in SUBSET (ChannelsOf(s) \cap playing), released \in BOOLEAN :
        /\ released => kept = {}
        /\ Retire(ChannelsOf(s) \ kept,
                  IF kept = {} /\ ~released THEN 1 ELSE Cardinality(kept))
        /\ IF released
           THEN /\ sounds' = [SoundsAfter(ChannelsOf(s) \ kept) EXCEPT ![s] = NoRecord]
                /\ Forget(s)
           ELSE /\ sounds' = SoundsAfter(ChannelsOf(s) \ kept)
                /\ UNCHANGED <<soundPaths, held>>
  BY DEF ForceUnloadSound
<1> DEFINE R == ChannelsOf(s) \ kept
           failed == IF kept = {} /\ ~released THEN 1 ELSE Cardinality(kept)
           gone == IF released THEN {s} ELSE {}
<1>3. R \in SUBSET Channels /\ failed \in Nat /\ gone \in SUBSET SoundHandles
  <2>1. kept \in SUBSET ChannelHandles
    BY DEF ChannelsOf, Channels
  <2>. QED BY <2>1, ChannelSets DEF ChannelsOf
<1>4. \A t \in gone : ChannelsOf(t) \subseteq R
  BY <1>2
<1>5. /\ soundPaths' \in [SoundPaths -> SoundHandles \cup {NoHandle}]
      /\ held' \in [Mods -> SUBSET SoundHandles]
  BY <1>1, <1>2 DEF SoundsTypeOK, Forget, SoundRecord
<1>6. sounds' = [t \in SoundHandles |->
                   IF t \in gone THEN NoRecord ELSE SoundsAfter(R)[t]]
  BY <1>2 DEF SoundsAfter
<1>7. Retire(R, failed)
  BY <1>2
<1> HIDE DEF R, failed, gone
<1>. QED BY <1>1, <1>3, <1>4, <1>5, <1>6, <1>7, RetirePreserves

(* A set of channels is retired, and every sound stays. *)
LEMMA RetireOnly ==
  ASSUME SoundsInvariant, Ready, NEW R \in SUBSET Channels, NEW failed \in Nat,
         Retire(R, failed), sounds' = SoundsAfter(R),
         UNCHANGED <<soundPaths, buses, entities, held>>
  PROVE  SoundsInvariant'
<1>1. SoundsTypeOK
  BY DEF SoundsInvariant, ActiveCountsExact
<1> DEFINE gone == {}
<1>2. sounds' = [s \in SoundHandles |->
                   IF s \in gone THEN NoRecord ELSE SoundsAfter(R)[s]]
  BY DEF SoundsAfter
<1>3. gone \in SUBSET SoundHandles /\ \A s \in gone : ChannelsOf(s) \subseteq R
  OBVIOUS
<1> HIDE DEF gone
<1>. QED BY <1>1, <1>2, <1>3, RetirePreserves DEF SoundsTypeOK

(* Stopping retires the channel, or nothing if FMOD would not stop it. *)
LEMMA StopPreserves ==
  ASSUME SoundsInvariant, NEW c \in ChannelHandles, StopSound(c)
  PROVE  SoundsInvariant'
<1>1. Ready /\ {c} \in SUBSET Channels /\ UNCHANGED <<soundPaths, buses, entities, held>>
  BY DEF StopSound
<1>2. CASE Retire({c}, 0) /\ sounds' = SoundsAfter({c})
  BY <1>1, <1>2, RetireOnly
<1>3. CASE Fails(1) /\ UNCHANGED <<sounds, channels, routes, playing, locks>>
  BY <1>1, <1>3, FailedCall DEF soundsVars, soundPoolVars, fmodVars
<1>. QED BY <1>2, <1>3 DEF StopSound

(* Tick retires what is due and what FMOD has lost. *)
LEMMA TickPreserves == SoundsInvariant /\ Tick => SoundsInvariant'
<1> SUFFICES ASSUME SoundsInvariant, Tick PROVE SoundsInvariant'
  OBVIOUS
<1>1. Ready
  BY DEF Tick
<1>2. PICK faulty \in SUBSET (Channels \cap playing), others \in 0..MaxFaults :
        TickChannels(faulty, Cardinality(faulty) + others)
  BY DEF Tick
<1>3. Cardinality(faulty) + others \in Nat
  <2>1. faulty \in SUBSET ChannelHandles
    BY DEF Channels
  <2>. QED BY <2>1, ChannelSets
<1>4. PICK dropped \in SUBSET {c \in faulty : ~Due(c)} :
        LET R == {c \in Channels \ faulty : Due(c)} \cup dropped IN
        /\ Retire(R, Cardinality(faulty) + others)
        /\ sounds' = SoundsAfter(R)
        /\ UNCHANGED <<soundPaths, buses, entities, held>>
  BY <1>2 DEF TickChannels
<1> DEFINE R == {c \in Channels \ faulty : Due(c)} \cup dropped
<1>5. /\ R \in SUBSET Channels
      /\ Retire(R, Cardinality(faulty) + others)
      /\ sounds' = SoundsAfter(R)
      /\ UNCHANGED <<soundPaths, buses, entities, held>>
  BY <1>4
<1> HIDE DEF R
<1>. QED BY <1>1, <1>3, <1>5, RetireOnly

(* Attaching and detaching touch nothing but the entity of one channel. *)
LEMMA ReattachPreserves ==
  ASSUME SoundsInvariant, NEW c \in Channels, NEW entity \in Entities \cup {NoEntity},
         channels' = [channels EXCEPT ![c].entity = entity], NoFailure,
         UNCHANGED <<sounds, soundPaths, routes, fmodVars, entities, held>>
  PROVE  SoundsInvariant'
<1>1. /\ SoundsTypeOK /\ ChannelsCounted /\ RoutesCounted /\ ChannelsHaveSounds
      /\ channels[c] \in ChannelRecord /\ c \in ChannelHandles
      /\ UNCHANGED backendVars
  BY DEF SoundsInvariant, ActiveCountsExact, SoundsTypeOK, Channels, NoFailure
<1>2. channels'[c] = [channels[c] EXCEPT !.entity = entity]
  BY <1>1 DEF SoundsTypeOK
<1>3. /\ channels'[c] \in ChannelRecord
      /\ channels'[c].ownerSound = channels[c].ownerSound
      /\ channels'[c].bus = channels[c].bus
      /\ \A d \in ChannelHandles \ {c} : channels'[d] = channels[d]
      /\ channels' \in [ChannelHandles -> ChannelRecord \cup {NoRecord}]
  BY <1>1, <1>2 DEF ChannelRecord, SoundsTypeOK
<1>4. /\ Channels' = Channels
      /\ \A d \in Channels : /\ channels'[d].ownerSound = channels[d].ownerSound
                             /\ channels'[d].bus = channels[d].bus
  BY <1>3 DEF Channels
<1>5. /\ \A s \in SoundHandles : ChannelsOf(s)' = ChannelsOf(s)
      /\ \A b \in Buses : ChannelsOn(b)' = ChannelsOn(b)
  BY <1>4 DEF ChannelsOf, ChannelsOn
<1>6. SoundsTypeOK'
  BY <1>1, <1>3 DEF SoundsTypeOK, BackendTypeOK, backendVars, fmodVars
<1>7. ChannelsCounted' /\ RoutesCounted' /\ ChannelsHaveSounds'
  BY <1>1, <1>4, <1>5 DEF ChannelsCounted, RoutesCounted, ChannelsHaveSounds, Sounds
<1>8. RoutesWellFormed' /\ NoRoutesUnready' /\ UnnoticedIsIdle' /\ LocksExact'
  BY <1>1 DEF SoundsInvariant, RoutesWellFormed, WellFormed, NoRoutesUnready,
              UnnoticedIsIdle, LocksExact, LockOf, PointerValid, fmodVars, backendVars
<1>9. ChannelsKeepLock'
  BY <1>4 DEF SoundsInvariant, LockedWhileUsed, ChannelsKeepLock
<1>10. IdleRoutesUnlocked' /\ NoStrayChannel'
  BY <1>1, <1>4, <1>5
     DEF SoundsInvariant, LockedWhileUsed, IdleRoutesUnlocked, PointerValid,
         NoStrayChannel, fmodVars, backendVars
<1>. QED BY <1>6, <1>7, <1>8, <1>9, <1>10
         DEF SoundsInvariant, ActiveCountsExact, LockedWhileUsed

-----------------------------------------------------------------------------
(* The backend and the world. *)

(* A step that leaves the manager's state alone, lets nothing play that did *)
(* not play before and gives no bus back a pointer it once had.             *)
LEMMA WorldOnly ==
  ASSUME SoundsInvariant, UNCHANGED <<soundPoolVars, routes, held, active, faults>>,
         BackendTypeOK', UnnoticedIsIdle', LocksExact',
         hiccups' = 0 => hiccups = 0,
         playing' \subseteq playing,
         entities' \subseteq Entities,
         buses' \in [Buses -> 0..MaxBusChanges],
         \A b \in Buses : buses[b] <= buses'[b],
         locks' \in [Buses -> Int]
  PROVE  SoundsInvariant'
<1>1. /\ SoundsTypeOK /\ ChannelsCounted /\ RoutesCounted /\ ChannelsHaveSounds
      /\ RoutesWellFormed
  BY DEF SoundsInvariant, ActiveCountsExact
<1>2. /\ Sounds' = Sounds /\ Channels' = Channels
      /\ \A s \in SoundHandles : ChannelsOf(s)' = ChannelsOf(s)
      /\ \A b \in Buses : ChannelsOn(b)' = ChannelsOn(b)
  BY DEF soundPoolVars, Sounds, Channels, ChannelsOf, ChannelsOn
<1>3. SoundsTypeOK'
  BY <1>1 DEF SoundsTypeOK, soundPoolVars
<1>4. ChannelsCounted' /\ RoutesCounted' /\ ChannelsHaveSounds' /\ ChannelsKeepLock'
  BY <1>1, <1>2 DEF SoundsInvariant, LockedWhileUsed, ChannelsKeepLock, ChannelsCounted,
                    RoutesCounted, ChannelsHaveSounds, soundPoolVars, Sounds
<1>5. \A b \in Buses : /\ routes[b].bus \in Int /\ buses[b] \in Int /\ buses'[b] \in Int
                       /\ routes[b].bus <= buses[b] /\ buses[b] <= buses'[b]
  BY <1>1 DEF SoundsTypeOK, RoutesWellFormed, WellFormed, Route
<1>6. RoutesWellFormed' /\ NoRoutesUnready'
  BY <1>1, <1>5 DEF SoundsInvariant, RoutesWellFormed, WellFormed, NoRoutesUnready
<1>7. IdleRoutesUnlocked'
  <2> SUFFICES ASSUME faults = MaxFaults, NEW b \in Buses, routes[b].locked,
                      routes[b].bus # 0, routes[b].bus = buses'[b]
               PROVE  ChannelsOn(b) # {}
    BY <1>2 DEF IdleRoutesUnlocked, PointerValid
  <2>1. routes[b].bus = buses[b]
    BY <1>5
  <2>. QED BY <2>1 DEF SoundsInvariant, LockedWhileUsed, IdleRoutesUnlocked, PointerValid
<1>8. NoStrayChannel'
  BY <1>2 DEF SoundsInvariant, NoStrayChannel
<1>. QED BY <1>3, <1>4, <1>6, <1>7, <1>8
         DEF SoundsInvariant, ActiveCountsExact, LockedWhileUsed

(* A changed backend empties the pools and the routes. *)
LEMMA RefreshPreserves == SoundsInvariant /\ RefreshBackend => SoundsInvariant'
<1> SUFFICES ASSUME SoundsInvariant, RefreshBackend PROVE SoundsInvariant'
  OBVIOUS
<1>1. /\ SoundsTypeOK /\ BackendTypeOK
      /\ UNCHANGED <<fmodVars, entities>>
      /\ active' = Reported /\ Reported # active
      /\ UNCHANGED <<system, visible, restarts, hiccups, faults>>
  BY DEF SoundsInvariant, ActiveCountsExact, SoundsTypeOK, RefreshBackend, AdoptBackend
<1>2. BackendTypeOK'
  BY <1>1 DEF BackendTypeOK, RefreshBackend, AdoptBackend, Reported
<1>3. hiccups = 0 => /\ visible /\ active # system /\ active' = system
                     /\ playing = {} /\ \A b \in Buses : locks[b] = 0
  BY <1>1 DEF SoundsInvariant, UnnoticedIsIdle, Reported
<1>4. UnnoticedIsIdle'
  BY <1>1, <1>3 DEF UnnoticedIsIdle
<1>5. ASSUME \A b \in Buses : routes'[b] = IdleRoute
      PROVE  LocksExact'
  <2>1. \A b \in Buses : (LockOf(routes[b], b))' = 0
    BY <1>5 DEF LockOf, IdleRoute
  <2>. QED BY <1>1, <1>3, <2>1 DEF LocksExact, fmodVars
<1>6. CASE active = NoSystem /\ UNCHANGED <<soundPoolVars, routes, held>>
  <2>1. \A b \in Buses : routes'[b] = IdleRoute
    BY <1>6 DEF SoundsInvariant, NoRoutesUnready
  <2>2. /\ Sounds' = Sounds /\ Channels' = Channels
        /\ \A s \in SoundHandles : ChannelsOf(s)' = ChannelsOf(s)
        /\ \A b \in Buses : ChannelsOn(b)' = ChannelsOn(b)
    BY <1>6 DEF soundPoolVars, Sounds, Channels, ChannelsOf, ChannelsOn
  <2>3. SoundsTypeOK'
    BY <1>1, <1>2, <1>6 DEF SoundsTypeOK, soundPoolVars, fmodVars
  <2>4. ChannelsCounted' /\ RoutesCounted' /\ ChannelsHaveSounds' /\ ChannelsKeepLock'
    BY <1>6, <2>2 DEF SoundsInvariant, ActiveCountsExact, LockedWhileUsed,
                      ChannelsKeepLock, ChannelsCounted, RoutesCounted,
                      ChannelsHaveSounds, soundPoolVars, Sounds
  <2>5. RoutesWellFormed' /\ NoRoutesUnready'
    BY <1>1, <1>6, <2>1 DEF SoundsInvariant, RoutesWellFormed, WellFormed,
                            NoRoutesUnready, fmodVars
  <2>6. IdleRoutesUnlocked' /\ NoStrayChannel'
    BY <1>1, <1>6, <2>2 DEF SoundsInvariant, LockedWhileUsed, IdleRoutesUnlocked,
                            PointerValid, NoStrayChannel, fmodVars
  <2>. QED BY <1>4, <1>5, <2>1, <2>3, <2>4, <2>5, <2>6
           DEF SoundsInvariant, ActiveCountsExact, LockedWhileUsed
<1>7. CASE ResetSounds
  <2>1. /\ Sounds' = {} /\ Channels' = {}
        /\ \A b \in Buses : routes'[b] = IdleRoute /\ ChannelsOn(b)' = {}
    BY <1>7 DEF ResetSounds, Sounds, Channels, ChannelsOn
  <2>2. IdleRoute \in Route
    BY DEF IdleRoute, Route
  <2>3. SoundsTypeOK'
    BY <1>1, <1>2, <1>7, <2>2 DEF SoundsTypeOK, ResetSounds, fmodVars
  <2>4. RoutesCounted'
    BY <2>1, FS_EmptySet DEF RoutesCounted, IdleRoute
  <2>5. RoutesWellFormed' /\ NoRoutesUnready'
    <3>1. \A b \in Buses : WellFormed(IdleRoute, b)'
      BY <2>2, <2>3 DEF WellFormed, IdleRoute, SoundsTypeOK
    <3>. QED BY <2>1, <3>1 DEF RoutesWellFormed, NoRoutesUnready
  <2>6. IdleRoutesUnlocked'
    BY <2>1 DEF IdleRoutesUnlocked, IdleRoute
  <2>7. ChannelsCounted' /\ ChannelsHaveSounds' /\ ChannelsKeepLock'
    BY <2>1 DEF ChannelsCounted, ChannelsHaveSounds, ChannelsKeepLock
  <2>8. NoStrayChannel'
    BY <1>1, <1>3 DEF NoStrayChannel, fmodVars
  <2>. QED BY <1>4, <1>5, <2>1, <2>3, <2>4, <2>5, <2>6, <2>7, <2>8
           DEF SoundsInvariant, ActiveCountsExact, LockedWhileUsed
<1>. QED BY <1>6, <1>7 DEF RefreshBackend

(* What FMOD, the game and the entities do by themselves. *)
LEMMA WorldPreserves == SoundsInvariant /\ WorldStep => SoundsInvariant'
<1> SUFFICES ASSUME SoundsInvariant, WorldStep PROVE SoundsInvariant'
  OBVIOUS
<1>1. SoundsTypeOK /\ BackendTypeOK
  BY DEF SoundsInvariant, ActiveCountsExact, SoundsTypeOK
<1>2. \A b \in Buses : buses[b] \in Int /\ buses[b] <= buses[b]
  BY <1>1 DEF SoundsTypeOK
<1>3. ASSUME NEW s \in Systems \cup {NoSystem}, Restart(s) PROVE SoundsInvariant'
  <2>1. /\ BackendTypeOK' /\ visible' /\ UNCHANGED <<active, hiccups, faults>>
        /\ playing' = {} /\ locks' = [b \in Buses |-> 0]
        /\ UNCHANGED <<soundPoolVars, routes, buses, entities, held>>
        /\ system' = s /\ (s # active \/ s = NoSystem)
    BY <1>1, <1>3 DEF Restart, RestartSystem, BackendTypeOK
  <2>2. UnnoticedIsIdle'
    BY <2>1 DEF UnnoticedIsIdle
  <2>3. LocksExact'
    <3> SUFFICES ASSUME active' = system', NEW b \in Buses
                 PROVE  locks'[b] = (LockOf(routes[b], b))'
      BY DEF LocksExact
    <3>1. routes'[b] = IdleRoute
      BY <2>1 DEF SoundsInvariant, NoRoutesUnready
    <3>. QED BY <2>1, <3>1 DEF LockOf, IdleRoute
  <2>. QED BY <1>1, <1>2, <2>1, <2>2, <2>3, WorldOnly DEF SoundsTypeOK
<1>4. CASE Hiccup
  <2>1. /\ BackendTypeOK' /\ UNCHANGED <<active, system, faults>> /\ UNCHANGED soundsVars
        /\ hiccups' = 0 => hiccups = 0
        /\ hiccups' = 0 => visible'
    <3>1. CASE HideSystem
      <4>1. hiccups' = hiccups + 1 /\ hiccups \in Nat /\ hiccups' \in 0..MaxHiccups
        BY <1>1, <3>1 DEF HideSystem, BackendTypeOK
      <4>2. hiccups' # 0
        BY <4>1
      <4>. QED BY <1>1, <1>4, <3>1, <4>1, <4>2 DEF Hiccup, HideSystem, BackendTypeOK
    <3>2. CASE ShowSystem
      BY <1>1, <1>4, <3>2 DEF Hiccup, ShowSystem, BackendTypeOK
    <3>. QED BY <1>4, <3>1, <3>2 DEF Hiccup
  <2>2. UnnoticedIsIdle' /\ LocksExact'
    BY <2>1 DEF SoundsInvariant, UnnoticedIsIdle, LocksExact, LockOf, PointerValid,
                soundsVars, soundPoolVars, fmodVars
  <2>. QED BY <1>1, <1>2, <2>1, <2>2, WorldOnly
           DEF SoundsTypeOK, soundsVars, fmodVars
<1>5. ASSUME NEW c \in ChannelHandles, ChannelEnds(c) PROVE SoundsInvariant'
  <2>1. /\ UNCHANGED <<backendVars, soundPoolVars, routes, buses, locks, entities, held>>
        /\ playing' \subseteq playing
    BY <1>5 DEF ChannelEnds
  <2>2. UnnoticedIsIdle' /\ LocksExact' /\ BackendTypeOK'
    BY <1>1, <2>1 DEF SoundsInvariant, UnnoticedIsIdle, LocksExact, LockOf, PointerValid,
                      backendVars, BackendTypeOK
  <2>. QED BY <1>1, <1>2, <2>1, <2>2, WorldOnly DEF SoundsTypeOK, backendVars
<1>6. ASSUME NEW b \in Buses, BusChanges(b) PROVE SoundsInvariant'
  <2>1. /\ UNCHANGED <<backendVars, soundPoolVars, routes, playing, entities, held>>
        /\ buses' = [buses EXCEPT ![b] = @ + 1]
        /\ locks' = [locks EXCEPT ![b] = 0]
        /\ buses[b] < MaxBusChanges
    BY <1>6 DEF BusChanges
  <2>2. /\ buses' \in [Buses -> 0..MaxBusChanges] /\ locks' \in [Buses -> Int]
        /\ buses'[b] = buses[b] + 1 /\ locks'[b] = 0
        /\ \A x \in Buses \ {b} : buses'[x] = buses[x] /\ locks'[x] = locks[x]
    BY <1>1, <2>1 DEF SoundsTypeOK
  <2>3. \A x \in Buses : buses[x] <= buses'[x]
    BY <1>2, <2>2
  <2>4. UnnoticedIsIdle' /\ BackendTypeOK'
    BY <1>1, <2>1, <2>2 DEF SoundsInvariant, UnnoticedIsIdle, backendVars, BackendTypeOK
  <2>5. LocksExact'
    <3> SUFFICES ASSUME hiccups = 0, active = system, NEW x \in Buses
                 PROVE  locks'[x] = (LockOf(routes[x], x))'
      BY <2>1 DEF LocksExact, backendVars
    <3>1. CASE x = b
      <4>1. routes[b].bus <= buses[b] /\ routes[b].bus \in Int
        BY <1>1 DEF SoundsInvariant, RoutesWellFormed, WellFormed, Route
      <4>2. routes[b].bus # buses'[b]
        BY <1>2, <2>2, <4>1
      <4>. QED BY <2>1, <2>2, <3>1, <4>2 DEF LockOf, PointerValid
    <3>2. CASE x # b
      <4>1. locks[x] = LockOf(routes[x], x)
        BY DEF SoundsInvariant, LocksExact
      <4>. QED BY <2>1, <2>2, <3>2, <4>1 DEF LockOf, PointerValid
    <3>. QED BY <3>1, <3>2
  <2>. QED BY <1>1, <2>1, <2>2, <2>3, <2>4, <2>5, WorldOnly DEF SoundsTypeOK, backendVars
<1>7. ASSUME NEW entity \in Entities, EntityChanges(entity) PROVE SoundsInvariant'
  <2>1. /\ UNCHANGED <<backendVars, soundPoolVars, routes, fmodVars, held>>
        /\ entities' \subseteq Entities
    BY <1>1, <1>7 DEF EntityChanges, SoundsTypeOK
  <2>2. UnnoticedIsIdle' /\ LocksExact' /\ BackendTypeOK'
    BY <1>1, <2>1 DEF SoundsInvariant, UnnoticedIsIdle, LocksExact, LockOf, PointerValid,
                      backendVars, fmodVars, BackendTypeOK
  <2>. QED BY <1>1, <1>2, <2>1, <2>2, WorldOnly DEF SoundsTypeOK, backendVars, fmodVars
<1>8. CASE BankCallsFail
  BY <1>8, FailedCall DEF BankCallsFail
<1>. QED BY <1>3, <1>4, <1>5, <1>6, <1>7, <1>8 DEF WorldStep

-----------------------------------------------------------------------------
(* The invariant holds initially, every step keeps it, and it contains the *)
(* properties.                                                             *)

(* Nothing is loaded, played or locked at the start. *)
LEMMA InitInvariant == Init => SoundsInvariant
<1> SUFFICES ASSUME Init PROVE SoundsInvariant
  OBVIOUS
<1>1. /\ Sounds = {} /\ Channels = {}
      /\ \A b \in Buses : routes[b] = IdleRoute /\ ChannelsOn(b) = {} /\ locks[b] = 0
  BY DEF Init, SoundsInit, Sounds, Channels, ChannelsOn
<1>2. IdleRoute \in Route
  BY DEF IdleRoute, Route
<1>3. SoundsTypeOK
  BY <1>2 DEF Init, SoundsInit, BackendInit, SoundsTypeOK, BackendTypeOK
<1>4. ChannelsCounted /\ ChannelsHaveSounds /\ ChannelsKeepLock
  BY <1>1 DEF ChannelsCounted, ChannelsHaveSounds, ChannelsKeepLock
<1>5. RoutesCounted
  BY <1>1, FS_EmptySet DEF RoutesCounted, IdleRoute
<1>6. RoutesWellFormed /\ NoRoutesUnready
  <2>1. \A b \in Buses : WellFormed(IdleRoute, b)
    BY <1>2, <1>3 DEF WellFormed, IdleRoute, SoundsTypeOK
  <2>. QED BY <1>1, <2>1 DEF RoutesWellFormed, NoRoutesUnready
<1>7. UnnoticedIsIdle /\ NoStrayChannel
  BY <1>1 DEF Init, SoundsInit, BackendInit, UnnoticedIsIdle, NoStrayChannel
<1>8. LocksExact
  <2>1. \A b \in Buses : LockOf(IdleRoute, b) = 0
    BY DEF LockOf, IdleRoute
  <2>. QED BY <1>1, <2>1 DEF LocksExact
<1>9. IdleRoutesUnlocked
  BY <1>1 DEF IdleRoutesUnlocked, IdleRoute
<1>. QED BY <1>3, <1>4, <1>5, <1>6, <1>7, <1>8, <1>9
         DEF SoundsInvariant, ActiveCountsExact, LockedWhileUsed

(* Every step keeps the invariant. *)
LEMMA NextInvariant == SoundsInvariant /\ [Next]_vars => SoundsInvariant'
<1> SUFFICES ASSUME SoundsInvariant, [Next]_vars PROVE SoundsInvariant'
  OBVIOUS
<1>1. CASE ScriptStep
  <2>1. ASSUME NEW m \in Mods, NEW p \in SoundPaths, LoadSound(m, p)
        PROVE  SoundsInvariant'
    BY <2>1, LoadPreserves
  <2>2. ASSUME NEW m \in Mods, NEW s \in SoundHandles, UnloadSound(m, s)
        PROVE  SoundsInvariant'
    BY <2>2, UnloadPreserves
  <2>3. ASSUME NEW m \in Mods, NEW s \in SoundHandles, ForceUnloadSound(m, s)
        PROVE  SoundsInvariant'
    BY <2>3, ForceUnloadPreserves
  <2>4. ASSUME NEW s \in SoundHandles, NEW b \in Buses, NEW is3D \in BOOLEAN,
               NEW entity \in Entities \cup {NoEntity}, PlaySound(s, b, is3D, entity)
        PROVE  SoundsInvariant'
    BY <2>4, PlayPreserves
  <2>5. ASSUME NEW c \in ChannelHandles, StopSound(c) PROVE SoundsInvariant'
    BY <2>5, StopPreserves
  <2>6. ASSUME NEW c \in ChannelHandles, NEW entity \in Entities,
               AttachSoundToEntity(c, entity)
        PROVE  SoundsInvariant'
    BY <2>6, ReattachPreserves, FailedCall
       DEF AttachSoundToEntity, soundsVars, soundPoolVars
  <2>7. ASSUME NEW c \in ChannelHandles, DetachSound(c) PROVE SoundsInvariant'
    BY <2>7, ReattachPreserves, FailedCall DEF DetachSound, soundsVars, soundPoolVars
  <2>. QED BY <1>1, <2>1, <2>2, <2>3, <2>4, <2>5, <2>6, <2>7 DEF ScriptStep
<1>2. CASE Tick
  BY <1>2, TickPreserves
<1>3. CASE RefreshBackend
  BY <1>3, RefreshPreserves
<1>4. CASE WorldStep
  BY <1>4, WorldPreserves
<1>5. CASE UNCHANGED vars
  BY <1>5, FailedCall DEF vars, NoFailure
<1>. QED BY <1>1, <1>2, <1>3, <1>4, <1>5 DEF Next

(* The inductive invariant of the Core half, whatever the mods load, play   *)
(* and unload, whatever fails and whatever buses and systems go away.       *)
THEOREM SoundsCorrect == Spec => []SoundsInvariant
BY InitInvariant, NextInvariant, PTL DEF Spec

(* Everything that is counted is counted exactly, on every error path: a    *)
(* sound's channels, which keep it loaded, and a route's, which keep its    *)
(* bus locked.                                                              *)
THEOREM SoundCountsExact == Spec => []ActiveCountsExact
<1>1. SoundsInvariant => ActiveCountsExact
  BY DEF SoundsInvariant
<1>. QED BY <1>1, SoundsCorrect, PTL

(* While readiness never lapsed, FMOD's locks are exactly those the manager *)
(* will give back.                                                          *)
THEOREM LocksStayKnown == Spec => []LocksKnown
<1>1. SoundsInvariant => LocksKnown
  BY DEF SoundsInvariant, LocksExact, LocksKnown, LockOf, Ready, Reported
<1>. QED BY <1>1, SoundsCorrect, PTL

(* A bus is locked while a channel plays through it and, failures of FMOD   *)
(* apart, no longer.                                                        *)
THEOREM BusesLockedWhileUsed == Spec => []LockedWhileUsed
<1>1. SoundsInvariant => LockedWhileUsed
  BY DEF SoundsInvariant
<1>. QED BY <1>1, SoundsCorrect, PTL

(* While readiness never lapsed, every channel that plays can be stopped.   *)
THEOREM NoChannelStrays == Spec => []NoStrayChannel
<1>1. SoundsInvariant => NoStrayChannel
  BY DEF SoundsInvariant
<1>. QED BY <1>1, SoundsCorrect, PTL

=============================================================================
