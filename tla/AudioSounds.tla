----------------------------- MODULE AudioSounds -----------------------------
(***************************************************************************)
(* The Core half of LuaUtils' AudioManager: loose sounds decoded from      *)
(* CryPak memory, the channels that play them, and the Studio buses whose  *)
(* channel groups are locked for as long as channels play through them.    *)
(*                                                                         *)
(* A route (BusRoute) is created locked by the first PlaySound on a bus    *)
(* and released by the last channel to be retired.  Each call of FMOD on   *)
(* the way may fail, and buses come and go with the game's banks.          *)
(***************************************************************************)
EXTENDS AudioBackend, FiniteSets

CONSTANTS
  Mods,            \* Lua scripts that hold handles
  SoundPaths,      \* normalized CryPak keys of sounds
  Buses,           \* normalized bus paths
  SoundHandles, ChannelHandles, NoHandle,
  Entities, NoEntity,
  NoRecord,
  MaxBusChanges    \* bound: how often a bus, or any two, are loaded or unloaded

ASSUME SoundsAssumption ==
  /\ NoHandle \notin SoundHandles
  /\ NoEntity \notin Entities
  /\ IsFiniteSet(Mods) /\ IsFiniteSet(ChannelHandles) /\ IsFiniteSet(Buses)
  /\ MaxBusChanges \in Nat

VARIABLES
  sounds,      \* m_sounds
  soundPaths,  \* m_soundPaths
  channels,    \* m_channels
  routes,      \* m_routes, an absent entry being an idle route
  playing,     \* FMOD: the channels that play, named by their handle
  buses,       \* FMOD: how often each bus was loaded or unloaded; the pointer
               \* GetBus returns is this number, 0 is a null pointer
  locks,       \* FMOD: locks minus unlocks of each bus that exists
  entities,    \* game: the entities that can be looked up
  held         \* Lua: the sound references each mod has yet to give back

soundPoolVars == <<sounds, soundPaths, channels>>
fmodVars == <<playing, buses, locks>>
soundsVars == <<soundPoolVars, routes, fmodVars, entities, held>>
vars == <<backendVars, soundsVars>>

SoundRecord == [path: SoundPaths, references: Nat, activeInstances: Nat,
                home: Systems]
ChannelRecord == [ownerSound: SoundHandles, bus: Buses, is3D: BOOLEAN,
                  entity: Entities \cup {NoEntity}, cleanupRequested: BOOLEAN,
                  home: Systems]
Route == [bus: 0..MaxBusChanges, group: BOOLEAN, locked: BOOLEAN,
          activeChannels: Nat]

ASSUME NoSoundRecordAssumption == NoRecord \notin SoundRecord \cup ChannelRecord

IdleRoute == [bus |-> 0, group |-> FALSE, locked |-> FALSE, activeChannels |-> 0]

SoundsTypeOK ==
  /\ BackendTypeOK
  /\ sounds \in [SoundHandles -> SoundRecord \cup {NoRecord}]
  /\ soundPaths \in [SoundPaths -> SoundHandles \cup {NoHandle}]
  /\ channels \in [ChannelHandles -> ChannelRecord \cup {NoRecord}]
  /\ routes \in [Buses -> Route]
  /\ playing \subseteq ChannelHandles
  /\ buses \in [Buses -> 0..MaxBusChanges]
  /\ locks \in [Buses -> Int]
  /\ entities \subseteq Entities
  /\ held \in [Mods -> SUBSET SoundHandles]

SoundsInit ==
  /\ sounds = [s \in SoundHandles |-> NoRecord]
  /\ soundPaths = [p \in SoundPaths |-> NoHandle]
  /\ channels = [c \in ChannelHandles |-> NoRecord]
  /\ routes = [b \in Buses |-> IdleRoute]
  /\ playing = {}
  /\ buses \in [Buses -> 0..MaxBusChanges]
  /\ \A b \in Buses : buses[b] <= 1
  /\ locks = [b \in Buses |-> 0]
  /\ entities \in SUBSET Entities
  /\ held = [m \in Mods |-> {}]

-----------------------------------------------------------------------------
(* Reading the pools and FMOD. *)

Sounds == {s \in SoundHandles : sounds[s] # NoRecord}
Channels == {c \in ChannelHandles : channels[c] # NoRecord}
ChannelsOf(s) == {c \in Channels : channels[c].ownerSound = s}
ChannelsOn(b) == {c \in Channels : channels[c].bus = b}
Holders(s) == {m \in Mods : s \in held[m]}
BusExists(b) == buses[b] % 2 = 1
PointerValid(r, b) == r.bus # 0 /\ r.bus = buses[b]     \* StudioBusIsValid
Monus(m, n) == IF n <= m THEN m - n ELSE 0

-----------------------------------------------------------------------------
(* Sounds. *)

LoadSound(m, p) ==
  LET known == soundPaths[p] IN
  /\ Ready
  /\ \/ /\ known \in Sounds /\ known \notin held[m]
        /\ sounds' = [sounds EXCEPT ![known].references = @ + 1]
        /\ held' = [held EXCEPT ![m] = @ \cup {known}]
        /\ NoFailure
        /\ UNCHANGED soundPaths
     \/ /\ known \notin Sounds
        /\ \/ \E s \in SoundHandles \ Sounds :
                /\ sounds' = [sounds EXCEPT ![s] =
                     [path |-> p, references |-> 1, activeInstances |-> 0,
                      home |-> active]]
                /\ soundPaths' = [soundPaths EXCEPT ![p] = s]
                /\ held' = [held EXCEPT ![m] = @ \cup {s}]
                /\ NoFailure
           \/ /\ Fails(1)
              /\ soundPaths' = [soundPaths EXCEPT ![p] = NoHandle]
              /\ UNCHANGED <<sounds, held>>
  /\ UNCHANGED <<channels, routes, fmodVars, entities>>

-----------------------------------------------------------------------------
(* Routes.  What AcquireRoute and ReleaseRoute do to one route is an        *)
(* outcome: the route after it, the locks of its bus, how many calls of     *)
(* FMOD failed and whether the caller got the route.                        *)

Outcome(route, count, failed, ok) ==
  [route |-> route, count |-> count, failed |-> failed, ok |-> ok]

Usable(b) ==
  routes[b].locked /\ routes[b].group /\ PointerValid(routes[b], b)

(* Mutant: a failure after the lock leaves the bus locked, unremembered. *)
LeakyFreshOutcomes(b, count, failed) ==
  IF ~BusExists(b) THEN {Outcome(IdleRoute, count, failed, FALSE)}
  ELSE {Outcome(IdleRoute, count + 1, failed + 1, FALSE),
        Outcome([bus |-> buses[b], group |-> TRUE, locked |-> TRUE,
                 activeChannels |-> 0], count + 1, failed, TRUE)}

(* GetBus, lock, flush, get the group.  A failure after the lock (which is  *)
(* then lost like one of GetBus) unlocks again; if that fails too the route *)
(* stays locked, without a group.                                           *)
FreshOutcomes(b, count, failed) ==
  LET route(locked, group) ==
        [bus |-> buses[b], group |-> group, locked |-> locked, activeChannels |-> 0]
  IN IF ~BusExists(b) THEN {Outcome(IdleRoute, count, failed, FALSE)}
     ELSE {Outcome(IdleRoute, count, failed + 1, FALSE),
           Outcome(route(FALSE, FALSE), count, failed + 1, FALSE),
           Outcome(route(TRUE, FALSE), count + 1, failed + 2, FALSE),
           Outcome(route(TRUE, TRUE), count + 1, failed, TRUE)}

(* A route that is locked but not usable is unlocked first; one that has    *)
(* channels, or whose bus is gone, is left as it is.                        *)
AcquireOutcomes(b) ==
  LET r == routes[b]
      unchanged == Outcome(r, locks[b], 0, FALSE)
  IN CASE Usable(b) -> {Outcome(r, locks[b], 0, TRUE)}
       [] ~Usable(b) /\ r.activeChannels # 0 -> {unchanged}
       [] ~Usable(b) /\ r.activeChannels = 0 /\ r.locked ->
            IF PointerValid(r, b)
            THEN {Outcome(r, locks[b], 1, FALSE)}
                   \cup FreshOutcomes(b, locks[b] - 1, 0)
            ELSE {unchanged}
       [] OTHER -> FreshOutcomes(b, locks[b], 0)

(* Mutant: any channel that leaves unlocks the bus. *)
EagerReleaseOutcomes(r, b, count, n) ==
  IF n # 0 /\ r.locked
  THEN {Outcome([IdleRoute EXCEPT !.activeChannels = Monus(r.activeChannels, n)],
                count - 1, 0, TRUE)}
  ELSE {Outcome(r, count, 0, TRUE)}

(* n channels of route r leave it; the last one unlocks the bus.  Unlocking *)
(* a bus that is gone fails, and a failure leaves the route locked.         *)
ReleaseOutcomes(r, b, count, n) ==
  LET left == Monus(r.activeChannels, n)
      kept == [r EXCEPT !.activeChannels = left]
  IN CASE n = 0 \/ left # 0 -> {Outcome(kept, count, 0, TRUE)}
       [] n # 0 /\ left = 0 /\ r.locked /\ r.bus # 0 ->
            IF PointerValid(r, b)
            THEN {Outcome(IdleRoute, count - 1, 0, TRUE), Outcome(kept, count, 1, TRUE)}
            ELSE {Outcome(kept, count, 0, TRUE)}
       [] OTHER -> {Outcome(IdleRoute, count, 0, TRUE)}

RouteTo(b, outcome, failed) ==
  /\ routes' = [routes EXCEPT ![b] = outcome.route]
  /\ locks' = [locks EXCEPT ![b] = outcome.count]
  /\ Fails(outcome.failed + failed)

-----------------------------------------------------------------------------
(* Channels. *)

NewChannel(s, b, is3D, entity, cleanup) ==
  [ownerSound |-> s, bus |-> b, is3D |-> is3D, entity |-> entity,
   cleanupRequested |-> cleanup, home |-> active]

(* FMOD_System_PlaySound fails: an idle route is released again. *)
NotPlayed(b, a) ==
  LET r == a.route IN
  /\ \/ /\ r.activeChannels = 0
        /\ \E o \in ReleaseOutcomes([r EXCEPT !.activeChannels = 1], b, a.count, 1) :
             RouteTo(b, o, a.failed + 1)
     \/ /\ r.activeChannels # 0
        /\ RouteTo(b, a, 1)
  /\ UNCHANGED <<sounds, channels, playing>>

(* Mutant: a channel left for Tick is not recorded. *)
UnrecordedPlayed(s, b, a, is3D, entity) ==
  \E c \in ChannelHandles \ (Channels \cup playing) :
    /\ playing' = playing \cup {c}
    /\ RouteTo(b, a, 2)
    /\ UNCHANGED <<sounds, channels>>

(* The channel plays and is recorded, whole or only for Tick to stop it:    *)
(* one of its setters failed, and stopping it again failed too.             *)
Played(s, b, a, is3D, entity) ==
  \E c \in ChannelHandles \ (Channels \cup playing), cleanup \in BOOLEAN :
    /\ channels' = [channels EXCEPT ![c] = NewChannel(s, b, is3D, entity, cleanup)]
    /\ sounds' = [sounds EXCEPT ![s].activeInstances = @ + 1]
    /\ playing' = playing \cup {c}
    /\ RouteTo(b, [a EXCEPT !.route.activeChannels = @ + 1], IF cleanup THEN 2 ELSE 0)

(* Mutant: the route is not given back. *)
HeldRouteUndone(b, a) ==
  /\ RouteTo(b, [a EXCEPT !.route.activeChannels = @ + 1], 1)
  /\ UNCHANGED <<sounds, channels, playing>>

(* A setter fails and the channel is stopped on the spot. *)
Undone(b, a) ==
  /\ \E o \in ReleaseOutcomes([a.route EXCEPT !.activeChannels = @ + 1], b, a.count, 1) :
       RouteTo(b, o, a.failed + 1)
  /\ UNCHANGED <<sounds, channels, playing>>

PlaySound(s, b, is3D, entity) ==
  /\ Ready /\ s \in Sounds
  /\ entity # NoEntity => is3D /\ entity \in entities
  /\ \E a \in AcquireOutcomes(b) :
       \/ /\ ~a.ok
          /\ RouteTo(b, a, 0)
          /\ UNCHANGED <<sounds, channels, playing>>
       \/ a.ok /\ NotPlayed(b, a)
       \/ a.ok /\ Played(s, b, a, is3D, entity)
       \/ a.ok /\ Undone(b, a)
  /\ UNCHANGED <<soundPaths, buses, entities, held>>

(* RetireChannel for all the channels of R, of which FMOD has stopped those *)
(* that played: their sounds' counts go down, their routes are released     *)
(* (unlocking fails on the buses of refused) and their records go away.     *)
SoundsAfter(R) ==
  [s \in SoundHandles |->
     IF s \in Sounds
     THEN [sounds[s] EXCEPT !.activeInstances =
             Monus(@, Cardinality(ChannelsOf(s) \cap R))]
     ELSE NoRecord]

Retire(R, failed) ==
  \E o \in [Buses -> UNION {ReleaseOutcomes(routes[b], b, locks[b],
                              Cardinality(ChannelsOn(b) \cap R)) : b \in Buses}] :
    /\ \A b \in Buses : o[b] \in ReleaseOutcomes(routes[b], b, locks[b],
                                   Cardinality(ChannelsOn(b) \cap R))
    /\ routes' = [b \in Buses |-> o[b].route]
    /\ locks' = [b \in Buses |-> o[b].count]
    /\ Fails(failed + Cardinality({b \in Buses : o[b].failed = 1}))
    /\ channels' = [c \in ChannelHandles |-> IF c \in R THEN NoRecord ELSE channels[c]]
    /\ playing' = playing \ R

StopSound(c) ==
  /\ Ready /\ c \in Channels
  /\ \/ /\ Retire({c}, 0)
        /\ sounds' = SoundsAfter({c})
     \/ /\ c \in playing /\ Fails(1)
        /\ UNCHANGED <<sounds, channels, routes, playing, locks>>
  /\ UNCHANGED <<soundPaths, buses, entities, held>>

AttachSoundToEntity(c, entity) ==
  /\ Ready
  /\ c \in Channels /\ channels[c].is3D /\ entity \in entities
  /\ \/ /\ c \in playing
        /\ NoFailure
        /\ channels' = [channels EXCEPT ![c].entity = entity]
     \/ Fails(1) /\ UNCHANGED channels
  /\ UNCHANGED <<sounds, soundPaths, routes, fmodVars, entities, held>>

DetachSound(c) ==
  /\ Ready
  /\ c \in Channels /\ channels[c].is3D /\ channels[c].entity # NoEntity
  /\ \/ /\ c \in playing
        /\ NoFailure
        /\ channels' = [channels EXCEPT ![c].entity = NoEntity]
     \/ Fails(1) /\ UNCHANGED channels
  /\ UNCHANGED <<sounds, soundPaths, routes, fmodVars, entities, held>>

-----------------------------------------------------------------------------
(* Unloading. *)

Forget(s) ==
  /\ soundPaths' = [soundPaths EXCEPT ![sounds[s].path] = NoHandle]
  /\ held' = [m \in Mods |-> held[m] \ {s}]

UnloadRefused(s) == sounds[s].activeInstances # 0

UnloadSound(m, s) ==
  /\ Ready /\ s \in Sounds /\ s \in held[m]
  /\ \/ /\ sounds[s].references > 1
        /\ sounds' = [sounds EXCEPT ![s].references = @ - 1]
        /\ held' = [held EXCEPT ![m] = @ \ {s}]
        /\ NoFailure
        /\ UNCHANGED soundPaths
     \/ /\ sounds[s].references <= 1
        /\ ~UnloadRefused(s)
        /\ \/ sounds' = [sounds EXCEPT ![s] = NoRecord] /\ Forget(s) /\ NoFailure
           \/ Fails(1) /\ UNCHANGED <<sounds, soundPaths, held>>
  /\ UNCHANGED <<channels, routes, fmodVars, entities>>

(* force = true: kept are the channels FMOD would not stop, and with any of *)
(* them, or when releasing the sound fails, the sound stays.                *)
ForceUnloadSound(m, s) ==
  /\ Ready /\ s \in Sounds /\ s \in held[m]
  /\ \E kept \in SUBSET (ChannelsOf(s) \cap playing), released \in BOOLEAN :
       LET R == ChannelsOf(s) \ kept IN
       /\ released => kept = {}
       /\ Retire(R, IF kept = {} /\ ~released THEN 1 ELSE Cardinality(kept))
       /\ IF released
          THEN sounds' = [SoundsAfter(R) EXCEPT ![s] = NoRecord] /\ Forget(s)
          ELSE sounds' = SoundsAfter(R) /\ UNCHANGED <<soundPaths, held>>
  /\ UNCHANGED <<buses, entities>>

-----------------------------------------------------------------------------
(* The frame. *)

Lost(c) == channels[c].entity \notin entities \cup {NoEntity}
Due(c) == channels[c].cleanupRequested \/ c \notin playing \/ Lost(c)

(* The channel half of Tick.  faulty are the playing channels for which a   *)
(* call fails: one that is due stays, one that is not is stopped as broken  *)
(* (dropped) or stays if that fails too.                                    *)
TickChannels(faulty, failed) ==
  \E dropped \in SUBSET {c \in faulty : ~Due(c)} :
    LET R == {c \in Channels \ faulty : Due(c)} \cup dropped IN
    /\ Retire(R, failed)
    /\ sounds' = SoundsAfter(R)
    /\ UNCHANGED <<soundPaths, buses, entities, held>>

(* others are the failures among the calls its event half makes. *)
Tick ==
  /\ Ready
  /\ \E faulty \in SUBSET (Channels \cap playing), others \in 0..MaxFaults :
       TickChannels(faulty, Cardinality(faulty) + others)

-----------------------------------------------------------------------------
(* The backend. *)

ResetSounds ==
  /\ sounds' = [s \in SoundHandles |-> NoRecord]
  /\ soundPaths' = [p \in SoundPaths |-> NoHandle]
  /\ channels' = [c \in ChannelHandles |-> NoRecord]
  /\ routes' = [b \in Buses |-> IdleRoute]
  /\ held' = [m \in Mods |-> {}]

RefreshBackend ==
  /\ AdoptBackend
  /\ IF active # NoSystem THEN ResetSounds
     ELSE UNCHANGED <<soundPoolVars, routes, held>>
  /\ UNCHANGED <<fmodVars, entities>>

(* A destroyed system takes its channels and its locks with it. *)
Restart(s) ==
  /\ RestartSystem(s)
  /\ playing' = {}
  /\ locks' = [b \in Buses |-> 0]
  /\ UNCHANGED <<soundPoolVars, routes, buses, entities, held>>

Hiccup == (HideSystem \/ ShowSystem) /\ UNCHANGED soundsVars

-----------------------------------------------------------------------------
(* FMOD and the game, between two operations. *)

(* A channel reaches its end or is stolen. *)
ChannelEnds(c) ==
  /\ c \in playing
  /\ playing' = playing \ {c}
  /\ UNCHANGED <<backendVars, soundPoolVars, routes, buses, locks, entities, held>>

(* The game unloads the bank a bus is defined in, or loads it (again). *)
BusChanges(b) ==
  /\ buses[b] < MaxBusChanges
  /\ \A o \in Buses \ {b} : buses[o] + buses[b] < MaxBusChanges
  /\ buses' = [buses EXCEPT ![b] = @ + 1]
  /\ locks' = [locks EXCEPT ![b] = 0]
  /\ UNCHANGED <<backendVars, soundPoolVars, routes, playing, entities, held>>

EntityChanges(entity) ==
  /\ entities' = IF entity \in entities THEN entities \ {entity}
                 ELSE entities \cup {entity}
  /\ UNCHANGED <<backendVars, soundPoolVars, routes, fmodVars, held>>

(* The operations on banks and events have their share of the failures. *)
BankCallsFail ==
  /\ \E n \in 1..MaxFaults : Fails(n)
  /\ UNCHANGED soundsVars

-----------------------------------------------------------------------------

Init == BackendInit /\ SoundsInit

ScriptStep ==
  \/ \E m \in Mods, p \in SoundPaths : LoadSound(m, p)
  \/ \E m \in Mods, s \in SoundHandles : UnloadSound(m, s)
  \/ \E m \in Mods, s \in SoundHandles : ForceUnloadSound(m, s)
  \/ \E s \in SoundHandles, b \in Buses, is3D \in BOOLEAN,
        entity \in Entities \cup {NoEntity} : PlaySound(s, b, is3D, entity)
  \/ \E c \in ChannelHandles : StopSound(c)
  \/ \E c \in ChannelHandles, entity \in Entities : AttachSoundToEntity(c, entity)
  \/ \E c \in ChannelHandles : DetachSound(c)

WorldStep ==
  \/ \E s \in Systems \cup {NoSystem} : Restart(s)
  \/ Hiccup
  \/ \E c \in ChannelHandles : ChannelEnds(c)
  \/ \E b \in Buses : BusChanges(b)
  \/ \E entity \in Entities : EntityChanges(entity)
  \/ BankCallsFail

Next == ScriptStep \/ Tick \/ RefreshBackend \/ WorldStep

Spec == Init /\ [][Next]_vars

-----------------------------------------------------------------------------
(* Properties. *)

(* A sound's activeInstances, which keeps it from being unloaded, is the   *)
(* number of its channels, those waiting for cleanup included.              *)
ChannelsCounted ==
  \A s \in Sounds : sounds[s].activeInstances = Cardinality(ChannelsOf(s))

(* A route's activeChannels, which keeps its bus locked, is the number of  *)
(* channels on it: on every error path of PlaySound and in every Tick.      *)
RoutesCounted ==
  \A b \in Buses : routes[b].activeChannels = Cardinality(ChannelsOn(b))

(* No channel outlives its sound. *)
ChannelsHaveSounds == \A c \in Channels : channels[c].ownerSound \in Sounds

(* Everything that is counted is counted exactly, on every error path.      *)
ActiveCountsExact ==
  SoundsTypeOK /\ ChannelsCounted /\ RoutesCounted /\ ChannelsHaveSounds

(* The group under a recorded channel stays locked: nothing that happens to *)
(* other channels of the bus, failures included, unlocks it or takes a      *)
(* second lock.                                                             *)
ChannelsKeepLock ==
  \A c \in Channels : routes[channels[c].bus].locked /\ routes[channels[c].bus].group

(* As long as readiness never lapsed, FMOD's locks are exactly those the    *)
(* manager knows about: never two on a bus, none that nobody will give back.*)
LocksKnown ==
  hiccups = 0 /\ Ready =>
    \A b \in Buses :
      locks[b] = IF routes[b].locked /\ PointerValid(routes[b], b) THEN 1 ELSE 0

(* A bus no channel plays through is given back, unless FMOD failed or the *)
(* bus went away.                                                           *)
IdleRoutesUnlocked ==
  faults = MaxFaults =>
    \A b \in Buses :
      routes[b].locked /\ PointerValid(routes[b], b) => ChannelsOn(b) # {}

(* A bus is locked for exactly as long as a channel needs it.               *)
LockedWhileUsed == ChannelsKeepLock /\ IdleRoutesUnlocked

(* As long as readiness never lapsed, every channel that plays is one a     *)
(* script or Tick can still stop.                                           *)
NoStrayChannel == hiccups = 0 => playing \subseteq Channels

(* The channels of all scripts that are due (ended, waiting for cleanup, or *)
(* attached to an entity that is gone) are retired by a Tick.               *)
DueChannelsRetire ==
  \A c \in ChannelHandles :
    c \in Channels /\ Due(c) ~> c \notin Channels \/ ~Due(c)

-----------------------------------------------------------------------------
(* What makes the properties inductive. *)

(* The locks the manager owes bus b for its route r. *)
LockOf(r, b) == IF r.locked /\ PointerValid(r, b) THEN 1 ELSE 0

(* A group is only kept locked, a lock only with the bus, and a bus pointer *)
(* is never one the bus has yet to get.                                     *)
WellFormed(r, b) ==
  /\ r \in Route
  /\ r.group => r.locked
  /\ r.locked => r.bus # 0
  /\ r.bus <= buses[b]

RoutesWellFormed == \A b \in Buses : WellFormed(routes[b], b)

(* Without a backend there are no routes. *)
NoRoutesUnready == active = NoSystem => \A b \in Buses : routes[b] = IdleRoute

(* Until the first hiccup, a system that is not the manager's is new: it     *)
(* plays nothing and has no locks.                                           *)
UnnoticedIsIdle ==
  hiccups = 0 =>
    /\ visible
    /\ active # system => playing = {} /\ \A b \in Buses : locks[b] = 0

(* LocksKnown, on a system that is gone too. *)
LocksExact ==
  hiccups = 0 /\ active = system =>
    \A b \in Buses : locks[b] = LockOf(routes[b], b)

SoundsInvariant ==
  /\ ActiveCountsExact
  /\ RoutesWellFormed
  /\ NoRoutesUnready
  /\ UnnoticedIsIdle
  /\ LocksExact
  /\ LockedWhileUsed
  /\ NoStrayChannel

=============================================================================
