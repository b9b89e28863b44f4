---------------------------- MODULE AudioManager ----------------------------
(***************************************************************************)
(* The whole of LuaUtils' AudioManager: its Studio half (banks and events) *)
(* and its Core half (sounds, channels and bus routes), which share the    *)
(* backend, the entities of the game, and one Tick per frame.              *)
(*                                                                         *)
(* An operation on banks or events is a step of AudioBanks and an operation *)
(* on loose sounds one of AudioSounds; Tick, a change of backend and the   *)
(* game's own steps are steps of both.                                     *)
(***************************************************************************)
EXTENDS AudioBackend, FiniteSets

CONSTANTS
  Mods, Entities, NoEntity, NoHandle, NoRecord,
  BankPaths, EventPaths, BankEvents, Events3D, BankHandles, EventHandles,
  SoundPaths, Buses, SoundHandles, ChannelHandles, MaxBusChanges

(* Both pools of playing things are finite, and so are the buses. *)
ASSUME ManagerAssumption ==
  IsFiniteSet(EventHandles) /\ IsFiniteSet(ChannelHandles) /\ IsFiniteSet(Buses)

VARIABLES
  banks, bankPaths, eventOwners, events, instances, bankRefs,
  sounds, soundPaths, channels, routes, playing, buses, locks, soundRefs,
  entities

studioVars == <<banks, bankPaths, eventOwners, events, instances, bankRefs>>
coreVars ==
  <<sounds, soundPaths, channels, routes, playing, buses, locks, soundRefs>>
vars == <<backendVars, studioVars, coreVars, entities>>

Studio == INSTANCE AudioBanks WITH held <- bankRefs
Core == INSTANCE AudioSounds WITH held <- soundRefs

Init == BackendInit /\ Studio!BanksInit /\ Core!SoundsInit

(* An operation on one half leaves the other alone. *)
StudioStep == Studio!ScriptStep /\ UNCHANGED coreVars
CoreStep == Core!ScriptStep /\ UNCHANGED studioVars

(* Both loops of Tick: the second runs whatever fails in the first. *)
Tick ==
  /\ Ready
  /\ \E faulty \in SUBSET {e \in Studio!Events : Studio!Valid(e)},
        broken \in SUBSET (Core!Channels \cap playing) :
       /\ Studio!TickEvents(faulty)
       /\ Core!TickChannels(broken, Cardinality(faulty) + Cardinality(broken))

(* Mutants: only the pools of one half are cleared. *)
ResetStudioOnly ==
  Studio!ResetBanks /\ UNCHANGED <<sounds, soundPaths, channels, routes, soundRefs>>

ResetCoreOnly ==
  Core!ResetSounds
  /\ UNCHANGED <<banks, bankPaths, eventOwners, events, bankRefs>>

(* One change of backend empties all four pools and every table. *)
ResetForBackendChange == Studio!ResetBanks /\ Core!ResetSounds

RefreshBackend ==
  /\ AdoptBackend
  /\ IF active # NoSystem THEN ResetForBackendChange
     ELSE UNCHANGED <<banks, bankPaths, eventOwners, events, bankRefs,
                      sounds, soundPaths, channels, routes, soundRefs>>
  /\ UNCHANGED <<instances, playing, buses, locks, entities>>

(* The game and FMOD. *)
Restart(s) == Studio!Restart(s) /\ Core!Restart(s)

Hiccup == Studio!Hiccup /\ Core!Hiccup

EntityChanges(entity) == Studio!EntityChanges(entity) /\ Core!EntityChanges(entity)

InstanceChanges(e) ==
  (Studio!InstanceStops(e) \/ Studio!InstanceDies(e)) /\ UNCHANGED coreVars

ChannelEnds(c) == Core!ChannelEnds(c) /\ UNCHANGED studioVars

BusChanges(b) == Core!BusChanges(b) /\ UNCHANGED studioVars

Next ==
  \/ StudioStep \/ CoreStep
  \/ Tick \/ RefreshBackend
  \/ \E s \in Systems \cup {NoSystem} : Restart(s)
  \/ Hiccup
  \/ \E entity \in Entities : EntityChanges(entity)
  \/ \E e \in EventHandles : InstanceChanges(e)
  \/ \E c \in ChannelHandles : ChannelEnds(c)
  \/ \E b \in Buses : BusChanges(b)

(* TickAudio queues itself again every frame, and every Tick refreshes. *)
Fairness == WF_vars(Tick) /\ WF_vars(RefreshBackend)

Spec == Init /\ [][Next]_vars
FairSpec == Spec /\ Fairness

-----------------------------------------------------------------------------
(* Properties. *)

(* Seen from its banks and events the manager is AudioBanks: nothing the   *)
(* operations on loose sounds, the shared Tick or the shared backend do is *)
(* more than AudioBanks allows for, so what holds there holds here.         *)
ImplementsStudio == Studio!Spec

(* And seen from its sounds, channels and routes it is AudioSounds. *)
ImplementsCore == Core!Spec

(* However calls fail, handles go stale and the backend changes, a Tick     *)
(* retires every event that is due, and every channel, failures in the      *)
(* other half included.                                                     *)
DueRetire == Studio!DueEventsRetire /\ Core!DueChannelsRetire

=============================================================================
