----------------------------- MODULE AudioBanks -----------------------------
(***************************************************************************)
(* The Studio half of LuaUtils' AudioManager: banks loaded from CryPak     *)
(* memory and shared by path, the event paths they own, event instances    *)
(* and their entity attachments, and the per-frame Tick that retires them. *)
(*                                                                         *)
(* A pool (AudioHandlePool<Kind, T>) is a function from handles to records *)
(* or NoRecord.  The handle Emplace issues is any handle that is not in    *)
(* use: AudioHandlePool models how handles are built and why a dead one    *)
(* does not resolve.  All the operations run on the game's main thread;    *)
(* FMOD's mixer changes the state of instances between them.               *)
(***************************************************************************)
EXTENDS AudioBackend, FiniteSets

CONSTANTS
  Mods,         \* Lua scripts that hold handles
  BankPaths,    \* normalized CryPak keys of banks
  EventPaths,   \* lower-cased event paths
  BankEvents,   \* the event paths in the bank at each path
  Events3D,     \* the event paths that are 3D
  BankHandles, EventHandles, NoHandle,
  Entities, NoEntity,
  NoRecord

ASSUME BanksAssumption ==
  /\ BankEvents \in [BankPaths -> SUBSET EventPaths]
  /\ Events3D \subseteq EventPaths
  /\ NoHandle \notin BankHandles
  /\ NoEntity \notin Entities
  /\ IsFiniteSet(EventHandles) /\ IsFiniteSet(Mods)

VARIABLES
  banks,        \* m_banks: the slot value of each bank handle
  bankPaths,    \* m_bankPaths
  eventOwners,  \* m_eventOwners
  events,       \* m_events
  instances,    \* FMOD: the instance created for each event handle
  entities,     \* game: the entities that can be looked up
  held          \* Lua: the bank references each mod has yet to give back

poolVars == <<banks, bankPaths, eventOwners, events>>
banksVars == <<poolVars, instances, entities, held>>
vars == <<backendVars, banksVars>>

(* home is the FMOD system the record's pointer belongs to. *)
BankRecord == [path: BankPaths, references: Nat, activeInstances: Nat,
               home: Systems]
EventRecord == [ownerBank: BankHandles \cup {NoHandle}, is3D: BOOLEAN,
                entity: Entities \cup {NoEntity}, home: Systems]

ASSUME NoRecordAssumption == NoRecord \notin BankRecord \cup EventRecord

InstanceState == {"none", "created", "playing", "stopping", "stopped"}

BanksTypeOK ==
  /\ BackendTypeOK
  /\ banks \in [BankHandles -> BankRecord \cup {NoRecord}]
  /\ bankPaths \in [BankPaths -> BankHandles \cup {NoHandle}]
  /\ eventOwners \in [EventPaths -> BankHandles \cup {NoHandle}]
  /\ events \in [EventHandles -> EventRecord \cup {NoRecord}]
  /\ instances \in [EventHandles -> InstanceState]
  /\ entities \subseteq Entities
  /\ held \in [Mods -> SUBSET BankHandles]

BanksInit ==
  /\ banks = [b \in BankHandles |-> NoRecord]
  /\ bankPaths = [p \in BankPaths |-> NoHandle]
  /\ eventOwners = [p \in EventPaths |-> NoHandle]
  /\ events = [e \in EventHandles |-> NoRecord]
  /\ instances = [e \in EventHandles |-> "none"]
  /\ entities \in SUBSET Entities
  /\ held = [m \in Mods |-> {}]

-----------------------------------------------------------------------------
(* Reading the pools and FMOD. *)

Banks == {b \in BankHandles : banks[b] # NoRecord}
Events == {e \in EventHandles : events[e] # NoRecord}
EventsOf(b) == {e \in Events : events[e].ownerBank = b}
Valid(e) == instances[e] # "none"            \* StudioEventInstanceIsValid
Sounding(e) == instances[e] \in {"playing", "stopping"}
Holders(b) == {m \in Mods : b \in held[m]}
InjectedEvents == UNION {BankEvents[p] : p \in BankPaths}
Monus(m, n) == IF n <= m THEN m - n ELSE 0

-----------------------------------------------------------------------------
(* Banks. *)

LoadedAlready(p) == bankPaths[p] \in Banks

(* Mutant: the reference stays counted when the sample request fails. *)
KeepReferenceShareBank(m, p, sampleData) ==
  LET b == bankPaths[p] IN
  /\ LoadedAlready(p)
  /\ b \notin held[m]
  /\ banks' = [banks EXCEPT ![b].references = @ + 1]
  /\ \/ NoFailure /\ held' = [held EXCEPT ![m] = @ \cup {b}]
     \/ sampleData /\ Fails(1) /\ UNCHANGED held
  /\ UNCHANGED <<bankPaths, eventOwners, events, instances, entities>>

(* A second load of a path shares the bank.  Sample data is requested after *)
(* the reference was counted, and a failure takes it back.                  *)
ShareBank(m, p, sampleData) ==
  LET b == bankPaths[p] IN
  /\ LoadedAlready(p)
  /\ b \notin held[m]
  /\ \/ /\ banks' = [banks EXCEPT ![b].references = @ + 1]
        /\ held' = [held EXCEPT ![m] = @ \cup {b}]
        /\ NoFailure
     \/ /\ sampleData /\ Fails(1)
        /\ UNCHANGED <<banks, held>>
  /\ UNCHANGED <<bankPaths, eventOwners, events, instances, entities>>

(* An event path that a loaded bank owns keeps a second bank with the same  *)
(* event from loading.                                                      *)
PathsUnowned(p) == \A ep \in BankEvents[p] : eventOwners[ep] = NoHandle

(* The first load: every failing call unloads the FMOD bank again and       *)
(* leaves nothing behind.                                                   *)
LoadNewBank(m, p) ==
  /\ ~LoadedAlready(p)
  /\ \/ \E b \in BankHandles \ Banks :
          /\ PathsUnowned(p)
          /\ banks' = [banks EXCEPT ![b] =
               [path |-> p, references |-> 1, activeInstances |-> 0,
                home |-> active]]
          /\ bankPaths' = [bankPaths EXCEPT ![p] = b]
          /\ eventOwners' = [ep \in EventPaths |->
               IF ep \in BankEvents[p] THEN b ELSE eventOwners[ep]]
          /\ held' = [held EXCEPT ![m] = @ \cup {b}]
          /\ NoFailure
     \/ /\ Fails(1)
        /\ bankPaths' = [bankPaths EXCEPT ![p] = NoHandle]
        /\ UNCHANGED <<banks, eventOwners, held>>
  /\ UNCHANGED <<events, instances, entities>>

LoadBank(m, p, sampleData) ==
  /\ Ready
  /\ ShareBank(m, p, sampleData) \/ LoadNewBank(m, p)

(* Mutant: records erased without telling their owner. *)
SilentCountsAfter(R) == banks

(* RetireEvent, for all the instances of R: the owner's count goes down and *)
(* the record goes away.                                                    *)
CountsAfter(R) ==
  [b \in BankHandles |->
     IF b \in Banks
     THEN [banks[b] EXCEPT !.activeInstances =
             Monus(@, Cardinality(EventsOf(b) \cap R))]
     ELSE NoRecord]

EventsAfter(R) == [e \in EventHandles |-> IF e \in R THEN NoRecord ELSE events[e]]

(* FMOD's side of it: the instances of R are released, those of halted were *)
(* stopped but their release failed.                                        *)
InstancesAfter(R, halted) ==
  [e \in EventHandles |-> CASE e \in R -> "none"
                            [] e \in halted -> "stopped"
                            [] OTHER -> instances[e]]

(* Mutant: the event paths of an unloaded bank keep their owner. *)
StaleOwnersAfter(b) == eventOwners

(* The end of UnloadBank, once FMOD has unloaded the bank. *)
OwnersAfter(b) ==
  [ep \in EventPaths |->
     IF ep \in BankEvents[banks[b].path] /\ eventOwners[ep] = b
     THEN NoHandle ELSE eventOwners[ep]]

Forget(b) ==
  /\ eventOwners' = OwnersAfter(b)
  /\ bankPaths' = [bankPaths EXCEPT ![banks[b].path] = NoHandle]
  /\ held' = [m \in Mods |-> held[m] \ {b}]

(* Mutant: no refusal while events are active. *)
NeverRefused(b) == FALSE

(* What a normal unload does with the last reference: refused while events *)
(* of the bank are active.                                                  *)
UnloadRefused(b) == banks[b].activeInstances # 0

UnloadBank(m, b) ==
  /\ Ready
  /\ b \in Banks /\ b \in held[m]
  /\ \/ /\ banks[b].references > 1
        /\ banks' = [banks EXCEPT ![b].references = @ - 1]
        /\ held' = [held EXCEPT ![m] = @ \ {b}]
        /\ NoFailure
        /\ UNCHANGED <<bankPaths, eventOwners>>
     \/ /\ banks[b].references <= 1
        /\ ~UnloadRefused(b)
        /\ \/ /\ banks' = [banks EXCEPT ![b] = NoRecord]
              /\ Forget(b)
              /\ NoFailure
           \/ /\ Fails(1)
              /\ UNCHANGED <<banks, bankPaths, eventOwners, held>>
  /\ UNCHANGED <<events, instances, entities>>

(* force = true: every event of the bank is stopped and released, whatever  *)
(* the others hold.  kept are those whose stop or release fails; with any   *)
(* of them the bank stays, as it does when flushing or unloading fails.     *)
ForceUnloadBank(m, b) ==
  /\ Ready
  /\ b \in Banks /\ b \in held[m]
  /\ \E kept \in SUBSET {e \in EventsOf(b) : Valid(e)} :
     \E halted \in SUBSET kept :
       LET retired == EventsOf(b) \ kept IN
       /\ events' = EventsAfter(retired)
       /\ instances' = InstancesAfter(retired, halted)
       /\ \/ /\ kept # {}
             /\ Fails(Cardinality(kept))
             /\ banks' = CountsAfter(retired)
             /\ UNCHANGED <<bankPaths, eventOwners, held>>
          \/ /\ kept = {}
             /\ Fails(1)
             /\ banks' = CountsAfter(retired)
             /\ UNCHANGED <<bankPaths, eventOwners, held>>
          \/ /\ kept = {}
             /\ NoFailure
             /\ banks' = [CountsAfter(retired) EXCEPT ![b] = NoRecord]
             /\ Forget(b)
  /\ UNCHANGED entities

-----------------------------------------------------------------------------
(* Events. *)

(* FMOD resolves the game's own events and those of loaded banks; a bank    *)
(* the manager lost sight of (a hiccup) is still loaded.                    *)
Resolves(ep) ==
  \/ ep \notin InjectedEvents
  \/ eventOwners[ep] # NoHandle
  \/ hiccups > 0

OwnerOf(ep) == IF eventOwners[ep] \in Banks THEN eventOwners[ep] ELSE NoHandle

(* Mutant: started before its attributes are set, released without a stop. *)
StartFirstPlayEvent(ep, entity) ==
  /\ Ready /\ Resolves(ep)
  /\ entity # NoEntity => ep \in Events3D /\ entity \in entities
  /\ \E e \in EventHandles \ Events :
       /\ ~Valid(e)
       /\ Fails(1)
       /\ instances' = [instances EXCEPT ![e] = "playing"]
  /\ UNCHANGED <<poolVars, entities, held>>

(* Start is the last call that may fail, so a failure leaves no sound: the  *)
(* instance is released, and if even that fails it stays created, silent.   *)
PlayEvent(ep, entity) ==
  /\ Ready /\ Resolves(ep)
  /\ entity # NoEntity => ep \in Events3D /\ entity \in entities
  /\ \E e \in EventHandles \ Events :
       /\ ~Valid(e)
       /\ \/ /\ NoFailure
             /\ events' = [events EXCEPT ![e] =
                  [ownerBank |-> OwnerOf(ep), is3D |-> ep \in Events3D,
                   entity |-> entity, home |-> active]]
             /\ instances' = [instances EXCEPT ![e] = "playing"]
             /\ banks' = IF OwnerOf(ep) = NoHandle THEN banks
                         ELSE [banks EXCEPT ![OwnerOf(ep)].activeInstances = @ + 1]
          \/ /\ Fails(1)
             /\ UNCHANGED <<events, instances, banks>>
          \/ /\ Fails(2)
             /\ instances' = [instances EXCEPT ![e] = "created"]
             /\ UNCHANGED <<events, banks>>
  /\ UNCHANGED <<bankPaths, eventOwners, entities, held>>

(* StopEvent only asks FMOD; Tick retires the record once it has stopped.  *)
StopEvent(e, immediate) ==
  /\ Ready
  /\ e \in Events /\ Valid(e)
  /\ \/ /\ NoFailure
        /\ instances' = [instances EXCEPT ![e] =
             CASE immediate -> "stopped"
               [] ~immediate /\ @ = "playing" -> "stopping"
               [] OTHER -> @]
     \/ /\ Fails(1)
        /\ UNCHANGED instances
  /\ UNCHANGED <<poolVars, entities, held>>

AttachEventToEntity(e, entity) ==
  /\ Ready
  /\ e \in Events /\ Valid(e) /\ events[e].is3D
  /\ entity \in entities
  /\ \/ /\ NoFailure
        /\ events' = [events EXCEPT ![e].entity = entity]
     \/ Fails(1) /\ UNCHANGED events
  /\ UNCHANGED <<banks, bankPaths, eventOwners, instances, entities, held>>

DetachEvent(e) ==
  /\ Ready
  /\ e \in Events /\ Valid(e) /\ events[e].is3D
  /\ events[e].entity # NoEntity
  /\ \/ /\ NoFailure
        /\ events' = [events EXCEPT ![e].entity = NoEntity]
     \/ Fails(1) /\ UNCHANGED events
  /\ UNCHANGED <<banks, bankPaths, eventOwners, instances, entities, held>>

(* Tick retires an event whose instance is invalid, whose entity is gone or *)
(* whose playback has stopped.                                              *)
Lost(e) == events[e].entity \notin entities \cup {NoEntity}
Due(e) == ~Valid(e) \/ Lost(e) \/ instances[e] = "stopped"

(* Mutant: only invalid instances are retired, not those that stopped. *)
InvalidOnlyTickEvents(faulty) ==
  LET retired == {e \in Events \ faulty : ~Valid(e)} IN
  /\ events' = EventsAfter(retired)
  /\ banks' = CountsAfter(retired)
  /\ UNCHANGED <<instances, bankPaths, eventOwners, entities, held>>

(* The event half of Tick.  faulty are the events for which a call of FMOD  *)
(* fails: one that is due stays (halted if at least its stop succeeded),    *)
(* one that is not due is dropped as broken or stays if that fails too.     *)
TickEvents(faulty) ==
  \E dropped \in SUBSET {e \in faulty : ~Due(e)}, halted \in SUBSET faulty :
    LET retired == {e \in Events \ faulty : Due(e)} \cup dropped IN
    /\ events' = EventsAfter(retired)
    /\ banks' = CountsAfter(retired)
    /\ instances' = InstancesAfter(retired, halted)
    /\ UNCHANGED <<bankPaths, eventOwners, entities, held>>

(* others are the failures among the calls its channel half makes. *)
Tick ==
  /\ Ready
  /\ \E faulty \in SUBSET {e \in Events : Valid(e)}, others \in 0..MaxFaults :
       Fails(Cardinality(faulty) + others) /\ TickEvents(faulty)

-----------------------------------------------------------------------------
(* The backend. *)

(* Mutant: the event pool survives the change. *)
KeepEventsResetBanks ==
  /\ banks' = [b \in BankHandles |-> NoRecord]
  /\ bankPaths' = [p \in BankPaths |-> NoHandle]
  /\ eventOwners' = [ep \in EventPaths |-> NoHandle]
  /\ held' = [m \in Mods |-> {}]
  /\ UNCHANGED events

(* ResetForBackendChange forgets everything and calls nothing. *)
ResetBanks ==
  /\ banks' = [b \in BankHandles |-> NoRecord]
  /\ bankPaths' = [p \in BankPaths |-> NoHandle]
  /\ eventOwners' = [ep \in EventPaths |-> NoHandle]
  /\ events' = [e \in EventHandles |-> NoRecord]
  /\ held' = [m \in Mods |-> {}]

RefreshBackend ==
  /\ AdoptBackend
  /\ IF active # NoSystem THEN ResetBanks ELSE UNCHANGED <<poolVars, held>>
  /\ UNCHANGED <<instances, entities>>

(* A destroyed system takes its instances with it. *)
Restart(s) ==
  /\ RestartSystem(s)
  /\ instances' = [e \in EventHandles |-> "none"]
  /\ UNCHANGED <<poolVars, entities, held>>

Hiccup == (HideSystem \/ ShowSystem) /\ UNCHANGED banksVars

-----------------------------------------------------------------------------
(* FMOD and the game, between two operations. *)

(* A one-shot ends or a fade-out is over. *)
InstanceStops(e) ==
  /\ Sounding(e)
  /\ instances' = [instances EXCEPT ![e] = "stopped"]
  /\ UNCHANGED <<backendVars, poolVars, entities, held>>

(* FMOD destroys the instance (with the game's own bank, for example). *)
InstanceDies(e) ==
  /\ Valid(e)
  /\ instances' = [instances EXCEPT ![e] = "none"]
  /\ UNCHANGED <<backendVars, poolVars, entities, held>>

(* An entity despawns or is streamed in again. *)
EntityChanges(entity) ==
  /\ entities' = IF entity \in entities THEN entities \ {entity}
                 ELSE entities \cup {entity}
  /\ UNCHANGED <<backendVars, poolVars, instances, held>>

(* The operations on loose sounds have their share of the failures. *)
SoundCallsFail ==
  /\ \E n \in 1..MaxFaults : Fails(n)
  /\ UNCHANGED banksVars

-----------------------------------------------------------------------------

Init == BackendInit /\ BanksInit

ScriptStep ==
  \/ \E m \in Mods, p \in BankPaths, sampleData \in BOOLEAN :
       LoadBank(m, p, sampleData)
  \/ \E m \in Mods, b \in BankHandles : UnloadBank(m, b)
  \/ \E m \in Mods, b \in BankHandles : ForceUnloadBank(m, b)
  \/ \E ep \in EventPaths, entity \in Entities \cup {NoEntity} :
       PlayEvent(ep, entity)
  \/ \E e \in EventHandles, immediate \in BOOLEAN : StopEvent(e, immediate)
  \/ \E e \in EventHandles, entity \in Entities : AttachEventToEntity(e, entity)
  \/ \E e \in EventHandles : DetachEvent(e)

WorldStep ==
  \/ \E s \in Systems \cup {NoSystem} : Restart(s)
  \/ Hiccup
  \/ \E e \in EventHandles : InstanceStops(e)
  \/ \E e \in EventHandles : InstanceDies(e)
  \/ \E entity \in Entities : EntityChanges(entity)
  \/ SoundCallsFail

Next == ScriptStep \/ Tick \/ RefreshBackend \/ WorldStep

Spec == Init /\ [][Next]_vars

-----------------------------------------------------------------------------
(* Properties. *)

(* A bank's activeInstances, which a normal unload consults, is the number  *)
(* of live events that name the bank as their owner: whatever mixture of    *)
(* plays, failures, forced unloads and ticks went before.                   *)
InstancesCounted ==
  \A b \in Banks : banks[b].activeInstances = Cardinality(EventsOf(b))

(* No event outlives the bank it came from: UnloadBank never removes a bank *)
(* from under one of its events, not even when a forced unload half fails.  *)
OwnersLive == \A e \in Events : events[e].ownerBank \in Banks \cup {NoHandle}

(* m_bankPaths and m_eventOwners are exactly what the live banks say: every *)
(* path leads to the bank loaded from it, every owned event path to the one *)
(* bank that contains it, and nothing leads to a dead handle.               *)
PathTablesExact ==
  /\ \A p \in BankPaths, b \in BankHandles :
       bankPaths[p] = b <=> b \in Banks /\ banks[b].path = p
  /\ \A ep \in EventPaths, b \in BankHandles :
       eventOwners[ep] = b <=> b \in Banks /\ ep \in BankEvents[banks[b].path]

(* The logical reference count of a bank is the number of loads not yet     *)
(* matched by an unload, also after a load whose sample request failed; and *)
(* a mod's handle dies only by a forced unload or a change of backend.      *)
ReferencesMatch ==
  /\ \A b \in Banks : banks[b].references = Cardinality(Holders(b))
  /\ \A m \in Mods : held[m] \subseteq Banks

(* Every FMOD pointer the pools hold belongs to the backend the manager     *)
(* believes in, so an operation that passed EnsureReady never hands FMOD a  *)
(* pointer of a system that was destroyed.                                  *)
PointersCurrent ==
  /\ \A b \in Banks : banks[b].home = active
  /\ \A e \in Events : events[e].home = active

(* As long as FMOD's readiness never lapses, every instance that sounds is  *)
(* one the manager can still stop: error paths of PlayEvent, forced unloads *)
(* and retirements never let go of a playing instance.                      *)
NoStrayPlayback ==
  hiccups = 0 => \A e \in EventHandles : Sounding(e) => e \in Events

(* Event handles become stale: once the instance has stopped or is invalid, *)
(* or its entity is gone for good, a Tick retires the record, however many  *)
(* (finitely many) calls of FMOD fail on the way.                           *)
DueEventsRetire ==
  \A e \in EventHandles :
    e \in Events /\ Due(e) ~> e \notin Events \/ ~Due(e)

(* What makes these inductive: as long as readiness never lapsed, a backend *)
(* the manager has yet to notice is a new one, and nothing sounds in it.    *)
UnnoticedIsSilent ==
  hiccups = 0 =>
    /\ visible
    /\ system # active => \A e \in EventHandles : ~Sounding(e)

BanksInvariant ==
  /\ BanksTypeOK
  /\ InstancesCounted
  /\ OwnersLive
  /\ PathTablesExact
  /\ ReferencesMatch
  /\ PointersCurrent
  /\ UnnoticedIsSilent
  /\ NoStrayPlayback

=============================================================================
