-------------------------- MODULE AudioBanksProofs --------------------------
(***************************************************************************)
(* Proofs about AudioBanks for any number of mods, banks, events, restarts *)
(* and failures.                                                           *)
(***************************************************************************)
EXTENDS AudioBanks, FiniteSetTheorems, TLAPS

USE BackendAssumption, BanksAssumption, NoRecordAssumption

-----------------------------------------------------------------------------
(* Sets of events are finite, and counting them gives numbers. *)
LEMMA EventSets ==
  ASSUME NEW S \in SUBSET EventHandles
  PROVE  IsFiniteSet(S) /\ Cardinality(S) \in Nat
BY FS_Subset, FS_CardinalityType

(* So are sets of mods. *)
LEMMA ModSets ==
  ASSUME NEW S \in SUBSET Mods
  PROVE  IsFiniteSet(S) /\ Cardinality(S) \in Nat
BY FS_Subset, FS_CardinalityType

(* A step of the manager changes nothing of the backend but the number of  *)
(* failures left.                                                          *)
LEMMA FailsKeepsBackend ==
  ASSUME BackendTypeOK, NEW n \in Nat, NoFailure \/ Fails(n)
  PROVE  /\ BackendTypeOK'
         /\ UNCHANGED <<system, visible, active, epoch, restarts, hiccups>>
BY DEF BackendTypeOK, NoFailure, Fails, backendVars

-----------------------------------------------------------------------------
(* Retiring a set R of events: what ForceUnloadBank and Tick share. *)

(* Retired events leave tables of the right shape. *)
LEMMA RetireTypes ==
  ASSUME BanksTypeOK, NEW R \in SUBSET Events, NEW H \in SUBSET EventHandles
  PROVE  /\ CountsAfter(R) \in [BankHandles -> BankRecord \cup {NoRecord}]
         /\ EventsAfter(R) \in [EventHandles -> EventRecord \cup {NoRecord}]
         /\ InstancesAfter(R, H) \in [EventHandles -> InstanceState]
<1>1. ASSUME NEW b \in BankHandles, banks[b] # NoRecord
      PROVE  [banks[b] EXCEPT !.activeInstances =
                 Monus(@, Cardinality(EventsOf(b) \cap R))] \in BankRecord
  <2>1. banks[b] \in BankRecord
    BY <1>1 DEF BanksTypeOK
  <2>2. Cardinality(EventsOf(b) \cap R) \in Nat
    BY EventSets DEF EventsOf, Events
  <2>. QED BY <2>1, <2>2 DEF BankRecord, Monus
<1>2. CountsAfter(R) \in [BankHandles -> BankRecord \cup {NoRecord}]
  BY <1>1 DEF CountsAfter, Banks
<1>3. EventsAfter(R) \in [EventHandles -> EventRecord \cup {NoRecord}]
  BY DEF EventsAfter, BanksTypeOK
<1>4. InstancesAfter(R, H) \in [EventHandles -> InstanceState]
  BY DEF InstancesAfter, BanksTypeOK, InstanceState
<1>. QED BY <1>2, <1>3, <1>4

(* The counts stay exact: a bank loses one for each of its retired events. *)
LEMMA RetireCounts ==
  ASSUME BanksTypeOK, InstancesCounted, NEW R \in SUBSET Events,
         banks' = CountsAfter(R), events' = EventsAfter(R)
  PROVE  /\ Banks' = Banks
         /\ Events' = Events \ R
         /\ \A e \in Events' : events'[e] = events[e]
         /\ \A b \in Banks : /\ EventsOf(b)' = EventsOf(b) \ R
                            /\ banks'[b].activeInstances = Cardinality(EventsOf(b)')
                            /\ banks'[b].path = banks[b].path
                            /\ banks'[b].references = banks[b].references
                            /\ banks'[b].home = banks[b].home
<1>1. ASSUME NEW b \in Banks
      PROVE  /\ banks'[b] # NoRecord
             /\ banks'[b].activeInstances =
                   Monus(banks[b].activeInstances, Cardinality(EventsOf(b) \cap R))
             /\ banks'[b].path = banks[b].path
             /\ banks'[b].references = banks[b].references
             /\ banks'[b].home = banks[b].home
  <2>1. banks[b] \in BankRecord
    BY DEF BanksTypeOK, Banks
  <2>2. /\ CountsAfter(R) \in [BankHandles -> BankRecord \cup {NoRecord}]
        /\ Cardinality(EventsOf(b) \cap R) \in Nat
    BY RetireTypes, EventSets DEF EventsOf, Events
  <2>3. banks'[b] = [banks[b] EXCEPT !.activeInstances =
                       Monus(@, Cardinality(EventsOf(b) \cap R))]
    BY DEF CountsAfter, Banks
  <2>4. banks'[b] \in BankRecord
    BY <2>1, <2>2, <2>3 DEF BankRecord, Monus
  <2>. QED BY <2>1, <2>2, <2>3, <2>4 DEF BankRecord
<1>2. Banks' = Banks
  BY <1>1 DEF CountsAfter, Banks
<1>3. /\ Events' = Events \ R
      /\ \A e \in Events' : events'[e] = events[e]
  BY DEF EventsAfter, Events
<1>4. ASSUME NEW b \in Banks
      PROVE  /\ EventsOf(b)' = EventsOf(b) \ R
             /\ banks'[b].activeInstances = Cardinality(EventsOf(b)')
  <2>1. EventsOf(b)' = EventsOf(b) \ R
    BY <1>3 DEF EventsOf
  <2>2. Cardinality(EventsOf(b) \ R) =
          Cardinality(EventsOf(b)) - Cardinality(EventsOf(b) \cap R)
    BY EventSets, FS_Difference DEF EventsOf, Events
  <2>3. /\ Cardinality(EventsOf(b)) \in Nat
        /\ Cardinality(EventsOf(b) \cap R) \in Nat
        /\ Cardinality(EventsOf(b) \cap R) <= Cardinality(EventsOf(b))
    BY EventSets, FS_Intersection DEF EventsOf, Events
  <2>. QED BY <1>1, <2>1, <2>2, <2>3 DEF InstancesCounted, Monus
<1>. QED BY <1>1, <1>2, <1>3, <1>4


-----------------------------------------------------------------------------
(* A step that leaves the pools and the references alone, and lets nothing *)
(* sound that did not sound before.                                        *)
LEMMA QuietStep ==
  ASSUME BanksInvariant, UNCHANGED <<poolVars, held, active>>,
         BackendTypeOK', UnnoticedIsSilent',
         entities' \subseteq Entities,
         instances' \in [EventHandles -> InstanceState],
         hiccups' = 0 => hiccups = 0,
         \A e \in EventHandles : Sounding(e)' => Sounding(e)
  PROVE  BanksInvariant'
<1>1. /\ Banks' = Banks
      /\ Events' = Events
      /\ \A b \in BankHandles : EventsOf(b)' = EventsOf(b)
      /\ \A b \in BankHandles : Holders(b)' = Holders(b)
  BY DEF poolVars, Banks, Events, EventsOf, Holders
<1>2. BanksTypeOK'
  BY DEF BanksInvariant, BanksTypeOK, poolVars
<1>3. InstancesCounted' /\ OwnersLive' /\ ReferencesMatch' /\ PointersCurrent'
  BY <1>1 DEF BanksInvariant, InstancesCounted, OwnersLive, ReferencesMatch,
              PointersCurrent, poolVars, Banks
<1>4. PathTablesExact'
  BY <1>1 DEF BanksInvariant, PathTablesExact, poolVars
<1>5. NoStrayPlayback'
  BY <1>1 DEF BanksInvariant, NoStrayPlayback
<1>. QED BY <1>2, <1>3, <1>4, <1>5 DEF BanksInvariant

(* The manager's calls fail and nothing else happens. *)
LEMMA FailedCall ==
  ASSUME BanksInvariant, UNCHANGED banksVars, NEW n \in Nat, NoFailure \/ Fails(n)
  PROVE  BanksInvariant'
<1>1. /\ BackendTypeOK'
      /\ UNCHANGED <<system, visible, active, epoch, restarts, hiccups>>
  BY FailsKeepsBackend DEF BanksInvariant, BanksTypeOK
<1>2. UnnoticedIsSilent'
  BY <1>1 DEF BanksInvariant, UnnoticedIsSilent, banksVars, Sounding
<1>. QED BY <1>1, <1>2, QuietStep
         DEF BanksInvariant, BanksTypeOK, banksVars, Sounding

(* Retiring events of which none sounds any more, and nothing else. *)
LEMMA RetirePreserves ==
  ASSUME BanksInvariant, NEW R \in SUBSET Events, NEW H \in SUBSET EventHandles,
         events' = EventsAfter(R), banks' = CountsAfter(R),
         instances' = InstancesAfter(R, H),
         UNCHANGED <<bankPaths, eventOwners, held, entities>>,
         BackendTypeOK',
         UNCHANGED <<system, visible, active, hiccups>>
  PROVE  BanksInvariant'
<1>1. /\ Banks' = Banks
      /\ Events' = Events \ R
      /\ \A e \in Events' : events'[e] = events[e]
      /\ \A b \in Banks : /\ banks'[b].activeInstances = Cardinality(EventsOf(b)')
                         /\ banks'[b].path = banks[b].path
                         /\ banks'[b].references = banks[b].references
                         /\ banks'[b].home = banks[b].home
  BY RetireCounts DEF BanksInvariant
<1>2. BanksTypeOK'
  BY RetireTypes DEF BanksInvariant, BanksTypeOK
<1>3. InstancesCounted' /\ PointersCurrent' /\ OwnersLive'
  BY <1>1 DEF BanksInvariant, InstancesCounted, PointersCurrent, OwnersLive
<1>4. PathTablesExact'
  BY <1>1 DEF BanksInvariant, PathTablesExact
<1>5. ReferencesMatch'
  <2>1. \A b \in BankHandles : Holders(b)' = Holders(b)
    BY DEF Holders
  <2>. QED BY <1>1, <2>1 DEF BanksInvariant, ReferencesMatch, Banks
<1>6. \A e \in EventHandles : Sounding(e)' => Sounding(e) /\ e \notin R
  BY DEF InstancesAfter, Sounding
<1>7. UnnoticedIsSilent' /\ NoStrayPlayback'
  BY <1>1, <1>6 DEF BanksInvariant, UnnoticedIsSilent, NoStrayPlayback
<1>. QED BY <1>2, <1>3, <1>4, <1>5, <1>7 DEF BanksInvariant

-----------------------------------------------------------------------------
(* Banks. *)

(* LoadBank of a path that is loaded: one more reference, or the failed call *)
(* takes it back.                                                           *)
LEMMA SharePreserves ==
  ASSUME BanksInvariant, NEW m \in Mods, NEW p \in BankPaths,
         NEW sampleData \in BOOLEAN, ShareBank(m, p, sampleData)
  PROVE  BanksInvariant'
<1> PICK b \in BankHandles : b = bankPaths[p]
  BY DEF ShareBank, LoadedAlready, Banks
<1>0. BanksTypeOK /\ b \in Banks /\ b \notin held[m] /\ banks[b] \in BankRecord
  BY DEF BanksInvariant, BanksTypeOK, ShareBank, LoadedAlready, Banks
<1>1. /\ BackendTypeOK'
      /\ UNCHANGED <<system, visible, active, epoch, restarts, hiccups>>
  BY FailsKeepsBackend DEF BanksTypeOK, BanksInvariant, ShareBank
<1>2. /\ UNCHANGED <<bankPaths, eventOwners, events, instances, entities>>
      /\ EventsOf(b)' = EventsOf(b)
  BY DEF ShareBank, EventsOf, Events
<1>3. CASE UNCHANGED <<banks, held>> /\ Fails(1)
  BY <1>2, <1>3, FailedCall DEF banksVars, poolVars
<1>4. CASE /\ banks' = [banks EXCEPT ![b].references = @ + 1]
           /\ held' = [held EXCEPT ![m] = @ \cup {b}]
  <2>1. /\ banks' \in [BankHandles -> BankRecord \cup {NoRecord}]
        /\ held' \in [Mods -> SUBSET BankHandles]
        /\ Banks' = Banks
        /\ \A c \in Banks : /\ banks'[c].path = banks[c].path
                           /\ banks'[c].home = banks[c].home
                           /\ banks'[c].activeInstances = banks[c].activeInstances
                           /\ banks'[c].references =
                                 IF c = b THEN banks[c].references + 1
                                 ELSE banks[c].references
    <3>1. banks'[b] = [banks[b] EXCEPT !.references = @ + 1]
      BY <1>0, <1>4 DEF BanksTypeOK
    <3>2. /\ banks'[b] \in BankRecord
          /\ banks'[b].path = banks[b].path
          /\ banks'[b].home = banks[b].home
          /\ banks'[b].activeInstances = banks[b].activeInstances
          /\ banks'[b].references = banks[b].references + 1
      BY <1>0, <3>1 DEF BankRecord
    <3>3. \A c \in BankHandles \ {b} : banks'[c] = banks[c]
      BY <1>0, <1>4 DEF BanksTypeOK
    <3>4. banks' \in [BankHandles -> BankRecord \cup {NoRecord}]
      BY <1>0, <1>4, <3>2, <3>3 DEF BanksTypeOK
    <3>5. Banks' = Banks
      BY <1>0, <3>2, <3>3 DEF Banks
    <3>. QED BY <1>0, <1>4, <3>2, <3>3, <3>4, <3>5 DEF BanksTypeOK, Banks
  <2>2. Events' = Events /\ \A c \in BankHandles : EventsOf(c)' = EventsOf(c)
    BY <1>2 DEF Events, EventsOf
  <2>3. ReferencesMatch'
    <3>1. ASSUME NEW c \in Banks
          PROVE  banks'[c].references = Cardinality(Holders(c)')
      <4>1. CASE c = b
        <5>1. Holders(b)' = Holders(b) \cup {m} /\ m \notin Holders(b)
          BY <1>0, <1>4 DEF Holders, BanksTypeOK
        <5>2. IsFiniteSet(Holders(b))
          BY ModSets DEF Holders
        <5>3. Cardinality(Holders(b) \cup {m}) = Cardinality(Holders(b)) + 1
          BY <5>1, <5>2, FS_AddElement
        <5>4. banks[b].references = Cardinality(Holders(b))
          BY <1>0 DEF BanksInvariant, ReferencesMatch
        <5>. QED BY <4>1, <5>1, <5>3, <5>4, <2>1
      <4>2. CASE c # b
        <5>1. Holders(c)' = Holders(c)
          BY <1>0, <1>4, <4>2 DEF Holders, BanksTypeOK
        <5>. QED BY <4>2, <5>1, <2>1 DEF BanksInvariant, ReferencesMatch
      <4>. QED BY <4>1, <4>2
    <3>2. \A n \in Mods : held'[n] \subseteq Banks'
      BY <1>0, <1>4, <2>1 DEF BanksInvariant, BanksTypeOK, ReferencesMatch
    <3>. QED BY <3>1, <3>2, <2>1 DEF ReferencesMatch
  <2>. QED
    BY <1>0, <1>1, <1>2, <2>1, <2>2, <2>3
       DEF BanksInvariant, BanksTypeOK, InstancesCounted, OwnersLive, PathTablesExact,
           PointersCurrent, UnnoticedIsSilent, NoStrayPlayback, Banks, Events, Sounding
<1>. QED BY <1>3, <1>4 DEF ShareBank

(* LoadBank of a new path, which may fail at every one of its calls. *)
LEMMA LoadNewPreserves ==
  ASSUME BanksInvariant, Ready, NEW m \in Mods, NEW p \in BankPaths,
         LoadNewBank(m, p)
  PROVE  BanksInvariant'
<1>0. BanksTypeOK /\ UNCHANGED <<events, instances, entities>> /\ active \in Systems
  BY DEF BanksInvariant, BanksTypeOK, BackendTypeOK, LoadNewBank, Ready
<1>1. /\ BackendTypeOK'
      /\ UNCHANGED <<system, visible, active, epoch, restarts, hiccups>>
  BY FailsKeepsBackend DEF BanksTypeOK, BanksInvariant, LoadNewBank
<1>2. bankPaths[p] = NoHandle
  BY DEF LoadNewBank, LoadedAlready, BanksInvariant, BanksTypeOK, PathTablesExact
<1>3. CASE /\ Fails(1)
           /\ bankPaths' = [bankPaths EXCEPT ![p] = NoHandle]
           /\ UNCHANGED <<banks, eventOwners, held>>
  <2>1. bankPaths' = bankPaths
    BY <1>2, <1>3 DEF BanksInvariant, BanksTypeOK
  <2>. QED BY <1>0, <1>3, <2>1, FailedCall DEF banksVars, poolVars
<1>4. ASSUME NEW b \in BankHandles \ Banks,
             PathsUnowned(p),
             banks' = [banks EXCEPT ![b] =
               [path |-> p, references |-> 1, activeInstances |-> 0,
                home |-> active]],
             bankPaths' = [bankPaths EXCEPT ![p] = b],
             eventOwners' = [ep \in EventPaths |->
               IF ep \in BankEvents[p] THEN b ELSE eventOwners[ep]],
             held' = [held EXCEPT ![m] = @ \cup {b}]
      PROVE  BanksInvariant'
  <2>1. [path |-> p, references |-> 1, activeInstances |-> 0, home |-> active]
          \in BankRecord
    BY <1>0 DEF BankRecord
  <2>2. /\ banks'[b] = [path |-> p, references |-> 1, activeInstances |-> 0,
                         home |-> active]
        /\ \A c \in BankHandles \ {b} : banks'[c] = banks[c]
        /\ banks' \in [BankHandles -> BankRecord \cup {NoRecord}]
    BY <1>0, <1>4, <2>1 DEF BanksTypeOK
  <2>3. Banks' = Banks \cup {b}
    BY <2>1, <2>2 DEF Banks
  <2>4. /\ Events' = Events
        /\ \A c \in BankHandles : EventsOf(c)' = EventsOf(c)
    BY <1>0 DEF Events, EventsOf
  <2>5. BanksTypeOK'
    BY <1>0, <1>1, <1>4, <2>2 DEF BanksTypeOK
  <2>6. EventsOf(b) = {}
    BY DEF BanksInvariant, OwnersLive, EventsOf
  <2>7. InstancesCounted'
    BY <2>2, <2>3, <2>4, <2>6, FS_EmptySet DEF BanksInvariant, InstancesCounted, Banks
  <2>8. OwnersLive' /\ PointersCurrent'
    BY <1>0, <1>1, <2>2, <2>3, <2>4 DEF BanksInvariant, OwnersLive, PointersCurrent, Banks
  <2>9. PathTablesExact'
    <3>1. ASSUME NEW q \in BankPaths, NEW c \in BankHandles
          PROVE  (bankPaths'[q] = c) <=> c \in Banks' /\ banks'[c].path = q
      BY <1>0, <1>2, <1>4, <2>2, <2>3
         DEF BanksInvariant, BanksTypeOK, PathTablesExact, Banks
    <3>2. ASSUME NEW ep \in EventPaths, NEW c \in BankHandles
          PROVE  (eventOwners'[ep] = c) <=>
                   c \in Banks' /\ ep \in BankEvents[banks'[c].path]
      BY <1>0, <1>4, <2>2, <2>3
         DEF BanksInvariant, BanksTypeOK, PathTablesExact, PathsUnowned, Banks
    <3>. QED BY <3>1, <3>2 DEF PathTablesExact
  <2>10. ReferencesMatch'
    <3>1. b \notin UNION {held[n] : n \in Mods}
      BY DEF BanksInvariant, ReferencesMatch
    <3>2. Holders(b)' = {m}
      BY <1>0, <1>4, <3>1 DEF Holders, BanksTypeOK
    <3>3. \A c \in Banks : Holders(c)' = Holders(c)
      BY <1>0, <1>4 DEF Holders, BanksTypeOK
    <3>4. Cardinality({m}) = 1
      BY FS_Singleton
    <3>5. \A n \in Mods : held'[n] \subseteq Banks'
      BY <1>0, <1>4, <2>3 DEF BanksInvariant, BanksTypeOK, ReferencesMatch
    <3>6. ASSUME NEW c \in Banks'
          PROVE  banks'[c].references = Cardinality(Holders(c)')
      <4>1. CASE c = b
        BY <2>2, <3>2, <3>4, <4>1
      <4>2. CASE c \in Banks
        BY <2>2, <3>3, <4>2 DEF BanksInvariant, ReferencesMatch, Banks
      <4>. QED BY <2>3, <4>1, <4>2
    <3>. QED BY <3>5, <3>6 DEF ReferencesMatch
  <2>11. UnnoticedIsSilent' /\ NoStrayPlayback'
    BY <1>0, <1>1, <2>4 DEF BanksInvariant, UnnoticedIsSilent, NoStrayPlayback, Sounding
  <2>. QED BY <2>5, <2>7, <2>8, <2>9, <2>10, <2>11 DEF BanksInvariant
<1>. QED BY <1>3, <1>4 DEF LoadNewBank

(* Erasing a bank without events, with its path, its event paths and every *)
(* reference to it: the end of both ways to unload.                        *)
LEMMA ForgetPreserves ==
  ASSUME BanksInvariant, NEW b \in Banks, NEW kept \in SUBSET Events,
         kept \cap EventsOf(b) = {},
         Events' = kept, \A e \in kept : events'[e] = events[e],
         banks' \in [BankHandles -> BankRecord \cup {NoRecord}],
         events' \in [EventHandles -> EventRecord \cup {NoRecord}],
         instances' \in [EventHandles -> InstanceState],
         Banks' = Banks \ {b},
         \A c \in Banks' :
           /\ banks'[c].path = banks[c].path
           /\ banks'[c].references = banks[c].references
           /\ banks'[c].home = banks[c].home
           /\ banks'[c].activeInstances = Cardinality(EventsOf(c)'),
         \A e \in EventHandles : Sounding(e)' => Sounding(e),
         \A e \in EventHandles : Sounding(e)' => e \notin Events \ kept,
         Forget(b), UNCHANGED entities,
         BackendTypeOK',
         UNCHANGED <<system, visible, active, hiccups>>
  PROVE  BanksInvariant'
<1>1. banks[b] \in BankRecord /\ BanksTypeOK
  BY DEF BanksInvariant, BanksTypeOK, Banks
<1>2. BanksTypeOK'
  BY <1>1 DEF BanksTypeOK, Forget, OwnersAfter, BankRecord
<1>3. InstancesCounted' /\ PointersCurrent'
  BY DEF BanksInvariant, InstancesCounted, PointersCurrent
<1>4. OwnersLive'
  BY DEF BanksInvariant, OwnersLive, EventsOf
<1>5. PathTablesExact'
  <2>1. ASSUME NEW q \in BankPaths, NEW c \in BankHandles
        PROVE  (bankPaths'[q] = c) <=> c \in Banks' /\ banks'[c].path = q
    <3>1. bankPaths'[q] = IF q = banks[b].path THEN NoHandle ELSE bankPaths[q]
      BY <1>1 DEF BanksTypeOK, Forget
    <3>2. (bankPaths[q] = c) <=> c \in Banks /\ banks[c].path = q
      BY DEF BanksInvariant, PathTablesExact
    <3>3. (bankPaths[banks[b].path] = b) /\ b \in BankHandles
      BY <1>1 DEF BanksInvariant, PathTablesExact, BankRecord, Banks
    <3>4. CASE q = banks[b].path
      BY <3>1, <3>2, <3>3, <3>4
    <3>5. CASE q # banks[b].path
      BY <3>1, <3>2, <3>5
    <3>. QED BY <3>4, <3>5
  <2>2. ASSUME NEW ep \in EventPaths, NEW c \in BankHandles
        PROVE  (eventOwners'[ep] = c) <=>
                 c \in Banks' /\ ep \in BankEvents[banks'[c].path]
    BY <1>1 DEF BanksInvariant, BanksTypeOK, PathTablesExact, Forget, OwnersAfter
  <2>. QED BY <2>1, <2>2 DEF PathTablesExact
<1>6. ReferencesMatch'
  <2>1. \A c \in Banks' : Holders(c)' = Holders(c)
    BY <1>1 DEF Holders, Forget, BanksTypeOK
  <2>2. \A m \in Mods : held'[m] \subseteq Banks'
    BY DEF BanksInvariant, ReferencesMatch, Forget
  <2>3. ASSUME NEW c \in Banks'
        PROVE  banks'[c].references = Cardinality(Holders(c)')
    BY <2>1 DEF BanksInvariant, ReferencesMatch
  <2>. QED BY <2>2, <2>3 DEF ReferencesMatch
<1>7. UnnoticedIsSilent' /\ NoStrayPlayback'
  BY DEF BanksInvariant, UnnoticedIsSilent, NoStrayPlayback
<1>. QED BY <1>2, <1>3, <1>4, <1>5, <1>6, <1>7 DEF BanksInvariant

(* A normal unload: refused, one reference less, or the bank is forgotten. *)
LEMMA UnloadPreserves ==
  ASSUME BanksInvariant, NEW m \in Mods, NEW b \in BankHandles, UnloadBank(m, b)
  PROVE  BanksInvariant'
<1>0. /\ BanksTypeOK /\ b \in Banks /\ b \in held[m] /\ banks[b] \in BankRecord
      /\ UNCHANGED <<events, instances, entities>>
      /\ Events' = Events
      /\ \A c \in BankHandles : EventsOf(c)' = EventsOf(c)
  BY DEF BanksInvariant, BanksTypeOK, UnloadBank, Banks, Events, EventsOf
<1>1. /\ BackendTypeOK'
      /\ UNCHANGED <<system, visible, active, epoch, restarts, hiccups>>
  BY FailsKeepsBackend DEF BanksTypeOK, BanksInvariant, UnloadBank
<1>2. CASE /\ Fails(1)
           /\ UNCHANGED <<banks, bankPaths, eventOwners, held>>
  BY <1>0, <1>2, FailedCall DEF banksVars, poolVars
<1>3. CASE /\ banks[b].references > 1
           /\ banks' = [banks EXCEPT ![b].references = @ - 1]
           /\ held' = [held EXCEPT ![m] = @ \ {b}]
           /\ UNCHANGED <<bankPaths, eventOwners>>
  <2>1. banks'[b] = [banks[b] EXCEPT !.references = @ - 1]
    BY <1>0, <1>3 DEF BanksTypeOK
  <2>2. /\ banks'[b] \in BankRecord
        /\ banks'[b].path = banks[b].path
        /\ banks'[b].home = banks[b].home
        /\ banks'[b].activeInstances = banks[b].activeInstances
        /\ banks'[b].references = banks[b].references - 1
    BY <1>0, <1>3, <2>1 DEF BankRecord
  <2>3. \A c \in BankHandles \ {b} : banks'[c] = banks[c]
    BY <1>0, <1>3 DEF BanksTypeOK
  <2>4. banks' \in [BankHandles -> BankRecord \cup {NoRecord}]
    BY <1>0, <1>3, <2>2, <2>3 DEF BanksTypeOK
  <2>5. Banks' = Banks
    BY <1>0, <2>2, <2>3 DEF Banks
  <2>6. ReferencesMatch'
    <3>1. ASSUME NEW c \in Banks
          PROVE  banks'[c].references = Cardinality(Holders(c)')
      <4>1. CASE c = b
        <5>1. Holders(b)' = Holders(b) \ {m} /\ m \in Holders(b)
          BY <1>0, <1>3 DEF Holders, BanksTypeOK
        <5>2. IsFiniteSet(Holders(b)) /\ Cardinality(Holders(b)) \in Nat
          BY ModSets DEF Holders
        <5>3. Cardinality(Holders(b) \ {m}) = Cardinality(Holders(b)) - 1
          BY <5>1, <5>2, FS_RemoveElement
        <5>4. banks[b].references = Cardinality(Holders(b))
          BY <1>0 DEF BanksInvariant, ReferencesMatch
        <5>. QED BY <4>1, <5>1, <5>3, <5>4, <2>2
      <4>2. CASE c # b
        <5>1. Holders(c)' = Holders(c)
          BY <1>0, <1>3, <4>2 DEF Holders, BanksTypeOK
        <5>. QED BY <4>2, <5>1, <2>3 DEF BanksInvariant, ReferencesMatch, Banks
      <4>. QED BY <4>1, <4>2
    <3>2. \A n \in Mods : held'[n] \subseteq Banks'
      BY <1>0, <1>3, <2>5 DEF BanksInvariant, BanksTypeOK, ReferencesMatch
    <3>. QED BY <3>1, <3>2, <2>5 DEF ReferencesMatch
  <2>7. BanksTypeOK'
    BY <1>0, <1>1, <1>3, <2>4 DEF BanksTypeOK
  <2>8. \A c \in Banks : /\ banks'[c].path = banks[c].path
                         /\ banks'[c].home = banks[c].home
                         /\ banks'[c].activeInstances = banks[c].activeInstances
    BY <2>2, <2>3 DEF Banks
  <2>9. InstancesCounted' /\ PointersCurrent' /\ OwnersLive'
    BY <1>0, <1>1, <2>5, <2>8
       DEF BanksInvariant, InstancesCounted, PointersCurrent, OwnersLive, Banks
  <2>10. PathTablesExact'
    BY <1>3, <2>5, <2>8 DEF BanksInvariant, PathTablesExact
  <2>11. UnnoticedIsSilent' /\ NoStrayPlayback'
    BY <1>0, <1>1 DEF BanksInvariant, UnnoticedIsSilent, NoStrayPlayback, Sounding
  <2>. QED BY <2>6, <2>7, <2>9, <2>10, <2>11 DEF BanksInvariant
<1>4. CASE /\ ~UnloadRefused(b)
           /\ banks' = [banks EXCEPT ![b] = NoRecord]
           /\ Forget(b)
  <2>1. EventsOf(b) = {}
    BY <1>0, <1>4, EventSets, FS_EmptySet
       DEF BanksInvariant, InstancesCounted, UnloadRefused, EventsOf, Events
  <2>2. /\ banks'[b] = NoRecord
        /\ \A c \in BankHandles \ {b} : banks'[c] = banks[c]
        /\ banks' \in [BankHandles -> BankRecord \cup {NoRecord}]
    BY <1>0, <1>4 DEF BanksTypeOK
  <2>3. Banks' = Banks \ {b}
    BY <2>2 DEF Banks
  <2>4. \A c \in Banks' :
           /\ banks'[c].path = banks[c].path
           /\ banks'[c].references = banks[c].references
           /\ banks'[c].home = banks[c].home
           /\ banks'[c].activeInstances = Cardinality(EventsOf(c)')
    BY <1>0, <2>2, <2>3 DEF BanksInvariant, InstancesCounted, Banks
  <2>5. \A e \in EventHandles : Sounding(e)' => Sounding(e)
    BY <1>0 DEF Sounding
  <2>6. /\ events' \in [EventHandles -> EventRecord \cup {NoRecord}]
        /\ instances' \in [EventHandles -> InstanceState]
        /\ \A e \in Events : events'[e] = events[e]
    BY <1>0 DEF BanksTypeOK
  <2>. QED
    BY <1>0, <1>1, <1>4, <2>1, <2>2, <2>3, <2>4, <2>5, <2>6, ForgetPreserves
<1>. QED BY <1>2, <1>3, <1>4 DEF UnloadBank

(* A forced unload, which may stop some events and then give up. *)
LEMMA ForceUnloadPreserves ==
  ASSUME BanksInvariant, NEW m \in Mods, NEW b \in BankHandles,
         ForceUnloadBank(m, b)
  PROVE  BanksInvariant'
<1>0. BanksTypeOK /\ b \in Banks /\ UNCHANGED entities
  BY DEF BanksInvariant, ForceUnloadBank
<1>1. PICK kept \in SUBSET EventsOf(b), halted \in SUBSET EventsOf(b) :
        /\ events' = EventsAfter(EventsOf(b) \ kept)
        /\ instances' = InstancesAfter(EventsOf(b) \ kept, halted)
        /\ \/ /\ Fails(Cardinality(kept)) \/ Fails(1)
              /\ banks' = CountsAfter(EventsOf(b) \ kept)
              /\ UNCHANGED <<bankPaths, eventOwners, held>>
           \/ /\ kept = {}
              /\ NoFailure
              /\ banks' = [CountsAfter(EventsOf(b) \ kept) EXCEPT ![b] = NoRecord]
              /\ Forget(b)
  BY DEF ForceUnloadBank
<1> DEFINE R == EventsOf(b) \ kept
<1>2. /\ R \in SUBSET Events /\ halted \in SUBSET EventHandles
      /\ kept \in SUBSET EventHandles
  BY DEF EventsOf, Events
<1>3. CASE /\ Fails(Cardinality(kept)) \/ Fails(1)
           /\ banks' = CountsAfter(R)
           /\ UNCHANGED <<bankPaths, eventOwners, held>>
  <2>1. /\ BackendTypeOK'
        /\ UNCHANGED <<system, visible, active, epoch, restarts, hiccups>>
    BY <1>0, <1>2, <1>3, EventSets, FailsKeepsBackend DEF BanksTypeOK
  <2>. QED BY <1>0, <1>1, <1>2, <1>3, <2>1, RetirePreserves
<1>4. CASE /\ kept = {}
           /\ NoFailure
           /\ banks' = [CountsAfter(R) EXCEPT ![b] = NoRecord]
           /\ Forget(b)
  <2>0. R = EventsOf(b)
    BY <1>4
  <2>1. /\ BackendTypeOK'
        /\ UNCHANGED <<system, visible, active, epoch, restarts, hiccups>>
    BY <1>0, <1>4, FailsKeepsBackend DEF BanksTypeOK
  <2>2. /\ CountsAfter(R) \in [BankHandles -> BankRecord \cup {NoRecord}]
        /\ events' \in [EventHandles -> EventRecord \cup {NoRecord}]
        /\ instances' \in [EventHandles -> InstanceState]
    BY <1>0, <1>1, <1>2, RetireTypes
  <2>3. /\ banks'[b] = NoRecord
        /\ \A c \in BankHandles \ {b} : banks'[c] = CountsAfter(R)[c]
        /\ banks' \in [BankHandles -> BankRecord \cup {NoRecord}]
    BY <1>0, <1>4, <2>2
  <2>4. /\ Events' = Events \ R
        /\ \A e \in Events \ R : events'[e] = events[e]
    BY <1>1, <1>2 DEF EventsAfter, Events
  <2>5. ASSUME NEW c \in BankHandles \ {b}
        PROVE  /\ EventsOf(c) \cap R = {}
               /\ EventsOf(c)' = EventsOf(c)
    BY <2>0, <2>4 DEF EventsOf
  <2>6. \A c \in Banks \ {b} : banks'[c] = banks[c]
    <3>1. ASSUME NEW c \in Banks \ {b}
          PROVE  CountsAfter(R)[c] = banks[c]
      <4>1. banks[c] \in BankRecord
        BY <1>0 DEF BanksTypeOK, Banks
      <4>2. Cardinality(EventsOf(c) \cap R) = 0
        BY <2>5, FS_EmptySet DEF Banks
      <4>3. CountsAfter(R)[c] = [banks[c] EXCEPT !.activeInstances = Monus(@, 0)]
        BY <4>2 DEF CountsAfter, Banks
      <4>. QED BY <4>1, <4>3 DEF Monus, BankRecord
    <3>. QED BY <2>3, <3>1 DEF Banks
  <2>7. Banks' = Banks \ {b}
    <3>1. \A c \in BankHandles \ Banks : CountsAfter(R)[c] = NoRecord
      BY DEF CountsAfter
    <3>. QED BY <2>3, <2>6, <3>1 DEF Banks
  <2>8. \A c \in Banks' :
           /\ banks'[c].path = banks[c].path
           /\ banks'[c].references = banks[c].references
           /\ banks'[c].home = banks[c].home
           /\ banks'[c].activeInstances = Cardinality(EventsOf(c)')
    BY <2>5, <2>6, <2>7 DEF BanksInvariant, InstancesCounted, Banks
  <2>9. \A e \in EventHandles : Sounding(e)' => Sounding(e) /\ e \notin R
    BY <1>1, <1>4 DEF InstancesAfter, Sounding
  <2> DEFINE left == Events \ R
  <2>10. /\ left \in SUBSET Events
         /\ left \cap EventsOf(b) = {}
         /\ Events' = left
         /\ \A e \in left : events'[e] = events[e]
         /\ \A e \in EventHandles : Sounding(e)' => e \notin Events \ left
         /\ \A e \in EventHandles : Sounding(e)' => Sounding(e)
    BY <1>2, <2>0, <2>4, <2>9
  <2> HIDE DEF left, R
  <2>. QED
    BY <1>0, <1>4, <2>1, <2>2, <2>3, <2>7, <2>8, <2>10, ForgetPreserves
<1>. QED BY <1>1, <1>3, <1>4

-----------------------------------------------------------------------------
(* Events. *)

(* PlayEvent: a recorded and counted event, or an instance put away again. *)
LEMMA PlayPreserves ==
  ASSUME BanksInvariant, NEW ep \in EventPaths,
         NEW entity \in Entities \cup {NoEntity}, PlayEvent(ep, entity)
  PROVE  BanksInvariant'
<1>0. /\ BanksTypeOK /\ active \in Systems /\ active = system
      /\ UNCHANGED <<bankPaths, eventOwners, entities, held>>
  BY DEF BanksInvariant, BanksTypeOK, BackendTypeOK, PlayEvent, Ready, Reported
<1>1. /\ BackendTypeOK'
      /\ UNCHANGED <<system, visible, active, epoch, restarts, hiccups>>
  BY FailsKeepsBackend DEF BanksTypeOK, BanksInvariant, PlayEvent
<1>2. PICK e \in EventHandles \ Events :
        /\ ~Valid(e)
        /\ \/ /\ NoFailure
              /\ events' = [events EXCEPT ![e] =
                   [ownerBank |-> OwnerOf(ep), is3D |-> ep \in Events3D,
                    entity |-> entity, home |-> active]]
              /\ instances' = [instances EXCEPT ![e] = "playing"]
              /\ banks' = IF OwnerOf(ep) = NoHandle THEN banks
                          ELSE [banks EXCEPT ![OwnerOf(ep)].activeInstances = @ + 1]
           \/ /\ Fails(1)
              /\ UNCHANGED <<events, instances, banks>>
           \/ /\ Fails(2)
              /\ instances' = [instances EXCEPT ![e] = "created"]
              /\ UNCHANGED <<events, banks>>
  BY DEF PlayEvent
<1>3. CASE Fails(1) /\ UNCHANGED <<events, instances, banks>>
  BY <1>0, <1>3, FailedCall DEF banksVars, poolVars
<1>4. CASE /\ instances' = [instances EXCEPT ![e] = "created"]
           /\ UNCHANGED <<events, banks>>
  <2>1. \A d \in EventHandles : Sounding(d)' => Sounding(d)
    BY <1>0, <1>4 DEF BanksTypeOK, Sounding
  <2>2. UnnoticedIsSilent'
    BY <1>1, <2>1 DEF BanksInvariant, UnnoticedIsSilent
  <2>3. instances' \in [EventHandles -> InstanceState]
    BY <1>0, <1>4 DEF BanksTypeOK, InstanceState
  <2>. QED BY <1>0, <1>1, <1>4, <2>1, <2>2, <2>3, QuietStep DEF poolVars, BanksTypeOK
<1>5. CASE /\ events' = [events EXCEPT ![e] =
                [ownerBank |-> OwnerOf(ep), is3D |-> ep \in Events3D,
                 entity |-> entity, home |-> active]]
           /\ instances' = [instances EXCEPT ![e] = "playing"]
           /\ banks' = IF OwnerOf(ep) = NoHandle THEN banks
                       ELSE [banks EXCEPT ![OwnerOf(ep)].activeInstances = @ + 1]
  <2> DEFINE owner == OwnerOf(ep)
  <2>1. owner \in Banks \cup {NoHandle} /\ NoHandle \notin Banks
    BY DEF OwnerOf, Banks
  <2>2. [ownerBank |-> owner, is3D |-> ep \in Events3D,
         entity |-> entity, home |-> active] \in EventRecord
    BY <1>0, <2>1 DEF EventRecord, Banks
  <2>3. /\ events'[e] = [ownerBank |-> owner, is3D |-> ep \in Events3D,
                         entity |-> entity, home |-> active]
        /\ \A d \in EventHandles \ {e} : events'[d] = events[d]
        /\ events' \in [EventHandles -> EventRecord \cup {NoRecord}]
    BY <1>0, <1>5, <2>2 DEF BanksTypeOK
  <2>4. Events' = Events \cup {e} /\ e \notin Events
    BY <2>2, <2>3 DEF Events
  <2>5. ASSUME NEW c \in Banks
        PROVE  /\ banks'[c] \in BankRecord
               /\ banks'[c].path = banks[c].path
               /\ banks'[c].references = banks[c].references
               /\ banks'[c].home = banks[c].home
               /\ banks'[c].activeInstances =
                     banks[c].activeInstances + (IF c = owner THEN 1 ELSE 0)
    <3>1. banks[c] \in BankRecord
      BY <1>0 DEF BanksTypeOK, Banks
    <3>2. CASE c = owner
      <4>1. banks'[c] = [banks[c] EXCEPT !.activeInstances = @ + 1]
        BY <1>0, <1>5, <2>1, <3>2 DEF BanksTypeOK, Banks
      <4>. QED BY <3>1, <3>2, <4>1 DEF BankRecord
    <3>3. CASE c # owner
      <4>1. banks'[c] = banks[c]
        BY <1>0, <1>5, <2>1, <3>3 DEF BanksTypeOK, Banks
      <4>. QED BY <3>1, <3>3, <4>1 DEF BankRecord
    <3>. QED BY <3>2, <3>3
  <2>6. /\ banks' \in [BankHandles -> BankRecord \cup {NoRecord}]
        /\ Banks' = Banks
    <3>1. \A c \in BankHandles \ Banks : banks'[c] = NoRecord
      BY <1>0, <1>5, <2>1 DEF BanksTypeOK, Banks
    <3>2. banks' = [c \in BankHandles |-> banks'[c]]
      BY <1>0, <1>5 DEF BanksTypeOK
    <3>. QED BY <2>5, <3>1, <3>2 DEF Banks
  <2>7. InstancesCounted'
    <3>1. ASSUME NEW c \in Banks
          PROVE  banks'[c].activeInstances = Cardinality(EventsOf(c)')
      <4>1. CASE c = owner
        <5>1. EventsOf(c)' = EventsOf(c) \cup {e} /\ e \notin EventsOf(c)
          BY <2>3, <2>4, <4>1 DEF EventsOf, Events
        <5>2. IsFiniteSet(EventsOf(c))
          BY EventSets DEF EventsOf, Events
        <5>3. Cardinality(EventsOf(c) \cup {e}) = Cardinality(EventsOf(c)) + 1
          BY <5>1, <5>2, FS_AddElement
        <5>. QED BY <2>5, <4>1, <5>1, <5>3 DEF BanksInvariant, InstancesCounted
      <4>2. CASE c # owner
        <5>1. EventsOf(c)' = EventsOf(c)
          BY <2>3, <2>4, <4>2 DEF EventsOf, Events
        <5>2. Cardinality(EventsOf(c)) \in Nat
          BY EventSets DEF EventsOf, Events
        <5>. QED BY <2>5, <4>2, <5>1, <5>2 DEF BanksInvariant, InstancesCounted
      <4>. QED BY <4>1, <4>2
    <3>. QED BY <2>6, <3>1 DEF InstancesCounted
  <2>8. OwnersLive' /\ PointersCurrent'
    BY <1>1, <2>1, <2>3, <2>4, <2>5, <2>6
       DEF BanksInvariant, OwnersLive, PointersCurrent, Events
  <2>9. PathTablesExact'
    BY <1>0, <2>5, <2>6 DEF BanksInvariant, PathTablesExact
  <2>10. ReferencesMatch'
    <3>1. \A c \in BankHandles : Holders(c)' = Holders(c)
      BY <1>0 DEF Holders
    <3>. QED BY <1>0, <2>5, <2>6, <3>1 DEF BanksInvariant, ReferencesMatch, Banks
  <2>11. /\ instances' \in [EventHandles -> InstanceState]
         /\ \A d \in EventHandles : Sounding(d)' => Sounding(d) \/ d = e
    BY <1>0, <1>5 DEF BanksTypeOK, InstanceState, Sounding
  <2>12. UnnoticedIsSilent' /\ NoStrayPlayback'
    BY <1>0, <1>1, <2>4, <2>11 DEF BanksInvariant, UnnoticedIsSilent, NoStrayPlayback
  <2>13. BanksTypeOK'
    BY <1>0, <1>1, <2>3, <2>6, <2>11 DEF BanksTypeOK
  <2>. QED BY <2>7, <2>8, <2>9, <2>10, <2>12, <2>13 DEF BanksInvariant
<1>. QED BY <1>2, <1>3, <1>4, <1>5

(* StopEvent retires the event only if FMOD stopped it. *)
LEMMA StopPreserves ==
  ASSUME BanksInvariant, NEW e \in EventHandles, NEW immediate \in BOOLEAN,
         StopEvent(e, immediate)
  PROVE  BanksInvariant'
<1>0. /\ BanksTypeOK /\ UNCHANGED <<poolVars, entities, held>>
  BY DEF BanksInvariant, StopEvent
<1>1. /\ BackendTypeOK'
      /\ UNCHANGED <<system, visible, active, epoch, restarts, hiccups>>
  BY FailsKeepsBackend DEF BanksTypeOK, BanksInvariant, StopEvent
<1>2. CASE Fails(1) /\ UNCHANGED instances
  BY <1>0, <1>2, FailedCall DEF banksVars
<1>3. CASE ~(Fails(1) /\ UNCHANGED instances)
  <2>1. /\ instances' \in [EventHandles -> InstanceState]
        /\ \A d \in EventHandles : Sounding(d)' => Sounding(d)
    BY <1>0, <1>3 DEF BanksTypeOK, InstanceState, Sounding, StopEvent
  <2>2. UnnoticedIsSilent'
    BY <1>1, <2>1 DEF BanksInvariant, UnnoticedIsSilent
  <2>. QED BY <1>0, <1>1, <2>1, <2>2, QuietStep DEF BanksTypeOK
<1>. QED BY <1>2, <1>3

(* Attaching and detaching touch nothing but the entity of one event. *)
LEMMA ReattachPreserves ==
  ASSUME BanksInvariant, NEW e \in Events, NEW entity \in Entities \cup {NoEntity},
         events' = [events EXCEPT ![e].entity = entity], NoFailure,
         UNCHANGED <<banks, bankPaths, eventOwners, instances, entities, held>>
  PROVE  BanksInvariant'
<1>0. BanksTypeOK /\ events[e] \in EventRecord /\ UNCHANGED backendVars
  BY DEF BanksInvariant, BanksTypeOK, Events, NoFailure
<1>1. events'[e] = [events[e] EXCEPT !.entity = entity]
  BY <1>0 DEF BanksTypeOK, Events
<1>2. /\ events'[e] \in EventRecord
      /\ events'[e].ownerBank = events[e].ownerBank
      /\ events'[e].home = events[e].home
      /\ \A d \in EventHandles \ {e} : events'[d] = events[d]
      /\ events' \in [EventHandles -> EventRecord \cup {NoRecord}]
  BY <1>0, <1>1 DEF EventRecord, BanksTypeOK
<1>3. Events' = Events
  BY <1>2 DEF Events
<1>4. \A b \in BankHandles : EventsOf(b)' = EventsOf(b) /\ Holders(b)' = Holders(b)
  BY <1>2, <1>3 DEF EventsOf, Events, Holders
<1>5. BanksTypeOK'
  BY <1>0, <1>2 DEF BanksTypeOK, BackendTypeOK, backendVars
<1>6. InstancesCounted' /\ OwnersLive' /\ PathTablesExact' /\ ReferencesMatch'
  BY <1>2, <1>3, <1>4
     DEF BanksInvariant, InstancesCounted, OwnersLive, PathTablesExact,
         ReferencesMatch, Banks, Events
<1>7. PointersCurrent' /\ UnnoticedIsSilent' /\ NoStrayPlayback'
  BY <1>0, <1>2, <1>3
     DEF BanksInvariant, PointersCurrent, UnnoticedIsSilent, NoStrayPlayback,
         Banks, Events, Sounding, backendVars
<1>. QED BY <1>5, <1>6, <1>7 DEF BanksInvariant

(* Tick retires what is due, each with one decrement. *)
LEMMA TickPreserves == BanksInvariant /\ Tick => BanksInvariant'
<1> SUFFICES ASSUME BanksInvariant, Tick PROVE BanksInvariant'
  OBVIOUS
<1>1. PICK faulty \in SUBSET {e \in Events : Valid(e)}, others \in 0..MaxFaults :
        Fails(Cardinality(faulty) + others) /\ TickEvents(faulty)
  BY DEF Tick
<1>2. faulty \in SUBSET EventHandles
  BY DEF Events
<1>3. PICK dropped \in SUBSET {e \in faulty : ~Due(e)}, halted \in SUBSET faulty :
        LET retired == {e \in Events \ faulty : Due(e)} \cup dropped IN
        /\ events' = EventsAfter(retired)
        /\ banks' = CountsAfter(retired)
        /\ instances' = InstancesAfter(retired, halted)
        /\ UNCHANGED <<bankPaths, eventOwners, entities, held>>
  BY <1>1 DEF TickEvents
<1> DEFINE retired == {e \in Events \ faulty : Due(e)} \cup dropped
<1>4. retired \in SUBSET Events /\ halted \in SUBSET EventHandles
  BY <1>2
<1>5. /\ BackendTypeOK'
      /\ UNCHANGED <<system, visible, active, epoch, restarts, hiccups>>
  <2>1. Cardinality(faulty) + others \in Nat
    BY <1>2, EventSets, BackendAssumption
  <2>. QED BY <1>1, <2>1, FailsKeepsBackend DEF BanksInvariant, BanksTypeOK
<1>6. /\ events' = EventsAfter(retired)
      /\ banks' = CountsAfter(retired)
      /\ instances' = InstancesAfter(retired, halted)
      /\ UNCHANGED <<bankPaths, eventOwners, entities, held>>
  BY <1>3
<1> HIDE DEF retired
<1>. QED BY <1>4, <1>5, <1>6, RetirePreserves

-----------------------------------------------------------------------------
(* The backend and the world. *)

(* A changed backend empties the pools before its pointers could be used. *)
LEMMA RefreshPreserves == BanksInvariant /\ RefreshBackend => BanksInvariant'
<1> SUFFICES ASSUME BanksInvariant, RefreshBackend PROVE BanksInvariant'
  OBVIOUS
<1>0. /\ BanksTypeOK /\ UNCHANGED <<instances, entities>>
      /\ active' = Reported /\ Reported # active
      /\ UNCHANGED <<system, visible, restarts, hiccups, faults>>
  BY DEF BanksInvariant, RefreshBackend, AdoptBackend
<1>1. BackendTypeOK'
  BY <1>0 DEF BanksTypeOK, BackendTypeOK, RefreshBackend, AdoptBackend, Reported
<1>2. active = NoSystem => Banks = {} /\ Events = {}
  BY <1>0 DEF BanksInvariant, PointersCurrent, BanksTypeOK, BankRecord, EventRecord,
              Banks, Events
<1>3. UnnoticedIsSilent' /\ \A e \in EventHandles : hiccups = 0 => ~Sounding(e)'
  BY <1>0 DEF BanksInvariant, UnnoticedIsSilent, Reported, Sounding
<1>4. CASE active = NoSystem /\ UNCHANGED <<poolVars, held>>
  <2>1. Banks' = {} /\ Events' = {} /\ Banks = {}
    BY <1>2, <1>4 DEF Banks, Events, poolVars
  <2>2. BanksTypeOK'
    BY <1>0, <1>1, <1>4 DEF BanksTypeOK, poolVars
  <2>3. PathTablesExact' /\ ReferencesMatch'
    BY <1>4, <2>1 DEF BanksInvariant, PathTablesExact, ReferencesMatch, poolVars
  <2>. QED BY <1>0, <1>3, <2>1, <2>2, <2>3
           DEF BanksInvariant, InstancesCounted, OwnersLive, PointersCurrent,
               NoStrayPlayback
<1>5. CASE ResetBanks
  <2>1. Banks' = {} /\ Events' = {}
    BY <1>5 DEF ResetBanks, Banks, Events
  <2>2. BanksTypeOK'
    BY <1>0, <1>1, <1>5 DEF BanksTypeOK, ResetBanks
  <2>3. PathTablesExact' /\ ReferencesMatch'
    BY <1>5, <2>1 DEF PathTablesExact, ReferencesMatch, ResetBanks
  <2>. QED BY <1>0, <1>3, <2>1, <2>2, <2>3
           DEF BanksInvariant, InstancesCounted, OwnersLive, PointersCurrent,
               NoStrayPlayback
<1>. QED BY <1>4, <1>5 DEF RefreshBackend

(* What FMOD, the game and the entities do by themselves. *)
LEMMA WorldPreserves == BanksInvariant /\ WorldStep => BanksInvariant'
<1> SUFFICES ASSUME BanksInvariant, WorldStep PROVE BanksInvariant'
  OBVIOUS
<1>0. BanksTypeOK /\ BackendTypeOK
  BY DEF BanksInvariant, BanksTypeOK
<1>1. ASSUME NEW s \in Systems \cup {NoSystem}, Restart(s) PROVE BanksInvariant'
  <2>1. /\ BackendTypeOK' /\ visible' /\ UNCHANGED <<active, hiccups>>
        /\ \A e \in EventHandles : ~Sounding(e)'
        /\ instances' \in [EventHandles -> InstanceState]
        /\ UNCHANGED <<poolVars, entities, held>>
    BY <1>0, <1>1
       DEF Restart, RestartSystem, BackendTypeOK, Sounding, InstanceState
  <2>2. UnnoticedIsSilent'
    BY <2>1 DEF UnnoticedIsSilent
  <2>. QED BY <1>0, <2>1, <2>2, QuietStep DEF BanksTypeOK
<1>2. CASE Hiccup
  <2>1. /\ BackendTypeOK' /\ UNCHANGED <<active, system>> /\ UNCHANGED banksVars
        /\ hiccups' = 0 => hiccups = 0
        /\ hiccups' = 0 => visible'
    <3>1. CASE HideSystem
      <4>1. hiccups' = hiccups + 1 /\ hiccups \in Nat /\ hiccups' \in 0..MaxHiccups
        BY <1>0, <3>1 DEF HideSystem, BackendTypeOK
      <4>2. hiccups' # 0
        BY <4>1
      <4>. QED BY <1>0, <1>2, <3>1, <4>1, <4>2 DEF Hiccup, HideSystem, BackendTypeOK
    <3>2. CASE ShowSystem
      BY <1>0, <1>2, <3>2 DEF Hiccup, ShowSystem, BackendTypeOK
    <3>. QED BY <1>2, <3>1, <3>2 DEF Hiccup
  <2>2. UnnoticedIsSilent'
    BY <2>1 DEF BanksInvariant, UnnoticedIsSilent, banksVars, Sounding
  <2>. QED BY <1>0, <2>1, <2>2, QuietStep DEF BanksTypeOK, banksVars, Sounding
<1>3. ASSUME NEW e \in EventHandles, InstanceStops(e) \/ InstanceDies(e)
      PROVE  BanksInvariant'
  <2>1. /\ UNCHANGED <<backendVars, poolVars, entities, held>>
        /\ instances' \in [EventHandles -> InstanceState]
        /\ \A d \in EventHandles : Sounding(d)' => Sounding(d)
    BY <1>0, <1>3 DEF InstanceStops, InstanceDies, BanksTypeOK, InstanceState, Sounding
  <2>2. UnnoticedIsSilent' /\ BackendTypeOK'
    BY <1>0, <2>1 DEF BanksInvariant, UnnoticedIsSilent, BackendTypeOK, backendVars
  <2>. QED BY <1>0, <2>1, <2>2, QuietStep DEF BanksTypeOK, backendVars
<1>4. ASSUME NEW entity \in Entities, EntityChanges(entity)
      PROVE  BanksInvariant'
  <2>1. /\ UNCHANGED <<backendVars, poolVars, instances, held>>
        /\ entities' \subseteq Entities
    BY <1>0, <1>4 DEF EntityChanges, BanksTypeOK
  <2>2. UnnoticedIsSilent' /\ BackendTypeOK'
    BY <1>0, <2>1 DEF BanksInvariant, UnnoticedIsSilent, BackendTypeOK, backendVars,
                      Sounding
  <2>. QED BY <1>0, <2>1, <2>2, QuietStep DEF BanksTypeOK, backendVars, Sounding
<1>5. CASE SoundCallsFail
  BY <1>5, FailedCall, BackendAssumption DEF SoundCallsFail
<1>. QED BY <1>1, <1>2, <1>3, <1>4, <1>5 DEF WorldStep


-----------------------------------------------------------------------------
(* The invariant holds initially, every step keeps it, and it contains the *)
(* properties.                                                             *)

(* Everything is empty at the start. *)
LEMMA InitInvariant == Init => BanksInvariant
<1> SUFFICES ASSUME Init PROVE BanksInvariant
  OBVIOUS
<1>1. Banks = {} /\ Events = {}
  BY DEF Init, BanksInit, Banks, Events
<1>2. BanksTypeOK
  BY DEF Init, BanksInit, BackendInit, BanksTypeOK, BackendTypeOK, InstanceState
<1>3. PathTablesExact /\ ReferencesMatch
  BY <1>1 DEF Init, BanksInit, PathTablesExact, ReferencesMatch
<1>4. UnnoticedIsSilent /\ NoStrayPlayback
  BY DEF Init, BanksInit, BackendInit, UnnoticedIsSilent, NoStrayPlayback, Sounding
<1>. QED BY <1>1, <1>2, <1>3, <1>4
         DEF BanksInvariant, InstancesCounted, OwnersLive, PointersCurrent

(* Every step keeps the invariant. *)
LEMMA NextInvariant == BanksInvariant /\ [Next]_vars => BanksInvariant'
<1> SUFFICES ASSUME BanksInvariant, [Next]_vars PROVE BanksInvariant'
  OBVIOUS
<1>1. CASE ScriptStep
  <2>1. ASSUME NEW m \in Mods, NEW p \in BankPaths, NEW sampleData \in BOOLEAN,
               LoadBank(m, p, sampleData)
        PROVE  BanksInvariant'
    BY <2>1, SharePreserves, LoadNewPreserves DEF LoadBank
  <2>2. ASSUME NEW m \in Mods, NEW b \in BankHandles, UnloadBank(m, b)
        PROVE  BanksInvariant'
    BY <2>2, UnloadPreserves
  <2>3. ASSUME NEW m \in Mods, NEW b \in BankHandles, ForceUnloadBank(m, b)
        PROVE  BanksInvariant'
    BY <2>3, ForceUnloadPreserves
  <2>4. ASSUME NEW ep \in EventPaths, NEW entity \in Entities \cup {NoEntity},
               PlayEvent(ep, entity)
        PROVE  BanksInvariant'
    BY <2>4, PlayPreserves
  <2>5. ASSUME NEW e \in EventHandles, NEW immediate \in BOOLEAN,
               StopEvent(e, immediate)
        PROVE  BanksInvariant'
    BY <2>5, StopPreserves
  <2>6. ASSUME NEW e \in EventHandles, NEW entity \in Entities,
               AttachEventToEntity(e, entity)
        PROVE  BanksInvariant'
    BY <2>6, ReattachPreserves, FailedCall DEF AttachEventToEntity, banksVars, poolVars
  <2>7. ASSUME NEW e \in EventHandles, DetachEvent(e)
        PROVE  BanksInvariant'
    BY <2>7, ReattachPreserves, FailedCall DEF DetachEvent, banksVars, poolVars
  <2>. QED BY <1>1, <2>1, <2>2, <2>3, <2>4, <2>5, <2>6, <2>7 DEF ScriptStep
<1>2. CASE Tick
  BY <1>2, TickPreserves
<1>3. CASE RefreshBackend
  BY <1>3, RefreshPreserves
<1>4. CASE WorldStep
  BY <1>4, WorldPreserves
<1>5. CASE UNCHANGED vars
  BY <1>5, FailedCall DEF vars, NoFailure
<1>. QED BY <1>1, <1>2, <1>3, <1>4, <1>5 DEF Next

(* The inductive invariant of the Studio half, whatever the mods load, play *)
(* and unload and whatever fails.                                           *)
THEOREM BanksCorrect == Spec => []BanksInvariant
BY InitInvariant, NextInvariant, PTL DEF Spec

(* A bank's count of active instances is exact, so that a normal unload is  *)
(* refused exactly while one of its events is live.                         *)
THEOREM CountsExact == Spec => []InstancesCounted
<1>1. BanksInvariant => InstancesCounted
  BY DEF BanksInvariant
<1>. QED BY <1>1, BanksCorrect, PTL

(* No event ever outlives the bank that owns it. *)
THEOREM OwnersStayLive == Spec => []OwnersLive
<1>1. BanksInvariant => OwnersLive
  BY DEF BanksInvariant
<1>. QED BY <1>1, BanksCorrect, PTL

(* The tables of paths say what the live banks say: no path leads to a dead *)
(* handle, and no loaded bank or event path is missing.                     *)
THEOREM PathsFindRecords == Spec => []PathTablesExact
<1>1. BanksInvariant => PathTablesExact
  BY DEF BanksInvariant
<1> QED BY <1>1, BanksCorrect, PTL

(* Reference counts are the loads not yet matched by an unload. *)
THEOREM ReferencesAreLoads == Spec => []ReferencesMatch
<1>1. BanksInvariant => ReferencesMatch
  BY DEF BanksInvariant
<1>. QED BY <1>1, BanksCorrect, PTL

(* No pointer of a dead FMOD system survives a refresh. *)
THEOREM PointersStayCurrent == Spec => []PointersCurrent
<1>1. BanksInvariant => PointersCurrent
  BY DEF BanksInvariant
<1>. QED BY <1>1, BanksCorrect, PTL

(* Nothing sounds out of the manager's reach while FMOD stays ready. *)
THEOREM NothingStrays == Spec => []NoStrayPlayback
<1>1. BanksInvariant => NoStrayPlayback
  BY DEF BanksInvariant
<1>. QED BY <1>1, BanksCorrect, PTL


=============================================================================
