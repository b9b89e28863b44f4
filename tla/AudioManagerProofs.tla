------------------------ MODULE AudioManagerProofs ------------------------
(***************************************************************************)
(* Proofs that the whole manager implements each of its halves: the steps  *)
(* of the other half are steps this half allows for.                       *)
(***************************************************************************)
EXTENDS AudioManager, FiniteSetTheorems, TLAPS

USE BackendAssumption, ManagerAssumption

-----------------------------------------------------------------------------
(* Counting failures. *)

(* Sets of events, of channels and of buses are finite, and counting them   *)
(* gives numbers.                                                           *)
LEMMA HandleSets ==
  /\ \A S \in SUBSET EventHandles : Cardinality(S) \in Nat
  /\ \A S \in SUBSET ChannelHandles : Cardinality(S) \in Nat
  /\ \A S \in SUBSET Buses : Cardinality(S) \in Nat
BY FS_Subset, FS_CardinalityType

(* Both halves count as the manager does. *)
LEMMA OneCardinality ==
  /\ \A S : Studio!Cardinality(S) = Cardinality(S)
  /\ \A S : Core!Cardinality(S) = Cardinality(S)
BY DEF Studio!Cardinality, Core!Cardinality, Cardinality

(* An operation on banks or events costs some number of failures. *)
LEMMA StudioFailures ==
  ASSUME Studio!ScriptStep
  PROVE  /\ NoFailure \/ \E n \in Nat : Fails(n)
         /\ UNCHANGED entities
<1>1. ASSUME NEW m \in Mods, NEW p \in BankPaths, NEW sampleData \in BOOLEAN,
             Studio!LoadBank(m, p, sampleData)
      PROVE  (NoFailure \/ Fails(1)) /\ UNCHANGED entities
  BY <1>1 DEF Studio!LoadBank, Studio!ShareBank, Studio!LoadNewBank, Studio!Fails, Fails,
              Studio!NoFailure, NoFailure, Studio!backendVars, backendVars
<1>2. ASSUME NEW m \in Mods, NEW b \in BankHandles, Studio!UnloadBank(m, b)
      PROVE  (NoFailure \/ Fails(1)) /\ UNCHANGED entities
  BY <1>2 DEF Studio!UnloadBank, Studio!Fails, Fails,
              Studio!NoFailure, NoFailure, Studio!backendVars, backendVars
<1>3. ASSUME NEW m \in Mods, NEW b \in BankHandles, Studio!ForceUnloadBank(m, b)
      PROVE  (NoFailure \/ \E n \in Nat : Fails(n)) /\ UNCHANGED entities
  <2>1. PICK kept \in SUBSET {e \in Studio!EventsOf(b) : Studio!Valid(e)} :
          \E halted \in SUBSET kept :
            LET retired == Studio!EventsOf(b) \ kept IN
            /\ events' = Studio!EventsAfter(retired)
            /\ instances' = Studio!InstancesAfter(retired, halted)
            /\ \/ /\ kept # {}
                  /\ Studio!Fails(Studio!Cardinality(kept))
                  /\ banks' = Studio!CountsAfter(retired)
                  /\ UNCHANGED <<bankPaths, eventOwners, bankRefs>>
               \/ /\ kept = {}
                  /\ Studio!Fails(1)
                  /\ banks' = Studio!CountsAfter(retired)
                  /\ UNCHANGED <<bankPaths, eventOwners, bankRefs>>
               \/ /\ kept = {}
                  /\ Studio!NoFailure
                  /\ banks' = [Studio!CountsAfter(retired) EXCEPT ![b] = NoRecord]
                  /\ Studio!Forget(b)
    BY <1>3, Zenon DEF Studio!ForceUnloadBank
  <2>2. PICK halted \in SUBSET kept :
          LET retired == Studio!EventsOf(b) \ kept IN
          /\ events' = Studio!EventsAfter(retired)
          /\ instances' = Studio!InstancesAfter(retired, halted)
          /\ \/ /\ kept # {}
                /\ Studio!Fails(Studio!Cardinality(kept))
                /\ banks' = Studio!CountsAfter(retired)
                /\ UNCHANGED <<bankPaths, eventOwners, bankRefs>>
             \/ /\ kept = {}
                /\ Studio!Fails(1)
                /\ banks' = Studio!CountsAfter(retired)
                /\ UNCHANGED <<bankPaths, eventOwners, bankRefs>>
             \/ /\ kept = {}
                /\ Studio!NoFailure
                /\ banks' = [Studio!CountsAfter(retired) EXCEPT ![b] = NoRecord]
                /\ Studio!Forget(b)
    BY <2>1, Zenon
  <2>3. Studio!Fails(Studio!Cardinality(kept)) \/ Studio!Fails(1) \/ Studio!NoFailure
    BY <2>2, Zenon
  <2>4. Studio!Cardinality(kept) \in Nat
    BY <2>1, HandleSets, OneCardinality DEF Studio!EventsOf, Studio!Events
  <2>5. UNCHANGED entities
    BY <1>3 DEF Studio!ForceUnloadBank
  <2>. QED BY <2>3, <2>4, <2>5 DEF Studio!Fails, Fails,
              Studio!NoFailure, NoFailure, Studio!backendVars, backendVars
<1>4. ASSUME NEW ep \in EventPaths, NEW entity \in Entities \cup {NoEntity},
             Studio!PlayEvent(ep, entity)
      PROVE  (NoFailure \/ Fails(1) \/ Fails(2)) /\ UNCHANGED entities
  BY <1>4 DEF Studio!PlayEvent, Studio!Fails, Fails,
              Studio!NoFailure, NoFailure, Studio!backendVars, backendVars
<1>5. ASSUME NEW e \in EventHandles, NEW immediate \in BOOLEAN,
             Studio!StopEvent(e, immediate)
      PROVE  (NoFailure \/ Fails(1)) /\ UNCHANGED entities
  BY <1>5 DEF Studio!StopEvent, Studio!Fails, Fails,
              Studio!NoFailure, NoFailure, Studio!backendVars, backendVars
<1>6. ASSUME NEW e \in EventHandles, NEW entity \in Entities,
             Studio!AttachEventToEntity(e, entity)
      PROVE  (NoFailure \/ Fails(1)) /\ UNCHANGED entities
  BY <1>6 DEF Studio!AttachEventToEntity, Studio!Fails, Fails,
              Studio!NoFailure, NoFailure, Studio!backendVars, backendVars
<1>7. ASSUME NEW e \in EventHandles, Studio!DetachEvent(e)
      PROVE  (NoFailure \/ Fails(1)) /\ UNCHANGED entities
  BY <1>7 DEF Studio!DetachEvent, Studio!Fails, Fails,
              Studio!NoFailure, NoFailure, Studio!backendVars, backendVars
<1>. QED BY <1>1, <1>2, <1>3, <1>4, <1>5, <1>6, <1>7 DEF Studio!ScriptStep

-----------------------------------------------------------------------------
(* The failures of an operation on loose sounds. *)

(* What an outcome says of failures. *)
LEMMA OutcomeFailed ==
  ASSUME NEW route, NEW count, NEW failed, NEW ok
  PROVE  Core!Outcome(route, count, failed, ok).failed = failed
BY DEF Core!Outcome

(* Taking a route costs at most two calls, and counting a channel on it none. *)
LEMMA AcquireFailures ==
  ASSUME NEW b, NEW a \in Core!AcquireOutcomes(b)
  PROVE  /\ a.failed \in {0, 1, 2}
         /\ [a EXCEPT !.route.activeChannels = @ + 1].failed = a.failed
<1>1. ASSUME NEW count, NEW o \in Core!FreshOutcomes(b, count, 0)
      PROVE  o.failed \in {0, 1, 2} /\ "failed" \in DOMAIN o
  <2>. DEFINE route(locked, group) ==
                [bus |-> buses[b], group |-> group, locked |-> locked, activeChannels |-> 0]
              found == route(FALSE, FALSE)
              locked == route(TRUE, FALSE)
              whole == route(TRUE, TRUE)
  <2>1. \/ o = Core!Outcome(Core!IdleRoute, count, 0, FALSE)
        \/ o = Core!Outcome(Core!IdleRoute, count, 0 + 1, FALSE)
        \/ o = Core!Outcome(found, count, 0 + 1, FALSE)
        \/ o = Core!Outcome(locked, count + 1, 0 + 2, FALSE)
        \/ o = Core!Outcome(whole, count + 1, 0, TRUE)
    BY <1>1 DEF Core!FreshOutcomes
  <2>. HIDE DEF found, locked, whole
  <2>. QED BY <2>1 DEF Core!Outcome
<1>2. ASSUME NEW failed \in {0, 1}, NEW ok \in BOOLEAN,
             a = Core!Outcome(routes[b], locks[b], failed, ok)
      PROVE  a.failed \in {0, 1, 2} /\ "failed" \in DOMAIN a
  BY <1>2 DEF Core!Outcome
<1>3. a.failed \in {0, 1, 2} /\ "failed" \in DOMAIN a
  BY <1>1, <1>2 DEF Core!AcquireOutcomes
<1>. QED BY <1>3

(* Giving one back costs at most one. *)
LEMMA ReleaseFailures ==
  ASSUME NEW r, NEW b, NEW count, NEW n, NEW o \in Core!ReleaseOutcomes(r, b, count, n)
  PROVE  o.failed \in {0, 1}
<1>1. \E route, locked, ok : \E failed \in {0, 1} :
        o = Core!Outcome(route, locked, failed, ok)
  BY DEF Core!ReleaseOutcomes
<1>. QED BY <1>1, OutcomeFailed


(* Retiring channels costs one call for each bus that cannot be unlocked, on *)
(* top of those the caller counted.                                          *)
LEMMA RetireFailures ==
  ASSUME NEW R, NEW failed \in Nat, Core!Retire(R, failed)
  PROVE  \E n \in Nat : Fails(failed + n)
<1>1. PICK o : Core!Fails(failed + Core!Cardinality({b \in Buses : o[b].failed = 1}))
  BY Zenon DEF Core!Retire
<1>2. Core!Cardinality({b \in Buses : o[b].failed = 1}) \in Nat
  BY HandleSets, OneCardinality
<1>. QED BY <1>1, <1>2 DEF Core!Fails, Fails

(* An operation on loose sounds costs some number of failures. *)
LEMMA CoreFailures ==
  ASSUME Core!ScriptStep
  PROVE  /\ NoFailure \/ \E n \in Nat : Fails(n)
         /\ UNCHANGED entities
<1>1. ASSUME NEW m \in Mods, NEW p \in SoundPaths, Core!LoadSound(m, p)
      PROVE  (NoFailure \/ Fails(1)) /\ UNCHANGED entities
  BY <1>1 DEF Core!LoadSound, Core!Fails, Fails,
              Core!NoFailure, NoFailure, Core!backendVars, backendVars
<1>2. ASSUME NEW m \in Mods, NEW s \in SoundHandles, Core!UnloadSound(m, s)
      PROVE  (NoFailure \/ Fails(1)) /\ UNCHANGED entities
  BY <1>2 DEF Core!UnloadSound, Core!Fails, Fails,
              Core!NoFailure, NoFailure, Core!backendVars, backendVars
<1>3. ASSUME NEW m \in Mods, NEW s \in SoundHandles, Core!ForceUnloadSound(m, s)
      PROVE  (\E n \in Nat : Fails(n)) /\ UNCHANGED entities
  <2>1. PICK kept \in SUBSET (Core!ChannelsOf(s) \cap playing) :
          \E released \in BOOLEAN :
            Core!Retire(Core!ChannelsOf(s) \ kept,
                        IF kept = {} /\ ~released THEN 1 ELSE Core!Cardinality(kept))
    BY <1>3, Zenon DEF Core!ForceUnloadSound
  <2>2. PICK released \in BOOLEAN :
          Core!Retire(Core!ChannelsOf(s) \ kept,
                      IF kept = {} /\ ~released THEN 1 ELSE Core!Cardinality(kept))
    BY <2>1
  <2>3. (IF kept = {} /\ ~released THEN 1 ELSE Core!Cardinality(kept)) \in Nat
    BY HandleSets, OneCardinality DEF Core!ChannelsOf, Core!Channels
  <2>4. PICK n \in Nat :
          Fails((IF kept = {} /\ ~released THEN 1 ELSE Core!Cardinality(kept)) + n)
    BY <2>2, <2>3, RetireFailures
  <2>5. (IF kept = {} /\ ~released THEN 1 ELSE Core!Cardinality(kept)) + n \in Nat
    BY <2>3, <2>4
  <2>6. UNCHANGED entities
    BY <1>3 DEF Core!ForceUnloadSound
  <2>. QED BY <2>4, <2>5, <2>6
<1>4. ASSUME NEW s \in SoundHandles, NEW b \in Buses, NEW is3D \in BOOLEAN,
             NEW entity \in Entities \cup {NoEntity},
             Core!PlaySound(s, b, is3D, entity)
      PROVE  (\E n \in Nat : Fails(n)) /\ UNCHANGED entities
  <2>1. PICK a \in Core!AcquireOutcomes(b) :
          \/ Core!RouteTo(b, a, 0)
          \/ Core!NotPlayed(b, a)
          \/ Core!Played(s, b, a, is3D, entity)
          \/ Core!Undone(b, a)
    BY <1>4, Zenon DEF Core!PlaySound
  <2>2. /\ a.failed \in Nat
        /\ [a EXCEPT !.route.activeChannels = @ + 1].failed = a.failed
    BY <2>1, AcquireFailures
  <2>3. ASSUME NEW r, NEW count, NEW o \in Core!ReleaseOutcomes(r, b, count, 1),
               Core!RouteTo(b, o, a.failed + 1)
        PROVE  \E n \in Nat : Fails(n)
    <3>1. Core!Fails(o.failed + (a.failed + 1))
      BY <2>3 DEF Core!RouteTo
    <3>2. o.failed \in Nat
      BY ReleaseFailures
    <3>. QED BY <2>2, <3>1, <3>2 DEF Core!Fails, Fails
  <2>4. ASSUME NEW o, o.failed = a.failed, NEW n \in Nat, Core!RouteTo(b, o, n)
        PROVE  \E k \in Nat : Fails(k)
    BY <2>2, <2>4 DEF Core!RouteTo, Core!Fails, Fails
  <2>5. UNCHANGED entities
    BY <1>4 DEF Core!PlaySound
  <2>. SUFFICES \E n \in Nat : Fails(n)
    BY <2>5
  <2>6. CASE Core!RouteTo(b, a, 0)
    BY <2>4, <2>6
  <2>7. CASE Core!NotPlayed(b, a)
    <3>1. \/ \E r, count : \E o \in Core!ReleaseOutcomes(r, b, count, 1) :
               Core!RouteTo(b, o, a.failed + 1)
          \/ Core!RouteTo(b, a, 1)
      BY <2>7, Zenon DEF Core!NotPlayed
    <3>. QED BY <2>3, <2>4, <3>1
  <2>8. CASE Core!Played(s, b, a, is3D, entity)
    <3>1. \E cleanup \in BOOLEAN :
            Core!RouteTo(b, [a EXCEPT !.route.activeChannels = @ + 1],
                         IF cleanup THEN 2 ELSE 0)
      BY <2>8, Zenon DEF Core!Played
    <3>. DEFINE o == [a EXCEPT !.route.activeChannels = @ + 1]
    <3>2. Core!RouteTo(b, o, 2) \/ Core!RouteTo(b, o, 0)
      BY <3>1
    <3>3. o.failed = a.failed
      BY <2>2
    <3>. HIDE DEF o
    <3>. QED BY <2>4, <3>2, <3>3
  <2>9. CASE Core!Undone(b, a)
    <3>1. \E r, count : \E o \in Core!ReleaseOutcomes(r, b, count, 1) :
            Core!RouteTo(b, o, a.failed + 1)
      BY <2>9, Zenon DEF Core!Undone
    <3>. QED BY <2>3, <3>1
  <2>. QED BY <2>1, <2>6, <2>7, <2>8, <2>9
<1>5. ASSUME NEW c \in ChannelHandles, Core!StopSound(c)
      PROVE  (\E n \in Nat : Fails(n)) /\ UNCHANGED entities
  <2>1. Core!Retire({c}, 0) \/ Fails(1)
    BY <1>5 DEF Core!StopSound, Core!Fails, Fails
  <2>2. Core!Retire({c}, 0) => \E n \in Nat : Fails(0 + n)
    BY RetireFailures
  <2>. QED BY <1>5, <2>1, <2>2 DEF Core!StopSound
<1>6. ASSUME NEW c \in ChannelHandles, NEW entity \in Entities,
             Core!AttachSoundToEntity(c, entity)
      PROVE  (NoFailure \/ Fails(1)) /\ UNCHANGED entities
  BY <1>6 DEF Core!AttachSoundToEntity, Core!Fails, Fails,
              Core!NoFailure, NoFailure, Core!backendVars, backendVars
<1>7. ASSUME NEW c \in ChannelHandles, Core!DetachSound(c)
      PROVE  (NoFailure \/ Fails(1)) /\ UNCHANGED entities
  BY <1>7 DEF Core!DetachSound, Core!Fails, Fails,
              Core!NoFailure, NoFailure, Core!backendVars, backendVars
<1>. QED BY <1>1, <1>2, <1>3, <1>4, <1>5, <1>6, <1>7 DEF Core!ScriptStep


(* A Tick costs the calls that fail for faulty events and for broken        *)
(* channels, and one for each bus that cannot be unlocked.                  *)
LEMMA TickFailures ==
  ASSUME Tick
  PROVE  \E n \in Nat : Fails(n)
<1>1. PICK faulty \in SUBSET EventHandles, broken \in SUBSET ChannelHandles :
        Core!TickChannels(broken, Cardinality(faulty) + Cardinality(broken))
  <2>1. \E faulty \in SUBSET {e \in Studio!Events : Studio!Valid(e)},
           broken \in SUBSET (Core!Channels \cap playing) :
          Core!TickChannels(broken, Cardinality(faulty) + Cardinality(broken))
    BY Zenon DEF Tick
  <2>2. /\ {e \in Studio!Events : Studio!Valid(e)} \subseteq EventHandles
        /\ Core!Channels \subseteq ChannelHandles
    BY DEF Studio!Events, Core!Channels
  <2>. QED BY <2>1, <2>2
<1>2. PICK R : Core!Retire(R, Cardinality(faulty) + Cardinality(broken))
  BY <1>1, Zenon DEF Core!TickChannels
<1>3. Cardinality(faulty) + Cardinality(broken) \in Nat
  BY HandleSets
<1>4. PICK n \in Nat : Fails(Cardinality(faulty) + Cardinality(broken) + n)
  BY <1>2, <1>3, RetireFailures
<1>5. Cardinality(faulty) + Cardinality(broken) + n \in Nat
  BY <1>3
<1>. QED BY <1>4, <1>5

-----------------------------------------------------------------------------
(* The backend, whichever half moves it. *)

(* The backend the two halves share keeps its type, whoever takes the step. *)
LEMMA BackendTyped ==
  ASSUME BackendTypeOK, [Next]_vars
  PROVE  BackendTypeOK'
<1>1. ASSUME NoFailure \/ \E n \in Nat : Fails(n)
      PROVE  BackendTypeOK'
  BY <1>1 DEF BackendTypeOK, NoFailure, Fails, backendVars
<1>2. CASE StudioStep
  BY <1>1, <1>2, StudioFailures DEF StudioStep
<1>3. CASE CoreStep
  BY <1>1, <1>3, CoreFailures DEF CoreStep
<1>4. CASE Tick
  BY <1>1, <1>4, TickFailures
<1>5. CASE RefreshBackend
  BY <1>5 DEF RefreshBackend, AdoptBackend, Reported, BackendTypeOK
<1>6. ASSUME NEW s \in Systems \cup {NoSystem}, Restart(s)
      PROVE  BackendTypeOK'
  BY <1>6 DEF Restart, Studio!Restart, Studio!RestartSystem, BackendTypeOK
<1>7. CASE Hiccup
  <2>1. Studio!HideSystem \/ Studio!ShowSystem
    BY <1>7 DEF Hiccup, Studio!Hiccup
  <2>2. CASE Studio!HideSystem
    <3>1. visible' \in BOOLEAN
      BY <2>2 DEF Studio!HideSystem
    <3>2. hiccups' \in 0..MaxHiccups
      BY <2>2 DEF Studio!HideSystem, BackendTypeOK
    <3>3. UNCHANGED <<system, active, epoch, restarts, faults>>
      BY <2>2 DEF Studio!HideSystem
    <3>. QED BY <3>1, <3>2, <3>3 DEF BackendTypeOK
  <2>3. CASE Studio!ShowSystem
    BY <2>3 DEF Studio!ShowSystem, BackendTypeOK
  <2>. QED BY <2>1, <2>2, <2>3
<1>8. ASSUME NEW entity \in Entities, EntityChanges(entity)
      PROVE  BackendTypeOK'
  BY <1>8 DEF EntityChanges, Studio!EntityChanges, Studio!backendVars, BackendTypeOK
<1>9. ASSUME NEW e \in EventHandles, InstanceChanges(e)
      PROVE  BackendTypeOK'
  BY <1>9 DEF InstanceChanges, Studio!InstanceStops, Studio!InstanceDies,
              Studio!backendVars, BackendTypeOK
<1>10. ASSUME NEW c \in ChannelHandles, ChannelEnds(c)
       PROVE  BackendTypeOK'
  BY <1>10 DEF ChannelEnds, Core!ChannelEnds, Core!backendVars, BackendTypeOK
<1>11. ASSUME NEW b \in Buses, BusChanges(b)
       PROVE  BackendTypeOK'
  BY <1>11 DEF BusChanges, Core!BusChanges, Core!backendVars, BackendTypeOK
<1>12. CASE UNCHANGED vars
  BY <1>12 DEF vars, backendVars, BackendTypeOK
<1>. QED BY <1>2, <1>3, <1>4, <1>5, <1>6, <1>7, <1>8, <1>9, <1>10, <1>11, <1>12 DEF Next


-----------------------------------------------------------------------------
(* The Studio half. *)

(* A state of the manager that starts is one AudioBanks starts in. *)
LEMMA StudioInit == Init => Studio!Init
BY DEF Init, BackendInit, Studio!Init, Studio!BackendInit

(* Failures of the calls the other half makes. *)
LEMMA StudioFailedCalls ==
  ASSUME BackendTypeOK, NoFailure \/ \E n \in Nat : Fails(n),
         UNCHANGED <<studioVars, entities>>
  PROVE  [Studio!Next]_Studio!vars
<1>1. CASE NoFailure
  BY <1>1 DEF NoFailure, backendVars, studioVars, Studio!vars, Studio!backendVars,
              Studio!banksVars, Studio!poolVars
<1>2. ASSUME NEW n \in Nat, Fails(n)
      PROVE  [Studio!Next]_Studio!vars
  <2>1. n \in 0..MaxFaults
    BY <1>2 DEF Fails, BackendTypeOK
  <2>2. CASE n = 0
    BY <1>2, <2>2 DEF Fails, BackendTypeOK, studioVars, Studio!vars, Studio!backendVars,
                      Studio!banksVars, Studio!poolVars
  <2>3. CASE n # 0
    <3>1. Studio!SoundCallsFail
      BY <1>2, <2>1, <2>3 DEF Fails, Studio!Fails, studioVars, Studio!SoundCallsFail,
                              Studio!banksVars, Studio!poolVars
    <3>. QED BY <3>1 DEF Studio!Next, Studio!WorldStep
  <2>. QED BY <2>2, <2>3
<1>. QED BY <1>1, <1>2

(* Tick, seen from the events: the calls that fail for channels and routes  *)
(* are its others.                                                          *)
LEMMA StudioTick ==
  ASSUME BackendTypeOK, Tick
  PROVE  Studio!Tick
<1>1. PICK faulty \in SUBSET {e \in Studio!Events : Studio!Valid(e)},
           broken \in SUBSET (Core!Channels \cap playing) :
        /\ Studio!TickEvents(faulty)
        /\ Core!TickChannels(broken, Cardinality(faulty) + Cardinality(broken))
  BY Zenon DEF Tick
<1>2. PICK R : Core!Retire(R, Cardinality(faulty) + Cardinality(broken))
  BY <1>1, Zenon DEF Core!TickChannels
<1>3. /\ Cardinality(faulty) \in Nat /\ Cardinality(broken) \in Nat
      /\ Cardinality(faulty) + Cardinality(broken) \in Nat
  BY HandleSets DEF Studio!Events, Core!Channels
<1>4. PICK n \in Nat : Fails(Cardinality(faulty) + Cardinality(broken) + n)
  BY <1>2, <1>3, RetireFailures
<1>5. Cardinality(broken) + n \in 0..MaxFaults
  BY <1>3, <1>4 DEF Fails, BackendTypeOK
<1>6. Studio!Fails(Studio!Cardinality(faulty) + (Cardinality(broken) + n))
  BY <1>3, <1>4, OneCardinality DEF Fails, Studio!Fails, BackendTypeOK
<1>7. Studio!Ready
  BY DEF Tick, Ready, Reported, Studio!Ready, Studio!Reported
<1>. QED BY <1>1, <1>5, <1>6, <1>7, Zenon DEF Studio!Tick

(* Every step of the manager is one AudioBanks allows for. *)
LEMMA StudioNext ==
  ASSUME BackendTypeOK, [Next]_vars
  PROVE  [Studio!Next]_Studio!vars
<1>1. CASE StudioStep
  BY <1>1 DEF StudioStep, Studio!Next
<1>2. CASE CoreStep
  BY <1>2, CoreFailures, StudioFailedCalls DEF CoreStep
<1>3. CASE Tick
  BY <1>3, StudioTick DEF Studio!Next
<1>4. CASE RefreshBackend
  <2>1. Studio!RefreshBackend
    BY <1>4 DEF RefreshBackend, ResetForBackendChange, AdoptBackend, Reported,
                Studio!RefreshBackend, Studio!AdoptBackend, Studio!Reported, Studio!poolVars
  <2>. QED BY <2>1 DEF Studio!Next
<1>5. ASSUME NEW s \in Systems \cup {NoSystem}, Restart(s)
      PROVE  Studio!Next
  BY <1>5 DEF Restart, Studio!Next, Studio!WorldStep
<1>6. CASE Hiccup
  BY <1>6 DEF Hiccup, Studio!Next, Studio!WorldStep
<1>7. ASSUME NEW entity \in Entities, EntityChanges(entity)
      PROVE  Studio!Next
  BY <1>7 DEF EntityChanges, Studio!Next, Studio!WorldStep
<1>8. ASSUME NEW e \in EventHandles, InstanceChanges(e)
      PROVE  Studio!Next
  BY <1>8 DEF InstanceChanges, Studio!Next, Studio!WorldStep
<1>9. ASSUME NEW c \in ChannelHandles, ChannelEnds(c)
      PROVE  [Studio!Next]_Studio!vars
  <2>1. NoFailure /\ UNCHANGED <<studioVars, entities>>
    BY <1>9 DEF ChannelEnds, Core!ChannelEnds, Core!backendVars, NoFailure, backendVars
  <2>. QED BY <2>1, StudioFailedCalls
<1>10. ASSUME NEW b \in Buses, BusChanges(b)
       PROVE  [Studio!Next]_Studio!vars
  <2>1. NoFailure /\ UNCHANGED <<studioVars, entities>>
    BY <1>10 DEF BusChanges, Core!BusChanges, Core!backendVars, NoFailure, backendVars
  <2>. QED BY <2>1, StudioFailedCalls
<1>11. CASE UNCHANGED vars
  BY <1>11, StudioFailedCalls DEF vars, NoFailure
<1>. QED BY <1>1, <1>2, <1>3, <1>4, <1>5, <1>6, <1>7, <1>8, <1>9, <1>10, <1>11 DEF Next

(* Seen from its banks and events the manager is AudioBanks: whatever the   *)
(* operations on loose sounds, the shared Tick and the shared backend do.   *)
THEOREM ManagerImplementsStudio == Spec => ImplementsStudio
<1>1. Init => BackendTypeOK
  BY DEF Init, BackendInit, BackendTypeOK
<1>2. BackendTypeOK /\ [Next]_vars => BackendTypeOK'
  BY BackendTyped
<1>3. BackendTypeOK /\ [Next]_vars => [Studio!Next]_Studio!vars
  BY StudioNext
<1>. QED BY <1>1, <1>2, <1>3, StudioInit, PTL DEF Spec, ImplementsStudio, Studio!Spec


-----------------------------------------------------------------------------
(* The Core half. *)

(* A state of the manager that starts is one AudioSounds starts in. *)
LEMMA CoreInit == Init => Core!Init
BY DEF Init, BackendInit, Core!Init, Core!BackendInit

(* Failures of the calls the other half makes. *)
LEMMA CoreFailedCalls ==
  ASSUME BackendTypeOK, NoFailure \/ \E n \in Nat : Fails(n),
         UNCHANGED <<coreVars, entities>>
  PROVE  [Core!Next]_Core!vars
<1>1. UNCHANGED Core!soundsVars
  BY DEF coreVars, Core!soundsVars, Core!soundPoolVars, Core!fmodVars
<1>2. CASE NoFailure
  BY <1>1, <1>2 DEF NoFailure, backendVars, Core!vars, Core!backendVars
<1>3. ASSUME NEW n \in Nat, Fails(n)
      PROVE  [Core!Next]_Core!vars
  <2>1. n \in 0..MaxFaults
    BY <1>3 DEF Fails, BackendTypeOK
  <2>2. CASE n = 0
    BY <1>1, <1>3, <2>2 DEF Fails, BackendTypeOK, Core!vars, Core!backendVars
  <2>3. CASE n # 0
    <3>1. Core!BankCallsFail
      BY <1>1, <1>3, <2>1, <2>3 DEF Fails, Core!Fails, Core!BankCallsFail
    <3>. QED BY <3>1 DEF Core!Next, Core!WorldStep
  <2>. QED BY <2>2, <2>3
<1>. QED BY <1>2, <1>3

(* Tick, seen from the channels: the calls that fail for events are its      *)
(* others.                                                                   *)
LEMMA CoreTick ==
  ASSUME BackendTypeOK, Tick
  PROVE  Core!Tick
<1>1. PICK faulty \in SUBSET {e \in Studio!Events : Studio!Valid(e)},
           broken \in SUBSET (Core!Channels \cap playing) :
        Core!TickChannels(broken, Cardinality(faulty) + Cardinality(broken))
  BY Zenon DEF Tick
<1>2. PICK R : Core!Retire(R, Cardinality(faulty) + Cardinality(broken))
  BY <1>1, Zenon DEF Core!TickChannels
<1>3. /\ Cardinality(faulty) \in Nat /\ Cardinality(broken) \in Nat
      /\ Cardinality(faulty) + Cardinality(broken) \in Nat
  BY HandleSets DEF Studio!Events, Core!Channels
<1>4. PICK n \in Nat : Fails(Cardinality(faulty) + Cardinality(broken) + n)
  BY <1>2, <1>3, RetireFailures
<1>5. Cardinality(faulty) \in 0..MaxFaults
  BY <1>3, <1>4 DEF Fails, BackendTypeOK
<1>6. Cardinality(faulty) + Cardinality(broken) =
        Core!Cardinality(broken) + Cardinality(faulty)
  BY <1>3, OneCardinality
<1>7. Core!TickChannels(broken, Core!Cardinality(broken) + Cardinality(faulty))
  BY <1>1, <1>6
<1>8. Core!Ready
  BY DEF Tick, Ready, Reported, Core!Ready, Core!Reported
<1>. QED BY <1>5, <1>7, <1>8, Zenon DEF Core!Tick

(* Every step of the manager is one AudioSounds allows for. *)
LEMMA CoreNext ==
  ASSUME BackendTypeOK, [Next]_vars
  PROVE  [Core!Next]_Core!vars
<1>1. CASE StudioStep
  BY <1>1, StudioFailures, CoreFailedCalls DEF StudioStep
<1>2. CASE CoreStep
  BY <1>2 DEF CoreStep, Core!Next
<1>3. CASE Tick
  BY <1>3, CoreTick DEF Core!Next
<1>4. CASE RefreshBackend
  <2>1. Core!RefreshBackend
    BY <1>4 DEF RefreshBackend, ResetForBackendChange, AdoptBackend, Reported,
                Core!RefreshBackend, Core!AdoptBackend, Core!Reported,
                Core!soundPoolVars, Core!fmodVars
  <2>. QED BY <2>1 DEF Core!Next
<1>5. ASSUME NEW s \in Systems \cup {NoSystem}, Restart(s)
      PROVE  Core!Next
  BY <1>5 DEF Restart, Core!Next, Core!WorldStep
<1>6. CASE Hiccup
  BY <1>6 DEF Hiccup, Core!Next, Core!WorldStep
<1>7. ASSUME NEW entity \in Entities, EntityChanges(entity)
      PROVE  Core!Next
  BY <1>7 DEF EntityChanges, Core!Next, Core!WorldStep
<1>8. ASSUME NEW e \in EventHandles, InstanceChanges(e)
      PROVE  [Core!Next]_Core!vars
  <2>1. NoFailure /\ UNCHANGED <<coreVars, entities>>
    BY <1>8 DEF InstanceChanges, Studio!InstanceStops, Studio!InstanceDies,
                Studio!backendVars, NoFailure, backendVars
  <2>. QED BY <2>1, CoreFailedCalls
<1>9. ASSUME NEW c \in ChannelHandles, ChannelEnds(c)
      PROVE  Core!Next
  BY <1>9 DEF ChannelEnds, Core!Next, Core!WorldStep
<1>10. ASSUME NEW b \in Buses, BusChanges(b)
       PROVE  Core!Next
  BY <1>10 DEF BusChanges, Core!Next, Core!WorldStep
<1>11. CASE UNCHANGED vars
  BY <1>11, CoreFailedCalls DEF vars, NoFailure
<1>. QED BY <1>1, <1>2, <1>3, <1>4, <1>5, <1>6, <1>7, <1>8, <1>9, <1>10, <1>11 DEF Next

(* Seen from its sounds, channels and routes it is AudioSounds: whatever the *)
(* operations on banks and events, the shared Tick and the shared backend do.*)
THEOREM ManagerImplementsCore == Spec => ImplementsCore
<1>1. Init => BackendTypeOK
  BY DEF Init, BackendInit, BackendTypeOK
<1>2. BackendTypeOK /\ [Next]_vars => BackendTypeOK'
  BY BackendTyped
<1>3. BackendTypeOK /\ [Next]_vars => [Core!Next]_Core!vars
  BY CoreNext
<1>. QED BY <1>1, <1>2, <1>3, CoreInit, PTL DEF Spec, ImplementsCore, Core!Spec

=============================================================================
