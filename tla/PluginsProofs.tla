---------------------------- MODULE PluginsProofs ---------------------------
(***************************************************************************)
(* Proofs about the small plugins, a section or more for each: any mods    *)
(* and closures, any places, any number of marks, of handles, of sessions  *)
(* that edit and save cvars, any trees and patches of rows; and about the  *)
(* plans of Autobrew, for any recipe.                                      *)
(***************************************************************************)
EXTENDS McmListeners, FastTravel, CompassNames, RttrHandles, PersistedEdits,
        PtfMerge, BrewKitchen, FiniteSetTheorems, WellFoundedInduction, TLAPS

-----------------------------------------------------------------------------
(* McmListeners.  RefsExact is inductive only together with the shape of    *)
(* the vectors; ToldOnce needs that no entry appears twice.                 *)

ListenersInv == ListenersTypeOK /\ ListenersUnique /\ RefsExact /\ ToldOnce

(* An entry appended to a vector is the only place that changes. *)
LEMMA AppendPlaces ==
  ASSUME NEW S, NEW s \in Seq(S), NEW x \in S
  PROVE  /\ Append(s, x) \in Seq(S)
         /\ DOMAIN Append(s, x) = DOMAIN s \cup {Len(s) + 1}
         /\ Len(s) + 1 \notin DOMAIN s
         /\ Append(s, x)[Len(s) + 1] = x
         /\ \A k \in DOMAIN s : Append(s, x)[k] = s[k]
  OBVIOUS

(* The places of a vector, and of any part of it, are finitely many. *)
LEMMA FinitePlaces ==
  ASSUME NEW S, NEW s \in Seq(S), NEW T \in SUBSET DOMAIN s
  PROVE  IsFiniteSet(T) /\ Cardinality(T) \in Nat
<1>1. DOMAIN s = 1..Len(s) /\ Len(s) \in Nat
  OBVIOUS
<1>2. IsFiniteSet(DOMAIN s)
  BY <1>1, FS_Interval
<1> QED BY <1>2, FS_Subset, FS_CardinalityType

(* A set whose elements are all the same has one element at most. *)
LEMMA AtMostOne ==
  ASSUME NEW T, IsFiniteSet(T), \A j, k \in T : j = k
  PROVE  Cardinality(T) <= 1
<1>1. CASE T = {}
  BY <1>1, FS_EmptySet
<1>2. CASE T # {}
  <2>1. PICK j \in T : TRUE
    BY <1>2
  <2>2. T = {j}
    BY <2>1
  <2> QED BY <2>2, FS_Singleton
<1> QED BY <1>1, <1>2

(* Nothing is registered, and no reference held, at the start. *)
LEMMA InitListeners == ListenersInit => ListenersInv
<1> SUFFICES ASSUME ListenersInit PROVE ListenersInv
  OBVIOUS
<1>1. ListenersTypeOK /\ ListenersUnique
  BY DEF ListenersInit, ListenersTypeOK, ListenersUnique
<1>2. \A f \in Closures : ValueEntries(f) = {} /\ BuildEntries(f) = {}
  BY DEF ListenersInit, ValueEntries, BuildEntries
<1>3. RefsExact
  <2>1. Cardinality({}) = 0
    BY FS_EmptySet
  <2>2. ASSUME NEW f \in Closures
        PROVE  refs[f] = Cardinality(ValueEntries(f)) + Cardinality(BuildEntries(f))
    <3>1. refs[f] = 0
      BY DEF ListenersInit
    <3>2. Cardinality(ValueEntries(f)) = 0 /\ Cardinality(BuildEntries(f)) = 0
      BY <1>2, <2>1
    <3> QED BY <3>1, <3>2
  <2> QED BY <2>2 DEF RefsExact
<1>4. ToldOnce
  BY DEF ToldOnce, ListenersInit
<1> QED BY <1>1, <1>3, <1>4 DEF ListenersInv

(* A registration of a value listener adds one entry and one reference, or  *)
(* neither.                                                                 *)
LEMMA ValueRegistrationKeeps ==
  ASSUME ListenersInv, NEW m \in ModIds, NEW f \in Closures,
         RegisterValueChangeListener(m, f)
  PROVE  ListenersInv'
<1>1. CASE UNCHANGED <<valueListeners, refs>>
  <2>1. UNCHANGED <<valueListeners, buildListeners, refs, told>>
    BY <1>1 DEF RegisterValueChangeListener
  <2> QED BY <2>1 DEF ListenersInv, ListenersTypeOK, ListenersUnique, RefsExact,
                      ToldOnce, ValueEntries, BuildEntries
<1>2. CASE /\ ~Registered(m, f)
           /\ valueListeners' = Append(valueListeners, [mod |-> m, fn |-> f])
           /\ refs' = [refs EXCEPT ![f] = @ + 1]
  <2> DEFINE n == Len(valueListeners) + 1
             x == [mod |-> m, fn |-> f]
             E == [mod : ModIds, fn : Closures]
  <2>1. valueListeners \in Seq(E) /\ x \in E /\ buildListeners \in Seq(Closures)
    BY DEF ListenersInv, ListenersTypeOK
  <2>2. UNCHANGED <<buildListeners, told>>
    BY DEF RegisterValueChangeListener
  <2>3. /\ valueListeners' \in Seq(E)
        /\ DOMAIN valueListeners' = DOMAIN valueListeners \cup {n}
        /\ n \notin DOMAIN valueListeners
        /\ valueListeners'[n] = x
        /\ \A k \in DOMAIN valueListeners : valueListeners'[k] = valueListeners[k]
    BY <1>2, <2>1, AppendPlaces
  <2>4. ListenersTypeOK'
    BY <1>2, <2>2, <2>3 DEF ListenersInv, ListenersTypeOK
  <2>5. \A k \in DOMAIN valueListeners : valueListeners[k] # x
    BY <1>2 DEF Registered
  <2>6. ListenersUnique'
    BY <2>2, <2>3, <2>5 DEF ListenersInv, ListenersUnique
  <2>7. ASSUME NEW g \in Closures
        PROVE  refs'[g] = Cardinality(ValueEntries(g)') + Cardinality(BuildEntries(g)')
    <3>1. BuildEntries(g)' = BuildEntries(g)
      BY <2>2 DEF BuildEntries
    <3>2. IsFiniteSet(ValueEntries(g)) /\ Cardinality(ValueEntries(g)) \in Nat
      BY <2>1, FinitePlaces DEF ValueEntries
    <3>3. Cardinality(BuildEntries(g)) \in Nat
      BY <2>1, FinitePlaces DEF BuildEntries
    <3>4. refs[g] = Cardinality(ValueEntries(g)) + Cardinality(BuildEntries(g))
      BY DEF ListenersInv, RefsExact
    <3>5. CASE g = f
      <4>1. ValueEntries(g)' = ValueEntries(g) \cup {n} /\ n \notin ValueEntries(g)
        BY <2>3, <3>5 DEF ValueEntries
      <4>2. Cardinality(ValueEntries(g)') = Cardinality(ValueEntries(g)) + 1
        BY <3>2, <4>1, FS_AddElement
      <4>3. refs'[g] = refs[g] + 1
        BY <1>2, <3>5 DEF ListenersInv, ListenersTypeOK
      <4> QED BY <3>1, <3>2, <3>3, <3>4, <4>2, <4>3
    <3>6. CASE g # f
      <4>1. ValueEntries(g)' = ValueEntries(g)
        BY <2>3, <3>6 DEF ValueEntries
      <4>2. refs'[g] = refs[g]
        BY <1>2, <3>6 DEF ListenersInv, ListenersTypeOK
      <4> QED BY <3>1, <3>4, <4>1, <4>2
    <3> QED BY <3>5, <3>6
  <2>8. RefsExact'
    BY <2>7 DEF RefsExact
  <2>9. ToldOnce'
    BY <2>2 DEF ListenersInv, ToldOnce
  <2> QED BY <2>4, <2>6, <2>8, <2>9 DEF ListenersInv
<1> QED BY <1>1, <1>2 DEF RegisterValueChangeListener

(* The same for a build listener. *)
LEMMA BuildRegistrationKeeps ==
  ASSUME ListenersInv, NEW f \in Closures, RegisterBuildSettingsListener(f)
  PROVE  ListenersInv'
<1>1. CASE UNCHANGED <<buildListeners, refs>>
  BY <1>1 DEF ListenersInv, ListenersTypeOK, ListenersUnique, RefsExact, ToldOnce,
              ValueEntries, BuildEntries, RegisterBuildSettingsListener
<1>2. CASE /\ ~Building(f)
           /\ buildListeners' = Append(buildListeners, f)
           /\ refs' = [refs EXCEPT ![f] = @ + 1]
  <2> DEFINE n == Len(buildListeners) + 1
  <2>1. /\ valueListeners \in Seq([mod : ModIds, fn : Closures])
        /\ buildListeners \in Seq(Closures)
    BY DEF ListenersInv, ListenersTypeOK
  <2>2. UNCHANGED <<valueListeners, told>>
    BY DEF RegisterBuildSettingsListener
  <2>3. /\ buildListeners' \in Seq(Closures)
        /\ DOMAIN buildListeners' = DOMAIN buildListeners \cup {n}
        /\ n \notin DOMAIN buildListeners
        /\ buildListeners'[n] = f
        /\ \A k \in DOMAIN buildListeners : buildListeners'[k] = buildListeners[k]
    BY <1>2, <2>1, AppendPlaces
  <2>4. ListenersTypeOK'
    BY <1>2, <2>2, <2>3 DEF ListenersInv, ListenersTypeOK
  <2>5. ListenersUnique'
    BY <1>2, <2>2, <2>3 DEF ListenersInv, ListenersUnique, Building
  <2>6. ASSUME NEW g \in Closures
        PROVE  refs'[g] = Cardinality(ValueEntries(g)') + Cardinality(BuildEntries(g)')
    <3>1. ValueEntries(g)' = ValueEntries(g)
      BY <2>2 DEF ValueEntries
    <3>2. IsFiniteSet(BuildEntries(g)) /\ Cardinality(BuildEntries(g)) \in Nat
      BY <2>1, FinitePlaces DEF BuildEntries
    <3>3. Cardinality(ValueEntries(g)) \in Nat
      BY <2>1, FinitePlaces DEF ValueEntries
    <3>4. refs[g] = Cardinality(ValueEntries(g)) + Cardinality(BuildEntries(g))
      BY DEF ListenersInv, RefsExact
    <3>5. CASE g = f
      <4>1. BuildEntries(g)' = BuildEntries(g) \cup {n} /\ n \notin BuildEntries(g)
        BY <2>3, <3>5 DEF BuildEntries
      <4>2. Cardinality(BuildEntries(g)') = Cardinality(BuildEntries(g)) + 1
        BY <3>2, <4>1, FS_AddElement
      <4>3. refs'[g] = refs[g] + 1
        BY <1>2, <3>5 DEF ListenersInv, ListenersTypeOK
      <4> QED BY <3>1, <3>2, <3>3, <3>4, <4>2, <4>3
    <3>6. CASE g # f
      <4>1. BuildEntries(g)' = BuildEntries(g)
        BY <2>3, <3>6 DEF BuildEntries
      <4>2. refs'[g] = refs[g]
        BY <1>2, <3>6 DEF ListenersInv, ListenersTypeOK
      <4> QED BY <3>1, <3>4, <4>1, <4>2
    <3> QED BY <3>5, <3>6
  <2>7. RefsExact'
    BY <2>6 DEF RefsExact
  <2>8. ToldOnce'
    BY <2>2 DEF ListenersInv, ToldOnce
  <2> QED BY <2>4, <2>5, <2>7, <2>8 DEF ListenersInv
<1> QED BY <1>1, <1>2 DEF RegisterBuildSettingsListener

(* A change calls the entries of one mod, and each of them is another one. *)
LEMMA FanOutKeeps ==
  ASSUME ListenersInv, NEW m \in ModIds, OnValueChanged(m)
  PROVE  ListenersInv'
<1>1. UNCHANGED <<valueListeners, buildListeners, refs>>
  BY DEF OnValueChanged
<1>2. PICK failed \in SUBSET DOMAIN valueListeners :
        told' = [f \in Closures |->
                   Cardinality({k \in DOMAIN valueListeners \ failed :
                                  valueListeners[k] = [mod |-> m, fn |-> f]})]
  BY DEF OnValueChanged
<1>3. ASSUME NEW f \in Closures
      PROVE  told'[f] \in Nat /\ told'[f] <= 1
  <2> DEFINE T == {k \in DOMAIN valueListeners \ failed :
                     valueListeners[k] = [mod |-> m, fn |-> f]}
  <2>1. told'[f] = Cardinality(T)
    BY <1>2
  <2>2. IsFiniteSet(T) /\ Cardinality(T) \in Nat
    <3>1. T \in SUBSET DOMAIN valueListeners
      OBVIOUS
    <3>2. valueListeners \in Seq([mod : ModIds, fn : Closures])
      BY DEF ListenersInv, ListenersTypeOK
    <3> QED BY <3>1, <3>2, FinitePlaces
  <2>3. \A j, k \in T : j = k
    BY DEF ListenersInv, ListenersUnique
  <2>4. Cardinality(T) <= 1
    <3> HIDE DEF T
    <3> QED BY <2>2, <2>3, AtMostOne
  <2> QED BY <2>1, <2>2, <2>4
<1>4. told' \in [Closures -> Nat]
  BY <1>2, <1>3
<1> QED BY <1>1, <1>3, <1>4
  DEF ListenersInv, ListenersTypeOK, ListenersUnique, RefsExact, ToldOnce,
      ValueEntries, BuildEntries

(* The vectors, the references and the calls stay as ListenersInv says. *)
THEOREM ListenersCorrect == ListenersSpec => []ListenersInv
<1>1. ListenersInv /\ [ListenersNext]_listenerVars => ListenersInv'
  <2> SUFFICES ASSUME ListenersInv, [ListenersNext]_listenerVars PROVE ListenersInv'
    OBVIOUS
  <2>1. CASE \E m \in ModIds, f \in Closures : RegisterValueChangeListener(m, f)
    BY <2>1, ValueRegistrationKeeps
  <2>2. CASE \E f \in Closures : RegisterBuildSettingsListener(f)
    BY <2>2, BuildRegistrationKeeps
  <2>3. CASE \E m \in ModIds : OnValueChanged(m)
    BY <2>3, FanOutKeeps
  <2>4. CASE UNCHANGED listenerVars
    BY <2>4 DEF listenerVars, ListenersInv, ListenersTypeOK, ListenersUnique, RefsExact,
                ToldOnce, ValueEntries, BuildEntries
  <2> QED BY <2>1, <2>2, <2>3, <2>4 DEF ListenersNext
<1> QED BY InitListeners, <1>1, PTL DEF ListenersSpec

(* The plugin holds one reference to a closure for each of its entries. *)
THEOREM ReferencesNeverLeak == ListenersSpec => []RefsExact
<1>1. ListenersInv => RefsExact
  BY DEF ListenersInv
<1> QED BY <1>1, ListenersCorrect, PTL

(* A change of a setting calls no closure twice. *)
THEOREM ClosuresToldOnce == ListenersSpec => []ToldOnce
<1>1. ListenersInv => ToldOnce
  BY DEF ListenersInv
<1> QED BY <1>1, ListenersCorrect, PTL
-----------------------------------------------------------------------------
(* FastTravel. *)

(* While the dialog is open its mark is armed unless somebody re-armed; and *)
(* after a yes nothing is left that would draw a route.                     *)
TravelInv ==
  /\ tasks \in Nat /\ traveling \in BOOLEAN /\ prompt \in BOOLEAN
  /\ (dialog # Nowhere /\ ~rearmed) => destination = dialog
  /\ answered => ~pending /\ line = Nowhere

(* The invariant holds before the first press. *)
LEMMA InitTravel == TravelInit => TravelInv
<1> SUFFICES ASSUME TravelInit PROVE TravelInv
  OBVIOUS
<1>1. traveling \in BOOLEAN /\ prompt \in BOOLEAN
  BY Zenon DEF TravelInit
<1> QED BY <1>1 DEF TravelInit, TravelInv

(* Every press, answer and deferred cancel keeps it, and so does whatever   *)
(* the game does in between.                                                *)
LEMMA NextTravel ==
  ASSUME TravelInv, [TravelNext]_travelVars
  PROVE  TravelInv'
<1> USE DEF TravelInv, travel
<1>1. CASE PressArm
  BY <1>1 DEF PressArm, MarkUnderCursor
<1>2. CASE PressConfirm
  BY <1>2 DEF PressConfirm, RouteArmedTo
<1>3. CASE Yes
  <2>1. traveling' \in BOOLEAN
    BY <1>3, Zenon DEF Yes
  <2>2. tasks' \in Nat /\ prompt' \in BOOLEAN /\ dialog' = Nowhere
        /\ ~pending' /\ line' = Nowhere
    BY <1>3 DEF Yes
  <2> QED BY <2>1, <2>2
<1>4. CASE No
  BY <1>4 DEF No
<1>5. CASE PressCancel
  BY <1>5 DEF PressCancel
<1>6. CASE TryCancelFastTravel
  <2>1. traveling' \in BOOLEAN
    BY <1>6, Zenon DEF TryCancelFastTravel
  <2>2. tasks' \in Nat
    BY <1>6 DEF TryCancelFastTravel
  <2> QED BY <1>6, <2>1, <2>2 DEF TryCancelFastTravel
<1>7. CASE PlaceMark
  BY <1>7 DEF PlaceMark
<1>8. CASE ShowMap
  BY <1>8 DEF ShowMap
<1>9. CASE HideMap
  BY <1>9 DEF HideMap
<1>10. CASE OthersArm
  BY <1>10 DEF OthersArm
<1>11. CASE OthersStart
  <2>1. traveling' \in BOOLEAN
    BY <1>11, Zenon DEF OthersStart
  <2> QED BY <1>11, <2>1 DEF OthersStart
<1>12. CASE Arrive
  <2>1. traveling' \in BOOLEAN
    BY <1>12, Zenon DEF Arrive
  <2> QED BY <1>12, <2>1 DEF Arrive
<1>13. CASE Ambush
  <2>1. prompt' \in BOOLEAN
    BY <1>13, Zenon DEF Ambush
  <2> QED BY <1>13, <2>1 DEF Ambush
<1>14. CASE AmbushAnswered
  <2>1. traveling' \in BOOLEAN /\ prompt' \in BOOLEAN
    BY <1>14, Zenon DEF AmbushAnswered
  <2> QED BY <1>14, <2>1 DEF AmbushAnswered
<1>15. CASE UNCHANGED travelVars
  BY <1>15 DEF travelVars
<1> QED BY <1>1, <1>2, <1>3, <1>4, <1>5, <1>6, <1>7, <1>8, <1>9, <1>10, <1>11,
           <1>12, <1>13, <1>14, <1>15 DEF TravelNext

(* Only an answer closes the dialog, and only a yes starts a travel then.   *)
LEMMA AsAsked ==
  ASSUME TravelInv, [TravelNext]_travelVars
  PROVE  StartsWhereAsked
<1> SUFFICES ASSUME dialog # Nowhere, dialog' = Nowhere, ~traveling, traveling'
             PROVE  destination' = dialog \/ (rearmed /\ refused')
  BY DEF StartsWhereAsked
<1>1. Yes
  <2>1. ~No
    BY DEF No, travel
  <2> QED BY <2>1 DEF TravelNext, travelVars, travel, PressArm, PressConfirm, PressCancel, TryCancelFastTravel,
        PlaceMark, ShowMap, HideMap, OthersArm, OthersStart, Arrive, Ambush, AmbushAnswered
<1> QED BY <1>1 DEF Yes, SetDestination, TravelInv

(* Only the deferred cancel takes a task, and it looks at the prompt again. *)
LEMMA PromptLeftAlone ==
  ASSUME TravelInv, [TravelNext]_travelVars
  PROVE  LeavesPromptAlone
<1> SUFFICES ASSUME tasks' < tasks, prompt PROVE traveling' = traveling
  BY DEF LeavesPromptAlone
<1>1. tasks' # tasks /\ tasks' # tasks + 1
  BY DEF TravelInv
<1>2. TryCancelFastTravel
  BY <1>1 DEF TravelNext, travelVars, travel, PressArm, PressConfirm, PressCancel, Yes, No,
     PlaceMark, ShowMap, HideMap, OthersArm, OthersStart, Arrive, Ambush, AmbushAnswered
<1> QED BY <1>2 DEF TryCancelFastTravel, TravelInv
-----------------------------------------------------------------------------
(* A yes travels to the confirmed mark, and a deferred cancel leaves a      *)
(* prompt that opened meanwhile alone.                                      *)
THEOREM TravelsAsConfirmed == TravelSpec => TravelsAsAsked
<1>1. TravelInv /\ [TravelNext]_travelVars => [StartsWhereAsked /\ LeavesPromptAlone]_travelVars
  BY AsAsked, PromptLeftAlone
<1>2. TravelInv /\ [TravelNext]_travelVars => TravelInv'
  BY NextTravel
<1> QED BY <1>1, <1>2, InitTravel, PTL DEF TravelSpec, TravelsAsAsked

(* After a yes no route is drawn until one is armed again.                  *)
THEOREM NoRouteAfterYes == TravelSpec => []NoGhostRoute
<1>1. TravelInv => NoGhostRoute
  BY DEF TravelInv, NoGhostRoute
<1>2. TravelInv /\ [TravelNext]_travelVars => TravelInv'
  BY NextTravel
<1> QED BY <1>1, <1>2, InitTravel, PTL DEF TravelSpec
-----------------------------------------------------------------------------
(* CompassNames. *)

(* The table of names has a name for every objective's mark ever added, a     *)
(* running overlay has it whole, and its script has read some of it.          *)
CompassInv ==
  /\ marks \in Nat /\ live \subseteq 1..marks /\ names \subseteq 1..marks
  /\ titled = names
  /\ overlay = "running" => co_names = names
  /\ namesTable \subseteq names

(* The invariant holds before there are marks or a movie. *)
LEMMA InitCompass == CompassInit => CompassInv
<1>. SUFFICES ASSUME CompassInit PROVE CompassInv
  OBVIOUS
<1>1. marks \in Nat /\ overlay # "running"
  BY DEF CompassInit
<1>. QED BY <1>1 DEF CompassInit, CompassInv

(* New marks, an injection that stops at any step, and a movie that goes    *)
(* away keep it.                                                            *)
LEMMA NextCompass ==
  ASSUME CompassInv, [CompassNext]_compassVars
  PROVE  CompassInv'
<1>1. CASE AddObjectiveCompassMarkers
  <2>1. PICK n \in 1..2, named \in BOOLEAN :
          LET added == (marks + 1)..(marks + n) IN
          /\ marks' = marks + n
          /\ live' = live \cup added
          /\ IF named
             THEN /\ names' = Named(added)
                  /\ titled' = titled \cup added
                  /\ co_names' = IF overlay \in {"empty", "running"} THEN names'
                                 ELSE co_names
             ELSE UNCHANGED <<names, titled, co_names>>
          /\ UNCHANGED <<overlay, namesTable>>
    BY <1>1 DEF AddObjectiveCompassMarkers
  <2>2. /\ marks' \in Nat /\ 1..marks \subseteq 1..marks'
        /\ (marks + 1)..(marks + n) \subseteq 1..marks'
    BY <2>1 DEF CompassInv
  <2>3. CASE named
    BY <2>1, <2>2, <2>3 DEF CompassInv, Named
  <2>4. CASE ~named
    BY <2>1, <2>2, <2>4 DEF CompassInv
  <2>. QED BY <2>3, <2>4
<1>2. CASE InitHud
  BY <1>2 DEF CompassInv, InitHud
<1>3. CASE EnterFrame
  BY <1>3 DEF CompassInv, EnterFrame
<1>4. CASE AddOtherMark
  <2>1. marks' \in Nat /\ 1..marks \subseteq 1..marks' /\ marks + 1 \in 1..marks'
    BY <1>4 DEF CompassInv, AddOtherMark
  <2>. QED BY <1>4, <2>1 DEF CompassInv, AddOtherMark
<1>5. CASE RemoveMark \/ UnloadHud \/ UNCHANGED compassVars
  BY <1>5 DEF CompassInv, RemoveMark, UnloadHud, compassVars
<1>. QED BY <1>1, <1>2, <1>3, <1>4, <1>5 DEF CompassNext

(* When a frame has nothing to read, the running overlay shows the names of   *)
(* just the objectives' marks: part of a finite table that is as long as the  *)
(* table is the table, so that the length is signal enough.                   *)
THEOREM LabelsFollowNames == CompassSpec => []LabelsCurrent
<1>1. CompassInv => LabelsCurrent
  <2>. SUFFICES ASSUME CompassInv, overlay = "running",
                       Cardinality(co_names) = Cardinality(namesTable)
                PROVE  live \cap namesTable = live \cap titled
    BY DEF LabelsCurrent
  <2>1. IsFiniteSet(names)
    <3>1. IsFiniteSet(1..marks)
      BY FS_Interval DEF CompassInv
    <3>. QED BY <3>1, FS_Subset DEF CompassInv
  <2>2. namesTable \subseteq names /\ Cardinality(namesTable) = Cardinality(names)
    BY DEF CompassInv
  <2>3. namesTable = names
    BY <2>1, <2>2, FS_Subset
  <2>. QED BY <2>3 DEF CompassInv
<1>. QED BY <1>1, InitCompass, NextCompass, PTL DEF CompassSpec
-----------------------------------------------------------------------------
(* RttrHandles: the registry of object handles implements the table of      *)
(* names.                                                                   *)

USE HandlesAssumption

(* The handles that were issued or can no longer be.                        *)
Issued == IF nextHandle = 0 THEN Handles ELSE 1..(nextHandle - 1)
Names == [h \in Handles |-> Lookup(h)]

(* Only issued handles have entries.                                        *)
HandlesInv ==
  /\ nextHandle \in 0..MaxHandle
  /\ DOMAIN entries \subseteq Issued

(* An empty sequence has no places. *)
LEMMA EmptyTable == DOMAIN << >> = {}
OBVIOUS

(* The registry is empty before the first store. *)
LEMMA InitHandles ==
  ASSUME HandlesInit
  PROVE  HandlesInv
<1>1. DOMAIN entries = {} /\ nextHandle = 1
  BY EmptyTable DEF HandlesInit
<1> QED BY <1>1 DEF HandlesInv

(* A store uses the next handle, which has no entry yet; releasing and      *)
(* loading only take entries away.                                          *)
LEMMA NextHandles ==
  ASSUME HandlesInv, [HandlesNext]_handleVars
  PROVE  HandlesInv'
<1>1. ASSUME NEW v \in Objects, Store(v) PROVE HandlesInv'
  <2>1. /\ nextHandle # 0 /\ DOMAIN entries' = DOMAIN entries \cup {nextHandle}
        /\ nextHandle' = IF nextHandle = MaxHandle THEN 0 ELSE nextHandle + 1
    BY <1>1 DEF Store
  <2> QED BY <2>1 DEF HandlesInv, Issued, Handles
<1>2. ASSUME NEW h \in Handles, ReleaseHandle(h) PROVE HandlesInv'
  BY <1>2 DEF ReleaseHandle, HandlesInv, Issued
<1>3. CASE ClearHandles
  <2>1. DOMAIN entries' = {} /\ nextHandle' = nextHandle
    BY <1>3, EmptyTable DEF ClearHandles
  <2> QED BY <2>1 DEF HandlesInv
<1>4. CASE UNCHANGED handleVars
  BY <1>4 DEF handleVars, HandlesInv, Issued
<1> QED BY <1>1, <1>2, <1>3, <1>4 DEF HandlesNext

(* The empty registry is the empty table. *)
LEMMA TableInit ==
  ASSUME HandlesInit
  PROVE  Table!Init
<1>1. DOMAIN entries = {} /\ nextHandle = 1
  BY EmptyTable DEF HandlesInit
<1>2. [h \in Handles |-> Lookup(h)] = [n \in Handles |-> Vacant]
  BY <1>1 DEF Lookup
<1>3. (IF nextHandle = 0 THEN Handles ELSE 1..(nextHandle - 1)) = {}
  BY <1>1
<1> QED BY <1>2, <1>3 DEF Table!Init

(* A step of the registry is a step of the table or leaves it alone. *)
LEMMA TableNext ==
  ASSUME HandlesInv, [HandlesNext]_handleVars
  PROVE  [Table!Next]_<<Names, Issued>>
<1> USE DEF HandlesInv
<1>1. ASSUME NEW v \in Objects, Store(v) PROVE Table!Issue(nextHandle, v)
  <2>1. /\ nextHandle \in Handles \ Issued
        /\ nextHandle' = IF nextHandle = MaxHandle THEN 0 ELSE nextHandle + 1
        /\ DOMAIN entries' = DOMAIN entries \cup {nextHandle}
        /\ \A h \in DOMAIN entries' :
             entries'[h] = IF h = nextHandle THEN v ELSE entries[h]
    BY <1>1 DEF Store, Handles, Issued
  <2>2. Names' = [Names EXCEPT ![nextHandle] = v]
    BY <2>1 DEF Names, Lookup, Handles
  <2>3. Issued' = Issued \cup {nextHandle}
    BY <2>1 DEF Issued, Handles
  <2> QED BY <2>1, <2>2, <2>3 DEF Table!Issue, Names, Issued
<1>2. ASSUME NEW h \in Handles, ReleaseHandle(h)
      PROVE  Table!Withdraw(h) \/ UNCHANGED <<Names, Issued>>
  <2>1. /\ DOMAIN entries' = DOMAIN entries \ {h} /\ h \in DOMAIN entries
        /\ \A k \in DOMAIN entries' : entries'[k] = entries[k]
        /\ nextHandle' = nextHandle
    BY <1>2 DEF ReleaseHandle
  <2>2. Names' = [Names EXCEPT ![h] = Vacant]
    BY <2>1 DEF Names, Lookup, Handles
  <2>3. Issued' = Issued
    BY <2>1 DEF Issued, Handles
  <2>4. CASE Names[h] = Vacant
    BY <2>2, <2>3, <2>4 DEF Names
  <2>5. CASE Names[h] # Vacant
    BY <2>2, <2>3, <2>5 DEF Table!Withdraw, Names, Issued
  <2> QED BY <2>4, <2>5
<1>3. ASSUME ClearHandles PROVE Table!WithdrawAll
  <2>1. DOMAIN entries' = {} /\ nextHandle' = nextHandle
    BY <1>3, EmptyTable DEF ClearHandles
  <2>2. Names' = [h \in Handles |-> Vacant]
    BY <2>1 DEF Names, Lookup, Handles
  <2>3. Issued' = Issued /\ Issued \subseteq Handles
    BY <2>1 DEF Issued, Handles
  <2> QED BY <2>2, <2>3 DEF Table!WithdrawAll, Names, Issued
<1>4. CASE UNCHANGED handleVars
  BY <1>4 DEF handleVars, Names, Issued, Lookup, Handles
<1>5. CASE \E v \in Objects : Store(v)
  <2>1. PICK v \in Objects : Store(v)
    BY <1>5
  <2>2. nextHandle \in Handles
    BY <2>1 DEF Store, Handles
  <2> QED BY <1>1, <2>1, <2>2 DEF Table!Next
<1>6. CASE \E h \in Handles : ReleaseHandle(h)
  BY <1>2, <1>6 DEF Table!Next
<1>7. CASE ClearHandles
  BY <1>3, <1>7 DEF Table!Next
<1> QED BY <1>4, <1>5, <1>6, <1>7 DEF HandlesNext

(* A handle names one object from the store that issued it to its release   *)
(* or the next loaded game, and no script's old handle ever names another.  *)
THEOREM RegistryImplementsTable == HandlesSpec => RegistryIsTable
<1>1. HandlesInit => HandlesInv
  BY InitHandles
<1>2. HandlesInv /\ [HandlesNext]_handleVars => HandlesInv'
  BY NextHandles
<1>3. HandlesInit => Table!Init
  BY TableInit
<1>4. HandlesInv /\ [HandlesNext]_handleVars => [Table!Next]_<<Names, Issued>>
  BY TableNext
<1> QED BY <1>1, <1>2, <1>3, <1>4, PTL DEF HandlesSpec, RegistryIsTable, Table!Spec, Names, Issued

HIDE HandlesAssumption
-----------------------------------------------------------------------------
(* PersistedEdits: the files of cvars.  Its proofs take the cvars' lines    *)
(* first, then what each step does to them.                                 *)

USE EditsAssumption

(* Lines. *)

(* A line set among others. *)
LEMMA WithLine ==
  ASSUME NEW e, NEW c, NEW v
  PROVE  /\ DOMAIN With(e, c, v) = DOMAIN e \cup {c}
         /\ With(e, c, v)[c] = v
         /\ \A d \in DOMAIN e \ {c} : With(e, c, v)[d] = e[d]
BY DEF With

(* The lines of some cvars. *)
LEMMA OnlyLines ==
  ASSUME NEW e, NEW C
  PROVE  /\ DOMAIN Only(e, C) = DOMAIN e \cap C
         /\ \A c \in DOMAIN e \cap C : Only(e, C)[c] = e[c]
BY DEF Only

(* Both keep the type of lines. *)
LEMMA LinesTyped ==
  ASSUME NEW e, LinesOK(e)
  PROVE  /\ \A c \in CVars, v \in Values \cup {Blank} : LinesOK(With(e, c, v))
         /\ \A C : LinesOK(Only(e, C))
<1>1. ASSUME NEW c \in CVars, NEW v \in Values \cup {Blank}
      PROVE  LinesOK(With(e, c, v))
  <2>. DEFINE w == With(e, c, v)
  <2>1. /\ DOMAIN w = DOMAIN e \cup {c} /\ w[c] = v
        /\ \A d \in DOMAIN e \ {c} : w[d] = e[d]
    BY DEF With
  <2>. HIDE DEF w
  <2>2. LinesOK(w)
    BY <2>1 DEF LinesOK
  <2>. QED BY <2>2 DEF w
<1>2. ASSUME NEW C
      PROVE  LinesOK(Only(e, C))
  <2>. DEFINE o == Only(e, C)
  <2>1. DOMAIN o = DOMAIN e \cap C /\ \A c \in DOMAIN e \cap C : o[c] = e[c]
    BY OnlyLines
  <2>. HIDE DEF o
  <2>2. LinesOK(o)
    BY <2>1 DEF LinesOK
  <2>. QED BY <2>2 DEF o
<1>. QED BY <1>1, <1>2

(* What a write that is cut short leaves has the type of lines. *)
LEMMA TornTyped ==
  ASSUME NEW e, LinesOK(e), NEW t \in Torn(e)
  PROVE  LinesOK(t)
<1>1. CASE \E n \in 0..Len(Lines) : t = Only(e, {Lines[i] : i \in 1..n})
  BY <1>1, LinesTyped
<1>2. CASE \E n \in DOMAIN Lines :
             t = With(Only(e, {Lines[i] : i \in 1..(n - 1)}), Lines[n], Blank)
  <2>1. PICK n \in DOMAIN Lines :
          t = With(Only(e, {Lines[i] : i \in 1..(n - 1)}), Lines[n], Blank)
    BY <1>2
  <2>2. Lines[n] \in CVars
    BY DEF CVars
  <2>3. LinesOK(Only(e, {Lines[i] : i \in 1..(n - 1)}))
    BY LinesTyped
  <2>. QED BY <2>1, <2>2, <2>3, LinesTyped
<1>. QED BY <1>1, <1>2 DEF Torn

(* The two files. *)
LEMMA OtherFile ==
  ASSUME lastFile \in Files
  PROVE  (CHOOSE f \in Files : f # lastFile) =
           IF lastFile = "pce" THEN "autobrew" ELSE "pce"
BY DEF Files

(* What a file says of a cvar that is not registered. *)
LEMMA LineFrom ==
  ASSUME lastFile \in Files, NEW c, HasLine(c)
  PROVE  \E f \in Files : c \in DOMAIN file[f] /\ Line(c) = Read(file[f][c])
BY OtherFile DEF Line, HasLine, Files

(* Lines are values. *)
LEMMA LineTyped ==
  ASSUME EditsTypeOK, NEW c \in CVars, HasLine(c)
  PROVE  Line(c) \in Values
BY LineFrom DEF EditsTypeOK, LinesOK, Read

(* A cvar that is registered gets a value. *)
LEMMA RegistrationTyped ==
  ASSUME EditsTypeOK, NEW c \in CVars
  PROVE  OnRegistration(c) \in Values
BY DEF EditsTypeOK, OnRegistration, CVars

-----------------------------------------------------------------------------
(* Recording. *)

(* What RecordEdit and PersistSetting do to the books of a plugin. *)
LEMMA RecordedShape ==
  ASSUME NEW s, DOMAIN s.recorded = Files, DOMAIN s.file = Files, s.unsaved \subseteq Files,
         NEW f \in Files, NEW c, NEW v, NEW ok \in BOOLEAN
  PROVE  LET t == RecordedEdit(f, c, v, s, ok) IN
         /\ DOMAIN t.recorded = Files /\ DOMAIN t.file = Files /\ t.unsaved \subseteq Files
         /\ \A g \in Files \ {f} :
              /\ t.recorded[g] = s.recorded[g] /\ t.file[g] = s.file[g]
              /\ g \in t.unsaved <=> g \in s.unsaved
         /\ \/ /\ Stands(s.recorded[f], c, v)
               /\ t.recorded[f] = s.recorded[f] /\ t.file[f] = s.file[f]
               /\ f \in t.unsaved <=> f \in s.unsaved
            \/ /\ t.recorded[f] = With(s.recorded[f], c, v)
               /\ \/ t.file[f] = t.recorded[f] /\ f \notin t.unsaved
                  \/ t.file[f] = s.file[f] /\ f \in t.unsaved
<1> DEFINE new == With(s.recorded[f], c, v)
           t == RecordedEdit(f, c, v, s, ok)
<1>1. CASE Stands(s.recorded[f], c, v)
  <2>1. t = s
    BY <1>1 DEF RecordedEdit
  <2>. QED BY <1>1, <2>1
<1>2. CASE ~Stands(s.recorded[f], c, v)
  <2>1. /\ t.recorded = [s.recorded EXCEPT ![f] = new]
        /\ t.file = IF ok THEN [s.file EXCEPT ![f] = new] ELSE s.file
        /\ t.unsaved = IF ok THEN s.unsaved \ {f} ELSE s.unsaved \cup {f}
    BY <1>2 DEF RecordedEdit
  <2>. HIDE DEF new, t
  <2>2. /\ DOMAIN t.recorded = Files /\ DOMAIN t.file = Files /\ t.unsaved \subseteq Files
        /\ \A g \in Files \ {f} :
             /\ t.recorded[g] = s.recorded[g] /\ t.file[g] = s.file[g]
             /\ g \in t.unsaved <=> g \in s.unsaved
        /\ t.recorded[f] = new
        /\ \/ t.file[f] = t.recorded[f] /\ f \notin t.unsaved
           \/ t.file[f] = s.file[f] /\ f \in t.unsaved
    BY <2>1
  <2>. QED BY <2>2 DEF new, t
<1>. QED BY <1>1, <1>2


-----------------------------------------------------------------------------
(* One edit of one cvar, as the books of each plugin see it. *)

Untouched(f) ==
  recorded'[f] = recorded[f] /\ file'[f] = file[f] /\ (f \in unsaved' <=> f \in unsaved)

Told(f, c, v) ==
  \/ Stands(recorded[f], c, v) /\ Untouched(f)
  \/ /\ recorded'[f] = With(recorded[f], c, v)
     /\ \/ file'[f] = recorded'[f] /\ f \notin unsaved'
        \/ file'[f] = file[f] /\ f \in unsaved'

(* A cvar gets the value v, and each plugin is told or not. *)
Edited(c, v) ==
  /\ DOMAIN recorded' = Files /\ DOMAIN file' = Files /\ unsaved' \subseteq Files
  /\ \A f \in Files : Untouched(f) \/ Told(f, c, v)
  /\ value' = [value EXCEPT ![c] = v]
  /\ wanted' \in [CVars -> Values] /\ menuOnly' \in BOOLEAN
  /\ UNCHANGED <<held, armed, phase, lastFile, disturbed>>

(* Who is told has the line, and nobody loses or changes another.           *)
LEMMA ToldLines ==
  ASSUME NEW f \in Files, NEW c, NEW v, Untouched(f) \/ Told(f, c, v)
  PROVE  /\ DOMAIN recorded[f] \subseteq DOMAIN recorded'[f]
         /\ DOMAIN recorded'[f] \subseteq DOMAIN recorded[f] \cup {c}
         /\ \A d \in DOMAIN recorded[f] : d # c => recorded'[f][d] = recorded[f][d]
         /\ Told(f, c, v) => c \in DOMAIN recorded'[f] /\ recorded'[f][c] = v
         /\ file'[f] = file[f] \/ file'[f] = recorded'[f]
<1>1. ASSUME recorded'[f] = With(recorded[f], c, v)
      PROVE  /\ DOMAIN recorded'[f] = DOMAIN recorded[f] \cup {c}
             /\ recorded'[f][c] = v
             /\ \A d \in DOMAIN recorded[f] : d # c => recorded'[f][d] = recorded[f][d]
  BY <1>1 DEF With
<1>2. CASE recorded'[f] = With(recorded[f], c, v)
  <2>1. file'[f] = file[f] \/ file'[f] = recorded'[f]
    BY DEF Untouched, Told
  <2>. QED BY <1>1, <1>2, <2>1
<1>3. CASE Untouched(f) /\ recorded'[f] # With(recorded[f], c, v)
  BY <1>3 DEF Untouched, Told, Stands
<1>. QED BY <1>2, <1>3 DEF Told

(* Its line is typed if the value is. *)
LEMMA ToldTyped ==
  ASSUME NEW f \in Files, NEW c \in CVars, NEW v \in Values, Untouched(f) \/ Told(f, c, v),
         LinesOK(recorded[f]), LinesOK(file[f])
  PROVE  LinesOK(recorded'[f]) /\ LinesOK(file'[f])
BY LinesTyped DEF Untouched, Told

(* What an edit keeps, whoever makes it. *)
LEMMA EditKeeps ==
  ASSUME EditsInvariant, phase # "off", NEW c \in CVars, NEW v \in Values, Edited(c, v)
  PROVE  /\ EditsTypeOK' /\ PhasesInOrder' /\ FileHoldsEntries' /\ NoneUnknown'
         /\ HeldForRegistration' /\ NothingCut'
<1>1. EditsTypeOK /\ value'[c] = v /\ \A d \in CVars \ {c} : value'[d] = value[d]
  BY DEF EditsInvariant, EditsTypeOK, Edited
<1>2. EditsTypeOK'
  <2>1. \A f \in Files : LinesOK(recorded'[f]) /\ LinesOK(file'[f])
    BY <1>1, ToldTyped DEF Edited, EditsTypeOK
  <2>2. \A f \in Files : LinesOK(recorded[f])' /\ LinesOK(file[f])'
    BY <2>1 DEF LinesOK
  <2>. QED BY <1>1, <2>2 DEF EditsTypeOK, Edited
<1>3. PhasesInOrder'
  <2>1. v # Absent
    OBVIOUS
  <2>. QED BY <1>1, <2>1 DEF EditsInvariant, PhasesInOrder, Edited, CVars
<1>4. FileHoldsEntries'
  <2>1. \A f \in Files \ unsaved : file[f] = recorded[f]
    BY DEF EditsInvariant, FileHoldsEntries
  <2>2. ASSUME NEW f \in Files \ unsaved'
        PROVE  file'[f] = recorded'[f]
    BY <2>1 DEF Edited, Untouched, Told
  <2>. QED BY <2>2 DEF FileHoldsEntries
<1>5. NoneUnknown'
  <2>1. \A f \in Files : DOMAIN file[f] \subseteq DOMAIN recorded[f]
    BY DEF EditsInvariant, NoneUnknown
  <2>2. ASSUME NEW f \in Files
        PROVE  DOMAIN file'[f] \subseteq DOMAIN recorded'[f]
    <3>1. Untouched(f) \/ Told(f, c, v)
      BY DEF Edited
    <3>. QED BY <2>1, <3>1, ToldLines
  <2>. QED BY <2>2 DEF NoneUnknown
<1>6. HeldForRegistration'
  <2>. SUFFICES ASSUME NEW d \in CVars, value'[d] = Absent
                PROVE  (/\ \A f \in Files :
                             /\ d \in DOMAIN recorded[f] <=> d \in DOMAIN file[f]
                             /\ d \in DOMAIN file[f] => recorded[f][d] = file[f][d]
                        /\ d \notin EngineCVars =>
                             /\ d \in DOMAIN held <=> HasLine(d)
                             /\ HasLine(d) => held[d] = Line(d))'
    BY DEF HeldForRegistration
  <2>1. d # c /\ value[d] = Absent
    BY <1>1
  <2>2. /\ \A f \in Files :
             /\ d \in DOMAIN recorded[f] <=> d \in DOMAIN file[f]
             /\ d \in DOMAIN file[f] => recorded[f][d] = file[f][d]
        /\ d \notin EngineCVars =>
             /\ d \in DOMAIN held <=> HasLine(d)
             /\ HasLine(d) => held[d] = Line(d)
    <3>1. HeldForRegistration
      BY DEF EditsInvariant
    <3>. QED BY <2>1, <3>1 DEF HeldForRegistration
  <2>3. ASSUME NEW f \in Files
        PROVE  /\ d \in DOMAIN recorded'[f] <=> d \in DOMAIN file'[f]
               /\ d \in DOMAIN file'[f] <=> d \in DOMAIN file[f]
               /\ d \in DOMAIN file'[f] =>
                    recorded'[f][d] = file'[f][d] /\ file'[f][d] = file[f][d]
    <3>1. Untouched(f) \/ Told(f, c, v)
      BY DEF Edited
    <3>2. /\ d \in DOMAIN recorded'[f] <=> d \in DOMAIN recorded[f]
          /\ d \in DOMAIN recorded[f] => recorded'[f][d] = recorded[f][d]
          /\ file'[f] = file[f] \/ file'[f] = recorded'[f]
      BY <2>1, <3>1, ToldLines
    <3>. QED BY <2>2, <3>2
  <2>4. HasLine(d)' = HasLine(d)
    BY <2>3 DEF HasLine
  <2>5. HasLine(d) => Line(d)' = Line(d)
    <3>1. lastFile' = lastFile /\ lastFile \in Files
      BY <1>1 DEF Edited, EditsTypeOK
    <3>2. (CHOOSE f \in Files : f # lastFile)' = CHOOSE f \in Files : f # lastFile
      BY <3>1
    <3>. QED BY <2>3, <3>1, <3>2, OtherFile DEF Line, HasLine, Files
  <2>. QED BY <2>2, <2>3, <2>4, <2>5 DEF Edited
<1>7. NothingCut'
  <2>. SUFFICES ASSUME ~disturbed, NEW f \in Files, NEW d \in DOMAIN recorded'[f]
                PROVE  recorded'[f][d] \in Values
    BY DEF NothingCut, Lasting, Edited
  <2>1. \A d1 \in DOMAIN recorded[f] : recorded[f][d1] \in Values
    BY DEF EditsInvariant, NothingCut, Lasting
  <2>2. Untouched(f) \/ Told(f, c, v)
    BY DEF Edited
  <2>3. CASE d \in DOMAIN recorded[f] /\ d # c
    BY <2>1, <2>2, <2>3, ToldLines
  <2>4. CASE Untouched(f)
    BY <2>1, <2>4 DEF Untouched
  <2>5. CASE Told(f, c, v) /\ d = c
    BY <2>5, ToldLines
  <2>6. d \in DOMAIN recorded[f] \/ d = c
    BY <2>2, ToldLines
  <2>. QED BY <2>2, <2>3, <2>4, <2>5, <2>6
<1>. QED BY <1>2, <1>3, <1>4, <1>5, <1>6, <1>7


(* The lines of the other cvars stay as they are. *)
LEMMA OtherLines ==
  ASSUME NEW c, NEW v, phase # "off", Edited(c, v), NEW d, d # c
  PROVE  /\ \A f \in Files :
              /\ d \in DOMAIN Lasting'[f] <=> d \in DOMAIN Lasting[f]
              /\ d \in DOMAIN Lasting[f] => Lasting'[f][d] = Lasting[f][d]
         /\ Agreed(d)' <=> Agreed(d)
         /\ \A x : AllSay(d, x)' <=> AllSay(d, x)
<1>1. Lasting = recorded /\ Lasting' = recorded'
  BY DEF Lasting, Edited
<1>2. ASSUME NEW f \in Files
      PROVE  /\ d \in DOMAIN Lasting'[f] <=> d \in DOMAIN Lasting[f]
             /\ d \in DOMAIN Lasting[f] => Lasting'[f][d] = Lasting[f][d]
  <2>1. Untouched(f) \/ Told(f, c, v)
    BY DEF Edited
  <2>2. /\ d \in DOMAIN recorded'[f] <=> d \in DOMAIN recorded[f]
        /\ d \in DOMAIN recorded[f] => recorded'[f][d] = recorded[f][d]
    BY <2>1, ToldLines
  <2>. QED BY <1>1, <2>2
<1>3. Agreed(d)' <=> Agreed(d)
  BY <1>2 DEF Agreed
<1>4. \A x : AllSay(d, x)' <=> AllSay(d, x)
  BY <1>2 DEF AllSay
<1>. QED BY <1>2, <1>3, <1>4

(* After an edit the files say what is wanted, if somebody was told and that *)
(* is wanted now, or if nothing was told and nothing else is wanted.         *)
LEMMA EditWanted ==
  ASSUME EditsInvariant, phase # "off", NEW c \in CVars, NEW v \in Values, Edited(c, v),
         \A d \in CVars \ {c} : wanted'[d] = wanted[d],
         \/ /\ \E f \in Files : Told(f, c, v)
            /\ ~disturbed => wanted'[c] = v
         \/ /\ \A f \in Files : Untouched(f)
            /\ wanted'[c] = wanted[c] \/ ~Agreed(c)
  PROVE  WantedLasts'
<1>1. Lasting = recorded /\ Lasting' = recorded' /\ disturbed' = disturbed
  BY DEF Lasting, Edited
<1>. SUFFICES ASSUME ~disturbed, NEW d \in CVars, Agreed(d)'
              PROVE  /\ \A f \in Files : d \in DOMAIN recorded'[f] =>
                                           recorded'[f][d] = wanted'[d]
                     /\ (\A f \in Files : d \notin DOMAIN recorded'[f])
                          => wanted'[d] = Default[d]
  BY <1>1 DEF WantedLasts, AllSay
<1>2. Agreed(d) =>
        /\ \A f \in Files : d \in DOMAIN recorded[f] => recorded[f][d] = wanted[d]
        /\ (\A f \in Files : d \notin DOMAIN recorded[f]) => wanted[d] = Default[d]
  BY <1>1 DEF EditsInvariant, WantedLasts, AllSay
<1>3. CASE d # c
  <2>1. Agreed(d)
    BY <1>3, OtherLines
  <2>2. \A f \in Files : /\ d \in DOMAIN recorded'[f] <=> d \in DOMAIN recorded[f]
                         /\ d \in DOMAIN recorded[f] => recorded'[f][d] = recorded[f][d]
    BY <1>1, <1>3, OtherLines
  <2>. QED BY <1>2, <1>3, <2>1, <2>2
<1>4. CASE d = c /\ \E f \in Files : Told(f, c, v)
  <2>1. PICK f \in Files : Told(f, c, v)
    BY <1>4
  <2>2. c \in DOMAIN recorded'[f] /\ recorded'[f][c] = v
    BY <2>1, ToldLines
  <2>3. \A g \in Files : c \in DOMAIN recorded'[g] => recorded'[g][c] = v
    BY <1>1, <1>4, <2>2 DEF Agreed
  <2>4. wanted'[c] = v
    <3>1. CASE \A g \in Files : Untouched(g)
      <4>1. recorded'[f] = recorded[f] /\ c \in DOMAIN recorded[f] /\ recorded[f][c] = v
        BY <2>2, <3>1 DEF Untouched
      <4>2. Agreed(c)
        BY <1>1, <1>4, <3>1 DEF Agreed, Untouched
      <4>3. wanted[c] = v
        BY <1>2, <1>4, <4>1, <4>2
      <4>. QED BY <4>2, <4>3
    <3>. QED BY <3>1
  <2>. QED BY <1>4, <2>2, <2>3, <2>4
<1>5. CASE d = c /\ \A f \in Files : Untouched(f)
  <2>1. \A f \in Files : recorded'[f] = recorded[f]
    BY <1>5 DEF Untouched
  <2>2. Agreed(c)
    BY <1>1, <1>5, <2>1 DEF Agreed
  <2>3. CASE wanted'[c] = wanted[c]
    BY <1>2, <1>5, <2>1, <2>2, <2>3
  <2>4. CASE \E f \in Files : Told(f, c, v)
    BY <1>4, <1>5, <2>4
  <2>. QED BY <2>2, <2>3, <2>4
<1>. QED BY <1>3, <1>4, <1>5

(* And they say what the menu says, if each was told or said so already. *)
LEMMA EditMenu ==
  ASSUME EditsInvariant, phase # "off", NEW c \in CVars, NEW v \in Values, Edited(c, v),
         menuOnly' => menuOnly,
         ~disturbed /\ menuOnly' /\ c \in MenuCVars =>
           \A f \in Files :
             \/ Told(f, c, v)
             \/ Untouched(f) /\ (c \in DOMAIN recorded[f] => recorded[f][c] = v)
  PROVE  MenuSays'
<1>1. Lasting = recorded /\ Lasting' = recorded' /\ disturbed' = disturbed
  BY DEF Lasting, Edited
<1>2. value'[c] = v /\ \A d \in CVars \ {c} : value'[d] = value[d]
  BY DEF EditsInvariant, EditsTypeOK, Edited
<1>. SUFFICES ASSUME ~disturbed, menuOnly', NEW d \in MenuCVars
              PROVE  Agreed(d)' /\ (value'[d] # Absent => AllSay(d, value[d])')
  BY <1>1 DEF MenuSays
<1>3. Agreed(d) /\ (value[d] # Absent => AllSay(d, value[d])) /\ d \in CVars
  BY DEF EditsInvariant, MenuSays, CVars
<1>4. CASE d # c
  <2>1. value'[d] = value[d] /\ Agreed(d)'
    BY <1>2, <1>3, <1>4, OtherLines
  <2>2. \A f \in Files : /\ d \in DOMAIN recorded'[f] <=> d \in DOMAIN recorded[f]
                         /\ d \in DOMAIN recorded[f] => recorded'[f][d] = recorded[f][d]
    BY <1>1, <1>4, OtherLines
  <2>. QED BY <1>1, <1>3, <2>1, <2>2 DEF AllSay
<1>5. CASE d = c
  <2>1. ASSUME NEW f \in Files, c \in DOMAIN recorded'[f]
        PROVE  recorded'[f][c] = v
    <3>1. CASE Told(f, c, v)
      BY <3>1, ToldLines
    <3>2. CASE Untouched(f) /\ (c \in DOMAIN recorded[f] => recorded[f][c] = v)
      BY <2>1, <3>2 DEF Untouched
    <3>. QED BY <1>5, <3>1, <3>2
  <2>. QED BY <1>1, <1>2, <1>5, <2>1 DEF Agreed, AllSay
<1>. QED BY <1>4, <1>5


-----------------------------------------------------------------------------
(* The three actions that edit. *)

(* What the console tells the sink. *)
LEMMA SinkShape ==
  ASSUME EditsInvariant, NEW c, NEW v, NEW ok \in BOOLEAN
  PROVE  LET t == AfterVarChange(c, v, Books, ok) IN
         /\ DOMAIN t.recorded = Files /\ DOMAIN t.file = Files /\ t.unsaved \subseteq Files
         /\ \A g \in Files \ {"pce"} :
              /\ t.recorded[g] = recorded[g] /\ t.file[g] = file[g]
              /\ g \in t.unsaved <=> g \in unsaved
         /\ IF value[c] # v /\ Listens(c, IF c = Switch THEN v ELSE value[Switch])
            THEN \/ /\ Stands(recorded["pce"], c, v)
                    /\ t.recorded["pce"] = recorded["pce"] /\ t.file["pce"] = file["pce"]
                    /\ "pce" \in t.unsaved <=> "pce" \in unsaved
                 \/ /\ t.recorded["pce"] = With(recorded["pce"], c, v)
                    /\ \/ t.file["pce"] = t.recorded["pce"] /\ "pce" \notin t.unsaved
                       \/ t.file["pce"] = file["pce"] /\ "pce" \in t.unsaved
            ELSE /\ t.recorded["pce"] = recorded["pce"] /\ t.file["pce"] = file["pce"]
                 /\ "pce" \in t.unsaved <=> "pce" \in unsaved
<1>1. /\ Books.recorded = recorded /\ Books.file = file /\ Books.unsaved = unsaved
      /\ DOMAIN recorded = Files /\ DOMAIN file = Files /\ unsaved \subseteq Files
  BY DEF Books, EditsInvariant, EditsTypeOK
<1>2. "pce" \in Files
  BY DEF Files
<1>3. CASE value[c] # v /\ Listens(c, IF c = Switch THEN v ELSE value[Switch])
  <2>1. AfterVarChange(c, v, Books, ok) = RecordedEdit("pce", c, v, Books, ok)
    BY <1>3 DEF AfterVarChange
  <2>. QED BY <1>1, <1>2, <1>3, <2>1, RecordedShape
<1>4. CASE ~(value[c] # v /\ Listens(c, IF c = Switch THEN v ELSE value[Switch]))
  <2>1. AfterVarChange(c, v, Books, ok) = Books
    BY <1>4 DEF AfterVarChange
  <2>. QED BY <1>1, <1>4, <2>1
<1>. QED BY <1>3, <1>4

(* An edit at the console. *)
LEMMA ConsolePreserves ==
  ASSUME EditsInvariant, NEW c \in CVars, NEW v \in Values, NEW ok \in BOOLEAN,
         ConsoleEdit(c, v, ok)
  PROVE  Edited(c, v) /\ EditsInvariant'
<1>1. EditsTypeOK /\ PhasesInOrder /\ phase # "off"
  BY DEF EditsInvariant, PhasesInOrder, ConsoleEdit
<1> DEFINE t == AfterVarChange(c, v, Books, ok)
           heard == armed /\ (c = Switch \/ value[Switch] # 0)
<1>2. recorded' = t.recorded /\ file' = t.file /\ unsaved' = t.unsaved
  BY DEF ConsoleEdit, Keep
<1>3. Listens(c, IF c = Switch THEN v ELSE value[Switch]) <=> heard
  BY DEF Listens
<1>4. value[c] # v /\ value' = [value EXCEPT ![c] = v]
  BY DEF ConsoleEdit
<1> HIDE DEF t
<1>5. /\ \A f \in Files \ {"pce"} : Untouched(f)
      /\ heard => Told("pce", c, v)
      /\ ~heard => Untouched("pce")
      /\ DOMAIN recorded' = Files /\ DOMAIN file' = Files /\ unsaved' \subseteq Files
  BY <1>2, <1>3, <1>4, SinkShape DEF t, Untouched, Told
<1>6. /\ wanted' = IF heard THEN [wanted EXCEPT ![c] = v] ELSE wanted
      /\ menuOnly' = (menuOnly /\ c \notin MenuCVars)
      /\ UNCHANGED <<held, armed, phase, lastFile, disturbed>>
  BY DEF ConsoleEdit
<1>7. "pce" \in Files
  BY DEF Files
<1>8. Edited(c, v)
  BY <1>1, <1>4, <1>5, <1>6, <1>7 DEF Edited, EditsTypeOK
<1>9. WantedLasts'
  <2>1. \A d \in CVars \ {c} : wanted'[d] = wanted[d]
    BY <1>1, <1>6 DEF EditsTypeOK
  <2>2. CASE heard
    <3>1. wanted'[c] = v
      BY <1>1, <1>6, <2>2 DEF EditsTypeOK
    <3>. QED BY <1>1, <1>5, <1>7, <1>8, <2>1, <2>2, <3>1, EditWanted
  <2>3. CASE ~heard
    <3>1. wanted'[c] = wanted[c] /\ \A f \in Files : Untouched(f)
      BY <1>5, <1>6, <2>3
    <3>. QED BY <1>1, <1>8, <2>1, <3>1, EditWanted
  <2>. QED BY <2>2, <2>3
<1>10. MenuSays'
  BY <1>1, <1>6, <1>8, EditMenu
<1>. QED BY <1>1, <1>8, <1>9, <1>10, EditKeeps DEF EditsInvariant


(* An edit in the menu: the sink may hear of it, Autobrew's file always.    *)
LEMMA MenuPreserves ==
  ASSUME EditsInvariant, NEW c \in MenuCVars, NEW v \in Values,
         NEW okSink \in BOOLEAN, NEW ok \in BOOLEAN, MenuEdit(c, v, okSink, ok)
  PROVE  Edited(c, v) /\ EditsInvariant'
<1>1. /\ EditsTypeOK /\ PhasesInOrder /\ phase = "loaded" /\ phase # "off"
      /\ armed /\ value[c] # Absent /\ c \in CVars /\ c # Switch
  BY DEF EditsInvariant, PhasesInOrder, MenuEdit, CVars
<1> DEFINE s == AfterVarChange(c, v, Books, okSink)
           t == RecordedEdit("autobrew", c, v, s, ok)
           heard == value[c] # v /\ value[Switch] # 0
<1>2. recorded' = t.recorded /\ file' = t.file /\ unsaved' = t.unsaved
  BY DEF MenuEdit, Keep
<1>3. value[c] # v /\ Listens(c, IF c = Switch THEN v ELSE value[Switch]) <=> heard
  BY <1>1 DEF Listens
<1>4. /\ DOMAIN s.recorded = Files /\ DOMAIN s.file = Files /\ s.unsaved \subseteq Files
      /\ s.recorded["autobrew"] = recorded["autobrew"]
      /\ s.file["autobrew"] = file["autobrew"]
      /\ "autobrew" \in s.unsaved <=> "autobrew" \in unsaved
  BY SinkShape DEF Files
<1>5. IF heard
      THEN \/ /\ Stands(recorded["pce"], c, v)
              /\ s.recorded["pce"] = recorded["pce"] /\ s.file["pce"] = file["pce"]
              /\ "pce" \in s.unsaved <=> "pce" \in unsaved
           \/ /\ s.recorded["pce"] = With(recorded["pce"], c, v)
              /\ \/ s.file["pce"] = s.recorded["pce"] /\ "pce" \notin s.unsaved
                 \/ s.file["pce"] = file["pce"] /\ "pce" \in s.unsaved
      ELSE /\ s.recorded["pce"] = recorded["pce"] /\ s.file["pce"] = file["pce"]
           /\ "pce" \in s.unsaved <=> "pce" \in unsaved
  BY <1>3, SinkShape
<1> HIDE DEF s
<1>6. /\ DOMAIN t.recorded = Files /\ DOMAIN t.file = Files /\ t.unsaved \subseteq Files
      /\ t.recorded["pce"] = s.recorded["pce"] /\ t.file["pce"] = s.file["pce"]
      /\ "pce" \in t.unsaved <=> "pce" \in s.unsaved
      /\ \/ /\ Stands(s.recorded["autobrew"], c, v)
            /\ t.recorded["autobrew"] = s.recorded["autobrew"]
            /\ t.file["autobrew"] = s.file["autobrew"]
            /\ "autobrew" \in t.unsaved <=> "autobrew" \in s.unsaved
         \/ /\ t.recorded["autobrew"] = With(s.recorded["autobrew"], c, v)
            /\ \/ t.file["autobrew"] = t.recorded["autobrew"] /\ "autobrew" \notin t.unsaved
               \/ t.file["autobrew"] = s.file["autobrew"] /\ "autobrew" \in t.unsaved
  BY <1>4, RecordedShape DEF Files
<1> HIDE DEF t
<1>7. Told("autobrew", c, v)
  BY <1>2, <1>4, <1>6 DEF Told, Untouched
<1>8. /\ heard => Told("pce", c, v)
      /\ ~heard => Untouched("pce")
  BY <1>2, <1>5, <1>6 DEF Told, Untouched
<1>9. /\ value' = [value EXCEPT ![c] = v]
      /\ wanted' = [wanted EXCEPT ![c] = v]
      /\ menuOnly' = (menuOnly /\ value[Switch] # 0)
      /\ UNCHANGED <<held, armed, phase, lastFile, disturbed>>
  BY DEF MenuEdit
<1>10. Edited(c, v)
  BY <1>1, <1>2, <1>6, <1>7, <1>8, <1>9 DEF Edited, EditsTypeOK, Files
<1>11. WantedLasts'
  <2>1. wanted'[c] = v /\ \A d \in CVars \ {c} : wanted'[d] = wanted[d]
    BY <1>1, <1>9 DEF EditsTypeOK
  <2>2. "autobrew" \in Files
    BY DEF Files
  <2>. QED BY <1>1, <1>7, <1>10, <2>1, <2>2, EditWanted
<1>12. MenuSays'
  <2>1. ASSUME ~disturbed, menuOnly', ~heard
        PROVE  "pce" \in Files /\ (c \in DOMAIN recorded["pce"] => recorded["pce"][c] = v)
    <3>1. value[c] = v /\ menuOnly
      BY <1>9, <2>1
    <3>2. "pce" \in Files /\ AllSay(c, v)
      BY <1>1, <2>1, <3>1 DEF EditsInvariant, MenuSays, Files
    <3>. QED BY <1>1, <3>2 DEF AllSay, Lasting
  <2>2. ASSUME ~disturbed, menuOnly', NEW f \in Files
        PROVE  \/ Told(f, c, v)
               \/ Untouched(f) /\ (c \in DOMAIN recorded[f] => recorded[f][c] = v)
    <3>1. CASE f = "autobrew"
      BY <1>7, <3>1
    <3>2. CASE f = "pce" /\ heard
      BY <1>8, <3>2
    <3>3. CASE f = "pce" /\ ~heard
      BY <1>8, <2>1, <2>2, <3>3
    <3>. QED BY <3>1, <3>2, <3>3 DEF Files
  <2>3. menuOnly' => menuOnly
    BY <1>9
  <2>. QED BY <1>1, <1>10, <2>2, <2>3, EditMenu
<1>. QED BY <1>1, <1>10, <1>11, <1>12, EditKeeps DEF EditsInvariant

(* What the console holds for a cvar nobody registered yet is what the files *)
(* agree on and what is wanted.                                              *)
LEMMA HeldIsWanted ==
  ASSUME EditsInvariant, phase # "off", ~disturbed,
         NEW c \in CVars \ EngineCVars, value[c] = Absent
  PROVE  /\ Disputed(c) <=> ~Agreed(c)
         /\ ~Disputed(c) => OnRegistration(c) = wanted[c] /\ AllSay(c, wanted[c])
<1>1. /\ \A f \in Files :
           /\ c \in DOMAIN recorded[f] <=> c \in DOMAIN file[f]
           /\ c \in DOMAIN file[f] => recorded[f][c] = file[f][c]
      /\ c \in DOMAIN held <=> HasLine(c)
      /\ HasLine(c) => held[c] = Line(c)
  BY DEF EditsInvariant, HeldForRegistration
<1>2. Lasting = recorded
  BY DEF Lasting
<1>3. Disputed(c) <=> ~Agreed(c)
  BY <1>1, <1>2 DEF Disputed, Agreed, Files
<1>4. ASSUME Agreed(c)
      PROVE  OnRegistration(c) = wanted[c] /\ AllSay(c, wanted[c])
  <2>1. /\ AllSay(c, wanted[c])
        /\ (\A f \in Files : c \notin DOMAIN recorded[f]) => wanted[c] = Default[c]
    BY <1>2, <1>4 DEF EditsInvariant, WantedLasts
  <2>2. CASE HasLine(c)
    <3>1. PICK f \in Files : c \in DOMAIN file[f] /\ Line(c) = Read(file[f][c])
      BY <2>2, LineFrom DEF EditsInvariant, EditsTypeOK
    <3>2. recorded[f][c] = file[f][c] /\ c \in DOMAIN recorded[f]
      BY <1>1, <3>1
    <3>3. file[f][c] = wanted[c] /\ file[f][c] \in Values
      BY <1>2, <2>1, <3>2 DEF AllSay, EditsInvariant, NothingCut
    <3>4. Line(c) = wanted[c]
      BY <3>1, <3>3 DEF Read
    <3>. QED BY <1>1, <2>1, <2>2, <3>4 DEF OnRegistration
  <2>3. CASE ~HasLine(c)
    <3>1. \A f \in Files : c \notin DOMAIN recorded[f]
      BY <1>1, <2>3 DEF HasLine
    <3>. QED BY <1>1, <2>1, <2>3, <3>1 DEF OnRegistration
  <2>. QED BY <2>2, <2>3
<1>. QED BY <1>3, <1>4

(* Autobrew registers a cvar. *)
LEMMA RegisterPreserves ==
  ASSUME EditsInvariant, NEW c \in MenuCVars, NEW ok \in BOOLEAN, RegisterMenuCVar(c, ok)
  PROVE  Edited(c, OnRegistration(c)) /\ EditsInvariant'
<1> DEFINE v == OnRegistration(c)
           heard == v # Default[c] /\ Listens(c, value[Switch])
           t == RecordedEdit("pce", c, v, Books, ok)
<1>1. /\ EditsTypeOK /\ phase # "off" /\ value[c] = Absent
      /\ c \in CVars \ EngineCVars /\ v \in Values
  BY RegistrationTyped DEF EditsInvariant, RegisterMenuCVar, CVars
<1>2. /\ value' = [value EXCEPT ![c] = v]
      /\ UNCHANGED <<held, armed, phase, lastFile, disturbed, menuOnly>>
      /\ wanted' = IF Disputed(c) THEN [wanted EXCEPT ![c] = value'[c]] ELSE wanted
  BY DEF RegisterMenuCVar
<1>3. /\ \A f \in Files \ {"pce"} : Untouched(f)
      /\ heard => Told("pce", c, v)
      /\ ~heard => Untouched("pce")
      /\ DOMAIN recorded' = Files /\ DOMAIN file' = Files /\ unsaved' \subseteq Files
  <2>1. CASE heard
    <3>1. recorded' = t.recorded /\ file' = t.file /\ unsaved' = t.unsaved
      BY <2>1 DEF RegisterMenuCVar, Keep
    <3>2. /\ Books.recorded = recorded /\ Books.file = file /\ Books.unsaved = unsaved
          /\ DOMAIN recorded = Files /\ DOMAIN file = Files /\ unsaved \subseteq Files
      BY <1>1 DEF Books, EditsTypeOK
    <3>3. "pce" \in Files
      BY DEF Files
    <3>4. /\ DOMAIN t.recorded = Files /\ DOMAIN t.file = Files /\ t.unsaved \subseteq Files
          /\ \A g \in Files \ {"pce"} :
               /\ t.recorded[g] = recorded[g] /\ t.file[g] = file[g]
               /\ g \in t.unsaved <=> g \in unsaved
          /\ \/ /\ Stands(recorded["pce"], c, v)
                /\ t.recorded["pce"] = recorded["pce"] /\ t.file["pce"] = file["pce"]
                /\ "pce" \in t.unsaved <=> "pce" \in unsaved
             \/ /\ t.recorded["pce"] = With(recorded["pce"], c, v)
                /\ \/ t.file["pce"] = t.recorded["pce"] /\ "pce" \notin t.unsaved
                   \/ t.file["pce"] = file["pce"] /\ "pce" \in t.unsaved
      BY <3>2, <3>3, RecordedShape
    <3>. HIDE DEF t, v
    <3>. QED BY <2>1, <3>1, <3>4 DEF Untouched, Told
  <2>2. CASE ~heard
    BY <1>1, <2>2 DEF RegisterMenuCVar, Untouched, EditsTypeOK
  <2>. QED BY <2>1, <2>2
<1>4. value'[c] = v
  BY <1>1, <1>2 DEF EditsTypeOK
<1> HIDE DEF heard, t, v
<1>5. /\ wanted' \in [CVars -> Values]
      /\ \A d \in CVars \ {c} : wanted'[d] = wanted[d]
      /\ wanted'[c] = IF Disputed(c) THEN v ELSE wanted[c]
  BY <1>1, <1>2, <1>4 DEF EditsTypeOK
<1>6. Edited(c, v)
  BY <1>1, <1>2, <1>3, <1>5 DEF Edited, EditsTypeOK
<1>7. ~disturbed => /\ Disputed(c) <=> ~Agreed(c)
                    /\ ~Disputed(c) => v = wanted[c] /\ AllSay(c, v)
  BY <1>1, HeldIsWanted DEF v
<1>8. WantedLasts'
  <2>1. CASE heard
    <3>1. "pce" \in Files /\ (~disturbed => wanted'[c] = v)
      BY <1>5, <1>7 DEF Files
    <3>. QED BY <1>1, <1>3, <1>5, <1>6, <2>1, <3>1, EditWanted
  <2>2. CASE ~heard /\ ~disturbed
    <3>1. wanted'[c] = wanted[c] \/ ~Agreed(c)
      BY <1>5, <1>7, <2>2
    <3>. QED BY <1>1, <1>3, <1>5, <1>6, <2>2, <3>1, EditWanted
  <2>3. CASE disturbed
    BY <1>2, <2>3 DEF WantedLasts
  <2>. QED BY <2>1, <2>2, <2>3
<1>9. MenuSays'
  <2>1. ASSUME ~disturbed, menuOnly, NEW f \in Files
        PROVE  \/ Told(f, c, v)
               \/ Untouched(f) /\ (c \in DOMAIN recorded[f] => recorded[f][c] = v)
    <3>1. AllSay(c, v)
      BY <1>7, <2>1 DEF EditsInvariant, MenuSays
    <3>2. c \in DOMAIN recorded[f] => recorded[f][c] = v
      BY <1>1, <3>1 DEF AllSay, Lasting
    <3>. QED BY <1>3, <3>2
  <2>. QED BY <1>1, <1>2, <1>6, <2>1, EditMenu
<1>10. EditsInvariant'
  BY <1>1, <1>6, <1>8, <1>9, EditKeeps DEF EditsInvariant
<1>. QED BY <1>6, <1>10 DEF v


-----------------------------------------------------------------------------
(* The other actions. *)

(* What the next launch will find is still what is wanted. *)
LEMMA LastingKept ==
  ASSUME EditsInvariant,
         disturbed' \/ (~disturbed /\ \A f \in Files : Lasting'[f] = Lasting[f]),
         wanted' = wanted, menuOnly' = menuOnly,
         \A c \in MenuCVars : value'[c] = Absent \/ value'[c] = value[c]
  PROVE  NothingCut' /\ WantedLasts' /\ MenuSays'
<1>1. CASE disturbed'
  BY <1>1 DEF NothingCut, WantedLasts, MenuSays
<1>2. CASE ~disturbed' /\ ~disturbed /\ \A f \in Files : Lasting'[f] = Lasting[f]
  <2>1. NothingCut'
    BY <1>2 DEF EditsInvariant, NothingCut
  <2>2. \A c : Agreed(c)' <=> Agreed(c)
    BY <1>2 DEF Agreed
  <2>3. WantedLasts'
    BY <1>2, <2>2 DEF EditsInvariant, WantedLasts, AllSay
  <2>4. MenuSays'
    BY <1>2, <2>2 DEF EditsInvariant, MenuSays, AllSay
  <2>. QED BY <2>1, <2>3, <2>4
<1>. QED BY <1>1, <1>2

(* The game starts: what the plugins remember is what the files hold, and    *)
(* the console has their lines.                                              *)
LEMMA LaunchPreserves ==
  ASSUME EditsInvariant, Launch
  PROVE  EditsInvariant'
<1>1. /\ EditsTypeOK /\ PhasesInOrder /\ phase = "off" /\ phase' = "launched"
      /\ ~armed /\ unsaved = {}
      /\ UNCHANGED <<armed, file, lastFile, wanted, disturbed, menuOnly, unsaved>>
  BY DEF EditsInvariant, PhasesInOrder, Launch, ghosts
<1>2. DOMAIN recorded' = Files /\ \A f \in Files : recorded'[f] = file[f]
  BY DEF Launch, Seeded
<1>3. /\ value' \in [CVars -> Values \cup {Absent}]
      /\ \A c \in CVars : value'[c] = Absent <=> c \notin EngineCVars
  <2>1. \A c \in CVars : HasLine(c) => Line(c) \in Values
    BY <1>1, LineTyped
  <2>2. \A c \in CVars : Default[c] \in Values
    BY DEF CVars
  <2>3. value' = [c \in CVars |->
                    IF c \notin EngineCVars THEN Absent
                    ELSE IF HasLine(c) THEN Line(c) ELSE Default[c]]
    BY DEF Launch
  <2>. QED BY <2>1, <2>2, <2>3
<1>4. /\ DOMAIN held' = {d \in CVars \ EngineCVars : HasLine(d)}
      /\ \A c \in DOMAIN held' : held'[c] = Line(c) /\ held'[c] \in Values
  <2>1. held' = [c \in {d \in CVars \ EngineCVars : HasLine(d)} |-> Line(c)]
    BY DEF Launch
  <2>. QED BY <1>1, <2>1, LineTyped
<1>5. EditsTypeOK'
  <2>1. \A f \in Files : LinesOK(recorded[f])' /\ LinesOK(file[f])'
    BY <1>1, <1>2 DEF EditsTypeOK, LinesOK
  <2>. QED BY <1>1, <1>2, <1>3, <1>4, <2>1 DEF EditsTypeOK
<1>6. PhasesInOrder' /\ FileHoldsEntries' /\ NoneUnknown'
  BY <1>1, <1>2 DEF PhasesInOrder, FileHoldsEntries, NoneUnknown
<1>7. HeldForRegistration'
  <2>1. \A c : HasLine(c)' = HasLine(c) /\ Line(c)' = Line(c)
    BY <1>1 DEF HasLine, Line
  <2>. QED BY <1>1, <1>2, <1>4, <2>1 DEF HeldForRegistration
<1>8. \A f \in Files : Lasting'[f] = Lasting[f]
  BY <1>1, <1>2 DEF Lasting
<1>9. \A c \in MenuCVars : value'[c] = Absent
  BY <1>3 DEF CVars
<1>10. NothingCut' /\ WantedLasts' /\ MenuSays'
  BY <1>1, <1>8, <1>9, LastingKept
<1>. QED BY <1>5, <1>6, <1>7, <1>10 DEF EditsInvariant

(* The switch is registered. *)
LEMMA SwitchPreserves ==
  ASSUME EditsInvariant, PreDataLoaded
  PROVE  EditsInvariant'
<1>1. /\ EditsTypeOK /\ PhasesInOrder /\ phase = "launched" /\ phase' = "predata"
      /\ UNCHANGED <<held, recorded, armed, file, lastFile, wanted, disturbed, menuOnly,
                     unsaved>>
  BY DEF EditsInvariant, PreDataLoaded, ghosts
<1>2. Switch \in CVars /\ OnRegistration(Switch) \in Values
  BY <1>1, RegistrationTyped DEF CVars
<1>3. /\ value' \in [CVars -> Values \cup {Absent}]
      /\ \A c \in CVars : value'[c] = Absent => value[c] = Absent
      /\ \A c \in CVars \ {Switch} : value'[c] = value[c]
  BY <1>1, <1>2 DEF PreDataLoaded, EditsTypeOK
<1>4. EditsTypeOK'
  <2>1. \A f \in Files : LinesOK(recorded[f])' /\ LinesOK(file[f])'
    BY <1>1 DEF EditsTypeOK, LinesOK
  <2>. QED BY <1>1, <1>3, <2>1 DEF EditsTypeOK
<1>5. PhasesInOrder' /\ FileHoldsEntries' /\ NoneUnknown'
  BY <1>1 DEF EditsInvariant, PhasesInOrder, FileHoldsEntries, NoneUnknown
<1>6. HeldForRegistration'
  <2>1. \A c : HasLine(c)' = HasLine(c) /\ Line(c)' = Line(c)
    BY <1>1 DEF HasLine, Line
  <2>. QED BY <1>1, <1>3, <2>1 DEF EditsInvariant, HeldForRegistration
<1>7. \A f \in Files : Lasting'[f] = Lasting[f]
  BY <1>1 DEF Lasting
<1>8. \A c \in MenuCVars : value'[c] = value[c]
  BY <1>3 DEF CVars
<1>9. NothingCut' /\ WantedLasts' /\ MenuSays'
  BY <1>1, <1>7, <1>8, LastingKept
<1>. QED BY <1>4, <1>5, <1>6, <1>9 DEF EditsInvariant

(* The sink is armed, or the menu opens for business, or nothing happens.   *)
LEMMA PhasePreserves ==
  ASSUME EditsInvariant, ArmSink \/ DataLoaded \/ UNCHANGED editVars
  PROVE  EditsInvariant'
<1>1. /\ EditsTypeOK /\ PhasesInOrder
      /\ UNCHANGED <<value, held, recorded, file, lastFile, wanted, disturbed, menuOnly,
                     unsaved>>
  BY DEF EditsInvariant, ArmSink, DataLoaded, editVars, console, ghosts
<1>2. /\ armed' \in BOOLEAN /\ phase' \in {"off", "launched", "predata", "loaded"}
      /\ phase = "off" <=> phase' = "off"
      /\ phase' = "off" => ~armed'
      /\ phase' = "loaded" => armed' /\ \A c \in MenuCVars : value[c] # Absent
  <2>1. CASE ArmSink
    BY <1>1, <2>1 DEF ArmSink
  <2>2. CASE DataLoaded
    BY <1>1, <2>2 DEF DataLoaded, EditsTypeOK
  <2>3. CASE UNCHANGED editVars
    BY <1>1, <2>3 DEF editVars, EditsTypeOK, PhasesInOrder
  <2>. QED BY <2>1, <2>2, <2>3
<1>3. EditsTypeOK'
  <2>1. \A f \in Files : LinesOK(recorded[f])' /\ LinesOK(file[f])'
    BY <1>1 DEF EditsTypeOK, LinesOK
  <2>. QED BY <1>1, <1>2, <2>1 DEF EditsTypeOK
<1>4. PhasesInOrder' /\ FileHoldsEntries' /\ NoneUnknown'
  BY <1>1, <1>2 DEF EditsInvariant, PhasesInOrder, FileHoldsEntries, NoneUnknown
<1>5. HeldForRegistration'
  <2>1. \A c : HasLine(c)' = HasLine(c) /\ Line(c)' = Line(c)
    BY <1>1 DEF HasLine, Line
  <2>. QED BY <1>1, <1>2, <2>1 DEF EditsInvariant, HeldForRegistration
<1>6. \A f \in Files : Lasting'[f] = Lasting[f]
  BY <1>1, <1>2 DEF Lasting
<1>7. NothingCut' /\ WantedLasts' /\ MenuSays'
  BY <1>1, <1>6, LastingKept
<1>. QED BY <1>3, <1>4, <1>5, <1>7 DEF EditsInvariant

(* However a game ends, nothing that depends on it running is claimed. *)
LEMMA EndedKeeps ==
  ASSUME EditsInvariant, Ended, \A f \in Files : LinesOK(file'[f]), DOMAIN file' = Files,
         lastFile' = lastFile, wanted' = wanted, menuOnly' = menuOnly,
         disturbed' \in BOOLEAN
  PROVE  /\ EditsTypeOK' /\ PhasesInOrder' /\ FileHoldsEntries' /\ NoneUnknown'
         /\ HeldForRegistration'
<1>1. EditsTypeOK
  BY DEF EditsInvariant
<1>2. /\ phase' = "off" /\ armed' = FALSE /\ unsaved' = {}
      /\ value' \in [CVars -> Values \cup {Absent}]
      /\ \A c \in CVars : value'[c] = Absent
      /\ DOMAIN held' = {}
  BY DEF Ended, NoLines
<1>3. DOMAIN recorded' = Files /\ \A f \in Files : DOMAIN recorded'[f] = {}
  BY DEF Ended, NoLines
<1>4. EditsTypeOK'
  <2>1. \A f \in Files : LinesOK(recorded[f])' /\ LinesOK(file[f])'
    BY <1>3 DEF LinesOK
  <2>. QED BY <1>1, <1>2, <1>3, <2>1 DEF EditsTypeOK
<1>5. PhasesInOrder'
  BY <1>2 DEF PhasesInOrder
<1>. QED BY <1>2, <1>4, <1>5 DEF FileHoldsEntries, NoneUnknown, HeldForRegistration

(* The game ends between two writes. *)
LEMMA QuitPreserves ==
  ASSUME EditsInvariant, Quit
  PROVE  EditsInvariant'
<1>1. /\ EditsTypeOK /\ phase # "off" /\ phase' = "off" /\ Ended
      /\ disturbed' = (disturbed \/ unsaved # {})
      /\ UNCHANGED <<file, lastFile, wanted, menuOnly>>
      /\ \A c \in CVars : value'[c] = Absent
  BY DEF EditsInvariant, Quit, Ended
<1>2. disturbed' \/ (~disturbed /\ \A f \in Files : Lasting'[f] = Lasting[f])
  BY <1>1 DEF EditsInvariant, FileHoldsEntries, Lasting
<1>3. NothingCut' /\ WantedLasts' /\ MenuSays'
  BY <1>1, <1>2, LastingKept DEF CVars
<1>4. (\A f \in Files : LinesOK(file'[f])) /\ DOMAIN file' = Files /\ disturbed' \in BOOLEAN
  BY <1>1 DEF EditsTypeOK
<1>. QED BY <1>1, <1>3, <1>4, EndedKeeps DEF EditsInvariant

(* The game ends within a write. *)
LEMMA DiePreserves ==
  ASSUME EditsInvariant, DieWriting
  PROVE  EditsInvariant'
<1>1. /\ EditsTypeOK /\ Ended /\ disturbed' = TRUE
      /\ UNCHANGED <<lastFile, wanted, menuOnly>>
  BY DEF EditsInvariant, DieWriting
<1>2. (\A f \in Files : LinesOK(file'[f])) /\ DOMAIN file' = Files
  <2>1. PICK c \in CVars, v \in Values :
          \/ \E t \in Torn(With(recorded["pce"], c, v)) :
               file' = [file EXCEPT !["pce"] = t]
          \/ \E t \in Torn(With(recorded["autobrew"], c, v)) :
               file' = [AfterVarChange(c, v, Books, TRUE).file EXCEPT !["autobrew"] = t]
    BY DEF DieWriting
  <2>2. "pce" \in Files /\ "autobrew" \in Files /\ TRUE \in BOOLEAN
    BY DEF Files
  <2>3. \A f \in Files : LinesOK(With(recorded[f], c, v))
    BY <1>1, LinesTyped DEF EditsTypeOK
  <2>4. CASE \E t \in Torn(With(recorded["pce"], c, v)) :
               file' = [file EXCEPT !["pce"] = t]
    BY <1>1, <2>2, <2>3, <2>4, TornTyped DEF EditsTypeOK
  <2>5. CASE \E t \in Torn(With(recorded["autobrew"], c, v)) :
               file' = [AfterVarChange(c, v, Books, TRUE).file EXCEPT !["autobrew"] = t]
    <3>. DEFINE s == AfterVarChange(c, v, Books, TRUE)
    <3>1. /\ DOMAIN s.file = Files
          /\ \/ s.file["pce"] = file["pce"]
             \/ s.file["pce"] = s.recorded["pce"] /\ s.recorded["pce"] = recorded["pce"]
             \/ s.file["pce"] = With(recorded["pce"], c, v)
      <4>. DEFINE heard == value[c] # v
                             /\ Listens(c, IF c = Switch THEN v ELSE value[Switch])
      <4>1. /\ DOMAIN s.recorded = Files /\ DOMAIN s.file = Files
            /\ IF heard
               THEN \/ /\ s.recorded["pce"] = recorded["pce"] /\ s.file["pce"] = file["pce"]
                    \/ /\ s.recorded["pce"] = With(recorded["pce"], c, v)
                       /\ \/ s.file["pce"] = s.recorded["pce"]
                          \/ s.file["pce"] = file["pce"]
               ELSE s.recorded["pce"] = recorded["pce"] /\ s.file["pce"] = file["pce"]
        BY <2>2, SinkShape, Zenon
      <4>. HIDE DEF s, heard
      <4>. QED BY <4>1
    <3>. HIDE DEF s
    <3>2. LinesOK(s.file["pce"])
      BY <1>1, <2>2, <2>3, <3>1 DEF EditsTypeOK
    <3>3. PICK t \in Torn(With(recorded["autobrew"], c, v)) :
            file' = [s.file EXCEPT !["autobrew"] = t]
      BY <2>5 DEF s
    <3>4. LinesOK(t)
      BY <2>2, <2>3, TornTyped
    <3>. QED BY <3>1, <3>2, <3>3, <3>4 DEF Files
  <2>. QED BY <2>1, <2>4, <2>5
<1>3. NothingCut' /\ WantedLasts' /\ MenuSays'
  BY <1>1 DEF NothingCut, WantedLasts, MenuSays
<1>. QED BY <1>1, <1>2, <1>3, EndedKeeps DEF EditsInvariant

-----------------------------------------------------------------------------
(* The steps, one action at a time. *)
LEMMA SomeEdit ==
  ASSUME EditsNext
  PROVE  \/ Launch \/ PreDataLoaded \/ ArmSink \/ DataLoaded \/ Quit \/ DieWriting
         \/ \E f \in Files, c \in CVars : DeleteLine(f, c)
         \/ \E ok \in BOOLEAN, c \in MenuCVars : RegisterMenuCVar(c, ok)
         \/ \E ok \in BOOLEAN, c \in CVars, v \in Values : ConsoleEdit(c, v, ok)
         \/ \E okSink, ok \in BOOLEAN, c \in MenuCVars, v \in Values :
              MenuEdit(c, v, okSink, ok)
<1>1. CASE \E ok \in BOOLEAN :
             \/ \E c \in MenuCVars : RegisterMenuCVar(c, ok)
             \/ \E c \in CVars, v \in Values : ConsoleEdit(c, v, ok)
             \/ \E c \in MenuCVars, v \in Values, okSink \in {ok, TRUE} :
                  MenuEdit(c, v, okSink, ok) \/ MenuEdit(c, v, ok, okSink)
  <2>1. PICK ok \in BOOLEAN :
             \/ \E c \in MenuCVars : RegisterMenuCVar(c, ok)
             \/ \E c \in CVars, v \in Values : ConsoleEdit(c, v, ok)
             \/ \E c \in MenuCVars, v \in Values, okSink \in {ok, TRUE} :
                  MenuEdit(c, v, okSink, ok) \/ MenuEdit(c, v, ok, okSink)
    BY <1>1
  <2>2. \A okSink \in {ok, TRUE} : okSink \in BOOLEAN
    OBVIOUS
  <2>. QED BY <2>1, <2>2, Zenon
<1>. QED BY <1>1, Zenon DEF EditsNext

(* A line is deleted between two games: the other file, if it has one, says  *)
(* what is wanted.                                                           *)
LEMMA DeletePreserves ==
  ASSUME EditsInvariant, NEW f \in Files, NEW c \in CVars, DeleteLine(f, c)
  PROVE  EditsInvariant'
<1> DEFINE o == IF f = "pce" THEN "autobrew" ELSE "pce"
<1>1. /\ EditsTypeOK /\ PhasesInOrder /\ phase = "off" /\ phase' = "off"
      /\ UNCHANGED <<value, held, recorded, armed, lastFile, unsaved, disturbed, menuOnly>>
      /\ \A d \in CVars : value[d] = Absent
  BY DEF EditsInvariant, PhasesInOrder, DeleteLine, console
<1>2. o \in Files /\ o # f /\ \A g \in Files : g = f \/ g = o
  BY DEF Files
<1>3. (CHOOSE g \in Files : g # f) = o
  BY DEF Files
<1> HIDE DEF o
<1>4. /\ DOMAIN file' = Files /\ file'[o] = file[o]
      /\ DOMAIN file'[f] = DOMAIN file[f] \ {c}
      /\ \A d \in DOMAIN file[f] \ {c} : file'[f][d] = file[f][d]
  <2>1. DOMAIN file' = Files /\ file'[o] = file[o] /\ file'[f] = Only(file[f], CVars \ {c})
    BY <1>1, <1>2 DEF DeleteLine, EditsTypeOK
  <2>2. DOMAIN file[f] \subseteq CVars
    BY <1>1 DEF EditsTypeOK, LinesOK
  <2>3. Only(file[f], CVars \ {c}) = [d \in DOMAIN file[f] \cap (CVars \ {c}) |-> file[f][d]]
    BY DEF Only
  <2>4. DOMAIN file[f] \cap (CVars \ {c}) = DOMAIN file[f] \ {c}
    BY <2>2
  <2>. QED BY <2>1, <2>3, <2>4
<1>5. /\ \A d \in CVars \ {c} : wanted'[d] = wanted[d]
      /\ wanted'[c] = IF c \in DOMAIN file[o] THEN Read(file[o][c]) ELSE Default[c]
      /\ wanted' \in [CVars -> Values]
  <2>1. (\E g \in Files \ {f} : c \in DOMAIN file[g]) <=> c \in DOMAIN file[o]
    BY <1>2
  <2>2. c \in DOMAIN file[o] => Read(file[o][c]) \in Values
    BY <1>1, <1>2 DEF EditsTypeOK, LinesOK, Read
  <2>3. Default[c] \in Values
    BY DEF CVars
  <2>4. wanted' = [wanted EXCEPT ![c] = IF c \in DOMAIN file[o] THEN Read(file[o][c])
                                        ELSE Default[c]]
    BY <1>3, <2>1 DEF DeleteLine
  <2>. QED BY <1>1, <2>2, <2>3, <2>4 DEF EditsTypeOK
<1>6. EditsTypeOK'
  <2>1. \A g \in Files : LinesOK(recorded[g])' /\ LinesOK(file[g])'
    BY <1>1, <1>2, <1>4 DEF EditsTypeOK, LinesOK
  <2>. QED BY <1>1, <1>4, <1>5, <2>1 DEF EditsTypeOK
<1>7. /\ PhasesInOrder' /\ FileHoldsEntries' /\ NoneUnknown' /\ HeldForRegistration'
  BY <1>1 DEF PhasesInOrder, FileHoldsEntries, NoneUnknown, HeldForRegistration
<1>8. Lasting = file /\ Lasting' = file'
  BY <1>1 DEF Lasting
<1>9. NothingCut'
  <2>. SUFFICES ASSUME ~disturbed, NEW g \in Files, NEW d \in DOMAIN file'[g]
                PROVE  file'[g][d] \in Values
    BY <1>1, <1>8 DEF NothingCut
  <2>1. d \in DOMAIN file[g] /\ file'[g][d] = file[g][d]
    BY <1>2, <1>4
  <2>. QED BY <1>8, <2>1 DEF EditsInvariant, NothingCut
<1>10. ASSUME NEW d \in CVars \ {c}
       PROVE  /\ Agreed(d)' <=> Agreed(d)
              /\ \A g \in Files : /\ d \in DOMAIN file'[g] <=> d \in DOMAIN file[g]
                                  /\ d \in DOMAIN file[g] => file'[g][d] = file[g][d]
  <2>1. \A g \in Files : /\ d \in DOMAIN file'[g] <=> d \in DOMAIN file[g]
                         /\ d \in DOMAIN file[g] => file'[g][d] = file[g][d]
    BY <1>2, <1>4
  <2>2. Agreed(d)' <=> Agreed(d)
    BY <1>8, <2>1 DEF Agreed
  <2>. QED BY <2>1, <2>2
<1>11. Agreed(c)'
  <2>1. \A g \in Files : c \in DOMAIN file'[g] => g = o
    BY <1>2, <1>4
  <2>. QED BY <1>8, <2>1 DEF Agreed
<1>12. WantedLasts'
  <2>. SUFFICES ASSUME ~disturbed, NEW d \in CVars, Agreed(d)'
                PROVE  /\ AllSay(d, wanted[d])'
                       /\ (\A g \in Files : d \notin DOMAIN file'[g]) =>
                            wanted'[d] = Default[d]
    BY <1>1, <1>8 DEF WantedLasts
  <2>1. CASE d # c
    <3>1. Agreed(d) /\ wanted'[d] = wanted[d]
      BY <1>5, <1>10, <2>1
    <3>2. /\ AllSay(d, wanted[d])
          /\ (\A g \in Files : d \notin DOMAIN file[g]) => wanted[d] = Default[d]
      BY <1>8, <2>1, <3>1 DEF EditsInvariant, WantedLasts
    <3>. QED BY <1>8, <1>10, <2>1, <3>1, <3>2 DEF AllSay
  <2>2. CASE d = c
    <3>1. ASSUME NEW g \in Files, c \in DOMAIN file'[g]
          PROVE  file'[g][c] = wanted'[c]
      <4>1. g = o /\ file'[g][c] = file[o][c] /\ c \in DOMAIN file[o]
        BY <1>2, <1>4, <3>1
      <4>2. file[o][c] \in Values
        BY <1>2, <1>8, <4>1 DEF EditsInvariant, NothingCut
      <4>. QED BY <1>5, <4>1, <4>2 DEF Read
    <3>2. AllSay(d, wanted[d])'
      BY <1>8, <2>2, <3>1 DEF AllSay
    <3>3. (\A g \in Files : c \notin DOMAIN file'[g]) => wanted'[c] = Default[c]
      BY <1>2, <1>4, <1>5
    <3>. QED BY <2>2, <3>2, <3>3
  <2>. QED BY <2>1, <2>2
<1>13. MenuSays'
  <2>1. ASSUME ~disturbed, menuOnly, NEW d \in MenuCVars
        PROVE  Agreed(d)'
    <3>1. d \in CVars /\ Agreed(d)
      BY <2>1 DEF EditsInvariant, MenuSays, CVars
    <3>. QED BY <1>10, <1>11, <3>1
  <2>2. \A d \in MenuCVars : value'[d] = Absent
    BY <1>1 DEF CVars
  <2>. QED BY <1>1, <2>1, <2>2 DEF MenuSays
<1>. QED BY <1>6, <1>7, <1>9, <1>12, <1>13 DEF EditsInvariant

-----------------------------------------------------------------------------
(* The whole of it: in every reachable state a file is what its plugin        *)
(* remembers unless a write failed, what is not registered yet is held, and   *)
(* where the files agree they say what is wanted.                             *)
THEOREM EditsCorrect == EditsSpec => []EditsInvariant
<1>1. EditsInit => EditsInvariant
  <2>. SUFFICES ASSUME EditsInit PROVE EditsInvariant
    OBVIOUS
  <2>1. /\ \A f \in Files : DOMAIN recorded[f] = {} /\ DOMAIN file[f] = {}
        /\ DOMAIN recorded = Files /\ DOMAIN file = Files /\ DOMAIN held = {}
    BY DEF EditsInit, NoLines
  <2>2. /\ \A c \in CVars : value[c] = Absent
        /\ value \in [CVars -> Values \cup {Absent}]
        /\ wanted = Default /\ Default \in [CVars -> Values]
        /\ phase = "off" /\ armed = FALSE /\ unsaved = {} /\ lastFile \in Files
        /\ disturbed = FALSE /\ menuOnly = TRUE
    BY DEF EditsInit, CVars
  <2>3. EditsTypeOK
    <3>1. \A f \in Files : LinesOK(recorded[f]) /\ LinesOK(file[f])
      BY <2>1 DEF LinesOK
    <3>. QED BY <2>1, <2>2, <3>1 DEF EditsTypeOK
  <2>4. /\ PhasesInOrder /\ FileHoldsEntries /\ NoneUnknown /\ HeldForRegistration
    BY <2>2 DEF PhasesInOrder, FileHoldsEntries, NoneUnknown, HeldForRegistration
  <2>5. Lasting = file
    BY <2>2 DEF Lasting
  <2>6. \A c : Agreed(c) /\ \A v : AllSay(c, v)
    BY <2>1, <2>5 DEF Agreed, AllSay
  <2>7. NothingCut /\ WantedLasts /\ MenuSays
    BY <2>1, <2>2, <2>5, <2>6 DEF NothingCut, WantedLasts, MenuSays, CVars
  <2>. QED BY <2>3, <2>4, <2>7 DEF EditsInvariant
<1>2. EditsInvariant /\ [EditsNext]_editVars => EditsInvariant'
  <2>. SUFFICES ASSUME EditsInvariant, [EditsNext]_editVars PROVE EditsInvariant'
    OBVIOUS
  <2>1. CASE Launch
    BY <2>1, LaunchPreserves
  <2>2. CASE PreDataLoaded
    BY <2>2, SwitchPreserves
  <2>3. CASE ArmSink \/ DataLoaded \/ UNCHANGED editVars
    BY <2>3, PhasePreserves
  <2>4. CASE Quit
    BY <2>4, QuitPreserves
  <2>5. CASE DieWriting
    BY <2>5, DiePreserves
  <2>6. CASE \E f \in Files, c \in CVars : DeleteLine(f, c)
    BY <2>6, DeletePreserves
  <2>7. CASE \E ok \in BOOLEAN, c \in MenuCVars : RegisterMenuCVar(c, ok)
    BY <2>7, RegisterPreserves
  <2>8. CASE \E ok \in BOOLEAN, c \in CVars, v \in Values : ConsoleEdit(c, v, ok)
    BY <2>8, ConsolePreserves
  <2>9. CASE \E okSink, ok \in BOOLEAN, c \in MenuCVars, v \in Values :
               MenuEdit(c, v, okSink, ok)
    BY <2>9, MenuPreserves
  <2>. QED BY <2>1, <2>2, <2>3, <2>4, <2>5, <2>6, <2>7, <2>8, <2>9, SomeEdit
<1>. QED BY <1>1, <1>2, PTL DEF EditsSpec

(* While the game runs, a file is what its plugin remembers, unless its last  *)
(* write failed.                                                              *)
THEOREM FilesStayWhole == EditsSpec => []FileHoldsEntries
<1>1. EditsInvariant => FileHoldsEntries
  BY DEF EditsInvariant
<1>. QED BY <1>1, EditsCorrect, PTL

(* Who sets Autobrew's cvars in the menu only has two files that agree.       *)
THEOREM MenuFilesAgree == EditsSpec => []MenuNeverDisputed
<1>1. EditsInvariant => MenuNeverDisputed
  <2>. SUFFICES ASSUME EditsInvariant, menuOnly, ~disturbed, unsaved = {}, NEW c \in MenuCVars
                PROVE  ~Disputed(c)
    BY DEF MenuNeverDisputed
  <2>1. \A f \in Files : Lasting[f] = file[f]
    BY DEF EditsInvariant, FileHoldsEntries, Lasting
  <2>2. Agreed(c)
    BY DEF EditsInvariant, MenuSays
  <2>. QED BY <2>1, <2>2 DEF Agreed, Disputed
<1>. QED BY <1>1, EditsCorrect, PTL

(* One edit loses no line, and changes no other line of a file that was       *)
(* saved.                                                                     *)
LEMMA EditForgetsNothing ==
  ASSUME EditsInvariant, phase # "off", NEW c, NEW v, Edited(c, v), NEW f \in Files
  PROVE  /\ DOMAIN file[f] \subseteq DOMAIN file'[f]
         /\ unsaved = {} => \A d \in DOMAIN file[f] : d # c => file'[f][d] = file[f][d]
<1>1. DOMAIN file[f] \subseteq DOMAIN recorded[f]
  BY DEF EditsInvariant, NoneUnknown
<1>2. unsaved = {} => file[f] = recorded[f]
  BY DEF EditsInvariant, FileHoldsEntries
<1>3. Untouched(f) \/ Told(f, c, v)
  BY DEF Edited
<1>4. /\ DOMAIN recorded[f] \subseteq DOMAIN recorded'[f]
      /\ \A d \in DOMAIN recorded[f] : d # c => recorded'[f][d] = recorded[f][d]
      /\ file'[f] = file[f] \/ file'[f] = recorded'[f]
  BY <1>3, ToldLines
<1>. QED BY <1>1, <1>2, <1>4

(* Over any number of sessions a line is only lost to the player or to a game *)
(* that died within a write, and an edit changes no other line.               *)
THEOREM NothingForgotten == EditsSpec => NeverForgets
<1> DEFINE Kept == \A f \in Files :
                     /\ DOMAIN file[f] \subseteq DOMAIN file'[f]
                     /\ \A c, d \in DOMAIN file[f] :
                          (file'[f][c] # file[f][c] /\ file'[f][d] # file[f][d]
                             /\ unsaved = {}) => c = d
<1>1. ASSUME EditsInvariant, [EditsNext]_editVars, ~disturbed', phase' # "off"
      PROVE  Kept
  <2>1. EditsTypeOK /\ PhasesInOrder
    BY <1>1 DEF EditsInvariant
  <2>2. ASSUME phase # "off", NEW c, NEW v, Edited(c, v)
        PROVE  Kept
    BY <1>1, <2>2, EditForgetsNothing
  <2>3. CASE file' = file
    BY <2>3
  <2>4. CASE Launch \/ PreDataLoaded \/ ArmSink \/ DataLoaded \/ UNCHANGED editVars
    BY <2>3, <2>4 DEF Launch, PreDataLoaded, ArmSink, DataLoaded, editVars
  <2>5. CASE Quit \/ DieWriting \/ \E f \in Files, c \in CVars : DeleteLine(f, c)
    BY <1>1, <2>5 DEF Quit, DieWriting, Ended, DeleteLine
  <2>6. CASE \E ok \in BOOLEAN, c \in MenuCVars : RegisterMenuCVar(c, ok)
    BY <1>1, <2>2, <2>6, RegisterPreserves DEF RegisterMenuCVar
  <2>7. CASE \E ok \in BOOLEAN, c \in CVars, v \in Values : ConsoleEdit(c, v, ok)
    BY <1>1, <2>1, <2>2, <2>7, ConsolePreserves DEF ConsoleEdit, PhasesInOrder
  <2>8. CASE \E okSink, ok \in BOOLEAN, c \in MenuCVars, v \in Values :
               MenuEdit(c, v, okSink, ok)
    BY <1>1, <2>2, <2>8, MenuPreserves DEF MenuEdit
  <2>. QED BY <1>1, <2>4, <2>5, <2>6, <2>7, <2>8, SomeEdit
<1>2. EditsInvariant /\ [EditsNext]_editVars
        => [(~disturbed' /\ phase' # "off") => Kept]_editVars
  BY <1>1
<1>. QED BY <1>2, EditsCorrect, PTL DEF EditsSpec, NeverForgets

(* A cvar comes up with the value that was last set while somebody recorded,  *)
(* unless the files differ on it.                                             *)
THEOREM EditsAreReplayed == EditsSpec => ReplaysRecorded
<1> DEFINE Replayed(c) ==
             (value[c] = Absent /\ value'[c] # Absent /\ ~disturbed /\ ~Disputed(c))
               => value'[c] = wanted[c]
<1>1. ASSUME EditsInvariant, [EditsNext]_editVars, NEW c \in CVars
      PROVE  Replayed(c)
  <2>. SUFFICES ASSUME value[c] = Absent, value'[c] # Absent, ~disturbed, ~Disputed(c)
                PROVE  value'[c] = wanted[c]
    OBVIOUS
  <2>1. EditsTypeOK /\ PhasesInOrder
    BY <1>1 DEF EditsInvariant
  <2>2. CASE Launch
    <3>1. /\ phase = "off" /\ c \in EngineCVars
          /\ value'[c] = IF HasLine(c) THEN Line(c) ELSE Default[c]
      BY <2>2 DEF Launch
    <3>2. Lasting = file
      BY <3>1 DEF Lasting
    <3>3. Agreed(c)
      BY <3>2 DEF Agreed, Disputed, Files
    <3>4. /\ \A f \in Files : c \in DOMAIN file[f] => file[f][c] = wanted[c]
          /\ (\A f \in Files : c \notin DOMAIN file[f]) => wanted[c] = Default[c]
      BY <1>1, <3>2, <3>3 DEF EditsInvariant, WantedLasts, AllSay
    <3>5. CASE HasLine(c)
      <4>1. PICK f \in Files : c \in DOMAIN file[f] /\ Line(c) = Read(file[f][c])
        BY <2>1, <3>5, LineFrom DEF EditsTypeOK
      <4>2. file[f][c] \in Values
        BY <1>1, <3>2, <4>1 DEF EditsInvariant, NothingCut
      <4>. QED BY <3>1, <3>4, <3>5, <4>1, <4>2 DEF Read
    <3>6. CASE ~HasLine(c)
      BY <3>1, <3>4, <3>6 DEF HasLine
    <3>. QED BY <3>5, <3>6
  <2>3. CASE PreDataLoaded
    <3>1. /\ phase # "off" /\ c = Switch /\ value'[c] = OnRegistration(c)
      BY <2>1, <2>3 DEF PreDataLoaded, EditsTypeOK
    <3>2. c \in CVars \ EngineCVars
      BY <3>1
    <3>. QED BY <1>1, <3>1, <3>2, HeldIsWanted
  <2>4. CASE \E ok \in BOOLEAN, d \in MenuCVars : RegisterMenuCVar(d, ok)
    <3>1. PICK ok \in BOOLEAN, d \in MenuCVars : RegisterMenuCVar(d, ok)
      BY <2>4
    <3>2. phase # "off" /\ value' = [value EXCEPT ![d] = OnRegistration(d)]
      BY <3>1 DEF RegisterMenuCVar
    <3>3. c = d /\ value'[c] = OnRegistration(c)
      BY <2>1, <3>2 DEF EditsTypeOK
    <3>4. c \in CVars \ EngineCVars
      BY <3>3
    <3>. QED BY <1>1, <3>2, <3>3, <3>4, HeldIsWanted
  <2>5. CASE \E ok \in BOOLEAN, d \in CVars, v \in Values : ConsoleEdit(d, v, ok)
    BY <2>1, <2>5 DEF ConsoleEdit, EditsTypeOK
  <2>6. CASE \E okSink, ok \in BOOLEAN, d \in MenuCVars, v \in Values :
               MenuEdit(d, v, okSink, ok)
    BY <2>1, <2>6 DEF MenuEdit, EditsTypeOK, PhasesInOrder
  <2>7. CASE Quit \/ DieWriting
    BY <2>7 DEF Quit, DieWriting, Ended
  <2>8. CASE \/ ArmSink \/ DataLoaded \/ UNCHANGED editVars
             \/ \E f \in Files, d \in CVars : DeleteLine(f, d)
    BY <2>8 DEF ArmSink, DataLoaded, editVars, DeleteLine, console
  <2>. QED BY <1>1, <2>2, <2>3, <2>4, <2>5, <2>6, <2>7, <2>8, SomeEdit
<1>2. EditsInvariant /\ [EditsNext]_editVars => [\A c \in CVars : Replayed(c)]_editVars
  BY <1>1
<1>. QED BY <1>2, EditsCorrect, PTL DEF EditsSpec, ReplaysRecorded

HIDE EditsAssumption

-----------------------------------------------------------------------------
(* PtfMerge.  A merge is a function of the height, a fold over the patch a  *)
(* function of the place in it, so that induction over numbers suffices.    *)
(* It is said of sets: what holds at 0 and passes on to the next holds of   *)
(* every number, and what is computed one step after the other exists.      *)

(* Of some numbers one is the least.                                        *)
LEMMA Least ==
  ASSUME NEW T \in SUBSET Nat, T # {}
  PROVE  \E x \in T : \A y \in T : x <= y
<1>1. IsWellFoundedOn(OpToRel(<, Nat), Nat)
  BY NatLessThanWellFounded
<1>2. PICK x \in T : \A y \in T : ~ (<<y, x>> \in OpToRel(<, Nat))
  BY <1>1, WFMin
<1>3. \A y \in T : ~(y < x)
  BY <1>2 DEF OpToRel
<1>. QED BY <1>3

(* A set of numbers with 0 and every successor holds all numbers:           *)
(* otherwise there were a least one missing.                                *)
LEMMA Induction ==
  ASSUME NEW S, 0 \in S, \A n \in S \cap Nat : n + 1 \in S
  PROVE  Nat \subseteq S
<1>. SUFFICES ASSUME Nat \ S # {} PROVE FALSE
  OBVIOUS
<1>1. PICK x \in Nat \ S : \A y \in Nat \ S : x <= y
  BY Least
<1>2. x - 1 \in Nat /\ (x - 1) + 1 = x
  BY <1>1
<1>3. x - 1 \in S
  BY <1>1, <1>2
<1>. QED BY <1>1, <1>2, <1>3

(* A function defined by steps, the n-th of which leads from the set        *)
(* E[n - 1] into E[n].                                                      *)
Runs(g, N, E, base, step) ==
  /\ g = [n \in 0..N |-> IF n = 0 THEN base ELSE step[<<g[n - 1], n>>]]
  /\ \A n \in 0..N : g[n] \in E[n]

(* If every step leads from one set of values into the next, the function   *)
(* it defines exists and takes its values there.                            *)
LEMMA StepsExist ==
  ASSUME NEW N \in Nat, NEW E, NEW base \in E[0], NEW step,
         \A n \in 1..N : \A x \in E[n - 1] : step[<<x, n>>] \in E[n]
  PROVE  \E g : Runs(g, N, E, base, step)
<1>. DEFINE Good(M, g) ==
              /\ g = [n \in 0..M |-> IF n = 0 THEN base ELSE step[<<g[n - 1], n>>]]
              /\ \A n \in 0..M : g[n] \in E[n]
            S == {M \in Nat : M <= N => \E g : Good(M, g)}
<1>1. 0 \in S
  <2>. DEFINE g == [n \in 0..0 |-> base]
  <2>1. Good(0, g)
    OBVIOUS
  <2>. QED BY <2>1
<1>2. ASSUME NEW M \in Nat, M <= N => \E g : Good(M, g), M + 1 <= N
      PROVE  \E g : Good(M + 1, g)
  <2>1. PICK f : Good(M, f)
    BY <1>2
  <2>2. \A n \in 0..M : f[n] \in E[n]
    BY <2>1, Zenon
  <2>3. f = [n \in 0..M |-> IF n = 0 THEN base ELSE step[<<f[n - 1], n>>]]
    BY <2>1, Zenon
  <2>4. \A n \in 0..M : f[n] = IF n = 0 THEN base ELSE step[<<f[n - 1], n>>]
    BY <2>3, Zenon
  <2>. DEFINE g == [n \in 0..(M + 1) |-> IF n = M + 1 THEN step[<<f[M], M + 1>>] ELSE f[n]]
  <2>5. /\ \A n \in 0..M : g[n] = f[n]
        /\ g[M + 1] = step[<<f[M], M + 1>>]
        /\ g = [n \in 0..(M + 1) |-> g[n]]
    OBVIOUS
  <2>. HIDE DEF g
  <2>6. f[M] \in E[M] /\ g[M] = f[M]
    <3>1. M \in 0..M
      OBVIOUS
    <3>. QED BY <2>2, <2>5, <3>1, Zenon
  <2>7. g[M + 1] \in E[M + 1]
    <3>1. PICK k \in 1..N : k = M + 1 /\ k - 1 = M
      BY <1>2
    <3>2. step[<<f[M], k>>] \in E[k]
      BY <2>6, <3>1
    <3>. QED BY <2>5, <3>1, <3>2
  <2>8. \A n \in 0..(M + 1) : g[n] \in E[n]
    <3>. TAKE n \in 0..(M + 1)
    <3>1. n \in 0..M \/ n = M + 1
      OBVIOUS
    <3>. QED BY <2>2, <2>5, <2>7, <3>1
  <2>9. \A n \in 0..(M + 1) : g[n] = IF n = 0 THEN base ELSE step[<<g[n - 1], n>>]
    <3>. TAKE n \in 0..(M + 1)
    <3>1. CASE n \in 0..M
      <4>1. n # 0 => n - 1 \in 0..M
        BY <3>1
      <4>2. g[n] = f[n] /\ (n # 0 => g[n - 1] = f[n - 1])
        BY <2>5, <3>1, <4>1
      <4>3. f[n] = IF n = 0 THEN base ELSE step[<<f[n - 1], n>>]
        BY <2>4, <3>1, Zenon
      <4>. QED BY <4>2, <4>3, Zenon
    <3>2. CASE n = M + 1
      <4>1. n - 1 = M /\ n # 0
        BY <3>2
      <4>. QED BY <2>5, <2>6, <3>2, <4>1
    <3>. QED BY <3>1, <3>2
  <2>10. g = [n \in 0..(M + 1) |-> IF n = 0 THEN base ELSE step[<<g[n - 1], n>>]]
    BY <2>5, <2>9, Zenon
  <2>. QED BY <2>8, <2>10, Zenon
<1>3. \A M \in S \cap Nat : M + 1 \in S
  BY <1>2
<1>4. N \in S
  <2>. HIDE DEF S
  <2>. QED BY <1>1, <1>3, Induction
<1>5. \E g : Good(N, g)
  BY <1>4
<1>. QED BY <1>5 DEF Runs

(* What a function has at 0 and passes on to the next value all values have. *)
LEMMA StepsStay ==
  ASSUME NEW N \in Nat, NEW E, NEW f, f[0] \in E[0],
         \A n \in 1..N : f[n - 1] \in E[n - 1] => f[n] \in E[n]
  PROVE  \A n \in 0..N : f[n] \in E[n]
<1>. DEFINE S == {n \in Nat : n <= N => f[n] \in E[n]}
<1>1. \A n \in S \cap Nat : n + 1 \in S
  <2>. SUFFICES ASSUME NEW n \in Nat, n + 1 <= N, f[n] \in E[n]
                PROVE  f[n + 1] \in E[n + 1]
    OBVIOUS
  <2>1. PICK k \in 1..N : k = n + 1 /\ k - 1 = n
    OBVIOUS
  <2>. QED BY <2>1
<1>2. 0 \in S
  OBVIOUS
<1>3. Nat \subseteq S
  <2>. HIDE DEF S
  <2>. QED BY <1>1, <1>2, Induction
<1>. QED BY <1>3

-----------------------------------------------------------------------------
(* Children and their keys. *)

(* What a set of positions has first.                                       *)
LEMMA Smallest ==
  ASSUME NEW T \in SUBSET Nat, T # {}
  PROVE  Min(T) \in T /\ \A y \in T : Min(T) <= y
BY Least DEF Min

(* FindChildIndex gives the place of a child with the key, or 0.            *)
LEMMA FoundChild ==
  ASSUME NEW kids, Len(kids) \in Nat, NEW k
  PROVE  \/ FindChildIndex(kids, k) = 0 /\ \A i \in 1..Len(kids) : kids[i].key # k
         \/ /\ FindChildIndex(kids, k) \in 1..Len(kids)
            /\ kids[FindChildIndex(kids, k)].key = k
<1>. DEFINE T == {i \in 1..Len(kids) : kids[i].key = k}
<1>1. FindChildIndex(kids, k) = IF T # {} THEN Min(T) ELSE 0
  BY DEF FindChildIndex, SelectInSeq
<1>2. T \in SUBSET Nat
  OBVIOUS
<1>3. T # {} => Min(T) \in T
  <2>. HIDE DEF T
  <2>. QED BY <1>2, Smallest
<1>. QED BY <1>1, <1>3

(* Siblings are a sequence, and a key names one of them.                    *)
LEMMA SiblingsAre ==
  ASSUME NEW R, NEW s \in Siblings(R)
  PROVE  /\ s \in Seq(R) /\ Len(s) \in Nat /\ DOMAIN s = 1..Len(s)
         /\ \A i \in 1..Len(s) : s[i] \in R
         /\ \A i, j \in 1..Len(s) : s[i].key = s[j].key => i = j
<1>1. s \in Seq(R) /\ \A i, j \in DOMAIN s : s[i].key = s[j].key => i = j
  BY DEF Siblings
<1>. QED BY <1>1

(* The row with a key is the one that stands anywhere with that key.        *)
LEMMA RowFound ==
  ASSUME NEW R, NEW s \in Siblings(R)
  PROVE  /\ \A i \in 1..Len(s) : HasRow(s, s[i].key) /\ RowOf(s, s[i].key) = s[i]
         /\ \A k : HasRow(s, k) =>
              \E i \in 1..Len(s) : s[i].key = k /\ RowOf(s, k) = s[i]
         /\ \A k : HasRow(s, k) => RowOf(s, k) \in R /\ RowOf(s, k).key = k
<1>1. /\ Len(s) \in Nat /\ DOMAIN s = 1..Len(s)
      /\ \A i \in 1..Len(s) : s[i] \in R
      /\ \A i, j \in 1..Len(s) : s[i].key = s[j].key => i = j
  BY SiblingsAre
<1>2. ASSUME NEW i \in 1..Len(s)
      PROVE  HasRow(s, s[i].key) /\ RowOf(s, s[i].key) = s[i]
  <2>. DEFINE j == CHOOSE j \in DOMAIN s : s[j].key = s[i].key
  <2>1. j \in 1..Len(s) /\ s[j].key = s[i].key
    BY <1>1
  <2>2. j = i
    BY <1>1, <2>1
  <2>. QED BY <1>1, <2>2 DEF HasRow, RowOf
<1>3. \A k : HasRow(s, k) => \E i \in 1..Len(s) : s[i].key = k /\ RowOf(s, k) = s[i]
  BY <1>1, <1>2 DEF HasRow
<1>. QED BY <1>1, <1>2, <1>3

(* No children.                                                             *)
LEMMA NoSiblings ==
  ASSUME NEW R
  PROVE  << >> \in Siblings(R) /\ \A k : ~HasRow(<< >>, k) /\ Below(<< >>, k) = << >>
<1>1. << >> \in Siblings(R)
  BY DEF Siblings
<1>2. DOMAIN << >> = {}
  OBVIOUS
<1>. QED BY <1>1, <1>2 DEF HasRow, Below

(* Children that are there have a key.                                      *)
LEMMA SomeSibling ==
  ASSUME NEW R, NEW s \in Siblings(R)
  PROVE  s # << >> <=> \E k : HasRow(s, k)
<1>1. s \in Seq(R) /\ Len(s) \in Nat /\ DOMAIN s = 1..Len(s)
  BY SiblingsAre
<1>2. s # << >> => 1 \in DOMAIN s
  BY <1>1
<1>. QED BY <1>1, <1>2, NoSiblings DEF HasRow

-----------------------------------------------------------------------------
(* Merging one child, and all of them. *)

(* A row of the game under a row of a patch with the same key.              *)
MergedRow(r, p, f) ==
  IF p.kids = << >> /\ r.kids = << >> THEN p
  ELSE [key |-> r.key, attrs |-> CopyAttributes(r.attrs, p.attrs), kids |-> f[r.kids, p.kids]]

(* Attributes of both are attributes.                                       *)
LEMMA CopiedAttributes ==
  ASSUME NEW a \in Attributes, NEW b \in Attributes
  PROVE  CopyAttributes(a, b) \in Attributes
<1>1. PICK A \in SUBSET AttrNames : a \in [A -> AttrTexts]
  BY DEF Attributes
<1>2. PICK B \in SUBSET AttrNames : b \in [B -> AttrTexts]
  BY DEF Attributes
<1>3. CopyAttributes(a, b) \in [A \cup B -> AttrTexts]
  BY <1>1, <1>2 DEF CopyAttributes
<1>4. A \cup B \in SUBSET AttrNames
  OBVIOUS
<1>. QED BY <1>3, <1>4 DEF Attributes

(* A merged row is one, with the key of both.                               *)
LEMMA MergedRowGood ==
  ASSUME NEW R, NEW f \in [Siblings(R) \X Siblings(R) -> Siblings(R)],
         NEW r \in RowOver(R), NEW p \in RowOver(R), r.key = p.key
  PROVE  MergedRow(r, p, f) \in RowOver(R) /\ MergedRow(r, p, f).key = p.key
<1>1. /\ r.key \in Keys /\ r.attrs \in Attributes /\ r.kids \in Siblings(R)
      /\ p.attrs \in Attributes /\ p.kids \in Siblings(R)
  BY DEF RowOver
<1>2. CopyAttributes(r.attrs, p.attrs) \in Attributes /\ f[r.kids, p.kids] \in Siblings(R)
  BY <1>1, CopiedAttributes
<1>. QED BY <1>1, <1>2 DEF MergedRow, RowOver

(* Another row in the place of a child with its key.                        *)
LEMMA ChildReplaced ==
  ASSUME NEW T, NEW s \in Siblings(T), NEW i \in 1..Len(s),
         NEW r \in T, r.key = s[i].key,
         NEW q \in Seq(T), Len(q) = Len(s), q[i] = r,
         \A j \in 1..Len(s) : j # i => q[j] = s[j]
  PROVE  /\ q \in Siblings(T)
         /\ \A k : HasRow(q, k) <=> HasRow(s, k)
         /\ RowOf(q, r.key) = r
         /\ \A k : HasRow(s, k) /\ k # r.key => RowOf(q, k) = RowOf(s, k)
<1>1. /\ Len(s) \in Nat /\ DOMAIN s = 1..Len(s) /\ DOMAIN q = 1..Len(s)
      /\ \A j, l \in 1..Len(s) : s[j].key = s[l].key => j = l
  BY SiblingsAre
<1>2. \A j \in 1..Len(s) : q[j].key = s[j].key
  OBVIOUS
<1>3. q \in Siblings(T)
  BY <1>1, <1>2 DEF Siblings
<1>4. \A k : HasRow(q, k) <=> HasRow(s, k)
  BY <1>1, <1>2 DEF HasRow
<1>5. \A j \in 1..Len(s) : RowOf(q, q[j].key) = q[j] /\ RowOf(s, s[j].key) = s[j]
  BY <1>3, RowFound
<1>6. RowOf(q, r.key) = r
  BY <1>5
<1>7. ASSUME NEW k, HasRow(s, k), k # r.key PROVE RowOf(q, k) = RowOf(s, k)
  <2>1. PICK j \in 1..Len(s) : s[j].key = k
    BY <1>1, <1>7 DEF HasRow
  <2>. QED BY <1>2, <1>5, <1>7, <2>1
<1>. QED BY <1>3, <1>4, <1>6, <1>7

(* A row with a new key at the end.                                         *)
LEMMA ChildAppended ==
  ASSUME NEW T, NEW s \in Siblings(T), NEW r \in T, ~HasRow(s, r.key)
  PROVE  LET q == Append(s, r) IN
         /\ q \in Siblings(T)
         /\ \A k : HasRow(q, k) <=> HasRow(s, k) \/ k = r.key
         /\ RowOf(q, r.key) = r
         /\ \A k : HasRow(s, k) => RowOf(q, k) = RowOf(s, k)
<1>. DEFINE q == Append(s, r)
<1>1. /\ s \in Seq(T) /\ Len(s) \in Nat /\ DOMAIN s = 1..Len(s)
      /\ \A j, l \in 1..Len(s) : s[j].key = s[l].key => j = l
  BY SiblingsAre
<1>2. q \in Seq(T) /\ Len(q) = Len(s) + 1 /\ DOMAIN q = 1..(Len(s) + 1)
  BY <1>1
<1>3. q[Len(s) + 1] = r /\ \A j \in 1..Len(s) : q[j] = s[j]
  BY <1>1
<1>. HIDE DEF q
<1>4. \A j \in 1..Len(s) : s[j].key # r.key
  BY <1>1 DEF HasRow
<1>5. \A j \in 1..(Len(s) + 1) : j \in 1..Len(s) \/ j = Len(s) + 1
  BY <1>1
<1>6. q \in Siblings(T)
  <2>1. ASSUME NEW j \in DOMAIN q, NEW l \in DOMAIN q, q[j].key = q[l].key PROVE j = l
    BY <1>1, <1>2, <1>3, <1>4, <1>5, <2>1
  <2>. QED BY <1>2, <2>1 DEF Siblings
<1>7. Len(s) + 1 \in DOMAIN q /\ \A j \in 1..Len(s) : j \in DOMAIN q
  BY <1>1, <1>2
<1>8. \A k : HasRow(q, k) <=> HasRow(s, k) \/ k = r.key
  BY <1>1, <1>2, <1>3, <1>5, <1>7 DEF HasRow
<1>9. RowOf(q, r.key) = r
  BY <1>2, <1>3, <1>6, <1>7, RowFound
<1>10. ASSUME NEW k, HasRow(s, k) PROVE RowOf(q, k) = RowOf(s, k)
  <2>1. PICK j \in 1..Len(s) : s[j].key = k /\ RowOf(s, k) = s[j]
    BY <1>10, RowFound
  <2>. QED BY <1>2, <1>3, <1>6, <1>7, <2>1, RowFound
<1>. QED BY <1>6, <1>8, <1>9, <1>10 DEF q

(* The children q are those of s with p merged in.                          *)
MergedOne(q, s, p, f) ==
  /\ \A k : HasRow(q, k) <=> HasRow(s, k) \/ k = p.key
  /\ RowOf(q, p.key) = IF HasRow(s, p.key) THEN MergedRow(RowOf(s, p.key), p, f) ELSE p
  /\ \A k : HasRow(s, k) /\ k # p.key => RowOf(q, k) = RowOf(s, k)
  /\ ~HasRow(s, p.key) => q = Append(s, p)

(* That is what MergeChild does.                                            *)
LEMMA MergeChildGood ==
  ASSUME NEW R, NEW f \in [Siblings(R) \X Siblings(R) -> Siblings(R)],
         NEW s \in Siblings(RowOver(R)), NEW p \in RowOver(R)
  PROVE  /\ MergeChild(s, p, f) \in Siblings(RowOver(R))
         /\ MergedOne(MergeChild(s, p, f), s, p, f)
<1>. DEFINE i == FindChildIndex(s, p.key)
            q == MergeChild(s, p, f)
<1>1. s \in Seq(RowOver(R)) /\ Len(s) \in Nat /\ DOMAIN s = 1..Len(s)
  BY SiblingsAre
<1>2. CASE i = 0
  <2>1. q = Append(s, p)
    BY <1>2 DEF MergeChild
  <2>2. \A j \in 1..Len(s) : s[j].key # p.key
    <3>1. ~(FindChildIndex(s, p.key) \in 1..Len(s))
      BY <1>1, <1>2
    <3>. QED BY <1>1, <3>1, FoundChild
  <2>3. ~HasRow(s, p.key)
    BY <1>1, <2>2 DEF HasRow
  <2>. QED BY <2>1, <2>3, ChildAppended DEF MergedOne
<1>3. CASE i # 0
  <2>1. i \in 1..Len(s) /\ s[i].key = p.key
    BY <1>1, <1>3, FoundChild
  <2>. HIDE DEF i
  <2>2. HasRow(s, p.key) /\ RowOf(s, p.key) = s[i]
    BY <2>1, RowFound
  <2>3. PICK r \in RowOver(R) : r = s[i]
    BY <1>1, <2>1
  <2>4. PICK m \in RowOver(R) : m = MergedRow(r, p, f) /\ m.key = s[i].key
    <3>1. r.key = p.key
      BY <2>1, <2>3
    <3>2. MergedRow(r, p, f) \in RowOver(R) /\ MergedRow(r, p, f).key = p.key
      BY <2>3, <3>1, MergedRowGood
    <3>. QED BY <2>1, <3>2
  <2>5. q = [s EXCEPT ![i] = m]
    <3>1. CASE p.kids = << >> /\ s[i].kids = << >>
      BY <1>3, <2>3, <2>4, <3>1 DEF MergeChild, MergedRow, i
    <3>2. CASE ~(p.kids = << >> /\ s[i].kids = << >>)
      <4>1. q = [s EXCEPT ![i] = [key |-> s[i].key,
                                  attrs |-> CopyAttributes(s[i].attrs, p.attrs),
                                  kids |-> f[s[i].kids, p.kids]]]
        BY <1>3, <3>2 DEF MergeChild, i
      <4>2. m = [key |-> r.key, attrs |-> CopyAttributes(r.attrs, p.attrs),
                 kids |-> f[r.kids, p.kids]]
        BY <2>3, <2>4, <3>2 DEF MergedRow
      <4>. QED BY <2>3, <4>1, <4>2
    <3>. QED BY <3>1, <3>2
  <2>. HIDE DEF q
  <2>6. /\ q \in Siblings(RowOver(R))
        /\ \A k : HasRow(q, k) <=> HasRow(s, k)
        /\ RowOf(q, m.key) = m
        /\ \A k : HasRow(s, k) /\ k # m.key => RowOf(q, k) = RowOf(s, k)
    <3>1. m.key = s[i].key
      BY <2>4
    <3>2. m \in RowOver(R)
      BY <2>4
    <3>3. /\ q \in Seq(RowOver(R)) /\ Len(q) = Len(s) /\ q[i] = m
          /\ \A j \in 1..Len(s) : j # i => q[j] = s[j]
      BY <1>1, <2>1, <2>5, <3>2
    <3>. QED BY <2>1, <3>1, <3>2, <3>3, ChildReplaced
  <2>7. m = MergedRow(RowOf(s, p.key), p, f) /\ m.key = p.key
    BY <2>1, <2>2, <2>3, <2>4
  <2>. QED BY <2>2, <2>6, <2>7 DEF q, MergedOne
<1>. QED BY <1>2, <1>3

(* The children q are those of b under the first n of p.                    *)
MergedUp(q, b, p, n, f) ==
  /\ \A k : HasRow(q, k) <=> HasRow(b, k) \/ \E i \in 1..n : p[i].key = k
  /\ \A k : HasRow(b, k) /\ (\A i \in 1..n : p[i].key # k) => RowOf(q, k) = RowOf(b, k)
  /\ \A i \in 1..n :
       RowOf(q, p[i].key) = IF HasRow(b, p[i].key)
                              THEN MergedRow(RowOf(b, p[i].key), p[i], f) ELSE p[i]
  /\ n = 0 => q = b
  /\ b = << >> => Len(q) = n /\ \A i \in 1..n : q[i] = p[i]

(* One child more.                                                          *)
LEMMA MergeOneMore ==
  ASSUME NEW R, NEW f \in [Siblings(R) \X Siblings(R) -> Siblings(R)],
         NEW b \in Siblings(RowOver(R)), NEW p \in Siblings(RowOver(R)),
         NEW n \in 1..Len(p), NEW q \in Siblings(RowOver(R)), MergedUp(q, b, p, n - 1, f)
  PROVE  LET r == MergeChild(q, p[n], f) IN
         r \in Siblings(RowOver(R)) /\ MergedUp(r, b, p, n, f)
<1>. DEFINE r == MergeChild(q, p[n], f)
            k0 == p[n].key
<1>1. /\ Len(p) \in Nat /\ p[n] \in RowOver(R)
      /\ \A i, j \in 1..Len(p) : p[i].key = p[j].key => i = j
      /\ q \in Seq(RowOver(R)) /\ Len(q) \in Nat
  BY SiblingsAre
<1>2. /\ r \in Siblings(RowOver(R))
      /\ \A k : HasRow(r, k) <=> HasRow(q, k) \/ k = k0
      /\ RowOf(r, k0) = IF HasRow(q, k0) THEN MergedRow(RowOf(q, k0), p[n], f) ELSE p[n]
      /\ \A k : HasRow(q, k) /\ k # k0 => RowOf(r, k) = RowOf(q, k)
      /\ ~HasRow(q, k0) => r = Append(q, p[n])
  <2>1. p[n] \in RowOver(R)
    BY <1>1
  <2>2. r \in Siblings(RowOver(R)) /\ MergedOne(r, q, p[n], f)
    <3>1. MergeChild(q, p[n], f) \in Siblings(RowOver(R))
      BY <2>1, MergeChildGood
    <3>2. MergedOne(MergeChild(q, p[n], f), q, p[n], f)
      BY <2>1, MergeChildGood
    <3>. QED BY <3>1, <3>2
  <2>. HIDE DEF r
  <2>. QED BY <2>2 DEF MergedOne
<1>. HIDE DEF r
<1>3. /\ \A i \in 1..n : i \in 1..(n - 1) \/ i = n
      /\ \A i \in 1..(n - 1) : i \in 1..n /\ i # n /\ i \in 1..Len(p)
      /\ n \in 1..n
  BY <1>1
<1>4. \A i \in 1..(n - 1) : p[i].key # k0
  BY <1>1, <1>3
<1>5. /\ \A k : HasRow(q, k) <=> HasRow(b, k) \/ \E i \in 1..(n - 1) : p[i].key = k
      /\ \A k : HasRow(b, k) /\ (\A i \in 1..(n - 1) : p[i].key # k) => RowOf(q, k) = RowOf(b, k)
      /\ \A i \in 1..(n - 1) :
           RowOf(q, p[i].key) = IF HasRow(b, p[i].key)
                                  THEN MergedRow(RowOf(b, p[i].key), p[i], f) ELSE p[i]
      /\ b = << >> => Len(q) = n - 1 /\ \A i \in 1..(n - 1) : q[i] = p[i]
  BY DEF MergedUp
<1>6. HasRow(q, k0) <=> HasRow(b, k0)
  BY <1>4, <1>5
<1>7. \A k : HasRow(r, k) <=> HasRow(b, k) \/ \E i \in 1..n : p[i].key = k
  BY <1>2, <1>3, <1>5
<1>8. ASSUME NEW k, HasRow(b, k), \A i \in 1..n : p[i].key # k
      PROVE  RowOf(r, k) = RowOf(b, k)
  <2>1. k # k0 /\ \A i \in 1..(n - 1) : p[i].key # k
    BY <1>3, <1>8
  <2>2. HasRow(q, k) /\ RowOf(q, k) = RowOf(b, k)
    BY <1>5, <1>8, <2>1
  <2>. QED BY <1>2, <2>1, <2>2
<1>9. ASSUME NEW i \in 1..n
      PROVE  RowOf(r, p[i].key) = IF HasRow(b, p[i].key)
                                    THEN MergedRow(RowOf(b, p[i].key), p[i], f) ELSE p[i]
  <2>1. CASE i = n
    <3>1. HasRow(b, k0) => RowOf(q, k0) = RowOf(b, k0)
      BY <1>4, <1>5
    <3>. QED BY <1>2, <1>6, <2>1, <3>1
  <2>2. CASE i # n
    <3>1. i \in 1..(n - 1)
      BY <1>3, <2>2
    <3>2. HasRow(q, p[i].key)
      BY <1>5, <3>1
    <3>3. RowOf(r, p[i].key) = RowOf(q, p[i].key)
      BY <1>2, <1>4, <3>1, <3>2
    <3>. QED BY <1>5, <3>1, <3>3
  <2>. QED BY <2>1, <2>2
<1>10. ASSUME b = << >> PROVE Len(r) = n /\ \A i \in 1..n : r[i] = p[i]
  <2>1. r = Append(q, p[n]) /\ Len(q) = n - 1
    BY <1>2, <1>5, <1>6, <1>10, NoSiblings
  <2>2. Len(r) = n /\ r[n] = p[n] /\ \A i \in 1..(n - 1) : r[i] = q[i]
    BY <1>1, <2>1
  <2>3. \A i \in 1..(n - 1) : r[i] = p[i]
    BY <1>5, <1>10, <2>2
  <2>. QED BY <1>3, <2>2, <2>3
<1>11. n # 0
  OBVIOUS
<1>12. MergedUp(r, b, p, n, f)
  BY <1>7, <1>8, <1>9, <1>10, <1>11 DEF MergedUp
<1>. QED BY <1>2, <1>12 DEF r

(* A whole patch, child after child.                                        *)
LEMMA MergeAllUp ==
  ASSUME NEW R, NEW f \in [Siblings(R) \X Siblings(R) -> Siblings(R)],
         NEW b \in Siblings(RowOver(R)), NEW p \in Siblings(RowOver(R))
  PROVE  MergeAll(b, p, f) \in Siblings(RowOver(R)) /\ MergedUp(MergeAll(b, p, f), b, p, Len(p), f)
<1>. DEFINE N == Len(p)
            G(n) == {q \in Siblings(RowOver(R)) : MergedUp(q, b, p, n, f)}
            E == [n \in 0..N |-> G(n)]
            step == [x \in Siblings(RowOver(R)) \X (1..N) |-> MergeChild(x[1], p[x[2]], f)]
            after[n \in 0..N] == IF n = 0 THEN b ELSE MergeChild(after[n - 1], p[n], f)
<1>1. N \in Nat /\ b \in Seq(RowOver(R))
  BY SiblingsAre
<1>2. \A n \in 0..N : E[n] = G(n)
  OBVIOUS
<1>3. b \in E[0]
  <2>1. MergedUp(b, b, p, 0, f)
    BY <1>1 DEF MergedUp
  <2>. QED BY <1>1, <1>2, <2>1
<1>4. \A n \in 1..N : \A x \in E[n - 1] :
        step[<<x, n>>] = MergeChild(x, p[n], f) /\ MergeChild(x, p[n], f) \in E[n]
  <2>. SUFFICES ASSUME NEW n \in 1..N, NEW x \in E[n - 1]
                PROVE  step[<<x, n>>] = MergeChild(x, p[n], f) /\ MergeChild(x, p[n], f) \in E[n]
    OBVIOUS
  <2>1. n - 1 \in 0..N /\ n \in 0..N /\ n \in 1..Len(p)
    BY <1>1
  <2>2. x \in Siblings(RowOver(R)) /\ MergedUp(x, b, p, n - 1, f)
    BY <1>2, <2>1
  <2>3. MergeChild(x, p[n], f) \in G(n)
    BY <2>1, <2>2, MergeOneMore
  <2>4. step[<<x, n>>] = MergeChild(x, p[n], f)
    BY <2>2
  <2>. QED BY <1>2, <2>1, <2>3, <2>4
<1>. HIDE DEF step, E, N
<1>5. PICK g : Runs(g, N, E, b, step)
  BY <1>1, <1>3, <1>4, StepsExist
<1>6. g = [n \in 0..N |-> IF n = 0 THEN b ELSE MergeChild(g[n - 1], p[n], f)]
  <2>1. ASSUME NEW n \in 1..N PROVE step[<<g[n - 1], n>>] = MergeChild(g[n - 1], p[n], f)
    <3>1. n - 1 \in 0..N
      BY <1>1
    <3>. QED BY <1>4, <1>5, <3>1 DEF Runs
  <2>. QED BY <1>5, <2>1 DEF Runs
<1>7. after = [n \in 0..N |-> IF n = 0 THEN b ELSE MergeChild(after[n - 1], p[n], f)]
  BY <1>6
<1>. HIDE DEF after
<1>8. after[0] = b /\ \A n \in 1..N : after[n] = MergeChild(after[n - 1], p[n], f)
  BY <1>1, <1>7
<1>9. \A n \in 0..N : after[n] \in E[n]
  <2>1. \A n \in 1..N : after[n - 1] \in E[n - 1] => after[n] \in E[n]
    BY <1>4, <1>8
  <2>. QED BY <1>1, <1>3, <1>8, <2>1, StepsStay
<1>10. MergeAll(b, p, f) = after[N]
  BY DEF MergeAll, after, N
<1>. QED BY <1>1, <1>2, <1>9, <1>10 DEF N

-----------------------------------------------------------------------------
(* Level by level. *)

(* The rows of each height are those over the rows of the height below.     *)
LEMMA RowLevels ==
  RowsUpTo[0] = {} /\ \A h \in 1..MaxHeight : RowsUpTo[h] = RowOver(RowsUpTo[h - 1])
<1>. DEFINE Good(M, g) == g = [h \in 0..M |-> IF h = 0 THEN {} ELSE RowOver(g[h - 1])]
            S == {M \in Nat : \E g : Good(M, g)}
<1>1. 0 \in S
  <2>. DEFINE g == [h \in 0..0 |-> {}]
  <2>1. Good(0, g)
    OBVIOUS
  <2>. QED BY <2>1
<1>2. ASSUME NEW M \in Nat, NEW f, Good(M, f)
      PROVE  \E g : Good(M + 1, g)
  <2>1. \A h \in 0..M : f[h] = IF h = 0 THEN {} ELSE RowOver(f[h - 1])
    BY <1>2, Zenon
  <2>. DEFINE g == [h \in 0..(M + 1) |-> IF h = M + 1 THEN RowOver(f[M]) ELSE f[h]]
  <2>2. /\ \A h \in 0..M : g[h] = f[h]
        /\ g[M + 1] = RowOver(f[M])
        /\ g = [h \in 0..(M + 1) |-> g[h]]
    OBVIOUS
  <2>. HIDE DEF g
  <2>3. ASSUME NEW h \in 0..(M + 1)
        PROVE  g[h] = IF h = 0 THEN {} ELSE RowOver(g[h - 1])
    <3>1. CASE h \in 0..M
      <4>1. h # 0 => h - 1 \in 0..M
        BY <3>1
      <4>2. g[h] = f[h] /\ (h # 0 => g[h - 1] = f[h - 1])
        BY <2>2, <3>1, <4>1
      <4>3. f[h] = IF h = 0 THEN {} ELSE RowOver(f[h - 1])
        BY <2>1, <3>1, Zenon
      <4>. QED BY <4>2, <4>3, Zenon
    <3>2. CASE h = M + 1
      <4>1. h - 1 = M /\ h # 0 /\ M \in 0..M
        BY <3>2
      <4>2. g[h - 1] = f[M]
        BY <2>2, <4>1
      <4>. QED BY <2>2, <3>2, <4>1, <4>2
    <3>. QED BY <3>1, <3>2
  <2>4. Good(M + 1, g)
    BY <2>2, <2>3, Zenon
  <2>. QED BY <2>4
<1>3. \A M \in S \cap Nat : M + 1 \in S
  BY <1>2
<1>4. MaxHeight \in S
  <2>. HIDE DEF S
  <2>. QED BY <1>1, <1>3, Induction, MergeAssumption
<1>5. \E g : g = [h \in 0..MaxHeight |-> IF h = 0 THEN {} ELSE RowOver(g[h - 1])]
  BY <1>4
<1>6. RowsUpTo = [h \in 0..MaxHeight |-> IF h = 0 THEN {} ELSE RowOver(RowsUpTo[h - 1])]
  BY <1>5 DEF RowsUpTo
<1>7. 0 \in 0..MaxHeight /\ \A h \in 1..MaxHeight : h \in 0..MaxHeight /\ h # 0
  BY MergeAssumption
<1>. QED BY <1>6, <1>7

(* Of no rows there is one list of children, the empty one.                 *)
LEMMA KidsLevels ==
  /\ Kids(0) = {<< >>}
  /\ \A h \in 0..MaxHeight : << >> \in Kids(h)
  /\ \A h \in 1..MaxHeight : Kids(h) = Siblings(RowOver(RowsUpTo[h - 1]))
<1>1. Kids(0) = {<< >>}
  <2>1. \A s \in Seq({}) : s = << >>
    OBVIOUS
  <2>2. \A s \in Siblings({}) : s = << >>
    BY <2>1 DEF Siblings
  <2>3. << >> \in Siblings({})
    BY NoSiblings
  <2>. QED BY <2>2, <2>3, RowLevels DEF Kids
<1>. QED BY <1>1, RowLevels, NoSiblings DEF Kids

(* Merging trees of some height gives one.                                  *)
LEMMA MergeLevels ==
  /\ \A h \in 0..MaxHeight : MergeUpTo[h] \in [Kids(h) \X Kids(h) -> Kids(h)]
  /\ MergeUpTo[0][<< >>, << >>] = << >>
  /\ \A h \in 1..MaxHeight : \A b, p \in Kids(h) :
       MergeUpTo[h][b, p] = MergeAll(b, p, MergeUpTo[h - 1])
<1>. DEFINE N == MaxHeight
            Both(h) == Kids(h) \X Kids(h)
            E == [h \in 0..N |-> [Both(h) -> Kids(h)]]
            Over(h, f) == [x \in Both(h) |-> IF h = 0 THEN << >> ELSE MergeAll(x[1], x[2], f)]
            Fs == UNION {[Both(h) -> Kids(h)] : h \in 0..N}
            step == [x \in Fs \X (1..N) |-> Over(x[2], x[1])]
            base == Over(0, << >>)
<1>1. N \in Nat
  BY MergeAssumption
<1>2. \A h \in 0..N : E[h] = [Both(h) -> Kids(h)]
  OBVIOUS
<1>3. base \in E[0] /\ base[<< >>, << >>] = << >>
  <2>1. base = [x \in Both(0) |-> << >>]
    OBVIOUS
  <2>2. 0 \in 0..N /\ << >> \in Kids(0) /\ <<<< >>, << >>>> \in Both(0)
    BY <1>1, KidsLevels
  <2>. HIDE DEF base, Both
  <2>. QED BY <1>2, <2>1, <2>2
<1>4. ASSUME NEW h \in 1..N, NEW f \in E[h - 1]
      PROVE  /\ Over(h, f) \in E[h] /\ step[<<f, h>>] = Over(h, f)
             /\ Over(h, f) = [x \in Both(h) |-> MergeAll(x[1], x[2], f)]
  <2>1. h - 1 \in 0..N /\ h \in 0..N /\ h # 0
    BY <1>1
  <2>. DEFINE R == RowsUpTo[h - 1]
  <2>2. Kids(h - 1) = Siblings(R) /\ Kids(h) = Siblings(RowOver(R))
    BY KidsLevels DEF Kids
  <2>3. f \in [Siblings(R) \X Siblings(R) -> Siblings(R)]
    BY <1>2, <2>1, <2>2
  <2>. HIDE DEF R
  <2>4. \A b, p \in Siblings(RowOver(R)) : MergeAll(b, p, f) \in Siblings(RowOver(R))
    BY <2>3, MergeAllUp
  <2>5. Over(h, f) = [x \in Both(h) |-> MergeAll(x[1], x[2], f)]
    BY <2>1
  <2>6. \A x \in Both(h) : MergeAll(x[1], x[2], f) \in Kids(h)
    BY <2>2, <2>4
  <2>7. Over(h, f) \in E[h]
    <3>. HIDE DEF Over, Both
    <3>. QED BY <1>2, <2>1, <2>5, <2>6
  <2>8. f \in Fs
    <3>. HIDE DEF Both
    <3>. QED BY <1>2, <2>1
  <2>9. step[<<f, h>>] = Over(h, f)
    <3>. HIDE DEF Over, Fs
    <3>. QED BY <2>8
  <2>. QED BY <2>5, <2>7, <2>9
<1>. HIDE DEF step, E, Over, Fs, Both, base
<1>5. \A h \in 1..N : \A f \in E[h - 1] : step[<<f, h>>] \in E[h]
  BY <1>4
<1>6. PICK g : Runs(g, N, E, base, step)
  BY <1>1, <1>3, <1>5, StepsExist
<1>7. g = [h \in 0..N |-> [x \in Both(h) |-> IF h = 0 THEN << >> ELSE MergeAll(x[1], x[2], g[h - 1])]]
  <2>1. \A h \in 0..N : g[h] = Over(h, g[h - 1])
    <3>. SUFFICES ASSUME NEW h \in 0..N PROVE g[h] = Over(h, g[h - 1])
      OBVIOUS
    <3>1. CASE h = 0
      <4>1. g[h] = base
        BY <1>6, <3>1 DEF Runs
      <4>2. \A f : Over(0, f) = base
        BY DEF Over, base
      <4>. QED BY <3>1, <4>1, <4>2
    <3>2. CASE h # 0
      <4>1. h \in 1..N /\ h - 1 \in 0..N
        BY <1>1, <3>2
      <4>2. g[h] = step[<<g[h - 1], h>>] /\ g[h - 1] \in E[h - 1]
        BY <1>6, <4>1 DEF Runs
      <4>. QED BY <1>4, <4>1, <4>2
    <3>. QED BY <3>1, <3>2
  <2>2. g = [h \in 0..N |-> g[h]]
    BY <1>6 DEF Runs
  <2>. QED BY <2>1, <2>2 DEF Over
<1>8. MergeUpTo = [h \in 0..N |-> [x \in Both(h) |-> IF h = 0 THEN << >>
                                     ELSE MergeAll(x[1], x[2], MergeUpTo[h - 1])]]
  BY <1>7 DEF MergeUpTo, Both
<1>9. \A h \in 0..N : MergeUpTo[h] = Over(h, MergeUpTo[h - 1])
  BY <1>8, Zenon DEF Over
<1>10. MergeUpTo[0] = base
  <2>1. 0 \in 0..N /\ \A f : Over(0, f) = base
    BY <1>1 DEF Over, base
  <2>. QED BY <1>9, <2>1
<1>11. \A h \in 0..N : MergeUpTo[h] \in E[h]
  <2>1. \A h \in 1..N : MergeUpTo[h - 1] \in E[h - 1] => MergeUpTo[h] \in E[h]
    <3>1. \A h \in 1..N : h \in 0..N
      BY <1>1
    <3>. QED BY <1>4, <1>9, <3>1
  <2>2. MergeUpTo[0] \in E[0]
    BY <1>3, <1>10
  <2>. QED BY <1>1, <2>1, <2>2, StepsStay
<1>12. ASSUME NEW h \in 1..N, NEW b \in Kids(h), NEW p \in Kids(h)
       PROVE  MergeUpTo[h][b, p] = MergeAll(b, p, MergeUpTo[h - 1])
  <2>1. h \in 0..N /\ h - 1 \in 0..N
    BY <1>1
  <2>2. MergeUpTo[h] = [x \in Both(h) |-> MergeAll(x[1], x[2], MergeUpTo[h - 1])]
    <3>1. PICK f \in E[h - 1] : f = MergeUpTo[h - 1]
      BY <1>11, <2>1
    <3>2. Over(h, f) = [x \in Both(h) |-> MergeAll(x[1], x[2], f)]
      BY <1>4
    <3>3. MergeUpTo[h] = Over(h, MergeUpTo[h - 1])
      BY <1>9, <2>1
    <3>4. Over(h, MergeUpTo[h - 1]) = Over(h, f)
      BY <3>1
    <3>. QED BY <3>1, <3>2, <3>3, <3>4
  <2>3. <<b, p>> \in Both(h)
    BY DEF Both
  <2>. QED BY <2>2, <2>3
<1>. QED BY <1>2, <1>3, <1>10, <1>11, <1>12 DEF Both

(* Merged with no children, children stay what they are.                    *)
LEMMA MergeEmpty ==
  ASSUME NEW h \in 0..MaxHeight, NEW s \in Kids(h)
  PROVE  MergeUpTo[h][s, << >>] = s /\ MergeUpTo[h][<< >>, s] = s
<1>1. CASE h = 0
  BY <1>1, KidsLevels, MergeLevels
<1>2. CASE h # 0
  <2>. DEFINE R == RowsUpTo[h - 1]
              f == MergeUpTo[h - 1]
  <2>1. h \in 1..MaxHeight /\ h - 1 \in 0..MaxHeight
    BY <1>2, MergeAssumption
  <2>2. << >> \in Kids(h) /\ Kids(h) = Siblings(RowOver(R))
    BY <2>1, KidsLevels
  <2>3. f \in [Siblings(R) \X Siblings(R) -> Siblings(R)]
    BY <2>1, MergeLevels DEF Kids
  <2>4. /\ MergeUpTo[h][s, << >>] = MergeAll(s, << >>, f)
        /\ MergeUpTo[h][<< >>, s] = MergeAll(<< >>, s, f)
    BY <2>1, <2>2, MergeLevels
  <2>. HIDE DEF f, R
  <2>5. MergeAll(s, << >>, f) = s
    <3>1. MergedUp(MergeAll(s, << >>, f), s, << >>, Len(<< >>), f)
      BY <2>2, <2>3, MergeAllUp
    <3>. QED BY <3>1 DEF MergedUp
  <2>6. MergeAll(<< >>, s, f) = s
    <3>1. /\ MergeAll(<< >>, s, f) \in Siblings(RowOver(R))
          /\ MergedUp(MergeAll(<< >>, s, f), << >>, s, Len(s), f)
      BY <2>2, <2>3, MergeAllUp
    <3>. DEFINE q == MergeAll(<< >>, s, f)
    <3>2. q \in Seq(RowOver(R)) /\ s \in Seq(RowOver(R))
      BY <2>2, <3>1, SiblingsAre
    <3>3. Len(q) = Len(s) /\ \A i \in 1..Len(s) : q[i] = s[i]
      BY <3>1 DEF MergedUp
    <3>. HIDE DEF q
    <3>4. q = s
      BY <3>2, <3>3
    <3>. QED BY <3>4 DEF q
  <2>. QED BY <2>4, <2>5, <2>6
<1>. QED BY <1>1, <1>2

(* The rows of the children m are those of b and p; where both have one,    *)
(* the merged row.                                                          *)
RowsOfBoth(m, b, p, f) ==
  /\ \A k : HasRow(m, k) <=> HasRow(b, k) \/ HasRow(p, k)
  /\ \A k : HasRow(b, k) /\ ~HasRow(p, k) => RowOf(m, k) = RowOf(b, k)
  /\ \A k : HasRow(p, k) /\ ~HasRow(b, k) => RowOf(m, k) = RowOf(p, k)
  /\ \A k : HasRow(b, k) /\ HasRow(p, k) =>
       RowOf(m, k) = MergedRow(RowOf(b, k), RowOf(p, k), f)

(* One level of a merge is that.                                            *)
LEMMA OneLevel ==
  ASSUME NEW h \in 1..MaxHeight, NEW b \in Kids(h), NEW p \in Kids(h)
  PROVE  /\ MergeUpTo[h][b, p] \in Kids(h)
         /\ RowsOfBoth(MergeUpTo[h][b, p], b, p, MergeUpTo[h - 1])
<1>. DEFINE R == RowsUpTo[h - 1]
            f == MergeUpTo[h - 1]
            m == MergeUpTo[h][b, p]
<1>1. h \in 0..MaxHeight /\ h - 1 \in 0..MaxHeight
  BY MergeAssumption
<1>2. Kids(h) = Siblings(RowOver(R))
  BY KidsLevels
<1>3. f \in [Siblings(R) \X Siblings(R) -> Siblings(R)]
  BY <1>1, MergeLevels DEF Kids
<1>4. m = MergeAll(b, p, f)
  BY MergeLevels
<1>. HIDE DEF f, R, m
<1>5. m \in Kids(h) /\ MergedUp(m, b, p, Len(p), f)
  <2>1. MergeAll(b, p, f) \in Siblings(RowOver(R))
    BY <1>2, <1>3, MergeAllUp
  <2>2. MergedUp(MergeAll(b, p, f), b, p, Len(p), f)
    BY <1>2, <1>3, MergeAllUp
  <2>. QED BY <1>2, <1>4, <2>1, <2>2
<1>6. /\ \A k : HasRow(m, k) <=> HasRow(b, k) \/ \E i \in 1..Len(p) : p[i].key = k
      /\ \A k : HasRow(b, k) /\ (\A i \in 1..Len(p) : p[i].key # k) => RowOf(m, k) = RowOf(b, k)
      /\ \A i \in 1..Len(p) :
           RowOf(m, p[i].key) = IF HasRow(b, p[i].key)
                                  THEN MergedRow(RowOf(b, p[i].key), p[i], f) ELSE p[i]
  BY <1>5 DEF MergedUp
<1>7. /\ \A i \in 1..Len(p) : HasRow(p, p[i].key) /\ RowOf(p, p[i].key) = p[i]
      /\ \A k : HasRow(p, k) => \E i \in 1..Len(p) : p[i].key = k /\ RowOf(p, k) = p[i]
  BY <1>2, RowFound
<1>8. \A k : HasRow(m, k) <=> HasRow(b, k) \/ HasRow(p, k)
  BY <1>6, <1>7
<1>9. \A k : HasRow(b, k) /\ ~HasRow(p, k) => RowOf(m, k) = RowOf(b, k)
  BY <1>6, <1>7
<1>10. \A k : HasRow(p, k) /\ ~HasRow(b, k) => RowOf(m, k) = RowOf(p, k)
  BY <1>6, <1>7
<1>11. \A k : HasRow(b, k) /\ HasRow(p, k) =>
         RowOf(m, k) = MergedRow(RowOf(b, k), RowOf(p, k), f)
  BY <1>6, <1>7
<1>. QED BY <1>5, <1>8, <1>9, <1>10, <1>11 DEF m, f, RowsOfBoth

(* A merge has no children only when neither side has any.                  *)
LEMMA MergeNotEmpty ==
  ASSUME NEW h \in 0..MaxHeight, NEW b \in Kids(h), NEW p \in Kids(h)
  PROVE  MergeUpTo[h][b, p] = << >> <=> b = << >> /\ p = << >>
<1>1. CASE h = 0
  BY <1>1, KidsLevels, MergeLevels
<1>2. CASE h # 0
  <2>1. h \in 1..MaxHeight
    BY <1>2, MergeAssumption
  <2>2. PICK m \in Kids(h) : /\ m = MergeUpTo[h][b, p]
                             /\ \A k : HasRow(m, k) <=> HasRow(b, k) \/ HasRow(p, k)
    BY <2>1, OneLevel DEF RowsOfBoth
  <2>3. \A s \in Kids(h) : s # << >> <=> \E k : HasRow(s, k)
    BY SomeSibling DEF Kids
  <2>. QED BY <2>2, <2>3
<1>. QED BY <1>1, <1>2

(* What stands below a key is one level lower.                              *)
LEMMA BelowKids ==
  ASSUME NEW h \in 1..MaxHeight, NEW s \in Kids(h), NEW k
  PROVE  Below(s, k) \in Kids(h - 1)
<1>. DEFINE R == RowsUpTo[h - 1]
<1>1. Kids(h) = Siblings(RowOver(R)) /\ Kids(h - 1) = Siblings(R) /\ << >> \in Kids(h - 1)
  BY KidsLevels, NoSiblings DEF Kids
<1>. HIDE DEF R
<1>2. HasRow(s, k) => RowOf(s, k) \in RowOver(R)
  BY <1>1, RowFound
<1>3. HasRow(s, k) => RowOf(s, k).kids \in Siblings(R)
  BY <1>2 DEF RowOver
<1>. QED BY <1>1, <1>3 DEF Below

(* Below a key of a merge stands the merge of what stands there below.      *)
LEMMA BelowMerge ==
  ASSUME NEW h \in 1..MaxHeight, NEW b \in Kids(h), NEW p \in Kids(h), NEW k
  PROVE  Below(MergeUpTo[h][b, p], k) = MergeUpTo[h - 1][Below(b, k), Below(p, k)]
<1>. DEFINE f == MergeUpTo[h - 1]
            m == MergeUpTo[h][b, p]
<1>1. h - 1 \in 0..MaxHeight
  BY MergeAssumption
<1>2. Below(b, k) \in Kids(h - 1) /\ Below(p, k) \in Kids(h - 1) /\ << >> \in Kids(h - 1)
  BY <1>1, BelowKids, KidsLevels
<1>3. \A s \in Kids(h - 1) : f[s, << >>] = s /\ f[<< >>, s] = s
  BY <1>1, MergeEmpty
<1>4. /\ HasRow(m, k) <=> HasRow(b, k) \/ HasRow(p, k)
      /\ HasRow(b, k) /\ ~HasRow(p, k) => RowOf(m, k) = RowOf(b, k)
      /\ HasRow(p, k) /\ ~HasRow(b, k) => RowOf(m, k) = RowOf(p, k)
      /\ HasRow(b, k) /\ HasRow(p, k) =>
           RowOf(m, k) = MergedRow(RowOf(b, k), RowOf(p, k), f)
  <2>1. RowsOfBoth(m, b, p, f)
    BY OneLevel
  <2>. HIDE DEF f, m
  <2>. QED BY <2>1 DEF RowsOfBoth
<1>. HIDE DEF f, m
<1>5. CASE HasRow(b, k) /\ HasRow(p, k)
  <2>1. /\ Below(b, k) = RowOf(b, k).kids /\ Below(p, k) = RowOf(p, k).kids
        /\ Below(m, k) = MergedRow(RowOf(b, k), RowOf(p, k), f).kids
    BY <1>4, <1>5 DEF Below
  <2>2. MergedRow(RowOf(b, k), RowOf(p, k), f).kids = f[RowOf(b, k).kids, RowOf(p, k).kids]
    <3>1. CASE RowOf(p, k).kids = << >> /\ RowOf(b, k).kids = << >>
      BY <1>2, <1>3, <3>1 DEF MergedRow
    <3>2. CASE ~(RowOf(p, k).kids = << >> /\ RowOf(b, k).kids = << >>)
      BY <3>2 DEF MergedRow
    <3>. QED BY <3>1, <3>2
  <2>. QED BY <2>1, <2>2 DEF f, m
<1>6. CASE HasRow(b, k) /\ ~HasRow(p, k)
  BY <1>2, <1>3, <1>4, <1>6 DEF Below, f, m
<1>7. CASE ~HasRow(b, k) /\ HasRow(p, k)
  BY <1>2, <1>3, <1>4, <1>7 DEF Below, f, m
<1>8. CASE ~HasRow(b, k) /\ ~HasRow(p, k)
  BY <1>2, <1>3, <1>4, <1>8 DEF Below, f, m
<1>. QED BY <1>5, <1>6, <1>7, <1>8

-----------------------------------------------------------------------------
(* Path by path. *)

(* The children met along a path are one level lower after every key.       *)
LEMMA AlongSteps ==
  ASSUME NEW s \in Kids(MaxHeight), NEW path \in Paths
  PROVE  \E w : /\ w[0] = s
                /\ \A n \in 1..Len(path) : w[n] = Below(w[n - 1], path[n])
                /\ \A n \in 0..Len(path) : w[n] \in Kids(MaxHeight - n)
                /\ Along(s, path) = w[Len(path) - 1]
<1>. DEFINE L == Len(path)
            E == [n \in 0..L |-> Kids(MaxHeight - n)]
            All == UNION {Kids(MaxHeight - n) : n \in 0..L}
            step == [x \in All \X (1..L) |-> Below(x[1], path[x[2]])]
            below[n \in 0..L] == IF n = 0 THEN s ELSE Below(below[n - 1], path[n])
<1>1. L \in 1..MaxHeight
  BY DEF Paths
<1>2. \A n \in 0..L : E[n] = Kids(MaxHeight - n)
  OBVIOUS
<1>3. \A n \in 1..L : \A x \in E[n - 1] :
        step[<<x, n>>] = Below(x, path[n]) /\ step[<<x, n>>] \in E[n]
  <2>. SUFFICES ASSUME NEW n \in 1..L, NEW x \in E[n - 1]
                PROVE  step[<<x, n>>] = Below(x, path[n]) /\ step[<<x, n>>] \in E[n]
    OBVIOUS
  <2>1. n - 1 \in 0..L /\ n \in 0..L
    BY <1>1
  <2>2. /\ MaxHeight - (n - 1) \in 1..MaxHeight
        /\ (MaxHeight - (n - 1)) - 1 = MaxHeight - n
    BY <1>1, MergeAssumption
  <2>3. x \in Kids(MaxHeight - (n - 1)) /\ x \in All
    BY <1>2, <2>1
  <2>4. Below(x, path[n]) \in Kids(MaxHeight - n)
    BY <2>2, <2>3, BelowKids
  <2>5. step[<<x, n>>] = Below(x, path[n])
    BY <2>3
  <2>. QED BY <1>2, <2>1, <2>4, <2>5
<1>4. s \in E[0]
  BY <1>1, MergeAssumption
<1>5. L \in Nat
  BY <1>1, MergeAssumption
<1>. HIDE DEF step, E, All
<1>6. PICK g : Runs(g, L, E, s, step)
  BY <1>3, <1>4, <1>5, StepsExist
<1>. HIDE DEF L
<1>7. g = [n \in 0..L |-> IF n = 0 THEN s ELSE Below(g[n - 1], path[n])]
  <2>1. ASSUME NEW n \in 1..L PROVE step[<<g[n - 1], n>>] = Below(g[n - 1], path[n])
    <3>1. n - 1 \in 0..L
      BY <1>5
    <3>. QED BY <1>3, <1>6, <3>1 DEF Runs
  <2>. QED BY <1>5, <1>6, <2>1 DEF Runs
<1>8. below = [n \in 0..L |-> IF n = 0 THEN s ELSE Below(below[n - 1], path[n])]
  BY <1>7
<1>. HIDE DEF below
<1>9. below[0] = s /\ \A n \in 1..L : below[n] = Below(below[n - 1], path[n])
  BY <1>5, <1>8
<1>10. \A n \in 0..L : below[n] \in E[n]
  <2>1. \A n \in 1..L : below[n - 1] \in E[n - 1] => below[n] \in E[n]
    BY <1>3, <1>9
  <2>. QED BY <1>4, <1>5, <1>9, <2>1, StepsStay
<1>11. Along(s, path) = below[L - 1]
  BY DEF Along, below, L
<1>. QED BY <1>2, <1>9, <1>10, <1>11 DEF L

(* Along a path in a merge one meets the merge of what is met on each side. *)
LEMMA AlongMerge ==
  ASSUME NEW b \in Kids(MaxHeight), NEW p \in Kids(MaxHeight), NEW path \in Paths
  PROVE  \E h \in 1..MaxHeight :
           /\ Along(b, path) \in Kids(h) /\ Along(p, path) \in Kids(h)
           /\ Along(MergeUpTo[MaxHeight][b, p], path)
                = MergeUpTo[h][Along(b, path), Along(p, path)]
<1>. DEFINE L == Len(path)
            N == MaxHeight
<1>1. L \in 1..N /\ N \in Nat
  BY MergeAssumption DEF Paths
<1>2. PICK m \in Kids(N) : m = MergeUpTo[N][b, p]
  <2>1. MaxHeight \in 1..MaxHeight
    BY <1>1
  <2>. QED BY <2>1, OneLevel
<1>3. PICK u : /\ u[0] = b
               /\ \A n \in 1..L : u[n] = Below(u[n - 1], path[n])
               /\ \A n \in 0..L : u[n] \in Kids(N - n)
               /\ Along(b, path) = u[L - 1]
  BY AlongSteps
<1>4. PICK v : /\ v[0] = p
               /\ \A n \in 1..L : v[n] = Below(v[n - 1], path[n])
               /\ \A n \in 0..L : v[n] \in Kids(N - n)
               /\ Along(p, path) = v[L - 1]
  BY AlongSteps
<1>5. PICK w : /\ w[0] = m
               /\ \A n \in 1..L : w[n] = Below(w[n - 1], path[n])
               /\ \A n \in 0..L : w[n] \in Kids(N - n)
               /\ Along(m, path) = w[L - 1]
  BY AlongSteps
<1>. DEFINE E == [n \in 0..L |-> {MergeUpTo[N - n][u[n], v[n]]}]
<1>6. \A n \in 0..L : E[n] = {MergeUpTo[N - n][u[n], v[n]]}
  OBVIOUS
<1>. HIDE DEF L, E
<1>7. w[0] \in E[0]
  <2>1. 0 \in 0..L /\ N - 0 = N
    BY <1>1
  <2>2. w[0] = MergeUpTo[N][u[0], v[0]]
    BY <1>2, <1>3, <1>4, <1>5
  <2>. QED BY <1>6, <2>1, <2>2
<1>8. ASSUME NEW n \in 1..L, w[n - 1] \in E[n - 1] PROVE w[n] \in E[n]
  <2>1. n - 1 \in 0..L /\ n \in 0..L
    BY <1>1
  <2>2. N - (n - 1) \in 1..N /\ (N - (n - 1)) - 1 = N - n
    BY <1>1
  <2>3. w[n - 1] = MergeUpTo[N - (n - 1)][u[n - 1], v[n - 1]]
    BY <1>6, <1>8, <2>1
  <2>4. u[n - 1] \in Kids(N - (n - 1)) /\ v[n - 1] \in Kids(N - (n - 1))
    BY <1>3, <1>4, <2>1
  <2>5. Below(w[n - 1], path[n])
          = MergeUpTo[N - n][Below(u[n - 1], path[n]), Below(v[n - 1], path[n])]
    <3>1. PICK h \in 1..MaxHeight : h = N - (n - 1) /\ h - 1 = N - n
      BY <2>2
    <3>2. u[n - 1] \in Kids(h) /\ v[n - 1] \in Kids(h) /\ w[n - 1] = MergeUpTo[h][u[n - 1], v[n - 1]]
      BY <2>3, <2>4, <3>1
    <3>3. Below(MergeUpTo[h][u[n - 1], v[n - 1]], path[n])
            = MergeUpTo[h - 1][Below(u[n - 1], path[n]), Below(v[n - 1], path[n])]
      BY <3>2, BelowMerge
    <3>. QED BY <3>1, <3>2, <3>3
  <2>6. w[n] = MergeUpTo[N - n][u[n], v[n]]
    BY <1>3, <1>4, <1>5, <2>5
  <2>. QED BY <1>6, <2>1, <2>6
<1>9. \A n \in 0..L : w[n] \in E[n]
  <2>1. L \in Nat
    BY <1>1
  <2>. QED BY <1>7, <1>8, <2>1, StepsStay
<1>10. L - 1 \in 0..L /\ N - (L - 1) \in 1..N
  BY <1>1
<1>11. w[L - 1] = MergeUpTo[N - (L - 1)][u[L - 1], v[L - 1]]
  BY <1>6, <1>9, <1>10
<1>. QED BY <1>2, <1>3, <1>4, <1>5, <1>10, <1>11

(* What a row of the merge shows.                                           *)
LEMMA MergedRowShows ==
  ASSUME NEW h \in 1..MaxHeight, NEW r \in RowOver(RowsUpTo[h - 1]),
         NEW q \in RowOver(RowsUpTo[h - 1])
  PROVE  LET z == MergedRow(r, q, MergeUpTo[h - 1]) IN
         /\ r.kids = << >> /\ q.kids = << >> => z = q
         /\ ~(r.kids = << >> /\ q.kids = << >>) =>
              z.attrs = CopyAttributes(r.attrs, q.attrs) /\ z.kids # << >>
<1>1. h - 1 \in 0..MaxHeight
  BY MergeAssumption
<1>2. r.kids \in Kids(h - 1) /\ q.kids \in Kids(h - 1)
  BY DEF RowOver, Kids
<1>3. MergeUpTo[h - 1][r.kids, q.kids] = << >> <=> r.kids = << >> /\ q.kids = << >>
  BY <1>1, <1>2, MergeNotEmpty
<1>. QED BY <1>3 DEF MergedRow

(* Rows, path by path.                                                      *)
LEMMA RowsAre ==
  ASSUME NEW s
  PROVE  /\ Rows(s) = [path \in DOMAIN Rows(s) |-> Rows(s)[path]]
         /\ DOMAIN Rows(s) = {path \in Paths : HasRow(Along(s, path), path[Len(path)])}
         /\ \A path \in DOMAIN Rows(s) :
              Rows(s)[path] = [attrs |-> RowOf(Along(s, path), path[Len(path)]).attrs,
                               leaf |-> RowOf(Along(s, path), path[Len(path)]).kids = << >>]
BY DEF Rows

(* The rows of a merge are those of the game under those of the patch.      *)
LEMMA RowsMerged ==
  ASSUME NEW b \in Kids(MaxHeight), NEW p \in Kids(MaxHeight)
  PROVE  Rows(MergeUpTo[MaxHeight][b, p]) = Override(Rows(b), Rows(p))
<1>. DEFINE m == MergeUpTo[MaxHeight][b, p]
            B == Rows(b)
            P == Rows(p)
            M == Rows(m)
            O == Override(B, P)
            last(path) == path[Len(path)]
<1>1. DOMAIN O = DOMAIN B \cup DOMAIN P /\ O = [path \in DOMAIN O |-> O[path]]
  BY DEF Override
<1>2. /\ DOMAIN B = {path \in Paths : HasRow(Along(b, path), last(path))}
      /\ DOMAIN P = {path \in Paths : HasRow(Along(p, path), last(path))}
      /\ DOMAIN M = {path \in Paths : HasRow(Along(m, path), last(path))}
      /\ M = [path \in DOMAIN M |-> M[path]]
  BY RowsAre
<1>3. ASSUME NEW path \in Paths
      PROVE  /\ path \in DOMAIN M <=> path \in DOMAIN B \cup DOMAIN P
             /\ path \in DOMAIN M => M[path] = O[path]
  <2>. DEFINE k == last(path)
  <2>1. PICK h \in 1..MaxHeight :
          /\ Along(b, path) \in Kids(h) /\ Along(p, path) \in Kids(h)
          /\ Along(m, path) = MergeUpTo[h][Along(b, path), Along(p, path)]
    BY AlongMerge
  <2>2. PICK s \in Kids(h) : s = Along(b, path)
    BY <2>1
  <2>3. PICK t \in Kids(h) : t = Along(p, path)
    BY <2>1
  <2>4. PICK q : q = Along(m, path)
    OBVIOUS
  <2>5. RowsOfBoth(q, s, t, MergeUpTo[h - 1])
    BY <2>1, <2>2, <2>3, <2>4, OneLevel
  <2>. DEFINE R == RowOver(RowsUpTo[h - 1])
  <2>6. Kids(h) = Siblings(R)
    BY KidsLevels
  <2>. HIDE DEF R, k
  <2>7. (HasRow(s, k) => RowOf(s, k) \in R) /\ (HasRow(t, k) => RowOf(t, k) \in R)
    BY <2>6, RowFound
  <2>8. /\ path \in DOMAIN B <=> HasRow(s, k)
        /\ path \in DOMAIN P <=> HasRow(t, k)
        /\ path \in DOMAIN M <=> HasRow(q, k)
    BY <1>2, <2>2, <2>3, <2>4 DEF k
  <2>9. /\ HasRow(s, k) => B[path] = [attrs |-> RowOf(s, k).attrs, leaf |-> RowOf(s, k).kids = << >>]
        /\ HasRow(t, k) => P[path] = [attrs |-> RowOf(t, k).attrs, leaf |-> RowOf(t, k).kids = << >>]
        /\ HasRow(q, k) => M[path] = [attrs |-> RowOf(q, k).attrs, leaf |-> RowOf(q, k).kids = << >>]
    BY <2>2, <2>3, <2>4, <2>8, RowsAre DEF k
  <2>10. path \in DOMAIN M <=> path \in DOMAIN B \cup DOMAIN P
    BY <2>5, <2>8 DEF RowsOfBoth
  <2>. HIDE DEF B, P, M
  <2>11. path \in DOMAIN B \cup DOMAIN P =>
           O[path] = IF path \notin DOMAIN P THEN B[path]
                     ELSE IF path \notin DOMAIN B THEN P[path]
                     ELSE IF B[path].leaf /\ P[path].leaf THEN P[path]
                     ELSE [attrs |-> CopyAttributes(B[path].attrs, P[path].attrs), leaf |-> FALSE]
    BY DEF Override, CopyAttributes
  <2>. HIDE DEF O
  <2>12. CASE HasRow(s, k) /\ ~HasRow(t, k)
    <3>1. RowOf(q, k) = RowOf(s, k) /\ HasRow(q, k)
      BY <2>5, <2>12 DEF RowsOfBoth
    <3>. QED BY <2>8, <2>9, <2>10, <2>11, <2>12, <3>1
  <2>13. CASE ~HasRow(s, k) /\ HasRow(t, k)
    <3>1. RowOf(q, k) = RowOf(t, k) /\ HasRow(q, k)
      BY <2>5, <2>13 DEF RowsOfBoth
    <3>. QED BY <2>8, <2>9, <2>10, <2>11, <2>13, <3>1
  <2>14. CASE HasRow(s, k) /\ HasRow(t, k)
    <3>1. PICK r \in R : r = RowOf(s, k)
      BY <2>7, <2>14
    <3>2. PICK u \in R : u = RowOf(t, k)
      BY <2>7, <2>14
    <3>3. HasRow(q, k) /\ RowOf(q, k) = MergedRow(r, u, MergeUpTo[h - 1])
      BY <2>5, <2>14, <3>1, <3>2 DEF RowsOfBoth
    <3>4. PICK z : z = MergedRow(r, u, MergeUpTo[h - 1])
      OBVIOUS
    <3>5. /\ r.kids = << >> /\ u.kids = << >> => z = u
          /\ ~(r.kids = << >> /\ u.kids = << >>) =>
               z.attrs = CopyAttributes(r.attrs, u.attrs) /\ z.kids # << >>
      BY <3>1, <3>2, <3>4, MergedRowShows DEF R
    <3>6. /\ B[path] = [attrs |-> r.attrs, leaf |-> r.kids = << >>]
          /\ P[path] = [attrs |-> u.attrs, leaf |-> u.kids = << >>]
          /\ M[path] = [attrs |-> z.attrs, leaf |-> z.kids = << >>]
      BY <2>9, <2>14, <3>1, <3>2, <3>3, <3>4
    <3>7. O[path] = IF r.kids = << >> /\ u.kids = << >> THEN P[path]
                    ELSE [attrs |-> CopyAttributes(r.attrs, u.attrs), leaf |-> FALSE]
      <4>1. B[path].leaf = (r.kids = << >>) /\ P[path].leaf = (u.kids = << >>)
        BY <3>6
      <4>2. (B[path].leaf /\ P[path].leaf) <=> (r.kids = << >> /\ u.kids = << >>)
        BY <4>1, Zenon
      <4>3. B[path].attrs = r.attrs /\ P[path].attrs = u.attrs
        BY <3>6
      <4>4. path \in DOMAIN B /\ path \in DOMAIN P
        BY <2>8, <2>14
      <4>5. O[path] = IF B[path].leaf /\ P[path].leaf THEN P[path]
                      ELSE [attrs |-> CopyAttributes(B[path].attrs, P[path].attrs), leaf |-> FALSE]
        BY <2>11, <4>4, Zenon
      <4>. QED BY <4>2, <4>3, <4>5, Zenon
    <3>8. CASE r.kids = << >> /\ u.kids = << >>
      BY <2>8, <2>10, <3>3, <3>5, <3>6, <3>7, <3>8
    <3>9. CASE ~(r.kids = << >> /\ u.kids = << >>)
      <4>1. z.attrs = CopyAttributes(r.attrs, u.attrs) /\ (z.kids = << >>) = FALSE
        BY <3>5, <3>9
      <4>2. M[path] = [attrs |-> CopyAttributes(r.attrs, u.attrs), leaf |-> FALSE]
        BY <3>6, <4>1
      <4>3. O[path] = [attrs |-> CopyAttributes(r.attrs, u.attrs), leaf |-> FALSE]
        BY <3>7, <3>9
      <4>. QED BY <2>10, <4>2, <4>3
    <3>. QED BY <3>8, <3>9
  <2>15. CASE ~HasRow(s, k) /\ ~HasRow(t, k)
    BY <2>8, <2>10, <2>15
  <2>. QED BY <2>12, <2>13, <2>14, <2>15
<1>. HIDE DEF M, O, B, P
<1>4. DOMAIN M = DOMAIN B \cup DOMAIN P
  BY <1>2, <1>3
<1>5. \A path \in DOMAIN M : M[path] = O[path]
  BY <1>2, <1>3
<1>6. M = O
  BY <1>1, <1>2, <1>4, <1>5
<1>. QED BY <1>6 DEF M, O, B, P

(* What the clone may be, and the listing with the place in it.             *)
ClonesRight ==
  /\ config \in Kids(MaxHeight)
  /\ listing \in Seq(Patches) /\ at \in 0..Len(listing)
  /\ merged = << >> \/ \E t \in Kids(MaxHeight) : merged = <<t>>

(* The layers of a listing, one file after the other.                       *)
LEMMA LayersAre ==
  ASSUME ClonesRight
  PROVE  /\ Layers[0] = Rows(config)
         /\ \A n \in 1..Len(listing) :
              Layers[n] = IF listing[n] = Unreadable THEN Layers[n - 1]
                          ELSE Override(Layers[n - 1], Rows(listing[n]))
<1>. DEFINE N == Len(listing)
            E == [n \in 0..N |-> Kids(MaxHeight)]
            Then(t, n) == IF listing[n] = Unreadable THEN t ELSE MergeChildren(t, listing[n])
            step == [x \in Kids(MaxHeight) \X (1..N) |-> Then(x[1], x[2])]
<1>1. /\ N \in Nat /\ MaxHeight \in 0..MaxHeight
      /\ \A n \in 1..N : listing[n] \in Patches
  BY MergeAssumption DEF ClonesRight
<1>2. \A n \in 1..N : listing[n] # Unreadable => listing[n] \in Kids(MaxHeight)
  BY <1>1, MergeAssumption
<1>3. \A n \in 0..N : E[n] = Kids(MaxHeight)
  OBVIOUS
<1>4. ASSUME NEW n \in 1..N, NEW t \in E[n - 1]
      PROVE  step[<<t, n>>] = Then(t, n) /\ Then(t, n) \in E[n]
  <2>1. t \in Kids(MaxHeight) /\ E[n] = Kids(MaxHeight)
    <3>1. n \in 0..N /\ n - 1 \in 0..N
      BY <1>1
    <3>. QED BY <1>3, <3>1
  <2>2. Then(t, n) \in Kids(MaxHeight)
    <3>1. CASE listing[n] = Unreadable
      BY <2>1, <3>1
    <3>2. CASE listing[n] # Unreadable
      <4>1. listing[n] \in Kids(MaxHeight)
        BY <1>2, <3>2
      <4>2. MergeUpTo[MaxHeight] \in [Kids(MaxHeight) \X Kids(MaxHeight) -> Kids(MaxHeight)]
        BY <1>1, MergeLevels
      <4>3. MergeChildren(t, listing[n]) \in Kids(MaxHeight)
        BY <2>1, <4>1, <4>2 DEF MergeChildren
      <4>. QED BY <3>2, <4>3
    <3>. QED BY <3>1, <3>2
  <2>3. step[<<t, n>>] = Then(t, n)
    <3>. HIDE DEF Then
    <3>. QED BY <2>1
  <2>. QED BY <2>1, <2>2, <2>3
<1>5. config \in E[0]
  BY <1>1 DEF ClonesRight
<1>. HIDE DEF step, E, Then
<1>6. PICK g : Runs(g, N, E, config, step)
  <2>1. \A n \in 1..N : \A t \in E[n - 1] : step[<<t, n>>] \in E[n]
    BY <1>4
  <2>. QED BY <1>1, <1>5, <2>1, StepsExist
<1>7. /\ g[0] = config /\ \A n \in 0..N : g[n] \in Kids(MaxHeight)
      /\ \A n \in 1..N : g[n] = Then(g[n - 1], n)
  <2>1. \A n \in 0..N : g[n] \in Kids(MaxHeight)
    BY <1>3, <1>6 DEF Runs
  <2>2. g[0] = config
    BY <1>1, <1>6 DEF Runs
  <2>3. ASSUME NEW n \in 1..N PROVE g[n] = Then(g[n - 1], n)
    <3>1. n - 1 \in 0..N /\ n \in 0..N /\ n # 0
      BY <1>1
    <3>2. g[n] = step[<<g[n - 1], n>>] /\ g[n - 1] \in E[n - 1]
      BY <1>6, <3>1 DEF Runs
    <3>. QED BY <1>4, <3>2
  <2>. QED BY <2>1, <2>2, <2>3
<1>. DEFINE under[n \in 0..N] ==
              IF n = 0 THEN Rows(config)
              ELSE IF listing[n] = Unreadable THEN under[n - 1]
              ELSE Override(under[n - 1], Rows(listing[n]))
            rows == [n \in 0..N |-> Rows(g[n])]
<1>8. rows[0] = Rows(config) /\ \A n \in 0..N : rows[n] = Rows(g[n])
  BY <1>1, <1>7
<1>9. ASSUME NEW n \in 1..N
      PROVE  rows[n] = IF listing[n] = Unreadable THEN rows[n - 1]
                       ELSE Override(rows[n - 1], Rows(listing[n]))
  <2>1. n - 1 \in 0..N /\ n \in 0..N
    BY <1>1
  <2>2. rows[n] = Rows(g[n]) /\ rows[n - 1] = Rows(g[n - 1])
    BY <1>8, <2>1
  <2>. HIDE DEF rows
  <2>3. CASE listing[n] = Unreadable
    BY <1>7, <2>2, <2>3 DEF Then
  <2>4. CASE listing[n] # Unreadable
    <3>1. g[n - 1] \in Kids(MaxHeight) /\ listing[n] \in Kids(MaxHeight)
      BY <1>2, <1>7, <2>1, <2>4
    <3>2. g[n] = MergeUpTo[MaxHeight][g[n - 1], listing[n]]
      BY <1>7, <2>4 DEF Then, MergeChildren
    <3>3. Rows(g[n]) = Override(Rows(g[n - 1]), Rows(listing[n]))
      BY <3>1, <3>2, RowsMerged
    <3>. QED BY <2>2, <2>4, <3>3
  <2>. QED BY <2>3, <2>4
<1>10. rows = [n \in 0..N |-> rows[n]]
  OBVIOUS
<1>. HIDE DEF rows, N
<1>11. rows = [n \in 0..N |-> IF n = 0 THEN Rows(config)
                              ELSE IF listing[n] = Unreadable THEN rows[n - 1]
                              ELSE Override(rows[n - 1], Rows(listing[n]))]
  <2>1. ASSUME NEW n \in 0..N
        PROVE  rows[n] = IF n = 0 THEN Rows(config)
                         ELSE IF listing[n] = Unreadable THEN rows[n - 1]
                         ELSE Override(rows[n - 1], Rows(listing[n]))
    <3>1. n = 0 \/ n \in 1..N
      BY <1>1
    <3>2. \A i \in 1..N : i # 0
      BY <1>1
    <3>. QED BY <1>8, <1>9, <3>1, <3>2
  <2>. QED BY <1>10, <2>1
<1>12. under = [n \in 0..N |-> IF n = 0 THEN Rows(config)
                              ELSE IF listing[n] = Unreadable THEN under[n - 1]
                              ELSE Override(under[n - 1], Rows(listing[n]))]
  BY <1>11
<1>. HIDE DEF under
<1>13. /\ under[0] = Rows(config)
       /\ \A n \in 1..N : under[n] = IF listing[n] = Unreadable THEN under[n - 1]
                                     ELSE Override(under[n - 1], Rows(listing[n]))
  <2>1. 0 \in 0..N /\ \A n \in 1..N : n \in 0..N /\ n # 0
    BY <1>1
  <2>. QED BY <1>12, <2>1
<1>14. Layers = under
  BY DEF Layers, under, N
<1>. QED BY <1>13, <1>14 DEF N

(* Whatever the game's trees, the patches and their order, after every file *)
(* the clone holds the game's rows under those of the files so far.         *)
THEOREM PatchesOverride == MergeSpec => []MergeIsOverride
<1>. DEFINE Inv == ClonesRight /\ MergeIsOverride
<1>1. MergeInit => Inv
  <2>. SUFFICES ASSUME MergeInit PROVE Inv
    OBVIOUS
  <2>1. PICK n \in 0..MaxFiles : listing \in [1..n -> Patches]
    BY DEF MergeInit
  <2>2. listing \in Seq(Patches) /\ at \in 0..Len(listing)
    BY <2>1 DEF MergeInit
  <2>. QED BY <2>2, MergeAssumption DEF MergeInit, ClonesRight, MergeIsOverride
<1>2. Inv /\ [MergeNext]_mergeVars => Inv'
  <2>. SUFFICES ASSUME ClonesRight, MergeIsOverride, [MergeNext]_mergeVars
                PROVE  ClonesRight' /\ MergeIsOverride'
    OBVIOUS
  <2>1. CASE FindFirst
    <3>1. ClonesRight'
      BY <2>1 DEF FindFirst, ClonesRight
    <3>2. merged'[1] = config /\ Layers' = Layers /\ at' = 0
      BY <2>1 DEF FindFirst, Layers
    <3>3. Rows(config) = Layers[0]
      BY LayersAre
    <3>4. Rows(merged[1])' = Layers'[at']
      BY <3>2, <3>3 DEF Rows, Along
    <3>. QED BY <3>1, <3>4 DEF MergeIsOverride
  <2>2. CASE Patch
    <3>. DEFINE n == at + 1
    <3>1. /\ merged # << >> /\ n \in 1..Len(listing) /\ at' = n /\ n - 1 = at
          /\ config' = config /\ listing' = listing
      BY <2>2 DEF Patch, ClonesRight
    <3>2. PICK t \in Kids(MaxHeight) : merged = <<t>>
      BY <3>1 DEF ClonesRight
    <3>3. Rows(t) = Layers[n - 1]
      BY <3>1, <3>2 DEF MergeIsOverride
    <3>4. Layers' = Layers
      BY <3>1 DEF Layers
    <3>5. Layers[n] = IF listing[n] = Unreadable THEN Layers[n - 1]
                      ELSE Override(Layers[n - 1], Rows(listing[n]))
      BY <3>1, LayersAre
    <3>6. CASE listing[n] = Unreadable
      <4>1. merged' = <<t>>
        BY <2>2, <3>2, <3>6 DEF Patch
      <4>2. ClonesRight'
        BY <3>1, <4>1 DEF ClonesRight
      <4>3. Rows(merged[1])' = Layers'[at']
        BY <3>1, <3>3, <3>4, <3>5, <3>6, <4>1
      <4>. QED BY <4>2, <4>3 DEF MergeIsOverride
    <3>7. CASE listing[n] # Unreadable
      <4>1. PICK m : m = MergeUpTo[MaxHeight][t, listing[n]]
        OBVIOUS
      <4>2. merged' = <<m>>
        BY <2>2, <3>2, <3>7, <4>1 DEF Patch, MergeChildren
      <4>3. listing[n] \in Kids(MaxHeight)
        BY <3>1, <3>7, MergeAssumption DEF ClonesRight
      <4>4. m \in Kids(MaxHeight)
        <5>1. MaxHeight \in 0..MaxHeight
          BY MergeAssumption
        <5>2. MergeUpTo[MaxHeight] \in [Kids(MaxHeight) \X Kids(MaxHeight) -> Kids(MaxHeight)]
          BY <5>1, MergeLevels
        <5>. QED BY <4>1, <4>3, <5>2
      <4>5. Rows(m) = Override(Rows(t), Rows(listing[n]))
        BY <4>1, <4>3, RowsMerged
      <4>6. ClonesRight'
        BY <3>1, <4>2, <4>4 DEF ClonesRight
      <4>7. Rows(merged[1])' = Layers'[at']
        BY <3>1, <3>3, <3>4, <3>5, <3>7, <4>2, <4>5
      <4>. QED BY <4>6, <4>7 DEF MergeIsOverride
    <3>. QED BY <3>6, <3>7
  <2>3. CASE Swap
    BY <2>3 DEF Swap, ClonesRight, MergeIsOverride
  <2>4. CASE CloneFails
    <3>1. << >> \in Seq(Patches) /\ Len(<< >>) = 0
      OBVIOUS
    <3>. QED BY <2>4, <3>1 DEF CloneFails, ClonesRight, MergeIsOverride
  <2>5. CASE UNCHANGED mergeVars
    <3>1. config' = config /\ merged' = merged /\ listing' = listing /\ at' = at
      BY <2>5 DEF mergeVars
    <3>2. Layers' = Layers
      BY <3>1 DEF Layers
    <3>. QED BY <3>1, <3>2 DEF ClonesRight, MergeIsOverride
  <2>. QED BY <2>1, <2>2, <2>3, <2>4, <2>5 DEF MergeNext
<1>3. Inv => MergeIsOverride
  OBVIOUS
<1>. QED BY <1>1, <1>2, <1>3, PTL DEF MergeSpec

-----------------------------------------------------------------------------
(* BrewKitchen: what the table looks like at every operation of a plan. *)

(* What plans are made of.                                                  *)
PlanOps ==
  {DoVerb(v) : v \in {"PourBase", "UseMortar", "UsePot", "Distill"}}
  \cup {Op(k) : k \in {"SetPotOnFire", "TakePotOffFire", "EnsureHoldPot"}}
  \cup {TakeIngredient(id) : id \in Herbs}
  \cup {Boil(b, t) : b \in BOOLEAN, t \in Int}

(* How a stage was boiled, and where it ends.                               *)
Boilings == [end : Nat, w : Int, s : Int, swap : BOOLEAN]
PrepLen(row) == 2 * row.qty + IF row.milled THEN 2 ELSE 0
BoilLen(w, s) ==
  IF w <= 0 /\ s <= 0 THEN 0 ELSE IF w > 0 /\ s > 0 THEN 4 ELSE 3

(* The plan p has this stage, and this finish, from behind place a.         *)
StageOps(p, a, row, b) ==
  /\ a + PrepLen(row) + BoilLen(b.w, b.s) <= Len(p)
  /\ \A u \in 0..row.qty - 1 :
       /\ p[a + 2 * u + 1] = TakeIngredient(row.id)
       /\ p[a + 2 * u + 2] = DoVerb(IF row.milled THEN "UseMortar" ELSE "UsePot")
  /\ row.milled => /\ p[a + 2 * row.qty + 1] = DoVerb("UseMortar")
                   /\ p[a + 2 * row.qty + 2] = DoVerb("UsePot")
  /\ b.w > 0 \/ b.s > 0 => /\ p[a + PrepLen(row) + 1] = Op("SetPotOnFire")
                           /\ p[a + PrepLen(row) + BoilLen(b.w, b.s)] = Op("TakePotOffFire")
  /\ b.w > 0 => p[a + PrepLen(row) + 2] = Boil(b.swap, b.w)
  /\ b.s > 0 => p[a + PrepLen(row) + IF b.w > 0 THEN 3 ELSE 2] = Boil(~b.swap, b.s)
FinishOps(p, a, distill, resultMilled) ==
  IF resultMilled THEN p[a + 1] = DoVerb("UseMortar") /\ Len(p) = a + 1
  ELSE /\ p[a + 1] = Op("EnsureHoldPot") /\ Len(p) = a + 2
       /\ p[a + 2] = DoVerb(IF distill THEN "Distill" ELSE "UsePot")

(* The plan p pours the base and puts in n of the rows sl, boiled as c says. *)
Staged(p, sl, c, n) ==
  /\ c \in [0..n -> Boilings] /\ c[0].end = 1
  /\ p[1] = DoVerb("PourBase")
  /\ \A i \in 1..n :
       /\ c[i].end = c[i - 1].end + PrepLen(sl[i]) + BoilLen(c[i].w, c[i].s)
       /\ StageOps(p, c[i - 1].end, sl[i], c[i])
AsTold(c, n, weaks, strongs) ==
  \A i \in 1..n : c[i].w = Window(weaks, i) /\ c[i].s = Window(strongs, i) /\ ~c[i].swap

(* What the rows ask for.                                                   *)
Weakly(rows) == [i \in DOMAIN rows |-> rows[i].weak]
Strongly(rows) == [i \in DOMAIN rows |-> rows[i].strong]
EffWeak(sl, i) == Inherited(Weakly(sl), i)
EffStrong(sl, i) == Inherited(Strongly(sl), i)

(* The plan puts in the rows sl, boils the stages as c says, and finishes   *)
(* another way than the recipe's if skip.                                   *)
Laid(sl, c, skip) ==
  /\ recipe \in Recipes /\ Schedulable(Sorted(recipe.rows))
  /\ ~(recipe.distill /\ recipe.resultMilled)
  /\ sl \in Seq(ParsedRows) /\ Len(sl) = Len(recipe.rows)
  /\ \A i \in 1..Len(sl) : sl[i].id = Sorted(recipe.rows)[i].id
  /\ \A i \in 1..Len(sl) : sl[i].qty <= Sorted(recipe.rows)[i].qty + 1
  /\ skip \in BOOLEAN /\ Len(plan) \in Nat /\ DOMAIN plan = 1..Len(plan)
  /\ Staged(plan, sl, c, Len(sl))
  /\ FinishOps(plan, c[Len(sl)].end, recipe.distill /\ ~skip, recipe.resultMilled /\ ~skip)
  /\ mode = "off" => sl = Sorted(recipe.rows) /\ ~skip
                     /\ AsTold(c, Len(sl), Weakly(sl), Strongly(sl))

(* The first i rows are in the pot; what is still to come boils ew and es   *)
(* turns.                                                                   *)
PotRows == [units : Nat, milled : BOOLEAN, weak : Int, strong : Int]
IdsTo(sl, i) == {sl[j].id : j \in 1..i}
Boiled(sl, i, ew, es) ==
  \A j \in 1..i :
    LET in == pot[sl[j].id] IN
    /\ in.units = sl[j].qty /\ in.milled = sl[j].milled
    /\ mode = "off" => in.weak = EffWeak(sl, j) - ew /\ in.strong = EffStrong(sl, j) - es
InThePot(sl, i, ew, es) == pot \in [IdsTo(sl, i) -> PotRows] /\ Boiled(sl, i, ew, es)

Cooking == based /\ finish = Nothing
Tidy == Cooking /\ hand = Nothing /\ DOMAIN mortar = {}

(* u units of row i are in the mortar, or in the pot.                       *)
Preparing(sl, i, u) ==
  /\ Cooking /\ ~fire
  /\ Boiled(sl, i - 1, EffWeak(sl, i), EffStrong(sl, i))
  /\ IF u > 0 /\ ~sl[i].milled
       THEN pot \in [IdsTo(sl, i) -> PotRows] /\ pot[sl[i].id] = InPot(u, FALSE)
       ELSE pot \in [IdsTo(sl, i - 1) -> PotRows]
  /\ IF u > 0 /\ sl[i].milled
       THEN DOMAIN mortar = {sl[i].id} /\ mortar[sl[i].id] = u
       ELSE DOMAIN mortar = {}

AtBase ==
  /\ cursor = 1 /\ hand = Nothing /\ mortar = << >> /\ pot = << >>
  /\ ~based /\ ~fire /\ finish = Nothing
AtTake(sl, c, i, u) ==
  /\ u \in 0..sl[i].qty - 1 /\ cursor = c[i - 1].end + 2 * u + 1
  /\ hand = Nothing /\ Preparing(sl, i, u)
AtPut(sl, c, i, u) ==
  /\ u \in 0..sl[i].qty - 1 /\ cursor = c[i - 1].end + 2 * u + 2
  /\ hand = sl[i].id /\ Preparing(sl, i, u)
AtGrind(sl, c, i) ==
  /\ sl[i].milled /\ cursor = c[i - 1].end + 2 * sl[i].qty + 1
  /\ hand = Nothing /\ Preparing(sl, i, sl[i].qty)
AtDump(sl, c, i) ==
  /\ sl[i].milled /\ cursor = c[i - 1].end + 2 * sl[i].qty + 2
  /\ hand = "ground" /\ Preparing(sl, i, sl[i].qty)
AtFire(sl, c, i) ==
  /\ c[i].w > 0 \/ c[i].s > 0
  /\ cursor = c[i - 1].end + PrepLen(sl[i]) + 1
  /\ Tidy /\ ~fire /\ InThePot(sl, i, EffWeak(sl, i), EffStrong(sl, i))
AtWeak(sl, c, i) ==
  /\ c[i].w > 0 /\ cursor = c[i - 1].end + PrepLen(sl[i]) + 2
  /\ Tidy /\ fire /\ InThePot(sl, i, EffWeak(sl, i), EffStrong(sl, i))
AtStrong(sl, c, i) ==
  /\ c[i].s > 0
  /\ cursor = c[i - 1].end + PrepLen(sl[i]) + IF c[i].w > 0 THEN 3 ELSE 2
  /\ Tidy /\ fire /\ InThePot(sl, i, EffWeak(sl, i + 1), EffStrong(sl, i))
AtLift(sl, c, i) ==
  /\ c[i].w > 0 \/ c[i].s > 0
  /\ cursor = c[i].end
  /\ Tidy /\ fire /\ InThePot(sl, i, EffWeak(sl, i + 1), EffStrong(sl, i + 1))
AtFinish(sl, c) ==
  /\ cursor = c[Len(sl)].end + 1
  /\ Tidy /\ ~fire /\ InThePot(sl, Len(sl), 0, 0)
AtPour(sl, c, skip) ==
  /\ cursor = c[Len(sl)].end + 2 /\ ~(recipe.resultMilled /\ ~skip)
  /\ Cooking /\ hand = "pot" /\ DOMAIN mortar = {} /\ ~fire
  /\ InThePot(sl, Len(sl), 0, 0)
AtVerdict(sl, skip) ==
  /\ cursor = Len(plan) + 1 /\ InThePot(sl, Len(sl), 0, 0)
  /\ finish = IF recipe.distill /\ ~skip THEN "distilled"
              ELSE IF recipe.resultMilled /\ ~skip THEN "milled" ELSE "phial"

Brewing(sl, c, skip) ==
  \/ AtBase
  \/ \E i \in 1..Len(sl) :
       \/ \E u \in Nat : AtTake(sl, c, i, u) \/ AtPut(sl, c, i, u)
       \/ AtGrind(sl, c, i) \/ AtDump(sl, c, i)
       \/ AtFire(sl, c, i) \/ AtWeak(sl, c, i) \/ AtStrong(sl, c, i) \/ AtLift(sl, c, i)
  \/ AtFinish(sl, c) \/ AtPour(sl, c, skip) \/ AtVerdict(sl, skip)

KitchenInv ==
  \/ /\ plan = Refused /\ finish = Nothing
     /\ recipe \in Recipes
     /\ ~Schedulable(Sorted(recipe.rows)) \/ (recipe.distill /\ recipe.resultMilled)
  \/ \E sl, c, skip : Laid(sl, c, skip) /\ Brewing(sl, c, skip)

-----------------------------------------------------------------------------
(* BrewPlan: the order of the rows. *)

(* ParsedRows as BuildPlan compares them: a row comes before another or not after *)
(* it by a strict order, and rows that do not differ stay in place.         *)
LEMMA RowsCompare ==
  ASSUME NEW a \in ParsedRows, NEW b \in ParsedRows, NEW d \in ParsedRows
  PROVE  /\ ~(Before(a, b) /\ Before(b, a))
         /\ Before(a, b) /\ ~Before(d, b) => Before(a, d)
         /\ ~Before(a, b) /\ ~Before(b, d) => ~Before(a, d)
<1>1. /\ a.weak \in Int /\ a.strong \in Int /\ b.weak \in Int /\ b.strong \in Int
      /\ d.weak \in Int /\ d.strong \in Int
  BY DEF ParsedRows
<1>. QED BY <1>1 DEF Before

(* No two rows are put in one place, and every place is taken.              *)
LEMMA SortPlaces ==
  ASSUME NEW rows \in Seq(ParsedRows)
  PROVE  /\ \A i \in 1..Len(rows) : Place(rows, i) \in 1..Len(rows)
         /\ \A i, j \in 1..Len(rows) :
              Place(rows, i) < Place(rows, j) => ~Before(rows[j], rows[i])
         /\ \A i, j \in 1..Len(rows) : Place(rows, i) = Place(rows, j) => i = j
         /\ \A k \in 1..Len(rows) : \E i \in 1..Len(rows) : Place(rows, i) = k
<1>. DEFINE D == 1..Len(rows)
            Le(j, i) == Before(rows[j], rows[i]) \/ (~Before(rows[i], rows[j]) /\ j <= i)
            Down(i) == {j \in D : Le(j, i)}
<1>1. Len(rows) \in Nat /\ DOMAIN rows = D /\ \A i \in D : rows[i] \in ParsedRows
  OBVIOUS
<1>2. IsFiniteSet(D) /\ Cardinality(D) = Len(rows)
  <2>1. 1 \in Int /\ Len(rows) \in Int
    BY <1>1
  <2>2. IsFiniteSet(D) /\ Cardinality(D) = IF 1 > Len(rows) THEN 0 ELSE Len(rows) - 1 + 1
    BY <2>1, FS_Interval
  <2>. QED BY <1>1, <2>2
<1>3. ASSUME NEW i \in D, NEW j \in D, NEW k \in D
      PROVE  /\ Le(i, i) /\ (Le(i, j) \/ Le(j, i))
             /\ Le(i, j) /\ Le(j, i) => i = j
             /\ Le(i, j) /\ Le(j, k) => Le(i, k)
  <2>1. i \in Int /\ j \in Int /\ k \in Int
    BY <1>1
  <2>2. rows[i] \in ParsedRows /\ rows[j] \in ParsedRows /\ rows[k] \in ParsedRows
    BY <1>1
  <2>3. Le(i, i) /\ (Le(i, j) \/ Le(j, i)) /\ (Le(i, j) /\ Le(j, i) => i = j)
    BY <2>1, <2>2, RowsCompare
  <2>4. Le(i, j) /\ Le(j, k) => Le(i, k)
    <3>1. Before(rows[i], rows[j]) /\ Before(rows[j], rows[k]) => Before(rows[i], rows[k])
      BY <2>2, RowsCompare
    <3>2. Before(rows[i], rows[j]) /\ ~Before(rows[k], rows[j]) => Before(rows[i], rows[k])
      BY <2>2, RowsCompare
    <3>3. Before(rows[j], rows[k]) /\ ~Before(rows[j], rows[i]) => Before(rows[i], rows[k])
      <4>1. rows[i].weak \in Int /\ rows[i].strong \in Int /\ rows[j].weak \in Int
            /\ rows[j].strong \in Int /\ rows[k].weak \in Int /\ rows[k].strong \in Int
        BY <2>2 DEF ParsedRows
      <4>. QED BY <4>1 DEF Before
    <3>4. ~Before(rows[k], rows[j]) /\ ~Before(rows[j], rows[i]) => ~Before(rows[k], rows[i])
      BY <2>2, RowsCompare
    <3>. QED BY <2>1, <3>1, <3>2, <3>3, <3>4
  <2>. QED BY <2>3, <2>4
<1>4. ASSUME NEW i \in D
      PROVE  /\ Place(rows, i) = Cardinality(Down(i)) /\ IsFiniteSet(Down(i))
             /\ Down(i) \subseteq D /\ i \in Down(i) /\ Place(rows, i) \in D
  <2>1. Place(rows, i) = Cardinality(Down(i))
    BY <1>1 DEF Place
  <2>2. Down(i) \in SUBSET D /\ i \in Down(i)
    BY <1>3
  <2>. HIDE DEF Down
  <2>3. IsFiniteSet(Down(i)) /\ Cardinality(Down(i)) <= Len(rows)
    BY <1>2, <2>2, FS_Subset
  <2>4. Cardinality(Down(i)) \in Nat
    BY <2>3, FS_CardinalityType
  <2>5. Cardinality(Down(i)) # 0
    BY <2>2, <2>3, FS_EmptySet
  <2>. QED BY <1>1, <2>1, <2>2, <2>3, <2>4, <2>5
<1>5. ASSUME NEW i \in D, NEW j \in D, Le(i, j), i # j
      PROVE  Place(rows, i) < Place(rows, j)
  <2>1. Down(i) \subseteq Down(j) /\ j \notin Down(i)
    BY <1>3, <1>5
  <2>2. j \in Down(j) /\ IsFiniteSet(Down(j))
    BY <1>4
  <2>3. Place(rows, i) = Cardinality(Down(i)) /\ Place(rows, j) = Cardinality(Down(j))
    BY <1>4
  <2>4. Place(rows, i) \in D /\ Place(rows, j) \in D
    BY <1>4
  <2>. HIDE DEF Down
  <2>5. Cardinality(Down(i)) <= Cardinality(Down(j))
    BY <2>1, <2>2, FS_Subset
  <2>6. Cardinality(Down(i)) # Cardinality(Down(j))
    BY <2>1, <2>2, FS_Subset
  <2>. QED BY <1>1, <2>3, <2>4, <2>5, <2>6
<1>6. \A i, j \in D : Place(rows, i) = Place(rows, j) => i = j
  <2>. SUFFICES ASSUME NEW i \in D, NEW j \in D, Place(rows, i) = Place(rows, j), i # j
                PROVE  FALSE
    OBVIOUS
  <2>1. Le(i, j) \/ Le(j, i)
    BY <1>3
  <2>2. Place(rows, i) \in D
    BY <1>4
  <2>3. Place(rows, i) < Place(rows, j) \/ Place(rows, j) < Place(rows, i)
    BY <1>5, <2>1
  <2>. QED BY <2>2, <2>3
<1>7. \A i, j \in D : Place(rows, i) < Place(rows, j) => ~Before(rows[j], rows[i])
  <2>. SUFFICES ASSUME NEW i \in D, NEW j \in D, Place(rows, i) < Place(rows, j),
                       Before(rows[j], rows[i])
                PROVE  FALSE
    OBVIOUS
  <2>1. Le(j, i)
    OBVIOUS
  <2>2. Place(rows, i) \in D /\ Place(rows, j) \in D
    BY <1>4
  <2>3. i # j
    BY <2>2
  <2>4. Place(rows, j) < Place(rows, i)
    BY <1>5, <2>1, <2>3
  <2>. QED BY <2>2, <2>4
<1>8. \A k \in D : \E i \in D : Place(rows, i) = k
  <2>. DEFINE f == [i \in D |-> Place(rows, i)]
  <2>1. f \in Injection(D, D)
    BY <1>4, <1>6 DEF Injection, IsInjective
  <2>2. f \in Surjection(D, D)
    BY <1>2, <2>1, FS_Injection
  <2>. QED BY <2>2 DEF Surjection
<1>. QED BY <1>4, <1>6, <1>7, <1>8

(* Sorted lists the same rows, none before one it should follow.            *)
LEMMA SortedRows ==
  ASSUME NEW rows \in Seq(ParsedRows)
  PROVE  LET s == Sorted(rows) IN
         /\ s \in Seq(ParsedRows) /\ Len(s) = Len(rows) /\ DOMAIN s = 1..Len(rows)
         /\ s \in [1..Len(rows) -> ParsedRows]
         /\ \A k \in 1..Len(rows) : \E i \in 1..Len(rows) : s[k] = rows[i]
         /\ \A i \in 1..Len(rows) : \E k \in 1..Len(rows) : s[k] = rows[i]
         /\ \A k, l \in 1..Len(rows) : k < l => ~Before(s[l], s[k])
         /\ (\A i, j \in 1..Len(rows) : rows[i].id = rows[j].id => i = j)
              => \A k, l \in 1..Len(rows) : s[k].id = s[l].id => k = l
<1>. DEFINE s == Sorted(rows)
            D == 1..Len(rows)
            From(k) == CHOOSE i \in D : Place(rows, i) = k
<1>1. Len(rows) \in Nat /\ DOMAIN rows = D /\ \A i \in D : rows[i] \in ParsedRows
  OBVIOUS
<1>2. \A k \in D : From(k) \in D /\ Place(rows, From(k)) = k
  BY SortPlaces
<1>3. s = [k \in D |-> rows[From(k)]]
  BY <1>1 DEF Sorted
<1>4. \A k \in D : s[k] = rows[From(k)]
  BY <1>3
<1>5. \A i \in D : Place(rows, i) \in D /\ From(Place(rows, i)) = i
  BY <1>2, SortPlaces
<1>. HIDE DEF s, From
<1>6. s \in [D -> ParsedRows]
  BY <1>1, <1>2, <1>3
<1>7. s \in Seq(ParsedRows) /\ Len(s) = Len(rows) /\ DOMAIN s = D
  BY <1>1, <1>6
<1>8. \A i \in D : \E k \in D : s[k] = rows[i]
  BY <1>4, <1>5
<1>9. \A k, l \in D : k < l => ~Before(s[l], s[k])
  <2>. SUFFICES ASSUME NEW k \in D, NEW l \in D, k < l
                PROVE  ~Before(rows[From(l)], rows[From(k)])
    BY <1>4
  <2>1. From(k) \in D /\ From(l) \in D /\ Place(rows, From(k)) < Place(rows, From(l))
    BY <1>2
  <2>. QED BY <2>1, SortPlaces
<1>10. ASSUME \A i, j \in D : rows[i].id = rows[j].id => i = j
       PROVE  \A k, l \in D : s[k].id = s[l].id => k = l
  BY <1>2, <1>4, <1>10
<1>. QED BY <1>2, <1>4, <1>6, <1>7, <1>8, <1>9, <1>10 DEF s

(* With conditions for one heat only, the sorted rows can be scheduled.     *)
LEMMA SparePlan ==
  ASSUME NEW r \in Recipes, SpareHeat(r)
  PROVE  Schedulable(Sorted(r.rows))
<1>. DEFINE rows == r.rows
            s == Sorted(rows)
            D == 1..Len(rows)
<1>1. rows \in Seq(ParsedRows) /\ DOMAIN rows = D
  BY DEF Recipes
<1>. HIDE DEF rows
<1>2. /\ DOMAIN s = D /\ s \in [D -> ParsedRows]
      /\ \A k, l \in D : k < l => ~Before(s[l], s[k])
      /\ \A k \in D : \E i \in D : s[k] = rows[i]
  BY <1>1, SortedRows
<1>. HIDE DEF s
<1>3. \A k \in D : s[k].weak \in Nat \cup {-1} /\ s[k].strong \in Nat \cup {-1}
  BY <1>2 DEF ParsedRows
<1>4. \/ \A k \in D : s[k].weak = -1
      \/ \A k \in D : s[k].strong = -1
  <2>1. (\A i \in D : rows[i].weak < 0) \/ (\A i \in D : rows[i].strong < 0)
    BY <1>1 DEF SpareHeat, rows
  <2>2. (\A k \in D : s[k].weak < 0) \/ (\A k \in D : s[k].strong < 0)
    BY <1>2, <2>1
  <2>. QED BY <1>3, <2>2
<1>5. ASSUME NEW i \in D, NEW j \in D, i < j
      PROVE  /\ s[j].weak >= 0 /\ s[i].weak >= 0 => s[i].weak >= s[j].weak
             /\ s[j].strong >= 0 /\ s[i].strong >= 0 => s[i].strong >= s[j].strong
  <2>1. ~Before(s[j], s[i])
    BY <1>2, <1>5
  <2>. QED BY <1>3, <1>4, <2>1 DEF Before
<1>6. Schedulable(s)
  BY <1>2, <1>5 DEF Schedulable
<1>. QED BY <1>6 DEF s, rows

-----------------------------------------------------------------------------
(* The windows. *)

(* What a set of places has first is the only one that is.                  *)
LEMMA FirstPlace ==
  ASSUME NEW T \in SUBSET Nat, T # {}
  PROVE  LET f == CHOOSE j \in T : \A k \in T : j <= k IN
         f \in T /\ \A k \in T : f <= k
BY Least

(* A row inherits its own target if it has one, otherwise what the next     *)
(* inherits; behind the last there is nothing.                              *)
LEMMA Inherits ==
  ASSUME NEW n \in Nat, NEW t \in [1..n -> Nat \cup {-1}], NEW i \in 1..n + 1
  PROVE  /\ Inherited(t, i) \in Nat
         /\ i = n + 1 => Inherited(t, i) = 0
         /\ i \in 1..n /\ t[i] >= 0 => Inherited(t, i) = t[i]
         /\ i \in 1..n /\ t[i] < 0 => Inherited(t, i) = Inherited(t, i + 1)
         /\ Inherited(t, i) = 0 \/ \E j \in i..n : t[j] >= 0 /\ Inherited(t, i) = t[j]
<1>. DEFINE later(m) == {j \in 1..n : j >= m /\ t[j] >= 0}
            first(m) == CHOOSE j \in later(m) : \A k \in later(m) : j <= k
<1>1. \A m : Inherited(t, m) = IF later(m) = {} THEN 0 ELSE t[first(m)]
  BY DEF Inherited
<1>2. \A m : later(m) # {} => first(m) \in later(m) /\ \A k \in later(m) : first(m) <= k
  <2>. SUFFICES ASSUME NEW m, later(m) # {}
                PROVE  first(m) \in later(m) /\ \A k \in later(m) : first(m) <= k
    OBVIOUS
  <2>1. later(m) \in SUBSET Nat
    OBVIOUS
  <2>. HIDE DEF later
  <2>. QED BY <2>1, FirstPlace
<1>. HIDE DEF first
<1>3. \A j \in later(i) : j \in i..n /\ t[j] \in Nat
  OBVIOUS
<1>4. Inherited(t, i) = 0 \/ \E j \in i..n : t[j] >= 0 /\ Inherited(t, i) = t[j]
  BY <1>1, <1>2
<1>5. Inherited(t, i) \in Nat
  BY <1>1, <1>2, <1>3
<1>6. i = n + 1 => Inherited(t, i) = 0
  BY <1>1
<1>7. ASSUME i \in 1..n, t[i] >= 0 PROVE Inherited(t, i) = t[i]
  <2>1. i \in later(i)
    BY <1>7
  <2>2. first(i) \in later(i) /\ first(i) <= i
    BY <1>2, <2>1
  <2>3. first(i) = i
    BY <2>2
  <2>. QED BY <1>1, <2>1, <2>3
<1>8. ASSUME i \in 1..n, t[i] < 0 PROVE Inherited(t, i) = Inherited(t, i + 1)
  <2>1. later(i) = later(i + 1)
    <3>1. \A j \in 1..n : j >= i /\ t[j] >= 0 <=> j >= i + 1 /\ t[j] >= 0
      <4>. TAKE j \in 1..n
      <4>1. j = i => ~(t[j] >= 0)
        BY <1>8
      <4>. QED BY <4>1
    <3>. QED BY <3>1
  <2>2. first(i) = first(i + 1)
    BY <2>1 DEF first
  <2>. HIDE DEF later
  <2>. QED BY <1>1, <2>1, <2>2
<1>. QED BY <1>4, <1>5, <1>6, <1>7, <1>8

(* Of targets that do not grow the windows are not negative.                *)
LEMMA Windows ==
  ASSUME NEW n \in Nat, NEW t \in [1..n -> Nat \cup {-1}], NEW i \in 1..n,
         \A k, l \in 1..n : k < l /\ t[k] >= 0 /\ t[l] >= 0 => t[k] >= t[l]
  PROVE  /\ Inherited(t, i) \in Nat /\ Inherited(t, i + 1) \in Nat
         /\ Inherited(t, i) >= Inherited(t, i + 1)
         /\ Window(t, i) = Inherited(t, i) - Inherited(t, i + 1)
<1>1. i \in 1..n + 1 /\ i + 1 \in 1..n + 1
  OBVIOUS
<1>2. /\ Inherited(t, i) \in Nat /\ Inherited(t, i + 1) \in Nat
      /\ t[i] >= 0 => Inherited(t, i) = t[i]
      /\ t[i] < 0 => Inherited(t, i) = Inherited(t, i + 1)
      /\ i + 1 = n + 1 => Inherited(t, i + 1) = 0
      /\ Inherited(t, i + 1) = 0
         \/ \E j \in i + 1..n : t[j] >= 0 /\ Inherited(t, i + 1) = t[j]
  BY <1>1, Inherits
<1>3. Inherited(t, i) >= Inherited(t, i + 1)
  <2>1. CASE t[i] < 0
    BY <1>2, <2>1
  <2>2. CASE t[i] >= 0
    <3>1. CASE Inherited(t, i + 1) = 0
      BY <1>2, <3>1
    <3>2. CASE \E j \in i + 1..n : t[j] >= 0 /\ Inherited(t, i + 1) = t[j]
      <4>1. PICK j \in i + 1..n : t[j] >= 0 /\ Inherited(t, i + 1) = t[j]
        BY <3>2
      <4>2. j \in 1..n /\ i < j
        BY <4>1
      <4>3. t[i] >= t[j]
        BY <2>2, <4>1, <4>2
      <4>. QED BY <1>2, <2>2, <4>1, <4>3
    <3>. QED BY <1>2, <3>1, <3>2
  <2>3. t[i] \in Int
    OBVIOUS
  <2>. QED BY <2>1, <2>2, <2>3
<1>4. Window(t, i) = Inherited(t, i) - Inherited(t, i + 1)
  <2>1. Len(t) = n
    OBVIOUS
  <2>2. CASE i < n
    BY <2>1, <2>2 DEF Window
  <2>3. CASE i = n
    <3>1. Inherited(t, i + 1) = 0
      BY <1>2, <2>3
    <3>2. Window(t, i) = Inherited(t, i) - 0
      BY <2>1, <2>3 DEF Window
    <3>. QED BY <3>1, <3>2
  <2>. QED BY <2>2, <2>3
<1>. QED BY <1>2, <1>3, <1>4

-----------------------------------------------------------------------------
(* The operations of a plan, one by one. *)

(* r is x and y in turn, n times.                                           *)
Alternates(r, x, y, n, S) ==
  /\ r \in Seq(S) /\ Len(r) = 2 * n
  /\ \A u \in 0..n - 1 : r[2 * u + 1] = x /\ r[2 * u + 2] = y

(* Every operation BuildPlan pushes is one of PlanOps.                      *)
LEMMA OpsListed ==
  /\ \A v \in {"PourBase", "UseMortar", "UsePot", "Distill"} : DoVerb(v) \in PlanOps
  /\ \A k \in {"SetPotOnFire", "TakePotOffFire", "EnsureHoldPot"} : Op(k) \in PlanOps
  /\ \A id \in Herbs : TakeIngredient(id) \in PlanOps
  /\ \A b \in BOOLEAN, t \in Int : Boil(b, t) \in PlanOps
BY DEF PlanOps

Joined(r, p, q, S) ==
  /\ r \in Seq(S) /\ Len(r) = Len(p) + Len(q)
  /\ \A k \in 1..Len(p) : r[k] = p[k]
  /\ \A k \in 1..Len(q) : r[Len(p) + k] = q[k]

(* Where the operations of two parts stand in the whole.                    *)
LEMMA Concat ==
  ASSUME NEW S, NEW p \in Seq(S), NEW q \in Seq(S)
  PROVE  Joined(p \o q, p, q, S)
BY DEF Joined

(* A pair of operations, n times over: take, put, take, put, ...            *)
LEMMA RepeatedPair ==
  ASSUME NEW S, NEW x \in S, NEW y \in S, NEW n \in Nat
  PROVE  Alternates(Repeated(<<x, y>>, n), x, y, n, S)
<1>. DEFINE pair == <<x, y>>
            r == Repeated(pair, n)
<1>1. Len(pair) = 2 /\ pair[1] = x /\ pair[2] = y
  OBVIOUS
<1>. HIDE DEF pair
<1>2. n * Len(pair) = 2 * n /\ 2 * n \in Nat
  BY <1>1
<1>3. r = [k \in 1..2 * n |-> pair[((k - 1) % 2) + 1]]
  BY <1>1, <1>2 DEF Repeated
<1>. HIDE DEF r
<1>4. \A k \in 1..2 * n : ((k - 1) % 2) + 1 \in {1, 2}
  OBVIOUS
<1>5. \A k \in 1..2 * n : pair[((k - 1) % 2) + 1] \in S
  BY <1>1, <1>4
<1>6. r \in [1..2 * n -> S]
  BY <1>3, <1>5
<1>7. r \in Seq(S) /\ Len(r) = 2 * n
  BY <1>2, <1>6
<1>8. ASSUME NEW u \in 0..n - 1
      PROVE  r[2 * u + 1] = x /\ r[2 * u + 2] = y
  <2>1. 2 * u + 1 \in 1..2 * n /\ 2 * u + 2 \in 1..2 * n
    OBVIOUS
  <2>2. (((2 * u + 1) - 1) % 2) + 1 = 1 /\ (((2 * u + 2) - 1) % 2) + 1 = 2
    OBVIOUS
  <2>3. /\ r[2 * u + 1] = pair[(((2 * u + 1) - 1) % 2) + 1]
        /\ r[2 * u + 2] = pair[(((2 * u + 2) - 1) % 2) + 1]
    BY <1>3, <2>1
  <2>. QED BY <1>1, <2>2, <2>3
<1>. QED BY <1>7, <1>8 DEF r, pair, Alternates

(* What is done with the row between the stations: its units go one after   *)
(* the other to the mortar or the pot, and what is ground into the pot.     *)
LEMMA PreparationOps ==
  ASSUME NEW row \in ParsedRows
  PROVE  LET p == Preparation(row) IN
         /\ p \in Seq(PlanOps) /\ Len(p) = PrepLen(row) /\ PrepLen(row) \in Nat
         /\ \A u \in 0..row.qty - 1 :
              /\ p[2 * u + 1] = TakeIngredient(row.id)
              /\ p[2 * u + 2] = DoVerb(IF row.milled THEN "UseMortar" ELSE "UsePot")
         /\ row.milled => /\ p[2 * row.qty + 1] = DoVerb("UseMortar")
                          /\ p[2 * row.qty + 2] = DoVerb("UsePot")
<1>. DEFINE take == TakeIngredient(row.id)
            put == DoVerb(IF row.milled THEN "UseMortar" ELSE "UsePot")
            units == Repeated(<<take, put>>, row.qty)
            rest == IF row.milled THEN <<DoVerb("UseMortar"), DoVerb("UsePot")>> ELSE << >>
            n == row.qty
<1>1. n \in Nat /\ row.id \in Herbs /\ row.milled \in BOOLEAN
  BY DEF ParsedRows
<1>2. take \in PlanOps /\ put \in PlanOps
  BY <1>1, OpsListed
<1>3. /\ rest \in Seq(PlanOps) /\ Len(rest) = IF row.milled THEN 2 ELSE 0
      /\ row.milled => rest[1] = DoVerb("UseMortar") /\ rest[2] = DoVerb("UsePot")
  BY OpsListed
<1>4. Preparation(row) = units \o rest
  BY DEF Preparation
<1>. HIDE DEF take, put, rest
<1>5. /\ units \in Seq(PlanOps) /\ Len(units) = 2 * n
      /\ \A u \in 0..n - 1 : units[2 * u + 1] = take /\ units[2 * u + 2] = put
  <2>1. Alternates(units, take, put, n, PlanOps)
    BY <1>1, <1>2, RepeatedPair
  <2>. QED BY <2>1 DEF Alternates
<1>. HIDE DEF units, n
<1>6. Joined(units \o rest, units, rest, PlanOps)
  BY <1>3, <1>5, Concat
<1>. DEFINE p == units \o rest
<1>. HIDE DEF p
<1>7. /\ p \in Seq(PlanOps) /\ Len(p) = 2 * n + Len(rest)
      /\ \A k \in 1..2 * n : p[k] = units[k]
      /\ \A k \in 1..Len(rest) : p[2 * n + k] = rest[k]
  BY <1>5, <1>6 DEF p, Joined
<1>8. ASSUME NEW u \in 0..n - 1
      PROVE  p[2 * u + 1] = take /\ p[2 * u + 2] = put
  <2>1. 2 * u + 1 \in 1..2 * n /\ 2 * u + 2 \in 1..2 * n
    BY <1>1
  <2>. QED BY <1>5, <1>7, <2>1
<1>9. row.milled => p[2 * n + 1] = DoVerb("UseMortar") /\ p[2 * n + 2] = DoVerb("UsePot")
  <2>. SUFFICES ASSUME row.milled
                PROVE  p[2 * n + 1] = DoVerb("UseMortar") /\ p[2 * n + 2] = DoVerb("UsePot")
    OBVIOUS
  <2>1. 1 \in 1..Len(rest) /\ 2 \in 1..Len(rest)
    BY <1>3
  <2>. QED BY <1>3, <1>7, <2>1
<1>10. Len(p) = PrepLen(row) /\ PrepLen(row) \in Nat
  BY <1>1, <1>3, <1>7 DEF PrepLen, n
<1>. QED BY <1>4, <1>7, <1>8, <1>9, <1>10 DEF p, take, put, n

(* The operations of one stage at the fire, by its two windows.             *)
LEMMA BoilingOps ==
  ASSUME NEW w \in Int, NEW s \in Int, NEW swap \in BOOLEAN
  PROVE  LET p == Boiling(w, s, swap) IN
         /\ p \in Seq(PlanOps) /\ Len(p) = BoilLen(w, s) /\ BoilLen(w, s) \in Nat
         /\ w > 0 \/ s > 0 => p[1] = Op("SetPotOnFire") /\ p[Len(p)] = Op("TakePotOffFire")
         /\ w > 0 => p[2] = Boil(swap, w)
         /\ s > 0 => p[IF w > 0 THEN 3 ELSE 2] = Boil(~swap, s)
<1>. DEFINE on == <<Op("SetPotOnFire")>>
            off == <<Op("TakePotOffFire")>>
            bw == IF w > 0 THEN <<Boil(swap, w)>> ELSE << >>
            bs == IF s > 0 THEN <<Boil(~swap, s)>> ELSE << >>
            p == Boiling(w, s, swap)
            q == on \o bw
            r == q \o bs
<1>1. /\ on \in Seq(PlanOps) /\ Len(on) = 1 /\ on[1] = Op("SetPotOnFire")
      /\ off \in Seq(PlanOps) /\ Len(off) = 1 /\ off[1] = Op("TakePotOffFire")
  BY OpsListed
<1>2. /\ bw \in Seq(PlanOps) /\ Len(bw) = IF w > 0 THEN 1 ELSE 0
      /\ w > 0 => bw[1] = Boil(swap, w)
  BY OpsListed
<1>3. /\ bs \in Seq(PlanOps) /\ Len(bs) = IF s > 0 THEN 1 ELSE 0
      /\ s > 0 => bs[1] = Boil(~swap, s)
  <2>. DEFINE b == Boil(~swap, s)
  <2>1. b \in PlanOps
    <3>1. (~swap) = FALSE \/ (~swap) = TRUE
      <4>1. CASE swap = TRUE
        BY <4>1, Zenon
      <4>2. CASE swap = FALSE
        BY <4>2, Zenon
      <4>. QED BY <4>1, <4>2, Zenon
    <3>2. Boil(FALSE, s) \in PlanOps /\ Boil(TRUE, s) \in PlanOps
      BY OpsListed
    <3>3. CASE (~swap) = FALSE
      BY <3>2, <3>3, Zenon
    <3>4. CASE (~swap) = TRUE
      BY <3>2, <3>4, Zenon
    <3>. QED BY <3>1, <3>3, <3>4, Zenon
  <2>. HIDE DEF b
  <2>2. bs = IF s > 0 THEN <<b>> ELSE << >>
    BY DEF b
  <2>. HIDE DEF bs
  <2>3. bs \in Seq(PlanOps) /\ Len(bs) = (IF s > 0 THEN 1 ELSE 0) /\ (s > 0 => bs[1] = b)
    BY <2>1, <2>2
  <2>. QED BY <2>3 DEF b
<1>4. p = IF w <= 0 /\ s <= 0 THEN << >> ELSE r \o off
  BY DEF Boiling
<1>. HIDE DEF on, off, bw, bs, p
<1>5. CASE w <= 0 /\ s <= 0
  <2>1. p = << >> /\ ~(w > 0) /\ ~(s > 0)
    BY <1>4, <1>5
  <2>. QED BY <1>5, <2>1 DEF p, BoilLen
<1>6. CASE w > 0 \/ s > 0
  <2>1. /\ q \in Seq(PlanOps) /\ Len(q) = 1 + Len(bw) /\ q[1] = on[1]
        /\ w > 0 => q[2] = bw[1]
    BY <1>1, <1>2, Concat DEF Joined
  <2>. HIDE DEF q
  <2>2. /\ r \in Seq(PlanOps) /\ Len(r) = Len(q) + Len(bs)
        /\ \A k \in 1..Len(q) : r[k] = q[k]
        /\ s > 0 => r[Len(q) + 1] = bs[1]
    BY <1>3, <2>1, Concat DEF Joined
  <2>. HIDE DEF r
  <2>3. /\ r \o off \in Seq(PlanOps) /\ Len(r \o off) = Len(r) + 1
        /\ \A k \in 1..Len(r) : (r \o off)[k] = r[k]
        /\ (r \o off)[Len(r) + 1] = off[1]
    BY <1>1, <2>2, Concat DEF Joined
  <2>4. p = r \o off
    BY <1>4, <1>6
  <2>5. /\ p \in Seq(PlanOps) /\ Len(p) = Len(r) + 1
        /\ \A k \in 1..Len(r) : p[k] = r[k]
        /\ p[Len(p)] = Op("TakePotOffFire")
    BY <1>1, <2>3, <2>4
  <2>6. Len(q) = (IF w > 0 THEN 2 ELSE 1) /\ Len(r) = Len(q) + IF s > 0 THEN 1 ELSE 0
    BY <1>2, <1>3, <2>1, <2>2
  <2>7. Len(p) = BoilLen(w, s) /\ BoilLen(w, s) \in Nat
    BY <1>6, <2>5, <2>6 DEF BoilLen
  <2>8. p[1] = Op("SetPotOnFire")
    BY <1>1, <2>1, <2>2, <2>5, <2>6
  <2>9. w > 0 => p[2] = Boil(swap, w)
    BY <1>2, <2>1, <2>2, <2>5, <2>6
  <2>10. s > 0 => p[IF w > 0 THEN 3 ELSE 2] = Boil(~swap, s)
    BY <1>3, <2>2, <2>5, <2>6
  <2>. QED BY <2>5, <2>7, <2>8, <2>9, <2>10 DEF p
<1>. QED BY <1>5, <1>6

(* Nothing of a stage changes when more is appended.                        *)
LEMMA StageLonger ==
  ASSUME NEW p, NEW q, NEW a \in Nat, NEW row \in ParsedRows, NEW b \in Boilings,
         Len(p) \in Nat, Len(q) \in Nat, Len(p) <= Len(q),
         \A k \in 1..Len(p) : q[k] = p[k],
         StageOps(p, a, row, b)
  PROVE  StageOps(q, a, row, b)
<1>. DEFINE n == row.qty
            m == PrepLen(row)
            l == BoilLen(b.w, b.s)
            w == b.w
            s == b.s
<1>1. n \in Nat /\ row.milled \in BOOLEAN /\ w \in Int /\ s \in Int
  BY DEF ParsedRows, Boilings
<1>2. /\ m = 2 * n + IF row.milled THEN 2 ELSE 0
      /\ l = IF w <= 0 /\ s <= 0 THEN 0 ELSE IF w > 0 /\ s > 0 THEN 4 ELSE 3
  BY DEF PrepLen, BoilLen
<1>. HIDE DEF n, m, l, w, s
<1>3. /\ a + m + l <= Len(p)
      /\ \A u \in 0..n - 1 :
           /\ p[a + 2 * u + 1] = TakeIngredient(row.id)
           /\ p[a + 2 * u + 2] = DoVerb(IF row.milled THEN "UseMortar" ELSE "UsePot")
      /\ row.milled => /\ p[a + 2 * n + 1] = DoVerb("UseMortar")
                       /\ p[a + 2 * n + 2] = DoVerb("UsePot")
      /\ w > 0 \/ s > 0 => /\ p[a + m + 1] = Op("SetPotOnFire")
                           /\ p[a + m + l] = Op("TakePotOffFire")
      /\ w > 0 => p[a + m + 2] = Boil(b.swap, w)
      /\ s > 0 => p[a + m + IF w > 0 THEN 3 ELSE 2] = Boil(~b.swap, s)
  BY DEF StageOps, n, m, l, w, s
<1>4. a + m + l <= Len(q)
  BY <1>1, <1>2, <1>3
<1>5. ASSUME NEW u \in 0..n - 1
      PROVE  q[a + 2 * u + 1] = p[a + 2 * u + 1] /\ q[a + 2 * u + 2] = p[a + 2 * u + 2]
  <2>1. m \in Nat /\ l \in Nat /\ 2 * n <= m
    BY <1>1, <1>2
  <2>2. a + m + l <= Len(p) /\ u \in Nat /\ u + 1 <= n
    BY <1>1, <1>3
  <2>3. a + 2 * u + 1 \in 1..Len(p) /\ a + 2 * u + 2 \in 1..Len(p)
    BY <1>1, <2>1, <2>2
  <2>. QED BY <2>3
<1>6. ASSUME row.milled
      PROVE  /\ q[a + 2 * n + 1] = p[a + 2 * n + 1]
             /\ q[a + 2 * n + 2] = p[a + 2 * n + 2]
  <2>1. a + 2 * n + 1 \in 1..Len(p) /\ a + 2 * n + 2 \in 1..Len(p)
    BY <1>1, <1>2, <1>3, <1>6
  <2>. QED BY <2>1
<1>7. ASSUME w > 0 \/ s > 0
      PROVE  q[a + m + 1] = p[a + m + 1] /\ q[a + m + l] = p[a + m + l]
  <2>1. a + m + 1 \in 1..Len(p) /\ a + m + l \in 1..Len(p)
    BY <1>1, <1>2, <1>3, <1>7
  <2>. QED BY <2>1
<1>8. ASSUME w > 0 PROVE q[a + m + 2] = p[a + m + 2]
  <2>1. a + m + 2 \in 1..Len(p)
    BY <1>1, <1>2, <1>3, <1>8
  <2>. QED BY <2>1
<1>9. ASSUME s > 0
      PROVE  q[a + m + IF w > 0 THEN 3 ELSE 2] = p[a + m + IF w > 0 THEN 3 ELSE 2]
  <2>1. a + m + (IF w > 0 THEN 3 ELSE 2) \in 1..Len(p)
    BY <1>1, <1>2, <1>3, <1>9
  <2>. QED BY <2>1
<1>10. \A u \in 0..n - 1 :
         /\ q[a + 2 * u + 1] = TakeIngredient(row.id)
         /\ q[a + 2 * u + 2] = DoVerb(IF row.milled THEN "UseMortar" ELSE "UsePot")
  BY <1>3, <1>5
<1>. QED BY <1>3, <1>4, <1>6, <1>7, <1>8, <1>9, <1>10 DEF StageOps, n, m, l, w, s

(* What a stage appends to a plan, operation by operation.                  *)
LEMMA StageAppended ==
  ASSUME NEW p \in Seq(PlanOps), NEW row \in ParsedRows, NEW b \in Boilings
  PROVE  LET st == Preparation(row) \o Boiling(b.w, b.s, b.swap) IN
         /\ p \o st \in Seq(PlanOps)
         /\ Len(p \o st) = Len(p) + PrepLen(row) + BoilLen(b.w, b.s)
         /\ \A k \in 1..Len(p) : (p \o st)[k] = p[k]
         /\ StageOps(p \o st, Len(p), row, b)
<1>. DEFINE prep == Preparation(row)
            boil == Boiling(b.w, b.s, b.swap)
            st == prep \o boil
            q == p \o st
            n == row.qty
            m == PrepLen(row)
            l == BoilLen(b.w, b.s)
            a == Len(p)
<1>1. n \in Nat /\ row.milled \in BOOLEAN /\ b.w \in Int /\ b.s \in Int /\ b.swap \in BOOLEAN
      /\ m = 2 * n + (IF row.milled THEN 2 ELSE 0) /\ m \in Nat /\ a \in Nat
  BY DEF ParsedRows, Boilings, PrepLen
<1>2. /\ prep \in Seq(PlanOps) /\ Len(prep) = m
      /\ \A u \in 0..n - 1 :
           /\ prep[2 * u + 1] = TakeIngredient(row.id)
           /\ prep[2 * u + 2] = DoVerb(IF row.milled THEN "UseMortar" ELSE "UsePot")
      /\ row.milled => /\ prep[2 * n + 1] = DoVerb("UseMortar")
                       /\ prep[2 * n + 2] = DoVerb("UsePot")
  BY PreparationOps
<1>3. /\ boil \in Seq(PlanOps) /\ Len(boil) = l /\ l \in Nat
      /\ b.w > 0 \/ b.s > 0 => boil[1] = Op("SetPotOnFire") /\ boil[l] = Op("TakePotOffFire")
      /\ b.w > 0 => boil[2] = Boil(b.swap, b.w)
      /\ b.s > 0 => boil[IF b.w > 0 THEN 3 ELSE 2] = Boil(~b.swap, b.s)
  BY <1>1, BoilingOps
<1>4. l = IF b.w <= 0 /\ b.s <= 0 THEN 0 ELSE IF b.w > 0 /\ b.s > 0 THEN 4 ELSE 3
  BY DEF BoilLen
<1>. HIDE DEF prep, boil, m, l, n, a
<1>5. /\ st \in Seq(PlanOps) /\ Len(st) = m + l
      /\ \A k \in 1..m : st[k] = prep[k]
      /\ \A k \in 1..l : st[m + k] = boil[k]
  <2>1. Joined(st, prep, boil, PlanOps)
    BY <1>2, <1>3, Concat
  <2>. HIDE DEF st
  <2>. QED BY <1>2, <1>3, <2>1 DEF Joined
<1>. HIDE DEF st
<1>6. /\ q \in Seq(PlanOps) /\ Len(q) = a + Len(st)
      /\ \A k \in 1..a : q[k] = p[k]
      /\ \A k \in 1..Len(st) : q[a + k] = st[k]
  <2>1. Joined(q, p, st, PlanOps)
    BY <1>5, Concat
  <2>. HIDE DEF q
  <2>. QED BY <2>1 DEF Joined, a
<1>. HIDE DEF q
<1>7. /\ \A k \in 1..m : q[a + k] = prep[k]
      /\ \A k \in 1..l : q[a + m + k] = boil[k]
  <2>1. \A k \in 1..m : k \in 1..Len(st)
    BY <1>1, <1>3, <1>5
  <2>2. ASSUME NEW k \in 1..l PROVE q[a + m + k] = boil[k]
    <3>1. m + k \in 1..Len(st) /\ a + (m + k) = a + m + k
      BY <1>1, <1>3, <1>5
    <3>. QED BY <1>5, <1>6, <3>1
  <2>. QED BY <1>5, <1>6, <2>1, <2>2
<1>8. Len(q) = a + m + l
  BY <1>1, <1>3, <1>5, <1>6
<1>9. ASSUME NEW u \in 0..n - 1
      PROVE  /\ q[a + 2 * u + 1] = TakeIngredient(row.id)
             /\ q[a + 2 * u + 2] = DoVerb(IF row.milled THEN "UseMortar" ELSE "UsePot")
  <2>1. 2 * u + 1 \in 1..m /\ 2 * u + 2 \in 1..m
    BY <1>1
  <2>2. a + (2 * u + 1) = a + 2 * u + 1 /\ a + (2 * u + 2) = a + 2 * u + 2
    BY <1>1
  <2>3. q[a + (2 * u + 1)] = prep[2 * u + 1] /\ q[a + (2 * u + 2)] = prep[2 * u + 2]
    BY <1>7, <2>1
  <2>. QED BY <1>2, <2>2, <2>3
<1>10. ASSUME row.milled
       PROVE  /\ q[a + 2 * n + 1] = DoVerb("UseMortar")
              /\ q[a + 2 * n + 2] = DoVerb("UsePot")
  <2>1. 2 * n + 1 \in 1..m /\ 2 * n + 2 \in 1..m
    BY <1>1, <1>10
  <2>2. a + (2 * n + 1) = a + 2 * n + 1 /\ a + (2 * n + 2) = a + 2 * n + 2
    BY <1>1
  <2>3. q[a + (2 * n + 1)] = prep[2 * n + 1] /\ q[a + (2 * n + 2)] = prep[2 * n + 2]
    BY <1>7, <2>1
  <2>. QED BY <1>2, <1>10, <2>2, <2>3
<1>11. b.w > 0 \/ b.s > 0 =>
         /\ q[a + m + 1] = Op("SetPotOnFire") /\ q[a + m + l] = Op("TakePotOffFire")
  BY <1>1, <1>3, <1>4, <1>7
<1>12. b.w > 0 => q[a + m + 2] = Boil(b.swap, b.w)
  BY <1>1, <1>3, <1>4, <1>7
<1>13. b.s > 0 => q[a + m + IF b.w > 0 THEN 3 ELSE 2] = Boil(~b.swap, b.s)
  <2>1. CASE b.w > 0
    BY <1>1, <1>3, <1>4, <1>7, <2>1
  <2>2. CASE ~(b.w > 0)
    BY <1>1, <1>3, <1>4, <1>7, <2>2
  <2>. QED BY <2>1, <2>2
<1>14. StageOps(q, a, row, b)
  <2>1. a + m + l <= Len(q)
    BY <1>1, <1>3, <1>8
  <2>. QED BY <1>9, <1>10, <1>11, <1>12, <1>13, <2>1 DEF StageOps, m, l, n
<1>. QED BY <1>6, <1>8, <1>14 DEF q, st, prep, boil, m, l, a

-----------------------------------------------------------------------------
(* The plans. *)

(* Every stage ends behind the one before.                                  *)
LEMMA StageEnds ==
  ASSUME NEW p, NEW sl, NEW c, NEW n \in Nat, Staged(p, sl, c, n),
         \A i \in 1..n : sl[i] \in ParsedRows, NEW i \in 0..n
  PROVE  /\ c[i].end \in Nat /\ c[i].end >= 1
         /\ i \in 1..n => c[i - 1].end \in Nat /\ c[i].end > c[i - 1].end + 1
<1>1. \A j \in 0..n : c[j] \in Boilings
  BY DEF Staged
<1>2. c[0].end = 1 /\ c[i].end \in Nat
  BY <1>1 DEF Staged, Boilings
<1>3. ASSUME i \in 1..n
      PROVE  c[i - 1].end \in Nat /\ c[i].end > c[i - 1].end + 1
  <2>. DEFINE x == c[i - 1].end
              y == PrepLen(sl[i])
              z == BoilLen(c[i].w, c[i].s)
  <2>1. c[i].end = x + y + z
    BY <1>3 DEF Staged
  <2>2. i - 1 \in 0..n /\ x \in Nat /\ c[i].w \in Int /\ c[i].s \in Int
    BY <1>1, <1>3 DEF Boilings
  <2>3. z \in Nat
    BY <2>2 DEF BoilLen
  <2>4. sl[i].qty \in Nat \ {0} /\ sl[i] \in ParsedRows
    BY <1>3 DEF ParsedRows
  <2>5. y \in Nat /\ y >= 2
    BY <2>4, PreparationOps DEF PrepLen
  <2>. HIDE DEF x, y, z
  <2>6. x \in Nat /\ c[i].end > x + 1
    BY <2>1, <2>2, <2>3, <2>5
  <2>. QED BY <2>6 DEF x
<1>. QED BY <1>2, <1>3

(* q goes on from the stages of c, the last of them boiled so.              *)
StagedFrom(q, sl, c, n, w, s, swap) ==
  \E d : /\ Staged(q, sl, d, n) /\ Len(q) = d[n].end
         /\ \A i \in 0..n - 1 : d[i] = c[i]
         /\ d[n].w = w /\ d[n].s = s /\ d[n].swap = swap

(* One more stage.                                                          *)
LEMMA StagedMore ==
  ASSUME NEW N \in Nat, NEW sl \in [1..N -> ParsedRows], NEW n \in 1..N,
         NEW p \in Seq(PlanOps), NEW c, Staged(p, sl, c, n - 1), Len(p) = c[n - 1].end,
         NEW w \in Int, NEW s \in Int, NEW swap \in BOOLEAN,
         NEW st, st = Preparation(sl[n]) \o Boiling(w, s, swap)
  PROVE  p \o st \in Seq(PlanOps) /\ StagedFrom(p \o st, sl, c, n, w, s, swap)
<1>. DEFINE row == sl[n]
            b == [end |-> Len(p) + PrepLen(row) + BoilLen(w, s), w |-> w, s |-> s, swap |-> swap]
            q == p \o (Preparation(row) \o Boiling(w, s, swap))
            d == [i \in 0..n |-> IF i = n THEN b ELSE c[i]]
<1>1. row \in ParsedRows /\ \A i \in 1..n : i \in 1..N /\ sl[i] \in ParsedRows
  OBVIOUS
<1>2. b.w = w /\ b.s = s /\ b.swap = swap
  OBVIOUS
<1>3. PrepLen(row) \in Nat /\ BoilLen(w, s) \in Nat /\ Len(p) \in Nat
  <2>1. PrepLen(row) \in Nat
    <3>. HIDE DEF row
    <3>. QED BY <1>1, PreparationOps
  <2>2. BoilLen(w, s) \in Nat
    BY DEF BoilLen
  <2>. QED BY <2>1, <2>2
<1>4. b \in Boilings
  BY <1>3 DEF Boilings
<1>. HIDE DEF row, b
<1>5. /\ q \in Seq(PlanOps)
      /\ Len(q) = Len(p) + PrepLen(row) + BoilLen(b.w, b.s)
      /\ \A k \in 1..Len(p) : q[k] = p[k]
      /\ StageOps(q, Len(p), row, b)
  BY <1>1, <1>2, <1>4, StageAppended
<1>. HIDE DEF q
<1>6. /\ c \in [0..n - 1 -> Boilings] /\ c[0].end = 1
      /\ p[1] = DoVerb("PourBase")
      /\ \A i \in 1..n - 1 :
           /\ c[i].end = c[i - 1].end + PrepLen(sl[i]) + BoilLen(c[i].w, c[i].s)
           /\ StageOps(p, c[i - 1].end, sl[i], c[i])
  BY DEF Staged
<1>7. d \in [0..n -> Boilings] /\ d[n] = b /\ \A i \in 0..n - 1 : d[i] = c[i]
  BY <1>4, <1>6
<1>. HIDE DEF d
<1>8. Len(q) \in Nat /\ Len(p) <= Len(q) /\ Len(q) = b.end
  BY <1>2, <1>3, <1>5 DEF b
<1>9. q[1] = p[1] /\ d[0] = c[0]
  <2>1. 0 \in 0..n - 1 /\ 1 \in 1..Len(p)
    <3>1. n - 1 \in Nat /\ n - 1 \in 0..n - 1 /\ 0 \in 0..n - 1
      OBVIOUS
    <3>2. Len(p) >= 1
      BY <1>1, <3>1, StageEnds
    <3>. QED BY <1>3, <3>1, <3>2
  <2>. QED BY <1>5, <1>7, <2>1
<1>10. ASSUME NEW i \in 1..n
       PROVE  /\ d[i].end = d[i - 1].end + PrepLen(sl[i]) + BoilLen(d[i].w, d[i].s)
              /\ StageOps(q, d[i - 1].end, sl[i], d[i])
  <2>1. CASE i = n
    <3>1. d[i - 1] = c[n - 1] /\ d[i] = b /\ sl[i] = row
      BY <1>7, <2>1 DEF row
    <3>2. b.end = Len(p) + PrepLen(row) + BoilLen(b.w, b.s)
      BY <1>5, <1>8
    <3>. QED BY <1>5, <3>1, <3>2
  <2>2. CASE i # n
    <3>1. i \in 1..n - 1 /\ i - 1 \in 0..n - 1 /\ i \in 0..n - 1
      BY <2>2
    <3>2. d[i] = c[i] /\ d[i - 1] = c[i - 1] /\ c[i] \in Boilings /\ c[i - 1] \in Boilings
      BY <1>6, <1>7, <3>1
    <3>3. c[i - 1].end \in Nat
      BY <3>2 DEF Boilings
    <3>4. StageOps(p, c[i - 1].end, sl[i], c[i])
      BY <1>6, <3>1
    <3>5. StageOps(q, c[i - 1].end, sl[i], c[i])
      BY <1>1, <1>3, <1>5, <1>8, <3>2, <3>3, <3>4, StageLonger
    <3>. QED BY <1>6, <3>1, <3>2, <3>5
  <2>. QED BY <2>1, <2>2
<1>11. Staged(q, sl, d, n)
  BY <1>6, <1>7, <1>9, <1>10 DEF Staged
<1>12. StagedFrom(q, sl, c, n, w, s, swap)
  BY <1>2, <1>7, <1>8, <1>11 DEF StagedFrom
<1>. QED BY <1>5, <1>12 DEF q, row

(* A stage is what prepares the row and a way to boil; without mistakes it  *)
(* boils the windows as they are.                                           *)
Boils(st, row, w, s, md) ==
  \E pw \in Int, ps \in Int, swap \in BOOLEAN :
    /\ st = Preparation(row) \o Boiling(pw, ps, swap)
    /\ md = "off" => pw = w /\ ps = s /\ ~swap

(* What Stages makes of a row is its preparation and some boiling of it.    *)
LEMMA StageOf ==
  ASSUME NEW row, NEW w \in Int, NEW s \in Int, NEW md, NEW st \in Stages(row, w, s, md)
  PROVE  Boils(st, row, w, s, md)
<1>. DEFINE A == PerturbWindow(w, md) \X PerturbWindow(s, md) \X MayRoll(md)
<1>1. PICK h \in A : st = Preparation(row) \o Boiling(h[1], h[2], h[3])
  BY DEF Stages
<1>2. h[1] \in PerturbWindow(w, md) /\ h[2] \in PerturbWindow(s, md) /\ h[3] \in MayRoll(md)
  OBVIOUS
<1>3. /\ h[1] \in Int /\ h[2] \in Int
      /\ md = "off" => h[1] = w /\ h[2] = s
  BY <1>2 DEF PerturbWindow
<1>4. h[3] \in BOOLEAN /\ (md = "off" => ~h[3])
  BY <1>2 DEF MayRoll
<1>. QED BY <1>1, <1>3, <1>4 DEF Boils

(* The plans that put in n of the rows.                                     *)
StagedPlan(p, rows, sl, md, n) ==
  \E c : /\ Staged(p, sl, c, n) /\ Len(p) = c[n].end
         /\ md = "off" => AsTold(c, n, Weakly(rows), Strongly(rows))

(* Targets are turns, or -1 without a condition.                            *)
LEMMA TargetsOf ==
  ASSUME NEW rows \in Seq(ParsedRows)
  PROVE  /\ Weakly(rows) \in [1..Len(rows) -> Nat \cup {-1}]
         /\ Strongly(rows) \in [1..Len(rows) -> Nat \cup {-1}]
         /\ Len(rows) \in Nat
<1>1. Len(rows) \in Nat /\ DOMAIN rows = 1..Len(rows) /\ \A i \in DOMAIN rows : rows[i] \in ParsedRows
  OBVIOUS
<1>2. \A row \in ParsedRows : row.weak \in Nat \cup {-1} /\ row.strong \in Nat \cup {-1}
  BY DEF ParsedRows
<1>. QED BY <1>1, <1>2 DEF Weakly, Strongly

(* Windows are numbers, negative ones where the order does not fit.         *)
LEMMA WindowsInt ==
  ASSUME NEW rows \in Seq(ParsedRows), NEW n \in 1..Len(rows)
  PROVE  Window(Weakly(rows), n) \in Int /\ Window(Strongly(rows), n) \in Int
<1>1. \A t \in [1..Len(rows) -> Nat \cup {-1}] : Window(t, n) \in Int
  <2>. SUFFICES ASSUME NEW t \in [1..Len(rows) -> Nat \cup {-1}] PROVE Window(t, n) \in Int
    OBVIOUS
  <2>1. Len(rows) \in Nat /\ n \in 1..Len(rows) + 1 /\ n + 1 \in 1..Len(rows) + 1
    OBVIOUS
  <2>2. Inherited(t, n) \in Nat /\ Inherited(t, n + 1) \in Nat
    BY <2>1, Inherits
  <2>. QED BY <2>2 DEF Window
<1>. QED BY <1>1, TargetsOf

(* A staged plan with one stage more is staged.                             *)
LEMMA StagedNext ==
  ASSUME NEW rows \in Seq(ParsedRows), NEW sl \in [1..Len(rows) -> ParsedRows], NEW md,
         NEW n \in 1..Len(rows),
         NEW p \in Seq(PlanOps), StagedPlan(p, rows, sl, md, n - 1),
         NEW st \in Stages(sl[n], Window(Weakly(rows), n), Window(Strongly(rows), n), md)
  PROVE  p \o st \in Seq(PlanOps) /\ StagedPlan(p \o st, rows, sl, md, n)
<1>. DEFINE ws == Weakly(rows)
            ss == Strongly(rows)
<1>1. Len(rows) \in Nat /\ Window(ws, n) \in Int /\ Window(ss, n) \in Int
  BY TargetsOf, WindowsInt
<1>2. PICK pw \in Int, ps \in Int, swap \in BOOLEAN :
        /\ st = Preparation(sl[n]) \o Boiling(pw, ps, swap)
        /\ md = "off" => pw = Window(ws, n) /\ ps = Window(ss, n) /\ ~swap
  <2>1. Boils(st, sl[n], Window(ws, n), Window(ss, n), md)
    BY <1>1, StageOf
  <2>. HIDE DEF ws, ss
  <2>. QED BY <2>1 DEF Boils
<1>3. PICK c : /\ Staged(p, sl, c, n - 1) /\ Len(p) = c[n - 1].end
               /\ md = "off" => AsTold(c, n - 1, ws, ss)
  BY DEF StagedPlan
<1>4. /\ p \o st \in Seq(PlanOps)
      /\ \E d : /\ Staged(p \o st, sl, d, n) /\ Len(p \o st) = d[n].end
                /\ \A i \in 0..n - 1 : d[i] = c[i]
                /\ d[n].w = pw /\ d[n].s = ps /\ d[n].swap = swap
  <2>1. p \o st \in Seq(PlanOps) /\ StagedFrom(p \o st, sl, c, n, pw, ps, swap)
    BY <1>1, <1>2, <1>3, StagedMore
  <2>. QED BY <2>1 DEF StagedFrom
<1>5. PICK d : /\ Staged(p \o st, sl, d, n) /\ Len(p \o st) = d[n].end
               /\ \A i \in 0..n - 1 : d[i] = c[i]
               /\ d[n].w = pw /\ d[n].s = ps /\ d[n].swap = swap
  BY <1>4
<1>6. ASSUME md = "off" PROVE AsTold(d, n, ws, ss)
  <2>1. \A i \in 1..n - 1 : c[i].w = Window(ws, i) /\ c[i].s = Window(ss, i) /\ ~c[i].swap
    BY <1>3, <1>6 DEF AsTold
  <2>2. \A i \in 1..n - 1 : d[i] = c[i]
    BY <1>5
  <2>3. d[n].w = Window(ws, n) /\ d[n].s = Window(ss, n) /\ ~d[n].swap
    BY <1>2, <1>5, <1>6
  <2>4. \A i \in 1..n : i \in 1..n - 1 \/ i = n
    OBVIOUS
  <2>. HIDE DEF ws, ss
  <2>. QED BY <2>1, <2>2, <2>3, <2>4 DEF AsTold
<1>. QED BY <1>4, <1>5, <1>6 DEF StagedPlan

(* Every plan that is emitted puts in the rows one after the other.         *)
LEMMA EmittedStaged ==
  ASSUME NEW rows \in Seq(ParsedRows), NEW sl \in [1..Len(rows) -> ParsedRows], NEW md,
         NEW p \in Emitted(rows, sl, md)
  PROVE  p \in Seq(PlanOps) /\ StagedPlan(p, rows, sl, md, Len(rows))
<1>. DEFINE ws == Weakly(rows)
            ss == Strongly(rows)
            N == Len(rows)
            E == [n \in 0..N |-> SUBSET {q \in Seq(PlanOps) : StagedPlan(q, rows, sl, md, n)}]
            Of(n) == Stages(sl[n], Window(ws, n), Window(ss, n), md)
            Onto(n, P) == IF n = 0 THEN {<<DoVerb("PourBase")>>}
                          ELSE {q \o st : q \in P, st \in Of(n)}
            base == {<<DoVerb("PourBase")>>}
            Ps == SUBSET Seq(PlanOps)
            step == [x \in Ps \X (1..N) |-> Onto(x[2], x[1])]
<1>1. N \in Nat
  BY TargetsOf
<1>2. \A n \in 0..N : E[n] = SUBSET {q \in Seq(PlanOps) : StagedPlan(q, rows, sl, md, n)}
  OBVIOUS
<1>3. base \in E[0]
  <2>. DEFINE q == <<DoVerb("PourBase")>>
              c == [i \in 0..0 |-> [end |-> 1, w |-> 0, s |-> 0, swap |-> FALSE]]
  <2>1. q \in Seq(PlanOps) /\ Len(q) = 1 /\ q[1] = DoVerb("PourBase")
    BY OpsListed
  <2>2. c \in [0..0 -> Boilings] /\ c[0].end = 1
    BY DEF Boilings
  <2>3. \A i \in 1..0 : FALSE
    OBVIOUS
  <2>. HIDE DEF q, c
  <2>4. Staged(q, sl, c, 0)
    BY <2>1, <2>2, <2>3 DEF Staged
  <2>5. AsTold(c, 0, ws, ss)
    BY <2>3 DEF AsTold
  <2>6. StagedPlan(q, rows, sl, md, 0)
    BY <2>1, <2>2, <2>4, <2>5 DEF StagedPlan
  <2>7. E[0] = SUBSET {r \in Seq(PlanOps) : StagedPlan(r, rows, sl, md, 0)}
    <3>1. 0 \in 0..N
      BY <1>1
    <3>. QED BY <1>2, <3>1
  <2>8. base = {q}
    BY DEF q
  <2>. HIDE DEF E, base
  <2>. QED BY <2>1, <2>6, <2>7, <2>8
<1>4. ASSUME NEW n \in 1..N, NEW P \in E[n - 1]
      PROVE  Onto(n, P) \in E[n] /\ step[<<P, n>>] = Onto(n, P)
  <2>1. n - 1 \in 0..N /\ n \in 0..N /\ n # 0
    BY <1>1
  <2>2. P \in SUBSET {q \in Seq(PlanOps) : StagedPlan(q, rows, sl, md, n - 1)}
    BY <1>2, <2>1
  <2>3. ASSUME NEW q \in P, NEW st \in Of(n)
        PROVE  q \o st \in Seq(PlanOps) /\ StagedPlan(q \o st, rows, sl, md, n)
    BY <2>2, <2>3, StagedNext
  <2>. HIDE DEF Of
  <2>4. Onto(n, P) = {q \o st : q \in P, st \in Of(n)}
    BY <2>1
  <2>. HIDE DEF Onto, E
  <2>5. Onto(n, P) \in E[n]
    <3>1. \A x \in Onto(n, P) : x \in Seq(PlanOps) /\ StagedPlan(x, rows, sl, md, n)
      <4>. SUFFICES ASSUME NEW x \in Onto(n, P)
                    PROVE  x \in Seq(PlanOps) /\ StagedPlan(x, rows, sl, md, n)
        OBVIOUS
      <4>1. PICK q \in P, st \in Of(n) : x = q \o st
        BY <2>4
      <4>. QED BY <2>3, <4>1
    <3>2. E[n] = SUBSET {q \in Seq(PlanOps) : StagedPlan(q, rows, sl, md, n)}
      BY <1>2, <2>1
    <3>. QED BY <3>1, <3>2
  <2>6. P \in Ps
    BY <2>2
  <2>7. step[<<P, n>>] = Onto(n, P)
    <3>. HIDE DEF Ps
    <3>. QED BY <2>6
  <2>. QED BY <2>5, <2>7
<1>. HIDE DEF step, E, Ps, Of, base, Onto
<1>5. \A n \in 1..N : \A P \in E[n - 1] : step[<<P, n>>] \in E[n]
  BY <1>4
<1>6. PICK g : Runs(g, N, E, base, step)
  BY <1>1, <1>3, <1>5, StepsExist
<1>7. g = [n \in 0..N |-> Onto(n, g[n - 1])]
  <2>1. \A n \in 0..N : g[n] = Onto(n, g[n - 1])
    <3>. SUFFICES ASSUME NEW n \in 0..N PROVE g[n] = Onto(n, g[n - 1])
      OBVIOUS
    <3>1. CASE n = 0
      <4>1. g[n] = base
        BY <1>6, <3>1 DEF Runs
      <4>2. \A P : Onto(0, P) = base
        BY DEF Onto, base
      <4>. QED BY <3>1, <4>1, <4>2
    <3>2. CASE n # 0
      <4>1. n \in 1..N /\ n - 1 \in 0..N
        BY <1>1, <3>2
      <4>2. g[n] = step[<<g[n - 1], n>>] /\ g[n - 1] \in E[n - 1]
        BY <1>6, <4>1 DEF Runs
      <4>. QED BY <1>4, <4>1, <4>2
    <3>. QED BY <3>1, <3>2
  <2>2. g = [n \in 0..N |-> g[n]]
    BY <1>6 DEF Runs
  <2>. QED BY <2>1, <2>2
<1>8. PICK f : f = [n \in 0..N |-> Onto(n, f[n - 1])] /\ Emitted(rows, sl, md) = f[N]
  <2>. DEFINE f == CHOOSE f : f = [n \in 0..N |-> Onto(n, f[n - 1])]
  <2>1. f = [n \in 0..N |-> Onto(n, f[n - 1])]
    BY <1>7
  <2>2. Emitted(rows, sl, md) = f[N]
    BY DEF Emitted, Onto, Of, Weakly, Strongly
  <2>. HIDE DEF f
  <2>. QED BY <2>1, <2>2
<1>9. \A n \in 0..N : f[n] = Onto(n, f[n - 1])
  BY <1>8, Zenon
<1>10. f[0] \in E[0]
  <2>1. 0 \in 0..N /\ \A P : Onto(0, P) = base
    BY <1>1 DEF Onto, base
  <2>. QED BY <1>3, <1>9, <2>1
<1>11. \A n \in 0..N : f[n] \in E[n]
  <2>1. \A n \in 1..N : f[n - 1] \in E[n - 1] => f[n] \in E[n]
    <3>1. \A n \in 1..N : n \in 0..N
      BY <1>1
    <3>. QED BY <1>4, <1>9, <3>1
  <2>. QED BY <1>1, <1>10, <2>1, StepsStay
<1>12. f[N] \in SUBSET {q \in Seq(PlanOps) : StagedPlan(q, rows, sl, md, N)}
  <2>1. N \in 0..N
    BY <1>1
  <2>. QED BY <1>2, <1>11, <2>1
<1>. QED BY <1>8, <1>12

(* A slip changes how much of a row is put in and whether it is ground, not *)
(* the row; without mistakes there is none.                                 *)
LEMMA Slips ==
  ASSUME NEW rows \in Seq(ParsedRows), NEW have, NEW md, NEW sl \in RollSlips(rows, have, md)
  PROVE  /\ sl \in [1..Len(rows) -> ParsedRows]
         /\ \A i \in 1..Len(rows) : sl[i].id = rows[i].id /\ sl[i].qty <= rows[i].qty + 1
         /\ md = "off" => sl = rows
<1>1. Len(rows) \in Nat /\ DOMAIN rows = 1..Len(rows) /\ \A i \in DOMAIN rows : rows[i] \in ParsedRows
      /\ rows \in [1..Len(rows) -> ParsedRows]
  OBVIOUS
<1>2. CASE md = "off"
  <2>1. sl = rows
    BY <1>2 DEF RollSlips
  <2>2. ASSUME NEW i \in 1..Len(rows) PROVE rows[i].qty <= rows[i].qty + 1
    BY <1>1 DEF ParsedRows
  <2>. QED BY <1>1, <2>1, <2>2
<1>3. CASE md # "off"
  <2>1. /\ sl \in [DOMAIN rows -> UNION {SlippedRow(rows[i], have) : i \in DOMAIN rows}]
        /\ \A i \in DOMAIN rows : sl[i] \in SlippedRow(rows[i], have)
    BY <1>3 DEF RollSlips
  <2>2. ASSUME NEW i \in DOMAIN rows
        PROVE  sl[i] \in ParsedRows /\ sl[i].id = rows[i].id /\ sl[i].qty <= rows[i].qty + 1
    <3>. DEFINE row == rows[i]
    <3>1. row \in ParsedRows /\ sl[i] \in SlippedRow(row, have)
      BY <1>1, <2>1
    <3>. HIDE DEF row
    <3>. DEFINE A == {row.milled} \cup (IF row.milled THEN {FALSE} ELSE {row.mustNotMill})
                B == {row.qty} \cup (IF row.qty >= 2 THEN {row.qty - 1} ELSE {})
                     \cup (IF have[row.id] >= row.qty + 1 THEN {row.qty + 1} ELSE {})
                G(g, q) == [row EXCEPT !.milled = g, !.qty = q]
    <3>2. SlippedRow(row, have) = {G(g, q) : g \in A, q \in B}
      BY DEF SlippedRow
    <3>. HIDE DEF A, B, G
    <3>3. PICK g \in A, q \in B : sl[i] = G(g, q)
      BY <3>1, <3>2
    <3>4. sl[i] = [row EXCEPT !.milled = g, !.qty = q]
      BY <3>3 DEF G
    <3>5. g \in BOOLEAN
      BY <3>1, <3>3 DEF ParsedRows, A
    <3>6. row.qty \in Nat \ {0}
      BY <3>1 DEF ParsedRows
    <3>7. q \in Nat \ {0} /\ q <= row.qty + 1
      BY <3>3, <3>6 DEF B
    <3>8. sl[i] \in ParsedRows /\ sl[i].id = row.id /\ sl[i].qty <= row.qty + 1
      BY <3>1, <3>4, <3>5, <3>7 DEF ParsedRows
    <3>. QED BY <3>8 DEF row
  <2>3. DOMAIN sl = DOMAIN rows /\ sl = [i \in DOMAIN rows |-> sl[i]]
    BY <2>1
  <2>. QED BY <1>1, <1>3, <2>2, <2>3
<1>. QED BY <1>2, <1>3

(* A finish keeps the plan before it, and ends it.                          *)
LEMMA FinishAppended ==
  ASSUME NEW p \in Seq(PlanOps), NEW d \in BOOLEAN, NEW m \in BOOLEAN
  PROVE  /\ p \o Finish(d, m) \in Seq(PlanOps) /\ Len(p) <= Len(p \o Finish(d, m))
         /\ \A k \in 1..Len(p) : (p \o Finish(d, m))[k] = p[k]
         /\ FinishOps(p \o Finish(d, m), Len(p), d, m)
<1>. DEFINE f == Finish(d, m)
            q == p \o f
<1>1. /\ f \in Seq(PlanOps)
      /\ IF m THEN Len(f) = 1 /\ f[1] = DoVerb("UseMortar")
         ELSE /\ Len(f) = 2 /\ f[1] = Op("EnsureHoldPot")
              /\ f[2] = DoVerb(IF d THEN "Distill" ELSE "UsePot")
  <2>1. DoVerb(IF d THEN "Distill" ELSE "UsePot") \in PlanOps
    BY OpsListed
  <2>. QED BY <2>1, OpsListed DEF Finish
<1>. HIDE DEF f
<1>2. Joined(q, p, f, PlanOps)
  BY <1>1, Concat
<1>. HIDE DEF q
<1>3. /\ q \in Seq(PlanOps) /\ Len(q) = Len(p) + Len(f) /\ Len(p) \in Nat
      /\ \A k \in 1..Len(p) : q[k] = p[k]
      /\ \A k \in 1..Len(f) : q[Len(p) + k] = f[k]
  BY <1>2 DEF Joined
<1>4. FinishOps(q, Len(p), d, m)
  <2>1. CASE m
    <3>1. 1 \in 1..Len(f)
      BY <1>1, <2>1
    <3>2. Len(q) = Len(p) + 1 /\ q[Len(p) + 1] = DoVerb("UseMortar")
      BY <1>1, <1>3, <2>1, <3>1
    <3>. QED BY <2>1, <3>2 DEF FinishOps
  <2>2. CASE ~m
    <3>1. Len(f) = 2 /\ f[1] = Op("EnsureHoldPot") /\ f[2] = DoVerb(IF d THEN "Distill" ELSE "UsePot")
      BY <1>1, <2>2, Zenon
    <3>2. 1 \in 1..Len(f) /\ 2 \in 1..Len(f)
      BY <3>1
    <3>3. /\ Len(q) = Len(p) + 2 /\ q[Len(p) + 1] = Op("EnsureHoldPot")
          /\ q[Len(p) + 2] = DoVerb(IF d THEN "Distill" ELSE "UsePot")
      BY <1>3, <3>2, <3>1
    <3>. QED BY <2>2, <3>3 DEF FinishOps
  <2>. QED BY <2>1, <2>2
<1>5. Len(p) <= Len(q)
  BY <1>1, <1>3
<1>. QED BY <1>3, <1>4, <1>5 DEF q, f

(* What was staged in a plan is staged in one that goes on from it.         *)
LEMMA StagesLonger ==
  ASSUME NEW n \in Nat, NEW sl, \A i \in 1..n : sl[i] \in ParsedRows,
         NEW p \in Seq(PlanOps), NEW q \in Seq(PlanOps), NEW c,
         Staged(p, sl, c, n), Len(p) = c[n].end, Len(p) <= Len(q),
         \A k \in 1..Len(p) : q[k] = p[k]
  PROVE  Staged(q, sl, c, n)
<1>1. Len(p) \in Nat /\ Len(q) \in Nat /\ n \in 0..n
  OBVIOUS
<1>2. Len(p) >= 1
  BY <1>1, StageEnds
<1>3. q[1] = p[1]
  BY <1>1, <1>2
<1>4. ASSUME NEW i \in 1..n
      PROVE  StageOps(q, c[i - 1].end, sl[i], c[i])
  <2>1. i \in 0..n /\ c[i] \in Boilings /\ sl[i] \in ParsedRows
    BY <1>4 DEF Staged
  <2>2. c[i - 1].end \in Nat
    BY <2>1, StageEnds
  <2>3. StageOps(p, c[i - 1].end, sl[i], c[i])
    BY DEF Staged
  <2>. QED BY <1>1, <2>1, <2>2, <2>3, StageLonger
<1>. QED BY <1>3, <1>4 DEF Staged

(* The rows of a recipe are a sequence of parsed rows.                      *)
LEMMA RecipeRows ==
  ASSUME recipe \in Recipes
  PROVE  /\ recipe.rows \in Seq(ParsedRows) /\ Len(recipe.rows) \in Nat
         /\ recipe.distill \in BOOLEAN /\ recipe.resultMilled \in BOOLEAN
         /\ Sorted(recipe.rows) \in Seq(ParsedRows)
         /\ Len(Sorted(recipe.rows)) = Len(recipe.rows)
         /\ DOMAIN recipe.rows = 1..Len(recipe.rows)
<1>1. recipe.rows \in Seq(ParsedRows) /\ recipe.distill \in BOOLEAN /\ recipe.resultMilled \in BOOLEAN
  BY DEF Recipes
<1>2. Len(recipe.rows) \in Nat /\ DOMAIN recipe.rows = 1..Len(recipe.rows)
  BY <1>1
<1>. QED BY <1>1, <1>2, SortedRows

(* Every plan that is made is laid out as the invariant says.               *)
LEMMA KitchenStart == KitchenInit => KitchenInv
<1>. SUFFICES ASSUME KitchenInit PROVE KitchenInv
  OBVIOUS
<1>. USE OrdersAssumption
<1>1. PICK o \in Orders :
        /\ recipe = o.recipe /\ mode = o.mode
        /\ plan \in BuildPlan(recipe, [id \in IdsOf(recipe) |-> o.fresh + o.dried], mode)
  BY DEF KitchenInit
<1>. DEFINE rows == Sorted(recipe.rows)
            have == [id \in IdsOf(recipe) |-> o.fresh + o.dried]
            N == Len(recipe.rows)
<1>2. recipe \in Recipes
  BY <1>1
<1>3. /\ N \in Nat /\ recipe.distill \in BOOLEAN /\ recipe.resultMilled \in BOOLEAN
      /\ rows \in Seq(ParsedRows) /\ Len(rows) = N
  BY <1>2, RecipeRows
<1>4. CASE ~Schedulable(rows) \/ (recipe.distill /\ recipe.resultMilled)
  <2>1. plan = Refused
    BY <1>1, <1>4 DEF BuildPlan
  <2>2. finish = Nothing
    BY DEF KitchenInit
  <2>. QED BY <1>2, <1>4, <2>1, <2>2 DEF KitchenInv
<1>5. CASE Schedulable(rows) /\ ~(recipe.distill /\ recipe.resultMilled)
  <2>. HIDE DEF have, rows, N
  <2>. DEFINE Made(s) == {p \o f : p \in Emitted(rows, s, mode), f \in Finishes(recipe, mode)}
  <2>1. plan \in UNION {Made(s) : s \in RollSlips(rows, have, mode)}
    BY <1>1, <1>5 DEF BuildPlan, rows, have
  <2>. HIDE DEF Made
  <2>2. PICK sl \in RollSlips(rows, have, mode) : plan \in Made(sl)
    BY <2>1
  <2>3. PICK p \in Emitted(rows, sl, mode), f \in Finishes(recipe, mode) : plan = p \o f
    BY <2>2 DEF Made
  <2>4. PICK skip \in MayRoll(mode) :
          f = Finish(recipe.distill /\ ~skip, recipe.resultMilled /\ ~skip)
    BY DEF Finishes
  <2>5. skip \in BOOLEAN /\ (mode = "off" => ~skip)
    BY <2>4 DEF MayRoll
  <2>6. /\ sl \in [1..N -> ParsedRows]
        /\ \A i \in 1..N : sl[i].id = rows[i].id /\ sl[i].qty <= rows[i].qty + 1
        /\ mode = "off" => sl = rows
    BY <1>3, Slips
  <2>7. sl \in Seq(ParsedRows) /\ Len(sl) = N
    BY <1>3, <2>6
  <2>8. p \in Seq(PlanOps) /\ StagedPlan(p, rows, sl, mode, N)
    BY <1>3, <2>6, EmittedStaged
  <2>9. PICK c : /\ Staged(p, sl, c, N) /\ Len(p) = c[N].end
                 /\ mode = "off" => AsTold(c, N, Weakly(rows), Strongly(rows))
    BY <2>8 DEF StagedPlan
  <2>. DEFINE d == recipe.distill /\ ~skip
              m == recipe.resultMilled /\ ~skip
  <2>10. d \in BOOLEAN /\ m \in BOOLEAN
    OBVIOUS
  <2>. HIDE DEF d, m
  <2>11. plan = p \o Finish(d, m)
    BY <2>3, <2>4 DEF d, m
  <2>12. /\ plan \in Seq(PlanOps) /\ Len(p) <= Len(plan)
         /\ \A k \in 1..Len(p) : plan[k] = p[k]
         /\ FinishOps(plan, Len(p), d, m)
    BY <2>8, <2>10, <2>11, FinishAppended
  <2>13. Staged(plan, sl, c, N)
    BY <1>3, <2>6, <2>8, <2>9, <2>12, StagesLonger
  <2>14. Len(plan) \in Nat /\ DOMAIN plan = 1..Len(plan)
    BY <2>12
  <2>15. FinishOps(plan, c[N].end, recipe.distill /\ ~skip, recipe.resultMilled /\ ~skip)
    BY <2>9, <2>12 DEF d, m
  <2>16. mode = "off" => sl = rows /\ ~skip /\ AsTold(c, N, Weakly(sl), Strongly(sl))
    BY <2>5, <2>6, <2>9
  <2>17. Laid(sl, c, skip)
    BY <1>2, <1>5, <2>5, <2>6, <2>13, <2>14, <2>15, <2>16, <2>7 DEF Laid, rows, N
  <2>18. AtBase
    BY DEF KitchenInit, AtBase
  <2>. QED BY <2>17, <2>18 DEF KitchenInv, Brewing
<1>. QED BY <1>4, <1>5

-----------------------------------------------------------------------------
(* The steps at the table. *)

(* Only what the operation under the cursor is meant for can happen.        *)
LEMMA NextByKind ==
  ASSUME Going, CarryOut
  PROVE  /\ cursor' = cursor + 1 /\ UNCHANGED <<recipe, mode, plan>>
         /\ Now.kind = "TakeIngredient" => TakeHerb
         /\ Now.kind = "DoVerb" /\ Now.verb = "PourBase" => PourBase
         /\ Now.kind = "DoVerb" /\ Now.verb = "UseMortar" => FillMortar \/ Grind \/ FinishBrew
         /\ Now.kind = "DoVerb" /\ Now.verb = "UsePot" => DropHerb \/ DumpMortar \/ FinishBrew
         /\ Now.kind = "DoVerb" /\ Now.verb = "Distill" => FinishBrew
         /\ Now.kind = "SetPotOnFire" => Swing("SetPotOnFire", TRUE)
         /\ Now.kind = "TakePotOffFire" => Swing("TakePotOffFire", FALSE)
         /\ Now.kind \in {"BoilWeak", "BoilStrong"} => BoilWindow
         /\ Now.kind = "EnsureHoldPot" => HoldPot
<1>1. CASE PourBase
  BY <1>1 DEF PourBase, Verb, Turn
<1>2. CASE TakeHerb
  BY <1>2 DEF TakeHerb, Turn
<1>3. CASE FillMortar
  BY <1>3 DEF FillMortar, Verb, Turn
<1>4. CASE Grind
  BY <1>4 DEF Grind, Verb, Turn
<1>5. CASE DropHerb
  BY <1>5 DEF DropHerb, Verb, Turn
<1>6. CASE DumpMortar
  BY <1>6 DEF DumpMortar, Verb, Turn
<1>7. CASE Swing("SetPotOnFire", TRUE)
  <2>1. Turn("SetPotOnFire")
    BY <1>7 DEF Swing
  <2>. QED BY <1>7, <2>1 DEF Turn
<1>8. CASE Swing("TakePotOffFire", FALSE)
  <2>1. Turn("TakePotOffFire")
    BY <1>8 DEF Swing
  <2>. QED BY <1>8, <2>1 DEF Turn
<1>9. CASE BoilWindow
  <2>1. Turn("BoilWeak") \/ Turn("BoilStrong")
    BY <1>9 DEF BoilWindow
  <2>. QED BY <1>9, <2>1 DEF Turn
<1>10. CASE HoldPot
  BY <1>10 DEF HoldPot, Turn
<1>11. CASE FinishBrew
  <2>1. Verb("UsePot") \/ Verb("Distill") \/ Verb("UseMortar")
    BY <1>11 DEF FinishBrew
  <2>. QED BY <1>11, <2>1 DEF Verb, Turn
<1>. QED BY <1>1, <1>2, <1>3, <1>4, <1>5, <1>6, <1>7, <1>8, <1>9, <1>10, <1>11 DEF CarryOut

(* The operations are told apart by their kinds and arguments.              *)
LEMMA OpsTold ==
  /\ \A v : DoVerb(v).kind = "DoVerb" /\ DoVerb(v).verb = v
  /\ \A k : Op(k).kind = k
  /\ \A id : TakeIngredient(id).kind = "TakeIngredient" /\ TakeIngredient(id).ing = id
  /\ \A b, t : /\ Boil(b, t).target = t
               /\ Boil(b, t).kind = IF b THEN "BoilStrong" ELSE "BoilWeak"
BY DEF DoVerb, Op, TakeIngredient, Boil

(* The rows of a plan, and where their stages begin and end.                *)
LEMMA LaidRows ==
  ASSUME NEW sl, NEW c, NEW skip, Laid(sl, c, skip), NEW i \in 1..Len(sl)
  PROVE  /\ Len(sl) \in Nat /\ sl[i] \in ParsedRows
         /\ sl[i].qty \in Nat \ {0} /\ sl[i].milled \in BOOLEAN /\ sl[i].id \in Herbs
         /\ sl[i].id \in IdsOf(recipe)
         /\ c[i] \in Boilings /\ c[i].w \in Int /\ c[i].s \in Int /\ c[i].swap \in BOOLEAN
         /\ c[i - 1].end \in Nat /\ c[i - 1].end >= 1 /\ c[i].end \in Nat
         /\ c[i].end = c[i - 1].end + PrepLen(sl[i]) + BoilLen(c[i].w, c[i].s)
         /\ c[i].end <= Len(plan) /\ Len(plan) \in Nat
         /\ StageOps(plan, c[i - 1].end, sl[i], c[i])
<1>1. /\ recipe \in Recipes /\ sl \in Seq(ParsedRows) /\ Len(sl) = Len(recipe.rows)
      /\ \A k \in 1..Len(sl) : sl[k].id = Sorted(recipe.rows)[k].id
      /\ Staged(plan, sl, c, Len(sl)) /\ Len(plan) \in Nat
  BY DEF Laid
<1>2. Len(sl) \in Nat /\ \A k \in 1..Len(sl) : sl[k] \in ParsedRows
  BY <1>1
<1>3. sl[i] \in ParsedRows
  BY <1>2
<1>4. sl[i].qty \in Nat \ {0} /\ sl[i].milled \in BOOLEAN /\ sl[i].id \in Herbs
  BY <1>3 DEF ParsedRows
<1>5. sl[i].id \in IdsOf(recipe)
  <2>1. recipe.rows \in Seq(ParsedRows) /\ DOMAIN recipe.rows = 1..Len(recipe.rows)
    BY <1>1, RecipeRows
  <2>2. \A l \in 1..Len(recipe.rows) :
          \E k \in 1..Len(recipe.rows) : Sorted(recipe.rows)[l] = recipe.rows[k]
    BY <2>1, SortedRows
  <2>3. PICK k \in 1..Len(recipe.rows) : Sorted(recipe.rows)[i] = recipe.rows[k]
    BY <1>1, <2>2
  <2>. QED BY <1>1, <2>1, <2>3 DEF IdsOf
<1>6. c[i] \in Boilings
  <2>1. i \in 0..Len(sl)
    OBVIOUS
  <2>. QED BY <1>1, <2>1 DEF Staged
<1>7. c[i].w \in Int /\ c[i].s \in Int /\ c[i].swap \in BOOLEAN
  BY <1>6 DEF Boilings
<1>8. c[i - 1].end \in Nat /\ c[i - 1].end >= 1 /\ c[i].end \in Nat
  <2>1. i \in 0..Len(sl) /\ i - 1 \in 0..Len(sl)
    OBVIOUS
  <2>. QED BY <1>1, <1>2, <2>1, StageEnds
<1>9. /\ c[i].end = c[i - 1].end + PrepLen(sl[i]) + BoilLen(c[i].w, c[i].s)
      /\ StageOps(plan, c[i - 1].end, sl[i], c[i])
  BY <1>1 DEF Staged
<1>10. c[i].end <= Len(plan)
  BY <1>9 DEF StageOps
<1>. QED BY <1>1, <1>2, <1>3, <1>4, <1>5, <1>6, <1>7, <1>8, <1>9, <1>10

(* No ingredient is put in by two rows.                                     *)
LEMMA LaidIds ==
  ASSUME NEW sl, NEW c, NEW skip, Laid(sl, c, skip), NEW i \in 1..Len(sl)
  PROVE  /\ \A j \in 1..Len(sl) : sl[j].id = sl[i].id => j = i
         /\ sl[i].id \notin IdsTo(sl, i - 1)
         /\ IdsTo(sl, i) = IdsTo(sl, i - 1) \cup {sl[i].id}
         /\ IdsTo(sl, i) \subseteq Herbs
<1>1. /\ recipe \in Recipes /\ Len(sl) = Len(recipe.rows)
      /\ \A k \in 1..Len(sl) : sl[k].id = Sorted(recipe.rows)[k].id
  BY DEF Laid
<1>2. recipe.rows \in Seq(ParsedRows) /\ DOMAIN recipe.rows = 1..Len(recipe.rows)
  BY <1>1, RecipeRows
<1>3. \A k, l \in 1..Len(recipe.rows) : recipe.rows[k].id = recipe.rows[l].id => k = l
  BY <1>1, <1>2 DEF Recipes
<1>4. \A k, l \in 1..Len(sl) : sl[k].id = sl[l].id => k = l
  <2>1. \A k, l \in 1..Len(recipe.rows) :
          Sorted(recipe.rows)[k].id = Sorted(recipe.rows)[l].id => k = l
    BY <1>2, <1>3, SortedRows
  <2>. QED BY <1>1, <2>1
<1>5. Len(sl) \in Nat /\ \A k \in 1..Len(sl) : sl[k].id \in Herbs
  BY LaidRows
<1>6. sl[i].id \notin IdsTo(sl, i - 1)
  BY <1>4 DEF IdsTo
<1>7. IdsTo(sl, i) = IdsTo(sl, i - 1) \cup {sl[i].id}
  <2>1. \A j : j \in 1..i <=> j \in 1..i - 1 \/ j = i
    OBVIOUS
  <2>. QED BY <2>1 DEF IdsTo
<1>8. IdsTo(sl, i) \subseteq Herbs
  BY <1>5 DEF IdsTo
<1>. QED BY <1>4, <1>6, <1>7, <1>8

(* Without mistakes a stage boils what its row boils longer than the next.  *)
LEMMA LaidWindows ==
  ASSUME NEW sl, NEW c, NEW skip, Laid(sl, c, skip), NEW i \in 1..Len(sl)
  PROVE  /\ EffWeak(sl, i) \in Int /\ EffWeak(sl, i + 1) \in Int
         /\ EffStrong(sl, i) \in Int /\ EffStrong(sl, i + 1) \in Int
         /\ mode = "off" =>
              /\ c[i].w = EffWeak(sl, i) - EffWeak(sl, i + 1) /\ c[i].w >= 0
              /\ c[i].s = EffStrong(sl, i) - EffStrong(sl, i + 1) /\ c[i].s >= 0
              /\ ~c[i].swap
<1>1. sl \in Seq(ParsedRows) /\ Len(sl) \in Nat
  BY DEF Laid
<1>2. /\ Weakly(sl) \in [1..Len(sl) -> Nat \cup {-1}]
      /\ Strongly(sl) \in [1..Len(sl) -> Nat \cup {-1}]
  BY <1>1, TargetsOf
<1>3. i \in 1..Len(sl) + 1 /\ i + 1 \in 1..Len(sl) + 1
  BY <1>1
<1>4. /\ EffWeak(sl, i) \in Int /\ EffWeak(sl, i + 1) \in Int
      /\ EffStrong(sl, i) \in Int /\ EffStrong(sl, i + 1) \in Int
  <2>1. /\ Inherited(Weakly(sl), i) \in Nat /\ Inherited(Weakly(sl), i + 1) \in Nat
        /\ Inherited(Strongly(sl), i) \in Nat /\ Inherited(Strongly(sl), i + 1) \in Nat
    BY <1>1, <1>2, <1>3, Inherits
  <2>. QED BY <2>1 DEF EffWeak, EffStrong
<1>5. ASSUME mode = "off"
      PROVE  /\ c[i].w = EffWeak(sl, i) - EffWeak(sl, i + 1) /\ c[i].w >= 0
             /\ c[i].s = EffStrong(sl, i) - EffStrong(sl, i + 1) /\ c[i].s >= 0
             /\ ~c[i].swap
  <2>1. Schedulable(sl) /\ AsTold(c, Len(sl), Weakly(sl), Strongly(sl))
    BY <1>5 DEF Laid
  <2>2. DOMAIN sl = 1..Len(sl)
    BY <1>1
  <2>3. /\ \A k \in 1..Len(sl) : Weakly(sl)[k] = sl[k].weak /\ Strongly(sl)[k] = sl[k].strong
        /\ \A k, l \in 1..Len(sl) :
             k < l => /\ sl[l].weak >= 0 /\ sl[k].weak >= 0 => sl[k].weak >= sl[l].weak
                      /\ sl[l].strong >= 0 /\ sl[k].strong >= 0 => sl[k].strong >= sl[l].strong
    BY <2>1, <2>2 DEF Weakly, Strongly, Schedulable
  <2>4. /\ Window(Weakly(sl), i) = EffWeak(sl, i) - EffWeak(sl, i + 1)
        /\ EffWeak(sl, i) >= EffWeak(sl, i + 1)
    <3>1. \A k, l \in 1..Len(sl) : k < l /\ Weakly(sl)[k] >= 0 /\ Weakly(sl)[l] >= 0
                                     => Weakly(sl)[k] >= Weakly(sl)[l]
      BY <2>3
    <3>. QED BY <1>1, <1>2, <3>1, Windows DEF EffWeak
  <2>5. /\ Window(Strongly(sl), i) = EffStrong(sl, i) - EffStrong(sl, i + 1)
        /\ EffStrong(sl, i) >= EffStrong(sl, i + 1)
    <3>1. \A k, l \in 1..Len(sl) : k < l /\ Strongly(sl)[k] >= 0 /\ Strongly(sl)[l] >= 0
                                     => Strongly(sl)[k] >= Strongly(sl)[l]
      BY <2>3
    <3>. QED BY <1>1, <1>2, <3>1, Windows DEF EffStrong
  <2>6. c[i].w = Window(Weakly(sl), i) /\ c[i].s = Window(Strongly(sl), i) /\ ~c[i].swap
    BY <2>1 DEF AsTold
  <2>. QED BY <1>4, <2>4, <2>5, <2>6
<1>. QED BY <1>4, <1>5

(* Behind the last row nothing is left to boil.                             *)
LEMMA LaidLast ==
  ASSUME NEW sl, NEW c, NEW skip, Laid(sl, c, skip)
  PROVE  EffWeak(sl, Len(sl) + 1) = 0 /\ EffStrong(sl, Len(sl) + 1) = 0
<1>1. sl \in Seq(ParsedRows) /\ Len(sl) \in Nat /\ Len(sl) + 1 \in 1..Len(sl) + 1
  BY DEF Laid
<1>. QED BY <1>1, TargetsOf, Inherits DEF EffWeak, EffStrong

Kept == UNCHANGED <<recipe, mode, plan>>

(* No step at the table changes the recipe or its plan.                     *)
LEMMA LaidStays ==
  ASSUME NEW sl, NEW c, NEW skip, Laid(sl, c, skip), Kept
  PROVE  Laid(sl, c, skip)'
BY DEF Laid, Kept

(* Behind a stage comes the next one or the finish.                         *)
LEMMA ArriveNext ==
  ASSUME NEW sl, NEW c, NEW skip, Laid(sl, c, skip), NEW i \in 1..Len(sl) + 1, Kept,
         cursor' = c[i - 1].end + 1, Tidy', ~fire',
         InThePot(sl, i - 1, EffWeak(sl, i), EffStrong(sl, i))'
  PROVE  Brewing(sl, c, skip)'
<1>1. Len(sl) \in Nat
  BY DEF Laid
<1>2. CASE i = Len(sl) + 1
  <2>1. i - 1 = Len(sl)
    BY <1>1, <1>2
  <2>2. EffWeak(sl, i) = 0 /\ EffStrong(sl, i) = 0
    BY <1>2, LaidLast
  <2>3. AtFinish(sl, c)'
    BY <2>1, <2>2 DEF AtFinish
  <2>. QED BY <2>3 DEF Brewing
<1>3. CASE i \in 1..Len(sl)
  <2>1. sl[i].qty \in Nat \ {0} /\ c[i - 1].end \in Nat
    BY <1>3, LaidRows
  <2>2. 0 \in 0..sl[i].qty - 1 /\ c[i - 1].end + 2 * 0 + 1 = c[i - 1].end + 1
    BY <2>1
  <2>3. Preparing(sl, i, 0)'
    BY DEF Tidy, Preparing, InThePot
  <2>4. AtTake(sl, c, i, 0)'
    BY <2>2, <2>3 DEF AtTake, Tidy
  <2>5. 0 \in Nat
    OBVIOUS
  <2>. QED BY <1>3, <2>4, <2>5 DEF Brewing
<1>. QED BY <1>1, <1>2, <1>3

(* A stage that is put in is boiled, or there is nothing to boil.           *)
LEMMA ArriveFire ==
  ASSUME NEW sl, NEW c, NEW skip, Laid(sl, c, skip), NEW i \in 1..Len(sl), Kept,
         cursor' = c[i - 1].end + PrepLen(sl[i]) + 1, Tidy', ~fire',
         InThePot(sl, i, EffWeak(sl, i), EffStrong(sl, i))'
  PROVE  Brewing(sl, c, skip)'
<1>1. CASE c[i].w > 0 \/ c[i].s > 0
  <2>1. AtFire(sl, c, i)'
    BY <1>1 DEF AtFire
  <2>. QED BY <2>1 DEF Brewing
<1>2. CASE ~(c[i].w > 0 \/ c[i].s > 0)
  <2>1. /\ Len(sl) \in Nat /\ c[i].w \in Int /\ c[i].s \in Int /\ c[i - 1].end \in Nat
        /\ c[i].end = c[i - 1].end + PrepLen(sl[i]) + BoilLen(c[i].w, c[i].s)
        /\ sl[i] \in ParsedRows
    BY LaidRows
  <2>2. BoilLen(c[i].w, c[i].s) = 0
    BY <1>2, <2>1 DEF BoilLen
  <2>3. PrepLen(sl[i]) \in Nat
    BY <2>1, PreparationOps
  <2>4. (i + 1) - 1 = i /\ i + 1 \in 1..Len(sl) + 1
    BY <2>1
  <2>5. cursor' = c[(i + 1) - 1].end + 1
    BY <2>1, <2>2, <2>3, <2>4
  <2>6. mode = "off" => EffWeak(sl, i + 1) = EffWeak(sl, i) /\ EffStrong(sl, i + 1) = EffStrong(sl, i)
    BY <1>2, <2>1, LaidWindows
  <2>7. InThePot(sl, (i + 1) - 1, EffWeak(sl, i + 1), EffStrong(sl, i + 1))'
    BY <2>4, <2>6 DEF InThePot, Boiled, Kept
  <2>. QED BY <2>4, <2>5, <2>7, ArriveNext
<1>. QED BY <1>1, <1>2

(* The operations of a stage are operations of the plan.                    *)
OpsAt(sl, c, i) ==
  LET a == c[i - 1].end
      n == sl[i].qty
      m == PrepLen(sl[i])
      Has(k, op) == k \in DOMAIN plan /\ plan[k] = op
  IN /\ \A u \in 0..n - 1 :
          /\ Has(a + 2 * u + 1, TakeIngredient(sl[i].id))
          /\ Has(a + 2 * u + 2, DoVerb(IF sl[i].milled THEN "UseMortar" ELSE "UsePot"))
     /\ sl[i].milled => /\ Has(a + 2 * n + 1, DoVerb("UseMortar"))
                        /\ Has(a + 2 * n + 2, DoVerb("UsePot"))
     /\ c[i].w > 0 \/ c[i].s > 0 => /\ Has(a + m + 1, Op("SetPotOnFire"))
                                    /\ Has(c[i].end, Op("TakePotOffFire"))
     /\ c[i].w > 0 => Has(a + m + 2, Boil(c[i].swap, c[i].w))
     /\ c[i].s > 0 => Has(a + m + IF c[i].w > 0 THEN 3 ELSE 2, Boil(~c[i].swap, c[i].s))

(* Which operation stands where in a stage.                                 *)
LEMMA LaidOps ==
  ASSUME NEW sl, NEW c, NEW skip, Laid(sl, c, skip), NEW i \in 1..Len(sl)
  PROVE  OpsAt(sl, c, i)
<1>. DEFINE a == c[i - 1].end
            n == sl[i].qty
            m == PrepLen(sl[i])
            l == BoilLen(c[i].w, c[i].s)
            w == c[i].w
            s == c[i].s
            L == Len(plan)
<1>1. /\ n \in Nat \ {0} /\ sl[i].milled \in BOOLEAN /\ w \in Int /\ s \in Int /\ a \in Nat
      /\ c[i].end = a + m + l /\ a + m + l <= L /\ L \in Nat
  BY LaidRows
<1>2. DOMAIN plan = 1..L
  BY DEF Laid
<1>3. /\ m = 2 * n + IF sl[i].milled THEN 2 ELSE 0
      /\ l = IF w <= 0 /\ s <= 0 THEN 0 ELSE IF w > 0 /\ s > 0 THEN 4 ELSE 3
  BY DEF PrepLen, BoilLen
<1>4. /\ \A u \in 0..n - 1 :
           /\ plan[a + 2 * u + 1] = TakeIngredient(sl[i].id)
           /\ plan[a + 2 * u + 2] = DoVerb(IF sl[i].milled THEN "UseMortar" ELSE "UsePot")
      /\ sl[i].milled => /\ plan[a + 2 * n + 1] = DoVerb("UseMortar")
                         /\ plan[a + 2 * n + 2] = DoVerb("UsePot")
      /\ w > 0 \/ s > 0 => /\ plan[a + m + 1] = Op("SetPotOnFire")
                           /\ plan[a + m + l] = Op("TakePotOffFire")
      /\ w > 0 => plan[a + m + 2] = Boil(c[i].swap, w)
      /\ s > 0 => plan[a + m + IF w > 0 THEN 3 ELSE 2] = Boil(~c[i].swap, s)
  <2>1. StageOps(plan, c[i - 1].end, sl[i], c[i])
    BY LaidRows
  <2>. QED BY <2>1 DEF StageOps
<1>. HIDE DEF a, n, m, l, w, s, L
<1>5. m \in Nat /\ l \in Nat /\ 2 * n <= m
  BY <1>1, <1>3
<1>6. \A u \in 0..n - 1 : a + 2 * u + 1 \in 1..L /\ a + 2 * u + 2 \in 1..L
  <2>. TAKE u \in 0..n - 1
  <2>1. u \in Nat /\ u + 1 <= n
    BY <1>1
  <2>. QED BY <1>1, <1>5, <2>1
<1>7. sl[i].milled => a + 2 * n + 1 \in 1..L /\ a + 2 * n + 2 \in 1..L
  BY <1>1, <1>3, <1>5
<1>8. /\ w > 0 \/ s > 0 => a + m + 1 \in 1..L /\ a + m + l \in 1..L
      /\ w > 0 => a + m + 2 \in 1..L
      /\ s > 0 => a + m + (IF w > 0 THEN 3 ELSE 2) \in 1..L
  BY <1>1, <1>3, <1>5
<1>. QED BY <1>1, <1>2, <1>4, <1>6, <1>7, <1>8 DEF OpsAt, a, n, m, l, w, s

(* The base is poured first.                                                *)
LEMMA StepBase ==
  ASSUME NEW sl, NEW c, NEW skip, Laid(sl, c, skip), AtBase, CarryOut
  PROVE  Kept /\ Brewing(sl, c, skip)'
<1>1. /\ Len(sl) \in Nat /\ DOMAIN plan = 1..Len(plan) /\ Len(plan) \in Nat
      /\ plan[1] = DoVerb("PourBase") /\ c[0].end = 1
  BY DEF Laid, Staged
<1>2. \A i \in 1..Len(sl) : sl[i] \in ParsedRows
  BY LaidRows
<1>3. c[Len(sl)].end \in Nat /\ c[Len(sl)].end >= 1
  <2>1. Len(sl) \in 0..Len(sl)
    BY <1>1
  <2>2. Staged(plan, sl, c, Len(sl))
    BY DEF Laid
  <2>. QED BY <1>1, <1>2, <2>1, <2>2, StageEnds
<1>4. Going /\ Now = DoVerb("PourBase")
  <2>1. Len(plan) = c[Len(sl)].end + 1 \/ Len(plan) = c[Len(sl)].end + 2
    BY DEF Laid, FinishOps
  <2>2. 1 \in DOMAIN plan
    BY <1>1, <1>3, <2>1
  <2>. QED BY <1>1, <2>2 DEF AtBase, Going, Now
<1>5. PourBase /\ Kept /\ cursor' = cursor + 1
  BY <1>4, NextByKind, OpsTold DEF Kept
<1>6. cursor' = c[1 - 1].end + 1
  BY <1>1, <1>5 DEF AtBase
<1>7. Tidy' /\ ~fire'
  BY <1>5 DEF PourBase, AtBase, Tidy, Cooking
<1>8. InThePot(sl, 1 - 1, EffWeak(sl, 1), EffStrong(sl, 1))'
  <2>1. pot' = << >>
    BY <1>5 DEF PourBase, AtBase
  <2>2. IdsTo(sl, 0) = {}
    BY DEF IdsTo
  <2>3. << >> \in [{} -> PotRows]
    OBVIOUS
  <2>4. Boiled(sl, 0, EffWeak(sl, 1), EffStrong(sl, 1))'
    BY DEF Boiled
  <2>. QED BY <2>1, <2>2, <2>3, <2>4 DEF InThePot
<1>9. 1 \in 1..Len(sl) + 1
  BY <1>1
<1>. QED BY <1>5, <1>6, <1>7, <1>8, <1>9, ArriveNext

(* A unit is taken into the hand.                                           *)
LEMMA StepTake ==
  ASSUME NEW sl, NEW c, NEW skip, Laid(sl, c, skip), NEW i \in 1..Len(sl), NEW u \in Nat,
         AtTake(sl, c, i, u), CarryOut
  PROVE  Kept /\ Brewing(sl, c, skip)'
<1>1. OpsAt(sl, c, i) /\ u \in 0..sl[i].qty - 1
  BY LaidOps DEF AtTake
<1>2. Going /\ Now = TakeIngredient(sl[i].id)
  BY <1>1 DEF OpsAt, Going, Now, AtTake
<1>3. TakeHerb /\ Kept /\ cursor' = cursor + 1
  BY <1>2, NextByKind, OpsTold DEF Kept
<1>4. hand' = sl[i].id
  BY <1>2, <1>3, OpsTold DEF TakeHerb
<1>5. Preparing(sl, i, u)'
  BY <1>3 DEF TakeHerb, Kept, AtTake, Preparing, Boiled, Cooking
<1>6. cursor' = c[i - 1].end + 2 * u + 2
  <2>1. c[i - 1].end \in Nat
    BY LaidRows
  <2>. QED BY <1>3, <2>1 DEF AtTake
<1>7. AtPut(sl, c, i, u)'
  BY <1>1, <1>4, <1>5, <1>6 DEF AtPut
<1>. QED BY <1>3, <1>7 DEF Brewing

(* A unit goes into the mortar.                                             *)
LEMMA StepFill ==
  ASSUME NEW sl, NEW c, NEW skip, Laid(sl, c, skip), NEW i \in 1..Len(sl), NEW u \in Nat,
         AtPut(sl, c, i, u), sl[i].milled, CarryOut
  PROVE  Kept /\ Brewing(sl, c, skip)'
<1>. DEFINE row == sl[i]
            a == c[i - 1].end
<1>1. OpsAt(sl, c, i) /\ u \in 0..row.qty - 1 /\ cursor = a + 2 * u + 2 /\ hand = row.id
  BY LaidOps DEF AtPut
<1>2. row.qty \in Nat \ {0} /\ row.id \in Herbs /\ row.id \in IdsOf(recipe) /\ a \in Nat
  BY LaidRows
<1>3. Going /\ Now = DoVerb("UseMortar")
  BY <1>1 DEF OpsAt, Going, Now
<1>4. hand # Nothing /\ hand # "pot"
  BY <1>1, <1>2, HandsAssumption
<1>5. (FillMortar \/ Grind \/ FinishBrew) /\ Kept /\ cursor' = cursor + 1
  BY <1>3, NextByKind, OpsTold DEF Kept
<1>6. FillMortar
  BY <1>4, <1>5 DEF Grind, FinishBrew
<1>7. /\ UNCHANGED <<pot, based, fire, finish>> /\ hand' = Nothing
      /\ mortar' = [id \in DOMAIN mortar \cup {hand} |->
                      (IF id \in DOMAIN mortar THEN mortar[id] ELSE 0)
                      + IF id = hand THEN 1 ELSE 0]
  BY <1>6 DEF FillMortar
<1>8. Preparing(sl, i, u)
  BY DEF AtPut
<1>9. IF u > 0 THEN DOMAIN mortar = {row.id} /\ mortar[row.id] = u ELSE DOMAIN mortar = {}
  BY <1>8 DEF Preparing
<1>10. DOMAIN mortar' = {row.id} /\ mortar'[row.id] = u + 1
  <2>1. CASE u > 0
    BY <1>1, <1>7, <1>9, <2>1
  <2>2. CASE ~(u > 0)
    <3>1. u = 0
      BY <2>2
    <3>. QED BY <1>1, <1>7, <1>9, <2>2, <3>1
  <2>. QED BY <2>1, <2>2
<1>11. Preparing(sl, i, u + 1)'
  <2>1. u + 1 > 0
    OBVIOUS
  <2>. QED BY <1>5, <1>7, <1>8, <1>10, <2>1 DEF Preparing, Boiled, Cooking, Kept
<1>12. CASE u + 1 < row.qty
  <2>1. u + 1 \in 0..row.qty - 1 /\ u + 1 \in Nat
    BY <1>2, <1>12
  <2>2. cursor' = a + 2 * (u + 1) + 1
    BY <1>1, <1>2, <1>5
  <2>3. AtTake(sl, c, i, u + 1)'
    BY <1>7, <1>11, <2>1, <2>2 DEF AtTake
  <2>. QED BY <1>5, <2>1, <2>3 DEF Brewing
<1>13. CASE ~(u + 1 < row.qty)
  <2>1. u + 1 = row.qty
    BY <1>1, <1>2, <1>13
  <2>2. cursor' = a + 2 * row.qty + 1
    <3>. HIDE DEF row, a
    <3>. QED BY <1>1, <1>2, <1>5, <2>1
  <2>3. AtGrind(sl, c, i)'
    BY <1>7, <1>11, <2>1, <2>2 DEF AtGrind
  <2>. QED BY <1>5, <2>3 DEF Brewing
<1>. QED BY <1>12, <1>13

(* One unit more of the same in the pot.                                    *)
LEMMA OneUnit ==
  ASSUME NEW m, NEW u \in Nat
  PROVE  [InPot(u, m) EXCEPT !.units = @ + 1] = InPot(u + 1, m)
BY DEF InPot

(* A unit goes into the pot.                                                *)
LEMMA StepDrop ==
  ASSUME NEW sl, NEW c, NEW skip, Laid(sl, c, skip), NEW i \in 1..Len(sl), NEW u \in Nat,
         AtPut(sl, c, i, u), ~sl[i].milled, CarryOut
  PROVE  Kept /\ Brewing(sl, c, skip)'
<1>. DEFINE row == sl[i]
            a == c[i - 1].end
            before == IdsTo(sl, i - 1)
<1>1. OpsAt(sl, c, i) /\ u \in 0..row.qty - 1 /\ cursor = a + 2 * u + 2 /\ hand = row.id
  BY LaidOps DEF AtPut
<1>2. row.qty \in Nat \ {0} /\ row.id \in Herbs /\ row.id \in IdsOf(recipe) /\ a \in Nat
  BY LaidRows
<1>3. Going /\ Now = DoVerb("UsePot")
  BY <1>1 DEF OpsAt, Going, Now
<1>4. hand # Nothing /\ hand # "pot" /\ hand # "ground"
  BY <1>1, <1>2, HandsAssumption
<1>5. (DropHerb \/ DumpMortar \/ FinishBrew) /\ Kept /\ cursor' = cursor + 1
  BY <1>3, NextByKind, OpsTold DEF Kept
<1>6. DropHerb
  BY <1>4, <1>5 DEF DumpMortar, FinishBrew
<1>7. /\ UNCHANGED <<mortar, based, fire, finish>> /\ hand' = Nothing
      /\ pot' = [id \in DOMAIN pot \cup {hand} |->
                   IF id \notin DOMAIN pot THEN InPot(1, FALSE)
                   ELSE IF id = hand THEN [pot[id] EXCEPT !.units = @ + 1] ELSE pot[id]]
  BY <1>6 DEF DropHerb
<1>8. Preparing(sl, i, u)
  BY DEF AtPut
<1>9. /\ DOMAIN mortar = {} /\ Cooking /\ ~fire
      /\ Boiled(sl, i - 1, EffWeak(sl, i), EffStrong(sl, i))
      /\ IF u > 0 THEN pot \in [IdsTo(sl, i) -> PotRows] /\ pot[row.id] = InPot(u, FALSE)
         ELSE pot \in [before -> PotRows]
  BY <1>8 DEF Preparing
<1>10. row.id \notin before /\ IdsTo(sl, i) = before \cup {row.id}
  BY LaidIds
<1>11. /\ pot' \in [IdsTo(sl, i) -> PotRows] /\ pot'[row.id] = InPot(u + 1, FALSE)
       /\ \A id \in before : pot'[id] = pot[id]
  <2>. HIDE DEF row, before
  <2>1. CASE u > 0
    <3>1. DOMAIN pot = before \cup {row.id} /\ pot \in [before \cup {row.id} -> PotRows]
          /\ pot[row.id] = InPot(u, FALSE)
      BY <1>9, <1>10, <2>1
    <3>2. pot' = [id \in before \cup {row.id} |->
                    IF id = row.id THEN [pot[id] EXCEPT !.units = @ + 1] ELSE pot[id]]
      BY <1>1, <1>7, <3>1
    <3>3. [pot[row.id] EXCEPT !.units = @ + 1] = InPot(u + 1, FALSE)
      <4>1. [InPot(u, FALSE) EXCEPT !.units = @ + 1] = InPot(u + 1, FALSE)
        BY OneUnit
      <4>. QED BY <3>1, <4>1
    <3>4. InPot(u + 1, FALSE) \in PotRows
      BY DEF InPot, PotRows
    <3>5. pot'[row.id] = InPot(u + 1, FALSE)
      BY <3>2, <3>3
    <3>6. \A id \in before : pot'[id] = pot[id] /\ pot[id] \in PotRows
      BY <1>10, <3>1, <3>2
    <3>7. pot' \in [before \cup {row.id} -> PotRows]
      BY <3>2, <3>4, <3>5, <3>6
    <3>. QED BY <1>10, <3>5, <3>6, <3>7
  <2>2. CASE ~(u > 0)
    <3>1. DOMAIN pot = before /\ pot \in [before -> PotRows] /\ u = 0
      BY <1>9, <2>2
    <3>2. pot' = [id \in before \cup {row.id} |->
                    IF id = row.id THEN InPot(1, FALSE) ELSE pot[id]]
      BY <1>1, <1>7, <1>10, <3>1
    <3>3. InPot(1, FALSE) \in PotRows
      BY DEF InPot, PotRows
    <3>4. pot'[row.id] = InPot(u + 1, FALSE)
      BY <3>1, <3>2
    <3>5. \A id \in before : pot'[id] = pot[id] /\ pot[id] \in PotRows
      BY <1>10, <3>1, <3>2
    <3>6. pot' \in [before \cup {row.id} -> PotRows]
      BY <3>2, <3>3, <3>4, <3>5
    <3>. QED BY <1>10, <3>4, <3>5, <3>6
  <2>. QED BY <2>1, <2>2
<1>12. \A j \in 1..i - 1 : sl[j].id \in before
  BY DEF IdsTo
<1>13. Boiled(sl, i - 1, EffWeak(sl, i), EffStrong(sl, i))'
  <2>. HIDE DEF before
  <2>1. \A j \in 1..i - 1 : pot'[sl[j].id] = pot[sl[j].id]
    BY <1>11, <1>12
  <2>. QED BY <1>5, <1>9, <2>1 DEF Boiled, Kept
<1>14. Cooking' /\ ~fire' /\ DOMAIN mortar' = {}
  BY <1>7, <1>9 DEF Cooking
<1>15. CASE u + 1 < row.qty
  <2>1. u + 1 \in 0..row.qty - 1 /\ u + 1 \in Nat /\ u + 1 > 0
    BY <1>2, <1>15
  <2>2. cursor' = a + 2 * (u + 1) + 1
    BY <1>1, <1>2, <1>5
  <2>3. Preparing(sl, i, u + 1)'
    BY <1>11, <1>13, <1>14, <2>1 DEF Preparing
  <2>4. AtTake(sl, c, i, u + 1)'
    BY <1>7, <2>1, <2>2, <2>3 DEF AtTake
  <2>. QED BY <1>5, <2>1, <2>4 DEF Brewing
<1>16. CASE ~(u + 1 < row.qty)
  <2>1. u + 1 = row.qty
    BY <1>1, <1>2, <1>16
  <2>2. cursor' = a + PrepLen(row) + 1
    <3>1. PrepLen(row) = 2 * row.qty
      <4>1. row.qty \in Nat
        BY <1>2
      <4>2. 2 * row.qty + 0 = 2 * row.qty
        BY <4>1
      <4>. QED BY <4>2, Zenon DEF PrepLen
    <3>2. cursor + 1 = a + 2 * u + 3
      BY <1>1, <1>2
    <3>. HIDE DEF row, a
    <3>3. a + 2 * u + 3 = a + PrepLen(row) + 1
      BY <1>1, <1>2, <2>1, <3>1
    <3>. QED BY <1>5, <3>2, <3>3
  <2>3. InThePot(sl, i, EffWeak(sl, i), EffStrong(sl, i))'
    <3>1. /\ pot'[row.id].units = row.qty /\ pot'[row.id].milled = FALSE
          /\ pot'[row.id].weak = 0 /\ pot'[row.id].strong = 0
      BY <1>11, <2>1 DEF InPot
    <3>2. row.milled = FALSE
      <4>1. row.milled \in BOOLEAN
        BY LaidRows
      <4>. QED BY <4>1
    <3>3. EffWeak(sl, i) - EffWeak(sl, i) = 0 /\ EffStrong(sl, i) - EffStrong(sl, i) = 0
      BY LaidWindows
    <3>4. \A j \in 1..i : j \in 1..i - 1 \/ j = i
      OBVIOUS
    <3>. QED BY <1>11, <1>13, <3>1, <3>2, <3>3, <3>4 DEF InThePot, Boiled
  <2>4. Tidy'
    BY <1>7, <1>14 DEF Tidy
  <2>. QED BY <1>5, <1>14, <2>2, <2>3, <2>4, ArriveFire
<1>. QED BY <1>15, <1>16

(* No ingredient is mistaken for the pot, the grindings or an empty hand.   *)
LEMMA LaidHerbs ==
  ASSUME NEW sl, NEW c, NEW skip, Laid(sl, c, skip)
  PROVE  IdsOf(recipe) \subseteq Herbs /\ \A id \in IdsOf(recipe) : id # Nothing
<1>1. recipe \in Recipes
  BY DEF Laid
<1>2. \A k \in DOMAIN recipe.rows : recipe.rows[k] \in ParsedRows
  BY <1>1, RecipeRows
<1>3. \A row \in ParsedRows : row.id \in Herbs
  BY DEF ParsedRows
<1>. QED BY <1>2, <1>3, HandsAssumption DEF IdsOf

(* What is in the mortar is ground, and stays there.                        *)
LEMMA StepGrind ==
  ASSUME NEW sl, NEW c, NEW skip, Laid(sl, c, skip), NEW i \in 1..Len(sl),
         AtGrind(sl, c, i), CarryOut
  PROVE  Kept /\ Brewing(sl, c, skip)'
<1>. DEFINE row == sl[i]
            a == c[i - 1].end
<1>1. OpsAt(sl, c, i) /\ row.milled /\ cursor = a + 2 * row.qty + 1 /\ hand = Nothing
      /\ Preparing(sl, i, row.qty)
  BY LaidOps DEF AtGrind
<1>2. row.qty \in Nat \ {0} /\ a \in Nat /\ \A id \in IdsOf(recipe) : id # Nothing
  BY LaidRows, LaidHerbs
<1>3. Going /\ Now = DoVerb("UseMortar")
  BY <1>1 DEF OpsAt, Going, Now
<1>4. (FillMortar \/ Grind \/ FinishBrew) /\ Kept /\ cursor' = cursor + 1
  BY <1>3, NextByKind, OpsTold DEF Kept
<1>5. DOMAIN mortar # {}
  BY <1>1, <1>2 DEF Preparing
<1>6. Grind
  <2>1. ~FillMortar
    BY <1>1, <1>2 DEF FillMortar
  <2>2. ~FinishBrew
    <3>1. ~Verb("UsePot") /\ ~Verb("Distill")
      BY <1>3, OpsTold DEF Verb, Turn
    <3>. QED BY <1>5, <3>1 DEF FinishBrew
  <2>. QED BY <1>4, <2>1, <2>2
<1>7. Preparing(sl, i, row.qty)'
  BY <1>1, <1>4, <1>6 DEF Grind, Preparing, Boiled, Cooking, Kept
<1>8. cursor' = a + 2 * row.qty + 2 /\ hand' = "ground"
  BY <1>1, <1>2, <1>4, <1>6 DEF Grind
<1>9. AtDump(sl, c, i)'
  BY <1>1, <1>7, <1>8 DEF AtDump
<1>. QED BY <1>4, <1>9 DEF Brewing

(* The grindings of a row go into the pot at once.                          *)
LEMMA StepDump ==
  ASSUME NEW sl, NEW c, NEW skip, Laid(sl, c, skip), NEW i \in 1..Len(sl),
         AtDump(sl, c, i), CarryOut
  PROVE  Kept /\ Brewing(sl, c, skip)'
<1>. DEFINE row == sl[i]
            a == c[i - 1].end
            before == IdsTo(sl, i - 1)
<1>1. OpsAt(sl, c, i) /\ row.milled /\ cursor = a + 2 * row.qty + 2 /\ hand = "ground"
      /\ Preparing(sl, i, row.qty)
  BY LaidOps DEF AtDump
<1>2. row.qty \in Nat \ {0} /\ a \in Nat /\ IdsOf(recipe) \subseteq Herbs
  BY LaidRows, LaidHerbs
<1>3. Going /\ Now = DoVerb("UsePot")
  BY <1>1 DEF OpsAt, Going, Now
<1>4. (DropHerb \/ DumpMortar \/ FinishBrew) /\ Kept /\ cursor' = cursor + 1
  BY <1>3, NextByKind, OpsTold DEF Kept
<1>5. DumpMortar
  <2>1. ~DropHerb
    BY <1>1, <1>2, HandsAssumption DEF DropHerb
  <2>2. ~FinishBrew
    <3>1. hand # "pot" /\ hand # Nothing
      BY <1>1, HandsAssumption
    <3>. QED BY <3>1 DEF FinishBrew
  <2>. QED BY <1>4, <2>1, <2>2
<1>6. /\ UNCHANGED <<based, fire, finish>> /\ hand' = Nothing /\ mortar' = << >>
      /\ pot' = [id \in DOMAIN pot \cup DOMAIN mortar |->
                   IF id \in DOMAIN mortar THEN InPot(mortar[id], TRUE) ELSE pot[id]]
  BY <1>5 DEF DumpMortar
<1>7. /\ Cooking /\ ~fire /\ Boiled(sl, i - 1, EffWeak(sl, i), EffStrong(sl, i))
      /\ pot \in [before -> PotRows]
      /\ DOMAIN mortar = {row.id} /\ mortar[row.id] = row.qty
  BY <1>1, <1>2 DEF Preparing
<1>8. row.id \notin before /\ IdsTo(sl, i) = before \cup {row.id}
  BY LaidIds
<1>9. /\ pot' \in [IdsTo(sl, i) -> PotRows] /\ pot'[row.id] = InPot(row.qty, TRUE)
      /\ \A id \in before : pot'[id] = pot[id]
  <2>. HIDE DEF before, row
  <2>1. pot' = [id \in before \cup {row.id} |->
                  IF id = row.id THEN InPot(row.qty, TRUE) ELSE pot[id]]
    BY <1>6, <1>7
  <2>2. InPot(row.qty, TRUE) \in PotRows
    BY <1>2 DEF InPot, PotRows
  <2>3. \A id \in before : pot'[id] = pot[id] /\ pot[id] \in PotRows
    BY <1>7, <1>8, <2>1
  <2>4. pot'[row.id] = InPot(row.qty, TRUE)
    BY <2>1
  <2>5. pot' \in [before \cup {row.id} -> PotRows]
    BY <2>1, <2>2, <2>3, <2>4
  <2>. QED BY <1>8, <2>3, <2>4, <2>5
<1>10. Boiled(sl, i - 1, EffWeak(sl, i), EffStrong(sl, i))'
  <2>1. \A j \in 1..i - 1 : sl[j].id \in before
    BY DEF IdsTo
  <2>. HIDE DEF before
  <2>2. \A j \in 1..i - 1 : pot'[sl[j].id] = pot[sl[j].id]
    BY <1>9, <2>1
  <2>. QED BY <1>4, <1>7, <2>2 DEF Boiled, Kept
<1>11. cursor' = a + PrepLen(row) + 1
  <2>1. PrepLen(row) = 2 * row.qty + 2
    BY <1>1 DEF PrepLen
  <2>. HIDE DEF row, a
  <2>. QED BY <1>1, <1>2, <1>4, <2>1
<1>12. InThePot(sl, i, EffWeak(sl, i), EffStrong(sl, i))'
  <2>1. /\ pot'[row.id].units = row.qty /\ pot'[row.id].milled = TRUE
        /\ pot'[row.id].weak = 0 /\ pot'[row.id].strong = 0
    BY <1>9 DEF InPot
  <2>2. row.milled = TRUE
    <3>1. row.milled \in BOOLEAN
      BY LaidRows
    <3>. QED BY <1>1, <3>1
  <2>3. EffWeak(sl, i) - EffWeak(sl, i) = 0 /\ EffStrong(sl, i) - EffStrong(sl, i) = 0
    BY LaidWindows
  <2>4. \A j \in 1..i : j \in 1..i - 1 \/ j = i
    OBVIOUS
  <2>. QED BY <1>9, <1>10, <2>1, <2>2, <2>3, <2>4 DEF InThePot, Boiled
<1>13. Tidy' /\ ~fire'
  BY <1>6, <1>7 DEF Tidy, Cooking
<1>. QED BY <1>4, <1>11, <1>12, <1>13, ArriveFire

(* The pot is swung over the fire, for the first window of the stage.       *)
LEMMA StepFire ==
  ASSUME NEW sl, NEW c, NEW skip, Laid(sl, c, skip), NEW i \in 1..Len(sl),
         AtFire(sl, c, i), CarryOut
  PROVE  Kept /\ Brewing(sl, c, skip)'
<1>1. /\ OpsAt(sl, c, i) /\ (c[i].w > 0 \/ c[i].s > 0)
      /\ cursor = c[i - 1].end + PrepLen(sl[i]) + 1
      /\ Tidy /\ InThePot(sl, i, EffWeak(sl, i), EffStrong(sl, i))
  BY LaidOps DEF AtFire
<1>2. /\ c[i].w \in Int /\ c[i].s \in Int /\ c[i - 1].end \in Nat /\ sl[i] \in ParsedRows
      /\ PrepLen(sl[i]) \in Nat
  BY LaidRows, PreparationOps
<1>3. Going /\ Now = Op("SetPotOnFire")
  BY <1>1 DEF OpsAt, Going, Now
<1>4. Swing("SetPotOnFire", TRUE) /\ Kept /\ cursor' = cursor + 1
  BY <1>3, NextByKind, OpsTold DEF Kept
<1>5. UNCHANGED <<stock, hand, mortar, pot, based, finish>> /\ fire'
  BY <1>4 DEF Swing
<1>6. Tidy' /\ InThePot(sl, i, EffWeak(sl, i), EffStrong(sl, i))'
  BY <1>1, <1>4, <1>5 DEF Tidy, Cooking, InThePot, Boiled, Kept
<1>7. cursor' = c[i - 1].end + PrepLen(sl[i]) + 2
  BY <1>1, <1>2, <1>4
<1>8. CASE c[i].w > 0
  <2>1. AtWeak(sl, c, i)'
    BY <1>5, <1>6, <1>7, <1>8 DEF AtWeak
  <2>. QED BY <1>4, <2>1 DEF Brewing
<1>9. CASE ~(c[i].w > 0)
  <2>1. mode = "off" => EffWeak(sl, i + 1) = EffWeak(sl, i)
    BY <1>2, <1>9, LaidWindows
  <2>2. InThePot(sl, i, EffWeak(sl, i + 1), EffStrong(sl, i))'
    BY <1>4, <1>6, <2>1 DEF InThePot, Boiled, Kept
  <2>3. AtStrong(sl, c, i)'
    BY <1>1, <1>5, <1>6, <1>7, <1>9, <2>2 DEF AtStrong
  <2>. QED BY <1>4, <2>3 DEF Brewing
<1>. QED BY <1>8, <1>9

(* A window boils everything in the pot by its turns.                       *)
LEMMA BoilAll ==
  ASSUME NEW sl, NEW c, NEW skip, Laid(sl, c, skip), NEW i \in 1..Len(sl),
         NEW ew \in Int, NEW es \in Int, InThePot(sl, i, ew, es), Tidy,
         Going, NEW b \in BOOLEAN, NEW t \in Int, Now = Boil(b, t), CarryOut
  PROVE  /\ Kept /\ cursor' = cursor + 1 /\ Tidy' /\ fire /\ fire'
         /\ mode = "off" /\ ~b => InThePot(sl, i, ew - t, es)'
         /\ mode = "off" /\ b => InThePot(sl, i, ew, es - t)'
         /\ mode # "off" => \A x, y : InThePot(sl, i, x, y)'
<1>1. Now.kind = (IF b THEN "BoilStrong" ELSE "BoilWeak") /\ Now.target = t
  BY OpsTold
<1>2. BoilWindow /\ Kept /\ cursor' = cursor + 1
  BY <1>1, NextByKind DEF Kept
<1>3. /\ fire /\ UNCHANGED <<stock, hand, mortar, based, fire, finish>>
      /\ pot' = [id \in DOMAIN pot |->
                   IF ~b THEN [pot[id] EXCEPT !.weak = @ + t]
                   ELSE [pot[id] EXCEPT !.strong = @ + t]]
  BY <1>1, <1>2 DEF BoilWindow
<1>4. pot \in [IdsTo(sl, i) -> PotRows] /\ DOMAIN pot = IdsTo(sl, i)
  BY DEF InThePot
<1>5. ASSUME NEW id \in IdsTo(sl, i)
      PROVE  /\ pot'[id] \in PotRows
             /\ pot'[id].units = pot[id].units /\ pot'[id].milled = pot[id].milled
             /\ pot'[id].weak = pot[id].weak + (IF b THEN 0 ELSE t)
             /\ pot'[id].strong = pot[id].strong + (IF b THEN t ELSE 0)
  <2>1. pot[id] \in PotRows
    BY <1>4
  <2>2. pot'[id] = IF ~b THEN [pot[id] EXCEPT !.weak = @ + t]
                   ELSE [pot[id] EXCEPT !.strong = @ + t]
    BY <1>3, <1>4
  <2>. QED BY <2>1, <2>2 DEF PotRows
<1>6. pot' \in [IdsTo(sl, i) -> PotRows]
  BY <1>3, <1>4, <1>5
<1>7. \A j \in 1..i : sl[j].id \in IdsTo(sl, i)
  BY DEF IdsTo
<1>8. ASSUME NEW j \in 1..i
      PROVE  /\ pot'[sl[j].id].units = sl[j].qty /\ pot'[sl[j].id].milled = sl[j].milled
             /\ mode = "off" =>
                  /\ EffWeak(sl, j) \in Int /\ EffStrong(sl, j) \in Int
                  /\ pot'[sl[j].id].weak = EffWeak(sl, j) - ew + (IF b THEN 0 ELSE t)
                  /\ pot'[sl[j].id].strong = EffStrong(sl, j) - es + (IF b THEN t ELSE 0)
  <2>1. j \in 1..Len(sl)
    BY LaidRows
  <2>2. EffWeak(sl, j) \in Int /\ EffStrong(sl, j) \in Int
    BY <2>1, LaidWindows
  <2>3. /\ pot[sl[j].id].units = sl[j].qty /\ pot[sl[j].id].milled = sl[j].milled
        /\ mode = "off" => /\ pot[sl[j].id].weak = EffWeak(sl, j) - ew
                           /\ pot[sl[j].id].strong = EffStrong(sl, j) - es
    BY DEF InThePot, Boiled
  <2>. QED BY <1>5, <1>7, <2>2, <2>3
<1>9. mode' = mode
  BY <1>2 DEF Kept
<1>10. ASSUME mode = "off", ~b PROVE InThePot(sl, i, ew - t, es)'
  <2>1. \A j \in 1..i :
          /\ pot'[sl[j].id].weak = EffWeak(sl, j) - (ew - t)
          /\ pot'[sl[j].id].strong = EffStrong(sl, j) - es
    BY <1>8, <1>10
  <2>. QED BY <1>6, <1>8, <1>9, <2>1 DEF InThePot, Boiled
<1>11. ASSUME mode = "off", b PROVE InThePot(sl, i, ew, es - t)'
  <2>1. \A j \in 1..i :
          /\ pot'[sl[j].id].weak = EffWeak(sl, j) - ew
          /\ pot'[sl[j].id].strong = EffStrong(sl, j) - (es - t)
    BY <1>8, <1>11
  <2>. QED BY <1>6, <1>8, <1>9, <2>1 DEF InThePot, Boiled
<1>12. ASSUME mode # "off", NEW x, NEW y PROVE InThePot(sl, i, x, y)'
  BY <1>6, <1>8, <1>9, <1>12 DEF InThePot, Boiled
<1>13. Tidy' /\ fire'
  BY <1>3 DEF Tidy, Cooking
<1>. QED BY <1>2, <1>3, <1>10, <1>11, <1>12, <1>13

(* The wrong heat is a mistake.                                             *)
LEMMA StepWeak ==
  ASSUME NEW sl, NEW c, NEW skip, Laid(sl, c, skip), NEW i \in 1..Len(sl),
         AtWeak(sl, c, i), CarryOut
  PROVE  Kept /\ Brewing(sl, c, skip)'
<1>. DEFINE a == c[i - 1].end + PrepLen(sl[i])
<1>1. /\ OpsAt(sl, c, i) /\ c[i].w > 0 /\ cursor = a + 2
      /\ Tidy /\ InThePot(sl, i, EffWeak(sl, i), EffStrong(sl, i))
  BY LaidOps DEF AtWeak
<1>2. /\ c[i].w \in Int /\ c[i].s \in Int /\ c[i].swap \in BOOLEAN /\ a \in Nat
      /\ c[i].end = a + BoilLen(c[i].w, c[i].s)
  <2>1. PrepLen(sl[i]) \in Nat
    BY LaidRows, PreparationOps
  <2>. QED BY <2>1, LaidRows
<1>3. Going /\ Now = Boil(c[i].swap, c[i].w)
  BY <1>1 DEF OpsAt, Going, Now
<1>4. /\ EffWeak(sl, i) \in Int /\ EffWeak(sl, i + 1) \in Int
      /\ EffStrong(sl, i) \in Int /\ EffStrong(sl, i + 1) \in Int
      /\ mode = "off" =>
           /\ c[i].w = EffWeak(sl, i) - EffWeak(sl, i + 1) /\ c[i].w >= 0
           /\ c[i].s = EffStrong(sl, i) - EffStrong(sl, i + 1) /\ c[i].s >= 0
           /\ ~c[i].swap
  BY LaidWindows
<1>5. /\ Kept /\ cursor' = cursor + 1 /\ Tidy' /\ fire'
      /\ mode = "off" => InThePot(sl, i, EffWeak(sl, i) - c[i].w, EffStrong(sl, i))'
      /\ mode # "off" => \A x, y : InThePot(sl, i, x, y)'
  BY <1>1, <1>2, <1>3, <1>4, BoilAll
<1>6. InThePot(sl, i, EffWeak(sl, i + 1), EffStrong(sl, i))'
  <2>1. mode = "off" => EffWeak(sl, i) - c[i].w = EffWeak(sl, i + 1)
    BY <1>4
  <2>. QED BY <1>5, <2>1
<1>. HIDE DEF a
<1>7. CASE c[i].s > 0
  <2>1. cursor' = a + 3
    BY <1>1, <1>2, <1>5
  <2>2. AtStrong(sl, c, i)'
    BY <1>1, <1>5, <1>6, <1>7, <2>1 DEF AtStrong, a
  <2>. QED BY <1>5, <2>2 DEF Brewing
<1>8. CASE ~(c[i].s > 0)
  <2>1. BoilLen(c[i].w, c[i].s) = 3
    BY <1>1, <1>2, <1>8 DEF BoilLen
  <2>2. cursor' = c[i].end
    BY <1>1, <1>2, <1>5, <2>1
  <2>3. mode = "off" => EffStrong(sl, i + 1) = EffStrong(sl, i)
    BY <1>2, <1>4, <1>8
  <2>4. InThePot(sl, i, EffWeak(sl, i + 1), EffStrong(sl, i + 1))'
    <3>1. CASE mode = "off"
      BY <1>6, <2>3, <3>1
    <3>2. CASE mode # "off"
      BY <1>5, <3>2
    <3>. QED BY <3>1, <3>2
  <2>5. AtLift(sl, c, i)'
    BY <1>1, <1>5, <2>2, <2>4 DEF AtLift
  <2>. QED BY <1>5, <2>5 DEF Brewing
<1>. QED BY <1>7, <1>8

(* The strong window runs down what is left of the strong targets.          *)
LEMMA StepStrong ==
  ASSUME NEW sl, NEW c, NEW skip, Laid(sl, c, skip), NEW i \in 1..Len(sl),
         AtStrong(sl, c, i), CarryOut
  PROVE  Kept /\ Brewing(sl, c, skip)'
<1>. DEFINE a == c[i - 1].end + PrepLen(sl[i])
            wrong == ~c[i].swap
<1>1. /\ OpsAt(sl, c, i) /\ c[i].s > 0 /\ cursor = a + IF c[i].w > 0 THEN 3 ELSE 2
      /\ Tidy /\ InThePot(sl, i, EffWeak(sl, i + 1), EffStrong(sl, i))
  BY LaidOps DEF AtStrong
<1>2. /\ c[i].w \in Int /\ c[i].s \in Int /\ c[i].swap \in BOOLEAN /\ a \in Nat
      /\ c[i].end = a + BoilLen(c[i].w, c[i].s)
  <2>1. PrepLen(sl[i]) \in Nat
    BY LaidRows, PreparationOps
  <2>. QED BY <2>1, LaidRows
<1>3. Going /\ Now = Boil(wrong, c[i].s)
  BY <1>1 DEF OpsAt, Going, Now
<1>4. /\ EffWeak(sl, i + 1) \in Int
      /\ EffStrong(sl, i) \in Int /\ EffStrong(sl, i + 1) \in Int
      /\ mode = "off" => /\ c[i].s = EffStrong(sl, i) - EffStrong(sl, i + 1)
                         /\ ~c[i].swap
  BY LaidWindows
<1>5. wrong \in BOOLEAN /\ (mode = "off" => wrong)
  BY <1>2, <1>4
<1>. HIDE DEF wrong
<1>6. /\ Kept /\ cursor' = cursor + 1 /\ Tidy' /\ fire'
      /\ mode = "off" => InThePot(sl, i, EffWeak(sl, i + 1), EffStrong(sl, i) - c[i].s)'
      /\ mode # "off" => \A x, y : InThePot(sl, i, x, y)'
  BY <1>1, <1>2, <1>3, <1>4, <1>5, BoilAll
<1>7. InThePot(sl, i, EffWeak(sl, i + 1), EffStrong(sl, i + 1))'
  <2>1. mode = "off" => EffStrong(sl, i) - c[i].s = EffStrong(sl, i + 1)
    BY <1>4
  <2>. QED BY <1>6, <2>1
<1>. HIDE DEF a
<1>8. cursor' = c[i].end
  <2>1. BoilLen(c[i].w, c[i].s) = IF c[i].w > 0 THEN 4 ELSE 3
    BY <1>1, <1>2 DEF BoilLen
  <2>. QED BY <1>1, <1>2, <1>6, <2>1
<1>9. AtLift(sl, c, i)'
  BY <1>1, <1>6, <1>7, <1>8 DEF AtLift
<1>. QED BY <1>6, <1>9 DEF Brewing

(* The pot is taken off; the next row, or the finish, is up.                *)
LEMMA StepLift ==
  ASSUME NEW sl, NEW c, NEW skip, Laid(sl, c, skip), NEW i \in 1..Len(sl),
         AtLift(sl, c, i), CarryOut
  PROVE  Kept /\ Brewing(sl, c, skip)'
<1>1. /\ OpsAt(sl, c, i) /\ (c[i].w > 0 \/ c[i].s > 0) /\ cursor = c[i].end
      /\ Tidy /\ InThePot(sl, i, EffWeak(sl, i + 1), EffStrong(sl, i + 1))
  BY LaidOps DEF AtLift
<1>2. Going /\ Now = Op("TakePotOffFire")
  BY <1>1 DEF OpsAt, Going, Now
<1>3. Swing("TakePotOffFire", FALSE) /\ Kept /\ cursor' = cursor + 1
  BY <1>2, NextByKind, OpsTold DEF Kept
<1>4. UNCHANGED <<stock, hand, mortar, pot, based, finish>> /\ ~fire'
  BY <1>3 DEF Swing
<1>5. Tidy' /\ InThePot(sl, i, EffWeak(sl, i + 1), EffStrong(sl, i + 1))'
  BY <1>1, <1>3, <1>4 DEF Tidy, Cooking, InThePot, Boiled, Kept
<1>6. (i + 1) - 1 = i /\ i + 1 \in 1..Len(sl) + 1
  BY LaidRows
<1>7. cursor' = c[(i + 1) - 1].end + 1
  BY <1>1, <1>3, <1>6
<1>8. InThePot(sl, (i + 1) - 1, EffWeak(sl, i + 1), EffStrong(sl, i + 1))'
  BY <1>5, <1>6
<1>. QED BY <1>3, <1>4, <1>5, <1>6, <1>7, <1>8, ArriveNext

(* Where the plan ends.                                                     *)
LEMMA LaidEnd ==
  ASSUME NEW sl, NEW c, NEW skip, Laid(sl, c, skip)
  PROVE  /\ c[Len(sl)].end \in Nat /\ Len(plan) \in Nat /\ DOMAIN plan = 1..Len(plan)
         /\ FinishOps(plan, c[Len(sl)].end, recipe.distill /\ ~skip, recipe.resultMilled /\ ~skip)
<1>1. /\ Len(sl) \in Nat /\ Len(sl) \in 0..Len(sl) /\ Staged(plan, sl, c, Len(sl))
      /\ \A i \in 1..Len(sl) : sl[i] \in ParsedRows
  BY DEF Laid
<1>2. c[Len(sl)].end \in Nat
  BY <1>1, StageEnds
<1>. QED BY <1>2 DEF Laid

(* The pot is taken in hand, or the brew is finished at the mortar.         *)
LEMMA StepFinish ==
  ASSUME NEW sl, NEW c, NEW skip, Laid(sl, c, skip), AtFinish(sl, c), CarryOut
  PROVE  Kept /\ Brewing(sl, c, skip)'
<1>. DEFINE a == c[Len(sl)].end
            d == recipe.distill /\ ~skip
            m == recipe.resultMilled /\ ~skip
<1>1. /\ a \in Nat /\ Len(plan) \in Nat /\ DOMAIN plan = 1..Len(plan)
      /\ FinishOps(plan, a, d, m)
  BY LaidEnd
<1>2. cursor = a + 1 /\ Tidy /\ ~fire /\ InThePot(sl, Len(sl), 0, 0)
  BY DEF AtFinish
<1>. HIDE DEF a, d
<1>3. CASE m
  <2>1. plan[a + 1] = DoVerb("UseMortar") /\ Len(plan) = a + 1
    BY <1>1, <1>3 DEF FinishOps
  <2>2. Going /\ Now = DoVerb("UseMortar")
    BY <1>1, <1>2, <2>1 DEF Going, Now
  <2>3. (FillMortar \/ Grind \/ FinishBrew) /\ Kept /\ cursor' = cursor + 1
    BY <2>2, NextByKind, OpsTold DEF Kept
  <2>4. FinishBrew
    BY <1>2, <2>3, LaidHerbs DEF FillMortar, Grind, Tidy
  <2>5. finish' = "milled" /\ UNCHANGED pot
    <3>1. ~Verb("UsePot") /\ ~Verb("Distill")
      BY <2>2, OpsTold DEF Verb, Turn
    <3>. QED BY <2>4, <3>1 DEF FinishBrew
  <2>6. cursor' = Len(plan) + 1
    BY <1>2, <2>1, <2>3
  <2>7. ~recipe.distill
    BY <1>3 DEF Laid
  <2>8. AtVerdict(sl, skip)'
    BY <1>2, <1>3, <2>3, <2>5, <2>6, <2>7 DEF AtVerdict, InThePot, Boiled, Kept
  <2>. QED BY <2>3, <2>8 DEF Brewing
<1>4. CASE ~m
  <2>1. plan[a + 1] = Op("EnsureHoldPot") /\ Len(plan) = a + 2
    BY <1>1, <1>4, Zenon DEF FinishOps
  <2>2. Going /\ Now = Op("EnsureHoldPot")
    BY <1>1, <1>2, <2>1 DEF Going, Now
  <2>3. HoldPot /\ Kept /\ cursor' = cursor + 1
    BY <2>2, NextByKind, OpsTold DEF Kept
  <2>4. cursor' = a + 2
    BY <1>1, <1>2, <2>3
  <2>5. AtPour(sl, c, skip)'
    BY <1>2, <1>4, <2>3, <2>4 DEF AtPour, HoldPot, Tidy, Cooking, InThePot, Boiled, Kept, a
  <2>. QED BY <2>3, <2>5 DEF Brewing
<1>. QED BY <1>3, <1>4

(* The pot in hand is poured or distilled.                                  *)
LEMMA StepPour ==
  ASSUME NEW sl, NEW c, NEW skip, Laid(sl, c, skip), AtPour(sl, c, skip), CarryOut
  PROVE  Kept /\ Brewing(sl, c, skip)'
<1>. DEFINE a == c[Len(sl)].end
            d == recipe.distill /\ ~skip
            m == recipe.resultMilled /\ ~skip
<1>1. /\ a \in Nat /\ Len(plan) \in Nat /\ DOMAIN plan = 1..Len(plan)
      /\ FinishOps(plan, a, d, m)
  BY LaidEnd
<1>2. cursor = a + 2 /\ ~m /\ hand = "pot" /\ InThePot(sl, Len(sl), 0, 0)
  BY DEF AtPour
<1>. HIDE DEF a, m
<1>3. Len(plan) = a + 2 /\ plan[a + 2] = DoVerb(IF d THEN "Distill" ELSE "UsePot")
  BY <1>1, <1>2, Zenon DEF FinishOps
<1>4. Going /\ Now = DoVerb(IF d THEN "Distill" ELSE "UsePot")
  BY <1>1, <1>2, <1>3 DEF Going, Now
<1>5. (DropHerb \/ DumpMortar \/ FinishBrew) /\ Kept /\ cursor' = cursor + 1
  BY <1>4, NextByKind, OpsTold DEF Kept
<1>6. FinishBrew
  BY <1>2, <1>5, LaidHerbs, HandsAssumption DEF DropHerb, DumpMortar
<1>7. finish' = (IF d THEN "distilled" ELSE "phial") /\ UNCHANGED pot
  <2>1. CASE d
    <3>1. ~Verb("UsePot") /\ ~Verb("UseMortar")
      BY <1>4, <2>1, OpsTold DEF Verb, Turn
    <3>. QED BY <1>6, <2>1, <3>1 DEF FinishBrew
  <2>2. CASE ~d
    <3>1. ~Verb("Distill") /\ ~Verb("UseMortar")
      BY <1>4, <2>2, OpsTold DEF Verb, Turn
    <3>. QED BY <1>6, <2>2, <3>1 DEF FinishBrew
  <2>. QED BY <2>1, <2>2
<1>8. cursor' = Len(plan) + 1
  BY <1>1, <1>2, <1>3, <1>5
<1>9. AtVerdict(sl, skip)'
  BY <1>2, <1>5, <1>7, <1>8 DEF AtVerdict, InThePot, Boiled, Kept, m
<1>. QED BY <1>5, <1>9 DEF Brewing

(* After the verdict nothing of the plan is left.                           *)
LEMMA StepVerdict ==
  ASSUME NEW sl, NEW c, NEW skip, Laid(sl, c, skip), AtVerdict(sl, skip), CarryOut
  PROVE  Kept /\ Brewing(sl, c, skip)'
<1>1. ~Going
  BY LaidEnd DEF AtVerdict, Going
<1>2. UNCHANGED kitchenVars
  BY <1>1 DEF CarryOut, PourBase, TakeHerb, FillMortar, Grind, DropHerb, DumpMortar,
              Swing, BoilWindow, HoldPot, FinishBrew, Verb, Turn
<1>3. Kept /\ AtVerdict(sl, skip)'
  BY <1>2 DEF kitchenVars, tableVars, AtVerdict, InThePot, Boiled, Kept
<1>. QED BY <1>3 DEF Brewing

(* Until the verdict there is an operation to carry out, and no finish.     *)
LEMMA OnTheWay ==
  ASSUME NEW sl, NEW c, NEW skip, Laid(sl, c, skip), Brewing(sl, c, skip)
  PROVE  AtVerdict(sl, skip) \/ (Going /\ finish = Nothing)
<1>1. CASE AtBase
  <2>1. 1 \in DOMAIN plan
    <3>1. Len(sl) \in Nat /\ Len(sl) \in 0..Len(sl) /\ Staged(plan, sl, c, Len(sl))
          /\ \A i \in 1..Len(sl) : sl[i] \in ParsedRows
      BY DEF Laid
    <3>2. c[Len(sl)].end >= 1
      BY <3>1, StageEnds
    <3>. QED BY <3>2, LaidEnd DEF FinishOps
  <2>. QED BY <1>1, <2>1 DEF AtBase, Going
<1>2. ASSUME NEW i \in 1..Len(sl), NEW u \in Nat, AtTake(sl, c, i, u) \/ AtPut(sl, c, i, u)
      PROVE  Going /\ finish = Nothing
  <2>1. Preparing(sl, i, u)
    BY <1>2 DEF AtTake, AtPut
  <2>2. finish = Nothing
    BY <2>1 DEF Preparing, Cooking
  <2>3. Going
    BY <1>2, LaidOps DEF OpsAt, AtTake, AtPut, Going
  <2>. QED BY <2>2, <2>3
<1>3. ASSUME NEW i \in 1..Len(sl), AtGrind(sl, c, i) \/ AtDump(sl, c, i)
      PROVE  Going /\ finish = Nothing
  <2>1. Preparing(sl, i, sl[i].qty)
    BY <1>3 DEF AtGrind, AtDump
  <2>2. finish = Nothing
    BY <2>1 DEF Preparing, Cooking
  <2>3. Going
    BY <1>3, LaidOps DEF OpsAt, AtGrind, AtDump, Going
  <2>. QED BY <2>2, <2>3
<1>4. ASSUME NEW i \in 1..Len(sl),
             AtFire(sl, c, i) \/ AtWeak(sl, c, i) \/ AtStrong(sl, c, i) \/ AtLift(sl, c, i)
      PROVE  Going /\ finish = Nothing
  <2>1. finish = Nothing
    BY <1>4 DEF AtFire, AtWeak, AtStrong, AtLift, Tidy, Cooking
  <2>2. Going
    BY <1>4, LaidOps DEF OpsAt, AtFire, AtWeak, AtStrong, AtLift, Going
  <2>. QED BY <2>1, <2>2
<1>5. CASE AtFinish(sl, c)
  <2>1. c[Len(sl)].end + 1 \in DOMAIN plan
    BY LaidEnd DEF FinishOps
  <2>. QED BY <1>5, <2>1 DEF AtFinish, Tidy, Cooking, Going
<1>6. CASE AtPour(sl, c, skip)
  <2>1. ~(recipe.resultMilled /\ ~skip)
    BY <1>6 DEF AtPour
  <2>2. Len(plan) = c[Len(sl)].end + 2
    BY <2>1, LaidEnd, Zenon DEF FinishOps
  <2>3. c[Len(sl)].end + 2 \in DOMAIN plan
    BY <2>2, LaidEnd
  <2>. QED BY <1>6, <2>3 DEF AtPour, Cooking, Going
<1>. QED BY <1>1, <1>2, <1>3, <1>4, <1>5, <1>6 DEF Brewing

(* Whatever the table does, it stays in step with the plan.                 *)
LEMMA BrewingGoesOn ==
  ASSUME NEW sl, NEW c, NEW skip, Laid(sl, c, skip), Brewing(sl, c, skip), CarryOut
  PROVE  Laid(sl, c, skip)' /\ Brewing(sl, c, skip)'
<1>1. Kept /\ Brewing(sl, c, skip)'
  <2>1. CASE AtBase
    BY <2>1, StepBase
  <2>2. ASSUME NEW i \in 1..Len(sl), NEW u \in Nat, AtTake(sl, c, i, u)
        PROVE  Kept /\ Brewing(sl, c, skip)'
    BY <2>2, StepTake
  <2>3. ASSUME NEW i \in 1..Len(sl), NEW u \in Nat, AtPut(sl, c, i, u)
        PROVE  Kept /\ Brewing(sl, c, skip)'
    BY <2>3, StepFill, StepDrop
  <2>4. ASSUME NEW i \in 1..Len(sl), AtGrind(sl, c, i) \/ AtDump(sl, c, i)
        PROVE  Kept /\ Brewing(sl, c, skip)'
    BY <2>4, StepGrind, StepDump
  <2>5. ASSUME NEW i \in 1..Len(sl), AtFire(sl, c, i) \/ AtLift(sl, c, i)
        PROVE  Kept /\ Brewing(sl, c, skip)'
    BY <2>5, StepFire, StepLift
  <2>6. ASSUME NEW i \in 1..Len(sl), AtWeak(sl, c, i) \/ AtStrong(sl, c, i)
        PROVE  Kept /\ Brewing(sl, c, skip)'
    BY <2>6, StepWeak, StepStrong
  <2>7. CASE AtFinish(sl, c)
    BY <2>7, StepFinish
  <2>8. CASE AtPour(sl, c, skip)
    BY <2>8, StepPour
  <2>9. CASE AtVerdict(sl, skip)
    BY <2>9, StepVerdict
  <2>. QED BY <2>1, <2>2, <2>3, <2>4, <2>5, <2>6, <2>7, <2>8, <2>9 DEF Brewing
<1>. QED BY <1>1, LaidStays

(* The plan and its place are about the variables of the table only.        *)
LEMMA BrewingRests ==
  ASSUME NEW sl, NEW c, NEW skip, Laid(sl, c, skip), Brewing(sl, c, skip),
         UNCHANGED kitchenVars
  PROVE  Laid(sl, c, skip)' /\ Brewing(sl, c, skip)'
<1>. USE DEF kitchenVars, tableVars
<1>1. Laid(sl, c, skip)'
  BY LaidStays DEF Kept
<1>2. \A i, ew, es : InThePot(sl, i, ew, es)' <=> InThePot(sl, i, ew, es)
  BY DEF InThePot, Boiled
<1>3. \A i, u : Preparing(sl, i, u)' <=> Preparing(sl, i, u)
  BY DEF Preparing, Boiled, Cooking
<1>4. (Tidy' <=> Tidy) /\ (Cooking' <=> Cooking)
  BY DEF Tidy, Cooking
<1>5. AtBase' <=> AtBase
  BY DEF AtBase
<1>6. \A i, u : (AtTake(sl, c, i, u)' <=> AtTake(sl, c, i, u)) /\ (AtPut(sl, c, i, u)' <=> AtPut(sl, c, i, u))
  BY <1>3 DEF AtTake, AtPut
<1>7. \A i : (AtGrind(sl, c, i)' <=> AtGrind(sl, c, i)) /\ (AtDump(sl, c, i)' <=> AtDump(sl, c, i))
  BY <1>3 DEF AtGrind, AtDump
<1>8. \A i : (AtFire(sl, c, i)' <=> AtFire(sl, c, i)) /\ (AtWeak(sl, c, i)' <=> AtWeak(sl, c, i))
  BY <1>2, <1>4 DEF AtFire, AtWeak
<1>9. \A i : (AtStrong(sl, c, i)' <=> AtStrong(sl, c, i)) /\ (AtLift(sl, c, i)' <=> AtLift(sl, c, i))
  BY <1>2, <1>4 DEF AtStrong, AtLift
<1>10. /\ AtFinish(sl, c)' <=> AtFinish(sl, c)
       /\ AtPour(sl, c, skip)' <=> AtPour(sl, c, skip)
       /\ AtVerdict(sl, skip)' <=> AtVerdict(sl, skip)
  BY <1>2, <1>4 DEF AtFinish, AtPour, AtVerdict
<1>11. Brewing(sl, c, skip)'
  BY <1>5, <1>6, <1>7, <1>8, <1>9, <1>10 DEF Brewing
<1>. QED BY <1>1, <1>11

LEMMA KitchenStutter ==
  ASSUME KitchenInv, UNCHANGED kitchenVars
  PROVE  KitchenInv'
<1>1. CASE \E sl, c, skip : Laid(sl, c, skip) /\ Brewing(sl, c, skip)
  <2>1. PICK sl, c, skip : Laid(sl, c, skip) /\ Brewing(sl, c, skip)
    BY <1>1
  <2>. QED BY <2>1, BrewingRests DEF KitchenInv
<1>2. CASE ~\E sl, c, skip : Laid(sl, c, skip) /\ Brewing(sl, c, skip)
  BY <1>2 DEF KitchenInv, kitchenVars, tableVars
<1>. QED BY <1>1, <1>2

(* The invariant is inductive; a refused recipe has no steps.               *)
LEMMA KitchenStep == KitchenInv /\ [KitchenNext]_kitchenVars => KitchenInv'
<1>. SUFFICES ASSUME KitchenInv, [KitchenNext]_kitchenVars PROVE KitchenInv'
  OBVIOUS
<1>1. CASE UNCHANGED kitchenVars
  BY <1>1, KitchenStutter
<1>2. CASE CarryOut /\ \E sl, c, skip : Laid(sl, c, skip) /\ Brewing(sl, c, skip)
  <2>1. PICK sl, c, skip : Laid(sl, c, skip) /\ Brewing(sl, c, skip)
    BY <1>2
  <2>2. Laid(sl, c, skip)' /\ Brewing(sl, c, skip)'
    BY <1>2, <2>1, BrewingGoesOn
  <2>. QED BY <2>2 DEF KitchenInv
<1>3. CASE CarryOut /\ plan = Refused
  <2>1. ~Going
    BY <1>3 DEF Going, Refused
  <2>. QED BY <1>3, <2>1 DEF CarryOut, PourBase, TakeHerb, FillMortar, Grind, DropHerb, DumpMortar,
                             Swing, BoilWindow, HoldPot, FinishBrew, Verb, Turn
<1>4. CASE RunDry \/ BrewOver
  BY <1>4, KitchenStutter DEF RunDry, BrewOver
<1>. QED BY <1>1, <1>2, <1>3, <1>4 DEF KitchenInv, KitchenNext

(* The verdict of a brew without mistakes.                                  *)
LEMMA VerdictMeetsSteps ==
  ASSUME NEW sl, NEW c, NEW skip, Laid(sl, c, skip), AtVerdict(sl, skip), mode = "off",
         NEW i \in DOMAIN recipe.rows
  PROVE  recipe.rows[i].id \in DOMAIN pot
         /\ StepsMet(recipe.rows[i], pot[recipe.rows[i].id])
<1>. DEFINE row == recipe.rows[i]
<1>1. /\ recipe \in Recipes /\ sl = Sorted(recipe.rows) /\ sl \in Seq(ParsedRows)
      /\ Len(sl) = Len(recipe.rows)
  BY DEF Laid
<1>2. recipe.rows \in Seq(ParsedRows) /\ DOMAIN recipe.rows = 1..Len(recipe.rows)
  BY <1>1, RecipeRows
<1>3. \A m \in 1..Len(recipe.rows) : \E k \in 1..Len(recipe.rows) :
        Sorted(recipe.rows)[k] = recipe.rows[m]
  BY <1>2, SortedRows
<1>4. PICK k \in 1..Len(sl) : sl[k] = row
  BY <1>1, <1>2, <1>3
<1>5. InThePot(sl, Len(sl), 0, 0)
  BY DEF AtVerdict
<1>6. row.id \in IdsTo(sl, Len(sl))
  BY <1>4 DEF IdsTo
<1>7. row.id \in DOMAIN pot /\ pot[row.id] \in PotRows
  BY <1>5, <1>6 DEF InThePot
<1>8. /\ row \in ParsedRows /\ row.qty \in Nat /\ row.weak \in Int /\ row.strong \in Int
  <2>1. row \in ParsedRows
    BY <1>4, LaidRows
  <2>. QED BY <2>1 DEF ParsedRows
<1>9. EffWeak(sl, k) \in Int /\ EffStrong(sl, k) \in Int
  BY LaidWindows
<1>. DEFINE in == pot[row.id]
<1>10. /\ in.units = row.qty /\ in.milled = row.milled
       /\ in.weak = EffWeak(sl, k) - 0 /\ in.strong = EffStrong(sl, k) - 0
  BY <1>4, <1>5 DEF InThePot, Boiled
<1>11. /\ row.weak >= 0 => EffWeak(sl, k) = row.weak
       /\ row.strong >= 0 => EffStrong(sl, k) = row.strong
  <2>1. Len(sl) \in Nat /\ k \in 1..Len(sl) + 1 /\ DOMAIN sl = 1..Len(sl)
    BY <1>1
  <2>2. Weakly(sl)[k] = row.weak /\ Strongly(sl)[k] = row.strong
    BY <1>4, <2>1 DEF Weakly, Strongly
  <2>3. /\ Weakly(sl)[k] >= 0 => Inherited(Weakly(sl), k) = Weakly(sl)[k]
        /\ Strongly(sl)[k] >= 0 => Inherited(Strongly(sl), k) = Strongly(sl)[k]
    BY <1>1, <2>1, TargetsOf, Inherits
  <2>. QED BY <2>2, <2>3 DEF EffWeak, EffStrong
<1>12. ~(row.milled /\ row.mustNotMill)
  BY <1>1 DEF Recipes
<1>. HIDE DEF in, row
<1>13. StepsMet(row, in)
  <2>1. in.units >= row.qty
    BY <1>8, <1>10
  <2>2. /\ row.weak >= 0 => in.weak = row.weak
        /\ row.strong >= 0 => in.strong = row.strong
    BY <1>8, <1>9, <1>10, <1>11
  <2>3. (row.milled => in.milled) /\ (row.mustNotMill => ~in.milled)
    BY <1>10, <1>12, Zenon
  <2>. QED BY <2>1, <2>2, <2>3 DEF StepsMet
<1>. QED BY <1>7, <1>13 DEF in, row

(* While a row is put in, and while it boils, the table is in step.         *)
LEMMA FitsRow ==
  ASSUME NEW sl, NEW c, NEW skip, Laid(sl, c, skip), NEW i \in 1..Len(sl), NEW u \in Nat,
         AtTake(sl, c, i, u) \/ AtPut(sl, c, i, u) \/ AtGrind(sl, c, i) \/ AtDump(sl, c, i)
  PROVE  TableTakes
<1>1. OpsAt(sl, c, i) /\ sl[i].id \in IdsOf(recipe) /\ sl[i].qty \in Nat \ {0}
  BY LaidOps, LaidRows
<1>2. CASE AtTake(sl, c, i, u)
  <2>1. Now = TakeIngredient(sl[i].id) /\ hand = Nothing
    BY <1>1, <1>2 DEF OpsAt, AtTake, Now
  <2>. QED BY <2>1, OpsTold DEF TableTakes
<1>3. CASE AtPut(sl, c, i, u)
  <2>1. Now = DoVerb(IF sl[i].milled THEN "UseMortar" ELSE "UsePot") /\ hand = sl[i].id
    BY <1>1, <1>3 DEF OpsAt, AtPut, Now
  <2>2. based /\ ~fire
    BY <1>3 DEF AtPut, Preparing, Cooking
  <2>. QED BY <1>1, <2>1, <2>2 DEF TableTakes
<1>4. CASE AtGrind(sl, c, i)
  <2>1. Now = DoVerb("UseMortar") /\ hand = Nothing
    BY <1>1, <1>4 DEF OpsAt, AtGrind, Now
  <2>2. DOMAIN mortar # {}
    BY <1>1, <1>4 DEF AtGrind, Preparing
  <2>. QED BY <2>1, <2>2 DEF TableTakes
<1>5. CASE AtDump(sl, c, i)
  <2>1. Now = DoVerb("UsePot") /\ hand = "ground"
    BY <1>1, <1>5 DEF OpsAt, AtDump, Now
  <2>2. based /\ ~fire
    BY <1>5 DEF AtDump, Preparing, Cooking
  <2>. QED BY <2>1, <2>2 DEF TableTakes
<1>. QED BY <1>2, <1>3, <1>4, <1>5

(* The pot is over the fire just when a window is boiled.                   *)
LEMMA FitsFire ==
  ASSUME NEW sl, NEW c, NEW skip, Laid(sl, c, skip), NEW i \in 1..Len(sl),
         AtFire(sl, c, i) \/ AtWeak(sl, c, i) \/ AtStrong(sl, c, i) \/ AtLift(sl, c, i)
  PROVE  TableTakes
<1>1. OpsAt(sl, c, i) /\ c[i].swap \in BOOLEAN
  BY LaidOps, LaidRows
<1>2. hand = Nothing /\ based
  BY DEF AtFire, AtWeak, AtStrong, AtLift, Tidy, Cooking
<1>3. CASE AtFire(sl, c, i)
  <2>1. Now = Op("SetPotOnFire") /\ ~fire
    BY <1>1, <1>3 DEF OpsAt, AtFire, Now
  <2>. QED BY <1>2, <2>1 DEF TableTakes
<1>4. CASE AtWeak(sl, c, i)
  <2>1. Now = Boil(c[i].swap, c[i].w) /\ fire
    BY <1>1, <1>4 DEF OpsAt, AtWeak, Now
  <2>2. Now.kind \in {"BoilWeak", "BoilStrong"}
    BY <2>1, OpsTold
  <2>. QED BY <1>2, <2>1, <2>2 DEF TableTakes
<1>5. CASE AtStrong(sl, c, i)
  <2>1. Now = Boil(~c[i].swap, c[i].s) /\ fire
    BY <1>1, <1>5 DEF OpsAt, AtStrong, Now
  <2>2. Now.kind \in {"BoilWeak", "BoilStrong"}
    BY <2>1, OpsTold
  <2>. QED BY <1>2, <2>1, <2>2 DEF TableTakes
<1>6. CASE AtLift(sl, c, i)
  <2>1. Now = Op("TakePotOffFire") /\ fire
    BY <1>1, <1>6 DEF OpsAt, AtLift, Now
  <2>. QED BY <1>2, <2>1 DEF TableTakes
<1>. QED BY <1>3, <1>4, <1>5, <1>6

(* Something is in the pot when the last row is behind.                     *)
LEMMA FitsFinish ==
  ASSUME NEW sl, NEW c, NEW skip, Laid(sl, c, skip), recipe.rows # << >>,
         AtFinish(sl, c) \/ AtPour(sl, c, skip)
  PROVE  TableTakes
<1>. DEFINE a == c[Len(sl)].end
            d == recipe.distill /\ ~skip
            m == recipe.resultMilled /\ ~skip
<1>1. /\ a \in Nat /\ Len(plan) \in Nat /\ DOMAIN plan = 1..Len(plan)
      /\ FinishOps(plan, a, d, m)
  BY LaidEnd
<1>2. DOMAIN pot # {}
  <2>1. DOMAIN pot = IdsTo(sl, Len(sl))
    BY DEF AtFinish, AtPour, InThePot
  <2>2. recipe.rows \in Seq(ParsedRows) /\ Len(sl) = Len(recipe.rows)
    BY RecipeRows DEF Laid
  <2>3. Len(sl) \in Nat /\ Len(sl) # 0
    BY <2>2
  <2>4. sl[1].id \in IdsTo(sl, Len(sl))
    BY <2>3 DEF IdsTo
  <2>. QED BY <2>1, <2>4
<1>3. CASE AtFinish(sl, c)
  <2>1. cursor = a + 1 /\ hand = Nothing /\ based /\ DOMAIN mortar = {} /\ ~fire
    BY <1>3 DEF AtFinish, Tidy, Cooking
  <2>. HIDE DEF a, d, m
  <2>2. CASE m
    <3>1. Now = DoVerb("UseMortar") /\ cursor = Len(plan)
      BY <1>1, <2>1, <2>2 DEF FinishOps, Now
    <3>. QED BY <1>2, <2>1, <3>1 DEF TableTakes
  <2>3. CASE ~m
    <3>1. Now = Op("EnsureHoldPot")
      BY <1>1, <2>1, <2>3, Zenon DEF FinishOps, Now
    <3>. QED BY <2>1, <3>1 DEF TableTakes
  <2>. QED BY <2>2, <2>3
<1>4. CASE AtPour(sl, c, skip)
  <2>1. /\ cursor = a + 2 /\ ~m /\ hand = "pot" /\ based /\ DOMAIN mortar = {} /\ ~fire
    BY <1>4 DEF AtPour, Cooking
  <2>. HIDE DEF a, d, m
  <2>2. plan[a + 2] = DoVerb(IF d THEN "Distill" ELSE "UsePot") /\ Len(plan) = a + 2
    BY <1>1, <2>1, Zenon DEF FinishOps
  <2>3. Now \in {DoVerb("UsePot"), DoVerb("Distill")} /\ cursor = Len(plan)
    BY <2>1, <2>2 DEF Now
  <2>. QED BY <1>2, <2>1, <2>3 DEF TableTakes
<1>. QED BY <1>3, <1>4

(* The table fits the operation at every place of the plan.                 *)
LEMMA KitchenFits == KitchenInv /\ Going /\ recipe.rows # << >> => TableTakes
<1>. SUFFICES ASSUME KitchenInv, Going, recipe.rows # << >> PROVE TableTakes
  OBVIOUS
<1>1. plan # Refused
  BY DEF Going, Refused
<1>2. PICK sl, c, skip : Laid(sl, c, skip) /\ Brewing(sl, c, skip)
  BY <1>1 DEF KitchenInv
<1>3. CASE AtBase
  <2>1. Now = DoVerb("PourBase") /\ ~based
    BY <1>2, <1>3 DEF Laid, Staged, AtBase, Now
  <2>. QED BY <2>1 DEF TableTakes
<1>4. ~AtVerdict(sl, skip)
  BY <1>2, LaidEnd DEF AtVerdict, Going
<1>5. ASSUME NEW i \in 1..Len(sl), NEW u \in Nat, AtTake(sl, c, i, u) \/ AtPut(sl, c, i, u)
      PROVE  TableTakes
  BY <1>2, <1>5, FitsRow
<1>6. ASSUME NEW i \in 1..Len(sl), AtGrind(sl, c, i) \/ AtDump(sl, c, i)
      PROVE  TableTakes
  <2>1. 0 \in Nat
    OBVIOUS
  <2>. QED BY <1>2, <1>6, <2>1, FitsRow
<1>7. ASSUME NEW i \in 1..Len(sl),
             AtFire(sl, c, i) \/ AtWeak(sl, c, i) \/ AtStrong(sl, c, i) \/ AtLift(sl, c, i)
      PROVE  TableTakes
  BY <1>2, <1>7, FitsFire
<1>8. ASSUME AtFinish(sl, c) \/ AtPour(sl, c, skip)
      PROVE  TableTakes
  BY <1>2, <1>8, FitsFinish
<1>. QED BY <1>2, <1>3, <1>4, <1>5, <1>6, <1>7, <1>8 DEF Brewing

(* What is promised of a brew, from the table's state and at its verdict.   *)
LEMMA KitchenSafe == KitchenInv => BrewsRecipe
<1>. SUFFICES ASSUME KitchenInv PROVE BrewsRecipe
  OBVIOUS
<1>1. Going /\ recipe.rows # << >> => TableTakes
  BY KitchenFits
<1>2. CASE /\ plan = Refused /\ finish = Nothing /\ recipe \in Recipes
           /\ ~Schedulable(Sorted(recipe.rows)) \/ (recipe.distill /\ recipe.resultMilled)
  <2>1. ~(SpareHeat(recipe) /\ OneFinish(recipe))
    BY <1>2, SparePlan DEF OneFinish
  <2>. QED BY <1>2, <1>1, <2>1 DEF BrewsRecipe
<1>3. CASE \E sl, c, skip : Laid(sl, c, skip) /\ Brewing(sl, c, skip)
  <2>1. PICK sl, c, skip : Laid(sl, c, skip) /\ Brewing(sl, c, skip)
    BY <1>3
  <2>2. AtVerdict(sl, skip) \/ (Going /\ finish = Nothing)
    BY <2>1, OnTheWay
  <2>3. plan # Refused
    <3>1. Len(plan) # 0
      BY <2>1, LaidEnd DEF FinishOps
    <3>. QED BY <3>1 DEF Refused
  <2>4. ~Going => finish # Nothing
    BY <2>2, HandsAssumption DEF AtVerdict
  <2>5. ASSUME mode = "off", finish # Nothing
        PROVE  /\ \A i \in DOMAIN recipe.rows :
                    recipe.rows[i].id \in DOMAIN pot
                    /\ StepsMet(recipe.rows[i], pot[recipe.rows[i].id])
               /\ finish = IF recipe.distill THEN "distilled"
                           ELSE IF recipe.resultMilled THEN "milled" ELSE "phial"
    <3>1. AtVerdict(sl, skip)
      BY <2>2, <2>5
    <3>2. ~skip
      BY <2>1, <2>5 DEF Laid
    <3>. QED BY <2>1, <2>5, <3>1, <3>2, VerdictMeetsSteps DEF AtVerdict
  <2>. QED BY <1>1, <2>3, <2>4, <2>5 DEF BrewsRecipe
<1>. QED BY <1>2, <1>3 DEF KitchenInv

(* Executor::BuildPlan: whatever a recipe asks for, a finished brew without *)
(* mistakes meets all of it, and with conditions for one heat only there is *)
(* a plan.  With every mistake the engine may roll, the plan of a recipe    *)
(* with an ingredient fits the table at every operation: no herb is in hand *)
(* when the pot is swung, no mortar is left full, and only the last         *)
(* operation grades the brew.  Units at the station may still be missing.   *)
THEOREM RecipesBrewed == KitchenSpec => []BrewsRecipe
<1>1. KitchenInit => KitchenInv
  BY KitchenStart
<1>2. KitchenInv /\ [KitchenNext]_kitchenVars => KitchenInv'
  BY KitchenStep
<1>3. KitchenInv => BrewsRecipe
  BY KitchenSafe
<1>. QED BY <1>1, <1>2, <1>3, PTL DEF KitchenSpec


-----------------------------------------------------------------------------
(* The station of every row holds what the recipe lists, and with mistakes  *)
(* a unit more.                                                             *)
StacksCover ==
  \A i \in DOMAIN recipe.rows :
    stock[recipe.rows[i].id] >= recipe.rows[i].qty + IF mode = "off" THEN 0 ELSE 1

(* A unit that the plan still takes is still at its station, with all the   *)
(* units of its row that come after it.                                     *)
UnitsLeft(sl, c) ==
  /\ stock \in [IdsOf(recipe) -> Int]
  /\ \A i \in 1..Len(sl) : \A u \in 0..sl[i].qty - 1 :
       cursor <= c[i - 1].end + 2 * u + 1 => stock[sl[i].id] >= sl[i].qty - u

StockInv ==
  \/ plan = Refused
  \/ \E sl, c, skip : Laid(sl, c, skip) /\ Brewing(sl, c, skip) /\ UnitsLeft(sl, c)

(* StockStations brings a number of units for every row.                    *)
LEMMA StationsStocked == KitchenInit => stock \in [IdsOf(recipe) -> Int]
<1>. SUFFICES ASSUME KitchenInit PROVE stock \in [IdsOf(recipe) -> Int]
  OBVIOUS
<1>1. PICK o \in Orders : stock \in [IdsOf(recipe) -> StockStations(o.fresh, o.dried, mode)]
  BY DEF KitchenInit
<1>2. o.fresh \in Nat /\ o.dried \in Nat
  BY OrdersAssumption
<1>3. StockStations(o.fresh, o.dried, mode) \subseteq Int
  BY <1>2 DEF StockStations
<1>. QED BY <1>1, <1>3

(* No row is over-counted by more than the unit to spare.                   *)
LEMMA CoverLasts ==
  ASSUME NEW sl, NEW c, NEW skip, Laid(sl, c, skip), StacksCover,
         stock \in [IdsOf(recipe) -> Int]
  PROVE  UnitsLeft(sl, c)
<1>. SUFFICES ASSUME NEW i \in 1..Len(sl), NEW u \in 0..sl[i].qty - 1
              PROVE  stock[sl[i].id] >= sl[i].qty - u
  BY DEF UnitsLeft
<1>. DEFINE row == Sorted(recipe.rows)[i]
<1>1. /\ recipe \in Recipes /\ Len(sl) = Len(recipe.rows) /\ sl[i].id = row.id
      /\ sl[i].qty <= row.qty + 1
      /\ mode = "off" => sl[i] = row
  BY DEF Laid
<1>2. recipe.rows \in Seq(ParsedRows) /\ DOMAIN recipe.rows = 1..Len(recipe.rows)
  BY <1>1, RecipeRows
<1>3. \A l \in 1..Len(recipe.rows) :
        \E k \in 1..Len(recipe.rows) : Sorted(recipe.rows)[l] = recipe.rows[k]
  BY <1>2, SortedRows
<1>4. PICK k \in 1..Len(recipe.rows) : row = recipe.rows[k]
  BY <1>1, <1>3
<1>5. row \in ParsedRows /\ k \in DOMAIN recipe.rows
  BY <1>2, <1>4
<1>6. row.qty \in Nat /\ row.id \in IdsOf(recipe)
  BY <1>4, <1>5 DEF ParsedRows, IdsOf
<1>7. stock[row.id] >= row.qty + IF mode = "off" THEN 0 ELSE 1
  BY <1>4, <1>5 DEF StacksCover
<1>8. sl[i].qty \in Nat /\ stock[row.id] \in Int
  BY <1>6, LaidRows
<1>. HIDE DEF row
<1>9. stock[row.id] >= sl[i].qty
  <2>1. CASE mode = "off"
    BY <1>1, <1>6, <1>7, <1>8, <2>1
  <2>2. CASE mode # "off"
    BY <1>1, <1>6, <1>7, <1>8, <2>2
  <2>. QED BY <2>1, <2>2
<1>. QED BY <1>1, <1>8, <1>9

(* A unit is taken only where a stage puts it in.                           *)
LEMMA TakeNow ==
  ASSUME NEW sl, NEW c, NEW skip, Laid(sl, c, skip), Brewing(sl, c, skip),
         Going, Now.kind = "TakeIngredient"
  PROVE  \E i \in 1..Len(sl), u \in Nat :
           AtTake(sl, c, i, u) /\ Now = TakeIngredient(sl[i].id)
<1>1. \A v : Now # DoVerb(v)
  BY OpsTold
<1>2. \A b, t : Now # Boil(b, t)
  BY OpsTold
<1>3. \A k : Now = Op(k) => k = "TakeIngredient"
  BY OpsTold
<1>4. ~AtBase
  BY <1>1 DEF Laid, Staged, AtBase, Now
<1>5. ~AtVerdict(sl, skip)
  BY LaidEnd DEF AtVerdict, Going
<1>6. ASSUME NEW i \in 1..Len(sl), NEW u \in Nat, AtPut(sl, c, i, u)
      PROVE  FALSE
  <2>1. OpsAt(sl, c, i)
    BY LaidOps
  <2>. QED BY <1>1, <1>6, <2>1 DEF OpsAt, AtPut, Now
<1>7. ASSUME NEW i \in 1..Len(sl), AtGrind(sl, c, i) \/ AtDump(sl, c, i)
      PROVE  FALSE
  <2>1. OpsAt(sl, c, i)
    BY LaidOps
  <2>. QED BY <1>1, <1>7, <2>1 DEF OpsAt, AtGrind, AtDump, Now
<1>8. ASSUME NEW i \in 1..Len(sl), AtFire(sl, c, i) \/ AtLift(sl, c, i)
      PROVE  FALSE
  <2>1. OpsAt(sl, c, i)
    BY LaidOps
  <2>2. Now = Op("SetPotOnFire") \/ Now = Op("TakePotOffFire")
    BY <1>8, <2>1 DEF OpsAt, AtFire, AtLift, Now
  <2>. QED BY <1>3, <2>2
<1>9. ASSUME NEW i \in 1..Len(sl), AtWeak(sl, c, i) \/ AtStrong(sl, c, i)
      PROVE  FALSE
  <2>1. OpsAt(sl, c, i)
    BY LaidOps
  <2>2. Now = Boil(c[i].swap, c[i].w) \/ Now = Boil(~c[i].swap, c[i].s)
    BY <1>9, <2>1 DEF OpsAt, AtWeak, AtStrong, Now
  <2>. QED BY <1>2, <2>2
<1>10. ~AtFinish(sl, c) /\ ~AtPour(sl, c, skip)
  <2>. DEFINE a == c[Len(sl)].end
              d == recipe.distill /\ ~skip
              m == recipe.resultMilled /\ ~skip
  <2>1. FinishOps(plan, a, d, m)
    BY LaidEnd
  <2>2. AtPour(sl, c, skip) => ~m /\ cursor = a + 2
    BY DEF AtPour
  <2>3. AtFinish(sl, c) => cursor = a + 1
    BY DEF AtFinish
  <2>. HIDE DEF a, d, m
  <2>4. ~m => plan[a + 1] = Op("EnsureHoldPot") /\ \E v : plan[a + 2] = DoVerb(v)
    BY <2>1, Zenon DEF FinishOps
  <2>5. m => plan[a + 1] = DoVerb("UseMortar")
    BY <2>1, Zenon DEF FinishOps
  <2>6. ~AtFinish(sl, c)
    <3>1. CASE m
      BY <1>1, <2>3, <2>5, <3>1 DEF Now
    <3>2. CASE ~m
      BY <1>3, <2>3, <2>4, <3>2 DEF Now
    <3>. QED BY <3>1, <3>2
  <2>7. ~AtPour(sl, c, skip)
    BY <1>1, <2>2, <2>4 DEF Now
  <2>. QED BY <2>6, <2>7
<1>11. PICK i \in 1..Len(sl), u \in Nat : AtTake(sl, c, i, u)
  BY <1>4, <1>5, <1>6, <1>7, <1>8, <1>9, <1>10 DEF Brewing
<1>12. Now = TakeIngredient(sl[i].id)
  <2>1. OpsAt(sl, c, i)
    BY LaidOps
  <2>. QED BY <1>11, <2>1 DEF OpsAt, AtTake, Now
<1>. QED BY <1>11, <1>12

(* A take uses up one unit and the operation that asked for it.             *)
LEMMA UnitsLeftGoOn ==
  ASSUME NEW sl, NEW c, NEW skip, Laid(sl, c, skip), Brewing(sl, c, skip), UnitsLeft(sl, c),
         CarryOut
  PROVE  UnitsLeft(sl, c)'
<1>1. Going
  BY DEF CarryOut, PourBase, TakeHerb, FillMortar, Grind, DropHerb, DumpMortar,
         Swing, BoilWindow, HoldPot, FinishBrew, Verb, Turn
<1>2. cursor' = cursor + 1 /\ recipe' = recipe
  BY <1>1, NextByKind
<1>3. cursor \in Int
  BY <1>1, LaidEnd DEF Going
<1>4. \A i \in 1..Len(sl) : sl[i].qty \in Nat /\ c[i - 1].end \in Nat /\ sl[i].id \in IdsOf(recipe)
  BY LaidRows
<1>5. /\ stock \in [IdsOf(recipe) -> Int]
      /\ \A i \in 1..Len(sl) : \A u \in 0..sl[i].qty - 1 :
           cursor <= c[i - 1].end + 2 * u + 1 => stock[sl[i].id] >= sl[i].qty - u
  BY DEF UnitsLeft
<1>6. CASE Now.kind # "TakeIngredient"
  <2>1. stock' = stock
    BY <1>6 DEF CarryOut, PourBase, TakeHerb, FillMortar, Grind, DropHerb, DumpMortar,
                Swing, BoilWindow, HoldPot, FinishBrew, Turn
  <2>2. ASSUME NEW i \in 1..Len(sl), NEW u \in 0..sl[i].qty - 1,
               cursor' <= c[i - 1].end + 2 * u + 1
        PROVE  stock[sl[i].id] >= sl[i].qty - u
    BY <1>2, <1>3, <1>4, <1>5, <2>2
  <2>3. IdsOf(recipe)' = IdsOf(recipe)
    BY <1>2 DEF IdsOf
  <2>. QED BY <1>5, <2>1, <2>2, <2>3 DEF UnitsLeft
<1>7. CASE Now.kind = "TakeIngredient"
  <2>1. PICK i \in 1..Len(sl), u \in Nat : AtTake(sl, c, i, u) /\ Now = TakeIngredient(sl[i].id)
    BY <1>1, <1>7, TakeNow
  <2>2. stock' = [stock EXCEPT ![sl[i].id] = @ - 1]
    BY <1>1, <1>7, <2>1, NextByKind, OpsTold DEF TakeHerb
  <2>3. cursor = c[i - 1].end + 2 * u + 1
    BY <2>1 DEF AtTake
  <2>4. ASSUME NEW j \in 1..Len(sl), NEW v \in 0..sl[j].qty - 1,
               cursor' <= c[j - 1].end + 2 * v + 1
        PROVE  stock'[sl[j].id] >= sl[j].qty - v
    <3>1. CASE j = i
      <4>1. v - 1 \in Nat /\ v - 1 >= u
        BY <1>2, <1>3, <1>4, <2>3, <2>4, <3>1
      <4>2. v - 1 \in 0..sl[i].qty - 1 /\ cursor <= c[i - 1].end + 2 * (v - 1) + 1
        BY <1>3, <1>4, <2>3, <3>1, <4>1
      <4>3. stock[sl[i].id] >= sl[i].qty - (v - 1)
        BY <1>5, <4>2
      <4>4. stock'[sl[i].id] = stock[sl[i].id] - 1 /\ stock[sl[i].id] \in Int
        BY <1>4, <1>5, <2>2
      <4>. QED BY <1>4, <3>1, <4>1, <4>3, <4>4
    <3>2. CASE j # i
      <4>1. sl[j].id # sl[i].id
        BY <3>2, LaidIds
      <4>2. stock'[sl[j].id] = stock[sl[j].id]
        BY <1>4, <1>5, <2>2, <4>1
      <4>3. cursor <= c[j - 1].end + 2 * v + 1
        BY <1>2, <1>3, <1>4, <2>4
      <4>. QED BY <1>5, <4>2, <4>3
    <3>. QED BY <3>1, <3>2
  <2>5. stock' \in [IdsOf(recipe) -> Int]
    BY <1>4, <1>5, <2>2
  <2>6. IdsOf(recipe)' = IdsOf(recipe)
    BY <1>2 DEF IdsOf
  <2>. QED BY <2>4, <2>5, <2>6 DEF UnitsLeft
<1>. QED BY <1>6, <1>7

(* What is left at the stations is enough after every step.                 *)
LEMMA StockStep == StockInv /\ [KitchenNext]_kitchenVars => StockInv'
<1>. SUFFICES ASSUME StockInv, [KitchenNext]_kitchenVars PROVE StockInv'
  OBVIOUS
<1>1. CASE plan = Refused
  <2>1. ~Going
    BY <1>1 DEF Going, Refused
  <2>2. plan' = plan
    BY <2>1 DEF KitchenNext, CarryOut, RunDry, BrewOver, kitchenVars, PourBase, TakeHerb,
                FillMortar, Grind, DropHerb, DumpMortar, Swing, BoilWindow, HoldPot,
                FinishBrew, Verb, Turn
  <2>. QED BY <1>1, <2>2 DEF StockInv, Refused
<1>2. CASE \E sl, c, skip : Laid(sl, c, skip) /\ Brewing(sl, c, skip) /\ UnitsLeft(sl, c)
  <2>1. PICK sl, c, skip : Laid(sl, c, skip) /\ Brewing(sl, c, skip) /\ UnitsLeft(sl, c)
    BY <1>2
  <2>2. CASE CarryOut
    BY <2>1, <2>2, BrewingGoesOn, UnitsLeftGoOn DEF StockInv
  <2>3. CASE UNCHANGED kitchenVars
    <3>1. Laid(sl, c, skip)' /\ Brewing(sl, c, skip)'
      BY <2>1, <2>3, BrewingRests
    <3>2. UnitsLeft(sl, c)'
      BY <2>1, <2>3 DEF UnitsLeft, IdsOf, kitchenVars, tableVars
    <3>. QED BY <3>1, <3>2 DEF StockInv
  <2>. QED BY <2>2, <2>3 DEF KitchenNext, RunDry, BrewOver
<1>. QED BY <1>1, <1>2 DEF StockInv

(* There is a unit for the take at hand.                                    *)
LEMMA StockSafe == StockInv => TakesFindUnits
<1>. SUFFICES ASSUME StockInv, Going, Now.kind = "TakeIngredient"
              PROVE  stock[Now.ing] # 0
  BY DEF TakesFindUnits, OutOfUnits
<1>1. plan # Refused
  BY DEF Going, Refused
<1>2. PICK sl, c, skip : Laid(sl, c, skip) /\ Brewing(sl, c, skip) /\ UnitsLeft(sl, c)
  BY <1>1 DEF StockInv
<1>3. PICK i \in 1..Len(sl), u \in Nat : AtTake(sl, c, i, u) /\ Now = TakeIngredient(sl[i].id)
  BY <1>2, TakeNow
<1>4. Now.ing = sl[i].id
  BY <1>3, OpsTold
<1>5. u \in 0..sl[i].qty - 1 /\ cursor = c[i - 1].end + 2 * u + 1
  BY <1>3 DEF AtTake
<1>6. sl[i].qty \in Nat /\ c[i - 1].end \in Nat /\ sl[i].id \in IdsOf(recipe)
  BY <1>2, LaidRows
<1>7. stock[sl[i].id] >= sl[i].qty - u /\ stock[sl[i].id] \in Int
  <2>1. UnitsLeft(sl, c)
    BY <1>2
  <2>2. cursor <= c[i - 1].end + 2 * u + 1
    <3>. DEFINE k == c[i - 1].end + 2 * u + 1
    <3>1. k \in Int
      BY <1>6
    <3>. HIDE DEF k
    <3>2. cursor <= k
      BY <1>5, <3>1 DEF k
    <3>. QED BY <3>2 DEF k
  <2>3. stock[sl[i].id] >= sl[i].qty - u
    BY <1>5, <2>1, <2>2 DEF UnitsLeft
  <2>4. stock[sl[i].id] \in Int
    BY <1>6, <2>1 DEF UnitsLeft
  <2>. QED BY <2>3, <2>4
<1>. QED BY <1>4, <1>5, <1>6, <1>7

(* Executor::BuildPlan, StockStations: if the stack at every station covers *)
(* what its row lists, and with mistakes a unit more, every take of a plan  *)
(* finds its unit, whatever mistakes are rolled.  The guard of the          *)
(* over-count asks less than that: it adds the stack that is not stocked.   *)
THEOREM StacksLast == KitchenSpec /\ StacksCover => []TakesFindUnits
<1>1. KitchenInit /\ StacksCover => StockInv
  <2>. SUFFICES ASSUME KitchenInit, StacksCover PROVE StockInv
    OBVIOUS
  <2>1. KitchenInv /\ stock \in [IdsOf(recipe) -> Int]
    BY KitchenStart, StationsStocked
  <2>2. CASE plan = Refused
    BY <2>2 DEF StockInv
  <2>3. CASE \E sl, c, skip : Laid(sl, c, skip) /\ Brewing(sl, c, skip)
    BY <2>1, <2>3, CoverLasts DEF StockInv
  <2>. QED BY <2>1, <2>2, <2>3 DEF KitchenInv
<1>2. StockInv /\ [KitchenNext]_kitchenVars => StockInv'
  BY StockStep
<1>3. StockInv => TakesFindUnits
  BY StockSafe
<1>. QED BY <1>1, <1>2, <1>3, PTL DEF KitchenSpec
=============================================================================
