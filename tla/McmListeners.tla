---------------------------- MODULE McmListeners ----------------------------
(***************************************************************************)
(* The Lua callbacks of the Mod Configuration Menu (scriptbind.h): mods    *)
(* register a closure for the changes of a mod's settings, and closures    *)
(* that declare settings.  The plugin holds one reference of the Lua       *)
(* registry for each entry of its two vectors.                             *)
(***************************************************************************)
EXTENDS Integers, Sequences, FiniteSets

CONSTANTS ModIds, Closures

VARIABLES
  valueListeners,   \* m_valueListeners: [mod, fn], in order of registration
  buildListeners,   \* m_buildListeners
  refs,             \* references to each closure that the plugin has not released
  told              \* how often the last change called each closure

listenerVars == <<valueListeners, buildListeners, refs, told>>

ListenersInit ==
  /\ valueListeners = << >>
  /\ buildListeners = << >>
  /\ refs = [f \in Closures |-> 0]
  /\ told = [f \in Closures |-> 0]

Registered(m, f) ==
  \E k \in DOMAIN valueListeners : valueListeners[k] = [mod |-> m, fn |-> f]
Building(f) == \E k \in DOMAIN buildListeners : buildListeners[k] = f

(* Mutant: the duplicate keeps both references. *)
LeakyRegisterValueChangeListener(m, f) ==
  /\ valueListeners' = IF Registered(m, f) THEN valueListeners
                       ELSE Append(valueListeners, [mod |-> m, fn |-> f])
  /\ refs' = [refs EXCEPT ![f] = @ + 1]
  /\ UNCHANGED <<buildListeners, told>>

(* Reading the parameter takes a reference; for the same closure of the     *)
(* same mod the older reference is released and the entry stays.            *)
RegisterValueChangeListener(m, f) ==
  /\ \/ Registered(m, f) /\ UNCHANGED <<valueListeners, refs>>
     \/ /\ ~Registered(m, f)
        /\ valueListeners' = Append(valueListeners, [mod |-> m, fn |-> f])
        /\ refs' = [refs EXCEPT ![f] = @ + 1]
  /\ UNCHANGED <<buildListeners, told>>

RegisterBuildSettingsListener(f) ==
  /\ \/ Building(f) /\ UNCHANGED <<buildListeners, refs>>
     \/ /\ ~Building(f)
        /\ buildListeners' = Append(buildListeners, f)
        /\ refs' = [refs EXCEPT ![f] = @ + 1]
  /\ UNCHANGED <<valueListeners, told>>

(* The fan-out of a change of mod m; a call that does not begin is skipped. *)
OnValueChanged(m) ==
  /\ \E failed \in SUBSET DOMAIN valueListeners :
       told' = [f \in Closures |->
                  Cardinality({k \in DOMAIN valueListeners \ failed :
                                 valueListeners[k] = [mod |-> m, fn |-> f]})]
  /\ UNCHANGED <<valueListeners, buildListeners, refs>>

ListenersNext ==
  \/ \E m \in ModIds, f \in Closures : RegisterValueChangeListener(m, f)
  \/ \E f \in Closures : RegisterBuildSettingsListener(f)
  \/ \E m \in ModIds : OnValueChanged(m)

ListenersSpec == ListenersInit /\ [][ListenersNext]_listenerVars
-----------------------------------------------------------------------------
ListenersTypeOK ==
  /\ valueListeners \in Seq([mod : ModIds, fn : Closures])
  /\ buildListeners \in Seq(Closures)
  /\ refs \in [Closures -> Nat]
  /\ told \in [Closures -> Nat]

(* However often scripts run their registrations again, no entry appears    *)
(* twice in either vector.                                                  *)
ListenersUnique ==
  /\ \A j, k \in DOMAIN valueListeners :
       valueListeners[j] = valueListeners[k] => j = k
  /\ \A j, k \in DOMAIN buildListeners :
       buildListeners[j] = buildListeners[k] => j = k

ValueEntries(f) == {k \in DOMAIN valueListeners : valueListeners[k].fn = f}
BuildEntries(f) == {k \in DOMAIN buildListeners : buildListeners[k] = f}

(* References are neither leaked nor released early: the plugin holds as    *)
(* many to a closure as it has entries for it, over both vectors.           *)
RefsExact ==
  \A f \in Closures :
    refs[f] = Cardinality(ValueEntries(f)) + Cardinality(BuildEntries(f))

(* One change calls a closure once at most.                                 *)
ToldOnce == \A f \in Closures : told[f] <= 1
=============================================================================
