---------------------------- MODULE RttrHandles -----------------------------
(***************************************************************************)
(* RttrHandleRegistry: the objects of the game that Lua scripts hold under *)
(* 64-bit handles.  Scripts store and release, and a game that is loaded   *)
(* or begun anew clears the registry.  MaxHandle stands for 2^64 - 1.      *)
(***************************************************************************)
EXTENDS Integers

CONSTANTS MaxHandle, Objects, Vacant

ASSUME HandlesAssumption == MaxHandle \in Nat \ {0}

VARIABLES
  entries,      \* m_entries: handle -> object
  nextHandle    \* m_nextHandle, 0 when there are no more

handleVars == <<entries, nextHandle>>

Handles == 1..MaxHandle

HandlesInit == entries = << >> /\ nextHandle = 1

(* Mutant: clearing the registry starts the handles over. *)
RewindingClearHandles == entries' = << >> /\ nextHandle' = 1

(* Store throws once the handles are used up.                               *)
Store(v) ==
  /\ nextHandle # 0
  /\ entries' = [h \in DOMAIN entries \cup {nextHandle} |->
                   IF h = nextHandle THEN v ELSE entries[h]]
  /\ nextHandle' = IF nextHandle = MaxHandle THEN 0 ELSE nextHandle + 1

Lookup(h) == IF h \in DOMAIN entries THEN entries[h] ELSE Vacant

ReleaseHandle(h) ==
  /\ h \in DOMAIN entries
  /\ entries' = [k \in DOMAIN entries \ {h} |-> entries[k]]
  /\ UNCHANGED nextHandle

(* kMessage_LoadGame and kMessage_NewGame.                                  *)
ClearHandles == entries' = << >> /\ UNCHANGED nextHandle

HandlesNext ==
  \/ \E v \in Objects : Store(v)
  \/ \E h \in Handles : ReleaseHandle(h)
  \/ ClearHandles

HandlesSpec == HandlesInit /\ [][HandlesNext]_handleVars
-----------------------------------------------------------------------------
(* A handle is a name for one object: over stores, releases and any number  *)
(* of loaded games it is issued once, and a script that kept it from an     *)
(* older game never reaches another object with it.                         *)
Table == INSTANCE AudioHandleTable WITH
  Names <- Handles, Values <- Objects, Vacant <- Vacant,
  table <- [h \in Handles |-> Lookup(h)],
  used <- IF nextHandle = 0 THEN Handles ELSE 1..(nextHandle - 1)
RegistryIsTable == Table!Spec
=============================================================================
