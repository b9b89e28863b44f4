---------------------------- MODULE AudioBackend ----------------------------
(***************************************************************************)
(* The part of LuaUtils' AudioManager that watches the game-owned FMOD     *)
(* systems (RefreshBackend, EnsureReady) and the world it watches.         *)
(*                                                                         *)
(* The game creates and destroys the FMOD Studio and Core systems; the     *)
(* manager only reads the wrapper's pointers, every time one of its        *)
(* operations is called and once per frame from Tick.  A "system" stands   *)
(* for one BackendIdentity (wrapper, studio and core pointers); NoSystem   *)
(* for every reason FmodRuntime::Refresh finds to report "not ready".      *)
(*                                                                         *)
(* Every operation of the manager begins with EnsureReady, that is with    *)
(* RefreshBackend.  When that refresh changes nothing the operation is one *)
(* of the actions of AudioBanks or AudioSounds, guarded by Ready; when it  *)
(* finds another backend it is the step RefreshBackend, and what the       *)
(* operation then does on the emptied pools is the step that follows.      *)
(***************************************************************************)
EXTENDS Integers

CONSTANTS
  Systems,      \* identities an FMOD system of the game may have
  NoSystem,     \* no usable FMOD system
  MaxRestarts,  \* bound: how often the game destroys or creates FMOD
  MaxHiccups,   \* bound: how often a live system reports "not ready"
  MaxFaults     \* bound: how many FMOD calls fail

ASSUME BackendAssumption ==
  /\ NoSystem \notin Systems
  /\ MaxRestarts \in Nat /\ MaxHiccups \in Nat /\ MaxFaults \in Nat

VARIABLES
  system,    \* the FMOD system that exists in the process, or NoSystem
  visible,   \* whether it passes the checks of FmodRuntime::Refresh
  active,    \* m_activeIdentity, NoSystem when m_hasActiveBackend is false
  epoch,     \* m_backendEpoch
  restarts,  \* restarts so far
  hiccups,   \* hiccups so far
  faults     \* failures FMOD has left

backendVars == <<system, visible, active, epoch, restarts, hiccups, faults>>

BackendTypeOK ==
  /\ system \in Systems \cup {NoSystem}
  /\ visible \in BOOLEAN
  /\ active \in Systems \cup {NoSystem}
  /\ epoch \in Nat
  /\ restarts \in 0..MaxRestarts
  /\ hiccups \in 0..MaxHiccups
  /\ faults \in 0..MaxFaults

BackendInit ==
  /\ system \in Systems \cup {NoSystem}
  /\ visible = TRUE
  /\ active = NoSystem
  /\ epoch = 0
  /\ restarts = 0
  /\ hiccups = 0
  /\ faults = MaxFaults

(* The identity RuntimeStatus reports, NoSystem when it is not ready. *)
Reported == IF visible THEN system ELSE NoSystem

(* EnsureReady succeeds and its refresh had nothing to change. *)
Ready == Reported # NoSystem /\ active = Reported

(* RefreshBackend adopts what the runtime reports.  The pools are reset by *)
(* the modules that own them, when a backend was active.                   *)
AdoptBackend ==
  /\ Reported # active
  /\ active' = Reported
  /\ epoch' = epoch + 1
  /\ UNCHANGED <<system, visible, restarts, hiccups, faults>>

(* n calls of FMOD fail in this step. *)
Fails(n) ==
  /\ n <= faults
  /\ faults' = faults - n
  /\ UNCHANGED <<system, visible, active, epoch, restarts, hiccups>>

NoFailure == UNCHANGED backendVars

-----------------------------------------------------------------------------
(* The game. *)

(* FMOD is destroyed, created or re-created.  A new system never has the   *)
(* identity the manager still holds: the manager looks every frame, and a  *)
(* re-creation within one frame at the same three addresses would pass     *)
(* unnoticed.                                                              *)
RestartSystem(s) ==
  /\ restarts < MaxRestarts
  /\ s \in (Systems \ {active}) \cup {NoSystem}
  /\ s # system
  /\ system' = s
  /\ visible' = TRUE
  /\ restarts' = restarts + 1
  /\ UNCHANGED <<active, epoch, hiccups, faults>>

(* A system that lives on fails one of the checks for a while (its wrapper's *)
(* initState, IsValid, GetVersion).                                          *)
HideSystem ==
  /\ hiccups < MaxHiccups
  /\ visible /\ system # NoSystem
  /\ visible' = FALSE
  /\ hiccups' = hiccups + 1
  /\ UNCHANGED <<system, active, epoch, restarts, faults>>

ShowSystem ==
  /\ ~visible
  /\ visible' = TRUE
  /\ UNCHANGED <<system, active, epoch, restarts, hiccups, faults>>

=============================================================================
