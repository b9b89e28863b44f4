----------------------------- MODULE McmSession -----------------------------
(***************************************************************************)
(* What the Mod Configuration Menu promises a player and the mods: a table *)
(* of settings for the session.  Opening the menu declares the settings    *)
(* anew, and a setting declared before and after keeps its value unless    *)
(* its mod owns the value and reports it.  An edit changes the setting the *)
(* player asked for, to the value asked for, and nothing else; only while  *)
(* the panel was not filled completely may it go to some other setting.    *)
(***************************************************************************)
CONSTANTS
  Settings, Values,
  Owned,         \* settings whose mod reports a live value
  NoEdit

VARIABLES
  declared,      \* a function from the settings of the menu to their values
  asked,         \* the edit of the last step: [setting, value], or NoEdit
  filled         \* the panel holds everything that is declared

vars == <<declared, asked, filled>>

Init ==
  /\ declared = [s \in {} |-> NoEdit]
  /\ asked = NoEdit
  /\ filled = TRUE

Quiet == asked' = NoEdit /\ UNCHANGED declared /\ filled' \in BOOLEAN

Reopen ==
  /\ asked' = NoEdit
  /\ DOMAIN declared' \subseteq Settings
  /\ \A s \in DOMAIN declared' :
       /\ declared'[s] \in Values
       /\ s \in DOMAIN declared \ Owned => declared'[s] = declared[s]
  /\ filled' \in BOOLEAN

Edit ==
  /\ filled
  /\ \E s \in DOMAIN declared, v \in Values :
       /\ asked' = [setting |-> s, value |-> v]
       /\ declared' = [declared EXCEPT ![s] = v]
  /\ UNCHANGED filled

StrayEdit ==
  /\ ~filled
  /\ \E s \in Settings, v \in Values :
       /\ asked' = [setting |-> s, value |-> v]
       /\ \/ UNCHANGED declared
          \/ \E t \in DOMAIN declared : declared' = [declared EXCEPT ![t] = v]
  /\ UNCHANGED filled

Next == Quiet \/ Reopen \/ Edit \/ StrayEdit

Spec == Init /\ [][Next]_vars
=============================================================================
