-------------------------- MODULE AudioHandleTable --------------------------
(***************************************************************************)
(* What a pool of handles promises to the code that uses it: a handle      *)
(* stands for one value, from the call that issued it to the call that     *)
(* withdrew it, and is never issued a second time.                         *)
(***************************************************************************)
CONSTANTS
  Names,    \* the handles there can be
  Values,   \* what a pool holds
  Vacant    \* the result of looking up a handle that stands for nothing

VARIABLES
  table,    \* the value each handle stands for
  used      \* the handles that can no longer be issued

TableTypeOK ==
  /\ table \in [Names -> Values \cup {Vacant}]
  /\ used \subseteq Names

Init ==
  /\ table = [n \in Names |-> Vacant]
  /\ used = {}

Issue(n, v) ==
  /\ n \in Names \ used
  /\ table' = [table EXCEPT ![n] = v]
  /\ used' = used \cup {n}

Withdraw(n) ==
  /\ table[n] # Vacant
  /\ table' = [table EXCEPT ![n] = Vacant]
  /\ UNCHANGED used

(* Withdrawing everything may use up handles that were never issued. *)
WithdrawAll ==
  /\ table' = [n \in Names |-> Vacant]
  /\ used \subseteq used' /\ used' \subseteq Names

Next ==
  \/ \E n \in Names, v \in Values : Issue(n, v)
  \/ \E n \in Names : Withdraw(n)
  \/ WithdrawAll

Spec == Init /\ [][Next]_<<table, used>>

=============================================================================
