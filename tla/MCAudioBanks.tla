---------------------------- MODULE MCAudioBanks ----------------------------
(* Two banks that clash on one event path, and one event of the game's own. *)
EXTENDS AudioBanks, TLC

CONSTANTS pathA, pathB, evShared, evGame

MCBankPaths == {pathA, pathB}
MCEventPaths == {evShared, evGame}
MCBankEvents == [p \in MCBankPaths |-> {evShared}]
MCEvents3D == {evShared}

Handles == Permutations(BankHandles) \cup Permutations(EventHandles)
             \cup Permutations(Mods)
=============================================================================
