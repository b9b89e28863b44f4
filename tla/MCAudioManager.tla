--------------------------- MODULE MCAudioManager ---------------------------
(* One of everything: a bank with a 3D event, a sound, a channel, a bus. *)
EXTENDS AudioManager, TLC

CONSTANTS pathA, evA

MCBankEvents == [p \in {pathA} |-> {evA}]
=============================================================================
