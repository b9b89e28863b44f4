--------------------------- MODULE MCAudioSounds ---------------------------
(* One or two sounds and buses; handles of a kind are interchangeable. *)
EXTENDS AudioSounds, TLC

Handles == Permutations(SoundHandles) \cup Permutations(ChannelHandles)
             \cup Permutations(Mods) \cup Permutations(Buses)
=============================================================================
