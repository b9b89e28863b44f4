----------------------------- MODULE Trampoline -----------------------------
(***************************************************************************)
(* The branch trampoline of the relocation library: every plugin owns one, *)
(* a pool of relays near the game's code and a map from patched addresses  *)
(* to the bytes that stood there.  All plugins patch the same code.        *)
(*                                                                         *)
(* A cell of code holds one byte of a patch (which patch, which byte of    *)
(* it) or its own byte of the game.  A 5-byte patch is an opcode and a     *)
(* displacement, a 6-byte patch has a second opcode byte; Disp is the      *)
(* number of bytes of a displacement.                                      *)
(***************************************************************************)
EXTENDS Integers, FiniteSets

CONSTANTS
  Plugins,
  Sites,        \* addresses of instructions that plugins patch
  Nops,         \* those of them that hold a 0x90 in the game
  LastAddr,     \* the code is 0..LastAddr
  Disp,
  RelaySize,    \* pool bytes a 5-byte patch takes
  SlotSize,     \* pool bytes a 6-byte patch takes
  Capacity,     \* pool bytes of a trampoline
  MaxPatches, MaxPools

ASSUME TrampolineAssumption ==
  /\ Disp \in Nat \ {0} /\ LastAddr \in Nat
  /\ Sites \subseteq 0..LastAddr
  /\ \A s \in Sites : s + Disp + 1 <= LastAddr
  /\ Nops \subseteq Sites
  /\ RelaySize \in Nat /\ SlotSize \in Nat /\ Capacity \in Nat
  /\ MaxPatches \in Nat /\ MaxPools \in Nat

VARIABLES
  memory,    \* the game's code
  pool,      \* m_data per plugin: the number of the pool, 0 for none
  used,      \* m_size per plugin
  records,   \* m_patches per plugin: site -> the bytes saved there
  \* What the program does not keep:
  patches,   \* the patches written and not undone
  pools,     \* pools allocated so far
  written,   \* patches written so far
  tidy       \* every trampoline was given up the way Tidy asks

vars == <<memory, pool, used, records, patches, pools, written, tidy>>
-----------------------------------------------------------------------------
Addrs == 0..LastAddr
Lengths == {Disp + 1, Disp + 2}
Cells(s, n) == s..(s + n - 1)
Span(k) == Cells(k.site, k.len)
ByteOf(k, a) == [of |-> k.id, at |-> a - k.site]
GameByte(a) == [of |-> 0, at |-> a]

Newest(P) == CHOOSE k \in P : \A j \in P : j.id <= k.id

(* What the code holds when exactly the patches P were written, in the      *)
(* order of their numbers.                                                  *)
Overlay(P) ==
  [a \in Addrs |->
     LET on == {k \in P : a \in Span(k)} IN
     IF on = {} THEN GameByte(a) ELSE ByteOf(Newest(on), a)]

Owned(p) == {k \in patches : k.plugin = p}
Overlap(j, k) == Span(j) \cap Span(k) # {}

Unhooked == -1   \* no call stood there
Wild == -2       \* the bytes there are no operand

(* Mutant: the target is taken after the patch was written. *)
LateLeadsTo(s, n) == written + 1

(* nextOp + *disp: where the instruction at s led, taken from its last Disp *)
(* bytes; 0 stands for the game's own target, k for the pool of patch k.    *)
LeadsTo(s, n) ==
  LET operand == (s + n - Disp)..(s + n - 1)
      hooks == {k \in patches : k.site = s /\ k.len = n
                                  /\ \A a \in operand : memory[a] = ByteOf(k, a)}
  IN IF memory[s] = GameByte(s) /\ s \in Nops THEN Unhooked
     ELSE IF hooks # {} THEN Newest(hooks).id
     ELSE IF \A a \in operand : memory[a] = GameByte(a) THEN 0
     ELSE Wild

Init ==
  /\ memory = [a \in Addrs |-> GameByte(a)]
  /\ pool = [p \in Plugins |-> 0]
  /\ used = [p \in Plugins |-> 0]
  /\ records = [p \in Plugins |-> << >>]
  /\ patches = {} /\ pools = 0 /\ written = 0 /\ tidy = TRUE
-----------------------------------------------------------------------------
(* create: refused while there is a pool, and without effect when no memory *)
(* is free in reach of the game.                                            *)
Create(p) ==
  \/ pool[p] # 0 /\ UNCHANGED vars
  \/ /\ pool[p] = 0 /\ pools < MaxPools
     /\ pools' = pools + 1
     /\ pool' = [pool EXCEPT ![p] = pools + 1]
     /\ used' = [used EXCEPT ![p] = 0]
     /\ UNCHANGED <<memory, records, patches, written, tidy>>

RoomFor(n) == IF n = Disp + 1 THEN RelaySize ELSE SlotSize

(* write_5patch and write_6patch save what they overwrite under the site's  *)
(* address, whatever the map holds there.                                   *)
Saved(s, n) == [len |-> n, original |-> [i \in 0..(n - 1) |-> memory[s + i]]]
Recorded(r, s, n) == [t \in DOMAIN r \cup {s} |-> IF t = s THEN Saved(s, n) ELSE r[t]]

Patched(k) == [a \in Addrs |-> IF a \in Span(k) THEN ByteOf(k, a) ELSE memory[a]]

(* write_branch and write_call, under the assertion of allocate.            *)
WritePatch(p, s, n) ==
  /\ pool[p] # 0 /\ used[p] + RoomFor(n) <= Capacity
  /\ written < MaxPatches
  /\ LET k == [id |-> written + 1, plugin |-> p, site |-> s, len |-> n,
               pool |-> pool[p], prev |-> LeadsTo(s, n)]
     IN /\ records' = [records EXCEPT ![p] = Recorded(records[p], s, n)]
        /\ memory' = Patched(k)
        /\ patches' = patches \cup {k}
  /\ used' = [used EXCEPT ![p] = @ + RoomFor(n)]
  /\ written' = written + 1
  /\ UNCHANGED <<pool, pools, tidy>>

(* Mutants: the lowest site has the last word; only five bytes come back.   *)
FirstWord(r, a) ==
  CHOOSE s \in DOMAIN r :
    /\ a \in Cells(s, r[s].len)
    /\ \A t \in DOMAIN r : a \in Cells(t, r[t].len) => s <= t
FiveRestored(r) ==
  [a \in Addrs |->
     IF \E s \in DOMAIN r : a \in Cells(s, Disp + 1)
       THEN LET s == CHOOSE t \in DOMAIN r : a \in Cells(t, Disp + 1)
            IN r[s].original[a - s]
       ELSE memory[a]]

(* unpatch_all writes the saved bytes back in the order of the addresses:   *)
(* of two records on one cell that of the higher site has the last word.    *)
LastWord(r, a) ==
  CHOOSE s \in DOMAIN r :
    /\ a \in Cells(s, r[s].len)
    /\ \A t \in DOMAIN r : a \in Cells(t, r[t].len) => t <= s
Restored(r) ==
  [a \in Addrs |->
     IF \E s \in DOMAIN r : a \in Cells(s, r[s].len)
       THEN r[LastWord(r, a)].original[a - LastWord(r, a)]
       ELSE memory[a]]

(* What the callers of destroy must see to, for nothing in the class does:  *)
(* a plugin patched no site twice, of two patches of its own that overlap   *)
(* it wrote the one at the higher address first, and nobody else patched    *)
(* over one of its patches and still needs that.                            *)
Tidy(p) ==
  \A j, k \in patches :
    (j.plugin = p /\ j.id < k.id /\ Overlap(j, k)) =>
      /\ k.plugin = p
      /\ k.site < j.site

Release(p) ==
  /\ pool' = [pool EXCEPT ![p] = 0]
  /\ used' = [used EXCEPT ![p] = 0]

(* destroy: unpatch_all, then release.                                      *)
Destroy(p) ==
  /\ memory' = Restored(records[p])
  /\ records' = [records EXCEPT ![p] = << >>]
  /\ Release(p)
  /\ patches' = patches \ Owned(p)
  /\ tidy' = (tidy /\ Tidy(p))
  /\ UNCHANGED <<pools, written>>

(* The destructor of a plugin that did not call destroy: release alone.     *)
Unload(p) ==
  /\ Release(p)
  /\ records' = [records EXCEPT ![p] = << >>]
  /\ patches' = patches \ Owned(p)
  /\ tidy' = (tidy /\ Owned(p) = {})
  /\ UNCHANGED <<memory, pools, written>>

(* set_trampoline: another pool, while the patches into the old one stay.   *)
SetTrampoline(p) ==
  /\ pools < MaxPools
  /\ pools' = pools + 1
  /\ pool' = [pool EXCEPT ![p] = pools + 1]
  /\ used' = [used EXCEPT ![p] = 0]
  /\ tidy' = (tidy /\ Owned(p) = {})
  /\ UNCHANGED <<memory, records, patches, written>>

(* move_from: p takes over the pool and the records of q and lets go of its *)
(* own pool without undoing anything.                                       *)
MoveFrom(p, q) ==
  /\ p # q
  /\ pool' = [pool EXCEPT ![p] = pool[q], ![q] = 0]
  /\ used' = [used EXCEPT ![p] = used[q], ![q] = 0]
  /\ records' = [records EXCEPT ![p] = records[q], ![q] = << >>]
  /\ patches' = (patches \ (Owned(p) \cup Owned(q)))
                  \cup {[k EXCEPT !.plugin = p] : k \in Owned(q)}
  /\ tidy' = (tidy /\ Owned(p) = {})
  /\ UNCHANGED <<memory, pools, written>>

Next ==
  \/ \E p \in Plugins :
       \/ Create(p) \/ Destroy(p) \/ Unload(p) \/ SetTrampoline(p)
       \/ \E s \in Sites, n \in Lengths : WritePatch(p, s, n)
       \/ \E q \in Plugins : MoveFrom(p, q)

Spec == Init /\ [][Next]_vars
-----------------------------------------------------------------------------
(* "Undo all patches (restore original bytes)" (Trampoline.h): as long as   *)
(* trampolines are given up tidily, in any order of plugins and whatever    *)
(* overlaps, the code is the game's under the patches of those that remain, *)
(* and the game's alone when none does.                                     *)
UndoneExactly == tidy => memory = Overlay(patches)

(* No byte of code leads into a pool that was freed: one tidy destroy never *)
(* brings back a patch of a trampoline that is gone.                        *)
NoStrayJump ==
  tidy => \A a \in Addrs :
            memory[a].of # 0 =>
              \E k \in patches : k.id = memory[a].of /\ pool[k.plugin] = k.pool

(* The target a plugin was given for calling on stays callable: it is the   *)
(* game's, or a relay of an older patch that is still there, so every chain *)
(* of hooks on a site ends.                                                 *)
ChainsAlive ==
  tidy => \A k \in patches :
            k.prev > 0 =>
              \E j \in patches :
                 j.id = k.prev /\ j.id < k.id /\ pool[j.plugin] = j.pool
=============================================================================
