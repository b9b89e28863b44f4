--------------------------- MODULE AudioHandlePool ---------------------------
(***************************************************************************)
(* AudioHandlePool<Kind, T>: a vector of slots, a free list used as a      *)
(* stack, and handles that carry a kind, the generation of their slot and  *)
(* its position.  AudioManager keeps one pool per kind of resource; Lua    *)
(* keeps the handles and may pass any of them, at any time, to any         *)
(* function.                                                               *)
(*                                                                         *)
(* Slots are counted from 1 here: slot i is m_slots[i - 1], and i is the   *)
(* number MakeAudioHandle packs (its slot + 1).                            *)
(***************************************************************************)
EXTENDS Integers, Sequences, FiniteSets

CONSTANTS
  Kind, Kinds,      \* this pool's kind, and 1..Kinds all of them
  GenerationSpan,   \* 2^24: generations are kept modulo this
  SlotSpan,         \* 2^32: what the slot field of a handle can hold
  Values, Vacant,   \* what slots hold; an empty std::optional
  MaxSlots,         \* bound: how far the vector grows
  LastGeneration    \* bound: the last generation in which a slot is vacated

ASSUME PoolAssumption ==
  /\ Kinds \in Nat /\ Kind \in 1..Kinds
  /\ GenerationSpan \in Nat /\ GenerationSpan > 2
  /\ SlotSpan \in Nat
  /\ MaxSlots \in Nat /\ MaxSlots < SlotSpan
  /\ LastGeneration \in 1 .. GenerationSpan - 1
  /\ Vacant \notin Values

VARIABLES
  slots,    \* m_slots
  free,     \* m_free
  size,     \* m_size
  retired   \* history: the handles withdrawn, with the number of times since
            \* = 1, 2 .. that their slot has changed generation

vars == <<slots, free, size, retired>>

Generations == 1 .. GenerationSpan - 1
Slot == [generation: Generations, value: Values \cup {Vacant}]

-----------------------------------------------------------------------------
(* Packing. *)

MakeAudioHandle(kind, generation, i) ==
  kind * (GenerationSpan * SlotSpan) + (generation % GenerationSpan) * SlotSpan + i

KindOf(h) == h \div (GenerationSpan * SlotSpan)
GenerationOf(h) == (h \div SlotSpan) % GenerationSpan
SlotOf(h) == h % SlotSpan

AllHandles == 0 .. (Kinds + 1) * (GenerationSpan * SlotSpan) - 1

-----------------------------------------------------------------------------
(* The pool. *)

Occupied == {i \in 1..Len(slots) : slots[i].value # Vacant}
HandleAt(i) == MakeAudioHandle(Kind, slots[i].generation, i)
Handles == {HandleAt(i) : i \in Occupied}

(* Mutant: whose handle it is does not matter. *)
AnyKindValidate(h) ==
  /\ SlotOf(h) \in Occupied
  /\ slots[SlotOf(h)].generation = GenerationOf(h)

Validate(h) ==
  /\ KindOf(h) = Kind
  /\ SlotOf(h) \in Occupied
  /\ slots[SlotOf(h)].generation = GenerationOf(h)

Get(h) == IF Validate(h) THEN slots[SlotOf(h)].value ELSE Vacant

(* Mutant: no new generation. *)
SameGeneration(g) == g

NextGeneration(g) ==
  IF (g + 1) % GenerationSpan = 0 THEN 1 ELSE (g + 1) % GenerationSpan

Vacated(slot) ==
  [generation |-> NextGeneration(slot.generation), value |-> Vacant]

(* The history: the slots of S are about to change generation.  A handle is *)
(* dropped from it after GenerationSpan - 1 changes: the generations are    *)
(* used up and its own comes round again.                                   *)
RetiredAfter(S) ==
  {r \in {[generation |-> q.generation, slot |-> q.slot,
           since |-> IF q.slot \in S THEN q.since + 1 ELSE q.since]
            : q \in retired} :
     r.since < GenerationSpan - 1}
  \cup {[generation |-> slots[i].generation, slot |-> i, since |-> 1]
          : i \in {j \in S \cap Occupied : GenerationSpan > 2}}

Emplace(v) ==
  /\ \/ /\ free = <<>>
        /\ Len(slots) < MaxSlots
        /\ slots' = Append(slots, [generation |-> 1, value |-> v])
        /\ UNCHANGED free
     \/ /\ free # <<>>
        /\ slots' = [slots EXCEPT ![free[Len(free)]].value = v]
        /\ free' = SubSeq(free, 1, Len(free) - 1)
  /\ size' = size + 1
  /\ UNCHANGED retired

Erase(h) ==
  /\ Validate(h)
  /\ slots[SlotOf(h)].generation <= LastGeneration
  /\ slots' = [slots EXCEPT ![SlotOf(h)] = Vacated(@)]
  /\ free' = Append(free, SlotOf(h))
  /\ size' = size - 1
  /\ retired' = RetiredAfter({SlotOf(h)})

(* Mutant: the old free list is kept in front of the new one. *)
AppendingClear ==
  /\ slots' = [i \in 1..Len(slots) |-> Vacated(slots[i])]
  /\ free' = free \o [i \in 1..Len(slots) |-> i]
  /\ size' = 0
  /\ retired' = RetiredAfter(1..Len(slots))
  /\ Len(free) < MaxSlots

(* Every slot changes its generation, whether it is occupied or not. *)
Clear ==
  /\ \A i \in 1..Len(slots) : slots[i].generation <= LastGeneration
  /\ slots' = [i \in 1..Len(slots) |-> Vacated(slots[i])]
  /\ free' = [i \in 1..Len(slots) |-> i]
  /\ size' = 0
  /\ retired' = RetiredAfter(1..Len(slots))

Init ==
  /\ slots = <<>>
  /\ free = <<>>
  /\ size = 0
  /\ retired = {}

Next ==
  \/ \E v \in Values : Emplace(v)
  \/ \E h \in AllHandles : Erase(h)
  \/ Clear

Spec == Init /\ [][Next]_vars

-----------------------------------------------------------------------------
(* Properties. *)

PoolTypeOK ==
  /\ slots \in Seq(Slot) /\ Len(slots) <= MaxSlots
  /\ free \in Seq(1..Len(slots))
  /\ size \in Nat
  /\ retired \subseteq
       [generation: Generations, slot: 1..Len(slots), since: 1 .. GenerationSpan - 2]

(* The free list names every vacant slot once and no other: Emplace never  *)
(* overwrites a live value, and no slot is lost.                            *)
FreeListExact ==
  /\ \A j, k \in 1..Len(free) : free[j] = free[k] => j = k
  /\ \A i \in 1..Len(slots) :
       slots[i].value = Vacant <=> \E j \in 1..Len(free) : free[j] = i

(* Size, which GetStatus reports, is the number of live values. *)
SizeExact == size = Cardinality(Occupied)

(* Of all the handles a script can present, forged ones and those of other *)
(* pools included, exactly those that Handles lists resolve.                *)
OnlyListedResolve == {h \in AllHandles : Validate(h)} = Handles

(* A handle that was withdrawn never resolves to the value that took its   *)
(* slot, until that slot has gone through all its generations.             *)
StaleNeverResolves ==
  \A r \in retired : ~Validate(MakeAudioHandle(Kind, r.generation, r.slot))

(* Why: the generation of a slot is that of a retired handle, moved on by  *)
(* the number of changes since.                                             *)
RetiredExact ==
  \A r \in retired :
    slots[r.slot].generation =
      IF r.generation + r.since < GenerationSpan
      THEN r.generation + r.since
      ELSE r.generation + r.since - (GenerationSpan - 1)

PoolInvariant == PoolTypeOK /\ FreeListExact /\ SizeExact /\ RetiredExact

(* The handles of a slot that lie behind it, or stand for its value. *)
SpentHandles ==
  {h \in AllHandles :
     /\ KindOf(h) = Kind
     /\ SlotOf(h) \in 1..Len(slots)
     /\ GenerationOf(h) \in Generations
     /\ \/ GenerationOf(h) < slots[SlotOf(h)].generation
        \/ Validate(h)}

Lookup == [h \in AllHandles |-> Get(h)]

Table == INSTANCE AudioHandleTable WITH
  Names <- AllHandles, table <- Lookup, used <- SpentHandles

ImplementsTable == Table!Spec

(* Some slot starts its generations over. *)
Wraps == \E i \in 1..Len(slots) : slots'[i].generation < slots[i].generation

(* The pool is the table of AudioHandleTable: an issued handle is fresh and *)
(* stands for the value it was issued for until it is withdrawn.  Only the  *)
(* step in which a slot starts over makes spent handles fresh again.        *)
TableBetweenWraps == [][Wraps \/ Table!Next]_<<Lookup, SpentHandles>>

=============================================================================
