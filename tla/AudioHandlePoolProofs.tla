------------------------ MODULE AudioHandlePoolProofs ------------------------
(***************************************************************************)
(* Proofs about AudioHandlePool, for every width of the handle fields and  *)
(* every number of slots.                                                  *)
(***************************************************************************)
EXTENDS AudioHandlePool, FiniteSetTheorems, SequenceTheorems, TLAPS

(* The arithmetic of packing. *)
LEMMA Regrouped ==
  ASSUME NEW k \in Nat, NEW g \in Nat, NEW i \in Nat, NEW G \in Nat, NEW S \in Nat
  PROVE  k * (G * S) + g * S + i = (k * G + g) * S + i
  OBVIOUS

(* The three fields of a handle do not run into each other. *)
LEMMA Packing ==
  ASSUME NEW k \in Nat, NEW g \in 0 .. GenerationSpan - 1,
         NEW i \in 0 .. SlotSpan - 1
  PROVE  /\ MakeAudioHandle(k, g, i) \in Nat
         /\ KindOf(MakeAudioHandle(k, g, i)) = k
         /\ GenerationOf(MakeAudioHandle(k, g, i)) = g
         /\ SlotOf(MakeAudioHandle(k, g, i)) = i
<1> DEFINE G == GenerationSpan
           S == SlotSpan
           h == MakeAudioHandle(k, g, i)
<1>1. G \in Nat /\ S \in Nat /\ G > 1 /\ S > 0 /\ g \in Nat /\ i \in Nat /\ g < G /\ i < S
  BY PoolAssumption
<1>2. g % G = g
  BY <1>1
<1>3. h = (k * G + g) * S + i
  <2>1. h = k * (G * S) + g * S + i
    BY <1>2 DEF MakeAudioHandle
  <2> QED
    BY <1>1, <2>1, Regrouped
<1>4. k * G + g \in Nat
  BY <1>1
<1>5. h % S = i /\ h \div S = k * G + g
  BY <1>1, <1>3, <1>4
<1>6. (k * G + g) % G = g /\ (k * G + g) \div G = k
  BY <1>1
<1>7. h = k * (G * S) + (g * S + i)
  <2>1. h = k * (G * S) + g * S + i
    BY <1>2 DEF MakeAudioHandle
  <2>2. k * (G * S) \in Nat /\ g * S \in Nat
    BY <1>1
  <2> QED
    BY <1>1, <2>1, <2>2
<1>8. g * S + i \in Nat /\ G * S \in Nat /\ g * S + i < G * S
  <2>1. (g + 1) * S <= G * S
    BY <1>1
  <2> QED
    BY <1>1, <2>1
<1>9. h \div (G * S) = k
  <2> DEFINE T == G * S
             r == g * S + i
  <2>1. T \in Nat /\ r \in Nat /\ r < T /\ h = k * T + r
    BY <1>7, <1>8
  <2> HIDE DEF T, r, h
  <2>2. (k * T + r) \div T = k
    BY <2>1
  <2> QED
    BY <2>1, <2>2 DEF T
<1> QED
  BY <1>1, <1>3, <1>4, <1>5, <1>6, <1>9 DEF KindOf, GenerationOf, SlotOf

-----------------------------------------------------------------------------
(* Generations are counted round, and 0 is skipped. *)
LEMMA Generation ==
  ASSUME NEW g \in Generations
  PROVE  /\ NextGeneration(g) \in Generations
         /\ NextGeneration(g) = IF g + 1 < GenerationSpan THEN g + 1 ELSE 1
<1>1. GenerationSpan \in Nat /\ g \in Nat /\ g >= 1 /\ g + 1 <= GenerationSpan
  BY PoolAssumption DEF Generations
<1>2. CASE g + 1 < GenerationSpan
  <2>1. (g + 1) % GenerationSpan = g + 1
    BY <1>1, <1>2
  <2> QED
    BY <1>1, <1>2, <2>1 DEF NextGeneration, Generations
<1>3. CASE g + 1 = GenerationSpan
  <2>1. (g + 1) % GenerationSpan = 0
    BY <1>1, <1>3
  <2> QED
    BY <1>1, <1>3, <2>1, PoolAssumption DEF NextGeneration, Generations
<1> QED
  BY <1>1, <1>2, <1>3

(* The history stays exact when the slots of S change generation. *)
LEMMA HistoryFollows ==
  ASSUME PoolTypeOK, RetiredExact, NEW S \in SUBSET (1..Len(slots)),
         slots' \in Seq(Slot), Len(slots') = Len(slots),
         \A i \in S : slots'[i].generation = NextGeneration(slots[i].generation),
         \A i \in (1..Len(slots)) \ S : slots'[i].generation = slots[i].generation,
         retired' = RetiredAfter(S)
  PROVE  /\ RetiredExact'
         /\ retired' \subseteq [generation: Generations, slot: 1..Len(slots'),
                                since: 1 .. GenerationSpan - 2]
<1>1. SUFFICES ASSUME NEW r \in RetiredAfter(S)
               PROVE  /\ r \in [generation: Generations, slot: 1..Len(slots),
                                 since: 1 .. GenerationSpan - 2]
                      /\ slots'[r.slot].generation =
                           IF r.generation + r.since < GenerationSpan
                           THEN r.generation + r.since
                           ELSE r.generation + r.since - (GenerationSpan - 1)
  BY DEF RetiredExact
<1>2. GenerationSpan \in Nat /\ GenerationSpan > 1
  BY PoolAssumption
<1>3. \A i \in 1..Len(slots) : slots[i].generation \in Generations
  <2>1. \A i \in 1..Len(slots) : slots[i] \in Slot
    BY DEF PoolTypeOK
  <2> QED
    BY <2>1 DEF Slot
<1>4. CASE \E i \in S \cap Occupied :
             /\ GenerationSpan > 2
             /\ r = [generation |-> slots[i].generation, slot |-> i, since |-> 1]
  <2>1. PICK i \in S : /\ i \in 1..Len(slots) /\ GenerationSpan > 2
                       /\ r = [generation |-> slots[i].generation, slot |-> i,
                               since |-> 1]
    BY <1>4
  <2>2. slots[i].generation \in Generations
    BY <1>3, <2>1
  <2>3. slots'[i].generation = IF slots[i].generation + 1 < GenerationSpan
                               THEN slots[i].generation + 1 ELSE 1
    BY <2>1, <2>2, Generation
  <2> QED
    BY <1>2, <2>1, <2>2, <2>3 DEF Generations
<1>5. CASE \E q \in retired :
             /\ r = [generation |-> q.generation, slot |-> q.slot,
                     since |-> IF q.slot \in S THEN q.since + 1 ELSE q.since]
             /\ r.since < GenerationSpan - 1
  <2>1. PICK q \in retired :
             /\ r = [generation |-> q.generation, slot |-> q.slot,
                     since |-> IF q.slot \in S THEN q.since + 1 ELSE q.since]
             /\ r.since < GenerationSpan - 1
    BY <1>5
  <2>2. /\ q.generation \in Generations /\ q.slot \in 1..Len(slots)
        /\ q.since \in 1 .. GenerationSpan - 2
    BY DEF PoolTypeOK
  <2>3. slots[q.slot].generation =
          IF q.generation + q.since < GenerationSpan THEN q.generation + q.since
          ELSE q.generation + q.since - (GenerationSpan - 1)
    BY DEF RetiredExact
  <2>4. CASE q.slot \in S
    <3>1. slots'[q.slot].generation = IF slots[q.slot].generation + 1 < GenerationSpan
                                      THEN slots[q.slot].generation + 1 ELSE 1
      BY <1>3, <2>2, <2>4, Generation
    <3>2. /\ r.generation = q.generation /\ r.slot = q.slot
          /\ r.since = q.since + 1 /\ r.since < GenerationSpan - 1
      BY <2>1, <2>4
    <3>3. /\ q.generation \in Nat /\ q.generation >= 1
          /\ q.generation < GenerationSpan
          /\ q.since \in Nat /\ q.since >= 1
      BY <1>2, <2>2 DEF Generations
    <3>4. slots'[r.slot].generation =
            IF r.generation + r.since < GenerationSpan
            THEN r.generation + r.since
            ELSE r.generation + r.since - (GenerationSpan - 1)
      <4>1. CASE q.generation + q.since < GenerationSpan
        BY <1>2, <2>3, <3>1, <3>2, <3>3, <4>1
      <4>2. CASE q.generation + q.since >= GenerationSpan
        BY <1>2, <2>3, <3>1, <3>2, <3>3, <4>2
      <4> QED
        BY <1>2, <3>3, <4>1, <4>2
    <3>5. r.since \in 1 .. GenerationSpan - 2
      BY <1>2, <3>2, <3>3
    <3> QED
      BY <2>1, <2>2, <3>2, <3>4, <3>5
  <2>5. CASE q.slot \notin S
    BY <1>2, <2>1, <2>2, <2>3, <2>5 DEF Generations
  <2> QED
    BY <2>4, <2>5
<1> QED
  BY <1>1, <1>4, <1>5 DEF RetiredAfter

(* The occupied slots are finitely many. *)
LEMMA OccupiedFinite ==
  ASSUME PoolTypeOK
  PROVE  /\ IsFiniteSet(Occupied) /\ Cardinality(Occupied) \in Nat
         /\ Occupied \subseteq 1..Len(slots)
<1>1. Len(slots) \in Nat
  BY DEF PoolTypeOK
<1>2. IsFiniteSet(1..Len(slots))
  BY <1>1, FS_Interval
<1>3. Occupied \subseteq 1..Len(slots)
  BY DEF Occupied
<1> QED
  BY <1>2, <1>3, FS_Subset, FS_CardinalityType

(* The empty pool. *)
LEMMA InitPool == Init => PoolInvariant
<1> SUFFICES ASSUME Init PROVE PoolInvariant
  OBVIOUS
<1>1. PoolTypeOK
  BY PoolAssumption DEF Init, PoolTypeOK
<1>2. Occupied = {}
  BY DEF Init, Occupied
<1> QED
  BY <1>1, <1>2, FS_EmptySet
  DEF Init, PoolInvariant, FreeListExact, SizeExact, RetiredExact

(* What pop_back leaves. *)
LEMMA Popped ==
  ASSUME NEW S, NEW s \in Seq(S), s # <<>>
  PROVE  /\ SubSeq(s, 1, Len(s) - 1) \in Seq(S)
         /\ Len(SubSeq(s, 1, Len(s) - 1)) = Len(s) - 1
         /\ \A j \in 1 .. Len(s) - 1 : SubSeq(s, 1, Len(s) - 1)[j] = s[j]
<1> DEFINE n == Len(s) - 1
           t == SubSeq(s, 1, n)
<1>1. n \in Nat /\ \A j \in 1..n : s[j] \in S
  OBVIOUS
<1> HIDE DEF n
<1>2. /\ t \in Seq(S)
      /\ Len(t) = IF 1 <= n THEN n - 1 + 1 ELSE 0
      /\ \A j \in 1 .. n - 1 + 1 : t[j] = s[1 + j - 1]
  BY <1>1, SubSeqProperties
<1> HIDE DEF t
<1>3. Len(t) = n
  BY <1>1, <1>2
<1>4. ASSUME NEW j \in 1..n PROVE t[j] = s[j]
  <2>1. j \in 1 .. n - 1 + 1 /\ 1 + j - 1 = j
    BY <1>1
  <2>2. t[j] = s[1 + j - 1]
    BY <1>2, <2>1
  <2> QED
    BY <2>1, <2>2
<1> QED
  BY <1>2, <1>3, <1>4 DEF n, t

(* A slot becomes occupied. *)
LEMMA EmplacePreserves ==
  ASSUME PoolInvariant, NEW v \in Values, Emplace(v)
  PROVE  PoolInvariant'
<1> USE DEF PoolInvariant
<1>1. /\ slots \in Seq(Slot) /\ Len(slots) \in Nat /\ Len(slots) <= MaxSlots
      /\ free \in Seq(1..Len(slots)) /\ Len(free) \in Nat
      /\ size \in Nat /\ size' = size + 1 /\ retired' = retired
      /\ v # Vacant
  BY PoolAssumption DEF PoolTypeOK, Emplace
<1>2. 1 \in Generations /\ MaxSlots \in Nat
  BY PoolAssumption DEF Generations
<1>3. \A i \in 1..Len(slots) : slots[i] \in Slot
  BY <1>1
<1>4. CASE /\ free = <<>> /\ Len(slots) < MaxSlots
           /\ slots' = Append(slots, [generation |-> 1, value |-> v])
           /\ free' = free
  <2>1. [generation |-> 1, value |-> v] \in Slot
    BY <1>2 DEF Slot
  <2>2. /\ slots' \in Seq(Slot) /\ Len(slots') = Len(slots) + 1
        /\ \A i \in 1..Len(slots) : slots'[i] = slots[i]
        /\ slots'[Len(slots) + 1] = [generation |-> 1, value |-> v]
    BY <1>1, <1>4, <2>1
  <2>3. PoolTypeOK'
    BY <1>1, <1>2, <1>4, <2>2 DEF PoolTypeOK
  <2>4. \A i \in 1..Len(slots) : slots[i].value # Vacant
    BY <1>4 DEF FreeListExact
  <2>5. \A i \in 1..Len(slots') : slots'[i].value # Vacant
    BY <1>1, <2>2, <2>4
  <2>6. FreeListExact'
    BY <1>4, <2>5 DEF FreeListExact
  <2>7. Occupied' = Occupied \cup {Len(slots) + 1} /\ Len(slots) + 1 \notin Occupied
    BY <1>1, <2>2, <2>4, <2>5 DEF Occupied
  <2>8. SizeExact'
    <3>1. IsFiniteSet(Occupied) /\ Cardinality(Occupied) \in Nat
      BY OccupiedFinite
    <3>2. Cardinality(Occupied \cup {Len(slots) + 1}) = Cardinality(Occupied) + 1
      BY <2>7, <3>1, FS_AddElement
    <3> QED
      BY <1>1, <2>7, <3>2 DEF SizeExact
  <2>9. RetiredExact'
    BY <1>1, <2>2 DEF RetiredExact, PoolTypeOK
  <2> QED
    BY <2>3, <2>6, <2>8, <2>9
<1>5. CASE /\ free # <<>>
           /\ slots' = [slots EXCEPT ![free[Len(free)]].value = v]
           /\ free' = SubSeq(free, 1, Len(free) - 1)
  <2> DEFINE n == Len(free)
             i == free[n]
  <2>1. n \in Nat /\ n >= 1 /\ i \in 1..Len(slots)
    BY <1>1, <1>5
  <2>2. /\ free' \in Seq(1..Len(slots)) /\ Len(free') = n - 1
        /\ \A j \in 1 .. n - 1 : free'[j] = free[j]
    BY <1>1, <1>5, Popped
  <2>3. slots[i].value = Vacant /\ slots[i] \in Slot
    BY <1>3, <2>1 DEF FreeListExact
  <2>4. [slots[i] EXCEPT !.value = v] \in Slot
    BY <2>3 DEF Slot
  <2>5. /\ slots' \in Seq(Slot) /\ Len(slots') = Len(slots)
        /\ slots'[i] = [slots[i] EXCEPT !.value = v]
        /\ \A k \in 1..Len(slots) : k # i => slots'[k] = slots[k]
    BY <1>1, <1>5, <2>1, <2>4
  <2>6. slots'[i].value = v /\ slots'[i].generation = slots[i].generation
    BY <2>3, <2>5 DEF Slot
  <2> HIDE DEF n, i
  <2>7. PoolTypeOK'
    BY <1>1, <2>2, <2>5 DEF PoolTypeOK
  <2>8. \A j, k \in 1..Len(free') : free'[j] = free'[k] => j = k
    BY <2>1, <2>2 DEF FreeListExact, n
  <2>9. \A j \in 1 .. n - 1 : free[j] # i
    BY <2>1 DEF FreeListExact, n, i
  <2>10. ASSUME NEW k \in 1..Len(slots')
         PROVE  slots'[k].value = Vacant <=> \E j \in 1..Len(free') : free'[j] = k
    <3>1. CASE k = i
      BY <1>1, <2>1, <2>2, <2>6, <2>9, <3>1
    <3>2. CASE k # i
      <4>1. slots[k].value = Vacant <=> \E j \in 1..n : free[j] = k
        BY <2>5 DEF FreeListExact, n
      <4>2. (\E j \in 1..n : free[j] = k) <=> \E j \in 1 .. n - 1 : free[j] = k
        BY <2>1, <3>2 DEF i
      <4> QED
        BY <2>1, <2>2, <2>5, <3>2, <4>1, <4>2
    <3> QED
      BY <3>1, <3>2
  <2>11. FreeListExact'
    BY <2>8, <2>10 DEF FreeListExact
  <2>12. Occupied' = Occupied \cup {i} /\ i \notin Occupied
    <3>1. ASSUME NEW k PROVE k \in Occupied' <=> k \in Occupied \cup {i}
      BY <1>1, <2>1, <2>5, <2>6 DEF Occupied
    <3>2. i \notin Occupied
      BY <2>3 DEF Occupied
    <3> QED
      BY <3>1, <3>2
  <2>13. SizeExact'
    <3>1. IsFiniteSet(Occupied) /\ Cardinality(Occupied) \in Nat
      BY OccupiedFinite
    <3>2. Cardinality(Occupied \cup {i}) = Cardinality(Occupied) + 1
      BY <2>12, <3>1, FS_AddElement
    <3> QED
      BY <1>1, <2>12, <3>2 DEF SizeExact
  <2>14. \A k \in 1..Len(slots) : slots'[k].generation = slots[k].generation
    BY <2>5, <2>6
  <2>15. RetiredExact'
    BY <1>1, <2>14 DEF RetiredExact, PoolTypeOK
  <2> QED
    BY <2>7, <2>11, <2>13, <2>15
<1> QED
  BY <1>4, <1>5 DEF Emplace

(* A slot is vacated, in its next generation. *)
LEMMA VacatedSlot ==
  ASSUME NEW slot \in Slot
  PROVE  /\ Vacated(slot) \in Slot /\ Vacated(slot).value = Vacant
         /\ Vacated(slot).generation = NextGeneration(slot.generation)
<1>1. slot.generation \in Generations
  BY DEF Slot
<1> QED
  BY <1>1, Generation DEF Vacated, Slot

(* Erase vacates one slot, or finds a handle that does not resolve. *)
LEMMA ErasePreserves ==
  ASSUME PoolInvariant, NEW h \in AllHandles, Erase(h)
  PROVE  PoolInvariant'
<1> USE DEF PoolInvariant
<1> DEFINE i == SlotOf(h)
<1>1. /\ slots \in Seq(Slot) /\ Len(slots) \in Nat /\ Len(slots) <= MaxSlots
      /\ free \in Seq(1..Len(slots)) /\ Len(free) \in Nat
      /\ size \in Nat /\ size' = size - 1 /\ retired' = RetiredAfter({i})
      /\ slots' = [slots EXCEPT ![i] = Vacated(slots[i])]
      /\ free' = Append(free, i)
      /\ i \in 1..Len(slots) /\ slots[i].value # Vacant /\ i \in Occupied
  BY DEF PoolTypeOK, Erase, Validate, Occupied
<1> HIDE DEF i
<1>2. slots[i] \in Slot
  BY <1>1
<1>3. Vacated(slots[i]) \in Slot
  BY <1>2, VacatedSlot
<1>4. /\ slots' \in Seq(Slot) /\ Len(slots') = Len(slots)
      /\ slots'[i] = Vacated(slots[i])
      /\ \A k \in 1..Len(slots) : k # i => slots'[k] = slots[k]
  BY <1>1, <1>3
<1>5. /\ slots'[i].value = Vacant
      /\ slots'[i].generation = NextGeneration(slots[i].generation)
  BY <1>2, <1>4, VacatedSlot
<1>6. /\ RetiredExact'
      /\ retired' \subseteq [generation: Generations, slot: 1..Len(slots'),
                             since: 1 .. GenerationSpan - 2]
  <2>1. {i} \in SUBSET (1..Len(slots)) /\ retired' = RetiredAfter({i})
    BY <1>1
  <2>2. /\ \A k \in {i} : slots'[k].generation = NextGeneration(slots[k].generation)
        /\ \A k \in (1..Len(slots)) \ {i} : slots'[k].generation = slots[k].generation
    BY <1>4, <1>5
  <2> QED
    BY <1>4, <2>1, <2>2, HistoryFollows
<1>7. /\ free' \in Seq(1..Len(slots)) /\ Len(free') = Len(free) + 1
      /\ free'[Len(free) + 1] = i
      /\ \A j \in 1..Len(free) : free'[j] = free[j]
  BY <1>1
<1>8. IsFiniteSet(Occupied) /\ Cardinality(Occupied) \in Nat /\ size = Cardinality(Occupied)
  BY OccupiedFinite DEF SizeExact
<1>9. Occupied' = Occupied \ {i}
  BY <1>1, <1>4, <1>5 DEF Occupied
<1>10. Cardinality(Occupied \ {i}) = Cardinality(Occupied) - 1
  BY <1>1, <1>8, FS_RemoveElement
<1>11. IsFiniteSet(Occupied \ {i}) /\ Cardinality(Occupied \ {i}) \in Nat
  BY <1>8, FS_Subset, FS_CardinalityType
<1>12. SizeExact' /\ size' \in Nat
  BY <1>1, <1>8, <1>9, <1>10, <1>11 DEF SizeExact
<1>13. PoolTypeOK'
  BY <1>1, <1>4, <1>6, <1>7, <1>12 DEF PoolTypeOK
<1>14. \A j \in 1..Len(free) : free[j] # i
  BY <1>1 DEF FreeListExact
<1>15. \A j, k \in 1..Len(free') : free'[j] = free'[k] => j = k
  BY <1>1, <1>7, <1>14 DEF FreeListExact
<1>16. ASSUME NEW k \in 1..Len(slots')
       PROVE  slots'[k].value = Vacant <=> \E j \in 1..Len(free') : free'[j] = k
  <2>1. CASE k = i
    BY <1>1, <1>5, <1>7, <2>1
  <2>2. CASE k # i
    <3>1. slots[k].value = Vacant <=> \E j \in 1..Len(free) : free[j] = k
      BY <1>4 DEF FreeListExact
    <3>2. (\E j \in 1..Len(free') : free'[j] = k) <=> \E j \in 1..Len(free) : free[j] = k
      BY <1>1, <1>7, <2>2
    <3> QED
      BY <1>4, <2>2, <3>1, <3>2
  <2> QED
    BY <2>1, <2>2
<1>17. FreeListExact'
  BY <1>15, <1>16 DEF FreeListExact
<1> QED
  BY <1>6, <1>12, <1>13, <1>17

(* Every slot is vacated and the free list is rebuilt. *)
LEMMA ClearPreserves ==
  ASSUME PoolInvariant, Clear
  PROVE  PoolInvariant'
<1> USE DEF PoolInvariant
<1>1. /\ slots \in Seq(Slot) /\ Len(slots) \in Nat /\ Len(slots) <= MaxSlots
      /\ slots' = [i \in 1..Len(slots) |-> Vacated(slots[i])]
      /\ free' = [i \in 1..Len(slots) |-> i]
      /\ size' = 0 /\ retired' = RetiredAfter(1..Len(slots))
  BY DEF PoolTypeOK, Clear
<1>2. \A i \in 1..Len(slots) : slots[i] \in Slot
  BY <1>1
<1>3. /\ slots' \in Seq(Slot) /\ Len(slots') = Len(slots)
      /\ \A i \in 1..Len(slots) :
           /\ slots'[i].value = Vacant
           /\ slots'[i].generation = NextGeneration(slots[i].generation)
  <2>1. \A i \in 1..Len(slots) : Vacated(slots[i]) \in Slot
    BY <1>2, VacatedSlot
  <2>2. slots' \in Seq(Slot) /\ Len(slots') = Len(slots)
    BY <1>1, <2>1
  <2>3. \A i \in 1..Len(slots) : slots'[i] = Vacated(slots[i])
    BY <1>1
  <2> QED
    BY <1>2, <2>2, <2>3, VacatedSlot
<1>4. /\ RetiredExact'
      /\ retired' \subseteq [generation: Generations, slot: 1..Len(slots'),
                             since: 1 .. GenerationSpan - 2]
  BY <1>1, <1>3, HistoryFollows
<1>5. free' \in Seq(1..Len(slots')) /\ Len(free') = Len(slots')
  BY <1>1, <1>3
<1>6. FreeListExact'
  BY <1>1, <1>3, <1>5 DEF FreeListExact
<1>7. Occupied' = {}
  BY <1>3 DEF Occupied
<1>8. SizeExact'
  BY <1>1, <1>7, FS_EmptySet DEF SizeExact
<1>9. PoolTypeOK'
  BY <1>1, <1>3, <1>4, <1>5 DEF PoolTypeOK
<1> QED
  BY <1>4, <1>6, <1>8, <1>9

(* The free list is exact, the size is right and the history of retired    *)
(* handles is accurate in every reachable state of the pool.                *)
THEOREM PoolCorrect == Spec => []PoolInvariant
<1>1. PoolInvariant /\ [Next]_vars => PoolInvariant'
  <2> SUFFICES ASSUME PoolInvariant, [Next]_vars PROVE PoolInvariant'
    OBVIOUS
  <2>1. CASE UNCHANGED vars
    BY <2>1 DEF vars, PoolInvariant, PoolTypeOK, FreeListExact, SizeExact, Occupied,
                RetiredExact
  <2> QED
    BY <2>1, EmplacePreserves, ErasePreserves, ClearPreserves DEF Next
<1> QED
  BY <1>1, InitPool, PTL DEF Spec

-----------------------------------------------------------------------------
(* What a script can do with its handles. *)

(* The free list holds each empty slot once and nothing else: Emplace never *)
(* overwrites a live value, and no slot is lost.                            *)
THEOREM FreeSlotsListed == Spec => []FreeListExact
<1>1. PoolInvariant => FreeListExact
  BY DEF PoolInvariant
<1> QED BY <1>1, PoolCorrect, PTL

(* A handle that was withdrawn does not resolve, until its slot has gone   *)
(* through all its generations.                                             *)
THEOREM StaleHandlesRejected == Spec => []StaleNeverResolves
<1>1. PoolInvariant => StaleNeverResolves
  <2> SUFFICES ASSUME PoolInvariant, NEW r \in retired
               PROVE  ~Validate(MakeAudioHandle(Kind, r.generation, r.slot))
    BY DEF StaleNeverResolves
  <2> DEFINE h == MakeAudioHandle(Kind, r.generation, r.slot)
  <2>1. /\ r.generation \in Generations /\ r.slot \in 1..Len(slots)
        /\ r.since \in 1 .. GenerationSpan - 2
        /\ Len(slots) \in Nat /\ Len(slots) <= MaxSlots
    BY DEF PoolInvariant, PoolTypeOK
  <2>2. /\ r.generation \in 0 .. GenerationSpan - 1 /\ r.slot \in 0 .. SlotSpan - 1
        /\ Kind \in Nat
    BY <2>1, PoolAssumption DEF Generations
  <2>3. SlotOf(h) = r.slot /\ GenerationOf(h) = r.generation
    BY <2>2, Packing
  <2>4. slots[r.slot].generation # r.generation
    BY <2>1, PoolAssumption DEF PoolInvariant, RetiredExact, Generations
  <2> QED
    BY <2>3, <2>4 DEF Validate
<1> QED
  BY <1>1, PoolCorrect, PTL

(* Every number is what packing its three fields gives. *)
LEMMA Unpacking ==
  ASSUME NEW h \in Nat
  PROVE  /\ KindOf(h) \in Nat
         /\ GenerationOf(h) \in 0 .. GenerationSpan - 1
         /\ SlotOf(h) \in 0 .. SlotSpan - 1
         /\ h = MakeAudioHandle(KindOf(h), GenerationOf(h), SlotOf(h))
<1> DEFINE G == GenerationSpan
           S == SlotSpan
           q == h \div S
           k == q \div G
           g == q % G
           i == h % S
<1>1. G \in Nat /\ G > 0 /\ S \in Nat /\ S > 0
  BY PoolAssumption
<1>2. q \in Nat /\ i \in 0 .. S - 1 /\ h = q * S + i
  BY <1>1
<1>3. k \in Nat /\ g \in 0 .. G - 1 /\ q = k * G + g
  <2> HIDE DEF q
  <2> QED
    BY <1>1, <1>2
<1>4. h = MakeAudioHandle(k, g, i)
  <2>1. g % G = g
    <3> HIDE DEF g
    <3> QED
      BY <1>1, <1>3
  <2>2. k * (G * S) + g * S + i = (k * G + g) * S + i
    <3> HIDE DEF k, g, i
    <3> QED
      BY <1>1, <1>2, <1>3, Regrouped
  <2>3. (k * G + g) * S + i = h
    BY <1>2, <1>3
  <2> QED
    BY <2>1, <2>2, <2>3 DEF MakeAudioHandle
<1> HIDE DEF k, g, i
<1>5. KindOf(h) = k /\ GenerationOf(h) = g /\ SlotOf(h) = i
  BY <1>2, <1>3, <1>4, Packing
<1> QED
  BY <1>2, <1>3, <1>4, <1>5

(* A handle that resolves is the one its slot was last issued under. *)
LEMMA Resolved ==
  ASSUME PoolTypeOK, NEW h \in AllHandles, KindOf(h) = Kind,
         SlotOf(h) \in 1..Len(slots),
         GenerationOf(h) = slots[SlotOf(h)].generation
  PROVE  h = HandleAt(SlotOf(h))
<1>1. h \in Nat
  BY PoolAssumption DEF AllHandles
<1> QED
  BY <1>1, Unpacking DEF HandleAt

(* The handle of a slot has the fields it should have. *)
LEMMA HandleFields ==
  ASSUME PoolTypeOK, NEW i \in 1 .. MaxSlots, NEW g \in Generations
  PROVE  /\ MakeAudioHandle(Kind, g, i) \in AllHandles
         /\ KindOf(MakeAudioHandle(Kind, g, i)) = Kind
         /\ GenerationOf(MakeAudioHandle(Kind, g, i)) = g
         /\ SlotOf(MakeAudioHandle(Kind, g, i)) = i
<1> DEFINE G == GenerationSpan
           S == SlotSpan
           h == MakeAudioHandle(Kind, g, i)
<1>1. /\ Kind \in Nat /\ Kinds \in Nat /\ Kind <= Kinds
      /\ g \in 0 .. G - 1 /\ i \in 0 .. S - 1
      /\ G \in Nat /\ S \in Nat
  BY PoolAssumption DEF Generations
<1>2. h \in Nat /\ KindOf(h) = Kind /\ GenerationOf(h) = g /\ SlotOf(h) = i
  BY <1>1, Packing
<1>3. h <= (Kinds + 1) * (G * S) - 1
  <2>1. h = Kind * (G * S) + g * S + i
    <3>1. g % G = g
      BY <1>1
    <3> QED
      BY <3>1 DEF MakeAudioHandle
  <2>2. g * S + S <= G * S /\ g * S \in Nat /\ G * S \in Nat
    <3>1. (g + 1) * S <= G * S
      BY <1>1
    <3> QED
      BY <1>1, <3>1
  <2>3. ASSUME NEW T \in Nat PROVE Kind * T <= Kinds * T /\ (Kinds + 1) * T = Kinds * T + T
                                   /\ Kind * T \in Nat /\ Kinds * T \in Nat
    BY <1>1
  <2>4. /\ Kind * (G * S) <= Kinds * (G * S)
        /\ (Kinds + 1) * (G * S) = Kinds * (G * S) + G * S
        /\ Kind * (G * S) \in Nat /\ Kinds * (G * S) \in Nat
    BY <2>2, <2>3
  <2> QED
    BY <1>1, <2>1, <2>2, <2>4
<1> HIDE DEF h
<1>4. (Kinds + 1) * (G * S) - 1 \in Int
  BY <1>1
<1>5. h \in AllHandles
  BY <1>2, <1>3, <1>4 DEF AllHandles
<1> QED
  BY <1>2, <1>5 DEF h

(* Whatever a script presents, only what Handles lists resolves. *)
THEOREM OnlyListedHandlesResolve == Spec => []OnlyListedResolve
<1>1. PoolInvariant => OnlyListedResolve
  <2> SUFFICES ASSUME PoolInvariant
               PROVE  \A h : h \in AllHandles /\ Validate(h) <=> h \in Handles
    BY DEF OnlyListedResolve
  <2>1. PoolTypeOK
    BY DEF PoolInvariant
  <2>2. ASSUME NEW h \in AllHandles, Validate(h) PROVE h \in Handles
    <3>1. SlotOf(h) \in Occupied /\ SlotOf(h) \in 1..Len(slots)
      BY <2>2 DEF Validate, Occupied
    <3> QED
      BY <2>1, <2>2, <3>1, Resolved DEF Validate, Handles
  <2>3. ASSUME NEW h \in Handles PROVE h \in AllHandles /\ Validate(h)
    <3>1. PICK i \in Occupied : h = HandleAt(i)
      BY DEF Handles
    <3>2. slots \in Seq(Slot) /\ i \in 1..Len(slots) /\ Len(slots) <= MaxSlots
      BY <2>1 DEF PoolTypeOK, Occupied
    <3>3. i \in 1..MaxSlots /\ slots[i] \in Slot
      BY <3>2, PoolAssumption
    <3>4. slots[i].generation \in Generations
      BY <3>3 DEF Slot
    <3> QED
      BY <2>1, <3>1, <3>3, <3>4, HandleFields DEF HandleAt, Validate
  <2> QED
    BY <2>2, <2>3
<1> QED
  BY <1>1, PoolCorrect, PTL

-----------------------------------------------------------------------------
(* Until a generation wraps, the pool implements a table of fresh handles. *)

(* Nothing resolves and nothing is spent in an empty pool. *)
LEMMA InitMaps == Init => Table!Init
<1> SUFFICES ASSUME Init PROVE Table!Init
  OBVIOUS
<1>1. \A h \in AllHandles : ~Validate(h) /\ SlotOf(h) \notin 1..Len(slots)
  BY DEF Init, Validate, Occupied
<1> QED
  BY <1>1 DEF Table!Init, Lookup, Get, SpentHandles

(* Filling slot i maps to issuing its handle. *)
LEMMA FillingIssues ==
  ASSUME PoolTypeOK, PoolTypeOK', NEW v \in Values, NEW i \in 1..Len(slots'),
         Len(slots) <= Len(slots'), i \notin Occupied,
         slots'[i].value = v,
         i \in 1..Len(slots) => slots'[i].generation = slots[i].generation,
         i \notin 1..Len(slots) => slots'[i].generation = 1,
         \A k \in 1..Len(slots') : k # i => k \in 1..Len(slots) /\ slots'[k] = slots[k]
  PROVE  Table!Next
<1>a. PICK g : g = slots'[i].generation
  OBVIOUS
<1>b. PICK n : n = MakeAudioHandle(Kind, g, i)
  OBVIOUS
<1>1. /\ slots' \in Seq(Slot) /\ Len(slots) \in Nat /\ Len(slots') \in Nat
      /\ Len(slots') <= MaxSlots
      /\ v # Vacant
  BY PoolAssumption DEF PoolTypeOK
<1>2. g \in Generations /\ i \in 1..MaxSlots
  <2>1. slots'[i] \in Slot
    BY <1>1
  <2> QED
    BY <1>a, <1>1, <2>1, PoolAssumption DEF Slot
<1>3. n \in AllHandles /\ KindOf(n) = Kind /\ GenerationOf(n) = g /\ SlotOf(n) = i
  BY <1>b, <1>2, HandleFields
<1>4. i \in Occupied' /\ Occupied' = Occupied \cup {i}
  BY <1>1 DEF Occupied
<1>5. ASSUME NEW h \in AllHandles, h # n
      PROVE  /\ Get(h)' = Get(h)
             /\ h \in SpentHandles' <=> h \in SpentHandles
  <2>1. CASE SlotOf(h) = i
    <3>1. ~Validate(h)
      BY <2>1 DEF Validate
    <3>2. ~Validate(h)'
      <4>1. SUFFICES ASSUME Validate(h)' PROVE FALSE
        OBVIOUS
      <4>2. KindOf(h) = Kind /\ GenerationOf(h) = g
        BY <1>a, <2>1, <4>1 DEF Validate
      <4>3. h \in Nat
        BY PoolAssumption DEF AllHandles
      <4>4. h = MakeAudioHandle(KindOf(h), GenerationOf(h), SlotOf(h))
        BY <4>3, Unpacking
      <4> QED
        BY <1>b, <1>5, <2>1, <4>2, <4>4
    <3>3. h \in SpentHandles' <=> h \in SpentHandles
      <4>1. CASE i \in 1..Len(slots)
        BY <2>1, <3>1, <3>2, <4>1 DEF SpentHandles
      <4>2. CASE i \notin 1..Len(slots)
        <5>1. h \notin SpentHandles
          BY <2>1, <4>2 DEF SpentHandles
        <5>2. \A x \in Generations : ~(x < 1)
          BY PoolAssumption DEF Generations
        <5> QED
          BY <2>1, <3>2, <4>2, <5>1, <5>2 DEF SpentHandles
      <4> QED
        BY <4>1, <4>2
    <3> QED
      BY <3>1, <3>2, <3>3 DEF Get
  <2>2. CASE SlotOf(h) # i
    <3>1. SlotOf(h) \in 1..Len(slots') <=> SlotOf(h) \in 1..Len(slots)
      BY <1>1, <2>2
    <3>2. SlotOf(h) \in 1..Len(slots) => slots'[SlotOf(h)] = slots[SlotOf(h)]
      BY <2>2, <3>1
    <3>3. SlotOf(h) \in Occupied' <=> SlotOf(h) \in Occupied
      BY <1>4, <2>2
    <3>4. SlotOf(h) \in Occupied => SlotOf(h) \in 1..Len(slots)
      BY DEF Occupied
    <3>5. Validate(h)' <=> Validate(h)
      BY <3>2, <3>3, <3>4 DEF Validate
    <3> QED
      BY <3>1, <3>2, <3>4, <3>5 DEF Get, SpentHandles, Validate
  <2> QED
    BY <2>1, <2>2
<1>6. Validate(n)' /\ Get(n)' = v
  BY <1>a, <1>3, <1>4 DEF Validate, Get
<1>7. n \in SpentHandles'
  BY <1>2, <1>3, <1>6 DEF SpentHandles
<1>8. n \notin SpentHandles
  <2>1. ~Validate(n)
    BY <1>3 DEF Validate
  <2>2. i \in 1..Len(slots) => ~(g < slots[i].generation)
    BY <1>a, <1>2, PoolAssumption DEF Generations
  <2> QED
    BY <1>3, <2>1, <2>2 DEF SpentHandles
<1>9. SpentHandles' = SpentHandles \cup {n}
  BY <1>3, <1>5, <1>7 DEF SpentHandles
<1>10. Lookup' = [Lookup EXCEPT ![n] = v]
  BY <1>3, <1>5, <1>6 DEF Lookup
<1>11. Table!Issue(n, v)
  BY <1>3, <1>8, <1>9, <1>10 DEF Table!Issue
<1> QED
  BY <1>3, <1>11 DEF Table!Next

(* Emplace issues a name the table never issued. *)
LEMMA EmplaceMaps ==
  ASSUME PoolInvariant, PoolInvariant', NEW v \in Values, Emplace(v)
  PROVE  Table!Next
<1>1. /\ PoolTypeOK /\ PoolTypeOK'
      /\ slots \in Seq(Slot) /\ Len(slots) \in Nat
      /\ free \in Seq(1..Len(slots)) /\ Len(free) \in Nat
  BY DEF PoolInvariant, PoolTypeOK
<1>2. CASE slots' = Append(slots, [generation |-> 1, value |-> v])
  <2>1. /\ Len(slots') = Len(slots) + 1
        /\ slots'[Len(slots) + 1] = [generation |-> 1, value |-> v]
        /\ \A k \in 1..Len(slots) : slots'[k] = slots[k]
    BY <1>1, <1>2
  <2> DEFINE i == Len(slots) + 1
  <2>2. /\ i \in 1..Len(slots') /\ i \notin 1..Len(slots) /\ i \notin Occupied
        /\ slots'[i].value = v /\ slots'[i].generation = 1
        /\ \A k \in 1..Len(slots') :
             k # i => k \in 1..Len(slots) /\ slots'[k] = slots[k]
    BY <1>1, <2>1 DEF Occupied
  <2> HIDE DEF i
  <2> QED
    BY <1>1, <2>1, <2>2, FillingIssues
<1>3. CASE /\ free # <<>>
           /\ slots' = [slots EXCEPT ![free[Len(free)]].value = v]
  <2>1. PICK i \in 1..Len(slots) : /\ i = free[Len(free)]
                                   /\ slots[i].value = Vacant
    BY <1>1, <1>3 DEF PoolInvariant, FreeListExact
  <2>2. slots[i] \in Slot
    BY <1>1
  <2>3. /\ Len(slots') = Len(slots)
        /\ slots'[i] = [slots[i] EXCEPT !.value = v]
        /\ \A k \in 1..Len(slots) : k # i => slots'[k] = slots[k]
    BY <1>1, <1>3, <2>1
  <2>4. slots'[i].value = v /\ slots'[i].generation = slots[i].generation
    BY <2>2, <2>3 DEF Slot
  <2>5. i \notin Occupied
    BY <2>1 DEF Occupied
  <2> QED
    <3>1. /\ i \in 1..Len(slots') /\ Len(slots) <= Len(slots')
          /\ \A k \in 1..Len(slots') :
               k # i => k \in 1..Len(slots) /\ slots'[k] = slots[k]
      BY <1>1, <2>3
    <3> QED
      BY <1>1, <2>4, <2>5, <3>1, FillingIssues
<1> QED
  BY <1>2, <1>3 DEF Emplace

(* A slot that does not start over goes on to its next generation. *)
LEMMA NoWrap ==
  ASSUME NEW slot \in Slot, ~(Vacated(slot).generation < slot.generation)
  PROVE  Vacated(slot).generation = slot.generation + 1
<1>1. /\ slot.generation \in Generations
      /\ Vacated(slot).generation = NextGeneration(slot.generation)
  BY VacatedSlot DEF Slot
<1> QED
  BY <1>1, Generation, PoolAssumption DEF Generations

(* Erase withdraws one name, or nothing. *)
LEMMA EraseMaps ==
  ASSUME ~Wraps, PoolInvariant, NEW n \in AllHandles, Erase(n)
  PROVE  Table!Next
<1>1. PICK i : i = SlotOf(n)
  OBVIOUS
<1>2. /\ PoolTypeOK
      /\ slots \in Seq(Slot) /\ Len(slots) \in Nat
      /\ KindOf(n) = Kind
      /\ i \in 1..Len(slots) /\ i \in Occupied
      /\ GenerationOf(n) = slots[i].generation
      /\ slots[i].generation <= LastGeneration
      /\ slots' = [slots EXCEPT ![i] = Vacated(slots[i])]
  BY <1>1 DEF PoolInvariant, PoolTypeOK, Erase, Validate, Occupied
<1>3. slots[i] \in Slot
  BY <1>2
<1>4. /\ Len(slots') = Len(slots)
      /\ slots'[i] = Vacated(slots[i])
      /\ \A k \in 1..Len(slots) : k # i => slots'[k] = slots[k]
  BY <1>2
<1>5. /\ slots'[i].value = Vacant
      /\ slots'[i].generation = slots[i].generation + 1
  BY <1>2, <1>3, <1>4, VacatedSlot, NoWrap DEF Wraps
<1>6. i \notin Occupied' /\ Occupied' = Occupied \ {i}
  BY <1>2, <1>4, <1>5 DEF Occupied
<1>7. slots[i].generation \in Nat
  BY <1>3, PoolAssumption DEF Slot, Generations
<1>8. \A h \in AllHandles : GenerationOf(h) \in Nat
  <2> TAKE h \in AllHandles
  <2>1. h \in Nat
    BY PoolAssumption DEF AllHandles
  <2> QED
    BY <2>1, Unpacking
<1>9. ASSUME NEW h \in AllHandles
      PROVE  /\ Get(h)' = IF h = n THEN Vacant ELSE Get(h)
             /\ h \in SpentHandles' <=> h \in SpentHandles
  <2>1. CASE SlotOf(h) = i
    <3>1. ~Validate(h)'
      BY <1>6, <2>1 DEF Validate
    <3>2. Validate(h) <=> h = n
      <4>1. Validate(h) => h = HandleAt(i)
        BY <1>2, <2>1, Resolved DEF Validate
      <4>2. n = HandleAt(i)
        BY <1>1, <1>2, Resolved
      <4>3. Validate(n)
        BY DEF Erase
      <4> QED
        BY <4>1, <4>2, <4>3
    <3>3. Get(h)' = IF h = n THEN Vacant ELSE Get(h)
      BY <3>1, <3>2 DEF Get
    <3>4. h \in SpentHandles' <=> h \in SpentHandles
      <4>1. GenerationOf(h) < slots'[i].generation <=>
              GenerationOf(h) < slots[i].generation \/ GenerationOf(h) = slots[i].generation
        BY <1>5, <1>7, <1>8
      <4>2. KindOf(h) = Kind => (Validate(h) <=> GenerationOf(h) = slots[i].generation)
        BY <1>2, <2>1 DEF Validate
      <4> QED
        BY <1>2, <1>4, <2>1, <3>1, <4>1, <4>2 DEF SpentHandles
    <3> QED
      BY <3>3, <3>4
  <2>2. CASE SlotOf(h) # i
    <3>1. SlotOf(h) \in 1..Len(slots) => slots'[SlotOf(h)] = slots[SlotOf(h)]
      BY <1>4, <2>2
    <3>2. SlotOf(h) \in Occupied' <=> SlotOf(h) \in Occupied
      BY <1>6, <2>2
    <3>3. SlotOf(h) \in Occupied => SlotOf(h) \in 1..Len(slots)
      BY DEF Occupied
    <3>4. Validate(h)' <=> Validate(h)
      BY <3>1, <3>2, <3>3 DEF Validate
    <3>5. h # n
      BY <1>1, <2>2
    <3>6. Get(h)' = Get(h)
      BY <3>1, <3>3, <3>4 DEF Get, Validate
    <3>7. h \in SpentHandles' <=> h \in SpentHandles
      BY <1>4, <3>1, <3>4 DEF SpentHandles
    <3> QED
      BY <3>5, <3>6, <3>7
  <2> QED
    BY <2>1, <2>2
<1>10. SpentHandles' = SpentHandles
  BY <1>9 DEF SpentHandles
<1>11. Lookup' = [Lookup EXCEPT ![n] = Vacant]
  BY <1>9 DEF Lookup
<1>12. Lookup[n] # Vacant
  BY <1>1, <1>2 DEF Lookup, Get, Erase, Occupied
<1>13. Table!Withdraw(n)
  BY <1>10, <1>11, <1>12 DEF Table!Withdraw
<1> QED
  BY <1>13 DEF Table!Next

(* Clear withdraws every name. *)
LEMMA ClearMaps ==
  ASSUME ~Wraps, PoolInvariant, Clear
  PROVE  Table!Next
<1>1. /\ PoolTypeOK
      /\ slots \in Seq(Slot) /\ Len(slots) \in Nat
      /\ slots' = [i \in 1..Len(slots) |-> Vacated(slots[i])]
      /\ \A i \in 1..Len(slots) : slots[i].generation <= LastGeneration
  BY DEF PoolInvariant, PoolTypeOK, Clear
<1>2. \A i \in 1..Len(slots) :
         /\ slots'[i].value = Vacant
         /\ slots[i].generation \in Nat
         /\ slots'[i].generation = slots[i].generation + 1
  <2> TAKE i \in 1..Len(slots)
  <2>1. slots[i] \in Slot /\ slots'[i] = Vacated(slots[i])
    BY <1>1
  <2>2. slots[i].generation \in Nat
    BY <2>1, PoolAssumption DEF Slot, Generations
  <2> QED
    BY <1>1, <2>1, <2>2, VacatedSlot, NoWrap DEF Wraps
<1>3. Len(slots') = Len(slots)
  BY <1>1
<1>4. Occupied' = {}
  BY <1>2, <1>3 DEF Occupied
<1>5. \A h : ~Validate(h)'
  BY <1>4 DEF Validate
<1>6. Lookup' = [h \in AllHandles |-> Vacant]
  BY <1>5 DEF Lookup, Get
<1>7. ASSUME NEW h \in SpentHandles PROVE h \in SpentHandles'
  <2>1. /\ h \in AllHandles /\ KindOf(h) = Kind /\ SlotOf(h) \in 1..Len(slots)
        /\ GenerationOf(h) \in Generations
        /\ \/ GenerationOf(h) < slots[SlotOf(h)].generation
           \/ GenerationOf(h) = slots[SlotOf(h)].generation
    BY DEF SpentHandles, Validate
  <2>2. GenerationOf(h) \in Nat
    BY <2>1, PoolAssumption DEF Generations
  <2>3. GenerationOf(h) < slots'[SlotOf(h)].generation
    BY <1>2, <2>1, <2>2
  <2> QED
    BY <1>3, <2>1, <2>3 DEF SpentHandles
<1>8. SpentHandles' \subseteq AllHandles
  BY DEF SpentHandles
<1>9. Table!WithdrawAll
  BY <1>6, <1>7, <1>8 DEF Table!WithdrawAll
<1> QED
  BY <1>9 DEF Table!Next

(* A step in which no slot starts over is a step of the table. *)
LEMMA StepsMap ==
  ASSUME PoolInvariant, PoolInvariant', [Next]_vars, ~Wraps
  PROVE  [Table!Next]_<<Lookup, SpentHandles>>
<1>1. CASE UNCHANGED vars
  BY <1>1 DEF vars, Lookup, Get, Validate, Occupied, SpentHandles
<1> QED
  BY <1>1, EmplaceMaps, EraseMaps, ClearMaps DEF Next

(* A handle stands for one value only, from Emplace to Erase or Clear, and  *)
(* is not issued again before its slot starts over.                         *)
THEOREM HandlesAreNames == Spec => TableBetweenWraps
<1>1. PoolInvariant /\ PoolInvariant' /\ [Next]_vars
      => [Wraps \/ Table!Next]_<<Lookup, SpentHandles>>
  BY StepsMap
<1> QED
  BY <1>1, PoolCorrect, PTL DEF Spec, TableBetweenWraps

(* A pool no slot of which is vacated in its last generation starts no slot *)
(* over.                                                                     *)
LEMMA NeverWraps ==
  ASSUME LastGeneration < GenerationSpan - 1, PoolInvariant, PoolInvariant',
         [Next]_vars
  PROVE  ~Wraps
<1>1. /\ slots \in Seq(Slot) /\ Len(slots) \in Nat
      /\ free \in Seq(1..Len(slots)) /\ Len(free) \in Nat
  BY DEF PoolInvariant, PoolTypeOK
<1>2. \A i \in 1..Len(slots) : slots[i] \in Slot /\ slots[i].generation \in Nat
  <2> TAKE i \in 1..Len(slots)
  <2>1. slots[i] \in Slot
    BY <1>1
  <2> QED
    BY <2>1, PoolAssumption DEF Slot, Generations
<1>3. \A i \in 1..Len(slots) :
        slots[i].generation <= LastGeneration =>
          Vacated(slots[i]).generation = slots[i].generation + 1
  <2> TAKE i \in 1..Len(slots)
  <2>1. /\ slots[i].generation \in Generations
        /\ Vacated(slots[i]).generation = NextGeneration(slots[i].generation)
    BY <1>2, VacatedSlot DEF Slot
  <2> QED
    BY <2>1, Generation, PoolAssumption DEF Generations
<1>4. CASE UNCHANGED vars
  BY <1>2, <1>4 DEF vars, Wraps
<1>5. ASSUME NEW v \in Values, Emplace(v) PROVE ~Wraps
  <2>1. CASE slots' = Append(slots, [generation |-> 1, value |-> v])
    BY <1>1, <1>2, <2>1 DEF Wraps
  <2>2. CASE /\ free # <<>>
             /\ slots' = [slots EXCEPT ![free[Len(free)]].value = v]
    <3>1. free[Len(free)] \in 1..Len(slots)
      BY <1>1, <2>2
    <3>2. \A i \in 1..Len(slots) : slots'[i].generation = slots[i].generation
      BY <1>1, <1>2, <2>2, <3>1 DEF Slot
    <3> QED
      BY <1>2, <3>2 DEF Wraps
  <2> QED
    BY <1>5, <2>1, <2>2 DEF Emplace
<1>6. ASSUME NEW h \in AllHandles, Erase(h) PROVE ~Wraps
  <2>1. /\ SlotOf(h) \in 1..Len(slots)
        /\ slots[SlotOf(h)].generation <= LastGeneration
        /\ slots' = [slots EXCEPT ![SlotOf(h)] = Vacated(slots[SlotOf(h)])]
    BY <1>6 DEF Erase, Validate, Occupied
  <2>2. \A i \in 1..Len(slots) : \/ slots'[i].generation = slots[i].generation
                                 \/ slots'[i].generation = slots[i].generation + 1
    BY <1>1, <1>3, <2>1
  <2> QED
    BY <1>2, <2>2 DEF Wraps
<1>7. CASE Clear
  <2>1. \A i \in 1..Len(slots) : slots'[i].generation = slots[i].generation + 1
    BY <1>1, <1>3, <1>7 DEF Clear
  <2> QED
    BY <1>2, <2>1 DEF Wraps
<1> QED
  BY <1>4, <1>5, <1>6, <1>7 DEF Next

(* While no slot has been through all its generations, the pool is the      *)
(* table from beginning to end.                                              *)
THEOREM FreshHandles ==
  ASSUME LastGeneration < GenerationSpan - 1
  PROVE  Spec => ImplementsTable
<1>1. PoolInvariant /\ PoolInvariant' /\ [Next]_vars
      => [Table!Next]_<<Lookup, SpentHandles>>
  BY StepsMap, NeverWraps
<1> QED
  BY <1>1, InitMaps, PoolCorrect, PTL DEF Spec, ImplementsTable, Table!Spec

=============================================================================
