-------------------------- MODULE TrampolineProofs --------------------------
(***************************************************************************)
(* Proofs about Trampoline, for any plugins, sites, lengths and bounds.    *)
(*                                                                         *)
(* As long as trampolines are given up tidily the code is the overlay of   *)
(* the patches in the order of their numbers (Layered), and a record holds *)
(* what the patches older than its own put under it (Remembered): not the  *)
(* bytes of when it was made, for some of those may be gone, but none of   *)
(* them covered a cell of it.  Undoing a plugin's patches from the highest *)
(* site down then is undoing them from the youngest to the oldest.         *)
(***************************************************************************)
EXTENDS Trampoline, TLAPS

PatchRecords ==
  [id : Nat \ {0}, plugin : Plugins, site : Sites, len : Lengths, pool : Nat, prev : Int]

TypeOK ==
  /\ pool \in [Plugins -> Nat]
  /\ records = [p \in Plugins |-> records[p]]
  /\ patches \subseteq PatchRecords
  /\ pools \in Nat /\ written \in Nat /\ tidy \in BOOLEAN

(* Numbers tell patches apart, and any set of patches has an oldest and a   *)
(* newest.                                                                  *)
Numbered ==
  /\ \A k \in patches : k.id <= written
  /\ \A j, k \in patches : j.id = k.id => j = k
Ranked ==
  \A S \in SUBSET patches :
    S # {} => /\ \E k \in S : \A j \in S : j.id <= k.id
              /\ \E k \in S : \A j \in S : k.id <= j.id

Below(k) == {j \in patches : j.id < k.id}
NewestAtSite(k) ==
  \A j \in Owned(k.plugin) : j.site = k.site => j.id <= k.id
RecordOf(k) ==
  [len |-> k.len, original |-> [i \in 0..(k.len - 1) |-> Overlay(Below(k))[k.site + i]]]

Layered == memory = Overlay(patches)
Remembered ==
  \A p \in Plugins :
    /\ \A s : s \in DOMAIN records[p] <=> \E k \in Owned(p) : k.site = s
    /\ \A k \in Owned(p) : NewestAtSite(k) => records[p][k.site] = RecordOf(k)
Live == \A k \in patches : pool[k.plugin] = k.pool /\ k.pool # 0
Chained ==
  \A k \in patches :
    k.prev > 0 => \E j \in patches : j.id = k.prev /\ j.id < k.id /\ j.site = k.site

TrampolinesInv ==
  /\ TypeOK /\ Numbered /\ Ranked
  /\ tidy => Layered /\ Remembered /\ Live /\ Chained
-----------------------------------------------------------------------------
(* The overlay at an address depends on the patches on that address only.   *)
LEMMA OverlayLocal ==
  ASSUME NEW P, NEW Q, NEW a \in Addrs,
         {k \in P : a \in Span(k)} = {k \in Q : a \in Span(k)}
  PROVE  Overlay(P)[a] = Overlay(Q)[a]
BY DEF Overlay

(* The newest of a set of patches is the one with the highest number.       *)
LEMMA NewestIs ==
  ASSUME NEW S, \A j \in S : j.id \in Nat, \A i, j \in S : i.id = j.id => i = j,
         NEW k \in S, \A j \in S : j.id <= k.id
  PROVE  Newest(S) = k
<1>1. Newest(S) \in S /\ \A j \in S : j.id <= Newest(S).id
  BY DEF Newest
<1>2. Newest(S).id = k.id
  BY <1>1
<1> QED BY <1>1, <1>2

(* Where a patch is the newest one, the overlay shows it.                   *)
LEMMA OverlayTop ==
  ASSUME NEW P, \A j \in P : j.id \in Nat, \A i, j \in P : i.id = j.id => i = j,
         NEW k \in P, NEW a \in Addrs, a \in Span(k),
         \A j \in P : a \in Span(j) => j.id <= k.id
  PROVE  Overlay(P)[a] = ByteOf(k, a)
<1> DEFINE on == {j \in P : a \in Span(j)}
<1>1. k \in on /\ \A j \in on : j.id <= k.id
  OBVIOUS
<1>2. Newest(on) = k
  <2> HIDE DEF on
  <2>1. (\A j \in on : j.id \in Nat) /\ (\A i, j \in on : i.id = j.id => i = j)
    BY DEF on
  <2> QED BY <1>1, <2>1, NewestIs
<1>3. on # {}
  BY <1>1
<1>4. Overlay(P)[a] = ByteOf(Newest(on), a)
  BY <1>3 DEF Overlay
<1> QED BY <1>2, <1>4

(* And where there is one at all, some patch is the newest.                 *)
LEMMA OverlayOfSome ==
  ASSUME TypeOK, Numbered, Ranked, NEW P \in SUBSET patches, NEW a \in Addrs,
         NEW h \in P, a \in Span(h)
  PROVE  \E k \in P : /\ a \in Span(k)
                      /\ \A j \in P : a \in Span(j) => j.id <= k.id
                      /\ Overlay(P)[a] = ByteOf(k, a)
<1> DEFINE on == {j \in P : a \in Span(j)}
<1>1. on \in SUBSET patches /\ on # {}
  OBVIOUS
<1>2. PICK k \in on : \A j \in on : j.id <= k.id
  BY <1>1 DEF Ranked
<1>3. (\A j \in P : j.id \in Nat) /\ (\A i, j \in P : i.id = j.id => i = j)
  BY DEF TypeOK, Numbered, PatchRecords
<1>4. Overlay(P)[a] = ByteOf(k, a)
  BY <1>2, <1>3, OverlayTop
<1> QED BY <1>2, <1>4
-----------------------------------------------------------------------------
(* What a patch covers. *)
LEMMA SpanCells ==
  ASSUME TypeOK, NEW k \in patches
  PROVE  /\ Span(k) \subseteq Addrs
         /\ k.site \in Span(k)
         /\ \A i \in 0..(k.len - 1) : k.site + i \in Span(k)
         /\ \A a \in Span(k) : a - k.site \in 0..(k.len - 1) /\ k.site + (a - k.site) = a
<1>1. /\ k.site \in Sites /\ k.len \in {Disp + 1, Disp + 2}
      /\ Disp \in Nat \ {0} /\ LastAddr \in Nat
      /\ k.site \in 0..LastAddr /\ k.site + Disp + 1 <= LastAddr
  BY TrampolineAssumption DEF TypeOK, PatchRecords, Lengths
<1>2. Span(k) = k.site..(k.site + k.len - 1) /\ Addrs = 0..LastAddr
  BY DEF Span, Cells, Addrs
<1> HIDE DEF TypeOK
<1>3. /\ k.site \in Int /\ 0 <= k.site /\ k.len \in Int /\ k.len >= 1
      /\ k.site + k.len - 1 <= LastAddr
  BY <1>1
<1>4. Span(k) \subseteq Addrs /\ k.site \in Span(k)
  BY <1>1, <1>2, <1>3
<1>5. \A i \in 0..(k.len - 1) : k.site + i \in Span(k)
  BY <1>2, <1>3
<1>6. \A a \in Span(k) : a - k.site \in 0..(k.len - 1) /\ k.site + (a - k.site) = a
  BY <1>2, <1>3
<1> QED BY <1>4, <1>5, <1>6

(* A plugin that may destroy its trampoline tidily has one patch on a site, *)
(* and its record is that patch's.                                          *)
LEMMA TidyRecords ==
  ASSUME TrampolinesInv, tidy, NEW p \in Plugins, Tidy(p), NEW k \in Owned(p)
  PROVE  /\ \A j \in Owned(p) : j.site = k.site => j = k
         /\ k.site \in DOMAIN records[p]
         /\ records[p][k.site] = RecordOf(k)
<1>0. TypeOK /\ Numbered /\ Remembered
  BY DEF TrampolinesInv
<1>1. k \in patches /\ k.plugin = p /\ k.id \in Nat /\ k.site \in Int
  BY <1>0, TrampolineAssumption DEF Owned, TypeOK, PatchRecords
<1>2. ASSUME NEW j \in Owned(p), j.site = k.site PROVE j = k
  <2>1. j \in patches /\ j.plugin = p /\ j.id \in Nat
    BY <1>0 DEF Owned, TypeOK, PatchRecords
  <2>2. Overlap(j, k) /\ Overlap(k, j)
    BY <1>0, <1>1, <2>1, <1>2, SpanCells DEF Overlap
  <2>3. ~(j.id < k.id) /\ ~(k.id < j.id)
    BY <1>1, <2>1, <2>2, <1>2 DEF Tidy
  <2> QED BY <1>0, <1>1, <2>1, <2>3 DEF Numbered
<1>3. NewestAtSite(k)
  BY <1>1, <1>2 DEF NewestAtSite
<1> QED BY <1>0, <1>1, <1>2, <1>3 DEF Remembered

(* Undoing them leaves the overlay of the others' patches.                  *)
LEMMA DestroyRestores ==
  ASSUME TrampolinesInv, tidy, NEW p \in Plugins, Tidy(p)
  PROVE  Restored(records[p]) = Overlay(patches \ Owned(p))
<1>0. TypeOK /\ Numbered /\ Ranked /\ Remembered /\ Layered
  BY DEF TrampolinesInv
<1> DEFINE r == records[p]
<1>1. \A k \in Owned(p) :
        /\ k \in patches /\ k.plugin = p /\ k.id \in Nat /\ k.site \in Int /\ k.len \in Int
        /\ \A j \in Owned(p) : j.site = k.site => j = k
        /\ k.site \in DOMAIN r /\ r[k.site] = RecordOf(k)
        /\ r[k.site].len = k.len /\ Cells(k.site, r[k.site].len) = Span(k)
  <2> SUFFICES ASSUME NEW k \in Owned(p)
               PROVE  /\ k \in patches /\ k.plugin = p
                      /\ k.id \in Nat /\ k.site \in Int /\ k.len \in Int
                      /\ \A j \in Owned(p) : j.site = k.site => j = k
                      /\ k.site \in DOMAIN r /\ r[k.site] = RecordOf(k)
                      /\ r[k.site].len = k.len /\ Cells(k.site, r[k.site].len) = Span(k)
    OBVIOUS
  <2>1. k \in patches /\ k.plugin = p /\ k.id \in Nat /\ k.site \in Int /\ k.len \in Int
    BY <1>0, TrampolineAssumption DEF Owned, TypeOK, PatchRecords, Lengths
  <2>2. /\ \A j \in Owned(p) : j.site = k.site => j = k
        /\ k.site \in DOMAIN r /\ r[k.site] = RecordOf(k)
    BY TidyRecords
  <2>3. RecordOf(k).len = k.len
    BY DEF RecordOf
  <2>4. r[k.site].len = k.len
    BY <2>2, <2>3
  <2> HIDE DEF r
  <2> QED BY <2>1, <2>2, <2>4 DEF Span
<1>2. \A s \in DOMAIN r : \E k \in Owned(p) : k.site = s
  BY <1>0 DEF Remembered
<1> HIDE DEF r
<1>3. ASSUME NEW a \in Addrs
      PROVE  Restored(r)[a] = Overlay(patches \ Owned(p))[a]
  <2> DEFINE C == {k \in Owned(p) : a \in Span(k)}
             Covers(s) == s \in DOMAIN r /\ a \in Cells(s, r[s].len)
  <2>1. \A k \in C : Covers(k.site)
    BY <1>1
  <2>2. \A s : Covers(s) => \E k \in C : k.site = s
    BY <1>1, <1>2
  <2>3. CASE C = {}
    <3>1. ~\E s \in DOMAIN r : a \in Cells(s, r[s].len)
      BY <2>2, <2>3
    <3>2. Restored(r)[a] = memory[a]
      BY <3>1 DEF Restored
    <3>3. {k \in patches : a \in Span(k)} = {k \in patches \ Owned(p) : a \in Span(k)}
      BY <2>3
    <3> QED BY <1>0, <3>2, <3>3, OverlayLocal DEF Layered
  <2>4. CASE C # {}
    <3>1. C \in SUBSET patches
      BY DEF Owned
    <3>2. PICK k \in C : \A j \in C : k.id <= j.id
      BY <1>0, <2>4, <3>1 DEF Ranked
    <3>3. \A j \in C : j.site <= k.site
      <4> SUFFICES ASSUME NEW j \in C PROVE j.site <= k.site
        OBVIOUS
      <4>1. CASE j = k
        BY <1>1, <4>1
      <4>2. CASE j # k
        <5>1. j.id # k.id /\ k.id < j.id
          BY <1>0, <1>1, <3>2, <4>2 DEF Numbered
        <5>2. Overlap(k, j)
          BY DEF Overlap
        <5> QED BY <1>1, <5>1, <5>2 DEF Tidy
      <4> QED BY <4>1, <4>2
    <3>4. LastWord(r, a) = k.site
      <4>1. \A s : Covers(s) => s <= k.site /\ s \in Int
        BY <1>1, <2>2, <3>3
      <4>2. Covers(k.site)
        BY <2>1
      <4> DEFINE Last(s) ==
                   /\ a \in Cells(s, r[s].len)
                   /\ \A t \in DOMAIN r : a \in Cells(t, r[t].len) => t <= s
      <4>3. k.site \in DOMAIN r /\ Last(k.site)
        BY <4>1, <4>2
      <4>4. \A s \in DOMAIN r : Last(s) => s = k.site
        BY <1>1, <4>1, <4>2
      <4>5. LastWord(r, a) = CHOOSE s \in DOMAIN r : Last(s)
        BY DEF LastWord
      <4> HIDE DEF Last
      <4> QED BY <4>3, <4>4, <4>5
    <3>5. Restored(r)[a] = r[k.site].original[a - k.site]
      <4>1. \E s \in DOMAIN r : a \in Cells(s, r[s].len)
        BY <2>1
      <4> QED BY <3>4, <4>1 DEF Restored
    <3>6. r[k.site].original[a - k.site] = Overlay(Below(k))[a]
      <4>1. a - k.site \in 0..(k.len - 1) /\ k.site + (a - k.site) = a
        BY <1>0, <1>1, SpanCells
      <4>2. r[k.site].original = [i \in 0..(k.len - 1) |-> Overlay(Below(k))[k.site + i]]
        <5>1. r[k.site] = RecordOf(k)
          BY <1>1
        <5>2. RecordOf(k).original = [i \in 0..(k.len - 1) |-> Overlay(Below(k))[k.site + i]]
          BY Zenon DEF RecordOf
        <5> QED BY <5>1, <5>2
      <4> QED BY <4>1, <4>2
    <3>7. {j \in Below(k) : a \in Span(j)} = {j \in patches \ Owned(p) : a \in Span(j)}
      <4>1. ASSUME NEW j \in patches, a \in Span(j)
            PROVE  j.id < k.id <=> j \notin Owned(p)
        <5>1. j.id \in Nat /\ k.id \in Nat
          BY <1>0, <1>1 DEF TypeOK, PatchRecords
        <5>2. CASE j \in Owned(p)
          BY <3>2, <4>1, <5>1, <5>2
        <5>3. CASE j \notin Owned(p)
          <6>1. j.plugin # p /\ Overlap(k, j)
            BY <4>1, <5>3 DEF Owned, Overlap
          <6>2. ~(k.id < j.id)
            BY <1>1, <6>1 DEF Tidy
          <6>3. k.id # j.id
            BY <1>0, <1>1, <5>3 DEF Numbered
          <6> QED BY <5>1, <5>3, <6>2, <6>3
        <5> QED BY <5>2, <5>3
      <4> QED BY <4>1 DEF Below
    <3> QED BY <3>5, <3>6, <3>7, OverlayLocal
  <2> QED BY <2>3, <2>4
<1>4. /\ Restored(r) = [a \in Addrs |-> Restored(r)[a]]
      /\ Overlay(patches \ Owned(p)) = [a \in Addrs |-> Overlay(patches \ Owned(p))[a]]
  BY DEF Restored, Overlay
<1> QED BY <1>3, <1>4 DEF r
-----------------------------------------------------------------------------
(* Giving up a plugin's patches: what remains is numbered and ranked still, *)
(* and tidily given up also remembered and chained.  Destroy, and Unload    *)
(* and the like with nothing to give up, take this step.                    *)
LEMMA Removal ==
  ASSUME TrampolinesInv, NEW p \in Plugins, patches' = patches \ Owned(p),
         written' = written
  PROVE  Numbered' /\ Ranked'
BY DEF TrampolinesInv, Numbered, Ranked

LEMMA TidyRemoval ==
  ASSUME TrampolinesInv, tidy, NEW p \in Plugins, Tidy(p),
         patches' = patches \ Owned(p), records' = [records EXCEPT ![p] = << >>]
  PROVE  Remembered' /\ Chained'
<1>0. TypeOK /\ Numbered /\ Remembered /\ Chained
  BY DEF TrampolinesInv
<1>1. \A j \in Owned(p), k \in patches' : j.id < k.id => ~Overlap(j, k)
  BY DEF Tidy, Owned
<1>2. Chained'
  <2> SUFFICES ASSUME NEW k \in patches', k.prev > 0
               PROVE  \E j \in patches' : j.id = k.prev /\ j.id < k.id /\ j.site = k.site
    BY DEF Chained
  <2>1. k \in patches
    OBVIOUS
  <2>2. PICK j \in patches : j.id = k.prev /\ j.id < k.id /\ j.site = k.site
    BY <1>0, <2>1 DEF Chained
  <2>3. Overlap(j, k)
    BY <1>0, <2>1, <2>2, SpanCells DEF Overlap
  <2> QED BY <1>1, <2>2, <2>3
<1>3. ASSUME NEW q \in Plugins, q # p
      PROVE  /\ \A s : s \in DOMAIN records'[q] <=> \E k \in Owned(q)' : k.site = s
             /\ \A k \in Owned(q)' : NewestAtSite(k)' => records'[q][k.site] = RecordOf(k)'
  <2>1. Owned(q)' = Owned(q) /\ records'[q] = records[q]
    BY <1>0, <1>3 DEF Owned, TypeOK
  <2>2. ASSUME NEW k \in Owned(q), NewestAtSite(k)'
        PROVE  records'[q][k.site] = RecordOf(k)'
    <3>1. k \in patches /\ k \in patches' /\ k.plugin = q
      BY <1>3 DEF Owned
    <3>2. NewestAtSite(k)
      BY <2>1, <2>2, <3>1 DEF NewestAtSite
    <3>3. records'[q][k.site] = RecordOf(k)
      BY <1>0, <2>1, <3>2 DEF Remembered
    <3>4. ASSUME NEW i \in 0..(k.len - 1)
          PROVE  Overlay(Below(k)')[k.site + i] = Overlay(Below(k))[k.site + i]
      <4> DEFINE a == k.site + i
      <4>1. a \in Addrs /\ a \in Span(k)
        BY <1>0, <3>1, SpanCells
      <4> HIDE DEF a
      <4>2. \A j \in Owned(p) : j.id < k.id => a \notin Span(j)
        BY <1>1, <3>1, <4>1 DEF Overlap
      <4>3. {j \in Below(k)' : a \in Span(j)} = {j \in Below(k) : a \in Span(j)}
        BY <4>2 DEF Below
      <4>4. Overlay(Below(k)')[a] = Overlay(Below(k))[a]
        BY <4>1, <4>3, OverlayLocal
      <4> QED BY <4>4 DEF a
    <3>5. RecordOf(k)' = RecordOf(k)
      <4>1. RecordOf(k)' =
              [len |-> k.len,
               original |-> [i \in 0..(k.len - 1) |-> Overlay(Below(k)')[k.site + i]]]
        BY DEF RecordOf, Overlay
      <4>2. [i \in 0..(k.len - 1) |-> Overlay(Below(k)')[k.site + i]]
              = [i \in 0..(k.len - 1) |-> Overlay(Below(k))[k.site + i]]
        BY <3>4
      <4> QED BY <4>1, <4>2 DEF RecordOf
    <3> QED BY <3>3, <3>5
  <2>3. \A s : s \in DOMAIN records'[q] <=> \E k \in Owned(q)' : k.site = s
    BY <1>0, <2>1 DEF Remembered
  <2> QED BY <2>1, <2>2, <2>3
<1>4. Owned(p)' = {} /\ DOMAIN records'[p] = {}
  <2>1. records'[p] = << >>
    BY <1>0 DEF TypeOK
  <2> QED BY <2>1 DEF Owned
<1>5. Remembered'
  <2> SUFFICES ASSUME NEW q \in Plugins
               PROVE  /\ \A s : s \in DOMAIN records'[q] <=> \E k \in Owned(q)' : k.site = s
                      /\ \A k \in Owned(q)' : NewestAtSite(k)' => records'[q][k.site] = RecordOf(k)'
    BY Zenon DEF Remembered
  <2>1. CASE q = p
    BY <1>4, <2>1
  <2>2. CASE q # p
    BY <1>3, <2>2
  <2> QED BY <2>1, <2>2
<1> QED BY <1>2, <1>5

(* A tidy trampoline without patches of its own has nothing to be tidy of.  *)
LEMMA NothingToUndo ==
  ASSUME NEW p, Owned(p) = {}
  PROVE  Tidy(p) /\ patches \ Owned(p) = patches
BY DEF Tidy, Owned

LEMMA DestroyInv ==
  ASSUME TrampolinesInv, NEW p \in Plugins, Destroy(p)
  PROVE  TrampolinesInv'
<1>0. TypeOK
  BY DEF TrampolinesInv
<1>1. TypeOK'
  BY <1>0 DEF TypeOK, Destroy, Release
<1>2. Numbered' /\ Ranked'
  BY Removal DEF Destroy
<1>3. ASSUME tidy' PROVE Layered' /\ Remembered' /\ Live' /\ Chained'
  <2>1. tidy /\ Tidy(p)
    BY <1>3 DEF Destroy
  <2>2. Remembered' /\ Chained'
    BY <2>1, TidyRemoval DEF Destroy
  <2>3. Layered'
    <3>1. memory' = Overlay(patches')
      BY <2>1, DestroyRestores DEF Destroy
    <3> QED BY <3>1 DEF Layered, Overlay
  <2>4. Live'
    BY <1>0, <2>1 DEF TrampolinesInv, Live, Destroy, Release, TypeOK, Owned, PatchRecords
  <2> QED BY <2>2, <2>3, <2>4
<1> QED BY <1>1, <1>2, <1>3 DEF TrampolinesInv

LEMMA UnloadInv ==
  ASSUME TrampolinesInv, NEW p \in Plugins, Unload(p)
  PROVE  TrampolinesInv'
<1>0. TypeOK
  BY DEF TrampolinesInv
<1>1. TypeOK'
  BY <1>0 DEF TypeOK, Unload, Release
<1>2. Numbered' /\ Ranked'
  BY Removal DEF Unload
<1>3. ASSUME tidy' PROVE Layered' /\ Remembered' /\ Live' /\ Chained'
  <2>1. tidy /\ Owned(p) = {} /\ patches' = patches /\ memory' = memory
    BY <1>3, NothingToUndo DEF Unload
  <2>2. Remembered' /\ Chained'
    BY <2>1, NothingToUndo, TidyRemoval DEF Unload
  <2>3. Layered'
    BY <2>1 DEF TrampolinesInv, Layered, Overlay
  <2>4. Live'
    BY <1>0, <2>1 DEF TrampolinesInv, Live, Unload, Release, TypeOK, Owned, PatchRecords
  <2> QED BY <2>2, <2>3, <2>4
<1> QED BY <1>1, <1>2, <1>3 DEF TrampolinesInv

(* Neither create nor set_trampoline touches a patch.                       *)
LEMMA KeepsPatches ==
  ASSUME TrampolinesInv, tidy,
         UNCHANGED <<memory, records, patches, written>>
  PROVE  Numbered' /\ Ranked' /\ Layered' /\ Remembered' /\ Chained'
<1>1. /\ Numbered /\ Ranked /\ Layered /\ Remembered /\ Chained
      /\ memory' = memory /\ records' = records /\ patches' = patches /\ written' = written
  BY DEF TrampolinesInv
<1>2. Numbered' /\ Ranked'
  BY <1>1 DEF Numbered, Ranked
<1>3. Layered'
  BY <1>1 DEF Layered, Overlay
<1>4. Chained'
  BY <1>1 DEF Chained
<1>5. \A k : Owned(k)' = Owned(k) /\ Below(k)' = Below(k)
  BY <1>1 DEF Owned, Below
<1>6. \A k : NewestAtSite(k)' <=> NewestAtSite(k)
  BY <1>5, Zenon DEF NewestAtSite
<1>7. \A k : RecordOf(k)' = RecordOf(k)
  <2>1. \A k : RecordOf(k)' =
          [len |-> k.len, original |-> [i \in 0..(k.len - 1) |-> Overlay(Below(k)')[k.site + i]]]
    BY DEF RecordOf, Overlay
  <2> QED BY <1>5, <2>1 DEF RecordOf
<1>8. Remembered'
  BY <1>1, <1>5, <1>6, <1>7, Zenon DEF Remembered
<1> QED BY <1>2, <1>3, <1>4, <1>8

LEMMA StutterInv ==
  ASSUME TrampolinesInv, UNCHANGED vars
  PROVE  TrampolinesInv'
<1>1. TypeOK'
  BY DEF TrampolinesInv, TypeOK, vars
<1>2. Numbered' /\ Ranked'
  BY DEF TrampolinesInv, Numbered, Ranked, vars
<1>3. ASSUME tidy' PROVE tidy /\ Live'
  BY <1>3 DEF TrampolinesInv, Live, vars
<1> QED BY <1>1, <1>2, <1>3, KeepsPatches DEF TrampolinesInv, vars

LEMMA CreateInv ==
  ASSUME TrampolinesInv, NEW p \in Plugins, Create(p)
  PROVE  TrampolinesInv'
<1>0. TypeOK
  BY DEF TrampolinesInv
<1>1. CASE UNCHANGED vars
  BY <1>1, StutterInv
<1>2. CASE ~UNCHANGED vars
  <2>1. /\ pool[p] = 0 /\ pool' = [pool EXCEPT ![p] = pools + 1]
        /\ pools' = pools + 1
        /\ UNCHANGED <<memory, records, patches, written, tidy>>
    BY <1>2 DEF Create
  <2>2. TypeOK'
    BY <1>0, <2>1 DEF TypeOK
  <2>3. Numbered' /\ Ranked'
    BY <2>1 DEF TrampolinesInv, Numbered, Ranked
  <2>4. ASSUME tidy' PROVE Live'
    BY <1>0, <2>1, <2>4 DEF TrampolinesInv, Live, TypeOK, PatchRecords
  <2> QED BY <2>1, <2>2, <2>3, <2>4, KeepsPatches DEF TrampolinesInv
<1> QED BY <1>1, <1>2

LEMMA SetTrampolineInv ==
  ASSUME TrampolinesInv, NEW p \in Plugins, SetTrampoline(p)
  PROVE  TrampolinesInv'
<1>0. TypeOK
  BY DEF TrampolinesInv
<1>1. TypeOK'
  BY <1>0 DEF TypeOK, SetTrampoline
<1>2. Numbered' /\ Ranked'
  BY DEF TrampolinesInv, Numbered, Ranked, SetTrampoline
<1>3. ASSUME tidy' PROVE tidy /\ Live'
  BY <1>0, <1>3 DEF TrampolinesInv, Live, TypeOK, PatchRecords, SetTrampoline, Owned
<1> QED BY <1>1, <1>2, <1>3, KeepsPatches DEF TrampolinesInv, SetTrampoline
-----------------------------------------------------------------------------
(* A new patch lies over all others and records what they put there.        *)
LEMMA WritePatchInv ==
  ASSUME TrampolinesInv, NEW p \in Plugins, NEW s \in Sites, NEW n \in Lengths,
         WritePatch(p, s, n)
  PROVE  TrampolinesInv'
<1>0. TypeOK /\ Numbered /\ Ranked
  BY DEF TrampolinesInv
<1>a. PICK k : k = [id |-> written + 1, plugin |-> p, site |-> s, len |-> n,
                    pool |-> pool[p], prev |-> LeadsTo(s, n)]
  OBVIOUS
<1>1. /\ pool[p] # 0 /\ pool' = pool /\ pools' = pools /\ tidy' = tidy
      /\ written' = written + 1
      /\ records' = [records EXCEPT ![p] = Recorded(records[p], s, n)]
      /\ memory' = Patched(k) /\ patches' = patches \cup {k}
  BY <1>a DEF WritePatch
<1>2. LeadsTo(s, n) \in Int /\ (LeadsTo(s, n) > 0 =>
        \E j \in patches : j.id = LeadsTo(s, n) /\ j.site = s)
  <2> DEFINE operand == (s + n - Disp)..(s + n - 1)
             hooks == {j \in patches : j.site = s /\ j.len = n
                                          /\ \A a \in operand : memory[a] = ByteOf(j, a)}
  <2>1. \/ LeadsTo(s, n) \in {Unhooked, 0, Wild}
        \/ hooks # {} /\ LeadsTo(s, n) = Newest(hooks).id
    BY DEF LeadsTo
  <2>2. hooks # {} => Newest(hooks) \in hooks
    <3>1. hooks \in SUBSET patches
      OBVIOUS
    <3>2. hooks # {} => \E j \in hooks : \A i \in hooks : i.id <= j.id
      BY <1>0, <3>1 DEF Ranked
    <3> HIDE DEF hooks
    <3> QED BY <3>2 DEF Newest
  <2>3. \A j \in patches : j.id \in Nat
    BY <1>0 DEF TypeOK, PatchRecords
  <2>4. CASE LeadsTo(s, n) \in {Unhooked, 0, Wild}
    BY <2>4 DEF Unhooked, Wild
  <2>5. CASE hooks # {} /\ LeadsTo(s, n) = Newest(hooks).id
    <3>1. Newest(hooks) \in patches /\ Newest(hooks).site = s
      BY <2>2, <2>5
    <3> HIDE DEF hooks
    <3> QED BY <2>3, <2>5, <3>1
  <2> QED BY <2>1, <2>4, <2>5
<1>3. /\ k.id = written + 1 /\ k.plugin = p /\ k.site = s /\ k.len = n
      /\ k.pool = pool[p] /\ k.prev = LeadsTo(s, n)
  BY <1>a
<1>4. k \in PatchRecords
  BY <1>0, <1>2, <1>a DEF TypeOK, PatchRecords
<1>5. \A j \in patches : j.id \in Nat /\ j.id < k.id /\ j.id <= written
  BY <1>0, <1>3 DEF TypeOK, PatchRecords, Numbered
<1>6. k.id \in Nat /\ k \notin patches
  BY <1>0, <1>3, <1>5 DEF TypeOK
<1>7. TypeOK'
  BY <1>0, <1>1, <1>4 DEF TypeOK
<1>8. Numbered'
  BY <1>0, <1>1, <1>3, <1>5, <1>6 DEF Numbered, TypeOK
<1>9. Ranked'
  <2> SUFFICES ASSUME NEW S \in SUBSET patches', S # {}
               PROVE  /\ \E i \in S : \A j \in S : j.id <= i.id
                      /\ \E i \in S : \A j \in S : i.id <= j.id
    BY DEF Ranked
  <2>1. CASE k \notin S
    <3>1. S \in SUBSET patches
      BY <1>1, <2>1
    <3> QED BY <1>0, <3>1 DEF Ranked
  <2>2. CASE k \in S
    <3>1. \E i \in S : \A j \in S : j.id <= i.id
      BY <1>1, <1>5, <1>6, <2>2
    <3>2. \E i \in S : \A j \in S : i.id <= j.id
      <4>1. CASE S = {k}
        BY <1>6, <4>1
      <4>2. CASE S # {k}
        <5>1. S \ {k} \in SUBSET patches /\ S \ {k} # {}
          BY <1>1, <2>2, <4>2
        <5>2. PICK i \in S \ {k} : \A j \in S \ {k} : i.id <= j.id
          BY <1>0, <5>1 DEF Ranked
        <5>3. i.id <= k.id
          BY <1>5, <1>6, <5>1, <5>2
        <5> QED BY <5>2, <5>3
      <4> QED BY <4>1, <4>2
    <3> QED BY <3>1, <3>2
  <2> QED BY <2>1, <2>2
<1>10. ASSUME tidy' PROVE Layered'
  <2>1. memory = Overlay(patches)
    BY <1>1, <1>10 DEF TrampolinesInv, Layered
  <2>2. ASSUME NEW a \in Addrs PROVE memory'[a] = Overlay(patches')[a]
    <3>1. CASE a \in Span(k)
      <4>1. \A j \in patches' : j.id \in Nat /\ j.id <= k.id
        BY <1>1, <1>5, <1>6
      <4>2. \A i, j \in patches' : i.id = j.id => i = j
        BY <1>8 DEF Numbered
      <4>3. Overlay(patches')[a] = ByteOf(k, a)
        <5>1. k \in patches'
          BY <1>1
        <5> QED BY <3>1, <4>1, <4>2, <5>1, OverlayTop
      <4> QED BY <1>1, <3>1, <4>3 DEF Patched
    <3>2. CASE a \notin Span(k)
      <4>1. {j \in patches' : a \in Span(j)} = {j \in patches : a \in Span(j)}
        BY <1>1, <3>2
      <4>2. Overlay(patches')[a] = Overlay(patches)[a]
        BY <4>1, OverlayLocal
      <4> QED BY <1>1, <2>1, <3>2, <4>2 DEF Patched
    <3> QED BY <3>1, <3>2
  <2>3. /\ memory' = [a \in Addrs |-> memory'[a]]
        /\ Overlay(patches') = [a \in Addrs |-> Overlay(patches')[a]]
    BY <1>1 DEF Patched, Overlay
  <2>4. memory' = Overlay(patches')
    BY <2>2, <2>3
  <2> QED BY <2>4 DEF Layered, Overlay
<1>11. ASSUME tidy' PROVE Remembered'
  <2>0. Remembered /\ memory = Overlay(patches)
    BY <1>1, <1>11 DEF TrampolinesInv, Layered
  <2>1. \A j : Below(j)' = {i \in patches' : i.id < j.id}
    BY DEF Below
  <2>2. Below(k)' = patches
    <3>1. {i \in patches' : i.id < k.id} = patches
      BY <1>1, <1>5, <1>6
    <3> QED BY <2>1, <3>1, Zenon
  <2>3. \A j \in patches : Below(j)' = Below(j)
    BY <1>1, <1>5, <1>6, <2>1 DEF Below
  <2>4. \A j : RecordOf(j)' =
          [len |-> j.len, original |-> [i \in 0..(j.len - 1) |-> Overlay(Below(j)')[j.site + i]]]
    BY DEF RecordOf, Overlay
  <2>5. RecordOf(k)' = Saved(s, n)
    <3>1. [i \in 0..(n - 1) |-> Overlay(Below(k)')[s + i]] = [i \in 0..(n - 1) |-> memory[s + i]]
      BY <2>0, <2>2
    <3> QED BY <1>3, <2>4, <3>1 DEF Saved
  <2>6. \A j \in patches : RecordOf(j)' = RecordOf(j)
    BY <2>3, <2>4 DEF RecordOf
  <2>7. /\ \A q \in Plugins \ {p} : Owned(q)' = Owned(q) /\ records'[q] = records[q]
        /\ Owned(p)' = Owned(p) \cup {k}
        /\ records'[p] = Recorded(records[p], s, n)
    BY <1>0, <1>1, <1>3 DEF Owned, TypeOK
  <2>8. ASSUME NEW q \in Plugins, q # p
        PROVE  /\ \A t : t \in DOMAIN records'[q] <=> \E j \in Owned(q)' : j.site = t
               /\ \A j \in Owned(q)' : NewestAtSite(j)' => records'[q][j.site] = RecordOf(j)'
    <3>1. \A t : t \in DOMAIN records'[q] <=> \E j \in Owned(q)' : j.site = t
      BY <2>0, <2>7, <2>8 DEF Remembered
    <3>2. ASSUME NEW j \in Owned(q)', NewestAtSite(j)'
          PROVE  records'[q][j.site] = RecordOf(j)'
      <4>1. j \in Owned(q) /\ j \in patches /\ j.plugin = q
        BY <2>7, <2>8 DEF Owned
      <4>2. NewestAtSite(j)
        BY <2>7, <2>8, <3>2, <4>1 DEF NewestAtSite
      <4>3. records[q][j.site] = RecordOf(j)
        BY <2>0, <4>1, <4>2 DEF Remembered
      <4> QED BY <2>6, <2>7, <2>8, <4>1, <4>3
    <3> QED BY <3>1, <3>2
  <2>9. /\ \A t : t \in DOMAIN records'[p] <=> \E j \in Owned(p)' : j.site = t
        /\ \A j \in Owned(p)' : NewestAtSite(j)' => records'[p][j.site] = RecordOf(j)'
    <3>1. /\ DOMAIN records'[p] = DOMAIN records[p] \cup {s}
          /\ records'[p][s] = Saved(s, n)
          /\ \A t \in DOMAIN records[p] : t # s => records'[p][t] = records[p][t]
      BY <2>7 DEF Recorded
    <3>2. \A t : t \in DOMAIN records'[p] <=> \E j \in Owned(p)' : j.site = t
      BY <1>3, <2>0, <2>7, <3>1 DEF Remembered
    <3>3. ASSUME NEW j \in Owned(p)', NewestAtSite(j)'
          PROVE  records'[p][j.site] = RecordOf(j)'
      <4>1. CASE j = k
        BY <1>3, <2>5, <3>1, <4>1
      <4>2. CASE j # k
        <5>1. j \in Owned(p) /\ j \in patches /\ j.plugin = p
          BY <2>7, <4>2 DEF Owned
        <5>2. j.site # s
          <6>1. k \in Owned(p)'
            BY <2>7
          <6>2. j.site = k.site => k.id <= j.id
            BY <3>3, <5>1, <6>1 DEF NewestAtSite
          <6> QED BY <1>3, <1>5, <1>6, <5>1, <6>2
        <5>3. NewestAtSite(j)
          BY <2>7, <3>3, <5>1 DEF NewestAtSite
        <5>4. records[p][j.site] = RecordOf(j) /\ j.site \in DOMAIN records[p]
          BY <2>0, <5>1, <5>3 DEF Remembered
        <5> QED BY <2>6, <3>1, <5>1, <5>2, <5>4
      <4> QED BY <4>1, <4>2
    <3> QED BY <3>2, <3>3
  <2> QED BY <2>8, <2>9, Zenon DEF Remembered
<1>12. ASSUME tidy' PROVE Live'
  BY <1>1, <1>3, <1>12 DEF TrampolinesInv, Live
<1>13. ASSUME tidy' PROVE Chained'
  <2>1. ASSUME NEW j \in patches', j.prev > 0
        PROVE  \E i \in patches' : i.id = j.prev /\ i.id < j.id /\ i.site = j.site
    <3>1. CASE j = k
      BY <1>1, <1>2, <1>3, <1>5, <2>1, <3>1
    <3>2. CASE j # k
      BY <1>1, <1>13, <2>1, <3>2 DEF TrampolinesInv, Chained
    <3> QED BY <3>1, <3>2
  <2> QED BY <2>1 DEF Chained
<1> QED BY <1>7, <1>8, <1>9, <1>10, <1>11, <1>12, <1>13 DEF TrampolinesInv
-----------------------------------------------------------------------------
(* The overlay does not tell patches apart by their plugin.                 *)
LEMMA OverlayRenamed ==
  ASSUME TypeOK, Numbered, Ranked, NEW P \in SUBSET patches, NEW Q, NEW f,
         \A k \in P : /\ f[k] \in Q /\ f[k].id = k.id
                      /\ f[k].site = k.site /\ f[k].len = k.len,
         \A j \in Q : \E k \in P : j = f[k],
         NEW a \in Addrs
  PROVE  Overlay(Q)[a] = Overlay(P)[a]
<1>1. \A k \in P : Span(f[k]) = Span(k) /\ ByteOf(f[k], a) = ByteOf(k, a)
  BY DEF Span, Cells, ByteOf
<1>2. CASE \A k \in P : a \notin Span(k)
  <2>1. {k \in P : a \in Span(k)} = {} /\ {j \in Q : a \in Span(j)} = {}
    BY <1>1, <1>2
  <2> QED BY <2>1 DEF Overlay
<1>3. CASE \E k \in P : a \in Span(k)
  <2>1. PICK k \in P : /\ a \in Span(k)
                       /\ \A j \in P : a \in Span(j) => j.id <= k.id
                       /\ Overlay(P)[a] = ByteOf(k, a)
    BY <1>3, OverlayOfSome
  <2>2. \A i \in P : i.id \in Nat /\ \A j \in P : i.id = j.id => i = j
    BY DEF TypeOK, Numbered, PatchRecords
  <2>3. (\A j \in Q : j.id \in Nat) /\ (\A i, j \in Q : i.id = j.id => i = j)
    BY <2>2
  <2>4. f[k] \in Q /\ a \in Span(f[k])
    BY <1>1, <2>1
  <2>5. \A j \in Q : a \in Span(j) => j.id <= f[k].id
    BY <1>1, <2>1
  <2>6. Overlay(Q)[a] = ByteOf(f[k], a)
    BY <2>3, <2>4, <2>5, OverlayTop
  <2> QED BY <1>1, <2>1, <2>6
<1> QED BY <1>2, <1>3

(* What p takes over from q is remembered under p as it was under q.        *)
LEMMA MoveFromInv ==
  ASSUME TrampolinesInv, NEW p \in Plugins, NEW q \in Plugins, MoveFrom(p, q)
  PROVE  TrampolinesInv'
<1>0. TypeOK /\ Numbered /\ Ranked
  BY DEF TrampolinesInv
<1>a. PICK f : f = [k \in patches |-> IF k.plugin = q THEN [k EXCEPT !.plugin = p] ELSE k]
  OBVIOUS
<1>b. PICK K : K = patches \ Owned(p)
  OBVIOUS
<1>1. /\ p # q /\ written' = written /\ pools' = pools /\ memory' = memory
      /\ pool' = [pool EXCEPT ![p] = pool[q], ![q] = 0]
      /\ records' = [records EXCEPT ![p] = records[q], ![q] = << >>]
      /\ patches' = (patches \ (Owned(p) \cup Owned(q)))
                      \cup {[k EXCEPT !.plugin = p] : k \in Owned(q)}
      /\ tidy' = (tidy /\ Owned(p) = {})
  BY DEF MoveFrom
<1>2. \A k \in patches :
        /\ f[k] \in PatchRecords
        /\ f[k].id = k.id /\ f[k].site = k.site /\ f[k].len = k.len
        /\ f[k].pool = k.pool /\ f[k].prev = k.prev
        /\ f[k].plugin = IF k.plugin = q THEN p ELSE k.plugin
        /\ k.id \in Nat /\ k.plugin \in Plugins
  BY <1>0, <1>a DEF TypeOK, PatchRecords
<1>3. patches' = {f[k] : k \in K}
  BY <1>1, <1>a, <1>b DEF Owned
<1>4. K \subseteq patches
  BY <1>b
<1>5. TypeOK'
  BY <1>0, <1>1, <1>2, <1>3, <1>4 DEF TypeOK
<1>6. Numbered'
  BY <1>0, <1>1, <1>2, <1>3, <1>4 DEF Numbered
<1>7. Ranked'
  <2> SUFFICES ASSUME NEW S \in SUBSET patches', S # {}
               PROVE  /\ \E k \in S : \A j \in S : j.id <= k.id
                      /\ \E k \in S : \A j \in S : k.id <= j.id
    BY DEF Ranked
  <2>1. PICK T : T = {k \in K : f[k] \in S}
    OBVIOUS
  <2>2. T \in SUBSET patches /\ T # {}
    BY <1>3, <1>4, <2>1
  <2>3. \A j \in S : \E i \in T : f[i] = j /\ j.id = i.id
    BY <1>2, <1>3, <1>4, <2>1
  <2>4. \A i \in T : f[i] \in S /\ f[i].id = i.id
    BY <1>2, <1>4, <2>1
  <2>5. PICK k \in T : \A j \in T : j.id <= k.id
    BY <1>0, <2>2 DEF Ranked
  <2>6. PICK i \in T : \A j \in T : i.id <= j.id
    BY <1>0, <2>2 DEF Ranked
  <2> QED BY <2>3, <2>4, <2>5, <2>6
<1>8. ASSUME tidy' PROVE Layered' /\ Remembered' /\ Live' /\ Chained'
  <2>0. tidy /\ Owned(p) = {} /\ K = patches
    BY <1>1, <1>8, <1>b
  <2>1. Layered /\ Remembered /\ Live /\ Chained
    BY <2>0 DEF TrampolinesInv
  <2>2. /\ \A k \in patches : f[k] \in patches'
        /\ \A j \in patches' : \E k \in patches : j = f[k]
    BY <1>3, <2>0
  <2>3. Layered'
    <3>1. \A a \in Addrs : Overlay(patches')[a] = Overlay(patches)[a]
      BY <1>0, <1>2, <2>2, OverlayRenamed
    <3>2. Overlay(patches') = Overlay(patches)
      <4>1. /\ Overlay(patches') = [a \in Addrs |-> Overlay(patches')[a]]
            /\ Overlay(patches) = [a \in Addrs |-> Overlay(patches)[a]]
        BY DEF Overlay
      <4> QED BY <3>1, <4>1
    <3>3. memory' = Overlay(patches')
      BY <1>1, <2>1, <3>2 DEF Layered
    <3> QED BY <3>3 DEF Layered, Overlay
  <2>4. Live'
    <3> SUFFICES ASSUME NEW j \in patches' PROVE pool'[j.plugin] = j.pool /\ j.pool # 0
      BY DEF Live
    <3>1. PICK k \in patches : j = f[k]
      BY <2>2
    <3>2. pool[k.plugin] = k.pool /\ k.pool # 0 /\ k.plugin # p
      BY <2>0, <2>1 DEF Live, Owned
    <3> QED BY <1>0, <1>1, <1>2, <3>1, <3>2 DEF TypeOK
  <2>5. Chained'
    <3> SUFFICES ASSUME NEW j \in patches', j.prev > 0
                 PROVE  \E i \in patches' : i.id = j.prev /\ i.id < j.id /\ i.site = j.site
      BY DEF Chained
    <3>1. PICK k \in patches : j = f[k]
      BY <2>2
    <3>2. PICK i \in patches : i.id = k.prev /\ i.id < k.id /\ i.site = k.site
      BY <1>2, <2>1, <3>1 DEF Chained
    <3> QED BY <1>2, <2>2, <3>1, <3>2
  <2>6. \A k \in patches : RecordOf(f[k])' = RecordOf(k)
    <3> SUFFICES ASSUME NEW k \in patches PROVE RecordOf(f[k])' = RecordOf(k)
      OBVIOUS
    <3>1. PICK B : B = {j \in patches' : j.id < k.id}
      OBVIOUS
    <3>2. Below(k) \in SUBSET patches
      BY DEF Below
    <3>3. \A i \in Below(k) : /\ f[i] \in B /\ f[i].id = i.id
                              /\ f[i].site = i.site /\ f[i].len = i.len
      BY <1>2, <2>2, <3>1 DEF Below
    <3>4. \A j \in B : \E i \in Below(k) : j = f[i]
      BY <1>2, <2>2, <3>1 DEF Below
    <3>5. \A a \in Addrs : Overlay(B)[a] = Overlay(Below(k))[a]
      BY <1>0, <3>2, <3>3, <3>4, OverlayRenamed
    <3>6. \A i \in 0..(k.len - 1) : k.site + i \in Addrs
      BY <1>0, SpanCells
    <3>7. [i \in 0..(k.len - 1) |-> Overlay(B)[k.site + i]]
            = [i \in 0..(k.len - 1) |-> Overlay(Below(k))[k.site + i]]
      BY <3>5, <3>6
    <3>8. \A j : j.id = k.id => Below(j)' = B
      <4>1. \A j : Below(j)' = {i \in patches' : i.id < j.id}
        BY DEF Below
      <4> QED BY <3>1, <4>1
    <3>9. \A j : RecordOf(j)' =
            [len |-> j.len, original |-> [i \in 0..(j.len - 1) |-> Overlay(Below(j)')[j.site + i]]]
      BY DEF RecordOf, Overlay
    <3>10. RecordOf(f[k])' =
            [len |-> k.len, original |-> [i \in 0..(k.len - 1) |-> Overlay(B)[k.site + i]]]
      BY <1>2, <3>8, <3>9
    <3> QED BY <3>7, <3>10 DEF RecordOf
  <2>7. ASSUME NEW r \in Plugins, NEW o \in Plugins, o = (IF r = p THEN q ELSE r), r # q
        PROVE  /\ \A t : t \in DOMAIN records'[r] <=> \E j \in Owned(r)' : j.site = t
               /\ \A j \in Owned(r)' : NewestAtSite(j)' => records'[r][j.site] = RecordOf(j)'
    <3>1. records'[r] = records[o]
      BY <1>0, <1>1, <2>7 DEF TypeOK
    <3>2. /\ \A j \in Owned(r)' : \E k \in Owned(o) : j = f[k]
          /\ \A k \in Owned(o) : f[k] \in Owned(r)'
      BY <1>1, <1>2, <2>0, <2>2, <2>7 DEF Owned
    <3>3. \A k \in Owned(o) : k \in patches /\ k.plugin = o /\ f[k].site = k.site /\ f[k].id = k.id
      BY <1>2 DEF Owned
    <3>4. \A t : t \in DOMAIN records'[r] <=> \E j \in Owned(r)' : j.site = t
      BY <2>1, <3>1, <3>2, <3>3 DEF Remembered
    <3>5. ASSUME NEW j \in Owned(r)', NewestAtSite(j)'
          PROVE  records'[r][j.site] = RecordOf(j)'
      <4>1. PICK k \in Owned(o) : j = f[k]
        BY <3>2
      <4>2. j.plugin = r
        BY DEF Owned
      <4>3. \A i \in Owned(r)' : i.site = j.site => i.id <= j.id
        BY <3>5, <4>2 DEF NewestAtSite
      <4>4. NewestAtSite(k)
        BY <3>2, <3>3, <4>1, <4>3 DEF NewestAtSite
      <4>5. records[o][k.site] = RecordOf(k)
        BY <2>1, <4>4 DEF Remembered
      <4>6. RecordOf(f[k])' = RecordOf(k)
        BY <2>6, <3>3
      <4>7. RecordOf(j)' = RecordOf(k)
        BY <4>1, <4>6 DEF RecordOf, Below
      <4> QED BY <3>1, <3>3, <4>1, <4>5, <4>7
    <3> QED BY <3>4, <3>5
  <2>8. /\ \A t : t \in DOMAIN records'[q] <=> \E j \in Owned(q)' : j.site = t
        /\ \A j \in Owned(q)' : NewestAtSite(j)' => records'[q][j.site] = RecordOf(j)'
    <3>1. DOMAIN records'[q] = {}
      <4>1. records'[q] = << >>
        BY <1>0, <1>1 DEF TypeOK
      <4> QED BY <4>1
    <3>2. Owned(q)' = {}
      BY <1>1, <1>2, <2>2 DEF Owned
    <3> QED BY <3>1, <3>2
  <2>9. Remembered'
    <3> SUFFICES ASSUME NEW r \in Plugins
                 PROVE  /\ \A t : t \in DOMAIN records'[r] <=> \E j \in Owned(r)' : j.site = t
                        /\ \A j \in Owned(r)' : NewestAtSite(j)' => records'[r][j.site] = RecordOf(j)'
      BY Zenon DEF Remembered
    <3>1. CASE r = q
      BY <2>8, <3>1
    <3>2. CASE r # q
      <4>1. PICK o \in Plugins : o = (IF r = p THEN q ELSE r)
        OBVIOUS
      <4> QED BY <2>7, <3>2, <4>1
    <3> QED BY <3>1, <3>2
  <2> QED BY <2>3, <2>4, <2>5, <2>9
<1> QED BY <1>5, <1>6, <1>7, <1>8 DEF TrampolinesInv
-----------------------------------------------------------------------------
LEMMA InitInv == Init => TrampolinesInv
<1> SUFFICES ASSUME Init PROVE TrampolinesInv
  OBVIOUS
<1>1. TypeOK /\ Numbered /\ Ranked /\ Live /\ Chained
  BY DEF Init, TypeOK, Numbered, Ranked, Live, Chained
<1>2. Layered
  BY DEF Init, Layered, Overlay
<1>3. Remembered
  <2>1. ASSUME NEW p \in Plugins PROVE DOMAIN records[p] = {} /\ Owned(p) = {}
    BY DEF Init, Owned
  <2> QED BY <2>1 DEF Remembered
<1> QED BY <1>1, <1>2, <1>3 DEF TrampolinesInv

LEMMA NextInv == TrampolinesInv /\ [Next]_vars => TrampolinesInv'
<1> SUFFICES ASSUME TrampolinesInv, [Next]_vars PROVE TrampolinesInv'
  OBVIOUS
<1>1. ASSUME NEW p \in Plugins, Create(p) PROVE TrampolinesInv'
  BY <1>1, CreateInv
<1>2. ASSUME NEW p \in Plugins, Destroy(p) PROVE TrampolinesInv'
  BY <1>2, DestroyInv
<1>3. ASSUME NEW p \in Plugins, Unload(p) PROVE TrampolinesInv'
  BY <1>3, UnloadInv
<1>4. ASSUME NEW p \in Plugins, SetTrampoline(p) PROVE TrampolinesInv'
  BY <1>4, SetTrampolineInv
<1>5. ASSUME NEW p \in Plugins, NEW s \in Sites, NEW n \in Lengths, WritePatch(p, s, n)
      PROVE  TrampolinesInv'
  BY <1>5, WritePatchInv
<1>6. ASSUME NEW p \in Plugins, NEW q \in Plugins, MoveFrom(p, q) PROVE TrampolinesInv'
  BY <1>6, MoveFromInv
<1>7. CASE UNCHANGED vars
  BY <1>7, StutterInv
<1> QED BY <1>1, <1>2, <1>3, <1>4, <1>5, <1>6, <1>7 DEF Next

(* Whatever plugins patch, undo, unload, exchange and move, as long as they *)
(* do it tidily, the code is the overlay of the patches and every record    *)
(* holds what lies under its patch.                                         *)
THEOREM TrampolinesLayered == Spec => []TrampolinesInv
BY InitInv, NextInv, PTL DEF Spec

(* Destroying trampolines restores the game's code under what remains.      *)
THEOREM DestroyUndoesExactly == Spec => []UndoneExactly
<1>1. TrampolinesInv => UndoneExactly
  BY DEF TrampolinesInv, Layered, UndoneExactly
<1> QED BY <1>1, TrampolinesLayered, PTL

(* No byte of the code belongs to a patch into a pool that was freed.       *)
THEOREM NoJumpIntoFreedPool == Spec => []NoStrayJump
<1>1. TrampolinesInv => NoStrayJump
  <2> SUFFICES ASSUME TrampolinesInv, tidy, NEW a \in Addrs, memory[a].of # 0
               PROVE  \E k \in patches : k.id = memory[a].of /\ pool[k.plugin] = k.pool
    BY DEF NoStrayJump
  <2>1. TypeOK /\ Numbered /\ Ranked /\ memory = Overlay(patches) /\ Live
    BY DEF TrampolinesInv, Layered
  <2>2. PICK h \in patches : a \in Span(h)
    BY <2>1 DEF Overlay, GameByte
  <2>3. PICK k \in patches : Overlay(patches)[a] = ByteOf(k, a)
    BY <2>1, <2>2, OverlayOfSome
  <2> QED BY <2>1, <2>3 DEF ByteOf, Live
<1> QED BY <1>1, TrampolinesLayered, PTL

(* What a plugin calls on after its hook is still there.                    *)
THEOREM ChainsStayAlive == Spec => []ChainsAlive
<1>1. TrampolinesInv => ChainsAlive
  BY DEF TrampolinesInv, Chained, Live, ChainsAlive
<1> QED BY <1>1, TrampolinesLayered, PTL
=============================================================================
