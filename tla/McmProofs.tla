----------------------------- MODULE McmProofs -----------------------------
(***************************************************************************)
(* Proofs about Mcm for any mods, settings, values and declarations, and   *)
(* any number of openings and failed calls.                                *)
(***************************************************************************)
EXTENDS Mcm, FiniteSetTheorems, WellFoundedInduction, TLAPS

-----------------------------------------------------------------------------
(* Induction, said of sets: what holds at 0 and passes on to the next holds *)
(* of every number, and what is computed one step after the other exists.   *)

LEMMA Least ==
  ASSUME NEW T \in SUBSET Nat, T # {}
  PROVE  \E x \in T : \A y \in T : x <= y
<1>1. IsWellFoundedOn(OpToRel(<, Nat), Nat)
  BY NatLessThanWellFounded
<1>2. PICK x \in T : \A y \in T : ~ (<<y, x>> \in OpToRel(<, Nat))
  BY <1>1, WFMin
<1>3. \A y \in T : ~(y < x)
  BY <1>2 DEF OpToRel
<1>. QED BY <1>3

(* A set of numbers with 0 and every successor holds all numbers:           *)
(* otherwise there were a least one missing.                                *)
LEMMA Induction ==
  ASSUME NEW S, 0 \in S, \A n \in S \cap Nat : n + 1 \in S
  PROVE  Nat \subseteq S
<1>. SUFFICES ASSUME Nat \ S # {} PROVE FALSE
  OBVIOUS
<1>1. PICK x \in Nat \ S : \A y \in Nat \ S : x <= y
  BY Least
<1>2. x - 1 \in Nat /\ (x - 1) + 1 = x
  BY <1>1
<1>3. x - 1 \in S
  BY <1>1, <1>2
<1>. QED BY <1>1, <1>2, <1>3

(* A function defined by steps, the n-th of which leads from the set        *)
(* E[n - 1] into E[n].                                                      *)
Runs(g, N, E, base, step) ==
  /\ g = [n \in 0..N |-> IF n = 0 THEN base ELSE step[<<g[n - 1], n>>]]
  /\ \A n \in 0..N : g[n] \in E[n]

(* If every step leads from one set of values into the next, the function   *)
(* it defines exists and takes its values there.                            *)
LEMMA StepsExist ==
  ASSUME NEW N \in Nat, NEW E, NEW base \in E[0], NEW step,
         \A n \in 1..N : \A x \in E[n - 1] : step[<<x, n>>] \in E[n]
  PROVE  \E g : Runs(g, N, E, base, step)
<1>. DEFINE Good(M, g) ==
              /\ g = [n \in 0..M |-> IF n = 0 THEN base ELSE step[<<g[n - 1], n>>]]
              /\ \A n \in 0..M : g[n] \in E[n]
            S == {M \in Nat : M <= N => \E g : Good(M, g)}
<1>1. 0 \in S
  <2>. DEFINE g == [n \in 0..0 |-> base]
  <2>1. Good(0, g)
    OBVIOUS
  <2>. QED BY <2>1
<1>2. ASSUME NEW M \in Nat, M <= N => \E g : Good(M, g), M + 1 <= N
      PROVE  \E g : Good(M + 1, g)
  <2>1. PICK f : Good(M, f)
    BY <1>2
  <2>2. \A n \in 0..M : f[n] \in E[n]
    BY <2>1, Zenon
  <2>3. f = [n \in 0..M |-> IF n = 0 THEN base ELSE step[<<f[n - 1], n>>]]
    BY <2>1, Zenon
  <2>4. \A n \in 0..M : f[n] = IF n = 0 THEN base ELSE step[<<f[n - 1], n>>]
    BY <2>3, Zenon
  <2>. DEFINE g == [n \in 0..(M + 1) |-> IF n = M + 1 THEN step[<<f[M], M + 1>>] ELSE f[n]]
  <2>5. /\ \A n \in 0..M : g[n] = f[n]
        /\ g[M + 1] = step[<<f[M], M + 1>>]
        /\ g = [n \in 0..(M + 1) |-> g[n]]
    OBVIOUS
  <2>. HIDE DEF g
  <2>6. f[M] \in E[M] /\ g[M] = f[M]
    <3>1. M \in 0..M
      OBVIOUS
    <3>. QED BY <2>2, <2>5, <3>1, Zenon
  <2>7. g[M + 1] \in E[M + 1]
    <3>1. PICK k \in 1..N : k = M + 1 /\ k - 1 = M
      BY <1>2
    <3>2. step[<<f[M], k>>] \in E[k]
      BY <2>6, <3>1
    <3>. QED BY <2>5, <3>1, <3>2
  <2>8. \A n \in 0..(M + 1) : g[n] \in E[n]
    <3>. TAKE n \in 0..(M + 1)
    <3>1. n \in 0..M \/ n = M + 1
      OBVIOUS
    <3>. QED BY <2>2, <2>5, <2>7, <3>1
  <2>9. \A n \in 0..(M + 1) : g[n] = IF n = 0 THEN base ELSE step[<<g[n - 1], n>>]
    <3>. TAKE n \in 0..(M + 1)
    <3>1. CASE n \in 0..M
      <4>1. n # 0 => n - 1 \in 0..M
        BY <3>1
      <4>2. g[n] = f[n] /\ (n # 0 => g[n - 1] = f[n - 1])
        BY <2>5, <3>1, <4>1
      <4>3. f[n] = IF n = 0 THEN base ELSE step[<<f[n - 1], n>>]
        BY <2>4, <3>1, Zenon
      <4>. QED BY <4>2, <4>3, Zenon
    <3>2. CASE n = M + 1
      <4>1. n - 1 = M /\ n # 0
        BY <3>2
      <4>. QED BY <2>5, <2>6, <3>2, <4>1
    <3>. QED BY <3>1, <3>2
  <2>10. g = [n \in 0..(M + 1) |-> IF n = 0 THEN base ELSE step[<<g[n - 1], n>>]]
    BY <2>5, <2>9, Zenon
  <2>. QED BY <2>8, <2>10, Zenon
<1>3. \A M \in S \cap Nat : M + 1 \in S
  BY <1>2
<1>4. N \in S
  <2>. HIDE DEF S
  <2>. QED BY <1>1, <1>3, Induction
<1>5. \E g : Good(N, g)
  BY <1>4
<1>. QED BY <1>5 DEF Runs

(* What a function has at 0 and passes on to the next value all values have. *)
LEMMA StepsStay ==
  ASSUME NEW N \in Nat, NEW E, NEW f, f[0] \in E[0],
         \A n \in 1..N : f[n - 1] \in E[n - 1] => f[n] \in E[n]
  PROVE  \A n \in 0..N : f[n] \in E[n]
<1>. DEFINE S == {n \in Nat : n <= N => f[n] \in E[n]}
<1>1. \A n \in S \cap Nat : n + 1 \in S
  <2>. SUFFICES ASSUME NEW n \in Nat, n + 1 <= N, f[n] \in E[n]
                PROVE  f[n + 1] \in E[n + 1]
    OBVIOUS
  <2>1. PICK k \in 1..N : k = n + 1 /\ k - 1 = n
    OBVIOUS
  <2>. QED BY <2>1
<1>2. 0 \in S
  OBVIOUS
<1>3. Nat \subseteq S
  <2>. HIDE DEF S
  <2>. QED BY <1>1, <1>2, Induction
<1>. QED BY <1>3

-----------------------------------------------------------------------------
(* Finding mods and items: the first that fits. *)

LEMMA Smallest ==
  ASSUME NEW T \in SUBSET Nat, T # {}
  PROVE  Min(T) \in T /\ \A y \in T : Min(T) <= y
BY Least DEF Min

(* FindMod gives the place of a mod with that id, or 0 if there is none. *)
LEMMA FoundMod ==
  ASSUME NEW ms, Len(ms) \in Nat, NEW m
  PROVE  \/ FindMod(ms, m) = 0 /\ \A k \in 1..Len(ms) : ms[k].id # m
         \/ /\ FindMod(ms, m) \in 1..Len(ms)
            /\ ms[FindMod(ms, m)].id = m
            /\ \A k \in 1..Len(ms) : ms[k].id = m => FindMod(ms, m) <= k
<1>. DEFINE T == {k \in 1..Len(ms) : ms[k].id = m}
<1>1. FindMod(ms, m) = IF T # {} THEN Min(T) ELSE 0
  BY DEF FindMod, SelectInSeq
<1>2. T \in SUBSET Nat
  OBVIOUS
<1>3. T # {} => Min(T) \in T /\ \A y \in T : Min(T) <= y
  <2>. HIDE DEF T
  <2>. QED BY <1>2, Smallest
<1>. QED BY <1>1, <1>3

(* FindItem gives the place of a setting with that id, or 0 if there is     *)
(* none.                                                                    *)
LEMMA FoundItem ==
  ASSUME NEW items, Len(items) \in Nat, NEW i
  PROVE  \/ /\ FindItem(items, i) = 0
            /\ \A j \in 1..Len(items) : items[j].kind = "cat" \/ items[j].id # i
         \/ /\ FindItem(items, i) \in 1..Len(items)
            /\ items[FindItem(items, i)].kind # "cat"
            /\ items[FindItem(items, i)].id = i
<1>. DEFINE T == {j \in 1..Len(items) : items[j].kind # "cat" /\ items[j].id = i}
<1>1. FindItem(items, i) = IF T # {} THEN Min(T) ELSE 0
  BY DEF FindItem, SelectInSeq
<1>2. T \in SUBSET Nat
  OBVIOUS
<1>3. T # {} => Min(T) \in T
  <2>. HIDE DEF T
  <2>. QED BY <1>2, Smallest
<1>. QED BY <1>1, <1>3

-----------------------------------------------------------------------------
(* The model of the settings. *)

Item == [kind: Kinds, id: ItemIds, def: Values, val: Values, live: BOOLEAN]
Mod == [id: ModIds, name: Int, items: Seq(Item)]

Once(items) ==
  \A i, j \in DOMAIN items :
    items[i].kind # "cat" /\ items[j].kind # "cat" /\ items[i].id = items[j].id => i = j

ModsOnce(ms) == \A k, l \in DOMAIN ms : ms[k].id = ms[l].id => k = l

(* Every mod and, within it, every setting stands there once.               *)
Models == {ms \in Seq(Mod) : ModsOnce(ms) /\ \A k \in DOMAIN ms : Once(ms[k].items)}

(* A value that counts as live is the one its mod reported.                 *)
Honest(s, item, live) == item.live => s \in Owned /\ item.val = live[s]

AllHonest(m, items, live) ==
  \A j \in DOMAIN items : Honest(<<m, items[j].id>>, items[j], live)

Reported(ms, live) == \A k \in DOMAIN ms : AllHonest(ms[k].id, ms[k].items, live)

(* A mod with other items. *)
LEMMA ModWithItems ==
  ASSUME NEW m \in Mod, NEW items \in Seq(Item)
  PROVE  /\ [m EXCEPT !.items = items] \in Mod
         /\ [m EXCEPT !.items = items].id = m.id
         /\ [m EXCEPT !.items = items].items = items
BY DEF Mod

(* A mod with another name. *)
LEMMA ModNamed ==
  ASSUME NEW m \in Mod, NEW name \in Int
  PROVE  /\ [m EXCEPT !.name = name] \in Mod
         /\ [m EXCEPT !.name = name].id = m.id
         /\ [m EXCEPT !.name = name].items = m.items
BY DEF Mod

(* Other items for the k-th mod leave all ids and all other mods as they    *)
(* are.                                                                     *)
LEMMA ItemsReplaced ==
  ASSUME NEW ms \in Seq(Mod), NEW k \in DOMAIN ms, NEW items \in Seq(Item)
  PROVE  LET q == [ms EXCEPT ![k].items = items] IN
         /\ q \in Seq(Mod) /\ Len(q) = Len(ms)
         /\ \A l \in 1..Len(ms) : q[l].id = ms[l].id
         /\ q[k].items = items
         /\ \A l \in 1..Len(ms) : l # k => q[l] = ms[l]
<1>. DEFINE m == [ms[k] EXCEPT !.items = items]
            q == [ms EXCEPT ![k] = m]
<1>1. m \in Mod /\ m.id = ms[k].id /\ m.items = items
  BY ModWithItems
<1>2. q = [ms EXCEPT ![k].items = items]
  OBVIOUS
<1>. HIDE DEF m
<1>3. q \in Seq(Mod) /\ Len(q) = Len(ms)
  BY <1>1
<1>4. q[k] = m /\ \A l \in 1..Len(ms) : l # k => q[l] = ms[l]
  BY <1>1
<1>. QED BY <1>1, <1>2, <1>3, <1>4

(* A model is judged by the ids and the items of its mods.                  *)
LEMMA SameItems ==
  ASSUME NEW ms \in Models, NEW live, Reported(ms, live), NEW q \in Seq(Mod),
         Len(q) = Len(ms),
         \A k \in 1..Len(ms) : q[k].id = ms[k].id /\ q[k].items = ms[k].items
  PROVE  q \in Models /\ Reported(q, live)
<1>1. DOMAIN q = 1..Len(ms) /\ DOMAIN ms = 1..Len(ms)
  BY DEF Models
<1>2. ModsOnce(q)
  BY <1>1 DEF Models, ModsOnce
<1>3. \A k \in DOMAIN q : Once(q[k].items)
  BY <1>1 DEF Models
<1>4. Reported(q, live)
  BY <1>1 DEF Reported
<1>. QED BY <1>2, <1>3, <1>4 DEF Models

(* A new mod without items leaves a model a model, and its live values      *)
(* reported.                                                                *)
LEMMA ModAppended ==
  ASSUME NEW ms \in Models, NEW live, Reported(ms, live), NEW m \in Mod,
         m.items = << >>, \A k \in 1..Len(ms) : ms[k].id # m.id
  PROVE  Append(ms, m) \in Models /\ Reported(Append(ms, m), live)
<1>. DEFINE q == Append(ms, m)
<1>1. /\ ms \in Seq(Mod) /\ Len(ms) \in Nat
      /\ q \in Seq(Mod) /\ Len(q) = Len(ms) + 1
      /\ DOMAIN q = 1..(Len(ms) + 1) /\ DOMAIN ms = 1..Len(ms)
      /\ q[Len(ms) + 1] = m
      /\ \A k \in 1..Len(ms) : q[k] = ms[k]
  BY DEF Models
<1>. HIDE DEF q
<1>2. ModsOnce(q)
  <2>. SUFFICES ASSUME NEW k \in DOMAIN q, NEW l \in DOMAIN q, q[k].id = q[l].id
                PROVE  k = l
    BY DEF ModsOnce
  <2>1. CASE k \in 1..Len(ms) /\ l \in 1..Len(ms)
    BY <1>1, <2>1 DEF Models, ModsOnce
  <2>. QED BY <1>1, <2>1
<1>3. \A k \in DOMAIN q : Once(q[k].items)
  <2>1. Once(m.items)
    BY DEF Once
  <2>. QED BY <1>1, <2>1 DEF Models
<1>4. Reported(q, live)
  <2>1. AllHonest(m.id, m.items, live)
    BY DEF AllHonest
  <2>. QED BY <1>1, <2>1 DEF Reported
<1>. QED BY <1>1, <1>2, <1>3, <1>4 DEF Models, q

(* GetOrAddMod keeps the model, and the mod stands in it afterwards. *)
LEMMA GetOrAddModGood ==
  ASSUME NEW ms \in Models, NEW live, Reported(ms, live),
         NEW m \in ModIds, NEW name \in Int \cup {NoName}
  PROVE  LET q == GetOrAddMod(ms, m, name) IN
         /\ q \in Models /\ Reported(q, live)
         /\ FindMod(q, m) \in 1..Len(q) /\ q[FindMod(q, m)].id = m
<1>. DEFINE k == FindMod(ms, m)
            q == GetOrAddMod(ms, m, name)
<1>1. ms \in Seq(Mod) /\ Len(ms) \in Nat /\ DOMAIN ms = 1..Len(ms)
  BY DEF Models
<1>2. CASE k = 0
  <2>. DEFINE r == [id |-> m, name |-> IF name = NoName THEN Placeholder[m] ELSE name,
                    items |-> << >>]
  <2>1. q = Append(ms, r)
    BY <1>2 DEF GetOrAddMod
  <2>2. r \in Mod /\ r.id = m /\ r.items = << >>
    BY PlaceholderAssumption DEF Mod
  <2>. HIDE DEF r
  <2>3. q \in Models /\ Reported(q, live)
    BY <1>1, <1>2, <2>1, <2>2, FoundMod, ModAppended
  <2>4. Len(q) = Len(ms) + 1 /\ q[Len(ms) + 1].id = m
    BY <1>1, <2>1, <2>2
  <2>. HIDE DEF q
  <2>. QED BY <1>1, <2>3, <2>4, FoundMod DEF q
<1>3. CASE k # 0 /\ name \in {NoName, Placeholder[m]}
  BY <1>1, <1>3, FoundMod DEF GetOrAddMod
<1>4. CASE k # 0 /\ name \notin {NoName, Placeholder[m]}
  <2>. DEFINE r == [ms[k] EXCEPT !.name = name]
  <2>1. k \in 1..Len(ms) /\ ms[k].id = m
    BY <1>1, <1>4, FoundMod
  <2>2. q = [ms EXCEPT ![k] = r]
    BY <1>4 DEF GetOrAddMod
  <2>3. r \in Mod /\ r.id = ms[k].id /\ r.items = ms[k].items
    <3>1. ms[k] \in Mod /\ name \in Int
      BY <1>1, <1>4, <2>1
    <3>. QED BY <3>1, ModNamed
  <2>. HIDE DEF r, k, q
  <2>4. /\ q \in Seq(Mod) /\ Len(q) = Len(ms)
        /\ \A l \in 1..Len(ms) : q[l].id = ms[l].id /\ q[l].items = ms[l].items
    BY <1>1, <2>1, <2>2, <2>3
  <2>5. q \in Models /\ Reported(q, live)
    BY <2>4, SameItems
  <2>. QED BY <1>1, <2>1, <2>4, <2>5, FoundMod DEF q
<1>. QED BY <1>2, <1>3, <1>4

(* Other items for one mod of a model. *)
LEMMA ModelWithItems ==
  ASSUME NEW ms \in Models, NEW live, Reported(ms, live), NEW k \in 1..Len(ms),
         NEW items \in Seq(Item), Once(items), AllHonest(ms[k].id, items, live)
  PROVE  LET q == [ms EXCEPT ![k].items = items] IN
         q \in Models /\ Reported(q, live)
<1>. DEFINE q == [ms EXCEPT ![k].items = items]
<1>1. ms \in Seq(Mod) /\ DOMAIN ms = 1..Len(ms)
  BY DEF Models
<1>2. /\ q \in Seq(Mod) /\ Len(q) = Len(ms)
      /\ \A l \in 1..Len(ms) : q[l].id = ms[l].id
      /\ q[k].items = items
      /\ \A l \in 1..Len(ms) : l # k => q[l] = ms[l]
  BY <1>1, ItemsReplaced
<1>. HIDE DEF q
<1>3. DOMAIN q = 1..Len(ms)
  BY <1>2
<1>4. ModsOnce(q)
  BY <1>1, <1>2, <1>3 DEF Models, ModsOnce
<1>5. \A l \in DOMAIN q : Once(q[l].items)
  BY <1>1, <1>2, <1>3 DEF Models
<1>6. Reported(q, live)
  BY <1>1, <1>2, <1>3 DEF Reported
<1>. QED BY <1>2, <1>4, <1>5, <1>6 DEF Models, q

(* AddItem keeps the model: the first declaration of a setting stays. *)
LEMMA AddItemGood ==
  ASSUME NEW ms \in Models, NEW live, Reported(ms, live),
         NEW m \in ModIds, NEW item \in Item, ~item.live, NoName \notin Int
  PROVE  AddItem(ms, m, item) \in Models /\ Reported(AddItem(ms, m, item), live)
<1>. DEFINE grown == GetOrAddMod(ms, m, NoName)
            k == FindMod(grown, m)
            items == grown[k].items
<1>1. grown \in Models /\ Reported(grown, live) /\ k \in 1..Len(grown) /\ grown[k].id = m
  BY GetOrAddModGood
<1>2. CASE item.kind # "cat" /\ FindItem(items, item.id) # 0
  BY <1>1, <1>2 DEF AddItem
<1>3. CASE ~(item.kind # "cat" /\ FindItem(items, item.id) # 0)
  <2>1. AddItem(ms, m, item) = [grown EXCEPT ![k].items = Append(items, item)]
    BY <1>3 DEF AddItem
  <2>. HIDE DEF grown, k
  <2>2. items \in Seq(Item) /\ Once(items) /\ AllHonest(m, items, live)
    <3>1. grown[k] \in Mod
      BY <1>1 DEF Models
    <3>. QED BY <1>1, <3>1 DEF Models, Mod, Reported
  <2>. HIDE DEF items
  <2>3. /\ Append(items, item) \in Seq(Item) /\ Len(items) \in Nat
        /\ DOMAIN Append(items, item) = 1..(Len(items) + 1) /\ DOMAIN items = 1..Len(items)
        /\ Append(items, item)[Len(items) + 1] = item
        /\ \A j \in 1..Len(items) : Append(items, item)[j] = items[j]
    BY <2>2
  <2>4. item.kind = "cat" \/ \A j \in 1..Len(items) : items[j].kind = "cat" \/ items[j].id # item.id
    BY <1>3, <2>3, FoundItem
  <2>. DEFINE more == Append(items, item)
  <2>. HIDE DEF more
  <2>5. Once(more)
    <3>. SUFFICES ASSUME NEW i \in DOMAIN more, NEW j \in DOMAIN more,
                         more[i].kind # "cat", more[j].kind # "cat", more[i].id = more[j].id
                  PROVE  i = j
      BY DEF Once
    <3>1. CASE i \in 1..Len(items) /\ j \in 1..Len(items)
      BY <2>2, <2>3, <3>1 DEF Once, more
    <3>. QED BY <2>3, <2>4, <3>1 DEF more
  <2>6. AllHonest(m, more, live)
    <3>1. Honest(<<m, item.id>>, item, live)
      BY DEF Honest
    <3>. QED BY <2>2, <2>3, <3>1 DEF AllHonest, more
  <2>7. more \in Seq(Item) /\ AllHonest(grown[k].id, more, live)
    BY <1>1, <2>3, <2>6 DEF more
  <2>8. LET q == [grown EXCEPT ![k].items = more] IN q \in Models /\ Reported(q, live)
    BY <1>1, <2>5, <2>7, ModelWithItems
  <2>. QED BY <2>1, <2>8 DEF more
<1>. QED BY <1>2, <1>3

(* An item with a value its mod reports. *)
LEMMA ItemReported ==
  ASSUME NEW item \in Item, NEW v \in Values
  PROVE  LET r == [item EXCEPT !.val = v, !.live = TRUE] IN
         r \in Item /\ r.kind = item.kind /\ r.id = item.id /\ r.val = v
BY DEF Item

(* A value the mod reports makes its setting live, and whatever else it     *)
(* changes stays a model.                                                   *)
LEMMA SetItemValueGood ==
  ASSUME NEW ms \in Models, NEW live, Reported(ms, live),
         NEW m \in ModIds, NEW i \in ItemIds, <<m, i>> \in Owned,
         live[<<m, i>>] \in Values, NoName \notin Int
  PROVE  LET q == SetItemValue(ms, m, i, live[<<m, i>>]) IN
         q \in Models /\ Reported(q, live)
<1>. DEFINE v == live[<<m, i>>]
            grown == GetOrAddMod(ms, m, NoName)
            k == FindMod(grown, m)
            items == grown[k].items
            j == FindItem(items, i)
            r == [items[j] EXCEPT !.val = v, !.live = TRUE]
            more == [items EXCEPT ![j] = r]
<1>1. grown \in Models /\ Reported(grown, live) /\ k \in 1..Len(grown) /\ grown[k].id = m
  BY GetOrAddModGood
<1>2. CASE j = 0
  BY <1>1, <1>2 DEF SetItemValue
<1>3. CASE j # 0
  <2>1. SetItemValue(ms, m, i, v)
          = [grown EXCEPT ![k].items[j].val = v, ![k].items[j].live = TRUE]
    BY <1>3 DEF SetItemValue
  <2>. HIDE DEF grown, k, v
  <2>2. items \in Seq(Item) /\ Once(items) /\ AllHonest(m, items, live) /\ grown[k] \in Mod
    <3>1. grown[k] \in Mod
      BY <1>1 DEF Models
    <3>. QED BY <1>1, <3>1 DEF Models, Mod, Reported
  <2>3. Len(items) \in Nat /\ j \in 1..Len(items) /\ items[j].id = i /\ items[j] \in Item
        /\ DOMAIN items = 1..Len(items)
    BY <1>3, <2>2, FoundItem
  <2>. HIDE DEF j
  <2>4. [grown EXCEPT ![k].items[j].val = v, ![k].items[j].live = TRUE]
          = [grown EXCEPT ![k].items = more]
    BY <1>1, <2>2, <2>3 DEF Mod, Models
  <2>5. r \in Item /\ r.kind = items[j].kind /\ r.id = items[j].id /\ r.val = v
    BY <2>3, ItemReported DEF v
  <2>. HIDE DEF r, items
  <2>6. /\ more \in Seq(Item) /\ DOMAIN more = 1..Len(items) /\ more[j] = r
        /\ \A l \in 1..Len(items) : l # j => more[l] = items[l]
    BY <2>2, <2>3, <2>5
  <2>. HIDE DEF more
  <2>7. Once(more)
    BY <2>2, <2>3, <2>5, <2>6 DEF Once
  <2>8. AllHonest(m, more, live)
    <3>1. Honest(<<m, r.id>>, r, live)
      BY <2>3, <2>5 DEF Honest, v
    <3>. QED BY <2>2, <2>3, <2>5, <2>6, <3>1 DEF AllHonest
  <2>. QED BY <1>1, <2>1, <2>4, <2>6, <2>7, <2>8, ModelWithItems DEF v
<1>. QED BY <1>2, <1>3

(* What one declaration does. *)
LEMMA DeclareGood ==
  ASSUME NEW ms \in Models, NEW live, Reported(ms, live), NEW d \in Declarations,
         d.op = "live" => <<d.mod, d.id>> \in Owned,
         \A s \in Owned : live[s] \in Values
  PROVE  Declare(ms, d, live) \in Models /\ Reported(Declare(ms, d, live), live)
<1>1. CASE d.op = "mod"
  <2>1. Declare(ms, d, live) = GetOrAddMod(ms, d.mod, d.name)
    BY <1>1 DEF Declare
  <2>2. d.mod \in ModIds /\ d.name \in Int \cup {NoName}
    BY <1>1 DEF Declarations
  <2>. QED BY <2>1, <2>2, GetOrAddModGood
<1>2. CASE d.op = "item"
  <2>1. Declare(ms, d, live) = AddItem(ms, d.mod, NewItem(d))
    BY <1>2 DEF Declare
  <2>2. d.mod \in ModIds /\ d.kind \in Kinds /\ d.id \in ItemIds /\ d.def \in Values
    BY <1>2 DEF Declarations
  <2>3. NewItem(d) \in Item /\ ~NewItem(d).live
    BY <2>2 DEF NewItem, Item
  <2>. QED BY <2>1, <2>2, <2>3, AddItemGood, PlaceholderAssumption
<1>3. CASE d.op = "live"
  <2>1. Declare(ms, d, live) = SetItemValue(ms, d.mod, d.id, live[<<d.mod, d.id>>])
    BY <1>3 DEF Declare
  <2>2. d.mod \in ModIds /\ d.id \in ItemIds /\ <<d.mod, d.id>> \in Owned
    BY <1>3 DEF Declarations
  <2>3. live[<<d.mod, d.id>>] \in Values
    BY <2>2
  <2>. QED BY <2>1, <2>2, <2>3, SetItemValueGood, PlaceholderAssumption
<1>. QED BY <1>1, <1>2, <1>3 DEF Declarations

(* What all of them amount to. *)
LEMMA BuiltGood ==
  ASSUME NEW decls \in Sources, NEW live, \A s \in Owned : live[s] \in Values
  PROVE  Built(decls, live) \in Models /\ Reported(Built(decls, live), live)
<1>. DEFINE N == Len(decls)
            G == {ms \in Models : Reported(ms, live)}
            E == [n \in 0..N |-> G]
            step == [x \in Models \X (1..N) |-> Declare(x[1], decls[x[2]], live)]
            after[n \in 0..N] ==
              IF n = 0 THEN << >> ELSE Declare(after[n - 1], decls[n], live)
<1>1. N \in Nat /\ \A n \in 1..N : /\ decls[n] \in Declarations
                                   /\ decls[n].op = "live" =>
                                        <<decls[n].mod, decls[n].id>> \in Owned
  BY DEF Sources
<1>2. \A n \in 0..N : E[n] = G
  OBVIOUS
<1>3. << >> \in E[0]
  <2>1. << >> \in G
    BY DEF Models, ModsOnce, Reported
  <2>. QED BY <1>1, <1>2, <2>1
<1>. HIDE DEF E
<1>4. \A n \in 1..N : \A x \in E[n - 1] :
        step[<<x, n>>] = Declare(x, decls[n], live) /\ Declare(x, decls[n], live) \in E[n]
  <2>1. ASSUME NEW n \in 1..N, NEW x \in G
        PROVE  step[<<x, n>>] = Declare(x, decls[n], live)
    OBVIOUS
  <2>2. ASSUME NEW n \in 1..N, NEW x \in G
        PROVE  Declare(x, decls[n], live) \in G
    BY <1>1, DeclareGood
  <2>3. \A n \in 1..N : E[n - 1] = G /\ E[n] = G
    <3>. HIDE DEF G
    <3>. QED BY <1>1, <1>2
  <2>. HIDE DEF step, G, N
  <2>. QED BY <2>1, <2>2, <2>3
<1>. HIDE DEF step, G, N
<1>5. \A n \in 1..N : \A x \in E[n - 1] : step[<<x, n>>] \in E[n]
  BY <1>4
<1>6. PICK g : Runs(g, N, E, << >>, step)
  BY <1>1, <1>3, <1>5, StepsExist
<1>7. g = [n \in 0..N |-> IF n = 0 THEN << >> ELSE Declare(g[n - 1], decls[n], live)]
  <2>1. ASSUME NEW n \in 1..N PROVE step[<<g[n - 1], n>>] = Declare(g[n - 1], decls[n], live)
    <3>1. n - 1 \in 0..N
      BY <1>1
    <3>. QED BY <1>4, <1>6, <3>1 DEF Runs
  <2>. QED BY <1>6, <2>1 DEF Runs
<1>8. after = [n \in 0..N |-> IF n = 0 THEN << >> ELSE Declare(after[n - 1], decls[n], live)]
  BY <1>7
<1>. HIDE DEF after
<1>9. after[0] = << >> /\ \A n \in 1..N : after[n] = Declare(after[n - 1], decls[n], live)
  BY <1>1, <1>8
<1>10. \A n \in 0..N : after[n] \in E[n]
  <2>1. \A n \in 1..N : after[n - 1] \in E[n - 1] => after[n] \in E[n]
    BY <1>4, <1>9
  <2>. QED BY <1>1, <1>3, <1>9, <2>1, StepsStay
<1>11. Built(decls, live) = after[N]
  BY DEF Built, after, N
<1>. QED BY <1>1, <1>2, <1>10, <1>11 DEF G

-----------------------------------------------------------------------------
(* Settings and their places. *)

(* A place of a model and what is found through its setting are one.        *)
LEMMA PlaceOfSetting ==
  ASSUME NEW ms \in Models, NEW k \in DOMAIN ms, NEW j \in DOMAIN ms[k].items,
         ms[k].items[j].kind # "cat"
  PROVE  /\ FindMod(ms, ms[k].id) = k
         /\ FindItem(ms[k].items, ms[k].items[j].id) = j
         /\ ItemOf(ms, <<ms[k].id, ms[k].items[j].id>>) = ms[k].items[j]
<1>1. /\ ms \in Seq(Mod) /\ Len(ms) \in Nat /\ DOMAIN ms = 1..Len(ms)
      /\ ms[k].items \in Seq(Item) /\ ModsOnce(ms) /\ Once(ms[k].items)
  <2>1. ms[k] \in Mod
    BY DEF Models
  <2>. QED BY <2>1 DEF Models, Mod
<1>2. FindMod(ms, ms[k].id) = k
  BY <1>1, FoundMod DEF ModsOnce
<1>. DEFINE items == ms[k].items
<1>3. items \in Seq(Item) /\ Len(items) \in Nat /\ DOMAIN items = 1..Len(items)
  BY <1>1
<1>4. FindItem(items, items[j].id) = j
  <2>. HIDE DEF items
  <2>1. j \in 1..Len(items) /\ items[j].kind # "cat" /\ Once(items)
    BY <1>1, <1>3 DEF items
  <2>. QED BY <1>3, <2>1, FoundItem DEF Once
<1>. QED BY <1>2, <1>4 DEF ItemOf

(* The settings of a model, place by place. *)
LEMMA DeclaredPlaces ==
  ASSUME NEW ms, NEW s
  PROVE  s \in Declared(ms) <=>
           \E k \in DOMAIN ms : \E j \in DOMAIN ms[k].items :
             ms[k].items[j].kind # "cat" /\ s = <<ms[k].id, ms[k].items[j].id>>
<1>1. ASSUME NEW k \in DOMAIN ms, NEW j \in DOMAIN ms[k].items,
             ms[k].items[j].kind # "cat", s = <<ms[k].id, ms[k].items[j].id>>
      PROVE  s \in Declared(ms)
  <2>1. <<k, j>> \in Places(ms)
    BY <1>1 DEF Places
  <2>2. s = SettingAt(ms, <<k, j>>)
    BY <1>1 DEF SettingAt
  <2>. QED BY <2>1, <2>2 DEF Declared
<1>2. ASSUME s \in Declared(ms)
      PROVE  \E k \in DOMAIN ms : \E j \in DOMAIN ms[k].items :
               ms[k].items[j].kind # "cat" /\ s = <<ms[k].id, ms[k].items[j].id>>
  <2>1. PICK p \in Places(ms) : s = SettingAt(ms, p)
    BY <1>2 DEF Declared
  <2>2. PICK k \in DOMAIN ms :
          p \in {<<k, j>> : j \in {n \in DOMAIN ms[k].items : ms[k].items[n].kind # "cat"}}
    BY DEF Places
  <2>3. PICK j \in DOMAIN ms[k].items : ms[k].items[j].kind # "cat" /\ p = <<k, j>>
    BY <2>2
  <2>. QED BY <2>1, <2>3 DEF SettingAt
<1>. QED BY <1>1, <1>2

(* The values of a model are values, and its settings settings. *)
LEMMA DeclaredTyped ==
  ASSUME NEW ms \in Models, NEW s \in Declared(ms)
  PROVE  s \in Settings /\ ItemOf(ms, s).val \in Values
<1>1. PICK k \in DOMAIN ms : \E j \in DOMAIN ms[k].items :
             ms[k].items[j].kind # "cat" /\ s = <<ms[k].id, ms[k].items[j].id>>
  BY DeclaredPlaces
<1>2. PICK j \in DOMAIN ms[k].items :
             ms[k].items[j].kind # "cat" /\ s = <<ms[k].id, ms[k].items[j].id>>
  BY <1>1
<1>3. ms[k] \in Mod /\ ms[k].items[j] \in Item
  <2>1. ms[k] \in Mod
    BY DEF Models
  <2>. QED BY <2>1 DEF Mod
<1>4. ItemOf(ms, s) = ms[k].items[j]
  BY <1>2, PlaceOfSetting
<1>. QED BY <1>2, <1>3, <1>4 DEF Mod, Item, Settings

-----------------------------------------------------------------------------
(* Models that differ in values only. *)

Alike(a, b) ==
  /\ Len(a) = Len(b)
  /\ \A k \in 1..Len(a) :
       /\ a[k].id = b[k].id
       /\ Len(a[k].items) = Len(b[k].items)
       /\ \A j \in 1..Len(a[k].items) :
            a[k].items[j].kind = b[k].items[j].kind /\ a[k].items[j].id = b[k].items[j].id

(* Of models that differ in values only both are models, with the same      *)
(* settings.                                                                *)
LEMMA AlikeModels ==
  ASSUME NEW a \in Models, NEW b \in Seq(Mod), Alike(a, b)
  PROVE  b \in Models /\ Declared(b) = Declared(a)
<1>1. /\ a \in Seq(Mod) /\ Len(b) = Len(a) /\ DOMAIN a = 1..Len(a) /\ DOMAIN b = 1..Len(a)
      /\ \A k \in 1..Len(a) : a[k] \in Mod /\ b[k] \in Mod
  BY DEF Models, Alike
<1>2. ASSUME NEW k \in 1..Len(a)
      PROVE  /\ DOMAIN a[k].items = 1..Len(a[k].items)
             /\ DOMAIN b[k].items = 1..Len(a[k].items)
  <2>1. a[k].items \in Seq(Item) /\ b[k].items \in Seq(Item)
    BY <1>1 DEF Mod
  <2>2. Len(a[k].items) = Len(b[k].items)
    BY DEF Alike
  <2>. QED BY <2>1, <2>2
<1>3. ModsOnce(b)
  BY <1>1 DEF Models, ModsOnce, Alike
<1>4. ASSUME NEW k \in 1..Len(a) PROVE Once(b[k].items)
  <2>1. Once(a[k].items)
    BY <1>1 DEF Models
  <2>2. \A j \in 1..Len(a[k].items) :
          a[k].items[j].kind = b[k].items[j].kind /\ a[k].items[j].id = b[k].items[j].id
    BY DEF Alike
  <2>. QED BY <1>2, <2>1, <2>2 DEF Once
<1>5. \A s : s \in Declared(a) <=> s \in Declared(b)
  <2>1. ASSUME NEW k \in 1..Len(a), NEW j \in 1..Len(a[k].items)
        PROVE  /\ a[k].items[j].kind = b[k].items[j].kind
               /\ <<a[k].id, a[k].items[j].id>> = <<b[k].id, b[k].items[j].id>>
    BY DEF Alike
  <2>2. ASSUME NEW s, s \in Declared(a) PROVE s \in Declared(b)
    <3>1. PICK k \in DOMAIN a : \E j \in DOMAIN a[k].items :
             a[k].items[j].kind # "cat" /\ s = <<a[k].id, a[k].items[j].id>>
      BY <2>2, DeclaredPlaces
    <3>2. PICK j \in DOMAIN a[k].items :
             a[k].items[j].kind # "cat" /\ s = <<a[k].id, a[k].items[j].id>>
      BY <3>1
    <3>3. /\ k \in DOMAIN b /\ j \in DOMAIN b[k].items
          /\ b[k].items[j].kind # "cat" /\ s = <<b[k].id, b[k].items[j].id>>
      BY <1>1, <1>2, <2>1, <3>2
    <3>. QED BY <3>3, DeclaredPlaces
  <2>3. ASSUME NEW s, s \in Declared(b) PROVE s \in Declared(a)
    <3>1. PICK k \in DOMAIN b : \E j \in DOMAIN b[k].items :
             b[k].items[j].kind # "cat" /\ s = <<b[k].id, b[k].items[j].id>>
      BY <2>3, DeclaredPlaces
    <3>2. PICK j \in DOMAIN b[k].items :
             b[k].items[j].kind # "cat" /\ s = <<b[k].id, b[k].items[j].id>>
      BY <3>1
    <3>3. /\ k \in DOMAIN a /\ j \in DOMAIN a[k].items
          /\ a[k].items[j].kind # "cat" /\ s = <<a[k].id, a[k].items[j].id>>
      BY <1>1, <1>2, <2>1, <3>2
    <3>. QED BY <3>3, DeclaredPlaces
  <2>. QED BY <2>2, <2>3
<1>6. Declared(b) = Declared(a)
  BY <1>5, Zenon
<1>7. b \in Models
  BY <1>1, <1>3, <1>4 DEF Models
<1>. QED BY <1>6, <1>7

(* Something else in each place of a sequence. *)
LEMMA MappedSequence ==
  ASSUME NEW S, NEW s \in Seq(S), NEW T, NEW f, f = [j \in DOMAIN s |-> f[j]],
         \A j \in 1..Len(s) : f[j] \in T
  PROVE  f \in Seq(T) /\ Len(f) = Len(s) /\ DOMAIN f = 1..Len(s)
<1>1. Len(s) \in Nat /\ DOMAIN s = 1..Len(s)
  OBVIOUS
<1>2. DOMAIN f = 1..Len(s)
  BY <1>1
<1>3. f \in [1..Len(s) -> T]
  BY <1>1
<1>. QED BY <1>1, <1>2, <1>3

(* Session values return to what no source reported. *)
LEMMA ApplyValuesGood ==
  ASSUME NEW ms \in Models, NEW live, Reported(ms, live), NEW snap,
         \A s \in DOMAIN snap : snap[s] \in Values
  PROVE  LET q == ApplyValues(ms, snap) IN
         /\ q \in Models /\ Reported(q, live)
         /\ \A k \in DOMAIN q : \A j \in DOMAIN q[k].items :
              LET s == <<q[k].id, q[k].items[j].id>> IN
              q[k].items[j].kind # "cat" /\ ~q[k].items[j].live /\ s \in DOMAIN snap
                => q[k].items[j].val = snap[s]
<1>. DEFINE Applies(k, item) ==
              item.kind # "cat" /\ ~item.live /\ <<ms[k].id, item.id>> \in DOMAIN snap
            New(k, item) ==
              IF Applies(k, item) THEN [item EXCEPT !.val = snap[<<ms[k].id, item.id>>]]
              ELSE item
            items(k) == [j \in DOMAIN ms[k].items |-> New(k, ms[k].items[j])]
            mod(k) == [ms[k] EXCEPT !.items = items(k)]
            q == ApplyValues(ms, snap)
<1>1. q = [k \in DOMAIN ms |-> mod(k)]
  BY DEF ApplyValues
<1>2. /\ ms \in Seq(Mod) /\ Len(ms) \in Nat /\ DOMAIN ms = 1..Len(ms)
      /\ \A k \in 1..Len(ms) : ms[k] \in Mod
  BY DEF Models
<1>3. ASSUME NEW k \in 1..Len(ms), NEW item \in Item
      PROVE  /\ New(k, item) \in Item
             /\ New(k, item).kind = item.kind /\ New(k, item).id = item.id
             /\ New(k, item).live = item.live
             /\ Applies(k, item) => New(k, item).val = snap[<<ms[k].id, item.id>>]
             /\ ~Applies(k, item) => New(k, item) = item
  <2>1. CASE Applies(k, item)
    <3>1. snap[<<ms[k].id, item.id>>] \in Values
      BY <2>1
    <3>. QED BY <2>1, <3>1 DEF Item
  <2>2. CASE ~Applies(k, item)
    BY <2>2
  <2>. QED BY <2>1, <2>2
<1>. HIDE DEF New, Applies
<1>4. ASSUME NEW k \in 1..Len(ms)
      PROVE  /\ ms[k].items \in Seq(Item) /\ DOMAIN ms[k].items = 1..Len(ms[k].items)
             /\ items(k) \in Seq(Item) /\ Len(items(k)) = Len(ms[k].items)
             /\ \A j \in 1..Len(ms[k].items) :
                  ms[k].items[j] \in Item /\ items(k)[j] = New(k, ms[k].items[j])
  <2>. DEFINE old == ms[k].items
  <2>1. old \in Seq(Item) /\ DOMAIN old = 1..Len(old) /\ \A j \in 1..Len(old) : old[j] \in Item
    <3>1. ms[k].items \in Seq(Item)
      BY <1>2 DEF Mod
    <3>. QED BY <3>1
  <2>2. /\ items(k) = [j \in DOMAIN old |-> items(k)[j]]
        /\ \A j \in 1..Len(old) : items(k)[j] = New(k, old[j])
    BY <2>1
  <2>. HIDE DEF items, old
  <2>3. \A j \in 1..Len(old) : items(k)[j] \in Item
    BY <1>3, <2>1, <2>2
  <2>4. items(k) \in Seq(Item) /\ Len(items(k)) = Len(old)
    BY <2>1, <2>2, <2>3, MappedSequence
  <2>. QED BY <2>1, <2>2, <2>4 DEF old
<1>. HIDE DEF items
<1>5. ASSUME NEW k \in 1..Len(ms)
      PROVE  mod(k) \in Mod /\ mod(k).id = ms[k].id /\ mod(k).items = items(k)
  BY <1>2, <1>4, ModWithItems
<1>. HIDE DEF mod
<1>6. /\ q \in Seq(Mod) /\ Len(q) = Len(ms) /\ DOMAIN q = 1..Len(ms)
      /\ \A k \in 1..Len(ms) : q[k].id = ms[k].id /\ q[k].items = items(k)
  BY <1>1, <1>2, <1>5
<1>. HIDE DEF q
<1>7. Alike(ms, q)
  <2>1. ASSUME NEW k \in 1..Len(ms)
        PROVE  /\ ms[k].id = q[k].id /\ Len(ms[k].items) = Len(q[k].items)
               /\ \A j \in 1..Len(ms[k].items) :
                    /\ ms[k].items[j].kind = q[k].items[j].kind
                    /\ ms[k].items[j].id = q[k].items[j].id
    <3>1. q[k].id = ms[k].id /\ q[k].items = items(k)
      BY <1>6
    <3>2. Len(ms[k].items) = Len(items(k))
      BY <1>4
    <3>3. ASSUME NEW j \in 1..Len(ms[k].items)
          PROVE  /\ ms[k].items[j].kind = items(k)[j].kind
                 /\ ms[k].items[j].id = items(k)[j].id
      <4>1. ms[k].items[j] \in Item /\ items(k)[j] = New(k, ms[k].items[j])
        BY <1>4
      <4>2. /\ New(k, ms[k].items[j]).kind = ms[k].items[j].kind
            /\ New(k, ms[k].items[j]).id = ms[k].items[j].id
        BY <1>3, <4>1
      <4>. QED BY <4>1, <4>2
    <3>. QED BY <3>1, <3>2, <3>3
  <2>. QED BY <1>6, <2>1 DEF Alike
<1>8. ASSUME NEW k \in DOMAIN q, NEW j \in DOMAIN q[k].items
      PROVE  Honest(<<q[k].id, q[k].items[j].id>>, q[k].items[j], live)
  <2>1. /\ k \in DOMAIN ms /\ j \in DOMAIN ms[k].items /\ ms[k].items[j] \in Item
        /\ q[k].items[j] = New(k, ms[k].items[j]) /\ q[k].id = ms[k].id
    <3>1. k \in 1..Len(ms) /\ k \in DOMAIN ms /\ q[k].id = ms[k].id /\ q[k].items = items(k)
      BY <1>2, <1>6
    <3>2. DOMAIN items(k) = 1..Len(ms[k].items)
      BY <1>4, <3>1
    <3>. QED BY <1>4, <3>1, <3>2
  <2>2. Honest(<<ms[k].id, ms[k].items[j].id>>, ms[k].items[j], live)
    BY <2>1 DEF Reported, AllHonest
  <2>3. ms[k].items[j].live => ~Applies(k, ms[k].items[j])
    BY DEF Applies
  <2>. QED BY <1>3, <2>1, <2>2, <2>3 DEF Honest
<1>9. ASSUME NEW k \in DOMAIN q, NEW j \in DOMAIN q[k].items,
             q[k].items[j].kind # "cat", ~q[k].items[j].live,
             <<q[k].id, q[k].items[j].id>> \in DOMAIN snap
      PROVE  q[k].items[j].val = snap[<<q[k].id, q[k].items[j].id>>]
  <2>1. /\ k \in 1..Len(ms) /\ j \in DOMAIN ms[k].items /\ ms[k].items[j] \in Item
        /\ q[k].items[j] = New(k, ms[k].items[j]) /\ q[k].id = ms[k].id
    <3>1. k \in 1..Len(ms) /\ k \in DOMAIN ms /\ q[k].id = ms[k].id /\ q[k].items = items(k)
      BY <1>2, <1>6
    <3>2. DOMAIN items(k) = 1..Len(ms[k].items)
      BY <1>4, <3>1
    <3>. QED BY <1>4, <3>1, <3>2
  <2>2. /\ New(k, ms[k].items[j]).kind = ms[k].items[j].kind
        /\ New(k, ms[k].items[j]).id = ms[k].items[j].id
        /\ New(k, ms[k].items[j]).live = ms[k].items[j].live
    BY <1>3, <2>1
  <2>3. Applies(k, ms[k].items[j])
    BY <1>9, <2>1, <2>2 DEF Applies
  <2>. QED BY <1>3, <2>1, <2>2, <2>3
<1>10. q \in Models
  BY <1>6, <1>7, AlikeModels
<1>11. Reported(q, live)
  BY <1>8 DEF Reported, AllHonest
<1>. QED BY <1>9, <1>10, <1>11 DEF q

(* Sorting a model leaves one: every mod keeps its items.                   *)
LEMMA SortedGood ==
  ASSUME NEW ms \in Models, NEW o \in SortedOrders(ms)
  PROVE  /\ o \in Models
         /\ \A k \in DOMAIN o : \E l \in DOMAIN ms : o[k] = ms[l]
<1>. DEFINE S == ToSet(ms)
            N == Cardinality(S)
<1>1. ms \in Seq(Mod) /\ Len(ms) \in Nat /\ DOMAIN ms = 1..Len(ms)
  BY DEF Models
<1>2. N \in Nat
  <2>1. IsFiniteSet(1..Len(ms))
    BY <1>1, FS_Interval
  <2>2. S = {ms[k] : k \in 1..Len(ms)}
    BY <1>1 DEF ToSet
  <2>. DEFINE f == [k \in 1..Len(ms) |-> ms[k]]
  <2>3. f \in Surjection(1..Len(ms), S)
    BY <2>2 DEF Surjection
  <2>. HIDE DEF S, f
  <2>4. IsFiniteSet(S)
    BY <2>1, <2>3, FS_Surjection
  <2>. QED BY <2>4, FS_CardinalityType
<1>3. o \in [1..N -> S] /\ \A i, j \in 1..N : i # j => o[i] # o[j]
  BY DEF SortedOrders, SetToSeqs
<1>. HIDE DEF N
<1>4. \A k \in 1..N : \E l \in DOMAIN ms : o[k] = ms[l]
  BY <1>3 DEF ToSet
<1>. HIDE DEF S
<1>5. \A k \in 1..N : o[k] \in Mod /\ Once(o[k].items)
  BY <1>1, <1>4 DEF Models
<1>6. o \in Seq(Mod) /\ DOMAIN o = 1..N
  BY <1>2, <1>3, <1>5
<1>7. ModsOnce(o)
  <2>. SUFFICES ASSUME NEW k \in 1..N, NEW l \in 1..N, o[k].id = o[l].id
                PROVE  k = l
    BY <1>6 DEF ModsOnce
  <2>1. PICK a \in DOMAIN ms : o[k] = ms[a]
    BY <1>4
  <2>2. PICK b \in DOMAIN ms : o[l] = ms[b]
    BY <1>4
  <2>3. a = b
    BY <2>1, <2>2 DEF Models, ModsOnce
  <2>. QED BY <1>3, <2>1, <2>2, <2>3
<1>. QED BY <1>4, <1>5, <1>6, <1>7 DEF Models

(* What declarations of several sources are together. *)
LEMMA SourcesJoined ==
  ASSUME NEW a \in Sources, NEW b \in Sources
  PROVE  a \o b \in Sources
<1>1. a \in Seq(Declarations) /\ b \in Seq(Declarations)
  BY DEF Sources
<1>2. /\ a \o b \in Seq(Declarations) /\ Len(a) \in Nat /\ Len(b) \in Nat
      /\ DOMAIN (a \o b) = 1..(Len(a) + Len(b))
      /\ \A n \in 1..(Len(a) + Len(b)) :
           (a \o b)[n] = IF n <= Len(a) THEN a[n] ELSE b[n - Len(a)]
  BY <1>1
<1>. DEFINE c == a \o b
<1>. HIDE DEF c
<1>3. ASSUME NEW n \in DOMAIN c, c[n].op = "live"
      PROVE  <<c[n].mod, c[n].id>> \in Owned
  <2>1. CASE n <= Len(a)
    <3>1. n \in DOMAIN a /\ c[n] = a[n]
      BY <1>1, <1>2, <2>1 DEF c
    <3>. QED BY <1>3, <3>1 DEF Sources
  <2>2. CASE ~(n <= Len(a))
    <3>1. n - Len(a) \in DOMAIN b /\ c[n] = b[n - Len(a)]
      BY <1>1, <1>2, <2>2 DEF c
    <3>. QED BY <1>3, <3>1 DEF Sources
  <2>. QED BY <2>1, <2>2
<1>. QED BY <1>2, <1>3 DEF Sources, c

(* A rebuild gives a model: live values are those reported, and a setting   *)
(* that was there before keeps its value unless its mod reported one.       *)
LEMMA RebuiltGood ==
  ASSUME NEW ms \in Models, NEW live, \A s \in Owned : live[s] \in Values,
         NEW cpp \in CppBuilds, NEW lua \in LuaBuilds,
         NEW q \in Rebuilt(ms, Xml, cpp, lua, live)
  PROVE  /\ q \in Models
         /\ \A s \in Declared(q) :
              /\ ItemOf(q, s).live => s \in Owned /\ ItemOf(q, s).val = live[s]
              /\ ~ItemOf(q, s).live /\ s \in Declared(ms) => ItemOf(q, s).val = ItemOf(ms, s).val
<1>. DEFINE decls == Xml \o cpp \o lua
            built == Built(decls, live)
            snap == SnapshotValues(ms)
            kept == ApplyValues(built, snap)
<1>1. decls \in Sources
  BY McmAssumption, SourcesJoined
<1>2. built \in Models /\ Reported(built, live)
  BY <1>1, BuiltGood
<1>3. /\ DOMAIN snap = Declared(ms)
      /\ \A s \in Declared(ms) : snap[s] = ItemOf(ms, s).val /\ snap[s] \in Values
  BY DeclaredTyped DEF SnapshotValues
<1>4. q \in SortedOrders(kept)
  BY DEF Rebuilt
<1>. HIDE DEF built, snap
<1>5. /\ kept \in Models /\ Reported(kept, live)
      /\ \A k \in DOMAIN kept : \A j \in DOMAIN kept[k].items :
              LET s == <<kept[k].id, kept[k].items[j].id>> IN
              kept[k].items[j].kind # "cat" /\ ~kept[k].items[j].live /\ s \in DOMAIN snap
                => kept[k].items[j].val = snap[s]
  BY <1>2, <1>3, ApplyValuesGood
<1>. HIDE DEF kept
<1>6. q \in Models /\ \A k \in DOMAIN q : \E l \in DOMAIN kept : q[k] = kept[l]
  BY <1>4, <1>5, SortedGood
<1>7. ASSUME NEW s \in Declared(q)
      PROVE  /\ ItemOf(q, s).live => s \in Owned /\ ItemOf(q, s).val = live[s]
             /\ ~ItemOf(q, s).live /\ s \in Declared(ms) => ItemOf(q, s).val = ItemOf(ms, s).val
  <2>1. PICK k \in DOMAIN q : \E j \in DOMAIN q[k].items :
             q[k].items[j].kind # "cat" /\ s = <<q[k].id, q[k].items[j].id>>
    BY DeclaredPlaces
  <2>2. PICK j \in DOMAIN q[k].items :
             q[k].items[j].kind # "cat" /\ s = <<q[k].id, q[k].items[j].id>>
    BY <2>1
  <2>3. PICK l \in DOMAIN kept : q[k] = kept[l]
    BY <1>6
  <2>4. ItemOf(q, s) = kept[l].items[j]
    BY <1>6, <2>2, <2>3, PlaceOfSetting
  <2>5. /\ j \in DOMAIN kept[l].items /\ kept[l].items[j].kind # "cat"
        /\ s = <<kept[l].id, kept[l].items[j].id>>
    BY <2>2, <2>3
  <2>6. Honest(s, kept[l].items[j], live)
    BY <1>5, <2>5 DEF Reported, AllHonest
  <2>7. ~kept[l].items[j].live /\ s \in DOMAIN snap => kept[l].items[j].val = snap[s]
    BY <1>5, <2>5
  <2>. QED BY <1>3, <2>4, <2>6, <2>7 DEF Honest
<1>. QED BY <1>6, <1>7

-----------------------------------------------------------------------------
(* The panel. *)

Row == [kind: Kinds, id: ItemIds, value: Values, def: Values, idx: Nat]
CachedMod == [id: ModIds, idx: Nat, items: Seq(Row)]
Hold == [mod: ModIds, pos: Nat, start: Values]
PanelRecord ==
  [cache: Seq(CachedMod), current: ModIds \cup {NoMod}, rows: SUBSET Nat,
   grip: [Grips -> Hold \cup {NoGrip}], searching: BOOLEAN]

(* Item pos of mod m is there, and of one of some kinds.                    *)
IsItem(cache, m, pos, kinds) ==
  /\ FindMod(cache, m) \in 1..Len(cache)
  /\ pos \in 1..Len(cache[FindMod(cache, m)].items)
  /\ cache[FindMod(cache, m)].items[pos].kind \in kinds

(* Rows show items that are there; what is held is a slider that is there.  *)
RowsThere(cache, current, rows) == \A pos \in rows : IsItem(cache, current, pos, Kinds)
GripsThere(cache, grip) ==
  \A g \in Grips :
    grip[g] # NoGrip => IsItem(cache, grip[g].mod, grip[g].pos, {"slider"})

Panels ==
  {p \in PanelRecord : RowsThere(p.cache, p.current, p.rows) /\ GripsThere(p.cache, p.grip)}

(* A cache in which whatever was there still is.                            *)
Grows(c, d) ==
  /\ Len(c) <= Len(d)
  /\ \A k \in 1..Len(c) :
       /\ d[k].id = c[k].id
       /\ Len(c[k].items) <= Len(d[k].items)
       /\ \A j \in 1..Len(c[k].items) : d[k].items[j].kind = c[k].items[j].kind

(* A mod is found where it was after the cache has grown. *)
LEMMA GrownFinds ==
  ASSUME NEW c, NEW d, Len(c) \in Nat, Len(d) \in Nat, Grows(c, d),
         NEW m, FindMod(c, m) # 0
  PROVE  FindMod(d, m) = FindMod(c, m) /\ FindMod(c, m) \in 1..Len(c)
<1>. DEFINE k == FindMod(c, m)
            l == FindMod(d, m)
<1>1. k \in 1..Len(c) /\ c[k].id = m /\ \A i \in 1..Len(c) : c[i].id = m => k <= i
  BY FoundMod
<1>2. k \in 1..Len(d) /\ d[k].id = m
  BY <1>1 DEF Grows
<1>3. l \in 1..Len(d) /\ d[l].id = m /\ l <= k
  BY <1>2, FoundMod
<1>4. l \in 1..Len(c) /\ c[l].id = m
  BY <1>1, <1>3 DEF Grows
<1>. QED BY <1>1, <1>3, <1>4

(* An item of the cache is there after the cache has grown. *)
LEMMA GrownHasItem ==
  ASSUME NEW c \in Seq(CachedMod), NEW d \in Seq(CachedMod), Grows(c, d),
         NEW m, NEW pos, NEW kinds, IsItem(c, m, pos, kinds)
  PROVE  IsItem(d, m, pos, kinds)
<1>. DEFINE k == FindMod(c, m)
<1>1. /\ Len(c) \in Nat /\ Len(d) \in Nat /\ k \in 1..Len(c) /\ k # 0
      /\ pos \in 1..Len(c[k].items) /\ c[k].items[pos].kind \in kinds
  BY DEF IsItem
<1>2. FindMod(d, m) = k
  BY <1>1, GrownFinds
<1>. HIDE DEF k
<1>3. k \in 1..Len(d) /\ c[k] \in CachedMod /\ d[k] \in CachedMod
  BY <1>1 DEF Grows
<1>4. Len(c[k].items) \in Nat /\ Len(d[k].items) \in Nat
  BY <1>3 DEF CachedMod
<1>5. pos \in 1..Len(d[k].items) /\ d[k].items[pos].kind = c[k].items[pos].kind
  BY <1>1, <1>4 DEF Grows
<1>. QED BY <1>1, <1>2, <1>3, <1>5 DEF IsItem

(* The panel with another cache. *)
LEMMA PanelWithCache ==
  ASSUME NEW p \in PanelRecord, NEW c \in Seq(CachedMod)
  PROVE  LET q == [p EXCEPT !.cache = c] IN
         /\ q \in PanelRecord /\ q.cache = c /\ q.current = p.current
         /\ q.rows = p.rows /\ q.grip = p.grip /\ q.searching = p.searching
BY DEF PanelRecord

(* Rows and holds stay sound when the cache grows: positions only count     *)
(* up.                                                                      *)
LEMMA PanelGrown ==
  ASSUME NEW p \in Panels, NEW c \in Seq(CachedMod), Grows(p.cache, c)
  PROVE  LET q == [p EXCEPT !.cache = c] IN
         /\ q \in Panels /\ q.cache = c /\ q.current = p.current
         /\ q.rows = p.rows /\ q.grip = p.grip /\ q.searching = p.searching
<1>. DEFINE q == [p EXCEPT !.cache = c]
<1>1. p \in PanelRecord /\ p.cache \in Seq(CachedMod)
  BY DEF Panels, PanelRecord
<1>2. /\ q \in PanelRecord /\ q.cache = c /\ q.current = p.current
      /\ q.rows = p.rows /\ q.grip = p.grip /\ q.searching = p.searching
  BY <1>1, PanelWithCache
<1>. HIDE DEF q
<1>3. RowsThere(c, p.current, p.rows)
  BY <1>1, GrownHasItem DEF Panels, RowsThere
<1>4. GripsThere(c, p.grip)
  BY <1>1, GrownHasItem DEF Panels, GripsThere
<1>5. q \in Panels
  BY <1>2, <1>3, <1>4 DEF Panels
<1>. QED BY <1>2, <1>5 DEF q

(* The panel with another mod selected. *)
LEMMA PanelWithCurrent ==
  ASSUME NEW p \in PanelRecord, NEW m \in ModIds \cup {NoMod}
  PROVE  LET q == [p EXCEPT !.current = m] IN
         /\ q \in PanelRecord /\ q.cache = p.cache /\ q.current = m
         /\ q.rows = p.rows /\ q.grip = p.grip /\ q.searching = p.searching
BY DEF PanelRecord

(* The panel with other rows. *)
LEMMA PanelWithRows ==
  ASSUME NEW p \in PanelRecord, NEW rows \in SUBSET Nat
  PROVE  LET q == [p EXCEPT !.rows = rows] IN
         /\ q \in PanelRecord /\ q.cache = p.cache /\ q.current = p.current
         /\ q.rows = rows /\ q.grip = p.grip /\ q.searching = p.searching
BY DEF PanelRecord

(* A panel without rows and without a hold. *)
LEMMA BarePanel ==
  ASSUME NEW p \in PanelRecord, p.rows = {}, p.grip = [g \in Grips |-> NoGrip]
  PROVE  p \in Panels
<1>1. RowsThere(p.cache, p.current, p.rows)
  BY DEF RowsThere
<1>2. GripsThere(p.cache, p.grip)
  BY DEF GripsThere
<1>. QED BY <1>1, <1>2 DEF Panels

(* What clearing the rows leaves: the cache and the selection. *)
LEMMA ClearedPanel ==
  ASSUME NEW p \in PanelRecord
  PROVE  LET q == Cleared(p) IN
         /\ q \in PanelRecord /\ q.cache = p.cache /\ q.current = p.current
         /\ q.rows = {} /\ q.grip = [g \in Grips |-> NoGrip] /\ q.searching = p.searching
BY DEF PanelRecord, Cleared

(* The panel of a fresh movie is sound. *)
LEMMA EmptyPanelGood == EmptyPanel \in Panels
<1>1. EmptyPanel \in PanelRecord
  BY DEF EmptyPanel, PanelRecord
<1>2. EmptyPanel.rows = {} /\ EmptyPanel.grip = [g \in Grips |-> NoGrip]
  BY DEF EmptyPanel
<1>. QED BY <1>1, <1>2, BarePanel

(* fc_beginMods empties the cache, and leaves no row or hold that points    *)
(* into it.                                                                 *)
LEMMA BeginModsGood ==
  ASSUME NEW p \in Panels
  PROVE  fc_beginMods(p) \in Panels /\ fc_beginMods(p).cache = << >>
<1>. DEFINE c == Cleared(p)
            d == [c EXCEPT !.cache = << >>]
            q == [d EXCEPT !.current = NoMod]
<1>1. /\ c \in PanelRecord /\ c.rows = {} /\ c.grip = [g \in Grips |-> NoGrip]
  BY ClearedPanel DEF Panels
<1>2. fc_beginMods(p) = q
  BY DEF fc_beginMods
<1>. HIDE DEF c
<1>3. /\ q \in PanelRecord /\ q.cache = << >> /\ q.rows = c.rows /\ q.grip = c.grip
  <2>1. << >> \in Seq(CachedMod)
    OBVIOUS
  <2>2. d \in PanelRecord /\ d.cache = << >> /\ d.rows = c.rows /\ d.grip = c.grip
    BY <1>1, <2>1, PanelWithCache
  <2>. HIDE DEF d
  <2>. QED BY <2>2, PanelWithCurrent
<1>. HIDE DEF q
<1>4. q \in Panels
  BY <1>1, <1>3, BarePanel
<1>. QED BY <1>2, <1>3, <1>4

(* Showing the rows of a mod. *)
LEMMA ShowModGood ==
  ASSUME NEW p \in Panels, NEW m \in ModIds
  PROVE  ShowMod(p, m) \in Panels /\ ShowMod(p, m).cache = p.cache
<1>. DEFINE k == FindMod(p.cache, m)
            c == Cleared(p)
            rows == DOMAIN p.cache[k].items
            d == [c EXCEPT !.current = m]
            q == [d EXCEPT !.rows = rows]
<1>1. p \in PanelRecord /\ p.cache \in Seq(CachedMod) /\ Len(p.cache) \in Nat
  BY DEF Panels, PanelRecord
<1>2. CASE k = 0
  BY <1>2 DEF ShowMod
<1>3. CASE k # 0
  <2>1. ShowMod(p, m) = q
    BY <1>3 DEF ShowMod
  <2>2. k \in 1..Len(p.cache)
    BY <1>1, <1>3, FoundMod
  <2>3. /\ p.cache[k].items \in Seq(Row) /\ rows = 1..Len(p.cache[k].items)
        /\ Len(p.cache[k].items) \in Nat
    <3>1. p.cache[k] \in CachedMod
      BY <1>1, <2>2
    <3>. QED BY <3>1 DEF CachedMod
  <2>4. /\ c \in PanelRecord /\ c.cache = p.cache /\ c.grip = [g \in Grips |-> NoGrip]
    BY <1>1, ClearedPanel
  <2>. HIDE DEF c, rows
  <2>5. /\ q \in PanelRecord /\ q.cache = c.cache /\ q.current = m
        /\ q.rows = rows /\ q.grip = c.grip
    <3>1. d \in PanelRecord /\ d.cache = c.cache /\ d.current = m /\ d.grip = c.grip
      BY <2>4, PanelWithCurrent
    <3>2. rows \in SUBSET Nat
      BY <2>3
    <3>. HIDE DEF d
    <3>. QED BY <3>1, <3>2, PanelWithRows
  <2>. HIDE DEF q
  <2>6. RowsThere(q.cache, q.current, q.rows)
    <3>1. ASSUME NEW pos \in rows PROVE IsItem(p.cache, m, pos, Kinds)
      <4>1. p.cache[k].items[pos] \in Row
        BY <2>3
      <4>. QED BY <2>2, <2>3, <4>1 DEF IsItem, Row
    <3>. QED BY <2>4, <2>5, <3>1 DEF RowsThere
  <2>7. GripsThere(q.cache, q.grip)
    BY <2>4, <2>5 DEF GripsThere
  <2>. QED BY <2>1, <2>4, <2>5, <2>6, <2>7 DEF Panels
<1>. QED BY <1>2, <1>3

(* fc_showMods selects a mod of the cache, or none, and touches no cache. *)
LEMMA ShowModsGood ==
  ASSUME NEW p \in Panels
  PROVE  fc_showMods(p) \in Panels /\ fc_showMods(p).cache = p.cache
<1>1. p \in PanelRecord /\ p.cache \in Seq(CachedMod)
  BY DEF Panels, PanelRecord
<1>2. CASE p.cache = << >>
  <2>1. fc_showMods(p) = Cleared(p)
    BY <1>2 DEF fc_showMods
  <2>. QED BY <1>1, <2>1, ClearedPanel, BarePanel
<1>3. CASE p.cache # << >>
  <2>1. fc_showMods(p) = ShowMod(p, p.cache[1].id)
    BY <1>3 DEF fc_showMods
  <2>2. p.cache[1] \in CachedMod
    BY <1>1, <1>3
  <2>. QED BY <2>1, <2>2, ShowModGood DEF CachedMod
<1>. QED BY <1>2, <1>3

(* Adding a mod, which may stand in the cache already. *)
LEMMA AddModGood ==
  ASSUME NEW p \in Panels, NEW m \in ModIds
  PROVE  LET r == [id |-> m, idx |-> Len(p.cache), items |-> << >>] IN
         fc_addMod(p, m) \in Panels /\ fc_addMod(p, m).cache = Append(p.cache, r)
<1>. DEFINE r == [id |-> m, idx |-> Len(p.cache), items |-> << >>]
            c == p.cache
            d == Append(c, r)
<1>1. c \in Seq(CachedMod) /\ Len(c) \in Nat
  BY DEF Panels, PanelRecord
<1>2. r \in CachedMod
  BY <1>1 DEF CachedMod
<1>3. fc_addMod(p, m) = [p EXCEPT !.cache = d]
  BY DEF fc_addMod
<1>. HIDE DEF r, c
<1>4. /\ d \in Seq(CachedMod) /\ Len(d) = Len(c) + 1
      /\ \A k \in 1..Len(c) : d[k] = c[k]
  BY <1>1, <1>2
<1>. HIDE DEF d
<1>5. Grows(c, d)
  <2>1. ASSUME NEW k \in 1..Len(c)
        PROVE  Len(c[k].items) \in Nat /\ d[k] = c[k]
    <3>1. c[k] \in CachedMod
      BY <1>1
    <3>. QED BY <1>4, <3>1 DEF CachedMod
  <2>. QED BY <1>1, <1>4, <2>1 DEF Grows
<1>6. fc_addMod(p, m) \in Panels /\ fc_addMod(p, m).cache = d
  BY <1>3, <1>4, <1>5, PanelGrown DEF c
<1>. QED BY <1>6 DEF c, d, r

(* A mod of the cache with other rows. *)
LEMMA CachedModWithItems ==
  ASSUME NEW m \in CachedMod, NEW items \in Seq(Row)
  PROVE  LET r == [m EXCEPT !.items = items] IN
         r \in CachedMod /\ r.id = m.id /\ r.idx = m.idx /\ r.items = items
BY DEF CachedMod

(* Other rows for one mod of the cache. *)
LEMMA CacheWithItems ==
  ASSUME NEW c \in Seq(CachedMod), NEW k \in 1..Len(c), NEW items \in Seq(Row)
  PROVE  LET d == [c EXCEPT ![k].items = items] IN
         /\ d \in Seq(CachedMod) /\ Len(d) = Len(c)
         /\ d[k].id = c[k].id /\ d[k].idx = c[k].idx /\ d[k].items = items
         /\ \A l \in 1..Len(c) : l # k => d[l] = c[l]
<1>. DEFINE r == [c[k] EXCEPT !.items = items]
            d == [c EXCEPT ![k] = r]
<1>1. c[k] \in CachedMod
  OBVIOUS
<1>2. r \in CachedMod /\ r.id = c[k].id /\ r.idx = c[k].idx /\ r.items = items
  BY <1>1, CachedModWithItems
<1>. HIDE DEF r
<1>3. /\ d \in Seq(CachedMod) /\ Len(d) = Len(c) /\ d[k] = r
      /\ \A l \in 1..Len(c) : l # k => d[l] = c[l]
  BY <1>2
<1>. QED BY <1>2, <1>3 DEF r

(* The cache grows when the rows of one of its mods grow. *)
LEMMA CacheGrown ==
  ASSUME NEW c \in Seq(CachedMod), NEW k \in 1..Len(c), NEW items \in Seq(Row),
         Len(c[k].items) <= Len(items),
         \A j \in 1..Len(c[k].items) : items[j].kind = c[k].items[j].kind
  PROVE  Grows(c, [c EXCEPT ![k].items = items])
<1>. DEFINE d == [c EXCEPT ![k].items = items]
<1>1. /\ d \in Seq(CachedMod) /\ Len(d) = Len(c)
      /\ d[k].id = c[k].id /\ d[k].items = items
      /\ \A l \in 1..Len(c) : l # k => d[l] = c[l]
  BY CacheWithItems
<1>. HIDE DEF d
<1>2. ASSUME NEW l \in 1..Len(c)
      PROVE  /\ d[l].id = c[l].id
             /\ Len(c[l].items) <= Len(d[l].items)
             /\ \A j \in 1..Len(c[l].items) : d[l].items[j].kind = c[l].items[j].kind
  <2>1. CASE l = k
    BY <1>1, <2>1
  <2>2. CASE l # k
    <3>1. c[l] \in CachedMod
      OBVIOUS
    <3>2. Len(c[l].items) \in Nat
      BY <3>1 DEF CachedMod
    <3>. QED BY <1>1, <2>2, <3>2
  <2>. QED BY <2>1, <2>2
<1>3. Len(c) \in Nat
  OBVIOUS
<1>. QED BY <1>1, <1>2, <1>3 DEF Grows, d

(* What the panel keeps of an item. *)
RowOf(item, idx) ==
  [kind |-> item.kind, id |-> item.id, value |-> item.val, def |-> item.def, idx |-> idx]

(* A row keeps the kind, the id and the value of its item.                  *)
LEMMA RowOfItem ==
  ASSUME NEW item \in Item, NEW idx \in Nat
  PROVE  LET r == RowOf(item, idx) IN
         /\ r \in Row /\ r.kind = item.kind /\ r.id = item.id
         /\ r.value = item.val /\ r.idx = idx
BY DEF RowOf, Item, Row

(* The cache with one more row at the end of a mod has grown by that row    *)
(* only.                                                                    *)
LEMMA AppendedRow ==
  ASSUME NEW c \in Seq(CachedMod), NEW k \in 1..Len(c), NEW row \in Row
  PROVE  LET d == [c EXCEPT ![k].items = Append(c[k].items, row)] IN
         /\ d \in Seq(CachedMod) /\ Grows(c, d) /\ Len(d) = Len(c)
         /\ d[k].id = c[k].id /\ d[k].idx = c[k].idx
         /\ Len(c[k].items) \in Nat /\ Len(d[k].items) = Len(c[k].items) + 1
         /\ d[k].items[Len(c[k].items) + 1] = row
         /\ \A j \in 1..Len(c[k].items) : d[k].items[j] = c[k].items[j]
         /\ \A l \in 1..Len(c) : l # k => d[l] = c[l]
<1>. DEFINE items == c[k].items
            more == Append(items, row)
            d == [c EXCEPT ![k].items = more]
<1>1. items \in Seq(Row)
  <2>1. c[k] \in CachedMod
    OBVIOUS
  <2>. QED BY <2>1 DEF CachedMod
<1>2. /\ more \in Seq(Row) /\ Len(items) \in Nat /\ Len(more) = Len(items) + 1
      /\ more[Len(items) + 1] = row
      /\ \A j \in 1..Len(items) : more[j] = items[j]
  <2>. HIDE DEF items
  <2>. QED BY <1>1
<1>. HIDE DEF more
<1>3. Grows(c, d)
  BY <1>2, CacheGrown
<1>4. /\ d \in Seq(CachedMod) /\ Len(d) = Len(c)
      /\ d[k].id = c[k].id /\ d[k].idx = c[k].idx /\ d[k].items = more
      /\ \A l \in 1..Len(c) : l # k => d[l] = c[l]
  BY <1>2, CacheWithItems
<1>5. d = [c EXCEPT ![k].items = Append(c[k].items, row)]
  BY DEF more
<1>. HIDE DEF d
<1>. QED BY <1>2, <1>3, <1>4, <1>5

(* fc_addItem keeps the panel sound; a mod of the cache gets the row at     *)
(* its end.                                                                 *)
LEMMA PanelAddsItem ==
  ASSUME NEW p \in Panels, NEW m \in ModIds, NEW item \in Item
  PROVE  LET k == FindMod(p.cache, m)
             c == p.cache IN
         /\ fc_addItem(p, m, item) \in Panels
         /\ k # 0 =>
              /\ k \in 1..Len(c)
              /\ fc_addItem(p, m, item).cache =
                   [c EXCEPT ![k].items =
                      Append(c[k].items, RowOf(item, Len(c[k].items)))]
<1>. DEFINE k == FindMod(p.cache, m)
            c == p.cache
            row == RowOf(item, Len(c[k].items))
            d == [c EXCEPT ![k].items = Append(c[k].items, row)]
<1>1. c \in Seq(CachedMod) /\ Len(c) \in Nat
  BY DEF Panels, PanelRecord
<1>2. CASE k = 0
  BY <1>2 DEF fc_addItem
<1>3. CASE k # 0
  <2>1. k \in 1..Len(c)
    BY <1>1, <1>3, FoundMod
  <2>2. row \in Row
    <3>1. c[k] \in CachedMod
      BY <1>1, <2>1
    <3>2. Len(c[k].items) \in Nat
      BY <3>1 DEF CachedMod
    <3>. QED BY <3>2, RowOfItem
  <2>3. fc_addItem(p, m, item) = [p EXCEPT !.cache = d]
    BY <1>3 DEF fc_addItem, RowOf
  <2>. HIDE DEF row, k
  <2>4. d \in Seq(CachedMod) /\ Grows(c, d)
    BY <1>1, <2>1, <2>2, AppendedRow
  <2>. HIDE DEF d
  <2>5. fc_addItem(p, m, item) \in Panels /\ fc_addItem(p, m, item).cache = d
    BY <2>3, <2>4, PanelGrown
  <2>. QED BY <2>1, <2>5 DEF d, k, row
<1>. QED BY <1>2, <1>3

-----------------------------------------------------------------------------
(* A push fills the cache in the order of the model. *)

(* Row j mirrors item j; only a slider may show another value meanwhile.    *)
MirrorsItem(row, item, j) ==
  /\ row.kind = item.kind /\ row.id = item.id /\ row.idx = j - 1
  /\ row.kind = "toggle" => row.value = item.val

(* The first n items of the k-th mod are there, and nothing else of it.     *)
MirrorsMod(cached, m, k, n) ==
  /\ cached.id = m.id /\ cached.idx = k - 1 /\ Len(cached.items) = n
  /\ \A j \in 1..n : MirrorsItem(cached.items[j], m.items[j], j)

MirrorsMods(c, ms, n) ==
  \A k \in 1..n : MirrorsMod(c[k], ms[k], k, Len(ms[k].items))

(* The cache holds the first n mods of the model; or, of the last of them,  *)
(* only the first j items.                                                  *)
Filled(c, ms, n) == Len(c) = n /\ MirrorsMods(c, ms, n)
Filling(c, ms, n, j) ==
  Len(c) = n /\ MirrorsMods(c, ms, n - 1) /\ MirrorsMod(c[n], ms[n], n, j)

(* A mod of which all items are there is filled. *)
LEMMA FillingFilled ==
  ASSUME NEW c, NEW ms, NEW n \in Nat \ {0}
  PROVE  Filling(c, ms, n, Len(ms[n].items)) <=> Filled(c, ms, n)
<1>1. 1..n = 1..(n - 1) \cup {n}
  OBVIOUS
<1>2. MirrorsMods(c, ms, n) <=> MirrorsMods(c, ms, n - 1)
                                 /\ MirrorsMod(c[n], ms[n], n, Len(ms[n].items))
  BY <1>1 DEF MirrorsMods
<1>. QED BY <1>2 DEF Filling, Filled

(* While the n-th mod is being filled, that is where its id is found. *)
LEMMA FillingFound ==
  ASSUME NEW ms \in Models, NEW n \in 1..Len(ms), NEW j,
         NEW c, Filling(c, ms, n, j)
  PROVE  FindMod(c, ms[n].id) = n
<1>1. DOMAIN ms = 1..Len(ms) /\ Len(ms) \in Nat /\ ModsOnce(ms)
  BY DEF Models
<1>2. \A k \in 1..n : c[k].id = ms[k].id
  BY DEF Filling, MirrorsMods, MirrorsMod
<1>3. \A k \in 1..n : c[k].id = ms[n].id => k = n
  BY <1>1, <1>2 DEF ModsOnce
<1>4. Len(c) = n /\ n \in Nat /\ c[n].id = ms[n].id
  BY <1>1, <1>2 DEF Filling
<1>. QED BY <1>3, <1>4, FoundMod

(* After n - 1 mods the call for the n-th starts it, without rows. *)
LEMMA AddModFills ==
  ASSUME NEW ms \in Models, NEW n \in 1..Len(ms), NEW p \in Panels,
         Filled(p.cache, ms, n - 1)
  PROVE  Filling(fc_addMod(p, ms[n].id).cache, ms, n, 0)
<1>. DEFINE c == p.cache
            r == [id |-> ms[n].id, idx |-> Len(c), items |-> << >>]
            d == Append(c, r)
<1>1. c \in Seq(CachedMod) /\ Len(ms) \in Nat /\ ms[n].id \in ModIds
  <2>1. ms[n] \in Mod
    BY DEF Models
  <2>. QED BY <2>1 DEF Panels, PanelRecord, Models, Mod
<1>2. fc_addMod(p, ms[n].id).cache = d
  BY <1>1, AddModGood
<1>3. Len(c) = n - 1
  BY DEF Filled
<1>4. r.id = ms[n].id /\ r.idx = n - 1 /\ r.items = << >> /\ r \in CachedMod
  BY <1>1, <1>3 DEF CachedMod
<1>. HIDE DEF r, c
<1>5. Len(d) = n /\ d[n] = r /\ \A k \in 1..(n - 1) : d[k] = c[k]
  BY <1>1, <1>3, <1>4
<1>. HIDE DEF d
<1>6. MirrorsMods(d, ms, n - 1)
  BY <1>5 DEF Filled, MirrorsMods, c
<1>7. MirrorsMod(d[n], ms[n], n, 0)
  BY <1>4, <1>5 DEF MirrorsMod
<1>. QED BY <1>2, <1>5, <1>6, <1>7 DEF Filling

(* After j - 1 items of the n-th mod the call for the j-th adds it at its   *)
(* place.                                                                   *)
LEMMA AddItemFills ==
  ASSUME NEW ms \in Models, NEW n \in 1..Len(ms), NEW j \in 1..Len(ms[n].items),
         NEW p \in Panels, Filling(p.cache, ms, n, j - 1)
  PROVE  Filling(fc_addItem(p, ms[n].id, ms[n].items[j]).cache, ms, n, j)
<1>. DEFINE c == p.cache
            item == ms[n].items[j]
            row == RowOf(item, Len(c[n].items))
            d == [c EXCEPT ![n].items = Append(c[n].items, row)]
<1>1. /\ c \in Seq(CachedMod) /\ Len(ms) \in Nat
      /\ ms[n].id \in ModIds /\ item \in Item /\ j \in Nat /\ n \in Nat
  <2>1. ms[n] \in Mod
    BY DEF Models
  <2>2. ms[n].items \in Seq(Item) /\ ms[n].id \in ModIds
    BY <2>1 DEF Mod
  <2>. QED BY <2>2 DEF Panels, PanelRecord, Models
<1>2. FindMod(c, ms[n].id) = n /\ n # 0
  BY FillingFound
<1>3. fc_addItem(p, ms[n].id, item).cache = d
  <2>. DEFINE k == FindMod(c, ms[n].id)
              e(i) == [c EXCEPT ![i].items = Append(c[i].items, RowOf(item, Len(c[i].items)))]
  <2>. HIDE DEF item
  <2>1. k # 0 => fc_addItem(p, ms[n].id, item).cache = e(k)
    BY <1>1, PanelAddsItem
  <2>. HIDE DEF e, k
  <2>2. fc_addItem(p, ms[n].id, item).cache = e(n)
    BY <1>2, <2>1 DEF k
  <2>. QED BY <2>2 DEF e
<1>4. /\ Len(c) = n /\ c[n].id = ms[n].id /\ c[n].idx = n - 1 /\ Len(c[n].items) = j - 1
      /\ MirrorsMods(c, ms, n - 1)
      /\ \A i \in 1..(j - 1) : MirrorsItem(c[n].items[i], ms[n].items[i], i)
  BY DEF Filling, MirrorsMod
<1>5. /\ row \in Row /\ row.kind = item.kind /\ row.id = item.id
      /\ row.value = item.val /\ row.idx = j - 1
  <2>1. j - 1 \in Nat
    BY <1>1
  <2>. QED BY <1>1, <1>4, <2>1, RowOfItem
<1>6. MirrorsItem(row, item, j)
  BY <1>5 DEF MirrorsItem
<1>. HIDE DEF row, c, item
<1>7. /\ Len(d) = n /\ d[n].id = c[n].id /\ d[n].idx = c[n].idx
      /\ Len(d[n].items) = j /\ d[n].items[j] = row
      /\ \A i \in 1..(j - 1) : d[n].items[i] = c[n].items[i]
      /\ \A l \in 1..(n - 1) : d[l] = c[l]
  <2>1. n \in 1..Len(c) /\ Len(c[n].items) + 1 = j
    BY <1>1, <1>4
  <2>2. \A l \in 1..(n - 1) : l \in 1..Len(c) /\ l # n
    BY <1>1, <1>4
  <2>. HIDE DEF d
  <2>. QED BY <1>1, <1>4, <1>5, <2>1, <2>2, AppendedRow DEF d
<1>. HIDE DEF d
<1>8. MirrorsMods(d, ms, n - 1)
  BY <1>4, <1>7 DEF MirrorsMods
<1>9. \A i \in 1..j : MirrorsItem(d[n].items[i], ms[n].items[i], i)
  <2>1. \A i \in 1..j : i \in 1..(j - 1) \/ i = j
    BY <1>1
  <2>. QED BY <1>4, <1>6, <1>7, <2>1 DEF item
<1>10. MirrorsMod(d[n], ms[n], n, j)
  BY <1>4, <1>7, <1>9 DEF MirrorsMod
<1>. QED BY <1>3, <1>7, <1>8, <1>10 DEF Filling, item

(* The calls for one mod, some of which may fail. *)
LEMMA PushedModGood ==
  ASSUME NEW ms \in Models, NEW k \in 1..Len(ms), NEW failed, NEW p \in Panels,
         failed = {} => Filled(p.cache, ms, k - 1)
  PROVE  \A q \in PushedMod(p, k, ms[k], failed) :
           q \in Panels /\ (failed = {} => Filled(q.cache, ms, k))
<1>. DEFINE m == ms[k]
            N == Len(m.items)
            G(j) == {q \in Panels : failed = {} => Filling(q.cache, ms, k, j)}
            E == [j \in 0..N |-> SUBSET G(j)]
            base == {Unless(<<k, 0>> \in failed, p, fc_addMod(p, m.id))}
            Then(X, j) == {Unless(<<k, j>> \in failed, q, fc_addItem(q, m.id, m.items[j])) : q \in X}
            step == [x \in (SUBSET Panels) \X (1..N) |-> Then(x[1], x[2])]
            added[j \in 0..N] ==
              IF j = 0 THEN {Unless(<<k, 0>> \in failed, p, fc_addMod(p, m.id))}
              ELSE {Unless(<<k, j>> \in failed, q, fc_addItem(q, m.id, m.items[j])) :
                      q \in added[j - 1]}
<1>1. /\ m.id \in ModIds /\ N \in Nat /\ k \in Nat \ {0}
      /\ \A j \in 1..N : m.items[j] \in Item
  <2>1. m \in Mod /\ Len(ms) \in Nat
    BY DEF Models
  <2>. HIDE DEF m
  <2>. QED BY <2>1 DEF Mod
<1>2. fc_addMod(p, m.id) \in Panels
  BY <1>1, AddModGood
<1>3. base \in SUBSET G(0)
  <2>1. failed = {} => Filling(fc_addMod(p, m.id).cache, ms, k, 0)
    BY AddModFills
  <2>. QED BY <1>2, <2>1 DEF Unless
<1>4. ASSUME NEW j \in 1..N, NEW X \in SUBSET G(j - 1)
      PROVE  Then(X, j) \in SUBSET G(j)
  <2>. SUFFICES ASSUME NEW q \in G(j - 1)
                PROVE  Unless(<<k, j>> \in failed, q, fc_addItem(q, m.id, m.items[j])) \in G(j)
    OBVIOUS
  <2>1. fc_addItem(q, m.id, m.items[j]) \in Panels
    BY <1>1, PanelAddsItem
  <2>2. failed = {} => Filling(fc_addItem(q, m.id, m.items[j]).cache, ms, k, j)
    BY AddItemFills
  <2>. QED BY <2>1, <2>2 DEF Unless
<1>5. \A j \in 0..N : E[j] = SUBSET G(j)
  OBVIOUS
<1>. HIDE DEF E
<1>6. base \in E[0]
  BY <1>1, <1>3, <1>5
<1>7. \A j \in 1..N : \A X \in E[j - 1] : step[<<X, j>>] = Then(X, j) /\ Then(X, j) \in E[j]
  <2>. SUFFICES ASSUME NEW j \in 1..N, NEW X \in E[j - 1]
                PROVE  step[<<X, j>>] = Then(X, j) /\ Then(X, j) \in E[j]
    OBVIOUS
  <2>1. X \in SUBSET G(j - 1) /\ E[j] = SUBSET G(j)
    <3>. HIDE DEF G
    <3>1. j - 1 \in 0..N /\ j \in 0..N
      BY <1>1
    <3>. QED BY <1>5, <3>1
  <2>2. X \in SUBSET Panels
    BY <2>1
  <2>3. Then(X, j) \in SUBSET G(j)
    BY <1>4, <2>1
  <2>. HIDE DEF G, Then
  <2>. QED BY <2>1, <2>2, <2>3
<1>8. base = {Unless(<<k, 0>> \in failed, p, fc_addMod(p, m.id))}
  OBVIOUS
<1>9. \A X, j : Then(X, j) =
        {Unless(<<k, j>> \in failed, q, fc_addItem(q, m.id, m.items[j])) : q \in X}
  OBVIOUS
<1>. HIDE DEF step, G, Then, base, N
<1>10. \A j \in 1..N : \A X \in E[j - 1] : step[<<X, j>>] \in E[j]
  BY <1>7
<1>11. PICK g : Runs(g, N, E, base, step)
  BY <1>1, <1>6, <1>10, StepsExist
<1>12. g = [j \in 0..N |-> IF j = 0 THEN base ELSE Then(g[j - 1], j)]
  <2>1. ASSUME NEW j \in 1..N PROVE step[<<g[j - 1], j>>] = Then(g[j - 1], j)
    <3>1. j - 1 \in 0..N
      BY <1>1
    <3>. QED BY <1>7, <1>11, <3>1 DEF Runs
  <2>. QED BY <1>11, <2>1 DEF Runs
<1>13. added = [j \in 0..N |-> IF j = 0 THEN base ELSE Then(added[j - 1], j)]
  <2>1. g = [j \in 0..N |->
              IF j = 0 THEN {Unless(<<k, 0>> \in failed, p, fc_addMod(p, m.id))}
              ELSE {Unless(<<k, j>> \in failed, q, fc_addItem(q, m.id, m.items[j])) :
                      q \in g[j - 1]}]
    BY <1>12, Zenon DEF base, Then
  <2>2. added = [j \in 0..N |->
              IF j = 0 THEN {Unless(<<k, 0>> \in failed, p, fc_addMod(p, m.id))}
              ELSE {Unless(<<k, j>> \in failed, q, fc_addItem(q, m.id, m.items[j])) :
                      q \in added[j - 1]}]
    BY <2>1
  <2>. QED BY <2>2, Zenon DEF base, Then
<1>. HIDE DEF added
<1>14. added[0] = base /\ \A j \in 1..N : added[j] = Then(added[j - 1], j)
  BY <1>1, <1>13
<1>15. \A j \in 0..N : added[j] \in E[j]
  <2>1. \A j \in 1..N : added[j - 1] \in E[j - 1] => added[j] \in E[j]
    BY <1>7, <1>14
  <2>. QED BY <1>1, <1>6, <1>14, <2>1, StepsStay
<1>16. PushedMod(p, k, ms[k], failed) = added[N]
  BY DEF PushedMod, added, N
<1>17. added[N] \in SUBSET G(N)
  BY <1>1, <1>5, <1>15
<1>18. \A q \in G(N) : q \in Panels /\ (failed = {} => Filled(q.cache, ms, k))
  BY <1>1, FillingFilled DEF G, N
<1>. QED BY <1>16, <1>17, <1>18

(* The calls for all mods. *)
LEMMA PushedModsGood ==
  ASSUME NEW ms \in Models, NEW failed, NEW p \in Panels,
         failed = {} => p.cache = << >>
  PROVE  \A q \in PushedMods(p, ms, failed) :
           q \in Panels /\ (failed = {} => Filled(q.cache, ms, Len(ms)))
<1>. DEFINE N == Len(ms)
            G(k) == {q \in Panels : failed = {} => Filled(q.cache, ms, k)}
            E == [k \in 0..N |-> SUBSET G(k)]
            base == {p}
            Then(X, k) == UNION {PushedMod(q, k, ms[k], failed) : q \in X}
            step == [x \in (SUBSET Panels) \X (1..N) |-> Then(x[1], x[2])]
            pushed[k \in 0..N] ==
              IF k = 0 THEN {p}
              ELSE UNION {PushedMod(q, k, ms[k], failed) : q \in pushed[k - 1]}
<1>1. N \in Nat
  BY DEF Models
<1>2. base \in SUBSET G(0)
  <2>1. p.cache = << >> => Filled(p.cache, ms, 0)
    BY DEF Filled, MirrorsMods
  <2>. QED BY <2>1
<1>3. ASSUME NEW k \in 1..N, NEW X \in SUBSET G(k - 1)
      PROVE  Then(X, k) \in SUBSET G(k)
  <2>. SUFFICES ASSUME NEW q \in G(k - 1), NEW r \in PushedMod(q, k, ms[k], failed)
                PROVE  r \in G(k)
    OBVIOUS
  <2>. QED BY PushedModGood
<1>4. \A k \in 0..N : E[k] = SUBSET G(k)
  OBVIOUS
<1>. HIDE DEF E
<1>5. base \in E[0]
  BY <1>1, <1>2, <1>4
<1>6. \A k \in 1..N : \A X \in E[k - 1] : step[<<X, k>>] = Then(X, k) /\ Then(X, k) \in E[k]
  <2>. SUFFICES ASSUME NEW k \in 1..N, NEW X \in E[k - 1]
                PROVE  step[<<X, k>>] = Then(X, k) /\ Then(X, k) \in E[k]
    OBVIOUS
  <2>1. X \in SUBSET G(k - 1) /\ E[k] = SUBSET G(k)
    <3>. HIDE DEF G
    <3>1. k - 1 \in 0..N /\ k \in 0..N
      BY <1>1
    <3>. QED BY <1>4, <3>1
  <2>2. X \in SUBSET Panels
    BY <2>1
  <2>3. Then(X, k) \in SUBSET G(k)
    BY <1>3, <2>1
  <2>. HIDE DEF G, Then
  <2>. QED BY <2>1, <2>2, <2>3
<1>. HIDE DEF step, G, Then, base, N
<1>7. \A k \in 1..N : \A X \in E[k - 1] : step[<<X, k>>] \in E[k]
  BY <1>6
<1>8. PICK g : Runs(g, N, E, base, step)
  BY <1>1, <1>5, <1>7, StepsExist
<1>9. g = [k \in 0..N |-> IF k = 0 THEN base ELSE Then(g[k - 1], k)]
  <2>1. ASSUME NEW k \in 1..N PROVE step[<<g[k - 1], k>>] = Then(g[k - 1], k)
    <3>1. k - 1 \in 0..N
      BY <1>1
    <3>. QED BY <1>6, <1>8, <3>1 DEF Runs
  <2>. QED BY <1>8, <2>1 DEF Runs
<1>10. pushed = [k \in 0..N |-> IF k = 0 THEN base ELSE Then(pushed[k - 1], k)]
  <2>1. g = [k \in 0..N |->
              IF k = 0 THEN {p}
              ELSE UNION {PushedMod(q, k, ms[k], failed) : q \in g[k - 1]}]
    BY <1>9, Zenon DEF base, Then
  <2>2. pushed = [k \in 0..N |->
              IF k = 0 THEN {p}
              ELSE UNION {PushedMod(q, k, ms[k], failed) : q \in pushed[k - 1]}]
    BY <2>1
  <2>. QED BY <2>2, Zenon DEF base, Then
<1>. HIDE DEF pushed
<1>11. pushed[0] = base /\ \A k \in 1..N : pushed[k] = Then(pushed[k - 1], k)
  BY <1>1, <1>10
<1>12. \A k \in 0..N : pushed[k] \in E[k]
  <2>1. \A k \in 1..N : pushed[k - 1] \in E[k - 1] => pushed[k] \in E[k]
    BY <1>6, <1>11
  <2>. QED BY <1>1, <1>5, <1>11, <2>1, StepsStay
<1>13. PushedMods(p, ms, failed) = pushed[N]
  BY DEF PushedMods, pushed, N
<1>14. pushed[N] \in SUBSET G(N)
  BY <1>1, <1>4, <1>12
<1>. QED BY <1>13, <1>14 DEF G, N

(* A push: the panel is sound whichever calls failed, and if none did it    *)
(* mirrors the model.                                                       *)
Mirrors(c, ms) == Filled(c, ms, Len(ms))

(* Whichever calls of a push fail, the panel is sound; if none does, it     *)
(* mirrors the model.                                                       *)
LEMMA PushedGood ==
  ASSUME NEW ms \in Models, NEW failed, NEW p \in Panels, NEW q \in Pushed(p, ms, failed)
  PROVE  q \in Panels /\ (failed = {} => Mirrors(q.cache, ms))
<1>. DEFINE b == Unless(BeginCall \in failed, p, fc_beginMods(p))
<1>1. b \in Panels /\ (failed = {} => b.cache = << >>)
  BY BeginModsGood DEF Unless
<1>2. PICK r \in PushedMods(b, ms, failed) : q = Unless(ShowCall(ms) \in failed, r, fc_showMods(r))
  BY DEF Pushed
<1>. HIDE DEF b
<1>3. r \in Panels /\ (failed = {} => Filled(r.cache, ms, Len(ms)))
  BY <1>1, PushedModsGood
<1>4. fc_showMods(r) \in Panels /\ fc_showMods(r).cache = r.cache
  BY <1>3, ShowModsGood
<1>. QED BY <1>2, <1>3, <1>4 DEF Unless, Mirrors

-----------------------------------------------------------------------------
(* The player's gestures on the panel. *)

(* The cache d is c with another value in row pos of its k-th mod.          *)
ValueShown(c, d, k, pos, v) ==
  /\ Len(d) = Len(c)
  /\ \A l \in 1..Len(c) :
       /\ d[l].id = c[l].id /\ d[l].idx = c[l].idx
       /\ Len(d[l].items) = Len(c[l].items)
       /\ \A j \in 1..Len(c[l].items) :
            /\ d[l].items[j].kind = c[l].items[j].kind
            /\ d[l].items[j].id = c[l].items[j].id
            /\ d[l].items[j].idx = c[l].items[j].idx
            /\ d[l].items[j].value = IF l = k /\ j = pos THEN v ELSE c[l].items[j].value

(* A row with another value. *)
LEMMA RowWithValue ==
  ASSUME NEW row \in Row, NEW v \in Values
  PROVE  LET r == [row EXCEPT !.value = v] IN
         /\ r \in Row /\ r.kind = row.kind /\ r.id = row.id /\ r.idx = row.idx
         /\ r.value = v
BY DEF Row

(* Another value in a row of the cache changes nothing else in it. *)
LEMMA CacheWithValue ==
  ASSUME NEW c \in Seq(CachedMod), NEW k \in 1..Len(c),
         NEW pos \in 1..Len(c[k].items), NEW v \in Values
  PROVE  LET d == [c EXCEPT ![k].items[pos].value = v] IN
         d \in Seq(CachedMod) /\ Grows(c, d) /\ ValueShown(c, d, k, pos, v)
<1>. DEFINE items == c[k].items
            row == [items[pos] EXCEPT !.value = v]
            more == [items EXCEPT ![pos] = row]
            d == [c EXCEPT ![k].items = more]
<1>1. items \in Seq(Row) /\ Len(items) \in Nat /\ c \in Seq(CachedMod)
  <2>1. c[k] \in CachedMod
    OBVIOUS
  <2>. QED BY <2>1 DEF CachedMod
<1>2. [c EXCEPT ![k].items[pos].value = v] = d
  OBVIOUS
<1>. HIDE DEF items
<1>3. pos \in 1..Len(items) /\ items[pos] \in Row
  BY <1>1 DEF items
<1>4. /\ row \in Row /\ row.kind = items[pos].kind /\ row.id = items[pos].id
      /\ row.idx = items[pos].idx /\ row.value = v
  BY <1>3, RowWithValue
<1>. HIDE DEF row
<1>5. /\ more \in Seq(Row) /\ Len(more) = Len(items) /\ more[pos] = row
      /\ \A j \in 1..Len(items) : j # pos => more[j] = items[j]
  BY <1>1, <1>3, <1>4
<1>. HIDE DEF more
<1>6. /\ d \in Seq(CachedMod) /\ Len(d) = Len(c)
      /\ d[k].id = c[k].id /\ d[k].idx = c[k].idx /\ d[k].items = more
      /\ \A l \in 1..Len(c) : l # k => d[l] = c[l]
  BY <1>5, CacheWithItems
<1>7. Grows(c, d)
  <2>1. \A j \in 1..Len(items) : more[j].kind = items[j].kind
    BY <1>4, <1>5
  <2>. QED BY <1>1, <1>5, <2>1, CacheGrown DEF items
<1>. HIDE DEF d
<1>8. ASSUME NEW l \in 1..Len(c)
      PROVE  /\ d[l].id = c[l].id /\ d[l].idx = c[l].idx
             /\ Len(d[l].items) = Len(c[l].items)
             /\ \A j \in 1..Len(c[l].items) :
                  /\ d[l].items[j].kind = c[l].items[j].kind
                  /\ d[l].items[j].id = c[l].items[j].id
                  /\ d[l].items[j].idx = c[l].items[j].idx
                  /\ d[l].items[j].value = IF l = k /\ j = pos THEN v ELSE c[l].items[j].value
  <2>1. CASE l = k
    <3>1. ASSUME NEW j \in 1..Len(items)
          PROVE  /\ more[j].kind = items[j].kind /\ more[j].id = items[j].id
                 /\ more[j].idx = items[j].idx
                 /\ more[j].value = IF j = pos THEN v ELSE items[j].value
      BY <1>4, <1>5
    <3>. QED BY <1>5, <1>6, <2>1, <3>1 DEF items
  <2>2. CASE l # k
    BY <1>6, <2>2
  <2>. QED BY <2>1, <2>2
<1>9. ValueShown(c, d, k, pos, v)
  BY <1>6, <1>8 DEF ValueShown
<1>. QED BY <1>2, <1>6, <1>7, <1>9

(* A panel whose row takes another value stays sound, and its rows stay     *)
(* where they are.                                                          *)
LEMMA WithValueGood ==
  ASSUME NEW p \in Panels, NEW m, NEW pos, IsItem(p.cache, m, pos, Kinds), NEW v \in Values
  PROVE  LET q == WithValue(p, m, pos, v) IN
         /\ q \in Panels /\ q.current = p.current /\ q.rows = p.rows /\ q.grip = p.grip
         /\ Grows(p.cache, q.cache)
         /\ ValueShown(p.cache, q.cache, FindMod(p.cache, m), pos, v)
<1>. DEFINE k == FindMod(p.cache, m)
            c == p.cache
            d == [c EXCEPT ![k].items[pos].value = v]
<1>1. c \in Seq(CachedMod) /\ k \in 1..Len(c) /\ pos \in 1..Len(c[k].items)
  BY DEF Panels, PanelRecord, IsItem
<1>2. WithValue(p, m, pos, v) = [p EXCEPT !.cache = d]
  BY DEF WithValue
<1>. HIDE DEF k
<1>3. d \in Seq(CachedMod) /\ Grows(c, d) /\ ValueShown(c, d, k, pos, v)
  BY <1>1, CacheWithValue
<1>. HIDE DEF d
<1>4. LET q == [p EXCEPT !.cache = d] IN
      /\ q \in Panels /\ q.cache = d /\ q.current = p.current
      /\ q.rows = p.rows /\ q.grip = p.grip
  BY <1>3, PanelGrown
<1>. QED BY <1>2, <1>3, <1>4 DEF k

(* The item behind a row, and what it reports. *)
LEMMA ItemThere ==
  ASSUME NEW p \in Panels, NEW m, NEW pos, NEW kinds, IsItem(p.cache, m, pos, kinds)
  PROVE  /\ FindMod(p.cache, m) \in 1..Len(p.cache)
         /\ p.cache[FindMod(p.cache, m)].id = m /\ m \in ModIds
         /\ pos \in 1..Len(p.cache[FindMod(p.cache, m)].items) /\ pos \in Nat
         /\ CachedItem(p, m, pos) = p.cache[FindMod(p.cache, m)].items[pos]
         /\ CachedItem(p, m, pos).kind \in kinds
         /\ CachedItem(p, m, pos) \in Row
<1>. DEFINE k == FindMod(p.cache, m)
<1>1. /\ p.cache \in Seq(CachedMod) /\ Len(p.cache) \in Nat
      /\ k \in 1..Len(p.cache) /\ pos \in 1..Len(p.cache[k].items)
      /\ p.cache[k].items[pos].kind \in kinds
  BY DEF Panels, PanelRecord, IsItem
<1>2. p.cache[k].id = m
  BY <1>1, FoundMod
<1>. HIDE DEF k
<1>3. p.cache[k] \in CachedMod
  BY <1>1
<1>4. p.cache[k].items \in Seq(Row) /\ p.cache[k].id \in ModIds
  BY <1>3 DEF CachedMod
<1>5. p.cache[k].items[pos] \in Row /\ pos \in Nat
  BY <1>1, <1>4
<1>6. CachedItem(p, m, pos) = p.cache[k].items[pos]
  BY DEF CachedItem, k
<1>. QED BY <1>1, <1>2, <1>4, <1>5, <1>6 DEF k

(* The panel with other holds. *)
LEMMA PanelWithGrip ==
  ASSUME NEW p \in PanelRecord, NEW grip \in [Grips -> Hold \cup {NoGrip}]
  PROVE  LET q == [p EXCEPT !.grip = grip] IN
         /\ q \in PanelRecord /\ q.cache = p.cache /\ q.current = p.current
         /\ q.rows = p.rows /\ q.grip = grip
BY DEF PanelRecord

(* A hold of a slider that is there, or none, keeps the panel sound. *)
LEMMA PanelHeld ==
  ASSUME NEW p \in Panels, NEW g \in Grips, NEW h \in Hold \cup {NoGrip},
         h # NoGrip => IsItem(p.cache, h.mod, h.pos, {"slider"})
  PROVE  LET q == [p EXCEPT !.grip[g] = h] IN
         /\ q \in Panels /\ q.cache = p.cache /\ q.current = p.current /\ q.rows = p.rows
<1>. DEFINE grip == [p.grip EXCEPT ![g] = h]
            q == [p EXCEPT !.grip = grip]
<1>1. p \in PanelRecord /\ p.grip \in [Grips -> Hold \cup {NoGrip}]
  BY DEF Panels, PanelRecord
<1>2. /\ grip \in [Grips -> Hold \cup {NoGrip}] /\ grip[g] = h
      /\ \A f \in Grips : f # g => grip[f] = p.grip[f]
  BY <1>1
<1>3. [p EXCEPT !.grip[g] = h] = q
  OBVIOUS
<1>. HIDE DEF grip
<1>4. /\ q \in PanelRecord /\ q.cache = p.cache /\ q.current = p.current
      /\ q.rows = p.rows /\ q.grip = grip
  BY <1>1, <1>2, PanelWithGrip
<1>. HIDE DEF q
<1>5. GripsThere(p.cache, grip)
  BY <1>2 DEF Panels, GripsThere
<1>6. q \in Panels
  BY <1>4, <1>5 DEF Panels
<1>. QED BY <1>3, <1>4, <1>6

(* Letting go keeps the panel sound and its cache unchanged. *)
LEMMA LetGoGood ==
  ASSUME NEW p \in Panels, NEW g \in Grips
  PROVE  LET q == LetGo(p, g) IN
         /\ q \in Panels /\ q.cache = p.cache /\ q.current = p.current /\ q.rows = p.rows
BY PanelHeld DEF LetGo

(* Taking hold of a slider that is there keeps the panel sound. *)
LEMMA TakeHoldGood ==
  ASSUME NEW p \in Panels, NEW g \in Grips, NEW pos,
         IsItem(p.cache, p.current, pos, {"slider"}), NEW v \in Values
  PROVE  LET q == TakeHold(p, g, pos, v) IN
         /\ q \in Panels
         /\ ValueShown(p.cache, q.cache, FindMod(p.cache, p.current), pos, v)
<1>. DEFINE m == p.current
            r == WithValue(p, m, pos, v)
            h == [mod |-> m, pos |-> pos, start |-> CachedItem(p, m, pos).value]
<1>1. IsItem(p.cache, m, pos, Kinds)
  BY DEF IsItem, Kinds
<1>2. m \in ModIds /\ pos \in Nat /\ CachedItem(p, m, pos) \in Row
  BY ItemThere
<1>3. h \in Hold /\ h.mod = m /\ h.pos = pos
  BY <1>2 DEF Hold, Row
<1>4. TakeHold(p, g, pos, v) = [r EXCEPT !.grip[g] = h]
  BY DEF TakeHold
<1>. HIDE DEF r, h
<1>5. /\ r \in Panels /\ Grows(p.cache, r.cache)
      /\ ValueShown(p.cache, r.cache, FindMod(p.cache, m), pos, v)
  BY <1>1, WithValueGood DEF r
<1>6. IsItem(r.cache, m, pos, {"slider"})
  BY <1>5, GrownHasItem DEF Panels, PanelRecord
<1>7. [r EXCEPT !.grip[g] = h] \in Panels /\ [r EXCEPT !.grip[g] = h].cache = r.cache
  BY <1>3, <1>5, <1>6, PanelHeld
<1>. QED BY <1>4, <1>5, <1>7

(* The search focus keeps the panel sound and its cache unchanged. *)
LEMMA SearchingGood ==
  ASSUME NEW p \in Panels, NEW b \in BOOLEAN
  PROVE  LET q == [p EXCEPT !.searching = b] IN q \in Panels /\ q.cache = p.cache
<1>. DEFINE q == [p EXCEPT !.searching = b]
<1>1. /\ q \in PanelRecord /\ q.cache = p.cache /\ q.current = p.current
      /\ q.rows = p.rows /\ q.grip = p.grip
  BY DEF Panels, PanelRecord
<1>. HIDE DEF q
<1>2. q \in Panels
  BY <1>1 DEF Panels
<1>. QED BY <1>1, <1>2 DEF q

(* A row the player can touch is an item of the mod the panel shows. *)
LEMMA RowThere ==
  ASSUME NEW p \in Panels, NEW kinds, NEW pos \in RowsOf(p, kinds)
  PROVE  IsItem(p.cache, p.current, pos, kinds)
<1>1. IsItem(p.cache, p.current, pos, Kinds) /\ CachedItem(p, p.current, pos).kind \in kinds
  BY DEF RowsOf, Panels, RowsThere
<1>. QED BY <1>1 DEF IsItem, CachedItem

-----------------------------------------------------------------------------
(* An edit stores a value by position. *)

(* The model q is ms with another value in place j of its k-th mod.         *)
ValueStored(ms, q, k, j, v) ==
  \A l \in 1..Len(ms) : \A i \in 1..Len(ms[l].items) :
    q[l].items[i].val = IF l = k /\ i = j THEN v ELSE ms[l].items[i].val

(* An item with another value. *)
LEMMA ItemWithValue ==
  ASSUME NEW item \in Item, NEW v \in Values
  PROVE  LET r == [item EXCEPT !.val = v] IN
         r \in Item /\ r.kind = item.kind /\ r.id = item.id /\ r.val = v
BY DEF Item

(* Storing a value by position keeps the model and its settings, and        *)
(* changes the value in that place.                                         *)
LEMMA StoredGood ==
  ASSUME NEW ms \in Models, NEW modIdx, NEW itemIdx,
         InRange(ms, modIdx, itemIdx), NEW v \in Values
  PROVE  LET q == Stored(ms, modIdx, itemIdx, v) IN
         /\ q \in Models /\ Alike(ms, q) /\ Declared(q) = Declared(ms)
         /\ ValueStored(ms, q, modIdx + 1, itemIdx + 1, v)
<1>. DEFINE k == modIdx + 1
            j == itemIdx + 1
            items == ms[k].items
            item == [items[j] EXCEPT !.val = v]
            more == [items EXCEPT ![j] = item]
            q == [ms EXCEPT ![k].items = more]
<1>1. /\ ms \in Seq(Mod) /\ Len(ms) \in Nat /\ DOMAIN ms = 1..Len(ms)
      /\ k \in 1..Len(ms) /\ j \in DOMAIN items
  BY DEF Models, InRange
<1>2. Stored(ms, modIdx, itemIdx, v) = q
  BY DEF Stored
<1>. HIDE DEF k, j
<1>3. items \in Seq(Item) /\ Len(items) \in Nat /\ j \in 1..Len(items) /\ items[j] \in Item
  <2>1. ms[k] \in Mod
    BY <1>1
  <2>2. items \in Seq(Item)
    BY <2>1 DEF Mod
  <2>. HIDE DEF items
  <2>. QED BY <1>1, <2>2
<1>. HIDE DEF items
<1>4. item \in Item /\ item.kind = items[j].kind /\ item.id = items[j].id /\ item.val = v
  BY <1>3, ItemWithValue
<1>. HIDE DEF item
<1>5. /\ more \in Seq(Item) /\ Len(more) = Len(items) /\ more[j] = item
      /\ \A i \in 1..Len(items) : i # j => more[i] = items[i]
  BY <1>3, <1>4
<1>. HIDE DEF more
<1>6. /\ q \in Seq(Mod) /\ Len(q) = Len(ms)
      /\ \A l \in 1..Len(ms) : q[l].id = ms[l].id
      /\ q[k].items = more
      /\ \A l \in 1..Len(ms) : l # k => q[l] = ms[l]
  BY <1>1, <1>5, ItemsReplaced
<1>. HIDE DEF q
<1>7. ASSUME NEW l \in 1..Len(ms)
      PROVE  /\ Len(ms[l].items) = Len(q[l].items)
             /\ \A i \in 1..Len(ms[l].items) :
                  /\ ms[l].items[i].kind = q[l].items[i].kind
                  /\ ms[l].items[i].id = q[l].items[i].id
                  /\ q[l].items[i].val = IF l = k /\ i = j THEN v ELSE ms[l].items[i].val
  <2>1. CASE l = k
    <3>1. ASSUME NEW i \in 1..Len(items)
          PROVE  /\ items[i].kind = more[i].kind /\ items[i].id = more[i].id
                 /\ more[i].val = IF i = j THEN v ELSE items[i].val
      BY <1>4, <1>5
    <3>. QED BY <1>5, <1>6, <2>1, <3>1 DEF items
  <2>2. CASE l # k
    BY <1>6, <2>2
  <2>. QED BY <2>1, <2>2
<1>8. Alike(ms, q)
  BY <1>6, <1>7 DEF Alike
<1>9. ValueStored(ms, q, k, j, v)
  BY <1>7 DEF ValueStored
<1>10. q \in Models /\ Declared(q) = Declared(ms)
  BY <1>6, <1>8, AlikeModels
<1>. QED BY <1>2, <1>8, <1>9, <1>10 DEF k, j

(* An edit changes the setting that stands in its place, and no other.      *)
LEMMA EditGood ==
  ASSUME NEW ms \in Models, NEW modIdx, NEW itemIdx,
         InRange(ms, modIdx, itemIdx), NEW v \in Values
  PROVE  LET q == Stored(ms, modIdx, itemIdx, v)
             s == SettingAt(ms, <<modIdx + 1, itemIdx + 1>>) IN
         /\ s \in Declared(ms)
         /\ ItemOf(q, s).val = v
         /\ \A t \in Declared(ms) : t # s => ItemOf(q, t).val = ItemOf(ms, t).val
<1>. DEFINE q == Stored(ms, modIdx, itemIdx, v)
            k == modIdx + 1
            j == itemIdx + 1
            s == <<ms[k].id, ms[k].items[j].id>>
<1>1. q \in Models /\ Alike(ms, q) /\ ValueStored(ms, q, k, j, v)
  BY StoredGood
<1>2. k \in DOMAIN ms /\ j \in DOMAIN ms[k].items /\ ms[k].items[j].kind # "cat"
  BY DEF InRange
<1>3. s = SettingAt(ms, <<modIdx + 1, itemIdx + 1>>)
  BY DEF SettingAt
<1>. HIDE DEF q, k, j
<1>4. s \in Declared(ms)
  BY <1>2, DeclaredPlaces
<1>5. ASSUME NEW l \in DOMAIN ms, NEW i \in DOMAIN ms[l].items, ms[l].items[i].kind # "cat"
      PROVE  LET t == <<ms[l].id, ms[l].items[i].id>> IN
             /\ ItemOf(ms, t) = ms[l].items[i]
             /\ ItemOf(q, t).val = IF l = k /\ i = j THEN v ELSE ms[l].items[i].val
  <2>1. /\ l \in 1..Len(ms) /\ l \in DOMAIN q
        /\ i \in 1..Len(ms[l].items) /\ i \in DOMAIN q[l].items
    <3>1. ms[l] \in Mod /\ l \in 1..Len(ms) /\ Len(ms) = Len(q)
      BY <1>1 DEF Models, Alike
    <3>2. q[l] \in Mod /\ l \in DOMAIN q
      BY <1>1, <3>1 DEF Models
    <3>3. ms[l].items \in Seq(Item) /\ q[l].items \in Seq(Item)
      BY <3>1, <3>2 DEF Mod
    <3>4. Len(ms[l].items) = Len(q[l].items)
      BY <1>1, <3>1 DEF Alike
    <3>. QED BY <3>1, <3>2, <3>3, <3>4
  <2>2. /\ q[l].id = ms[l].id /\ q[l].items[i].kind = ms[l].items[i].kind
        /\ q[l].items[i].id = ms[l].items[i].id
    BY <1>1, <2>1 DEF Alike
  <2>3. ItemOf(q, <<q[l].id, q[l].items[i].id>>) = q[l].items[i]
    BY <1>1, <1>5, <2>1, <2>2, PlaceOfSetting
  <2>4. q[l].items[i].val = IF l = k /\ i = j THEN v ELSE ms[l].items[i].val
    BY <1>1, <2>1 DEF ValueStored
  <2>5. ItemOf(ms, <<ms[l].id, ms[l].items[i].id>>) = ms[l].items[i]
    BY <1>5, PlaceOfSetting
  <2>. QED BY <2>2, <2>3, <2>4, <2>5
<1>6. ItemOf(q, s).val = v
  BY <1>2, <1>5
<1>7. ASSUME NEW t \in Declared(ms), t # s PROVE ItemOf(q, t).val = ItemOf(ms, t).val
  <2>1. PICK l \in DOMAIN ms : \E i \in DOMAIN ms[l].items :
             ms[l].items[i].kind # "cat" /\ t = <<ms[l].id, ms[l].items[i].id>>
    BY DeclaredPlaces
  <2>2. PICK i \in DOMAIN ms[l].items :
             ms[l].items[i].kind # "cat" /\ t = <<ms[l].id, ms[l].items[i].id>>
    BY <2>1
  <2>3. ~(l = k /\ i = j)
    BY <1>7, <2>2
  <2>. QED BY <1>5, <2>2, <2>3
<1>. QED BY <1>3, <1>4, <1>6, <1>7 DEF q

-----------------------------------------------------------------------------
(* A mirrored model stays mirrored through gestures and edits. *)

(* The toggles of q have the values of ms, but for v in one place.          *)
TogglesOf(ms, q, k, pos, v) ==
  \A l \in 1..Len(ms) : \A j \in 1..Len(ms[l].items) :
    ms[l].items[j].kind = "toggle" =>
      q[l].items[j].val = IF l = k /\ j = pos THEN v ELSE ms[l].items[j].val

(* A value that is shown and stored in the same place keeps the mirror; a   *)
(* slider's need not be stored.                                             *)
LEMMA MirrorsKept ==
  ASSUME NEW c, NEW d, NEW ms, NEW q, Mirrors(c, ms), Alike(ms, q),
         NEW k, NEW pos, NEW v, ValueShown(c, d, k, pos, v), TogglesOf(ms, q, k, pos, v)
  PROVE  Mirrors(d, q)
<1>1. Len(d) = Len(q) /\ Len(c) = Len(ms) /\ Len(q) = Len(ms)
  BY DEF Mirrors, Filled, ValueShown, Alike
<1>2. ASSUME NEW l \in 1..Len(q)
      PROVE  MirrorsMod(d[l], q[l], l, Len(q[l].items))
  <2>1. l \in 1..Len(ms) /\ l \in 1..Len(c)
    BY <1>1
  <2>2. /\ c[l].id = ms[l].id /\ c[l].idx = l - 1 /\ Len(c[l].items) = Len(ms[l].items)
        /\ \A j \in 1..Len(ms[l].items) : MirrorsItem(c[l].items[j], ms[l].items[j], j)
    BY <2>1 DEF Mirrors, Filled, MirrorsMods, MirrorsMod
  <2>3. /\ ms[l].id = q[l].id /\ Len(ms[l].items) = Len(q[l].items)
        /\ \A j \in 1..Len(ms[l].items) :
             ms[l].items[j].kind = q[l].items[j].kind /\ ms[l].items[j].id = q[l].items[j].id
    BY <2>1 DEF Alike
  <2>4. /\ d[l].id = c[l].id /\ d[l].idx = c[l].idx
        /\ Len(d[l].items) = Len(c[l].items)
        /\ \A j \in 1..Len(c[l].items) :
             /\ d[l].items[j].kind = c[l].items[j].kind
             /\ d[l].items[j].id = c[l].items[j].id
             /\ d[l].items[j].idx = c[l].items[j].idx
             /\ d[l].items[j].value = IF l = k /\ j = pos THEN v ELSE c[l].items[j].value
    BY <2>1 DEF ValueShown
  <2>5. ASSUME NEW j \in 1..Len(q[l].items)
        PROVE  MirrorsItem(d[l].items[j], q[l].items[j], j)
    <3>1. j \in 1..Len(ms[l].items) /\ j \in 1..Len(c[l].items)
      BY <2>2, <2>3
    <3>2. MirrorsItem(c[l].items[j], ms[l].items[j], j)
      BY <2>2, <3>1
    <3>3. /\ d[l].items[j].kind = c[l].items[j].kind
          /\ d[l].items[j].id = c[l].items[j].id
          /\ d[l].items[j].idx = c[l].items[j].idx
          /\ d[l].items[j].value = IF l = k /\ j = pos THEN v ELSE c[l].items[j].value
      BY <2>4, <3>1
    <3>4. ms[l].items[j].kind = q[l].items[j].kind /\ ms[l].items[j].id = q[l].items[j].id
      BY <2>3, <3>1
    <3>5. ms[l].items[j].kind = "toggle" =>
            q[l].items[j].val = IF l = k /\ j = pos THEN v ELSE ms[l].items[j].val
      BY <2>1, <3>1 DEF TogglesOf
    <3>. QED BY <3>2, <3>3, <3>4, <3>5 DEF MirrorsItem
  <2>. QED BY <2>2, <2>3, <2>4, <2>5 DEF MirrorsMod
<1>. QED BY <1>1, <1>2 DEF Mirrors, Filled, MirrorsMods

(* A model differs from itself in values at most. *)
LEMMA AlikeItself ==
  ASSUME NEW ms
  PROVE  Alike(ms, ms)
BY DEF Alike

(* The place a row reports under a complete push. *)
ReportsPlace(ms, p, m, pos) ==
  LET k == FindMod(p.cache, m)
      item == CachedItem(p, m, pos) IN
  /\ k \in 1..Len(ms) /\ pos \in 1..Len(ms[k].items)
  /\ ms[k].items[pos].kind = item.kind
  /\ ModIdxOf(p, m) + 1 = k /\ item.idx + 1 = pos
  /\ InRange(ms, ModIdxOf(p, m), item.idx)
  /\ SettingAt(ms, <<ModIdxOf(p, m) + 1, item.idx + 1>>) = <<m, item.id>>

(* Under a complete push a row reports the place of its own setting in the  *)
(* model.                                                                   *)
LEMMA PlaceMirrored ==
  ASSUME NEW ms \in Models, NEW p \in Panels, Mirrors(p.cache, ms),
         NEW m, NEW pos, NEW kinds, IsItem(p.cache, m, pos, kinds), "cat" \notin kinds
  PROVE  ReportsPlace(ms, p, m, pos)
<1>. DEFINE k == FindMod(p.cache, m)
            item == CachedItem(p, m, pos)
<1>1. /\ k \in 1..Len(p.cache) /\ p.cache[k].id = m
      /\ pos \in 1..Len(p.cache[k].items) /\ pos \in Nat
      /\ item = p.cache[k].items[pos] /\ item.kind \in kinds
  BY ItemThere
<1>2. ModIdxOf(p, m) = p.cache[k].idx
  BY DEF ModIdxOf
<1>. HIDE DEF k, item
<1>3. /\ ms \in Seq(Mod) /\ Len(ms) \in Nat /\ DOMAIN ms = 1..Len(ms)
      /\ k \in 1..Len(ms) /\ k \in Nat
  BY <1>1 DEF Mirrors, Filled, Models
<1>4. MirrorsMod(p.cache[k], ms[k], k, Len(ms[k].items))
  BY <1>3 DEF Mirrors, Filled, MirrorsMods
<1>5. DOMAIN ms[k].items = 1..Len(ms[k].items)
  <2>1. ms[k] \in Mod
    BY <1>3
  <2>2. ms[k].items \in Seq(Item)
    BY <2>1 DEF Mod
  <2>. QED BY <2>2
<1>6. /\ ms[k].id = m /\ p.cache[k].idx = k - 1 /\ pos \in 1..Len(ms[k].items)
  BY <1>1, <1>4 DEF MirrorsMod
<1>7. MirrorsItem(item, ms[k].items[pos], pos)
  BY <1>1, <1>4, <1>6 DEF MirrorsMod
<1>8. /\ item.kind = ms[k].items[pos].kind /\ item.id = ms[k].items[pos].id
      /\ item.idx = pos - 1
  BY <1>7 DEF MirrorsItem
<1>9. ModIdxOf(p, m) + 1 = k /\ item.idx + 1 = pos
  BY <1>1, <1>2, <1>3, <1>6, <1>8
<1>10. InRange(ms, ModIdxOf(p, m), item.idx)
  BY <1>1, <1>3, <1>5, <1>6, <1>8, <1>9 DEF InRange
<1>11. SettingAt(ms, <<ModIdxOf(p, m) + 1, item.idx + 1>>) = <<m, item.id>>
  BY <1>6, <1>8, <1>9 DEF SettingAt
<1>. QED BY <1>3, <1>6, <1>8, <1>9, <1>10, <1>11 DEF k, item, ReportsPlace

(* What a row reports does not change with the value it shows.              *)
SameReport(p, q, m, pos, v) ==
  /\ ModIdxOf(q, m) = ModIdxOf(p, m)
  /\ CachedItem(q, m, pos).idx = CachedItem(p, m, pos).idx
  /\ CachedItem(q, m, pos).id = CachedItem(p, m, pos).id
  /\ CachedItem(q, m, pos).value = v

(* A row that takes another value reports the place it reported before. *)
LEMMA ShownReports ==
  ASSUME NEW p \in Panels, NEW m, NEW pos, IsItem(p.cache, m, pos, Kinds),
         NEW q \in Panels, NEW v, Grows(p.cache, q.cache),
         ValueShown(p.cache, q.cache, FindMod(p.cache, m), pos, v)
  PROVE  SameReport(p, q, m, pos, v)
<1>. DEFINE k == FindMod(p.cache, m)
<1>1. /\ p.cache \in Seq(CachedMod) /\ q.cache \in Seq(CachedMod)
      /\ Len(p.cache) \in Nat /\ Len(q.cache) \in Nat
  BY DEF Panels, PanelRecord
<1>2. k \in 1..Len(p.cache) /\ k # 0 /\ pos \in 1..Len(p.cache[k].items)
  BY <1>1 DEF IsItem
<1>3. FindMod(q.cache, m) = k
  BY <1>1, <1>2, GrownFinds
<1>4. /\ q.cache[k].idx = p.cache[k].idx
      /\ q.cache[k].items[pos].idx = p.cache[k].items[pos].idx
      /\ q.cache[k].items[pos].id = p.cache[k].items[pos].id
      /\ q.cache[k].items[pos].value = v
  <2>. HIDE DEF k
  <2>. QED BY <1>2 DEF ValueShown, k
<1>. HIDE DEF k
<1>5. CachedItem(q, m, pos) = q.cache[k].items[pos] /\ CachedItem(p, m, pos) = p.cache[k].items[pos]
  BY <1>3 DEF CachedItem, k
<1>6. ModIdxOf(q, m) = q.cache[k].idx /\ ModIdxOf(p, m) = p.cache[k].idx
  BY <1>3 DEF ModIdxOf, k
<1>. QED BY <1>4, <1>5, <1>6 DEF SameReport

(* A slider shows another value. *)
LEMMA SliderShown ==
  ASSUME NEW ms \in Models, NEW p \in Panels, Mirrors(p.cache, ms),
         NEW m, NEW pos, IsItem(p.cache, m, pos, {"slider"}),
         NEW d, NEW v, ValueShown(p.cache, d, FindMod(p.cache, m), pos, v)
  PROVE  Mirrors(d, ms)
<1>. DEFINE k == FindMod(p.cache, m)
<1>1. ms[k].items[pos].kind = "slider"
  <2>1. ReportsPlace(ms, p, m, pos)
    BY PlaceMirrored
  <2>2. CachedItem(p, m, pos).kind = "slider"
    BY DEF IsItem, CachedItem
  <2>. QED BY <2>1, <2>2 DEF ReportsPlace
<1>2. ValueShown(p.cache, d, k, pos, v)
  OBVIOUS
<1>. HIDE DEF k
<1>3. TogglesOf(ms, ms, k, pos, v)
  BY <1>1 DEF TogglesOf
<1>4. Alike(ms, ms)
  BY AlikeItself
<1>. QED BY <1>2, <1>3, <1>4, MirrorsKept

(* A slider's value is stored. *)
LEMMA SliderStored ==
  ASSUME NEW ms \in Models, NEW p \in Panels, Mirrors(p.cache, ms),
         NEW m, NEW pos, IsItem(p.cache, m, pos, {"slider"}),
         NEW d, Mirrors(d, ms), NEW v \in Values
  PROVE  Mirrors(d, Stored(ms, ModIdxOf(p, m), CachedItem(p, m, pos).idx, v))
<1>. DEFINE k == FindMod(p.cache, m)
            q == Stored(ms, ModIdxOf(p, m), CachedItem(p, m, pos).idx, v)
<1>1. /\ ms[k].items[pos].kind = "slider"
      /\ ModIdxOf(p, m) + 1 = k /\ CachedItem(p, m, pos).idx + 1 = pos
      /\ InRange(ms, ModIdxOf(p, m), CachedItem(p, m, pos).idx)
  <2>1. ReportsPlace(ms, p, m, pos)
    BY PlaceMirrored
  <2>2. CachedItem(p, m, pos).kind = "slider"
    BY DEF IsItem, CachedItem
  <2>. QED BY <2>1, <2>2 DEF ReportsPlace
<1>2. Alike(ms, q) /\ ValueStored(ms, q, k, pos, v)
  BY <1>1, StoredGood
<1>. HIDE DEF k, q
<1>3. \A l \in 1..Len(ms) : \A j \in 1..Len(ms[l].items) :
        ms[l].items[j].kind = "toggle" => q[l].items[j].val = ms[l].items[j].val
  BY <1>1, <1>2 DEF ValueStored
<1>4. Mirrors(d, q)
  <2>1. ValueShown(d, d, 0, 0, 0)
    <3>1. \A l \in 1..Len(d) : l # 0
      OBVIOUS
    <3>. QED BY <3>1 DEF ValueShown
  <2>2. TogglesOf(ms, q, 0, 0, 0)
    <3>1. \A l \in 1..Len(ms) : l # 0
      OBVIOUS
    <3>. QED BY <1>3, <3>1 DEF TogglesOf
  <2>. QED BY <1>2, <2>1, <2>2, MirrorsKept
<1>. QED BY <1>4 DEF q

(* A row shows a value and has it stored. *)
LEMMA ShownAndStored ==
  ASSUME NEW ms \in Models, NEW p \in Panels, Mirrors(p.cache, ms),
         NEW m, NEW pos, NEW kinds, IsItem(p.cache, m, pos, kinds), "cat" \notin kinds,
         NEW d, NEW v \in Values, ValueShown(p.cache, d, FindMod(p.cache, m), pos, v)
  PROVE  Mirrors(d, Stored(ms, ModIdxOf(p, m), CachedItem(p, m, pos).idx, v))
<1>. DEFINE k == FindMod(p.cache, m)
            q == Stored(ms, ModIdxOf(p, m), CachedItem(p, m, pos).idx, v)
<1>1. /\ ModIdxOf(p, m) + 1 = k /\ CachedItem(p, m, pos).idx + 1 = pos
      /\ InRange(ms, ModIdxOf(p, m), CachedItem(p, m, pos).idx)
  <2>1. ReportsPlace(ms, p, m, pos)
    BY PlaceMirrored
  <2>. QED BY <2>1 DEF ReportsPlace
<1>2. Alike(ms, q) /\ ValueStored(ms, q, k, pos, v)
  BY <1>1, StoredGood
<1>3. ValueShown(p.cache, d, k, pos, v)
  OBVIOUS
<1>. HIDE DEF k, q
<1>4. Mirrors(d, q)
  <2>1. TogglesOf(ms, q, k, pos, v)
    BY <1>2 DEF ValueStored, TogglesOf
  <2>. QED BY <1>2, <1>3, <2>1, MirrorsKept
<1>. QED BY <1>4 DEF q

-----------------------------------------------------------------------------
(* There are finitely many calls and places. *)

Cells(N, f) == UNION {{<<k, j>> : j \in 0..f[k]} : k \in 1..N}

(* Finitely many mods of finitely many cells each have finitely many        *)
(* cells.                                                                   *)
LEMMA CellsFinite ==
  ASSUME NEW N \in Nat, NEW f, \A k \in 1..N : f[k] \in Nat
  PROVE  IsFiniteSet(Cells(N, f))
<1>. DEFINE T(k) == {<<k, j>> : j \in 0..f[k]}
            S == {T(k) : k \in 1..N}
<1>1. ASSUME NEW k \in 1..N PROVE IsFiniteSet(T(k))
  <2>. DEFINE g == [j \in 0..f[k] |-> <<k, j>>]
  <2>1. g \in Surjection(0..f[k], T(k))
    BY DEF Surjection
  <2>2. IsFiniteSet(0..f[k])
    <3>1. f[k] \in Int
      OBVIOUS
    <3>. QED BY <3>1, FS_Interval
  <2>. HIDE DEF g, T
  <2>. QED BY <2>1, <2>2, FS_Surjection
<1>2. IsFiniteSet(S)
  <2>. DEFINE g == [k \in 1..N |-> T(k)]
  <2>. HIDE DEF T
  <2>1. g \in Surjection(1..N, S)
    BY DEF Surjection
  <2>2. IsFiniteSet(1..N)
    BY FS_Interval
  <2>. HIDE DEF g, S
  <2>. QED BY <2>1, <2>2, FS_Surjection
<1>3. \A X \in S : IsFiniteSet(X)
  <2>. HIDE DEF T
  <2>. QED BY <1>1
<1>4. IsFiniteSet(UNION S)
  <2>. HIDE DEF S
  <2>. QED BY <1>2, <1>3, FS_UNION
<1>. QED BY <1>4 DEF Cells

(* The places of items, and one more for each mod. *)
Grid(ms) == UNION {{<<k, j>> : j \in 0..Len(ms[k].items)} : k \in DOMAIN ms}

(* The places of a model are finitely many. *)
LEMMA ModelGridFinite ==
  ASSUME NEW ms \in Models
  PROVE  IsFiniteSet(Grid(ms))
<1>. DEFINE f == [k \in 1..Len(ms) |-> Len(ms[k].items)]
<1>1. /\ Len(ms) \in Nat /\ DOMAIN ms = 1..Len(ms)
      /\ \A k \in 1..Len(ms) : Len(ms[k].items) \in Nat
  <2>1. ASSUME NEW k \in 1..Len(ms) PROVE Len(ms[k].items) \in Nat
    <3>1. ms[k] \in Mod
      BY DEF Models
    <3>2. ms[k].items \in Seq(Item)
      BY <3>1 DEF Mod
    <3>. QED BY <3>2
  <2>. QED BY <2>1 DEF Models
<1>2. \A k \in 1..Len(ms) : f[k] = Len(ms[k].items)
  OBVIOUS
<1>. HIDE DEF f
<1>3. IsFiniteSet(Cells(Len(ms), f))
  <2>1. \A k \in 1..Len(ms) : f[k] \in Nat
    BY <1>1, <1>2
  <2>. QED BY <1>1, <2>1, CellsFinite
<1>4. Grid(ms) = Cells(Len(ms), f)
  BY <1>1, <1>2 DEF Grid, Cells
<1>. QED BY <1>3, <1>4

(* A push makes finitely many calls, so the failures among them can be      *)
(* counted.                                                                 *)
LEMMA PushCallsFinite ==
  ASSUME NEW ms \in Models
  PROVE  IsFiniteSet(PushCalls(ms))
<1>1. PushCalls(ms) = (Grid(ms) \cup {BeginCall}) \cup {ShowCall(ms)}
  BY DEF PushCalls, Grid
<1>2. IsFiniteSet(Grid(ms) \cup {BeginCall})
  BY ModelGridFinite, FS_AddElement
<1>. HIDE DEF BeginCall
<1>3. IsFiniteSet((Grid(ms) \cup {BeginCall}) \cup {ShowCall(ms)})
  BY <1>2, FS_AddElement
<1>. QED BY <1>1, <1>3

(* The calls that fail keep to the budget of failures. *)
LEMMA FailuresBounded ==
  ASSUME NEW ms \in Models, failures \in 0..MaxFailures,
         NEW failed \in MayFail(PushCalls(ms))
  PROVE  failures + Cardinality(failed) \in 0..MaxFailures
<1>1. failed \in SUBSET PushCalls(ms) /\ Cardinality(failed) <= MaxFailures - failures
  BY DEF MayFail
<1>2. IsFiniteSet(failed)
  BY <1>1, PushCallsFinite, FS_Subset
<1>3. Cardinality(failed) \in Nat
  BY <1>2, FS_CardinalityType
<1>. QED BY <1>1, <1>3, McmAssumption

(* A model has as many places of settings as settings: it holds each of     *)
(* them once.                                                               *)
LEMMA PlacesOnce ==
  ASSUME NEW ms \in Models
  PROVE  Cardinality(Places(ms)) = Cardinality(Declared(ms))
<1>. DEFINE f == [x \in Places(ms) |-> SettingAt(ms, x)]
<1>1. IsFiniteSet(Places(ms))
  <2>1. ASSUME NEW x \in Places(ms) PROVE x \in Grid(ms)
    <3>1. PICK k \in DOMAIN ms :
            x \in {<<k, j>> : j \in {n \in DOMAIN ms[k].items : ms[k].items[n].kind # "cat"}}
      BY DEF Places
    <3>2. PICK j \in DOMAIN ms[k].items : x = <<k, j>>
      BY <3>1
    <3>3. j \in 0..Len(ms[k].items)
      <4>1. ms[k] \in Mod
        BY DEF Models
      <4>2. ms[k].items \in Seq(Item)
        BY <4>1 DEF Mod
      <4>. QED BY <4>2
    <3>. QED BY <3>2, <3>3 DEF Grid
  <2>2. Places(ms) \in SUBSET Grid(ms)
    BY <2>1
  <2>. QED BY <2>2, ModelGridFinite, FS_Subset
<1>2. f \in Surjection(Places(ms), Declared(ms))
  BY DEF Surjection, Declared
<1>3. ASSUME NEW x \in Places(ms), NEW y \in Places(ms), SettingAt(ms, x) = SettingAt(ms, y)
      PROVE  x = y
  <2>1. ASSUME NEW z \in Places(ms)
        PROVE  LET k == FindMod(ms, SettingAt(ms, z)[1]) IN
               z = <<k, FindItem(ms[k].items, SettingAt(ms, z)[2])>>
    <3>1. PICK k \in DOMAIN ms :
            z \in {<<k, j>> : j \in {n \in DOMAIN ms[k].items : ms[k].items[n].kind # "cat"}}
      BY DEF Places
    <3>2. PICK j \in DOMAIN ms[k].items : ms[k].items[j].kind # "cat" /\ z = <<k, j>>
      BY <3>1
    <3>3. SettingAt(ms, z)[1] = ms[k].id /\ SettingAt(ms, z)[2] = ms[k].items[j].id
      BY <3>2 DEF SettingAt
    <3>4. FindMod(ms, ms[k].id) = k /\ FindItem(ms[k].items, ms[k].items[j].id) = j
      BY <3>2, PlaceOfSetting
    <3>. QED BY <3>2, <3>3, <3>4
  <2>2. /\ LET k == FindMod(ms, SettingAt(ms, x)[1]) IN
           x = <<k, FindItem(ms[k].items, SettingAt(ms, x)[2])>>
        /\ LET k == FindMod(ms, SettingAt(ms, x)[1]) IN
           y = <<k, FindItem(ms[k].items, SettingAt(ms, x)[2])>>
    BY <1>3, <2>1
  <2>. QED BY <2>2
<1>4. f \in Injection(Places(ms), Declared(ms))
  <2>1. f \in [Places(ms) -> Declared(ms)]
    BY DEF Declared
  <2>. QED BY <1>3, <2>1 DEF Injection, IsInjective
<1>5. ExistsBijection(Places(ms), Declared(ms))
  BY <1>2, <1>4 DEF ExistsBijection, Bijection
<1>. QED BY <1>1, <1>5, FS_Bijection

-----------------------------------------------------------------------------
(* The inductive invariant.  The panel is sound at any time: its rows and   *)
(* held sliders are items of the cache.  After a complete push the cache    *)
(* mirrors the model, place by place.  And what the mods were told is what  *)
(* the model holds, except where a rebuild left a setting out.              *)

Counts ==
  /\ mcmOpen \in BOOLEAN /\ complete \in BOOLEAN
  /\ retries \in Seq(1..3) /\ Len(retries) <= opens
  /\ opens \in 0..MaxOpens /\ failures \in 0..MaxFailures

Told ==
  /\ applied \in [Settings -> Values \cup {Unset}]
  /\ \A s \in Owned : applied[s] # Unset
  /\ missed \subseteq Settings

(* A setting some mod was told of stands in the model. *)
Known == \A s \in Settings \ (Owned \cup missed) : applied[s] # Unset => s \in Declared(mods)

McmInv ==
  /\ mods \in Models /\ panel \in Panels
  /\ Counts /\ Told
  /\ MenuAgreesWithMods /\ Known
  /\ complete => Mirrors(panel.cache, mods)

(* The model before the first opening. *)
LEMMA EmptyModel == << >> \in Models /\ Declared(<< >>) = {}
<1>1. << >> \in Models
  BY DEF Models, ModsOnce
<1>2. Declared(<< >>) = {}
  BY DEF Declared, Places
<1>. QED BY <1>1, <1>2

(* The invariant holds before the first opening. *)
LEMMA InvInit == Init => McmInv
<1>. SUFFICES ASSUME Init PROVE McmInv
  OBVIOUS
<1>1. mods \in Models /\ Declared(mods) = {} /\ panel \in Panels
  BY EmptyModel, EmptyPanelGood DEF Init
<1>2. Counts
  <2>1. << >> \in Seq(1..3) /\ Len(<< >>) = 0
    OBVIOUS
  <2>2. retries \in Seq(1..3) /\ Len(retries) = 0
    BY <2>1 DEF Init
  <2>3. opens \in 0..MaxOpens /\ failures \in 0..MaxFailures /\ opens = 0
    BY McmAssumption DEF Init
  <2>4. mcmOpen \in BOOLEAN /\ complete \in BOOLEAN
    BY DEF Init
  <2>. QED BY <2>2, <2>3, <2>4 DEF Counts
<1>3. Told
  BY McmAssumption DEF Init, Told
<1>4. MenuAgreesWithMods
  BY <1>1 DEF MenuAgreesWithMods
<1>5. Known
  BY DEF Init, Known
<1>6. Mirrors(panel.cache, mods)
  <2>1. panel.cache = << >> /\ mods = << >>
    BY DEF Init, EmptyPanel
  <2>. QED BY <2>1 DEF Mirrors, Filled, MirrorsMods
<1>. QED BY <1>1, <1>2, <1>3, <1>4, <1>5, <1>6 DEF McmInv

(* A push, the first or a retry. *)
LEMMA PushStep ==
  ASSUME McmInv, NEW ms \in Models, NEW n \in 0..3, NEW queue \in Seq(1..3),
         PushAllTask(ms, n, queue)
  PROVE  /\ panel' \in Panels /\ complete' \in BOOLEAN
         /\ failures' \in 0..MaxFailures
         /\ retries' \in Seq(1..3) /\ Len(retries') <= Len(queue) + 1
         /\ complete' => Mirrors(panel'.cache, ms)
<1>1. PICK failed \in MayFail(PushCalls(ms)) :
        /\ failures' = failures + Cardinality(failed)
        /\ complete' = (failed = {})
        /\ retries' = IF failed # {} /\ n < 3 THEN Append(queue, n + 1) ELSE queue
        /\ panel' \in Pushed(panel, ms, failed)
  BY DEF PushAllTask
<1>2. panel' \in Panels /\ (failed = {} => Mirrors(panel'.cache, ms))
  BY <1>1, PushedGood DEF McmInv
<1>3. failures' \in 0..MaxFailures
  BY <1>1, FailuresBounded DEF McmInv, Counts
<1>4. retries' \in Seq(1..3) /\ Len(retries') <= Len(queue) + 1
  <2>1. Len(queue) \in Nat
    OBVIOUS
  <2>2. CASE failed # {} /\ n < 3
    <3>1. n + 1 \in 1..3
      BY <2>2
    <3>2. Append(queue, n + 1) \in Seq(1..3) /\ Len(Append(queue, n + 1)) = Len(queue) + 1
      BY <3>1
    <3>. QED BY <1>1, <2>1, <2>2, <3>2
  <2>3. CASE ~(failed # {} /\ n < 3)
    BY <1>1, <2>1, <2>3
  <2>. QED BY <2>2, <2>3
<1>5. complete' \in BOOLEAN /\ (complete' => failed = {})
  BY <1>1
<1>. QED BY <1>2, <1>3, <1>4, <1>5

(* What an edit does to the model and to what the mods know.                *)
LEMMA EditStep ==
  ASSUME McmInv, NEW modIdx, NEW itemIdx, NEW v \in Values,
         HandleValueChanged(modIdx, itemIdx, v)
  PROVE  /\ mods' \in Models /\ Told'
         /\ Known' /\ MenuAgreesWithMods'
         /\ InRange(mods, modIdx, itemIdx) => mods' = Stored(mods, modIdx, itemIdx, v)
<1>1. CASE ~InRange(mods, modIdx, itemIdx)
  <2>1. UNCHANGED <<mods, applied, missed>>
    BY <1>1 DEF HandleValueChanged
  <2>. QED BY <1>1, <2>1 DEF McmInv, Told, Known, MenuAgreesWithMods
<1>2. CASE InRange(mods, modIdx, itemIdx)
  <2>. DEFINE s == SettingAt(mods, <<modIdx + 1, itemIdx + 1>>)
  <2>1. /\ mods' = Stored(mods, modIdx, itemIdx, v)
        /\ applied' = [applied EXCEPT ![s] = v]
        /\ missed' = missed \ {s}
    BY <1>2 DEF HandleValueChanged
  <2>2. mods' \in Models /\ Declared(mods') = Declared(mods)
    BY <1>2, <2>1, StoredGood DEF McmInv
  <2>3. /\ s \in Declared(mods) /\ ItemOf(mods', s).val = v
        /\ \A t \in Declared(mods) : t # s => ItemOf(mods', t).val = ItemOf(mods, t).val
    BY <1>2, <2>1, EditGood DEF McmInv
  <2>. HIDE DEF s
  <2>4. s \in Settings
    BY <2>3, DeclaredTyped DEF McmInv
  <2>5. /\ applied'[s] = v
        /\ \A t \in Settings : t # s => applied'[t] = applied[t]
        /\ applied' \in [Settings -> Values \cup {Unset}]
    BY <2>1, <2>4 DEF McmInv, Told
  <2>6. Told'
    BY <2>1, <2>5, McmAssumption DEF McmInv, Told
  <2>7. Known'
    <3>. SUFFICES ASSUME NEW t \in Settings \ (Owned \cup missed'), applied'[t] # Unset
                  PROVE  t \in Declared(mods')
      BY DEF Known
    <3>1. CASE t = s
      BY <2>2, <2>3, <3>1
    <3>2. CASE t # s
      BY <2>1, <2>2, <2>5, <3>2 DEF McmInv, Known
    <3>. QED BY <3>1, <3>2
  <2>8. MenuAgreesWithMods'
    <3>. SUFFICES ASSUME NEW t \in Declared(mods') \ (Owned \cup missed')
                  PROVE  ItemOf(mods', t).val = applied'[t]
      BY DEF MenuAgreesWithMods
    <3>1. CASE t = s
      BY <2>3, <2>5, <3>1
    <3>2. CASE t # s
      <4>1. t \in Declared(mods) \ (Owned \cup missed) /\ t \in Settings
        BY <2>1, <2>2, <3>2, DeclaredTyped DEF McmInv
      <4>. QED BY <2>2, <2>3, <2>5, <3>2, <4>1 DEF McmInv, MenuAgreesWithMods
    <3>. QED BY <3>1, <3>2
  <2>. QED BY <2>1, <2>2, <2>6, <2>7, <2>8
<1>. QED BY <1>1, <1>2

(* ... and to the session the player and the mods see: while the panel is   *)
(* complete, the edit is the one the player asked for.                      *)
LEMMA EditRefines ==
  ASSUME McmInv, NEW modIdx, NEW itemIdx, NEW s \in Settings, NEW v \in Values,
         HandleValueChanged(modIdx, itemIdx, v),
         asked' = [setting |-> s, value |-> v], complete' = complete,
         complete => /\ InRange(mods, modIdx, itemIdx)
                     /\ SettingAt(mods, <<modIdx + 1, itemIdx + 1>>) = s
  PROVE  Session!Next
<1>. DEFINE values == [t \in Declared(mods) |-> ItemOf(mods, t).val]
            t0 == SettingAt(mods, <<modIdx + 1, itemIdx + 1>>)
<1>1. ASSUME InRange(mods, modIdx, itemIdx)
      PROVE  /\ t0 \in Declared(mods)
             /\ values' = [values EXCEPT ![t0] = v]
  <2>1. mods' = Stored(mods, modIdx, itemIdx, v)
    BY <1>1 DEF HandleValueChanged
  <2>2. Declared(mods') = Declared(mods)
    BY <1>1, <2>1, StoredGood DEF McmInv
  <2>3. /\ t0 \in Declared(mods) /\ ItemOf(mods', t0).val = v
        /\ \A t \in Declared(mods) : t # t0 => ItemOf(mods', t).val = ItemOf(mods, t).val
    BY <1>1, <2>1, EditGood DEF McmInv
  <2>. HIDE DEF t0
  <2>4. values' = [t \in Declared(mods) |-> ItemOf(mods', t).val]
    BY <2>2
  <2>5. [values EXCEPT ![t0] = v]
          = [t \in Declared(mods) |-> IF t = t0 THEN v ELSE ItemOf(mods, t).val]
    BY <2>3
  <2>. QED BY <2>3, <2>4, <2>5
<1>2. ASSUME ~InRange(mods, modIdx, itemIdx)
      PROVE  values' = values
  <2>1. mods' = mods
    BY <1>2 DEF HandleValueChanged
  <2>. QED BY <2>1
<1>3. DOMAIN values = Declared(mods)
  OBVIOUS
<1>4. CASE complete
  <2>1. InRange(mods, modIdx, itemIdx) /\ t0 = s
    BY <1>4
  <2>2. s \in DOMAIN values /\ values' = [values EXCEPT ![s] = v]
    BY <1>1, <1>3, <2>1
  <2>3. Session!Edit
    BY <1>4, <2>2 DEF Session!Edit
  <2>. QED BY <2>3 DEF Session!Next
<1>5. CASE ~complete
  <2>1. values' = values \/ \E t \in DOMAIN values : values' = [values EXCEPT ![t] = v]
    BY <1>1, <1>2, <1>3
  <2>2. Session!StrayEdit
    BY <1>5, <2>1 DEF Session!StrayEdit
  <2>. QED BY <2>2 DEF Session!Next
<1>. QED BY <1>4, <1>5

(* A step that edits nothing and leaves the model alone is a quiet step of  *)
(* the session.                                                             *)
LEMMA QuietRefines ==
  ASSUME asked' = NoEdit, mods' = mods, complete' \in BOOLEAN
  PROVE  Session!Next
BY DEF Session!Next, Session!Quiet

(* The panel reacts and nothing is reported. *)
LEMMA QuietStep ==
  ASSUME McmInv, NoEmit, PlayerOnly, panel' \in Panels,
         complete => Mirrors(panel'.cache, mods)
  PROVE  McmInv' /\ Session!Next
<1>1. mods' = mods /\ complete' = complete /\ complete' \in BOOLEAN /\ asked' = NoEdit
  BY DEF NoEmit, PlayerOnly, McmInv, Counts
<1>2. McmInv'
  BY <1>1 DEF McmInv, Counts, Told, MenuAgreesWithMods, Known, NoEmit, PlayerOnly
<1>. QED BY <1>1, <1>2, QuietRefines

(* The row of an item of the panel reports: p is the panel in which it      *)
(* shows the value v, which the panel may keep showing or not.              *)
LEMMA ReportStep ==
  ASSUME McmInv, PlayerOnly, panel' \in Panels,
         NEW modIdx, NEW itemIdx, NEW s \in Settings, NEW v \in Values,
         HandleValueChanged(modIdx, itemIdx, v), asked' = [setting |-> s, value |-> v],
         complete => /\ InRange(mods, modIdx, itemIdx)
                     /\ SettingAt(mods, <<modIdx + 1, itemIdx + 1>>) = s
                     /\ Mirrors(panel'.cache, Stored(mods, modIdx, itemIdx, v))
  PROVE  McmInv' /\ Session!Next
<1>1. complete' = complete /\ UNCHANGED <<mcmOpen, retries, opens, failures>>
  BY DEF PlayerOnly
<1>2. Session!Next
  BY <1>1, EditRefines
<1>3. /\ mods' \in Models /\ Told' /\ Known' /\ MenuAgreesWithMods'
      /\ InRange(mods, modIdx, itemIdx) => mods' = Stored(mods, modIdx, itemIdx, v)
  BY EditStep
<1>4. complete' => Mirrors(panel'.cache, mods')
  BY <1>1, <1>3
<1>5. Counts'
  BY <1>1 DEF McmInv, Counts
<1>6. McmInv'
  BY <1>3, <1>4, <1>5 DEF McmInv
<1>. QED BY <1>2, <1>6

(* A row takes a value and reports it at once. *)
LEMMA ShownStep ==
  ASSUME McmInv, PlayerOnly, NEW kinds, "cat" \notin kinds,
         NEW pos \in RowsOf(panel, kinds), NEW v \in Values,
         panel' = WithValue(panel, panel.current, pos, v),
         EmitValue(panel', panel.current, pos)
  PROVE  McmInv' /\ Session!Next
<1>. DEFINE m == panel.current
            item == CachedItem(panel, m, pos)
<1>1. panel \in Panels /\ mods \in Models
  BY DEF McmInv
<1>2. IsItem(panel.cache, m, pos, kinds)
  BY <1>1, RowThere
<1>3. IsItem(panel.cache, m, pos, Kinds) /\ m \in ModIds /\ item \in Row
  <2>1. m \in ModIds /\ item \in Row
    BY <1>1, <1>2, ItemThere
  <2>. QED BY <1>2, <2>1 DEF IsItem, CachedItem, Row
<1>4. /\ panel' \in Panels /\ Grows(panel.cache, panel'.cache)
      /\ ValueShown(panel.cache, panel'.cache, FindMod(panel.cache, m), pos, v)
  BY <1>1, <1>3, WithValueGood
<1>5. /\ ModIdxOf(panel', m) = ModIdxOf(panel, m)
      /\ CachedItem(panel', m, pos).idx = item.idx
      /\ CachedItem(panel', m, pos).id = item.id
      /\ CachedItem(panel', m, pos).value = v
  <2>1. SameReport(panel, panel', m, pos, v)
    BY <1>1, <1>3, <1>4, ShownReports
  <2>. QED BY <2>1 DEF SameReport
<1>6. /\ HandleValueChanged(ModIdxOf(panel, m), item.idx, v)
      /\ asked' = [setting |-> <<m, item.id>>, value |-> v]
  BY <1>5 DEF EmitValue
<1>7. <<m, item.id>> \in Settings
  BY <1>3 DEF Row, Settings
<1>8. complete => /\ InRange(mods, ModIdxOf(panel, m), item.idx)
                  /\ SettingAt(mods, <<ModIdxOf(panel, m) + 1, item.idx + 1>>) = <<m, item.id>>
                  /\ Mirrors(panel'.cache, Stored(mods, ModIdxOf(panel, m), item.idx, v))
  <2>. HAVE complete
  <2>1. Mirrors(panel.cache, mods)
    BY DEF McmInv
  <2>2. ReportsPlace(mods, panel, m, pos)
    BY <1>1, <1>2, <2>1, PlaceMirrored
  <2>3. Mirrors(panel'.cache, Stored(mods, ModIdxOf(panel, m), item.idx, v))
    BY <1>1, <1>2, <1>4, <2>1, ShownAndStored
  <2>. QED BY <2>2, <2>3 DEF ReportsPlace
<1>. HIDE DEF item, m
<1>. QED BY <1>4, <1>6, <1>7, <1>8, ReportStep

(* A held slider that moved reports when it is let go. *)
LEMMA LetGoStep ==
  ASSUME McmInv, PlayerOnly, NEW g \in Grips, Moved(panel, g), panel' \in Panels,
         complete => Mirrors(panel'.cache, mods),
         EmitValue(panel, panel.grip[g].mod, panel.grip[g].pos)
  PROVE  McmInv' /\ Session!Next
<1>. DEFINE m == panel.grip[g].mod
            pos == panel.grip[g].pos
            item == CachedItem(panel, m, pos)
<1>1. panel \in Panels /\ mods \in Models
  BY DEF McmInv
<1>2. IsItem(panel.cache, m, pos, {"slider"})
  BY <1>1 DEF Moved, Panels, GripsThere
<1>. HIDE DEF m, pos
<1>3. m \in ModIds /\ item \in Row
  BY <1>1, <1>2, ItemThere
<1>4. /\ HandleValueChanged(ModIdxOf(panel, m), item.idx, item.value)
      /\ asked' = [setting |-> <<m, item.id>>, value |-> item.value]
  BY DEF EmitValue, m, pos
<1>5. <<m, item.id>> \in Settings /\ item.value \in Values
  BY <1>3 DEF Row, Settings
<1>6. complete => /\ InRange(mods, ModIdxOf(panel, m), item.idx)
                  /\ SettingAt(mods, <<ModIdxOf(panel, m) + 1, item.idx + 1>>) = <<m, item.id>>
                  /\ Mirrors(panel'.cache, Stored(mods, ModIdxOf(panel, m), item.idx, item.value))
  <2>. HAVE complete
  <2>1. Mirrors(panel.cache, mods)
    BY DEF McmInv
  <2>2. ReportsPlace(mods, panel, m, pos)
    BY <1>1, <1>2, <2>1, PlaceMirrored
  <2>3. Mirrors(panel'.cache, Stored(mods, ModIdxOf(panel, m), item.idx, item.value))
    BY <1>1, <1>2, <1>5, <2>1, SliderStored
  <2>. QED BY <2>2, <2>3 DEF ReportsPlace
<1>. HIDE DEF item
<1>. QED BY <1>4, <1>5, <1>6, ReportStep

-----------------------------------------------------------------------------
(* One lemma per action that does more than one thing. *)

(* OpenMCM: the rebuilt model keeps what the mods were told. *)
LEMMA OpenStep ==
  ASSUME McmInv, OpenMCM
  PROVE  /\ McmInv' /\ Session!Next
         /\ \A s \in Declared(mods') :
              ItemOf(mods', s).live => ItemOf(mods', s).val = applied[s]
<1>1. PICK cpp \in CppBuilds, lua \in LuaBuilds :
      \E ms \in Rebuilt(mods, Xml, cpp, lua, applied) :
        /\ mods' = ms
        /\ PushAllTask(ms, 0, retries)
        /\ applied' = [s \in Settings |->
                         IF applied[s] = Unset /\ s \in Declared(ms)
                           THEN ItemOf(ms, s).val ELSE applied[s]]
        /\ missed' = missed \cup {s \in Settings \ Declared(ms) : applied[s] # Unset}
  BY DEF OpenMCM
<1>2. PICK ms \in Rebuilt(mods, Xml, cpp, lua, applied) :
        /\ mods' = ms
        /\ PushAllTask(ms, 0, retries)
        /\ applied' = [s \in Settings |->
                         IF applied[s] = Unset /\ s \in Declared(ms)
                           THEN ItemOf(ms, s).val ELSE applied[s]]
        /\ missed' = missed \cup {s \in Settings \ Declared(ms) : applied[s] # Unset}
  BY <1>1
<1>3. \A s \in Owned : applied[s] \in Values
  BY McmAssumption DEF McmInv, Told
<1>4. /\ ms \in Models
      /\ \A s \in Declared(ms) :
           /\ ItemOf(ms, s).live => s \in Owned /\ ItemOf(ms, s).val = applied[s]
           /\ ~ItemOf(ms, s).live /\ s \in Declared(mods) =>
                ItemOf(ms, s).val = ItemOf(mods, s).val
  BY <1>2, <1>3, RebuiltGood DEF McmInv
<1>5. \A s \in Declared(ms) : s \in Settings /\ ItemOf(ms, s).val \in Values
  BY <1>4, DeclaredTyped
<1>6. mods' = ms /\ opens' = opens + 1 /\ mcmOpen' = TRUE /\ asked' = NoEdit /\ opens < MaxOpens
  BY <1>2 DEF OpenMCM
<1>7. /\ panel' \in Panels /\ complete' \in BOOLEAN
      /\ failures' \in 0..MaxFailures
      /\ retries' \in Seq(1..3) /\ Len(retries') <= Len(retries) + 1
      /\ complete' => Mirrors(panel'.cache, ms)
  <2>1. retries \in Seq(1..3) /\ 0 \in 0..3
    BY DEF McmInv, Counts
  <2>. QED BY <1>2, <1>4, <2>1, PushStep
<1>8. Counts'
  <2>1. Len(retries) \in Nat /\ Len(retries') \in Nat /\ Len(retries) <= opens /\ opens \in 0..MaxOpens
    BY <1>7 DEF McmInv, Counts
  <2>. QED BY <1>6, <1>7, <2>1, McmAssumption DEF Counts
<1>9. \A s \in Settings :
        applied'[s] = IF applied[s] = Unset /\ s \in Declared(ms)
                        THEN ItemOf(ms, s).val ELSE applied[s]
  BY <1>2
<1>10. Told'
  <2>1. applied' \in [Settings -> Values \cup {Unset}]
    BY <1>2, <1>5 DEF McmInv, Told
  <2>2. \A s \in Owned : applied'[s] # Unset
    BY <1>9, McmAssumption DEF McmInv, Told
  <2>3. missed' \subseteq Settings
    BY <1>2 DEF McmInv, Told
  <2>. QED BY <2>1, <2>2, <2>3 DEF Told
<1>11. Known'
  <2>. SUFFICES ASSUME NEW s \in Settings \ (Owned \cup missed'), applied'[s] # Unset
                PROVE  s \in Declared(ms)
    BY <1>6 DEF Known
  <2>. QED BY <1>2, <1>9
<1>12. MenuAgreesWithMods'
  <2>. SUFFICES ASSUME NEW s \in Declared(ms) \ (Owned \cup missed')
                PROVE  ItemOf(ms, s).val = applied'[s]
    BY <1>6 DEF MenuAgreesWithMods
  <2>1. s \in Settings /\ s \notin missed
    BY <1>2, <1>5
  <2>2. CASE applied[s] = Unset
    BY <1>9, <2>1, <2>2
  <2>3. CASE applied[s] # Unset
    <3>1. s \in Declared(mods) /\ ItemOf(mods, s).val = applied[s]
      BY <2>1, <2>3 DEF McmInv, Known, MenuAgreesWithMods
    <3>2. ItemOf(ms, s).val = ItemOf(mods, s).val
      BY <1>4, <3>1
    <3>. QED BY <1>9, <2>1, <2>3, <3>1, <3>2
  <2>. QED BY <2>2, <2>3
<1>13. McmInv'
  BY <1>4, <1>6, <1>7, <1>8, <1>10, <1>11, <1>12 DEF McmInv
<1>14. Session!Next
  <2>. DEFINE values == [t \in Declared(mods) |-> ItemOf(mods, t).val]
  <2>1. values' = [t \in Declared(ms) |-> ItemOf(ms, t).val]
    BY <1>6
  <2>2. DOMAIN values' \subseteq Settings
    BY <1>5, <2>1
  <2>3. ASSUME NEW s \in DOMAIN values'
        PROVE  /\ values'[s] \in Values
               /\ s \in DOMAIN values \ Owned => values'[s] = values[s]
    BY <1>4, <1>5, <2>1
  <2>. HIDE DEF values
  <2>4. Session!Reopen
    BY <1>6, <1>7, <2>2, <2>3 DEF Session!Reopen, values
  <2>. QED BY <2>4 DEF Session!Next
<1>. QED BY <1>4, <1>6, <1>13, <1>14

(* A retry pushes the model as it is now. *)
LEMMA RunTaskStep ==
  ASSUME McmInv, RunTask
  PROVE  McmInv' /\ Session!Next
<1>1. /\ retries # << >> /\ asked' = NoEdit
      /\ UNCHANGED <<mods, mcmOpen, opens, applied, missed>>
      /\ PushAllTask(mods, Head(retries), Tail(retries))
  BY DEF RunTask
<1>2. /\ Head(retries) \in 0..3 /\ Tail(retries) \in Seq(1..3)
      /\ Len(Tail(retries)) + 1 = Len(retries) /\ Len(retries) \in Nat
  <2>1. retries \in Seq(1..3)
    BY DEF McmInv, Counts
  <2>2. Head(retries) \in 1..3
    BY <1>1, <2>1
  <2>. QED BY <1>1, <2>1, <2>2
<1>3. /\ panel' \in Panels /\ complete' \in BOOLEAN
      /\ failures' \in 0..MaxFailures
      /\ retries' \in Seq(1..3) /\ Len(retries') <= Len(Tail(retries)) + 1
      /\ complete' => Mirrors(panel'.cache, mods)
  BY <1>1, <1>2, PushStep DEF McmInv
<1>4. Counts'
  BY <1>1, <1>2, <1>3 DEF McmInv, Counts
<1>5. McmInv'
  BY <1>1, <1>3, <1>4 DEF McmInv, Told, Known, MenuAgreesWithMods
<1>6. Session!Next
  BY <1>1, <1>3, QuietRefines
<1>. QED BY <1>5, <1>6

(* A slider takes another value, held or taken, and reports nothing yet.    *)
LEMMA SliderMoves ==
  ASSUME McmInv, NEW m, NEW pos, IsItem(panel.cache, m, pos, {"slider"}),
         NEW q, NEW v,
         ValueShown(panel.cache, q.cache, FindMod(panel.cache, m), pos, v)
  PROVE  complete => Mirrors(q.cache, mods)
<1>. HAVE complete
<1>1. mods \in Models /\ panel \in Panels /\ Mirrors(panel.cache, mods)
  BY DEF McmInv
<1>. QED BY <1>1, SliderShown

(* A click on a toggle or dropdown: the row takes the value and reports     *)
(* it.                                                                      *)
LEMMA ClickStep ==
  ASSUME McmInv, Click
  PROVE  McmInv' /\ Session!Next
<1>1. PICK pos \in RowsOf(panel, {"toggle"}), v \in Values :
        /\ panel' = WithValue(panel, panel.current, pos, v)
        /\ EmitValue(panel', panel.current, pos)
  BY DEF Click
<1>2. PlayerOnly
  BY DEF Click
<1>3. "cat" \notin {"toggle"}
  OBVIOUS
<1>. QED BY <1>1, <1>2, <1>3, ShownStep

(* A reset: the row takes its default and reports it. *)
LEMMA ResetStep ==
  ASSUME McmInv, ResetHovered
  PROVE  McmInv' /\ Session!Next
<1>. DEFINE kinds == {"toggle", "slider"}
<1>1. PICK pos \in RowsOf(panel, kinds) :
        /\ panel' = WithValue(panel, panel.current, pos,
                              CachedItem(panel, panel.current, pos).def)
        /\ EmitValue(panel', panel.current, pos)
  BY DEF ResetHovered
<1>2. PlayerOnly
  BY DEF ResetHovered
<1>3. "cat" \notin kinds
  OBVIOUS
<1>. HIDE DEF kinds
<1>4. CachedItem(panel, panel.current, pos).def \in Values
  <2>1. panel \in Panels
    BY DEF McmInv
  <2>2. IsItem(panel.cache, panel.current, pos, kinds)
    BY <2>1, RowThere
  <2>3. CachedItem(panel, panel.current, pos) \in Row
    BY <2>1, <2>2, ItemThere
  <2>. QED BY <2>3 DEF Row
<1>. QED BY <1>1, <1>2, <1>3, <1>4, ShownStep

(* The mouse takes a slider's knob: the row shows a value, nothing is       *)
(* reported yet.                                                            *)
LEMMA StartDragStep ==
  ASSUME McmInv, StartDrag
  PROVE  McmInv' /\ Session!Next
<1>1. PICK pos \in RowsOf(panel, {"slider"}), v \in Values :
        panel' = TakeHold(panel, "drag", pos, v)
  BY DEF StartDrag
<1>2. NoEmit /\ PlayerOnly
  BY DEF StartDrag
<1>3. panel \in Panels /\ "drag" \in Grips
  BY DEF McmInv, Grips
<1>4. IsItem(panel.cache, panel.current, pos, {"slider"})
  BY <1>3, RowThere
<1>5. /\ panel' \in Panels
      /\ ValueShown(panel.cache, panel'.cache, FindMod(panel.cache, panel.current), pos, v)
  BY <1>1, <1>3, <1>4, TakeHoldGood
<1>6. complete => Mirrors(panel'.cache, mods)
  BY <1>4, <1>5, SliderMoves
<1>. QED BY <1>2, <1>5, <1>6, QuietStep

(* The first key on a slider lets go of the one held before and takes hold  *)
(* of the new one.                                                          *)
LEMMA KeyStepStartStep ==
  ASSUME McmInv, KeyStepStart
  PROVE  McmInv' /\ Session!Next
<1>. DEFINE p == LetGo(panel, "key")
<1>1. PICK pos \in RowsOf(panel, {"slider"}), v \in Values :
        panel' = TakeHold(p, "key", pos, v)
  BY DEF KeyStepStart
<1>2. PlayerOnly /\ panel \in Panels /\ "key" \in Grips
  BY DEF KeyStepStart, McmInv, Grips
<1>3. IsItem(panel.cache, panel.current, pos, {"slider"})
  BY <1>2, RowThere
<1>4. p \in Panels /\ p.cache = panel.cache /\ p.current = panel.current
  BY <1>2, LetGoGood
<1>. HIDE DEF p
<1>5. /\ panel' \in Panels
      /\ ValueShown(panel.cache, panel'.cache, FindMod(panel.cache, panel.current), pos, v)
  BY <1>1, <1>2, <1>3, <1>4, TakeHoldGood
<1>6. complete => Mirrors(panel'.cache, mods)
  BY <1>3, <1>5, SliderMoves
<1>7. CASE Moved(panel, "key")
  <2>1. EmitValue(panel, panel.grip["key"].mod, panel.grip["key"].pos)
    BY <1>7 DEF KeyStepStart
  <2>. QED BY <1>2, <1>5, <1>6, <1>7, <2>1, LetGoStep
<1>8. CASE ~Moved(panel, "key")
  <2>1. NoEmit
    BY <1>8 DEF KeyStepStart
  <2>. QED BY <1>2, <1>5, <1>6, <2>1, QuietStep
<1>. QED BY <1>7, <1>8

(* A held slider moves. *)
LEMMA SlideStep ==
  ASSUME McmInv, Slide
  PROVE  McmInv' /\ Session!Next
<1>1. PICK g \in Grips, v \in Values :
        /\ panel.grip[g] # NoGrip
        /\ panel' = WithValue(panel, panel.grip[g].mod, panel.grip[g].pos, v)
  BY DEF Slide
<1>. DEFINE m == panel.grip[g].mod
            pos == panel.grip[g].pos
<1>2. NoEmit /\ PlayerOnly /\ panel \in Panels
  BY DEF Slide, McmInv
<1>3. IsItem(panel.cache, m, pos, {"slider"})
  BY <1>1, <1>2 DEF Panels, GripsThere
<1>4. IsItem(panel.cache, m, pos, Kinds)
  BY <1>3 DEF IsItem, Kinds
<1>5. panel' = WithValue(panel, m, pos, v)
  BY <1>1
<1>. HIDE DEF m, pos
<1>6. /\ panel' \in Panels
      /\ ValueShown(panel.cache, panel'.cache, FindMod(panel.cache, m), pos, v)
  BY <1>2, <1>4, <1>5, WithValueGood
<1>7. complete => Mirrors(panel'.cache, mods)
  BY <1>3, <1>6, SliderMoves
<1>. QED BY <1>2, <1>6, <1>7, QuietStep

(* A held slider is let go; what it reports is what it shows, if it moved. *)
LEMMA ReleaseStep ==
  ASSUME McmInv, Release
  PROVE  McmInv' /\ Session!Next
<1>1. PICK g \in Grips :
        /\ panel' = LetGo(panel, g)
        /\ IF Moved(panel, g)
             THEN EmitValue(panel, panel.grip[g].mod, panel.grip[g].pos)
             ELSE NoEmit
  BY DEF Release
<1>2. PlayerOnly /\ panel \in Panels
  BY DEF Release, McmInv
<1>3. panel' \in Panels /\ panel'.cache = panel.cache
  BY <1>1, <1>2, LetGoGood
<1>4. complete => Mirrors(panel'.cache, mods)
  BY <1>3 DEF McmInv
<1>5. CASE Moved(panel, g)
  BY <1>1, <1>2, <1>3, <1>4, <1>5, LetGoStep
<1>6. CASE ~Moved(panel, g)
  BY <1>1, <1>2, <1>3, <1>4, <1>6, QuietStep
<1>. QED BY <1>5, <1>6

(* SelectMod and FocusSearch leave the cache alone. *)
LEMMA BrowseStep ==
  ASSUME McmInv, SelectMod \/ FocusSearch
  PROVE  McmInv' /\ Session!Next
<1>1. NoEmit /\ PlayerOnly /\ panel \in Panels
  BY DEF SelectMod, FocusSearch, McmInv
<1>2. panel' \in Panels /\ panel'.cache = panel.cache
  <2>1. CASE SelectMod
    <3>1. PICK k \in DOMAIN panel.cache : panel' = ShowMod(panel, panel.cache[k].id)
      BY <2>1 DEF SelectMod
    <3>2. panel.cache[k] \in CachedMod
      BY <1>1 DEF Panels, PanelRecord
    <3>. QED BY <1>1, <3>1, <3>2, ShowModGood DEF CachedMod
  <2>2. CASE FocusSearch
    BY <1>1, <2>2, SearchingGood DEF FocusSearch
  <2>. QED BY <2>1, <2>2
<1>3. complete => Mirrors(panel'.cache, mods)
  BY <1>2 DEF McmInv
<1>. QED BY <1>1, <1>2, <1>3, QuietStep

(* Closing touches neither the model nor what the mods know. *)
LEMMA CloseStep ==
  ASSUME McmInv, CloseMCM \/ PressEscape
  PROVE  McmInv' /\ Session!Next
<1>1. /\ asked' = NoEdit /\ mcmOpen' \in BOOLEAN
      /\ UNCHANGED <<mods, retries, opens, failures, complete, applied, missed>>
  BY DEF CloseMCM, PressEscape, McmInv, Counts
<1>2. panel' \in Panels /\ panel'.cache = panel.cache
  BY SearchingGood DEF CloseMCM, PressEscape, McmInv
<1>3. McmInv'
  BY <1>1, <1>2 DEF McmInv, Counts, Told, MenuAgreesWithMods, Known
<1>4. Session!Next
  BY <1>1, QuietRefines DEF McmInv, Counts
<1>. QED BY <1>3, <1>4

(* A mod changes its own setting behind the menu's back; the menu learns    *)
(* of it when it opens.                                                     *)
LEMMA OwnerStep ==
  ASSUME McmInv, OwnerChanges
  PROVE  McmInv' /\ Session!Next
<1>1. PICK s \in Owned, v \in Values : applied' = [applied EXCEPT ![s] = v]
  BY DEF OwnerChanges
<1>2. /\ asked' = NoEdit
      /\ UNCHANGED <<mods, mcmOpen, retries, panel, opens, failures, complete, missed>>
  BY DEF OwnerChanges
<1>3. /\ applied' \in [Settings -> Values \cup {Unset}]
      /\ \A t \in Settings \ Owned : applied'[t] = applied[t]
      /\ \A t \in Owned : applied'[t] # Unset
  BY <1>1, McmAssumption DEF McmInv, Told
<1>4. Told'
  BY <1>2, <1>3 DEF McmInv, Told
<1>5. Known'
  BY <1>2, <1>3 DEF McmInv, Known
<1>6. MenuAgreesWithMods'
  <2>. SUFFICES ASSUME NEW t \in Declared(mods) \ (Owned \cup missed)
                PROVE  ItemOf(mods, t).val = applied'[t]
    BY <1>2 DEF MenuAgreesWithMods
  <2>1. t \in Settings \ Owned
    BY DeclaredTyped DEF McmInv
  <2>. QED BY <1>3, <2>1 DEF McmInv, MenuAgreesWithMods
<1>7. McmInv'
  BY <1>2, <1>4, <1>5, <1>6 DEF McmInv, Counts
<1>8. Session!Next
  BY <1>2, QuietRefines DEF McmInv, Counts
<1>. QED BY <1>7, <1>8

(* All of them. *)
LEMMA NextStep ==
  ASSUME McmInv, Next
  PROVE  McmInv' /\ Session!Next
<1>1. CASE OpenMCM
  BY <1>1, OpenStep
<1>2. CASE RunTask
  BY <1>2, RunTaskStep
<1>3. CASE CloseMCM \/ PressEscape
  BY <1>3, CloseStep
<1>4. CASE Click
  BY <1>4, ClickStep
<1>5. CASE ResetHovered
  BY <1>5, ResetStep
<1>6. CASE StartDrag
  BY <1>6, StartDragStep
<1>7. CASE KeyStepStart
  BY <1>7, KeyStepStartStep
<1>8. CASE Slide
  BY <1>8, SlideStep
<1>9. CASE Release
  BY <1>9, ReleaseStep
<1>10. CASE SelectMod \/ FocusSearch
  BY <1>10, BrowseStep
<1>11. CASE OwnerChanges
  BY <1>11, OwnerStep
<1>. QED BY <1>1, <1>2, <1>3, <1>4, <1>5, <1>6, <1>7, <1>8, <1>9, <1>10, <1>11 DEF Next

(* The invariant is about these variables only. *)
LEMMA InvStuttering ==
  ASSUME McmInv, UNCHANGED vars
  PROVE  McmInv'
BY DEF McmInv, Counts, Told, Known, MenuAgreesWithMods, vars

-----------------------------------------------------------------------------
(* What the invariant says of the properties the runs check. *)

LEMMA ModelTyped ==
  ASSUME NEW ms \in Models, NEW x \in Places(ms)
  PROVE  SettingAt(ms, x) \in Settings /\ ms[x[1]].items[x[2]].val \in Values
<1>1. PICK k \in DOMAIN ms :
        x \in {<<k, j>> : j \in {n \in DOMAIN ms[k].items : ms[k].items[n].kind # "cat"}}
  BY DEF Places
<1>2. PICK j \in DOMAIN ms[k].items : x = <<k, j>>
  BY <1>1
<1>3. ms[k] \in Mod
  BY DEF Models
<1>4. ms[k].id \in ModIds /\ ms[k].items \in Seq(Item)
  BY <1>3 DEF Mod
<1>5. ms[k].items[j] \in Item
  BY <1>4
<1>. QED BY <1>2, <1>4, <1>5 DEF SettingAt, Settings, Item

(* The places of the cache. *)
LEMMA CachedPlace ==
  ASSUME panel \in Panels, NEW x \in CachedItems
  PROVE  \E k \in 1..Len(panel.cache) : \E j \in 1..Len(panel.cache[k].items) :
           /\ x = <<k, j>> /\ Cached(x) = panel.cache[k].items[j]
           /\ panel.cache[k] \in CachedMod /\ panel.cache[k].items[j] \in Row
<1>1. PICK k \in DOMAIN panel.cache : x \in {<<k, j>> : j \in DOMAIN panel.cache[k].items}
  BY DEF CachedItems
<1>2. PICK j \in DOMAIN panel.cache[k].items : x = <<k, j>>
  BY <1>1
<1>3. /\ panel.cache \in Seq(CachedMod) /\ k \in 1..Len(panel.cache)
      /\ panel.cache[k] \in CachedMod
  BY DEF Panels, PanelRecord
<1>4. panel.cache[k].items \in Seq(Row)
  BY <1>3 DEF CachedMod
<1>5. j \in 1..Len(panel.cache[k].items) /\ panel.cache[k].items[j] \in Row
  BY <1>4
<1>6. Cached(x) = panel.cache[k].items[j]
  BY <1>2 DEF Cached
<1>. QED BY <1>2, <1>3, <1>5, <1>6

(* The types, from the model and the panel. *)
LEMMA InvTypes == McmInv => McmTypeOK
<1>. SUFFICES ASSUME McmInv PROVE McmTypeOK
  OBVIOUS
<1>1. \A x \in Places(mods) :
        SettingAt(mods, x) \in Settings /\ mods[x[1]].items[x[2]].val \in Values
  BY ModelTyped DEF McmInv
<1>2. \A x \in CachedItems : Cached(x).kind # "cat" => Cached(x).value \in Values
  <2>. SUFFICES ASSUME NEW x \in CachedItems PROVE Cached(x).value \in Values
    OBVIOUS
  <2>1. Cached(x) \in Row
    BY CachedPlace DEF McmInv
  <2>. QED BY <2>1 DEF Row
<1>. QED BY <1>1, <1>2 DEF McmTypeOK, McmInv, Counts, Told

(* A row of a complete push and the item of the model it stands for.        *)
LEMMA RowMirrors ==
  ASSUME McmInv, complete, NEW x \in CachedItems
  PROVE  \E k \in 1..Len(mods) : \E j \in 1..Len(mods[k].items) :
           /\ x = <<k, j>>
           /\ k \in DOMAIN mods /\ j \in DOMAIN mods[k].items
           /\ k \in 1..Len(panel.cache) /\ j \in 1..Len(panel.cache[k].items)
           /\ panel.cache[k].id = mods[k].id /\ panel.cache[k].idx = k - 1
           /\ MirrorsItem(Cached(x), mods[k].items[j], j)
<1>1. PICK k \in 1..Len(panel.cache) : \E j \in 1..Len(panel.cache[k].items) :
        x = <<k, j>> /\ Cached(x) = panel.cache[k].items[j]
  BY CachedPlace DEF McmInv
<1>2. PICK j \in 1..Len(panel.cache[k].items) :
        x = <<k, j>> /\ Cached(x) = panel.cache[k].items[j]
  BY <1>1
<1>3. /\ Mirrors(panel.cache, mods) /\ mods \in Seq(Mod)
      /\ Len(mods) \in Nat /\ DOMAIN mods = 1..Len(mods)
  BY DEF McmInv, Models
<1>4. k \in 1..Len(mods) /\ MirrorsMod(panel.cache[k], mods[k], k, Len(mods[k].items))
  BY <1>3 DEF Mirrors, Filled, MirrorsMods
<1>5. DOMAIN mods[k].items = 1..Len(mods[k].items)
  <2>1. mods[k] \in Mod
    BY <1>3, <1>4
  <2>2. mods[k].items \in Seq(Item)
    BY <2>1 DEF Mod
  <2>. QED BY <2>2
<1>6. /\ j \in 1..Len(mods[k].items)
      /\ panel.cache[k].id = mods[k].id /\ panel.cache[k].idx = k - 1
  BY <1>4 DEF MirrorsMod
<1>7. MirrorsItem(Cached(x), mods[k].items[j], j)
  BY <1>2, <1>4, <1>6 DEF MirrorsMod
<1>. QED BY <1>2, <1>3, <1>4, <1>5, <1>6, <1>7

(* Each row reports the place of its own setting. *)
LEMMA InvIndices == McmInv /\ complete => IndicesMirror
<1>. SUFFICES ASSUME McmInv, complete, NEW x \in CachedItems, Cached(x).kind # "cat"
              PROVE  LET m == panel.cache[x[1]] IN
                     /\ InRange(mods, m.idx, Cached(x).idx)
                     /\ SettingAt(mods, <<m.idx + 1, Cached(x).idx + 1>>) = <<m.id, Cached(x).id>>
  BY DEF IndicesMirror
<1>1. PICK k \in 1..Len(mods) : \E j \in 1..Len(mods[k].items) :
           /\ x = <<k, j>>
           /\ k \in DOMAIN mods /\ j \in DOMAIN mods[k].items
           /\ panel.cache[k].id = mods[k].id /\ panel.cache[k].idx = k - 1
           /\ MirrorsItem(Cached(x), mods[k].items[j], j)
  BY RowMirrors
<1>2. PICK j \in 1..Len(mods[k].items) :
           /\ x = <<k, j>>
           /\ k \in DOMAIN mods /\ j \in DOMAIN mods[k].items
           /\ panel.cache[k].id = mods[k].id /\ panel.cache[k].idx = k - 1
           /\ MirrorsItem(Cached(x), mods[k].items[j], j)
  BY <1>1
<1>3. /\ panel.cache[x[1]].idx + 1 = k /\ Cached(x).idx + 1 = j
      /\ panel.cache[x[1]].id = mods[k].id /\ Cached(x).id = mods[k].items[j].id
      /\ mods[k].items[j].kind # "cat"
  BY <1>2 DEF MirrorsItem
<1>. QED BY <1>2, <1>3 DEF InRange, SettingAt

(* A row that mirrors a toggle or dropdown shows its value. *)
LEMMA InvToggles == McmInv => TogglesShowStored
<1>. SUFFICES ASSUME McmInv, complete, NEW x \in CachedItems, Cached(x).kind = "toggle"
              PROVE  Cached(x).value = ItemOf(mods, <<panel.cache[x[1]].id, Cached(x).id>>).val
  BY DEF TogglesShowStored
<1>1. PICK k \in 1..Len(mods) : \E j \in 1..Len(mods[k].items) :
           /\ x = <<k, j>>
           /\ k \in DOMAIN mods /\ j \in DOMAIN mods[k].items
           /\ panel.cache[k].id = mods[k].id
           /\ MirrorsItem(Cached(x), mods[k].items[j], j)
  BY RowMirrors
<1>2. PICK j \in 1..Len(mods[k].items) :
           /\ x = <<k, j>>
           /\ k \in DOMAIN mods /\ j \in DOMAIN mods[k].items
           /\ panel.cache[k].id = mods[k].id
           /\ MirrorsItem(Cached(x), mods[k].items[j], j)
  BY <1>1
<1>3. /\ panel.cache[x[1]].id = mods[k].id /\ Cached(x).id = mods[k].items[j].id
      /\ mods[k].items[j].kind # "cat" /\ Cached(x).value = mods[k].items[j].val
  BY <1>2 DEF MirrorsItem
<1>4. ItemOf(mods, <<mods[k].id, mods[k].items[j].id>>) = mods[k].items[j]
  BY <1>2, <1>3, PlaceOfSetting DEF McmInv
<1>. QED BY <1>3, <1>4

(* The panel's rows and the model's settings are the same settings. *)
LEMMA InvOffers == McmInv /\ complete => CachedSettings = Declared(mods)
<1>. SUFFICES ASSUME McmInv, complete PROVE CachedSettings = Declared(mods)
  OBVIOUS
<1>1. ASSUME NEW s \in CachedSettings PROVE s \in Declared(mods)
  <2>1. PICK x \in CachedItems : /\ Cached(x).kind # "cat"
                                 /\ s = <<panel.cache[x[1]].id, Cached(x).id>>
    BY <1>1 DEF CachedSettings
  <2>2. PICK k \in 1..Len(mods) : \E j \in 1..Len(mods[k].items) :
           /\ x = <<k, j>>
           /\ k \in DOMAIN mods /\ j \in DOMAIN mods[k].items
           /\ panel.cache[k].id = mods[k].id
           /\ MirrorsItem(Cached(x), mods[k].items[j], j)
    BY RowMirrors
  <2>3. PICK j \in 1..Len(mods[k].items) :
           /\ x = <<k, j>>
           /\ k \in DOMAIN mods /\ j \in DOMAIN mods[k].items
           /\ panel.cache[k].id = mods[k].id
           /\ MirrorsItem(Cached(x), mods[k].items[j], j)
    BY <2>2
  <2>4. mods[k].items[j].kind # "cat" /\ s = <<mods[k].id, mods[k].items[j].id>>
    BY <2>1, <2>3 DEF MirrorsItem
  <2>. QED BY <2>3, <2>4, DeclaredPlaces
<1>2. ASSUME NEW s \in Declared(mods) PROVE s \in CachedSettings
  <2>1. PICK k \in DOMAIN mods : \E j \in DOMAIN mods[k].items :
             mods[k].items[j].kind # "cat" /\ s = <<mods[k].id, mods[k].items[j].id>>
    BY DeclaredPlaces
  <2>2. PICK j \in DOMAIN mods[k].items :
             mods[k].items[j].kind # "cat" /\ s = <<mods[k].id, mods[k].items[j].id>>
    BY <2>1
  <2>3. k \in DOMAIN panel.cache /\ j \in DOMAIN panel.cache[k].items
        /\ panel.cache[k].id = mods[k].id
        /\ MirrorsItem(panel.cache[k].items[j], mods[k].items[j], j)
    <3>1. /\ Mirrors(panel.cache, mods) /\ mods \in Seq(Mod)
          /\ panel.cache \in Seq(CachedMod)
      BY DEF McmInv, Models, Panels, PanelRecord
    <3>2. k \in 1..Len(mods) /\ mods[k] \in Mod
      BY <3>1
    <3>3. mods[k].items \in Seq(Item)
      BY <3>2 DEF Mod
    <3>4. j \in 1..Len(mods[k].items)
      BY <3>3
    <3>5. k \in DOMAIN panel.cache /\ MirrorsMod(panel.cache[k], mods[k], k, Len(mods[k].items))
      BY <3>1, <3>2 DEF Mirrors, Filled, MirrorsMods
    <3>6. panel.cache[k] \in CachedMod
      BY <3>1, <3>5
    <3>7. panel.cache[k].items \in Seq(Row)
      BY <3>6 DEF CachedMod
    <3>8. j \in DOMAIN panel.cache[k].items
      BY <3>4, <3>5, <3>7 DEF MirrorsMod
    <3>. QED BY <3>4, <3>5, <3>8 DEF MirrorsMod
  <2>. DEFINE x == <<k, j>>
  <2>4. x \in CachedItems /\ Cached(x) = panel.cache[k].items[j] /\ x[1] = k
    BY <2>3 DEF CachedItems, Cached
  <2>. HIDE DEF x
  <2>5. Cached(x).kind # "cat" /\ s = <<panel.cache[x[1]].id, Cached(x).id>>
    BY <2>2, <2>3, <2>4 DEF MirrorsItem
  <2>. QED BY <2>4, <2>5 DEF CachedSettings
<1>. QED BY <1>1, <1>2

(* The parts of FaithfulPanel together. *)
LEMMA InvFaithful == McmInv => FaithfulPanel
<1>. SUFFICES ASSUME McmInv PROVE FaithfulPanel
  OBVIOUS
<1>1. HeldOnce
  BY PlacesOnce DEF HeldOnce, McmInv
<1>. QED BY <1>1, InvTypes, InvIndices, InvOffers DEF FaithfulPanel

-----------------------------------------------------------------------------
(* The invariant holds, for any declarations of the plugins, and any number *)
(* of openings, gestures and calls into flash that fail.                    *)
THEOREM McmCorrect == Spec => []McmInv
<1>1. Init => McmInv
  BY InvInit
<1>2. McmInv /\ [Next]_vars => McmInv'
  BY NextStep, InvStuttering
<1>. QED BY <1>1, <1>2, PTL DEF Spec

(* After a push without a failed call the panel offers exactly the settings *)
(* of the model, each reporting its own place, and the model holds a        *)
(* setting once.                                                            *)
THEOREM FaithfulPanelHolds == Spec => []FaithfulPanel
BY McmCorrect, InvFaithful, PTL

(* Toggles and dropdowns show what the plugin stored.                       *)
THEOREM TogglesShowStoredHolds == Spec => []TogglesShowStored
BY McmCorrect, InvToggles, PTL

(* The menu and the mods agree about every setting that no rebuild left out *)
(* since its last edit, also when the edit went through a stale panel.      *)
THEOREM MenuAgreesWithModsHolds == Spec => []MenuAgreesWithMods
<1>1. McmInv => MenuAgreesWithMods
  BY DEF McmInv
<1>. QED BY <1>1, McmCorrect, PTL

(* Opening the menu shows a reported value, never an older session value.   *)
THEOREM LiveValuesShownHolds == Spec => LiveValuesShown
<1>1. McmInv /\ [Next]_vars =>
        [opens' # opens =>
           \A s \in Declared(mods') :
             ItemOf(mods', s).live => ItemOf(mods', s).val = applied[s]]_vars
  <2>. SUFFICES ASSUME McmInv, Next, opens' # opens
                PROVE  \A s \in Declared(mods') :
                         ItemOf(mods', s).live => ItemOf(mods', s).val = applied[s]
    BY DEF vars
  <2>1. opens \in Nat
    BY DEF McmInv, Counts
  <2>2. CASE OpenMCM
    BY <2>2, OpenStep
  <2>3. CASE ~OpenMCM
    <3>1. opens' = opens
      BY <2>3 DEF Next, RunTask, CloseMCM, PressEscape, Click, ResetHovered, StartDrag,
         KeyStepStart, Slide, Release, SelectMod, FocusSearch, OwnerChanges, PlayerOnly
    <3>. QED BY <3>1
  <2>. QED BY <2>2, <2>3
<1>. QED BY <1>1, McmCorrect, PTL DEF Spec, LiveValuesShown

(* The menu implements the session of McmSession: an edit under a complete  *)
(* panel changes the setting the player asked for, to the value asked for,  *)
(* and nothing else, and openings keep what no mod reports.                 *)
THEOREM McmImplementsSession == Spec => ImplementsSession
<1>1. Init => Session!Init
  <2>. SUFFICES ASSUME Init PROVE Session!Init
    OBVIOUS
  <2>1. mods = << >> /\ asked = NoEdit /\ complete = TRUE
    BY DEF Init
  <2>2. Declared(mods) = {}
    BY <2>1, EmptyModel
  <2>3. [s \in Declared(mods) |-> ItemOf(mods, s).val] = [s \in {} |-> NoEdit]
    BY <2>2
  <2>. QED BY <2>1, <2>3 DEF Session!Init
<1>2. McmInv /\ [Next]_vars => [Session!Next]_Session!vars
  <2>1. ASSUME McmInv, Next PROVE Session!Next
    BY <2>1, NextStep
  <2>2. ASSUME UNCHANGED vars PROVE UNCHANGED Session!vars
    BY <2>2 DEF vars, Session!vars
  <2>. QED BY <2>1, <2>2
<1>. QED BY <1>1, <1>2, McmCorrect, PTL DEF Spec, ImplementsSession, Session!Spec

=============================================================================
