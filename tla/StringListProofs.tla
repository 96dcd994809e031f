-------------------------- MODULE StringListProofs --------------------------
(***************************************************************************)
(* The lists own their strings and behave as the sequences of ListSpec,    *)
(* for any number of lists, any strings and any capacities.                *)
(***************************************************************************)
EXTENDS StringList, SequenceLemmas

Item == String \cup {Null}

(* The strings list l owns. *)
Held(l) == IF l \in exists THEN {slots[l][x] : x \in Filled(l)} ELSE {}

TextAt(l, x) == slots[l][x].text

(***************************************************************************)
(* The inductive invariant.  Unique has a list it sorted, in which what it *)
(* has kept ascends and what it has yet to read follows; a copy is a       *)
(* prefix of its original, in a list with room for the rest.               *)
(***************************************************************************)
Ascends(l, kept, read) ==
    /\ l \in exists
    /\ 1 <= kept /\ kept < read /\ read <= count[l] + 1
    /\ \A x, y \in 1 .. kept : x < y => TextAt(l, x) < TextAt(l, y)
    /\ \A x \in 1 .. kept, y \in read .. count[l] : TextAt(l, x) <= TextAt(l, y)
    /\ \A x, y \in read .. count[l] : x < y => TextAt(l, x) <= TextAt(l, y)

UniqueInv == Doing("unique") => Ascends(op.list, op.kept, op.read)

CopyInv ==
    Doing("copy") =>
        /\ op.from \in exists /\ op.list \in exists /\ op.from # op.list
        /\ count[op.list] <= count[op.from]
        /\ Capacity(slots[op.from]) <= Capacity(slots[op.list])
        /\ \A x \in 1 .. count[op.list] : TextAt(op.list, x) = TextAt(op.from, x)

IInv == TypeOK /\ ItemsOwned /\ UniqueInv /\ CopyInv

-----------------------------------------------------------------------------
(* Slots                                                                    *)

LEMMA Size ==
    ASSUME NEW n \in Nat, NEW s \in [1 .. n -> Item]
    PROVE  Capacity(s) = n /\ DOMAIN s = 1 .. n
<1>1. Cardinality(1 .. n) = n
  BY FS_Interval
<1> QED
  BY <1>1 DEF Capacity

(* The list has room, for one more item than n if there were n slots.       *)
LEMMA SlotsOf ==
    ASSUME TypeOK, NEW l \in List
    PROVE  /\ Capacity(slots[l]) \in 0 .. MaxCapacity
           /\ slots[l] \in [1 .. Capacity(slots[l]) -> Item]
           /\ DOMAIN slots[l] = 1 .. Capacity(slots[l])
           /\ count[l] \in 0 .. Capacity(slots[l])
<1>1. PICK n \in 0 .. MaxCapacity : slots[l] \in [1 .. n -> Item]
  BY DEF TypeOK, Item
<1>2. n \in Nat
  BY ListAssumption
<1>3. Capacity(slots[l]) = n /\ DOMAIN slots[l] = 1 .. n
  BY <1>1, <1>2, Size
<1>4. count[l] \in Nat /\ 1 .. count[l] \subseteq 1 .. n
  BY <1>3 DEF TypeOK
<1>5. count[l] <= n
  <2>1. CASE count[l] = 0
    BY <1>2, <2>1
  <2>2. CASE count[l] # 0
    <3>1. count[l] \in 1 .. count[l]
      BY <1>4, <2>2
    <3> QED
      BY <1>2, <1>4, <3>1
  <2> QED
    BY <2>1, <2>2
<1> QED
  BY <1>1, <1>2, <1>3, <1>4, <1>5

LEMMA GrownIs ==
    ASSUME NEW N \in Nat, NEW s \in [1 .. N -> Item], NEW n \in 0 .. N
    PROVE  /\ Capacity(Grown(s, n)) \in Nat
           /\ Grown(s, n) \in [1 .. Capacity(Grown(s, n)) -> Item]
           /\ N <= Capacity(Grown(s, n)) /\ n + 1 <= Capacity(Grown(s, n))
           /\ \A x \in 1 .. N : Grown(s, n)[x] = s[x]
           /\ n < N => Grown(s, n) = s
<1> DEFINE size == IF n < N THEN N ELSE IF N = 0 THEN DefaultCapacity ELSE 2 * N
<1>1. Capacity(s) = N /\ DOMAIN s = 1 .. N
  BY Size
<1>2. Grown(s, n) = [x \in 1 .. size |-> IF x \in 1 .. N THEN s[x] ELSE Null]
  BY <1>1 DEF Grown
<1>3. size \in Nat /\ N <= size /\ n + 1 <= size /\ (n < N => size = N)
  BY ListAssumption
<1> HIDE DEF size
<1>4. Grown(s, n) \in [1 .. size -> Item]
  BY <1>2, <1>3 DEF Item
<1>5. Capacity(Grown(s, n)) = size
  BY <1>3, <1>4, Size
<1>6. \A x \in 1 .. N : Grown(s, n)[x] = s[x]
  BY <1>2, <1>3
<1>7. n < N => Grown(s, n) = s
  BY <1>2, <1>3
<1> QED
  BY <1>3, <1>4, <1>5, <1>6, <1>7

LEMMA RemovedIs ==
    ASSUME NEW N \in Nat, NEW s \in [1 .. N -> Item], NEW n \in 1 .. N, NEW x \in 1 .. n
    PROVE  /\ Removed(s, n, x) \in [1 .. N -> Item]
           /\ \A y \in 1 .. n - 1 : Removed(s, n, x)[y] = IF y < x THEN s[y] ELSE s[y + 1]
<1>1. Removed(s, n, x) =
         [y \in 1 .. N |-> IF y = n THEN Null ELSE IF y \in x .. n THEN s[y + 1] ELSE s[y]]
  BY DEF Removed
<1> QED
  BY <1>1 DEF Item

(* What qsort leaves is a rearrangement: nothing is lost or doubled.        *)
LEMMA OrdersPermute ==
    ASSUME NEW s, NEW n \in Nat, NEW p \in Orders(s, n)
    PROVE  /\ p \in [1 .. n -> 1 .. n]
           /\ \A x, y \in 1 .. n : p[x] = p[y] => x = y
           /\ \A z \in 1 .. n : \E x \in 1 .. n : p[x] = z
           /\ \A x, y \in 1 .. n : x < y => s[p[x]].text <= s[p[y]].text
<1>1. p \in [1 .. n -> 1 .. n]
  BY DEF Orders
<1>2. \A x, y \in 1 .. n : x < y => p[x] # p[y]
  BY DEF Orders
<1>3. \A x, y \in 1 .. n : p[x] = p[y] => x = y
  BY <1>2
<1>4. \A z \in 1 .. n : \E x \in 1 .. n : p[x] = z
  <2>1. p \in Injection(1 .. n, 1 .. n)
    BY <1>1, <1>3 DEF Injection, IsInjective
  <2>2. IsFiniteSet(1 .. n)
    BY FS_Interval
  <2>3. p \in Surjection(1 .. n, 1 .. n)
    BY <2>1, <2>2, FS_Injection
  <2> QED
    BY <2>3 DEF Surjection
<1> QED
  BY <1>1, <1>3, <1>4 DEF Orders

-----------------------------------------------------------------------------
(* Type correctness                                                         *)

(* The other lists stay as they are. *)
Others(l) == \A k \in List \ {l} : slots'[k] = slots[k] /\ count'[k] = count[k]

LEMMA SlotsSet ==
    ASSUME TypeOK, NEW l \in List, NEW s, SetSlots(l, s)
    PROVE  /\ DOMAIN slots' = List
           /\ slots'[l] = s
           /\ \A k \in List \ {l} : slots'[k] = slots[k]
  BY DEF TypeOK, SetSlots

LEMMA CountSet ==
    ASSUME TypeOK, NEW l \in List, NEW n \in Nat, SetCount(l, n)
    PROVE  /\ count' \in [List -> Nat]
           /\ count'[l] = n
           /\ \A k \in List \ {l} : count'[k] = count[k]
  BY DEF TypeOK, SetCount

LEMMA TypeKept ==
    ASSUME TypeOK, NEW l \in List, NEW N \in 0 .. MaxCapacity,
           DOMAIN slots' = List, count' \in [List -> Nat], Others(l),
           slots'[l] \in [1 .. N -> Item], count'[l] <= N,
           exists' \subseteq List, live' \subseteq String, badFree' \in BOOLEAN,
           op' \in Operation \cup {Null}
    PROVE  TypeOK'
<1>1. N \in Nat
  BY ListAssumption
<1>2. DOMAIN slots'[l] = 1 .. N
  BY <1>1, Size
<1>3. 1 .. count'[l] \subseteq DOMAIN slots'[l]
  BY <1>1, <1>2
<1>4. \A k \in List : /\ \E n \in 0 .. MaxCapacity : slots'[k] \in [1 .. n -> Item]
                      /\ 1 .. count'[k] \subseteq DOMAIN slots'[k]
  BY <1>3 DEF TypeOK, Others, Item
<1> QED
  BY <1>4 DEF TypeOK, Item

LEMMA FreeType ==
    ASSUME TypeOK, NEW S, Free(S)
    PROVE  live' \subseteq String /\ badFree' \in BOOLEAN
  BY DEF TypeOK, Free

-----------------------------------------------------------------------------
(* What each operation does to its list: types stay, and so do the others.  *)

LEMMA InitialCapacityIs ==
    ASSUME NEW n \in Nat, NEW c \in InitialCapacity(n), c <= MaxCapacity
    PROVE  c \in 0 .. MaxCapacity /\ n <= c
  BY ListAssumption DEF InitialCapacity

LEMMA SizesIn == ASSUME NEW n \in Sizes PROVE n \in 0 .. MaxCapacity /\ n \in Nat
  BY ListAssumption

LEMMA CreateShape ==
    ASSUME TypeOK, NEW l \in List, NEW n \in Sizes, Create(l, n)
    PROVE  TypeOK' /\ Others(l) /\ count'[l] = 0
<1>1. PICK c \in InitialCapacity(n) : c <= MaxCapacity /\ SetSlots(l, Empty(c))
  BY DEF Create
<1>2. c \in 0 .. MaxCapacity
  BY <1>1, SizesIn, InitialCapacityIs
<1>3. Empty(c) \in [1 .. c -> Item]
  BY DEF Empty, Item
<1>4. SetCount(l, 0) /\ exists' \subseteq List
  BY DEF Create, TypeOK
<1>5. Others(l) /\ count'[l] = 0
  BY <1>1, <1>4, SlotsSet, CountSet DEF Others
<1>6. slots'[l] = Empty(c) /\ DOMAIN slots' = List /\ count' \in [List -> Nat]
  BY <1>1, <1>4, SlotsSet, CountSet
<1>7. live' \subseteq String /\ badFree' \in BOOLEAN /\ op' \in Operation \cup {Null}
  BY DEF Create, TypeOK
<1> QED
  BY <1>2, <1>3, <1>4, <1>5, <1>6, <1>7, TypeKept

LEMMA NoSlotsIs == NoSlots \in [1 .. 0 -> Item] /\ 0 \in 0 .. MaxCapacity
  BY ListAssumption DEF NoSlots

LEMMA FreeListShape ==
    ASSUME TypeOK, NEW l \in List, FreeList(l)
    PROVE  TypeOK' /\ Others(l) /\ count'[l] = 0
<1>1. SetSlots(l, NoSlots) /\ SetCount(l, 0) /\ exists' \subseteq List
  BY DEF FreeList, TypeOK
<1>2. live' \subseteq String /\ badFree' \in BOOLEAN
  BY FreeType DEF FreeList
<1>3. Others(l) /\ count'[l] = 0
  BY <1>1, SlotsSet, CountSet DEF Others
<1>4. slots'[l] = NoSlots /\ DOMAIN slots' = List /\ count' \in [List -> Nat]
  BY <1>1, SlotsSet, CountSet
<1>5. op' \in Operation \cup {Null}
  BY DEF FreeList, TypeOK
<1>6. slots'[l] \in [1 .. 0 -> Item] /\ count'[l] <= 0 /\ 0 \in 0 .. MaxCapacity
  BY <1>3, <1>4, NoSlotsIs
<1> QED
  BY <1>1, <1>2, <1>3, <1>4, <1>5, <1>6, TypeKept

(* What an array s of N slots, n of them used, is after room has been made  *)
(* and o has been put in at x.                                              *)
InsertedWell(N, s, n, x, o) ==
    /\ Capacity(Grown(s, n)) \in Nat
    /\ N <= Capacity(Grown(s, n)) /\ n + 1 <= Capacity(Grown(s, n))
    /\ Inserted(Grown(s, n), n, x, o) \in [1 .. Capacity(Grown(s, n)) -> Item]
    /\ \A y \in 1 .. n + 1 :
          /\ y < x => Inserted(Grown(s, n), n, x, o)[y] = s[y]
          /\ y = x => Inserted(Grown(s, n), n, x, o)[y] = o
          /\ y > x => Inserted(Grown(s, n), n, x, o)[y] = s[y - 1]

(* An item is put in at x, after room has been made.                        *)
LEMMA GrownInsertedIs ==
    ASSUME NEW N \in Nat, NEW s \in [1 .. N -> Item], NEW n \in 0 .. N,
           NEW x \in 1 .. n + 1, NEW o \in Item
    PROVE  InsertedWell(N, s, n, x, o)
<1>1. PICK M \in Nat : M = Capacity(Grown(s, n))
  BY GrownIs
<1>2. PICK g : g = Grown(s, n)
  OBVIOUS
<1>3. /\ g \in [1 .. M -> Item] /\ N <= M /\ n + 1 <= M
      /\ \A y \in 1 .. N : g[y] = s[y]
  BY <1>1, <1>2, GrownIs
<1>4. Inserted(g, n, x, o) =
         [y \in 1 .. M |-> IF y = x THEN o ELSE IF y \in x + 1 .. n + 1 THEN g[y - 1] ELSE g[y]]
  BY <1>3 DEF Inserted
<1>5. Inserted(g, n, x, o) \in [1 .. M -> Item]
  BY <1>3, <1>4
<1>6. ASSUME NEW y \in 1 .. n + 1
      PROVE  /\ y < x => Inserted(g, n, x, o)[y] = s[y]
             /\ y = x => Inserted(g, n, x, o)[y] = o
             /\ y > x => Inserted(g, n, x, o)[y] = s[y - 1]
  BY <1>3, <1>4
<1> QED
  BY <1>1, <1>2, <1>3, <1>5, <1>6 DEF InsertedWell

LEMMA InsertedShape ==
    ASSUME TypeOK, NEW l \in List, NEW x \in 1 .. count[l] + 1, NEW o \in String,
           Capacity(Grown(slots[l], count[l])) <= MaxCapacity,
           SetSlots(l, Inserted(Grown(slots[l], count[l]), count[l], x, o)),
           SetCount(l, count[l] + 1),
           live' = live \cup {o}, exists' = exists, badFree' = badFree, op' = op
    PROVE  /\ TypeOK' /\ Others(l) /\ count'[l] = count[l] + 1
           /\ \A y \in 1 .. count[l] + 1 :
                 /\ y < x => slots'[l][y] = slots[l][y]
                 /\ y = x => slots'[l][y] = o
                 /\ y > x => slots'[l][y] = slots[l][y - 1]
           /\ Capacity(slots[l]) <= Capacity(slots'[l])
<1>1. /\ Capacity(slots[l]) \in Nat /\ count[l] \in 0 .. Capacity(slots[l])
      /\ slots[l] \in [1 .. Capacity(slots[l]) -> Item] /\ o \in Item /\ count[l] \in Nat
  BY SlotsOf, ListAssumption DEF Item
<1>2. slots'[l] = Inserted(Grown(slots[l], count[l]), count[l], x, o)
  BY SlotsSet
<1>3. PICK M \in Nat :
         /\ M = Capacity(Grown(slots[l], count[l]))
         /\ Capacity(slots[l]) <= M /\ count[l] + 1 <= M
         /\ slots'[l] \in [1 .. M -> Item]
         /\ \A y \in 1 .. count[l] + 1 :
               /\ y < x => slots'[l][y] = slots[l][y]
               /\ y = x => slots'[l][y] = o
               /\ y > x => slots'[l][y] = slots[l][y - 1]
  <2>1. PICK N \in Nat : N = Capacity(slots[l])
    BY <1>1
  <2>2. PICK s \in [1 .. N -> Item], n \in 0 .. N : s = slots[l] /\ n = count[l]
    BY <1>1, <2>1
  <2>3. x \in 1 .. n + 1 /\ o \in Item
    BY <1>1, <2>2
  <2>4. InsertedWell(N, s, n, x, o)
    BY ONLY <2>1, <2>2, <2>3, GrownInsertedIs
  <2> QED
    BY ONLY <1>2, <2>1, <2>2, <2>4 DEF InsertedWell
<1>4. count[l] + 1 \in Nat /\ count'[l] = count[l] + 1
  BY <1>1, CountSet
<1>5. Others(l) /\ DOMAIN slots' = List /\ count' \in [List -> Nat]
  BY <1>4, SlotsSet, CountSet DEF Others
<1>6. M \in 0 .. MaxCapacity /\ count'[l] <= M
  BY <1>3, <1>4, ListAssumption
<1>7. /\ exists' \subseteq List /\ live' \subseteq String /\ badFree' \in BOOLEAN
      /\ op' \in Operation \cup {Null}
  BY DEF TypeOK
<1>8. TypeOK'
  BY <1>3, <1>5, <1>6, <1>7, TypeKept
<1>9. Capacity(slots'[l]) = M
  BY <1>3, Size
<1> QED
  BY <1>3, <1>4, <1>5, <1>8, <1>9

LEMMA InsertFailsShape ==
    ASSUME TypeOK, NEW l \in List, InsertFails(l)
    PROVE  /\ TypeOK' /\ Others(l) /\ count'[l] = count[l]
           /\ \A y \in 1 .. count[l] : slots'[l][y] = slots[l][y]
<1> DEFINE M == Capacity(Grown(slots[l], count[l]))
<1>1. /\ Capacity(slots[l]) \in Nat /\ count[l] \in 0 .. Capacity(slots[l])
      /\ slots[l] \in [1 .. Capacity(slots[l]) -> Item] /\ count[l] \in Nat
  BY SlotsOf, ListAssumption
<1>2. /\ M \in Nat /\ Grown(slots[l], count[l]) \in [1 .. M -> Item]
      /\ count[l] + 1 <= M
      /\ \A x \in 1 .. Capacity(slots[l]) : Grown(slots[l], count[l])[x] = slots[l][x]
  BY <1>1, GrownIs
<1>3. slots'[l] = Grown(slots[l], count[l]) /\ M <= MaxCapacity
  BY SlotsSet DEF InsertFails
<1> HIDE DEF M
<1>4. count' = count /\ Others(l) /\ DOMAIN slots' = List /\ count' \in [List -> Nat]
  BY SlotsSet DEF Others, InsertFails, TypeOK
<1>5. M \in 0 .. MaxCapacity /\ count'[l] <= M
  BY <1>1, <1>2, <1>3, <1>4, ListAssumption
<1>6. /\ exists' \subseteq List /\ live' \subseteq String /\ badFree' \in BOOLEAN
      /\ op' \in Operation \cup {Null}
  BY DEF InsertFails, TypeOK
<1>7. TypeOK'
  BY <1>2, <1>3, <1>4, <1>5, <1>6, TypeKept
<1> QED
  BY <1>1, <1>2, <1>3, <1>4, <1>7

(* A step that gives list l other slots of the same size.                   *)
LEMMA SameSize ==
    ASSUME TypeOK, NEW l \in List, NEW n \in 0 .. count[l],
           DOMAIN slots' = List, Others(l), count' \in [List -> Nat],
           slots'[l] \in [1 .. Capacity(slots[l]) -> Item], count'[l] = n,
           exists' \subseteq List, live' \subseteq String, badFree' \in BOOLEAN,
           op' \in Operation \cup {Null}
    PROVE  TypeOK' /\ Capacity(slots'[l]) = Capacity(slots[l])
<1>1. /\ Capacity(slots[l]) \in 0 .. MaxCapacity /\ count[l] \in 0 .. Capacity(slots[l])
      /\ Capacity(slots[l]) \in Nat
  BY SlotsOf, ListAssumption
<1>2. count'[l] <= Capacity(slots[l])
  BY <1>1
<1> QED
  BY <1>1, <1>2, TypeKept, Size

LEMMA RemoveShape ==
    ASSUME TypeOK, NEW l \in List, NEW x \in 1 .. MaxCapacity, RemoveItem(l, x)
    PROVE  /\ TypeOK' /\ Others(l) /\ count'[l] = count[l] - 1 /\ x \in 1 .. count[l]
           /\ \A y \in 1 .. count[l] - 1 :
                 slots'[l][y] = IF y < x THEN slots[l][y] ELSE slots[l][y + 1]
<1>1. /\ Capacity(slots[l]) \in Nat /\ count[l] \in 1 .. Capacity(slots[l])
      /\ slots[l] \in [1 .. Capacity(slots[l]) -> Item]
      /\ x \in 1 .. count[l] /\ count[l] - 1 \in Nat /\ count[l] - 1 \in 0 .. count[l]
  BY SlotsOf, ListAssumption DEF RemoveItem
<1>2. slots'[l] = Removed(slots[l], count[l], x) /\ count'[l] = count[l] - 1
  BY <1>1, SlotsSet, CountSet DEF RemoveItem
<1>3. Removed(slots[l], count[l], x) \in [1 .. Capacity(slots[l]) -> Item]
  BY <1>1, RemovedIs
<1>4. \A y \in 1 .. count[l] - 1 : Removed(slots[l], count[l], x)[y] =
         IF y < x THEN slots[l][y] ELSE slots[l][y + 1]
  BY <1>1, RemovedIs
<1>5. Others(l) /\ DOMAIN slots' = List /\ count' \in [List -> Nat]
  BY <1>1, SlotsSet, CountSet DEF Others, RemoveItem
<1>6. live' \subseteq String /\ badFree' \in BOOLEAN
  BY FreeType DEF RemoveItem
<1>7. exists' \subseteq List /\ op' \in Operation \cup {Null}
  BY DEF RemoveItem, TypeOK
<1>8. TypeOK'
  BY <1>1, <1>2, <1>3, <1>5, <1>6, <1>7, SameSize
<1> QED
  BY <1>1, <1>2, <1>4, <1>5, <1>8

LEMMA ClearShape ==
    ASSUME TypeOK, NEW l \in List, Clear(l)
    PROVE  TypeOK' /\ Others(l) /\ count'[l] = 0
<1>1. /\ slots[l] \in [1 .. Capacity(slots[l]) -> Item] /\ 0 \in 0 .. count[l]
      /\ DOMAIN slots[l] = 1 .. Capacity(slots[l])
  BY SlotsOf
<1>2. slots'[l] = [x \in DOMAIN slots[l] |-> IF x <= count[l] THEN Null ELSE slots[l][x]]
  BY SlotsSet DEF Clear
<1>3. slots'[l] \in [1 .. Capacity(slots[l]) -> Item]
  BY <1>1, <1>2 DEF Item
<1>4. Others(l) /\ count'[l] = 0 /\ DOMAIN slots' = List /\ count' \in [List -> Nat]
  BY SlotsSet, CountSet DEF Others, Clear
<1>5. live' \subseteq String /\ badFree' \in BOOLEAN
  BY FreeType DEF Clear
<1>6. exists' \subseteq List /\ op' \in Operation \cup {Null}
  BY DEF Clear, TypeOK
<1> QED
  BY <1>1, <1>3, <1>4, <1>5, <1>6, SameSize

LEMMA KeptIs ==
    ASSUME TypeOK, NEW l \in List, NEW n \in Nat
    PROVE  /\ Kept(l, n) \in 0 .. count[l] /\ Kept(l, n) <= n /\ Kept(l, n) \in Nat
           /\ Kept(l, n) \in 0 .. Capacity(slots[l])
<1>1. count[l] \in Nat /\ count[l] \in 0 .. Capacity(slots[l]) /\ Capacity(slots[l]) \in Nat
  BY SlotsOf, ListAssumption
<1> QED
  BY <1>1 DEF Kept

LEMMA ResizeShape ==
    ASSUME TypeOK, NEW l \in List, NEW n \in Sizes, Resize(l, n) \/ ResizeFails(l, n)
    PROVE  /\ TypeOK' /\ Others(l) /\ count'[l] = Kept(l, n)
           /\ \A y \in 1 .. Kept(l, n) : slots'[l][y] = slots[l][y]
<1>1. /\ Capacity(slots[l]) \in Nat /\ n \in Nat /\ n \in 0 .. MaxCapacity
      /\ slots[l] \in [1 .. Capacity(slots[l]) -> Item]
  BY SlotsOf, SizesIn, ListAssumption
<1>2. /\ Kept(l, n) \in Nat /\ Kept(l, n) <= n /\ Kept(l, n) \in 0 .. count[l]
      /\ Kept(l, n) <= Capacity(slots[l])
  BY <1>1, KeptIs
<1>3. count'[l] = Kept(l, n) /\ count' \in [List -> Nat]
      /\ \A k \in List \ {l} : count'[k] = count[k]
  BY <1>2, CountSet DEF Resize, ResizeFails
<1>4. live' \subseteq String /\ badFree' \in BOOLEAN
  BY FreeType DEF Resize, ResizeFails
<1>5. exists' \subseteq List /\ op' \in Operation \cup {Null}
  BY DEF Resize, ResizeFails, TypeOK
<1>6. CASE Resize(l, n)
  <2>1. /\ DOMAIN slots' = List /\ Others(l)
        /\ slots'[l] = [x \in 1 .. n |-> IF x <= Kept(l, n) THEN slots[l][x] ELSE Null]
    BY <1>3, <1>6, SlotsSet DEF Resize, Others
  <2>2. \A x \in 1 .. n : x <= Kept(l, n) => x \in 1 .. Capacity(slots[l])
    BY <1>1, <1>2
  <2>3. slots'[l] \in [1 .. n -> Item]
    BY <1>1, <2>1, <2>2 DEF Item
  <2>4. \A y \in 1 .. Kept(l, n) : slots'[l][y] = slots[l][y]
    BY <1>1, <1>2, <2>1
  <2>5. count'[l] <= n
    BY <1>2, <1>3
  <2> QED
    BY <1>1, <1>3, <1>4, <1>5, <2>1, <2>3, <2>4, <2>5, TypeKept
<1>7. CASE ResizeFails(l, n)
  <2>1. slots' = slots /\ Others(l) /\ DOMAIN slots' = List
    BY <1>3, <1>7 DEF ResizeFails, Others, TypeOK
  <2> QED
    BY <1>1, <1>2, <1>3, <1>4, <1>5, <2>1, SameSize
<1> QED
  BY <1>6, <1>7

(* Sorting rearranges the items of l and no others.                         *)
Rearranged(l) ==
    \E p \in [1 .. count[l] -> 1 .. count[l]] :
        /\ \A x, y \in 1 .. count[l] : p[x] = p[y] => x = y
        /\ \A z \in 1 .. count[l] : \E x \in 1 .. count[l] : p[x] = z
        /\ \A x, y \in 1 .. count[l] : x < y => TextAt(l, p[x]) <= TextAt(l, p[y])
        /\ \A x \in 1 .. count[l] : slots'[l][x] = slots[l][p[x]]

LEMMA SortShape ==
    ASSUME TypeOK, NEW l \in List, Sorting(l), count' = count, exists' = exists,
           live' = live, badFree' = badFree, op' \in Operation \cup {Null}
    PROVE  TypeOK' /\ Others(l) /\ count'[l] = count[l] /\ Rearranged(l)
<1>1. /\ Capacity(slots[l]) \in Nat /\ count[l] \in 0 .. Capacity(slots[l])
      /\ slots[l] \in [1 .. Capacity(slots[l]) -> Item] /\ count[l] \in Nat
      /\ DOMAIN slots[l] = 1 .. Capacity(slots[l])
  BY SlotsOf, ListAssumption
<1>2. PICK p \in Orders(slots[l], count[l]) :
         SetSlots(l, [x \in DOMAIN slots[l] |->
                         IF x <= count[l] THEN slots[l][p[x]] ELSE slots[l][x]])
  BY DEF Sorting
<1>3. slots'[l] = [x \in 1 .. Capacity(slots[l]) |->
                      IF x <= count[l] THEN slots[l][p[x]] ELSE slots[l][x]]
  BY <1>1, <1>2, SlotsSet
<1>4. Others(l) /\ DOMAIN slots' = List /\ count' \in [List -> Nat]
  BY <1>2, SlotsSet DEF Others, TypeOK
<1>5. /\ p \in [1 .. count[l] -> 1 .. count[l]]
      /\ \A x, y \in 1 .. count[l] : p[x] = p[y] => x = y
      /\ \A z \in 1 .. count[l] : \E x \in 1 .. count[l] : p[x] = z
      /\ \A x, y \in 1 .. count[l] : x < y => slots[l][p[x]].text <= slots[l][p[y]].text
  BY <1>1, OrdersPermute
<1>6. ASSUME NEW x \in 1 .. Capacity(slots[l]), x <= count[l]
      PROVE  p[x] \in 1 .. Capacity(slots[l])
  <2>1. x \in 1 .. count[l]
    BY <1>1, <1>6
  <2>2. p[x] \in 1 .. count[l]
    BY <1>5, <2>1
  <2> QED
    BY <1>1, <2>2
<1>7. slots'[l] \in [1 .. Capacity(slots[l]) -> Item]
  BY <1>1, <1>3, <1>6
<1>8. \A x \in 1 .. count[l] : slots'[l][x] = slots[l][p[x]]
  BY <1>1, <1>3
<1>9. Rearranged(l)
  BY <1>5, <1>8 DEF Rearranged, TextAt
<1>10. /\ exists' \subseteq List /\ live' \subseteq String /\ badFree' \in BOOLEAN
       /\ count'[l] \in 0 .. count[l]
  BY <1>1 DEF TypeOK
<1>11. TypeOK'
  BY <1>4, <1>7, <1>10, SameSize
<1> QED
  BY <1>4, <1>9, <1>11

-----------------------------------------------------------------------------
(* Unique and copy, one item at a time                                      *)

UniqueOp == [call : {"unique"}, list : List, kept : Nat, read : Nat]
CopyOp == [call : {"copy"}, from : List, list : List]

LEMMA OpIs ==
    ASSUME TypeOK
    PROVE  /\ Doing("unique") => op \in UniqueOp /\ op.list \in List /\ op.kept \in Nat
                                 /\ op.read \in Nat /\ ~Doing("copy") /\ op # Null
           /\ Doing("copy") => op \in CopyOp /\ op.list \in List /\ op.from \in List
                               /\ ~Doing("unique") /\ op # Null
           /\ op # Null => Doing("unique") \/ Doing("copy")
  BY DEF TypeOK, Doing, Operation, UniqueOp, CopyOp

LEMMA BeganIs ==
    ASSUME NEW l \in List
    PROVE  /\ [call |-> "unique", list |-> l, kept |-> 1, read |-> 2] \in Operation \ {Null}
           /\ \A k \in List :
                [call |-> "copy", from |-> l, list |-> k] \in Operation \ {Null}
<1>1. [call |-> "unique", list |-> l, kept |-> 1, read |-> 2] \in Operation
  BY DEF Operation
<1>2. \A k \in List : [call |-> "copy", from |-> l, list |-> k] \in Operation
  BY DEF Operation
<1>3. Null \notin Operation
  BY NullAssumption
<1> QED
  BY <1>1, <1>2, <1>3

(* A unique under way, with its numbers. *)
Unique(l, n, r) == op = [call |-> "unique", list |-> l, kept |-> n, read |-> r]

LEMMA UniqueIs ==
    ASSUME TypeOK, Doing("unique")
    PROVE  \E l \in List, n \in Nat, r \in Nat : Unique(l, n, r)
<1>1. op \in UniqueOp
  BY OpIs
<1> QED
  BY <1>1 DEF UniqueOp, Unique

LEMMA UniqueFields ==
    ASSUME NEW l \in List, NEW n \in Nat, NEW r \in Nat
    PROVE  /\ [call |-> "unique", list |-> l, kept |-> n, read |-> r] \in Operation \ {Null}
           /\ Unique(l, n, r) => /\ Doing("unique") /\ ~Doing("copy")
                                 /\ op.list = l /\ op.kept = n /\ op.read = r
<1>1. [call |-> "unique", list |-> l, kept |-> n, read |-> r] \in Operation
  BY DEF Operation
<1>2. [call |-> "unique", list |-> l, kept |-> n, read |-> r] # Null
  BY <1>1, NullAssumption
<1> QED
  BY <1>1, <1>2 DEF Unique, Doing

LEMMA UniqueBounds ==
    ASSUME TypeOK, ItemsOwned, UniqueInv, NEW l \in List, NEW n \in Nat, NEW r \in Nat,
           Unique(l, n, r), r <= count[l]
    PROVE  /\ l \in exists /\ 1 <= n /\ n < r /\ count[l] \in Nat /\ r \in 1 .. count[l]
           /\ r \in 1 .. Capacity(slots[l]) /\ n + 1 \in 1 .. Capacity(slots[l])
           /\ n + 1 # r => slots[l][n + 1] = Null
<1>1. /\ Capacity(slots[l]) \in Nat /\ count[l] \in 0 .. Capacity(slots[l]) /\ count[l] \in Nat
  BY SlotsOf, ListAssumption
<1>0. Doing("unique") /\ op.list = l /\ op.kept = n /\ op.read = r
  BY UniqueFields
<1>2. /\ l \in exists /\ 1 <= n /\ n < r
      /\ r \in 1 .. Capacity(slots[l]) /\ n + 1 \in 1 .. Capacity(slots[l])
  <2>1. l \in exists /\ 1 <= n /\ n < r
    BY <1>0 DEF UniqueInv, Ascends
  <2> QED
    BY <1>1, <2>1
<1>3. ASSUME n + 1 # r PROVE slots[l][n + 1] = Null
  <2>1. n + 1 \in Emptied(l)
    BY <1>0, <1>2, <1>3 DEF Emptied
  <2> QED
    BY <1>2, <2>1 DEF ItemsOwned
<1> QED
  BY <1>1, <1>2, <1>3

LEMMA UniqueKeepsShape ==
    ASSUME TypeOK, ItemsOwned, UniqueInv, NEW l \in List, NEW n \in Nat, NEW r \in Nat,
           Unique(l, n, r), UniqueKeeps
    PROVE  /\ TypeOK' /\ Others(l) /\ count' = count /\ exists' = exists
           /\ live' = live /\ badFree' = badFree
           /\ Unique(l, n + 1, r + 1)' /\ r <= count[l] /\ TextAt(l, r) # TextAt(l, n)
           /\ slots'[l][n + 1] = slots[l][r]
           /\ n + 1 # r => slots'[l][r] = Null
           /\ \A y \in 1 .. count[l] \ {n + 1, r} : slots'[l][y] = slots[l][y]
<1>1. /\ Doing("unique") /\ op.list = l /\ op.kept = n /\ op.read = r
  BY UniqueFields
<1>2. r <= count[l] /\ TextAt(l, r) # TextAt(l, n)
  BY <1>1 DEF UniqueKeeps, IsNew, TextAt
<1>3. /\ Capacity(slots[l]) \in Nat /\ count[l] \in 0 .. Capacity(slots[l])
      /\ slots[l] \in [1 .. Capacity(slots[l]) -> Item] /\ count[l] \in Nat
  BY SlotsOf, ListAssumption
<1>4. count' = count /\ exists' = exists /\ count' \in [List -> Nat]
      /\ count'[l] = count[l] /\ count[l] \in 0 .. count[l]
  BY <1>3 DEF UniqueKeeps, TypeOK
<1>5. Unique(l, n + 1, r + 1)'
  BY <1>1 DEF UniqueKeeps, Unique
<1>6. op' \in Operation \cup {Null}
  BY <1>5, UniqueFields DEF Unique
<1>7. CASE n + 1 = r
  <2>1. slots' = slots /\ live' = live /\ badFree' = badFree
    BY <1>1, <1>7 DEF UniqueKeeps
  <2>2. Others(l) /\ DOMAIN slots' = List
    BY <1>4, <2>1 DEF Others, TypeOK
  <2>3. exists' \subseteq List /\ live' \subseteq String /\ badFree' \in BOOLEAN
    BY <1>4, <2>1 DEF TypeOK
  <2>4. TypeOK'
    BY <1>3, <1>4, <1>6, <2>1, <2>2, <2>3, SameSize
  <2> QED
    BY <1>2, <1>4, <1>5, <1>7, <2>1, <2>2, <2>4
<1>8. CASE n + 1 # r
  <2>1. /\ SetSlots(l, [slots[l] EXCEPT ![n + 1] = slots[l][r], ![r] = Null])
        /\ Free({slots[l][n + 1]} \ {Null})
    BY <1>1, <1>8 DEF UniqueKeeps
  <2>2. /\ slots[l][n + 1] = Null
        /\ r \in 1 .. Capacity(slots[l]) /\ n + 1 \in 1 .. Capacity(slots[l])
    BY <1>2, <1>8, UniqueBounds
  <2>3. live' = live /\ badFree' = badFree
    BY <2>1, <2>2 DEF Free, TypeOK
  <2>4. Others(l) /\ DOMAIN slots' = List
        /\ slots'[l] = [slots[l] EXCEPT ![n + 1] = slots[l][r], ![r] = Null]
    BY <1>4, <2>1, SlotsSet DEF Others
  <2>5. slots'[l] \in [1 .. Capacity(slots[l]) -> Item]
    BY <1>3, <2>2, <2>4 DEF Item
  <2>6. /\ slots'[l][n + 1] = slots[l][r] /\ slots'[l][r] = Null
        /\ \A y \in 1 .. count[l] \ {n + 1, r} : slots'[l][y] = slots[l][y]
    BY <1>3, <1>8, <2>2, <2>4
  <2>7. exists' \subseteq List /\ live' \subseteq String /\ badFree' \in BOOLEAN
    BY <1>4, <2>3 DEF TypeOK
  <2>8. TypeOK'
    BY <1>3, <1>4, <1>6, <2>4, <2>5, <2>7, SameSize
  <2> QED
    BY <1>2, <1>4, <1>5, <2>3, <2>4, <2>6, <2>8
<1> QED
  BY <1>7, <1>8

LEMMA UniqueDropsShape ==
    ASSUME TypeOK, ItemsOwned, UniqueInv, NEW l \in List, NEW n \in Nat, NEW r \in Nat,
           Unique(l, n, r), UniqueDrops
    PROVE  /\ TypeOK' /\ Others(l) /\ count' = count /\ exists' = exists
           /\ live' = live \ {slots[l][r]}
           /\ badFree' = (badFree \/ ~({slots[l][r]} \subseteq live))
           /\ Unique(l, n, r + 1)' /\ r <= count[l] /\ TextAt(l, r) = TextAt(l, n)
           /\ slots'[l][r] = Null
           /\ \A y \in 1 .. count[l] \ {r} : slots'[l][y] = slots[l][y]
<1>1. /\ Doing("unique") /\ op.list = l /\ op.kept = n /\ op.read = r
  BY UniqueFields
<1>2. r <= count[l] /\ TextAt(l, r) = TextAt(l, n)
  BY <1>1 DEF UniqueDrops, IsNew, TextAt
<1>3. /\ Capacity(slots[l]) \in Nat /\ count[l] \in 0 .. Capacity(slots[l])
      /\ slots[l] \in [1 .. Capacity(slots[l]) -> Item] /\ count[l] \in Nat
  BY SlotsOf, ListAssumption
<1>4. count' = count /\ exists' = exists /\ count' \in [List -> Nat]
      /\ count'[l] = count[l] /\ count[l] \in 0 .. count[l]
  BY <1>3 DEF UniqueDrops, TypeOK
<1>5. Unique(l, n, r + 1)'
  BY <1>1 DEF UniqueDrops, Unique
<1>6. op' \in Operation \cup {Null}
  BY <1>5, UniqueFields DEF Unique
<1>7. SetSlots(l, [slots[l] EXCEPT ![r] = Null]) /\ Free({slots[l][r]})
  BY <1>1 DEF UniqueDrops
<1>8. r \in 1 .. Capacity(slots[l])
  BY <1>2, UniqueBounds
<1>9. Others(l) /\ DOMAIN slots' = List /\ slots'[l] = [slots[l] EXCEPT ![r] = Null]
  BY <1>4, <1>7, SlotsSet DEF Others
<1>10. slots'[l] \in [1 .. Capacity(slots[l]) -> Item]
  BY <1>3, <1>8, <1>9 DEF Item
<1>11. /\ slots'[l][r] = Null
       /\ \A y \in 1 .. count[l] \ {r} : slots'[l][y] = slots[l][y]
  BY <1>3, <1>8, <1>9
<1>12. exists' \subseteq List /\ live' \subseteq String /\ badFree' \in BOOLEAN
  BY <1>4, <1>7, FreeType DEF TypeOK
<1>13. TypeOK'
  BY <1>3, <1>4, <1>6, <1>9, <1>10, <1>12, SameSize
<1>14. /\ live' = live \ {slots[l][r]}
       /\ badFree' = (badFree \/ ~({slots[l][r]} \subseteq live))
  BY <1>7, Zenon DEF Free
<1> QED
  BY <1>2, <1>4, <1>5, <1>9, <1>11, <1>13, <1>14, Zenon

Copying(from, l) == op = [call |-> "copy", from |-> from, list |-> l]

LEMMA CopyIs ==
    ASSUME TypeOK, Doing("copy")
    PROVE  \E from \in List, l \in List : Copying(from, l)
<1>1. op \in CopyOp
  BY OpIs
<1> QED
  BY <1>1 DEF CopyOp, Copying

LEMMA CopyFields ==
    ASSUME NEW from \in List, NEW l \in List
    PROVE  /\ [call |-> "copy", from |-> from, list |-> l] \in Operation \ {Null}
           /\ Copying(from, l) => /\ Doing("copy") /\ ~Doing("unique")
                                  /\ op.from = from /\ op.list = l
<1>1. [call |-> "copy", from |-> from, list |-> l] \in Operation \ {Null}
  BY BeganIs
<1> QED
  BY <1>1 DEF Copying, Doing

LEMMA CopyBeginsShape ==
    ASSUME TypeOK, NEW from \in List, NEW l \in List, CopyBegins(from, l)
    PROVE  /\ TypeOK' /\ Others(l) /\ count'[l] = 0 /\ from # l
           /\ Capacity(slots[from]) <= Capacity(slots'[l])
<1>1. PICK c \in InitialCapacity(Capacity(slots[from])) :
         c <= MaxCapacity /\ SetSlots(l, Empty(c))
  BY DEF CopyBegins
<1>2. /\ from # l /\ SetCount(l, 0) /\ exists' \subseteq List
      /\ op' \in Operation \cup {Null} /\ live' \subseteq String /\ badFree' \in BOOLEAN
  BY CopyFields DEF CopyBegins, Calling, TypeOK
<1>3. Capacity(slots[from]) \in Nat
  BY SlotsOf, ListAssumption
<1>4. c \in 0 .. MaxCapacity /\ Capacity(slots[from]) <= c /\ c \in Nat
  BY <1>1, <1>3, InitialCapacityIs, ListAssumption
<1>5. Empty(c) \in [1 .. c -> Item]
  BY DEF Empty, Item
<1>6. Others(l) /\ count'[l] = 0 /\ slots'[l] = Empty(c) /\ DOMAIN slots' = List
      /\ count' \in [List -> Nat]
  BY <1>1, <1>2, SlotsSet, CountSet DEF Others
<1>7. TypeOK'
  BY <1>2, <1>4, <1>5, <1>6, TypeKept
<1>8. Capacity(slots'[l]) = c
  BY <1>4, <1>5, <1>6, Size
<1> QED
  BY <1>2, <1>4, <1>6, <1>7, <1>8

LEMMA CopyItemShape ==
    ASSUME TypeOK, CopyInv, NEW from \in List, NEW l \in List, Copying(from, l), CopyItem
    PROVE  \E o \in String :
              /\ o \notin live /\ live' = live \cup {o} /\ o.text = TextAt(from, count[l] + 1)
              /\ TypeOK' /\ Others(l) /\ count'[l] = count[l] + 1 /\ count[l] < count[from]
              /\ \A y \in 1 .. count[l] : slots'[l][y] = slots[l][y]
              /\ slots'[l][count[l] + 1] = o
              /\ Capacity(slots[l]) <= Capacity(slots'[l])
<1>1. Doing("copy") /\ op.from = from /\ op.list = l
  BY CopyFields
<1>2. PICK o \in String :
         /\ o.text = slots[from][count[l] + 1].text
         /\ \A string \in live : string.at # o.at
         /\ SetSlots(l, Inserted(Grown(slots[l], count[l]), count[l], count[l] + 1, o))
         /\ live' = live \cup {o}
  BY <1>1 DEF CopyItem
<1>3. /\ count[l] < count[from] /\ SetCount(l, count[l] + 1)
      /\ UNCHANGED <<exists, badFree, op>>
  BY <1>1 DEF CopyItem
<1>4. /\ Capacity(slots[l]) \in 0 .. MaxCapacity /\ count[l] \in 0 .. Capacity(slots[l])
      /\ slots[l] \in [1 .. Capacity(slots[l]) -> Item]
      /\ Capacity(slots[from]) \in 0 .. MaxCapacity
      /\ count[from] \in 0 .. Capacity(slots[from])
  BY SlotsOf
<1>5. Capacity(slots[from]) <= Capacity(slots[l])
  BY <1>1 DEF CopyInv
<1>6. count[l] < Capacity(slots[l]) /\ Capacity(slots[l]) \in Nat /\ count[l] \in Nat
  BY <1>3, <1>4, <1>5, ListAssumption
<1>7. Grown(slots[l], count[l]) = slots[l]
  BY <1>4, <1>6, GrownIs
<1>8. Capacity(Grown(slots[l], count[l])) <= MaxCapacity
  BY <1>4, <1>7, ListAssumption
<1>9. count[l] + 1 \in 1 .. count[l] + 1
  BY <1>6
<1>10. /\ TypeOK' /\ Others(l) /\ count'[l] = count[l] + 1
       /\ Capacity(slots[l]) <= Capacity(slots'[l])
  BY <1>2, <1>3, <1>8, <1>9, InsertedShape
<1>11. ASSUME NEW y \in 1 .. count[l] PROVE slots'[l][y] = slots[l][y]
  <2>1. y \in 1 .. count[l] + 1 /\ y < count[l] + 1
    BY <1>6
  <2> QED
    BY <1>2, <1>3, <1>8, <1>9, <2>1, InsertedShape
<1>12. slots'[l][count[l] + 1] = o
  BY <1>2, <1>3, <1>8, <1>9, InsertedShape
<1>13. o \notin live
  BY <1>2
<1> QED
  BY <1>2, <1>3, <1>10, <1>11, <1>12, <1>13 DEF TextAt

LEMMA CopyFailsShape ==
    ASSUME TypeOK, NEW from \in List, NEW l \in List, Copying(from, l), CopyFails
    PROVE  TypeOK' /\ Others(l) /\ count'[l] = 0
<1>1. op.list = l
  BY CopyFields
<1>2. /\ SetSlots(l, NoSlots) /\ SetCount(l, 0) /\ exists' \subseteq List
      /\ live' \subseteq String /\ badFree' \in BOOLEAN /\ op' \in Operation \cup {Null}
  BY <1>1, FreeType DEF CopyFails, TypeOK
<1>3. /\ Others(l) /\ count'[l] = 0 /\ slots'[l] = NoSlots /\ DOMAIN slots' = List
      /\ count' \in [List -> Nat]
  BY <1>2, SlotsSet, CountSet DEF Others
<1>4. slots'[l] \in [1 .. 0 -> Item] /\ count'[l] <= 0 /\ 0 \in 0 .. MaxCapacity
  BY <1>3, NoSlotsIs
<1> QED
  BY <1>2, <1>3, <1>4, TypeKept

LEMMA UniqueEndsShape ==
    ASSUME TypeOK, ItemsOwned, UniqueInv, NEW l \in List, NEW n \in Nat, NEW r \in Nat,
           Unique(l, n, r), UniqueEnds
    PROVE  /\ TypeOK' /\ Others(l) /\ count'[l] = n /\ slots' = slots
           /\ l \in exists /\ r = count[l] + 1 /\ 1 <= n /\ n <= count[l]
<1>1. /\ Doing("unique") /\ op.list = l /\ op.kept = n /\ op.read = r
  BY UniqueFields
<1>2. /\ Capacity(slots[l]) \in Nat /\ count[l] \in 0 .. Capacity(slots[l])
      /\ slots[l] \in [1 .. Capacity(slots[l]) -> Item] /\ count[l] \in Nat
  BY SlotsOf, ListAssumption
<1>3. l \in exists /\ 1 <= n /\ n < r /\ r <= count[l] + 1
  BY <1>1 DEF UniqueInv, Ascends
<1>4. r > count[l] /\ SetCount(l, n) /\ slots' = slots
  BY <1>1 DEF UniqueEnds
<1>5. r = count[l] + 1 /\ n \in 0 .. count[l] /\ n <= count[l]
  BY <1>2, <1>3, <1>4
<1>6. Others(l) /\ count'[l] = n /\ DOMAIN slots' = List /\ count' \in [List -> Nat]
  BY <1>4, CountSet DEF Others, TypeOK
<1>7. /\ exists' \subseteq List /\ live' \subseteq String /\ badFree' \in BOOLEAN
      /\ op' \in Operation \cup {Null}
  BY DEF UniqueEnds, TypeOK
<1>8. TypeOK'
  BY <1>2, <1>4, <1>5, <1>6, <1>7, SameSize
<1> QED
  BY <1>3, <1>4, <1>5, <1>6, <1>8

-----------------------------------------------------------------------------
(* Ownership                                                                *)

(* A step that changes what list l holds, and frees and allocates what it   *)
(* no longer holds or holds for the first time.                             *)
LEMMA OwnedStep ==
    ASSUME ItemsOwned, NEW l \in List, exists \subseteq List, exists' \subseteq List, ~badFree',
           \A k \in List \ {l} : /\ k \in exists' <=> k \in exists
                                 /\ slots'[k] = slots[k]
                                 /\ Filled(k)' = Filled(k) /\ Emptied(k)' = Emptied(k),
           l \in exists' =>
              /\ \A x, y \in Filled(l)' : slots'[l][x] = slots'[l][y] => x = y
              /\ \A x \in Emptied(l)' : slots'[l][x] = Null,
           live' = (live \ Held(l)) \cup Held(l)',
           \A s \in Held(l)' : s \in Held(l) \/ s \notin live
    PROVE  ItemsOwned'
<1>1. ASSUME NEW k \in exists', NEW x \in Filled(k)' PROVE slots'[k][x] \in live'
  <2>1. CASE k = l
    BY <1>1, <2>1 DEF Held
  <2>2. CASE k # l
    <3>1. k \in exists /\ x \in Filled(k) /\ slots'[k][x] = slots[k][x]
      BY <1>1, <2>2
    <3>2. slots[k][x] \in live
      BY <3>1 DEF ItemsOwned
    <3>3. slots[k][x] \notin Held(l)
      BY <3>1, <2>2 DEF ItemsOwned, Held
    <3> QED
      BY <3>1, <3>2, <3>3
  <2> QED
    BY <2>1, <2>2
<1>2. ASSUME NEW k \in exists', NEW x \in Emptied(k)' PROVE slots'[k][x] = Null
  <2>1. CASE k = l
    BY <1>2, <2>1
  <2>2. CASE k # l
    BY <1>2, <2>2 DEF ItemsOwned
  <2> QED
    BY <2>1, <2>2
<1>3. ASSUME NEW k \in exists' \ {l}, NEW x \in Filled(k)', NEW y \in Filled(l)', l \in exists'
      PROVE  slots'[k][x] # slots'[l][y]
  <2>1. k \in exists /\ x \in Filled(k) /\ slots'[k][x] = slots[k][x]
    BY <1>3
  <2>2. slots[k][x] \in live /\ slots[k][x] \notin Held(l)
    BY <2>1, <1>3 DEF ItemsOwned, Held
  <2>3. slots'[l][y] \in Held(l)'
    BY <1>3 DEF Held
  <2> QED
    BY <2>1, <2>2, <2>3
<1>4. ASSUME NEW k \in exists', NEW m \in exists', NEW x \in Filled(k)', NEW y \in Filled(m)',
             slots'[k][x] = slots'[m][y]
      PROVE  k = m /\ x = y
  <2>1. CASE k = l /\ m = l
    BY <1>4, <2>1
  <2>2. CASE k # l /\ m = l
    BY <1>3, <1>4, <2>2
  <2>3. CASE k = l /\ m # l
    BY <1>3, <1>4, <2>3
  <2>4. CASE k # l /\ m # l
    <3>1. /\ k \in exists /\ m \in exists /\ x \in Filled(k) /\ y \in Filled(m)
          /\ slots[k][x] = slots[m][y]
      BY <1>4, <2>4
    <3> QED
      BY <3>1 DEF ItemsOwned
  <2> QED
    BY <2>1, <2>2, <2>3, <2>4
<1>5. ASSUME NEW s \in live' PROVE \E k \in exists' : \E x \in Filled(k)' : slots'[k][x] = s
  <2>1. CASE s \in Held(l)'
    BY <2>1 DEF Held
  <2>2. CASE s \notin Held(l)'
    <3>1. s \in live /\ s \notin Held(l)
      BY <2>2, <1>5
    <3>2. PICK k \in exists : \E x \in Filled(k) : slots[k][x] = s
      BY <3>1 DEF ItemsOwned
    <3>3. k # l
      BY <3>1, <3>2 DEF Held
    <3> QED
      BY <3>2, <3>3
  <2> QED
    BY <2>1, <2>2
<1> QED
  BY <1>1, <1>2, <1>4, <1>5 DEF ItemsOwned

(* With nothing under way every place is filled.                            *)
LEMMA Idle ==
    ASSUME NEW l, op = Null \/ ~Doing("unique") \/ op.list # l
    PROVE  Emptied(l) = {} /\ Filled(l) = 1 .. count[l]
  BY DEF Emptied, Filled, Doing

LEMMA NextIdle ==
    ASSUME NEW l, op' = Null \/ ~Doing("unique")' \/ op'.list # l
    PROVE  Emptied(l)' = {} /\ Filled(l)' = 1 .. count'[l]
  BY DEF Emptied, Filled, Doing

LEMMA UniquePlaces ==
    ASSUME NEW l \in List, NEW n \in Nat, NEW r \in Nat, Unique(l, n, r)
    PROVE  /\ Emptied(l) = n + 1 .. r - 1
           /\ Filled(l) = (1 .. count[l]) \ (n + 1 .. r - 1)
  BY UniqueFields DEF Emptied, Filled

LEMMA NextUniquePlaces ==
    ASSUME NEW l \in List, NEW n \in Nat, NEW r \in Nat, Unique(l, n, r)'
    PROVE  /\ Emptied(l)' = n + 1 .. r - 1
           /\ Filled(l)' = (1 .. count'[l]) \ (n + 1 .. r - 1)
<1>1. op' # Null /\ op'.call = "unique" /\ op'.list = l /\ op'.kept = n /\ op'.read = r
  BY UniqueFields DEF Unique
<1> QED
  BY <1>1 DEF Emptied, Filled, Doing

(* A step on list l alone. *)
OnlyOn(l) ==
    /\ Others(l)
    /\ op = Null \/ op.list = l
    /\ op' = Null \/ op'.list = l
    /\ \A k \in List \ {l} : k \in exists' <=> k \in exists

LEMMA OnlyOnPlaces ==
    ASSUME NEW l \in List, OnlyOn(l)
    PROVE  \A k \in List \ {l} : Filled(k)' = Filled(k) /\ Emptied(k)' = Emptied(k)
<1> TAKE k \in List \ {l}
<1>1. Emptied(k) = {} /\ Filled(k) = 1 .. count[k]
  BY Idle DEF OnlyOn
<1>2. Emptied(k)' = {} /\ Filled(k)' = 1 .. count'[k]
  BY NextIdle DEF OnlyOn
<1>3. count'[k] = count[k]
  BY DEF OnlyOn, Others
<1> QED
  BY <1>1, <1>2, <1>3

LEMMA OwnedStepOn ==
    ASSUME TypeOK, TypeOK', ItemsOwned, NEW l \in List, OnlyOn(l), ~badFree',
           l \in exists' =>
              /\ \A x, y \in Filled(l)' : slots'[l][x] = slots'[l][y] => x = y
              /\ \A x \in Emptied(l)' : slots'[l][x] = Null,
           live' = (live \ Held(l)) \cup Held(l)',
           \A s \in Held(l)' : s \in Held(l) \/ s \notin live
    PROVE  ItemsOwned'
<1>1. exists \subseteq List /\ exists' \subseteq List
  BY DEF TypeOK
<1>2. \A k \in List \ {l} : /\ k \in exists' <=> k \in exists
                            /\ slots'[k] = slots[k]
                            /\ Filled(k)' = Filled(k) /\ Emptied(k)' = Emptied(k)
  BY OnlyOnPlaces DEF OnlyOn, Others
<1> QED
  BY <1>1, <1>2, OwnedStep

LEMMA FreeOwned ==
    ASSUME ItemsOwned, NEW S, Free(S), S \subseteq live
    PROVE  ~badFree' /\ live' = live \ S
  BY DEF Free, ItemsOwned

LEMMA HeldIs ==
    ASSUME TypeOK, ItemsOwned, NEW l \in List
    PROVE  /\ Held(l) \subseteq live /\ Null \notin Held(l)
           /\ l \in exists /\ op = Null => Held(l) = {slots[l][x] : x \in 1 .. count[l]}
           /\ l \notin exists => Held(l) = {}
           /\ l \in exists =>
                 \A x, y \in Filled(l) : slots[l][x] = slots[l][y] => x = y
<1>1. Held(l) \subseteq live
  BY DEF Held, ItemsOwned
<1>2. Null \notin live
  BY NullAssumption DEF TypeOK
<1>3. op = Null => Filled(l) = 1 .. count[l]
  BY Idle
<1>4. l \in exists => \A x, y \in Filled(l) : slots[l][x] = slots[l][y] => x = y
  BY DEF ItemsOwned
<1> QED
  BY <1>1, <1>2, <1>3, <1>4 DEF Held

(* A call on list l, without another under way, that leaves it empty.       *)
LEMMA OwnedEmptied ==
    ASSUME TypeOK, TypeOK', ItemsOwned, NEW l \in List, OnlyOn(l), ~badFree',
           l \notin exists' \/ (count'[l] = 0 /\ (op' = Null \/ ~Doing("unique")')),
           live' = live \ Held(l)
    PROVE  ItemsOwned'
<1>1. l \in exists' => Filled(l)' = {} /\ Emptied(l)' = {}
  <2>1. CASE l \in exists'
    <3>1. Emptied(l)' = {} /\ Filled(l)' = 1 .. count'[l] /\ count'[l] = 0
      BY <2>1, NextIdle
    <3> QED
      BY <3>1
  <2> QED
    BY <2>1
<1>2. Held(l)' = {}
  BY <1>1 DEF Held
<1> QED
  BY <1>1, <1>2, OwnedStepOn

LEMMA CreateOwned ==
    ASSUME TypeOK, ItemsOwned, NEW l \in List, NEW n \in Sizes, Create(l, n)
    PROVE  ItemsOwned'
<1>1. TypeOK' /\ Others(l) /\ count'[l] = 0
  BY CreateShape
<1>2. OnlyOn(l) /\ ~badFree' /\ op' = Null /\ live' = live /\ Held(l) = {}
  BY <1>1 DEF OnlyOn, Create, ItemsOwned, Held
<1> QED
  BY <1>1, <1>2, OwnedEmptied

LEMMA FreeListOwned ==
    ASSUME TypeOK, ItemsOwned, NEW l \in List, FreeList(l) \/ Clear(l)
    PROVE  ItemsOwned'
<1>1. TypeOK' /\ Others(l) /\ count'[l] = 0
  BY FreeListShape, ClearShape
<1>2. OnlyOn(l) /\ op = Null /\ op' = Null /\ l \in exists
  BY <1>1 DEF OnlyOn, FreeList, Clear, Calling
<1>3. Items(l) \ {Null} = Held(l)
  BY <1>2, HeldIs DEF Items, Range1
<1>4. ~badFree' /\ live' = live \ Held(l)
  BY <1>3, HeldIs, FreeOwned DEF FreeList, Clear
<1> QED
  BY <1>1, <1>2, <1>4, OwnedEmptied

(* An operation other than unique leaves list l, its places all filled.     *)
LEMMA OwnedPlain ==
    ASSUME TypeOK, TypeOK', ItemsOwned, NEW l \in List, OnlyOn(l), ~badFree', l \in exists',
           op' = Null \/ ~Doing("unique")',
           \A x, y \in 1 .. count'[l] : slots'[l][x] = slots'[l][y] => x = y,
           live' = (live \ Held(l)) \cup {slots'[l][x] : x \in 1 .. count'[l]},
           \A x \in 1 .. count'[l] : slots'[l][x] \in Held(l) \/ slots'[l][x] \notin live
    PROVE  ItemsOwned'
<1>1. Emptied(l)' = {} /\ Filled(l)' = 1 .. count'[l]
  BY NextIdle
<1>2. Held(l)' = {slots'[l][x] : x \in 1 .. count'[l]}
  BY <1>1 DEF Held
<1> QED
  BY <1>1, <1>2, OwnedStepOn

LEMMA InsertedOwned ==
    ASSUME TypeOK, TypeOK', ItemsOwned, NEW l \in List, OnlyOn(l), l \in exists, l \in exists',
           op = Null \/ ~Doing("unique"), op' = Null \/ ~Doing("unique")',
           NEW x \in 1 .. count[l] + 1, NEW o, o \notin live, live' = live \cup {o},
           badFree' = badFree, count'[l] = count[l] + 1,
           \A y \in 1 .. count[l] + 1 :
              /\ y < x => slots'[l][y] = slots[l][y]
              /\ y = x => slots'[l][y] = o
              /\ y > x => slots'[l][y] = slots[l][y - 1]
    PROVE  ItemsOwned'
<1> DEFINE n == count[l]
           from(y) == IF y < x THEN y ELSE y - 1
<1>1. n \in Nat
  BY DEF TypeOK
<1>2. Filled(l) = 1 .. n
  BY Idle
<1>3. /\ Held(l) = {slots[l][y] : y \in 1 .. n} /\ Held(l) \subseteq live
      /\ \A y, z \in 1 .. n : slots[l][y] = slots[l][z] => y = z
  BY <1>2, HeldIs DEF Held
<1>4. ASSUME NEW y \in 1 .. n + 1
      PROVE  /\ y = x => slots'[l][y] = o
             /\ y # x => from(y) \in 1 .. n /\ slots'[l][y] = slots[l][from(y)]
  <2>1. y # x => from(y) \in 1 .. n
    BY <1>1
  <2>2. y = x => slots'[l][y] = o
    OBVIOUS
  <2>3. y < x => slots'[l][y] = slots[l][y]
    OBVIOUS
  <2>4. y > x => slots'[l][y] = slots[l][y - 1]
    OBVIOUS
  <2> QED
    BY <1>1, <2>1, <2>2, <2>3, <2>4
<1>5. \A y \in 1 .. n + 1 : y # x => slots'[l][y] \in live /\ slots'[l][y] \in Held(l)
  BY <1>3, <1>4
<1>6. ASSUME NEW y \in 1 .. n + 1, NEW z \in 1 .. n + 1, slots'[l][y] = slots'[l][z]
      PROVE  y = z
  <2>1. CASE y # x /\ z # x
    <3>1. from(y) = from(z)
      BY <1>3, <1>4, <1>6, <2>1
    <3> QED
      BY <1>1, <2>1, <3>1
  <2>2. CASE y = x \/ z = x
    BY <1>4, <1>5, <1>6, <2>2
  <2> QED
    BY <2>1, <2>2
<1>7. ASSUME NEW s \in Held(l) PROVE \E y \in 1 .. n + 1 : slots'[l][y] = s
  <2>1. PICK z \in 1 .. n : slots[l][z] = s
    BY <1>3
  <2>2. CASE z < x
    BY <1>1, <2>1, <2>2
  <2>3. CASE z >= x
    <3>1. z + 1 \in 1 .. n + 1 /\ z + 1 > x /\ (z + 1) - 1 = z
      BY <1>1, <2>3
    <3>2. slots'[l][z + 1] = slots[l][(z + 1) - 1]
      BY <3>1
    <3> QED
      BY <2>1, <3>1, <3>2
  <2> QED
    BY <1>1, <2>2, <2>3
<1>8. slots'[l][x] = o /\ x \in 1 .. n + 1
  OBVIOUS
<1>9. live' = (live \ Held(l)) \cup {slots'[l][y] : y \in 1 .. n + 1}
  <2> DEFINE T == {slots'[l][y] : y \in 1 .. n + 1}
  <2>1. T \subseteq Held(l) \cup {o}
    BY <1>4, <1>5
  <2>2. Held(l) \subseteq T
    BY <1>7
  <2>3. o \in T
    BY <1>8
  <2> HIDE DEF T
  <2>4. live' = (live \ Held(l)) \cup T
    BY <1>3, <2>1, <2>2, <2>3
  <2> QED
    BY <2>4 DEF T
<1>10. ~badFree' /\ \A y \in 1 .. n + 1 : slots'[l][y] \in Held(l) \/ slots'[l][y] \notin live
  BY <1>4, <1>5 DEF ItemsOwned
<1> QED
  BY <1>6, <1>9, <1>10, OwnedPlain

LEMMA InsertOwned ==
    ASSUME TypeOK, ItemsOwned, NEW l \in List, NEW x, NEW t, Insert(l, x, t)
    PROVE  ItemsOwned'
<1>1. PICK o \in String :
         /\ \A string \in live : string.at # o.at
         /\ SetSlots(l, Inserted(Grown(slots[l], count[l]), count[l], x, o))
         /\ live' = live \cup {o}
  BY DEF Insert
<1>2. /\ x \in 1 .. count[l] + 1 /\ Capacity(Grown(slots[l], count[l])) <= MaxCapacity
      /\ SetCount(l, count[l] + 1) /\ op = Null /\ l \in exists
      /\ exists' = exists /\ badFree' = badFree /\ op' = op
  BY DEF Insert, Calling
<1>3. /\ TypeOK' /\ Others(l) /\ count'[l] = count[l] + 1
      /\ \A y \in 1 .. count[l] + 1 :
            /\ y < x => slots'[l][y] = slots[l][y]
            /\ y = x => slots'[l][y] = o
            /\ y > x => slots'[l][y] = slots[l][y - 1]
  BY <1>1, <1>2, InsertedShape
<1>4. OnlyOn(l) /\ o \notin live
  BY <1>1, <1>2, <1>3 DEF OnlyOn
<1> QED
  BY <1>1, <1>2, <1>3, <1>4, InsertedOwned

LEMMA CopyItemOwned ==
    ASSUME TypeOK, ItemsOwned, CopyInv, NEW from \in List, NEW l \in List, Copying(from, l),
           CopyItem
    PROVE  ItemsOwned'
<1>1. PICK o \in String :
         /\ o \notin live /\ live' = live \cup {o}
         /\ TypeOK' /\ Others(l) /\ count'[l] = count[l] + 1
         /\ \A y \in 1 .. count[l] : slots'[l][y] = slots[l][y]
         /\ slots'[l][count[l] + 1] = o
  BY CopyItemShape
<1>2. count[l] \in Nat
  BY DEF TypeOK
<1>3. /\ op.list = l /\ ~Doing("unique") /\ op' = op /\ badFree' = badFree
      /\ exists' = exists /\ l \in exists
  BY CopyFields DEF CopyItem, CopyInv
<1>4. OnlyOn(l) /\ ~Doing("unique")'
  BY <1>1, <1>3 DEF OnlyOn, Doing
<1>5. /\ count[l] + 1 \in 1 .. count[l] + 1
      /\ \A y \in 1 .. count[l] + 1 :
            /\ y < count[l] + 1 => slots'[l][y] = slots[l][y]
            /\ y = count[l] + 1 => slots'[l][y] = o
            /\ y > count[l] + 1 => slots'[l][y] = slots[l][y - 1]
  BY <1>1, <1>2
<1> QED
  BY <1>1, <1>3, <1>4, <1>5, InsertedOwned

(* A step that keeps the first n items of list l, frees the others, and     *)
(* leaves the slots of those it keeps alone.                                *)
LEMMA TruncatedOwned ==
    ASSUME TypeOK, TypeOK', ItemsOwned, NEW l \in List, OnlyOn(l), l \in exists, l \in exists',
           op = Null, op' = Null, NEW n \in 0 .. count[l], count'[l] = n,
           \A y \in 1 .. n : slots'[l][y] = slots[l][y],
           ~badFree', live' = live \ ({slots[l][y] : y \in n + 1 .. count[l]} \ {Null})
    PROVE  ItemsOwned'
<1> DEFINE K == {slots[l][y] : y \in 1 .. n}
           C == {slots[l][y] : y \in n + 1 .. count[l]}
<1>1. count[l] \in Nat /\ n \in Nat /\ n <= count[l]
  BY DEF TypeOK
<1>2. Filled(l) = 1 .. count[l]
  BY Idle
<1>3. /\ Held(l) = {slots[l][y] : y \in 1 .. count[l]} /\ Held(l) \subseteq live
      /\ Null \notin Held(l)
      /\ \A y, z \in 1 .. count[l] : slots[l][y] = slots[l][z] => y = z
  BY <1>2, HeldIs DEF Held
<1>4. K \cap C = {}
  BY <1>1, <1>3
<1>5. K \cup C = Held(l)
  <2>1. \A y \in 1 .. count[l] : y \in 1 .. n \/ y \in n + 1 .. count[l]
    BY <1>1
  <2>2. \A y \in 1 .. n : y \in 1 .. count[l]
    BY <1>1
  <2>3. \A y \in n + 1 .. count[l] : y \in 1 .. count[l]
    BY <1>1
  <2> QED
    BY <1>3, <2>1, <2>2, <2>3
<1>6. {slots'[l][y] : y \in 1 .. count'[l]} = K
  OBVIOUS
<1>7. live' = live \ (C \ {Null})
  OBVIOUS
<1> HIDE DEF K, C
<1>8. live' = (live \ Held(l)) \cup K
  BY <1>3, <1>4, <1>5, <1>7
<1>9. \A x, y \in 1 .. count'[l] : slots'[l][x] = slots'[l][y] => x = y
  BY <1>1, <1>3
<1>10. \A x \in 1 .. count'[l] : slots'[l][x] \in Held(l)
  BY <1>5 DEF K
<1> QED
  BY <1>6, <1>8, <1>9, <1>10, OwnedPlain

LEMMA InsertFailsOwned ==
    ASSUME TypeOK, ItemsOwned, NEW l \in List, InsertFails(l)
    PROVE  ItemsOwned'
<1>1. /\ TypeOK' /\ Others(l) /\ count'[l] = count[l]
      /\ \A y \in 1 .. count[l] : slots'[l][y] = slots[l][y]
  BY InsertFailsShape
<1>2. /\ OnlyOn(l) /\ op = Null /\ op' = Null /\ l \in exists /\ l \in exists'
      /\ ~badFree' /\ live' = live
  BY <1>1 DEF OnlyOn, InsertFails, Calling, ItemsOwned
<1>3. count[l] \in 0 .. count[l] /\ count[l] + 1 .. count[l] = {}
  BY DEF TypeOK
<1> QED
  BY <1>1, <1>2, <1>3, TruncatedOwned

LEMMA ResizeOwned ==
    ASSUME TypeOK, ItemsOwned, NEW l \in List, NEW n \in Sizes, Resize(l, n) \/ ResizeFails(l, n)
    PROVE  ItemsOwned'
<1>1. /\ TypeOK' /\ Others(l) /\ count'[l] = Kept(l, n)
      /\ \A y \in 1 .. Kept(l, n) : slots'[l][y] = slots[l][y]
  BY ResizeShape
<1>2. /\ OnlyOn(l) /\ op = Null /\ op' = Null /\ l \in exists /\ l \in exists'
  BY <1>1 DEF OnlyOn, Resize, ResizeFails, Calling
<1>3. Kept(l, n) \in 0 .. count[l] /\ Kept(l, n) \in Nat /\ count[l] \in Nat
  BY SizesIn, KeptIs DEF TypeOK
<1>4. \A x \in 1 .. count[l] : slots[l][x] \in live
  BY <1>2, Idle DEF ItemsOwned
<1>5. Cut(l, n) \subseteq live
  BY <1>3, <1>4 DEF Cut
<1>6. ~badFree' /\ live' = live \ Cut(l, n)
  BY <1>5, FreeOwned DEF Resize, ResizeFails
<1>7. Cut(l, n) = {slots[l][y] : y \in Kept(l, n) + 1 .. count[l]} \ {Null}
  BY DEF Cut
<1> QED
  BY <1>1, <1>2, <1>3, <1>6, <1>7, TruncatedOwned

LEMMA RemoveOwned ==
    ASSUME TypeOK, ItemsOwned, NEW l \in List, NEW x \in 1 .. MaxCapacity, RemoveItem(l, x)
    PROVE  ItemsOwned'
<1> DEFINE n == count[l]
           from(y) == IF y < x THEN y ELSE y + 1
<1>1. /\ TypeOK' /\ Others(l) /\ count'[l] = n - 1 /\ x \in 1 .. n
      /\ \A y \in 1 .. n - 1 : slots'[l][y] = IF y < x THEN slots[l][y] ELSE slots[l][y + 1]
  BY RemoveShape
<1>2. OnlyOn(l) /\ op = Null /\ op' = Null /\ l \in exists /\ l \in exists'
  BY <1>1 DEF OnlyOn, RemoveItem, Calling
<1>3. n \in Nat
  BY DEF TypeOK
<1>4. /\ Held(l) = {slots[l][y] : y \in 1 .. n} /\ Held(l) \subseteq live
      /\ Null \notin Held(l)
      /\ \A y, z \in 1 .. n : slots[l][y] = slots[l][z] => y = z
  <2>1. Filled(l) = 1 .. n
    BY <1>2, Idle
  <2> QED
    BY <1>2, <2>1, HeldIs DEF Held
<1>5. slots[l][x] \in Held(l)
  BY <1>1, <1>4
<1>6. Free({slots[l][x]} \ {Null}) /\ {slots[l][x]} \ {Null} = {slots[l][x]}
  BY <1>4, <1>5 DEF RemoveItem
<1>7. ~badFree' /\ live' = live \ {slots[l][x]}
  BY <1>4, <1>5, <1>6, FreeOwned
<1>8. ASSUME NEW y \in 1 .. n - 1
      PROVE  from(y) \in 1 .. n /\ from(y) # x /\ slots'[l][y] = slots[l][from(y)]
  BY <1>1, <1>3
<1>9. ASSUME NEW y \in 1 .. n - 1, NEW z \in 1 .. n - 1, slots'[l][y] = slots'[l][z]
      PROVE  y = z
  <2>1. from(y) = from(z)
    BY <1>4, <1>8, <1>9
  <2> QED
    BY <1>1, <1>3, <2>1
<1>10. ASSUME NEW s \in Held(l), s # slots[l][x]
       PROVE  \E y \in 1 .. n - 1 : slots'[l][y] = s
  <2>1. PICK z \in 1 .. n : slots[l][z] = s
    BY <1>4
  <2>2. z # x
    BY <1>10, <2>1
  <2>3. CASE z < x
    <3>1. z \in 1 .. n - 1
      BY <1>1, <1>3, <2>3
    <3> QED
      BY <1>1, <2>1, <2>3, <3>1
  <2>4. CASE z > x
    <3>1. z - 1 \in 1 .. n - 1 /\ ~(z - 1 < x) /\ (z - 1) + 1 = z
      BY <1>1, <1>3, <2>4
    <3>2. slots'[l][z - 1] = slots[l][(z - 1) + 1]
      BY <1>1, <3>1
    <3> QED
      BY <2>1, <3>1, <3>2
  <2> QED
    BY <1>1, <1>3, <2>2, <2>3, <2>4
<1> DEFINE T == {slots'[l][y] : y \in 1 .. n - 1}
<1>11. T = Held(l) \ {slots[l][x]}
  <2>1. \A y \in 1 .. n - 1 : slots'[l][y] \in Held(l) /\ slots'[l][y] # slots[l][x]
    BY <1>1, <1>4, <1>8
  <2> QED
    BY <1>10, <2>1
<1>12. \A y \in 1 .. n - 1 : slots'[l][y] \in Held(l)
  BY <1>11
<1>13. T = {slots'[l][y] : y \in 1 .. count'[l]}
  BY <1>1
<1> HIDE DEF T
<1>14. live' = (live \ Held(l)) \cup T
  BY <1>4, <1>5, <1>7, <1>11
<1> QED
  BY <1>1, <1>2, <1>7, <1>9, <1>12, <1>13, <1>14, OwnedPlain

(* qsort.                                                                   *)
LEMMA SortedOwned ==
    ASSUME TypeOK, TypeOK', ItemsOwned, NEW l \in List, OnlyOn(l), op = Null,
           Filled(l)' = 1 .. count[l], Emptied(l)' = {}, Rearranged(l),
           l \in exists, l \in exists', live' = live, badFree' = badFree
    PROVE  ItemsOwned'
<1> DEFINE n == count[l]
<1>1. PICK p \in [1 .. n -> 1 .. n] :
         /\ \A x, y \in 1 .. n : p[x] = p[y] => x = y
         /\ \A z \in 1 .. n : \E x \in 1 .. n : p[x] = z
         /\ \A x \in 1 .. n : slots'[l][x] = slots[l][p[x]]
  BY DEF Rearranged
<1>2. /\ Held(l) = {slots[l][y] : y \in 1 .. n} /\ Held(l) \subseteq live
      /\ \A y, z \in 1 .. n : slots[l][y] = slots[l][z] => y = z
  <2>1. Filled(l) = 1 .. n
    BY Idle
  <2> QED
    BY <2>1, HeldIs DEF Held
<1>3. ASSUME NEW x \in Filled(l)', NEW y \in Filled(l)', slots'[l][x] = slots'[l][y]
      PROVE  x = y
  <2>1. x \in 1 .. n /\ y \in 1 .. n /\ p[x] \in 1 .. n /\ p[y] \in 1 .. n
    OBVIOUS
  <2>2. slots[l][p[x]] = slots[l][p[y]]
    BY <1>1, <1>3, <2>1
  <2> QED
    BY <1>1, <1>2, <2>1, <2>2
<1>4. Held(l)' = {slots'[l][x] : x \in 1 .. n}
  BY DEF Held
<1>5. Held(l)' = Held(l)
  <2>1. ASSUME NEW x \in 1 .. n PROVE slots'[l][x] \in Held(l)
    <3>1. p[x] \in 1 .. n /\ slots'[l][x] = slots[l][p[x]]
      BY <1>1
    <3> QED
      BY <1>2, <3>1
  <2>2. \A z \in 1 .. n : \E x \in 1 .. n : slots'[l][x] = slots[l][z]
    BY <1>1
  <2>3. ASSUME NEW s \in Held(l) PROVE s \in Held(l)'
    <3>1. PICK z \in 1 .. n : slots[l][z] = s
      BY <1>2
    <3> QED
      BY <1>4, <2>2, <3>1
  <2>4. ASSUME NEW s \in Held(l)' PROVE s \in Held(l)
    BY <1>4, <2>1
  <2> QED
    BY <2>3, <2>4
<1>6. live' = (live \ Held(l)) \cup Held(l)' /\ \A s \in Held(l)' : s \in Held(l)
  BY <1>2, <1>5
<1>7. ~badFree'
  BY DEF ItemsOwned
<1> QED
  BY <1>3, <1>6, <1>7, OwnedStepOn

LEMMA SortOwned ==
    ASSUME TypeOK, ItemsOwned, NEW l \in List, Sort(l)
    PROVE  ItemsOwned'
<1>1. op' \in Operation \cup {Null}
  BY DEF Sort, TypeOK
<1>2. TypeOK' /\ Others(l) /\ count'[l] = count[l] /\ Rearranged(l)
  BY <1>1, SortShape DEF Sort
<1>3. /\ OnlyOn(l) /\ op = Null /\ op' = Null /\ l \in exists /\ l \in exists'
      /\ live' = live /\ badFree' = badFree
  BY <1>2 DEF OnlyOn, Sort, Calling
<1> QED
  BY <1>2, <1>3, NextIdle, SortedOwned

LEMMA UniqueBeginsShape ==
    ASSUME TypeOK, NEW l \in List, UniqueBegins(l)
    PROVE  /\ TypeOK' /\ Others(l) /\ count' = count /\ Rearranged(l) /\ OnlyOn(l)
           /\ Unique(l, 1, 2)' /\ count[l] > 1 /\ op = Null /\ l \in exists
           /\ exists' = exists /\ live' = live /\ badFree' = badFree
<1>1. Unique(l, 1, 2)' /\ op' \in Operation \cup {Null} /\ op'.list = l
  BY UniqueFields DEF UniqueBegins, Unique
<1>2. TypeOK' /\ Others(l) /\ Rearranged(l)
  BY <1>1, SortShape DEF UniqueBegins
<1> QED
  BY <1>1, <1>2 DEF UniqueBegins, Calling, OnlyOn

LEMMA UniqueBeginsOwned ==
    ASSUME TypeOK, ItemsOwned, NEW l \in List, UniqueBegins(l)
    PROVE  ItemsOwned'
<1>1. /\ Emptied(l)' = 1 + 1 .. 2 - 1
      /\ Filled(l)' = (1 .. count'[l]) \ (1 + 1 .. 2 - 1)
  <2>1. Unique(l, 1, 2)' /\ 1 \in Nat /\ 2 \in Nat
    BY UniqueBeginsShape
  <2> QED
    BY ONLY <2>1, l \in List, NextUniquePlaces
<1>2. Emptied(l)' = {} /\ Filled(l)' = 1 .. count[l]
  BY <1>1, UniqueBeginsShape
<1>3. l \in exists /\ l \in exists'
  BY UniqueBeginsShape
<1> QED
  BY <1>2, <1>3, UniqueBeginsShape, SortedOwned

LEMMA UniqueKeepsOwned ==
    ASSUME TypeOK, ItemsOwned, UniqueInv, UniqueKeeps
    PROVE  ItemsOwned'
<1>1. PICK l \in List, n \in Nat, r \in Nat : Unique(l, n, r)
  BY UniqueIs DEF UniqueKeeps
<1>2. /\ TypeOK' /\ Others(l) /\ count' = count /\ exists' = exists
      /\ live' = live /\ badFree' = badFree
      /\ Unique(l, n + 1, r + 1)' /\ r <= count[l]
      /\ slots'[l][n + 1] = slots[l][r]
      /\ n + 1 # r => slots'[l][r] = Null
      /\ \A y \in 1 .. count[l] \ {n + 1, r} : slots'[l][y] = slots[l][y]
  BY <1>1, UniqueKeepsShape
<1>3. l \in exists /\ 1 <= n /\ n < r /\ count[l] \in Nat /\ r \in 1 .. count[l]
  BY <1>1, <1>2, UniqueBounds
<1>4. op.list = l /\ op'.list = l
  BY <1>1, <1>2, UniqueFields DEF Unique
<1>5. OnlyOn(l) /\ ~badFree'
  BY <1>2, <1>4 DEF OnlyOn, ItemsOwned
<1>6. /\ Emptied(l) = n + 1 .. r - 1 /\ Filled(l) = (1 .. count[l]) \ (n + 1 .. r - 1)
      /\ Emptied(l)' = (n + 1) + 1 .. (r + 1) - 1
      /\ Filled(l)' = (1 .. count[l]) \ ((n + 1) + 1 .. (r + 1) - 1)
  <2>1. n + 1 \in Nat /\ r + 1 \in Nat
    OBVIOUS
  <2> QED
    BY <1>1, <1>2, <2>1, UniquePlaces, NextUniquePlaces
<1>7. /\ \A x \in Emptied(l) : slots[l][x] = Null
      /\ \A x, y \in Filled(l) : slots[l][x] = slots[l][y] => x = y
  BY <1>3 DEF ItemsOwned
<1>8. /\ n + 1 \in Filled(l)' /\ r \in Filled(l)
      /\ \A x \in Filled(l)' : x = n + 1 \/ (x \in Filled(l) /\ x \notin {n + 1, r}
                                             /\ x \in 1 .. count[l] \ {n + 1, r})
      /\ \A x \in Filled(l) : x = r \/ (x \in Filled(l)' /\ x \in 1 .. count[l] \ {n + 1, r})
      /\ \A x \in Emptied(l)' : (x = r /\ n + 1 # r)
                                \/ (x \in Emptied(l) /\ x \in 1 .. count[l] \ {n + 1, r})
  BY <1>3, <1>6
<1>9. \A x \in Emptied(l)' : slots'[l][x] = Null
  BY <1>2, <1>7, <1>8
<1>10. ASSUME NEW x \in Filled(l)', NEW y \in Filled(l)', slots'[l][x] = slots'[l][y]
       PROVE  x = y
  <2>1. CASE x = n + 1 /\ y # n + 1
    <3>1. slots[l][r] = slots[l][y] /\ y \in Filled(l) /\ y # r
      BY <1>2, <1>8, <1>10, <2>1
    <3> QED
      BY <1>7, <1>8, <3>1
  <2>2. CASE x # n + 1 /\ y = n + 1
    <3>1. slots[l][r] = slots[l][x] /\ x \in Filled(l) /\ x # r
      BY <1>2, <1>8, <1>10, <2>2
    <3> QED
      BY <1>7, <1>8, <3>1
  <2>3. CASE x # n + 1 /\ y # n + 1
    <3>1. slots[l][x] = slots[l][y] /\ x \in Filled(l) /\ y \in Filled(l)
      BY <1>2, <1>8, <1>10, <2>3
    <3> QED
      BY <1>7, <3>1
  <2> QED
    BY <2>1, <2>2, <2>3
<1>11. Held(l) = {slots[l][x] : x \in Filled(l)} /\ Held(l)' = {slots'[l][x] : x \in Filled(l)'}
  BY <1>2, <1>3 DEF Held
<1>12. \A x \in Filled(l)' : \E y \in Filled(l) : slots'[l][x] = slots[l][y]
  BY <1>2, <1>8
<1>13. \A y \in Filled(l) : \E x \in Filled(l)' : slots'[l][x] = slots[l][y]
  BY <1>2, <1>8
<1>14. Held(l)' = Held(l)
  <2>1. ASSUME NEW s \in Held(l)' PROVE s \in Held(l)
    BY <1>11, <1>12
  <2>2. ASSUME NEW s \in Held(l) PROVE s \in Held(l)'
    BY <1>11, <1>13
  <2> QED
    BY <2>1, <2>2
<1>15. live' = (live \ Held(l)) \cup Held(l)' /\ \A s \in Held(l)' : s \in Held(l)
  BY <1>2, <1>14, HeldIs
<1> QED
  BY <1>2, <1>5, <1>9, <1>10, <1>15, OwnedStepOn

LEMMA UniqueDropsOwned ==
    ASSUME TypeOK, ItemsOwned, UniqueInv, UniqueDrops
    PROVE  ItemsOwned'
<1>1. PICK l \in List, n \in Nat, r \in Nat : Unique(l, n, r)
  BY UniqueIs DEF UniqueDrops
<1>2. /\ TypeOK' /\ Others(l) /\ count' = count /\ exists' = exists
      /\ live' = live \ {slots[l][r]}
      /\ badFree' = (badFree \/ ~({slots[l][r]} \subseteq live))
      /\ Unique(l, n, r + 1)' /\ r <= count[l] /\ slots'[l][r] = Null
      /\ \A y \in 1 .. count[l] \ {r} : slots'[l][y] = slots[l][y]
  BY <1>1, UniqueDropsShape, Zenon
<1>3. l \in exists /\ 1 <= n /\ n < r /\ count[l] \in Nat /\ r \in 1 .. count[l]
  BY <1>1, <1>2, UniqueBounds
<1>4. op.list = l /\ op'.list = l
  BY <1>1, <1>2, UniqueFields DEF Unique
<1>5. OnlyOn(l)
  BY <1>2, <1>4 DEF OnlyOn
<1>6. /\ Emptied(l) = n + 1 .. r - 1 /\ Filled(l) = (1 .. count[l]) \ (n + 1 .. r - 1)
      /\ Emptied(l)' = n + 1 .. (r + 1) - 1
      /\ Filled(l)' = (1 .. count[l]) \ (n + 1 .. (r + 1) - 1)
  <2>1. r + 1 \in Nat
    OBVIOUS
  <2> QED
    BY <1>1, <1>2, <2>1, UniquePlaces, NextUniquePlaces
<1>7. /\ \A x \in Emptied(l) : slots[l][x] = Null
      /\ \A x, y \in Filled(l) : slots[l][x] = slots[l][y] => x = y
  BY <1>3 DEF ItemsOwned
<1>8. /\ r \in Filled(l)
      /\ \A x \in Filled(l)' : x \in Filled(l) /\ x # r /\ x \in 1 .. count[l] \ {r}
      /\ \A x \in Filled(l) : x = r \/ x \in Filled(l)'
      /\ \A x \in Emptied(l)' : x = r \/ (x \in Emptied(l) /\ x \in 1 .. count[l] \ {r})
  BY <1>3, <1>6
<1>9. \A x \in Emptied(l)' : slots'[l][x] = Null
  BY <1>2, <1>7, <1>8
<1>10. \A x \in Filled(l)' : slots'[l][x] = slots[l][x]
  BY <1>2, <1>8
<1>11. \A x, y \in Filled(l)' : slots'[l][x] = slots'[l][y] => x = y
  BY <1>7, <1>8, <1>10
<1>12. Held(l) = {slots[l][x] : x \in Filled(l)} /\ Held(l)' = {slots'[l][x] : x \in Filled(l)'}
  BY <1>2, <1>3 DEF Held
<1>13. Held(l)' = Held(l) \ {slots[l][r]}
  <2>1. ASSUME NEW s \in Held(l)' PROVE s \in Held(l) \ {slots[l][r]}
    BY <1>7, <1>8, <1>10, <1>12
  <2>2. ASSUME NEW s \in Held(l) \ {slots[l][r]} PROVE s \in Held(l)'
    BY <1>8, <1>10, <1>12
  <2> QED
    BY <2>1, <2>2
<1>14. slots[l][r] \in Held(l) /\ Held(l) \subseteq live
  BY <1>8, <1>12, HeldIs
<1>15. live' = (live \ Held(l)) \cup Held(l)' /\ \A s \in Held(l)' : s \in Held(l)
  BY <1>2, <1>13, <1>14
<1>16. ~badFree'
  <2>1. ~badFree /\ {slots[l][r]} \subseteq live
    BY <1>14 DEF ItemsOwned
  <2> QED
    BY <1>2, <2>1, Zenon
<1> QED
  BY <1>2, <1>5, <1>9, <1>11, <1>15, <1>16, OwnedStepOn

LEMMA UniqueEndsOwned ==
    ASSUME TypeOK, ItemsOwned, UniqueInv, UniqueEnds
    PROVE  ItemsOwned'
<1>1. PICK l \in List, n \in Nat, r \in Nat : Unique(l, n, r)
  BY UniqueIs DEF UniqueEnds
<1>2. /\ TypeOK' /\ Others(l) /\ count'[l] = n /\ slots' = slots
      /\ l \in exists /\ r = count[l] + 1 /\ 1 <= n /\ n <= count[l]
  BY <1>1, UniqueEndsShape
<1>3. /\ OnlyOn(l) /\ op' = Null /\ l \in exists' /\ live' = live /\ ~badFree'
  <2>1. op.list = l
    BY <1>1, UniqueFields
  <2>2. op' = Null /\ exists' = exists /\ live' = live /\ badFree' = badFree
    BY DEF UniqueEnds
  <2>3. ~badFree
    BY DEF ItemsOwned
  <2> QED
    BY <1>2, <2>1, <2>2, <2>3 DEF OnlyOn
<1>4. count[l] \in Nat
  BY DEF TypeOK
<1>5. Filled(l) = 1 .. n
  <2>1. Filled(l) = (1 .. count[l]) \ (n + 1 .. r - 1)
    BY <1>1, UniquePlaces
  <2> QED
    BY <1>2, <1>4, <2>1
<1>6. /\ Held(l) = {slots[l][x] : x \in 1 .. n} /\ Held(l) \subseteq live
      /\ \A x, y \in 1 .. n : slots[l][x] = slots[l][y] => x = y
  BY <1>2, <1>5, HeldIs DEF Held
<1>7. {slots'[l][x] : x \in 1 .. count'[l]} = Held(l)
  BY <1>2, <1>6
<1>8. live' = (live \ Held(l)) \cup {slots'[l][x] : x \in 1 .. count'[l]}
  BY <1>3, <1>6, <1>7
<1>9. /\ \A x \in 1 .. count'[l] : slots'[l][x] \in Held(l)
      /\ \A x, y \in 1 .. count'[l] : slots'[l][x] = slots'[l][y] => x = y
  BY <1>2, <1>6
<1> QED
  BY <1>2, <1>3, <1>8, <1>9, OwnedPlain

LEMMA CopyBeginsOwned ==
    ASSUME TypeOK, ItemsOwned, NEW from \in List, NEW l \in List, CopyBegins(from, l)
    PROVE  ItemsOwned'
<1>1. TypeOK' /\ Others(l) /\ count'[l] = 0
  BY CopyBeginsShape
<1>2. Copying(from, l)'
  BY DEF CopyBegins, Copying
<1>3. op'.list = l /\ ~Doing("unique")'
  BY <1>2, CopyFields DEF Copying, Doing
<1>4. OnlyOn(l) /\ ~badFree' /\ live' = live /\ Held(l) = {}
  BY <1>1, <1>3 DEF OnlyOn, CopyBegins, Calling, ItemsOwned, Held
<1> QED
  BY <1>1, <1>3, <1>4, OwnedEmptied

LEMMA CopyFailsOwned ==
    ASSUME TypeOK, ItemsOwned, CopyInv, CopyFails
    PROVE  ItemsOwned'
<1>1. PICK from \in List, l \in List : Copying(from, l)
  BY CopyIs DEF CopyFails
<1>2. TypeOK' /\ Others(l) /\ count'[l] = 0
  BY <1>1, CopyFailsShape
<1>3. Doing("copy") /\ ~Doing("unique") /\ op.list = l
  BY <1>1, CopyFields
<1>4. OnlyOn(l) /\ op' = Null /\ l \notin exists' /\ l \in exists
  BY <1>2, <1>3 DEF OnlyOn, CopyFails, CopyInv
<1>5. Items(l) \ {Null} = Held(l)
  <2>1. Filled(l) = 1 .. count[l]
    BY <1>3, Idle
  <2>2. Held(l) = {slots[l][x] : x \in 1 .. count[l]}
    BY <1>4, <2>1 DEF Held
  <2> QED
    BY <2>2, HeldIs DEF Items, Range1
<1>6. ~badFree' /\ live' = live \ Held(l)
  <2>1. Free(Items(l) \ {Null})
    BY <1>3 DEF CopyFails
  <2> QED
    BY <1>5, <2>1, HeldIs, FreeOwned
<1> QED
  BY <1>2, <1>4, <1>6, OwnedEmptied

LEMMA CopyEndsShape ==
    ASSUME TypeOK, ItemsOwned, CopyEnds
    PROVE  TypeOK' /\ ItemsOwned'
<1>1. UNCHANGED <<exists, slots, count, live, badFree>> /\ op' = Null /\ Doing("copy")
  BY DEF CopyEnds
<1>2. TypeOK'
  BY <1>1 DEF TypeOK
<1>3. \A l : Emptied(l)' = Emptied(l) /\ Filled(l)' = Filled(l)
  <2> TAKE l
  <2>1. ~Doing("unique")
    BY <1>1, OpIs
  <2> QED
    BY <1>1, <2>1, Idle, NextIdle
<1> QED
  BY <1>1, <1>2, <1>3 DEF ItemsOwned

-----------------------------------------------------------------------------
(* The two invariants together                                              *)

(* What a step is, without a choice between the names of a call.            *)
LEMMA NextCases ==
    ASSUME Next
    PROVE  \/ \E l \in List : FreeList(l) \/ Clear(l) \/ InsertFails(l) \/ Sort(l)
                              \/ UniqueBegins(l)
           \/ \E l \in List : \E n \in Sizes : Create(l, n) \/ Resize(l, n) \/ ResizeFails(l, n)
           \/ \E l \in List : \E x \in 1 .. MaxCapacity : RemoveItem(l, x)
           \/ \E l \in List : \E x \in Nat : \E t \in Text : Insert(l, x, t)
           \/ \E from \in List : \E l \in List : CopyBegins(from, l)
           \/ UniqueKeeps \/ UniqueDrops \/ UniqueEnds \/ CopyItem \/ CopyFails \/ CopyEnds
<1>1. ASSUME NEW l \in List, NEW t \in Text, AppendItem(l, t)
      PROVE  \E x \in Nat : \E u \in Text : Insert(l, x, u)
  <2>1. Insert(l, count[l] + 1, t)
    BY <1>1 DEF AppendItem
  <2>2. count[l] + 1 \in Nat
    BY <2>1 DEF Insert
  <2> QED
    BY <2>1, <2>2
<1>2. \A x \in 1 .. MaxCapacity : x \in Nat
  BY ListAssumption
<1> QED
  BY <1>1, <1>2 DEF Next, Call

LEMMA TypeAndOwned ==
    ASSUME TypeOK, ItemsOwned, UniqueInv, CopyInv, Next
    PROVE  TypeOK' /\ ItemsOwned'
<1>1. ASSUME NEW l \in List, FreeList(l) \/ Clear(l)
      PROVE  TypeOK' /\ ItemsOwned'
  BY <1>1, FreeListShape, ClearShape, FreeListOwned
<1>2. ASSUME NEW l \in List, InsertFails(l)
      PROVE  TypeOK' /\ ItemsOwned'
  BY <1>2, InsertFailsShape, InsertFailsOwned
<1>3. ASSUME NEW l \in List, Sort(l)
      PROVE  TypeOK' /\ ItemsOwned'
  <2>1. op' \in Operation \cup {Null}
    BY <1>3 DEF Sort, TypeOK
  <2> QED
    BY <1>3, <2>1, SortShape, SortOwned DEF Sort
<1>4. ASSUME NEW l \in List, UniqueBegins(l)
      PROVE  TypeOK' /\ ItemsOwned'
  BY <1>4, UniqueBeginsShape, UniqueBeginsOwned
<1>5. ASSUME NEW l \in List, NEW n \in Sizes, Create(l, n)
      PROVE  TypeOK' /\ ItemsOwned'
  BY <1>5, CreateShape, CreateOwned
<1>6. ASSUME NEW l \in List, NEW n \in Sizes, Resize(l, n) \/ ResizeFails(l, n)
      PROVE  TypeOK' /\ ItemsOwned'
  BY <1>6, ResizeShape, ResizeOwned
<1>7. ASSUME NEW l \in List, NEW x \in 1 .. MaxCapacity, RemoveItem(l, x)
      PROVE  TypeOK' /\ ItemsOwned'
  BY <1>7, RemoveShape, RemoveOwned
<1>8. ASSUME NEW l \in List, NEW x \in Nat, NEW t \in Text, Insert(l, x, t)
      PROVE  TypeOK' /\ ItemsOwned'
  <2>1. TypeOK'
    <3>1. PICK o \in String :
             /\ SetSlots(l, Inserted(Grown(slots[l], count[l]), count[l], x, o))
             /\ live' = live \cup {o}
      BY <1>8 DEF Insert
    <3>2. /\ x \in 1 .. count[l] + 1 /\ Capacity(Grown(slots[l], count[l])) <= MaxCapacity
          /\ SetCount(l, count[l] + 1)
          /\ exists' = exists /\ badFree' = badFree /\ op' = op
      BY <1>8 DEF Insert
    <3> QED
      BY <3>1, <3>2, InsertedShape
  <2> QED
    BY <1>8, <2>1, InsertOwned
<1>9. ASSUME NEW from \in List, NEW l \in List, CopyBegins(from, l)
      PROVE  TypeOK' /\ ItemsOwned'
  BY <1>9, CopyBeginsShape, CopyBeginsOwned
<1>10. ASSUME UniqueKeeps PROVE TypeOK' /\ ItemsOwned'
  <2>1. PICK l \in List, n \in Nat, r \in Nat : Unique(l, n, r)
    BY <1>10, UniqueIs DEF UniqueKeeps
  <2> QED
    BY <1>10, <2>1, UniqueKeepsShape, UniqueKeepsOwned
<1>11. ASSUME UniqueDrops PROVE TypeOK' /\ ItemsOwned'
  <2>1. PICK l \in List, n \in Nat, r \in Nat : Unique(l, n, r)
    BY <1>11, UniqueIs DEF UniqueDrops
  <2> QED
    BY <1>11, <2>1, UniqueDropsShape, UniqueDropsOwned, Zenon
<1>12. ASSUME UniqueEnds PROVE TypeOK' /\ ItemsOwned'
  <2>1. PICK l \in List, n \in Nat, r \in Nat : Unique(l, n, r)
    BY <1>12, UniqueIs DEF UniqueEnds
  <2> QED
    BY <1>12, <2>1, UniqueEndsShape, UniqueEndsOwned
<1>13. ASSUME CopyItem PROVE TypeOK' /\ ItemsOwned'
  <2>1. PICK from \in List, l \in List : Copying(from, l)
    BY <1>13, CopyIs DEF CopyItem
  <2>2. TypeOK'
    BY <1>13, <2>1, CopyItemShape
  <2> QED
    BY <1>13, <2>1, <2>2, CopyItemOwned
<1>14. ASSUME CopyFails PROVE TypeOK' /\ ItemsOwned'
  <2>1. PICK from \in List, l \in List : Copying(from, l)
    BY <1>14, CopyIs DEF CopyFails
  <2> QED
    BY <1>14, <2>1, CopyFailsShape, CopyFailsOwned
<1>15. ASSUME CopyEnds PROVE TypeOK' /\ ItemsOwned'
  BY <1>15, CopyEndsShape
<1> QED
  BY <1>1, <1>2, <1>3, <1>4, <1>5, <1>6, <1>7, <1>8, <1>9, <1>10, <1>11, <1>12, <1>13,
     <1>14, <1>15, NextCases

-----------------------------------------------------------------------------
(* Order                                                                    *)

LEMMA TextsAreNumbers ==
    ASSUME TypeOK, ItemsOwned, NEW l \in exists, NEW x \in Filled(l)
    PROVE  TextAt(l, x) \in Nat /\ TextAt(l, x) \in Text /\ slots[l][x] \in live
<1>1. slots[l][x] \in String
  BY DEF ItemsOwned, TypeOK
<1> QED
  BY <1>1, ListAssumption DEF TextAt, String, ItemsOwned

LEMMA UniqueBeginsOrdered ==
    ASSUME TypeOK, ItemsOwned, NEW l \in List, UniqueBegins(l)
    PROVE  Ascends(l, 1, 2)'
<1> DEFINE n == count[l]
<1>1. n > 1 /\ n \in Nat /\ l \in exists' /\ l \in exists /\ count'[l] = n /\ Filled(l) = 1 .. n
  BY UniqueBeginsShape, Idle DEF TypeOK
<1>2. Rearranged(l)
  BY UniqueBeginsShape
<1>3. PICK p \in [1 .. n -> 1 .. n] :
         /\ \A x, y \in 1 .. n : x < y => TextAt(l, p[x]) <= TextAt(l, p[y])
         /\ \A x \in 1 .. n : slots'[l][x] = slots[l][p[x]]
  BY <1>2 DEF Rearranged
<1>4. \A x \in 1 .. n : TextAt(l, x)' = TextAt(l, p[x])
  BY <1>3 DEF TextAt
<1>5. \A x, y \in 1 .. n : x < y => TextAt(l, x)' <= TextAt(l, y)'
  BY <1>3, <1>4
<1>6. /\ \A x, y \in 1 .. 1 : x < y => TextAt(l, x)' < TextAt(l, y)'
      /\ \A x \in 1 .. 1, y \in 2 .. n : TextAt(l, x)' <= TextAt(l, y)'
      /\ \A x, y \in 2 .. n : x < y => TextAt(l, x)' <= TextAt(l, y)'
  BY <1>1, <1>5
<1> QED
  BY <1>1, <1>6 DEF Ascends

LEMMA UniqueKeepsOrdered ==
    ASSUME TypeOK, ItemsOwned, UniqueInv, NEW l \in List, NEW n \in Nat, NEW r \in Nat,
           Unique(l, n, r), UniqueKeeps
    PROVE  Ascends(l, n + 1, r + 1)'
<1> DEFINE T(x) == TextAt(l, x)
<1>1. Ascends(l, n, r)
  BY UniqueFields DEF UniqueInv
<1>2. /\ count' = count /\ exists' = exists /\ r <= count[l] /\ T(r) # T(n)
      /\ slots'[l][n + 1] = slots[l][r]
      /\ \A y \in 1 .. count[l] \ {n + 1, r} : slots'[l][y] = slots[l][y]
  BY UniqueKeepsShape
<1>3. l \in exists /\ 1 <= n /\ n < r /\ count[l] \in Nat /\ r \in 1 .. count[l]
  BY <1>2, UniqueBounds
<1>4. Filled(l) = (1 .. count[l]) \ (n + 1 .. r - 1)
  BY UniquePlaces
<1>5. \A x \in 1 .. n : x \in Filled(l) /\ T(x) \in Nat
  BY <1>3, <1>4, TextsAreNumbers
<1>6. \A x \in r .. count[l] : x \in Filled(l) /\ T(x) \in Nat
  BY <1>3, <1>4, TextsAreNumbers
<1>7. T(n + 1)' = T(r)
  BY <1>2 DEF TextAt
<1>8. \A x \in 1 .. n : T(x)' = T(x)
  <2>1. \A x \in 1 .. n : x \in 1 .. count[l] \ {n + 1, r}
    BY <1>3
  <2> QED
    BY <1>2, <2>1 DEF TextAt
<1>9. \A x \in r + 1 .. count[l] : T(x)' = T(x)
  <2>1. \A x \in r + 1 .. count[l] : x \in 1 .. count[l] \ {n + 1, r}
    BY <1>3
  <2> QED
    BY <1>2, <2>1 DEF TextAt
<1>10. /\ \A x, y \in 1 .. n : x < y => T(x) < T(y)
       /\ \A x \in 1 .. n, y \in r .. count[l] : T(x) <= T(y)
       /\ \A x, y \in r .. count[l] : x < y => T(x) <= T(y)
  BY <1>1 DEF Ascends
<1>11. r \in r .. count[l] /\ n \in 1 .. n /\ T(r) \in Nat /\ T(n) \in Nat
  BY <1>3, <1>5, <1>6
<1>12. T(n) < T(r)
  <2>1. T(n) <= T(r)
    BY <1>10, <1>11
  <2> QED
    BY <1>2, <1>11, <2>1
<1>13. ASSUME NEW x \in 1 .. n PROVE T(x) < T(r)
  <2>1. x = n \/ T(x) < T(n)
    BY <1>10, <1>11
  <2> QED
    BY <1>5, <1>11, <1>12, <2>1
<1>14. ASSUME NEW x \in 1 .. n + 1, NEW y \in 1 .. n + 1, x < y
       PROVE  T(x)' < T(y)'
  <2>1. x \in 1 .. n
    BY <1>14
  <2>2. CASE y = n + 1
    BY <1>7, <1>8, <1>13, <2>1, <2>2
  <2>3. CASE y # n + 1
    <3>1. y \in 1 .. n
      BY <2>3
    <3> QED
      BY <1>8, <1>10, <1>14, <2>1, <3>1
  <2> QED
    BY <2>2, <2>3
<1>15. ASSUME NEW x \in 1 .. n + 1, NEW y \in r + 1 .. count[l]
       PROVE  T(x)' <= T(y)'
  <2>1. y \in r .. count[l] /\ r < y
    BY <1>3
  <2>2. CASE x = n + 1
    <3>1. T(r) <= T(y)
      BY <1>10, <1>11, <2>1
    <3> QED
      BY <1>7, <1>9, <2>2, <3>1
  <2>3. CASE x # n + 1
    <3>1. x \in 1 .. n
      BY <2>3
    <3> QED
      BY <1>8, <1>9, <1>10, <2>1, <3>1
  <2> QED
    BY <2>2, <2>3
<1>16. ASSUME NEW x \in r + 1 .. count[l], NEW y \in r + 1 .. count[l], x < y
       PROVE  T(x)' <= T(y)'
  <2>1. x \in r .. count[l] /\ y \in r .. count[l]
    BY <1>3
  <2> QED
    BY <1>9, <1>10, <1>16, <2>1
<1>17. 1 <= n + 1 /\ n + 1 < r + 1 /\ r + 1 <= count'[l] + 1 /\ l \in exists'
  BY <1>2, <1>3
<1> QED
  BY <1>2, <1>14, <1>15, <1>16, <1>17 DEF Ascends

LEMMA UniqueDropsOrdered ==
    ASSUME TypeOK, ItemsOwned, UniqueInv, NEW l \in List, NEW n \in Nat, NEW r \in Nat,
           Unique(l, n, r), UniqueDrops
    PROVE  Ascends(l, n, r + 1)'
<1> DEFINE T(x) == TextAt(l, x)
<1>1. Ascends(l, n, r)
  BY UniqueFields DEF UniqueInv
<1>2. /\ count' = count /\ exists' = exists /\ r <= count[l]
      /\ \A y \in 1 .. count[l] \ {r} : slots'[l][y] = slots[l][y]
  BY UniqueDropsShape
<1>3. l \in exists /\ 1 <= n /\ n < r /\ count[l] \in Nat /\ r \in 1 .. count[l]
  BY <1>2, UniqueBounds
<1>4. \A x \in 1 .. count[l] \ {r} : T(x)' = T(x)
  BY <1>2 DEF TextAt
<1>5. /\ \A x \in 1 .. n : x \in 1 .. count[l] \ {r}
      /\ \A x \in r + 1 .. count[l] : x \in 1 .. count[l] \ {r} /\ x \in r .. count[l]
  BY <1>3
<1>6. /\ \A x, y \in 1 .. n : x < y => T(x) < T(y)
      /\ \A x \in 1 .. n, y \in r .. count[l] : T(x) <= T(y)
      /\ \A x, y \in r .. count[l] : x < y => T(x) <= T(y)
  BY <1>1 DEF Ascends
<1>7. /\ \A x, y \in 1 .. n : x < y => T(x)' < T(y)'
      /\ \A x \in 1 .. n, y \in r + 1 .. count[l] : T(x)' <= T(y)'
      /\ \A x, y \in r + 1 .. count[l] : x < y => T(x)' <= T(y)'
  BY <1>4, <1>5, <1>6
<1>8. 1 <= n /\ n < r + 1 /\ r + 1 <= count'[l] + 1 /\ l \in exists'
  BY <1>2, <1>3
<1> QED
  BY <1>2, <1>7, <1>8 DEF Ascends

LEMMA UniqueInvStep ==
    ASSUME TypeOK, ItemsOwned, UniqueInv, CopyInv, Next
    PROVE  UniqueInv'
<1>1. ASSUME NEW l \in List, NEW n \in Nat, NEW r \in Nat, Unique(l, n, r)', Ascends(l, n, r)'
      PROVE  UniqueInv'
  <2>1. op'.list = l /\ op'.kept = n /\ op'.read = r
    BY <1>1 DEF Unique
  <2> QED
    BY <1>1, <2>1 DEF UniqueInv, Ascends, TextAt
<1>2. ASSUME ~Doing("unique")' PROVE UniqueInv'
  BY <1>2 DEF UniqueInv
<1>3. ASSUME op' = Null PROVE UniqueInv'
  BY <1>2, <1>3 DEF Doing
<1>4. ASSUME NEW l \in List, UniqueBegins(l) PROVE UniqueInv'
  BY <1>1, <1>4, UniqueBeginsShape, UniqueBeginsOrdered
<1>5. ASSUME NEW l \in List, FreeList(l) \/ Clear(l) \/ InsertFails(l) \/ Sort(l)
      PROVE  UniqueInv'
  BY <1>3, <1>5 DEF FreeList, Clear, InsertFails, Sort, Calling
<1>6. ASSUME NEW l \in List, NEW n \in Sizes, Create(l, n) \/ Resize(l, n) \/ ResizeFails(l, n)
      PROVE  UniqueInv'
  BY <1>3, <1>6 DEF Create, Resize, ResizeFails, Calling
<1>7. ASSUME NEW l \in List, NEW x \in Nat,
             RemoveItem(l, x) \/ \E t \in Text : Insert(l, x, t)
      PROVE  UniqueInv'
  BY <1>3, <1>7 DEF RemoveItem, Insert, Calling
<1>8. ASSUME NEW from \in List, NEW l \in List, CopyBegins(from, l) PROVE UniqueInv'
  <2>1. Copying(from, l)'
    BY <1>8 DEF CopyBegins, Copying
  <2> QED
    BY <1>2, <2>1 DEF Copying, Doing
<1>9. ASSUME UniqueKeeps PROVE UniqueInv'
  <2>1. PICK l \in List, n \in Nat, r \in Nat : Unique(l, n, r)
    BY <1>9, UniqueIs DEF UniqueKeeps
  <2>2. n + 1 \in Nat /\ r + 1 \in Nat
    OBVIOUS
  <2> QED
    BY <1>1, <1>9, <2>1, <2>2, UniqueKeepsShape, UniqueKeepsOrdered
<1>10. ASSUME UniqueDrops PROVE UniqueInv'
  <2>1. PICK l \in List, n \in Nat, r \in Nat : Unique(l, n, r)
    BY <1>10, UniqueIs DEF UniqueDrops
  <2>2. r + 1 \in Nat
    OBVIOUS
  <2> QED
    BY <1>1, <1>10, <2>1, <2>2, UniqueDropsShape, UniqueDropsOrdered
<1>11. ASSUME UniqueEnds \/ CopyFails \/ CopyEnds PROVE UniqueInv'
  BY <1>3, <1>11 DEF UniqueEnds, CopyFails, CopyEnds
<1>12. ASSUME CopyItem PROVE UniqueInv'
  <2>1. Doing("copy") /\ op' = op
    BY <1>12 DEF CopyItem
  <2> QED
    BY <1>2, <2>1 DEF Doing
<1>13. \A x \in 1 .. MaxCapacity : x \in Nat
  BY ListAssumption
<1> QED
  BY <1>4, <1>5, <1>6, <1>7, <1>8, <1>9, <1>10, <1>11, <1>12, <1>13, NextCases

LEMMA CopyInvStep ==
    ASSUME TypeOK, ItemsOwned, UniqueInv, CopyInv, Next
    PROVE  CopyInv'
<1>2. ASSUME ~Doing("copy")' PROVE CopyInv'
  BY <1>2 DEF CopyInv
<1>3. ASSUME op' = Null PROVE CopyInv'
  BY <1>2, <1>3 DEF Doing
<1>4. ASSUME NEW l \in List, NEW n \in Nat, NEW r \in Nat, Unique(l, n, r)' PROVE CopyInv'
  BY <1>2, <1>4 DEF Unique, Doing
<1>5. ASSUME NEW l \in List, FreeList(l) \/ Clear(l) \/ InsertFails(l) \/ Sort(l)
      PROVE  CopyInv'
  BY <1>3, <1>5 DEF FreeList, Clear, InsertFails, Sort, Calling
<1>6. ASSUME NEW l \in List, NEW n \in Sizes, Create(l, n) \/ Resize(l, n) \/ ResizeFails(l, n)
      PROVE  CopyInv'
  BY <1>3, <1>6 DEF Create, Resize, ResizeFails, Calling
<1>7. ASSUME NEW l \in List, NEW x \in Nat,
             RemoveItem(l, x) \/ \E t \in Text : Insert(l, x, t)
      PROVE  CopyInv'
  BY <1>3, <1>7 DEF RemoveItem, Insert, Calling
<1>8. ASSUME NEW from \in List, NEW l \in List, CopyBegins(from, l) PROVE CopyInv'
  <2>1. op'.from = from /\ op'.list = l /\ from \in exists' /\ l \in exists'
    BY <1>8 DEF CopyBegins, Calling
  <2>2. /\ Others(l) /\ count'[l] = 0 /\ from # l
        /\ Capacity(slots[from]) <= Capacity(slots'[l])
    BY <1>8, CopyBeginsShape
  <2>3. slots'[from] = slots[from] /\ count'[from] = count[from] /\ count[from] \in Nat
    BY <2>2 DEF Others, TypeOK
  <2>4. count'[l] <= count'[from] /\ 1 .. count'[l] = {}
    BY <2>2, <2>3
  <2> QED
    BY <2>1, <2>2, <2>3, <2>4 DEF CopyInv
<1>9. ASSUME UniqueKeeps PROVE CopyInv'
  <2>1. PICK l \in List, n \in Nat, r \in Nat : Unique(l, n, r)
    BY <1>9, UniqueIs DEF UniqueKeeps
  <2>2. n + 1 \in Nat /\ r + 1 \in Nat
    OBVIOUS
  <2> QED
    BY <1>4, <1>9, <2>1, <2>2, UniqueKeepsShape
<1>10. ASSUME UniqueDrops PROVE CopyInv'
  <2>1. PICK l \in List, n \in Nat, r \in Nat : Unique(l, n, r)
    BY <1>10, UniqueIs DEF UniqueDrops
  <2>2. r + 1 \in Nat
    OBVIOUS
  <2> QED
    BY <1>4, <1>10, <2>1, <2>2, UniqueDropsShape
<1>11. ASSUME UniqueEnds \/ CopyFails \/ CopyEnds PROVE CopyInv'
  BY <1>3, <1>11 DEF UniqueEnds, CopyFails, CopyEnds
<1>12. ASSUME NEW l \in List, UniqueBegins(l) PROVE CopyInv'
  BY <1>4, <1>12, UniqueBeginsShape
<1>13. ASSUME CopyItem PROVE CopyInv'
  <2>1. PICK from \in List, l \in List : Copying(from, l)
    BY <1>13, CopyIs DEF CopyItem
  <2>2. Doing("copy") /\ op.from = from /\ op.list = l /\ op' = op /\ exists' = exists
    BY <1>13, <2>1, CopyFields DEF CopyItem
  <2>3. /\ from \in exists /\ l \in exists /\ from # l
        /\ Capacity(slots[from]) <= Capacity(slots[l])
        /\ \A x \in 1 .. count[l] : TextAt(l, x) = TextAt(from, x)
    BY <2>2 DEF CopyInv
  <2>4. PICK o \in String :
           /\ o.text = TextAt(from, count[l] + 1)
           /\ Others(l) /\ count'[l] = count[l] + 1 /\ count[l] < count[from]
           /\ \A y \in 1 .. count[l] : slots'[l][y] = slots[l][y]
           /\ slots'[l][count[l] + 1] = o
           /\ TypeOK' /\ Capacity(slots[l]) <= Capacity(slots'[l])
    BY <1>13, <2>1, CopyItemShape
  <2>5. slots'[from] = slots[from] /\ count'[from] = count[from]
    BY <2>3, <2>4 DEF Others
  <2>6. count[l] \in Nat /\ count[from] \in Nat
    BY DEF TypeOK
  <2>7. ASSUME NEW x \in 1 .. count'[l] PROVE TextAt(l, x)' = TextAt(from, x)'
    <3>1. x = count[l] + 1 \/ x \in 1 .. count[l]
      BY <2>4, <2>6
    <3> QED
      BY <2>3, <2>4, <2>5, <3>1 DEF TextAt
  <2>8. Capacity(slots'[from]) <= Capacity(slots'[l])
    <3>1. /\ Capacity(slots[from]) \in 0 .. MaxCapacity /\ Capacity(slots[l]) \in 0 .. MaxCapacity
      BY SlotsOf
    <3>2. PICK n \in 0 .. MaxCapacity : slots'[l] \in [1 .. n -> Item]
      BY <2>4 DEF TypeOK, Item
    <3>3. Capacity(slots'[l]) = n
      BY <3>2, Size, ListAssumption
    <3> QED
      BY <2>3, <2>4, <2>5, <3>1, <3>3, ListAssumption
  <2>9. count'[l] <= count'[from]
    BY <2>4, <2>5, <2>6
  <2> QED
    BY <2>2, <2>3, <2>7, <2>8, <2>9 DEF CopyInv
<1>14. \A x \in 1 .. MaxCapacity : x \in Nat
  BY ListAssumption
<1> QED
  BY <1>5, <1>6, <1>7, <1>8, <1>9, <1>10, <1>11, <1>12, <1>13, <1>14, NextCases

LEMMA InitInv == Init => IInv
<1> SUFFICES ASSUME Init PROVE IInv
  OBVIOUS
<1>1. \A l \in List : slots[l] = NoSlots /\ count[l] = 0
  BY DEF Init
<1>2. NoSlots \in [1 .. 0 -> String \cup {Null}] /\ 0 \in 0 .. MaxCapacity
  BY NoSlotsIs DEF Item
<1>3. TypeOK
  BY <1>1, <1>2 DEF TypeOK, Init
<1> QED
  BY <1>3 DEF IInv, Init, ItemsOwned, UniqueInv, CopyInv, Doing

LEMMA StutterInv == ASSUME IInv, UNCHANGED vars PROVE IInv'
<1>1. /\ exists' = exists /\ slots' = slots /\ count' = count /\ live' = live
      /\ badFree' = badFree /\ op' = op
  BY DEF vars
<1>2. \A l : Emptied(l)' = Emptied(l) /\ Filled(l)' = Filled(l)
  BY <1>1 DEF Emptied, Filled, Doing
<1>3. TypeOK'
  BY <1>1 DEF IInv, TypeOK
<1>4. ItemsOwned'
  BY <1>1, <1>2 DEF IInv, ItemsOwned
<1>5. UniqueInv' /\ CopyInv'
  BY <1>1 DEF IInv, UniqueInv, CopyInv, Ascends, TextAt, Doing
<1> QED
  BY <1>3, <1>4, <1>5 DEF IInv

LEMMA NextInv == IInv /\ [Next]_vars => IInv'
<1>1. ASSUME IInv, Next PROVE IInv'
  BY <1>1, TypeAndOwned, UniqueInvStep, CopyInvStep DEF IInv
<1> QED
  BY <1>1, StutterInv

(* The conjuncts of IInv hold in every reachable state.                     *)
THEOREM Invariance == Spec => []IInv
  BY InitInv, NextInv, PTL DEF Spec

(* The slots of every list are as many as its capacity says, and its count  *)
(* stays within them, after any insertion, growth, resize or failure        *)
(* (ensure_capacity, string_list.c:12-36).                                  *)
THEOREM TypeCorrect == Spec => []TypeOK
<1>1. IInv => TypeOK
  BY DEF IInv
<1> QED
  BY <1>1, Invariance, PTL

(* No string is freed twice, lost or shared by two places of lists, through *)
(* every operation and every failure of an allocation, unique and copy in   *)
(* the middle of their work included.                                       *)
THEOREM Owned == Spec => []ItemsOwned
<1>1. IInv => ItemsOwned
  BY DEF IInv
<1> QED
  BY <1>1, Invariance, PTL

-----------------------------------------------------------------------------
(* What the lists contain                                                   *)

(* The list can be read as it stands. *)
Plain(l) == l \in exists /\ (op = Null \/ op.list # l)

Texts(l) == {TextAt(l, x) : x \in Filled(l)}

(* What stands in a list, when its first n places hold texts.               *)
LEMMA TextsSeq ==
    ASSUME NEW n \in 0 .. MaxCapacity, NEW f, \A x \in 1 .. n : f[x].text \in Text
    PROVE  /\ [x \in 1 .. n |-> f[x].text] \in Seq(Text)
           /\ Len([x \in 1 .. n |-> f[x].text]) = n
           /\ [x \in 1 .. n |-> f[x].text] # Null
<1>1. n \in Nat
  BY ListAssumption
<1>2. [x \in 1 .. n |-> f[x].text] \in [1 .. n -> Text]
  OBVIOUS
<1>3. [x \in 1 .. n |-> f[x].text] # Null
  BY <1>2, NullAssumption
<1> DEFINE s == [x \in 1 .. n |-> f[x].text]
<1>4. s \in Seq(Text) /\ Len(s) = n
  <2> HIDE DEF s
  <2> QED
    BY <1>1, <1>2 DEF s
<1> QED
  BY <1>3, <1>4

LEMMA PlainContents ==
    ASSUME TypeOK, ItemsOwned, NEW l \in List, Plain(l)
    PROVE  /\ Contents(l) = [x \in 1 .. count[l] |-> slots[l][x].text]
           /\ Contents(l) \in Seq(Text) /\ Len(Contents(l)) = count[l] /\ Contents(l) # Null
           /\ \A x \in 1 .. count[l] : Contents(l)[x] = TextAt(l, x)
           /\ count[l] \in Nat /\ DOMAIN Contents(l) = 1 .. count[l]
<1>1. Contents(l) = [x \in 1 .. count[l] |-> slots[l][x].text]
  BY DEF Contents, Plain, Doing
<1>2. count[l] \in 0 .. MaxCapacity /\ count[l] \in Nat
  BY SlotsOf, ListAssumption
<1>3. \A x \in 1 .. count[l] : slots[l][x].text \in Text
  BY Idle, TextsAreNumbers DEF Plain, TextAt
<1>4. Contents(l) \in Seq(Text) /\ Len(Contents(l)) = count[l] /\ Contents(l) # Null
  BY <1>1, <1>2, <1>3, TextsSeq
<1> QED
  BY <1>1, <1>2, <1>4 DEF TextAt

LEMMA NextTextsAreNumbers ==
    ASSUME TypeOK', ItemsOwned', NEW l \in exists', NEW x \in Filled(l)'
    PROVE  TextAt(l, x)' \in Text
<1>1. slots'[l][x] \in String
  BY DEF ItemsOwned, TypeOK
<1> QED
  BY <1>1 DEF TextAt, String

LEMMA NextPlainContents ==
    ASSUME TypeOK', ItemsOwned', NEW l \in List, Plain(l)', count'[l] \in 0 .. MaxCapacity
    PROVE  /\ Contents(l)' = [x \in 1 .. count'[l] |-> slots'[l][x].text]
           /\ Contents(l)' \in Seq(Text) /\ Len(Contents(l)') = count'[l]
           /\ \A x \in 1 .. count'[l] : Contents(l)'[x] = TextAt(l, x)'
           /\ DOMAIN Contents(l)' = 1 .. count'[l]
<1>1. Contents(l)' = [x \in 1 .. count'[l] |-> slots'[l][x].text]
  BY DEF Contents, Plain, Doing
<1>3. \A x \in 1 .. count'[l] : slots'[l][x].text \in Text
  BY NextIdle, NextTextsAreNumbers DEF Plain, TextAt
<1>4. Contents(l)' \in Seq(Text) /\ Len(Contents(l)') = count'[l]
  BY <1>1, <1>3, TextsSeq
<1> QED
  BY <1>1, <1>4 DEF TextAt

LEMMA OtherContents ==
    ASSUME TypeOK, TypeOK', NEW l \in List, OnlyOn(l), NEW k \in List \ {l}
    PROVE  Contents(k)' = Contents(k)
<1>1. (k \in exists' <=> k \in exists) /\ slots'[k] = slots[k] /\ count'[k] = count[k]
  BY DEF OnlyOn, Others
<1>2. Contents(k) = IF k \notin exists THEN Null ELSE [x \in 1 .. count[k] |-> slots[k][x].text]
  BY DEF OnlyOn, Contents, Doing
<1>3. Contents(k)' = IF k \notin exists' THEN Null
                     ELSE [x \in 1 .. count'[k] |-> slots'[k][x].text]
  BY DEF OnlyOn, Contents, Doing
<1> QED
  BY <1>1, <1>2, <1>3

LEMMA ListsAt == ASSUME NEW l \in List PROVE Lists[l] = Contents(l)
  BY DEF Lists

(* A step on one list is a step of the promise on it.                       *)
LEMMA BecomesContents ==
    ASSUME TypeOK, TypeOK', NEW l \in List, OnlyOn(l)
    PROVE  Promise!Becomes(l, Contents(l)')
<1>1. Lists' = [k \in List |-> Contents(k)']
  BY DEF Lists
<1>2. \A k \in List \ {l} : Contents(k)' = Lists[k]
  BY OtherContents, ListsAt
<1>3. Lists = [k \in List |-> Lists[k]]
  BY DEF Lists
<1>4. Lists' = [Lists EXCEPT ![l] = Contents(l)']
  BY <1>1, <1>2, <1>3
<1> QED
  BY <1>4 DEF Promise!Becomes

LEMMA SameContents ==
    ASSUME TypeOK, TypeOK', NEW l \in List, OnlyOn(l), Contents(l)' = Contents(l)
    PROVE  Lists' = Lists
<1>1. Lists' = [k \in List |-> Contents(k)']
  BY DEF Lists
<1>2. \A k \in List : Contents(k)' = Contents(k)
  BY OtherContents
<1> QED
  BY <1>1, <1>2 DEF Lists

LEMMA NotThere ==
    ASSUME NEW l, l \notin exists \/ (Doing("copy") /\ op.list = l)
    PROVE  Contents(l) = Null
  BY DEF Contents

LEMMA NextNotThere ==
    ASSUME NEW l, l \notin exists' \/ (Doing("copy")' /\ op'.list = l)
    PROVE  Contents(l)' = Null
  BY DEF Contents

LEMMA CreateRefines ==
    ASSUME TypeOK, TypeOK', ItemsOwned', NEW l \in List, NEW n \in Sizes, Create(l, n)
    PROVE  Promise!Create(l)
<1>1. Others(l) /\ count'[l] = 0
  BY CreateShape
<1>2. op = Null /\ op' = Null /\ l \notin exists /\ exists' = exists \cup {l}
  BY DEF Create
<1>3. OnlyOn(l) /\ Plain(l)' /\ count'[l] \in 0 .. MaxCapacity
  BY <1>1, <1>2, ListAssumption DEF OnlyOn, Plain
<1>4. Contents(l)' \in Seq(Text) /\ Len(Contents(l)') = 0
  BY <1>1, <1>3, NextPlainContents
<1>5. Contents(l)' = <<>>
  BY <1>4
<1>6. ~Promise!Exists(l)
  BY <1>2, NotThere, ListsAt DEF Promise!Exists
<1>7. Promise!Becomes(l, Contents(l)')
  BY <1>3, BecomesContents
<1> QED
  BY <1>5, <1>6, <1>7 DEF Promise!Create

LEMMA PlainExists ==
    ASSUME TypeOK, ItemsOwned, NEW l \in List, Plain(l)
    PROVE  Promise!Exists(l) /\ Lists[l] = Contents(l)
  BY PlainContents, ListsAt DEF Promise!Exists

LEMMA FreeListRefines ==
    ASSUME TypeOK, TypeOK', ItemsOwned, NEW l \in List, FreeList(l)
    PROVE  Promise!Free(l)
<1>1. Others(l) /\ op = Null /\ op' = Null /\ l \in exists /\ exists' = exists \ {l}
  BY FreeListShape DEF FreeList, Calling
<1>2. OnlyOn(l) /\ Plain(l)
  BY <1>1 DEF OnlyOn, Plain
<1>3. Contents(l)' = Null
  BY <1>1, NextNotThere
<1>4. Promise!Becomes(l, Contents(l)') /\ Promise!Exists(l)
  BY <1>2, BecomesContents, PlainExists
<1> QED
  BY <1>3, <1>4 DEF Promise!Free

LEMMA NextCountIs ==
    ASSUME TypeOK', NEW l \in List
    PROVE  count'[l] \in 0 .. MaxCapacity /\ count'[l] \in Nat
<1>1. PICK n \in 0 .. MaxCapacity : slots'[l] \in [1 .. n -> Item]
  BY DEF TypeOK, Item
<1>2. DOMAIN slots'[l] = 1 .. n /\ n \in Nat /\ n <= MaxCapacity /\ MaxCapacity \in Nat
  BY <1>1, ListAssumption
<1>3. 1 .. count'[l] \subseteq 1 .. n /\ count'[l] \in Nat
  BY <1>2 DEF TypeOK
<1>4. count'[l] <= n
  <2>1. CASE count'[l] = 0
    BY <1>2, <2>1
  <2>2. CASE count'[l] # 0
    <3>1. count'[l] \in 1 .. count'[l]
      BY <1>3, <2>2
    <3>2. count'[l] \in 1 .. n
      BY <1>3, <3>1
    <3> QED
      BY <1>2, <3>2
  <2> QED
    BY <2>1, <2>2
<1> QED
  BY <1>2, <1>3, <1>4

(* A call on a list that exists before and after it.                        *)
LEMMA PlainStep ==
    ASSUME TypeOK, TypeOK', ItemsOwned, ItemsOwned', NEW l \in List, OnlyOn(l),
           op = Null, op' = Null, l \in exists, l \in exists'
    PROVE  /\ Promise!Exists(l) /\ Promise!Becomes(l, Contents(l)')
           /\ Lists[l] \in Seq(Text) /\ Len(Lists[l]) = count[l] /\ count[l] \in Nat
           /\ DOMAIN Lists[l] = 1 .. count[l]
           /\ \A x \in 1 .. count[l] : Lists[l][x] = slots[l][x].text
           /\ Contents(l)' \in Seq(Text) /\ Len(Contents(l)') = count'[l] /\ count'[l] \in Nat
           /\ \A x \in 1 .. count'[l] : Contents(l)'[x] = slots'[l][x].text
           /\ Contents(l)' = [x \in 1 .. count'[l] |-> slots'[l][x].text]
<1>1. Plain(l) /\ Plain(l)'
  BY DEF Plain
<1>2. Promise!Exists(l) /\ Promise!Becomes(l, Contents(l)') /\ Lists[l] = Contents(l)
  BY <1>1, PlainExists, BecomesContents
<1>3. /\ Contents(l) \in Seq(Text) /\ Len(Contents(l)) = count[l] /\ count[l] \in Nat
      /\ DOMAIN Contents(l) = 1 .. count[l]
      /\ \A x \in 1 .. count[l] : Contents(l)[x] = slots[l][x].text
  BY <1>1, PlainContents DEF TextAt
<1>4. count'[l] \in 0 .. MaxCapacity /\ count'[l] \in Nat
  BY NextCountIs
<1>5. /\ Contents(l)' \in Seq(Text) /\ Len(Contents(l)') = count'[l]
      /\ \A x \in 1 .. count'[l] : Contents(l)'[x] = slots'[l][x].text
      /\ Contents(l)' = [x \in 1 .. count'[l] |-> slots'[l][x].text]
  BY <1>1, <1>4, NextPlainContents DEF TextAt
<1> QED
  BY <1>2, <1>3, <1>4, <1>5

LEMMA InsertRefines ==
    ASSUME TypeOK, TypeOK', ItemsOwned, ItemsOwned', NEW l \in List, NEW x, NEW t \in Text,
           Insert(l, x, t)
    PROVE  Promise!Insert(l, x, t) /\ Promise!Exists(l) /\ x \in 1 .. Len(Lists[l]) + 1
<1>1. PICK o \in String :
         /\ o.text = t
         /\ SetSlots(l, Inserted(Grown(slots[l], count[l]), count[l], x, o))
         /\ live' = live \cup {o}
  BY DEF Insert
<1>2. /\ x \in 1 .. count[l] + 1 /\ Capacity(Grown(slots[l], count[l])) <= MaxCapacity
      /\ SetCount(l, count[l] + 1) /\ op = Null /\ l \in exists
      /\ exists' = exists /\ badFree' = badFree /\ op' = op
  BY DEF Insert, Calling
<1>3. /\ Others(l) /\ count'[l] = count[l] + 1
      /\ \A y \in 1 .. count[l] + 1 :
            /\ y < x => slots'[l][y] = slots[l][y]
            /\ y = x => slots'[l][y] = o
            /\ y > x => slots'[l][y] = slots[l][y - 1]
  BY <1>1, <1>2, InsertedShape
<1>4. OnlyOn(l)
  BY <1>2, <1>3 DEF OnlyOn
<1>5. PICK n \in Nat : n = count[l]
  BY DEF TypeOK
<1>6. PICK s \in Seq(Text) :
         s = Lists[l] /\ Len(s) = n /\ \A y \in 1 .. n : s[y] = slots[l][y].text
  BY <1>2, <1>4, <1>5, PlainStep
<1>7. PICK u \in Seq(Text) :
         u = Contents(l)' /\ Len(u) = n + 1 /\ \A y \in 1 .. n + 1 : u[y] = slots'[l][y].text
  BY <1>2, <1>3, <1>4, <1>5, PlainStep
<1>8. Promise!Exists(l) /\ Promise!Becomes(l, u)
  BY <1>2, <1>4, <1>7, PlainStep
<1>9. x \in 1 .. n + 1 /\ u[x] = t
  BY <1>1, <1>2, <1>3, <1>5, <1>7
<1>10. ASSUME NEW y \in 1 .. x - 1 PROVE u[y] = s[y]
  <2>1. y \in 1 .. n /\ y \in 1 .. n + 1 /\ y < x
    BY <1>9
  <2>2. slots'[l][y] = slots[l][y]
    BY <1>3, <1>5, <2>1
  <2> QED
    BY <1>6, <1>7, <2>1, <2>2
<1>11. ASSUME NEW y \in x + 1 .. n + 1 PROVE u[y] = s[y - 1]
  <2>1. y - 1 \in 1 .. n /\ y \in 1 .. n + 1 /\ y > x
    BY <1>9
  <2>2. slots'[l][y] = slots[l][y - 1]
    BY <1>3, <1>5, <2>1
  <2> QED
    BY <1>6, <1>7, <2>1, <2>2
<1>12. u = SubSeq(s, 1, x - 1) \o <<t>> \o SubSeq(s, x, Len(s))
  <2>1. /\ x \in 1 .. Len(s) + 1 /\ Len(u) = Len(s) + 1 /\ u[x] = t
        /\ \A y \in 1 .. x - 1 : u[y] = s[y]
        /\ \A y \in x + 1 .. Len(s) + 1 : u[y] = s[y - 1]
    BY <1>6, <1>7, <1>9, <1>10, <1>11
  <2> QED
    BY ONLY <2>1, InsertedSeq, s \in Seq(Text), u \in Seq(Text), t \in Text
<1> QED
  BY <1>6, <1>8, <1>9, <1>12 DEF Promise!Insert

LEMMA RemoveRefines ==
    ASSUME TypeOK, TypeOK', ItemsOwned, ItemsOwned', NEW l \in List, NEW x \in 1 .. MaxCapacity,
           RemoveItem(l, x)
    PROVE  Promise!Remove(l, x) /\ Promise!Exists(l) /\ x \in 1 .. Len(Lists[l]) + 1
<1>1. PICK n \in Nat : n = count[l]
  BY DEF TypeOK
<1>2. /\ Others(l) /\ count'[l] = n - 1 /\ x \in 1 .. n
      /\ \A y \in 1 .. n - 1 : slots'[l][y] = IF y < x THEN slots[l][y] ELSE slots[l][y + 1]
  BY <1>1, RemoveShape
<1>3. OnlyOn(l) /\ op = Null /\ op' = Null /\ l \in exists /\ l \in exists'
  BY <1>2 DEF OnlyOn, RemoveItem, Calling
<1>4. PICK s \in Seq(Text) :
         s = Lists[l] /\ Len(s) = n /\ \A y \in 1 .. n : s[y] = slots[l][y].text
  BY <1>1, <1>3, PlainStep
<1>5. PICK u \in Seq(Text) : /\ u = Contents(l)' /\ Len(u) = n - 1
                             /\ \A y \in 1 .. n - 1 : u[y] = slots'[l][y].text
  BY <1>2, <1>3, PlainStep
<1>6. Promise!Exists(l) /\ Promise!Becomes(l, u)
  BY <1>3, <1>5, PlainStep
<1>7. ASSUME NEW y \in 1 .. n - 1 PROVE u[y] = IF y < x THEN s[y] ELSE s[y + 1]
  <2>1. y \in 1 .. n /\ y + 1 \in 1 .. n
    OBVIOUS
  <2>2. u[y] = (IF y < x THEN slots[l][y] ELSE slots[l][y + 1]).text
    BY <1>2, <1>5
  <2> QED
    BY <1>4, <2>1, <2>2
<1>8. x \in DOMAIN s /\ Len(u) = Len(s) - 1 /\ x \in 1 .. Len(s) + 1
  BY <1>2, <1>4, <1>5
<1>9. u = SubSeq(s, 1, x - 1) \o SubSeq(s, x + 1, Len(s))
  <2>1. \A y \in 1 .. Len(u) : u[y] = IF y < x THEN s[y] ELSE s[y + 1]
    BY <1>5, <1>7
  <2> QED
    BY ONLY <1>8, <2>1, RemovedSeq, s \in Seq(Text), u \in Seq(Text)
<1> QED
  BY <1>4, <1>6, <1>8, <1>9 DEF Promise!Remove

LEMMA TruncateRefines ==
    ASSUME TypeOK, TypeOK', ItemsOwned, ItemsOwned', NEW l \in List, OnlyOn(l),
           op = Null, op' = Null, l \in exists, l \in exists',
           NEW n \in 0 .. count[l], count'[l] = n,
           \A y \in 1 .. n : slots'[l][y] = slots[l][y]
    PROVE  \E x \in 1 .. Len(Lists[l]) + 1 : Promise!Truncate(l, x - 1) /\ Promise!Exists(l)
<1>1. PICK m \in Nat : m = count[l]
  BY DEF TypeOK
<1>2. n \in Nat /\ n \in 0 .. m
  BY <1>1
<1>4. PICK s \in Seq(Text) :
         s = Lists[l] /\ Len(s) = m /\ \A y \in 1 .. m : s[y] = slots[l][y].text
  BY <1>1, PlainStep
<1>5. PICK u \in Seq(Text) : /\ u = Contents(l)' /\ Len(u) = n
                             /\ \A y \in 1 .. n : u[y] = slots'[l][y].text
  BY PlainStep
<1>6. Promise!Exists(l) /\ Promise!Becomes(l, u)
  BY <1>5, PlainStep
<1>7. ASSUME NEW y \in 1 .. n PROVE u[y] = s[y]
  BY <1>2, <1>4, <1>5
<1>8. u = SubSeq(s, 1, n)
  BY <1>2, <1>4, <1>5, <1>7, PrefixSeq
<1>9. n + 1 \in 1 .. Len(s) + 1 /\ (n + 1) - 1 = n
  BY <1>2, <1>4
<1>10. Promise!Truncate(l, (n + 1) - 1)
  BY <1>4, <1>6, <1>8, <1>9 DEF Promise!Truncate
<1> QED
  BY <1>4, <1>6, <1>9, <1>10

LEMMA ClearRefines ==
    ASSUME TypeOK, TypeOK', ItemsOwned, ItemsOwned', NEW l \in List, Clear(l)
    PROVE  \E x \in 1 .. Len(Lists[l]) + 1 : Promise!Truncate(l, x - 1) /\ Promise!Exists(l)
<1>1. Others(l) /\ count'[l] = 0 /\ 0 \in 0 .. count[l]
  BY ClearShape DEF TypeOK
<1>2. OnlyOn(l) /\ op = Null /\ op' = Null /\ l \in exists /\ l \in exists'
  BY <1>1 DEF OnlyOn, Clear, Calling
<1>3. \A y \in 1 .. 0 : slots'[l][y] = slots[l][y]
  OBVIOUS
<1> QED
  BY <1>1, <1>2, <1>3, TruncateRefines

LEMMA ResizeRefines ==
    ASSUME TypeOK, TypeOK', ItemsOwned, ItemsOwned', NEW l \in List, NEW n \in Sizes,
           Resize(l, n) \/ ResizeFails(l, n)
    PROVE  \E x \in 1 .. Len(Lists[l]) + 1 : Promise!Truncate(l, x - 1) /\ Promise!Exists(l)
<1>1. /\ Others(l) /\ count'[l] = Kept(l, n)
      /\ \A y \in 1 .. Kept(l, n) : slots'[l][y] = slots[l][y]
  BY ResizeShape
<1>2. OnlyOn(l) /\ op = Null /\ op' = Null /\ l \in exists /\ l \in exists'
  BY <1>1 DEF OnlyOn, Resize, ResizeFails, Calling
<1>3. Kept(l, n) \in 0 .. count[l]
  BY SizesIn, KeptIs DEF TypeOK
<1> QED
  BY <1>1, <1>2, <1>3, TruncateRefines

LEMMA InsertFailsRefines ==
    ASSUME TypeOK, TypeOK', ItemsOwned, ItemsOwned', NEW l \in List, InsertFails(l)
    PROVE  \E x \in 1 .. Len(Lists[l]) + 1 : Promise!Truncate(l, x - 1) /\ Promise!Exists(l)
<1>1. /\ Others(l) /\ count'[l] = count[l] /\ count[l] \in 0 .. count[l]
      /\ \A y \in 1 .. count[l] : slots'[l][y] = slots[l][y]
  BY InsertFailsShape DEF TypeOK
<1>2. OnlyOn(l) /\ op = Null /\ op' = Null /\ l \in exists /\ l \in exists'
  BY <1>1 DEF OnlyOn, InsertFails, Calling
<1> QED
  BY <1>1, <1>2, TruncateRefines

LEMMA SortRefines ==
    ASSUME TypeOK, TypeOK', ItemsOwned, ItemsOwned', NEW l \in List, Sort(l)
    PROVE  Promise!Sort(l)
<1>1. op' \in Operation \cup {Null}
  BY DEF Sort, TypeOK
<1>2. Others(l) /\ count'[l] = count[l] /\ Rearranged(l)
  BY <1>1, SortShape DEF Sort
<1>3. OnlyOn(l) /\ op = Null /\ op' = Null /\ l \in exists /\ l \in exists'
  BY <1>2 DEF OnlyOn, Sort, Calling
<1>4. PICK n \in Nat : n = count[l]
  BY DEF TypeOK
<1>5. PICK p \in [1 .. n -> 1 .. n] :
         /\ \A x, y \in 1 .. n : p[x] = p[y] => x = y
         /\ \A x, y \in 1 .. n : x < y => TextAt(l, p[x]) <= TextAt(l, p[y])
         /\ \A x \in 1 .. n : slots'[l][x] = slots[l][p[x]]
  BY <1>2, <1>4 DEF Rearranged
<1>6. PICK s \in Seq(Text) : /\ s = Lists[l] /\ DOMAIN s = 1 .. n
                             /\ \A y \in 1 .. n : s[y] = TextAt(l, y)
  BY <1>3, <1>4, PlainStep DEF TextAt
<1>7. PICK u : /\ u = Contents(l)' /\ u = [y \in 1 .. n |-> slots'[l][y].text]
  BY <1>2, <1>3, <1>4, PlainStep
<1>8. Promise!Exists(l) /\ Promise!Becomes(l, u)
  BY <1>3, <1>7, PlainStep
<1>9. \A x, y \in 1 .. n : x < y => p[x] # p[y] /\ s[p[x]] <= s[p[y]]
  <2> TAKE x, y \in 1 .. n
  <2> HAVE x < y
  <2>1. p[x] # p[y]
    BY <1>5
  <2>2. p[x] \in 1 .. n /\ p[y] \in 1 .. n /\ TextAt(l, p[x]) <= TextAt(l, p[y])
    BY <1>5
  <2> QED
    BY <1>6, <2>1, <2>2
<1>10. u = [x \in 1 .. n |-> s[p[x]]]
  <2>1. \A x \in 1 .. n : slots'[l][x].text = s[p[x]]
    BY <1>5, <1>6 DEF TextAt
  <2> QED
    BY <1>7, <2>1
<1>11. DOMAIN p = DOMAIN s /\ p \in [DOMAIN s -> DOMAIN s]
  BY <1>5, <1>6
<1>12. /\ \A x, y \in DOMAIN p : x < y => p[x] # p[y] /\ s[p[x]] <= s[p[y]]
       /\ Promise!Becomes(l, [x \in DOMAIN p |-> s[p[x]]])
  BY <1>6, <1>8, <1>9, <1>10, <1>11
<1> QED
  BY <1>6, <1>8, <1>11, <1>12 DEF Promise!Sort

LEMMA UniqueContents ==
    ASSUME NEW l \in List, NEW n \in Nat, NEW r \in Nat, Unique(l, n, r), l \in exists
    PROVE  Contents(l) = Ascending(Texts(l))
<1>1. Doing("unique") /\ ~Doing("copy") /\ op.list = l
  BY UniqueFields
<1> QED
  BY <1>1 DEF Contents, Texts, TextAt

LEMMA NextUniqueContents ==
    ASSUME NEW l \in List, NEW n \in Nat, NEW r \in Nat, Unique(l, n, r)', l \in exists'
    PROVE  Contents(l)' = Ascending(Texts(l)')
<1>1. op' # Null /\ op'.call = "unique" /\ op'.list = l
  BY UniqueFields DEF Unique
<1> QED
  BY <1>1 DEF Contents, Texts, TextAt, Doing

LEMMA SameAscending ==
    ASSUME NEW S
    PROVE  Ascending(S) = Promise!Ascending(S)
<1>1. Cardinality(S) = Promise!Cardinality(S)
  BY Zenon DEF Cardinality, Promise!Cardinality
<1> QED
  BY <1>1, Zenon DEF Ascending, Promise!Ascending

LEMMA UniqueBeginsRefines ==
    ASSUME TypeOK, TypeOK', ItemsOwned, NEW l \in List, UniqueBegins(l)
    PROVE  Promise!Unique(l)
<1>1. PICK n \in Nat : n = count[l]
  BY DEF TypeOK
<1>2. /\ count' = count /\ Rearranged(l) /\ OnlyOn(l)
      /\ Unique(l, 1, 2)' /\ op = Null /\ l \in exists /\ exists' = exists
  BY UniqueBeginsShape
<1>3. Contents(l)' = Ascending(Texts(l)')
  BY <1>2, NextUniqueContents
<1>4. Filled(l)' = 1 .. n
  <2>1. Filled(l)' = (1 .. count'[l]) \ (1 + 1 .. 2 - 1)
    BY <1>2, NextUniquePlaces
  <2>2. 1 + 1 .. 2 - 1 = {}
    OBVIOUS
  <2> QED
    BY <1>1, <1>2, <2>1, <2>2
<1>5. PICK p \in [1 .. n -> 1 .. n] :
         /\ \A z \in 1 .. n : \E x \in 1 .. n : p[x] = z
         /\ \A x \in 1 .. n : slots'[l][x] = slots[l][p[x]]
  BY <1>1, <1>2 DEF Rearranged
<1>6. Plain(l) /\ Promise!Exists(l) /\ Lists[l] = Contents(l)
  BY <1>2, PlainExists DEF Plain
<1>7. PICK s \in Seq(Text) : /\ s = Lists[l] /\ DOMAIN s = 1 .. n
                             /\ \A y \in 1 .. n : s[y] = TextAt(l, y)
  BY <1>1, <1>6, PlainContents
<1>8. Texts(l)' = {TextAt(l, x)' : x \in 1 .. n}
  BY <1>4 DEF Texts
<1>9. {TextAt(l, x)' : x \in 1 .. n} = {s[x] : x \in 1 .. n}
  <2>1. ASSUME NEW x \in 1 .. n PROVE \E y \in 1 .. n : TextAt(l, x)' = s[y]
    <3>1. p[x] \in 1 .. n /\ slots'[l][x] = slots[l][p[x]]
      BY <1>5
    <3>2. TextAt(l, x)' = s[p[x]]
      BY <1>7, <3>1 DEF TextAt
    <3> QED
      BY <3>1, <3>2
  <2>2. ASSUME NEW y \in 1 .. n PROVE \E x \in 1 .. n : TextAt(l, x)' = s[y]
    <3>1. PICK x \in 1 .. n : p[x] = y
      BY <1>5
    <3>2. slots'[l][x] = slots[l][y]
      BY <1>5, <3>1
    <3> QED
      BY <1>7, <3>2 DEF TextAt
  <2> QED
    BY <2>1, <2>2
<1>10. Promise!Becomes(l, Ascending({s[x] : x \in DOMAIN s}))
  BY <1>2, <1>3, <1>7, <1>8, <1>9, BecomesContents
<1>11. Ascending({s[x] : x \in DOMAIN s}) = Promise!Ascending({s[x] : x \in DOMAIN s})
  BY SameAscending
<1> QED
  BY <1>6, <1>7, <1>10, <1>11 DEF Promise!Unique

LEMMA UniqueKeepsRefines ==
    ASSUME TypeOK, TypeOK', ItemsOwned, ItemsOwned', UniqueInv, UniqueKeeps
    PROVE  Lists' = Lists
<1>1. PICK l \in List, n \in Nat, r \in Nat : Unique(l, n, r)
  BY UniqueIs DEF UniqueKeeps
<1>2. /\ Others(l) /\ count' = count /\ exists' = exists
      /\ Unique(l, n + 1, r + 1)' /\ r <= count[l]
      /\ slots'[l][n + 1] = slots[l][r]
      /\ \A y \in 1 .. count[l] \ {n + 1, r} : slots'[l][y] = slots[l][y]
  BY <1>1, UniqueKeepsShape
<1>3. PICK m \in Nat : m = count[l]
  BY DEF TypeOK
<1>4. l \in exists /\ 1 <= n /\ n < r /\ r \in 1 .. m
  BY <1>1, <1>2, <1>3, UniqueBounds
<1>5. op.list = l /\ op'.list = l
  BY <1>1, <1>2, UniqueFields DEF Unique
<1>6. OnlyOn(l)
  BY <1>2, <1>5 DEF OnlyOn
<1>7. Filled(l) = (1 .. m) \ (n + 1 .. r - 1)
  BY <1>1, <1>3, UniquePlaces
<1>8. n + 1 \in Nat /\ r + 1 \in Nat
  OBVIOUS
<1>9. Filled(l)' = (1 .. m) \ ((n + 1) + 1 .. (r + 1) - 1)
  BY <1>2, <1>3, <1>8, NextUniquePlaces
<1>10. ASSUME NEW x \in Filled(l) PROVE \E y \in Filled(l)' : TextAt(l, y)' = TextAt(l, x)
  <2>1. CASE x = r
    <3>1. n + 1 \in Filled(l)'
      BY <1>4, <1>9
    <3> QED
      BY <1>2, <2>1, <3>1 DEF TextAt
  <2>2. CASE x # r
    <3>1. x \in 1 .. m /\ x # n + 1 /\ x \in Filled(l)'
      BY <1>4, <1>7, <1>9, <2>2
    <3>2. slots'[l][x] = slots[l][x]
      BY <1>2, <1>3, <2>2, <3>1
    <3> QED
      BY <3>1, <3>2 DEF TextAt
  <2> QED
    BY <2>1, <2>2
<1>11. ASSUME NEW x \in Filled(l)' PROVE \E y \in Filled(l) : TextAt(l, y) = TextAt(l, x)'
  <2>1. CASE x = n + 1
    <3>1. r \in Filled(l)
      BY <1>4, <1>7
    <3> QED
      BY <1>2, <2>1, <3>1 DEF TextAt
  <2>2. CASE x # n + 1
    <3>1. x \in 1 .. m /\ x # r /\ x \in Filled(l)
      BY <1>4, <1>7, <1>9, <2>2
    <3>2. slots'[l][x] = slots[l][x]
      BY <1>2, <1>3, <2>2, <3>1
    <3> QED
      BY <3>1, <3>2 DEF TextAt
  <2> QED
    BY <2>1, <2>2
<1>12. Texts(l)' = Texts(l)
  BY <1>10, <1>11 DEF Texts
<1>13. Contents(l) = Ascending(Texts(l))
  BY <1>1, <1>4, UniqueContents
<1>14. Contents(l)' = Ascending(Texts(l)')
  BY <1>2, <1>4, <1>8, NextUniqueContents
<1>15. Contents(l)' = Contents(l)
  BY <1>12, <1>13, <1>14
<1> QED
  BY <1>6, <1>15, SameContents

LEMMA UniqueDropsRefines ==
    ASSUME TypeOK, TypeOK', ItemsOwned, ItemsOwned', UniqueInv, UniqueDrops
    PROVE  Lists' = Lists
<1>1. PICK l \in List, n \in Nat, r \in Nat : Unique(l, n, r)
  BY UniqueIs DEF UniqueDrops
<1>2. /\ Others(l) /\ count' = count /\ exists' = exists
      /\ Unique(l, n, r + 1)' /\ r <= count[l] /\ TextAt(l, r) = TextAt(l, n)
      /\ \A y \in 1 .. count[l] \ {r} : slots'[l][y] = slots[l][y]
  BY <1>1, UniqueDropsShape
<1>3. PICK m \in Nat : m = count[l]
  BY DEF TypeOK
<1>4. l \in exists /\ 1 <= n /\ n < r /\ r \in 1 .. m
  BY <1>1, <1>2, <1>3, UniqueBounds
<1>5. op.list = l /\ op'.list = l
  BY <1>1, <1>2, UniqueFields DEF Unique
<1>6. OnlyOn(l)
  BY <1>2, <1>5 DEF OnlyOn
<1>7. Filled(l) = (1 .. m) \ (n + 1 .. r - 1)
  BY <1>1, <1>3, UniquePlaces
<1>8. r + 1 \in Nat
  OBVIOUS
<1>9. Filled(l)' = (1 .. m) \ (n + 1 .. (r + 1) - 1)
  BY <1>2, <1>3, <1>8, NextUniquePlaces
<1>10. \A y \in 1 .. m : y # r => TextAt(l, y)' = TextAt(l, y)
  BY <1>2, <1>3 DEF TextAt
<1>11. ASSUME NEW x \in Filled(l) PROVE \E y \in Filled(l)' : TextAt(l, y)' = TextAt(l, x)
  <2>1. CASE x = r
    <3>1. n \in 1 .. m /\ n # r /\ n \in Filled(l)'
      BY <1>4, <1>9
    <3> QED
      BY <1>2, <1>10, <2>1, <3>1
  <2>2. CASE x # r
    <3>1. x \in 1 .. m /\ x \in Filled(l)'
      BY <1>4, <1>7, <1>9, <2>2
    <3> QED
      BY <1>10, <2>2, <3>1
  <2> QED
    BY <2>1, <2>2
<1>12. ASSUME NEW x \in Filled(l)' PROVE \E y \in Filled(l) : TextAt(l, y) = TextAt(l, x)'
  <2>1. x \in 1 .. m /\ x # r /\ x \in Filled(l)
    BY <1>4, <1>7, <1>9
  <2> QED
    BY <1>10, <2>1
<1>13. Texts(l)' = Texts(l)
  BY <1>11, <1>12 DEF Texts
<1>14. Contents(l) = Ascending(Texts(l))
  BY <1>1, <1>4, UniqueContents
<1>15. Contents(l)' = Ascending(Texts(l)')
  BY <1>2, <1>4, <1>8, NextUniqueContents
<1>16. Contents(l)' = Contents(l)
  BY <1>13, <1>14, <1>15
<1> QED
  BY <1>6, <1>16, SameContents

LEMMA UniqueEndsRefines ==
    ASSUME TypeOK, TypeOK', ItemsOwned, ItemsOwned', UniqueInv, UniqueEnds
    PROVE  Lists' = Lists
<1>1. PICK l \in List, n \in Nat, r \in Nat : Unique(l, n, r)
  BY UniqueIs DEF UniqueEnds
<1>2. PICK m \in Nat : m = count[l]
  BY DEF TypeOK
<1>3. /\ Others(l) /\ count'[l] = n /\ slots' = slots
      /\ l \in exists /\ r = m + 1 /\ 1 <= n /\ n <= m
  BY <1>1, <1>2, UniqueEndsShape
<1>4. /\ op.list = l /\ op.kept = n /\ op.read = r /\ Doing("unique")
      /\ op' = Null /\ exists' = exists
  BY <1>1, UniqueFields DEF UniqueEnds
<1>5. OnlyOn(l) /\ Plain(l)'
  BY <1>3, <1>4 DEF OnlyOn, Plain
<1>6. Filled(l) = 1 .. n
  <2>1. Filled(l) = (1 .. m) \ (n + 1 .. (m + 1) - 1)
    BY <1>1, <1>2, <1>3, UniquePlaces
  <2> QED
    BY <1>3, <2>1
<1>7. \A x \in 1 .. n : TextAt(l, x) \in Nat
  BY <1>3, <1>6, TextsAreNumbers
<1> DEFINE S == Texts(l)
           s == [x \in 1 .. n |-> TextAt(l, x)]
<1>8. S \in SUBSET Nat /\ s \in [1 .. n -> S] /\ \A e \in S : \E k \in 1 .. n : s[k] = e
  BY <1>6, <1>7 DEF Texts
<1>9. AscendingTo(s, n)
  <2>1. \A x, y \in 1 .. n : x < y => TextAt(l, x) < TextAt(l, y)
    BY <1>4 DEF UniqueInv, Ascends
  <2> QED
    BY <2>1 DEF AscendingTo
<1>10. Contents(l)' = s
  <2>1. count'[l] \in 0 .. MaxCapacity
    BY NextCountIs
  <2>2. Contents(l)' = [x \in 1 .. count'[l] |-> slots'[l][x].text]
    BY <1>5, <2>1, NextPlainContents
  <2> QED
    BY <1>3, <2>2 DEF TextAt
<1> HIDE DEF S, s
<1>11. /\ Cardinality(S) = n
       /\ \A t \in [1 .. n -> S] : AscendingTo(t, n) => t = s
  BY <1>8, <1>9, AscendingUnique
<1>12. Ascending(S) = s
  <2>1. Ascending(S) = CHOOSE t \in [1 .. n -> S] : \A x, y \in DOMAIN t : x < y => t[x] < t[y]
    BY <1>11, Zenon DEF Ascending
  <2>2. \A t \in [1 .. n -> S] :
           (\A x, y \in DOMAIN t : x < y => t[x] < t[y]) <=> AscendingTo(t, n)
    BY DEF AscendingTo
  <2>3. \E t \in [1 .. n -> S] : \A x, y \in DOMAIN t : x < y => t[x] < t[y]
    BY <1>8, <1>9, <2>2
  <2>4. Ascending(S) \in [1 .. n -> S] /\ AscendingTo(Ascending(S), n)
    BY <2>1, <2>2, <2>3
  <2> QED
    BY <1>11, <2>4
<1>13. Contents(l) = Ascending(S)
  BY <1>1, <1>3, UniqueContents DEF S
<1>14. Contents(l)' = Contents(l)
  BY <1>10, <1>12, <1>13
<1> QED
  BY <1>5, <1>14, SameContents

LEMMA CopyBeginsRefines ==
    ASSUME TypeOK, TypeOK', NEW from \in List, NEW l \in List, CopyBegins(from, l)
    PROVE  Lists' = Lists
<1>1. Others(l) /\ op = Null /\ l \notin exists /\ exists' = exists \cup {l}
  BY CopyBeginsShape DEF CopyBegins, Calling
<1>2. op' # Null /\ op'.call = "copy" /\ op'.list = l
  BY CopyFields DEF CopyBegins
<1>3. OnlyOn(l)
  BY <1>1, <1>2 DEF OnlyOn
<1>4. Contents(l) = Null
  BY <1>1, NotThere
<1>5. Contents(l)' = Null
  BY <1>2, NextNotThere DEF Doing
<1> QED
  BY <1>3, <1>4, <1>5, SameContents

LEMMA CopyItemRefines ==
    ASSUME TypeOK, TypeOK', CopyInv, CopyItem
    PROVE  Lists' = Lists
<1>1. PICK from \in List, l \in List : Copying(from, l)
  BY CopyIs DEF CopyItem
<1>2. Doing("copy") /\ op.list = l /\ op # Null /\ op.call = "copy"
  BY <1>1, CopyFields DEF Doing
<1>3. Others(l) /\ op' = op /\ exists' = exists
  BY <1>1, CopyItemShape DEF CopyItem
<1>4. OnlyOn(l)
  BY <1>2, <1>3 DEF OnlyOn
<1>5. Contents(l) = Null
  BY <1>2, NotThere
<1>6. Contents(l)' = Null
  BY <1>2, <1>3, NextNotThere DEF Doing
<1> QED
  BY <1>4, <1>5, <1>6, SameContents

LEMMA CopyFailsRefines ==
    ASSUME TypeOK, TypeOK', CopyFails
    PROVE  Lists' = Lists
<1>1. PICK from \in List, l \in List : Copying(from, l)
  BY CopyIs DEF CopyFails
<1>2. Doing("copy") /\ op.list = l
  BY <1>1, CopyFields
<1>3. Others(l) /\ op' = Null /\ exists' = exists \ {l}
  BY <1>1, <1>2, CopyFailsShape DEF CopyFails
<1>4. OnlyOn(l)
  BY <1>2, <1>3 DEF OnlyOn
<1>5. Contents(l) = Null
  BY <1>2, NotThere
<1>6. Contents(l)' = Null
  BY <1>3, NextNotThere
<1> QED
  BY <1>4, <1>5, <1>6, SameContents

LEMMA CopyEndsRefines ==
    ASSUME TypeOK, TypeOK', ItemsOwned, ItemsOwned', CopyInv, CopyEnds
    PROVE  \E from, l \in List : Promise!Copy(from, l)
<1>1. PICK from \in List, l \in List : Copying(from, l)
  BY CopyIs DEF CopyEnds
<1>2. Doing("copy") /\ op.list = l /\ op.from = from
  BY <1>1, CopyFields
<1>3. /\ from \in exists /\ l \in exists /\ from # l
      /\ \A x \in 1 .. count[l] : TextAt(l, x) = TextAt(from, x)
  BY <1>2 DEF CopyInv
<1>4. count[l] = count[from] /\ op' = Null /\ UNCHANGED <<exists, slots, count>>
  BY <1>2 DEF CopyEnds
<1>5. OnlyOn(l) /\ Plain(from) /\ Plain(l)'
  BY <1>2, <1>3, <1>4 DEF OnlyOn, Others, Plain
<1>6. /\ Promise!Exists(from) /\ Lists[from] = Contents(from)
      /\ Contents(from) = [x \in 1 .. count[from] |-> TextAt(from, x)]
  BY <1>5, PlainExists, PlainContents DEF TextAt
<1>7. Contents(l)' = [x \in 1 .. count[l] |-> TextAt(l, x)]
  <2>1. count'[l] \in 0 .. MaxCapacity
    BY NextCountIs
  <2> QED
    BY <1>4, <1>5, <2>1, NextPlainContents DEF TextAt
<1>8. Contents(l)' = Lists[from]
  BY <1>3, <1>4, <1>6, <1>7
<1>9. ~Promise!Exists(l)
  BY <1>2, NotThere, ListsAt DEF Promise!Exists
<1>10. Promise!Becomes(l, Contents(l)')
  BY <1>5, BecomesContents
<1>11. Promise!Copy(from, l)
  BY <1>6, <1>8, <1>9, <1>10 DEF Promise!Copy
<1> QED
  BY <1>11

-----------------------------------------------------------------------------
(* The steps of the promise, each with its parameters.                      *)
LEMMA PromiseNext ==
    ASSUME NEW l \in List,
           \/ Promise!Create(l) \/ Promise!Free(l) \/ Promise!Sort(l) \/ Promise!Unique(l)
           \/ \E to \in List : Promise!Copy(l, to)
           \/ \E x \in 1 .. Len(Lists[l]) + 1 : Promise!Exists(l) /\ Promise!Remove(l, x)
           \/ \E x \in 1 .. Len(Lists[l]) + 1 : Promise!Truncate(l, x - 1) /\ Promise!Exists(l)
           \/ \E x \in 1 .. Len(Lists[l]) + 1 : \E t \in Text :
                 Promise!Exists(l) /\ Promise!Insert(l, x, t)
    PROVE  Promise!Next
  BY Zenon DEF Promise!Next

(* Each step of the lists is a step of the sequences string_list.h speaks   *)
(* of, or none: whatever unique and copy go through in between, the list   *)
(* worked on changes once, a resize or insertion that runs out of memory    *)
(* leaves a prefix or all of it, and no call disturbs another list.         *)
THEOREM Refinement == Spec => ImplementsList
<1>1. Init => Promise!Init
  <2> SUFFICES ASSUME Init PROVE Promise!Init
    OBVIOUS
  <2>1. \A l \in List : Contents(l) = Null
    BY NotThere DEF Init
  <2> QED
    BY <2>1 DEF Promise!Init, Lists
<1>2. ASSUME IInv, IInv', [Next]_vars
      PROVE  [Promise!Next]_Lists
  <2>0. TypeOK /\ ItemsOwned /\ UniqueInv /\ CopyInv /\ TypeOK' /\ ItemsOwned'
    BY <1>2 DEF IInv
  <2>1. CASE UNCHANGED vars
    <3>1. \A l \in List : Filled(l)' = Filled(l)
      BY <2>1 DEF vars, Emptied, Filled, Doing
    <3>2. \A l \in List : Contents(l)' = Contents(l)
      BY <2>1, <3>1 DEF vars, Contents, Doing
    <3> QED
      BY <3>2 DEF Lists
  <2>2. ASSUME NEW l \in List, FreeList(l) PROVE Promise!Next
    BY <2>0, <2>2, FreeListRefines, PromiseNext
  <2>3. ASSUME NEW l \in List, Clear(l) PROVE Promise!Next
    BY <2>0, <2>3, ClearRefines, PromiseNext
  <2>4. ASSUME NEW l \in List, InsertFails(l) PROVE Promise!Next
    BY <2>0, <2>4, InsertFailsRefines, PromiseNext
  <2>5. ASSUME NEW l \in List, Sort(l) PROVE Promise!Next
    BY <2>0, <2>5, SortRefines, PromiseNext
  <2>6. ASSUME NEW l \in List, UniqueBegins(l) PROVE Promise!Next
    BY <2>0, <2>6, UniqueBeginsRefines, PromiseNext
  <2>7. ASSUME NEW l \in List, NEW n \in Sizes, Create(l, n) PROVE Promise!Next
    BY <2>0, <2>7, CreateRefines, PromiseNext
  <2>8. ASSUME NEW l \in List, NEW n \in Sizes, Resize(l, n) \/ ResizeFails(l, n)
        PROVE  Promise!Next
    BY <2>0, <2>8, ResizeRefines, PromiseNext
  <2>9. ASSUME NEW l \in List, NEW x \in 1 .. MaxCapacity, RemoveItem(l, x)
        PROVE  Promise!Next
    BY <2>0, <2>9, RemoveRefines, PromiseNext
  <2>10. ASSUME NEW l \in List, NEW x \in Nat, NEW t \in Text, Insert(l, x, t)
         PROVE  Promise!Next
    BY <2>0, <2>10, InsertRefines, PromiseNext
  <2>11. ASSUME NEW from \in List, NEW l \in List, CopyBegins(from, l) PROVE Lists' = Lists
    BY <2>0, <2>11, CopyBeginsRefines
  <2>12. CASE UniqueKeeps \/ UniqueDrops \/ UniqueEnds
    BY <2>0, <2>12, UniqueKeepsRefines, UniqueDropsRefines, UniqueEndsRefines
  <2>13. CASE CopyItem \/ CopyFails
    BY <2>0, <2>13, CopyItemRefines, CopyFailsRefines
  <2>14. CASE CopyEnds
    BY <2>0, <2>14, CopyEndsRefines, PromiseNext
  <2> QED
    BY <1>2, <2>1, <2>2, <2>3, <2>4, <2>5, <2>6, <2>7, <2>8, <2>9, <2>10, <2>11, <2>12,
       <2>13, <2>14, NextCases
<1> QED
  BY <1>1, <1>2, Invariance, PTL DEF Spec, ImplementsList, Promise!Spec, Lists
=============================================================================
