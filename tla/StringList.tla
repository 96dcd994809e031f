----------------------------- MODULE StringList -----------------------------
(***************************************************************************)
(* The growing arrays of owned strings of src/src/bas/base/string_list.c.  *)
(* wstring_list.c, fileent_list.c and wfileent_list.c are the same code for *)
(* other items.                                                            *)
(*                                                                         *)
(* A list is its array of slots: a slot holds NULL or a pointer to a string *)
(* on the heap, and slots behind the count may hold anything.  The two     *)
(* operations that go through a list one item at a time, string_list_unique *)
(* and string_list_copy, are modelled one item per step.                   *)
(***************************************************************************)
EXTENDS Naturals, FiniteSets

CONSTANTS
    List,           \* the list objects there may be
    Text,           \* strings, as numbers in the order of strcmp
    Address,        \* where the heap may put a string
    Null,
    DefaultCapacity,\* STRING_LIST_DEFAULT_CAPACITY
    Sizes,          \* the capacities lists are created with and resized to
    MaxCapacity     \* bound: lists do not grow beyond

ASSUME ListAssumption ==
    /\ Text \subseteq Nat
    /\ DefaultCapacity \in Nat \ {0} /\ MaxCapacity \in Nat
    /\ Sizes \subseteq 0 .. MaxCapacity
    /\ Null \notin List

(* A string on the heap. *)
String == [at : Address, text : Text]

(* An operation under way. *)
Operation == [call : {"copy"}, from : List, list : List]
             \cup [call : {"unique"}, list : List, kept : Nat, read : Nat]

ASSUME NullAssumption ==
    /\ Null \notin String \cup Operation
    /\ \A n \in 0 .. MaxCapacity : Null \notin [1 .. n -> Text]

VARIABLES
    exists,     \* the lists that have been created and not freed
    slots,      \* slots[l]: l->items, as a function on 1 .. l->capacity
    count,      \* count[l]: l->count
    live,       \* the strings allocated and not freed
    badFree,    \* something was freed that was not allocated
    op          \* the operation that is under way, or Null

vars == <<exists, slots, count, live, badFree, op>>

NoSlots == [x \in 1 .. 0 |-> Null]

Init ==
    /\ exists = {}
    /\ slots = [l \in List |-> NoSlots]
    /\ count = [l \in List |-> 0]
    /\ live = {}
    /\ badFree = FALSE
    /\ op = Null

Range1(s, n) == {s[x] : x \in 1 .. n}
Items(l) == Range1(slots[l], count[l])

(* free() of different strings *)
Free(strings) ==
    /\ live' = live \ strings
    /\ badFree' = (badFree \/ ~(strings \subseteq live))

(* A call on an existing list, with no other under way. *)
Calling(l) == op = Null /\ l \in exists

SetSlots(l, s) == slots' = [slots EXCEPT ![l] = s]
SetCount(l, n) == count' = [count EXCEPT ![l] = n]
-----------------------------------------------------------------------------
Empty(n) == [x \in 1 .. n |-> Null]
Capacity(s) == Cardinality(DOMAIN s)

(* Faulty variant: no room is made. *)
GrownNever(s, n) == s

(* ensure_capacity for one item more than n. *)
Grown(s, n) ==
    LET size == IF n < Capacity(s) THEN Capacity(s)
                ELSE IF Capacity(s) = 0 THEN DefaultCapacity ELSE 2 * Capacity(s)
    IN  [x \in 1 .. size |-> IF x \in DOMAIN s THEN s[x] ELSE Null]

(* ensure_capacity for n items in an empty list: the default capacity,      *)
(* doubled until it is enough.                                              *)
InitialCapacity(n) ==
    {c \in n .. 2 * n + DefaultCapacity :
        IF n = 0 THEN c = 0
        ELSE \E k \in 0 .. n : c = DefaultCapacity * 2^k /\ (k = 0 \/ c < 2 * n)}

(* s, whose first n slots are used, with item o put in at x. *)
Inserted(s, n, x, o) ==
    [y \in DOMAIN s |-> IF y = x THEN o ELSE IF y \in x + 1 .. n + 1 THEN s[y - 1] ELSE s[y]]

(* s with item x taken out. *)
Removed(s, n, x) ==
    [y \in DOMAIN s |-> IF y = n THEN Null ELSE IF y \in x .. n THEN s[y + 1] ELSE s[y]]

Create(l, n) ==
    /\ op = Null /\ l \notin exists
    /\ exists' = exists \cup {l}
    /\ \E c \in InitialCapacity(n) : c <= MaxCapacity /\ SetSlots(l, Empty(c))
    /\ SetCount(l, 0)
    /\ UNCHANGED <<live, badFree, op>>

FreeList(l) ==
    /\ Calling(l)
    /\ exists' = exists \ {l}
    /\ Free(Items(l) \ {Null})
    /\ SetSlots(l, NoSlots) /\ SetCount(l, 0)
    /\ UNCHANGED op

(* Make room, copy the string, move the items from x on to the right.       *)
Insert(l, x, t) ==
    /\ Calling(l)
    /\ x \in 1 .. count[l] + 1
    /\ Capacity(Grown(slots[l], count[l])) <= MaxCapacity
    /\ \E o \in String :
          /\ o.text = t /\ \A string \in live : string.at # o.at
          /\ SetSlots(l, Inserted(Grown(slots[l], count[l]), count[l], x, o))
          /\ live' = live \cup {o}
    /\ SetCount(l, count[l] + 1)
    /\ UNCHANGED <<exists, badFree, op>>

AppendItem(l, t) == Insert(l, count[l] + 1, t)

(* str_dup fails: the list has grown for nothing.                           *)
InsertFails(l) ==
    /\ Calling(l)
    /\ Capacity(Grown(slots[l], count[l])) <= MaxCapacity
    /\ SetSlots(l, Grown(slots[l], count[l]))
    /\ UNCHANGED <<exists, count, live, badFree, op>>

RemoveItem(l, x) ==
    /\ Calling(l)
    /\ x \in 1 .. count[l]
    /\ Free({slots[l][x]} \ {Null})
    /\ SetSlots(l, Removed(slots[l], count[l], x))
    /\ SetCount(l, count[l] - 1)
    /\ UNCHANGED <<exists, op>>

Clear(l) ==
    /\ Calling(l)
    /\ Free(Items(l) \ {Null})
    /\ SetSlots(l, [x \in DOMAIN slots[l] |-> IF x <= count[l] THEN Null ELSE slots[l][x]])
    /\ SetCount(l, 0)
    /\ UNCHANGED <<exists, op>>

Kept(l, n) == IF n < count[l] THEN n ELSE count[l]
Cut(l, n) == {slots[l][x] : x \in Kept(l, n) + 1 .. count[l]} \ {Null}

Resize(l, n) ==
    /\ Calling(l)
    /\ Free(Cut(l, n))
    /\ SetSlots(l, [x \in 1 .. n |-> IF x <= Kept(l, n) THEN slots[l][x] ELSE Null])
    /\ SetCount(l, Kept(l, n))
    /\ UNCHANGED <<exists, op>>

(* realloc fails after the items were cut off: their slots stay as they are, *)
(* behind the count.                                                        *)
ResizeFails(l, n) ==
    /\ Calling(l)
    /\ n > 0
    /\ Free(Cut(l, n))
    /\ SetCount(l, Kept(l, n))
    /\ UNCHANGED <<exists, slots, op>>
-----------------------------------------------------------------------------
(* The orders qsort may leave the first n slots in. *)
Orders(s, n) ==
    {p \in [1 .. n -> 1 .. n] :
        \A x, y \in 1 .. n : x < y => p[x] # p[y] /\ s[p[x]].text <= s[p[y]].text}

Sorting(l) ==
    \E p \in Orders(slots[l], count[l]) :
        SetSlots(l, [x \in DOMAIN slots[l] |->
                        IF x <= count[l] THEN slots[l][p[x]] ELSE slots[l][x]])

Sort(l) ==
    /\ Calling(l)
    /\ count[l] > 0
    /\ Sorting(l)
    /\ UNCHANGED <<exists, count, live, badFree, op>>

(* Faulty variant: the items are not sorted. *)
UniqueBeginsUnsorted(l) ==
    /\ Calling(l)
    /\ count[l] > 1
    /\ op' = [call |-> "unique", list |-> l, kept |-> 1, read |-> 2]
    /\ UNCHANGED <<exists, slots, count, live, badFree>>

(* string_list_unique sorts first.  Of the items before `read', the first   *)
(* `kept' have been kept.                                                   *)
UniqueBegins(l) ==
    /\ Calling(l)
    /\ count[l] > 1
    /\ Sorting(l)
    /\ op' = [call |-> "unique", list |-> l, kept |-> 1, read |-> 2]
    /\ UNCHANGED <<exists, count, live, badFree>>

Doing(call) == op # Null /\ op.call = call

(* The next item to be read differs from the last one kept. *)
IsNew == LET s == slots[op.list] IN s[op.read].text # s[op.kept].text

UniqueKeeps ==
    /\ Doing("unique") /\ op.read <= count[op.list] /\ IsNew
    /\ LET s == slots[op.list]
           next == op.kept + 1
       IN  IF next = op.read THEN UNCHANGED <<slots, live, badFree>>
           ELSE /\ Free({s[next]} \ {Null})
                /\ SetSlots(op.list, [s EXCEPT ![next] = s[op.read], ![op.read] = Null])
    /\ op' = [op EXCEPT !.kept = @ + 1, !.read = @ + 1]
    /\ UNCHANGED <<exists, count>>

(* Faulty variant: the slot of a duplicate still points to it. *)
UniqueDropsDangling ==
    /\ Doing("unique") /\ op.read <= count[op.list] /\ ~IsNew
    /\ Free({slots[op.list][op.read]})
    /\ op' = [op EXCEPT !.read = @ + 1]
    /\ UNCHANGED <<exists, slots, count>>

UniqueDrops ==
    /\ Doing("unique") /\ op.read <= count[op.list] /\ ~IsNew
    /\ Free({slots[op.list][op.read]})
    /\ SetSlots(op.list, [slots[op.list] EXCEPT ![op.read] = Null])
    /\ op' = [op EXCEPT !.read = @ + 1]
    /\ UNCHANGED <<exists, count>>

UniqueEnds ==
    /\ Doing("unique") /\ op.read > count[op.list]
    /\ SetCount(op.list, op.kept)
    /\ op' = Null
    /\ UNCHANGED <<exists, slots, live, badFree>>
-----------------------------------------------------------------------------
(* string_list_copy creates a list as large and appends the items to it.    *)
CopyBegins(from, to) ==
    /\ Calling(from) /\ to \notin exists
    /\ exists' = exists \cup {to}
    /\ \E c \in InitialCapacity(Capacity(slots[from])) :
          c <= MaxCapacity /\ SetSlots(to, Empty(c))
    /\ SetCount(to, 0)
    /\ op' = [call |-> "copy", from |-> from, list |-> to]
    /\ UNCHANGED <<live, badFree>>

(* An append to the copy never needs to grow it. *)
CopyItem ==
    /\ Doing("copy") /\ count[op.list] < count[op.from]
    /\ LET n == count[op.list]
       IN  /\ \E o \in String :
                 /\ o.text = slots[op.from][n + 1].text
                 /\ \A string \in live : string.at # o.at
                 /\ SetSlots(op.list, Inserted(Grown(slots[op.list], n), n, n + 1, o))
                 /\ live' = live \cup {o}
           /\ SetCount(op.list, n + 1)
    /\ UNCHANGED <<exists, badFree, op>>

(* Out of memory: the copy made so far is freed. *)
CopyFails ==
    /\ Doing("copy") /\ count[op.list] < count[op.from]
    /\ exists' = exists \ {op.list}
    /\ Free(Items(op.list) \ {Null})
    /\ SetSlots(op.list, NoSlots) /\ SetCount(op.list, 0)
    /\ op' = Null

CopyEnds ==
    /\ Doing("copy") /\ count[op.list] = count[op.from]
    /\ op' = Null
    /\ UNCHANGED <<exists, slots, count, live, badFree>>

Call(l) ==
    \/ FreeList(l) \/ InsertFails(l) \/ Clear(l) \/ Sort(l) \/ UniqueBegins(l)
    \/ \E n \in Sizes : Create(l, n) \/ Resize(l, n) \/ ResizeFails(l, n)
    \/ \E x \in 1 .. MaxCapacity : RemoveItem(l, x) \/ \E t \in Text : Insert(l, x, t)
    \/ \E t \in Text : AppendItem(l, t)
    \/ \E to \in List : CopyBegins(l, to)

Next ==
    \/ \E l \in List : Call(l)
    \/ UniqueKeeps \/ UniqueDrops \/ UniqueEnds \/ CopyItem \/ CopyFails \/ CopyEnds

Spec == Init /\ [][Next]_vars
-----------------------------------------------------------------------------
(* Type invariant. *)
TypeOK ==
    /\ exists \subseteq List
    /\ DOMAIN slots = List
    /\ \A l \in List : \E n \in 0 .. MaxCapacity : slots[l] \in [1 .. n -> String \cup {Null}]
    /\ count \in [List -> Nat]
    /\ \A l \in List : 1 .. count[l] \subseteq DOMAIN slots[l]
    /\ live \subseteq String
    /\ badFree \in BOOLEAN
    /\ op \in Operation \cup {Null}

(* The places of list l that string_list_unique has emptied. *)
Emptied(l) ==
    IF Doing("unique") /\ op.list = l THEN op.kept + 1 .. op.read - 1 ELSE {}
Filled(l) == (1 .. count[l]) \ Emptied(l)

(***************************************************************************)
(* Lists own their strings: each string on the heap stands in one place of *)
(* one list, every place has one, and nothing else is ever freed, although *)
(* freed pointers stay behind the count when a resize fails, and unique    *)
(* frees the slots it writes to unless they are NULL.                      *)
(***************************************************************************)
ItemsOwned ==
    /\ ~badFree
    /\ \A l \in exists : \A x \in Filled(l) : slots[l][x] \in live
    /\ \A l \in exists : \A x \in Emptied(l) : slots[l][x] = Null
    /\ \A k, l \in exists : \A x \in Filled(k), y \in Filled(l) :
          slots[k][x] = slots[l][y] => k = l /\ x = y
    /\ \A string \in live : \E l \in exists : \E x \in Filled(l) : slots[l][x] = string

(* The strictly ascending sequence of a set of numbers. *)
Ascending(S) ==
    CHOOSE s \in [1 .. Cardinality(S) -> S] : \A x, y \in DOMAIN s : x < y => s[x] < s[y]

(***************************************************************************)
(* The lists behave as the sequences string_list.h speaks of: insert and   *)
(* remove keep the others in order, unique leaves each string once and in  *)
(* order, a copy that fails leaves nothing behind and one that succeeds is *)
(* complete.  Unique takes effect when it begins, a copy when it ends.     *)
(***************************************************************************)
Contents(l) ==
    IF l \notin exists \/ (Doing("copy") /\ op.list = l) THEN Null
    ELSE IF Doing("unique") /\ op.list = l
    THEN Ascending({slots[l][x].text : x \in Filled(l)})
    ELSE [x \in 1 .. count[l] |-> slots[l][x].text]

Lists == [l \in List |-> Contents(l)]

Promise == INSTANCE ListSpec WITH lists <- Lists, None <- Null
ImplementsList == Promise!Spec
=============================================================================
