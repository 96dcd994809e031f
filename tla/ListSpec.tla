------------------------------ MODULE ListSpec ------------------------------
(***************************************************************************)
(* What src/src/bas/base/string_list.h promises: lists that are sequences  *)
(* of strings, each independent of the others.                             *)
(***************************************************************************)
EXTENDS Naturals, Sequences, FiniteSets

CONSTANTS
    List,   \* the lists there may be
    Text,   \* strings, as numbers in the order of strcmp
    None    \* no such list

VARIABLE lists

Init == lists = [l \in List |-> None]

Exists(l) == lists[l] # None
Becomes(l, seq) == lists' = [lists EXCEPT ![l] = seq]

Ascending(S) ==
    CHOOSE s \in [1 .. Cardinality(S) -> S] : \A x, y \in DOMAIN s : x < y => s[x] < s[y]

Create(l) == ~Exists(l) /\ Becomes(l, <<>>)
Free(l) == Exists(l) /\ Becomes(l, None)

(* t stands at index x afterwards; index Len + 1 appends. *)
Insert(l, x, t) ==
    /\ Exists(l) /\ x \in 1 .. Len(lists[l]) + 1
    /\ Becomes(l, SubSeq(lists[l], 1, x - 1) \o <<t>> \o SubSeq(lists[l], x, Len(lists[l])))

Remove(l, x) ==
    /\ Exists(l) /\ x \in DOMAIN lists[l]
    /\ Becomes(l, SubSeq(lists[l], 1, x - 1) \o SubSeq(lists[l], x + 1, Len(lists[l])))

(* A list that is cleared, or resized below its size, loses its tail. *)
Truncate(l, n) == Exists(l) /\ Becomes(l, SubSeq(lists[l], 1, n))

Sort(l) ==
    /\ Exists(l)
    /\ \E p \in [DOMAIN lists[l] -> DOMAIN lists[l]] :
          /\ \A x, y \in DOMAIN p : x < y => p[x] # p[y] /\ lists[l][p[x]] <= lists[l][p[y]]
          /\ Becomes(l, [x \in DOMAIN p |-> lists[l][p[x]]])

Unique(l) == Exists(l) /\ Becomes(l, Ascending({lists[l][x] : x \in DOMAIN lists[l]}))

Copy(from, to) == Exists(from) /\ ~Exists(to) /\ Becomes(to, lists[from])

Next ==
    \E l \in List :
        \/ Create(l) \/ Free(l) \/ Sort(l) \/ Unique(l)
        \/ \E to \in List : Copy(l, to)
        \/ Exists(l) /\ \E x \in 1 .. Len(lists[l]) + 1 :
              Remove(l, x) \/ Truncate(l, x - 1) \/ \E t \in Text : Insert(l, x, t)

Spec == Init /\ [][Next]_lists
=============================================================================
