----------------------------- MODULE PrefixMap -----------------------------
(***************************************************************************)
(* The hash map of src/src/bas/util/prefix_map.c: chained buckets of       *)
(* entries that own their values, and an iteration, prefix_map_foreach,    *)
(* whose callback may change the map it iterates over, as the callback of  *)
(* cli_parser_enumerate_aliases may through cli_parser_set_alias and       *)
(* cli_parser_remove_alias.                                                *)
(***************************************************************************)
EXTENDS Integers, SequencesExt

CONSTANTS
    Keys,           \* strings, as sequences of characters
    Values,         \* objects a caller may hand over to the map
    NoValue,        \* a NULL value
    NoKey,          \* the key of an entry whose str_dup failed
    Buckets,        \* PREFIX_MAP_SIZE
    Hash            \* hash_string

ASSUME PrefixMapAssumption ==
    /\ Buckets \in Nat \ {0}
    /\ Hash \in [Keys -> 1 .. Buckets]
    /\ Keys \subseteq Seq(STRING) /\ NoKey \notin Keys
    /\ NoValue \notin Values

VARIABLES
    buckets,    \* the chains of entries
    count,
    live,       \* values handed over and not destroyed
    lost,       \* values handed over to a prefix_map_add that failed
    cursor,     \* where prefix_map_foreach is: a bucket and a key, or <<>>,
                \* or Freed when its callback removed that entry
    visited,    \* history: the places its callback was called for
    stable,     \* history: the keys present since it began
    status      \* "ok", or how the program came to a bad end

vars == <<buckets, count, live, lost, cursor, visited, stable, status>>
iteration == <<cursor, visited, stable>>

Bucket == 1 .. Buckets
Entry == [key : Keys \cup {NoKey}, value : Values \cup {NoValue}]

Freed == <<0, NoKey>>

Init ==
    /\ buckets = [b \in Bucket |-> <<>>]
    /\ count = 0
    /\ live = {} /\ lost = {}
    /\ cursor = <<>> /\ visited = <<>> /\ stable = {}
    /\ status = "ok"

Chain(k) == buckets[Hash[k]]
Readable(k) == \A x \in DOMAIN Chain(k) : Chain(k)[x].key # NoKey

(* The place of the first entry with key k in its chain; 0 if there is none. *)
Place(k) == SelectInSeq(Chain(k), LAMBDA e : e.key = k)

(* prefix_map_get *)
Get(k) == IF Place(k) = 0 THEN NoValue ELSE Chain(k)[Place(k)].value

(* The places of all entries, a bucket and a place in its chain; and the    *)
(* entries in the order of the chains.                                      *)
Places == UNION {{b} \X DOMAIN buckets[b] : b \in Bucket}
At(p) == buckets[p[1]][p[2]]
AllEntries == FlattenSeq(buckets)

(* prefix_map_find_prefix: an exact match, or the shortest key. *)
NoMatch == [value |-> NoValue, len |-> 0]

(* Faulty variant: the lengths are compared the other way round. *)
BetterLonger(prefix, best, e) ==
    /\ IsPrefix(prefix, e.key)
    /\ \/ best.value = NoValue
       \/ Len(e.key) = Len(prefix)
       \/ best.len < Len(e.key)

Better(prefix, best, e) ==
    /\ IsPrefix(prefix, e.key)
    /\ \/ best.value = NoValue
       \/ Len(e.key) = Len(prefix)
       \/ best.len > Len(e.key)
BetterOf(prefix, best, e) ==
    IF Better(prefix, best, e) THEN [value |-> e.value, len |-> Len(e.key)] ELSE best
FindPrefix(prefix) ==
    FoldLeft(LAMBDA best, e : BetterOf(prefix, best, e), NoMatch, AllEntries).value

-----------------------------------------------------------------------------
(* Between two calls, or inside the callback of a foreach. *)
Running == status = "ok"

(* The caller's value, or NULL; a value is handed over once. *)
Given(v) == v \notin live

(* Faulty variant: the old value is not destroyed. *)
AddReplacesLeaks(k, v) ==
    /\ Running /\ Readable(k) /\ Given(v)
    /\ Place(k) # 0
    /\ buckets' = [buckets EXCEPT ![Hash[k]][Place(k)].value = v]
    /\ live' = live \cup ({v} \ {NoValue})
    /\ UNCHANGED <<count, lost, iteration, status>>

AddReplaces(k, v) ==
    /\ Running /\ Readable(k) /\ Given(v)
    /\ Place(k) # 0
    /\ buckets' = [buckets EXCEPT ![Hash[k]][Place(k)].value = v]
    /\ live' = (live \ {Get(k)}) \cup ({v} \ {NoValue})
    /\ UNCHANGED <<count, lost, iteration, status>>

(* A new entry goes to the head of its chain; dup is the copy of the key. *)
Insert(k, dup, v) ==
    /\ buckets' = [buckets EXCEPT ![Hash[k]] = <<[key |-> dup, value |-> v]>> \o @]
    /\ count' = count + 1
    /\ live' = live \cup ({v} \ {NoValue})

(* Faulty variant: the chain is not searched for the key. *)
AddUnsearched(k, v) ==
    /\ Running /\ Readable(k) /\ Given(v)
    /\ Insert(k, k, v)
    /\ UNCHANGED <<lost, iteration, status>>

AddNew(k, v) ==
    /\ Running /\ Readable(k) /\ Given(v)
    /\ Place(k) = 0
    /\ Insert(k, k, v)
    /\ UNCHANGED <<lost, iteration, status>>

(* malloc of the entry fails: nobody is told, and the value is nobody's. *)
AddFails(k, v) ==
    /\ Running /\ Readable(k) /\ Given(v)
    /\ Place(k) = 0
    /\ live' = live \cup ({v} \ {NoValue})
    /\ lost' = lost \cup ({v} \ {NoValue})
    /\ UNCHANGED <<buckets, count, iteration, status>>

(* str_dup of the key fails: the entry is linked in with a NULL key. *)
AddWithoutKey(k, v) ==
    /\ Running /\ Readable(k) /\ Given(v)
    /\ Place(k) = 0
    /\ Insert(k, NoKey, v)
    /\ UNCHANGED <<lost, iteration, status>>

(* Looking up a key in that chain passes the NULL to strcmp. *)
LookupCrashes(k) ==
    /\ Running /\ ~Readable(k)
    /\ status' = "crashed"
    /\ UNCHANGED <<buckets, count, live, lost, iteration>>

(* Faulty variant: the chain ends where the entry was. *)
RemoveRest(k) ==
    /\ Running /\ Readable(k)
    /\ Place(k) # 0
    /\ buckets' = [buckets EXCEPT ![Hash[k]] = SubSeq(@, 1, Place(k) - 1)]
    /\ count' = count - 1
    /\ live' = live \ {Get(k)}
    /\ stable' = stable \ {k}
    /\ cursor' = IF cursor = <<Hash[k], k>> THEN Freed ELSE cursor
    /\ UNCHANGED <<lost, visited, status>>

(* Faulty variant: an absent key is counted off as well. *)
RemoveMiscounts(k) ==
    /\ Running /\ Readable(k)
    /\ Place(k) = 0
    /\ count' = count - 1
    /\ UNCHANGED <<buckets, live, lost, iteration, status>>

(* prefix_map_remove of a key that is present. *)
RemoveKey(k) ==
    /\ Running /\ Readable(k)
    /\ Place(k) # 0
    /\ buckets' = [buckets EXCEPT ![Hash[k]] = RemoveAt(@, Place(k))]
    /\ count' = count - 1
    /\ live' = live \ {Get(k)}
    /\ stable' = stable \ {k}
    /\ cursor' = IF cursor = <<Hash[k], k>> THEN Freed ELSE cursor
    /\ UNCHANGED <<lost, visited, status>>

Clear ==
    /\ Running
    /\ buckets' = [b \in Bucket |-> <<>>]
    /\ count' = 0
    /\ live' = live \ {At(p).value : p \in Places}
    /\ stable' = {}
    /\ cursor' = IF cursor = <<>> THEN <<>> ELSE Freed
    /\ UNCHANGED <<lost, visited, status>>
-----------------------------------------------------------------------------
(* prefix_map_foreach, one callback call at a time.                         *)
First(from) ==
    LET filled == {b \in Bucket : b >= from /\ buckets[b] # <<>>}
        b == CHOOSE x \in filled : \A y \in filled : x <= y
    IN  IF filled = {} THEN <<>> ELSE <<b, buckets[b][1].key>>

(* The place of the cursor's entry in its chain. *)
CursorPlace == SelectInSeq(buckets[cursor[1]], LAMBDA e : e.key = cursor[2])

Visit(place) ==
    /\ cursor' = place
    /\ visited' = IF place = <<>> THEN <<>> ELSE Append(visited, place)

ForeachBegins ==
    /\ Running /\ cursor = <<>>
    /\ Visit(First(1))
    /\ stable' = IF cursor' = <<>> THEN {} ELSE {k \in Keys : Place(k) # 0}
    /\ UNCHANGED <<buckets, count, live, lost, status>>

(* Faulty variant: the last entry of a chain ends the iteration. *)
ForeachEndsWithChain ==
    /\ Running /\ cursor \notin {<<>>, Freed}
    /\ Visit(IF CursorPlace < Len(buckets[cursor[1]])
             THEN <<cursor[1], buckets[cursor[1]][CursorPlace + 1].key>>
             ELSE <<>>)
    /\ stable' = IF cursor' = <<>> THEN {} ELSE stable
    /\ UNCHANGED <<buckets, count, live, lost, status>>

(* The callback returns 0: entry->next, or the next chain.                  *)
ForeachGoesOn ==
    /\ Running /\ cursor \notin {<<>>, Freed}
    /\ Visit(IF CursorPlace < Len(buckets[cursor[1]])
             THEN <<cursor[1], buckets[cursor[1]][CursorPlace + 1].key>>
             ELSE First(cursor[1] + 1))
    /\ stable' = IF cursor' = <<>> THEN {} ELSE stable
    /\ UNCHANGED <<buckets, count, live, lost, status>>

(* The callback returns non-zero. *)
ForeachStops ==
    /\ Running /\ cursor # <<>>
    /\ cursor' = <<>> /\ visited' = <<>> /\ stable' = {}
    /\ UNCHANGED <<buckets, count, live, lost, status>>

(* The callback removed its own entry: entry->next is read after free.      *)
ForeachReadsFreed ==
    /\ Running /\ cursor = Freed
    /\ status' = "use_after_free"
    /\ UNCHANGED <<buckets, count, live, lost, iteration>>

Mutate ==
    \/ \E k \in Keys :
        \/ \E v \in Values \cup {NoValue} :
              AddReplaces(k, v) \/ AddNew(k, v) \/ AddFails(k, v) \/ AddWithoutKey(k, v)
        \/ RemoveKey(k) \/ LookupCrashes(k)
    \/ Clear

Foreach == ForeachBegins \/ ForeachGoesOn \/ ForeachStops \/ ForeachReadsFreed

Next == Mutate \/ Foreach

Spec == Init /\ [][Next]_vars

-----------------------------------------------------------------------------
(* Type invariant. *)
TypeOK ==
    /\ buckets \in [Bucket -> Seq(Entry)]
    /\ count \in Nat
    /\ live \subseteq Values /\ lost \subseteq live
    /\ cursor \in {<<>>, Freed} \cup (Bucket \X (Keys \cup {NoKey}))
    /\ stable \subseteq Keys
    /\ status \in {"ok", "crashed", "use_after_free"}

(* An entry is found where lookups search for it: each key stands once, in  *)
(* the chain its hash names; and prefix_map_size is the number of entries.  *)
KeysFindable ==
    /\ \A p \in Places : At(p).key # NoKey =>
          /\ Hash[At(p).key] = p[1]
          /\ \A q \in Places : At(q).key = At(p).key => q = p
    /\ count = Cardinality(Places)

(* Every value handed over is destroyed, or in exactly one entry, or lost   *)
(* by an add that failed; no entry holds a destroyed value.                 *)
Held == {p \in Places : At(p).value # NoValue}
ValuesOwned ==
    /\ \A p, q \in Held : At(p).value = At(q).value => p = q
    /\ \A p \in Held : At(p).value \notin lost
    /\ live = {At(p).value : p \in Held} \cup lost

(* Unless a value is NULL, or a key is, prefix_map_find_prefix returns the  *)
(* value of a shortest key that begins with the prefix ("Prefer exact       *)
(* matches, then shorter keys", prefix_map.c:119): of several as short, the *)
(* one that comes first in the order of the chains.  Only of those it is    *)
(* the "first match found" of prefix_map.h:34 and prefix_map.c:104: the     *)
(* code goes on from it to shorter keys.                                    *)
NothingNull == \A p \in Places : At(p).key # NoKey /\ At(p).value # NoValue
Matching(prefix, entries) == {x \in DOMAIN entries : IsPrefix(prefix, entries[x].key)}
ComesFirst(e, x, f, y) == Len(e.key) < Len(f.key) \/ (Len(e.key) = Len(f.key) /\ x <= y)
FindPrefixShortest ==
    NothingNull => LET all == AllEntries IN
        \A k \in Keys : \A n \in 0 .. Len(k) :
            LET prefix == SubSeq(k, 1, n)
                matching == Matching(prefix, all)
            IN  IF matching = {} THEN FindPrefix(prefix) = NoValue
                ELSE \E x \in matching :
                        /\ FindPrefix(prefix) = all[x].value
                        /\ \A y \in matching : ComesFirst(all[x], x, all[y], y)

(* However its callbacks change the map, a foreach visits no key twice (and *)
(* so ends, even if every callback adds entries), and when it has run to    *)
(* the end it has visited every key that was there all the time.            *)
VisitsAll ==
    [][ForeachGoesOn =>
        /\ IsInjective(visited')
        /\ cursor' = <<>> => stable \subseteq {visited[x][2] : x \in DOMAIN visited}]_vars

(* The chains implement the map that prefix_map.h promises. *)
KeysPresent == {k \in Keys : Place(k) # 0}
Map == INSTANCE MapSpec WITH Values <- Values \cup {NoValue},
                             map <- [k \in KeysPresent |-> Get(k)]
ImplementsMap == Map!Spec
=============================================================================
