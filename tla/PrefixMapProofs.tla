-------------------------- MODULE PrefixMapProofs --------------------------
(***************************************************************************)
(* The hash map keeps its keys findable and its values owned, and an       *)
(* iteration over it visits what it should, for any keys, values and hash  *)
(* and any number of buckets.                                              *)
(***************************************************************************)
EXTENDS PrefixMap, SequenceLemmas, FiniteSetTheorems

(***************************************************************************)
(* The inductive invariant.  In a chain every key stands once, the missing *)
(* key of a failed str_dup too, since no entry is added to a chain that    *)
(* cannot be searched.                                                     *)
(***************************************************************************)
ChainInv ==
    \A b \in Bucket : \A x \in DOMAIN buckets[b] :
        /\ buckets[b][x].key # NoKey => Hash[buckets[b][x].key] = b
        /\ \A y \in DOMAIN buckets[b] : buckets[b][y].key = buckets[b][x].key => y = x

CountInv == IsFiniteSet(Places) /\ count = Cardinality(Places)

Iterating == cursor \notin {<<>>, Freed}

Behind(b, k) ==
    \/ b < cursor[1]
    \/ b = cursor[1] /\ \A x, y \in DOMAIN buckets[b] :
          buckets[b][x].key = k /\ buckets[b][y].key = cursor[2] => x <= y

Ahead(k) ==
    \/ cursor[1] < Hash[k]
    \/ cursor[1] = Hash[k] /\ \A x, y \in DOMAIN Chain(k) :
          Chain(k)[x].key = k /\ Chain(k)[y].key = cursor[2] => y < x

(* The iteration is at an entry of the map; what it has visited lies up to  *)
(* there, and each key present all the time was visited or lies beyond.     *)
CursorInv ==
    /\ cursor = <<>> => visited = <<>> /\ stable = {}
    /\ Iterating =>
        /\ \E x \in DOMAIN buckets[cursor[1]] : buckets[cursor[1]][x].key = cursor[2]
        /\ visited \in Seq(Bucket \X (Keys \cup {NoKey}))
        /\ IsInjective(visited)
        /\ \A i \in DOMAIN visited : Behind(visited[i][1], visited[i][2])
        /\ \A k \in stable :
              /\ \E x \in DOMAIN Chain(k) : Chain(k)[x].key = k
              /\ Ahead(k) \/ \E i \in DOMAIN visited : visited[i][2] = k

IInv == TypeOK /\ ChainInv /\ CountInv /\ ValuesOwned /\ CursorInv

-----------------------------------------------------------------------------
(* Places and entries                                                       *)

LEMMA HashInBucket == ASSUME NEW k \in Keys PROVE Hash[k] \in Bucket
  BY PrefixMapAssumption DEF Bucket

LEMMA PlacesAre ==
    \A p : p \in Places <=> \E b \in Bucket : \E x \in DOMAIN buckets[b] : p = <<b, x>>
  BY DEF Places

LEMMA EntryAt ==
    ASSUME TypeOK, NEW p \in Places
    PROVE  /\ p[1] \in Bucket /\ p[2] \in DOMAIN buckets[p[1]] /\ p = <<p[1], p[2]>>
           /\ At(p) \in Entry
<1>1. PICK b \in Bucket : \E x \in DOMAIN buckets[b] : p = <<b, x>>
  BY PlacesAre
<1>2. buckets[b] \in Seq(Entry)
  BY DEF TypeOK
<1> QED
  BY <1>1, <1>2 DEF At

(* What a lookup finds.                                                     *)
LEMMA PlaceFound ==
    ASSUME TypeOK, NEW k \in Keys
    PROVE  /\ Chain(k) \in Seq(Entry)
           /\ Place(k) \in 0 .. Len(Chain(k))
           /\ Place(k) # 0 => Place(k) \in DOMAIN Chain(k) /\ Chain(k)[Place(k)].key = k
           /\ Place(k) = 0 => \A x \in DOMAIN Chain(k) : Chain(k)[x].key # k
<1>1. Chain(k) \in Seq(Entry)
  BY HashInBucket DEF TypeOK, Chain
<1> DEFINE I == {i \in 1 .. Len(Chain(k)) : Chain(k)[i].key = k}
<1>2. Place(k) = IF I # {} THEN CHOOSE x \in I : \A y \in I : x <= y ELSE 0
  BY DEF Place, SelectInSeq, Min
<1>3. CASE I = {}
  BY <1>1, <1>2, <1>3
<1>4. CASE I # {}
  <2>1. I \in SUBSET Nat
    BY <1>1
  <2>2. \E x \in I : \A y \in I : x <= y
    BY <1>4, <2>1, LeastExists
  <2>3. Place(k) \in I
    BY <1>2, <1>4, <2>2
  <2> QED
    BY <1>1, <2>3
<1> QED
  BY <1>3, <1>4

(* The new entry stands first, the others one place on.                     *)
LEMMA InsertShape ==
    ASSUME TypeOK, NEW k \in Keys, NEW dup \in Keys \cup {NoKey},
           NEW v \in Values \cup {NoValue}, Insert(k, dup, v)
    PROVE  /\ buckets' \in [Bucket -> Seq(Entry)]
           /\ \A b \in Bucket \ {Hash[k]} : buckets'[b] = buckets[b]
           /\ Len(buckets'[Hash[k]]) = Len(Chain(k)) + 1
           /\ DOMAIN buckets'[Hash[k]] = 1 .. Len(Chain(k)) + 1
           /\ buckets'[Hash[k]][1] = [key |-> dup, value |-> v]
           /\ \A x \in DOMAIN Chain(k) : buckets'[Hash[k]][x + 1] = Chain(k)[x]
<1> DEFINE e == [key |-> dup, value |-> v]
<1>1. Hash[k] \in Bucket /\ Chain(k) \in Seq(Entry) /\ e \in Entry
  BY HashInBucket DEF TypeOK, Chain, Entry
<1>2. buckets' = [buckets EXCEPT ![Hash[k]] = <<e>> \o Chain(k)]
  BY DEF Insert, Chain
<1> HIDE DEF e
<1>3. /\ <<e>> \o Chain(k) \in Seq(Entry)
      /\ Len(<<e>> \o Chain(k)) = Len(Chain(k)) + 1
      /\ (<<e>> \o Chain(k))[1] = e
      /\ \A x \in DOMAIN Chain(k) : (<<e>> \o Chain(k))[x + 1] = Chain(k)[x]
  BY <1>1
<1>4. buckets'[Hash[k]] = <<e>> \o Chain(k)
  BY <1>1, <1>2 DEF TypeOK
<1> QED
  BY <1>1, <1>2, <1>3, <1>4 DEF TypeOK, e

(* The entries behind the removed one move up.                              *)
LEMMA RemoveShape ==
    ASSUME TypeOK, NEW k \in Keys, RemoveKey(k)
    PROVE  /\ buckets' \in [Bucket -> Seq(Entry)]
           /\ \A b \in Bucket \ {Hash[k]} : buckets'[b] = buckets[b]
           /\ Len(buckets'[Hash[k]]) = Len(Chain(k)) - 1
           /\ DOMAIN buckets'[Hash[k]] = 1 .. Len(Chain(k)) - 1
           /\ \A x \in 1 .. Len(Chain(k)) - 1 : buckets'[Hash[k]][x] =
                 IF x < Place(k) THEN Chain(k)[x] ELSE Chain(k)[x + 1]
<1>1. Hash[k] \in Bucket /\ Chain(k) \in Seq(Entry) /\ Place(k) \in DOMAIN Chain(k)
  BY HashInBucket, PlaceFound DEF RemoveKey
<1>2. buckets' = [buckets EXCEPT ![Hash[k]] = RemoveAt(Chain(k), Place(k))]
  BY DEF RemoveKey, Chain
<1>3. buckets'[Hash[k]] = RemoveAt(Chain(k), Place(k))
  BY <1>1, <1>2 DEF TypeOK
<1> QED
  BY <1>1, <1>2, <1>3, RemoveAtProperties DEF TypeOK

-----------------------------------------------------------------------------
(* Adding a key                                                             *)

(* A value handed over is not in the map yet.                               *)
LEMMA GivenIsNew ==
    ASSUME ValuesOwned, NEW v, Given(v), NEW p \in Places, At(p).value # NoValue
    PROVE  At(p).value # v
  BY DEF ValuesOwned, Held, Given

LEMMA NextPlacesAre ==
    \A p : p \in Places' <=> \E b \in Bucket : \E x \in DOMAIN buckets'[b] : p = <<b, x>>
  BY DEF Places

LEMMA InsertStep ==
    ASSUME IInv, NEW k \in Keys, NEW dup \in {k, NoKey}, NEW v \in Values \cup {NoValue},
           Given(v), Readable(k), Place(k) = 0,
           Insert(k, dup, v), UNCHANGED <<lost, iteration, status>>
    PROVE  IInv'
<1> DEFINE h == Hash[k]
           new == <<h, 1>>
           Old(p) == IF p[1] = h THEN <<h, p[2] - 1>> ELSE p
<1>1. /\ TypeOK /\ h \in Bucket /\ dup \in Keys \cup {NoKey}
      /\ Chain(k) \in Seq(Entry) /\ Chain(k) = buckets[h]
      /\ DOMAIN buckets[h] = 1 .. Len(Chain(k)) /\ Len(Chain(k)) \in Nat
      /\ \A x \in DOMAIN Chain(k) : Chain(k)[x].key \notin {k, NoKey}
  BY HashInBucket, PlaceFound DEF IInv, Readable, Chain
<1> HIDE DEF h
<1>2. /\ buckets' \in [Bucket -> Seq(Entry)]
      /\ \A b \in Bucket \ {h} : buckets'[b] = buckets[b]
      /\ DOMAIN buckets'[h] = 1 .. Len(Chain(k)) + 1
      /\ buckets'[h][1] = [key |-> dup, value |-> v]
      /\ \A x \in DOMAIN Chain(k) : /\ x + 1 \in DOMAIN buckets'[h]
                                    /\ buckets'[h][x + 1] = Chain(k)[x]
      /\ \A x \in DOMAIN buckets'[h] :
            x # 1 => x - 1 \in DOMAIN Chain(k) /\ buckets'[h][x] = Chain(k)[x - 1]
  <2>1. /\ buckets' \in [Bucket -> Seq(Entry)]
        /\ \A b \in Bucket \ {h} : buckets'[b] = buckets[b]
        /\ DOMAIN buckets'[h] = 1 .. Len(Chain(k)) + 1
        /\ buckets'[h][1] = [key |-> dup, value |-> v]
        /\ \A x \in DOMAIN Chain(k) : buckets'[h][x + 1] = Chain(k)[x]
    BY <1>1, InsertShape DEF h
  <2>2. \A x \in DOMAIN Chain(k) : x + 1 \in DOMAIN buckets'[h]
    BY <1>1, <2>1
  <2>3. ASSUME NEW x \in DOMAIN buckets'[h], x # 1
        PROVE  x - 1 \in DOMAIN Chain(k) /\ buckets'[h][x] = Chain(k)[x - 1]
    <3>1. x - 1 \in DOMAIN Chain(k) /\ (x - 1) + 1 = x
      BY <1>1, <2>1, <2>3
    <3> QED
      BY <2>1, <3>1
  <2>4. \A x \in DOMAIN Chain(k) : /\ x + 1 \in DOMAIN buckets'[h]
                                  /\ buckets'[h][x + 1] = Chain(k)[x]
    BY <2>1, <2>2
  <2>5. \A x \in DOMAIN buckets'[h] :
            x # 1 => x - 1 \in DOMAIN Chain(k) /\ buckets'[h][x] = Chain(k)[x - 1]
    BY <2>3
  <2> QED
    BY ONLY <2>1, <2>4, <2>5
<1>3. new \in Places' /\ At(new)' = [key |-> dup, value |-> v]
  BY <1>1, <1>2, NextPlacesAre DEF At
<1>4. ASSUME NEW p \in Places', p # new
      PROVE  Old(p) \in Places /\ At(p)' = At(Old(p))
  <2>1. PICK b \in Bucket : \E x \in DOMAIN buckets'[b] : p = <<b, x>>
    BY NextPlacesAre
  <2>2. CASE b = h
    BY <1>1, <1>2, <1>4, <2>1, <2>2, PlacesAre DEF At
  <2>3. CASE b # h
    BY <1>1, <1>2, <1>4, <2>1, <2>3, PlacesAre DEF At
  <2> QED
    BY <2>2, <2>3
<1>5. ASSUME NEW p \in Places', NEW q \in Places', p # new, q # new, Old(p) = Old(q)
      PROVE  p = q
  <2>1. PICK b \in Bucket : \E x \in DOMAIN buckets'[b] : p = <<b, x>>
    BY NextPlacesAre
  <2>2. PICK x \in DOMAIN buckets'[b] : p = <<b, x>>
    BY <2>1
  <2>3. PICK c \in Bucket : \E y \in DOMAIN buckets'[c] : q = <<c, y>>
    BY NextPlacesAre
  <2>4. PICK y \in DOMAIN buckets'[c] : q = <<c, y>>
    BY <2>3
  <2>5. b = c
    BY <1>5, <2>2, <2>4
  <2>6. CASE b = h
    <3>1. x \in Int /\ y \in Int /\ x - 1 = y - 1
      BY <1>2, <1>5, <2>2, <2>4, <2>5, <2>6
    <3> QED
      BY <2>2, <2>4, <2>5, <3>1
  <2> QED
    BY <1>5, <2>2, <2>4, <2>5, <2>6
<1>6. ASSUME NEW q \in Places PROVE \E p \in Places' : p # new /\ Old(p) = q
  <2>1. PICK b \in Bucket : \E x \in DOMAIN buckets[b] : q = <<b, x>>
    BY PlacesAre
  <2>2. CASE b = h
    <3>1. PICK x \in DOMAIN buckets[b] : q = <<b, x>>
      BY <2>1
    <3>2. <<h, x + 1>> \in Places' /\ <<h, x + 1>> # new /\ Old(<<h, x + 1>>) = q
      BY <1>1, <1>2, <2>2, <3>1, NextPlacesAre
    <3> QED
      BY <3>2
  <2>3. CASE b # h
    BY <1>1, <1>2, <2>1, <2>3, NextPlacesAre
  <2> QED
    BY <2>2, <2>3
<1>7. TypeOK'
  BY <1>1, <1>2 DEF TypeOK, Insert, iteration
<1>8. ChainInv'
  <2> SUFFICES ASSUME NEW b \in Bucket, NEW x \in DOMAIN buckets'[b]
               PROVE  /\ buckets'[b][x].key # NoKey => Hash[buckets'[b][x].key] = b
                      /\ \A y \in DOMAIN buckets'[b] :
                            buckets'[b][y].key = buckets'[b][x].key => y = x
    BY DEF ChainInv
  <2>1. CASE b = h
    <3>1. \A y \in DOMAIN Chain(k), z \in DOMAIN Chain(k) :
              /\ Chain(k)[y].key # NoKey => Hash[Chain(k)[y].key] = h
              /\ Chain(k)[y].key = Chain(k)[z].key => y = z
      BY <1>1 DEF IInv, ChainInv
    <3>2. CASE x = 1
      <4>1. dup # NoKey => Hash[dup] = h
        BY DEF h
      <4>2. \A y \in DOMAIN buckets'[h] : y # 1 => buckets'[h][y].key # dup
        BY <1>1, <1>2
      <4> QED
        BY <1>2, <2>1, <3>2, <4>1, <4>2
    <3>3. CASE x # 1
      <4>1. x - 1 \in DOMAIN Chain(k) /\ buckets'[h][x] = Chain(k)[x - 1]
        BY <1>2, <2>1, <3>3
      <4>2. buckets'[h][1].key # buckets'[h][x].key
        BY <1>1, <1>2, <4>1
      <4>3. ASSUME NEW y \in DOMAIN buckets'[b], buckets'[b][y].key = buckets'[b][x].key
            PROVE  y = x
        <5>1. y # 1
          BY <2>1, <4>2, <4>3
        <5>2. y - 1 \in DOMAIN Chain(k) /\ buckets'[h][y] = Chain(k)[y - 1]
          BY <1>2, <2>1, <5>1
        <5>3. x - 1 = y - 1
          BY <2>1, <3>1, <4>1, <4>3, <5>2
        <5> QED
          BY <1>1, <1>2, <2>1, <5>3
      <4> QED
        BY <2>1, <3>1, <4>1, <4>3
    <3> QED
      BY <3>2, <3>3
  <2>2. CASE b # h
    BY <1>1, <1>2, <2>2 DEF IInv, ChainInv
  <2> QED
    BY <2>1, <2>2
<1>9. CountInv'
  <2> DEFINE last == <<h, Len(Chain(k)) + 1>>
  <2>1. Places' = Places \cup {last}
    BY <1>1, <1>2 DEF Places
  <2>2. last \notin Places
    BY <1>1, PlacesAre
  <2> QED
    BY <2>1, <2>2, FS_AddElement DEF CountInv, IInv, Insert
<1>10. ValuesOwned'
  <2> HIDE DEF Old, new
  <2>1. ValuesOwned /\ live' = live \cup ({v} \ {NoValue}) /\ lost' = lost
    BY DEF IInv, Insert
  <2>2. At(new)'.value = v
    BY <1>3
  <2>3. \A p \in Places : At(p).value # NoValue => At(p).value # v
    BY <2>1, GivenIsNew
  <2>4. ASSUME NEW p \in Held', NEW q \in Held', At(p)'.value = At(q)'.value
        PROVE  p = q
    <3>1. ASSUME p # new PROVE Old(p) \in Held /\ At(p)'.value = At(Old(p)).value
      BY <1>4, <3>1 DEF Held
    <3>2. ASSUME q # new PROVE Old(q) \in Held /\ At(q)'.value = At(Old(q)).value
      BY <1>4, <3>2 DEF Held
    <3>3. p = new <=> q = new
      BY <2>2, <2>3, <2>4, <3>1, <3>2 DEF Held
    <3>4. CASE p # new
      <4>1. Old(p) = Old(q)
        BY <2>1, <2>4, <3>1, <3>2, <3>3, <3>4 DEF ValuesOwned
      <4> QED
        BY <1>5, <3>3, <3>4, <4>1 DEF Held
    <3> QED
      BY <3>3, <3>4
  <2>5. {At(p)'.value : p \in Held'} = {At(p).value : p \in Held} \cup ({v} \ {NoValue})
    <3>1. ASSUME NEW p \in Held'
          PROVE  At(p)'.value \in {At(q).value : q \in Held} \cup ({v} \ {NoValue})
      BY <1>4, <2>2, <3>1 DEF Held
    <3>2. ASSUME NEW q \in Held PROVE \E p \in Held' : At(p)'.value = At(q).value
      BY <1>4, <1>6, <3>2 DEF Held
    <3>3. v # NoValue => new \in Held'
      BY <1>3, <2>2 DEF Held
    <3> QED
      BY <2>2, <3>1, <3>2, <3>3
  <2>6. ASSUME NEW p \in Held' PROVE At(p)'.value \notin lost
    <3>1. v \notin live
      BY DEF Given
    <3> QED
      BY <1>4, <2>1, <2>2, <3>1 DEF Held, ValuesOwned
  <2>7. live' = {At(p)'.value : p \in Held'} \cup lost'
    BY <2>1, <2>5 DEF ValuesOwned
  <2> QED
    BY <2>1, <2>4, <2>6, <2>7 DEF ValuesOwned
<1>11. CursorInv'
  <2>1. cursor' = cursor /\ visited' = visited /\ stable' = stable /\ CursorInv
    BY DEF IInv, iteration
  <2> SUFFICES ASSUME Iterating PROVE CursorInv'
    BY <2>1 DEF CursorInv, Iterating
  <2> DEFINE c == cursor[1]
  <2>2. c \in Bucket /\ \E x \in DOMAIN buckets[c] : buckets[c][x].key = cursor[2]
    BY <2>1 DEF IInv, TypeOK, CursorInv, Iterating
  <2>3. c = h => cursor[2] \notin {k, NoKey} /\ cursor[2] # dup
    BY <1>1, <2>2
  <2>4. \E x \in DOMAIN buckets'[c] : buckets'[c][x].key = cursor[2]
    <3>1. PICK x \in DOMAIN buckets[c] : buckets[c][x].key = cursor[2]
      BY <2>2
    <3>2. CASE c = h
      <4>1. x + 1 \in DOMAIN buckets'[c] /\ buckets'[c][x + 1] = buckets[c][x]
        BY <1>1, <1>2, <3>1, <3>2
      <4> QED
        BY <3>1, <4>1
    <3> QED
      BY <1>2, <2>2, <3>1, <3>2
  <2>5. ASSUME NEW b \in Bucket, NEW key, Behind(b, key) PROVE Behind(b, key)'
    <3> SUFFICES ASSUME b = c, b = h, NEW x \in DOMAIN buckets'[b],
                        NEW y \in DOMAIN buckets'[b], buckets'[b][x].key = key,
                        buckets'[b][y].key = cursor[2]
                 PROVE  x <= y
      BY <1>2, <2>1, <2>5 DEF Behind
    <3>1. y # 1
      BY <1>2, <2>3
    <3>2. y - 1 \in DOMAIN Chain(k) /\ buckets'[h][y] = Chain(k)[y - 1]
      BY <1>2, <3>1
    <3>3. CASE x # 1
      <4>1. x - 1 \in DOMAIN Chain(k) /\ buckets'[h][x] = Chain(k)[x - 1]
        BY <1>2, <3>3
      <4>2. x - 1 <= y - 1
        BY <1>1, <2>2, <2>5, <3>2, <4>1 DEF Behind, TypeOK, Bucket
      <4> QED
        BY <1>2, <4>2
    <3> QED
      BY <1>1, <1>2, <3>3
  <2>6. ASSUME NEW j \in Keys, \E x \in DOMAIN Chain(j) : Chain(j)[x].key = j
        PROVE  \E x \in DOMAIN Chain(j)' : Chain(j)'[x].key = j
    <3>1. PICK x \in DOMAIN Chain(j) : Chain(j)[x].key = j
      BY <2>6
    <3>2. CASE Hash[j] = h
      <4>1. x \in DOMAIN Chain(k) /\ Chain(k)[x].key = j
        BY <3>1, <3>2 DEF Chain, h
      <4>2. x + 1 \in DOMAIN buckets'[h] /\ buckets'[h][x + 1].key = j
        BY <1>2, <4>1
      <4> QED
        BY <3>2, <4>2 DEF Chain
    <3> QED
      BY <1>2, <3>1, <3>2, HashInBucket DEF Chain
  <2>7. ASSUME NEW j \in Keys, \E x \in DOMAIN Chain(j) : Chain(j)[x].key = j, Ahead(j)
        PROVE  Ahead(j)'
    <3>1. Hash[j] = h => j # dup
      BY <1>1, <2>7 DEF Chain
    <3> SUFFICES ASSUME Hash[j] = c, c = h, NEW x \in DOMAIN buckets'[h],
                        NEW y \in DOMAIN buckets'[h], buckets'[h][x].key = j,
                        buckets'[h][y].key = cursor[2]
                 PROVE  y < x
      <4>1. c < Hash[j] => Ahead(j)'
        BY <2>1 DEF Ahead
      <4>2. Hash[j] \in Bucket /\ Hash[j] # h => Chain(j)' = Chain(j)
        BY <1>2 DEF Chain
      <4>3. Hash[j] # h => Ahead(j)'
        BY <2>1, <2>7, <4>2, HashInBucket DEF Ahead
      <4> QED
        BY <2>1, <2>7, <4>1, <4>3 DEF Ahead, Chain
    <3>2. x # 1 /\ y # 1
      BY <1>2, <2>3, <3>1
    <3>3. /\ x - 1 \in DOMAIN Chain(k) /\ buckets'[h][x] = Chain(k)[x - 1]
          /\ y - 1 \in DOMAIN Chain(k) /\ buckets'[h][y] = Chain(k)[y - 1]
      BY <1>2, <3>2
    <3>4. y - 1 < x - 1
      BY <1>1, <2>2, <2>7, <3>3 DEF Ahead, Chain, Bucket
    <3> QED
      BY <1>2, <3>4
  <2>8. \A i \in DOMAIN visited : visited[i][1] \in Bucket
    BY <2>1 DEF CursorInv
  <2>9. stable \subseteq Keys
    BY DEF IInv, TypeOK
  <2> QED
    BY <2>1, <2>4, <2>5, <2>6, <2>7, <2>8, <2>9 DEF CursorInv, Iterating
<1> QED
  BY <1>7, <1>8, <1>9, <1>10, <1>11 DEF IInv

-----------------------------------------------------------------------------
(* Replacing a value                                                        *)

LEMMA ReplaceStep ==
    ASSUME IInv, NEW k \in Keys, NEW v \in Values \cup {NoValue}, AddReplaces(k, v)
    PROVE  IInv'
<1> DEFINE h == Hash[k]
<1> PICK it : it = <<h, Place(k)>>
  OBVIOUS
<1>1. /\ TypeOK /\ h \in Bucket /\ Chain(k) = buckets[h]
      /\ Place(k) \in DOMAIN buckets[h] /\ buckets[h][Place(k)] \in Entry
      /\ buckets[h][Place(k)].key = k /\ Get(k) = buckets[h][Place(k)].value
      /\ NoValue \notin Values /\ lost \subseteq live /\ live \subseteq Values
  BY HashInBucket, PlaceFound, PrefixMapAssumption
     DEF IInv, AddReplaces, Chain, Get, TypeOK
<1>2. buckets' = [buckets EXCEPT ![h] = [buckets[h] EXCEPT ![Place(k)] =
                                           [buckets[h][Place(k)] EXCEPT !.value = v]]]
  BY DEF AddReplaces
<1> HIDE DEF h
<1>3. /\ buckets' \in [Bucket -> Seq(Entry)]
      /\ \A b \in Bucket : DOMAIN buckets'[b] = DOMAIN buckets[b]
      /\ \A b \in Bucket : \A x \in DOMAIN buckets[b] :
            /\ buckets'[b][x].key = buckets[b][x].key
            /\ <<b, x>> # it => buckets'[b][x] = buckets[b][x]
      /\ buckets'[h][Place(k)].value = v
  <2> DEFINE e == [buckets[h][Place(k)] EXCEPT !.value = v]
             s == [buckets[h] EXCEPT ![Place(k)] = e]
  <2>1. e \in Entry /\ e.key = k /\ e.value = v
    BY <1>1 DEF Entry
  <2>2. s \in Seq(Entry) /\ DOMAIN s = DOMAIN buckets[h] /\ s[Place(k)] = e
        /\ \A x \in DOMAIN s : x # Place(k) => s[x] = buckets[h][x]
    <3>1. buckets[h] \in Seq(Entry)
      BY <1>1 DEF TypeOK
    <3> HIDE DEF e
    <3> QED
      BY <1>1, <2>1, <3>1
  <2>3. buckets' = [buckets EXCEPT ![h] = s]
    BY <1>2
  <2> HIDE DEF s, e
  <2> QED
    BY <1>1, <2>1, <2>2, <2>3 DEF TypeOK
<1>4. /\ Places' = Places /\ it \in Places /\ At(it)'.value = v /\ At(it).value = Get(k)
      /\ \A p \in Places : p # it => At(p)' = At(p)
  <2>1. Places' = Places
    BY <1>3 DEF Places
  <2>2. it \in Places
    BY <1>1, PlacesAre
  <2>3. At(it)'.value = v /\ At(it).value = Get(k)
    BY <1>1, <1>3 DEF At
  <2>4. \A p \in Places : p # it => At(p)' = At(p)
    BY <1>1, <1>3, EntryAt DEF At
  <2> QED
    BY <2>1, <2>2, <2>3, <2>4
<1>5. Get(k) \notin lost
  <2>1. CASE Get(k) = NoValue
    BY <1>1, <2>1
  <2>2. CASE Get(k) # NoValue
    <3>1. it \in Held
      BY <1>4, <2>2 DEF Held
    <3> QED
      BY <1>4, <3>1 DEF IInv, ValuesOwned
  <2> QED
    BY <2>1, <2>2
<1>6. TypeOK'
  BY <1>1, <1>3, <1>5 DEF TypeOK, AddReplaces, iteration
<1>7. ChainInv'
  BY <1>3 DEF ChainInv, IInv
<1>8. CountInv'
  BY <1>4 DEF CountInv, IInv, AddReplaces
<1>9. ValuesOwned'
  <2>1. /\ ValuesOwned /\ lost' = lost /\ Given(v)
        /\ live' = (live \ {Get(k)}) \cup ({v} \ {NoValue})
    BY DEF IInv, AddReplaces
  <2>2. \A p \in Places : At(p).value # NoValue => At(p).value # v
    BY <2>1, GivenIsNew
  <2>3. \A p \in Places : IF p = it THEN At(p)'.value = v ELSE At(p)'.value = At(p).value
    BY <1>4
  <2>4. Places' = Places /\ it \in Places /\ At(it).value = Get(k)
    BY <1>4
  <2>5. \A p : p \in Held' <=> p \in Places /\ IF p = it THEN v # NoValue ELSE p \in Held
    BY <2>3, <2>4 DEF Held
  <2>6. \A p \in Held', q \in Held' : At(p)'.value = At(q)'.value => p = q
    BY <2>1, <2>2, <2>3, <2>4, <2>5 DEF ValuesOwned, Held
  <2>7. \A p \in Held' : At(p)'.value \notin lost
    <3>1. v # NoValue => v \notin lost
      BY <1>1, <2>1 DEF Given
    <3> QED
      BY <2>1, <2>3, <2>4, <2>5, <3>1 DEF ValuesOwned, Held
  <2>8. {At(p)'.value : p \in Held'} =
            ({At(p).value : p \in Held} \ {Get(k)}) \cup ({v} \ {NoValue})
    <3>1. ASSUME NEW p \in Held'
          PROVE  At(p)'.value \in ({At(q).value : q \in Held} \ {Get(k)}) \cup ({v} \ {NoValue})
      BY <2>1, <2>3, <2>4, <2>5, <3>1 DEF ValuesOwned, Held
    <3>2. ASSUME NEW q \in Held, At(q).value # Get(k)
          PROVE  q \in Held' /\ At(q)'.value = At(q).value
      BY <2>3, <2>4, <2>5, <3>2 DEF Held
    <3>3. v # NoValue => it \in Held' /\ At(it)'.value = v
      BY <2>3, <2>4, <2>5
    <3> QED
      BY <3>1, <3>2, <3>3
  <2> QED
    BY <1>5, <2>1, <2>6, <2>7, <2>8 DEF ValuesOwned
<1>10. CursorInv'
  <2>1. /\ cursor' = cursor /\ visited' = visited /\ stable' = stable
        /\ CursorInv /\ stable \subseteq Keys /\ cursor \in {<<>>, Freed} \cup (Bucket \X (Keys \cup {NoKey}))
    BY DEF IInv, AddReplaces, iteration, TypeOK
  <2>2. Iterating => cursor[1] \in Bucket
    BY <2>1 DEF Iterating
  <2>3. \A b \in Bucket : \A key : Iterating => (Behind(b, key)' <=> Behind(b, key))
    BY <1>3, <2>1, <2>2 DEF Behind
  <2>4. ASSUME NEW j \in Keys
        PROVE  /\ DOMAIN Chain(j)' = DOMAIN Chain(j)
               /\ \A x \in DOMAIN Chain(j) : Chain(j)'[x].key = Chain(j)[x].key
    BY <1>3, HashInBucket DEF Chain
  <2>5. \A j \in Keys : Ahead(j)' <=> Ahead(j)
    BY <2>1, <2>4 DEF Ahead
  <2>6. \A i \in DOMAIN visited : Iterating => visited[i][1] \in Bucket
    BY <2>1 DEF CursorInv
  <2> SUFFICES ASSUME Iterating PROVE CursorInv'
    BY <2>1 DEF CursorInv, Iterating
  <2>7. \E x \in DOMAIN buckets'[cursor[1]] : buckets'[cursor[1]][x].key = cursor[2]
    BY <1>3, <2>1, <2>2 DEF CursorInv
  <2>8. \A i \in DOMAIN visited : Behind(visited[i][1], visited[i][2])'
    BY <2>1, <2>3, <2>6 DEF CursorInv
  <2>9. \A j \in stable : \E x \in DOMAIN Chain(j)' : Chain(j)'[x].key = j
    BY <2>1, <2>4 DEF CursorInv
  <2>10. \A j \in stable : Ahead(j)' \/ \E i \in DOMAIN visited : visited[i][2] = j
    BY <2>1, <2>5 DEF CursorInv
  <2> QED
    BY <2>1, <2>7, <2>8, <2>9, <2>10 DEF CursorInv, Iterating
<1> QED
  BY <1>6, <1>7, <1>8, <1>9, <1>10 DEF IInv

-----------------------------------------------------------------------------
(* Removing a key                                                           *)

LEMMA RemoveStep ==
    ASSUME IInv, NEW k \in Keys, RemoveKey(k)
    PROVE  IInv'
<1> DEFINE h == Hash[k]
<1> PICK i : i = Place(k)
  OBVIOUS
<1> DEFINE it == <<h, i>>
           Old(p) == IF p[1] = h /\ p[2] >= i THEN <<h, p[2] + 1>> ELSE p
<1>1. /\ TypeOK /\ h \in Bucket /\ Chain(k) = buckets[h] /\ Chain(k) \in Seq(Entry)
      /\ DOMAIN buckets[h] = 1 .. Len(Chain(k)) /\ Len(Chain(k)) \in Nat
      /\ i \in DOMAIN buckets[h] /\ buckets[h][i].key = k
      /\ Get(k) = buckets[h][i].value
      /\ NoValue \notin Values /\ lost \subseteq live /\ live \subseteq Values
      /\ \A x \in DOMAIN buckets[h] : buckets[h][x].key = k => x = i
  BY HashInBucket, PlaceFound, PrefixMapAssumption
     DEF IInv, RemoveKey, Chain, Get, TypeOK, ChainInv
<1>2. /\ buckets' \in [Bucket -> Seq(Entry)]
      /\ \A b \in Bucket \ {h} : buckets'[b] = buckets[b]
      /\ DOMAIN buckets'[h] = 1 .. Len(Chain(k)) - 1
      /\ \A x \in DOMAIN buckets'[h] :
            buckets'[h][x] = IF x < i THEN buckets[h][x] ELSE buckets[h][x + 1]
  <2>1. /\ buckets' \in [Bucket -> Seq(Entry)]
        /\ \A b \in Bucket \ {h} : buckets'[b] = buckets[b]
        /\ DOMAIN buckets'[h] = 1 .. Len(Chain(k)) - 1
    BY <1>1, RemoveShape
  <2>2. \A x \in 1 .. Len(Chain(k)) - 1 :
            buckets'[h][x] = IF x < Place(k) THEN Chain(k)[x] ELSE Chain(k)[x + 1]
    BY <1>1, RemoveShape
  <2> QED
    BY <1>1, <2>1, <2>2
<1> HIDE DEF h
<1>3. /\ it \in Places /\ At(it).value = Get(k)
  BY <1>1, PlacesAre DEF At
<1>4. ASSUME NEW p \in Places'
      PROVE  Old(p) \in Places /\ Old(p) # it /\ At(p)' = At(Old(p))
  <2>1. PICK b \in Bucket : \E x \in DOMAIN buckets'[b] : p = <<b, x>>
    BY NextPlacesAre
  <2>2. PICK x \in DOMAIN buckets'[b] : p = <<b, x>>
    BY <2>1
  <2>3. CASE b = h
    <3>1. CASE x < i
      <4>1. x \in DOMAIN buckets[h] /\ buckets'[h][x] = buckets[h][x] /\ x # i
        BY <1>1, <1>2, <2>3, <3>1
      <4>2. Old(p) = <<h, x>>
        BY <1>1, <1>2, <2>2, <2>3, <3>1, <4>1
      <4> QED
        BY <1>1, <2>2, <2>3, <4>1, <4>2, PlacesAre DEF At
    <3>2. CASE x >= i
      <4>1. x + 1 \in DOMAIN buckets[h] /\ buckets'[h][x] = buckets[h][x + 1]
        BY <1>1, <1>2, <2>3, <3>2
      <4>2. Old(p) = <<h, x + 1>>
        BY <2>2, <2>3, <3>2
      <4>3. <<h, x + 1>> \in Places /\ x + 1 # i
        BY <1>1, <1>2, <2>3, <3>2, <4>1, PlacesAre
      <4> QED
        BY <2>2, <2>3, <4>1, <4>2, <4>3 DEF At
    <3> QED
      BY <1>1, <1>2, <2>3, <3>1, <3>2
  <2>4. CASE b # h
    BY <1>1, <1>2, <2>2, <2>4, PlacesAre DEF At
  <2> QED
    BY <2>3, <2>4
<1>5. ASSUME NEW p \in Places', NEW q \in Places', Old(p) = Old(q)
      PROVE  p = q
  <2>1. PICK b \in Bucket : \E x \in DOMAIN buckets'[b] : p = <<b, x>>
    BY NextPlacesAre
  <2>2. PICK x \in DOMAIN buckets'[b] : p = <<b, x>>
    BY <2>1
  <2>3. PICK c \in Bucket : \E y \in DOMAIN buckets'[c] : q = <<c, y>>
    BY NextPlacesAre
  <2>4. PICK y \in DOMAIN buckets'[c] : q = <<c, y>>
    BY <2>3
  <2>5. b = c
    BY <1>5, <2>2, <2>4
  <2>6. CASE b = h
    <3>1. x \in Int /\ y \in Int /\ i \in Int
      BY <1>1, <1>2, <2>5, <2>6
    <3>2. (IF x >= i THEN x + 1 ELSE x) = (IF y >= i THEN y + 1 ELSE y)
      BY <1>5, <2>2, <2>4, <2>5, <2>6
    <3>3. x = y
      BY <3>1, <3>2
    <3> QED
      BY <2>2, <2>4, <2>5, <3>3
  <2> QED
    BY <1>5, <2>2, <2>4, <2>5, <2>6
<1>6. ASSUME NEW q \in Places, q # it PROVE \E p \in Places' : Old(p) = q
  <2>1. PICK b \in Bucket : \E x \in DOMAIN buckets[b] : q = <<b, x>>
    BY PlacesAre
  <2>2. PICK x \in DOMAIN buckets[b] : q = <<b, x>>
    BY <2>1
  <2>3. CASE b = h
    <3>1. CASE x < i
      <4>1. q \in Places'
        BY <1>1, <1>2, <2>2, <2>3, <3>1, NextPlacesAre
      <4>2. Old(q) = q
        BY <1>1, <2>2, <2>3, <3>1
      <4> QED
        BY <4>1, <4>2
    <3>2. CASE x > i
      <4>1. x - 1 \in DOMAIN buckets'[h] /\ x - 1 >= i /\ (x - 1) + 1 = x
        BY <1>1, <1>2, <2>3, <3>2
      <4>2. PICK p \in Places' : p = <<h, x - 1>>
        BY <1>1, <4>1, NextPlacesAre
      <4>3. Old(p) = q
        BY <2>2, <2>3, <4>1, <4>2
      <4> QED
        BY <4>3
    <3>3. x # i /\ x \in Int /\ i \in Int
      BY <1>1, <1>6, <2>2, <2>3
    <3>4. x < i \/ x > i
      BY <3>3
    <3> QED
      BY <3>1, <3>2, <3>4
  <2>4. CASE b # h
    <3>1. q \in Places'
      BY <1>2, <2>2, <2>4, NextPlacesAre
    <3>2. Old(q) = q
      BY <2>2, <2>4
    <3> QED
      BY <3>1, <3>2
  <2> QED
    BY <2>3, <2>4
<1>7. Get(k) \notin lost
  <2> HIDE DEF it
  <2>1. CASE Get(k) = NoValue
    BY <1>1, <2>1
  <2>2. CASE Get(k) # NoValue
    BY <1>3, <2>2 DEF IInv, ValuesOwned, Held
  <2> QED
    BY <2>1, <2>2
<1>8. TypeOK'
  <2>1. count - 1 \in Nat
    <3>1. count # 0
      BY <1>3, FS_EmptySet DEF IInv, CountInv
    <3> QED
      BY <1>1, <3>1 DEF TypeOK
  <2> QED
    BY <1>1, <1>2, <1>7, <2>1 DEF TypeOK, RemoveKey
<1>9. ChainInv'
  <2> SUFFICES ASSUME NEW b \in Bucket, NEW x \in DOMAIN buckets'[b]
               PROVE  /\ buckets'[b][x].key # NoKey => Hash[buckets'[b][x].key] = b
                      /\ \A y \in DOMAIN buckets'[b] :
                            buckets'[b][y].key = buckets'[b][x].key => y = x
    BY DEF ChainInv
  <2>1. CASE b = h
    <3>1. \A y \in DOMAIN buckets[h], z \in DOMAIN buckets[h] :
              /\ buckets[h][y].key # NoKey => Hash[buckets[h][y].key] = h
              /\ buckets[h][y].key = buckets[h][z].key => y = z
      BY <1>1 DEF IInv, ChainInv
    <3>2. \A y \in DOMAIN buckets'[h] :
             /\ y \in DOMAIN buckets[h] /\ y \in Int /\ y + 1 \in DOMAIN buckets[h]
             /\ buckets'[h][y] = buckets[h][IF y < i THEN y ELSE y + 1]
      BY <1>1, <1>2
    <3>3. ASSUME NEW y \in DOMAIN buckets'[b], buckets'[b][y].key = buckets'[b][x].key
          PROVE  y = x
      <4>1. (IF y < i THEN y ELSE y + 1) = (IF x < i THEN x ELSE x + 1)
        BY <2>1, <3>1, <3>2, <3>3
      <4> QED
        BY <1>1, <2>1, <3>2, <4>1
    <3> QED
      BY <2>1, <3>1, <3>2, <3>3
  <2>2. CASE b # h
    BY <1>2, <2>2 DEF IInv, ChainInv
  <2> QED
    BY <2>1, <2>2
<1>10. CountInv'
  <2> DEFINE last == <<h, Len(Chain(k))>>
  <2>1. Places' = Places \ {last}
    BY <1>1, <1>2 DEF Places
  <2>2. last \in Places
    BY <1>1, PlacesAre
  <2> QED
    BY <2>1, <2>2, FS_RemoveElement DEF CountInv, IInv, RemoveKey
<1>11. ValuesOwned'
  <2> HIDE DEF Old, it
  <2>1. ValuesOwned /\ live' = live \ {Get(k)} /\ lost' = lost
    BY DEF IInv, RemoveKey
  <2>2. ASSUME NEW p \in Held'
        PROVE  Old(p) \in Held /\ Old(p) # it /\ At(p)'.value = At(Old(p)).value
    BY <1>4 DEF Held
  <2>3. ASSUME NEW q \in Held, q # it
        PROVE  \E p \in Held' : At(p)'.value = At(q).value
    BY <1>4, <1>6, <2>3 DEF Held
  <2>4. ASSUME NEW p \in Held', NEW q \in Held', At(p)'.value = At(q)'.value
        PROVE  p = q
    <3>1. Old(p) = Old(q)
      BY <2>1, <2>2, <2>4 DEF ValuesOwned
    <3> QED
      BY <1>5, <3>1 DEF Held
  <2>5. {At(p)'.value : p \in Held'} = {At(p).value : p \in Held} \ {Get(k)}
    <3>1. ASSUME NEW p \in Held'
          PROVE  At(p)'.value \in {At(q).value : q \in Held} \ {Get(k)}
      BY <1>3, <2>1, <2>2 DEF ValuesOwned, Held
    <3>2. ASSUME NEW q \in Held, At(q).value # Get(k)
          PROVE  \E p \in Held' : At(p)'.value = At(q).value
      BY <1>3, <2>3, <3>2
    <3> QED
      BY <3>1, <3>2
  <2>6. \A p \in Held' : At(p)'.value \notin lost
    BY <2>1, <2>2 DEF ValuesOwned
  <2> QED
    BY <1>7, <2>1, <2>4, <2>5, <2>6 DEF ValuesOwned
<1>12. CursorInv'
  <2>1. /\ cursor' = (IF cursor = <<h, k>> THEN Freed ELSE cursor)
        /\ visited' = visited /\ stable' = stable \ {k} /\ CursorInv
        /\ stable \subseteq Keys
        /\ cursor \in {<<>>, Freed} \cup (Bucket \X (Keys \cup {NoKey}))
    BY DEF IInv, RemoveKey, h, TypeOK
  <2> SUFFICES ASSUME Iterating, cursor # <<h, k>> PROVE CursorInv'
    BY <2>1 DEF CursorInv, Iterating, Freed
  <2> DEFINE c == cursor[1]
  <2>2. c \in Bucket /\ cursor = <<c, cursor[2]>> /\ cursor' = cursor
    BY <2>1 DEF Iterating
  <2>3. c = h => cursor[2] # k
    BY <2>2
  <2>4. \A x \in DOMAIN buckets'[h] :
           /\ x \in DOMAIN buckets[h] /\ x \in Int /\ x + 1 \in DOMAIN buckets[h]
           /\ buckets'[h][x] = buckets[h][IF x < i THEN x ELSE x + 1]
    BY <1>1, <1>2
  <2>5. ASSUME NEW key, key # k, \E x \in DOMAIN buckets[h] : buckets[h][x].key = key
        PROVE  \E x \in DOMAIN buckets'[h] : buckets'[h][x].key = key
    <3>1. PICK x \in DOMAIN buckets[h] : buckets[h][x].key = key
      BY <2>5
    <3>2. x # i /\ x \in Int /\ i \in Int
      BY <1>1, <2>5, <3>1
    <3>3. CASE x < i
      BY <1>1, <1>2, <3>1, <3>3
    <3>4. CASE x > i
      <4>1. x - 1 \in DOMAIN buckets'[h] /\ x - 1 >= i /\ (x - 1) + 1 = x
        BY <1>1, <1>2, <3>4
      <4> QED
        BY <1>1, <2>4, <3>1, <3>2, <4>1
    <3> QED
      BY <3>2, <3>3, <3>4
  <2>6. \E x \in DOMAIN buckets'[c] : buckets'[c][x].key = cursor[2]
    <3>1. \E x \in DOMAIN buckets[c] : buckets[c][x].key = cursor[2]
      BY <2>1 DEF CursorInv
    <3>2. CASE c = h
      BY <2>3, <2>5, <3>1, <3>2
    <3>3. CASE c # h
      BY <1>2, <2>2, <3>1, <3>3
    <3> QED
      BY <3>2, <3>3
  <2>7. ASSUME NEW b \in Bucket, NEW key, Behind(b, key) PROVE Behind(b, key)'
    <3> SUFFICES ASSUME b = c, b = h, NEW x \in DOMAIN buckets'[b],
                        NEW y \in DOMAIN buckets'[b], buckets'[b][x].key = key,
                        buckets'[b][y].key = cursor[2]
                 PROVE  x <= y
      BY <1>2, <2>2, <2>7 DEF Behind
    <3>1. PICK u \in DOMAIN buckets[h], w \in DOMAIN buckets[h] :
               /\ u = (IF x < i THEN x ELSE x + 1) /\ w = (IF y < i THEN y ELSE y + 1)
               /\ buckets[h][u].key = key /\ buckets[h][w].key = cursor[2]
      BY <2>4
    <3>2. u <= w
      BY <2>2, <2>7, <3>1 DEF Behind, Bucket
    <3>3. x \in Int /\ y \in Int /\ i \in Int
      BY <1>1, <2>4
    <3> QED
      BY ONLY <3>1, <3>2, <3>3
  <2>8. ASSUME NEW j \in Keys, j # k, \E x \in DOMAIN Chain(j) : Chain(j)[x].key = j
        PROVE  \E x \in DOMAIN Chain(j)' : Chain(j)'[x].key = j
    BY <1>2, <2>5, <2>8, HashInBucket DEF Chain
  <2>9. ASSUME NEW j \in Keys, j # k, Ahead(j) PROVE Ahead(j)'
    <3> SUFFICES ASSUME Hash[j] = c, c = h, NEW x \in DOMAIN buckets'[h],
                        NEW y \in DOMAIN buckets'[h], buckets'[h][x].key = j,
                        buckets'[h][y].key = cursor[2]
                 PROVE  y < x
      <4>1. c < Hash[j] => Ahead(j)'
        BY <2>2 DEF Ahead
      <4>2. Hash[j] \in Bucket /\ Hash[j] # h => Chain(j)' = Chain(j)
        BY <1>2 DEF Chain
      <4>3. Hash[j] # h => Ahead(j)'
        BY <2>2, <2>9, <4>2, HashInBucket DEF Ahead
      <4> QED
        BY <2>2, <2>9, <4>1, <4>3 DEF Ahead, Chain
    <3>1. PICK u \in DOMAIN buckets[h], w \in DOMAIN buckets[h] :
               /\ u = (IF x < i THEN x ELSE x + 1) /\ w = (IF y < i THEN y ELSE y + 1)
               /\ buckets[h][u].key = j /\ buckets[h][w].key = cursor[2]
      BY <2>4
    <3>2. w < u
      BY <2>2, <2>9, <3>1 DEF Ahead, Chain, Bucket
    <3>3. x \in Int /\ y \in Int /\ i \in Int
      BY <1>1, <2>4
    <3> QED
      BY ONLY <3>1, <3>2, <3>3
  <2>10. \A n \in DOMAIN visited : visited[n][1] \in Bucket
    BY <2>1 DEF CursorInv
  <2> QED
    BY <2>1, <2>2, <2>6, <2>7, <2>8, <2>9, <2>10 DEF CursorInv, Iterating
<1> QED
  BY <1>8, <1>9, <1>10, <1>11, <1>12 DEF IInv

-----------------------------------------------------------------------------
(* Clearing, and the steps of an iteration                                  *)

LEMMA ClearStep ==
    ASSUME IInv, Clear
    PROVE  IInv'
<1>1. buckets' = [b \in Bucket |-> <<>>] /\ count' = 0 /\ lost' = lost /\ TypeOK
  BY DEF Clear, IInv
<1>2. Places' = {}
  BY <1>1 DEF Places
<1>3. live = {At(p).value : p \in Held} \cup lost /\ \A p \in Held : At(p).value \notin lost
  BY DEF IInv, ValuesOwned
<1>4. live' = lost
  <2>1. NoValue \notin live
    BY <1>1, PrefixMapAssumption DEF TypeOK
  <2>2. live' = live \ {At(p).value : p \in Places}
    BY DEF Clear
  <2>3. \A p \in Places : At(p).value \in lost => FALSE
    BY <1>1, <1>3, <2>1 DEF Held, TypeOK
  <2> QED
    BY <1>3, <2>2, <2>3 DEF Held
<1>5. TypeOK'
  BY <1>1, <1>4 DEF TypeOK, Clear
<1>6. CountInv'
  BY <1>1, <1>2, FS_EmptySet DEF CountInv
<1>7. ValuesOwned'
  BY <1>1, <1>2, <1>4 DEF ValuesOwned, Held
<1>8. CursorInv'
  BY DEF CursorInv, IInv, Iterating, Clear, Freed
<1> QED
  BY <1>1, <1>5, <1>6, <1>7, <1>8 DEF IInv, ChainInv

(* The first chain that is not empty, from a bucket on.                     *)
LEMMA FirstFound ==
    ASSUME TypeOK, NEW from \in Nat \ {0}
    PROVE  \/ First(from) = <<>> /\ \A b \in Bucket : b >= from => buckets[b] = <<>>
           \/ \E b \in Bucket :
                 /\ First(from) = <<b, buckets[b][1].key>> /\ buckets[b] # <<>> /\ from <= b
                 /\ \A c \in Bucket : from <= c /\ c < b => buckets[c] = <<>>
<1> DEFINE filled == {b \in Bucket : b >= from /\ buckets[b] # <<>>}
<1>1. CASE filled = {}
  BY <1>1 DEF First
<1>2. CASE filled # {}
  <2>1. filled \in SUBSET Nat
    BY DEF Bucket
  <2>2. \E x \in filled : \A y \in filled : x <= y
    BY <1>2, <2>1, LeastExists
  <2>3. PICK b : b = CHOOSE x \in filled : \A y \in filled : x <= y
    OBVIOUS
  <2>4. b \in filled /\ \A y \in filled : b <= y
    BY <2>2, <2>3
  <2>5. First(from) = <<b, buckets[b][1].key>>
    BY <1>2, <2>3 DEF First
  <2> QED
    BY <2>4, <2>5 DEF Bucket
<1> QED
  BY <1>1, <1>2

LEMMA BeginStep ==
    ASSUME IInv, ForeachBegins
    PROVE  IInv'
<1>1. /\ TypeOK /\ ChainInv /\ visited = <<>> /\ cursor' = First(1)
      /\ UNCHANGED <<buckets, count, live, lost, status>>
      /\ visited' = IF First(1) = <<>> THEN <<>> ELSE Append(visited, First(1))
      /\ stable' = IF First(1) = <<>> THEN {} ELSE {k \in Keys : Place(k) # 0}
  BY DEF ForeachBegins, Visit, IInv, CursorInv
<1>2. ChainInv' /\ CountInv' /\ ValuesOwned'
  <2>1. Places' = Places
    BY <1>1 DEF Places
  <2>2. \A p : At(p)' = At(p)
    BY <1>1 DEF At
  <2>3. Held' = Held
    BY <2>1, <2>2 DEF Held
  <2> QED
    BY <1>1, <2>1, <2>2, <2>3 DEF IInv, ChainInv, CountInv, ValuesOwned
<1>3. CASE First(1) = <<>>
  BY <1>1, <1>2, <1>3 DEF IInv, TypeOK, CursorInv, Iterating
<1>4. CASE First(1) # <<>>
  <2>1. PICK b \in Bucket :
           /\ First(1) = <<b, buckets[b][1].key>> /\ buckets[b] # <<>>
           /\ \A c \in Bucket : 1 <= c /\ c < b => buckets[c] = <<>>
    BY <1>1, <1>4, FirstFound
  <2>2. 1 \in DOMAIN buckets[b] /\ buckets[b][1] \in Entry /\ buckets[b] \in Seq(Entry)
    BY <1>1, <2>1 DEF TypeOK
  <2> DEFINE first == buckets[b][1].key
  <2>3. /\ cursor' = <<b, first>> /\ visited' = <<<<b, first>>>>
        /\ first \in Keys \cup {NoKey} /\ DOMAIN visited' = {1} /\ visited'[1] = <<b, first>>
    BY <1>1, <1>4, <2>1, <2>2 DEF Entry
  <2>4. \A x \in DOMAIN buckets[b] : buckets[b][x].key = first => x = 1
    BY <1>1, <2>2 DEF ChainInv
  <2>5. TypeOK'
    BY <1>1, <1>4, <2>3 DEF TypeOK
  <2>6. ASSUME NEW k \in Keys, Place(k) # 0
        PROVE  /\ \E x \in DOMAIN Chain(k)' : Chain(k)'[x].key = k
               /\ Ahead(k)' \/ first = k
    <3>1. /\ Chain(k)' = Chain(k) /\ Place(k) \in DOMAIN Chain(k)
          /\ Chain(k)[Place(k)].key = k /\ Hash[k] \in Bucket
      BY <1>1, <2>6, PlaceFound, HashInBucket DEF Chain
    <3>2. b <= Hash[k]
      BY <2>1, <3>1 DEF Chain, Bucket
    <3>3. CASE b < Hash[k]
      BY <2>3, <3>1, <3>3 DEF Ahead
    <3>4. CASE b = Hash[k] /\ first # k
      <4>1. ASSUME NEW x \in DOMAIN Chain(k), NEW y \in DOMAIN Chain(k),
                   Chain(k)[x].key = k, Chain(k)[y].key = first
            PROVE  y < x
        <5>1. y = 1 /\ x # 1
          BY <2>4, <3>4, <4>1 DEF Chain
        <5>2. x \in Nat \ {0}
          BY <2>2, <3>4 DEF Chain
        <5> QED
          BY <5>1, <5>2
      <4> QED
        BY <2>3, <3>1, <3>4, <4>1 DEF Ahead
    <3> QED
      BY <3>1, <3>2, <3>3, <3>4 DEF Bucket
  <2>7. IsInjective(visited') /\ visited' \in Seq(Bucket \X (Keys \cup {NoKey}))
    BY <2>3 DEF IsInjective
  <2>8. CursorInv'
    <3>1. \E x \in DOMAIN buckets'[b] : buckets'[b][x].key = first
      BY <1>1, <2>2
    <3>2. stable' = {k \in Keys : Place(k) # 0}
      BY <1>1, <1>4
    <3>3. cursor' # <<>>
      BY <2>3
    <3>4. \E x \in DOMAIN buckets'[cursor'[1]] : buckets'[cursor'[1]][x].key = cursor'[2]
      BY <2>3, <3>1
    <3>5. \A i \in DOMAIN visited' : Behind(visited[i][1], visited[i][2])'
      <4>1. visited'[1][1] = b /\ visited'[1][2] = first
        BY <2>3
      <4>2. ASSUME NEW i \in DOMAIN visited'
            PROVE  visited'[i][1] = cursor'[1] /\ visited'[i][2] = first /\ cursor'[2] = first
        BY <2>3, <4>1
      <4>3. ASSUME NEW x \in DOMAIN buckets'[b], NEW y \in DOMAIN buckets'[b],
                   buckets'[b][x].key = first, buckets'[b][y].key = first
            PROVE  x <= y
        BY <1>1, <2>4, <4>3
      <4>4. cursor'[1] = b
        BY <2>3
      <4> HIDE DEF first
      <4> QED
        BY <4>2, <4>3, <4>4 DEF Behind
    <3>6. \A k \in stable' :
             /\ \E x \in DOMAIN Chain(k)' : Chain(k)'[x].key = k
             /\ Ahead(k)' \/ \E i \in DOMAIN visited' : visited'[i][2] = k
      BY <2>3, <2>6, <3>2
    <3> QED
      BY <2>7, <3>3, <3>4, <3>5, <3>6 DEF CursorInv
  <2> QED
    BY <1>2, <2>5, <2>8 DEF IInv
<1> QED
  BY <1>3, <1>4

(* Where the iteration is.                                                  *)
LEMMA CursorFound ==
    ASSUME TypeOK, CursorInv, Iterating
    PROVE  /\ cursor[1] \in Bucket /\ cursor = <<cursor[1], cursor[2]>>
           /\ CursorPlace \in DOMAIN buckets[cursor[1]]
           /\ buckets[cursor[1]][CursorPlace].key = cursor[2]
<1>1. cursor[1] \in Bucket /\ cursor = <<cursor[1], cursor[2]>>
  BY DEF TypeOK, Iterating
<1> DEFINE chain == buckets[cursor[1]]
           I == {i \in 1 .. Len(chain) : chain[i].key = cursor[2]}
<1>2. chain \in Seq(Entry)
  BY <1>1 DEF TypeOK
<1>3. I \in SUBSET Nat /\ I # {}
  BY <1>2 DEF CursorInv
<1>4. CursorPlace = CHOOSE x \in I : \A y \in I : x <= y
  BY <1>3 DEF CursorPlace, SelectInSeq, Min
<1>5. \E x \in I : \A y \in I : x <= y
  BY <1>3, LeastExists
<1>6. CursorPlace \in I
  BY <1>4, <1>5
<1> QED
  BY <1>1, <1>2, <1>6

(* From one entry to the next: in the same chain, or the first of a later   *)
(* one with nothing in between.                                             *)
LEMMA AdvanceStep ==
    ASSUME IInv, Iterating, NEW n, n = CursorPlace, NEW b \in Bucket,
           NEW y \in DOMAIN buckets[b], NEW key, key = buckets[b][y].key,
           \/ b = cursor[1] /\ y = n + 1
           \/ /\ cursor[1] < b /\ y = 1 /\ n = Len(buckets[cursor[1]])
              /\ \A d \in Bucket : cursor[1] < d /\ d < b => buckets[d] = <<>>,
           cursor' = <<b, key>>, visited' = Append(visited, <<b, key>>),
           UNCHANGED <<buckets, count, live, lost, stable, status>>
    PROVE  IInv'
<1> DEFINE c == cursor[1]
<1>1. /\ TypeOK /\ ChainInv /\ CursorInv /\ stable \subseteq Keys
      /\ c \in Bucket /\ n \in DOMAIN buckets[c] /\ buckets[c][n].key = cursor[2]
      /\ key \in Keys \cup {NoKey} /\ cursor # <<>>
  <2>1. buckets[b][y] \in Entry
    BY DEF IInv, TypeOK
  <2> QED
    BY <2>1, CursorFound DEF IInv, TypeOK, Entry, Iterating
<1>2. /\ b \in Nat /\ c \in Nat /\ n \in Nat /\ y \in Nat
      /\ \A d \in Bucket : /\ d \in Nat /\ Len(buckets[d]) \in Nat
                           /\ DOMAIN buckets[d] = 1 .. Len(buckets[d])
  <2>1. ASSUME NEW d \in Bucket PROVE buckets[d] \in Seq(Entry)
    BY <1>1 DEF TypeOK
  <2>2. \A d \in Bucket : d \in Nat
    BY DEF Bucket
  <2> QED
    BY <1>1, <2>1, <2>2
<1>3. ChainInv' /\ CountInv' /\ ValuesOwned'
  <2>1. Places' = Places
    BY DEF Places
  <2>2. \A p : At(p)' = At(p)
    BY DEF At
  <2>3. Held' = Held
    BY <2>1, <2>2 DEF Held
  <2> QED
    BY <2>1, <2>2, <2>3 DEF IInv, ChainInv, CountInv, ValuesOwned
<1>4. TypeOK'
  BY <1>1 DEF TypeOK
<1>5. \A x \in DOMAIN buckets[b] : buckets[b][x].key = key => x = y
  BY <1>1 DEF ChainInv
<1>6. \A x \in DOMAIN buckets[c] : buckets[c][x].key = cursor[2] => x = n
  BY <1>1 DEF ChainInv
<1>7. cursor'[1] = b /\ cursor'[2] = key /\ (c = b \/ c < b)
  OBVIOUS
<1>8. ASSUME NEW a \in Bucket, NEW k, Behind(a, k)
      PROVE  /\ \/ a < b
                \/ /\ a = b
                   /\ \A x, z \in DOMAIN buckets'[a] :
                         buckets'[a][x].key = k /\ buckets'[a][z].key = key => x <= z
             /\ <<a, k>> # <<b, key>>
  <2>1. CASE a < c
    <3>1. a \in Nat
      BY <1>2
    <3>2. a < b /\ a # b
      BY <1>2, <1>7, <2>1, <3>1
    <3> QED
      BY <3>2
  <2>2. CASE a = c /\ c < b
    <3>1. a < b /\ a # b
      BY <1>1, <1>2, <2>2
    <3> QED
      BY <3>1
  <2>3. CASE a = c /\ c = b
    <3>1. \A x \in DOMAIN buckets[b] : buckets[b][x].key = k => x <= n
      BY <1>1, <1>8, <2>3, <1>2 DEF Behind
    <3>2. y = n + 1 /\ n \in Nat
      BY <1>1, <1>2, <2>3
    <3>3. ASSUME NEW x \in DOMAIN buckets'[a], NEW z \in DOMAIN buckets'[a],
                 buckets'[a][x].key = k, buckets'[a][z].key = key
          PROVE  x <= z
      <4>1. z = y /\ x <= n /\ x \in Nat
        BY <1>2, <1>5, <2>3, <3>1, <3>3
      <4> QED
        BY <3>2, <4>1
    <3>4. k # key
      BY <3>1, <3>2
    <3> QED
      BY <2>3, <3>3, <3>4
  <2> QED
    BY <1>1, <1>2, <1>7, <1>8, <2>1, <2>2, <2>3 DEF Behind
<1>9. ASSUME NEW k \in stable, Ahead(k), k # key,
             NEW x \in DOMAIN Chain(k), Chain(k)[x].key = k
      PROVE  Ahead(k)'
  <2>1. /\ Hash[k] \in Bucket /\ Hash[k] \in Nat /\ x \in Nat
        /\ Chain(k) = buckets[Hash[k]] /\ Chain(k)' = Chain(k)
    <3>1. Hash[k] \in Bucket /\ Chain(k) = buckets[Hash[k]] /\ Chain(k)' = Chain(k)
      BY <1>1, HashInBucket DEF Chain
    <3>2. Hash[k] \in Nat /\ DOMAIN Chain(k) = 1 .. Len(Chain(k)) /\ Len(Chain(k)) \in Nat
      BY <1>2, <3>1
    <3> QED
      BY <3>1, <3>2
  <2>2. c < Hash[k] \/ (c = Hash[k] /\ n < x)
    BY <1>1, <1>9, <2>1 DEF Ahead
  <2>3. b <= Hash[k]
    <3>1. CASE b = c
      BY <1>1, <1>2, <2>1, <2>2, <3>1
    <3>2. CASE c < b
      <4>1. c # Hash[k]
        <5> SUFFICES ASSUME c = Hash[k] PROVE FALSE
          OBVIOUS
        <5>1. n < x
          BY <1>1, <1>2, <2>1, <2>2
        <5>2. n = Len(buckets[c]) /\ x \in 1 .. Len(buckets[c])
          BY <1>1, <1>2, <2>1, <3>2
        <5> QED
          BY <1>1, <1>2, <5>1, <5>2
      <4>2. c < Hash[k] /\ buckets[Hash[k]] # <<>>
        BY <1>9, <2>1, <2>2, <4>1
      <4> QED
        BY <1>1, <1>2, <2>1, <3>2, <4>2
    <3> QED
      BY <1>1, <1>2, <1>7, <3>1, <3>2
  <2>4. CASE b < Hash[k]
    BY <1>7, <2>4 DEF Ahead
  <2>5. CASE b = Hash[k]
    <3>1. ASSUME NEW w \in DOMAIN Chain(k), NEW z \in DOMAIN Chain(k),
                 Chain(k)[w].key = k, Chain(k)[z].key = key
          PROVE  z < w
      <4>1. z = y /\ w # y /\ w \in Nat \ {0}
        BY <1>2, <1>5, <1>9, <2>1, <2>5, <3>1
      <4>2. CASE b = c
        <5>1. n < w
          BY <1>1, <1>2, <1>9, <2>1, <2>5, <3>1, <4>2 DEF Ahead
        <5>2. y = n + 1 /\ n \in Nat
          BY <1>1, <1>2, <4>2
        <5> QED
          BY <4>1, <5>1, <5>2
      <4>3. CASE c < b
        BY <1>1, <1>2, <4>1, <4>3
      <4> QED
        BY <1>1, <1>2, <1>7, <4>2, <4>3
    <3> QED
      BY <1>7, <2>1, <2>5, <3>1 DEF Ahead
  <2> QED
    BY <1>2, <2>1, <2>3, <2>4, <2>5
<1>10. /\ visited \in Seq(Bucket \X (Keys \cup {NoKey})) /\ IsInjective(visited)
       /\ \A i \in DOMAIN visited : /\ Behind(visited[i][1], visited[i][2])
                                   /\ visited[i][1] \in Bucket
                                   /\ visited[i] = <<visited[i][1], visited[i][2]>>
  BY <1>1 DEF CursorInv
<1>11. /\ visited' \in Seq(Bucket \X (Keys \cup {NoKey}))
       /\ DOMAIN visited' = 1 .. Len(visited) + 1 /\ DOMAIN visited = 1 .. Len(visited)
       /\ Len(visited) \in Nat
       /\ visited'[Len(visited) + 1] = <<b, key>>
       /\ \A i \in DOMAIN visited : visited'[i] = visited[i]
  BY <1>1, <1>10
<1>12. CursorInv'
  <2>1. cursor' # <<>>
    OBVIOUS
  <2>2. \E x \in DOMAIN buckets'[cursor'[1]] : buckets'[cursor'[1]][x].key = cursor'[2]
    BY <1>7
  <2>3. IsInjective(visited')
    <3>1. \A i \in DOMAIN visited : visited[i] # <<b, key>>
      BY <1>8, <1>10
    <3> QED
      BY <1>10, <1>11, <3>1 DEF IsInjective
  <2>4. ASSUME NEW i \in DOMAIN visited' PROVE Behind(visited[i][1], visited[i][2])'
    <3>1. CASE i = Len(visited) + 1
      <4>1. visited'[i][1] = b /\ visited'[i][2] = key
        BY <1>11, <3>1
      <4>2. ASSUME NEW x \in DOMAIN buckets'[b], NEW z \in DOMAIN buckets'[b],
                   buckets'[b][x].key = key, buckets'[b][z].key = key
            PROVE  x <= z
        <5>1. x = y /\ z = y
          BY <1>5, <4>2
        <5> QED
          BY <1>2, <5>1
      <4> QED
        BY <1>7, <4>1, <4>2 DEF Behind
    <3>2. CASE i # Len(visited) + 1
      <4>1. i \in DOMAIN visited /\ visited'[i] = visited[i]
        BY <1>11, <3>2
      <4> QED
        <5>1. PICK a, k : a = visited[i][1] /\ k = visited[i][2]
          OBVIOUS
        <5>2. a \in Bucket /\ Behind(a, k) /\ visited'[i][1] = a /\ visited'[i][2] = k
          BY <1>10, <4>1, <5>1
        <5>3. \/ a < b
              \/ /\ a = b
                 /\ \A x, z \in DOMAIN buckets'[a] :
                       buckets'[a][x].key = k /\ buckets'[a][z].key = key => x <= z
          BY <1>8, <5>2
        <5> QED
          BY <1>7, <5>2, <5>3 DEF Behind
    <3> QED
      BY <3>1, <3>2
  <2>5. ASSUME NEW k \in stable
        PROVE  /\ \E x \in DOMAIN Chain(k)' : Chain(k)'[x].key = k
               /\ Ahead(k)' \/ \E i \in DOMAIN visited' : visited'[i][2] = k
    <3>1. Chain(k)' = Chain(k)
      BY DEF Chain
    <3>2. PICK x \in DOMAIN Chain(k) : Chain(k)[x].key = k
      BY <1>1 DEF CursorInv
    <3>3. CASE k = key
      <4>1. visited'[Len(visited) + 1][2] = k /\ Len(visited) + 1 \in DOMAIN visited'
        BY <1>11, <3>3
      <4> QED
        BY <3>1, <3>2, <4>1
    <3>4. CASE k # key /\ Ahead(k)
      BY <1>9, <3>1, <3>2, <3>4
    <3>5. CASE \E i \in DOMAIN visited : visited[i][2] = k
      BY <1>11, <3>1, <3>2, <3>5
    <3> QED
      BY <1>1, <3>3, <3>4, <3>5 DEF CursorInv
  <2> QED
    BY <1>11, <2>1, <2>2, <2>3, <2>4, <2>5 DEF CursorInv
<1> QED
  BY <1>3, <1>4, <1>12 DEF IInv

LEMMA GoesOnStep ==
    ASSUME IInv, ForeachGoesOn
    PROVE  IInv'
<1> DEFINE c == cursor[1]
<1>1. TypeOK /\ CursorInv /\ Iterating
  BY DEF IInv, ForeachGoesOn, Iterating
<1>2. PICK n : n = CursorPlace
  OBVIOUS
<1>3. /\ c \in Bucket /\ c \in Nat /\ buckets[c] \in Seq(Entry)
      /\ n \in DOMAIN buckets[c] /\ n \in Nat
  <2>1. c \in Bucket /\ n \in DOMAIN buckets[c]
    BY <1>1, <1>2, CursorFound
  <2> QED
    BY <1>1, <2>1 DEF TypeOK, Bucket
<1>4. UNCHANGED <<buckets, count, live, lost, status>>
  BY DEF ForeachGoesOn
<1>5. CASE n < Len(buckets[c])
  <2>1. PICK key : key = buckets[c][n + 1].key
    OBVIOUS
  <2>2. /\ cursor' = <<c, key>> /\ visited' = Append(visited, <<c, key>>) /\ stable' = stable
    BY <1>2, <1>5, <2>1 DEF ForeachGoesOn, Visit
  <2>3. PICK b : b = c
    OBVIOUS
  <2>4. n + 1 \in DOMAIN buckets[b] /\ b \in Bucket
    BY <1>3, <1>5, <2>3
  <2> QED
    BY <1>1, <1>2, <1>4, <2>1, <2>2, <2>3, <2>4, AdvanceStep
<1>6. CASE ~ (n < Len(buckets[c])) /\ First(c + 1) # <<>>
  <2>1. PICK b \in Bucket :
           /\ First(c + 1) = <<b, buckets[b][1].key>> /\ buckets[b] # <<>> /\ c + 1 <= b
           /\ \A d \in Bucket : c + 1 <= d /\ d < b => buckets[d] = <<>>
    BY <1>1, <1>3, <1>6, FirstFound
  <2>2. PICK key : key = buckets[b][1].key
    OBVIOUS
  <2>3. /\ cursor' = <<b, key>> /\ visited' = Append(visited, <<b, key>>) /\ stable' = stable
    BY <1>2, <1>6, <2>1, <2>2 DEF ForeachGoesOn, Visit
  <2>4. 1 \in DOMAIN buckets[b]
    BY <1>1, <2>1 DEF TypeOK
  <2>5. c < b /\ n = Len(buckets[c]) /\ \A d \in Bucket : c < d /\ d < b => buckets[d] = <<>>
    BY <1>3, <1>6, <2>1 DEF Bucket
  <2> QED
    BY <1>1, <1>2, <1>4, <2>2, <2>3, <2>4, <2>5, AdvanceStep
<1>7. CASE ~ (n < Len(buckets[c])) /\ First(c + 1) = <<>>
  <2>1. cursor' = <<>> /\ visited' = <<>> /\ stable' = {}
    BY <1>2, <1>7 DEF ForeachGoesOn, Visit
  <2>2. TypeOK' /\ CursorInv'
    BY <1>1, <1>4, <2>1 DEF TypeOK, CursorInv, Iterating
  <2> QED
    BY <1>4, <2>2 DEF IInv, ChainInv, CountInv, ValuesOwned, Held, Places, At
<1> QED
  BY <1>5, <1>6, <1>7

(***************************************************************************)
(* The theorems.                                                           *)
(***************************************************************************)
(* A step that changes nothing but the status keeps the invariant.          *)
LEMMA StatusStep ==
    ASSUME IInv, UNCHANGED <<buckets, count, live, lost, iteration>>,
           status' \in {"ok", "crashed", "use_after_free"}
    PROVE  IInv'
<1>1. UNCHANGED <<buckets, count, live, lost, cursor, visited, stable>>
  BY DEF iteration
<1>2. Places' = Places /\ Held' = Held /\ \A p : At(p)' = At(p)
  BY <1>1 DEF Places, Held, At
<1>3. TypeOK' /\ ChainInv' /\ CountInv'
  BY <1>1, <1>2 DEF IInv, TypeOK, ChainInv, CountInv
<1>4. ValuesOwned'
  BY <1>1, <1>2 DEF IInv, ValuesOwned
<1>5. CursorInv'
  <2>1. /\ \A b, j : Behind(b, j)' <=> Behind(b, j)
        /\ \A j : Chain(j)' = Chain(j)
    BY <1>1 DEF Behind, Chain
  <2>2. \A j : Ahead(j)' <=> Ahead(j)
    BY <1>1, <2>1 DEF Ahead
  <2> QED
    BY <1>1, <2>1, <2>2 DEF IInv, CursorInv, Iterating
<1> QED
  BY <1>3, <1>4, <1>5 DEF IInv

LEMMA InvariantStep == ASSUME IInv, Next PROVE IInv'
<1>1. ASSUME NEW k \in Keys, NEW v \in Values \cup {NoValue}, AddReplaces(k, v) PROVE IInv'
  BY <1>1, ReplaceStep
<1>2. ASSUME NEW k \in Keys, NEW v \in Values \cup {NoValue}, AddNew(k, v) PROVE IInv'
  BY <1>2, InsertStep DEF AddNew
<1>3. ASSUME NEW k \in Keys, NEW v \in Values \cup {NoValue}, AddWithoutKey(k, v) PROVE IInv'
  BY <1>3, InsertStep DEF AddWithoutKey
<1>4. ASSUME NEW k \in Keys, NEW v \in Values \cup {NoValue}, AddFails(k, v) PROVE IInv'
  <2>1. /\ UNCHANGED <<buckets, count, cursor, visited, stable, status>>
        /\ live' = live \cup ({v} \ {NoValue}) /\ lost' = lost \cup ({v} \ {NoValue})
    BY <1>4 DEF AddFails, iteration
  <2>2. Places' = Places /\ Held' = Held /\ \A p : At(p)' = At(p)
    BY <2>1 DEF Places, Held, At
  <2>3. \A p \in Held : At(p).value # v
    BY <1>4, GivenIsNew DEF AddFails, IInv, Held
  <2>4. TypeOK' /\ ChainInv' /\ CountInv'
    BY <2>1, <2>2 DEF IInv, TypeOK, ChainInv, CountInv
  <2>5. ValuesOwned'
    BY <2>1, <2>2, <2>3 DEF IInv, ValuesOwned
  <2>6. CursorInv'
    <3>1. /\ \A b, j : Behind(b, j)' <=> Behind(b, j)
          /\ \A j : Chain(j)' = Chain(j)
      BY <2>1 DEF Behind, Chain
    <3>2. \A j : Ahead(j)' <=> Ahead(j)
      BY <2>1, <3>1 DEF Ahead
    <3> QED
      BY <2>1, <3>1, <3>2 DEF IInv, CursorInv, Iterating
  <2> QED
    BY <2>4, <2>5, <2>6 DEF IInv
<1>5. ASSUME NEW k \in Keys, RemoveKey(k) PROVE IInv'
  BY <1>5, RemoveStep
<1>6. ASSUME status' \in {"crashed", "use_after_free"},
             UNCHANGED <<buckets, count, live, lost, iteration>>
      PROVE  IInv'
  BY <1>6, StatusStep
<1>7. CASE Clear
  BY <1>7, ClearStep
<1>8. CASE ForeachBegins
  BY <1>8, BeginStep
<1>9. CASE ForeachGoesOn
  BY <1>9, GoesOnStep
<1>10. CASE ForeachStops
  <2>1. /\ UNCHANGED <<buckets, count, live, lost, status>>
        /\ cursor' = <<>> /\ visited' = <<>> /\ stable' = {}
    BY <1>10 DEF ForeachStops
  <2>2. Places' = Places /\ Held' = Held /\ \A p : At(p)' = At(p)
    BY <2>1 DEF Places, Held, At
  <2>3. TypeOK' /\ ChainInv' /\ CountInv'
    BY <2>1, <2>2 DEF IInv, TypeOK, ChainInv, CountInv
  <2>4. ValuesOwned'
    BY <2>1, <2>2 DEF IInv, ValuesOwned
  <2>5. CursorInv'
    BY <2>1 DEF CursorInv, Iterating
  <2> QED
    BY <2>3, <2>4, <2>5 DEF IInv
<1> QED
  BY <1>1, <1>2, <1>3, <1>4, <1>5, <1>6, <1>7, <1>8, <1>9, <1>10
     DEF Next, Mutate, Foreach, LookupCrashes, ForeachReadsFreed

(* Whatever is added, replaced, removed and cleared, also by the callbacks  *)
(* of an iteration, and whatever allocation fails, the invariant holds.     *)
THEOREM Invariance == Spec => []IInv
<1>1. Init => IInv
  <2> SUFFICES ASSUME Init PROVE IInv
    OBVIOUS
  <2>1. Places = {} /\ \A b \in Bucket : buckets[b] = <<>>
    BY DEF Init, Places
  <2>2. CountInv
    BY <2>1, FS_EmptySet DEF Init, CountInv
  <2> QED
    BY <2>1, <2>2 DEF Init, IInv, TypeOK, ChainInv, ValuesOwned, Held, CursorInv, Iterating
<1>2. IInv /\ [Next]_vars => IInv'
  <2>1. CASE Next
    BY <2>1, InvariantStep
  <2>2. CASE UNCHANGED vars
    <3>1. UNCHANGED <<buckets, count, live, lost, iteration>> /\ status' = status
      BY <2>2 DEF vars, iteration
    <3> QED
      BY <3>1, StatusStep DEF IInv, TypeOK
  <2> QED
    BY <2>1, <2>2
<1> QED
  BY <1>1, <1>2, PTL DEF Spec

(* The type invariant.                                                      *)
THEOREM TypeCorrect == Spec => []TypeOK
  BY Invariance, PTL DEF IInv

(* Each key stands once, in the chain its hash names, and prefix_map_size   *)
(* is the number of entries.                                                *)
THEOREM Findable == Spec => []KeysFindable
<1>1. IInv => KeysFindable
  <2> SUFFICES ASSUME IInv PROVE KeysFindable
    OBVIOUS
  <2>1. ASSUME NEW p \in Places, At(p).key # NoKey
        PROVE  /\ Hash[At(p).key] = p[1]
               /\ \A q \in Places : At(q).key = At(p).key => q = p
    <3>1. \A q \in Places : At(q).key = At(p).key => Hash[At(p).key] = q[1]
      BY <2>1, EntryAt DEF IInv, ChainInv, At
    <3>2. ASSUME NEW q \in Places, At(q).key = At(p).key PROVE q = p
      <4>1. q[1] = p[1]
        BY <3>1, <3>2
      <4>2. q[2] = p[2]
        BY <3>2, <4>1, EntryAt DEF IInv, ChainInv, At
      <4> QED
        BY <4>1, <4>2, EntryAt DEF IInv
    <3> QED
      BY <3>1, <3>2
  <2> QED
    BY <2>1 DEF KeysFindable, IInv, CountInv
<1> QED
  BY <1>1, Invariance, PTL

(* No value is leaked but by an add that fails, none is destroyed twice or  *)
(* while an entry holds it.                                                 *)
THEOREM Owned == Spec => []ValuesOwned
  BY Invariance, PTL DEF IInv

(* An iteration visits no key twice, and every key that was there all the   *)
(* time, whatever its callbacks do to the map.                              *)
THEOREM Visits == Spec => VisitsAll
<1> DEFINE Ends == cursor' = <<>> => stable \subseteq {visited[x][2] : x \in DOMAIN visited}
<1>1. ASSUME IInv, IInv', ForeachGoesOn
      PROVE  IsInjective(visited') /\ Ends
  <2> DEFINE c == cursor[1]
  <2>1. /\ TypeOK /\ CursorInv /\ CursorInv' /\ Iterating
        /\ stable \subseteq Keys
    BY <1>1 DEF IInv, ForeachGoesOn, Iterating, TypeOK
  <2>2. /\ c \in Bucket /\ CursorPlace \in DOMAIN buckets[c]
        /\ buckets[c][CursorPlace].key = cursor[2]
    BY <2>1, CursorFound
  <2>3. IsInjective(visited')
    <3>1. cursor' # Freed
      <4>1. \A b \in Bucket : b # 0
        BY DEF Bucket
      <4>2. First(c + 1) # Freed
        BY <2>1, <2>2, <4>1, FirstFound DEF Freed, Bucket
      <4> QED
        BY <1>1, <2>2, <4>1, <4>2 DEF ForeachGoesOn, Visit, Freed
    <3>2. CASE cursor' = <<>>
      BY <2>1, <3>2 DEF CursorInv, IsInjective
    <3>3. CASE cursor' # <<>>
      BY <2>1, <3>1, <3>3 DEF CursorInv, Iterating
    <3> QED
      BY <3>2, <3>3
  <2>4. ASSUME cursor' = <<>>, NEW k \in stable PROVE ~ Ahead(k)
    <3>1. ~ (CursorPlace < Len(buckets[c])) /\ First(c + 1) = <<>>
      BY <1>1, <2>4 DEF ForeachGoesOn, Visit
    <3>2. \A b \in Bucket : b >= c + 1 => buckets[b] = <<>>
      BY <2>1, <2>2, <3>1, FirstFound DEF Bucket
    <3>3. PICK x \in DOMAIN Chain(k) : Chain(k)[x].key = k
      BY <2>1 DEF CursorInv
    <3>4. Hash[k] \in Bucket /\ Chain(k) = buckets[Hash[k]] /\ Chain(k) \in Seq(Entry)
      BY <2>1, HashInBucket, PlaceFound DEF Chain
    <3>5. ~ (c < Hash[k])
      BY <2>2, <3>2, <3>3, <3>4 DEF Bucket
    <3>6. c = Hash[k] => ~ (CursorPlace < x)
      BY <2>2, <3>1, <3>3, <3>4
    <3> QED
      BY <2>2, <3>3, <3>4, <3>5, <3>6 DEF Ahead
  <2> QED
    BY <2>1, <2>3, <2>4 DEF CursorInv
<1>2. IInv /\ IInv' /\ [Next]_vars => [ForeachGoesOn => IsInjective(visited') /\ Ends]_vars
  BY <1>1
<1> QED
  BY <1>2, Invariance, PTL DEF Spec, VisitsAll

-----------------------------------------------------------------------------
(* The chains implement the map of prefix_map.h                             *)

MapOf == [k \in KeysPresent |-> Get(k)]

(* What a lookup answers depends on the entry with the key only.            *)
Lookups ==
    \A k \in Keys :
        /\ 0 \notin DOMAIN Chain(k)
        /\ \A x \in DOMAIN Chain(k) : Chain(k)[x].key = k => Place(k) = x
        /\ (\A x \in DOMAIN Chain(k) : Chain(k)[x].key # k) => Place(k) = 0

LEMMA LookupsAgree == IInv => Lookups
<1> SUFFICES ASSUME IInv, NEW k \in Keys
             PROVE  /\ 0 \notin DOMAIN Chain(k)
                    /\ \A x \in DOMAIN Chain(k) : Chain(k)[x].key = k => Place(k) = x
                    /\ (\A x \in DOMAIN Chain(k) : Chain(k)[x].key # k) => Place(k) = 0
  BY DEF Lookups
<1>1. /\ Chain(k) \in Seq(Entry)
      /\ Place(k) # 0 => Place(k) \in DOMAIN Chain(k) /\ Chain(k)[Place(k)].key = k
      /\ Place(k) = 0 => \A x \in DOMAIN Chain(k) : Chain(k)[x].key # k
  BY PlaceFound DEF IInv
<1>2. ASSUME NEW x \in DOMAIN Chain(k), Chain(k)[x].key = k PROVE Place(k) = x
  BY <1>1, <1>2, HashInBucket DEF IInv, ChainInv, Chain
<1> QED
  BY <1>1, <1>2

LEMMA NextLookupsAgree == IInv' => Lookups'
  BY LookupsAgree, PTL

(* A lookup whose entry stays answers the same.                             *)
LEMMA LookupKept ==
    ASSUME IInv, IInv', NEW j \in Keys,
           \A x \in DOMAIN Chain(j) : Chain(j)[x].key = j =>
              \E y \in DOMAIN Chain(j)' : Chain(j)'[y] = Chain(j)[x],
           \A y \in DOMAIN Chain(j)' : Chain(j)'[y].key = j =>
              \E x \in DOMAIN Chain(j) : Chain(j)[x].key = j
    PROVE  /\ Place(j)' # 0 <=> Place(j) # 0
           /\ Place(j) # 0 => Get(j)' = Get(j)
<1>1. Lookups /\ Lookups'
  BY LookupsAgree, NextLookupsAgree
<1>2. CASE \E x \in DOMAIN Chain(j) : Chain(j)[x].key = j
  <2>1. PICK x \in DOMAIN Chain(j) : Chain(j)[x].key = j
    BY <1>2
  <2>2. PICK y \in DOMAIN Chain(j)' : Chain(j)'[y] = Chain(j)[x]
    BY <2>1
  <2>3. Place(j) = x /\ x # 0 /\ Get(j) = Chain(j)[x].value
    BY <1>1, <2>1 DEF Lookups, Get
  <2>4. Place(j)' = y /\ y # 0
    BY <1>1, <2>1, <2>2 DEF Lookups
  <2>5. Get(j)' = Chain(j)'[y].value
    BY <2>4 DEF Get
  <2> QED
    BY <2>2, <2>3, <2>4, <2>5
<1>3. CASE ~ \E x \in DOMAIN Chain(j) : Chain(j)[x].key = j
  <2>1. Place(j) = 0
    BY <1>1, <1>3 DEF Lookups
  <2>2. Place(j)' = 0
    BY <1>1, <1>3 DEF Lookups
  <2> QED
    BY <2>1, <2>2
<1> QED
  BY <1>2, <1>3

LEMMA InsertRefines ==
    ASSUME IInv, IInv', NEW k \in Keys, NEW dup \in {k, NoKey},
           NEW v \in Values \cup {NoValue}, Place(k) = 0, Insert(k, dup, v)
    PROVE  IF dup = k THEN Map!Put(k, v) ELSE MapOf' = MapOf
<1> DEFINE h == Hash[k]
<1>1. /\ TypeOK /\ h \in Bucket /\ dup \in Keys \cup {NoKey} /\ k # NoKey
      /\ Chain(k) = buckets[h] /\ Chain(k) \in Seq(Entry)
      /\ \A x \in DOMAIN Chain(k) : Chain(k)[x].key # k
  BY HashInBucket, PlaceFound, PrefixMapAssumption DEF IInv, Chain
<1>2. /\ \A b \in Bucket \ {h} : buckets'[b] = buckets[b]
      /\ DOMAIN buckets'[h] = 1 .. Len(Chain(k)) + 1
      /\ buckets'[h][1] = [key |-> dup, value |-> v]
      /\ \A x \in DOMAIN Chain(k) : buckets'[h][x + 1] = Chain(k)[x]
  BY <1>1, InsertShape
<1> HIDE DEF h
<1>3. \A x \in DOMAIN buckets[h] : /\ x + 1 \in DOMAIN buckets'[h]
                                  /\ buckets'[h][x + 1] = buckets[h][x]
  BY <1>1, <1>2
<1>4. ASSUME NEW y \in DOMAIN buckets'[h], y # 1
      PROVE  y - 1 \in DOMAIN buckets[h] /\ buckets'[h][y] = buckets[h][y - 1]
  <2>1. y - 1 \in DOMAIN buckets[h] /\ (y - 1) + 1 = y
    BY <1>1, <1>2, <1>4
  <2> QED
    BY <1>1, <1>2, <2>1
<1>5. ASSUME NEW j \in Keys, j # dup
      PROVE  (Place(j)' # 0 <=> Place(j) # 0) /\ (Place(j) # 0 => Get(j)' = Get(j))
  <2>1. CASE Hash[j] = h
    <3>1. ASSUME NEW x \in DOMAIN Chain(j), Chain(j)[x].key = j
          PROVE  \E y \in DOMAIN Chain(j)' : Chain(j)'[y] = Chain(j)[x]
      BY <1>3, <2>1 DEF Chain
    <3>2. ASSUME NEW y \in DOMAIN Chain(j)', Chain(j)'[y].key = j
          PROVE  \E x \in DOMAIN Chain(j) : Chain(j)[x].key = j
      <4>1. y # 1
        BY <1>2, <1>5, <2>1, <3>2 DEF Chain
      <4> QED
        BY <1>4, <2>1, <3>2, <4>1 DEF Chain
    <3> QED
      BY <3>1, <3>2, LookupKept
  <2>2. CASE Hash[j] # h
    <3>1. Chain(j)' = Chain(j)
      BY <1>2, <2>2, HashInBucket DEF Chain
    <3> QED
      BY <3>1, LookupKept
  <2> QED
    BY <2>1, <2>2
<1>6. CASE dup = k
  <2>1. Place(k)' = 1
    <3>1. 1 \in DOMAIN Chain(k)' /\ Chain(k)'[1].key = k
      BY <1>1, <1>2, <1>6 DEF Chain, h
    <3> QED
      BY <3>1, NextLookupsAgree DEF Lookups
  <2>2. Get(k)' = v
    <3>1. Chain(k)'[1].value = v
      BY <1>2 DEF Chain, h
    <3> QED
      BY <2>1, <3>1 DEF Get
  <2>3. KeysPresent' = KeysPresent \cup {k}
    BY <1>5, <1>6, <2>1 DEF KeysPresent
  <2>4. \A j \in KeysPresent' : Get(j)' = IF j = k THEN v ELSE Get(j)
    BY <1>5, <1>6, <2>2, <2>3 DEF KeysPresent
  <2>5. MapOf' = [j \in KeysPresent \cup {k} |-> IF j = k THEN v ELSE Get(j)]
    BY <2>3, <2>4 DEF MapOf
  <2>6. DOMAIN MapOf = KeysPresent /\ k \notin KeysPresent
    BY DEF MapOf, KeysPresent
  <2> QED
    BY <1>6, <2>5, <2>6 DEF MapOf, Map!Put
<1>7. CASE dup = NoKey
  <2>1. KeysPresent' = KeysPresent
    BY <1>5, <1>7, PrefixMapAssumption DEF KeysPresent
  <2>2. \A j \in KeysPresent : Get(j)' = Get(j)
    BY <1>5, <1>7, PrefixMapAssumption DEF KeysPresent
  <2> QED
    BY <1>1, <1>7, <2>1, <2>2 DEF MapOf
<1> QED
  BY <1>6, <1>7

LEMMA ReplaceRefines ==
    ASSUME IInv, IInv', NEW k \in Keys, NEW v \in Values \cup {NoValue}, AddReplaces(k, v)
    PROVE  Map!Put(k, v)
<1>1. PICK i : i = Place(k)
  OBVIOUS
<1>2. /\ TypeOK /\ Hash[k] \in Bucket /\ i \in DOMAIN Chain(k) /\ Chain(k)[i].key = k
      /\ Chain(k)[i] \in Entry /\ Chain(k) \in Seq(Entry) /\ i # 0
  BY <1>1, HashInBucket, PlaceFound DEF IInv, AddReplaces
<1>3. /\ \A j \in Keys : Hash[j] # Hash[k] => Chain(j)' = Chain(j)
      /\ Chain(k)' = [Chain(k) EXCEPT ![i] = [Chain(k)[i] EXCEPT !.value = v]]
  <2>1. buckets' = [buckets EXCEPT ![Hash[k]] = [buckets[Hash[k]] EXCEPT ![Place(k)] =
                                            [buckets[Hash[k]][Place(k)] EXCEPT !.value = v]]]
    BY DEF AddReplaces
  <2> QED
    BY <1>1, <1>2, <2>1, HashInBucket DEF Chain, TypeOK
<1>4. /\ DOMAIN Chain(k)' = DOMAIN Chain(k) /\ Chain(k)'[i].key = k /\ Chain(k)'[i].value = v
      /\ \A x \in DOMAIN Chain(k) : x # i => Chain(k)'[x] = Chain(k)[x]
  BY <1>2, <1>3 DEF Entry
<1>5. ASSUME NEW j \in Keys, j # k
      PROVE  (Place(j)' # 0 <=> Place(j) # 0) /\ (Place(j) # 0 => Get(j)' = Get(j))
  <2>1. CASE Hash[j] = Hash[k]
    <3>1. Chain(j) = Chain(k) /\ Chain(j)' = Chain(k)'
      BY <2>1 DEF Chain
    <3>2. ASSUME NEW x \in DOMAIN Chain(j), Chain(j)[x].key = j
          PROVE  Chain(j)'[x] = Chain(j)[x]
      BY <1>2, <1>4, <1>5, <3>1, <3>2
    <3>3. ASSUME NEW y \in DOMAIN Chain(j)', Chain(j)'[y].key = j
          PROVE  y \in DOMAIN Chain(j) /\ Chain(j)[y].key = j
      BY <1>4, <1>5, <3>1, <3>3
    <3>4. DOMAIN Chain(j)' = DOMAIN Chain(j)
      BY <1>4, <3>1
    <3> QED
      BY <3>2, <3>3, <3>4, LookupKept
  <2>2. CASE Hash[j] # Hash[k]
    <3>1. Chain(j)' = Chain(j)
      BY <1>3, <2>2
    <3> QED
      BY <3>1, LookupKept
  <2> QED
    BY <2>1, <2>2
<1>6. Place(k)' = i
  BY <1>2, <1>4, NextLookupsAgree DEF Lookups
<1>7. Get(k)' = v
  BY <1>2, <1>4, <1>6 DEF Get
<1>8. KeysPresent' = KeysPresent \cup {k}
  BY <1>2, <1>5, <1>6 DEF KeysPresent
<1>9. \A j \in KeysPresent' : Get(j)' = IF j = k THEN v ELSE Get(j)
  BY <1>5, <1>7 DEF KeysPresent
<1>10. MapOf' = [j \in KeysPresent \cup {k} |-> IF j = k THEN v ELSE Get(j)]
  BY <1>8, <1>9 DEF MapOf
<1>11. \A j \in KeysPresent : MapOf[j] = Get(j)
  BY DEF MapOf
<1>12. DOMAIN MapOf = KeysPresent
  BY DEF MapOf
<1>13. MapOf' = [j \in DOMAIN MapOf \cup {k} |-> IF j = k THEN v ELSE MapOf[j]]
  BY <1>10, <1>11, <1>12
<1> QED
  BY <1>13 DEF MapOf, Map!Put

LEMMA RemoveRefines ==
    ASSUME IInv, IInv', NEW k \in Keys, RemoveKey(k)
    PROVE  Map!Delete(k)
<1> DEFINE h == Hash[k]
<1>1. PICK i : i = Place(k)
  OBVIOUS
<1>2. /\ TypeOK /\ h \in Bucket /\ Chain(k) = buckets[h] /\ Chain(k) \in Seq(Entry)
      /\ i \in DOMAIN buckets[h] /\ buckets[h][i].key = k /\ i # 0
      /\ DOMAIN buckets[h] = 1 .. Len(Chain(k)) /\ Len(Chain(k)) \in Nat
  BY <1>1, HashInBucket, PlaceFound DEF IInv, RemoveKey, Chain
<1>3. \A x \in DOMAIN buckets[h] : buckets[h][x].key = k => x = i
  BY <1>2 DEF IInv, ChainInv
<1>4. /\ \A b \in Bucket \ {h} : buckets'[b] = buckets[b]
      /\ DOMAIN buckets'[h] = 1 .. Len(Chain(k)) - 1
      /\ \A x \in 1 .. Len(Chain(k)) - 1 :
            buckets'[h][x] = IF x < i THEN buckets[h][x] ELSE buckets[h][x + 1]
  <2>1. /\ \A b \in Bucket \ {h} : buckets'[b] = buckets[b]
        /\ DOMAIN buckets'[h] = 1 .. Len(Chain(k)) - 1
    BY <1>2, RemoveShape
  <2>2. \A x \in 1 .. Len(Chain(k)) - 1 :
            buckets'[h][x] = IF x < Place(k) THEN Chain(k)[x] ELSE Chain(k)[x + 1]
    BY <1>2, RemoveShape
  <2> QED
    BY <1>1, <1>2, <2>1, <2>2
<1> HIDE DEF h
<1>5. ASSUME NEW y \in DOMAIN buckets'[h]
      PROVE  \E x \in DOMAIN buckets[h] : x # i /\ buckets'[h][y] = buckets[h][x]
  <2>1. y \in DOMAIN buckets[h] /\ y + 1 \in DOMAIN buckets[h] /\ y \in Int
    BY <1>2, <1>4
  <2>2. CASE y < i
    <3>1. y # i /\ buckets'[h][y] = buckets[h][y]
      BY <1>2, <1>4, <2>1, <2>2
    <3> QED
      BY <2>1, <3>1
  <2>3. CASE ~ (y < i)
    <3>1. y + 1 # i /\ buckets'[h][y] = buckets[h][y + 1]
      BY <1>2, <1>4, <2>1, <2>3
    <3> QED
      BY <2>1, <3>1
  <2> QED
    BY <2>2, <2>3
<1>6. ASSUME NEW x \in DOMAIN buckets[h], x # i
      PROVE  \E y \in DOMAIN buckets'[h] : buckets'[h][y] = buckets[h][x]
  <2>1. x \in Int /\ i \in Int
    BY <1>2
  <2>2. CASE x < i
    BY <1>2, <1>4, <2>1, <2>2
  <2>3. CASE x > i
    <3>1. x - 1 \in DOMAIN buckets'[h] /\ ~ (x - 1 < i) /\ (x - 1) + 1 = x
      BY <1>2, <1>4, <2>1, <2>3
    <3> QED
      BY <1>2, <1>4, <3>1
  <2> QED
    BY <1>6, <2>1, <2>2, <2>3
<1>7. ASSUME NEW j \in Keys, j # k
      PROVE  (Place(j)' # 0 <=> Place(j) # 0) /\ (Place(j) # 0 => Get(j)' = Get(j))
  <2>1. CASE Hash[j] = h
    <3>1. Chain(j) = buckets[h] /\ Chain(j)' = buckets'[h]
      BY <2>1 DEF Chain
    <3>2. ASSUME NEW x \in DOMAIN Chain(j), Chain(j)[x].key = j
          PROVE  \E y \in DOMAIN Chain(j)' : Chain(j)'[y] = Chain(j)[x]
      BY <1>2, <1>6, <1>7, <3>1, <3>2
    <3>3. ASSUME NEW y \in DOMAIN Chain(j)', Chain(j)'[y].key = j
          PROVE  \E x \in DOMAIN Chain(j) : Chain(j)[x].key = j
      BY <1>5, <3>1, <3>3
    <3> QED
      BY <3>2, <3>3, LookupKept
  <2>2. CASE Hash[j] # h
    <3>1. Chain(j)' = Chain(j)
      BY <1>4, <2>2, HashInBucket DEF Chain
    <3> QED
      BY <3>1, LookupKept
  <2> QED
    BY <2>1, <2>2
<1>8. Place(k)' = 0
  <2>1. \A y \in DOMAIN Chain(k)' : Chain(k)'[y].key # k
    <3>1. Chain(k)' = buckets'[h]
      BY DEF Chain, h
    <3> QED
      BY <1>3, <1>5, <3>1
  <2> QED
    BY <2>1, NextLookupsAgree DEF Lookups
<1>9. KeysPresent' = KeysPresent \ {k} /\ k \in KeysPresent
  BY <1>1, <1>2, <1>7, <1>8 DEF KeysPresent
<1>10. \A j \in KeysPresent' : Get(j)' = Get(j)
  BY <1>7, <1>9 DEF KeysPresent
<1>11. MapOf' = [j \in KeysPresent \ {k} |-> Get(j)]
  BY <1>9, <1>10 DEF MapOf
<1>12. DOMAIN MapOf = KeysPresent /\ \A j \in KeysPresent : MapOf[j] = Get(j)
  BY DEF MapOf
<1>13. k \in DOMAIN MapOf /\ MapOf' = [j \in DOMAIN MapOf \ {k} |-> MapOf[j]]
  BY <1>9, <1>11, <1>12
<1> QED
  BY <1>13 DEF MapOf, Map!Delete

(* Every change of the chains is what prefix_map.h says of the map, and the *)
(* steps of an iteration and the failures leave it alone.                   *)
THEOREM Refinement == Spec => ImplementsMap
<1>1. Init => Map!Init
  <2> SUFFICES ASSUME Init PROVE Map!Init
    OBVIOUS
  <2>1. ASSUME NEW k \in Keys PROVE Place(k) = 0
    <3>1. Chain(k) = <<>>
      BY HashInBucket DEF Init, Chain
    <3> QED
      BY <3>1 DEF Place, SelectInSeq
  <2>2. KeysPresent = {}
    BY <2>1 DEF KeysPresent
  <2> QED
    BY <2>2 DEF Map!Init, Map!Empty
<1>2. ASSUME IInv, IInv', [Next]_vars
      PROVE  [Map!Next]_MapOf
  <2>1. CASE UNCHANGED buckets
    <3>1. \A k : Chain(k)' = Chain(k)
      BY <2>1 DEF Chain
    <3>2. \A k : Place(k)' = Place(k)
      BY <3>1 DEF Place, SelectInSeq
    <3>3. \A k : Get(k)' = Get(k)
      BY <3>1, <3>2 DEF Get
    <3>4. KeysPresent' = KeysPresent
      BY <3>2 DEF KeysPresent
    <3> QED
      BY <3>3, <3>4 DEF MapOf
  <2>2. ASSUME NEW k \in Keys, NEW v \in Values \cup {NoValue}, AddReplaces(k, v)
        PROVE  [Map!Next]_MapOf
    BY <1>2, <2>2, ReplaceRefines DEF Map!Next
  <2>3. ASSUME NEW k \in Keys, NEW v \in Values \cup {NoValue}, AddNew(k, v)
        PROVE  [Map!Next]_MapOf
    BY <1>2, <2>3, InsertRefines DEF AddNew, Map!Next
  <2>4. ASSUME NEW k \in Keys, NEW v \in Values \cup {NoValue}, AddWithoutKey(k, v)
        PROVE  [Map!Next]_MapOf
    BY <1>2, <2>4, InsertRefines, PrefixMapAssumption DEF AddWithoutKey
  <2>5. ASSUME NEW k \in Keys, RemoveKey(k) PROVE [Map!Next]_MapOf
    BY <1>2, <2>5, RemoveRefines DEF Map!Next
  <2>6. CASE Clear
    <3>1. ASSUME NEW k \in Keys PROVE Place(k)' = 0
      <4>1. DOMAIN Chain(k)' = {}
        BY <2>6, HashInBucket DEF Clear, Chain
      <4> QED
        BY <1>2, <4>1, NextLookupsAgree DEF Lookups
    <3>2. KeysPresent' = {}
      BY <3>1 DEF KeysPresent
    <3> QED
      BY <3>2 DEF Map!Next, Map!Clear, Map!Empty
  <2>7. CASE UNCHANGED vars
    BY <2>1, <2>7 DEF vars
  <2>8. ASSUME NEW k \in Keys, NEW v \in Values \cup {NoValue}, AddFails(k, v)
        PROVE  UNCHANGED buckets
    BY <2>8 DEF AddFails
  <2>9. ASSUME NEW k \in Keys, LookupCrashes(k) PROVE UNCHANGED buckets
    BY <2>9 DEF LookupCrashes
  <2>10. CASE Foreach
    BY <2>1, <2>10
       DEF Foreach, ForeachBegins, ForeachGoesOn, ForeachStops, ForeachReadsFreed
  <2> QED
    BY <1>2, <2>1, <2>2, <2>3, <2>4, <2>5, <2>6, <2>7, <2>8, <2>9, <2>10 DEF Next, Mutate
<1> QED
  BY <1>1, <1>2, Invariance, PTL DEF Spec, ImplementsMap, Map!Spec, MapOf

-----------------------------------------------------------------------------
(* prefix_map_find_prefix, when no key and no value is NULL.                *)
FullEntry == [key : Keys, value : Values]
Best == [value : Values \cup {NoValue}, len : Nat]

LEMMA KeyLength == ASSUME NEW k \in Keys PROVE Len(k) \in Nat
  BY PrefixMapAssumption

LEMMA BetterOfType ==
    ASSUME NEW prefix, NEW best \in Best, NEW e \in FullEntry
    PROVE  BetterOf(prefix, best, e) \in Best
  BY KeyLength DEF BetterOf, Best, FullEntry

(* f gives the best match among the first entries of s. *)
Searching(prefix, s, f) ==
    /\ f \in [0 .. Len(s) -> Best]
    /\ f[0] = NoMatch
    /\ \A n \in 1 .. Len(s) : f[n] = BetterOf(prefix, f[n - 1], s[n])
    /\ FoldLeft(LAMBDA best, e : BetterOf(prefix, best, e), NoMatch, s) = f[Len(s)]

LEMMA SearchIs ==
    ASSUME NEW prefix, NEW s \in Seq(FullEntry)
    PROVE  \E f : Searching(prefix, s, f)
<1> DEFINE N == Len(s)
           Dom == DOMAIN s
           D == SUBSET Dom
           Right(f, r) == IF r = {} THEN NoMatch
                          ELSE BetterOf(prefix, f[r \ {Max(r)}], s[Max(r)])
           rank == [r \in D |-> Cardinality(r)]
           body == [f \in [D -> Best] |-> [r \in D |-> Right(f, r)]]
<1>1. NoMatch \in Best
  BY DEF NoMatch, Best
<1>2. N \in Nat /\ Dom = 1 .. N /\ IsFiniteSet(Dom) /\ Cardinality(Dom) = N
  <2>1. Dom = 1 .. N /\ N \in Nat
    OBVIOUS
  <2> QED
    BY <2>1, FS_Interval
<1>3. ASSUME NEW r \in D
      PROVE  IsFiniteSet(r) /\ Cardinality(r) \in Nat /\ Cardinality(r) < N + 1
  BY <1>2, FS_Subset, FS_CardinalityType
<1>4. ASSUME NEW r \in D, r # {} PROVE Max(r) \in r /\ \A x \in r : Max(r) >= x
  <2>1. r \in SUBSET (0 .. N)
    BY <1>2
  <2>2. \E x \in r : \A y \in r : x >= y
    <3> HIDE DEF N, D
    <3> QED
      BY <1>2, <1>4, <2>1, GreatestExists
  <2> QED
    BY <2>2, Zenon DEF Max
<1>5. ASSUME NEW r \in D, r # {}
      PROVE  r \ {Max(r)} \in D /\ rank[r \ {Max(r)}] < rank[r] /\ s[Max(r)] \in FullEntry
  <2>1. PICK x \in r : x = Max(r)
    BY <1>4, <1>5
  <2>2. Cardinality(r \ {x}) = Cardinality(r) - 1
    BY <1>3, FS_RemoveElement
  <2>3. r \ {x} \in D /\ x \in Dom
    OBVIOUS
  <2> QED
    BY <1>3, <2>1, <2>2, <2>3
<1>6. rank \in [D -> Nat] /\ N + 1 \in Nat /\ \A r \in D : rank[r] < N + 1
  BY <1>2, <1>3
<1>7. ASSUME NEW f \in [D -> Best], NEW r \in D PROVE Right(f, r) \in Best
  <2>1. CASE r = {}
    BY <1>1, <2>1
  <2>2. CASE r # {}
    <3>1. f[r \ {Max(r)}] \in Best /\ s[Max(r)] \in FullEntry
      <4> HIDE DEF D
      <4> QED
        BY <1>5, <2>2
    <3> QED
      BY <2>2, <3>1, BetterOfType
  <2> QED
    BY <2>1, <2>2
<1>8. body \in [[D -> Best] -> [D -> Best]]
  <2> HIDE DEF D, Right
  <2> QED
    BY <1>7
<1>9. \A f, g \in [D -> Best] : \A r \in D :
        (\A q \in D : rank[q] < rank[r] => f[q] = g[q]) => body[f][r] = body[g][r]
  <2> TAKE f, g \in [D -> Best]
  <2> TAKE r \in D
  <2> HAVE \A q \in D : rank[q] < rank[r] => f[q] = g[q]
  <2>1. r # {} => f[r \ {Max(r)}] = g[r \ {Max(r)}]
    <3> HIDE DEF D, rank
    <3> QED
      BY <1>5
  <2>2. Right(f, r) = Right(g, r)
    BY <2>1
  <2> HIDE DEF D, Right
  <2> QED
    BY <2>2
<1>10. PICK f \in [D -> Best] : f = body[f]
  <2>1. Best # {}
    BY <1>1
  <2> DEFINE M == N + 1
  <2>2. M \in Nat /\ \A r \in D : rank[r] < M
    BY <1>6
  <2> HIDE DEF D, rank, body, M
  <2>3. Recursion(D, Best, rank, M, body)
    BY <1>6, <1>8, <1>9, <2>1, <2>2 DEF Recursion
  <2> QED
    BY <2>3, RecursionExists
<1>11. f = [r \in D |-> Right(f, r)]
  <2> HIDE DEF D, Right
  <2> QED
    BY <1>10
<1>12. PICK h : /\ h = [r \in D |-> Right(h, r)]
                /\ FoldLeft(LAMBDA best, e : BetterOf(prefix, best, e), NoMatch, s) = h[Dom]
  <2> DEFINE h == CHOOSE h : h = [r \in D |-> Right(h, r)]
  <2>1. h = [r \in D |-> Right(h, r)]
    BY <1>11, Zenon
  <2>2. FoldLeft(LAMBDA best, e : BetterOf(prefix, best, e), NoMatch, s) = h[Dom]
    BY Zenon DEF FoldLeft, MapThenFoldSet
  <2> QED
    BY <2>1, <2>2
<1>13. \A r \in D : h[r] = Right(h, r)
  <2> HIDE DEF D, Right
  <2> QED
    BY <1>12
<1> DEFINE g == [n \in 0 .. N |-> h[1 .. n]]
<1>14. h[{}] = NoMatch
  <2>1. {} \in D
    OBVIOUS
  <2> HIDE DEF D
  <2> QED
    BY <1>13, <2>1
<1>15. ASSUME NEW n \in 1 .. N PROVE h[1 .. n] = BetterOf(prefix, h[1 .. n - 1], s[n])
  <2>1. 1 .. n \in D /\ 1 .. n # {} /\ (1 .. n) \ {n} = 1 .. n - 1
    <3>1. n \in Nat \ {0} /\ n <= N
      BY <1>2
    <3>2. 1 .. n \subseteq Dom
      <4> HIDE DEF N
      <4> QED
        BY <1>2, <3>1
    <3>3. 1 \in 1 .. n
      BY <3>1
    <3>4. \A x : x \in (1 .. n) \ {n} <=> x \in 1 .. n - 1
      BY <3>1
    <3>5. (1 .. n) \ {n} = 1 .. n - 1
      BY ONLY <3>4
    <3> QED
      BY <3>2, <3>3, <3>5
  <2>2. Max(1 .. n) = n
    <3>1. Max(1 .. n) \in 1 .. n /\ \A x \in 1 .. n : Max(1 .. n) >= x
      <4> HIDE DEF D
      <4> QED
        BY <1>4, <2>1
    <3>2. n \in 1 .. n
      OBVIOUS
    <3> QED
      BY <3>1, <3>2
  <2> HIDE DEF D
  <2> QED
    BY <1>13, <2>1, <2>2
<1>16. g[0] = NoMatch /\ \A n \in 1 .. N : g[n] = BetterOf(prefix, g[n - 1], s[n])
  <2>1. 1 .. 0 = {} /\ 0 \in 0 .. N
    BY <1>2
  <2>2. \A n \in 1 .. N : n \in 0 .. N /\ n - 1 \in 0 .. N
    BY <1>2
  <2> QED
    BY <1>14, <1>15, <2>1, <2>2
<1>17. 0 .. N \subseteq {n \in 0 .. N : g[n] \in Best}
  <2> DEFINE Good == {n \in 0 .. N : g[n] \in Best}
  <2>1. 0 \in Good
    BY <1>1, <1>2, <1>16
  <2>2. ASSUME NEW n \in 1 .. N, n - 1 \in Good PROVE n \in Good
    <3>1. n \in 0 .. N /\ s[n] \in FullEntry /\ g[n - 1] \in Best
      BY <1>2, <2>2
    <3> HIDE DEF g
    <3> QED
      BY <1>16, <3>1, BetterOfType
  <2>3. \A n \in 1 .. N : n - 1 \in Good => n \in Good
    <3> HIDE DEF Good
    <3> QED
      BY <2>2
  <2> HIDE DEF Good
  <2> QED
    BY <1>2, <2>1, <2>3, UpTo DEF Good
<1>18. g \in [0 .. N -> Best]
  BY <1>17
<1>19. FoldLeft(LAMBDA best, e : BetterOf(prefix, best, e), NoMatch, s) = g[N]
  <2>1. N \in 0 .. N
    BY <1>2
  <2>2. g[N] = h[1 .. N]
    BY <2>1
  <2> QED
    BY <1>2, <1>12, <2>2, Zenon
<1>20. Searching(prefix, s, g)
  <2> HIDE DEF g
  <2> QED
    BY <1>16, <1>18, <1>19 DEF Searching
<1> QED
  BY <1>20

(* What a search finds: nothing, or the first of the shortest.              *)
Found(prefix, s) == FoldLeft(LAMBDA best, e : BetterOf(prefix, best, e), NoMatch, s)
Candidate(prefix, e) == IsPrefix(prefix, e.key)
IsShortest(prefix, s, x) ==
    /\ Candidate(prefix, s[x])
    /\ \A y \in DOMAIN s : Candidate(prefix, s[y]) => ComesFirst(s[x], x, s[y], y)

LEMMA SearchFinds ==
    ASSUME NEW prefix, Len(prefix) \in Nat, NEW s \in Seq(FullEntry),
           \A x, y \in DOMAIN s : s[x].key = s[y].key => s[x] = s[y]
    PROVE  \/ Found(prefix, s).value = NoValue /\ \A x \in DOMAIN s : ~Candidate(prefix, s[x])
           \/ \E x \in DOMAIN s : IsShortest(prefix, s, x) /\ Found(prefix, s).value = s[x].value
<1>1. PICK N \in Nat : N = Len(s) /\ DOMAIN s = 1 .. N
  OBVIOUS
<1>2. PICK f : Searching(prefix, s, f)
  BY SearchIs
<1>3. /\ f[0] = NoMatch /\ \A n \in 0 .. N : f[n] \in Best
      /\ \A n \in 1 .. N : f[n] = BetterOf(prefix, f[n - 1], s[n])
      /\ Found(prefix, s) = f[N]
  BY <1>1, <1>2, Zenon DEF Searching, Found
<1> DEFINE None(n) == f[n].value = NoValue /\ \A x \in 1 .. n : ~Candidate(prefix, s[x])
           One(n, x) == /\ Candidate(prefix, s[x])
                        /\ f[n].value = s[x].value /\ f[n].len = Len(s[x].key)
                        /\ \A y \in 1 .. n : Candidate(prefix, s[y])
                                             => ComesFirst(s[x], x, s[y], y)
           Good == {n \in 0 .. N : None(n) \/ \E x \in 1 .. n : One(n, x)}
<1>4. 0 \in Good
  BY <1>3 DEF NoMatch
<1>5. ASSUME NEW n \in 1 .. N, n - 1 \in Good PROVE n \in Good
  <2>1. PICK e \in FullEntry : e = s[n]
    BY <1>1
  <2>2. PICK m \in 0 .. N : m = n - 1 /\ 1 .. n = 1 .. m \cup {n}
    OBVIOUS
  <2>3. PICK b \in Best : b = f[m]
    BY <1>3, <2>2
  <2>4. f[n] = BetterOf(prefix, b, e)
    BY <1>3, <2>1, <2>2, <2>3
  <2>5. /\ Len(e.key) \in Nat /\ e.value # NoValue
        /\ \A x \in 1 .. N : Len(s[x].key) \in Nat /\ s[x].value # NoValue
        /\ \A x \in 1 .. N : Candidate(prefix, s[x]) => Len(prefix) <= Len(s[x].key)
        /\ Candidate(prefix, e) => Len(prefix) <= Len(e.key)
    <3>1. ASSUME NEW d \in FullEntry PROVE Len(d.key) \in Nat /\ d.value # NoValue
      BY PrefixMapAssumption, KeyLength DEF FullEntry
    <3>2. \A d : Candidate(prefix, d) => Len(prefix) <= Len(d.key)
      BY DEF Candidate, IsPrefix
    <3>3. \A x \in 1 .. N : s[x] \in FullEntry
      BY <1>1
    <3> QED
      BY <3>1, <3>2, <3>3
  <2>6. m \in Good
    BY <1>5, <2>2
  <2>7. n \in 0 .. N
    BY <1>1
  <2>8. CASE ~Candidate(prefix, e)
    <3>1. f[n] = b
      BY <2>4, <2>8 DEF BetterOf, Better, Candidate
    <3>2. CASE None(m)
      BY <2>1, <2>2, <2>3, <2>7, <2>8, <3>1, <3>2
    <3>3. CASE \E x \in 1 .. m : One(m, x)
      <4>1. PICK x \in 1 .. m : One(m, x)
        BY <3>3
      <4>2. x \in 1 .. n /\ One(n, x)
        BY <2>1, <2>2, <2>3, <2>8, <3>1, <4>1
      <4> HIDE DEF None, One
      <4> QED
        BY <2>7, <4>2
    <3> QED
      BY <2>6, <3>2, <3>3
  <2>9. CASE Candidate(prefix, e)
    <3>1. CASE None(m)
      <4>1. f[n] = [value |-> e.value, len |-> Len(e.key)]
        BY <2>3, <2>4, <2>9, <3>1 DEF BetterOf, Better, Candidate
      <4>2. n \in 1 .. n /\ One(n, n)
        <5>1. ASSUME NEW y \in 1 .. n, Candidate(prefix, s[y])
              PROVE  ComesFirst(s[n], n, s[y], y)
          <6>1. y = n
            BY <2>2, <3>1, <5>1
          <6> QED
            BY <2>1, <2>5, <6>1 DEF ComesFirst
        <5>2. Candidate(prefix, s[n]) /\ f[n].value = s[n].value /\ f[n].len = Len(s[n].key)
          BY <2>1, <2>9, <4>1
        <5> QED
          BY <2>2, <5>1, <5>2
      <4> HIDE DEF None, One
      <4> QED
        BY <2>7, <4>2
    <3>2. CASE \E x \in 1 .. m : One(m, x)
      <4>1. PICK x \in 1 .. m : One(m, x)
        BY <3>2
      <4>2. x \in 1 .. N /\ x \in 1 .. n
        BY <2>2
      <4>3. b.value # NoValue /\ b.len = Len(s[x].key)
        BY <2>3, <2>5, <4>1, <4>2
      <4>4. Len(s[x].key) \in Nat /\ Len(e.key) \in Nat /\ n \in Nat /\ m \in Nat /\ x \in Nat
        BY <2>2, <2>5, <4>2
      <4>5. CASE b.len > Len(e.key)
        <5>1. f[n].value = e.value /\ f[n].len = Len(e.key)
          BY <2>4, <2>9, <4>5 DEF BetterOf, Better, Candidate
        <5>2. Len(e.key) < Len(s[x].key)
          BY <4>3, <4>4, <4>5
        <5>3. ASSUME NEW y \in 1 .. n, Candidate(prefix, s[y])
              PROVE  ComesFirst(e, n, s[y], y)
          <6>1. CASE y = n
            BY <2>1, <6>1 DEF ComesFirst
          <6>2. CASE y \in 1 .. m
            <7>1. ComesFirst(s[x], x, s[y], y)
              BY <4>1, <5>3, <6>2
            <7>2. Len(s[y].key) \in Nat
              BY <2>2, <2>5, <6>2
            <7> QED
              BY <4>4, <5>2, <7>1, <7>2 DEF ComesFirst
          <6> QED
            BY <2>2, <6>1, <6>2
        <5>4. n \in 1 .. n /\ One(n, n)
          <6>1. \A y \in 1 .. n : Candidate(prefix, s[y]) => ComesFirst(s[n], n, s[y], y)
            BY <2>1, <5>3
          <6>2. Candidate(prefix, s[n]) /\ f[n].value = s[n].value /\ f[n].len = Len(s[n].key)
            BY <2>1, <2>9, <5>1
          <6> QED
            BY <4>4, <6>1, <6>2
        <5> HIDE DEF None, One
        <5> QED
          BY <2>7, <5>4
      <4>6. CASE ~(b.len > Len(e.key))
        <5>1. f[n].value = s[x].value /\ f[n].len = Len(s[x].key)
          <6>1. CASE Len(e.key) = Len(prefix)
            <7>1. Len(s[x].key) = Len(prefix)
              <8>1. Candidate(prefix, s[x])
                BY <4>1
              <8>2. Len(prefix) <= Len(s[x].key)
                BY <2>5, <4>2, <8>1
              <8> QED
                BY <4>3, <4>4, <4>6, <6>1, <8>2
            <7>2. s[x].key = e.key
              <8>1. IsPrefix(prefix, s[x].key) /\ IsPrefix(prefix, e.key)
                BY <2>9, <4>1 DEF Candidate
              <8>2. e.key \in Seq(STRING) /\ s[x].key \in Seq(STRING)
                <9>1. s[x] \in FullEntry
                  BY <1>1, <4>2
                <9> QED
                  BY <9>1, PrefixMapAssumption DEF FullEntry
              <8>3. SubSeq(e.key, 1, Len(e.key)) = SubSeq(s[x].key, 1, Len(s[x].key))
                BY <6>1, <7>1, <8>1 DEF IsPrefix
              <8>4. SubSeq(e.key, 1, Len(e.key)) = e.key
                BY <8>2
              <8>5. SubSeq(s[x].key, 1, Len(s[x].key)) = s[x].key
                BY <8>2
              <8> QED
                BY ONLY <8>3, <8>4, <8>5
            <7>3. s[x] = e
              BY <1>1, <2>1, <4>2, <7>2
            <7>4. f[n] = b \/ f[n] = [value |-> e.value, len |-> Len(e.key)]
              BY <2>4 DEF BetterOf
            <7> QED
              BY <2>3, <4>1, <7>3, <7>4
          <6>2. CASE Len(e.key) # Len(prefix)
            <7>1. f[n] = b
              BY <2>4, <4>3, <4>6, <6>2 DEF BetterOf, Better
            <7> QED
              BY <2>3, <4>1, <7>1
          <6> QED
            BY <6>1, <6>2
        <5>2. ComesFirst(s[x], x, e, n)
          <6>1. Len(s[x].key) <= Len(e.key) /\ x <= n
            BY <2>2, <4>2, <4>3, <4>4, <4>6
          <6> QED
            BY <4>4, <6>1 DEF ComesFirst
        <5>3. ASSUME NEW y \in 1 .. n, Candidate(prefix, s[y])
              PROVE  ComesFirst(s[x], x, s[y], y)
          <6>1. CASE y = n
            BY <2>1, <5>2, <6>1
          <6>2. CASE y \in 1 .. m
            BY <4>1, <5>3, <6>2
          <6> QED
            BY <2>2, <6>1, <6>2
        <5>4. One(n, x)
          BY <4>1, <5>1, <5>3
        <5> HIDE DEF None, One
        <5> QED
          BY <2>7, <4>2, <5>4
      <4> QED
        BY <4>5, <4>6
    <3> QED
      BY <2>6, <3>1, <3>2
  <2> QED
    BY <2>8, <2>9
<1>6. N \in Good
  <2>1. \A n \in 1 .. N : n - 1 \in Good => n \in Good
    <3> HIDE DEF Good
    <3> QED
      BY <1>5
  <2>2. 0 .. N \subseteq Good
    <3> HIDE DEF Good
    <3> QED
      BY <1>4, <2>1, UpTo
  <2>3. N \in 0 .. N
    BY ONLY N \in Nat
  <2> HIDE DEF Good
  <2> QED
    BY <2>2, <2>3
<1>7. CASE None(N)
  BY <1>1, <1>3, <1>7
<1>8. CASE \E x \in 1 .. N : One(N, x)
  <2>1. PICK x \in 1 .. N : One(N, x)
    BY <1>8
  <2>2. IsShortest(prefix, s, x) /\ Found(prefix, s).value = s[x].value
    BY <1>1, <1>3, <2>1 DEF IsShortest
  <2> QED
    BY <1>1, <2>2
<1> QED
  BY <1>6, <1>7, <1>8

(* prefix_map_find_prefix prefers an exact match, then a shorter key, then  *)
(* the one that comes first in the order of the chains.                     *)
THEOREM PrefersShorter == Spec => []FindPrefixShortest
<1>1. ASSUME TypeOK, KeysFindable PROVE FindPrefixShortest
  <2> DEFINE Full == NothingNull
  <2>1. ASSUME Full PROVE buckets \in Seq(Seq(FullEntry)) /\ buckets # <<>> /\ DOMAIN buckets = Bucket
    <3>1. buckets \in [1 .. Buckets -> Seq(Entry)] /\ Buckets \in Nat \ {0}
      BY <1>1, PrefixMapAssumption DEF TypeOK, Bucket
    <3>2. ASSUME NEW b \in 1 .. Buckets PROVE buckets[b] \in Seq(FullEntry)
      <4>1. buckets[b] \in Seq(Entry)
        BY <3>1
      <4>2. ASSUME NEW x \in DOMAIN buckets[b] PROVE buckets[b][x] \in FullEntry
        <5>1. <<b, x>> \in Places
          BY PlacesAre, <3>2 DEF Bucket
        <5>2. buckets[b][x].key # NoKey /\ buckets[b][x].value # NoValue
          BY <2>1, <5>1 DEF At, NothingNull
        <5>3. buckets[b][x] \in Entry
          BY <4>1
        <5> QED
          BY <5>2, <5>3 DEF Entry, FullEntry
      <4>3. Len(buckets[b]) \in Nat /\ DOMAIN buckets[b] = 1 .. Len(buckets[b])
            /\ buckets[b] = [x \in 1 .. Len(buckets[b]) |-> buckets[b][x]]
        BY <4>1
      <4>4. buckets[b] \in [1 .. Len(buckets[b]) -> FullEntry]
        BY <4>2, <4>3
      <4> QED
        BY <4>3, <4>4
    <3>3. buckets \in [1 .. Buckets -> Seq(FullEntry)]
      BY <3>1, <3>2
    <3>4. buckets \in Seq(Seq(FullEntry)) /\ Len(buckets) = Buckets
      BY <3>1, <3>3
    <3> QED
      BY <3>1, <3>3, <3>4 DEF Bucket
  <2>2. ASSUME Full, NEW k \in Keys, NEW n \in 0 .. Len(k), NEW prefix, prefix = SubSeq(k, 1, n)
        PROVE  LET matching == Matching(prefix, AllEntries)
               IN  IF matching = {} THEN FindPrefix(prefix) = NoValue
                   ELSE \E x \in matching :
                          /\ FindPrefix(prefix) = AllEntries[x].value
                          /\ \A y \in matching :
                                ComesFirst(AllEntries[x], x, AllEntries[y], y)
    <3>1. PICK s : s = AllEntries
      OBVIOUS
    <3>2. /\ s \in Seq(FullEntry)
          /\ \A e : (\E y \in DOMAIN s : s[y] = e)
                    <=> \E b \in Bucket : \E x \in DOMAIN buckets[b] : buckets[b][x] = e
      <4>1. buckets \in Seq(Seq(FullEntry)) /\ buckets # <<>> /\ DOMAIN buckets = Bucket
        BY <2>1, <2>2
      <4>2. s = FlattenSeq(buckets)
        BY <3>1 DEF AllEntries
      <4>3. s \in Seq(FullEntry)
        BY <4>1, <4>2, FlattenType
      <4>4. ASSUME NEW e
            PROVE  (\E y \in DOMAIN s : s[y] = e)
                   <=> \E b \in Bucket : \E x \in DOMAIN buckets[b] : buckets[b][x] = e
        <5>1. (\E y \in DOMAIN FlattenSeq(buckets) : FlattenSeq(buckets)[y] = e)
              <=> \E b \in DOMAIN buckets : \E x \in DOMAIN buckets[b] : buckets[b][x] = e
          <6>1. Within(e, FlattenSeq(buckets)) <=> \E b \in DOMAIN buckets : Within(e, buckets[b])
            BY <4>1, FlattenHolds
          <6> QED
            BY <6>1 DEF Within
        <5> QED
          BY <4>1, <4>2, <5>1
      <4> QED
        BY <4>3, <4>4
    <3>4. \A y \in DOMAIN s : \E p \in Places : At(p) = s[y]
      <4> SUFFICES ASSUME NEW y \in DOMAIN s PROVE \E p \in Places : At(p) = s[y]
        OBVIOUS
      <4>0. PICK b \in Bucket : \E x \in DOMAIN buckets[b] : buckets[b][x] = s[y]
        BY <3>2
      <4>1. PICK x \in DOMAIN buckets[b] : buckets[b][x] = s[y]
        BY <4>0
      <4>2. <<b, x>> \in Places /\ At(<<b, x>>) = s[y]
        BY <4>1, PlacesAre DEF At
      <4> QED
        BY <4>2
    <3>5. Len(prefix) \in Nat
      <4>1. k \in Seq(STRING)
        BY PrefixMapAssumption
      <4> QED
        BY <2>2, <4>1
    <3>6. FindPrefix(prefix) = Found(prefix, s).value
      BY <3>1, Zenon DEF FindPrefix, Found
    <3>9. \A x, y \in DOMAIN s : s[x].key = s[y].key => s[x] = s[y]
      <4> SUFFICES ASSUME NEW x \in DOMAIN s, NEW y \in DOMAIN s, s[x].key = s[y].key
                   PROVE  s[x] = s[y]
        OBVIOUS
      <4>1. PICK p \in Places : At(p) = s[x]
        BY <3>4
      <4>2. PICK q \in Places : At(q) = s[y]
        BY <3>4
      <4>3. At(p).key # NoKey
        BY <2>2 DEF NothingNull
      <4>4. p = q
        BY <1>1, <4>1, <4>2, <4>3 DEF KeysFindable
      <4> QED
        BY <4>1, <4>2, <4>4
    <3>10. Matching(prefix, s) = {x \in DOMAIN s : Candidate(prefix, s[x])}
      BY DEF Matching, Candidate
    <3>7. CASE Found(prefix, s).value = NoValue /\ \A x \in DOMAIN s : ~Candidate(prefix, s[x])
      <4>1. Matching(prefix, s) = {}
        BY <3>7, <3>10
      <4> QED
        BY <3>1, <3>6, <3>7, <4>1
    <3>8. ASSUME NEW x \in DOMAIN s, IsShortest(prefix, s, x), Found(prefix, s).value = s[x].value
          PROVE  /\ x \in Matching(prefix, s) /\ FindPrefix(prefix) = s[x].value
                 /\ \A y \in Matching(prefix, s) : ComesFirst(s[x], x, s[y], y)
      BY <3>6, <3>8, <3>10 DEF IsShortest
    <3>11. ASSUME NEW x \in DOMAIN s, IsShortest(prefix, s, x), Found(prefix, s).value = s[x].value
           PROVE  LET matching == Matching(prefix, AllEntries)
                  IN  IF matching = {} THEN FindPrefix(prefix) = NoValue
                      ELSE \E z \in matching :
                             /\ FindPrefix(prefix) = AllEntries[z].value
                             /\ \A y \in matching :
                                   ComesFirst(AllEntries[z], z, AllEntries[y], y)
      BY <3>1, <3>8, <3>11
    <3> QED
      BY <3>2, <3>5, <3>7, <3>9, <3>11, SearchFinds
  <2> QED
    BY <2>2 DEF FindPrefixShortest
<1> QED
  BY <1>1, TypeCorrect, Findable, PTL
=============================================================================
