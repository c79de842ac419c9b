----------------------- MODULE StringConversionProofs -----------------------
(***************************************************************************)
(* Proofs about the conversion cache, for any number of threads and any    *)
(* capacity: map and list stay consistent, the cache is a RecencyStore,    *)
(* and the answers are right when strings are not used in two roles.  What *)
(* insert and get keep is proved first, for each of them alone.            *)
(***************************************************************************)
EXTENDS StringConversion, TLAPS, FiniteSetTheorems, SequenceTheorems

-----------------------------------------------------------------------------
(* One operation of the cache.                                             *)


Elements == [node : ListNodes, key : Keys]

(* A list and a map that describe each other.  Erasing and pushing are one *)
(* after the other in the code, so this is about any list and map.         *)
NodesApart(list) ==
    \A i, j \in DOMAIN list : list[i].node = list[j].node => i = j

Linked(list, entries) ==
    /\ \A i \in DOMAIN list : /\ list[i].key \in DOMAIN entries
                              /\ entries[list[i].key].it = list[i].node
    /\ \A k \in DOMAIN entries : \E i \in DOMAIN list : list[i].key = k

Matches(list, entries) ==
    /\ list \in Seq(Elements)
    /\ DOMAIN entries \subseteq Keys
    /\ \A k \in DOMAIN entries : entries[k] \in [value : Values, it : ListNodes]
    /\ IsFiniteSet(DOMAIN entries)
    /\ Len(list) = Cardinality(DOMAIN entries)
    /\ NodesApart(list)
    /\ Linked(list, entries)

CacheInv == Matches(m_list, m_map) /\ Len(m_list) <= Capacity

-----------------------------------------------------------------------------
(* A sequence without the element at a place.                              *)
LEMMA RemoveAtElements ==
    ASSUME NEW S, NEW seq \in Seq(S), NEW i \in 1 .. Len(seq)
    PROVE  /\ RemoveAt(seq, i) \in Seq(S)
           /\ Len(RemoveAt(seq, i)) = Len(seq) - 1
           /\ \A j \in 1 .. i - 1 : RemoveAt(seq, i)[j] = seq[j]
           /\ \A j \in i .. Len(seq) - 1 : RemoveAt(seq, i)[j] = seq[j + 1]
<1>. DEFINE front == SubSeq(seq, 1, i - 1)
            back == SubSeq(seq, i + 1, Len(seq))
<1>1. front \in Seq(S) /\ Len(front) = i - 1 /\ \A j \in 1 .. i - 1 : front[j] = seq[j]
  BY SubSeqProperties
<1>2. /\ back \in Seq(S) /\ Len(back) = Len(seq) - i
      /\ \A j \in 1 .. Len(seq) - i : back[j] = seq[i + j]
  BY SubSeqProperties
<1>3. RemoveAt(seq, i) = front \o back
  BY DEF RemoveAt
<1>. HIDE DEF front, back
<1>4. /\ front \o back \in Seq(S)
      /\ Len(front \o back) = Len(seq) - 1
      /\ \A j \in 1 .. Len(seq) - 1 :
           (front \o back)[j] = IF j <= i - 1 THEN front[j] ELSE back[j - (i - 1)]
  BY <1>1, <1>2, ConcatProperties
<1>5. ASSUME NEW j \in i .. Len(seq) - 1 PROVE (front \o back)[j] = seq[j + 1]
  <2>1. j - (i - 1) \in 1 .. Len(seq) - i /\ i + (j - (i - 1)) = j + 1
    OBVIOUS
  <2>. QED  BY <1>2, <1>4, <2>1
<1>. QED  BY <1>1, <1>3, <1>4, <1>5

(* An element that is removed from the front and put back there.           *)
LEMMA FrontBack ==
    ASSUME NEW S, NEW seq \in Seq(S), 1 <= Len(seq)
    PROVE  <<seq[1]>> \o RemoveAt(seq, 1) = seq
<1>. DEFINE back == RemoveAt(seq, 1)
<1>1. Len(seq) \in Nat /\ seq[1] \in S
  OBVIOUS
<1>2. /\ back \in Seq(S) /\ Len(back) = Len(seq) - 1
      /\ \A j \in 1 .. Len(seq) - 1 : back[j] = seq[j + 1]
  <2>. DEFINE i == 1
  <2>1. i \in 1 .. Len(seq)
    BY <1>1
  <2>. HIDE DEF i
  <2>2. /\ RemoveAt(seq, i) \in Seq(S) /\ Len(RemoveAt(seq, i)) = Len(seq) - 1
        /\ \A j \in i .. Len(seq) - 1 : RemoveAt(seq, i)[j] = seq[j + 1]
    BY <2>1, RemoveAtElements
  <2>. QED  BY <2>2 DEF i
<1>. HIDE DEF back
<1>3. <<seq[1]>> \in Seq(S) /\ Len(<<seq[1]>>) = 1
  BY <1>1
<1>4. /\ <<seq[1]>> \o back \in Seq(S) /\ Len(<<seq[1]>> \o back) = Len(seq)
      /\ \A j \in 1 .. Len(seq) :
           (<<seq[1]>> \o back)[j] = IF j <= 1 THEN seq[1] ELSE back[j - 1]
  BY <1>1, <1>2, <1>3, ConcatProperties
<1>5. \A j \in 2 .. Len(seq) : back[j - 1] = seq[j]
  <2>1. \A j \in 2 .. Len(seq) : j - 1 \in 1 .. Len(seq) - 1 /\ (j - 1) + 1 = j
    BY <1>1
  <2>. QED  BY <1>2, <2>1
<1>6. \A j \in 1 .. Len(seq) : (<<seq[1]>> \o back)[j] = seq[j]
  BY <1>1, <1>4, <1>5
<1>7. <<seq[1]>> \o back = seq
  BY <1>4, <1>6, SeqEqual
<1>. QED  BY <1>7 DEF back

(* The first element of its kind is the only one.                          *)
LEMMA RemoveOnly ==
    ASSUME NEW S, NEW seq \in Seq(S), NEW i \in 1 .. Len(seq),
           \A j \in 1 .. Len(seq) : seq[j] = seq[i] => j = i
    PROVE  RemoveFirst(seq, seq[i]) = RemoveAt(seq, i)
<1>1. {j \in 1 .. Len(seq) : seq[j] = seq[i]} = {i}
  OBVIOUS
<1>2. Min({i}) = i
  BY DEF Min
<1>. QED  BY <1>1, <1>2 DEF RemoveFirst, SelectInSeq

(* list.erase(it), with an iterator of the list.                           *)
LEMMA EraseAt ==
    ASSUME NEW list \in Seq(Elements), NodesApart(list), NEW i \in DOMAIN list
    PROVE  Erase(list, list[i].node) = RemoveAt(list, i)
<1>1. {j \in 1 .. Len(list) : list[j].node = list[i].node} = {i}
  BY DEF NodesApart
<1>2. Min({i}) = i
  BY DEF Min
<1>. QED  BY <1>1, <1>2 DEF Erase, RemoveFirstMatch, SelectInSeq

(* list.push_front.                                                        *)
LEMMA PushFrontElements ==
    ASSUME NEW list \in Seq(Elements), NEW n \in ListNodes, NEW k \in Keys
    PROVE  /\ PushFront(list, n, k) \in Seq(Elements)
           /\ Len(PushFront(list, n, k)) = Len(list) + 1
           /\ PushFront(list, n, k)[1] = [node |-> n, key |-> k]
           /\ \A j \in 2 .. Len(list) + 1 : PushFront(list, n, k)[j] = list[j - 1]
<1>. DEFINE e == [node |-> n, key |-> k]
<1>1. e \in Elements
  BY DEF Elements
<1>2. PushFront(list, n, k) = <<e>> \o list
  BY DEF PushFront
<1>. HIDE DEF e
<1>3. <<e>> \in Seq(Elements) /\ Len(<<e>>) = 1 /\ <<e>>[1] = e
  BY <1>1
<1>4. /\ <<e>> \o list \in Seq(Elements)
      /\ Len(<<e>> \o list) = Len(list) + 1
      /\ \A j \in 1 .. Len(list) + 1 :
           (<<e>> \o list)[j] = IF j <= 1 THEN <<e>>[j] ELSE list[j - 1]
  BY <1>3, ConcatProperties
<1>. QED  BY <1>2, <1>3, <1>4 DEF e

-----------------------------------------------------------------------------
(* An element and its key go together.                                     *)
LEMMA EraseMatches ==
    ASSUME NEW list, NEW entries, Matches(list, entries), NEW i \in DOMAIN list
    PROVE  /\ Matches(RemoveAt(list, i), Without(entries, list[i].key))
           /\ Len(RemoveAt(list, i)) = Len(list) - 1
<1>. DEFINE l == RemoveAt(list, i)
            k == list[i].key
            m == Without(entries, k)
            from(j) == IF j < i THEN j ELSE j + 1
<1>1. list \in Seq(Elements) /\ i \in 1 .. Len(list) /\ Len(list) \in Nat
  BY DEF Matches
<1>2. l \in Seq(Elements) /\ Len(l) = Len(list) - 1
  BY <1>1, RemoveAtElements
<1>3. \A j \in DOMAIN l : from(j) \in DOMAIN list /\ from(j) # i /\ l[j] = list[from(j)]
  <2>1. /\ \A j \in 1 .. i - 1 : l[j] = list[j]
        /\ \A j \in i .. Len(list) - 1 : l[j] = list[j + 1]
    BY <1>1, RemoveAtElements
  <2>. HIDE DEF l
  <2>2. DOMAIN l = 1 .. Len(list) - 1 /\ DOMAIN list = 1 .. Len(list)
    BY <1>1, <1>2
  <2>. QED  BY <1>1, <2>1, <2>2
<1>4. /\ DOMAIN m = DOMAIN entries \ {k}
      /\ \A x \in DOMAIN m : m[x] = entries[x]
  BY DEF Without
<1>. HIDE DEF l, m
<1>5. NodesApart(l)
  <2>. SUFFICES ASSUME NEW a \in DOMAIN l, NEW b \in DOMAIN l, l[a].node = l[b].node
                PROVE  a = b
    BY DEF NodesApart
  <2>1. from(a) = from(b)
    BY <1>3 DEF Matches, NodesApart
  <2>2. a \in Nat /\ b \in Nat
    BY <1>2
  <2>. QED  BY <1>1, <2>1, <2>2
<1>6. \A j \in DOMAIN list : list[j].key = k => j = i
  BY DEF Matches, Linked, NodesApart
<1>7. \A j \in DOMAIN l : l[j].key \in DOMAIN m /\ m[l[j].key].it = l[j].node
  <2>. SUFFICES ASSUME NEW j \in DOMAIN l
                PROVE  l[j].key \in DOMAIN m /\ m[l[j].key].it = l[j].node
    OBVIOUS
  <2>1. l[j] = list[from(j)] /\ from(j) \in DOMAIN list /\ from(j) # i
    BY <1>3
  <2>. HIDE DEF from
  <2>. QED  BY <2>1, <1>4, <1>6 DEF Matches, Linked
<1>8. ASSUME NEW x \in DOMAIN m PROVE \E j \in DOMAIN l : l[j].key = x
  <2>1. PICK y \in DOMAIN list : list[y].key = x
    BY <1>4 DEF Matches, Linked
  <2>2. y # i /\ y \in 1 .. Len(list)
    BY <2>1, <1>1, <1>4
  <2>3. CASE y < i
    <3>1. y \in 1 .. i - 1 /\ y \in DOMAIN l
      BY <2>2, <2>3, <1>1, <1>2
    <3>. QED  BY <3>1, <2>1, <1>1, RemoveAtElements DEF l
  <2>4. CASE i < y
    <3>1. y - 1 \in i .. Len(list) - 1 /\ y - 1 \in DOMAIN l /\ (y - 1) + 1 = y
      BY <2>2, <2>4, <1>1, <1>2
    <3>2. l[y - 1] = list[(y - 1) + 1]
      BY <3>1, <1>1, RemoveAtElements DEF l
    <3>. QED  BY <3>1, <3>2, <2>1
  <2>. QED  BY <1>1, <2>2, <2>3, <2>4
<1>9. IsFiniteSet(DOMAIN m) /\ Cardinality(DOMAIN m) = Cardinality(DOMAIN entries) - 1
  <2>1. k \in DOMAIN entries /\ IsFiniteSet(DOMAIN entries)
    BY DEF Matches, Linked
  <2>. QED  BY <2>1, <1>4, FS_RemoveElement
<1>10. /\ DOMAIN m \subseteq Keys
       /\ \A x \in DOMAIN m : m[x] \in [value : Values, it : ListNodes]
  BY <1>4 DEF Matches
<1>11. Len(l) = Cardinality(DOMAIN m)
  BY <1>2, <1>9 DEF Matches
<1>12. Matches(l, m)
  BY <1>2, <1>5, <1>7, <1>8, <1>9, <1>10, <1>11 DEF Matches, Linked
<1>. QED  BY <1>2, <1>12 DEF l, m

(* A new key gets a node that the list does not have.                      *)
LEMMA PushMatches ==
    ASSUME NEW list, NEW entries, Matches(list, entries),
           NEW k \in Keys, k \notin DOMAIN entries, NEW v \in Values, NEW n \in FreeNodes(list)
    PROVE  /\ Matches(PushFront(list, n, k), SetEntry(entries, k, v, n))
           /\ Len(PushFront(list, n, k)) = Len(list) + 1
<1>. DEFINE l == PushFront(list, n, k)
            m == SetEntry(entries, k, v, n)
<1>1. list \in Seq(Elements) /\ Len(list) \in Nat /\ DOMAIN list = 1 .. Len(list)
  BY DEF Matches
<1>2. n \in ListNodes /\ \A j \in DOMAIN list : list[j].node # n
  BY DEF FreeNodes
<1>3. /\ l \in Seq(Elements) /\ Len(l) = Len(list) + 1
      /\ l[1] = [node |-> n, key |-> k]
      /\ \A j \in 2 .. Len(list) + 1 : l[j] = list[j - 1]
  BY <1>1, <1>2, PushFrontElements
<1>4. /\ DOMAIN m = DOMAIN entries \cup {k}
      /\ m[k] = [value |-> v, it |-> n]
      /\ \A x \in DOMAIN entries : m[x] = entries[x]
  BY DEF SetEntry
<1>. HIDE DEF l, m
<1>5. /\ DOMAIN l = 1 .. Len(list) + 1
      /\ \A j \in DOMAIN l : j = 1 \/ (j - 1 \in DOMAIN list /\ l[j] = list[j - 1])
  BY <1>1, <1>3
<1>6. NodesApart(l)
  <2>. SUFFICES ASSUME NEW a \in DOMAIN l, NEW b \in DOMAIN l, l[a].node = l[b].node
                PROVE  a = b
    BY DEF NodesApart
  <2>1. CASE a = 1 \/ b = 1
    BY <2>1, <1>2, <1>3, <1>5
  <2>2. CASE a # 1 /\ b # 1
    <3>1. a - 1 = b - 1
      BY <2>2, <1>5 DEF Matches, NodesApart
    <3>. QED  BY <3>1, <1>1, <1>5
  <2>. QED  BY <2>1, <2>2
<1>7. \A j \in DOMAIN l : l[j].key \in DOMAIN m /\ m[l[j].key].it = l[j].node
  <2>. SUFFICES ASSUME NEW j \in DOMAIN l
                PROVE  l[j].key \in DOMAIN m /\ m[l[j].key].it = l[j].node
    OBVIOUS
  <2>1. CASE j = 1
    BY <2>1, <1>3, <1>4
  <2>2. CASE j # 1
    <3>1. j - 1 \in DOMAIN list /\ l[j] = list[j - 1]
      BY <2>2, <1>5
    <3>. QED  BY <3>1, <1>4 DEF Matches, Linked
  <2>. QED  BY <2>1, <2>2
<1>8. ASSUME NEW x \in DOMAIN m PROVE \E j \in DOMAIN l : l[j].key = x
  <2>1. CASE x = k
    BY <2>1, <1>1, <1>3, <1>5
  <2>2. CASE x # k
    <3>1. PICK j \in DOMAIN list : list[j].key = x
      BY <2>2, <1>4 DEF Matches, Linked
    <3>2. j + 1 \in 2 .. Len(list) + 1 /\ j + 1 \in DOMAIN l /\ (j + 1) - 1 = j
      BY <3>1, <1>1, <1>5
    <3>3. l[j + 1] = list[(j + 1) - 1]
      BY <3>2, <1>3
    <3>. QED  BY <3>1, <3>2, <3>3
  <2>. QED  BY <2>1, <2>2
<1>9. IsFiniteSet(DOMAIN m) /\ Cardinality(DOMAIN m) = Cardinality(DOMAIN entries) + 1
  <2>1. IsFiniteSet(DOMAIN entries)
    BY DEF Matches
  <2>. QED  BY <2>1, <1>4, FS_AddElement
<1>10. /\ DOMAIN m \subseteq Keys
       /\ \A x \in DOMAIN m : m[x] \in [value : Values, it : ListNodes]
  BY <1>2, <1>4 DEF Matches
<1>11. Len(l) = Cardinality(DOMAIN m)
  BY <1>3, <1>9 DEF Matches
<1>12. Matches(l, m)
  BY <1>3, <1>6, <1>7, <1>8, <1>9, <1>10, <1>11 DEF Matches, Linked
<1>. QED  BY <1>3, <1>12 DEF l, m

-----------------------------------------------------------------------------
(* A key that has a list node: the iterator of the key is this node.       *)
LEMMA PlaceOf ==
    ASSUME NEW list, NEW entries, Matches(list, entries), NEW k \in DOMAIN entries
    PROVE  \E i \in DOMAIN list : list[i] = [node |-> entries[k].it, key |-> k]
<1>1. PICK i \in DOMAIN list : list[i].key = k
  BY DEF Matches, Linked
<1>2. list[i] \in Elements /\ entries[k].it = list[i].node
  BY <1>1 DEF Matches, Linked
<1>. QED  BY <1>1, <1>2 DEF Elements

(* What a cache with something in it holds.                                *)
LEMMA VictimPlace ==
    ASSUME CacheInv, Full
    PROVE  /\ Len(m_list) \in DOMAIN m_list
           /\ Victim = m_list[Len(m_list)]
           /\ Len(m_list) = Capacity
BY LRUCacheAssumption DEF CacheInv, Matches, Full, Victim

(* insert, also when it has to evict.                                      *)
LEMMA InsertKeeps ==
    ASSUME CacheInv, NEW k \in Keys, NEW v \in Values, Insert(k, v)
    PROVE  CacheInv'
<1>1. CASE k \in DOMAIN m_map
  BY <1>1 DEF Insert, cacheVars, CacheInv, Matches, NodesApart, Linked
<1>2. CASE k \notin DOMAIN m_map /\ ~Full
  <2>1. PICK n \in FreeNodes(m_list) : /\ m_list' = PushFront(m_list, n, k)
                                       /\ m_map' = SetEntry(m_map, k, v, n)
    BY <1>2 DEF Insert
  <2>2. Len(m_list) < Capacity
    BY <1>2, LRUCacheAssumption DEF CacheInv, Matches, Full
  <2>3. Matches(m_list', m_map') /\ Len(m_list') = Len(m_list) + 1
    BY <1>2, <2>1, PushMatches DEF CacheInv
  <2>4. Len(m_list) \in Nat
    BY DEF CacheInv, Matches
  <2>. QED  BY <2>2, <2>3, <2>4, LRUCacheAssumption DEF CacheInv, Matches, NodesApart, Linked
<1>3. CASE k \notin DOMAIN m_map /\ Full
  <2>. DEFINE last == Len(m_list)
              list == RemoveAt(m_list, last)
              entries == Without(m_map, Victim.key)
  <2>1. last \in DOMAIN m_list /\ Victim = m_list[last] /\ last = Capacity
    BY <1>3, VictimPlace
  <2>2. Erase(m_list, Victim.node) = list
    BY <2>1, EraseAt DEF CacheInv, Matches
  <2>3. Matches(list, entries) /\ Len(list) = last - 1
    BY <2>1, EraseMatches DEF CacheInv
  <2>4. k \notin DOMAIN entries
    BY <1>3 DEF Without
  <2>5. \E n \in FreeNodes(list) : /\ m_list' = PushFront(list, n, k)
                                   /\ m_map' = SetEntry(entries, k, v, n)
    BY <1>3, <2>2 DEF Insert
  <2>. HIDE DEF list, entries
  <2>6. Matches(m_list', m_map') /\ Len(m_list') = last
    <3>1. PICK n \in FreeNodes(list) : /\ m_list' = PushFront(list, n, k)
                                       /\ m_map' = SetEntry(entries, k, v, n)
      BY <2>5
    <3>2. Matches(m_list', m_map') /\ Len(m_list') = Len(list) + 1
      BY <3>1, <2>3, <2>4, PushMatches
    <3>. QED  BY <3>2, <2>1, <2>3, LRUCacheAssumption
  <2>. QED  BY <2>1, <2>6, LRUCacheAssumption DEF CacheInv, Matches, NodesApart, Linked
<1>. QED  BY <1>1, <1>2, <1>3

(* get: the node of the key is freed, and it gets one at the front.        *)
LEMMA HitKeeps ==
    ASSUME CacheInv, NEW k, Hit(k)
    PROVE  CacheInv'
<1>0. k \in DOMAIN m_map /\ k \in Keys
  BY DEF Hit, CacheInv, Matches
<1>1. PICK i \in DOMAIN m_list : m_list[i] = [node |-> m_map[k].it, key |-> k]
  BY <1>0, PlaceOf DEF CacheInv
<1>2. CASE UNCHANGED cacheVars
  BY <1>2 DEF cacheVars, CacheInv, Matches, NodesApart, Linked
<1>3. CASE ~UNCHANGED cacheVars
  <2>. DEFINE list == RemoveAt(m_list, i)
              entries == Without(m_map, k)
              v == m_map[k].value
  <2>1. Erase(m_list, m_map[k].it) = list
    BY <1>1, EraseAt DEF CacheInv, Matches
  <2>2. Matches(list, entries) /\ Len(list) = Len(m_list) - 1
    BY <1>1, EraseMatches DEF CacheInv
  <2>3. k \notin DOMAIN entries /\ v \in Values
    BY <1>0 DEF Without, CacheInv, Matches
  <2>4. PICK n \in FreeNodes(list) : /\ m_list' = PushFront(list, n, k)
                                     /\ m_map' = SetEntry(m_map, k, v, n)
    BY <1>3, <2>1 DEF Hit
  <2>5. SetEntry(m_map, k, v, n) = SetEntry(entries, k, v, n)
    BY <1>0 DEF SetEntry, Without
  <2>. HIDE DEF list, entries, v
  <2>6. Matches(m_list', m_map') /\ Len(m_list') = Len(list) + 1
    BY <1>0, <2>2, <2>3, <2>4, <2>5, PushMatches
  <2>7. Len(m_list) \in Nat
    BY DEF CacheInv, Matches
  <2>. QED  BY <2>2, <2>6, <2>7 DEF CacheInv, Matches, NodesApart, Linked
<1>. QED  BY <1>2, <1>3

(* get leaves every key its value.                                         *)
LEMMA HitValues ==
    ASSUME NEW k, Hit(k)
    PROVE  /\ DOMAIN m_map' = DOMAIN m_map
           /\ \A x \in DOMAIN m_map : m_map'[x].value = m_map[x].value
BY DEF Hit, SetEntry, cacheVars

(* insert gives the value to a new key, and leaves those that stay theirs. *)
LEMMA InsertValues ==
    ASSUME NEW k, NEW v, k \notin DOMAIN m_map, Insert(k, v)
    PROVE  /\ k \in DOMAIN m_map' /\ m_map'[k].value = v
           /\ \A x \in DOMAIN m_map' \ {k} : x \in DOMAIN m_map /\ m_map'[x] = m_map[x]
<1>1. CASE ~Full
  <2>1. PICK n : m_map' = SetEntry(m_map, k, v, n)
    BY <1>1 DEF Insert
  <2>. QED  BY <2>1 DEF SetEntry
<1>2. CASE Full
  <2>1. PICK n : m_map' = SetEntry(Without(m_map, Victim.key), k, v, n)
    BY <1>2 DEF Insert
  <2>2. /\ DOMAIN Without(m_map, Victim.key) = DOMAIN m_map \ {Victim.key}
        /\ \A x \in DOMAIN m_map \ {Victim.key} :
             Without(m_map, Victim.key)[x] = m_map[x]
    BY DEF Without
  <2>. QED  BY <2>1, <2>2 DEF SetEntry
<1>. QED  BY <1>1, <1>2

(* What the cache keeps is that map and list describe each other.          *)
LEMMA CacheInvMeans == CacheInv => CacheTypeOK /\ IteratorsValid
<1>. SUFFICES ASSUME CacheInv PROVE CacheTypeOK /\ IteratorsValid
  OBVIOUS
<1>1. CacheTypeOK
  BY DEF CacheInv, Matches, CacheTypeOK, Elements
<1>2. \A k \in DOMAIN m_map :
        \E i \in DOMAIN m_list : m_list[i] = [node |-> m_map[k].it, key |-> k]
  BY PlaceOf DEF CacheInv
<1>. QED  BY <1>1, <1>2 DEF IteratorsValid, CacheInv, Matches

(* An empty cache.                                                         *)
LEMMA CacheInitKeeps == CacheInit => CacheInv
<1>. SUFFICES ASSUME CacheInit PROVE CacheInv
  OBVIOUS
<1>1. m_list = <<>> /\ DOMAIN m_map = {}
  BY DEF CacheInit, NoEntries
<1>2. IsFiniteSet({}) /\ Cardinality({}) = 0
  BY FS_EmptySet
<1>. QED  BY <1>1, <1>2, LRUCacheAssumption DEF CacheInv, Matches, NodesApart, Linked

-----------------------------------------------------------------------------
(* The cache as a store: the keys of the list, and the values of the map.  *)

KeysOf(list) == [i \in DOMAIN list |-> list[i].key]

(* The keys of a list are a sequence, in which each is once.               *)
LEMMA KeysOfType ==
    ASSUME NEW list, NEW entries, Matches(list, entries)
    PROVE  /\ KeysOf(list) \in Seq(Keys)
           /\ Len(KeysOf(list)) = Len(list) /\ DOMAIN KeysOf(list) = DOMAIN list
           /\ \A i \in DOMAIN list : KeysOf(list)[i] = list[i].key
           /\ \A i, j \in DOMAIN list : list[i].key = list[j].key => i = j
           /\ {KeysOf(list)[i] : i \in DOMAIN KeysOf(list)} = DOMAIN entries
<1>1. list \in Seq(Elements) /\ Len(list) \in Nat /\ DOMAIN list = 1 .. Len(list)
  BY DEF Matches
<1>2. \A i \in DOMAIN list : list[i].key \in Keys
  <2>1. \A i \in DOMAIN list : list[i] \in Elements
    BY <1>1
  <2>. QED  BY <2>1 DEF Elements
<1>3. KeysOf(list) \in Seq(Keys) /\ Len(KeysOf(list)) = Len(list)
  BY <1>1, <1>2, IsASeq DEF KeysOf
<1>4. \A i, j \in DOMAIN list : list[i].key = list[j].key => i = j
  BY DEF Matches, Linked, NodesApart
<1>5. DOMAIN KeysOf(list) = DOMAIN list /\ \A i \in DOMAIN list : KeysOf(list)[i] = list[i].key
  BY DEF KeysOf
<1>6. {list[i].key : i \in DOMAIN list} = DOMAIN entries
  BY DEF Matches, Linked
<1>7. {KeysOf(list)[i] : i \in DOMAIN KeysOf(list)} = DOMAIN entries
  BY <1>5, <1>6
<1>. QED  BY <1>3, <1>4, <1>5, <1>7

(* Erasing from the list erases from the keys.                             *)
LEMMA KeysOfErased ==
    ASSUME NEW list, NEW entries, Matches(list, entries), NEW i \in DOMAIN list
    PROVE  KeysOf(RemoveAt(list, i)) = RemoveFirst(KeysOf(list), list[i].key)
<1>. DEFINE l == RemoveAt(list, i)
            keys == KeysOf(list)
<1>1. list \in Seq(Elements) /\ Len(list) \in Nat /\ i \in 1 .. Len(list)
  BY DEF Matches
<1>2. /\ keys \in Seq(Keys) /\ Len(keys) = Len(list)
      /\ \A j \in 1 .. Len(list) : keys[j] = list[j].key
      /\ \A j \in 1 .. Len(keys) : keys[j] = keys[i] => j = i
  <2>1. /\ keys \in Seq(Keys) /\ Len(keys) = Len(list)
        /\ \A j \in DOMAIN list : keys[j] = list[j].key
        /\ \A j \in DOMAIN list : list[j].key = list[i].key => j = i
    BY KeysOfType
  <2>. HIDE DEF keys
  <2>. QED  BY <1>1, <2>1
<1>3. RemoveFirst(keys, list[i].key) = RemoveAt(keys, i)
  <2>. HIDE DEF keys
  <2>1. RemoveFirst(keys, keys[i]) = RemoveAt(keys, i)
    BY <1>1, <1>2, RemoveOnly
  <2>. QED  BY <1>1, <1>2, <2>1
<1>. HIDE DEF keys
<1>4. /\ RemoveAt(keys, i) \in Seq(Keys) /\ Len(RemoveAt(keys, i)) = Len(list) - 1
      /\ \A j \in 1 .. i - 1 : RemoveAt(keys, i)[j] = keys[j]
      /\ \A j \in i .. Len(list) - 1 : RemoveAt(keys, i)[j] = keys[j + 1]
  BY <1>1, <1>2, RemoveAtElements
<1>5. /\ l \in Seq(Elements) /\ Len(l) = Len(list) - 1
      /\ \A j \in 1 .. i - 1 : l[j] = list[j]
      /\ \A j \in i .. Len(list) - 1 : l[j] = list[j + 1]
  BY <1>1, RemoveAtElements
<1>6. KeysOf(l) \in Seq(Keys) /\ Len(KeysOf(l)) = Len(list) - 1
      /\ \A j \in 1 .. Len(list) - 1 : KeysOf(l)[j] = l[j].key
  <2>1. Matches(l, Without(entries, list[i].key))
    BY EraseMatches
  <2>. HIDE DEF l
  <2>2. DOMAIN l = 1 .. Len(list) - 1
    BY <1>1, <1>5
  <2>. QED  BY <1>5, <2>1, <2>2, KeysOfType
<1>. HIDE DEF l
<1>7. \A j \in 1 .. Len(list) - 1 : KeysOf(l)[j] = RemoveAt(keys, i)[j]
  <2>. SUFFICES ASSUME NEW j \in 1 .. Len(list) - 1
                PROVE  KeysOf(l)[j] = RemoveAt(keys, i)[j]
    OBVIOUS
  <2>1. CASE j < i
    <3>1. j \in 1 .. i - 1 /\ j \in 1 .. Len(list)
      BY <2>1, <1>1
    <3>. QED  BY <3>1, <1>2, <1>4, <1>5, <1>6
  <2>2. CASE ~(j < i)
    <3>1. j \in i .. Len(list) - 1 /\ j + 1 \in 1 .. Len(list)
      BY <2>2, <1>1
    <3>. QED  BY <3>1, <1>2, <1>4, <1>5, <1>6
  <2>. QED  BY <2>1, <2>2
<1>8. KeysOf(l) = RemoveAt(keys, i)
  BY <1>4, <1>6, <1>7, SeqEqual
<1>. QED  BY <1>3, <1>8 DEF l, keys

(* Pushing to the list pushes to the keys.                                 *)
LEMMA KeysOfPushed ==
    ASSUME NEW list, NEW entries, Matches(list, entries),
           NEW k \in Keys, NEW n \in ListNodes
    PROVE  KeysOf(PushFront(list, n, k)) = <<k>> \o KeysOf(list)
<1>. DEFINE l == PushFront(list, n, k)
            keys == KeysOf(list)
<1>1. list \in Seq(Elements) /\ Len(list) \in Nat /\ DOMAIN list = 1 .. Len(list)
  BY DEF Matches
<1>2. /\ l \in Seq(Elements) /\ Len(l) = Len(list) + 1
      /\ l[1] = [node |-> n, key |-> k]
      /\ \A j \in 2 .. Len(list) + 1 : l[j] = list[j - 1]
  BY <1>1, PushFrontElements
<1>3. /\ keys \in Seq(Keys) /\ Len(keys) = Len(list)
      /\ \A j \in 1 .. Len(list) : keys[j] = list[j].key
  BY <1>1, KeysOfType
<1>. HIDE DEF l, keys
<1>4. /\ <<k>> \o keys \in Seq(Keys) /\ Len(<<k>> \o keys) = Len(list) + 1
      /\ \A j \in 1 .. Len(list) + 1 :
           (<<k>> \o keys)[j] = IF j <= 1 THEN k ELSE keys[j - 1]
  <2>1. <<k>> \in Seq(Keys) /\ Len(<<k>>) = 1 /\ <<k>>[1] = k
    OBVIOUS
  <2>2. /\ <<k>> \o keys \in Seq(Keys) /\ Len(<<k>> \o keys) = Len(<<k>>) + Len(keys)
        /\ \A j \in 1 .. Len(<<k>>) + Len(keys) :
             (<<k>> \o keys)[j] = IF j <= Len(<<k>>) THEN <<k>>[j] ELSE keys[j - Len(<<k>>)]
    BY <1>3, <2>1, ConcatProperties
  <2>. QED  BY <1>1, <1>3, <2>1, <2>2
<1>5. /\ DOMAIN l = 1 .. Len(list) + 1
      /\ \A j \in 1 .. Len(list) + 1 : l[j].key = IF j <= 1 THEN k ELSE keys[j - 1]
  BY <1>1, <1>2, <1>3
<1>6. KeysOf(l) \in Seq(Keys) /\ Len(KeysOf(l)) = Len(list) + 1
      /\ \A j \in 1 .. Len(list) + 1 : KeysOf(l)[j] = l[j].key
  <2>1. \A j \in 1 .. Len(list) + 1 : l[j].key \in Keys
    <3>1. \A j \in 1 .. Len(list) + 1 : l[j] \in Elements
      BY <1>2, <1>5
    <3>. QED  BY <3>1 DEF Elements
  <2>. QED  BY <1>1, <1>5, <2>1, IsASeq DEF KeysOf
<1>7. KeysOf(l) = <<k>> \o keys
  BY <1>4, <1>5, <1>6, SeqEqual
<1>. QED  BY <1>7 DEF l, keys

(* A store in which there is room for all other keys forgets none; a full  *)
(* one forgets the last.                                                   *)
LEMMA StoreTouch ==
    ASSUME NEW k
    PROVE  Store!Touch(k) =
             LET others == RemoveFirst(KeysOf(m_list), k)
                 room == IF Len(others) < Capacity THEN Len(others) ELSE Capacity - 1
             IN  <<k>> \o SubSeq(others, 1, room)
<1>1. Store!RemoveFirst(KeysOf(m_list), k) = RemoveFirst(KeysOf(m_list), k)
  BY DEF Store!RemoveFirst, Store!RemoveAt, Store!SelectInSeq, Store!Min,
         RemoveFirst, RemoveAt, SelectInSeq, Min
<1>. QED  BY <1>1 DEF Store!Touch, KeysOf

(* The keys that the store binds.                                          *)
LEMMA StoreBound == CacheInv => Store!Bound = DOMAIN m_map
<1>. SUFFICES ASSUME CacheInv PROVE Store!Bound = DOMAIN m_map
  OBVIOUS
<1>1. {KeysOf(m_list)[i] : i \in DOMAIN KeysOf(m_list)} = DOMAIN m_map
  BY KeysOfType DEF CacheInv
<1>. QED  BY <1>1 DEF Store!Bound, KeysOf

(* An empty cache is an empty store.                                       *)
LEMMA StoreInitially == CacheInit => Store!StoreInit
BY DEF CacheInit, NoEntries, Store!StoreInit

(* get is a use of the key: it comes first, and all others stay.           *)
LEMMA HitIsUse ==
    ASSUME CacheInv, NEW k, Hit(k)
    PROVE  Store!Use(k) /\ k \in Keys
<1>. DEFINE keys == KeysOf(m_list)
<1>0. k \in DOMAIN m_map /\ k \in Keys
  BY DEF Hit, CacheInv, Matches
<1>1. PICK i \in DOMAIN m_list : m_list[i] = [node |-> m_map[k].it, key |-> k]
  BY <1>0, PlaceOf DEF CacheInv
<1>2. m_list \in Seq(Elements) /\ i \in 1 .. Len(m_list) /\ Len(m_list) \in Nat
  BY DEF CacheInv, Matches
<1>3. /\ keys \in Seq(Keys) /\ Len(keys) = Len(m_list)
      /\ keys[i] = k
      /\ \A j \in 1 .. Len(keys) : keys[j] = keys[i] => j = i
      /\ KeysOf(RemoveAt(m_list, i)) = RemoveFirst(keys, k)
  <2>1. m_list[i].key = k /\ DOMAIN m_list = 1 .. Len(m_list)
    BY <1>1, <1>2
  <2>2. /\ keys \in Seq(Keys) /\ Len(keys) = Len(m_list)
        /\ \A j \in DOMAIN m_list : keys[j] = m_list[j].key
        /\ \A j \in DOMAIN m_list : m_list[j].key = m_list[i].key => j = i
    BY KeysOfType DEF CacheInv
  <2>3. KeysOf(RemoveAt(m_list, i)) = RemoveFirst(keys, m_list[i].key)
    BY KeysOfErased DEF CacheInv
  <2>. HIDE DEF keys
  <2>. QED  BY <2>1, <2>2, <2>3
<1>4. /\ Matches(RemoveAt(m_list, i), Without(m_map, k))
      /\ Len(RemoveAt(m_list, i)) = Len(m_list) - 1
  BY <1>1, EraseMatches DEF CacheInv
<1>5. /\ RemoveFirst(keys, k) \in Seq(Keys)
      /\ Len(RemoveFirst(keys, k)) = Len(m_list) - 1
  <2>. DEFINE list == RemoveAt(m_list, i)
  <2>. HIDE DEF list
  <2>1. KeysOf(list) \in Seq(Keys) /\ Len(KeysOf(list)) = Len(list)
    BY <1>4, KeysOfType DEF list
  <2>. QED  BY <1>3, <1>4, <2>1 DEF list
<1>. HIDE DEF keys
<1>6. Store!Touch(k) = <<k>> \o RemoveFirst(keys, k)
  <2>1. Len(m_list) - 1 < Capacity /\ Len(m_list) - 1 \in Nat
    BY <1>2, LRUCacheAssumption DEF CacheInv
  <2>2. Store!Touch(k) =
          <<k>> \o SubSeq(RemoveFirst(keys, k), 1, Len(RemoveFirst(keys, k)))
    BY <1>5, <2>1, StoreTouch DEF keys
  <2>. QED  BY <1>5, <2>2, SubSeqFull
<1>7. KeysOf(m_list') = <<k>> \o RemoveFirst(keys, k)
  <2>1. CASE m_map[k].it = Head(m_list).node
    <3>1. UNCHANGED m_list
      BY <2>1 DEF Hit, cacheVars
    <3>2. i = 1
      <4>1. Head(m_list) = m_list[1] /\ 1 \in DOMAIN m_list
        BY <1>2
      <4>. QED  BY <1>1, <2>1, <4>1 DEF CacheInv, Matches, NodesApart
    <3>3. keys[1] = k /\ 1 <= Len(keys)
      BY <1>2, <1>3, <3>2
    <3>4. RemoveFirst(keys, k) = RemoveAt(keys, 1)
      BY <1>3, <3>2, <3>3, RemoveOnly
    <3>5. keys = <<k>> \o RemoveFirst(keys, k)
      BY <1>3, <3>3, <3>4, FrontBack
    <3>. QED  BY <3>1, <3>5 DEF keys
  <2>2. CASE m_map[k].it # Head(m_list).node
    <3>1. Erase(m_list, m_map[k].it) = RemoveAt(m_list, i)
      BY <1>1, EraseAt DEF CacheInv, Matches
    <3>2. PICK n \in FreeNodes(RemoveAt(m_list, i)) :
            m_list' = PushFront(RemoveAt(m_list, i), n, k)
      BY <2>2, <3>1 DEF Hit
    <3>3. n \in ListNodes
      BY DEF FreeNodes
    <3>. QED  BY <1>0, <1>3, <1>4, <3>2, <3>3, KeysOfPushed
  <2>. QED  BY <2>1, <2>2
<1>8. [x \in DOMAIN m_map' |-> m_map'[x].value] = [x \in DOMAIN m_map |-> m_map[x].value]
  BY HitValues
<1>9. k \in Store!Bound
  BY <1>0, StoreBound
<1>. QED  BY <1>0, <1>6, <1>7, <1>8, <1>9 DEF Store!Use, KeysOf

(* insert of a key that is new binds it, and forgets the key used longest  *)
(* ago if the cache is full.                                               *)
LEMMA InsertIsBind ==
    ASSUME CacheInv, NEW k \in Keys, NEW v \in Values, k \notin DOMAIN m_map, Insert(k, v)
    PROVE  Store!Bind(k, v)
<1>. DEFINE keys == KeysOf(m_list)
            values == [x \in DOMAIN m_map |-> m_map[x].value]
<1>1. m_list \in Seq(Elements) /\ Len(m_list) \in Nat /\ Len(m_list) <= Capacity
  BY DEF CacheInv, Matches
<1>2. /\ keys \in Seq(Keys) /\ Len(keys) = Len(m_list)
      /\ \A j \in 1 .. Len(keys) : keys[j] \in DOMAIN m_map
      /\ \A i, j \in 1 .. Len(keys) : keys[i] = keys[j] => i = j
  <2>1. /\ keys \in Seq(Keys) /\ Len(keys) = Len(m_list)
        /\ \A j \in DOMAIN m_list : keys[j] = m_list[j].key
        /\ \A i, j \in DOMAIN m_list : m_list[i].key = m_list[j].key => i = j
    BY KeysOfType DEF CacheInv
  <2>2. \A j \in DOMAIN m_list : m_list[j].key \in DOMAIN m_map
    BY DEF CacheInv, Matches, Linked
  <2>3. DOMAIN m_list = 1 .. Len(m_list)
    BY <1>1
  <2>. HIDE DEF keys
  <2>. QED  BY <2>1, <2>2, <2>3
<1>. HIDE DEF keys
<1>3. RemoveFirst(keys, k) = keys
  BY <1>2 DEF RemoveFirst
<1>4. Store!Touch(k) =
        <<k>> \o SubSeq(keys, 1, IF Len(keys) < Capacity THEN Len(keys) ELSE Capacity - 1)
  BY <1>3, StoreTouch DEF keys
<1>5. KeysOf(m_list') = Store!Touch(k)
  <2>1. CASE ~Full
    <3>1. PICK n \in FreeNodes(m_list) : m_list' = PushFront(m_list, n, k)
      BY <2>1 DEF Insert
    <3>2. KeysOf(m_list') = <<k>> \o keys
      BY <3>1, KeysOfPushed DEF FreeNodes, CacheInv, keys
    <3>3. Len(keys) < Capacity
      BY <1>1, <1>2, <2>1, LRUCacheAssumption DEF Full, CacheInv, Matches
    <3>. QED  BY <1>2, <1>4, <3>2, <3>3, SubSeqFull
  <2>2. CASE Full
    <3>. DEFINE last == Len(m_list)
                list == RemoveAt(m_list, last)
    <3>1. last \in DOMAIN m_list /\ Victim = m_list[last] /\ last = Capacity
      BY <2>2, VictimPlace
    <3>2. Erase(m_list, Victim.node) = list
      BY <3>1, EraseAt DEF CacheInv, Matches
    <3>3. Matches(list, Without(m_map, Victim.key))
      BY <3>1, EraseMatches DEF CacheInv
    <3>4. PICK n \in FreeNodes(list) : m_list' = PushFront(list, n, k)
      BY <2>2, <3>2 DEF Insert
    <3>5. KeysOf(m_list') = <<k>> \o KeysOf(list)
      <4>1. n \in ListNodes
        BY DEF FreeNodes
      <4>. HIDE DEF list
      <4>. QED  BY <3>3, <3>4, <4>1, KeysOfPushed
    <3>6. KeysOf(list) = RemoveAt(keys, last)
      <4>1. KeysOf(list) = RemoveFirst(keys, m_list[last].key)
        BY <3>1, KeysOfErased DEF CacheInv, keys
      <4>2. m_list[last].key = keys[last] /\ last \in 1 .. Len(keys)
        BY <1>1, <1>2, <3>1 DEF keys, KeysOf
      <4>. QED  BY <1>2, <4>1, <4>2, RemoveOnly
    <3>7. RemoveAt(keys, last) = SubSeq(keys, 1, last - 1)
      <4>1. SubSeq(keys, last + 1, Len(keys)) = <<>>
        BY <1>1, <1>2, SubSeqEmpty
      <4>2. SubSeq(keys, 1, last - 1) \in Seq(Keys)
        BY <1>1, <1>2, SubSeqProperties
      <4>3. RemoveAt(keys, last) = SubSeq(keys, 1, last - 1) \o SubSeq(keys, last + 1, Len(keys))
        BY DEF RemoveAt
      <4>. QED  BY <4>1, <4>2, <4>3, ConcatEmptySeq
    <3>. QED  BY <1>2, <1>4, <3>1, <3>5, <3>6, <3>7
  <2>. QED  BY <2>1, <2>2
<1>6. CacheInv'
  BY InsertKeeps
<1>7. {KeysOf(m_list')[i] : i \in DOMAIN KeysOf(m_list')} = DOMAIN m_map'
  <2>1. Matches(m_list', m_map')
    BY <1>6 DEF CacheInv, Matches, NodesApart, Linked
  <2>. QED  BY <2>1, KeysOfType
<1>8. /\ k \in DOMAIN m_map' /\ m_map'[k].value = v
      /\ \A x \in DOMAIN m_map' \ {k} : x \in DOMAIN m_map /\ m_map'[x] = m_map[x]
  BY InsertValues
<1>9. [x \in DOMAIN m_map' |-> m_map'[x].value] =
        [x \in DOMAIN m_map' |-> IF x = k THEN v ELSE values[x]]
  BY <1>8
<1>10. k \notin Store!Bound
  BY StoreBound
<1>. QED  BY <1>5, <1>7, <1>9, <1>10 DEF Store!Bind, KeysOf

-----------------------------------------------------------------------------
(* The threads that use the cache.                                         *)


(* A thread that is in a conversion converts something.                    *)
ThreadsOK ==
    /\ at \in [Threads -> {"done", "get", "insert"}]
    /\ DOMAIN request = Threads
    /\ DOMAIN answer = Threads
    /\ \A t \in Threads : at[t] # "done" => request[t] \in Requests

CacheKept == CacheInv /\ ThreadsOK

(* What a request looks up and what it may insert.                         *)
LEMMA RequestFits ==
    ASSUME NEW r \in Requests
    PROVE  CacheKey(r) = r.string /\ CacheKey(r) \in Keys /\ Convert(r) \in Values
<1>1. r.string \in Keys
  BY StringConversionAssumption DEF Requests
<1>. QED  BY <1>1, ConversionAssumption DEF CacheKey

(* The threads keep the cache consistent.                                  *)
LEMMA KeptInitially == Init => CacheKept
BY CacheInitKeeps DEF Init, CacheKept, ThreadsOK

LEMMA KeptByNext == CacheKept /\ [Next]_vars => CacheKept'
<1>. SUFFICES ASSUME CacheKept, [Next]_vars PROVE CacheKept'
  OBVIOUS
<1>1. ASSUME UNCHANGED cacheVars PROVE CacheInv'
  BY <1>1 DEF CacheKept, cacheVars, CacheInv, Matches, NodesApart, Linked
<1>2. ASSUME NEW t \in Threads, NEW r \in Requests, Ask(t, r) PROVE CacheKept'
  <2>1. ThreadsOK'
    BY <1>2 DEF Ask, CacheKept, ThreadsOK
  <2>. QED  BY <1>1, <1>2, <2>1 DEF Ask, CacheKept
<1>3. ASSUME NEW t \in Threads, GetHit(t) PROVE CacheKept'
  <2>1. ThreadsOK'
    BY <1>3 DEF GetHit, CacheKept, ThreadsOK
  <2>2. CacheInv'
    BY <1>3, HitKeeps DEF GetHit, CacheKept
  <2>. QED  BY <2>1, <2>2 DEF CacheKept
<1>4. ASSUME NEW t \in Threads, GetMiss(t) PROVE CacheKept'
  <2>1. ThreadsOK'
    BY <1>4 DEF GetMiss, CacheKept, ThreadsOK
  <2>. QED  BY <1>1, <1>4, <2>1 DEF GetMiss, Miss, CacheKept
<1>5. ASSUME NEW t \in Threads, ConvertAndInsert(t) PROVE CacheKept'
  <2>1. ThreadsOK'
    BY <1>5 DEF ConvertAndInsert, CacheKept, ThreadsOK
  <2>2. request[t] \in Requests
    BY <1>5 DEF ConvertAndInsert, CacheKept, ThreadsOK
  <2>3. CacheInv'
    BY <1>5, <2>2, RequestFits, InsertKeeps DEF ConvertAndInsert, CacheKept
  <2>. QED  BY <2>1, <2>3 DEF CacheKept
<1>6. CASE UNCHANGED vars
  BY <1>1, <1>6 DEF vars, CacheKept, ThreadsOK
<1>. QED  BY <1>2, <1>3, <1>4, <1>5, <1>6 DEF Next

LEMMA KeptAlways == Spec => []CacheKept
BY KeptInitially, KeptByNext, PTL DEF Spec

(* The cache holds at most Capacity entries, whatever the threads do.      *)
THEOREM CacheTypeCorrect == Spec => []CacheTypeOK
<1>1. CacheKept => CacheTypeOK
  BY CacheInvMeans DEF CacheKept
<1>. QED  BY <1>1, KeptAlways, PTL

(* No iterator of the map dangles and no list node is lost (insert, evict  *)
(* and get in LRUCache.h).                                                 *)
THEOREM IteratorsValidHolds == Spec => []IteratorsValid
<1>1. CacheKept => IteratorsValid
  BY CacheInvMeans DEF CacheKept
<1>. QED  BY <1>1, KeptAlways, PTL

-----------------------------------------------------------------------------
(* A get that hits uses a key, an insert of a new key binds it, and        *)
(* nothing else touches the store.                                         *)
LEMMA StepOfStore ==
    CacheKept /\ [Next]_vars => [Store!StoreNext]_(Store!storeVars)
<1>. SUFFICES ASSUME CacheKept, [Next]_vars
              PROVE  [Store!StoreNext]_(Store!storeVars)
  OBVIOUS
<1>1. ASSUME UNCHANGED cacheVars PROVE UNCHANGED Store!storeVars
  BY <1>1 DEF cacheVars, Store!storeVars
<1>2. ASSUME NEW t \in Threads, GetHit(t) PROVE Store!StoreNext
  <2>1. PICK k : k = CacheKey(request[t])
    OBVIOUS
  <2>2. Hit(k)
    BY <1>2, <2>1 DEF GetHit
  <2>3. Store!Use(k) /\ k \in Keys
    BY <2>2, HitIsUse DEF CacheKept
  <2>. QED  BY <2>3 DEF Store!StoreNext
<1>3. ASSUME NEW t \in Threads, ConvertAndInsert(t)
      PROVE  Store!StoreNext \/ UNCHANGED cacheVars
  <2>0. CacheKey(request[t]) \in Keys /\ Convert(request[t]) \in Values
    BY <1>3, RequestFits DEF ConvertAndInsert, CacheKept, ThreadsOK
  <2>1. PICK k \in Keys, v \in Values : k = CacheKey(request[t]) /\ v = Convert(request[t])
    BY <2>0
  <2>2. Insert(k, v)
    BY <1>3, <2>1 DEF ConvertAndInsert
  <2>3. CASE k \in DOMAIN m_map
    BY <2>2, <2>3 DEF Insert
  <2>4. CASE k \notin DOMAIN m_map
    <3>1. Store!Bind(k, v)
      BY <2>1, <2>2, <2>4, InsertIsBind DEF CacheKept
    <3>. QED  BY <2>1, <3>1 DEF Store!StoreNext
  <2>. QED  BY <2>3, <2>4
<1>. QED  BY <1>1, <1>2, <1>3 DEF Next, vars, Ask, GetMiss, Miss

(* "a cache which evicts the least recently used item when it is full".    *)
THEOREM StoreRefined == Spec => EvictsLeastRecentlyUsed
<1>1. Init => Store!StoreInit
  BY StoreInitially DEF Init
<1>. QED  BY <1>1, KeptAlways, StepOfStore, PTL
          DEF Spec, EvictsLeastRecentlyUsed, Store!StoreSpec

-----------------------------------------------------------------------------
(* No string is asked for in two roles with different results.             *)
NoSharedStrings ==
    \A r, s \in Requests : r.string = s.string => Convert(r) = Convert(s)

(* A request that finds something finds its own conversion.                *)
CacheRight ==
    \A r \in Requests :
      CacheKey(r) \in DOMAIN m_map => m_map[CacheKey(r)].value = Convert(r)

AnswersRight == CacheKept /\ CacheRight /\ ConversionRight

LEMMA RightInitially == Init => AnswersRight
<1>. SUFFICES ASSUME Init PROVE AnswersRight
  OBVIOUS
<1>1. DOMAIN m_map = {}
  BY DEF Init, CacheInit, NoEntries
<1>2. ConversionRight
  BY DEF Init, ConversionRight
<1>. QED  BY <1>1, <1>2, KeptInitially DEF AnswersRight, CacheRight

LEMMA RightByNext ==
    ASSUME NoSharedStrings
    PROVE  AnswersRight /\ [Next]_vars => AnswersRight'
<1>. SUFFICES ASSUME AnswersRight, [Next]_vars PROVE CacheRight' /\ ConversionRight'
  BY KeptByNext DEF AnswersRight
<1>. USE DEF AnswersRight
<1>0. \A t \in Threads : at[t] # "done" => request[t] \in Requests
  BY DEF CacheKept, ThreadsOK
<1>1. ASSUME UNCHANGED cacheVars PROVE CacheRight'
  BY <1>1 DEF CacheRight, cacheVars
<1>2. ASSUME NEW t \in Threads, NEW r \in Requests, Ask(t, r)
      PROVE  CacheRight' /\ ConversionRight'
  <2>1. ConversionRight'
    BY <1>2 DEF Ask, ConversionRight, CacheKept, ThreadsOK
  <2>. QED  BY <1>1, <1>2, <2>1 DEF Ask
<1>3. ASSUME NEW t \in Threads, GetHit(t) PROVE CacheRight' /\ ConversionRight'
  <2>. DEFINE k == CacheKey(request[t])
  <2>1. request[t] \in Requests /\ k \in DOMAIN m_map /\ Hit(k)
    BY <1>0, <1>3 DEF GetHit, Hit
  <2>2. m_map[k].value = Convert(request[t])
    BY <2>1 DEF CacheRight
  <2>3. ConversionRight'
    BY <1>3, <2>2 DEF GetHit, ConversionRight, CacheKept, ThreadsOK
  <2>4. /\ DOMAIN m_map' = DOMAIN m_map
        /\ \A x \in DOMAIN m_map : m_map'[x].value = m_map[x].value
    BY <2>1, HitValues
  <2>. QED  BY <2>3, <2>4 DEF CacheRight
<1>4. ASSUME NEW t \in Threads, GetMiss(t) PROVE CacheRight' /\ ConversionRight'
  BY <1>1, <1>4 DEF GetMiss, Miss, ConversionRight
<1>5. ASSUME NEW t \in Threads, ConvertAndInsert(t)
      PROVE  CacheRight' /\ ConversionRight'
  <2>. DEFINE k == CacheKey(request[t])
              v == Convert(request[t])
  <2>1. request[t] \in Requests /\ Insert(k, v)
    BY <1>0, <1>5 DEF ConvertAndInsert
  <2>2. ConversionRight'
    BY <1>5 DEF ConvertAndInsert, ConversionRight, CacheKept, ThreadsOK
  <2>3. \A r \in Requests : CacheKey(r) = k => Convert(r) = v
    BY <2>1, RequestFits, NoSharedStrings DEF NoSharedStrings
  <2>. HIDE DEF k, v
  <2>4. CASE k \in DOMAIN m_map
    BY <1>1, <2>1, <2>2, <2>4 DEF Insert
  <2>5. CASE k \notin DOMAIN m_map
    <3>1. /\ m_map'[k].value = v
          /\ \A x \in DOMAIN m_map' \ {k} : x \in DOMAIN m_map /\ m_map'[x] = m_map[x]
      BY <2>1, <2>5, InsertValues
    <3>. QED  BY <2>2, <2>3, <3>1 DEF CacheRight
  <2>. QED  BY <2>4, <2>5
<1>6. CASE UNCHANGED vars
  BY <1>1, <1>6 DEF vars, ConversionRight
<1>. QED  BY <1>2, <1>3, <1>4, <1>5, <1>6 DEF Next

(* toPrimAttr: every thread gets the conversion it asked for, as long as   *)
(* no string is asked for in two roles with different results.             *)
THEOREM ConversionRightHolds ==
    ASSUME NoSharedStrings
    PROVE  Spec => []ConversionRight
<1>1. Init => AnswersRight
  BY RightInitially
<1>2. AnswersRight /\ [Next]_vars => AnswersRight'
  BY RightByNext
<1>3. AnswersRight => ConversionRight
  BY DEF AnswersRight
<1>. QED  BY <1>1, <1>2, <1>3, PTL DEF Spec
=============================================================================
