------------------------------ MODULE LRUCache ------------------------------
(***************************************************************************)
(* lru_cache: a map from keys to a value and an iterator into a list of    *)
(* the keys, the most recently used first.  Iterators are modelled as the  *)
(* list nodes they stand for, and a node that was erased may be allocated  *)
(* again, so that an iterator kept too long would point to the wrong key.  *)
(* LockedLRUCache runs each insert and get under mMutex, as one step.      *)
(* Palladio does not call clear.                                           *)
(***************************************************************************)
EXTENDS Naturals, FiniteSets, SequencesExt

CONSTANTS Keys, Values,
          Capacity      \* m_capacity

(* evict decrements the end of the list: with no capacity at all it would  *)
(* do so on an empty list.                                                 *)
ASSUME LRUCacheAssumption == Capacity \in Nat \ {0}

VARIABLES m_map,   \* m_map[k]: the value of k and its list node
          m_list   \* the list: nodes and the keys in them

cacheVars == <<m_map, m_list>>

(* One more than the list ever holds, so that there is a choice.           *)
ListNodes == 1 .. Capacity + 1

NoEntries == [k \in {} |-> k]

(* The nodes that list.push_front may allocate.                            *)
FreeNodes(list) == ListNodes \ {list[i].node : i \in DOMAIN list}

PushFront(list, n, k) == <<[node |-> n, key |-> k]>> \o list

(* list.erase(it)                                                          *)
Erase(list, it) == RemoveFirstMatch(list, LAMBDA e : e.node = it)

(* m_map[k] = {v, m_list.begin()}, when the first list node is n.          *)
SetEntry(entries, k, v, n) ==
    [x \in DOMAIN entries \cup {k} |->
       IF x = k THEN [value |-> v, it |-> n] ELSE entries[x]]

Without(entries, k) == [x \in DOMAIN entries \ {k} |-> entries[x]]

-----------------------------------------------------------------------------
CacheInit == m_map = NoEntries /\ m_list = <<>>

(* Variant: the first list entry goes.                                     *)
Victim_front == Head(m_list)

(* The entry evict removes: the one at the end of the list.                *)
Victim == m_list[Len(m_list)]

(* Variant: evict only when the cache holds more than it may.              *)
Full_late == Cardinality(DOMAIN m_map) > Capacity

Full == Cardinality(DOMAIN m_map) >= Capacity

(* insert: a key that is there already keeps its value and its place.      *)
Insert(k, v) ==
    IF k \in DOMAIN m_map
    THEN UNCHANGED cacheVars
    ELSE LET list == IF Full THEN Erase(m_list, Victim.node) ELSE m_list
             entries == IF Full THEN Without(m_map, Victim.key) ELSE m_map
         IN  \E n \in FreeNodes(list) :
               /\ m_list' = PushFront(list, n, k)
               /\ m_map' = SetEntry(entries, k, v, n)

(* get: nothing, or the value, after k has moved to the front.             *)
Miss(k) == k \notin DOMAIN m_map /\ UNCHANGED cacheVars

(* Variant: the iterator in the map is not updated.                        *)
Hit_keepsIterator(k) ==
    /\ k \in DOMAIN m_map
    /\ LET list == Erase(m_list, m_map[k].it) IN
       IF m_map[k].it = Head(m_list).node
       THEN UNCHANGED cacheVars
       ELSE \E n \in FreeNodes(list) :
              m_list' = PushFront(list, n, k) /\ UNCHANGED m_map

Hit(k) ==
    /\ k \in DOMAIN m_map
    /\ LET list == Erase(m_list, m_map[k].it) IN
       IF m_map[k].it = Head(m_list).node
       THEN UNCHANGED cacheVars
       ELSE \E n \in FreeNodes(list) :
              /\ m_list' = PushFront(list, n, k)
              /\ m_map' = SetEntry(m_map, k, m_map[k].value, n)

-----------------------------------------------------------------------------
CacheTypeOK ==
    /\ DOMAIN m_map \subseteq Keys
    /\ \A k \in DOMAIN m_map : m_map[k] \in [value : Values, it : ListNodes]
    /\ m_list \in Seq([node : ListNodes, key : Keys])
    /\ Len(m_list) <= Capacity

(* Map and list describe each other after every operation, although insert *)
(* and evict change them one after the other and get moves list nodes: the *)
(* iterator of each key is a node of the list that holds that key, and the *)
(* list has no other nodes.  A dangling iterator would be erased a second  *)
(* time by the next get.                                                   *)
IteratorsValid ==
    /\ Len(m_list) = Cardinality(DOMAIN m_map)
    /\ \A k \in DOMAIN m_map :
         \E i \in DOMAIN m_list : m_list[i] = [node |-> m_map[k].it, key |-> k]

(* "a cache which evicts the least recently used item when it is full".    *)
Store == INSTANCE RecencyStore WITH
            recent <- [i \in DOMAIN m_list |-> m_list[i].key],
            binding <- [k \in DOMAIN m_map |-> m_map[k].value]

EvictsLeastRecentlyUsed == Store!StoreSpec
=============================================================================
