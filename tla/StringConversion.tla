-------------------------- MODULE StringConversion --------------------------
(***************************************************************************)
(* The cache StringConversionCaches::toPrimAttr and the threads that write *)
(* attributes to the Houdini detail through it.  Two functions use it: one *)
(* narrows a string value, one turns a rule attribute name into a name for *)
(* a primitive attribute.  Each gets, and if there is nothing converts and *)
(* inserts: the mutex of the cache is held for the get and for the insert, *)
(* not in between.                                                         *)
(***************************************************************************)
EXTENDS LRUCache

CONSTANTS Threads,
          NameStrings,   \* strings used as rule attribute names
          ValueStrings   \* strings used as values

ASSUME StringConversionAssumption == NameStrings \cup ValueStrings \subseteq Keys

VARIABLES at,       \* at[t]: where thread t is in a conversion
          request,  \* request[t]: what it is converting
          answer    \* answer[t]: what it got

vars == <<cacheVars, at, request, answer>>

(* A string is a style prefix, empty or not, and a stem; a stem that is no *)
(* legal attribute name is encoded.                                        *)
NoStyle == "none"
Plain(s) == s.stem \in {"height", "first_floor"}

(* toOSNarrowFromUTF16 keeps all of the text, in another encoding.         *)
Narrowed(s) == [style |-> s.style, stem |-> s.stem, encoded |-> FALSE]

(* removeStyle and UT_VarEncode::encodeAttrib.                             *)
PrimAttrName(s) == [style |-> NoStyle, stem |-> s.stem, encoded |-> ~Plain(s)]

Convert(r) == IF r.kind = "name" THEN PrimAttrName(r.string) ELSE Narrowed(r.string)

Requests == [kind : {"name"}, string : NameStrings]
              \cup [kind : {"value"}, string : ValueStrings]

(* The cache is for what these requests convert to.                        *)
ASSUME ConversionAssumption == \A r \in Requests : Convert(r) \in Values

NoRequest == [kind |-> "none", string |-> "none"]
NoAnswer == [style |-> NoStyle, stem |-> "none", encoded |-> FALSE]

(* Variant: the style is not part of the key.                              *)
CacheKey_stem(r) == CHOOSE s \in Keys : s.stem = r.string.stem

CacheKey(r) == r.string

-----------------------------------------------------------------------------
Init ==
    /\ CacheInit
    /\ at = [t \in Threads |-> "done"]
    /\ request = [t \in Threads |-> NoRequest]
    /\ answer = [t \in Threads |-> NoAnswer]

Ask(t, r) ==
    /\ at[t] = "done"
    /\ at' = [at EXCEPT ![t] = "get"]
    /\ request' = [request EXCEPT ![t] = r]
    /\ answer' = [answer EXCEPT ![t] = NoAnswer]
    /\ UNCHANGED cacheVars

GetHit(t) ==
    LET k == CacheKey(request[t]) IN
    /\ at[t] = "get"
    /\ Hit(k)
    /\ at' = [at EXCEPT ![t] = "done"]
    /\ answer' = [answer EXCEPT ![t] = m_map[k].value]
    /\ UNCHANGED request

GetMiss(t) ==
    /\ at[t] = "get"
    /\ Miss(CacheKey(request[t]))
    /\ at' = [at EXCEPT ![t] = "insert"]
    /\ UNCHANGED <<request, answer>>

(* The thread answers with its own conversion, whether or not insert found *)
(* that another thread was faster.                                         *)
ConvertAndInsert(t) ==
    /\ at[t] = "insert"
    /\ Insert(CacheKey(request[t]), Convert(request[t]))
    /\ at' = [at EXCEPT ![t] = "done"]
    /\ answer' = [answer EXCEPT ![t] = Convert(request[t])]
    /\ UNCHANGED request

Next ==
    \E t \in Threads :
      \/ \E r \in Requests : Ask(t, r)
      \/ GetHit(t)
      \/ GetMiss(t)
      \/ ConvertAndInsert(t)

Spec == Init /\ [][Next]_vars

-----------------------------------------------------------------------------
(* "attribute type conversion between PRT and Houdini: wstring <-> narrow  *)
(* string": whatever the threads before it put into the cache, a thread    *)
(* gets the conversion it asked for: a value keeps its text, a name loses  *)
(* its style and is encoded.                                               *)
ConversionRight ==
    \A t \in Threads :
      answer[t] # NoAnswer => answer[t] = Convert(request[t])
=============================================================================
