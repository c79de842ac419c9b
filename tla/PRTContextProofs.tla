-------------------------- MODULE PRTContextProofs --------------------------
(***************************************************************************)
(* Proofs about PRTContext: types, and the two facts that keep the cache   *)
(* of resolve maps and the PRT cache in step with the packages.            *)
(***************************************************************************)
EXTENDS PRTContext, TLAPS

(* A node that is not idle asks for a package.                             *)
Asking == \A n \in Nodes : pc[n] # "idle" => asks[n] \in Rpks

(* The mutex stays locked from a MISS to the end of the flush.             *)
Holding == \A n \in Nodes : pc[n] \in {"load", "flush"} => mutex = n

(* The time stamp of a lookup is that of the file or of an earlier one.    *)
StampRead ==
    \A n \in Nodes : pc[n] = "load" => stamp[n] \in 1 .. disk[asks[n]].version

(* An entry holds its own version or a later one, and no future one.       *)
EntryOrdered ==
    \A r \in Rpks : cache[r] = NoEntry
                      \/ (1 <= cache[r].stamp /\ cache[r].stamp <= cache[r].map
                            /\ cache[r].map <= disk[r].version)

(* A rule file in the PRT cache is not older than the resolve map, but for *)
(* the package of a lookup that is about to flush.                         *)
RulesInv ==
    \A r \in Rpks : \/ rules[r] = 0
                    \/ rules[r] >= cache[r].map
                    \/ \E n \in Nodes : pc[n] = "flush" /\ asks[n] = r

IInv == TypeOK /\ Asking /\ Holding /\ StampRead /\ EntryOrdered /\ RulesInv

-----------------------------------------------------------------------------
(* The parts of TypeOK that the steps of a cook can disturb.               *)
CookTypes ==
    /\ pc \in [Nodes -> {"idle", "lookup", "load", "flush", "info", "generate",
                        "optimize"}]
    /\ stage \in [Nodes -> 1 .. 3]
    /\ asks \in [Nodes -> Rpks \cup {NoRpk}]
    /\ stamp \in [Nodes -> 0 .. MaxVersion]
    /\ found \in [Nodes -> 0 .. MaxVersion]
    /\ map \in [Nodes -> 0 .. MaxVersion]
    /\ values \in [Nodes -> 0 .. MaxVersion]

(* What the answer of a lookup does to the node that asked, and to no      *)
(* other: it looks up again, reads the rule file, evaluates or ends.       *)
LEMMA ContinueTypes ==
    ASSUME NEW n \in Nodes, NEW m \in 0 .. MaxVersion, CookTypes, asks[n] \in Rpks,
           Continue(n, m)
    PROVE  /\ CookTypes'
           /\ pc'[n] \in {"idle", "lookup", "info", "generate"}
           /\ pc'[n] # "idle" => asks'[n] = asks[n]
           /\ \A x \in Nodes \ {n} : pc'[x] = pc[x] /\ asks'[x] = asks[x] /\ stamp'[x] = stamp[x]
<1>. USE PRTContextAssumption DEF CookTypes, Continue, End
<1>1. CASE stage[n] = 1 /\ m # 0
  BY <1>1
<1>2. CASE stage[n] # 1 /\ m # 0
  BY <1>2
<1>3. CASE stage[n] = 2 /\ m = 0
  BY <1>3
<1>4. CASE stage[n] # 2 /\ m = 0
  BY <1>4
<1>. QED  BY <1>1, <1>2, <1>3, <1>4

(* The invariant holds at the start.                                       *)
LEMMA InitIInv == Init => IInv
BY PRTContextAssumption
DEF Init, IInv, TypeOK, Asking, Holding, StampRead, EntryOrdered, RulesInv, Nodes, File,
    Entry, NoEntry, Made

(* A package that is written or deleted keeps its time stamp or gets a     *)
(* later one.                                                              *)
LEMMA EnvironmentIInv == IInv /\ Environment => IInv'
<1>. SUFFICES ASSUME IInv, Environment PROVE IInv'
  OBVIOUS
<1>. USE PRTContextAssumption DEF IInv, packages, nodes, cooks, Nodes
<1>1. CASE \E r \in Rpks : Write(r) \/ Delete(r)
  <2>. PICK r \in Rpks : Write(r) \/ Delete(r)
    BY <1>1
  <2>1. disk' \in [Rpks -> File]
        /\ \A q \in Rpks : disk'[q].version >= disk[q].version
    <3>1. CASE Write(r)
      <4>. PICK s \in {"whole", "partial"} :
             disk' = [disk EXCEPT ![r] = [version |-> @.version + 1, state |-> s]]
        BY <3>1 DEF Write
      <4>1. disk[r].version \in 1 .. MaxVersion /\ disk[r].version < MaxVersion
        BY <3>1 DEF Write, TypeOK, File
      <4>2. [version |-> disk[r].version + 1, state |-> s] \in File
        BY <4>1 DEF File
      <4>. QED  BY <4>1, <4>2 DEF TypeOK, File
    <3>2. CASE Delete(r)
      <4>1. disk[r] \in File /\ [disk[r] EXCEPT !.state = "missing"] \in File
        BY DEF TypeOK, File
      <4>2. disk' = [disk EXCEPT ![r] = [disk[r] EXCEPT !.state = "missing"]]
        BY <3>2 DEF Delete
      <4>. QED  BY <4>1, <4>2 DEF TypeOK, File
    <3>. QED  BY <3>1, <3>2
  <2>2. UNCHANGED <<cache, rules, mutex, nodes, cooks>>
    BY DEF Write, Delete
  <2>3. TypeOK' /\ Asking' /\ Holding'
    BY <2>1, <2>2 DEF TypeOK, Asking, Holding
  <2>4. StampRead'
    BY <2>1, <2>2 DEF StampRead, TypeOK, File, Asking
  <2>5. EntryOrdered'
    BY <2>1, <2>2 DEF EntryOrdered, TypeOK, File, Entry, NoEntry
  <2>6. RulesInv'
    BY <2>2 DEF RulesInv
  <2>. QED  BY <2>3, <2>4, <2>5, <2>6
<1>2. CASE \E n \in AssignNodes, r \in Rpks : SetParm(n, r)
  <2>. PICK n \in AssignNodes, r \in Rpks : SetParm(n, r)
    BY <1>2
  <2>1. TypeOK'
    BY DEF SetParm, TypeOK
  <2>. QED  BY <2>1 DEF SetParm, Asking, Holding, StampRead, EntryOrdered, RulesInv
<1>. QED  BY <1>1, <1>2 DEF Environment

(* A cook or request begins.                                               *)
LEMMA StartIInv ==
    ASSUME IInv, NEW n \in Nodes,
           (n \in AssignNodes /\ StartCook(n)) \/ \E r \in Rpks : StartRequest(n, r)
    PROVE  IInv'
<1>. USE PRTContextAssumption DEF IInv, packages, nodes, cooks, Nodes
<1>1. /\ UNCHANGED packages
      /\ pc' = [pc EXCEPT ![n] = "lookup"] /\ pc[n] = "idle"
      /\ \E r \in Rpks : asks' = [asks EXCEPT ![n] = r]
      /\ stamp' = stamp
  BY DEF StartCook, StartRequest, TypeOK
<1>2. TypeOK'
  <2>1. CASE n \in AssignNodes /\ StartCook(n)
    <3>1. /\ asks' \in [Nodes -> Rpks \cup {NoRpk}]
          /\ mRPK' \in [AssignNodes -> Rpks \cup {NoRpk}]
          /\ dirty' \subseteq AssignNodes
      BY <2>1 DEF StartCook, TypeOK
    <3>2. stage' \in [Nodes -> 1 .. 3]
      BY <2>1 DEF StartCook, TypeOK
    <3>. QED  BY <2>1, <3>1, <3>2, <1>1 DEF StartCook, TypeOK
  <2>2. CASE \E r \in Rpks : StartRequest(n, r)
    <3>1. stage' \in [Nodes -> 1 .. 3]
      BY <2>2 DEF StartRequest, TypeOK
    <3>. QED  BY <2>2, <3>1, <1>1 DEF StartRequest, TypeOK
  <2>. QED  BY <2>1, <2>2
<1>3. Asking' /\ Holding' /\ StampRead'
  BY <1>1 DEF Asking, Holding, StampRead, TypeOK
<1>4. EntryOrdered'
  BY <1>1 DEF EntryOrdered
<1>5. RulesInv'
  BY <1>1 DEF RulesInv, TypeOK
<1>. QED  BY <1>2, <1>3, <1>4, <1>5

(* Steps in which the cook of n goes on while it holds no mutex, and the   *)
(* caches change in no way that matters.                                   *)
LEMMA LookupIInv ==
    ASSUME IInv, NEW n \in Nodes, Lookup(n)
    PROVE  IInv'
<1>. USE PRTContextAssumption DEF IInv, packages, nodes, cooks, Nodes
<1>1. CASE LookupMissing(n)
  <2>1. TypeOK' /\ Asking'
    BY <1>1 DEF LookupMissing, TypeOK, Asking
  <2>2. Holding' /\ StampRead'
    BY <1>1 DEF LookupMissing, TypeOK, Holding, StampRead
  <2>3. EntryOrdered'
    BY <1>1 DEF LookupMissing, EntryOrdered
  <2>4. RulesInv'
    BY <1>1 DEF LookupMissing, RulesInv, TypeOK
  <2>. QED  BY <2>1, <2>2, <2>3, <2>4
<1>2. CASE LookupHit(n)
  <2>1. /\ asks[n] \in Rpks
        /\ cache[asks[n]].map \in 0 .. MaxVersion
    BY <1>2 DEF LookupHit, Asking, TypeOK, Entry
  <2>2. /\ CookTypes'
        /\ pc'[n] \in {"idle", "lookup", "info", "generate"}
        /\ pc'[n] # "idle" => asks'[n] = asks[n]
        /\ \A x \in Nodes \ {n} : pc'[x] = pc[x] /\ asks'[x] = asks[x] /\ stamp'[x] = stamp[x]
    BY <1>2, <2>1, ContinueTypes DEF LookupHit, CookTypes, TypeOK
  <2>3. UNCHANGED <<packages, nodes, shown>> /\ pc[n] = "lookup"
    BY <1>2 DEF LookupHit
  <2>4. TypeOK'
    BY <2>2, <2>3 DEF TypeOK, CookTypes
  <2>5. Asking' /\ Holding' /\ StampRead'
    BY <2>1, <2>2, <2>3 DEF Asking, Holding, StampRead
  <2>6. EntryOrdered'
    BY <2>3 DEF EntryOrdered
  <2>7. RulesInv'
    BY <2>2, <2>3 DEF RulesInv
  <2>. QED  BY <2>4, <2>5, <2>6, <2>7
<1>3. CASE LookupMiss(n)
  <2>1. asks[n] \in Rpks /\ disk[asks[n]].version \in 1 .. MaxVersion
    BY <1>3 DEF LookupMiss, Asking, TypeOK, File
  <2>2. TypeOK'
    BY <1>3, <2>1 DEF LookupMiss, TypeOK, Entry, NoEntry
  <2>3. Asking' /\ Holding' /\ StampRead'
    BY <1>3, <2>1 DEF LookupMiss, Asking, Holding, StampRead, TypeOK
  <2>4. EntryOrdered'
    BY <1>3, <2>1 DEF LookupMiss, EntryOrdered, TypeOK
  <2>5. /\ rules' = rules /\ asks' = asks
        /\ \A r \in Rpks : cache'[r].map = 0 \/ cache'[r] = cache[r]
        /\ \A x \in Nodes : pc[x] = "flush" => pc'[x] = "flush"
    BY <1>3, <2>1 DEF LookupMiss, TypeOK, NoEntry
  <2>6. RulesInv'
    BY <2>5 DEF RulesInv, TypeOK
  <2>. QED  BY <2>2, <2>3, <2>4, <2>6
<1>. QED  BY <1>1, <1>2, <1>3 DEF Lookup

(* The package is read: not before its time stamp was, and with the entry  *)
(* comes the duty to flush.                                                *)
LEMMA LoadIInv ==
    ASSUME IInv, NEW n \in Nodes, Load(n)
    PROVE  IInv'
<1>. USE PRTContextAssumption DEF IInv, packages, nodes, cooks, Nodes
<1>1. /\ asks[n] \in Rpks
      /\ disk[asks[n]].version \in 1 .. MaxVersion
      /\ stamp[n] \in 1 .. disk[asks[n]].version
  BY DEF Load, Asking, StampRead, TypeOK, File
<1>2. TypeOK'
  <2>1. CASE Whole(asks[n])
    <3>1. [stamp |-> stamp[n], map |-> disk[asks[n]].version] \in Entry
      BY <1>1 DEF Entry, TypeOK
    <3>2. /\ cache' = [cache EXCEPT ![asks[n]] =
                          [stamp |-> stamp[n], map |-> disk[asks[n]].version]]
          /\ found' = [found EXCEPT ![n] = disk[asks[n]].version]
      BY <2>1 DEF Load
    <3>3. cache' \in [Rpks -> Entry]
      BY <3>1, <3>2 DEF TypeOK
    <3>4. found' \in [Nodes -> 0 .. MaxVersion]
      BY <3>2, <1>1 DEF TypeOK
    <3>5. pc' \in [Nodes -> {"idle", "lookup", "load", "flush", "info", "generate",
                        "optimize"}]
          /\ UNCHANGED <<disk, rules, mutex, nodes, stage, asks, stamp, map, values, shown>>
      BY DEF Load, TypeOK
    <3>. QED  BY <3>3, <3>4, <3>5 DEF TypeOK
  <2>2. CASE ~Whole(asks[n])
    BY <2>2 DEF Load, TypeOK
  <2>. QED  BY <2>1, <2>2
<1>3. Asking' /\ Holding' /\ StampRead'
  BY <1>1 DEF Load, Asking, Holding, StampRead, TypeOK
<1>4. EntryOrdered'
  BY <1>1 DEF Load, EntryOrdered, TypeOK, Entry
<1>5. RulesInv'
  BY <1>1 DEF Load, RulesInv, TypeOK
<1>. QED  BY <1>2, <1>3, <1>4, <1>5

(* The flush leaves no rule file behind.                                   *)
LEMMA FlushIInv ==
    ASSUME IInv, NEW n \in Nodes, Flush(n)
    PROVE  IInv'
<1>. USE PRTContextAssumption DEF IInv, packages, nodes, cooks, Nodes
<1>1. asks[n] \in Rpks /\ found[n] \in 0 .. MaxVersion
  BY DEF Flush, Asking, TypeOK
<1>2. /\ CookTypes'
      /\ pc'[n] \in {"idle", "lookup", "info", "generate"}
      /\ pc'[n] # "idle" => asks'[n] = asks[n]
      /\ \A x \in Nodes \ {n} : pc'[x] = pc[x] /\ asks'[x] = asks[x] /\ stamp'[x] = stamp[x]
  BY <1>1, ContinueTypes DEF Flush, CookTypes, TypeOK
<1>3. /\ UNCHANGED <<disk, cache, parm, attr, mRPK, shown>>
      /\ rules' = [r \in Rpks |-> 0]
      /\ mutex' = Nobody /\ pc[n] = "flush"
      /\ dirty' \subseteq AssignNodes
  BY DEF Flush, Matching, TypeOK
<1>4. TypeOK'
  BY <1>2, <1>3 DEF TypeOK, CookTypes
<1>5. Asking' /\ StampRead'
  BY <1>1, <1>2, <1>3 DEF Asking, StampRead
<1>6. Holding'
  BY <1>2, <1>3 DEF Holding
<1>7. EntryOrdered' /\ RulesInv'
  BY <1>3 DEF EntryOrdered, RulesInv
<1>. QED  BY <1>4, <1>5, <1>6, <1>7

(* What a cook reads through the PRT cache is there already, or is the     *)
(* version of the file, and no resolve map is newer than that.             *)
LEMMA RuleVersionNew ==
    ASSUME IInv, NEW r \in Rpks
    PROVE  /\ RuleVersion(r) \in 0 .. MaxVersion
           /\ RuleVersion(r) \in {0, rules[r]} \/ RuleVersion(r) >= cache[r].map
BY PRTContextAssumption DEF IInv, TypeOK, EntryOrdered, RuleVersion, File, Entry, NoEntry

(* Reading a rule file without the mutex.                                  *)
LEMMA ReadIInv ==
    ASSUME IInv, NEW n \in Nodes, Info(n) \/ Generate(n)
    PROVE  IInv'
<1>. USE PRTContextAssumption DEF IInv, packages, nodes, cooks, Nodes
<1>1. asks[n] \in Rpks
  BY DEF Info, Generate, Asking
<1>. DEFINE v == RuleVersion(asks[n])
<1>2. /\ v \in 0 .. MaxVersion
      /\ v \in {0, rules[asks[n]]} \/ v >= cache[asks[n]].map
  BY <1>1, RuleVersionNew
<1>3. /\ rules' = [rules EXCEPT ![asks[n]] = v]
      /\ UNCHANGED <<disk, cache, mutex, nodes, stamp, found>>
      /\ pc[n] \in {"info", "generate"}
  BY DEF Info, Generate
<1>. HIDE DEF v
<1>4. /\ pc' \in [Nodes -> {"idle", "lookup", "load", "flush", "info", "generate",
                        "optimize"}]
      /\ pc'[n] \in {"idle", "lookup", "generate", "optimize"}
      /\ asks' \in [Nodes -> Rpks \cup {NoRpk}]
      /\ pc'[n] # "idle" => asks'[n] = asks[n]
      /\ \A x \in Nodes \ {n} : pc'[x] = pc[x] /\ asks'[x] = asks[x]
  BY DEF Info, Generate, End, TypeOK
<1>5. /\ stage' \in [Nodes -> 1 .. 3]
      /\ map' \in [Nodes -> 0 .. MaxVersion]
      /\ values' \in [Nodes -> 0 .. MaxVersion]
      /\ shown' \in [AssignNodes -> [map : 0 .. MaxVersion, values : 0 .. MaxVersion,
                                     ui : 0 .. MaxVersion]]
  <2>1. CASE Info(n) /\ stage[n] = 2
    BY <2>1 DEF Info, TypeOK
  <2>2. CASE Info(n) /\ stage[n] = 3 /\ pc'[n] # "optimize"
    <3>0. pc'[n] # "optimize" /\ stage[n] # 2
      BY <2>2
    <3>1. End(n) /\ (shown' = shown \/ (n \in AssignNodes
                       /\ shown' = [shown EXCEPT ![n] = Made(map[n], values[n], v)]))
      BY <2>2, <3>0 DEF Info, v, TypeOK
    <3>2. Made(map[n], values[n], v) \in [map : 0 .. MaxVersion, values : 0 .. MaxVersion,
                                          ui : 0 .. MaxVersion]
      BY <1>2 DEF Made, TypeOK
    <3>3. shown' \in [AssignNodes -> [map : 0 .. MaxVersion, values : 0 .. MaxVersion,
                                      ui : 0 .. MaxVersion]]
      BY <3>1, <3>2 DEF TypeOK
    <3>. QED  BY <3>1, <3>3 DEF End, TypeOK
  <2>3. CASE Generate(n) /\ v # 0
    <3>1. /\ values' = [values EXCEPT ![n] = v]
          /\ stage' = [stage EXCEPT ![n] = 3]
          /\ map' = map /\ shown' = shown
      BY <2>3 DEF Generate, v
    <3>. QED  BY <3>1, <1>2 DEF TypeOK
  <2>4. CASE Generate(n) /\ v = 0
    <3>1. End(n) /\ shown' = shown
      BY <2>4 DEF Generate, v
    <3>. QED  BY <3>1 DEF End, TypeOK
  <2>5. CASE Info(n) /\ pc'[n] = "optimize"
    <3>1. UNCHANGED <<stage, map, values, shown>>
      BY <2>5 DEF Info, End, TypeOK
    <3>. QED  BY <3>1 DEF TypeOK
  <2>6. stage[n] \in {2, 3} \/ ~Info(n)
    BY DEF Info
  <2>. QED  BY <2>1, <2>2, <2>3, <2>4, <2>5, <2>6
<1>6. TypeOK'
  BY <1>2, <1>3, <1>4, <1>5 DEF TypeOK
<1>7. Asking' /\ Holding' /\ StampRead'
  BY <1>1, <1>3, <1>4 DEF Asking, Holding, StampRead
<1>8. EntryOrdered'
  BY <1>3 DEF EntryOrdered
<1>9. RulesInv'
  BY <1>1, <1>2, <1>3, <1>4 DEF RulesInv, TypeOK
<1>. QED  BY <1>6, <1>7, <1>8, <1>9

(* The flush of updateRPK, without the mutex, leaves no rule file either.  *)
LEMMA OptimizeIInv ==
    ASSUME IInv, NEW n \in Nodes, Optimize(n)
    PROVE  IInv'
<1>. USE PRTContextAssumption DEF IInv, packages, nodes, cooks, Nodes
<1>1. /\ UNCHANGED <<disk, cache, mutex, nodes, stamp, found, shown>>
      /\ rules' = [r \in Rpks |-> 0]
      /\ pc' = [pc EXCEPT ![n] = "idle"]
      /\ asks' = [asks EXCEPT ![n] = NoRpk]
  BY DEF Optimize, End
<1>2. TypeOK'
  BY <1>1 DEF Optimize, End, TypeOK
<1>3. Asking' /\ Holding' /\ StampRead'
  BY <1>1 DEF Asking, Holding, StampRead, TypeOK
<1>4. EntryOrdered' /\ RulesInv'
  BY <1>1 DEF EntryOrdered, RulesInv
<1>. QED  BY <1>2, <1>3, <1>4

(* The invariant is inductive.                                             *)
LEMMA NextIInv == IInv /\ [Next]_vars => IInv'
<1>. SUFFICES ASSUME IInv, [Next]_vars PROVE IInv'
  OBVIOUS
<1>1. CASE Environment
  BY <1>1, EnvironmentIInv
<1>2. CASE \E n \in AssignNodes : StartCook(n)
  BY <1>2, StartIInv DEF Nodes
<1>3. CASE \E n \in Clients, r \in Rpks : StartRequest(n, r)
  BY <1>3, StartIInv DEF Nodes
<1>4. CASE \E n \in Nodes : Lookup(n) \/ Work(n)
  BY <1>4, LookupIInv, LoadIInv, FlushIInv, ReadIInv, OptimizeIInv DEF Work
<1>5. CASE UNCHANGED vars
  BY <1>5 DEF vars, packages, nodes, cooks, IInv, TypeOK, Asking, Holding, StampRead,
              EntryOrdered, RulesInv
<1>. QED  BY <1>1, <1>2, <1>3, <1>4, <1>5 DEF Next

(* The invariant holds always.                                             *)
LEMMA IInvAlways == Spec => []IInv
BY InitIInv, NextIInv, PTL DEF Spec

-----------------------------------------------------------------------------
(* The types of the caches, the nodes and their cooks, whatever the        *)
(* environment does.                                                       *)
THEOREM TypeCorrect == Spec => []TypeOK
<1>1. IInv => TypeOK
  BY DEF IInv
<1>. QED  BY <1>1, IInvAlways, PTL

(* ResolveMapCache::get never takes a changed package for the one its      *)
(* entry was made from: an entry with the time stamp of the file holds     *)
(* what the file holds.                                                    *)
THEOREM EntryFreshHolds == Spec => []EntryFresh
<1>1. IInv => EntryFresh
  BY PRTContextAssumption DEF IInv, EntryFresh, EntryOrdered, TypeOK, File, Entry, NoEntry
<1>. QED  BY <1>1, IInvAlways, PTL

(* getResolveMap: whenever the mutex is free, no rule file in the PRT      *)
(* cache is from before the version of the package that the resolve map in *)
(* the other cache was made of, though both are filled at moments of their *)
(* own and the PRT cache without the mutex.                                *)
THEOREM RulesNotOlderHolds == Spec => []RulesNotOlder
<1>1. IInv => RulesNotOlder
  BY PRTContextAssumption DEF IInv, RulesNotOlder, RulesInv, Holding, Nodes
<1>. QED  BY <1>1, IInvAlways, PTL
=============================================================================
