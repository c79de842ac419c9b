----------------------------- MODULE PRTContext -----------------------------
(***************************************************************************)
(* Rule packages on disk, the two caches the plugin keeps of them, and the *)
(* nodes that cook with them: ResolveMapCache::get and                     *)
(* PRTContext::getResolveMap under mResolveMapCacheMutex, the flush of the *)
(* PRT cache and the recook of the assign nodes when a package is found to *)
(* have changed, and the three lookups of one cook of SOPAssign.           *)
(*                                                                         *)
(* A package is written, half written or deleted at any moment, also       *)
(* between the two moments at which a lookup looks at it.  Of the initial  *)
(* shapes of a cook one is modelled.  External: a write changes the        *)
(* modification time; prt::generate and createRuleFileInfo read a rule     *)
(* file through the PRT cache, in one step, and fail if it cannot be read; *)
(* OP_Node::forceRecook makes a node cook again, after the cook it is in.  *)
(***************************************************************************)
EXTENDS Naturals

CONSTANTS AssignNodes,  \* pldAssign nodes
          Clients,      \* pldGenerate cooks, parameter menus, updateRPK
          Rpks,         \* rule packages
          AttrRpks,     \* packages that incoming pldRPK attributes name
          MaxVersion,   \* bound on the versions of one package
          NoRpk,        \* no attribute, or no main attributes yet
          Nobody        \* no one holds the mutex

ASSUME PRTContextAssumption ==
    /\ AssignNodes \cap Clients = {}
    /\ Nobody \notin AssignNodes \cup Clients
    /\ NoRpk \notin Rpks
    /\ AttrRpks \subseteq Rpks
    /\ MaxVersion \in Nat \ {0}

VARIABLES disk,   \* disk[r]: the file, versions standing for time stamps
          cache,  \* cache[r]: ResolveMapCache::mCache
          rules,  \* rules[r]: the version of r's rule file in mPRTCache, or 0
          mutex,  \* who holds mResolveMapCacheMutex
          parm,   \* parm[n]: the RPK parameter of an assign node
          attr,   \* attr[n]: the pldRPK attribute of its input, or NoRpk
          mRPK,   \* mRPK[n]: mDefaultMainAttributes.mRPK of an assign node
          dirty,  \* assign nodes that have to cook
          pc,     \* pc[n]: where n is
          stage,  \* stage[n]: which of the lookups of a cook n is at
          asks,   \* asks[n]: the package n looks up
          stamp,  \* stamp[n]: the time stamp its lookup read
          found,  \* found[n]: the version its lookup returns, 0 for none
          map,    \* map[n]: the resolve map the cook gives the initial shape
          values, \* values[n]: the rule version its attributes come from
          shown   \* shown[n]: what the last complete cook was made from

packages == <<disk, cache, rules, mutex>>
nodes == <<parm, attr, mRPK, dirty>>
cooks == <<pc, stage, asks, stamp, found, map, values, shown>>
vars == <<packages, nodes, cooks>>

Nodes == AssignNodes \cup Clients

(* A half-written package has a time stamp but no resolve map.             *)
File == [version : 1 .. MaxVersion, state : {"whole", "partial", "missing"}]

(* mTimeStamp, and the version that prt::createResolveMap read.            *)
NoEntry == [stamp |-> 0, map |-> 0]
Entry == [stamp : 0 .. MaxVersion, map : 0 .. MaxVersion]

(* The resolve map, the evaluated attributes and the parameter UI of a     *)
(* cook, by the version of the package each comes from.                    *)
Made(v, w, u) == [map |-> v, values |-> w, ui |-> u]

Whole(r) == disk[r].state = "whole"

-----------------------------------------------------------------------------
Init ==
    /\ disk \in [Rpks -> [version : {1}, state : {"whole", "missing"}]]
    /\ cache = [r \in Rpks |-> NoEntry]
    /\ rules = [r \in Rpks |-> 0]
    /\ mutex = Nobody
    /\ parm \in [AssignNodes -> Rpks]
    /\ attr \in [AssignNodes -> AttrRpks \cup {NoRpk}]
    /\ mRPK = [n \in AssignNodes |-> NoRpk]
    /\ dirty = AssignNodes
    /\ pc = [n \in Nodes |-> "idle"]
    /\ stage = [n \in Nodes |-> 1]
    /\ asks = [n \in Nodes |-> NoRpk]
    /\ stamp = [n \in Nodes |-> 0]
    /\ found = [n \in Nodes |-> 0]
    /\ map = [n \in Nodes |-> 0]
    /\ values = [n \in Nodes |-> 0]
    /\ shown = [n \in AssignNodes |-> Made(0, 0, 0)]

(* The environment: someone exports or deletes a package, the user picks   *)
(* another one.                                                            *)
Write(r) ==
    /\ disk[r].version < MaxVersion
    /\ \E s \in {"whole", "partial"} :
         disk' = [disk EXCEPT ![r] = [version |-> @.version + 1, state |-> s]]
    /\ UNCHANGED <<cache, rules, mutex, nodes, cooks>>

Delete(r) ==
    /\ disk[r].state # "missing"
    /\ disk' = [disk EXCEPT ![r].state = "missing"]
    /\ UNCHANGED <<cache, rules, mutex, nodes, cooks>>

SetParm(n, r) ==
    /\ parm[n] # r
    /\ parm' = [parm EXCEPT ![n] = r]
    /\ dirty' = dirty \cup {n}
    /\ UNCHANGED <<packages, attr, mRPK, cooks>>

-----------------------------------------------------------------------------
(* SOPAssign::cookMySop takes the main attributes from the parameters; an  *)
(* incoming primitive attribute goes before the parameter.                 *)
StartCook(n) ==
    /\ n \in dirty
    /\ pc[n] = "idle"
    /\ dirty' = dirty \ {n}
    /\ mRPK' = [mRPK EXCEPT ![n] = parm[n]]
    /\ asks' = [asks EXCEPT ![n] = IF attr[n] = NoRpk THEN parm[n] ELSE attr[n]]
    /\ pc' = [pc EXCEPT ![n] = "lookup"]
    /\ stage' = [stage EXCEPT ![n] = 1]
    /\ UNCHANGED <<packages, parm, attr, stamp, found, map, values, shown>>

(* Any other caller: one lookup for some package, then its rule file.      *)
StartRequest(n, r) ==
    /\ pc[n] = "idle"
    /\ asks' = [asks EXCEPT ![n] = r]
    /\ pc' = [pc EXCEPT ![n] = "lookup"]
    /\ stage' = [stage EXCEPT ![n] = 3]
    /\ UNCHANGED <<packages, nodes, stamp, found, map, values, shown>>

(* The cook or request of n is over, complete or not.                      *)
End(n) ==
    /\ pc' = [pc EXCEPT ![n] = "idle"]
    /\ stage' = [stage EXCEPT ![n] = 1]
    /\ asks' = [asks EXCEPT ![n] = NoRpk]
    /\ map' = [map EXCEPT ![n] = 0]
    /\ values' = [values EXCEPT ![n] = 0]

(* How n goes on when its lookup returns version m, 0 for no resolve map.  *)
(* The first lookup is for the resolve map of the initial shape and the    *)
(* second for its rule file info, without which the evaluation goes on;    *)
(* the third is for the rule file info of the parameter UI.                *)
Continue(n, m) ==
    /\ stamp' = [stamp EXCEPT ![n] = 0]
    /\ found' = [found EXCEPT ![n] = 0]
    /\ \/ /\ stage[n] = 1 /\ m # 0
          /\ stage' = [stage EXCEPT ![n] = 2]
          /\ pc' = [pc EXCEPT ![n] = "lookup"]
          /\ map' = [map EXCEPT ![n] = m]
          /\ UNCHANGED <<asks, values>>
       \/ /\ stage[n] # 1 /\ m # 0
          /\ pc' = [pc EXCEPT ![n] = "info"]
          /\ UNCHANGED <<stage, asks, map, values>>
       \/ /\ stage[n] = 2 /\ m = 0
          /\ pc' = [pc EXCEPT ![n] = "generate"]
          /\ UNCHANGED <<stage, asks, map, values>>
       \/ /\ stage[n] # 2 /\ m = 0
          /\ End(n)

-----------------------------------------------------------------------------
(* ResolveMapCache::get and getResolveMap, from lock to unlock.            *)

(* No valid time stamp: a lookup failure, which also is a MISS.            *)
LookupMissing(n) ==
    /\ pc[n] = "lookup"
    /\ mutex = Nobody
    /\ disk[asks[n]].state = "missing"
    /\ mutex' = n
    /\ pc' = [pc EXCEPT ![n] = "flush"]
    /\ UNCHANGED <<disk, cache, rules, nodes, stage, asks, stamp, found, map,
                   values, shown>>

(* Variant: a HIT forces recooks as well.                                  *)
LookupHit_recooks(n) ==
    LET r == asks[n] IN
    /\ pc[n] = "lookup"
    /\ mutex = Nobody
    /\ disk[r].state # "missing"
    /\ cache[r].stamp = disk[r].version
    /\ Continue(n, cache[r].map)
    /\ dirty' = dirty \cup {a \in AssignNodes : mRPK[a] = r}
    /\ UNCHANGED <<packages, parm, attr, mRPK, shown>>

(* The entry has the time stamp of the file.                               *)
LookupHit(n) ==
    LET r == asks[n] IN
    /\ pc[n] = "lookup"
    /\ mutex = Nobody
    /\ disk[r].state # "missing"
    /\ cache[r].stamp = disk[r].version
    /\ Continue(n, cache[r].map)
    /\ UNCHANGED <<packages, nodes, shown>>

(* No entry, or one with another time stamp, which is erased; the mutex    *)
(* stays locked while the package is read.                                 *)
LookupMiss(n) ==
    LET r == asks[n] IN
    /\ pc[n] = "lookup"
    /\ mutex = Nobody
    /\ disk[r].state # "missing"
    /\ cache[r].stamp # disk[r].version
    /\ mutex' = n
    /\ cache' = [cache EXCEPT ![r] = NoEntry]
    /\ stamp' = [stamp EXCEPT ![n] = disk[r].version]
    /\ pc' = [pc EXCEPT ![n] = "load"]
    /\ UNCHANGED <<disk, rules, nodes, stage, asks, found, map, values, shown>>

(* Variant: the package is read first and the time stamp taken after.      *)
Load_stampAfter(n) ==
    LET r == asks[n] IN
    /\ pc[n] = "load"
    /\ pc' = [pc EXCEPT ![n] = "flush"]
    /\ IF Whole(r)
       THEN /\ cache' = [cache EXCEPT ![r] = [stamp |-> disk[r].version,
                                              map |-> stamp[n]]]
            /\ found' = [found EXCEPT ![n] = stamp[n]]
       ELSE UNCHANGED <<cache, found>>
    /\ UNCHANGED <<disk, rules, mutex, nodes, stage, asks, stamp, map, values,
                   shown>>

(* createResolveMap reads the package as it is by now, and the map enters  *)
(* the cache under the time stamp read before; or the lookup fails.        *)
Load(n) ==
    LET r == asks[n] IN
    /\ pc[n] = "load"
    /\ pc' = [pc EXCEPT ![n] = "flush"]
    /\ IF Whole(r)
       THEN /\ cache' = [cache EXCEPT ![r] = [stamp |-> stamp[n],
                                              map |-> disk[r].version]]
            /\ found' = [found EXCEPT ![n] = disk[r].version]
       ELSE UNCHANGED <<cache, found>>
    /\ UNCHANGED <<disk, rules, mutex, nodes, stage, asks, stamp, map, values,
                   shown>>

(* Variant: the visitor casts any node that uses the package.              *)
Matching_anyOperator(r) == {n \in Nodes : asks[n] = r}

(* scheduleRecook: all assign nodes whose main attributes name the package *)
Matching(r) == {n \in AssignNodes : mRPK[n] = r}

(* Variant: only nodes that are not cooking are marked.                    *)
Flush_idleOnly(n) ==
    /\ pc[n] = "flush"
    /\ rules' = [r \in Rpks |-> 0]
    /\ dirty' = dirty \cup {a \in Matching(asks[n]) : pc[a] = "idle"}
    /\ mutex' = Nobody
    /\ Continue(n, found[n])
    /\ UNCHANGED <<disk, cache, parm, attr, mRPK, shown>>

(* Variant: the PRT cache is not flushed.                                  *)
Flush_keepsRules(n) ==
    /\ pc[n] = "flush"
    /\ dirty' = dirty \cup Matching(asks[n])
    /\ mutex' = Nobody
    /\ Continue(n, found[n])
    /\ UNCHANGED <<disk, cache, rules, parm, attr, mRPK, shown>>

(* After a MISS, flush the PRT cache and force the recooks; then unlock.   *)
Flush(n) ==
    /\ pc[n] = "flush"
    /\ rules' = [r \in Rpks |-> 0]
    /\ dirty' = dirty \cup Matching(asks[n])
    /\ mutex' = Nobody
    /\ Continue(n, found[n])
    /\ UNCHANGED <<disk, cache, parm, attr, mRPK, shown>>

-----------------------------------------------------------------------------
(* Reading a rule file through the PRT cache, without the mutex.           *)

RuleVersion(r) ==
    IF rules[r] # 0 THEN rules[r] ELSE IF Whole(r) THEN disk[r].version ELSE 0

(* createRuleFileInfo, for the filter of the evaluation or for the UI.     *)
Info(n) ==
    LET v == RuleVersion(asks[n]) IN
    /\ pc[n] = "info"
    /\ rules' = [rules EXCEPT ![asks[n]] = v]
    /\ \/ /\ stage[n] = 2
          /\ pc' = [pc EXCEPT ![n] = "generate"]
          /\ UNCHANGED <<stage, asks, map, values, shown>>
       \/ /\ stage[n] = 3
          /\ shown' = IF n \in AssignNodes /\ v # 0
                      THEN [shown EXCEPT ![n] = Made(map[n], values[n], v)]
                      ELSE shown
          /\ End(n)
       \/ /\ stage[n] = 3 /\ n \in Clients /\ v # 0
          /\ pc' = [pc EXCEPT ![n] = "optimize"]
          /\ UNCHANGED <<stage, asks, map, values, shown>>
    /\ UNCHANGED <<disk, cache, mutex, nodes, stamp, found>>

(* updateRPK has set style and start rule, and flushes the PRT cache       *)
(* without the mutex; the other requests have ended before.                *)
Optimize(n) ==
    /\ pc[n] = "optimize"
    /\ rules' = [r \in Rpks |-> 0]
    /\ End(n)
    /\ UNCHANGED <<disk, cache, mutex, nodes, stamp, found, shown>>

(* prt::generate evaluates the default rule attributes.                    *)
Generate(n) ==
    LET v == RuleVersion(asks[n]) IN
    /\ pc[n] = "generate"
    /\ rules' = [rules EXCEPT ![asks[n]] = v]
    /\ \/ /\ v # 0
          /\ values' = [values EXCEPT ![n] = v]
          /\ stage' = [stage EXCEPT ![n] = 3]
          /\ pc' = [pc EXCEPT ![n] = "lookup"]
          /\ UNCHANGED <<asks, map>>
       \/ /\ v = 0
          /\ End(n)
    /\ UNCHANGED <<disk, cache, mutex, nodes, stamp, found, shown>>

-----------------------------------------------------------------------------
Lookup(n) ==
    \/ LookupMissing(n)
    \/ LookupHit(n)
    \/ LookupMiss(n)

Work(n) ==
    \/ Load(n)
    \/ Flush(n)
    \/ Info(n)
    \/ Generate(n)
    \/ Optimize(n)

Environment ==
    \/ \E r \in Rpks : Write(r) \/ Delete(r)
    \/ \E n \in AssignNodes, r \in Rpks : SetParm(n, r)

Next ==
    \/ Environment
    \/ \E n \in AssignNodes : StartCook(n)
    \/ \E n \in Clients, r \in Rpks : StartRequest(n, r)
    \/ \E n \in Nodes : Lookup(n) \/ Work(n)

Spec == Init /\ [][Next]_vars

(* Houdini cooks a displayed node that is dirty, and a cook runs to its    *)
(* end: a thread that waits for the mutex gets it in the end, although     *)
(* others keep on taking it.                                               *)
Fairness ==
    /\ \A n \in AssignNodes : WF_vars(StartCook(n))
    /\ \A n \in Nodes : SF_vars(Lookup(n)) /\ WF_vars(Work(n))

FairSpec == Spec /\ Fairness

-----------------------------------------------------------------------------
TypeOK ==
    /\ disk \in [Rpks -> File]
    /\ cache \in [Rpks -> Entry]
    /\ rules \in [Rpks -> 0 .. MaxVersion]
    /\ mutex \in Nodes \cup {Nobody}
    /\ parm \in [AssignNodes -> Rpks]
    /\ attr \in [AssignNodes -> Rpks \cup {NoRpk}]
    /\ mRPK \in [AssignNodes -> Rpks \cup {NoRpk}]
    /\ dirty \subseteq AssignNodes
    /\ pc \in [Nodes -> {"idle", "lookup", "load", "flush", "info", "generate",
                        "optimize"}]
    /\ stage \in [Nodes -> 1 .. 3]
    /\ asks \in [Nodes -> Rpks \cup {NoRpk}]
    /\ stamp \in [Nodes -> 0 .. MaxVersion]
    /\ found \in [Nodes -> 0 .. MaxVersion]
    /\ map \in [Nodes -> 0 .. MaxVersion]
    /\ values \in [Nodes -> 0 .. MaxVersion]
    /\ shown \in [AssignNodes -> [map : 0 .. MaxVersion, values : 0 .. MaxVersion,
                                  ui : 0 .. MaxVersion]]

(* A package may change between the time stamp and the reading of one      *)
(* lookup.  Still an entry whose time stamp is the one of the file holds   *)
(* what the file holds, so a HIT never returns an old resolve map, and no  *)
(* change is mistaken for the state the entry was made from.               *)
EntryFresh ==
    \A r \in Rpks :
      cache[r] # NoEntry /\ cache[r].stamp = disk[r].version
        => cache[r].map = disk[r].version

(* The two caches of one package do not drift apart: when the mutex is     *)
(* free, the rule file in the PRT cache, which other threads fill and      *)
(* flush without the mutex, is not from before the version the resolve map *)
(* was made of, also when that is a later one than its time stamp says.    *)
RulesNotOlder ==
    mutex = Nobody =>
      \A r \in Rpks : rules[r] = 0 \/ rules[r] >= cache[r].map

(* "Added support to reload RPKs": once any caller's lookup has seen       *)
(* version v of a package, each assign node set to it ends up with the     *)
(* resolve map, the attribute values and the parameters of v, unless the   *)
(* package or the parameter changes again.                                 *)
Settled(n, v) == shown[n] = Made(v, v, v)

Superseded(n, r, v) ==
    parm[n] # r \/ ~Whole(r) \/ disk[r].version # v

ReloadReachesNodes ==
    \A n \in AssignNodes, r \in Rpks, v \in 1 .. MaxVersion :
      (attr[n] = NoRpk /\ parm[n] = r /\ cache[r].stamp = v /\ mutex = Nobody)
        ~> (Settled(n, v) \/ Superseded(n, r, v))

(* Recooks come to an end: a node forces recooks from within its own cook, *)
(* yet when packages and parameters stay as they are and the packages can  *)
(* be read, from some time on no node is dirty.                            *)
RecooksEnd ==
    <>[](\A r \in Rpks : Whole(r)) /\ <>[][FALSE]_<<disk, parm>>
      => <>[](dirty = {})
=============================================================================
