-------------------------- MODULE ShapeAssignProofs --------------------------
(***************************************************************************)
(* Proofs about ShapeAssign, for any number of primitives, any classifier  *)
(* values and any rule packages: the parts are a partition, the vectors of *)
(* ShapeData stay in step, and pldGenerate sees what pldAssign assigned.   *)
(***************************************************************************)
EXTENDS ShapeAssign, TLAPS, FiniteSetTheorems, FunctionTheorems, SequenceTheorems

-----------------------------------------------------------------------------
(* The parts by rank.                                                      *)

ValuesOf(d, name) == {ClassifierValue(d, p, name) : p \in Prims}
UpTo(values, v) == {w \in values : w <= v}
Rank(values, v) == Cardinality(UpTo(values, v))
Nth(values, i) == CHOOSE v \in values : Rank(values, v) = i

LEMMA PartsByRank ==
    ASSUME NEW d, NEW name
    PROVE  Parts(d, name) = [i \in 1 .. Cardinality(ValuesOf(d, name)) |->
                               PartOf(d, Nth(ValuesOf(d, name), i), name)]
BY DEF Parts, ValuesOf, UpTo, Rank, Nth

(* A set of numbers that is not empty has a minimum.                       *)
LEMMA MinOfNats ==
    ASSUME NEW S \in SUBSET Nat, S # {}
    PROVE  Min(S) \in S /\ \A x \in S : Min(S) <= x
<1>. DEFINE less == {pair \in Nat \X Nat : pair[1] < pair[2]}
<1>1. IsWellFoundedOn(less, Nat)
  BY NatLessThanWellFounded DEF OpToRel
<1>. HIDE DEF less
<1>2. \E x \in S : \A y \in S : ~(<<y, x>> \in less)
  BY <1>1, WFMin
<1>3. \A x, y \in S : ~(<<y, x>> \in less) => x <= y
  BY DEF less
<1>4. \E x \in S : \A y \in S : x <= y
  BY <1>2, <1>3
<1>. QED  BY <1>4 DEF Min

(* Each rank is that of one value: a finite set of integers in order.      *)
LEMMA RanksAreABijection ==
    ASSUME NEW V \in SUBSET Int, IsFiniteSet(V)
    PROVE  /\ \A v \in V : Rank(V, v) \in 1 .. Cardinality(V)
           /\ \A v, w \in V : Rank(V, v) = Rank(V, w) => v = w
           /\ \A i \in 1 .. Cardinality(V) : \E v \in V : Rank(V, v) = i
<1>1. Cardinality(V) \in Nat
  BY FS_CardinalityType
<1>2. ASSUME NEW v \in V
      PROVE  /\ IsFiniteSet(UpTo(V, v)) /\ v \in UpTo(V, v)
             /\ Rank(V, v) \in 1 .. Cardinality(V)
  <2>1. UpTo(V, v) \in SUBSET V /\ v \in UpTo(V, v)
    BY DEF UpTo
  <2>2. IsFiniteSet(UpTo(V, v)) /\ Cardinality(UpTo(V, v)) <= Cardinality(V)
    BY <2>1, FS_Subset
  <2>3. Cardinality(UpTo(V, v)) \in Nat /\ Cardinality(UpTo(V, v)) # 0
    BY <2>1, <2>2, FS_CardinalityType, FS_EmptySet
  <2>. QED  BY <1>1, <2>1, <2>2, <2>3 DEF Rank
<1>3. ASSUME NEW v \in V, NEW w \in V, v < w PROVE Rank(V, v) # Rank(V, w)
  <2>1. UpTo(V, v) \in SUBSET UpTo(V, w) /\ w \notin UpTo(V, v)
    <3>1. \A x \in V : x \in Int
      OBVIOUS
    <3>2. \A x \in V : x <= v => x <= w
      BY <1>3, <3>1
    <3>3. ~(w <= v)
      BY <1>3, <3>1
    <3>. QED  BY <3>2, <3>3 DEF UpTo
  <2>2. Cardinality(UpTo(V, w)) = Cardinality(UpTo(V, v)) => UpTo(V, w) = UpTo(V, v)
    BY <1>2, <2>1, FS_Subset
  <2>. QED  BY <1>2, <2>1, <2>2 DEF Rank
<1>4. \A v, w \in V : Rank(V, v) = Rank(V, w) => v = w
  BY <1>3
<1>5. \A i \in 1 .. Cardinality(V) : \E v \in V : Rank(V, v) = i
  <2>. DEFINE rank == [v \in V |-> Rank(V, v)]
              n == Cardinality(V)
  <2>1. rank \in [V -> 1 .. n] /\ \A v \in V : rank[v] = Rank(V, v)
    BY <1>2
  <2>2. IsFiniteSet(1 .. n) /\ Cardinality(1 .. n) = n
    BY <1>1, FS_Interval
  <2>. HIDE DEF rank, n
  <2>3. rank \in Injection(V, 1 .. n)
    BY <1>4, <2>1, Fun_IsInj
  <2>4. rank \in Surjection(V, 1 .. n)
    BY <2>2, <2>3, FS_Injection DEF n
  <2>5. \A i \in 1 .. n : \E v \in V : rank[v] = i
    BY <2>4, Fun_SurjectionProperties
  <2>. QED  BY <2>1, <2>5 DEF n
<1>. QED  BY <1>2, <1>4, <1>5

(* The classifier values of a detail.                                      *)
Classified(d) == \A p \in Prims : d.prims[p].cls \in Int

LEMMA PrimsFinite == Prims \in SUBSET Nat /\ Prims # {} /\ IsFiniteSet(Prims)
<1>1. IsFiniteSet(1 .. NumPrims)
  BY FS_Interval, ShapeAssignAssumption
<1>. QED  BY <1>1, ShapeAssignAssumption DEF Prims

LEMMA ValuesFinite ==
    ASSUME NEW d, NEW name, Classified(d)
    PROVE  LET V == ValuesOf(d, name) IN
           V \in SUBSET Int /\ IsFiniteSet(V) /\ Cardinality(V) \in Nat \ {0}
<1>. DEFINE V == ValuesOf(d, name)
            value == [p \in Prims |-> ClassifierValue(d, p, name)]
<1>1. V \in SUBSET Int
  BY DEF ValuesOf, ClassifierValue, Classified, InvalidClsValue
<1>2. value \in [Prims -> V] /\ \A v \in V : \E p \in Prims : value[p] = v
  BY DEF ValuesOf
<1>3. V # {}
  BY PrimsFinite DEF ValuesOf
<1>. HIDE DEF V, value
<1>4. value \in Surjection(Prims, V)
  BY <1>2, Fun_IsSurj
<1>5. IsFiniteSet(V)
  BY <1>4, PrimsFinite, FS_Surjection
<1>6. Cardinality(V) \in Nat /\ Cardinality(V) # 0
  BY <1>3, <1>5, FS_CardinalityType, FS_EmptySet
<1>. QED  BY <1>1, <1>5, <1>6 DEF V

(* The parts are a partition of the primitives (PrimitivePartition::add    *)
(* puts each primitive into one).                                          *)
IsPartition(parts) ==
    /\ parts \in Seq(SUBSET Prims)
    /\ Len(parts) >= 1
    /\ \A i \in DOMAIN parts : parts[i] # {}
    /\ \A p \in Prims : \E i \in DOMAIN parts : p \in parts[i]
    /\ \A i, j \in DOMAIN parts : i # j => parts[i] \cap parts[j] = {}

LEMMA PartsPartition ==
    ASSUME NEW d, NEW name, Classified(d)
    PROVE  IsPartition(Parts(d, name))
<1>. DEFINE V == ValuesOf(d, name)
            n == Cardinality(V)
            parts == Parts(d, name)
<1>1. V \in SUBSET Int /\ IsFiniteSet(V) /\ n \in Nat \ {0}
  BY ValuesFinite
<1>2. parts = [i \in 1 .. n |-> PartOf(d, Nth(V, i), name)]
  BY PartsByRank
<1>3. \A p \in Prims : ClassifierValue(d, p, name) \in V
  BY DEF ValuesOf
<1>4. \A v \in V : \E p \in Prims : ClassifierValue(d, p, name) = v
  BY DEF ValuesOf
<1>. HIDE DEF V, parts
<1>5. /\ \A v \in V : Rank(V, v) \in 1 .. n
      /\ \A v, w \in V : Rank(V, v) = Rank(V, w) => v = w
      /\ \A i \in 1 .. n : \E v \in V : Rank(V, v) = i
  BY <1>1, RanksAreABijection
<1>6. \A i \in 1 .. n : Nth(V, i) \in V /\ Rank(V, Nth(V, i)) = i
  BY <1>5 DEF Nth
<1>. HIDE DEF n
<1>7. DOMAIN parts = 1 .. n /\ \A i \in 1 .. n : parts[i] = PartOf(d, Nth(V, i), name)
  BY <1>2
<1>8. parts \in Seq(SUBSET Prims) /\ Len(parts) = n
  <2>1. \A i \in 1 .. n : PartOf(d, Nth(V, i), name) \in SUBSET Prims
    BY DEF PartOf
  <2>. QED  BY <1>1, <1>2, <2>1, IsASeq
<1>9. \A i \in 1 .. n : parts[i] # {}
  BY <1>4, <1>6, <1>7 DEF PartOf
<1>10. ASSUME NEW p \in Prims PROVE \E i \in 1 .. n : p \in parts[i]
  <2>. DEFINE v == ClassifierValue(d, p, name)
  <2>1. v \in V /\ Rank(V, v) \in 1 .. n
    BY <1>3, <1>5
  <2>2. Nth(V, Rank(V, v)) = v
    BY <1>5, <1>6, <2>1
  <2>. QED  BY <1>7, <2>1, <2>2 DEF PartOf
<1>11. ASSUME NEW i \in 1 .. n, NEW j \in 1 .. n, i # j PROVE parts[i] \cap parts[j] = {}
  <2>1. Nth(V, i) # Nth(V, j)
    BY <1>6, <1>11
  <2>. QED  BY <1>7, <2>1 DEF PartOf
<1>12. IsPartition(parts)
  BY <1>1, <1>7, <1>8, <1>9, <1>10, <1>11 DEF IsPartition
<1>. QED  BY <1>12 DEF parts

(* Two nodes that see the same classifier values make the same parts.      *)
LEMMA SameParts ==
    ASSUME NEW d, NEW e, NEW m, NEW n,
           \A p \in Prims : ClassifierValue(d, p, m) = ClassifierValue(e, p, n)
    PROVE  Parts(d, m) = Parts(e, n)
<1>1. ValuesOf(d, m) = ValuesOf(e, n)
  BY DEF ValuesOf
<1>2. \A v : PartOf(d, v, m) = PartOf(e, v, n)
  BY DEF PartOf
<1>. QED  BY <1>1, <1>2, PartsByRank

-----------------------------------------------------------------------------
(* The inductive invariant.                                                *)

SeedValues == {Number(s) : s \in Seeds \cup {0}} \cup {Hash(part) : part \in SUBSET Prims}

(* Where nothing has been written to the primitives yet, where the parts   *)
(* are those of pldAssign, and where its loop is over.                     *)
Unwritten == {"get", "create", "defaults", "put", "aborted"}
Written == {"divide", "extract", "done"}
Evaluated == {"defaults", "put"} \cup Written

(* The parts of pldAssign, and the initial shape that belongs to a part.   *)
Assigned == Parts(input, parms.name)

Made(i) ==
    [prims |-> Assigned[i],
     rpk |-> RpkOf(input, First(Assigned[i]), parms.rpk),
     seed |-> IF parms.overrideSeed THEN parms.seed ELSE SeedOf(input, Assigned[i])]

InputInv ==
    /\ pc \in Unwritten \cup Written
    /\ readable \subseteq Rpks
    /\ parms \in [name : ClsNames, rpk : Rpks \cup {None}, overrideSeed : BOOLEAN,
                  seed : {Number(s) : s \in Seeds}]
    /\ input \in Details

(* What put has written is complete if the indices are in step; what it    *)
(* has not written is the input's.                                         *)
DetailInv ==
    /\ pc \in Unwritten => detail = input
    /\ \A p \in Prims : /\ detail.prims[p].cls = input.prims[p].cls
                        /\ detail.prims[p].seed \in SeedValues
    /\ pc \in Written => detail.hasName /\ detail.hasSeed
    /\ pc \in Written /\ InStep =>
         \A p \in Prims :
           /\ detail.prims[p].name = parms.name
           /\ detail.prims[p].rpk = RpkOf(input, p, parms.rpk)
           /\ \A j \in DOMAIN Assigned : p \in Assigned[j] => detail.prims[p].seed = Made(j).seed

MappingInv ==
    /\ pc \in (Unwritten \ {"get"}) \cup {"divide"} => mapping = Assigned
    /\ pc \in {"extract", "done"} => mapping = Parts(detail, None)
    /\ isIdx \in Nat \ {0}
    /\ pc = "extract" => isIdx <= Len(mapping) + 1
    /\ pc = "done" => isIdx = Len(mapping) + 1

(* An entry of each vector is about the part of this index.                *)
VectorsInv ==
    /\ infos \in Seq(Rpks)
    /\ Len(infos) <= Len(Assigned)
    /\ pc \in {"get", "create"} => isIdx = Len(infos) + 1
    /\ pc \in Evaluated => Len(infos) = Len(Assigned)
    /\ \A i \in DOMAIN infos : infos[i] = Made(i).rpk /\ infos[i] \in readable
    /\ shapes \in Seq(Shape)
    /\ Len(shapes) <= Len(infos)
    /\ \A j \in DOMAIN shapes : shapes[j].rpk \in readable
    /\ InStep => \A j \in DOMAIN shapes : shapes[j] = Made(j)

AttributesInv ==
    /\ pc \in {"get", "create", "aborted"} => ambs = <<>>
    /\ pc \in Evaluated => ambs = [j \in DOMAIN shapes |-> Received(j)]
    /\ pc \notin {"put"} \cup Written => DOMAIN defaults = {}
    /\ pc \in {"put"} \cup Written =>
         defaults = [k \in UNION {ambs[j] : j \in DOMAIN ambs} |-> Behind(k)]

(* What pldGenerate has read so far.                                       *)
ExtractInv ==
    /\ extracted \in Seq(Shape)
    /\ rejected \subseteq SUBSET Prims
    /\ pc \in Unwritten \cup {"divide"} => extracted = <<>>
    /\ pc \in {"extract", "done"} /\ InStep /\ OneClassifier =>
         /\ \A i \in DOMAIN extracted : \E j \in DOMAIN shapes : extracted[i] = shapes[j]
         /\ \A j \in DOMAIN shapes :
              j < isIdx => \/ \E i \in DOMAIN extracted : extracted[i] = shapes[j]
                           \/ shapes[j].prims \in rejected

IInv == InputInv /\ DetailInv /\ MappingInv /\ VectorsInv /\ AttributesInv /\ ExtractInv

-----------------------------------------------------------------------------
(* The first primitive of a part is one of its primitives.                 *)
LEMMA FirstOfPart ==
    ASSUME NEW part \in SUBSET Prims, part # {}
    PROVE  First(part) \in part /\ First(part) \in Prims
<1>1. part \in SUBSET Nat
  BY PrimsFinite
<1>. QED  BY <1>1, MinOfNats DEF First

(* What the input of a cook looks like.                                    *)
LEMMA InputShape ==
    ASSUME InputInv
    PROVE  /\ Classified(input)
           /\ IsPartition(Assigned)
           /\ \A p \in Prims :
                /\ input.prims[p] \in [cls : ClsValues, name : ClsNames \cup {None},
                                       rpk : Rpks \cup {None},
                                       seed : {Number(s) : s \in Seeds \cup {0}}]
                /\ input.prims[p].seed \in SeedValues
<1>1. \A p \in Prims :
        input.prims[p] \in [cls : ClsValues, name : ClsNames \cup {None},
                            rpk : Rpks \cup {None},
                            seed : {Number(s) : s \in Seeds \cup {0}}]
  BY DEF InputInv, Details
<1>2. Classified(input)
  BY <1>1, ShapeAssignAssumption DEF Classified
<1>3. IsPartition(Assigned)
  BY <1>2, PartsPartition DEF Assigned
<1>4. \A p \in Prims : input.prims[p].seed \in SeedValues
  BY <1>1 DEF SeedValues
<1>. QED  BY <1>1, <1>2, <1>3, <1>4

(* A part has an initial shape, if its package can be read.                *)
LEMMA MadeType ==
    ASSUME InputInv, NEW i \in DOMAIN Assigned
    PROVE  /\ Assigned[i] \in SUBSET Prims /\ First(Assigned[i]) \in Assigned[i]
           /\ Made(i).prims = Assigned[i]
           /\ Made(i).seed \in SeedValues
           /\ Made(i).rpk \in Rpks => Made(i) \in Shape
<1>1. Assigned[i] \in SUBSET Prims /\ Assigned[i] # {}
  BY InputShape DEF IsPartition
<1>2. First(Assigned[i]) \in Assigned[i] /\ First(Assigned[i]) \in Prims
  BY <1>1, FirstOfPart
<1>3. SeedOf(input, Assigned[i]) \in SeedValues
  BY <1>1, <1>2, InputShape DEF SeedOf, SeedValues
<1>4. parms.seed \in SeedValues
  BY DEF InputInv, SeedValues
<1>5. Made(i).seed \in SeedValues /\ Made(i).prims = Assigned[i]
  BY <1>3, <1>4 DEF Made
<1>6. ASSUME Made(i).rpk \in Rpks PROVE Made(i) \in Shape
  BY <1>1, <1>5, <1>6 DEF Made, Shape, SeedValues
<1>. QED  BY <1>1, <1>2, <1>5, <1>6

(* What depends on the parameters and the input only.                      *)
LEMMA Fixed ==
    ASSUME UNCHANGED <<parms, input>>
    PROVE  /\ Assigned' = Assigned
           /\ \A i : Made(i)' = Made(i)
           /\ OneClassifier' = OneClassifier
BY DEF Assigned, Made, OneClassifier

LEMMA NextFixed ==
    ASSUME [Next]_vars
    PROVE  UNCHANGED <<parms, readable, input>>
BY DEF Next, vars, Get, Unreadable, Create, Evaluate, UpdateDefaults, Put, Divide,
       Extract, ExtractEnd

LEMMA InputNext == InputInv /\ [Next]_vars => InputInv'
<1>. SUFFICES ASSUME InputInv, [Next]_vars PROVE InputInv'
  OBVIOUS
<1>1. pc' \in Unwritten \cup Written
  BY DEF InputInv, Unwritten, Written, Next, vars, Get, Unreadable, Create, Evaluate,
         UpdateDefaults, Put, Divide, Extract, ExtractEnd
<1>2. UNCHANGED <<parms, readable, input>>
  BY NextFixed
<1>. QED  BY <1>1, <1>2 DEF InputInv

-----------------------------------------------------------------------------
(* The detail changes in put only.                                         *)

(* A cook before put has the input's attributes and the parts of them.     *)
LEMMA AssignIsMade ==
    ASSUME detail = input, mapping = Assigned, NEW i \in DOMAIN Assigned
    PROVE  AssignRpk(i) = Made(i).rpk /\ AssignSeed(i) = Made(i).seed
BY DEF AssignRpk, AssignSeed, Made

LEMMA PutWrites ==
    ASSUME IInv, Put
    PROVE  DetailInv'
<1>1. InputInv /\ detail = input /\ mapping = Assigned
  BY DEF IInv, Put, DetailInv, MappingInv, Unwritten
<1>2. DOMAIN ambs = DOMAIN shapes /\ DOMAIN shapes = 1 .. Len(shapes) /\ Len(shapes) \in Nat
  BY DEF IInv, Put, AttributesInv, VectorsInv, Evaluated
<1>3. DOMAIN Assigned = 1 .. Len(Assigned) /\ Len(Assigned) \in Nat
  BY <1>1, InputShape DEF IsPartition
<1>4. Len(shapes) <= Len(Assigned) /\ (InStep => Len(shapes) = Len(Assigned))
  BY DEF IInv, Put, VectorsInv, Evaluated, InStep
<1>5. DOMAIN ambs \subseteq DOMAIN Assigned /\ (InStep => DOMAIN ambs = DOMAIN Assigned)
  <2>1. \A m, n \in Nat : m <= n => 1 .. m \subseteq 1 .. n
    OBVIOUS
  <2>. QED  BY <1>2, <1>3, <1>4, <2>1
<1>. DEFINE covered == UNION {mapping[j] : j \in DOMAIN ambs}
            partOf(p) == CHOOSE j \in DOMAIN ambs : p \in mapping[j]
            written(p) == [cls |-> detail.prims[p].cls, name |-> parms.name, rpk |-> PutRpk(p),
                           seed |-> AssignSeed(partOf(p))]
<1>6. \A p \in Prims : detail'.prims[p] = IF p \in covered THEN written(p) ELSE input.prims[p]
  BY <1>1 DEF Put
<1>7. \A p \in covered : partOf(p) \in DOMAIN ambs /\ p \in mapping[partOf(p)]
  OBVIOUS
<1>8. \A p \in covered : AssignSeed(partOf(p)) = Made(partOf(p)).seed
  BY <1>1, <1>5, <1>7, AssignIsMade
<1>. HIDE DEF partOf, covered
<1>9. \A p \in Prims : /\ detail.prims[p] = input.prims[p]
                       /\ input.prims[p] \in [cls : ClsValues, name : ClsNames \cup {None},
                                              rpk : Rpks \cup {None},
                                              seed : {Number(s) : s \in Seeds \cup {0}}]
  BY <1>1, InputShape
<1>10. \A p \in covered \cap Prims : /\ written(p).cls = input.prims[p].cls
                                     /\ written(p).name = parms.name
                                     /\ written(p).rpk = PutRpk(p)
                                     /\ written(p).seed = Made(partOf(p)).seed
  BY <1>8, <1>9
<1>. HIDE DEF written
<1>11. ASSUME NEW p \in Prims
       PROVE  /\ detail'.prims[p].cls = input.prims[p].cls
              /\ detail'.prims[p].seed \in SeedValues
  <2>1. CASE p \in covered
    <3>1. Made(partOf(p)).seed \in SeedValues
      BY <1>1, <1>5, <1>7, <2>1, MadeType
    <3>. QED  BY <1>6, <1>10, <2>1, <3>1
  <2>2. CASE p \notin covered
    BY <1>1, <1>6, <2>2, InputShape
  <2>. QED  BY <2>1, <2>2
<1>12. ASSUME InStep, NEW p \in Prims
       PROVE  /\ detail'.prims[p].name = parms.name
              /\ detail'.prims[p].rpk = RpkOf(input, p, parms.rpk)
              /\ \A j \in DOMAIN Assigned :
                   p \in Assigned[j] => detail'.prims[p].seed = Made(j).seed
  <2>1. p \in covered
    <3>1. PICK j \in DOMAIN Assigned : p \in Assigned[j]
      BY <1>1, InputShape DEF IsPartition
    <3>. QED  BY <1>1, <1>5, <1>12, <3>1 DEF covered
  <2>2. detail'.prims[p] = written(p)
    BY <1>6, <2>1
  <2>3. PutRpk(p) = RpkOf(input, p, parms.rpk)
    BY <1>1 DEF PutRpk
  <2>4. ASSUME NEW j \in DOMAIN Assigned, p \in Assigned[j] PROVE partOf(p) = j
    BY <1>1, <1>5, <1>7, <2>1, <2>4, InputShape DEF IsPartition
  <2>. QED  BY <1>10, <2>1, <2>2, <2>3, <2>4
<1>13. /\ UNCHANGED <<parms, input, infos, shapes>> /\ pc' \notin Unwritten
       /\ detail'.hasName /\ detail'.hasSeed
  BY DEF Put, Unwritten
<1>14. InStep' = InStep
  BY <1>13 DEF InStep
<1>. QED  BY <1>11, <1>12, <1>13, <1>14, Fixed DEF DetailInv

LEMMA DetailNext == IInv /\ [Next]_vars => DetailInv'
<1>. SUFFICES ASSUME IInv, [Next]_vars PROVE DetailInv'
  OBVIOUS
<1>1. CASE Put
  BY <1>1, PutWrites
<1>2. CASE Create
  BY <1>2, Fixed DEF Create, IInv, DetailInv, Unwritten, Written
<1>3. CASE UNCHANGED <<parms, input, detail, infos, shapes>>
           /\ (pc' \in Unwritten => pc \in Unwritten) /\ (pc' \in Written => pc \in Written)
  <2>1. InStep' = InStep
    BY <1>3 DEF InStep
  <2>. QED  BY <1>3, <2>1, Fixed DEF IInv, DetailInv
<1>. QED  BY <1>1, <1>2, <1>3 DEF Next, vars, Get, Unreadable, Evaluate, UpdateDefaults,
                                  Divide, Extract, ExtractEnd, Unwritten, Written

-----------------------------------------------------------------------------
(* The parts and the place in them.                                        *)

(* pldGenerate, too, sees the classifier values of the input.              *)
LEMMA DetailClassified == InputInv /\ DetailInv => Classified(detail)
BY InputShape DEF DetailInv, Classified

LEMMA MappingNext == IInv /\ [Next]_vars => MappingInv'
<1>. SUFFICES ASSUME IInv, [Next]_vars PROVE MappingInv'
  OBVIOUS
<1>0. Assigned' = Assigned /\ pc \in Unwritten \cup Written
  BY NextFixed, Fixed DEF IInv, InputInv
<1>1. CASE Get
  BY <1>0, <1>1 DEF Get, IInv, DetailInv, MappingInv, Unwritten, Assigned
<1>2. CASE Divide
  <2>1. IsPartition(Parts(detail, None))
    BY DetailClassified, PartsPartition DEF IInv
  <2>2. Len(mapping') \in Nat
    BY <1>2, <2>1 DEF Divide, IsPartition
  <2>. QED  BY <1>2, <2>2 DEF Divide, MappingInv, Unwritten
<1>3. CASE Extract
  <2>1. IsPartition(mapping)
    BY <1>3, DetailClassified, PartsPartition DEF Extract, IInv, MappingInv
  <2>2. Len(mapping) \in Nat
    BY <2>1 DEF IsPartition
  <2>. QED  BY <1>3, <2>2 DEF Extract, IInv, MappingInv, Unwritten
<1>4. CASE ExtractEnd
  <2>1. IsPartition(mapping)
    BY <1>4, DetailClassified, PartsPartition DEF ExtractEnd, IInv, MappingInv
  <2>2. Len(mapping) \in Nat
    BY <2>1 DEF IsPartition
  <2>. QED  BY <1>4, <2>2 DEF ExtractEnd, IInv, MappingInv, Unwritten
<1>5. CASE Unreadable \/ Create \/ Evaluate \/ UpdateDefaults \/ Put \/ UNCHANGED vars
  BY <1>0, <1>5 DEF Unreadable, Create, Evaluate, UpdateDefaults, Put, vars, IInv,
                    MappingInv, Unwritten, Written
<1>. QED  BY <1>1, <1>2, <1>3, <1>4, <1>5 DEF Next

-----------------------------------------------------------------------------
(* The vectors of ShapeData.                                               *)

(* An iteration of the loop in evaluateDefaultRuleAttributes.              *)
LEMMA CreateInStep ==
    ASSUME IInv, Create
    PROVE  VectorsInv'
<1>1. /\ InputInv /\ VectorsInv /\ detail = input /\ mapping = Assigned
      /\ isIdx = Len(infos) + 1 /\ isIdx <= Len(Assigned)
      /\ AssignRpk(isIdx) \in readable /\ readable \subseteq Rpks
  BY DEF IInv, Create, InputInv, VectorsInv, DetailInv, MappingInv, Unwritten
<1>2. DOMAIN Assigned = 1 .. Len(Assigned) /\ Len(Assigned) \in Nat
  BY <1>1, InputShape DEF IsPartition
<1>3. /\ infos \in Seq(Rpks) /\ Len(infos) \in Nat
      /\ shapes \in Seq(Shape) /\ Len(shapes) \in Nat /\ Len(shapes) <= Len(infos)
  BY <1>1 DEF VectorsInv
<1>4. isIdx \in DOMAIN Assigned
  BY <1>1, <1>2, <1>3
<1>5. AssignRpk(isIdx) = Made(isIdx).rpk /\ AssignSeed(isIdx) = Made(isIdx).seed
  BY <1>1, <1>4, AssignIsMade
<1>6. Made(isIdx) \in Shape /\ Made(isIdx).prims = mapping[isIdx]
  BY <1>1, <1>4, <1>5, MadeType
<1>7. Made(isIdx) = [prims |-> mapping[isIdx], rpk |-> AssignRpk(isIdx),
                     seed |-> AssignSeed(isIdx)]
  BY <1>5, <1>6 DEF Made
<1>8. /\ infos' = Append(infos, Made(isIdx).rpk) /\ Made(isIdx).rpk \in readable
      /\ shapes' = Append(shapes, Made(isIdx)) \/ shapes' = shapes
      /\ isIdx' = isIdx + 1 /\ pc' = "create"
      /\ UNCHANGED <<parms, readable, input>>
  BY <1>1, <1>5, <1>7 DEF Create
<1>9. Assigned' = Assigned /\ \A i : Made(i)' = Made(i)
  BY <1>8, Fixed
<1>. DEFINE made == Made(isIdx)
<1>. HIDE DEF made
<1>10. /\ infos' \in Seq(Rpks) /\ Len(infos') = Len(infos) + 1
       /\ \A i \in DOMAIN infos' : infos'[i] = IF i = isIdx THEN made.rpk ELSE infos[i]
       /\ \A i \in DOMAIN infos' : i = isIdx \/ i \in DOMAIN infos
  BY <1>1, <1>3, <1>8 DEF made
<1>11. \A i \in DOMAIN infos' : infos'[i] = Made(i).rpk /\ infos'[i] \in readable
  BY <1>1, <1>8, <1>10 DEF VectorsInv, made
<1>12. CASE shapes' = Append(shapes, Made(isIdx))
  <2>1. /\ shapes' \in Seq(Shape) /\ Len(shapes') = Len(shapes) + 1
        /\ DOMAIN shapes' = 1 .. Len(shapes) + 1
        /\ shapes'[Len(shapes) + 1] = made
        /\ \A j \in 1 .. Len(shapes) : shapes'[j] = shapes[j]
    BY <1>3, <1>6, <1>12 DEF made
  <2>2. \A j \in DOMAIN shapes' : shapes'[j].rpk \in readable
    BY <1>1, <1>3, <1>8, <2>1 DEF VectorsInv, made
  <2>3. InStep' => InStep /\ Len(shapes) + 1 = isIdx
    BY <1>1, <1>3, <1>10, <2>1 DEF InStep
  <2>4. InStep' => \A j \in DOMAIN shapes' : shapes'[j] = Made(j)
    BY <1>1, <1>3, <2>1, <2>3 DEF VectorsInv, made
  <2>. QED  BY <1>1, <1>2, <1>3, <1>8, <1>9, <1>10, <1>11, <2>1, <2>2, <2>4
            DEF VectorsInv, Evaluated, Written
<1>13. CASE shapes' = shapes
  <2>1. ~InStep'
    BY <1>3, <1>10, <1>13 DEF InStep
  <2>. QED  BY <1>1, <1>2, <1>3, <1>8, <1>9, <1>10, <1>11, <1>13, <2>1
            DEF VectorsInv, Evaluated, Written
<1>. QED  BY <1>8, <1>12, <1>13

LEMMA VectorsNext == IInv /\ [Next]_vars => VectorsInv'
<1>. SUFFICES ASSUME IInv, [Next]_vars PROVE VectorsInv'
  OBVIOUS
<1>1. CASE Create
  BY <1>1, CreateInStep
<1>2. ASSUME ~Create
      PROVE  /\ UNCHANGED <<parms, readable, input, infos, shapes>>
             /\ pc' \in {"get", "create"} => UNCHANGED isIdx /\ pc \in {"get", "create"}
             /\ pc' \in Evaluated => pc \in Evaluated \/ Evaluate
  BY <1>2 DEF Next, vars, Get, Unreadable, Evaluate, UpdateDefaults, Put, Divide,
              Extract, ExtractEnd, Evaluated, Written
<1>3. CASE ~Create
  <2>1. /\ Assigned' = Assigned /\ \A i : Made(i)' = Made(i)
        /\ InStep' = InStep
    BY <1>2, <1>3, Fixed DEF InStep
  <2>2. ASSUME Evaluate PROVE Len(infos) = Len(Assigned)
    <3>1. /\ mapping = Assigned /\ isIdx > Len(mapping) /\ isIdx = Len(infos) + 1
          /\ Len(infos) <= Len(Assigned) /\ Len(infos) \in Nat
      BY <2>2 DEF Evaluate, IInv, MappingInv, VectorsInv, Unwritten
    <3>2. Len(Assigned) \in Nat
      BY InputShape DEF IInv, IsPartition
    <3>. QED  BY <3>1, <3>2
  <2>. QED  BY <1>2, <1>3, <2>1, <2>2 DEF IInv, VectorsInv
<1>. QED  BY <1>1, <1>3

-----------------------------------------------------------------------------
(* Attributes and default values.                                          *)
LEMMA AttributesNext == IInv /\ [Next]_vars => AttributesInv'
<1>. SUFFICES ASSUME IInv, [Next]_vars PROVE AttributesInv'
  OBVIOUS
<1>0. AttributesInv /\ pc \in Unwritten \cup Written
  BY DEF IInv, InputInv
<1>1. CASE Evaluate
  <2>1. pc = "create" /\ UNCHANGED <<shapes, infos, defaults>>
    BY <1>1 DEF Evaluate
  <2>2. \A j : Received(j)' = Received(j)
    BY <2>1 DEF Received
  <2>3. CASE ambs' = [j \in DOMAIN shapes |-> Received(j)] /\ pc' = "defaults"
    BY <1>0, <2>1, <2>2, <2>3 DEF AttributesInv, Evaluated, Written
  <2>4. CASE pc' = "aborted" /\ UNCHANGED ambs
    BY <1>0, <2>1, <2>4 DEF AttributesInv, Evaluated, Written
  <2>. QED  BY <1>1, <2>3, <2>4 DEF Evaluate
<1>2. CASE UpdateDefaults
  <2>1. /\ pc = "defaults" /\ pc' = "put" /\ UNCHANGED <<shapes, infos, ambs>>
        /\ defaults' = [k \in UNION {ambs[j] : j \in DOMAIN ambs} |-> Behind(k)]
    BY <1>2 DEF UpdateDefaults
  <2>2. \A j : Received(j)' = Received(j) /\ \A k : Behind(k)' = Behind(k)
    BY <2>1 DEF Received, Behind
  <2>. QED  BY <1>0, <2>1, <2>2 DEF AttributesInv, Evaluated, Written
<1>3. CASE Create
  BY <1>0, <1>3 DEF Create, AttributesInv, Evaluated, Written
<1>4. CASE /\ UNCHANGED <<shapes, infos, ambs, defaults>>
           /\ \/ pc' = pc
              \/ pc' \in {"create", "aborted"} /\ pc \in {"get", "create"}
              \/ pc' \in Written /\ pc \in {"put"} \cup Written
  <2>1. /\ \A j : Received(j)' = Received(j)
        /\ \A k : Behind(k)' = Behind(k)
    BY <1>4 DEF Received, Behind
  <2>. QED  BY <1>0, <1>4, <2>1 DEF AttributesInv, Evaluated, Written
<1>. QED  BY <1>1, <1>2, <1>3, <1>4 DEF Next, vars, Get, Unreadable, Put, Divide,
                                        Extract, ExtractEnd, Written

-----------------------------------------------------------------------------
(* What pldGenerate reads.                                                 *)

(* With one classifier both nodes make the same parts, and a part has the  *)
(* package and the seed it was assigned.                                   *)
LEMMA ReadAsMade ==
    ASSUME IInv, pc \in Written, InStep, OneClassifier
    PROVE  /\ Parts(detail, None) = Assigned
           /\ \A i \in DOMAIN Assigned :
                Made(i) = [prims |-> Assigned[i],
                           rpk |-> RpkOf(detail, First(Assigned[i]), None),
                           seed |-> SeedOf(detail, Assigned[i])]
<1>1. /\ InputInv /\ detail.hasName /\ detail.hasSeed
      /\ \A p \in Prims :
           /\ detail.prims[p].cls = input.prims[p].cls
           /\ detail.prims[p].name = parms.name
           /\ detail.prims[p].rpk = RpkOf(input, p, parms.rpk)
           /\ \A j \in DOMAIN Assigned : p \in Assigned[j] => detail.prims[p].seed = Made(j).seed
  BY DEF IInv, DetailInv
<1>2. \A p \in Prims : ClassifierValue(detail, p, None) = ClassifierValue(input, p, parms.name)
  BY <1>1 DEF ClassifierValue, ClassifierName, OneClassifier
<1>3. Parts(detail, None) = Assigned
  BY <1>2, SameParts DEF Assigned
<1>4. ASSUME NEW i \in DOMAIN Assigned
      PROVE  /\ Made(i).rpk = RpkOf(detail, First(Assigned[i]), None)
             /\ Made(i).seed = SeedOf(detail, Assigned[i])
  <2>1. First(Assigned[i]) \in Assigned[i] /\ First(Assigned[i]) \in Prims
    BY <1>1, MadeType
  <2>2. Made(i).rpk = RpkOf(input, First(Assigned[i]), parms.rpk)
    BY DEF Made
  <2>3. \A p \in Prims : RpkOf(detail, p, None) = RpkOf(input, p, parms.rpk)
    BY <1>1 DEF RpkOf
  <2>. QED  BY <1>1, <2>1, <2>2, <2>3 DEF SeedOf
<1>5. \A i \in DOMAIN Assigned :
        Made(i) = [prims |-> Assigned[i], rpk |-> Made(i).rpk, seed |-> Made(i).seed]
  BY DEF Made
<1>. QED  BY <1>3, <1>4, <1>5

LEMMA ExtractReads ==
    ASSUME IInv, Extract
    PROVE  ExtractInv'
<1>. DEFINE part == mapping[isIdx]
            rpk == RpkOf(detail, First(part), None)
            made == [prims |-> part, rpk |-> rpk, seed |-> SeedOf(detail, part)]
<1>1. /\ InputInv /\ DetailInv /\ ExtractInv /\ VectorsInv
      /\ pc = "extract" /\ mapping = Parts(detail, None) /\ readable \subseteq Rpks
      /\ detail.hasSeed /\ isIdx \in Nat \ {0} /\ isIdx <= Len(mapping)
  BY DEF Extract, IInv, DetailInv, MappingInv, InputInv, Written
<1>2. IsPartition(mapping)
  BY <1>1, DetailClassified, PartsPartition
<1>3. isIdx \in DOMAIN mapping
  BY <1>1, <1>2 DEF IsPartition
<1>4. part \in SUBSET Prims /\ First(part) \in Prims
  BY <1>2, <1>3, FirstOfPart DEF IsPartition
<1>5. SeedOf(detail, part) \in SeedValues
  BY <1>1, <1>4 DEF SeedOf, DetailInv
<1>6. rpk \in Rpks => made \in Shape
  BY <1>4, <1>5 DEF Shape, SeedValues
<1>7. /\ pc' = pc /\ isIdx' = isIdx + 1
      /\ \/ rpk \in readable /\ extracted' = Append(extracted, made) /\ UNCHANGED rejected
         \/ rpk \in readable /\ rejected' = rejected \cup {part} /\ UNCHANGED extracted
         \/ rpk \notin readable /\ UNCHANGED <<extracted, rejected>>
      /\ UNCHANGED <<parms, input, infos, shapes>>
  BY DEF Extract
<1>8. Assigned' = Assigned /\ InStep' = InStep /\ OneClassifier' = OneClassifier
  BY <1>7, Fixed DEF InStep
<1>9. ASSUME InStep, OneClassifier, isIdx \in DOMAIN shapes
      PROVE  /\ shapes[isIdx] = made /\ shapes[isIdx].prims = part /\ rpk \in readable
  <2>1. Parts(detail, None) = Assigned /\ Made(isIdx) = made
    BY <1>1, <1>3, <1>9, ReadAsMade DEF Written
  <2>2. shapes[isIdx] = Made(isIdx) /\ shapes[isIdx].rpk \in readable
    BY <1>1, <1>9 DEF VectorsInv
  <2>. QED  BY <2>1, <2>2
<1>10. extracted \in Seq(Shape) /\ rejected \subseteq SUBSET Prims
       /\ shapes \in Seq(Shape)
  BY <1>1 DEF ExtractInv, VectorsInv
<1>. HIDE DEF part, rpk, made
<1>11. extracted' \in Seq(Shape) /\ rejected' \subseteq SUBSET Prims
  <2>1. CASE rpk \in readable /\ extracted' = Append(extracted, made) /\ UNCHANGED rejected
    <3>1. made \in Shape
      BY <1>1, <1>6, <2>1
    <3>. QED  BY <1>10, <2>1, <3>1, AppendProperties
  <2>2. CASE rejected' = rejected \cup {part} /\ UNCHANGED extracted
    BY <1>4, <1>10, <2>2
  <2>. QED  BY <1>7, <1>10, <2>1, <2>2
<1>12. /\ \A i \in DOMAIN extracted : i \in DOMAIN extracted' /\ extracted'[i] = extracted[i]
       /\ rejected \subseteq rejected'
       /\ \A i \in DOMAIN extracted' :
            i \in DOMAIN extracted \/ extracted'[i] = made
       /\ rpk \in readable =>
            (\E i \in DOMAIN extracted' : extracted'[i] = made) \/ part \in rejected'
  <2>1. CASE extracted' = Append(extracted, made) /\ UNCHANGED rejected
    <3>1. /\ DOMAIN extracted = 1 .. Len(extracted) /\ Len(extracted) \in Nat
          /\ DOMAIN extracted' = 1 .. Len(extracted) + 1
          /\ extracted'[Len(extracted) + 1] = made
          /\ \A i \in 1 .. Len(extracted) : extracted'[i] = extracted[i]
      BY <1>10, <2>1
    <3>. QED  BY <2>1, <3>1
  <2>. QED  BY <1>7, <2>1
<1>13. ASSUME InStep, OneClassifier, isIdx \in DOMAIN shapes
       PROVE  \/ \E i \in DOMAIN extracted' : extracted'[i] = shapes[isIdx]
              \/ shapes[isIdx].prims \in rejected'
  BY <1>9, <1>12, <1>13
<1>14. ASSUME InStep, OneClassifier
       PROVE  /\ isIdx \in DOMAIN shapes
              /\ \A j \in DOMAIN shapes : j < isIdx + 1 => j < isIdx \/ j = isIdx
  <2>1. Parts(detail, None) = Assigned
    BY <1>1, <1>14, ReadAsMade DEF Written
  <2>2. Len(shapes) = Len(mapping)
    BY <1>1, <1>14, <2>1 DEF VectorsInv, InStep, Evaluated, Written
  <2>. QED  BY <1>1, <1>10, <2>2
<1>15. ASSUME InStep, OneClassifier
       PROVE  \A i \in DOMAIN extracted' : \E j \in DOMAIN shapes : extracted'[i] = shapes[j]
  BY <1>1, <1>9, <1>12, <1>14, <1>15 DEF ExtractInv
<1>16. ASSUME InStep, OneClassifier, NEW j \in DOMAIN shapes, j < isIdx + 1
       PROVE  \/ \E i \in DOMAIN extracted' : extracted'[i] = shapes[j]
              \/ shapes[j].prims \in rejected'
  <2>1. CASE j = isIdx
    BY <1>13, <1>16, <2>1
  <2>2. CASE j < isIdx
    BY <1>1, <1>12, <1>16, <2>2 DEF ExtractInv
  <2>. QED  BY <1>14, <1>16, <2>1, <2>2
<1>. QED  BY <1>1, <1>7, <1>8, <1>11, <1>15, <1>16 DEF ExtractInv, Unwritten

LEMMA ExtractNext == IInv /\ [Next]_vars => ExtractInv'
<1>. SUFFICES ASSUME IInv, [Next]_vars PROVE ExtractInv'
  OBVIOUS
<1>0. ExtractInv /\ pc \in Unwritten \cup Written
  BY DEF IInv, InputInv
<1>1. CASE Extract
  BY <1>1, ExtractReads
<1>2. CASE Divide
  <2>1. /\ extracted' = <<>> /\ isIdx' = 1 /\ pc' = "extract"
        /\ UNCHANGED <<rejected, shapes>> /\ DOMAIN extracted' = {}
    BY <1>0, <1>2 DEF Divide, ExtractInv
  <2>2. \A j \in DOMAIN shapes : ~(j < 1)
    <3>1. shapes \in Seq(Shape)
      BY DEF IInv, VectorsInv
    <3>. QED  BY <3>1
  <2>. QED  BY <1>0, <2>1, <2>2 DEF ExtractInv, Unwritten
<1>3. CASE Create
  BY <1>0, <1>3 DEF Create, ExtractInv, Unwritten
<1>4. CASE /\ UNCHANGED <<extracted, rejected, parms, input, infos, shapes>>
           /\ \/ pc' \in Unwritten \cup {"divide"} /\ pc \in Unwritten \cup {"divide"}
              \/ pc' \in {"extract", "done"} /\ pc \in {"extract", "done"} /\ UNCHANGED isIdx
  <2>1. OneClassifier' = OneClassifier /\ InStep' = InStep
    BY <1>4, Fixed DEF InStep
  <2>. QED  BY <1>0, <1>4, <2>1 DEF ExtractInv, Unwritten
<1>. QED  BY <1>0, <1>1, <1>2, <1>3, <1>4 DEF Next, vars, Get, Unreadable, Evaluate,
            UpdateDefaults, Put, ExtractEnd, Unwritten, Written

-----------------------------------------------------------------------------
LEMMA InvInitially == Init => IInv
<1>. SUFFICES ASSUME Init PROVE IInv
  OBVIOUS
<1>1. InputInv
  BY DEF Init, InputInv, Unwritten
<1>2. DetailInv
  BY <1>1, InputShape DEF Init, DetailInv, Unwritten, Written
<1>3. MappingInv
  BY DEF Init, MappingInv, Unwritten
<1>4. VectorsInv
  <2>1. Len(Assigned) \in Nat
    BY <1>1, InputShape DEF IsPartition
  <2>. QED  BY <2>1 DEF Init, VectorsInv, Evaluated, Written
<1>5. AttributesInv /\ ExtractInv
  BY DEF Init, AttributesInv, ExtractInv, Evaluated, Written, Unwritten
<1>. QED  BY <1>1, <1>2, <1>3, <1>4, <1>5 DEF IInv

LEMMA InvAlways == Spec => []IInv
<1>1. IInv /\ [Next]_vars => IInv'
  BY InputNext, DetailNext, MappingNext, VectorsNext, AttributesNext, ExtractNext DEF IInv
<1>. QED  BY <1>1, InvInitially, PTL DEF Spec


-----------------------------------------------------------------------------
(* The theorems.                                                           *)

(* The attributes of each initial shape, by index.                         *)
LEMMA AttributesByIndex ==
    ASSUME IInv
    PROVE  /\ \A j \in DOMAIN ambs : j \in DOMAIN shapes /\ ambs[j] = Received(j)
           /\ pc \in Evaluated => DOMAIN ambs = DOMAIN shapes
           /\ pc \notin Evaluated => ambs = <<>>
<1>1. /\ pc \in {"get", "create", "aborted"} => ambs = <<>>
      /\ pc \in Evaluated => ambs = [j \in DOMAIN shapes |-> Received(j)]
      /\ pc \in {"get", "create", "aborted"} \/ pc \in Evaluated
  BY DEF IInv, InputInv, AttributesInv, Unwritten, Written, Evaluated
<1>2. CASE pc \in Evaluated
  BY <1>1, <1>2
<1>3. CASE pc \in {"get", "create", "aborted"}
  <2>1. ambs = <<>> /\ DOMAIN ambs = {} /\ pc \notin Evaluated
    BY <1>1, <1>3 DEF Evaluated, Written
  <2>. QED  BY <2>1
<1>. QED  BY <1>1, <1>2, <1>3

(* Rule file infos and initial shapes agree on the package of an index.    *)
LEMMA InStepSameIndex ==
    ASSUME IInv, InStep, NEW j \in DOMAIN shapes
    PROVE  j \in DOMAIN infos /\ infos[j] = shapes[j].rpk /\ shapes[j] = Made(j)
<1>1. /\ infos \in Seq(Rpks) /\ shapes \in Seq(Shape) /\ Len(shapes) = Len(infos)
      /\ \A i \in DOMAIN infos : infos[i] = Made(i).rpk
      /\ shapes[j] = Made(j)
  BY DEF IInv, VectorsInv, InStep
<1>2. j \in DOMAIN infos
  BY <1>1
<1>. QED  BY <1>1, <1>2

LEMMA OwnAttributesInvariant == IInv => OwnAttributes
<1>. SUFFICES ASSUME IInv, InStep, NEW j \in DOMAIN ambs
              PROVE  ambs[j] = RuleAttrs[shapes[j].rpk] \ HiddenAttrs[shapes[j].rpk]
  BY DEF OwnAttributes
<1>1. j \in DOMAIN shapes /\ ambs[j] = Received(j)
  BY AttributesByIndex
<1>2. infos[j] = shapes[j].rpk
  BY <1>1, InStepSameIndex
<1>. QED  BY <1>1, <1>2 DEF Received, IsHidden

(* A shape's attributes are all those of its own package that this package *)
(* does not hide: AttrEvalCallbacks filters with the right rule file info. *)
THEOREM OwnAttributesHolds == Spec => []OwnAttributes
BY InvAlways, OwnAttributesInvariant, PTL

LEMMA DefaultsInvariant == IInv => DefaultsOfFirstPart
<1>. SUFFICES ASSUME IInv, pc = "put", InStep,
                     NEW k \in RuleAttrs[infos[1]] \ HiddenAttrs[infos[1]]
              PROVE  k \in DOMAIN defaults /\ defaults[k] = 1
  BY DEF DefaultsOfFirstPart
<1>1. /\ shapes \in Seq(Shape) /\ Len(shapes) = Len(Assigned)
      /\ defaults = [x \in UNION {ambs[j] : j \in DOMAIN ambs} |-> Behind(x)]
      /\ DOMAIN ambs = DOMAIN shapes
  BY AttributesByIndex DEF IInv, VectorsInv, AttributesInv, InStep, Evaluated
<1>2. Len(Assigned) \in Nat /\ Len(Assigned) >= 1
  BY InputShape DEF IInv, IsPartition
<1>3. DOMAIN ambs \subseteq Nat \ {0} /\ 1 \in DOMAIN ambs
  BY <1>1, <1>2
<1>4. k \in ambs[1]
  BY <1>1, <1>3, InStepSameIndex, OwnAttributesInvariant DEF OwnAttributes
<1>. DEFINE having == {j \in DOMAIN ambs : k \in ambs[j]}
<1>5. having \subseteq Nat \ {0} /\ 1 \in having
  BY <1>3, <1>4
<1>6. Min(having) \in having /\ Min(having) <= 1
  BY <1>5, MinOfNats
<1>7. Min(having) = 1
  BY <1>5, <1>6
<1>8. Behind(k) = 1
  BY <1>7 DEF Behind
<1>. QED  BY <1>1, <1>3, <1>4, <1>8

(* The default values of the node's parameters are those of the first      *)
(* part, whatever later shapes with the same keys evaluate to.             *)
THEOREM DefaultsOfFirstPartHolds == Spec => []DefaultsOfFirstPart
BY InvAlways, DefaultsInvariant, PTL

LEMMA GenerateSeesInvariant == IInv => GenerateSeesAssigned
<1>. SUFFICES ASSUME IInv, pc = "done", InStep, OneClassifier
              PROVE  /\ \A i \in DOMAIN extracted : \E j \in DOMAIN shapes : extracted[i] = shapes[j]
                     /\ \A j \in DOMAIN shapes :
                          \/ \E i \in DOMAIN extracted : extracted[i] = shapes[j]
                          \/ shapes[j].prims \in rejected
  BY DEF GenerateSeesAssigned
<1>1. /\ mapping = Parts(detail, None) /\ isIdx = Len(mapping) + 1
      /\ \A i \in DOMAIN extracted : \E j \in DOMAIN shapes : extracted[i] = shapes[j]
      /\ \A j \in DOMAIN shapes :
           j < isIdx => \/ \E i \in DOMAIN extracted : extracted[i] = shapes[j]
                        \/ shapes[j].prims \in rejected
  BY DEF IInv, MappingInv, ExtractInv
<1>2. Parts(detail, None) = Assigned
  BY ReadAsMade DEF Written
<1>3. shapes \in Seq(Shape) /\ Len(shapes) = Len(Assigned)
  BY DEF IInv, VectorsInv, InStep, Evaluated, Written
<1>4. \A j \in DOMAIN shapes : j < isIdx
  BY <1>1, <1>2, <1>3
<1>. QED  BY <1>1, <1>4

(* pldGenerate finds, in the primitive attributes alone, the initial       *)
(* shapes that pldAssign evaluated: their primitives, packages and seeds.  *)
THEOREM GenerateSeesAssignedHolds == Spec => []GenerateSeesAssigned
BY InvAlways, GenerateSeesInvariant, PTL

(* At every step the parts of a cook are a partition of the primitives.    *)
LEMMA MappingPartition ==
    ASSUME IInv, pc # "get"
    PROVE  IsPartition(mapping)
<1>1. mapping = Assigned \/ mapping = Parts(detail, None)
  BY DEF IInv, InputInv, MappingInv, Unwritten, Written
<1>2. IsPartition(Assigned) /\ IsPartition(Parts(detail, None))
  BY InputShape, DetailClassified, PartsPartition DEF IInv
<1>. QED  BY <1>1, <1>2

LEMMA TypeInvariant == IInv => TypeOK
<1>. SUFFICES ASSUME IInv PROVE TypeOK
  OBVIOUS
<1>1. readable \subseteq Rpks /\ infos \in Seq(Rpks)
      /\ shapes \in Seq(Shape) /\ Len(shapes) <= Len(infos)
      /\ extracted \in Seq(Shape) /\ rejected \subseteq SUBSET Prims
  BY DEF IInv, InputInv, VectorsInv, ExtractInv
<1>2. ASSUME pc # "get"
      PROVE  /\ UNION {mapping[i] : i \in DOMAIN mapping} = Prims
             /\ \A i, j \in DOMAIN mapping :
                  mapping[i] # {} /\ (i # j => mapping[i] \cap mapping[j] = {})
  <2>1. IsPartition(mapping)
    BY <1>2, MappingPartition
  <2>2. \A i \in DOMAIN mapping : mapping[i] \in SUBSET Prims
    BY <2>1 DEF IsPartition
  <2>. QED  BY <2>1, <2>2 DEF IsPartition
<1>3. ASSUME NEW j \in DOMAIN ambs PROVE ambs[j] \in SUBSET Keys
  <2>1. j \in DOMAIN shapes /\ ambs[j] \subseteq RuleAttrs[shapes[j].rpk]
    BY AttributesByIndex DEF Received
  <2>2. shapes[j] \in Shape
    BY <1>1, <2>1
  <2>3. shapes[j].rpk \in Rpks
    BY <2>2 DEF Shape
  <2>. QED  BY <2>1, <2>3, ShapeAssignAssumption
<1>4. ambs \in Seq(SUBSET Keys) /\ Len(ambs) \in {0, Len(shapes)}
  <2>1. CASE pc \in Evaluated
    <3>1. ambs = [j \in 1 .. Len(shapes) |-> Received(j)] /\ Len(shapes) \in Nat
          /\ DOMAIN ambs = 1 .. Len(shapes)
      BY <1>1, <2>1, AttributesByIndex DEF IInv, AttributesInv
    <3>2. \A j \in 1 .. Len(shapes) : Received(j) \in SUBSET Keys
      BY <1>3, <3>1
    <3>. QED  BY <3>1, <3>2, IsASeq
  <2>2. CASE pc \notin Evaluated
    BY <2>2, AttributesByIndex
  <2>. QED  BY <2>1, <2>2
<1>5. \A k \in DOMAIN defaults : k \in Keys /\ defaults[k] \in DOMAIN ambs
  <2>1. CASE pc \in {"put"} \cup Written
    <3>1. defaults = [k \in UNION {ambs[j] : j \in DOMAIN ambs} |-> Behind(k)]
      BY <2>1 DEF IInv, AttributesInv
    <3>2. DOMAIN ambs \subseteq Nat
      BY <1>4
    <3>3. ASSUME NEW k, NEW j \in DOMAIN ambs, k \in ambs[j]
          PROVE  k \in Keys /\ Behind(k) \in DOMAIN ambs
      <4>. DEFINE having == {x \in DOMAIN ambs : k \in ambs[x]}
      <4>1. having \subseteq Nat /\ having # {}
        BY <3>2, <3>3
      <4>2. Min(having) \in having
        BY <4>1, MinOfNats
      <4>3. Behind(k) \in having
        BY <4>2 DEF Behind
      <4>. QED  BY <1>3, <3>3, <4>3
    <3>. QED  BY <3>1, <3>3
  <2>2. CASE pc \notin {"put"} \cup Written
    <3>1. DOMAIN defaults = {}
      BY <2>2 DEF IInv, AttributesInv
    <3>. QED  BY <3>1
  <2>. QED  BY <2>1, <2>2
<1>. QED  BY <1>1, <1>2, <1>4, <1>5 DEF TypeOK

(* The vectors of ShapeData have the lengths that the code relies on, and  *)
(* each primitive is in exactly one part, which is never empty.            *)
THEOREM TypeCorrect == Spec => []TypeOK
BY InvAlways, TypeInvariant, PTL

(* As long as prt makes an initial shape of every part, each of them has   *)
(* its counterpart in pldGenerate: only a failed creation, which leaves    *)
(* put with other indices than get had, breaks this promise of the README. *)
THEOREM AssignedReachGenerateInStep == Spec => [](InStep => AssignedReachGenerate)
<1>1. IInv => (InStep => AssignedReachGenerate)
  <2>. SUFFICES ASSUME IInv, InStep, pc = "done", OneClassifier, NEW j \in DOMAIN shapes
                PROVE  \/ \E i \in DOMAIN extracted : extracted[i].prims = shapes[j].prims
                       \/ shapes[j].prims \in rejected
    BY DEF AssignedReachGenerate
  <2>1. GenerateSeesAssigned
    BY GenerateSeesInvariant
  <2>. QED  BY <2>1 DEF GenerateSeesAssigned
<1>. QED  BY <1>1, InvAlways, PTL
=============================================================================
