---------------------------- MODULE ShapeAssign ----------------------------
(***************************************************************************)
(* The initial shapes of one geometry on their way through a pldAssign     *)
(* node and the pldGenerate node behind it.  ShapeConverter::get divides   *)
(* the primitives by classifier value and makes a builder for each part;   *)
(* evaluateDefaultRuleAttributes makes initial shapes of the builders and  *)
(* evaluates them, updateDefaultCGAAttributes collects the default values, *)
(* and ShapeConverter::put writes what pldGenerate needs to the primitives *)
(* again; ShapeGenerator::get then reads it from there.  Everything hangs  *)
(* together by index only: builders, primitive mappings and rule file      *)
(* infos have one entry for each part, initial shapes and the builders of  *)
(* rule attributes one for each initial shape that could be created.       *)
(*                                                                         *)
(* Start rule and style go the way of the rule package and are left out.   *)
(* External: whether a package can be read, whether prt makes an initial   *)
(* shape of a builder, and the attributes that prt::generate evaluates.    *)
(***************************************************************************)
EXTENDS Integers, Sequences, FiniteSets, FiniteSetsExt

CONSTANTS NumPrims,     \* primitives of the input
          ClsValues,    \* values of the classifier attribute
          ClsAttribute, \* the name of the one attribute that classifies
          ClsNames,     \* names a primitive or the parameter may give
          Rpks,         \* rule packages
          Seeds,        \* values of the seed attribute and parameter
          Keys,         \* attributes of rule files
          RuleAttrs,    \* RuleAttrs[r]: the attributes of package r
          HiddenAttrs,  \* HiddenAttrs[r]: those annotated as hidden
          None          \* the empty string: no name, no package

ASSUME ShapeAssignAssumption ==
    /\ NumPrims \in Nat \ {0}
    /\ ClsValues \subseteq Int
    /\ None \notin Rpks /\ None # ClsAttribute
    /\ \A r \in Rpks : HiddenAttrs[r] \subseteq RuleAttrs[r] /\ RuleAttrs[r] \subseteq Keys

VARIABLES pc,        \* where the two cooks are
          parms,     \* the parameters of the assign node
          readable,  \* packages with a resolve map and one rule file
          input,     \* the attributes of the primitives of the input
          detail,    \* those of the output of pldAssign
          mapping,   \* mPrimitiveMapping: the parts, in order
          isIdx,     \* the part a loop is at
          infos,     \* ruleFileInfos: the package of each part
          shapes,    \* mInitialShapes, with what each was made of
          ambs,      \* mRuleAttributeBuilders: the keys each received
          defaults,  \* mDefaultCGAAttributes: the shape behind each key
          extracted, \* the initial shapes of pldGenerate
          rejected   \* parts of which prt made no initial shape there

vars == <<pc, parms, readable, input, detail, mapping, isIdx, infos, shapes,
          ambs, defaults, extracted, rejected>>

Prims == 1 .. NumPrims

(* A random seed is a number, or the hash of the centroid of a part.       *)
Number(s) == [number |-> s, hashed |-> {}]
Hash(part) == [number |-> 0, hashed |-> part]

InvalidClsValue == -1

-----------------------------------------------------------------------------
(* PrimitiveClassifier and PrimitivePartition.                             *)

(* updateFromPrimitive: the name given by the primitive, else the node's.  *)
ClassifierName(d, p, nodeName) == IF d.hasName THEN d.prims[p].name ELSE nodeName

(* add: without a classifier attribute the primitive joins the fallback    *)
(* part, and so do those whose classifier has that very value.             *)
ClassifierValue(d, p, nodeName) ==
    IF ClassifierName(d, p, nodeName) = ClsAttribute
    THEN d.prims[p].cls
    ELSE InvalidClsValue

(* Variant: a primitive without a classifier attribute joins no part.      *)
PartOf_classified(d, v, nodeName) ==
    {p \in Prims : ClassifierName(d, p, nodeName) = ClsAttribute /\ d.prims[p].cls = v}

PartOf(d, v, nodeName) == {p \in Prims : ClassifierValue(d, p, nodeName) = v}

(* The parts by ascending classifier value, the order of the std::map.     *)
Parts(d, nodeName) ==
    LET values == {ClassifierValue(d, p, nodeName) : p \in Prims}
        rank(v) == Cardinality({w \in values : w <= v})
    IN  [i \in 1 .. Cardinality(values) |->
           PartOf(d, CHOOSE v \in values : rank(v) = i, nodeName)]

(* The primitives of a part are in the order of their offsets.             *)
First(part) == Min(part)

(* getRandomSeed                                                           *)
SeedOf(d, part) == IF d.hasSeed THEN d.prims[First(part)].seed ELSE Hash(part)

(* getMainAttributesFromPrimitive                                          *)
RpkOf(d, p, nodeRpk) == IF d.prims[p].rpk # None THEN d.prims[p].rpk ELSE nodeRpk

-----------------------------------------------------------------------------
(* A detail: whether pldPrimClsName and pldRandomSeed exist on primitives, *)
(* and the values; a new attribute is empty, a new seed is 0.              *)
Details ==
    {d \in [hasName : BOOLEAN, hasSeed : BOOLEAN,
            prims : [Prims -> [cls : ClsValues, name : ClsNames \cup {None},
                               rpk : Rpks \cup {None},
                               seed : {Number(s) : s \in Seeds \cup {0}}]]] :
       \A p \in Prims :
         /\ ~d.hasName => d.prims[p].name = None
         /\ d.prims[p].seed \in {Number(s) : s \in IF d.hasSeed THEN Seeds ELSE {0}}}

Init ==
    /\ pc = "get"
    /\ parms \in [name : ClsNames, rpk : Rpks \cup {None}, overrideSeed : BOOLEAN,
                  seed : {Number(s) : s \in Seeds}]
    /\ readable \in SUBSET Rpks
    /\ input \in Details
    /\ detail = input
    /\ mapping = <<>>
    /\ isIdx = 1
    /\ infos = <<>>
    /\ shapes = <<>>
    /\ ambs = <<>>
    /\ defaults = [k \in {} |-> 0]
    /\ extracted = <<>>
    /\ rejected = {}

(* ShapeConverter::get                                                     *)
Get ==
    /\ pc = "get"
    /\ mapping' = Parts(detail, parms.name)
    /\ pc' = "create"
    /\ UNCHANGED <<parms, readable, input, detail, isIdx, infos, shapes, ambs,
                   defaults, extracted, rejected>>

-----------------------------------------------------------------------------
(* evaluateDefaultRuleAttributes                                           *)

AssignRpk(i) == RpkOf(detail, First(mapping[i]), parms.rpk)
AssignSeed(i) == IF parms.overrideSeed THEN parms.seed ELSE SeedOf(detail, mapping[i])

(* The package of a part cannot be read: the cook aborts.                  *)
Unreadable ==
    /\ pc = "create"
    /\ isIdx <= Len(mapping)
    /\ AssignRpk(isIdx) \notin readable
    /\ pc' = "aborted"
    /\ UNCHANGED <<parms, readable, input, detail, mapping, isIdx, infos, shapes,
                   ambs, defaults, extracted, rejected>>

(* The rule file info of the part is kept, and prt makes an initial shape  *)
(* of it or does not.                                                      *)
Create ==
    /\ pc = "create"
    /\ isIdx <= Len(mapping)
    /\ AssignRpk(isIdx) \in readable
    /\ infos' = Append(infos, AssignRpk(isIdx))
    /\ \/ shapes' = Append(shapes, [prims |-> mapping[isIdx], rpk |-> AssignRpk(isIdx),
                                    seed |-> AssignSeed(isIdx)])
       \/ UNCHANGED shapes
    /\ isIdx' = isIdx + 1
    /\ UNCHANGED <<pc, parms, readable, input, detail, mapping, ambs, defaults,
                   extracted, rejected>>

(* isHiddenAttribute                                                       *)
IsHidden(r, k) == k \in HiddenAttrs[r]

(* Variant: the filter is always the rule file info of the first part.     *)
Received_firstInfo(j) == {k \in RuleAttrs[shapes[j].rpk] : ~ IsHidden(infos[1], k)}

(* AttrEvalCallbacks, called with the index of an initial shape: what the  *)
(* rule file info at this index does not hide goes to its builder.         *)
Received(j) == {k \in RuleAttrs[shapes[j].rpk] : ~ IsHidden(infos[j], k)}

Evaluate ==
    /\ pc = "create"
    /\ isIdx > Len(mapping)
    /\ \/ /\ ambs' = [j \in DOMAIN shapes |-> Received(j)]
          /\ pc' = "defaults"
       \/ /\ pc' = "aborted"
          /\ UNCHANGED ambs
    /\ UNCHANGED <<parms, readable, input, detail, mapping, isIdx, infos, shapes,
                   defaults, extracted, rejected>>

-----------------------------------------------------------------------------
(* Variant: a later initial shape replaces the values of an earlier one.   *)
Behind_last(k) == Max({j \in DOMAIN ambs : k \in ambs[j]})

(* The first initial shape that has the key provides the value.            *)
Behind(k) == Min({j \in DOMAIN ambs : k \in ambs[j]})

(* updateDefaultCGAAttributes, and the rule file of the first part for the *)
(* parameters: they have been read for this part before.                   *)
UpdateDefaults ==
    /\ pc = "defaults"
    /\ defaults' = [k \in UNION {ambs[j] : j \in DOMAIN ambs} |-> Behind(k)]
    /\ pc' = "put"
    /\ UNCHANGED <<parms, readable, input, detail, mapping, isIdx, infos, shapes,
                   ambs, extracted, rejected>>

(* Variant: the parameter goes before the attribute of the primitive.      *)
PutRpk_parameter(p) == IF parms.rpk # None THEN parms.rpk ELSE detail.prims[p].rpk

(* putMainAttributes                                                       *)
PutRpk(p) == RpkOf(detail, p, parms.rpk)

(* put loops over the builders of rule attributes and addresses mapping    *)
(* and seeds with the same index.                                          *)
Put ==
    LET covered == UNION {mapping[j] : j \in DOMAIN ambs}
        partOf(p) == CHOOSE j \in DOMAIN ambs : p \in mapping[j]
        written(p) == [cls |-> detail.prims[p].cls, name |-> parms.name, rpk |-> PutRpk(p),
                       seed |-> AssignSeed(partOf(p))]
    IN
    /\ pc = "put"
    /\ detail' = [hasName |-> TRUE, hasSeed |-> TRUE,
                  prims |-> [p \in Prims |-> IF p \in covered THEN written(p)
                                                              ELSE detail.prims[p]]]
    /\ pc' = "divide"
    /\ UNCHANGED <<parms, readable, input, mapping, isIdx, infos, shapes, ambs,
                   defaults, extracted, rejected>>

-----------------------------------------------------------------------------
(* ShapeGenerator::get, whose node has neither classifier nor package.     *)

Divide ==
    /\ pc = "divide"
    /\ mapping' = Parts(detail, None)
    /\ isIdx' = 1
    /\ pc' = "extract"
    /\ UNCHANGED <<parms, readable, input, detail, infos, shapes, ambs, defaults,
                   extracted, rejected>>

(* A part without a package that can be read is skipped.                   *)
Extract ==
    LET rpk == RpkOf(detail, First(mapping[isIdx]), None) IN
    /\ pc = "extract"
    /\ isIdx <= Len(mapping)
    /\ isIdx' = isIdx + 1
    /\ \/ /\ rpk \in readable
          /\ extracted' = Append(extracted, [prims |-> mapping[isIdx], rpk |-> rpk,
                                             seed |-> SeedOf(detail, mapping[isIdx])])
          /\ UNCHANGED rejected
       \/ /\ rpk \in readable
          /\ rejected' = rejected \cup {mapping[isIdx]}
          /\ UNCHANGED extracted
       \/ /\ rpk \notin readable
          /\ UNCHANGED <<extracted, rejected>>
    /\ UNCHANGED <<pc, parms, readable, input, detail, mapping, infos, shapes, ambs,
                   defaults>>

ExtractEnd ==
    /\ pc = "extract"
    /\ isIdx > Len(mapping)
    /\ pc' = "done"
    /\ UNCHANGED <<parms, readable, input, detail, mapping, isIdx, infos, shapes, ambs,
                   defaults, extracted, rejected>>

Next ==
    \/ Get
    \/ Unreadable
    \/ Create
    \/ Evaluate
    \/ UpdateDefaults
    \/ Put
    \/ Divide
    \/ Extract
    \/ ExtractEnd

Spec == Init /\ [][Next]_vars

-----------------------------------------------------------------------------
Shape == [prims : SUBSET Prims, rpk : Rpks,
          seed : {Number(s) : s \in Seeds \cup {0}} \cup {Hash(part) : part \in SUBSET Prims}]

(* The vectors of ShapeData and their lengths; the parts are not empty and *)
(* contain each primitive once.                                            *)
TypeOK ==
    /\ readable \subseteq Rpks
    /\ pc # "get" =>
         /\ UNION {mapping[i] : i \in DOMAIN mapping} = Prims
         /\ \A i, j \in DOMAIN mapping : mapping[i] # {} /\ (i # j => mapping[i] \cap mapping[j] = {})
    /\ infos \in Seq(Rpks)
    /\ shapes \in Seq(Shape) /\ Len(shapes) <= Len(infos)
    /\ ambs \in Seq(SUBSET Keys) /\ Len(ambs) \in {0, Len(shapes)}
    /\ DOMAIN defaults \subseteq Keys
    /\ \A k \in DOMAIN defaults : defaults[k] \in DOMAIN ambs
    /\ extracted \in Seq(Shape)
    /\ rejected \subseteq SUBSET Prims

(* The indices are in step if prt made an initial shape of every part.     *)
InStep == Len(shapes) = Len(infos)

(* No primitive names another classifier than the node does.               *)
OneClassifier ==
    input.hasName => \A p \in Prims : input.prims[p].name = parms.name

(* What the two nodes have between them is only the primitive attributes.  *)
(* Still pldGenerate divides the primitives as pldAssign did, and gives    *)
(* each part the package and the seed that its attributes were evaluated   *)
(* with: also when the parameters, the attributes of the input, or the     *)
(* centroid provided them, and when the fallback part has other primitives *)
(* in it.                                                                  *)
GenerateSeesAssigned ==
    pc = "done" /\ InStep /\ OneClassifier =>
      LET assigned == {shapes[j] : j \in DOMAIN shapes} IN
      /\ \A e \in {extracted[i] : i \in DOMAIN extracted} : e \in assigned
      /\ \A a \in assigned :
           (\E i \in DOMAIN extracted : extracted[i] = a) \/ a.prims \in rejected

(* SOPAssign.cpp, "keep rule file info per initial shape to filter         *)
(* generated attributes": a shape's attributes are all those of its own    *)
(* package that this package does not hide.                                *)
OwnAttributes ==
    InStep => \A j \in DOMAIN ambs :
      ambs[j] = RuleAttrs[shapes[j].rpk] \ HiddenAttrs[shapes[j].rpk]

(* The parameters of the node are those of the first part's rule file, and *)
(* their default values are those of the first part, whatever other shapes *)
(* with the same keys evaluate to.                                         *)
DefaultsOfFirstPart ==
    pc = "put" /\ InStep =>
      \A k \in RuleAttrs[infos[1]] \ HiddenAttrs[infos[1]] :
        k \in DOMAIN defaults /\ defaults[k] = 1

(* README, "to create the required metadata to the input geometry (as      *)
(* primitive attributes) such that the pldGenerate operator can            *)
(* procedurally generate the geometry": each initial shape of pldAssign    *)
(* has its counterpart in pldGenerate.                                     *)
AssignedReachGenerate ==
    pc = "done" /\ OneClassifier =>
      \A j \in DOMAIN shapes :
        \/ \E i \in DOMAIN extracted : extracted[i].prims = shapes[j].prims
        \/ shapes[j].prims \in rejected
=============================================================================
