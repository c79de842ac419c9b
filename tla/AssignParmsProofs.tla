------------------------- MODULE AssignParmsProofs -------------------------
(***************************************************************************)
(* What AssignParms promises, for all packages, edits and lists.  A cook   *)
(* computes with values of the types of the parameters it has; so what it  *)
(* sends to the rule engine for a set parameter is what pldGenerate makes  *)
(* of the primitive attribute, and a set value stays.  The parameters are  *)
(* those of all visible attributes, in their order, and each is in the     *)
(* folders of its groups: an arrangement is built entry by entry, and an   *)
(* entry that is put into a folder leaves the others where they are.       *)
(***************************************************************************)
EXTENDS AssignParms, RuleAttributesProofs

-----------------------------------------------------------------------------
(* The attributes of a package, from its rule file.                        *)

LEMMA ElementsOf ==
    ASSUME NEW S, NEW seq \in Seq(S)
    PROVE  /\ \A x \in ToSet(seq) : x \in S /\ \E i \in DOMAIN seq : x = seq[i]
           /\ \A i \in DOMAIN seq : seq[i] \in ToSet(seq)
BY DEF ToSet

(* The start of a path has each start of it as a prefix.                   *)
LEMMA ParentIsPrefix ==
    ASSUME NEW s \in Seq(Int), NEW t \in Seq(Int), IsChildOf(t, s)
    PROVE  IsPrefix(s, t)
<1>1. SubSeq(s, 1, Len(s)) = SubSeq(t, 1, Len(s))
  BY DEF IsChildOf
<1> QED
  BY <1>1 DEF IsPrefix, IsChildOf

(* What the assumption on packages gives the theorems on getRuleAttributes.*)
LEMMA SoundRuleFiles ==
    ASSUME NEW p \in Packages
    PROVE  LET info == RuleFile[p] IN
           /\ info.attributes \in Seq(ToSet(info.attributes))
           /\ WellFormed(info, [style : Int, prefix : Int, name : Int], Types)
           /\ OneDeclaration(info)
           /\ \A d, e \in ToSet(info.attributes) : d.prefix = e.prefix /\ d.name = e.name => d = e
           /\ \A d \in ToSet(info.attributes) : SoundDeclaration(info, d)
<1>1. PICK info : info = RuleFile[p]
  OBVIOUS
<1>2. SoundRuleFile(info)
  BY <1>1, AssignParmsAssumption
<1>3. /\ info.attributes \in Seq(ToSet(info.attributes))
      /\ WellFormed(info, [style : Int, prefix : Int, name : Int], Types)
      /\ \A d, e \in ToSet(info.attributes) : d.prefix = e.prefix /\ d.name = e.name => d = e
      /\ \A d \in ToSet(info.attributes) : SoundDeclaration(info, d)
  BY <1>2 DEF SoundRuleFile
<1>4. OneDeclaration(info)
  BY <1>3, ElementsOf DEF OneDeclaration
<1> QED
  BY <1>1, <1>3, <1>4

(* The sorted attributes are those of the visible declarations.            *)
LEMMA AttributesDeclared ==
    ASSUME NEW p \in Packages
    PROVE  LET info == RuleFile[p]
               ra == SortedAttributes[p]
           IN
           /\ ra \in Seq(ToSet(ra))
           /\ \A a \in ToSet(ra) : \E d \in ToSet(info.attributes) :
                IsVisible(d) /\ IsOf(a, info, d)
           /\ \A d \in ToSet(info.attributes) : IsVisible(d) =>
                \E a \in ToSet(ra) : IsOf(a, info, d)
<1>1. PICK info, ra : info = RuleFile[p] /\ ra = SortedAttributes[p]
  OBVIOUS
<1>2. ra = GetRuleAttributes(info)
  BY <1>1 DEF SortedAttributes
<1>3. /\ info.attributes \in Seq(ToSet(info.attributes))
      /\ WellFormed(info, [style : Int, prefix : Int, name : Int], Types)
      /\ OneDeclaration(info)
  BY <1>1, SoundRuleFiles
<1>4. PICK S : ra \in Seq(S)
  BY <1>2, <1>3, RuleAttributesSorted
<1>5. /\ \A k \in DOMAIN ra : \E i \in DOMAIN info.attributes :
           IsVisible(info.attributes[i]) /\ IsOf(ra[k], info, info.attributes[i])
      /\ \A i \in DOMAIN info.attributes : IsVisible(info.attributes[i]) =>
           \E k \in DOMAIN ra : IsOf(ra[k], info, info.attributes[i])
  BY <1>2, <1>3, NoDeclarationLost
<1>6. ra \in Seq(ToSet(ra))
  <2>1. Len(ra) \in Nat /\ DOMAIN ra = 1 .. Len(ra) /\ ra = [k \in 1 .. Len(ra) |-> ra[k]]
    BY <1>4
  <2>2. \A k \in 1 .. Len(ra) : ra[k] \in ToSet(ra)
    BY <1>4, <2>1, ElementsOf
  <2> QED
    BY <2>1, <2>2
<1>7. ASSUME NEW a \in ToSet(ra)
      PROVE  \E d \in ToSet(info.attributes) : IsVisible(d) /\ IsOf(a, info, d)
  BY <1>3, <1>4, <1>5, ElementsOf
<1>8. ASSUME NEW d \in ToSet(info.attributes), IsVisible(d)
      PROVE  \E a \in ToSet(ra) : IsOf(a, info, d)
  BY <1>3, <1>4, <1>5, <1>8, ElementsOf
<1> QED
  BY <1>1, <1>6, <1>7, <1>8

(* The parameters are made for all visible attributes of the rule file and *)
(* for no others: the first part of NoAttributeLost, for every package.    *)
THEOREM AttributesComplete ==
    ASSUME NEW p \in Packages
    PROVE  {a.fqName : a \in ToSet(SortedAttributes[p])}
             = {FqName(d) : d \in {e \in ToSet(RuleFile[p].attributes) : IsVisible(e)}}
<1>1. PICK info, ra : info = RuleFile[p] /\ ra = SortedAttributes[p]
  OBVIOUS
<1>2. /\ \A a \in ToSet(ra) : \E d \in ToSet(info.attributes) : IsVisible(d) /\ IsOf(a, info, d)
      /\ \A d \in ToSet(info.attributes) : IsVisible(d) => \E a \in ToSet(ra) : IsOf(a, info, d)
  BY <1>1, AttributesDeclared
<1> QED
  BY <1>1, <1>2 DEF IsOf

-----------------------------------------------------------------------------
(* The order of the parameters.                                            *)

(* Each of the four reasons for an attribute to come first makes the       *)
(* comparator put it first.                                                *)
LEMMA ReasonsToBeFirst ==
    ASSUME NEW a, NEW b, IsRuleAttribute(a), IsRuleAttribute(b), Consistent(a, b),
           \/ a.memberOfStartRuleFile /\ ~b.memberOfStartRuleFile
           \/ a.ruleFile = b.ruleFile /\ a.groups = b.groups /\ a.order < b.order
           \/ a.ruleFile = b.ruleFile /\ a.groups # <<>> /\ IsChildOf(b.groups, a.groups)
           \/ /\ a.ruleFile = b.ruleFile
              /\ ~IsPrefix(a.groups, b.groups) /\ ~IsPrefix(b.groups, a.groups)
              /\ a.globalGroupOrder < b.globalGroupOrder
    PROVE  Before(a, b)
<1>1. a.groups \in Seq(Int) /\ b.groups \in Seq(Int)
  BY DEF IsRuleAttribute
<1>2. CASE a.memberOfStartRuleFile /\ ~b.memberOfStartRuleFile
  <2>1. a.ruleFile # b.ruleFile
    BY <1>2 DEF Consistent
  <2> QED
    BY <1>2, <2>1 DEF Before, RuleFileBefore
<1>3. CASE a.ruleFile = b.ruleFile /\ a.groups = b.groups /\ a.order < b.order
  BY <1>3 DEF Before, AttributeOrderBefore
<1>4. CASE a.ruleFile = b.ruleFile /\ a.groups # <<>> /\ IsChildOf(b.groups, a.groups)
  <2>1. Len(a.groups) < Len(b.groups)
    BY <1>4 DEF IsChildOf
  <2>2. b.groups # <<>> /\ b.groups # a.groups /\ ~IsChildOf(a.groups, b.groups)
    BY <1>1, <2>1 DEF IsChildOf
  <2> QED
    BY <1>4, <2>2 DEF Before, GroupOrderBefore
<1>5. CASE /\ a.ruleFile = b.ruleFile
           /\ ~IsPrefix(a.groups, b.groups) /\ ~IsPrefix(b.groups, a.groups)
           /\ a.globalGroupOrder < b.globalGroupOrder
  <2>1. \A s \in Seq(Int) : IsPrefix(s, s) /\ IsPrefix(<<>>, s)
    BY DEF IsPrefix
  <2>2. a.groups # b.groups /\ a.groups # <<>> /\ b.groups # <<>>
    BY <1>1, <1>5, <2>1
  <2>3. ~IsChildOf(a.groups, b.groups)
    BY <1>1, <1>5, ParentIsPrefix
  <2> QED
    BY <1>5, <2>2, <2>3 DEF Before, GroupOrderBefore
<1> QED
  BY <1>2, <1>3, <1>4, <1>5

(* In the sorted attributes of a package a reason to be first is a lower   *)
(* index.                                                                  *)
LEMMA FirstMeansLower ==
    ASSUME NEW p \in Packages, NEW i \in DOMAIN SortedAttributes[p],
           NEW j \in DOMAIN SortedAttributes[p],
           Before(SortedAttributes[p][i], SortedAttributes[p][j])
    PROVE  i < j
<1>1. PICK info, ra : info = RuleFile[p] /\ ra = SortedAttributes[p]
  OBVIOUS
<1>2. ra = GetRuleAttributes(info)
  BY <1>1 DEF SortedAttributes
<1>3. /\ info.attributes \in Seq(ToSet(info.attributes))
      /\ WellFormed(info, [style : Int, prefix : Int, name : Int], Types)
  BY <1>1, SoundRuleFiles
<1>4. PICK S : /\ ra \in Seq(S) /\ Sorted(ra)
               /\ \A a, b \in S : IsRuleAttribute(a) /\ Consistent(a, b)
  BY <1>2, <1>3, RuleAttributesSorted
<1>5. i \in Nat /\ j \in Nat /\ ra[i] \in S /\ ra[j] \in S
  BY <1>1, <1>4
<1>6. ~Before(ra[i], ra[i])
  BY <1>4, <1>5, BeforeIrreflexive
<1>7. i # j
  BY <1>1, <1>6
<1>8. ~(j < i)
  <2> SUFFICES ASSUME j < i PROVE FALSE
    OBVIOUS
  <2>1. Before(ra[j], ra[i])
    BY <1>1, <1>4 DEF Sorted
  <2>2. Before(ra[i], ra[i])
    BY <1>1, <1>4, <1>5, <2>1, BeforeTransitive
  <2> QED
    BY <1>6, <2>2
<1> QED
  BY <1>5, <1>7, <1>8

(* For any package the parameters are in the order of the annotations.     *)
LEMMA InOrder ==
    ASSUME rpk \in Packages
    PROVE  ParmsInOrder
<1>1. PICK info, ra : info = RuleFile[rpk] /\ ra = SortedAttributes[rpk]
  OBVIOUS
<1>2. ra = GetRuleAttributes(info)
  BY <1>1 DEF SortedAttributes
<1>3. /\ info.attributes \in Seq(ToSet(info.attributes))
      /\ WellFormed(info, [style : Int, prefix : Int, name : Int], Types)
      /\ OneDeclaration(info)
  BY <1>1, SoundRuleFiles
<1>4. PICK S : /\ ra \in Seq(S)
               /\ \A a, b \in S : IsRuleAttribute(a) /\ Consistent(a, b)
  BY <1>2, <1>3, RuleAttributesSorted
<1>5. \A k \in DOMAIN ra : ra[k].groups # <<>> =>
        ra[k].globalGroupOrder = Min(GroupOrders(ra, ra[k].ruleFile, ra[k].groups))
  BY <1>2, <1>3, NoDeclarationLost
<1> DEFINE orders(a) == {b.groupOrder : b \in {c \in ToSet(ra) :
                           c.ruleFile = a.ruleFile /\ IsPrefix(a.groups, c.groups)}}
<1>6. \A a : orders(a) = GroupOrders(ra, a.ruleFile, a.groups)
  BY <1>4, ElementsOf DEF GroupOrders
<1>7. \A k \in DOMAIN ra : ra[k].groups # <<>> => ra[k].globalGroupOrder = Min(orders(ra[k]))
  BY <1>5, <1>6
<1> HIDE DEF orders
<1>8. ASSUME NEW i \in DOMAIN ra, NEW j \in DOMAIN ra,
             \/ ra[i].memberOfStartRuleFile /\ ~ra[j].memberOfStartRuleFile
             \/ /\ ra[i].ruleFile = ra[j].ruleFile /\ ra[i].groups = ra[j].groups
                /\ ra[i].order < ra[j].order
             \/ /\ ra[i].ruleFile = ra[j].ruleFile /\ ra[i].groups # <<>>
                /\ IsChildOf(ra[j].groups, ra[i].groups)
             \/ /\ ra[i].ruleFile = ra[j].ruleFile
                /\ ~IsPrefix(ra[i].groups, ra[j].groups) /\ ~IsPrefix(ra[j].groups, ra[i].groups)
                /\ Min(orders(ra[i])) < Min(orders(ra[j]))
      PROVE  i < j
  <2>1. ra[i] \in S /\ ra[j] \in S
    BY <1>4
  <2>2. IsRuleAttribute(ra[i]) /\ IsRuleAttribute(ra[j]) /\ Consistent(ra[i], ra[j])
    BY <1>4, <2>1
  <2>3. \A s \in Seq(Int) : IsPrefix(<<>>, s)
    BY DEF IsPrefix
  <2>4. ra[i].groups \in Seq(Int) /\ ra[j].groups \in Seq(Int)
    BY <2>2 DEF IsRuleAttribute
  <2>5. ~IsPrefix(ra[i].groups, ra[j].groups) /\ ~IsPrefix(ra[j].groups, ra[i].groups) =>
          /\ ra[i].globalGroupOrder = Min(orders(ra[i]))
          /\ ra[j].globalGroupOrder = Min(orders(ra[j]))
    BY <1>7, <2>3, <2>4
  <2>6. Before(ra[i], ra[j])
    BY <1>8, <2>2, <2>5, ReasonsToBeFirst
  <2> QED
    BY <1>1, <2>6, FirstMeansLower
<1> QED
  BY <1>1, <1>8 DEF ParmsInOrder, orders

-----------------------------------------------------------------------------
(* The types of parameters and of values.                                  *)

Parameter ==
    [kind : Kinds, value : Seq(Int), default : Seq(Int), count : Nat, options : Seq(Int),
     percent : BOOLEAN]

(* The value of a menu is the index of an option.                          *)
ParmValues(parm) ==
    IF parm.kind \in Menus THEN [1 .. 1 -> 0 .. Len(parm.options) - 1]
                           ELSE ValuesOf(TypeOf(parm.kind))

ParmOK(parm) ==
    /\ parm \in Parameter
    /\ {parm.value, parm.default} \subseteq ParmValues(parm)
    /\ Len(parm.value) = Len(parm.default)
    /\ parm.kind \notin Lists => parm.count = 1

ValueOK(v) == v.type \in Types /\ v.val \in ValuesOf(v.type)
ValuesOK(values) == \A fq \in DOMAIN values : ValueOK(values[fq])

LEMMA OneItem ==
    ASSUME NEW S
    PROVE  /\ \A v \in [1 .. 1 -> S] : v \in Seq(S) /\ Len(v) = 1 /\ v[1] \in S
           /\ \A v \in Seq(S) : Len(v) = 1 => v \in [1 .. 1 -> S]
           /\ \A x \in S : <<x>> \in [1 .. 1 -> S]
<1>1. ASSUME NEW v \in [1 .. 1 -> S] PROVE v \in Seq(S) /\ Len(v) = 1 /\ v[1] \in S
  <2>1. v = [i \in 1 .. 1 |-> v[i]] /\ 1 \in Nat /\ \A i \in 1 .. 1 : v[i] \in S
    OBVIOUS
  <2>2. v \in Seq(S)
    BY <2>1
  <2> QED
    BY <2>1, <2>2
<1>2. ASSUME NEW v \in Seq(S), Len(v) = 1 PROVE v \in [1 .. 1 -> S]
  BY <1>2
<1>3. ASSUME NEW x \in S PROVE <<x>> \in [1 .. 1 -> S]
  <2>1. <<x>> \in Seq(S) /\ Len(<<x>>) = 1
    OBVIOUS
  <2> QED
    BY <2>1, <1>2
<1> QED
  BY <1>1, <1>2, <1>3

LEMMA TypesOfKinds ==
    ASSUME NEW kind \in Kinds
    PROVE  /\ TypeOf(kind) \in Types
           /\ kind \in Lists => TypeOf(kind) = kind
           /\ kind \notin Lists => TypeOf(kind) \in {"bool", "float", "str"}
           /\ kind = "toggle" => TypeOf(kind) = "bool"
           /\ kind \in {"float", "floatEnum"} => TypeOf(kind) = "float"
           /\ kind \in {"string", "stringEnum", "color"} => TypeOf(kind) = "str"
BY DEF Kinds, Lists, Types, TypeOf

LEMMA ValuesOfTypes ==
    /\ ValuesOf("bool") = [1 .. 1 -> {0, 1}]
    /\ ValuesOf("float") = [1 .. 1 -> Int] /\ ValuesOf("str") = [1 .. 1 -> Int]
    /\ ValuesOf("bools") = Seq({0, 1})
    /\ ValuesOf("floats") = Seq(Int) /\ ValuesOf("strings") = Seq(Int)
    /\ Types = {"bool", "float", "str", "bools", "floats", "strings"}
BY DEF ValuesOf, Types, Lists

LEMMA BitsAreNumbers ==
    ASSUME NEW v \in Seq({0, 1})
    PROVE  v \in Seq(Int)
<1>1. v = [i \in 1 .. Len(v) |-> v[i]] /\ Len(v) \in Nat /\ \A i \in 1 .. Len(v) : v[i] \in Int
  OBVIOUS
<1> QED
  BY <1>1

(* Values are sequences of numbers, those of scalar types of one.          *)
LEMMA ValuesAreSequences ==
    ASSUME NEW type \in Types, NEW v \in ValuesOf(type)
    PROVE  v \in Seq(Int) /\ (type \notin Lists => v \in [1 .. 1 -> Int] /\ Len(v) = 1)
<1>1. CASE type = "bool"
  <2>1. v \in [1 .. 1 -> {0, 1}]
    BY <1>1, ValuesOfTypes
  <2>2. v \in [1 .. 1 -> Int]
    BY <2>1
  <2> QED
    BY <2>2, OneItem
<1>2. CASE type \in {"float", "str"}
  BY <1>2, ValuesOfTypes, OneItem
<1>3. CASE type = "bools"
  BY <1>3, ValuesOfTypes, BitsAreNumbers DEF Lists
<1>4. CASE type \in {"floats", "strings"}
  BY <1>4, ValuesOfTypes DEF Lists
<1> QED
  BY <1>1, <1>2, <1>3, <1>4, ValuesOfTypes

(* So are the values of parameters.                                        *)
LEMMA ParmsAreSequences ==
    ASSUME NEW parm, parm.kind \in Kinds, parm.options \in Seq(Int), NEW v \in ParmValues(parm)
    PROVE  v \in Seq(Int) /\ (parm.kind \notin Lists => Len(v) = 1)
<1>1. CASE parm.kind \in Menus
  <2>1. v \in [1 .. 1 -> 0 .. Len(parm.options) - 1]
    BY <1>1 DEF ParmValues
  <2>2. v \in [1 .. 1 -> Int]
    BY <2>1
  <2> QED
    BY <2>2, OneItem
<1>2. CASE parm.kind \notin Menus
  <2>1. v \in ValuesOf(TypeOf(parm.kind))
    BY <1>2 DEF ParmValues
  <2>2. TypeOf(parm.kind) \in Types /\ (parm.kind \notin Lists => TypeOf(parm.kind) \notin Lists)
    BY TypesOfKinds DEF Lists
  <2> QED
    BY <2>1, <2>2, ValuesAreSequences
<1> QED
  BY <1>1, <1>2

(* What a menu shows is the text of an option.                             *)
LEMMA TokenIsValue ==
    ASSUME NEW parm, ParmOK(parm), parm.kind \in Menus
    PROVE  Token(parm) \in [1 .. 1 -> Int]
<1>1. parm.value \in [1 .. 1 -> 0 .. Len(parm.options) - 1] /\ parm.options \in Seq(Int)
  BY DEF ParmOK, ParmValues, Parameter
<1>2. parm.value[1] \in 0 .. Len(parm.options) - 1
  BY <1>1
<1>3. parm.options[parm.value[1] + 1] \in Int
  BY <1>1, <1>2
<1> QED
  BY <1>3, OneItem DEF Token

-----------------------------------------------------------------------------
(* The types of what a cook computes.                                      *)

(* A name stands for one declaration.                                      *)
LEMMA OneName ==
    ASSUME rpk \in Packages, NEW d \in ToSet(Info.attributes)
    PROVE  Decl(FqName(d)) = d
<1>1. \A e \in ToSet(Info.attributes) : FqName(e) = FqName(d) => e = d
  <2>1. \A e : FqName(e) = FqName(d) => e.prefix = d.prefix /\ e.name = d.name
    BY DEF FqName
  <2> QED
    BY <2>1, SoundRuleFiles DEF Info
<1> QED
  BY <1>1 DEF Decl

(* What a rule evaluates its attributes to, whatever it is given.          *)
LEMMA EvaluateTyped ==
    ASSUME rpk \in Packages, NEW given, ValuesOK(given), NEW fq \in DOMAIN Evaluate(given)
    PROVE  /\ ValueOK(Evaluate(given)[fq])
           /\ \E d \in ToSet(Info.attributes) :
                /\ IsVisible(d) /\ d.style = style
                /\ FqName(d) = fq /\ Evaluate(given)[fq].type = d.type
<1> DEFINE attrs == ToSet(Info.attributes)
           declared == {d \in attrs : d.params = 0 /\ d.style = style}
           isGiven(d) == FqName(d) \in DOMAIN given /\ given[FqName(d)].type = d.type
           other(d) == CHOOSE e \in declared : e.prefix = d.prefix /\ e.name = d.like
           source(d) == IF isGiven(d) \/ d.like = NoPrefix THEN d ELSE other(d)
           val(d) == IF isGiven(source(d)) THEN given[FqName(source(d))].val ELSE source(d).val
           shown == {FqName(d) : d \in {e \in declared : ~Hidden(e)}}
<1>1. Evaluate(given) = [f \in shown |-> Value(Decl(f).type, val(Decl(f)))]
  BY DEF Evaluate
<1>2. DOMAIN Evaluate(given) = shown
  BY <1>1
<1>3. PICK d \in declared : ~Hidden(d) /\ FqName(d) = fq
  BY <1>2
<1>4. d \in attrs /\ IsVisible(d) /\ d.style = style
  BY <1>3 DEF IsVisible
<1>5. Decl(fq) = d
  BY <1>3, <1>4, OneName
<1>6. Evaluate(given)[fq] = Value(d.type, val(d))
  BY <1>1, <1>2, <1>5
<1>7. \A e \in attrs : SoundDeclaration(Info, e)
  BY SoundRuleFiles DEF Info
<1>8. \A e, f \in attrs : e.prefix = f.prefix /\ e.name = f.name => e = f
  BY SoundRuleFiles DEF Info
<1>9. source(d) \in attrs /\ source(d).type = d.type
  <2>1. CASE isGiven(d) \/ d.like = NoPrefix
    BY <1>4, <2>1
  <2>2. CASE ~(isGiven(d) \/ d.like = NoPrefix)
    <3>1. PICK e \in attrs : /\ e.params = 0
                             /\ e.style = d.style /\ e.prefix = d.prefix /\ e.name = d.like
                             /\ e.type = d.type
      BY <1>4, <1>7, <2>2 DEF SoundDeclaration
    <3>2. e \in declared
      BY <1>4, <3>1
    <3>3. other(d) \in declared /\ other(d).prefix = d.prefix /\ other(d).name = d.like
      BY <3>1, <3>2
    <3>4. other(d) = e
      BY <1>8, <3>1, <3>3
    <3> QED
      BY <2>2, <3>1, <3>4
  <2> QED
    BY <2>1, <2>2
<1>10. PICK s : s = source(d)
  OBVIOUS
<1>11. s.type \in Types /\ s.val \in ValuesOf(s.type)
  BY <1>7, <1>9, <1>10 DEF SoundDeclaration
<1>12. val(d) = IF isGiven(s) THEN given[FqName(s)].val ELSE s.val
  BY <1>10
<1>13. val(d) \in ValuesOf(d.type)
  <2>1. CASE isGiven(s)
    <3>1. given[FqName(s)].val \in ValuesOf(given[FqName(s)].type)
      BY <2>1 DEF ValuesOK, ValueOK
    <3> QED
      BY <1>9, <1>10, <1>12, <2>1, <3>1
  <2>2. CASE ~isGiven(s)
    BY <1>9, <1>10, <1>11, <1>12, <2>2
  <2> QED
    BY <2>1, <2>2
<1> HIDE DEF val, source, other, isGiven, shown
<1>14. Evaluate(given)[fq].type = d.type /\ Evaluate(given)[fq].val = val(d)
  BY <1>6 DEF Value
<1>15. d.type \in Types
  BY <1>4, <1>7 DEF SoundDeclaration
<1> QED
  BY <1>3, <1>4, <1>13, <1>14, <1>15 DEF ValueOK

(* The parameters of the node are of declared attributes, of one package   *)
(* or another, and for values of their type.                               *)
IsFor(id, kind) ==
    \E p \in Packages : \E d \in ToSet(RuleFile[p].attributes) :
      id = <<d.prefix, d.name>> /\ TypeOf(kind) = d.type

ParmsOK == \A id \in DOMAIN parms : ParmOK(parms[id]) /\ IsFor(id, parms[id].kind)

LEMMA SameId ==
    ASSUME NEW id, NEW kind, IsFor(id, kind)
    PROVE  PrimAttr(RuleAttr(id)) = id
BY DEF IsFor, PrimAttr, RuleAttr

(* What is given to the rule engine for a parameter.                       *)
LEMMA GivenTyped ==
    ASSUME NEW id \in DOMAIN parms, ParmOK(parms[id]), NEW v \in Given(id)
    PROVE  ValueOK(v) /\ Given(id) = {v}
<1>1. PICK parm, kind : parm = parms[id] /\ kind = parm.kind
  OBVIOUS
<1>2. kind \in Kinds /\ parm.value \in ParmValues(parm)
  BY <1>1 DEF ParmOK, Parameter
<1>3. CASE kind \in Menus
  <2>1. PICK type : RuleAttr(id) \in DOMAIN defaults /\ type = defaults[RuleAttr(id)].type
    BY <1>1, <1>3 DEF Given
  <2>2. Given(id) = GivenAs(parm, type)
    BY <1>1, <1>3, <2>1 DEF Given
  <2>3. PICK bit : bit = IF Token(parm) = <<0>> THEN <<0>> ELSE <<1>>
    OBVIOUS
  <2>4. kind \notin Lists
    BY <1>3 DEF Menus, Lists
  <2>5. CASE type \in {"float", "str"}
    <3>1. Given(id) = {Value(type, Token(parm))}
      BY <1>1, <1>3, <2>2, <2>4, <2>5 DEF GivenAs
    <3>2. Token(parm) \in ValuesOf(type)
      BY <1>1, <1>3, <2>5, TokenIsValue, ValuesOfTypes
    <3> QED
      BY <2>5, <3>1, <3>2, ValuesOfTypes DEF ValueOK, Value
  <2>6. CASE type = "bool"
    <3>1. Given(id) = {Value("float", bit)}
      BY <1>1, <1>3, <2>2, <2>3, <2>4, <2>6 DEF GivenAs
    <3>2. bit \in ValuesOf("float")
      BY <2>3, OneItem, ValuesOfTypes
    <3> QED
      BY <3>1, <3>2, ValuesOfTypes DEF ValueOK, Value
  <2>7. CASE type \notin {"bool", "float", "str"}
    <3>1. Given(id) = {}
      BY <1>1, <1>3, <2>2, <2>4, <2>7 DEF GivenAs
    <3> QED
      BY <3>1
  <2> QED
    BY <2>5, <2>6, <2>7
<1>4. CASE kind \in Lists
  <2>1. PICK type : RuleAttr(id) \in DOMAIN defaults /\ type = defaults[RuleAttr(id)].type
    BY <1>1, <1>4 DEF Given
  <2>2. kind \notin Menus
    BY <1>4 DEF Menus, Lists
  <2>3. Given(id) = GivenAs(parm, type)
    BY <1>1, <1>4, <2>1 DEF Given
  <2>4. ItemsFit(parm, type) /\ Given(id) = {Value(type, parm.value)}
    BY <1>1, <1>4, <2>2, <2>3 DEF GivenAs
  <2>5. type \in Types /\ parm.value \in ValuesOf(type)
    <3>1. CASE type = kind
      <4>1. TypeOf(kind) = kind /\ kind \in Types
        BY <1>2, <1>4, TypesOfKinds
      <4> QED
        BY <1>1, <1>2, <2>2, <3>1, <4>1 DEF ParmValues
    <3>2. CASE type \in Lists /\ parm.value = <<>>
      <4>1. <<>> \in Seq({0, 1}) /\ <<>> \in Seq(Int)
        OBVIOUS
      <4> QED
        BY <3>2, <4>1, ValuesOfTypes DEF Lists
    <3> QED
      BY <1>1, <2>4, <3>1, <3>2 DEF ItemsFit
  <2> QED
    BY <2>4, <2>5 DEF ValueOK, Value
<1>5. CASE kind \notin Menus \cup Lists
  <2>1. PICK type : /\ type = TypeOf(kind)
                    /\ v = Value(type, parm.value) /\ Given(id) = {Value(type, parm.value)}
    BY <1>1, <1>5 DEF Given
  <2>2. v.type = type /\ v.val = parm.value
    BY <2>1 DEF Value
  <2>3. parm.value \in ValuesOf(type) /\ type \in Types
    BY <1>1, <1>2, <1>5, <2>1, TypesOfKinds DEF ParmValues
  <2> QED
    BY <2>1, <2>2, <2>3 DEF ValueOK
<1> QED
  BY <1>3, <1>4, <1>5

LEMMA OverridesTyped ==
    ASSUME ParmsOK
    PROVE  ValuesOK(Overrides)
<1> DEFINE set == {id \in DOMAIN parms : ~IsDefault(parms[id]) /\ Given(id) # {}}
<1>1. Overrides = [fq \in {RuleAttr(id) : id \in set} |-> CHOOSE v \in Given(PrimAttr(fq)) : TRUE]
  BY DEF Overrides
<1>2. ASSUME NEW id \in set PROVE ValueOK(Overrides[RuleAttr(id)])
  <2>1. PrimAttr(RuleAttr(id)) = id
    BY SameId DEF ParmsOK
  <2>2. Overrides[RuleAttr(id)] \in Given(id)
    BY <1>1, <2>1
  <2> QED
    BY <2>2, GivenTyped DEF ParmsOK
<1> QED
  BY <1>1, <1>2 DEF ValuesOK

-----------------------------------------------------------------------------
(* The parameters that a cook makes.                                       *)

LEMMA ColorIsNumber ==
    ASSUME NEW s
    PROVE  ColorString(s) \in Int
BY AssignParmsAssumption DEF ColorString

(* A parameter with another field.                                         *)
LEMMA ParmUpdates ==
    ASSUME NEW kind, NEW value, NEW default, NEW count, NEW options, NEW percent, NEW x
    PROVE  LET parm == [kind |-> kind, value |-> value, default |-> default, count |-> count,
                        options |-> options, percent |-> percent]
           IN  /\ [parm EXCEPT !.percent = x]
                    = [kind |-> kind, value |-> value, default |-> default, count |-> count,
                       options |-> options, percent |-> x]
               /\ [parm EXCEPT !.options = x]
                    = [kind |-> kind, value |-> value, default |-> default, count |-> count,
                       options |-> x, percent |-> percent]
OBVIOUS

LEMMA PlainParmOK ==
    ASSUME NEW kind \in Kinds \ Menus, NEW v \in ValuesOf(TypeOf(kind))
    PROVE  /\ ParmOK(Parm(kind, v)) /\ Parm(kind, v).kind = kind
           /\ \A p \in BOOLEAN : LET parm == [Parm(kind, v) EXCEPT !.percent = p]
                               IN  ParmOK(parm) /\ parm.kind = kind
<1>1. TypeOf(kind) \in Types /\ (kind \notin Lists => TypeOf(kind) \notin Lists)
  BY TypesOfKinds DEF Lists
<1>2. v \in Seq(Int) /\ Len(v) \in Nat /\ (kind \notin Lists => Len(v) = 1)
  BY <1>1, ValuesAreSequences
<1>3. ASSUME NEW p \in BOOLEAN
      PROVE  LET parm == [kind |-> kind, value |-> v, default |-> v, count |-> Len(v),
                          options |-> <<>>, percent |-> p]
             IN  ParmOK(parm) /\ parm.kind = kind
  BY <1>2, <1>3 DEF ParmOK, Parameter, ParmValues
<1>4. Parm(kind, v) = [kind |-> kind, value |-> v, default |-> v, count |-> Len(v),
                       options |-> <<>>, percent |-> FALSE]
  BY DEF Parm
<1>5. \A p \in BOOLEAN :
        [Parm(kind, v) EXCEPT !.percent = p]
          = [kind |-> kind, value |-> v, default |-> v, count |-> Len(v),
             options |-> <<>>, percent |-> p]
  BY <1>4, ParmUpdates
<1>6. \A p \in BOOLEAN : LET parm == [Parm(kind, v) EXCEPT !.percent = p]
                        IN  ParmOK(parm) /\ parm.kind = kind
  BY <1>3, <1>5
<1>7. ParmOK(Parm(kind, v)) /\ Parm(kind, v).kind = kind
  BY <1>3, <1>4
<1> QED
  BY <1>6, <1>7

OptionIndex(default, options) ==
    LET same == {i \in DOMAIN options : options[i] = default}
    IN  IF same = {} THEN 0 ELSE Max(same) - 1

LEMMA MenuParm ==
    ASSUME NEW kind, NEW default, NEW options
    PROVE  \E v, no :
             /\ v = <<OptionIndex(default, options)>> /\ no \in BOOLEAN
             /\ EnumParm(kind, default, options)
                  = [kind |-> kind, value |-> v, default |-> v, count |-> Len(v),
                     options |-> options, percent |-> no]
<1>1. PICK v : v = <<OptionIndex(default, options)>>
  OBVIOUS
<1>2. EnumParm(kind, default, options) = [Parm(kind, v) EXCEPT !.options = options]
  BY <1>1 DEF EnumParm, OptionIndex
<1>3. PICK no \in BOOLEAN : no = FALSE
  OBVIOUS
<1>4. PICK n : n = Len(v)
  OBVIOUS
<1>5. Parm(kind, v) = [kind |-> kind, value |-> v, default |-> v, count |-> n,
                       options |-> <<>>, percent |-> no]
  BY <1>3, <1>4 DEF Parm
<1>6. EnumParm(kind, default, options)
        = [kind |-> kind, value |-> v, default |-> v, count |-> n,
           options |-> options, percent |-> no]
  BY <1>2, <1>5
<1> QED
  BY <1>1, <1>4, <1>6

LEMMA EnumParmOK ==
    ASSUME NEW kind, NEW default, NEW options, kind \in Menus, options \in Seq(Int) \ {<<>>}
    PROVE  ParmOK(EnumParm(kind, default, options)) /\ EnumParm(kind, default, options).kind = kind
<1> DEFINE same == {i \in DOMAIN options : options[i] = default}
<1>1. Len(options) \in Nat \ {0} /\ DOMAIN options = 1 .. Len(options)
  OBVIOUS
<1>2. OptionIndex(default, options) \in 0 .. Len(options) - 1
  <2>1. CASE same = {}
    BY <1>1, <2>1 DEF OptionIndex
  <2>2. CASE same # {}
    <3>1. Max(same) \in same
      BY <1>1, <2>2, MaxOfSomeIndices
    <3> QED
      BY <1>1, <2>2, <3>1 DEF OptionIndex
  <2> QED
    BY <2>1, <2>2
<1>3. PICK v, no :
        /\ v = <<OptionIndex(default, options)>> /\ no \in BOOLEAN
        /\ EnumParm(kind, default, options)
             = [kind |-> kind, value |-> v, default |-> v, count |-> Len(v),
                options |-> options, percent |-> no]
  BY MenuParm
<1>7. EnumParm(kind, default, options)
        = [kind |-> kind, value |-> v, default |-> v, count |-> Len(v),
           options |-> options, percent |-> no]
  BY <1>3
<1>4. v \in [1 .. 1 -> 0 .. Len(options) - 1] /\ v \in Seq(Int) /\ Len(v) = 1
  BY <1>2, <1>3, OneItem
<1>5. kind \in Kinds
  BY DEF Menus, Kinds
<1>8. PICK parm : parm = EnumParm(kind, default, options)
  OBVIOUS
<1>9. /\ parm.kind = kind /\ parm.value = v /\ parm.default = v /\ parm.count = 1
      /\ parm.options = options
  BY <1>4, <1>7, <1>8
<1>10. parm \in Parameter
  <2>1. options \in Seq(Int) /\ no \in BOOLEAN /\ Len(v) \in Nat
    BY <1>3, <1>4
  <2> QED
    BY <1>4, <1>5, <1>7, <1>8, <2>1 DEF Parameter
<1> QED
  BY <1>4, <1>8, <1>9, <1>10 DEF ParmOK, ParmValues

LEMMA DefaultTyped ==
    ASSUME NEW values, ValuesOK(values), NEW a, a.mType \in Types
    PROVE  DefaultOf(a, values) \in ValuesOf(a.mType)
<1>1. CASE a.fqName \in DOMAIN values /\ values[a.fqName].type = a.mType
  BY <1>1 DEF DefaultOf, ValuesOK, ValueOK
<1>2. CASE ~(a.fqName \in DOMAIN values /\ values[a.fqName].type = a.mType)
  <2>1. DefaultOf(a, values) = IF a.mType \in Lists THEN <<>> ELSE <<0>>
    BY <1>2 DEF DefaultOf
  <2>2. /\ <<>> \in Seq({0, 1}) /\ <<>> \in Seq(Int)
        /\ <<0>> \in [1 .. 1 -> {0, 1}] /\ <<0>> \in [1 .. 1 -> Int]
    BY OneItem
  <2> QED
    BY <2>1, <2>2, ValuesOfTypes DEF Lists
<1> QED
  BY <1>1, <1>2

(* The parameter made for a visible declaration.                           *)
LEMMA ParmForTyped ==
    ASSUME rpk \in Packages, NEW values, ValuesOK(values),
           NEW a \in ToSet(SortedAttributes[rpk])
    PROVE  /\ ParmOK(ParmFor(a, values)) /\ TypeOf(ParmFor(a, values).kind) = a.mType
           /\ \E d \in ToSet(Info.attributes) :
                IsVisible(d) /\ a.fqName = FqName(d) /\ a.mType = d.type
<1>1. PICK d \in ToSet(Info.attributes) : IsVisible(d) /\ a.fqName = FqName(d) /\ a.mType = d.type
  BY AttributesDeclared DEF Info, IsOf
<1>2. SoundDeclaration(Info, d)
  BY SoundRuleFiles DEF Info
<1>3. PICK traits : traits = AttributeTraits(d)
  OBVIOUS
<1>4. PICK default : default = DefaultOf(a, values)
  OBVIOUS
<1>5. /\ a.mType \in Types
      /\ "enum" \in DOMAIN traits => Options(traits["enum"]) \in Seq(Int) \ {<<>>}
  BY <1>1, <1>2, <1>3 DEF SoundDeclaration
<1>6. default \in ValuesOf(a.mType)
  BY <1>4, <1>5, DefaultTyped
<1>7. AttributeTraits(Decl(a.fqName)) = traits
  BY <1>1, <1>3, OneName
<1>p. PICK parm : parm = ParmFor(a, values)
  OBVIOUS
<1>8. ASSUME a.mType = "bool" PROVE ParmOK(parm) /\ TypeOf(parm.kind) = a.mType
  <2>1. parm = Parm("toggle", default)
    BY <1>4, <1>8, <1>p DEF ParmFor, Lists
  <2>2. "toggle" \in Kinds \ Menus /\ TypeOf("toggle") = "bool"
    BY TypesOfKinds DEF Kinds, Menus
  <2> QED
    BY <1>6, <1>8, <2>1, <2>2, PlainParmOK
<1>9. ASSUME a.mType = "float" PROVE ParmOK(parm) /\ TypeOf(parm.kind) = a.mType
  <2>1. parm = FloatParmFor(default[1], traits)
    BY <1>4, <1>7, <1>9, <1>p DEF ParmFor, Lists
  <2>2. /\ "float" \in Kinds \ Menus /\ "floatEnum" \in Menus
        /\ TypeOf("float") = "float" /\ TypeOf("floatEnum") = "float"
    BY TypesOfKinds DEF Kinds, Menus
  <2>3. <<default[1]>> \in ValuesOf("float")
    BY <1>6, <1>9, ValuesOfTypes, OneItem
  <2>4. CASE "enum" \in DOMAIN traits
    BY <1>5, <1>9, <2>1, <2>2, <2>4, EnumParmOK DEF FloatParmFor
  <2>5. CASE "enum" \notin DOMAIN traits
    <3>1. parm = FloatParm(default[1], "percent" \in DOMAIN traits)
      BY <2>1, <2>5 DEF FloatParmFor
    <3>2. PICK p : p \in BOOLEAN /\ parm = FloatParm(default[1], p)
      <4>1. ("percent" \in DOMAIN traits) \in BOOLEAN
        OBVIOUS
      <4> QED
        BY <3>1, <4>1, Zenon
    <3>3. ParmOK(parm) /\ parm.kind = "float"
      BY <2>2, <2>3, <3>2, PlainParmOK DEF FloatParm
    <3> QED
      BY <1>9, <2>2, <3>3
  <2> QED
    BY <2>4, <2>5
<1>10. ASSUME a.mType = "str" PROVE ParmOK(parm) /\ TypeOf(parm.kind) = a.mType
  <2>1. parm = StringParmFor(default[1], traits)
    BY <1>4, <1>7, <1>10, <1>p DEF ParmFor, Lists
  <2>2. /\ {"string", "color"} \subseteq Kinds \ Menus /\ "stringEnum" \in Menus
        /\ TypeOf("string") = "str" /\ TypeOf("color") = "str" /\ TypeOf("stringEnum") = "str"
    BY TypesOfKinds DEF Kinds, Menus
  <2>3. <<default[1]>> \in ValuesOf("str") /\ <<ColorString(default[1])>> \in ValuesOf("str")
    BY <1>6, <1>10, ValuesOfTypes, OneItem, ColorIsNumber
  <2>4. CASE "enum" \in DOMAIN traits
    BY <1>5, <1>10, <2>1, <2>2, <2>4, EnumParmOK DEF StringParmFor
  <2>5. CASE "enum" \notin DOMAIN traits
    <3>1. parm = Parm("color", <<ColorString(default[1])>>) \/ parm = Parm("string", <<default[1]>>)
      BY <2>1, <2>5 DEF StringParmFor
    <3>2. ParmOK(parm) /\ parm.kind \in {"string", "color"}
      BY <2>2, <2>3, <3>1, PlainParmOK
    <3> QED
      BY <1>10, <2>2, <3>2
  <2> QED
    BY <2>4, <2>5
<1>11. ASSUME a.mType \in Lists PROVE ParmOK(parm) /\ TypeOf(parm.kind) = a.mType
  <2>1. parm = ArrayParm(a.mType, default)
    BY <1>4, <1>11, <1>p DEF ParmFor, Lists
  <2>2. a.mType \in Kinds \ Menus /\ TypeOf(a.mType) = a.mType
    BY <1>11, TypesOfKinds DEF Kinds, Menus, Lists
  <2>3. PICK zeros : zeros = [i \in DOMAIN default |-> 0]
    OBVIOUS
  <2>4. zeros \in Seq({0, 1}) /\ zeros \in Seq(Int)
    <3>1. default \in Seq(Int)
      BY <1>5, <1>6, ValuesAreSequences
    <3>2. Len(default) \in Nat /\ DOMAIN default = 1 .. Len(default)
      BY <3>1
    <3> QED
      BY <2>3, <3>2
  <2>5. zeros \in ValuesOf(TypeOf(a.mType))
    BY <1>11, <2>2, <2>4, ValuesOfTypes DEF Lists
  <2>6. parm = Parm(a.mType, zeros)
    BY <2>1, <2>3 DEF ArrayParm
  <2>7. ParmOK(parm) /\ parm.kind = a.mType
    BY <2>2, <2>5, <2>6, PlainParmOK
  <2> QED
    BY <2>2, <2>7
<1> QED
  BY <1>1, <1>5, <1>8, <1>9, <1>10, <1>11, <1>p DEF Types

(* The parameters made for a package are those of its visible declarations.*)
LEMMA BuildTyped ==
    ASSUME rpk \in Packages, NEW values, ValuesOK(values),
           NEW id \in DOMAIN BuildParms(SortedAttributes[rpk], values)
    PROVE  LET parm == BuildParms(SortedAttributes[rpk], values)[id] IN
           /\ ParmOK(parm) /\ IsFor(id, parm.kind)
           /\ \A d \in ToSet(Info.attributes) :
                PrimAttr(FqName(d)) = id => TypeOf(parm.kind) = d.type
<1>1. PICK ra : ra = SortedAttributes[rpk]
  OBVIOUS
<1>2. PICK parm, a : /\ parm = BuildParms(ra, values)[id]
                     /\ a \in ToSet(ra) /\ PrimAttr(a.fqName) = id
                     /\ parm = ParmFor(a, values)
  BY <1>1 DEF BuildParms
<1>3. ParmOK(parm) /\ TypeOf(parm.kind) = a.mType
  BY <1>1, <1>2, ParmForTyped
<1>4. PICK d \in ToSet(Info.attributes) : a.fqName = FqName(d) /\ a.mType = d.type
  BY <1>1, <1>2, ParmForTyped
<1>5. \A e : PrimAttr(FqName(e)) = <<e.prefix, e.name>>
  BY DEF PrimAttr, FqName
<1>6. IsFor(id, parm.kind)
  <2>1. id = <<d.prefix, d.name>>
    BY <1>2, <1>4, <1>5
  <2> QED
    BY <1>3, <1>4, <2>1 DEF IsFor, Info
<1>7. ASSUME NEW e \in ToSet(Info.attributes), PrimAttr(FqName(e)) = id
      PROVE  TypeOf(parm.kind) = e.type
  <2>1. e.prefix = d.prefix /\ e.name = d.name
    BY <1>2, <1>4, <1>5, <1>7
  <2>2. e = d
    BY <2>1, SoundRuleFiles DEF Info
  <2> QED
    BY <1>3, <1>4, <2>2
<1> QED
  BY <1>1, <1>2, <1>3, <1>6, <1>7

-----------------------------------------------------------------------------
(* The changes of a parameter.                                             *)

LEMMA ParmChanged ==
    ASSUME NEW parm, ParmOK(parm), NEW q,
           q.kind = parm.kind /\ q.options = parm.options,
           q \in Parameter,
           {q.value, q.default} \subseteq ParmValues(parm), Len(q.value) = Len(q.default),
           parm.kind \notin Lists => q.count = 1
    PROVE  ParmOK(q)
BY DEF ParmOK, ParmValues

LEMMA ParmFacts ==
    ASSUME NEW parm, ParmOK(parm)
    PROVE  /\ parm \in Parameter /\ parm.kind \in Kinds /\ parm.options \in Seq(Int)
           /\ parm.value \in ParmValues(parm) /\ parm.default \in ParmValues(parm)
           /\ parm.value \in Seq(Int) /\ parm.default \in Seq(Int)
           /\ Len(parm.value) = Len(parm.default) /\ parm.count \in Nat
           /\ parm.kind \notin Lists => Len(parm.value) = 1 /\ parm.count = 1
<1>1. /\ parm \in Parameter /\ parm.kind \in Kinds /\ parm.options \in Seq(Int)
      /\ parm.value \in ParmValues(parm) /\ parm.default \in ParmValues(parm)
      /\ parm.value \in Seq(Int) /\ parm.default \in Seq(Int)
      /\ Len(parm.value) = Len(parm.default) /\ parm.count \in Nat
      /\ parm.kind \notin Lists => parm.count = 1
  BY DEF ParmOK, Parameter
<1>2. parm.kind \notin Lists => Len(parm.value) = 1
  BY <1>1, ParmsAreSequences
<1> QED
  BY <1>1, <1>2

(* The lists of bits and those of numbers.                                 *)
LEMMA ListValues ==
    ASSUME NEW parm, parm.kind \in Lists
    PROVE  /\ parm.kind = "bools" => ParmValues(parm) = Seq({0, 1})
           /\ parm.kind # "bools" => ParmValues(parm) = Seq(Int)
<1>1. parm.kind \notin Menus /\ parm.kind \in Kinds
  BY DEF Lists, Menus, Kinds
<1>2. ParmValues(parm) = ValuesOf(parm.kind)
  BY <1>1, TypesOfKinds DEF ParmValues
<1> QED
  BY <1>2, ValuesOfTypes DEF Lists

(* The value of a menu is an index, that of another parameter one of its   *)
(* type.                                                                   *)
LEMMA ScalarValues ==
    ASSUME NEW parm, parm.kind \in Kinds \ Lists
    PROVE  /\ parm.kind \in Menus => ParmValues(parm) = [1 .. 1 -> 0 .. Len(parm.options) - 1]
           /\ parm.kind = "toggle" => ParmValues(parm) = [1 .. 1 -> {0, 1}]
           /\ parm.kind \notin Menus \cup {"toggle"} => ParmValues(parm) = [1 .. 1 -> Int]
<1>1. parm.kind \notin Menus => ParmValues(parm) = ValuesOf(TypeOf(parm.kind))
  BY DEF ParmValues
<1>2. parm.kind \in Menus => ParmValues(parm) = [1 .. 1 -> 0 .. Len(parm.options) - 1]
  BY DEF ParmValues
<1>3. parm.kind = "toggle" => ParmValues(parm) = [1 .. 1 -> {0, 1}]
  BY <1>1, TypesOfKinds, ValuesOfTypes DEF Menus
<1>4. parm.kind \notin Menus \cup {"toggle"} => ParmValues(parm) = [1 .. 1 -> Int]
  BY <1>1, TypesOfKinds, ValuesOfTypes DEF Menus, Kinds, Lists
<1> QED
  BY <1>2, <1>3, <1>4

LEMMA EditTyped ==
    ASSUME NEW e \in Edits, NEW parm, ParmOK(parm), IsFor(e[1], parm.kind),
           Len(e[2]) = Len(parm.value),
           parm.kind \in Menus => e[2][1] < Len(parm.options)
    PROVE  ParmOK([parm EXCEPT !.value = e[2]])
<1>1. PICK v : v = e[2]
  OBVIOUS
<1>2. v \in Seq(Nat)
  BY <1>1, AssignParmsAssumption
<1>3. v \in Seq(Int)
  <2>1. v = [i \in 1 .. Len(v) |-> v[i]] /\ Len(v) \in Nat /\ \A i \in 1 .. Len(v) : v[i] \in Int
    BY <1>2
  <2> QED
    BY <2>1
<1>4. TypeOf(parm.kind) \in {"bool", "bools"} => v \in Seq({0, 1})
  <2>1. PICK p \in Packages : \E d \in ToSet(RuleFile[p].attributes) :
          e[1] = <<d.prefix, d.name>> /\ TypeOf(parm.kind) = d.type
    BY DEF IsFor
  <2>2. PICK d \in ToSet(RuleFile[p].attributes) :
          e[1] = <<d.prefix, d.name>> /\ TypeOf(parm.kind) = d.type
    BY <2>1
  <2> QED
    BY <1>1, <2>2, AssignParmsAssumption
<1>5. v \in ParmValues(parm)
  <2>1. CASE parm.kind \in Lists
    <3>1. TypeOf(parm.kind) = parm.kind
      BY <2>1, ParmFacts, TypesOfKinds
    <3> QED
      BY <1>3, <1>4, <2>1, <3>1, ListValues
  <2>2. CASE parm.kind \notin Lists
    <3>1. Len(v) = 1 /\ parm.kind \in Kinds
      BY <1>1, <2>2, ParmFacts
    <3>2. CASE parm.kind \in Menus
      <4>1. v[1] \in Nat /\ v[1] < Len(parm.options) /\ Len(parm.options) \in Nat
        BY <1>1, <1>2, <3>1, <3>2, ParmFacts
      <4>2. v = [i \in 1 .. 1 |-> v[i]] /\ \A i \in 1 .. 1 : v[i] \in 0 .. Len(parm.options) - 1
        BY <1>3, <3>1, <4>1
      <4>3. v \in [1 .. 1 -> 0 .. Len(parm.options) - 1]
        BY <4>2
      <4> QED
        BY <2>2, <3>1, <3>2, <4>3, ScalarValues
    <3>3. CASE parm.kind = "toggle"
      BY <1>4, <2>2, <3>1, <3>3, ScalarValues, TypesOfKinds, OneItem
    <3>4. CASE parm.kind \notin Menus \cup {"toggle"}
      BY <1>3, <2>2, <3>1, <3>4, ScalarValues, OneItem
    <3> QED
      BY <3>2, <3>3, <3>4
  <2> QED
    BY <2>1, <2>2
<1>6. PICK q : q = [parm EXCEPT !.value = v]
  OBVIOUS
<1>8. /\ q \in Parameter /\ q.kind = parm.kind /\ q.options = parm.options
      /\ q.value = v /\ q.default = parm.default /\ q.count = parm.count
  <2>1. parm \in Parameter
    BY ParmFacts
  <2> QED
    BY <1>3, <1>6, <2>1 DEF Parameter
<1>7. ParmOK(q)
  BY <1>1, <1>5, <1>8, ParmFacts, ParmChanged
<1> QED
  BY <1>1, <1>6, <1>7

(* Values that a list or a scalar can be set to together with the default. *)
LEMMA BothTyped ==
    ASSUME NEW parm, ParmOK(parm), NEW v \in ParmValues(parm), NEW w \in ParmValues(parm),
           Len(v) = Len(w)
    PROVE  ParmOK([parm EXCEPT !.value = v, !.default = w])
<1>1. v \in Seq(Int) /\ w \in Seq(Int)
  BY ParmFacts, ParmsAreSequences
<1>2. PICK q : q = [parm EXCEPT !.value = v, !.default = w]
  OBVIOUS
<1>4. /\ q \in Parameter /\ q.kind = parm.kind /\ q.options = parm.options
      /\ q.value = v /\ q.default = w /\ q.count = parm.count
  <2>1. parm \in Parameter
    BY ParmFacts
  <2> QED
    BY <1>1, <1>2, <2>1 DEF Parameter
<1>3. ParmOK(q)
  BY <1>4, ParmFacts, ParmChanged
<1> QED
  BY <1>2, <1>3

LEMMA AppendTyped ==
    ASSUME NEW parm, ParmOK(parm), parm.kind \in Lists
    PROVE  ParmOK([parm EXCEPT !.value = Append(@, 0), !.default = Append(@, 0)])
<1>1. PICK S : S \in {{0, 1}, Int} /\ ParmValues(parm) = Seq(S)
  BY ListValues
<1>2. PICK v, w : v = Append(parm.value, 0) /\ w = Append(parm.default, 0)
  OBVIOUS
<1>3. v \in Seq(S) /\ w \in Seq(S) /\ Len(v) = Len(w)
  <2>1. /\ parm.value \in Seq(S) /\ parm.default \in Seq(S) /\ 0 \in S
        /\ Len(parm.value) = Len(parm.default)
    BY <1>1, ParmFacts
  <2> QED
    BY <1>2, <2>1
<1>4. ParmOK([parm EXCEPT !.value = v, !.default = w])
  BY <1>1, <1>3, BothTyped
<1>5. [parm EXCEPT !.value = Append(@, 0), !.default = Append(@, 0)]
        = [parm EXCEPT !.value = v, !.default = w]
  BY <1>2, ParmFacts DEF Parameter
<1> QED
  BY <1>4, <1>5

LEMMA FrontTyped ==
    ASSUME NEW parm, ParmOK(parm), parm.kind \in Lists, parm.value # <<>>
    PROVE  ParmOK([parm EXCEPT !.value = Front(@), !.default = Front(@)])
<1>1. PICK S : S \in {{0, 1}, Int} /\ ParmValues(parm) = Seq(S)
  BY ListValues
<1>2. PICK v, w : v = Front(parm.value) /\ w = Front(parm.default)
  OBVIOUS
<1>3. v \in Seq(S) /\ w \in Seq(S) /\ Len(v) = Len(w)
  <2>1. /\ parm.value \in Seq(S) /\ parm.default \in Seq(S)
        /\ Len(parm.value) = Len(parm.default) /\ Len(parm.value) \in Nat \ {0}
    BY <1>1, ParmFacts
  <2>2. /\ v = SubSeq(parm.value, 1, Len(parm.value) - 1)
        /\ w = SubSeq(parm.default, 1, Len(parm.default) - 1)
    BY <1>2 DEF Front
  <2> QED
    BY <2>1, <2>2
<1>4. ParmOK([parm EXCEPT !.value = v, !.default = w])
  BY <1>1, <1>3, BothTyped
<1>5. [parm EXCEPT !.value = Front(@), !.default = Front(@)]
        = [parm EXCEPT !.value = v, !.default = w]
  BY <1>2, ParmFacts DEF Parameter
<1> QED
  BY <1>4, <1>5

LEMMA RevertTyped ==
    ASSUME NEW parm, ParmOK(parm), NEW default,
           default = [i \in 1 .. parm.count |-> IF i \in DOMAIN parm.default
                                                THEN parm.default[i] ELSE 0]
    PROVE  ParmOK([parm EXCEPT !.value = default, !.default = default])
<1>1. CASE parm.kind \in Lists
  <2>1. PICK S : S \in {{0, 1}, Int} /\ ParmValues(parm) = Seq(S)
    BY <1>1, ListValues
  <2>2. parm.default \in Seq(S) /\ 0 \in S /\ parm.count \in Nat
    BY <2>1, ParmFacts
  <2>3. default \in Seq(S)
    <3>1. \A i \in 1 .. parm.count : default[i] \in S
      BY <2>2
    <3>2. default = [i \in 1 .. parm.count |-> default[i]]
      OBVIOUS
    <3> QED
      BY <2>2, <3>1, <3>2
  <2> QED
    BY <2>1, <2>3, BothTyped
<1>2. CASE parm.kind \notin Lists
  <2>1. /\ parm.count = 1 /\ Len(parm.default) = 1 /\ parm.default \in Seq(Int)
        /\ parm.default \in ParmValues(parm)
    BY <1>2, ParmFacts
  <2>2. default = parm.default
    <3>1. DOMAIN parm.default = 1 .. 1 /\ parm.default = [i \in 1 .. 1 |-> parm.default[i]]
      BY <2>1
    <3>2. default = [i \in 1 .. 1 |-> parm.default[i]]
      BY <2>1, <3>1
    <3> QED
      BY <3>1, <3>2
  <2> QED
    BY <2>1, <2>2, BothTyped
<1> QED
  BY <1>1, <1>2

(* What a cook makes of a parameter that is not set.                       *)
LEMMA ShownTyped ==
    ASSUME NEW parm, ParmOK(parm), NEW d, ValueOK(d)
    PROVE  ShownValue(parm, d) \in ParmValues(parm)
<1>1. CASE parm.kind \in Menus /\ d.type \in {"bool", "float", "str"}
  <2> DEFINE same == {i \in DOMAIN parm.options : parm.options[i] = d.val[1]}
  <2>1. ShownValue(parm, d) = IF same = {} THEN parm.value ELSE <<Min(same) - 1>>
    BY <1>1 DEF ShownValue, Menus
  <2>2. parm.kind \notin Lists /\ parm.options \in Seq(Int) /\ parm.kind \in Kinds
    BY <1>1, ParmFacts DEF Menus, Lists
  <2>3. CASE same # {}
    <3>1. Min(same) \in same
      <4>1. same \subseteq Int /\ 1 \in Int /\ \A i \in same : 1 <= i
        BY <2>2
      <4> HIDE DEF same
      <4> QED
        BY <2>3, <4>1, MinOfBounded
    <3>2. Min(same) - 1 \in 0 .. Len(parm.options) - 1
      BY <2>2, <3>1
    <3>3. <<Min(same) - 1>> \in [1 .. 1 -> 0 .. Len(parm.options) - 1]
      BY <3>2, OneItem
    <3> QED
      BY <1>1, <2>1, <2>2, <2>3, <3>3, ScalarValues
  <2> QED
    BY <2>1, <2>3, ParmFacts
<1>2. CASE parm.kind = "color" /\ d.type = "str"
  <2>1. ShownValue(parm, d) = <<ColorString(d.val[1])>>
    BY <1>2 DEF ShownValue, Menus
  <2>2. <<ColorString(d.val[1])>> \in [1 .. 1 -> Int]
    BY ColorIsNumber, OneItem
  <2> QED
    BY <1>2, <2>1, <2>2, ScalarValues DEF Menus, Kinds, Lists
<1>3. CASE parm.kind \notin Menus \cup {"color"} /\ d.type = TypeOf(parm.kind)
  <2>1. ShownValue(parm, d) = d.val
    BY <1>3 DEF ShownValue, Menus
  <2> QED
    BY <1>3, <2>1 DEF ValueOK, ParmValues
<1>4. CASE /\ ~(parm.kind \in Menus /\ d.type \in {"bool", "float", "str"})
           /\ ~(parm.kind = "color" /\ d.type = "str")
           /\ ~(parm.kind \notin Menus \cup {"color"} /\ d.type = TypeOf(parm.kind))
  <2>1. ShownValue(parm, d) = parm.value
    BY <1>4 DEF ShownValue
  <2> QED
    BY <2>1, ParmFacts
<1> QED
  BY <1>1, <1>2, <1>3, <1>4

LEMMA WithDefaultTyped ==
    ASSUME NEW parm, ParmOK(parm), NEW d, ValueOK(d)
    PROVE  ParmOK(WithDefault(parm, d)) /\ WithDefault(parm, d).kind = parm.kind
<1>1. PICK v : v = ShownValue(parm, d)
  OBVIOUS
<1>2. v \in ParmValues(parm) /\ v \in Seq(Int) /\ (parm.kind \notin Lists => Len(v) = 1)
  BY <1>1, ShownTyped, ParmFacts, ParmsAreSequences
<1>3. PICK q : q = [parm EXCEPT !.value = v, !.default = v, !.count = Len(v)]
  OBVIOUS
<1>6. /\ q \in Parameter /\ q.kind = parm.kind /\ q.options = parm.options
      /\ q.value = v /\ q.default = v /\ q.count = Len(v)
  <2>1. parm \in Parameter /\ Len(v) \in Nat
    BY <1>2, ParmFacts
  <2> QED
    BY <1>2, <1>3, <2>1 DEF Parameter
<1>4. ParmOK(q)
  BY <1>2, <1>6, ParmChanged
<1>5. WithDefault(parm, d) = q
  BY <1>1, <1>3 DEF WithDefault
<1> QED
  BY <1>4, <1>5, <1>6

-----------------------------------------------------------------------------
(* The inductive invariant.                                                *)

(* Only a cook makes a clean state, and it leaves a parameter for each     *)
(* attribute with a value, of the type of the value.                       *)
TypesAgree ==
    \A id \in DOMAIN parms : RuleAttr(id) \in DOMAIN defaults =>
      defaults[RuleAttr(id)].type = TypeOf(parms[id].kind)

IInv ==
    /\ rpk \in Packages
    /\ \E p \in Packages : style = FindStartRule(RuleFile[p].rules).style
    /\ state \in {"dirty", "clean", "failed"}
    /\ ParmsOK
    /\ ValuesOK(defaults)
    /\ state = "clean" => TypesAgree

(* The parameters of a cook before updateUIDefaultValues.                  *)
Built(values) ==
    IF CompareAttributeTypes(SortedAttributes[rpk]) THEN parms
                                                    ELSE BuildParms(SortedAttributes[rpk], values)

LEMMA BuiltTyped ==
    ASSUME IInv, NEW values, ValuesOK(values), NEW id \in DOMAIN Built(values)
    PROVE  ParmOK(Built(values)[id]) /\ IsFor(id, Built(values)[id].kind)
<1>1. CASE CompareAttributeTypes(SortedAttributes[rpk])
  BY <1>1 DEF Built, IInv, ParmsOK
<1>2. CASE ~CompareAttributeTypes(SortedAttributes[rpk])
  <2>1. Built(values) = BuildParms(SortedAttributes[rpk], values)
    BY <1>2 DEF Built
  <2> QED
    BY <2>1, BuildTyped DEF IInv
<1> QED
  BY <1>1, <1>2

(* What a cook computes with has the types of the parameters.              *)
LEMMA BuiltAgrees ==
    ASSUME IInv, NEW given, ValuesOK(given), NEW values, values = Evaluate(given),
           NEW id \in DOMAIN Built(values), RuleAttr(id) \in DOMAIN values
    PROVE  values[RuleAttr(id)].type = TypeOf(Built(values)[id].kind)
<1>1. PICK d \in ToSet(Info.attributes) :
        /\ IsVisible(d) /\ FqName(d) = RuleAttr(id)
        /\ values[RuleAttr(id)].type = d.type
  BY EvaluateTyped DEF IInv
<1>2. ValuesOK(values)
  BY EvaluateTyped DEF IInv, ValuesOK
<1>3. PrimAttr(RuleAttr(id)) = id
  BY <1>2, BuiltTyped, SameId
<1>4. CASE CompareAttributeTypes(SortedAttributes[rpk])
  <2>1. PICK a \in ToSet(SortedAttributes[rpk]) : a.fqName = FqName(d) /\ a.mType = d.type
    BY <1>1, AttributesDeclared DEF IInv, Info, IsOf
  <2>2. PICK x \in DOMAIN parms : RuleAttr(x) = a.fqName /\ TypeOf(parms[x].kind) = a.mType
    BY <1>4 DEF CompareAttributeTypes
  <2>3. PrimAttr(RuleAttr(x)) = x
    BY SameId DEF IInv, ParmsOK
  <2>4. x = id
    BY <1>1, <1>3, <2>1, <2>2, <2>3
  <2> QED
    BY <1>1, <1>4, <2>1, <2>2, <2>4 DEF Built
<1>5. CASE ~CompareAttributeTypes(SortedAttributes[rpk])
  <2>1. Built(values) = BuildParms(SortedAttributes[rpk], values)
    BY <1>5 DEF Built
  <2>2. PrimAttr(FqName(d)) = id
    BY <1>1, <1>3
  <2>3. TypeOf(Built(values)[id].kind) = d.type
    BY <1>2, <2>1, <2>2, BuildTyped DEF IInv
  <2> QED
    BY <1>1, <2>3
<1> QED
  BY <1>4, <1>5

(* updateUIDefaultValues changes no kinds.                                 *)
LEMMA UpdatedTyped ==
    ASSUME NEW ps, \A id \in DOMAIN ps : ParmOK(ps[id]),
           NEW values, ValuesOK(values)
    PROVE  /\ DOMAIN UpdateUIDefaultValues(ps, values) = DOMAIN ps
           /\ \A id \in DOMAIN ps :
                /\ ParmOK(UpdateUIDefaultValues(ps, values)[id])
                /\ UpdateUIDefaultValues(ps, values)[id].kind = ps[id].kind
                /\ ~IsDefault(ps[id]) => UpdateUIDefaultValues(ps, values)[id] = ps[id]
<1>1. DOMAIN UpdateUIDefaultValues(ps, values) = DOMAIN ps
  BY DEF UpdateUIDefaultValues
<1>2. ASSUME NEW id \in DOMAIN ps
      PROVE  /\ ParmOK(UpdateUIDefaultValues(ps, values)[id])
             /\ UpdateUIDefaultValues(ps, values)[id].kind = ps[id].kind
             /\ ~IsDefault(ps[id]) => UpdateUIDefaultValues(ps, values)[id] = ps[id]
  <2>1. UpdateUIDefaultValues(ps, values)[id]
          = IF IsDefault(ps[id]) /\ RuleAttr(id) \in DOMAIN values
            THEN WithDefault(ps[id], values[RuleAttr(id)]) ELSE ps[id]
    BY DEF UpdateUIDefaultValues
  <2>2. CASE IsDefault(ps[id]) /\ RuleAttr(id) \in DOMAIN values
    <3>1. ValueOK(values[RuleAttr(id)])
      BY <2>2 DEF ValuesOK
    <3> QED
      BY <2>1, <2>2, <3>1, WithDefaultTyped
  <2>3. CASE ~(IsDefault(ps[id]) /\ RuleAttr(id) \in DOMAIN values)
    BY <2>1, <2>3
  <2> QED
    BY <2>2, <2>3
<1> QED
  BY <1>1, <1>2

LEMMA CookSteps ==
    ASSUME IInv, Cook
    PROVE  \E values :
             /\ values = Evaluate(Overrides) /\ ValuesOK(values) /\ defaults' = values
             /\ parms' = UpdateUIDefaultValues(Built(values), values)
             /\ state' \in {"dirty", "clean"} /\ UNCHANGED <<rpk, style>>
<1>1. PICK values : values = Evaluate(Overrides)
  OBVIOUS
<1>2. ValuesOK(values)
  BY <1>1, OverridesTyped, EvaluateTyped DEF IInv, ValuesOK
<1>3. /\ defaults' = values
      /\ parms' = UpdateUIDefaultValues(Built(values), values)
      /\ state' \in {"dirty", "clean"} /\ UNCHANGED <<rpk, style>>
  BY <1>1 DEF Cook, Built
<1> QED
  BY <1>1, <1>2, <1>3

LEMMA CookKeeps ==
    ASSUME IInv, Cook
    PROVE  IInv'
<1>1. PICK values : /\ values = Evaluate(Overrides) /\ ValuesOK(values) /\ defaults' = values
                    /\ parms' = UpdateUIDefaultValues(Built(values), values)
                    /\ state' \in {"dirty", "clean"} /\ UNCHANGED <<rpk, style>>
  BY CookSteps
<1>2. PICK built : built = Built(values)
  OBVIOUS
<1>3. \A id \in DOMAIN built : ParmOK(built[id]) /\ IsFor(id, built[id].kind)
  BY <1>1, <1>2, BuiltTyped
<1>4. /\ DOMAIN parms' = DOMAIN built
      /\ \A id \in DOMAIN built : ParmOK(parms'[id]) /\ parms'[id].kind = built[id].kind
  BY <1>1, <1>2, <1>3, UpdatedTyped
<1>5. ParmsOK'
  BY <1>3, <1>4 DEF ParmsOK
<1>6. ValuesOK(defaults)'
  BY <1>1 DEF ValuesOK
<1>7. TypesAgree'
  <2>1. ASSUME NEW id \in DOMAIN built, RuleAttr(id) \in DOMAIN values
        PROVE  values[RuleAttr(id)].type = TypeOf(built[id].kind)
    <3>1. ValuesOK(Overrides)
      BY OverridesTyped DEF IInv
    <3> QED
      BY <1>1, <1>2, <2>1, <3>1, BuiltAgrees
  <2>2. \A id : RuleAttr(id)' = RuleAttr(id)
    BY <1>1 DEF RuleAttr
  <2> QED
    BY <1>1, <1>4, <2>1, <2>2 DEF TypesAgree
<1> QED
  BY <1>1, <1>5, <1>6, <1>7 DEF IInv

LEMMA CookFailsKeeps ==
    ASSUME IInv, CookFails
    PROVE  IInv'
<1>1. ValuesOK(Evaluate(Overrides))
  BY OverridesTyped, EvaluateTyped DEF IInv, ValuesOK
<1>2. /\ defaults' \in {defaults, Evaluate(Overrides)} /\ state' = "failed"
      /\ UNCHANGED <<rpk, style, parms>>
  BY DEF CookFails
<1>3. ValuesOK(defaults')
  BY <1>1, <1>2 DEF IInv
<1> QED
  BY <1>2, <1>3 DEF IInv, ParmsOK, ValuesOK

(* A change of one parameter by the user.                                  *)
LEMMA SetKeeps ==
    ASSUME IInv, NEW id \in DOMAIN parms, NEW parm, ParmOK(parm), parm.kind = parms[id].kind,
           SetParm(id, parm)
    PROVE  IInv' /\ DOMAIN parms' = DOMAIN parms
<1>1. /\ parms' = [parms EXCEPT ![id] = parm] /\ state' = "dirty"
      /\ UNCHANGED <<rpk, style, defaults>>
  BY DEF SetParm, Schedule
<1>2. /\ DOMAIN parms' = DOMAIN parms
      /\ \A x \in DOMAIN parms : parms'[x] = IF x = id THEN parm ELSE parms[x]
  BY <1>1
<1>3. ParmsOK'
  BY <1>2 DEF IInv, ParmsOK
<1> QED
  BY <1>1, <1>2, <1>3 DEF IInv, ValuesOK

LEMMA UserKeeps ==
    ASSUME IInv, User
    PROVE  /\ IInv' /\ state' = "dirty"
           /\ DOMAIN parms' = DOMAIN parms /\ UNCHANGED layout
<1>1. CASE \E e \in Edits : e[1] \in DOMAIN parms /\ Edit(e[1], e[2])
  <2>1. PICK e \in Edits : e[1] \in DOMAIN parms /\ Edit(e[1], e[2])
    BY <1>1
  <2>2. PICK parm, new : parm = parms[e[1]] /\ new = [parm EXCEPT !.value = e[2]]
    OBVIOUS
  <2>3. ParmOK(parm) /\ IsFor(e[1], parm.kind)
    BY <2>1, <2>2 DEF IInv, ParmsOK
  <2>4. /\ Len(e[2]) = Len(parm.value) /\ SetParm(e[1], new)
        /\ parm.kind \in Menus => e[2][1] < Len(parm.options)
    BY <2>1, <2>2 DEF Edit
  <2>5. ParmOK(new)
    BY <2>2, <2>3, <2>4, EditTyped
  <2>6. new.kind = parm.kind
    BY <2>2, <2>3 DEF ParmOK, Parameter
  <2> QED
    BY <2>1, <2>2, <2>4, <2>5, <2>6, SetKeeps DEF SetParm, Schedule
<1>2. ASSUME NEW id \in DOMAIN parms, AddItem(id) \/ RemoveItem(id) \/ Revert(id)
      PROVE  /\ IInv' /\ state' = "dirty"
             /\ DOMAIN parms' = DOMAIN parms /\ UNCHANGED layout
  <2>1. PICK parm : parm = parms[id] /\ ParmOK(parm)
    BY DEF IInv, ParmsOK
  <2>2. PICK new : ParmOK(new) /\ new.kind = parm.kind /\ SetParm(id, new)
    <3>1. CASE AddItem(id)
      <4>1. PICK new : new = [parm EXCEPT !.value = Append(@, 0), !.default = Append(@, 0)]
        OBVIOUS
      <4>2. parm.kind \in Lists /\ SetParm(id, new)
        BY <2>1, <3>1, <4>1 DEF AddItem
      <4>3. new.kind = parm.kind
        BY <2>1, <4>1 DEF ParmOK, Parameter
      <4> QED
        BY <2>1, <4>1, <4>2, <4>3, AppendTyped
    <3>2. CASE RemoveItem(id)
      <4>1. PICK new : new = [parm EXCEPT !.value = Front(@), !.default = Front(@)]
        OBVIOUS
      <4>2. parm.kind \in Lists /\ parm.value # <<>> /\ SetParm(id, new)
        BY <2>1, <3>2, <4>1 DEF RemoveItem
      <4>3. new.kind = parm.kind
        BY <2>1, <4>1 DEF ParmOK, Parameter
      <4> QED
        BY <2>1, <4>1, <4>2, <4>3, FrontTyped
    <3>3. CASE Revert(id)
      <4>1. PICK default : default = [i \in 1 .. parm.count |-> IF i \in DOMAIN parm.default
                                                              THEN parm.default[i] ELSE 0]
        OBVIOUS
      <4>2. PICK new : new = [parm EXCEPT !.value = default, !.default = default]
        OBVIOUS
      <4>3. SetParm(id, new)
        BY <2>1, <3>3, <4>1, <4>2 DEF Revert
      <4>4. new.kind = parm.kind
        BY <2>1, <4>2 DEF ParmOK, Parameter
      <4> QED
        BY <2>1, <4>1, <4>2, <4>3, <4>4, RevertTyped
    <3> QED
      BY <1>2, <3>1, <3>2, <3>3
  <2> QED
    BY <2>1, <2>2, SetKeeps DEF SetParm, Schedule
<1>3. CASE \E next \in Packages : ChoosePackage(next) \/ ReloadPackage(next)
  <2>1. PICK next \in Packages : ChoosePackage(next) \/ ReloadPackage(next)
    BY <1>3
  <2>2. /\ rpk' = next /\ state' = "dirty" /\ UNCHANGED <<layout, parms, defaults>>
        /\ style' = style \/ style' = FindStartRule(RuleFile[next].rules).style
    BY <2>1 DEF ChoosePackage, ReloadPackage, Schedule
  <2> QED
    BY <2>2 DEF IInv, ParmsOK, ValuesOK
<1>4. CASE Load
  <2>1. /\ defaults' = NoValues /\ state' = "dirty"
        /\ UNCHANGED <<rpk, style, layout, parms>>
    BY <1>4 DEF Load, Schedule
  <2>2. ValuesOK(defaults')
    BY <2>1 DEF ValuesOK, NoValues
  <2> QED
    BY <2>1, <2>2 DEF IInv, ParmsOK, ValuesOK
<1> QED
  BY <1>1, <1>2, <1>3, <1>4 DEF User

LEMMA InductiveInvariant == Spec => []IInv
<1>1. Init => IInv
  BY DEF Init, Info, IInv, ParmsOK, NoParms, ValuesOK, NoValues
<1>2. IInv /\ [Next]_vars => IInv'
  <2> SUFFICES ASSUME IInv, [Next]_vars PROVE IInv'
    OBVIOUS
  <2>1. CASE Cook
    BY <2>1, CookKeeps
  <2>2. CASE CookFails
    BY <2>2, CookFailsKeeps
  <2>3. CASE User
    BY <2>3, UserKeeps
  <2>4. CASE UNCHANGED vars
    BY <2>4 DEF vars, IInv, ParmsOK, ValuesOK, TypesAgree, RuleAttr
  <2> QED
    BY <2>1, <2>2, <2>3, <2>4 DEF Next
<1> QED
  BY <1>1, <1>2, PTL DEF Spec

-----------------------------------------------------------------------------
(* The properties.                                                         *)

(* The parameters that buildUI makes are in the order of the annotations   *)
(* in every state, whatever packages there are.                            *)
THEOREM ParmsInOrderHolds == Spec => []ParmsInOrder
<1>1. IInv => ParmsInOrder
  BY InOrder DEF IInv
<1> QED
  BY <1>1, InductiveInvariant, PTL

(* The rule attribute that FromHoudini makes of an attribute.              *)
RuleValue(a) ==
    Value(RuleType(a.type),
          IF a.type \in {"int8", "int8s"}
          THEN [i \in DOMAIN a.val |-> IF a.val[i] > 0 THEN 1 ELSE 0] ELSE a.val)

LEMMA RuleValueIs ==
    ASSUME NEW type \in {"int8", "float", "string", "int8s", "floats", "strings"}, NEW val
    PROVE  /\ type \notin {"int8", "int8s"} =>
                RuleValue(Value(type, val)) = Value(RuleType(type), val)
           /\ type \in {"int8", "int8s"} /\ val \in Seq({0, 1}) =>
                RuleValue(Value(type, val)) = Value(RuleType(type), val)
<1>1. PICK a : a = Value(type, val)
  OBVIOUS
<1>2. a.type = type /\ a.val = val
  BY <1>1 DEF Value
<1>3. ASSUME val \in Seq({0, 1})
      PROVE  [i \in DOMAIN val |-> IF val[i] > 0 THEN 1 ELSE 0] = val
  <2>1. \A i \in DOMAIN val : (IF val[i] > 0 THEN 1 ELSE 0) = val[i]
    BY <1>3
  <2>2. val = [i \in DOMAIN val |-> val[i]]
    BY <1>3
  <2> QED
    BY <2>1, <2>2
<1> QED
  BY <1>1, <1>2, <1>3 DEF RuleValue

(* For a parameter that is not scaled, what the cook gives to the rule     *)
(* engine is what comes of the attribute that it writes.                   *)
LEMMA GivenAsWritten ==
    ASSUME NEW id \in DOMAIN parms, ParmOK(parms[id]), ~Scaled(parms[id]),
           RuleAttr(id) \in DOMAIN defaults,
           defaults[RuleAttr(id)].type = TypeOf(parms[id].kind)
    PROVE  \E w : /\ Written(parms[id], defaults[RuleAttr(id)]) = {w}
                  /\ Given(id) = {RuleValue(w)}
<1>1. PICK parm, d, kind : /\ parm = parms[id] /\ d = defaults[RuleAttr(id)]
                           /\ kind = parm.kind
  OBVIOUS
<1>2. kind \in Kinds /\ kind # "floatEnum" /\ ~parm.percent /\ d.type = TypeOf(kind)
  BY <1>1 DEF ParmOK, Parameter, Scaled
<1>3. parm.value \in ParmValues(parm)
  BY <1>1 DEF ParmOK
<1>4. CASE kind = "stringEnum"
  <2>1. d.type = "str"
    BY <1>2, <1>4, TypesOfKinds
  <2>2. Given(id) = {Value("str", Token(parm))}
    BY <1>1, <1>4, <2>1 DEF Given, GivenAs, ItemsFit, Menus, Lists
  <2>3. Written(parm, d) = {Value("string", Token(parm))}
    BY <1>1, <1>4 DEF Written, Menus, Lists
  <2>4. RuleValue(Value("string", Token(parm))) = Value("str", Token(parm))
    BY RuleValueIs DEF RuleType
  <2> QED
    BY <1>1, <2>2, <2>3, <2>4
<1>5. CASE kind = "toggle"
  <2>1. Given(id) = {Value("bool", parm.value)}
    BY <1>1, <1>5, TypesOfKinds, <1>2 DEF Given, GivenAs, ItemsFit, Menus, Lists
  <2>2. Written(parm, d) = {Value("int8", parm.value)}
    BY <1>1, <1>5 DEF Written, Menus, Lists
  <2>3. parm.value \in [1 .. 1 -> {0, 1}]
    BY <1>1, <1>2, <1>3, <1>5, TypesOfKinds, ValuesOfTypes DEF ParmValues, Menus
  <2>4. parm.value \in Seq({0, 1})
    BY <2>3, OneItem
  <2>5. RuleValue(Value("int8", parm.value)) = Value("bool", parm.value)
    BY <2>4, RuleValueIs DEF RuleType
  <2> QED
    BY <1>1, <2>1, <2>2, <2>5
<1>6. CASE kind \in Lists
  <2>1. d.type = kind
    BY <1>2, <1>6, TypesOfKinds
  <2>2. Given(id) = {Value(kind, parm.value)}
    BY <1>1, <1>6, <2>1 DEF Given, GivenAs, ItemsFit, Menus, Lists
  <2>3. PICK storage : storage = IF kind = "bools" THEN "int8s" ELSE kind
    OBVIOUS
  <2>4. Written(parm, d) = {Value(storage, parm.value)}
    BY <1>1, <1>6, <2>1, <2>3 DEF Written, ItemsFit, Menus, Lists, StorageOf
  <2>5. RuleType(storage) = kind
    BY <1>6, <2>3 DEF Lists, RuleType
  <2>6. kind = "bools" => parm.value \in Seq({0, 1})
    BY <1>1, <1>2, <1>3, <2>1, ValuesOfTypes DEF ParmValues, Menus
  <2>7. RuleValue(Value(storage, parm.value)) = Value(kind, parm.value)
    BY <1>6, <2>3, <2>5, <2>6, RuleValueIs DEF Lists
  <2> QED
    BY <1>1, <2>2, <2>4, <2>7
<1>7. CASE kind = "float"
  <2>1. Given(id) = {Value("float", parm.value)}
    BY <1>1, <1>7, TypesOfKinds, <1>2 DEF Given, GivenAs, ItemsFit, Menus, Lists
  <2>2. Written(parm, d) = {Value("float", parm.value)}
    BY <1>1, <1>2, <1>7 DEF Written, Menus, Lists
  <2>3. RuleValue(Value("float", parm.value)) = Value("float", parm.value)
    BY RuleValueIs DEF RuleType
  <2> QED
    BY <1>1, <2>1, <2>2, <2>3
<1>8. CASE kind \in {"string", "color"}
  <2>1. Given(id) = {Value("str", parm.value)}
    BY <1>1, <1>8, TypesOfKinds, <1>2 DEF Given, GivenAs, ItemsFit, Menus, Lists
  <2>2. Written(parm, d) = {Value("string", parm.value)}
    BY <1>1, <1>8 DEF Written, Menus, Lists
  <2>3. RuleValue(Value("string", parm.value)) = Value("str", parm.value)
    BY RuleValueIs DEF RuleType
  <2> QED
    BY <1>1, <2>1, <2>2, <2>3
<1> QED
  BY <1>2, <1>4, <1>5, <1>6, <1>7, <1>8 DEF Kinds, Lists

(* A rule attribute is made for exactly the parameters that are set, of    *)
(* those that the rule has evaluated and that are not scaled, and it is    *)
(* the value that the next cook would give to the rule engine.             *)
LeftAsGiven ==
    LET left == FromHoudini(PrimAttributes)
        plain == {id \in DOMAIN parms : RuleAttr(id) \in DOMAIN defaults /\ ~Scaled(parms[id])}
    IN  state = "clean" =>
          \A id \in plain :
            /\ RuleAttr(id) \in DOMAIN left <=> IsSet(id)
            /\ IsSet(id) => left[RuleAttr(id)] = Overrides[RuleAttr(id)]

LEMMA LeftAsGivenHolds ==
    ASSUME IInv
    PROVE  LeftAsGiven
<1> SUFFICES ASSUME state = "clean" PROVE LeftAsGiven
  BY DEF LeftAsGiven
<1> DEFINE written(id) == Written(parms[id], defaults[RuleAttr(id)])
           set == {id \in DOMAIN parms : /\ ~IsDefault(parms[id])
                                         /\ RuleAttr(id) \in DOMAIN defaults
                                         /\ written(id) # {}}
           given == {id \in DOMAIN parms : ~IsDefault(parms[id]) /\ Given(id) # {}}
<1>1. PICK attrs, left : attrs = PrimAttributes /\ left = FromHoudini(attrs)
  OBVIOUS
<1>2. attrs = [id \in set |-> CHOOSE v \in written(id) : TRUE]
  BY <1>1 DEF PrimAttributes
<1>3. left = [fq \in {RuleAttr(id) : id \in DOMAIN attrs} |-> RuleValue(attrs[PrimAttr(fq)])]
  BY <1>1 DEF FromHoudini, RuleValue
<1>4. \A id \in DOMAIN parms : ParmOK(parms[id]) /\ PrimAttr(RuleAttr(id)) = id
  BY SameId DEF IInv, ParmsOK
<1>5. ASSUME NEW id \in DOMAIN parms, RuleAttr(id) \in DOMAIN defaults, ~Scaled(parms[id])
      PROVE  /\ RuleAttr(id) \in DOMAIN left <=> IsSet(id)
             /\ IsSet(id) => left[RuleAttr(id)] = Overrides[RuleAttr(id)]
  <2>1. PICK w : written(id) = {w} /\ Given(id) = {RuleValue(w)}
    BY <1>4, <1>5, GivenAsWritten DEF IInv, TypesAgree
  <2>2. id \in set <=> IsSet(id)
    BY <1>5, <2>1 DEF IsSet
  <2>3. RuleAttr(id) \in DOMAIN left <=> id \in set
    <3>1. DOMAIN left = {RuleAttr(x) : x \in set}
      BY <1>2, <1>3
    <3>2. \A x \in set : RuleAttr(x) = RuleAttr(id) => x = id
      BY <1>4
    <3> QED
      BY <3>1, <3>2
  <2>4. ASSUME IsSet(id) PROVE left[RuleAttr(id)] = Overrides[RuleAttr(id)]
    <3>1. attrs[id] = w
      BY <1>2, <2>1, <2>2, <2>4
    <3>2. left[RuleAttr(id)] = RuleValue(w)
      BY <1>3, <1>4, <2>2, <2>3, <2>4, <3>1
    <3>3. id \in given
      BY <2>1, <2>4 DEF IsSet
    <3>4. Overrides
            = [fq \in {RuleAttr(x) : x \in given} |-> CHOOSE v \in Given(PrimAttr(fq)) : TRUE]
      BY DEF Overrides
    <3>5. Overrides[RuleAttr(id)] = CHOOSE v \in Given(id) : TRUE
      BY <1>4, <3>3, <3>4
    <3> QED
      BY <2>1, <3>2, <3>5
  <2> QED
    BY <2>2, <2>3, <2>4
<1> QED
  BY <1>1, <1>5 DEF LeftAsGiven

-----------------------------------------------------------------------------
(* The parameters show what pldGenerate uses.                              *)

(* A colour is written as it is read.                                      *)
LEMMA ColorStays ==
    ASSUME NEW s
    PROVE  ColorString(ColorString(s)) = ColorString(s)
<1>1. CASE s \in DOMAIN Spelling
  BY <1>1, AssignParmsAssumption DEF ColorString
<1>2. CASE s \notin DOMAIN Spelling
  <2>1. ColorString(s) = Black
    BY <1>2 DEF ColorString
  <2> QED
    BY <2>1, AssignParmsAssumption
<1> QED
  BY <1>1, <1>2

(* So a colour parameter never shows a text that pldGenerate reads as      *)
(* another one.                                                            *)
ColorOK(parm) ==
    parm.kind = "color" =>
      /\ ColorString(parm.value[1]) = parm.value[1]
      /\ ColorString(parm.default[1]) = parm.default[1]

ColorsOK == \A id \in DOMAIN parms : ColorOK(parms[id])

LEMMA WithDefaultIs ==
    ASSUME NEW parm, ParmOK(parm), NEW d, ValueOK(d)
    PROVE  LET q == WithDefault(parm, d)
               v == ShownValue(parm, d)
           IN  /\ q.kind = parm.kind /\ q.options = parm.options /\ q.percent = parm.percent
               /\ q.value = v /\ q.default = v /\ q.count = Len(v)
<1>1. PICK v : v = ShownValue(parm, d)
  OBVIOUS
<1>2. PICK q : q = [parm EXCEPT !.value = v, !.default = v, !.count = Len(v)]
  OBVIOUS
<1>3. WithDefault(parm, d) = q
  BY <1>1, <1>2 DEF WithDefault
<1>4. parm \in Parameter
  BY ParmFacts
<1>5. /\ q.kind = parm.kind /\ q.options = parm.options /\ q.percent = parm.percent
      /\ q.value = v /\ q.default = v /\ q.count = Len(v)
  BY <1>2, <1>4 DEF Parameter
<1> QED
  BY <1>1, <1>3, <1>5

LEMMA WithDefaultColor ==
    ASSUME NEW parm, ParmOK(parm), ColorOK(parm), NEW d, ValueOK(d)
    PROVE  ColorOK(WithDefault(parm, d))
<1>1. PICK q, v : q = WithDefault(parm, d) /\ v = ShownValue(parm, d)
  OBVIOUS
<1>2. q.kind = parm.kind /\ q.value = v /\ q.default = v
  BY <1>1, WithDefaultIs
<1>3. ASSUME parm.kind = "color" PROVE ColorString(v[1]) = v[1]
  <2>1. parm.kind \notin Menus
    BY <1>3 DEF Menus
  <2>2. CASE d.type = "str"
    <3>1. v = <<ColorString(d.val[1])>>
      BY <1>1, <1>3, <2>1, <2>2 DEF ShownValue
    <3> QED
      BY <3>1, ColorStays
  <2>3. CASE d.type # "str"
    <3>1. v = parm.value
      BY <1>1, <1>3, <2>1, <2>3 DEF ShownValue
    <3> QED
      BY <1>3, <3>1 DEF ColorOK
  <2> QED
    BY <2>2, <2>3
<1> QED
  BY <1>1, <1>2, <1>3 DEF ColorOK

(* What buildUI makes is at its default, and a colour as it is written.    *)
LEMMA PlainParm ==
    ASSUME NEW kind, NEW v, NEW p
    PROVE  LET parm == Parm(kind, v)
               percent == [Parm(kind, v) EXCEPT !.percent = p]
           IN  /\ parm.kind = kind /\ parm.value = v /\ parm.default = v /\ parm.count = Len(v)
               /\ percent.kind = kind /\ percent.value = v /\ percent.default = v
               /\ percent.count = Len(v)
<1>1. PICK n, o, f : n = Len(v) /\ o = <<>> /\ f = FALSE
  OBVIOUS
<1>2. Parm(kind, v) = [kind |-> kind, value |-> v, default |-> v, count |-> n,
                       options |-> o, percent |-> f]
  BY <1>1 DEF Parm
<1> QED
  BY <1>1, <1>2

LEMMA MenuIsDefault ==
    ASSUME NEW kind, NEW default, NEW options
    PROVE  LET parm == EnumParm(kind, default, options)
           IN  parm.kind = kind /\ parm.value = parm.default /\ parm.count = Len(parm.value)
<1>1. PICK v, no :
        EnumParm(kind, default, options)
          = [kind |-> kind, value |-> v, default |-> v, count |-> Len(v),
             options |-> options, percent |-> no]
  BY MenuParm
<1> QED
  BY <1>1

LEMMA BuiltParm ==
    ASSUME NEW a, NEW values, a.mType \in Types
    PROVE  IsDefault(ParmFor(a, values)) /\ ColorOK(ParmFor(a, values))
<1>1. PICK parm, traits, default : /\ parm = ParmFor(a, values)
                                   /\ traits = AttributeTraits(Decl(a.fqName))
                                   /\ default = DefaultOf(a, values)
  OBVIOUS
<1>2. CASE a.mType = "bool"
  <2>1. parm = Parm("toggle", default)
    BY <1>1, <1>2 DEF ParmFor, Lists
  <2>2. /\ parm.kind = "toggle" /\ parm.value = default /\ parm.default = default
        /\ parm.count = Len(default)
    BY <2>1, PlainParm
  <2> QED
    BY <1>1, <2>2 DEF IsDefault, ColorOK
<1>3. CASE a.mType = "float"
  <2>1. parm = FloatParmFor(default[1], traits)
    BY <1>1, <1>3 DEF ParmFor, Lists
  <2>2. CASE "enum" \in DOMAIN traits
    <3>1. PICK options : parm = EnumParm("floatEnum", default[1], options)
      BY <2>1, <2>2 DEF FloatParmFor
    <3>2. /\ parm.kind = "floatEnum" /\ parm.value = parm.default
          /\ parm.count = Len(parm.value)
      BY <3>1, MenuIsDefault
    <3> QED
      BY <1>1, <3>2 DEF IsDefault, ColorOK
  <2>3. CASE "enum" \notin DOMAIN traits
    <3>1. PICK p : parm = [Parm("float", <<default[1]>>) EXCEPT !.percent = p]
      BY <2>1, <2>3 DEF FloatParmFor, FloatParm
    <3>2. /\ parm.kind = "float" /\ parm.value = <<default[1]>>
          /\ parm.default = <<default[1]>> /\ parm.count = Len(parm.value)
      BY <3>1, PlainParm
    <3> QED
      BY <1>1, <3>2 DEF IsDefault, ColorOK
  <2> QED
    BY <2>2, <2>3
<1>4. CASE a.mType = "str"
  <2>1. parm = StringParmFor(default[1], traits)
    BY <1>1, <1>4 DEF ParmFor, Lists
  <2>2. CASE "enum" \in DOMAIN traits
    <3>1. PICK options : parm = EnumParm("stringEnum", default[1], options)
      BY <2>1, <2>2 DEF StringParmFor
    <3>2. /\ parm.kind = "stringEnum" /\ parm.value = parm.default
          /\ parm.count = Len(parm.value)
      BY <3>1, MenuIsDefault
    <3> QED
      BY <1>1, <3>2 DEF IsDefault, ColorOK
  <2>3. CASE "enum" \notin DOMAIN traits
    <3>1. PICK kind, x : /\ parm = Parm(kind, <<x>>)
                         /\ kind = "color" => x = ColorString(default[1])
      <4>1. \/ parm = Parm("color", <<ColorString(default[1])>>)
            \/ parm = Parm("string", <<default[1]>>)
        BY <2>1, <2>3 DEF StringParmFor
      <4>2. "string" # "color"
        OBVIOUS
      <4> QED
        BY <4>1, <4>2
    <3>2. /\ parm.kind = kind /\ parm.value = <<x>> /\ parm.default = <<x>>
          /\ parm.count = Len(parm.value)
      BY <3>1, PlainParm
    <3> QED
      BY <1>1, <3>1, <3>2, ColorStays DEF IsDefault, ColorOK
  <2> QED
    BY <2>2, <2>3
<1>5. CASE a.mType \in Lists
  <2>1. parm = ArrayParm(a.mType, default)
    BY <1>1, <1>5 DEF ParmFor, Lists
  <2>2. PICK zeros : parm = Parm(a.mType, zeros)
    BY <2>1 DEF ArrayParm
  <2>3. parm.value = zeros /\ parm.default = zeros /\ parm.count = Len(zeros)
        /\ parm.kind = a.mType
    BY <2>2, PlainParm
  <2> QED
    BY <1>1, <1>5, <2>3 DEF IsDefault, ColorOK, Lists
<1> QED
  BY <1>2, <1>3, <1>4, <1>5 DEF Types

LEMMA BuiltParms ==
    ASSUME rpk \in Packages, NEW values, ValuesOK(values),
           NEW id \in DOMAIN BuildParms(SortedAttributes[rpk], values)
    PROVE  /\ IsDefault(BuildParms(SortedAttributes[rpk], values)[id])
           /\ ColorOK(BuildParms(SortedAttributes[rpk], values)[id])
<1>1. PICK ra : ra = SortedAttributes[rpk]
  OBVIOUS
<1>2. PICK a : a \in ToSet(ra) /\ BuildParms(ra, values)[id] = ParmFor(a, values)
  BY <1>1 DEF BuildParms
<1>3. a.mType \in Types
  <2>1. PICK d \in ToSet(Info.attributes) : a.mType = d.type
    BY <1>1, <1>2, AttributesDeclared DEF Info, IsOf
  <2> QED
    BY <2>1, SoundRuleFiles DEF Info, SoundDeclaration
<1> QED
  BY <1>1, <1>2, <1>3, BuiltParm

LEMMA CookKeepsColors ==
    ASSUME IInv, ColorsOK, Cook
    PROVE  ColorsOK'
<1>1. PICK values : ValuesOK(values) /\ parms' = UpdateUIDefaultValues(Built(values), values)
  BY CookSteps
<1>2. PICK built : built = Built(values)
  OBVIOUS
<1>3. \A id \in DOMAIN built : ParmOK(built[id])
  BY <1>1, <1>2, BuiltTyped
<1>4. ASSUME NEW id \in DOMAIN built PROVE ColorOK(built[id])
  <2>1. CASE CompareAttributeTypes(SortedAttributes[rpk])
    BY <1>2, <1>4, <2>1 DEF Built, ColorsOK
  <2>2. CASE ~CompareAttributeTypes(SortedAttributes[rpk])
    <3>1. built = BuildParms(SortedAttributes[rpk], values)
      BY <1>2, <2>2 DEF Built
    <3> QED
      BY <1>1, <1>4, <3>1, BuiltParms DEF IInv
  <2> QED
    BY <2>1, <2>2
<1>5. ASSUME NEW id \in DOMAIN built PROVE ColorOK(parms'[id])
  <2>1. parms'[id] = IF IsDefault(built[id]) /\ RuleAttr(id) \in DOMAIN values
                     THEN WithDefault(built[id], values[RuleAttr(id)]) ELSE built[id]
    BY <1>1, <1>2, <1>5 DEF UpdateUIDefaultValues
  <2>2. CASE IsDefault(built[id]) /\ RuleAttr(id) \in DOMAIN values
    <3>1. ValueOK(values[RuleAttr(id)])
      BY <1>1, <2>2 DEF ValuesOK
    <3> QED
      BY <1>3, <1>4, <1>5, <2>1, <2>2, <3>1, WithDefaultColor
  <2>3. CASE ~(IsDefault(built[id]) /\ RuleAttr(id) \in DOMAIN values)
    BY <1>4, <1>5, <2>1, <2>3
  <2> QED
    BY <2>2, <2>3
<1>6. DOMAIN parms' = DOMAIN built
  BY <1>1, <1>2, <1>3, UpdatedTyped
<1> QED
  BY <1>5, <1>6 DEF ColorsOK

(* The user sets a colour to one, and has no items to add to it.           *)
LEMMA UserKeepsColors ==
    ASSUME IInv, ColorsOK, User
    PROVE  ColorsOK'
<1>1. ASSUME NEW id \in DOMAIN parms, NEW parm, SetParm(id, parm), ColorOK(parm)
      PROVE  ColorsOK'
  BY <1>1 DEF SetParm, ColorsOK
<1>2. CASE \E e \in Edits : e[1] \in DOMAIN parms /\ Edit(e[1], e[2])
  <2>1. PICK e \in Edits : e[1] \in DOMAIN parms /\ Edit(e[1], e[2])
    BY <1>2
  <2>2. PICK parm, new : parm = parms[e[1]] /\ new = [parm EXCEPT !.value = e[2]]
    OBVIOUS
  <2>3. parm \in Parameter /\ ColorOK(parm)
    BY <2>1, <2>2 DEF IInv, ParmsOK, ParmOK, ColorsOK
  <2>4. new.kind = parm.kind /\ new.value = e[2] /\ new.default = parm.default
    BY <2>2, <2>3 DEF Parameter
  <2>5. /\ SetParm(e[1], new)
        /\ parm.kind = "color" => ColorString(e[2][1]) = e[2][1]
    BY <2>1, <2>2 DEF Edit
  <2> QED
    BY <1>1, <2>1, <2>3, <2>4, <2>5 DEF ColorOK
<1>3. ASSUME NEW id \in DOMAIN parms, AddItem(id) \/ RemoveItem(id) \/ Revert(id)
      PROVE  ColorsOK'
  <2>1. PICK parm : parm = parms[id] /\ ParmOK(parm) /\ ColorOK(parm)
    BY DEF IInv, ParmsOK, ColorsOK
  <2>2. parm \in Parameter
    BY <2>1 DEF ParmOK
  <2>3. CASE AddItem(id)
    <3>1. PICK new : new = [parm EXCEPT !.value = Append(@, 0), !.default = Append(@, 0)]
      OBVIOUS
    <3>2. parm.kind \in Lists /\ SetParm(id, new) /\ new.kind = parm.kind
      BY <2>1, <2>2, <2>3, <3>1 DEF AddItem, Parameter
    <3> QED
      BY <1>1, <3>2 DEF ColorOK, Lists
  <2>4. CASE RemoveItem(id)
    <3>1. PICK new : new = [parm EXCEPT !.value = Front(@), !.default = Front(@)]
      OBVIOUS
    <3>2. parm.kind \in Lists /\ SetParm(id, new) /\ new.kind = parm.kind
      BY <2>1, <2>2, <2>4, <3>1 DEF RemoveItem, Parameter
    <3> QED
      BY <1>1, <3>2 DEF ColorOK, Lists
  <2>5. CASE Revert(id)
    <3>1. PICK default : default = [i \in 1 .. parm.count |-> IF i \in DOMAIN parm.default
                                                            THEN parm.default[i] ELSE 0]
      OBVIOUS
    <3>2. PICK new : new = [parm EXCEPT !.value = default, !.default = default]
      OBVIOUS
    <3>3. SetParm(id, new)
      BY <2>1, <2>5, <3>1, <3>2 DEF Revert
    <3>4. new.kind = parm.kind /\ new.value = default /\ new.default = default
      BY <2>2, <3>2 DEF Parameter
    <3>5. ASSUME parm.kind = "color" PROVE default[1] = parm.default[1]
      <4>1. parm.count = 1 /\ Len(parm.default) = 1 /\ parm.default \in Seq(Int)
        BY <2>1, <3>5, ParmFacts DEF Lists
      <4> QED
        BY <3>1, <4>1
    <3> QED
      BY <1>1, <2>1, <3>3, <3>4, <3>5 DEF ColorOK
  <2> QED
    BY <1>3, <2>3, <2>4, <2>5
<1>4. CASE \E next \in Packages : ChoosePackage(next) \/ ReloadPackage(next)
  <2>1. parms' = parms
    BY <1>4 DEF ChoosePackage, ReloadPackage
  <2> QED
    BY <2>1 DEF ColorsOK
<1>5. CASE Load
  BY <1>5 DEF Load, ColorsOK
<1> QED
  BY <1>2, <1>3, <1>4, <1>5 DEF User

LEMMA ColorInvariant == Spec => []ColorsOK
<1>1. Init => ColorsOK
  BY DEF Init, NoParms, ColorsOK
<1>2. IInv /\ ColorsOK /\ [Next]_vars => ColorsOK'
  <2> SUFFICES ASSUME IInv, ColorsOK, [Next]_vars PROVE ColorsOK'
    OBVIOUS
  <2>1. CASE Cook
    BY <2>1, CookKeepsColors
  <2>2. CASE CookFails
    BY <2>2 DEF CookFails, ColorsOK
  <2>3. CASE User
    BY <2>3, UserKeepsColors
  <2>4. CASE UNCHANGED vars
    BY <2>4 DEF vars, ColorsOK
  <2> QED
    BY <2>1, <2>2, <2>3, <2>4 DEF Next
<1> QED
  BY <1>1, <1>2, InductiveInvariant, PTL DEF Spec

(* What an attribute evaluates to: the attributes it may be like are those *)
(* of the style that have no parameters.                                   *)
Evaluated == {d \in ToSet(Info.attributes) : d.params = 0 /\ d.style = style}

IsGiven(given, d) == FqName(d) \in DOMAIN given /\ given[FqName(d)].type = d.type

SourceOf(given, d) ==
    IF IsGiven(given, d) \/ d.like = NoPrefix THEN d
    ELSE CHOOSE e \in Evaluated : e.prefix = d.prefix /\ e.name = d.like

EvaluatesTo(given, d) ==
    IF IsGiven(given, SourceOf(given, d)) THEN given[FqName(SourceOf(given, d))].val
                                          ELSE SourceOf(given, d).val

LEMMA EvaluateIs ==
    ASSUME rpk \in Packages, NEW given
    PROVE  /\ DOMAIN Evaluate(given) = {FqName(d) : d \in {e \in Evaluated : ~Hidden(e)}}
           /\ \A d \in Evaluated : ~Hidden(d) =>
                Evaluate(given)[FqName(d)] = Value(d.type, EvaluatesTo(given, d))
<1> DEFINE isGiven(d) == FqName(d) \in DOMAIN given /\ given[FqName(d)].type = d.type
           other(d) == CHOOSE e \in Evaluated : e.prefix = d.prefix /\ e.name = d.like
           source(d) == IF isGiven(d) \/ d.like = NoPrefix THEN d ELSE other(d)
           val(d) == IF isGiven(source(d)) THEN given[FqName(source(d))].val ELSE source(d).val
           shown == {FqName(d) : d \in {e \in Evaluated : ~Hidden(e)}}
<1>1. Evaluate(given) = [f \in shown |-> Value(Decl(f).type, val(Decl(f)))]
  BY DEF Evaluate, Evaluated
<1>2. \A d : val(d) = EvaluatesTo(given, d)
  BY DEF EvaluatesTo, SourceOf, IsGiven
<1> HIDE DEF val, source, other, isGiven
<1>3. ASSUME NEW d \in Evaluated, ~Hidden(d)
      PROVE  Evaluate(given)[FqName(d)] = Value(d.type, EvaluatesTo(given, d))
  <2>1. Decl(FqName(d)) = d
    BY OneName DEF Evaluated
  <2>2. FqName(d) \in shown
    BY <1>3
  <2>3. Evaluate(given)[FqName(d)] = Value(Decl(FqName(d)).type, val(Decl(FqName(d))))
    BY <1>1, <2>2
  <2> QED
    BY <1>2, <2>1, <2>3
<1> QED
  BY <1>1, <1>3

(* Only what is given for the attributes of the package counts.            *)
LEMMA EvaluateSame ==
    ASSUME rpk \in Packages, NEW g, NEW h,
           \A d \in Evaluated :
             /\ IsGiven(g, d) <=> IsGiven(h, d)
             /\ IsGiven(g, d) => g[FqName(d)].val = h[FqName(d)].val
    PROVE  Evaluate(g) = Evaluate(h)
<1>1. ASSUME NEW d \in Evaluated PROVE EvaluatesTo(g, d) = EvaluatesTo(h, d)
  <2>1. SourceOf(g, d) = SourceOf(h, d)
    BY <1>1 DEF SourceOf
  <2>2. SourceOf(g, d) \in Evaluated
    <3>1. CASE IsGiven(g, d) \/ d.like = NoPrefix
      BY <1>1, <3>1 DEF SourceOf
    <3>2. CASE ~(IsGiven(g, d) \/ d.like = NoPrefix)
      <4>1. d \in ToSet(Info.attributes) /\ d.style = style
        BY <1>1 DEF Evaluated
      <4>2. SoundDeclaration(Info, d)
        BY <4>1, SoundRuleFiles DEF Info
      <4>3. PICK e \in ToSet(Info.attributes) :
              e.params = 0 /\ e.style = d.style /\ e.prefix = d.prefix /\ e.name = d.like
        BY <3>2, <4>2 DEF SoundDeclaration
      <4>4. e \in Evaluated
        BY <4>1, <4>3 DEF Evaluated
      <4> QED
        BY <3>2, <4>3, <4>4 DEF SourceOf
    <3> QED
      BY <3>1, <3>2
  <2> QED
    BY <2>1, <2>2 DEF EvaluatesTo
<1>2. PICK G, H : G = Evaluate(g) /\ H = Evaluate(h)
  OBVIOUS
<1>3. /\ DOMAIN G = DOMAIN H
      /\ \A fq \in DOMAIN G : G[fq] = H[fq]
  BY <1>1, <1>2, EvaluateIs
<1>4. G = [fq \in DOMAIN G |-> G[fq]] /\ H = [fq \in DOMAIN H |-> H[fq]]
  BY <1>2 DEF Evaluate
<1> QED
  BY <1>2, <1>3, <1>4

(* What a parameter shows is what it gives; a menu and a list if the value *)
(* of the cook before is of the type that they are for.                    *)
LEMMA GivenIsShown ==
    ASSUME NEW id \in DOMAIN parms, ParmOK(parms[id]),
           \/ parms[id].kind \notin Menus \cup Lists
           \/ /\ RuleAttr(id) \in DOMAIN defaults
              /\ defaults[RuleAttr(id)].type = TypeOf(parms[id].kind)
    PROVE  Value(TypeOf(parms[id].kind), Shown(parms[id])) \in Given(id)
<1>1. PICK parm, type : parm = parms[id] /\ type = TypeOf(parm.kind)
  OBVIOUS
<1>2. parm.kind \in Kinds
  BY <1>1, ParmFacts
<1>3. parm.kind \in Menus \cup Lists => Given(id) = GivenAs(parm, type)
  BY <1>1 DEF Given
<1>4. CASE parm.kind \in Menus
  <2>1. Shown(parm) = Token(parm) /\ type \in {"float", "str"} /\ parm.kind \notin Lists
    BY <1>1, <1>2, <1>4, TypesOfKinds DEF Shown, Menus, Lists
  <2>2. GivenAs(parm, type) = {Value(type, Token(parm))}
    BY <1>4, <2>1 DEF GivenAs
  <2> QED
    BY <1>1, <1>3, <1>4, <2>1, <2>2
<1>5. CASE parm.kind \in Lists
  <2>1. Shown(parm) = parm.value /\ type = parm.kind /\ parm.kind \notin Menus
    BY <1>1, <1>2, <1>5, TypesOfKinds DEF Shown, Menus, Lists
  <2>2. GivenAs(parm, type) = {Value(type, parm.value)}
    BY <1>5, <2>1 DEF GivenAs, ItemsFit
  <2> QED
    BY <1>1, <1>3, <1>5, <2>1, <2>2
<1>6. CASE parm.kind \notin Menus \cup Lists
  <2>1. Given(id) = {Value(type, parm.value)}
    BY <1>1, <1>6 DEF Given
  <2>2. Shown(parm) = parm.value
    BY <1>6 DEF Shown
  <2> QED
    BY <1>1, <2>1, <2>2
<1> QED
  BY <1>4, <1>5, <1>6

(* The overrides are the values given for the parameters that are set.     *)
LEMMA OverridesAre ==
    ASSUME ParmsOK
    PROVE  /\ \A id \in DOMAIN parms : \A v \in Given(id) : IsSet(id) =>
                RuleAttr(id) \in DOMAIN Overrides /\ Overrides[RuleAttr(id)] = v
           /\ \A fq \in DOMAIN Overrides : \E id \in DOMAIN parms :
                IsSet(id) /\ fq = RuleAttr(id)
<1> DEFINE set == {id \in DOMAIN parms : ~IsDefault(parms[id]) /\ Given(id) # {}}
<1>1. Overrides = [fq \in {RuleAttr(id) : id \in set} |-> CHOOSE v \in Given(PrimAttr(fq)) : TRUE]
  BY DEF Overrides
<1>2. ASSUME NEW id \in DOMAIN parms, NEW v \in Given(id), IsSet(id)
      PROVE  RuleAttr(id) \in DOMAIN Overrides /\ Overrides[RuleAttr(id)] = v
  <2>1. PrimAttr(RuleAttr(id)) = id /\ ParmOK(parms[id])
    BY SameId DEF ParmsOK
  <2>2. Given(id) = {v}
    BY <1>2, <2>1, GivenTyped
  <2>3. id \in set
    BY <1>2, <2>2 DEF IsSet
  <2> QED
    BY <1>1, <2>1, <2>2, <2>3
<1>3. ASSUME NEW fq \in DOMAIN Overrides
      PROVE  \E id \in DOMAIN parms : IsSet(id) /\ fq = RuleAttr(id)
  BY <1>1, <1>3 DEF IsSet
<1> QED
  BY <1>2, <1>3

(* What pldGenerate is told of the node that has cooked: the values that   *)
(* the set parameters show, and no others.                                 *)
SetSent ==
    LET left == FromHoudini(PrimAttributes) IN
    state = "clean" =>
      /\ \A id \in DOMAIN parms :
           IsSet(id) /\ ~Scaled(parms[id]) /\ RuleAttr(id) \in DOMAIN defaults =>
             /\ RuleAttr(id) \in DOMAIN left
             /\ left[RuleAttr(id)] = Value(TypeOf(parms[id].kind), Shown(parms[id]))
      /\ \A fq \in DOMAIN left : \E id \in DOMAIN parms :
           IsSet(id) /\ fq \in DOMAIN defaults /\ fq = RuleAttr(id)

LEMMA SetSentHolds ==
    ASSUME IInv
    PROVE  SetSent
<1> SUFFICES ASSUME state = "clean" PROVE SetSent
  BY DEF SetSent
<1>1. PICK attrs, left : attrs = PrimAttributes /\ left = FromHoudini(attrs)
  OBVIOUS
<1>2. DOMAIN left = {RuleAttr(id) : id \in DOMAIN attrs}
  BY <1>1 DEF FromHoudini
<1>3. \A id \in DOMAIN attrs :
        id \in DOMAIN parms /\ IsSet(id) /\ RuleAttr(id) \in DOMAIN defaults
  BY <1>1 DEF PrimAttributes, IsSet
<1>4. ASSUME NEW id \in DOMAIN parms, IsSet(id), ~Scaled(parms[id]),
             RuleAttr(id) \in DOMAIN defaults
      PROVE  /\ RuleAttr(id) \in DOMAIN left
             /\ left[RuleAttr(id)] = Value(TypeOf(parms[id].kind), Shown(parms[id]))
  <2>1. RuleAttr(id) \in DOMAIN left /\ left[RuleAttr(id)] = Overrides[RuleAttr(id)]
    BY <1>1, <1>4, LeftAsGivenHolds DEF LeftAsGiven
  <2>2. ParmOK(parms[id]) /\ defaults[RuleAttr(id)].type = TypeOf(parms[id].kind)
    BY <1>4 DEF IInv, ParmsOK, TypesAgree
  <2>3. PICK value : value = Value(TypeOf(parms[id].kind), Shown(parms[id]))
    OBVIOUS
  <2>4. value \in Given(id)
    BY <1>4, <2>2, <2>3, GivenIsShown
  <2>5. Overrides[RuleAttr(id)] = value
    BY <1>4, <2>4, OverridesAre DEF IInv
  <2> QED
    BY <2>1, <2>3, <2>5
<1> QED
  BY <1>1, <1>2, <1>3, <1>4 DEF SetSent

(* A parameter that a cook gives a value to shows it.                      *)
LEMMA DefaultShown ==
    ASSUME NEW parm, ParmOK(parm), NEW d, ValueOK(d), d.type = TypeOf(parm.kind),
           Showable(WithDefault(parm, d), d.val)
    PROVE  /\ IsDefault(WithDefault(parm, d))
           /\ Shown(WithDefault(parm, d)) = IF parm.kind = "color" THEN <<ColorString(d.val[1])>>
                                                                   ELSE d.val
<1>1. PICK q, v : q = WithDefault(parm, d) /\ v = ShownValue(parm, d)
  OBVIOUS
<1>2. /\ q.kind = parm.kind /\ q.options = parm.options
      /\ q.value = v /\ q.default = v /\ q.count = Len(v)
  BY <1>1, WithDefaultIs
<1>3. IsDefault(q)
  BY <1>2 DEF IsDefault
<1>4. parm.kind \in Kinds /\ parm.options \in Seq(Int)
  BY ParmFacts
<1>5. CASE parm.kind \in Menus
  <2> DEFINE same == {i \in DOMAIN parm.options : parm.options[i] = d.val[1]}
  <2>1. d.type \in {"float", "str"}
    BY <1>4, <1>5, TypesOfKinds DEF Menus
  <2>2. same # {}
    <3>1. d.val[1] \in ToSet(q.options)
      BY <1>1, <1>2, <1>5 DEF Showable
    <3>2. PICK i \in DOMAIN parm.options : parm.options[i] = d.val[1]
      BY <1>2, <1>4, <3>1, ElementsOf
    <3> QED
      BY <3>2
  <2>3. v = <<Min(same) - 1>>
    <3>1. v = IF same = {} THEN parm.value ELSE <<Min(same) - 1>>
      BY <1>1, <1>5, <2>1 DEF ShownValue, Menus
    <3> QED
      BY <2>2, <3>1
  <2>4. Min(same) \in same
    <3>1. same \subseteq Int /\ 1 \in Int /\ \A i \in same : 1 <= i
      BY <1>4
    <3> HIDE DEF same
    <3> QED
      BY <2>2, <3>1, MinOfBounded
  <2>5. PICK m : m = Min(same)
    OBVIOUS
  <2>6. m \in Int /\ parm.options[m] = d.val[1]
    BY <1>4, <2>4, <2>5
  <2>7. v[1] + 1 = m
    BY <2>3, <2>5, <2>6
  <2>8. Token(q) = <<d.val[1]>>
    BY <1>2, <2>6, <2>7 DEF Token
  <2>9. d.val = <<d.val[1]>>
    <3>1. d.val \in Seq(Int) /\ Len(d.val) = 1
      BY <2>1, ValuesAreSequences DEF ValueOK, Lists
    <3> QED
      BY <3>1
  <2> QED
    BY <1>1, <1>2, <1>3, <1>5, <2>8, <2>9 DEF Shown, Menus
<1>6. CASE parm.kind = "color"
  <2>1. d.type = "str"
    BY <1>4, <1>6, TypesOfKinds
  <2>2. v = <<ColorString(d.val[1])>>
    BY <1>1, <1>6, <2>1 DEF ShownValue, Menus
  <2> QED
    BY <1>1, <1>2, <1>3, <1>6, <2>2 DEF Shown, Menus
<1>7. CASE parm.kind \notin Menus \cup {"color"}
  <2>1. v = d.val
    BY <1>1, <1>7 DEF ShownValue
  <2> QED
    BY <1>1, <1>2, <1>3, <1>7, <2>1 DEF Shown
<1> QED
  BY <1>5, <1>6, <1>7

(* Each value that a cook has computed has a parameter of its type.        *)
LEMMA ParmOfValue ==
    ASSUME IInv, NEW given, ValuesOK(given), NEW values, values = Evaluate(given),
           NEW fq \in DOMAIN values
    PROVE  /\ PrimAttr(fq) \in DOMAIN Built(values) /\ RuleAttr(PrimAttr(fq)) = fq
           /\ values[fq].type = TypeOf(Built(values)[PrimAttr(fq)].kind)
           /\ \E d \in Evaluated : /\ ~Hidden(d) /\ FqName(d) = fq
                                   /\ values[fq].type = d.type
<1>1. PICK d \in ToSet(Info.attributes) :
        IsVisible(d) /\ d.style = style /\ FqName(d) = fq /\ values[fq].type = d.type
  BY EvaluateTyped DEF IInv
<1>2. d \in Evaluated /\ ~Hidden(d)
  BY <1>1 DEF Evaluated, IsVisible
<1>3. RuleAttr(PrimAttr(fq)) = fq
  BY <1>1 DEF RuleAttr, PrimAttr, FqName
<1>4. PICK a \in ToSet(SortedAttributes[rpk]) : a.fqName = fq
  BY <1>1, AttributesDeclared DEF IInv, Info, IsOf
<1>5. PrimAttr(fq) \in DOMAIN Built(values)
  <2>1. CASE CompareAttributeTypes(SortedAttributes[rpk])
    <3>1. PICK x \in DOMAIN parms : RuleAttr(x) = fq
      BY <1>4, <2>1 DEF CompareAttributeTypes
    <3>2. PrimAttr(RuleAttr(x)) = x
      BY SameId DEF IInv, ParmsOK
    <3> QED
      BY <2>1, <3>1, <3>2 DEF Built
  <2>2. CASE ~CompareAttributeTypes(SortedAttributes[rpk])
    BY <1>4, <2>2 DEF Built, BuildParms
  <2> QED
    BY <2>1, <2>2
<1>6. values[fq].type = TypeOf(Built(values)[PrimAttr(fq)].kind)
  BY <1>3, <1>5, BuiltAgrees
<1> QED
  BY <1>1, <1>2, <1>3, <1>5, <1>6

(* The parameters after a cook, and which of them are set.                 *)
LEMMA CookedParms ==
    ASSUME IInv, Cook, NEW values, values = Evaluate(Overrides)
    PROVE  /\ DOMAIN parms' = DOMAIN Built(values)
           /\ \A id \in DOMAIN Built(values) :
                LET parm == Built(values)[id] IN
                /\ IsDefault(parm) /\ RuleAttr(id) \in DOMAIN values =>
                     parms'[id] = WithDefault(parm, values[RuleAttr(id)])
                /\ ~IsDefault(parm) => parms'[id] = parm
                /\ IsDefault(parms'[id]) <=> IsDefault(parm)
<1>1. ValuesOK(values) /\ parms' = UpdateUIDefaultValues(Built(values), values)
  BY CookSteps
<1>2. PICK built : built = Built(values)
  OBVIOUS
<1>3. \A id \in DOMAIN built : ParmOK(built[id])
  BY <1>1, <1>2, BuiltTyped
<1>4. \A parm, d : ParmOK(parm) /\ ValueOK(d) => IsDefault(WithDefault(parm, d))
  BY WithDefaultIs DEF IsDefault
<1>5. ASSUME NEW id \in DOMAIN built
      PROVE  /\ IsDefault(built[id]) /\ RuleAttr(id) \in DOMAIN values =>
                  parms'[id] = WithDefault(built[id], values[RuleAttr(id)])
             /\ ~IsDefault(built[id]) => parms'[id] = built[id]
             /\ IsDefault(parms'[id]) <=> IsDefault(built[id])
  <2>1. parms'[id] = IF IsDefault(built[id]) /\ RuleAttr(id) \in DOMAIN values
                     THEN WithDefault(built[id], values[RuleAttr(id)]) ELSE built[id]
    BY <1>1, <1>2, <1>5 DEF UpdateUIDefaultValues
  <2>2. RuleAttr(id) \in DOMAIN values => ValueOK(values[RuleAttr(id)])
    BY <1>1 DEF ValuesOK
  <2> QED
    BY <1>3, <1>4, <1>5, <2>1, <2>2
<1> QED
  BY <1>1, <1>2, <1>5 DEF UpdateUIDefaultValues

(* A cook that is the last for now has sent what the set parameters show;  *)
(* a menu or a list if it could.                                           *)
LEMMA CookSends ==
    ASSUME IInv, Cook, state' = "clean", NEW id \in DOMAIN parms', ~IsDefault(parms'[id]),
           RuleAttr(id) \in DOMAIN defaults',
           sentAll' \/ parms'[id].kind \notin Menus \cup Lists
    PROVE  /\ RuleAttr(id) \in DOMAIN sent'
           /\ sent'[RuleAttr(id)] = Value(TypeOf(parms'[id].kind), Shown(parms'[id]))
<1>1. PICK values : values = Evaluate(Overrides) /\ ValuesOK(values) /\ defaults' = values
  BY CookSteps
<1>2. sent' = Overrides
  BY DEF Cook
<1>3. CompareAttributeTypes(SortedAttributes[rpk])
  <2> SUFFICES ASSUME ~CompareAttributeTypes(SortedAttributes[rpk]) PROVE FALSE
    OBVIOUS
  <2>1. Built(values) = BuildParms(SortedAttributes[rpk], values)
    BY DEF Built
  <2> QED
    BY <1>1, <2>1, CookedParms, BuiltParms DEF IInv
<1>4. Built(values) = parms
  BY <1>3 DEF Built
<1>5. id \in DOMAIN parms /\ IsSet(id) /\ parms'[id] = parms[id]
  BY <1>1, <1>4, CookedParms DEF IsSet
<1>6. PICK value : value = Value(TypeOf(parms[id].kind), Shown(parms[id]))
  OBVIOUS
<1>7. value \in Given(id)
  <2>1. CASE parms[id].kind \notin Menus \cup Lists
    BY <1>5, <1>6, <2>1, GivenIsShown DEF IInv, ParmsOK
  <2>2. CASE sentAll'
    <3>1. PICK d \in Evaluated : FqName(d) = RuleAttr(id)
      BY <1>1, EvaluateIs DEF IInv
    <3>2. Declares(id)
      BY <3>1 DEF Declares, Evaluated
    <3> QED
      BY <1>5, <1>6, <2>2, <3>2 DEF Cook, IsSet, Sent
  <2> QED
    BY <1>5, <2>1, <2>2
<1> QED
  BY <1>2, <1>5, <1>6, <1>7, OverridesAre DEF IInv

(* In every clean state pldGenerate reads, from the attributes of the      *)
(* primitives, the very values that the last cook has sent to the rule     *)
(* engine: those of menus and lists whenever it could send them.           *)
THEOREM GenerateGetsOverridesHolds == Spec => []GenerateGetsOverrides
<1>1. Init => GenerateGetsOverrides
  BY DEF Init, GenerateGetsOverrides
<1>2. IInv /\ LeftAsGiven' /\ SetSent' /\ GenerateGetsOverrides /\ [Next]_vars
        => GenerateGetsOverrides'
  <2> SUFFICES ASSUME IInv, LeftAsGiven', SetSent', GenerateGetsOverrides, [Next]_vars
               PROVE  GenerateGetsOverrides'
    OBVIOUS
  <2>1. CASE Cook
    <3> SUFFICES ASSUME state' = "clean" PROVE GenerateGetsOverrides'
      BY DEF GenerateGetsOverrides
    <3>1. PICK left : left = FromHoudini(PrimAttributes)'
      OBVIOUS
    <3>2. \A id : RuleAttr(id)' = RuleAttr(id)
      BY <2>1 DEF Cook, RuleAttr
    <3>3. ASSUME NEW id \in DOMAIN parms', RuleAttr(id) \in DOMAIN defaults',
                 ~Scaled(parms'[id])
          PROVE  /\ RuleAttr(id) \in DOMAIN left <=> IsSet(id)'
                 /\ IsSet(id)' /\ (sentAll' \/ parms'[id].kind \notin Menus \cup Lists) =>
                      /\ RuleAttr(id) \in DOMAIN sent'
                      /\ left[RuleAttr(id)] = sent'[RuleAttr(id)]
      <4>1. RuleAttr(id) \in DOMAIN left <=> IsSet(id)'
        BY <3>1, <3>2, <3>3 DEF LeftAsGiven
      <4>2. ASSUME IsSet(id)'
            PROVE  left[RuleAttr(id)] = Value(TypeOf(parms'[id].kind), Shown(parms'[id]))
        BY <3>1, <3>2, <3>3, <4>2 DEF SetSent
      <4>3. ASSUME IsSet(id)', sentAll' \/ parms'[id].kind \notin Menus \cup Lists
            PROVE  /\ RuleAttr(id) \in DOMAIN sent'
                   /\ sent'[RuleAttr(id)] = Value(TypeOf(parms'[id].kind), Shown(parms'[id]))
        BY <2>1, <3>3, <4>3, CookSends DEF IsSet
      <4> QED
        BY <4>1, <4>2, <4>3
    <3> QED
      BY <3>1, <3>2, <3>3 DEF GenerateGetsOverrides
  <2>2. CASE CookFails
    BY <2>2 DEF CookFails, GenerateGetsOverrides
  <2>3. CASE User
    BY <2>3, UserKeeps DEF GenerateGetsOverrides
  <2>4. CASE UNCHANGED vars
    <3>1. /\ rpk' = rpk /\ style' = style /\ parms' = parms /\ defaults' = defaults
          /\ state' = state /\ sent' = sent /\ sentAll' = sentAll
      BY <2>4 DEF vars
    <3>2. PICK left : left = FromHoudini(PrimAttributes)
      OBVIOUS
    <3>3. FromHoudini(PrimAttributes)' = left
      BY <3>1, <3>2 DEF FromHoudini, PrimAttributes, RuleAttr
    <3> QED
      BY <3>1, <3>2, <3>3 DEF GenerateGetsOverrides, IsSet, RuleAttr
  <2> QED
    BY <2>1, <2>2, <2>3, <2>4 DEF Next
<1>3. IInv => LeftAsGiven /\ SetSent
  BY LeftAsGivenHolds, SetSentHolds
<1> QED
  BY <1>1, <1>2, <1>3, InductiveInvariant, PTL DEF Spec

(* pldGenerate evaluates the attributes to what the cook has computed.     *)
LEMMA GeneratesValues ==
    ASSUME IInv, Cook, state' = "clean", sentAll', NothingScaled', SetSent'
    PROVE  Generated' = Evaluate(Overrides)
<1>1. PICK values : values = Evaluate(Overrides) /\ defaults' = values
  BY CookSteps
<1>2. PICK left : left = FromHoudini(PrimAttributes)'
  OBVIOUS
<1>3. rpk' = rpk /\ style' = style
  BY DEF Cook
<1>4. Generated' = Evaluate(left)
  BY <1>2, <1>3 DEF Generated, Evaluate, Decl, Info
<1>5. \A id : RuleAttr(id)' = RuleAttr(id)
  BY <1>3 DEF RuleAttr
<1>6. /\ \A id \in DOMAIN parms' :
           ~IsDefault(parms'[id]) /\ RuleAttr(id) \in DOMAIN values =>
             /\ RuleAttr(id) \in DOMAIN left
             /\ left[RuleAttr(id)] = Value(TypeOf(parms'[id].kind), Shown(parms'[id]))
      /\ \A fq \in DOMAIN left : \E id \in DOMAIN parms' :
           ~IsDefault(parms'[id]) /\ fq \in DOMAIN values /\ fq = RuleAttr(id)
  BY <1>1, <1>2, <1>5 DEF SetSent, NothingScaled, IsSet
<1>7. \A id \in DOMAIN parms : IsSet(id) /\ Declares(id) =>
        CompareAttributeTypes(SortedAttributes[rpk]) /\ Sent(id, values)
  BY <1>1 DEF Cook, IsSet
<1>8. ASSUME NEW d \in Evaluated
      PROVE  /\ IsGiven(Overrides, d) <=> IsGiven(left, d)
             /\ IsGiven(Overrides, d) => Overrides[FqName(d)].val = left[FqName(d)].val
  <2>1. \A id : RuleAttr(id) = FqName(d) => Declares(id)
    BY <1>8 DEF Declares, Evaluated
  <2>2. CASE CompareAttributeTypes(SortedAttributes[rpk])
    <3>1. Built(values) = parms
      BY <2>2 DEF Built
    <3>2. /\ DOMAIN parms' = DOMAIN parms
          /\ \A id \in DOMAIN parms : /\ IsSet(id) => parms'[id] = parms[id]
                                      /\ ~IsDefault(parms'[id]) <=> IsSet(id)
      BY <1>1, <3>1, CookedParms DEF IsSet
    <3>3. ASSUME NEW id \in DOMAIN parms, IsSet(id), RuleAttr(id) = FqName(d)
          PROVE  /\ FqName(d) \in DOMAIN Overrides /\ FqName(d) \in DOMAIN left
                 /\ Overrides[FqName(d)] = left[FqName(d)]
      <4>1. PICK value : value = Value(TypeOf(parms[id].kind), Shown(parms[id]))
        OBVIOUS
      <4>2. RuleAttr(id) \in DOMAIN values
        BY <1>7, <2>1, <3>3 DEF Sent
      <4>3. value \in Given(id)
        BY <1>7, <2>1, <3>3, <4>1 DEF Sent
      <4>4. FqName(d) \in DOMAIN Overrides /\ Overrides[FqName(d)] = value
        BY <3>3, <4>3, OverridesAre DEF IInv
      <4>5. FqName(d) \in DOMAIN left /\ left[FqName(d)] = value
        BY <1>6, <3>2, <3>3, <4>1, <4>2
      <4> QED
        BY <4>4, <4>5
    <3>4. FqName(d) \in DOMAIN Overrides =>
            \E id \in DOMAIN parms : IsSet(id) /\ RuleAttr(id) = FqName(d)
      BY OverridesAre DEF IInv
    <3>5. FqName(d) \in DOMAIN left =>
            \E id \in DOMAIN parms : IsSet(id) /\ RuleAttr(id) = FqName(d)
      BY <1>6, <3>2
    <3> QED
      BY <3>3, <3>4, <3>5 DEF IsGiven
  <2>3. CASE ~CompareAttributeTypes(SortedAttributes[rpk])
    <3>1. Built(values) = BuildParms(SortedAttributes[rpk], values) /\ ValuesOK(values)
      BY <1>1, <2>3, CookSteps DEF Built
    <3>2. \A id \in DOMAIN parms' : IsDefault(parms'[id])
      BY <1>1, <3>1, CookedParms, BuiltParms DEF IInv
    <3>3. FqName(d) \notin DOMAIN left
      BY <1>6, <3>2
    <3>4. FqName(d) \notin DOMAIN Overrides
      BY <1>7, <2>1, <2>3, OverridesAre DEF IInv
    <3> QED
      BY <3>3, <3>4 DEF IsGiven
  <2> QED
    BY <2>2, <2>3
<1> QED
  BY <1>4, <1>8, EvaluateSame DEF IInv

(* A set parameter shows the value that it has sent, the others show what  *)
(* has been computed.                                                      *)
LEMMA CookShows ==
    ASSUME IInv, ColorsOK, Cook, state' = "clean", sentAll', NothingScaled', SetSent'
    PROVE  Agree'
<1>1. PICK values : values = Evaluate(Overrides) /\ ValuesOK(values)
  BY CookSteps
<1>2. Generated' = values
  BY <1>1, GeneratesValues
<1>3. ValuesOK(Overrides)
  BY OverridesTyped DEF IInv
<1>4. rpk' = rpk /\ style' = style
  BY DEF Cook
<1>5. ASSUME NEW fq \in DOMAIN values, NEW parm, parm = parms'[PrimAttr(fq)],
             Showable(parm, values[fq].val)
      PROVE  Shown(parm) = IF parm.kind = "color" THEN <<ColorString(values[fq].val[1])>>
                                                  ELSE values[fq].val
  <2>1. PICK id, built : id = PrimAttr(fq) /\ built = Built(values)
    OBVIOUS
  <2>2. /\ id \in DOMAIN built /\ RuleAttr(id) = fq
        /\ values[fq].type = TypeOf(built[id].kind)
    BY <1>1, <1>3, <1>5, <2>1, ParmOfValue
  <2>3. PICK d \in Evaluated : ~Hidden(d) /\ FqName(d) = fq /\ values[fq].type = d.type
    BY <1>1, <1>3, <1>5, ParmOfValue
  <2>4. ParmOK(built[id]) /\ ValueOK(values[fq])
    BY <1>1, <1>5, <2>1, <2>2, BuiltTyped DEF ValuesOK
  <2>5. /\ IsDefault(built[id]) => parm = WithDefault(built[id], values[fq])
        /\ ~IsDefault(built[id]) => parm = built[id]
    BY <1>1, <1>5, <2>1, <2>2, CookedParms
  <2>6. CASE IsDefault(built[id])
    <3>1. parm.kind = built[id].kind
      BY <2>4, <2>5, <2>6, WithDefaultIs
    <3> QED
      BY <1>5, <2>2, <2>4, <2>5, <2>6, <3>1, DefaultShown
  <2>7. CASE ~IsDefault(built[id])
    <3>1. CompareAttributeTypes(SortedAttributes[rpk]) /\ built = parms
      <4>1. CASE CompareAttributeTypes(SortedAttributes[rpk])
        BY <2>1, <4>1 DEF Built
      <4>2. CASE ~CompareAttributeTypes(SortedAttributes[rpk])
        <5>1. built = BuildParms(SortedAttributes[rpk], values)
          BY <2>1, <4>2 DEF Built
        <5> QED
          BY <1>1, <2>2, <2>7, <5>1, BuiltParms DEF IInv
      <4> QED
        BY <4>1, <4>2
    <3>2. id \in DOMAIN parms /\ IsSet(id) /\ Declares(id)
      BY <2>2, <2>3, <2>7, <3>1 DEF IsSet, Declares, Evaluated
    <3>3. PICK value : value = Value(TypeOf(parms[id].kind), Shown(parms[id]))
      OBVIOUS
    <3>4. value \in Given(id)
      BY <1>1, <3>2, <3>3 DEF Cook, IsSet, Sent
    <3>5. fq \in DOMAIN Overrides /\ Overrides[fq] = value
      BY <2>2, <3>2, <3>4, OverridesAre DEF IInv
    <3>6. value.type = TypeOf(parms[id].kind) /\ value.val = Shown(parms[id])
      BY <3>3 DEF Value
    <3>7. IsGiven(Overrides, d)
      BY <2>2, <2>3, <3>1, <3>5, <3>6 DEF IsGiven
    <3>8. values[fq] = Value(d.type, EvaluatesTo(Overrides, d))
      BY <1>1, <2>3, EvaluateIs DEF IInv
    <3>9. EvaluatesTo(Overrides, d) = Shown(parms[id])
      BY <2>3, <3>5, <3>6, <3>7 DEF EvaluatesTo, SourceOf
    <3>10. values[fq].val = Shown(parm)
      BY <2>5, <2>7, <3>1, <3>8, <3>9 DEF Value
    <3>11. ASSUME parm.kind = "color" PROVE Shown(parm) = <<ColorString(Shown(parm)[1])>>
      <4>1. Shown(parm) = parm.value
        BY <3>11 DEF Shown, Menus
      <4>2. parm = parms[id]
        BY <2>5, <2>7, <3>1
      <4>3. ColorString(parm.value[1]) = parm.value[1]
        BY <3>2, <3>11, <4>2 DEF ColorsOK, ColorOK
      <4>4. parm.value \in Seq(Int) /\ Len(parm.value) = 1
        BY <2>4, <3>1, <3>11, <4>2, ParmFacts DEF Lists
      <4>5. parm.value = <<parm.value[1]>>
        BY <4>4
      <4> QED
        BY <4>1, <4>3, <4>5
    <3> QED
      BY <3>10, <3>11
  <2> QED
    BY <2>6, <2>7
<1> QED
  BY <1>2, <1>4, <1>5 DEF Agree

(* When the cooks that a change causes are over, each parameter shows the  *)
(* value that pldGenerate uses, whatever the packages declare and whatever *)
(* has happened to the node, if the last cook sent the set values as they  *)
(* are on the node after it.                                               *)
THEOREM ShowsGeneratedHolds == Spec => []ShowsGenerated
<1>1. Init => ShowsGenerated
  BY DEF Init, ShowsGenerated, DependentsShown
<1>2. IInv /\ ColorsOK /\ SetSent' /\ ShowsGenerated /\ [Next]_vars => ShowsGenerated'
  <2> SUFFICES ASSUME IInv, ColorsOK, SetSent', ShowsGenerated, [Next]_vars
               PROVE  ShowsGenerated'
    OBVIOUS
  <2>1. CASE Cook
    BY <2>1, CookShows DEF ShowsGenerated, DependentsShown
  <2>2. CASE CookFails
    BY <2>2 DEF CookFails, ShowsGenerated, DependentsShown
  <2>3. CASE User
    BY <2>3, UserKeeps DEF ShowsGenerated, DependentsShown
  <2>4. CASE UNCHANGED vars
    <3>1. /\ rpk' = rpk /\ style' = style /\ parms' = parms /\ defaults' = defaults
          /\ state' = state /\ sentAll' = sentAll
      BY <2>4 DEF vars
    <3>2. PICK left : left = FromHoudini(PrimAttributes)
      OBVIOUS
    <3>3. FromHoudini(PrimAttributes)' = left
      BY <3>1, <3>2 DEF FromHoudini, PrimAttributes, RuleAttr
    <3>4. Generated' = Generated
      BY <3>1, <3>2, <3>3 DEF Generated, Evaluate, Decl, Info
    <3>5. NothingScaled' <=> NothingScaled
      BY <3>1 DEF NothingScaled, IsSet
    <3>6. Agree' <=> Agree
      BY <3>1, <3>4 DEF Agree
    <3> QED
      BY <3>1, <3>5, <3>6 DEF ShowsGenerated, DependentsShown
  <2> QED
    BY <2>1, <2>2, <2>3, <2>4 DEF Next
<1>3. IInv => SetSent
  BY SetSentHolds
<1> QED
  BY <1>1, <1>2, <1>3, InductiveInvariant, ColorInvariant, PTL DEF Spec

(* Parameters such as the package calls for fit the attributes.            *)
LEMMA CalledFits ==
    ASSUME OneStyle, IInv, AsCalled
    PROVE  CompareAttributeTypes(SortedAttributes[rpk])
<1>1. PICK ra, called : /\ ra = SortedAttributes[rpk]
                        /\ called = BuildParms(ra, NoValues)
  OBVIOUS
<1>2. ASSUME NEW a \in ToSet(ra)
      PROVE  \E id \in DOMAIN parms : RuleAttr(id) = a.fqName /\ TypeOf(parms[id].kind) = a.mType
  <2>1. PICK d \in ToSet(Info.attributes) : a.fqName = FqName(d) /\ a.mType = d.type
    BY <1>1, <1>2, AttributesDeclared DEF IInv, Info, IsOf
  <2>2. PICK id : id = PrimAttr(a.fqName)
    OBVIOUS
  <2>3. id \in DOMAIN called
    BY <1>1, <2>2 DEF BuildParms
  <2>4. id \in DOMAIN parms /\ parms[id].kind = called[id].kind
    BY <1>1, <2>3 DEF AsCalled
  <2>5. ValuesOK(NoValues)
    BY DEF ValuesOK, NoValues
  <2>6. TypeOf(called[id].kind) = a.mType
    BY <1>1, <2>1, <2>2, <2>3, <2>5, BuildTyped DEF IInv
  <2>7. d.style = style
    BY <2>1 DEF OneStyle, IInv, Info
  <2>8. RuleAttr(id) = a.fqName
    BY <2>1, <2>2, <2>7 DEF RuleAttr, PrimAttr, FqName
  <2> QED
    BY <2>4, <2>6, <2>8
<1> QED
  BY <1>1, <1>2 DEF CompareAttributeTypes

(* A cook of a node with the parameters that the package calls for keeps   *)
(* each value that a user has set.                                         *)
THEOREM SetValuesKeptHolds ==
    ASSUME OneStyle
    PROVE  Spec => SetValuesKept
<1>1. ASSUME IInv, Cook, AsCalled, NEW id \in DOMAIN parms, IsSet(id)
      PROVE  parms'[id] = parms[id]
  <2>1. PICK values : ValuesOK(values) /\ parms' = UpdateUIDefaultValues(Built(values), values)
    BY <1>1, CookSteps
  <2>2. Built(values) = parms
    BY <1>1, CalledFits DEF Built
  <2> QED
    BY <1>1, <2>1, <2>2, UpdatedTyped DEF IInv, ParmsOK, IsSet
<1>2. IInv /\ [Next]_vars =>
        [Cook /\ AsCalled => \A id \in DOMAIN parms : IsSet(id) => parms'[id] = parms[id]]_vars
  BY <1>1
<1> QED
  BY <1>2, InductiveInvariant, PTL DEF Spec, SetValuesKept

-----------------------------------------------------------------------------
(* The arrangement of the parameters: what an insertion does to it.        *)

LayoutId == {FolderId(path) : path \in Seq(Int)} \cup {<<>>} \cup (Int \X Int)
LayoutEntry == [kind : {"parm", "begin", "end"}, id : LayoutId]

Begin(id) == Entry("begin", id)
End(id) == Entry("end", id)

(* The number of times that something is begun and ended agree.            *)
Paired(l) == \A id : Begin(id) \in ToSet(l) <=> End(id) \in ToSet(l)

Layouts == {l \in Seq(LayoutEntry) : Paired(l)}

(* The block is put in after n entries.                                    *)
Shifted(l, n, block, i) == IF i <= n THEN i ELSE i + Len(block)

Inserted(new, l, n, block) ==
    /\ n \in 0 .. Len(l)
    /\ new \in Seq(LayoutEntry)
    /\ Len(new) = Len(l) + Len(block)
    /\ \A i \in 1 .. Len(l) : new[Shifted(l, n, block, i)] = l[i]
    /\ \A i \in 1 .. Len(block) : new[n + i] = block[i]

Known(l, id) == Begin(id) \in ToSet(l)

LEMMA EntriesDiffer ==
    /\ \A id, x : Begin(id) = Begin(x) => id = x
    /\ \A id, x : End(id) = End(x) => id = x
    /\ \A id, x : Entry("parm", id) = Entry("parm", x) => id = x
    /\ \A id, x : Begin(id) # End(x) /\ Begin(id) # Entry("parm", x) /\ End(id) # Entry("parm", x)
    /\ \A id \in LayoutId : {Begin(id), End(id), Entry("parm", id)} \subseteq LayoutEntry
BY DEF Begin, End, Entry, LayoutEntry

LEMMA Concatenation ==
    ASSUME NEW S, NEW s \in Seq(S), NEW t \in Seq(S)
    PROVE  /\ s \o t \in Seq(S) /\ Len(s \o t) = Len(s) + Len(t)
           /\ \A i \in 1 .. Len(s) : (s \o t)[i] = s[i]
           /\ \A i \in 1 .. Len(t) : (s \o t)[Len(s) + i] = t[i]
OBVIOUS

LEMMA MinOfIndices ==
    ASSUME NEW s, s \subseteq Nat, s # {}
    PROVE  Min(s) \in s /\ \A i \in s : Min(s) <= i
<1>1. \E x \in s : \A y \in s : x <= y
  BY LeastPositive
<1> QED
  BY <1>1 DEF Min

(* The index of a folder in the arrangement.                               *)
LEMMA FolderKnown ==
    ASSUME NEW l \in Layouts, NEW path
    PROVE  /\ FolderIndex(l, path) > 0 => Known(l, FolderId(path))
           /\ Known(l, FolderId(path)) /\ l[1].kind = "parm" => FolderIndex(l, path) > 0
<1> DEFINE at == {i \in DOMAIN l : l[i] = Begin(FolderId(path))}
<1>1. /\ DOMAIN l = 1 .. Len(l) /\ Len(l) \in Nat
      /\ FolderIndex(l, path) = IF at = {} THEN -1 ELSE Min(at) - 1
  BY DEF Layouts, FolderIndex, Begin
<1>2. at # {} <=> Known(l, FolderId(path))
  BY DEF Known, ToSet
<1>3. at \subseteq Nat
  BY <1>1
<1>4. at # {} => Min(at) \in at
  BY <1>3, MinOfIndices
<1>5. l[1].kind = "parm" => 1 \notin at
  BY DEF Begin, Entry
<1> HIDE DEF at
<1>6. ASSUME at # {}, l[1].kind = "parm" PROVE FolderIndex(l, path) > 0
  <2>1. Min(at) \in at /\ Min(at) # 1
    BY <1>4, <1>5, <1>6
  <2>2. Min(at) \in 1 .. Len(l)
    BY <1>1, <2>1 DEF at
  <2> QED
    BY <1>1, <1>6, <2>1, <2>2
<1>7. ASSUME FolderIndex(l, path) > 0 PROVE at # {}
  BY <1>1, <1>7
<1> QED
  BY <1>2, <1>6, <1>7

(* addParmsFromTemplateArray inserts, before the end of the folder if the  *)
(* folder exists.                                                          *)
LEMMA AddEntriesInserts ==
    ASSUME NEW l \in Layouts, NEW block \in Seq(LayoutEntry), NEW path
    PROVE  \E n \in 0 .. Len(l) :
             /\ Inserted(AddEntries(l, block, path), l, n, block)
             /\ FolderIndex(l, path) > 0 => n < Len(l) /\ l[n + 1] = End(FolderId(path))
<1>1. l \in Seq(LayoutEntry) /\ DOMAIN l = 1 .. Len(l) /\ Len(l) \in Nat /\ Len(block) \in Nat
  BY DEF Layouts
<1>2. CASE FolderIndex(l, path) > 0
  <2> DEFINE ends == {i \in DOMAIN l : l[i] = End(FolderId(path))}
             n == FolderEndIndex(l, path)
  <2>1. ends # {}
    <3>1. End(FolderId(path)) \in ToSet(l)
      BY <1>2, FolderKnown DEF Known, Layouts, Paired
    <3> QED
      BY <3>1 DEF ToSet
  <2>2. ends \subseteq Nat
    BY <1>1
  <2>3. Min(ends) \in ends
    <3> HIDE DEF ends
    <3> QED
      BY <2>1, <2>2, MinOfIndices
  <2>4. n = Min(ends) - 1
    BY DEF FolderEndIndex, End
  <2>5. n \in 0 .. Len(l) - 1 /\ l[n + 1] = End(FolderId(path))
    <3>1. Min(ends) \in 1 .. Len(l) /\ l[Min(ends)] = End(FolderId(path))
      BY <1>1, <2>3
    <3> QED
      BY <1>1, <2>4, <3>1
  <2>6. AddEntries(l, block, path) = (SubSeq(l, 1, n) \o block) \o SubSeq(l, n + 1, Len(l))
    BY <1>2 DEF AddEntries
  <2> HIDE DEF n, ends
  <2>7. PICK front, back : front = SubSeq(l, 1, n) /\ back = SubSeq(l, n + 1, Len(l))
    OBVIOUS
  <2>8. /\ front \in Seq(LayoutEntry) /\ Len(front) = n
        /\ \A i \in 1 .. n : front[i] = l[i]
        /\ back \in Seq(LayoutEntry) /\ Len(back) = Len(l) - n
        /\ \A i \in 1 .. Len(l) - n : back[i] = l[n + i]
    BY <1>1, <2>5, <2>7
  <2>9. PICK mid : mid = front \o block
    OBVIOUS
  <2>10. /\ mid \in Seq(LayoutEntry) /\ Len(mid) = n + Len(block)
         /\ \A i \in 1 .. n : mid[i] = l[i]
         /\ \A i \in 1 .. Len(block) : mid[n + i] = block[i]
    BY <1>1, <2>5, <2>8, <2>9
  <2>11. PICK new : new = mid \o back
    OBVIOUS
  <2>12. /\ new \in Seq(LayoutEntry) /\ Len(new) = Len(l) + Len(block)
         /\ \A i \in 1 .. n + Len(block) : new[i] = mid[i]
         /\ \A i \in 1 .. Len(l) - n : new[n + Len(block) + i] = back[i]
    <3>1. /\ new \in Seq(LayoutEntry) /\ Len(new) = Len(mid) + Len(back)
          /\ \A i \in 1 .. Len(mid) : new[i] = mid[i]
          /\ \A i \in 1 .. Len(back) : new[Len(mid) + i] = back[i]
      <4>1. mid \in Seq(LayoutEntry) /\ back \in Seq(LayoutEntry)
        BY <2>8, <2>10
      <4> QED
        BY <4>1, <2>11, Concatenation
    <3>2. (n + Len(block)) + (Len(l) - n) = Len(l) + Len(block)
      BY <1>1, <2>5
    <3> QED
      BY <2>8, <2>10, <3>1, <3>2
  <2>13. ASSUME NEW i \in 1 .. Len(l) PROVE new[Shifted(l, n, block, i)] = l[i]
    <3>1. CASE i <= n
      <4>1. i \in 1 .. n /\ i \in 1 .. n + Len(block)
        BY <1>1, <2>5, <3>1
      <4> QED
        BY <2>10, <2>12, <3>1, <4>1 DEF Shifted
    <3>2. CASE ~(i <= n)
      <4>1. PICK k \in 1 .. Len(l) - n : i = n + k
        <5>1. i - n \in 1 .. Len(l) - n /\ i = n + (i - n)
          BY <1>1, <2>5, <3>2
        <5> QED
          BY <5>1
      <4>2. i + Len(block) = n + Len(block) + k
        BY <1>1, <2>5, <4>1
      <4> QED
        BY <2>8, <2>12, <3>2, <4>1, <4>2 DEF Shifted
    <3> QED
      BY <3>1, <3>2
  <2>14. ASSUME NEW i \in 1 .. Len(block) PROVE new[n + i] = block[i]
    <3>1. n + i \in 1 .. n + Len(block)
      BY <1>1, <2>5
    <3> QED
      BY <2>10, <2>12, <3>1
  <2>15. Inserted(new, l, n, block)
    BY <1>1, <2>5, <2>12, <2>13, <2>14 DEF Inserted
  <2> QED
    BY <1>1, <2>5, <2>6, <2>7, <2>9, <2>11, <2>15
<1>3. CASE ~(FolderIndex(l, path) > 0)
  <2>1. PICK new : new = l \o block
    OBVIOUS
  <2>2. AddEntries(l, block, path) = new
    BY <1>3, <2>1 DEF AddEntries
  <2>3. /\ new \in Seq(LayoutEntry) /\ Len(new) = Len(l) + Len(block)
        /\ \A i \in 1 .. Len(l) : new[i] = l[i]
        /\ \A i \in 1 .. Len(block) : new[Len(l) + i] = block[i]
    BY <1>1, <2>1
  <2>4. \A i \in 1 .. Len(l) : Shifted(l, Len(l), block, i) = i
    BY <1>1 DEF Shifted
  <2>5. Inserted(new, l, Len(l), block)
    BY <1>1, <2>3, <2>4 DEF Inserted
  <2> QED
    BY <1>1, <1>3, <2>2, <2>5
<1> QED
  BY <1>2, <1>3

(* Each entry afterwards is one of before, or of the block.                *)
LEMMA InsertedIndices ==
    ASSUME NEW l \in Seq(LayoutEntry), NEW block \in Seq(LayoutEntry), NEW n, NEW new,
           Inserted(new, l, n, block)
    PROVE  /\ \A i \in 1 .. Len(l) : Shifted(l, n, block, i) \in 1 .. Len(new)
           /\ \A i \in 1 .. Len(block) : n + i \in 1 .. Len(new)
           /\ \A j \in 1 .. Len(new) :
                \/ \E i \in 1 .. Len(l) : j = Shifted(l, n, block, i)
                \/ \E i \in 1 .. Len(block) : j = n + i
           /\ \A i, j \in 1 .. Len(l) :
                Shifted(l, n, block, i) <= Shifted(l, n, block, j) <=> i <= j
<1>1. Len(l) \in Nat /\ Len(block) \in Nat /\ n \in 0 .. Len(l) /\ Len(new) = Len(l) + Len(block)
  BY DEF Inserted
<1>2. ASSUME NEW j \in 1 .. Len(new)
      PROVE  \/ \E i \in 1 .. Len(l) : j = Shifted(l, n, block, i)
             \/ \E i \in 1 .. Len(block) : j = n + i
  <2>1. CASE j <= n
    <3>1. j \in 1 .. Len(l) /\ Shifted(l, n, block, j) = j
      BY <1>1, <2>1 DEF Shifted
    <3> QED
      BY <3>1
  <2>2. CASE n < j /\ j <= n + Len(block)
    <3>1. j - n \in 1 .. Len(block) /\ j = n + (j - n)
      BY <1>1, <2>2
    <3> QED
      BY <3>1
  <2>3. CASE n + Len(block) < j
    <3>1. j - Len(block) \in 1 .. Len(l) /\ Shifted(l, n, block, j - Len(block)) = j
      BY <1>1, <2>3 DEF Shifted
    <3> QED
      BY <3>1
  <2> QED
    BY <1>1, <2>1, <2>2, <2>3
<1>3. /\ \A i \in 1 .. Len(l) : Shifted(l, n, block, i) \in 1 .. Len(new)
      /\ \A i \in 1 .. Len(block) : n + i \in 1 .. Len(new)
      /\ \A i, j \in 1 .. Len(l) :
           Shifted(l, n, block, i) <= Shifted(l, n, block, j) <=> i <= j
  BY <1>1 DEF Shifted
<1> QED
  BY <1>2, <1>3

LEMMA InsertedElements ==
    ASSUME NEW l \in Seq(LayoutEntry), NEW block \in Seq(LayoutEntry), NEW n, NEW new,
           Inserted(new, l, n, block)
    PROVE  ToSet(new) = ToSet(l) \cup ToSet(block)
<1>1. /\ DOMAIN l = 1 .. Len(l) /\ DOMAIN block = 1 .. Len(block) /\ DOMAIN new = 1 .. Len(new)
      /\ \A i \in 1 .. Len(l) : new[Shifted(l, n, block, i)] = l[i]
      /\ \A i \in 1 .. Len(block) : new[n + i] = block[i]
  BY DEF Inserted
<1>2. /\ \A i \in 1 .. Len(l) : Shifted(l, n, block, i) \in 1 .. Len(new)
      /\ \A i \in 1 .. Len(block) : n + i \in 1 .. Len(new)
      /\ \A j \in 1 .. Len(new) :
           \/ \E i \in 1 .. Len(l) : j = Shifted(l, n, block, i)
           \/ \E i \in 1 .. Len(block) : j = n + i
  BY InsertedIndices
<1>3. ASSUME NEW e \in ToSet(new) PROVE e \in ToSet(l) \cup ToSet(block)
  <2>1. PICK j \in 1 .. Len(new) : e = new[j]
    BY <1>1, <1>3 DEF ToSet
  <2>2. CASE \E i \in 1 .. Len(l) : j = Shifted(l, n, block, i)
    BY <1>1, <2>1, <2>2 DEF ToSet
  <2>3. CASE \E i \in 1 .. Len(block) : j = n + i
    BY <1>1, <2>1, <2>3 DEF ToSet
  <2> QED
    BY <1>2, <2>2, <2>3
<1>4. ASSUME NEW e \in ToSet(l) PROVE e \in ToSet(new)
  <2>1. PICK i \in 1 .. Len(l) : e = l[i]
    BY <1>1, <1>4 DEF ToSet
  <2>2. e = new[Shifted(l, n, block, i)] /\ Shifted(l, n, block, i) \in DOMAIN new
    BY <1>1, <1>2, <2>1
  <2> QED
    BY <2>2 DEF ToSet
<1>5. ASSUME NEW e \in ToSet(block) PROVE e \in ToSet(new)
  <2>1. PICK i \in 1 .. Len(block) : e = block[i]
    BY <1>1, <1>5 DEF ToSet
  <2>2. e = new[n + i] /\ n + i \in DOMAIN new
    BY <1>1, <1>2, <2>1
  <2> QED
    BY <2>2 DEF ToSet
<1> QED
  BY <1>3, <1>4, <1>5

(* The folders around an entry.                                            *)
Around(l, i) ==
    {id \in {l[j].id : j \in DOMAIN l} :
       \E j \in 1 .. i, k \in i .. Len(l) :
         l[j] = Entry("begin", id) /\ l[k] = Entry("end", id)}

LEMMA AroundIs ==
    ASSUME NEW l \in Seq(LayoutEntry), NEW i \in 1 .. Len(l), NEW id
    PROVE  id \in Around(l, i) <=>
             \E j \in 1 .. i, k \in i .. Len(l) : l[j] = Begin(id) /\ l[k] = End(id)
<1>1. \A j \in 1 .. i : j \in DOMAIN l
  OBVIOUS
<1>2. Begin(id).id = id
  BY DEF Begin, Entry
<1>3. \A j \in 1 .. i : l[j] = Begin(id) => id \in {l[m].id : m \in DOMAIN l}
  BY <1>1, <1>2
<1> QED
  BY <1>3 DEF Around, Begin, End

(* New entries that are begun and ended in the block change nothing around *)
(* the others.                                                             *)
LEMMA AroundKept ==
    ASSUME NEW l \in Seq(LayoutEntry), NEW block \in Seq(LayoutEntry), NEW n, NEW new,
           Inserted(new, l, n, block), Paired(block), ToSet(block) \cap ToSet(l) = {},
           NEW i \in 1 .. Len(l)
    PROVE  Around(new, Shifted(l, n, block, i)) = Around(l, i)
<1> DEFINE s(j) == Shifted(l, n, block, j)
           w == Len(block)
<1>1. /\ Len(l) \in Nat /\ w \in Nat /\ n \in 0 .. Len(l) /\ Len(new) = Len(l) + w
      /\ new \in Seq(LayoutEntry)
      /\ \A j \in 1 .. Len(l) : new[s(j)] = l[j]
      /\ \A j \in 1 .. w : new[n + j] = block[j]
  BY DEF Inserted
<1>2. /\ \A j \in 1 .. Len(l) : s(j) \in 1 .. Len(new)
      /\ \A j \in 1 .. Len(new) : \/ \E k \in 1 .. Len(l) : j = s(k)
                                  \/ \E k \in 1 .. w : j = n + k
      /\ \A j, k \in 1 .. Len(l) : s(j) <= s(k) <=> j <= k
  BY InsertedIndices
<1>3. s(i) <= n \/ s(i) > n + w
  BY <1>1 DEF Shifted
<1>4. \A e : e \in ToSet(block) => e \notin ToSet(l)
  OBVIOUS
<1>5. /\ \A j \in 1 .. Len(l) : l[j] \in ToSet(l)
      /\ \A j \in 1 .. w : block[j] \in ToSet(block)
  BY <1>1 DEF ToSet
<1> HIDE DEF s, w
<1>6. ASSUME NEW id, id \in Around(l, i) PROVE id \in Around(new, s(i))
  <2>1. PICK j \in 1 .. i, k \in i .. Len(l) : l[j] = Begin(id) /\ l[k] = End(id)
    BY <1>6, AroundIs
  <2>2. j \in 1 .. Len(l) /\ k \in 1 .. Len(l) /\ j <= i /\ i <= k
    BY <1>1
  <2>3. s(j) \in 1 .. s(i) /\ s(k) \in s(i) .. Len(new)
    BY <1>1, <1>2, <2>2
  <2>4. new[s(j)] = Begin(id) /\ new[s(k)] = End(id)
    BY <1>1, <2>1, <2>2
  <2>5. new \in Seq(LayoutEntry) /\ s(i) \in 1 .. Len(new)
    BY <1>1, <1>2
  <2> QED
    BY <2>3, <2>4, <2>5, AroundIs
<1>7. ASSUME NEW id, id \in Around(new, s(i)) PROVE id \in Around(l, i)
  <2>1. PICK j \in 1 .. s(i), k \in s(i) .. Len(new) : new[j] = Begin(id) /\ new[k] = End(id)
    BY <1>1, <1>2, <1>7, AroundIs
  <2>2. j \in 1 .. Len(new) /\ k \in 1 .. Len(new) /\ j <= s(i) /\ s(i) <= k
    BY <1>1, <1>2
  <2>3. CASE \E a \in 1 .. Len(l) : j = s(a)
    <3>1. PICK a \in 1 .. Len(l) : j = s(a)
      BY <2>3
    <3>2. l[a] = Begin(id)
      BY <1>1, <2>1, <3>1
    <3>3. ASSUME NEW b \in 1 .. w, k = n + b PROVE FALSE
      <4>1. block[b] = End(id)
        BY <1>1, <2>1, <3>3
      <4>2. Begin(id) \in ToSet(block) /\ Begin(id) \in ToSet(l)
        BY <1>5, <3>2, <4>1 DEF Paired
      <4> QED
        BY <1>4, <4>2
    <3>4. PICK b \in 1 .. Len(l) : k = s(b)
      BY <1>2, <2>2, <3>3
    <3>5. l[b] = End(id)
      BY <1>1, <2>1, <3>4
    <3>6. a \in 1 .. i /\ b \in i .. Len(l)
      BY <1>1, <1>2, <2>2, <3>1, <3>4
    <3> QED
      BY <3>2, <3>5, <3>6, AroundIs
  <2>4. CASE \E a \in 1 .. w : j = n + a
    <3>1. PICK a \in 1 .. w : j = n + a
      BY <2>4
    <3>2. block[a] = Begin(id)
      BY <1>1, <2>1, <3>1
    <3>3. End(id) \in ToSet(block) /\ End(id) \notin ToSet(l)
      BY <1>4, <1>5, <3>2 DEF Paired
    <3>4. ~\E b \in 1 .. Len(l) : k = s(b)
      BY <1>1, <1>5, <2>1, <3>3
    <3>5. PICK b \in 1 .. w : k = n + b
      BY <1>2, <2>2, <3>4
    <3>6. n < s(i) /\ s(i) <= n + w
      <4>1. n \in Int /\ w \in Int /\ s(i) \in Int /\ a >= 1 /\ b <= w /\ a \in Int /\ b \in Int
        BY <1>1, <1>2
      <4> QED
        BY <2>2, <3>1, <3>5, <4>1
    <3> QED
      BY <1>1, <1>2, <1>3, <3>6
  <2> QED
    BY <1>2, <2>2, <2>3, <2>4
<1> QED
  BY <1>6, <1>7 DEF s

(* Before the end of a folder, the block is in the folders that the end is *)
(* in, and an entry of it in those of the block around it, too.            *)
LEMMA AroundNew ==
    ASSUME NEW l \in Seq(LayoutEntry), NEW block \in Seq(LayoutEntry), NEW n, NEW new,
           Inserted(new, l, n, block), Paired(block), ToSet(block) \cap ToSet(l) = {},
           n < Len(l), NEW f, l[n + 1] = End(f), NEW m \in 1 .. Len(block)
    PROVE  \A id : id \in Around(new, n + m) <=>
             \/ id \in Around(l, n + 1)
             \/ \E a \in 1 .. m, b \in m .. Len(block) : block[a] = Begin(id) /\ block[b] = End(id)
<1> DEFINE s(j) == Shifted(l, n, block, j)
           w == Len(block)
<1>1. /\ Len(l) \in Nat /\ w \in Nat /\ n \in 0 .. Len(l) /\ Len(new) = Len(l) + w
      /\ new \in Seq(LayoutEntry)
      /\ \A j \in 1 .. Len(l) : new[s(j)] = l[j]
      /\ \A j \in 1 .. w : new[n + j] = block[j]
  BY DEF Inserted
<1>2. /\ \A j \in 1 .. Len(new) : \/ \E k \in 1 .. Len(l) : j = s(k)
                                  \/ \E k \in 1 .. w : j = n + k
      /\ \A j \in 1 .. Len(l) : s(j) \in 1 .. Len(new)
  BY InsertedIndices
<1>3. \A j \in 1 .. Len(l) : /\ j <= n => s(j) = j
                             /\ n < j => s(j) = j + w
  BY <1>1 DEF Shifted
<1>4. \A e : e \in ToSet(block) => e \notin ToSet(l)
  OBVIOUS
<1>5. /\ \A j \in 1 .. Len(l) : l[j] \in ToSet(l)
      /\ \A j \in 1 .. w : block[j] \in ToSet(block)
  BY <1>1 DEF ToSet
<1>6. n + 1 \in 1 .. Len(l) /\ n + m \in 1 .. Len(new) /\ m \in 1 .. w
  BY <1>1
<1> HIDE DEF s, w
<1>7. ASSUME NEW id, id \in Around(l, n + 1) PROVE id \in Around(new, n + m)
  <2>1. PICK j \in 1 .. n + 1, k \in n + 1 .. Len(l) : l[j] = Begin(id) /\ l[k] = End(id)
    BY <1>6, <1>7, AroundIs
  <2>2. j # n + 1
    BY <2>1, EntriesDiffer
  <2>3. j \in 1 .. Len(l) /\ k \in 1 .. Len(l) /\ s(j) = j /\ s(k) = k + w
    BY <1>1, <1>3, <2>2
  <2>4. s(j) \in 1 .. n + m /\ s(k) \in n + m .. Len(new)
    BY <1>1, <1>6, <2>2, <2>3
  <2>5. new[s(j)] = Begin(id) /\ new[s(k)] = End(id)
    BY <1>1, <2>1, <2>3
  <2> QED
    BY <1>1, <1>6, <2>4, <2>5, AroundIs
<1>8. ASSUME NEW id, NEW a \in 1 .. m, NEW b \in m .. w, block[a] = Begin(id), block[b] = End(id)
      PROVE  id \in Around(new, n + m)
  <2>1. a \in 1 .. w /\ b \in 1 .. w
    BY <1>1, <1>6
  <2>2. n + a \in 1 .. n + m /\ n + b \in n + m .. Len(new)
    BY <1>1, <1>6, <2>1
  <2>3. new[n + a] = Begin(id) /\ new[n + b] = End(id)
    BY <1>1, <1>8, <2>1
  <2> QED
    BY <1>1, <1>6, <2>2, <2>3, AroundIs
<1>9. ASSUME NEW id, id \in Around(new, n + m)
      PROVE  \/ id \in Around(l, n + 1)
             \/ \E a \in 1 .. m, b \in m .. w : block[a] = Begin(id) /\ block[b] = End(id)
  <2>1. PICK j \in 1 .. n + m, k \in n + m .. Len(new) : new[j] = Begin(id) /\ new[k] = End(id)
    BY <1>1, <1>6, <1>9, AroundIs
  <2>2. j \in 1 .. Len(new) /\ k \in 1 .. Len(new)
    BY <1>1, <1>6
  <2>3. CASE \E a \in 1 .. Len(l) : j = s(a)
    <3>1. PICK a \in 1 .. Len(l) : j = s(a)
      BY <2>3
    <3>2. l[a] = Begin(id)
      BY <1>1, <2>1, <3>1
    <3>3. ASSUME NEW b \in 1 .. w, k = n + b PROVE FALSE
      <4>1. block[b] = End(id)
        BY <1>1, <2>1, <3>3
      <4>2. Begin(id) \in ToSet(block) /\ Begin(id) \in ToSet(l)
        BY <1>5, <3>2, <4>1 DEF Paired
      <4> QED
        BY <1>4, <4>2
    <3>4. PICK b \in 1 .. Len(l) : k = s(b)
      BY <1>2, <2>2, <3>3
    <3>5. l[b] = End(id)
      BY <1>1, <2>1, <3>4
    <3>6. a \in 1 .. n + 1
      BY <1>1, <1>3, <1>6, <3>1
    <3>7. b \in n + 1 .. Len(l)
      BY <1>1, <1>3, <1>6, <3>4
    <3> QED
      BY <1>6, <3>2, <3>5, <3>6, <3>7, AroundIs
  <2>4. CASE \E a \in 1 .. w : j = n + a
    <3>1. PICK a \in 1 .. w : j = n + a
      BY <2>4
    <3>2. block[a] = Begin(id)
      BY <1>1, <2>1, <3>1
    <3>3. End(id) \in ToSet(block) /\ End(id) \notin ToSet(l)
      BY <1>4, <1>5, <3>2 DEF Paired
    <3>4. ~\E b \in 1 .. Len(l) : k = s(b)
      BY <1>1, <1>5, <2>1, <3>3
    <3>5. PICK b \in 1 .. w : k = n + b
      BY <1>2, <2>2, <3>4
    <3>6. block[b] = End(id)
      BY <1>1, <2>1, <3>5
    <3>7. a \in 1 .. m /\ b \in m .. w
      BY <1>1, <1>6, <3>1, <3>5
    <3> QED
      BY <3>2, <3>6, <3>7
  <2> QED
    BY <1>2, <2>2, <2>3, <2>4
<1> QED
  BY <1>7, <1>8, <1>9 DEF w

LEMMA InsertedOnce ==
    ASSUME NEW l \in Seq(LayoutEntry), NEW block \in Seq(LayoutEntry), NEW n, NEW new,
           Inserted(new, l, n, block), ToSet(block) \cap ToSet(l) = {},
           IsInjective(l), IsInjective(block)
    PROVE  IsInjective(new)
<1> DEFINE s(j) == Shifted(l, n, block, j)
           w == Len(block)
<1>1. /\ Len(l) \in Nat /\ w \in Nat /\ n \in 0 .. Len(l)
      /\ DOMAIN new = 1 .. Len(new) /\ DOMAIN l = 1 .. Len(l) /\ DOMAIN block = 1 .. w
      /\ \A j \in 1 .. Len(l) : new[s(j)] = l[j]
      /\ \A j \in 1 .. w : new[n + j] = block[j]
  BY DEF Inserted
<1>2. \A j \in 1 .. Len(new) : \/ \E k \in 1 .. Len(l) : j = s(k)
                               \/ \E k \in 1 .. w : j = n + k
  BY InsertedIndices
<1>3. /\ \A j \in 1 .. Len(l) : l[j] \in ToSet(l)
      /\ \A j \in 1 .. w : block[j] \in ToSet(block)
      /\ \A e : e \in ToSet(block) => e \notin ToSet(l)
  BY <1>1 DEF ToSet
<1> HIDE DEF s, w
<1>4. ASSUME NEW i \in 1 .. Len(new), NEW j \in 1 .. Len(new), new[i] = new[j]
      PROVE  i = j
  <2>1. CASE (\E a \in 1 .. Len(l) : i = s(a)) /\ (\E b \in 1 .. Len(l) : j = s(b))
    <3>1. PICK a, b \in 1 .. Len(l) : i = s(a) /\ j = s(b)
      BY <2>1
    <3>2. l[a] = l[b]
      BY <1>1, <1>4, <3>1
    <3>3. a = b
      BY <1>1, <3>2 DEF IsInjective
    <3> QED
      BY <3>1, <3>3
  <2>2. CASE (\E a \in 1 .. w : i = n + a) /\ (\E b \in 1 .. w : j = n + b)
    <3>1. PICK a, b \in 1 .. w : i = n + a /\ j = n + b
      BY <2>2
    <3>2. block[a] = block[b]
      BY <1>1, <1>4, <3>1
    <3>3. a = b
      BY <1>1, <3>2 DEF IsInjective
    <3> QED
      BY <3>1, <3>3
  <2>3. CASE (\E a \in 1 .. Len(l) : i = s(a)) /\ (\E b \in 1 .. w : j = n + b)
    BY <1>1, <1>3, <1>4, <2>3
  <2>4. CASE (\E a \in 1 .. w : i = n + a) /\ (\E b \in 1 .. Len(l) : j = s(b))
    BY <1>1, <1>3, <1>4, <2>4
  <2> QED
    BY <1>2, <2>1, <2>2, <2>3, <2>4
<1> QED
  BY <1>1, <1>4 DEF IsInjective

-----------------------------------------------------------------------------
(* Arrangements in which every entry is once, and what is in a folder.     *)

SoundLayout(l) ==
    /\ l \in Layouts
    /\ l # <<>> /\ l[1].kind = "parm"
    /\ IsInjective(l)

PathIds(path) == {FolderId(g) : g \in Prefixes(path) \ {<<>>}}

(* The entry, if it is there, is in the folders of the path.               *)
Placed(l, e, path) == \A i \in 1 .. Len(l) : l[i] = e => Around(l, i) = PathIds(path)

LEMMA PathSteps ==
    ASSUME NEW path \in Seq(Int), NEW n \in 1 .. Len(path), NEW f, f = SubSeq(path, 1, n)
    PROVE  /\ f \in Seq(Int) /\ Len(f) = n /\ f # <<>>
           /\ Front(f) = SubSeq(path, 1, n - 1)
           /\ Append(Front(f), Last(f)) = f
           /\ \A m \in 0 .. n : SubSeq(f, 1, m) = SubSeq(path, 1, m)
           /\ n = Len(path) => f = path
<1>2. f \in Seq(Int) /\ Len(f) = n /\ \A i \in 1 .. n : f[i] = path[i]
  OBVIOUS
<1>3. n \in Nat /\ Len(path) \in Nat /\ n <= Len(path) /\ 1 <= n
  OBVIOUS
<1>4. ASSUME NEW m \in 0 .. n PROVE SubSeq(f, 1, m) = SubSeq(path, 1, m)
  <2>1. /\ SubSeq(f, 1, m) = [i \in 1 .. m |-> f[i]]
        /\ SubSeq(path, 1, m) = [i \in 1 .. m |-> path[i]]
    BY <1>2, <1>3
  <2>2. \A i \in 1 .. m : f[i] = path[i]
    BY <1>2, <1>3
  <2> QED
    BY <2>1, <2>2
<1>5. Front(f) = SubSeq(path, 1, n - 1)
  BY <1>2, <1>3, <1>4 DEF Front
<1>6. Append(Front(f), Last(f)) = f
  <2>1. /\ Front(f) \in Seq(Int) /\ Len(Front(f)) = n - 1
        /\ \A i \in 1 .. n - 1 : Front(f)[i] = f[i]
    BY <1>2, <1>3 DEF Front
  <2>2. Last(f) = f[n] /\ f[n] \in Int
    BY <1>2, <1>3 DEF Last
  <2>3. PICK u : u = Append(Front(f), Last(f))
    OBVIOUS
  <2>4. u \in Seq(Int) /\ Len(u) = n /\ \A i \in 1 .. n : u[i] = f[i]
    BY <1>3, <2>1, <2>2, <2>3
  <2>5. u = f
    BY <1>2, <2>4
  <2> QED
    BY <2>3, <2>5
<1>7. n = Len(path) => f = path
  BY <1>2, <1>3
<1>8. f # <<>>
  BY <1>2, <1>3
<1> QED
  BY <1>2, <1>4, <1>5, <1>6, <1>7, <1>8

LEMMA PathIdsAre ==
    ASSUME NEW path \in Seq(Int)
    PROVE  /\ PathIds(path) = {FolderId(SubSeq(path, 1, n)) : n \in 1 .. Len(path)}
           /\ Len(path) > 1 => PathIds(path) = PathIds(Front(path)) \cup {FolderId(path)}
<1>1. ASSUME NEW s \in Seq(Int)
      PROVE  PathIds(s) = {FolderId(SubSeq(s, 1, n)) : n \in 1 .. Len(s)}
  <2>1. Len(s) \in Nat /\ SubSeq(s, 1, 0) = <<>>
    BY <1>1
  <2>2. \A n \in 1 .. Len(s) : SubSeq(s, 1, n) # <<>>
    BY <1>1, PathSteps
  <2>3. Prefixes(s) \ {<<>>} = {SubSeq(s, 1, n) : n \in 1 .. Len(s)}
    BY <2>1, <2>2 DEF Prefixes
  <2> QED
    BY <2>3 DEF PathIds
<1>2. ASSUME Len(path) > 1 PROVE PathIds(path) = PathIds(Front(path)) \cup {FolderId(path)}
  <2>1. Len(path) \in Nat /\ Len(path) - 1 \in 1 .. Len(path) /\ Len(path) \in 1 .. Len(path)
    BY <1>2
  <2>2. PICK f : f = SubSeq(path, 1, Len(path) - 1) /\ f = Front(path)
    BY DEF Front
  <2>3. /\ f \in Seq(Int) /\ Len(f) = Len(path) - 1
        /\ \A n \in 0 .. Len(path) - 1 : SubSeq(f, 1, n) = SubSeq(path, 1, n)
    BY <2>1, <2>2, PathSteps
  <2>4. SubSeq(path, 1, Len(path)) = path
    BY <2>1, PathSteps
  <2>5. PathIds(f) = {FolderId(SubSeq(f, 1, n)) : n \in 1 .. Len(path) - 1}
    BY <1>1, <2>3
  <2>6. \A n : n \in 1 .. Len(path) <=> n \in 1 .. Len(path) - 1 \/ n = Len(path)
    BY <2>1
  <2>7. PathIds(path) = {FolderId(SubSeq(path, 1, n)) : n \in 1 .. Len(path)}
    BY <1>1
  <2>8. ASSUME NEW x \in PathIds(path) PROVE x \in PathIds(f) \cup {FolderId(path)}
    <3>1. PICK n \in 1 .. Len(path) : x = FolderId(SubSeq(path, 1, n))
      BY <2>7
    <3>2. CASE n = Len(path)
      BY <2>4, <3>1, <3>2
    <3>3. CASE n # Len(path)
      <4>1. n \in 1 .. Len(path) - 1 /\ n \in 0 .. Len(path) - 1
        BY <2>1, <3>3
      <4>2. x = FolderId(SubSeq(f, 1, n))
        BY <2>3, <3>1, <4>1
      <4> QED
        BY <2>5, <4>1, <4>2
    <3> QED
      BY <3>2, <3>3
  <2>9. ASSUME NEW x \in PathIds(f) PROVE x \in PathIds(path)
    <3>1. PICK n \in 1 .. Len(path) - 1 : x = FolderId(SubSeq(f, 1, n))
      BY <2>5
    <3>2. n \in 1 .. Len(path) /\ n \in 0 .. Len(path) - 1
      BY <2>1
    <3>3. x = FolderId(SubSeq(path, 1, n))
      BY <2>3, <3>1, <3>2
    <3> QED
      BY <2>7, <3>2, <3>3
  <2>10. FolderId(path) \in PathIds(path)
    BY <2>1, <2>4, <2>7
  <2> QED
    BY <2>2, <2>8, <2>9, <2>10
<1> QED
  BY <1>1, <1>2

LEMMA LayoutsClosed ==
    ASSUME NEW l \in Layouts, NEW block \in Layouts, NEW path
    PROVE  /\ AddEntries(l, block, path) \in Layouts
           /\ ToSet(AddEntries(l, block, path)) = ToSet(l) \cup ToSet(block)
<1>1. l \in Seq(LayoutEntry) /\ block \in Seq(LayoutEntry) /\ Paired(l) /\ Paired(block)
  BY DEF Layouts
<1>2. PICK n, new : new = AddEntries(l, block, path) /\ Inserted(new, l, n, block)
  BY <1>1, AddEntriesInserts
<1>3. ToSet(new) = ToSet(l) \cup ToSet(block)
  BY <1>1, <1>2, InsertedElements
<1>4. Paired(new)
  BY <1>1, <1>3 DEF Paired
<1> QED
  BY <1>2, <1>3, <1>4 DEF Inserted, Layouts

(* New entries in a folder that exists.                                    *)
LEMMA AddBlock ==
    ASSUME NEW l, SoundLayout(l), NEW block \in Layouts, IsInjective(block),
           ToSet(block) \cap ToSet(l) = {}, NEW path, Known(l, FolderId(path))
    PROVE  LET new == AddEntries(l, block, path) IN
           /\ SoundLayout(new) /\ ToSet(new) = ToSet(l) \cup ToSet(block)
           /\ \A e \in ToSet(l) : \A q : Placed(l, e, q) => Placed(new, e, q)
           /\ \A q : Placed(l, End(FolderId(path)), q) =>
                \A m \in 1 .. Len(block), i \in 1 .. Len(new) : new[i] = block[m] =>
                  \A id : id \in Around(new, i) <=>
                    \/ id \in PathIds(q)
                    \/ \E a \in 1 .. m, b \in m .. Len(block) :
                         block[a] = Begin(id) /\ block[b] = End(id)
<1>1. /\ l \in Seq(LayoutEntry) /\ block \in Seq(LayoutEntry) /\ Paired(l) /\ Paired(block)
      /\ l \in Layouts /\ l[1].kind = "parm" /\ l # <<>> /\ IsInjective(l)
  BY DEF Layouts, SoundLayout
<1>2. PICK n, new :
        /\ n \in 0 .. Len(l) /\ new = AddEntries(l, block, path) /\ Inserted(new, l, n, block)
        /\ FolderIndex(l, path) > 0 => n < Len(l) /\ l[n + 1] = End(FolderId(path))
  BY <1>1, AddEntriesInserts
<1>3. n < Len(l) /\ l[n + 1] = End(FolderId(path))
  BY <1>1, <1>2, FolderKnown
<1>4. new \in Layouts /\ ToSet(new) = ToSet(l) \cup ToSet(block)
  BY <1>1, <1>2, LayoutsClosed
<1>5. IsInjective(new)
  BY <1>1, <1>2, InsertedOnce
<1>6. /\ \A i \in 1 .. Len(l) : /\ new[Shifted(l, n, block, i)] = l[i]
                                /\ Shifted(l, n, block, i) \in 1 .. Len(new)
      /\ \A i \in 1 .. Len(block) : new[n + i] = block[i] /\ n + i \in 1 .. Len(new)
      /\ \A j \in 1 .. Len(new) : \/ \E i \in 1 .. Len(l) : j = Shifted(l, n, block, i)
                                  \/ \E i \in 1 .. Len(block) : j = n + i
      /\ DOMAIN new = 1 .. Len(new) /\ DOMAIN block = 1 .. Len(block)
      /\ DOMAIN l = 1 .. Len(l) /\ Len(l) \in Nat /\ Len(block) \in Nat
  <2>1. /\ \A i \in 1 .. Len(l) : Shifted(l, n, block, i) \in 1 .. Len(new)
        /\ \A i \in 1 .. Len(block) : n + i \in 1 .. Len(new)
        /\ \A j \in 1 .. Len(new) : \/ \E i \in 1 .. Len(l) : j = Shifted(l, n, block, i)
                                    \/ \E i \in 1 .. Len(block) : j = n + i
    <3>1. l \in Seq(LayoutEntry) /\ block \in Seq(LayoutEntry) /\ Inserted(new, l, n, block)
      BY <1>1, <1>2
    <3> QED
      BY <3>1, InsertedIndices
  <2>2. /\ \A i \in 1 .. Len(l) : new[Shifted(l, n, block, i)] = l[i]
        /\ \A i \in 1 .. Len(block) : new[n + i] = block[i]
        /\ new \in Seq(LayoutEntry)
    BY <1>2 DEF Inserted
  <2>3. /\ DOMAIN new = 1 .. Len(new) /\ DOMAIN block = 1 .. Len(block)
        /\ DOMAIN l = 1 .. Len(l) /\ Len(l) \in Nat /\ Len(block) \in Nat
    BY <1>1, <2>2
  <2> QED
    BY <2>1, <2>2, <2>3
<1>7. SoundLayout(new)
  <2>1. n # 0
    <3>1. End(FolderId(path)).kind = "end"
      BY DEF End, Entry
    <3> QED
      BY <1>1, <1>3, <3>1
  <2>2. 1 \in 1 .. Len(l) /\ Shifted(l, n, block, 1) = 1
    BY <1>2, <1>3, <1>6, <2>1 DEF Shifted
  <2>3. new[1] = l[1] /\ 1 \in 1 .. Len(new)
    BY <1>6, <2>2
  <2>4. new # <<>>
    BY <2>3
  <2> QED
    BY <1>1, <1>4, <1>5, <2>3, <2>4 DEF SoundLayout
<1>8. ASSUME NEW e \in ToSet(l), NEW q, Placed(l, e, q) PROVE Placed(new, e, q)
  <2>1. ASSUME NEW j \in 1 .. Len(new), new[j] = e PROVE Around(new, j) = PathIds(q)
    <3>1. CASE \E i \in 1 .. Len(l) : j = Shifted(l, n, block, i)
      <4>1. PICK i \in 1 .. Len(l) : j = Shifted(l, n, block, i)
        BY <3>1
      <4>2. l[i] = e
        BY <1>6, <2>1, <4>1
      <4>3. Around(new, Shifted(l, n, block, i)) = Around(l, i)
        BY <1>1, <1>2, AroundKept
      <4> QED
        BY <1>8, <4>1, <4>2, <4>3 DEF Placed
    <3>2. CASE \E i \in 1 .. Len(block) : j = n + i
      <4>1. e \in ToSet(block)
        BY <1>6, <2>1, <3>2 DEF ToSet
      <4> QED
        BY <1>8, <4>1
    <3> QED
      BY <1>6, <3>1, <3>2
  <2> QED
    BY <2>1 DEF Placed
<1>9. \A m \in 1 .. Len(block) : \A x : x \in Around(new, n + m) <=>
         \/ x \in Around(l, n + 1)
         \/ \E a \in 1 .. m, b \in m .. Len(block) : block[a] = Begin(x) /\ block[b] = End(x)
  <2>1. Inserted(new, l, n, block)
    BY <1>2
  <2> QED
    BY <1>1, <1>3, <2>1, AroundNew
<1>10. ASSUME NEW q, Placed(l, End(FolderId(path)), q),
             NEW m \in 1 .. Len(block), NEW i \in 1 .. Len(new), new[i] = block[m], NEW id
      PROVE  id \in Around(new, i) <=>
               \/ id \in PathIds(q)
               \/ \E a \in 1 .. m, b \in m .. Len(block) :
                    block[a] = Begin(id) /\ block[b] = End(id)
  <2>1. new[n + m] = block[m] /\ n + m \in 1 .. Len(new)
    BY <1>6
  <2>2. i = n + m
    BY <1>5, <1>6, <1>10, <2>1 DEF IsInjective
  <2>3. n + 1 \in 1 .. Len(l)
    BY <1>2, <1>3, <1>6
  <2>4. Around(l, n + 1) = PathIds(q)
    BY <1>3, <1>10, <2>3 DEF Placed
  <2>5. \A x : x \in Around(new, n + m) <=>
          \/ x \in Around(l, n + 1)
          \/ \E a \in 1 .. m, b \in m .. Len(block) : block[a] = Begin(x) /\ block[b] = End(x)
    BY <1>9
  <2> QED
    BY <2>2, <2>4, <2>5
<1> QED
  BY <1>2, <1>4, <1>7, <1>8, <1>10

FolderBlock(id) == <<Begin(id), End(id)>>

LEMMA FolderBlocks ==
    ASSUME NEW id \in LayoutId
    PROVE  /\ FolderBlock(id) \in Layouts /\ IsInjective(FolderBlock(id))
           /\ ToSet(FolderBlock(id)) = {Begin(id), End(id)}
<1>1. PICK b, e : b = Begin(id) /\ e = End(id) /\ b \in LayoutEntry /\ e \in LayoutEntry /\ b # e
  BY EntriesDiffer
<1>2. /\ <<b, e>> \in Seq(LayoutEntry) /\ Len(<<b, e>>) = 2 /\ DOMAIN <<b, e>> = {1, 2}
      /\ <<b, e>>[1] = b /\ <<b, e>>[2] = e
  BY <1>1
<1>3. ToSet(<<b, e>>) = {b, e}
  BY <1>2 DEF ToSet
<1>4. IsInjective(<<b, e>>)
  BY <1>1, <1>2 DEF IsInjective
<1>5. Paired(<<b, e>>)
  BY <1>1, <1>3, EntriesDiffer DEF Paired
<1> QED
  BY <1>1, <1>2, <1>3, <1>4, <1>5 DEF FolderBlock, Layouts

LEMMA AddPathIs ==
    ASSUME NEW l, NEW path \in Seq(Int), path # <<>>
    PROVE  /\ AddPath(l, path) = AddEntries(l, FolderBlock(FolderId(path)), Front(path))
           /\ FolderId(path) \in LayoutId
<1>1. Len(path) \in 1 .. Len(path)
  OBVIOUS
<1>2. Append(Front(path), Last(path)) = path
  BY <1>1, PathSteps
<1>3. FolderId(path) \in LayoutId
  BY DEF LayoutId
<1> QED
  BY <1>2, <1>3 DEF AddPath, AddFolder, FolderBlock, Begin, End

(* A new folder, in the one above it.                                      *)
LEMMA AddPathSound ==
    ASSUME NEW l, SoundLayout(l), NEW path \in Seq(Int), Len(path) > 1,
           ~Known(l, FolderId(path)), Known(l, FolderId(Front(path)))
    PROVE  LET new == AddPath(l, path) IN
           /\ SoundLayout(new)
           /\ ToSet(new) = ToSet(l) \cup {Begin(FolderId(path)), End(FolderId(path))}
           /\ \A e \in ToSet(l) : \A q : Placed(l, e, q) => Placed(new, e, q)
           /\ Placed(l, End(FolderId(Front(path))), Front(path)) =>
                Placed(new, End(FolderId(path)), path)
<1>1. PICK id, block, new : /\ id = FolderId(path) /\ block = FolderBlock(id)
                            /\ new = AddPath(l, path)
  OBVIOUS
<1>2. id \in LayoutId /\ new = AddEntries(l, block, Front(path))
  <2>1. path # <<>>
    OBVIOUS
  <2> QED
    BY <1>1, <2>1, AddPathIs
<1>3. block \in Layouts /\ IsInjective(block) /\ ToSet(block) = {Begin(id), End(id)}
  BY <1>1, <1>2, FolderBlocks
<1>4. ToSet(block) \cap ToSet(l) = {}
  BY <1>1, <1>3 DEF Known, SoundLayout, Layouts, Paired
<1>5. /\ SoundLayout(new) /\ ToSet(new) = ToSet(l) \cup ToSet(block)
      /\ \A e \in ToSet(l) : \A q : Placed(l, e, q) => Placed(new, e, q)
      /\ \A q : Placed(l, End(FolderId(Front(path))), q) =>
           \A m \in 1 .. Len(block), i \in 1 .. Len(new) : new[i] = block[m] =>
             \A x : x \in Around(new, i) <=>
               \/ x \in PathIds(q)
               \/ \E a \in 1 .. m, b \in m .. Len(block) :
                    block[a] = Begin(x) /\ block[b] = End(x)
  BY <1>2, <1>3, <1>4, AddBlock
<1>6. Len(block) = 2 /\ block[1] = Begin(id) /\ block[2] = End(id)
  BY <1>1 DEF FolderBlock
<1>7. ASSUME Placed(l, End(FolderId(Front(path))), Front(path)),
             NEW i \in 1 .. Len(new), new[i] = End(id)
      PROVE  Around(new, i) = PathIds(path)
  <2>1. \A x : x \in Around(new, i) <=>
          \/ x \in PathIds(Front(path))
          \/ \E a \in 1 .. 2, b \in 2 .. 2 : block[a] = Begin(x) /\ block[b] = End(x)
    BY <1>5, <1>6, <1>7
  <2>2. \A x : (\E a \in 1 .. 2, b \in 2 .. 2 : block[a] = Begin(x) /\ block[b] = End(x))
                 <=> x = id
    <3>1. 1 \in 1 .. 2 /\ 2 \in 2 .. 2 /\ \A b \in 2 .. 2 : b = 2
      OBVIOUS
    <3> QED
      BY <1>6, <3>1, EntriesDiffer
  <2>3. PathIds(path) = PathIds(Front(path)) \cup {id}
    BY <1>1, PathIdsAre
  <2> QED
    BY <2>1, <2>2, <2>3
<1> QED
  BY <1>1, <1>3, <1>5, <1>7 DEF Placed

LEMMA PathFront ==
    ASSUME NEW path \in Seq(Int), NEW p \in 1 .. Len(path), NEW f, f = SubSeq(path, 1, p)
    PROVE  /\ f \in Seq(Int) /\ Len(f) = p
           /\ Front(f) = SubSeq(path, 1, p - 1) /\ Front(f) = SubSeq(f, 1, Len(f) - 1)
<1>1. f \in Seq(Int) /\ Len(f) = p
  BY PathSteps
<1>2. Front(f) = SubSeq(path, 1, p - 1)
  BY PathSteps
<1> QED
  BY <1>1, <1>2 DEF Front

-----------------------------------------------------------------------------
(* addMissingFolders                                                       *)

LEMMA ElementsMakeSeq ==
    ASSUME NEW S, NEW n \in Nat, NEW s, s = [i \in 1 .. n |-> s[i]], \A i \in 1 .. n : s[i] \in S
    PROVE  s \in Seq(S) /\ Len(s) = n /\ DOMAIN s = 1 .. n
<1>1. s \in [1 .. n -> S]
  OBVIOUS
<1> QED
  BY <1>1

LEMMA MaxOfSome ==
    ASSUME NEW n \in Nat, NEW s \in SUBSET (0 .. n), s # {}
    PROVE  Max(s) \in s /\ \A i \in s : i <= Max(s)
<1> DEFINE T == {n - x : x \in s}
<1>1. T \subseteq Nat /\ T # {}
  <2>1. \A x \in s : n - x \in Nat
    OBVIOUS
  <2> QED
    BY <2>1
<1>2. PICK t \in T : \A y \in T : t <= y
  <2> HIDE DEF T
  <2> QED
    BY <1>1, LeastPositive
<1>3. PICK x \in s : t = n - x
  BY <1>2
<1>4. \A y \in s : n - x <= n - y /\ x \in Nat /\ y \in Nat
  BY <1>2, <1>3
<1>5. \A y \in s : x >= y
  BY <1>4
<1>6. Max(s) \in s /\ \A y \in s : Max(s) >= y
  BY <1>5 DEF Max
<1> QED
  BY <1>4, <1>6

(* The function behind FoldLeft(AddPath, l, seq).                          *)
IsAdding(g, l, seq) ==
    g = [s \in SUBSET DOMAIN seq |->
           IF s = {} THEN l ELSE AddPath(g[s \ {Max(s)}], seq[Max(s)])]

LEMMA AddingIsFold ==
    ASSUME NEW l, NEW seq
    PROVE  FoldLeft(AddPath, l, seq) = (CHOOSE g : IsAdding(g, l, seq))[DOMAIN seq]
BY DEF FoldLeft, MapThenFoldSet, IsAdding

Path == Seq(Int) \ {<<>>}

LEMMA AddPathClosed ==
    ASSUME NEW x \in Layouts, NEW y \in Path
    PROVE  AddPath(x, y) \in Layouts
<1>1. y \in Seq(Int) /\ y # <<>>
  BY DEF Path
<1>2. AddPath(x, y) = AddEntries(x, FolderBlock(FolderId(y)), Front(y))
  BY <1>1, AddPathIs
<1>3. FolderBlock(FolderId(y)) \in Layouts
  BY <1>1, AddPathIs, FolderBlocks
<1> QED
  BY <1>2, <1>3, LayoutsClosed

LEMMA AddingExists ==
    ASSUME NEW l \in Layouts, NEW seq \in Seq(Path)
    PROVE  \E g : IsAdding(g, l, seq)
<1> DEFINE step == [p \in Layouts \X Path |-> AddPath(p[1], p[2])]
           n == Len(seq)
<1>1. n \in Nat /\ DOMAIN seq = 1 .. n /\ \A i \in 1 .. n : seq[i] \in Path
  OBVIOUS
<1>2. \A x \in Layouts, y \in Path : step[<<x, y>>] = AddPath(x, y)
  OBVIOUS
<1>3. step \in [Layouts \X Path -> Layouts]
  BY AddPathClosed
<1> HIDE DEF step, n
<1>4. PICK g \in [SUBSET (1 .. n) -> Layouts] : IsFold(g, l, step, seq, n)
  <2>1. HasFold(Layouts, l, step, seq, n)
    BY <1>1, <1>3, FoldExists
  <2> QED
    BY <2>1 DEF HasFold
<1>5. ASSUME NEW s \in SUBSET (1 .. n), s # {}
      PROVE  g[s] = AddPath(g[s \ {Max(s)}], seq[Max(s)])
  <2>1. g[s] = step[<<g[s \ {Max(s)}], seq[Max(s)]>>]
    BY <1>4, <1>5 DEF IsFold
  <2>2. Max(s) \in 1 .. n
    BY <1>1, <1>5, MaxOfSomeIndices
  <2>3. g[s \ {Max(s)}] \in Layouts /\ seq[Max(s)] \in Path
    BY <1>1, <1>4, <2>2
  <2> QED
    BY <1>2, <2>1, <2>3
<1>6. g[{}] = l
  BY <1>4 DEF IsFold
<1>7. IsAdding(g, l, seq)
  BY <1>1, <1>4, <1>5, <1>6 DEF IsAdding
<1> QED
  BY <1>7

(* The starts of a path that are longer than last.                         *)
Starts(path, last) == [i \in 1 .. Len(path) - last |-> SubSeq(path, 1, last + i)]

LEMMA StartsOfPath ==
    ASSUME NEW path \in Path, NEW last \in 0 .. Len(path)
    PROVE  LET s == Starts(path, last) IN
           /\ s \in Seq(Path) /\ Len(s) = Len(path) - last /\ DOMAIN s = 1 .. Len(path) - last
           /\ \A i \in 1 .. Len(path) - last : s[i] = SubSeq(path, 1, last + i)
<1>1. path \in Seq(Int) /\ Len(path) \in Nat
  BY DEF Path
<1>2. Len(path) - last \in Nat
  BY <1>1
<1>3. PICK more, s : more = Len(path) - last /\ s = Starts(path, last) /\ more \in Nat
  BY <1>2
<1>4. ASSUME NEW i \in 1 .. more PROVE SubSeq(path, 1, last + i) \in Path
  <2>1. last + i \in 1 .. Len(path)
    BY <1>1, <1>3
  <2> QED
    BY <1>1, <2>1, PathSteps DEF Path
<1>5. s = [i \in 1 .. more |-> SubSeq(path, 1, last + i)]
  BY <1>3 DEF Starts
<1>6. \A i \in 1 .. more : s[i] = SubSeq(path, 1, last + i)
  BY <1>5
<1>7. s = [i \in 1 .. more |-> s[i]] /\ \A i \in 1 .. more : s[i] \in Path
  BY <1>4, <1>5, <1>6
<1>8. s \in Seq(Path) /\ Len(s) = more /\ DOMAIN s = 1 .. more
  BY <1>3, <1>7, ElementsMakeSeq
<1> QED
  BY <1>3, <1>6, <1>8

(* Paths whose folders no other path, of those that are used, has.         *)
Separate(G, path) ==
    /\ \A f \in G : f \in Path /\ \A n \in 1 .. Len(f) : SubSeq(f, 1, n) \in G
    /\ \A f \in G, n \in 1 .. Len(path) :
         FolderId(f) = FolderId(SubSeq(path, 1, n)) => f = SubSeq(path, 1, n)

(* The joined names of the folders of a path differ.                       *)
Distinct(path) ==
    \A m, n \in 1 .. Len(path) :
      FolderId(SubSeq(path, 1, m)) = FolderId(SubSeq(path, 1, n)) => m = n

EndsPlaced(l, G) == \A f \in G : Placed(l, End(FolderId(f)), f)

(* What is there of the arrangement before stays, with no other parameter. *)
Extends(new, l) ==
    /\ ToSet(l) \subseteq ToSet(new)
    /\ \A id : Entry("parm", id) \in ToSet(new) => Entry("parm", id) \in ToSet(l)
    /\ \A e \in ToSet(l) : \A q : Placed(l, e, q) => Placed(new, e, q)

LEMMA MissingFoldersAdded ==
    ASSUME NEW l, SoundLayout(l), NEW path \in Path, Distinct(path),
           Known(l, FolderId(SubSeq(path, 1, 1))),
           NEW G, Separate(G, path), EndsPlaced(l, G)
    PROVE  LET new == AddMissingFolders(l, path) IN
           /\ SoundLayout(new) /\ Extends(new, l)
           /\ Known(new, FolderId(path))
           /\ EndsPlaced(new, G)
<1> DEFINE known == {n \in 0 .. Len(path) : n = 0 \/ FolderIndex(l, SubSeq(path, 1, n)) > 0}
           seq(last) == [i \in 1 .. Len(path) - last |-> SubSeq(path, 1, last + i)]
<1>0. \A p \in 1 .. Len(path) : \A f : f = SubSeq(path, 1, p) =>
        /\ f \in Seq(Int) /\ Len(f) = p
        /\ Front(f) = SubSeq(path, 1, p - 1) /\ Front(f) = SubSeq(f, 1, Len(f) - 1)
  <2>1. path \in Seq(Int)
    BY DEF Path
  <2> QED
    BY <2>1, PathFront
<1>1. /\ path \in Seq(Int) /\ Len(path) \in Nat /\ Len(path) >= 1
      /\ l \in Layouts /\ l[1].kind = "parm"
  BY DEF Path, SoundLayout
<1>2. PICK last : last = Max(known)
  OBVIOUS
<1>3. last \in known /\ \A n \in known : n <= last
  <2>1. known \in SUBSET (0 .. Len(path)) /\ known # {}
    BY <1>1
  <2> HIDE DEF known
  <2> QED
    BY <1>1, <1>2, <2>1, MaxOfSome
<1>4. last \in 1 .. Len(path)
  <2>1. 1 \in known
    BY <1>1, FolderKnown
  <2> QED
    BY <1>1, <1>3, <2>1
<1>5. PICK more \in Nat : more = Len(path) - last
  BY <1>1, <1>4
<1>6. PICK new, s : /\ new = AddMissingFolders(l, path) /\ s = seq(last)
                    /\ new = FoldLeft(AddPath, l, s)
  BY <1>2 DEF AddMissingFolders
<1>7. \A n \in last + 1 .. Len(path) : ~Known(l, FolderId(SubSeq(path, 1, n)))
  <2>1. ASSUME NEW n \in last + 1 .. Len(path), Known(l, FolderId(SubSeq(path, 1, n)))
        PROVE  FALSE
    <3>1. n \in 0 .. Len(path) /\ n > last
      BY <1>1, <1>4
    <3>2. FolderIndex(l, SubSeq(path, 1, n)) > 0
      BY <1>1, <2>1, FolderKnown
    <3>3. n \in known
      BY <3>1, <3>2
    <3> QED
      BY <1>3, <1>4, <3>1, <3>3
  <2> QED
    BY <2>1
<1>8. Known(l, FolderId(SubSeq(path, 1, last)))
  <2>1. FolderIndex(l, SubSeq(path, 1, last)) > 0
    BY <1>3, <1>4
  <2> QED
    BY <1>1, <2>1, FolderKnown
<1> HIDE DEF known
<1>9. /\ s \in Seq(Path) /\ Len(s) = more /\ DOMAIN s = 1 .. more
      /\ \A i \in 1 .. more : s[i] = SubSeq(path, 1, last + i)
  <2>1. s = Starts(path, last)
    BY <1>6 DEF Starts
  <2>2. last \in 0 .. Len(path)
    BY <1>4
  <2> QED
    BY <1>5, <2>1, <2>2, StartsOfPath
<1> HIDE DEF seq
<1>10. PICK g : IsAdding(g, l, s) /\ new = g[1 .. more]
  BY <1>1, <1>6, <1>9, AddingExists, AddingIsFold
<1>11. \A t \in SUBSET (1 .. more) :
         g[t] = IF t = {} THEN l ELSE AddPath(g[t \ {Max(t)}], s[Max(t)])
  BY <1>9, <1>10 DEF IsAdding
<1> DEFINE Added(id, k) == \E i \in 1 .. k : id = FolderId(SubSeq(path, 1, last + i))
           Inv(k, x) == /\ SoundLayout(x) /\ Extends(x, l)
                        /\ \A id : Known(x, id) <=> Known(l, id) \/ Added(id, k)
                        /\ EndsPlaced(x, G)
           P == {k \in Nat : k <= more /\ Inv(k, g[1 .. k])}
<1>12. 0 \in P
  <2>1. 1 .. 0 \in SUBSET (1 .. more) /\ 1 .. 0 = {}
    BY <1>5
  <2>2. g[1 .. 0] = l
    BY <1>11, <2>1
  <2>3. Extends(l, l)
    BY DEF Extends
  <2>4. \A id : ~Added(id, 0)
    OBVIOUS
  <2>5. Inv(0, l)
    BY <2>3, <2>4
  <2> HIDE DEF Inv
  <2> QED
    BY <1>5, <2>2, <2>5
<1>13. ASSUME NEW k \in 0 .. more - 1, k \in P PROVE k + 1 \in P
  <2>1. /\ k \in Nat /\ k + 1 \in 1 .. more /\ k + 1 \in Nat /\ k + 1 <= more
        /\ last + (k + 1) \in 1 .. Len(path)
    BY <1>1, <1>4, <1>5
  <2>2. PICK x, y, f : /\ x = g[1 .. k] /\ y = g[1 .. k + 1]
                       /\ f = SubSeq(path, 1, last + (k + 1))
    OBVIOUS
  <2>3. y = AddPath(x, f)
    <3>1. /\ 1 .. k + 1 \in SUBSET (1 .. more) /\ 1 .. k + 1 # {}
          /\ Max(1 .. k + 1) = k + 1
          /\ (1 .. k + 1) \ {k + 1} = 1 .. k
      BY <1>5, FoldSegments
    <3>2. y = AddPath(x, s[k + 1])
      BY <1>11, <2>2, <3>1
    <3> QED
      BY <1>9, <2>1, <2>2, <3>2
  <2>4. Inv(k, x)
    BY <1>13, <2>2
  <2>5. /\ f \in Seq(Int) /\ Len(f) = last + (k + 1)
        /\ Front(f) = SubSeq(path, 1, last + k)
        /\ Front(f) = SubSeq(f, 1, Len(f) - 1)
    <3>1. PICK p : p = last + (k + 1) /\ p - 1 = last + k /\ p \in 1 .. Len(path)
      BY <1>4, <2>1
    <3>2. path \in Seq(Int) /\ p \in 1 .. Len(path) /\ f = SubSeq(path, 1, p)
      BY <1>1, <2>2, <3>1
    <3>3. /\ f \in Seq(Int) /\ Len(f) = p
          /\ Front(f) = SubSeq(path, 1, p - 1) /\ Front(f) = SubSeq(f, 1, Len(f) - 1)
      BY <1>0, <3>2
    <3> QED
      BY <3>1, <3>3
  <2>6. Len(f) > 1 /\ Len(f) - 1 \in 1 .. Len(f)
    <3>1. Len(f) = last + (k + 1) /\ last \in Nat /\ last >= 1 /\ k \in Nat
      BY <1>1, <1>4, <2>1, <2>5
    <3> QED
      BY <3>1
  <2>7. Known(x, FolderId(Front(f)))
    <3>1. CASE k = 0
      <4>1. Front(f) = SubSeq(path, 1, last)
        BY <1>1, <1>4, <2>5, <3>1
      <4> QED
        BY <1>8, <2>4, <4>1
    <3>2. CASE k # 0
      <4>1. k \in 1 .. k /\ Front(f) = SubSeq(path, 1, last + k)
        BY <2>1, <2>5, <3>2
      <4>2. Added(FolderId(Front(f)), k)
        BY <4>1
      <4> QED
        BY <2>4, <4>2
    <3> QED
      BY <3>1, <3>2
  <2>8. ~Known(x, FolderId(f))
    <3>1. ~Known(l, FolderId(f))
      <4>1. last + (k + 1) \in last + 1 .. Len(path)
        BY <1>4, <2>1
      <4> QED
        BY <1>7, <2>2, <4>1
    <3>2. ASSUME NEW i \in 1 .. k, FolderId(f) = FolderId(SubSeq(path, 1, last + i)) PROVE FALSE
      <4>1. last + i \in 1 .. Len(path) /\ last + i # last + (k + 1)
        <5>1. /\ last \in Nat /\ k \in Nat /\ i \in Nat /\ 1 <= i /\ i <= k
              /\ Len(path) \in Nat /\ last + (k + 1) <= Len(path)
          BY <1>1, <1>4, <2>1
        <5> QED
          BY <5>1
      <4> QED
        BY <2>1, <2>2, <3>2, <4>1 DEF Distinct
    <3> QED
      BY <2>4, <3>1, <3>2
  <2> HIDE DEF Inv
  <2>9. /\ SoundLayout(x) /\ Extends(x, l) /\ EndsPlaced(x, G)
        /\ \A id : Known(x, id) <=> Known(l, id) \/ Added(id, k)
    BY <2>4 DEF Inv
  <2>10. /\ SoundLayout(y)
         /\ ToSet(y) = ToSet(x) \cup {Begin(FolderId(f)), End(FolderId(f))}
         /\ \A e \in ToSet(x) : \A q : Placed(x, e, q) => Placed(y, e, q)
         /\ Placed(x, End(FolderId(Front(f))), Front(f)) => Placed(y, End(FolderId(f)), f)
    BY <2>3, <2>5, <2>6, <2>7, <2>8, <2>9, AddPathSound
  <2>11. Extends(y, l)
    BY <2>9, <2>10, EntriesDiffer DEF Extends
  <2>12. \A id : Known(y, id) <=> Known(l, id) \/ Added(id, k + 1)
    <3>1. \A id : Known(y, id) <=> Known(x, id) \/ id = FolderId(f)
      BY <2>10, EntriesDiffer DEF Known
    <3>2. \A id : Added(id, k + 1) <=> Added(id, k) \/ id = FolderId(f)
      <4>1. \A i : i \in 1 .. k + 1 <=> i \in 1 .. k \/ i = k + 1
        BY <2>1
      <4> QED
        BY <2>2, <4>1
    <3> HIDE DEF Added
    <3> QED
      BY <2>9, <3>1, <3>2
  <2>13. ASSUME NEW h \in G PROVE Placed(y, End(FolderId(h)), h)
    <3>1. CASE End(FolderId(h)) \in ToSet(x)
      BY <2>9, <2>10, <3>1 DEF EndsPlaced
    <3>2. CASE End(FolderId(h)) = End(FolderId(f))
      <4>1. FolderId(h) = FolderId(f)
        BY <3>2, EntriesDiffer
      <4>2. h = f
        BY <2>1, <2>2, <4>1 DEF Separate
      <4>3. Front(f) \in G
        BY <2>5, <2>6, <4>2 DEF Separate
      <4> QED
        BY <2>9, <2>10, <4>2, <4>3 DEF EndsPlaced
    <3>3. CASE End(FolderId(h)) \notin ToSet(y)
      <4>1. DOMAIN y = 1 .. Len(y)
        BY <2>10 DEF SoundLayout, Layouts
      <4> QED
        BY <3>3, <4>1 DEF Placed, ToSet
    <3> QED
      BY <2>10, <3>1, <3>2, <3>3, EntriesDiffer
  <2>14. Inv(k + 1, y)
    BY <2>10, <2>11, <2>12, <2>13 DEF Inv, EndsPlaced
  <2> QED
    BY <2>1, <2>2, <2>14
<1>14. more \in P
  <2> HIDE DEF P
  <2> QED
    BY <1>5, <1>12, <1>13, StepInduction
<1>15. Inv(more, new)
  BY <1>10, <1>14
<1>16. Known(new, FolderId(path))
  <2>1. SubSeq(path, 1, Len(path)) = path
    <3>1. Len(path) \in 1 .. Len(path)
      BY <1>1
    <3> QED
      BY <1>1, <3>1, PathSteps
  <2>2. CASE more = 0
    <3>1. last = Len(path)
      BY <1>1, <1>4, <1>5, <2>2
    <3>2. Known(l, FolderId(path))
      BY <1>8, <2>1, <3>1
    <3> QED
      BY <1>15, <3>2
  <2>3. CASE more # 0
    <3>1. more \in 1 .. more /\ last + more = Len(path)
      BY <1>1, <1>4, <1>5, <2>3
    <3>2. Added(FolderId(path), more)
      BY <2>1, <3>1
    <3> QED
      BY <1>15, <3>2
  <2> QED
    BY <2>2, <2>3
<1> QED
  BY <1>6, <1>15, <1>16

LEMMA AddingClosed ==
    ASSUME NEW l \in Layouts, NEW seq \in Seq(Path)
    PROVE  FoldLeft(AddPath, l, seq) \in Layouts
<1>1. PICK g : IsAdding(g, l, seq) /\ FoldLeft(AddPath, l, seq) = g[DOMAIN seq]
  BY AddingExists, AddingIsFold
<1>2. PICK n \in Nat : n = Len(seq) /\ DOMAIN seq = 1 .. n /\ \A i \in 1 .. n : seq[i] \in Path
  OBVIOUS
<1>3. \A s \in SUBSET (1 .. n) :
        g[s] = IF s = {} THEN l ELSE AddPath(g[s \ {Max(s)}], seq[Max(s)])
  BY <1>1, <1>2 DEF IsAdding
<1> DEFINE P == {k \in Nat : k <= n => g[1 .. k] \in Layouts}
<1>4. 0 \in P
  <2>1. 1 .. 0 \in SUBSET (1 .. n) /\ 1 .. 0 = {}
    OBVIOUS
  <2> QED
    BY <1>3, <2>1
<1>5. ASSUME NEW k \in 0 .. n - 1, k \in P PROVE k + 1 \in P
  <2>1. /\ 1 .. k + 1 \in SUBSET (1 .. n) /\ 1 .. k + 1 # {}
        /\ Max(1 .. k + 1) = k + 1 /\ (1 .. k + 1) \ {k + 1} = 1 .. k
    BY <1>2, FoldSegments
  <2>2. g[1 .. k + 1] = AddPath(g[1 .. k], seq[k + 1])
    BY <1>3, <2>1
  <2>3. g[1 .. k] \in Layouts /\ seq[k + 1] \in Path
    BY <1>2, <1>5
  <2>4. g[1 .. k + 1] \in Layouts
    BY <2>2, <2>3, AddPathClosed
  <2> QED
    BY <2>4
<1>6. n \in P
  <2> HIDE DEF P
  <2> QED
    BY <1>4, <1>5, StepInduction
<1> QED
  BY <1>1, <1>2, <1>6

LEMMA MissingFoldersClosed ==
    ASSUME NEW l \in Layouts, NEW path \in Path
    PROVE  AddMissingFolders(l, path) \in Layouts
<1> DEFINE known == {n \in 0 .. Len(path) : n = 0 \/ FolderIndex(l, SubSeq(path, 1, n)) > 0}
<1>1. path \in Seq(Int) /\ Len(path) \in Nat
  BY DEF Path
<1>2. PICK last : last = Max(known)
  OBVIOUS
<1>3. last \in 0 .. Len(path)
  <2>1. known \in SUBSET (0 .. Len(path)) /\ known # {}
    BY <1>1
  <2> HIDE DEF known
  <2> QED
    BY <1>1, <1>2, <2>1, MaxOfSome
<1>4. PICK s : s = Starts(path, last)
  OBVIOUS
<1>5. AddMissingFolders(l, path) = FoldLeft(AddPath, l, s)
  BY <1>2, <1>4 DEF AddMissingFolders, Starts
<1> HIDE DEF known
<1>6. s \in Seq(Path)
  BY <1>3, <1>4, StartsOfPath
<1> QED
  BY <1>5, <1>6, AddingClosed

-----------------------------------------------------------------------------
(* addParm: the parameter is put into the last folder of its path.         *)

ParmBlock(id) == <<Entry("parm", id)>>

LEMMA ParmBlocks ==
    ASSUME NEW id \in LayoutId
    PROVE  /\ ParmBlock(id) \in Layouts /\ IsInjective(ParmBlock(id))
           /\ ToSet(ParmBlock(id)) = {Entry("parm", id)}
           /\ Len(ParmBlock(id)) = 1 /\ ParmBlock(id)[1] = Entry("parm", id)
<1>1. PICK e : e = Entry("parm", id) /\ e \in LayoutEntry
  BY EntriesDiffer
<1>2. <<e>> \in Seq(LayoutEntry) /\ Len(<<e>>) = 1 /\ DOMAIN <<e>> = {1} /\ <<e>>[1] = e
  BY <1>1
<1>3. ToSet(<<e>>) = {e}
  BY <1>2 DEF ToSet
<1>4. IsInjective(<<e>>)
  BY <1>2 DEF IsInjective
<1>5. Paired(<<e>>)
  BY <1>1, <1>3, EntriesDiffer DEF Paired
<1> QED
  BY <1>1, <1>2, <1>3, <1>4, <1>5 DEF ParmBlock, Layouts

LEMMA ParmIds == Int \X Int \subseteq LayoutId
BY DEF LayoutId

LEMMA ParmEntryClosed ==
    ASSUME NEW l \in Layouts, NEW id \in Int \X Int, NEW path \in Path
    PROVE  AddParmEntry(l, id, path) \in Layouts
<1>1. AddMissingFolders(l, path) \in Layouts
  BY MissingFoldersClosed
<1>2. ParmBlock(id) \in Layouts
  BY ParmIds, ParmBlocks
<1>3. AddParmEntry(l, id, path) = AddEntries(AddMissingFolders(l, path), ParmBlock(id), path)
  BY DEF AddParmEntry, ParmBlock
<1> QED
  BY <1>1, <1>2, <1>3, LayoutsClosed

LEMMA ParmAdded ==
    ASSUME NEW l, SoundLayout(l), NEW path \in Path, Distinct(path),
           Known(l, FolderId(SubSeq(path, 1, 1))),
           NEW G, Separate(G, path), EndsPlaced(l, G),
           NEW id \in Int \X Int, Entry("parm", id) \notin ToSet(l)
    PROVE  LET new == AddParmEntry(l, id, path) IN
           /\ SoundLayout(new) /\ ToSet(l) \subseteq ToSet(new)
           /\ \A x : Entry("parm", x) \in ToSet(new) <=> Entry("parm", x) \in ToSet(l) \/ x = id
           /\ \A e \in ToSet(l) : \A q : Placed(l, e, q) => Placed(new, e, q)
           /\ EndsPlaced(new, G)
           /\ path \in G => Placed(new, Entry("parm", id), path)
<1>1. PICK mid : mid = AddMissingFolders(l, path)
  OBVIOUS
<1>2. /\ SoundLayout(mid) /\ Extends(mid, l) /\ Known(mid, FolderId(path))
      /\ EndsPlaced(mid, G)
  BY <1>1, MissingFoldersAdded
<1>3. PICK block : block = ParmBlock(id)
  OBVIOUS
<1>4. /\ block \in Layouts /\ IsInjective(block) /\ ToSet(block) = {Entry("parm", id)}
      /\ Len(block) = 1 /\ block[1] = Entry("parm", id)
  BY <1>3, ParmIds, ParmBlocks
<1>5. ToSet(block) \cap ToSet(mid) = {}
  <2>1. Entry("parm", id) \notin ToSet(mid)
    BY <1>2 DEF Extends
  <2> QED
    BY <1>4, <2>1
<1>6. PICK new : new = AddParmEntry(l, id, path) /\ new = AddEntries(mid, block, path)
  BY <1>1, <1>3 DEF AddParmEntry, ParmBlock
<1>7. /\ SoundLayout(new) /\ ToSet(new) = ToSet(mid) \cup ToSet(block)
      /\ \A e \in ToSet(mid) : \A q : Placed(mid, e, q) => Placed(new, e, q)
      /\ \A q : Placed(mid, End(FolderId(path)), q) =>
           \A m \in 1 .. Len(block), i \in 1 .. Len(new) : new[i] = block[m] =>
             \A x : x \in Around(new, i) <=>
               \/ x \in PathIds(q)
               \/ \E a \in 1 .. m, b \in m .. Len(block) :
                    block[a] = Begin(x) /\ block[b] = End(x)
  BY <1>2, <1>4, <1>5, <1>6, AddBlock
<1>8. ToSet(l) \subseteq ToSet(new)
  BY <1>2, <1>7 DEF Extends
<1>9. ASSUME NEW x
      PROVE  Entry("parm", x) \in ToSet(new) <=> Entry("parm", x) \in ToSet(l) \/ x = id
  <2>1. Entry("parm", x) \in ToSet(mid) <=> Entry("parm", x) \in ToSet(l)
    BY <1>2 DEF Extends
  <2>2. Entry("parm", x) = Entry("parm", id) <=> x = id
    BY EntriesDiffer
  <2> QED
    BY <1>4, <1>7, <2>1, <2>2
<1>10. ASSUME NEW e \in ToSet(l), NEW q, Placed(l, e, q) PROVE Placed(new, e, q)
  BY <1>2, <1>7, <1>10 DEF Extends
<1>11. ASSUME NEW h \in G PROVE Placed(new, End(FolderId(h)), h)
  <2>1. CASE End(FolderId(h)) \in ToSet(mid)
    BY <1>2, <1>7, <2>1 DEF EndsPlaced
  <2>2. CASE End(FolderId(h)) \notin ToSet(mid)
    <3>1. End(FolderId(h)) \notin ToSet(new)
      BY <1>4, <1>7, <2>2, EntriesDiffer
    <3>2. DOMAIN new = 1 .. Len(new)
      BY <1>7 DEF SoundLayout, Layouts
    <3> QED
      BY <3>1, <3>2 DEF Placed, ToSet
  <2> QED
    BY <2>1, <2>2
<1>12. ASSUME path \in G PROVE Placed(new, Entry("parm", id), path)
  <2>1. Placed(mid, End(FolderId(path)), path)
    BY <1>2, <1>12 DEF EndsPlaced
  <2>2. ASSUME NEW i \in 1 .. Len(new), new[i] = Entry("parm", id)
        PROVE  Around(new, i) = PathIds(path)
    <3>1. 1 \in 1 .. Len(block) /\ new[i] = block[1]
      BY <1>4, <2>2
    <3>2. \A a \in 1 .. 1 : \A x : block[a] # Begin(x)
      <4>1. \A x : Begin(x) # Entry("parm", id)
        BY EntriesDiffer
      <4>2. \A a : a \in 1 .. 1 => a = 1
        OBVIOUS
      <4> QED
        BY <1>4, <4>1, <4>2
    <3>3. \A x : x \in Around(new, i) <=>
            \/ x \in PathIds(path)
            \/ \E a \in 1 .. 1, b \in 1 .. Len(block) : block[a] = Begin(x) /\ block[b] = End(x)
      BY <1>7, <2>1, <3>1
    <3> QED
      BY <3>2, <3>3
  <2> QED
    BY <2>2 DEF Placed
<1> QED
  BY <1>6, <1>7, <1>8, <1>9, <1>10, <1>11, <1>12 DEF EndsPlaced

-----------------------------------------------------------------------------
(* buildUI: the arrangement for the sorted attributes of a package.        *)

(* What the arrangement needs to know of an attribute.                     *)
IsArrangeable(a) == PrimAttr(a.fqName) \in Int \X Int /\ FoldersOf(a) \in Path

LEMMA OnePath ==
    ASSUME NEW f \in Int, NEW s \in Seq(Int), Len(s) = 1, s[1] = f
    PROVE  s = <<f>>
<1>1. PICK t : t = <<f>> /\ t \in Seq(Int) /\ Len(t) = 1 /\ t[1] = f
  OBVIOUS
<1>2. \A i \in 1 .. 1 : s[i] = t[i]
  BY <1>1
<1> QED
  BY <1>1, <1>2

LEMMA FolderPath ==
    /\ Folder \in Int /\ <<Folder>> \in Seq(Int) /\ Len(<<Folder>>) = 1 /\ <<Folder>> # <<>>
    /\ SubSeq(<<Folder>>, 1, 1) = <<Folder>>
<1>1. Folder \in Int
  <2>1. {Black, Folder} \subseteq Int
    BY AssignParmsAssumption
  <2> QED
    BY <2>1
<1>2. PICK path : path = <<Folder>> /\ path \in Seq(Int) /\ Len(path) = 1
  <2>1. <<Folder>> \in Seq(Int) /\ Len(<<Folder>>) = 1
    BY <1>1
  <2> QED
    BY <2>1
<1>3. path # <<>>
  BY <1>2
<1>4. SubSeq(path, 1, 1) = path
  <2>1. path \in Seq(Int) /\ 1 \in 1 .. Len(path) /\ 1 = Len(path)
    BY <1>2
  <2>2. PICK f : f = SubSeq(path, 1, 1)
    OBVIOUS
  <2>3. f = path
    BY <2>1, <2>2, PathSteps
  <2> QED
    BY <2>2, <2>3
<1> QED
  BY <1>1, <1>2, <1>3, <1>4

LEMMA FirstFolder ==
    ASSUME NEW a, FoldersOf(a) \in Path
    PROVE  SubSeq(FoldersOf(a), 1, 1) = <<Folder>>
<1>1. PICK path : path = FoldersOf(a) /\ path \in Seq(Int) /\ Len(path) \in Nat /\ Len(path) >= 1
  BY DEF Path
<1>2. path[1] = Folder
  BY <1>1 DEF FoldersOf
<1>3. PICK s : s = SubSeq(path, 1, 1)
  OBVIOUS
<1>4. s \in Seq(Int) /\ Len(s) = 1 /\ s[1] = path[1]
  BY <1>1, <1>3
<1> QED
  BY <1>1, <1>2, <1>3, <1>4, FolderPath, OnePath

(* The function behind FoldLeft(AddAttribute, EmptyLayout, ra).            *)
IsArranging(g, ra) ==
    g = [s \in SUBSET DOMAIN ra |->
           IF s = {} THEN EmptyLayout ELSE AddAttribute(g[s \ {Max(s)}], ra[Max(s)])]

LEMMA ArrangingIsFold ==
    ASSUME NEW ra
    PROVE  BuildLayout(ra) = (CHOOSE g : IsArranging(g, ra))[DOMAIN ra]
BY DEF BuildLayout, FoldLeft, MapThenFoldSet, IsArranging

LEMMA ThreeEntries ==
    ASSUME NEW S, NEW s \in Seq(S), Len(s) = 3
    PROVE  s = <<s[1], s[2], s[3]>>
OBVIOUS

(* The first parameter is not of an attribute; one folder is around all    *)
(* others.                                                                 *)
LEMMA EmptyLayoutSound ==
    /\ SoundLayout(EmptyLayout)
    /\ Known(EmptyLayout, FolderId(<<Folder>>))
    /\ \A id : Entry("parm", id) \in ToSet(EmptyLayout) <=> id = <<>>
    /\ \A G : Separate(G, <<Folder>>) => EndsPlaced(EmptyLayout, G)
<1>1. PICK path : path = <<Folder>> /\ path \in Seq(Int) /\ Len(path) = 1 /\ path # <<>>
  BY FolderPath
<1>2. SubSeq(path, 1, 1) = path /\ Append(<<>>, Folder) = path
  <2>1. Append(<<>>, Folder) = <<Folder>>
    OBVIOUS
  <2> QED
    BY <1>1, <2>1, FolderPath
<1>3. PICK id, p, b, e : /\ id = FolderId(path) /\ p = Entry("parm", <<>>)
                         /\ b = Begin(id) /\ e = End(id)
  OBVIOUS
<1>4. {p, b, e} \subseteq LayoutEntry /\ p # b /\ p # e /\ b # e
  <2>1. id \in LayoutId /\ <<>> \in LayoutId
    BY <1>1, <1>3 DEF LayoutId
  <2> QED
    BY <1>3, <2>1, EntriesDiffer
<1>5. EmptyLayout = <<p, b, e>>
  <2>1. <<p>> \in Seq(LayoutEntry) /\ DOMAIN <<p>> = {1} /\ <<p>>[1] = p
    BY <1>4
  <2>2. FolderIndex(<<p>>, <<>>) = -1
    <3>1. p # Entry("begin", FolderId(<<>>))
      BY <1>3, EntriesDiffer DEF Begin
    <3> QED
      BY <2>1, <3>1 DEF FolderIndex
  <2>3. EmptyLayout = <<p>> \o <<b, e>>
    BY <1>2, <1>3, <2>2 DEF EmptyLayout, AddFolder, AddEntries, Begin, End
  <2>4. PICK s, t : s = <<p>> /\ t = <<b, e>>
    OBVIOUS
  <2>5. /\ s \in Seq(LayoutEntry) /\ Len(s) = 1 /\ s[1] = p
        /\ t \in Seq(LayoutEntry) /\ Len(t) = 2 /\ t[1] = b /\ t[2] = e
    BY <1>4, <2>4
  <2>6. PICK l : l = s \o t
    OBVIOUS
  <2>7. l \in Seq(LayoutEntry) /\ Len(l) = 3 /\ l[1] = p /\ l[2] = b /\ l[3] = e
    <3>1. /\ l \in Seq(LayoutEntry) /\ Len(l) = Len(s) + Len(t)
          /\ \A i \in 1 .. Len(s) : l[i] = s[i]
          /\ \A i \in 1 .. Len(t) : l[Len(s) + i] = t[i]
      <4>1. s \in Seq(LayoutEntry) /\ t \in Seq(LayoutEntry)
        BY <2>5
      <4> QED
        BY <2>6, <4>1, Concatenation
    <3>2. l[1] = s[1] /\ l[1 + 1] = t[1] /\ l[1 + 2] = t[2] /\ Len(l) = 3
      BY <2>5, <3>1
    <3> QED
      BY <2>5, <3>1, <3>2
  <2>8. l = <<p, b, e>>
    BY <2>7, ThreeEntries
  <2> QED
    BY <2>3, <2>4, <2>6, <2>8
<1>6. PICK l : l = EmptyLayout /\ l = <<p, b, e>>
  BY <1>5
<1>7. /\ l \in Seq(LayoutEntry) /\ Len(l) = 3 /\ DOMAIN l = 1 .. 3
      /\ l[1] = p /\ l[2] = b /\ l[3] = e
  BY <1>4, <1>6
<1>8. ToSet(l) = {p, b, e}
  BY <1>7 DEF ToSet
<1>9. SoundLayout(l)
  <2>1. Paired(l)
    BY <1>3, <1>8, EntriesDiffer DEF Paired
  <2>2. IsInjective(l)
    BY <1>4, <1>7 DEF IsInjective
  <2>3. p.kind = "parm" /\ l # <<>>
    <3>1. p.kind = "parm"
      BY <1>3 DEF Entry
    <3> QED
      BY <1>7, <3>1
  <2> QED
    BY <1>7, <2>1, <2>2, <2>3 DEF SoundLayout, Layouts
<1>10. Known(l, id)
  BY <1>3, <1>8 DEF Known
<1>11. \A x : Entry("parm", x) \in ToSet(l) <=> x = <<>>
  BY <1>3, <1>8, EntriesDiffer
<1>12. ASSUME NEW G, Separate(G, path), NEW h \in G
       PROVE  Placed(l, End(FolderId(h)), h)
  <2>1. ASSUME NEW i \in 1 .. Len(l), l[i] = End(FolderId(h))
        PROVE  Around(l, i) = PathIds(h)
    <3>1. l[i] \in {p, b, e}
      BY <1>7
    <3>2. l[i] = e /\ FolderId(h) = id
      BY <1>3, <2>1, <3>1, EntriesDiffer
    <3>3. i = 3
      BY <1>4, <1>7, <3>2
    <3>4. h = path
      <4>1. 1 \in 1 .. Len(path) /\ FolderId(h) = FolderId(SubSeq(path, 1, 1))
        <5>1. 1 \in 1 .. Len(path)
          BY <1>1
        <5>2. SubSeq(path, 1, 1) = path
          BY <1>2
        <5> QED
          BY <1>3, <3>2, <5>1, <5>2
      <4>2. \A f \in G, n \in 1 .. Len(path) :
              FolderId(f) = FolderId(SubSeq(path, 1, n)) => f = SubSeq(path, 1, n)
        BY <1>12 DEF Separate
      <4> QED
        BY <1>2, <4>1, <4>2
    <3>5. PathIds(h) = {id}
      <4>1. PathIds(path) = {FolderId(SubSeq(path, 1, n)) : n \in 1 .. Len(path)}
        BY <1>1, PathIdsAre
      <4>2. 1 .. Len(path) = {1}
        BY <1>1
      <4> QED
        BY <1>2, <1>3, <3>4, <4>1, <4>2
    <3>6. ASSUME NEW x PROVE x \in Around(l, 3) <=> x = id
      <4>1. x \in Around(l, 3) <=>
              \E j \in 1 .. 3, k \in 3 .. Len(l) : l[j] = Begin(x) /\ l[k] = End(x)
        <5>1. l \in Seq(LayoutEntry) /\ 3 \in 1 .. Len(l)
          BY <1>7
        <5> QED
          BY <5>1, AroundIs
      <4>2. ASSUME NEW j \in 1 .. 3, l[j] = Begin(x) PROVE x = id
        <5>1. l[j] \in {p, b, e}
          BY <1>7
        <5> QED
          BY <1>3, <4>2, <5>1, EntriesDiffer
      <4>3. l[2] = Begin(id) /\ l[3] = End(id) /\ 2 \in 1 .. 3 /\ 3 \in 3 .. Len(l)
        BY <1>3, <1>7
      <4> QED
        BY <4>1, <4>2, <4>3
    <3> QED
      BY <3>3, <3>5, <3>6
  <2> QED
    BY <2>1 DEF Placed
<1> QED
  BY <1>1, <1>3, <1>6, <1>9, <1>10, <1>11, <1>12 DEF EndsPlaced

LEMMA ArrangingExists ==
    ASSUME NEW S, NEW ra \in Seq(S), \A a \in S : IsArrangeable(a)
    PROVE  \E g : IsArranging(g, ra)
<1> DEFINE step == [p \in Layouts \X S |-> AddAttribute(p[1], p[2])]
           n == Len(ra)
<1>1. n \in Nat /\ DOMAIN ra = 1 .. n /\ \A i \in 1 .. n : ra[i] \in S
  OBVIOUS
<1>2. \A x \in Layouts, y \in S : step[<<x, y>>] = AddAttribute(x, y)
  OBVIOUS
<1>3. step \in [Layouts \X S -> Layouts]
  <2>1. \A x \in Layouts, y \in S : AddAttribute(x, y) \in Layouts
    BY ParmEntryClosed DEF AddAttribute, IsArrangeable
  <2> QED
    BY <2>1
<1> HIDE DEF step, n
<1>4. PICK g \in [SUBSET (1 .. n) -> Layouts] : IsFold(g, EmptyLayout, step, ra, n)
  <2>1. EmptyLayout \in Layouts
    BY EmptyLayoutSound DEF SoundLayout
  <2>2. HasFold(Layouts, EmptyLayout, step, ra, n)
    BY <1>1, <1>3, <2>1, FoldExists
  <2> QED
    BY <2>2 DEF HasFold
<1>5. ASSUME NEW s \in SUBSET (1 .. n), s # {}
      PROVE  g[s] = AddAttribute(g[s \ {Max(s)}], ra[Max(s)])
  <2>1. g[s] = step[<<g[s \ {Max(s)}], ra[Max(s)]>>]
    BY <1>4, <1>5 DEF IsFold
  <2>2. Max(s) \in 1 .. n
    BY <1>1, <1>5, MaxOfSomeIndices
  <2>3. g[s \ {Max(s)}] \in Layouts /\ ra[Max(s)] \in S
    BY <1>1, <1>4, <2>2
  <2> QED
    BY <1>2, <2>1, <2>3
<1>6. g[{}] = EmptyLayout
  BY <1>4 DEF IsFold
<1>7. IsArranging(g, ra)
  BY <1>1, <1>4, <1>5, <1>6 DEF IsArranging
<1> QED
  BY <1>7

ParmIdOf(a) == PrimAttr(a.fqName)

(* The arrangement has a parameter for each attribute, once; those whose   *)
(* folders look like no others are in their folders.                       *)
LEMMA LayoutBuilt ==
    ASSUME NEW S, NEW ra \in Seq(S),
           \A a \in S : IsArrangeable(a) /\ Distinct(FoldersOf(a)),
           \A i, j \in DOMAIN ra : ParmIdOf(ra[i]) = ParmIdOf(ra[j]) => i = j,
           NEW G, Separate(G, <<Folder>>), \A a \in S : Separate(G, FoldersOf(a))
    PROVE  LET built == BuildLayout(ra) IN
           /\ SoundLayout(built)
           /\ \A id : Entry("parm", id) \in ToSet(built) <=>
                id = <<>> \/ \E i \in DOMAIN ra : id = ParmIdOf(ra[i])
           /\ \A i \in DOMAIN ra : FoldersOf(ra[i]) \in G =>
                Placed(built, Entry("parm", ParmIdOf(ra[i])), FoldersOf(ra[i]))
<1> DEFINE Parms(l, k) ==
             \A id : Entry("parm", id) \in ToSet(l) <=>
               id = <<>> \/ \E i \in 1 .. k : id = ParmIdOf(ra[i])
           AllPlaced(l, k) ==
             \A i \in 1 .. k : FoldersOf(ra[i]) \in G =>
               Placed(l, Entry("parm", ParmIdOf(ra[i])), FoldersOf(ra[i]))
           Inv(k, l) == /\ SoundLayout(l) /\ Known(l, FolderId(<<Folder>>))
                        /\ EndsPlaced(l, G)
                        /\ Parms(l, k) /\ AllPlaced(l, k)
<1>1. PICK g : IsArranging(g, ra) /\ BuildLayout(ra) = g[DOMAIN ra]
  BY ArrangingExists, ArrangingIsFold
<1>2. PICK n \in Nat : n = Len(ra) /\ DOMAIN ra = 1 .. n /\ \A i \in 1 .. n : ra[i] \in S
  OBVIOUS
<1>3. \A s \in SUBSET (1 .. n) :
        g[s] = IF s = {} THEN EmptyLayout ELSE AddAttribute(g[s \ {Max(s)}], ra[Max(s)])
  BY <1>1, <1>2 DEF IsArranging
<1> DEFINE P == {k \in Nat : k <= n /\ Inv(k, g[1 .. k])}
<1>4. 0 \in P
  <2>1. 1 .. 0 \in SUBSET (1 .. n) /\ 1 .. 0 = {} /\ 0 <= n
    BY <1>2
  <2>2. g[1 .. 0] = EmptyLayout
    BY <1>3, <2>1
  <2>3. Parms(EmptyLayout, 0) /\ AllPlaced(EmptyLayout, 0)
    BY <2>1, EmptyLayoutSound
  <2>4. Inv(0, EmptyLayout)
    BY <2>3, EmptyLayoutSound
  <2> HIDE DEF Inv
  <2> QED
    BY <2>1, <2>2, <2>4
<1>5. ASSUME NEW k \in 0 .. n - 1, k \in P PROVE k + 1 \in P
  <2>1. k \in Nat /\ k + 1 \in 1 .. n /\ k + 1 \in Nat /\ k + 1 <= n
    BY <1>2
  <2>2. PICK l, new, a, id, path :
          /\ l = g[1 .. k] /\ new = g[1 .. k + 1] /\ a = ra[k + 1]
          /\ id = ParmIdOf(a) /\ path = FoldersOf(a)
    OBVIOUS
  <2>3. Inv(k, l)
    BY <1>5, <2>2
  <2> HIDE DEF P
  <2>4. new = AddParmEntry(l, id, path)
    <3>1. /\ 1 .. k + 1 \in SUBSET (1 .. n) /\ 1 .. k + 1 # {}
          /\ Max(1 .. k + 1) = k + 1 /\ (1 .. k + 1) \ {k + 1} = 1 .. k
      BY <1>2, FoldSegments
    <3>2. new = AddAttribute(l, a)
      BY <1>3, <2>2, <3>1
    <3> QED
      BY <2>2, <3>2 DEF AddAttribute, ParmIdOf
  <2>5. /\ a \in S /\ id \in Int \X Int /\ path \in Path /\ Distinct(path) /\ Separate(G, path)
    BY <1>2, <2>1, <2>2 DEF IsArrangeable, ParmIdOf
  <2>6. Known(l, FolderId(SubSeq(path, 1, 1)))
    <3>1. SubSeq(path, 1, 1) = <<Folder>>
      BY <2>2, <2>5, FirstFolder
    <3> QED
      BY <2>3, <3>1
  <2>7. Entry("parm", id) \notin ToSet(l)
    <3>1. id # <<>>
      <4>1. PICK x \in Int, y \in Int : id = <<x, y>>
        BY <2>5
      <4> QED
        BY <4>1
    <3>2. ASSUME NEW i \in 1 .. k, id = ParmIdOf(ra[i]) PROVE FALSE
      <4>1. i \in 1 .. n /\ i # k + 1
        BY <2>1
      <4> QED
        BY <1>2, <2>1, <2>2, <3>2, <4>1
    <3> QED
      BY <2>3, <3>1, <3>2
  <2>8. /\ SoundLayout(l) /\ Known(l, FolderId(<<Folder>>)) /\ EndsPlaced(l, G)
        /\ Parms(l, k) /\ AllPlaced(l, k)
    BY <2>3
  <2> HIDE DEF Parms, AllPlaced, Inv
  <2>9. /\ SoundLayout(new) /\ ToSet(l) \subseteq ToSet(new)
        /\ \A x : Entry("parm", x) \in ToSet(new) <=> Entry("parm", x) \in ToSet(l) \/ x = id
        /\ \A e \in ToSet(l) : \A q : Placed(l, e, q) => Placed(new, e, q)
        /\ EndsPlaced(new, G)
        /\ path \in G => Placed(new, Entry("parm", id), path)
    BY <2>4, <2>5, <2>6, <2>7, <2>8, ParmAdded
  <2>10. Known(new, FolderId(<<Folder>>))
    BY <2>8, <2>9 DEF Known
  <2>11. \A i : i \in 1 .. k + 1 <=> i \in 1 .. k \/ i = k + 1
    BY <2>1
  <2>12. Parms(new, k + 1)
    BY <2>2, <2>8, <2>9, <2>11 DEF Parms
  <2>13. ASSUME NEW i \in 1 .. k + 1, FoldersOf(ra[i]) \in G
         PROVE  Placed(new, Entry("parm", ParmIdOf(ra[i])), FoldersOf(ra[i]))
    <3>1. CASE i \in 1 .. k
      <4>1. Placed(l, Entry("parm", ParmIdOf(ra[i])), FoldersOf(ra[i]))
        BY <2>8, <2>13, <3>1 DEF AllPlaced
      <4>2. Entry("parm", ParmIdOf(ra[i])) \in ToSet(l)
        BY <2>8, <3>1 DEF Parms
      <4> QED
        BY <2>9, <4>1, <4>2
    <3>2. CASE i = k + 1
      BY <2>2, <2>9, <2>13, <3>2
    <3> QED
      BY <2>11, <3>1, <3>2
  <2>14. Inv(k + 1, new)
    BY <2>9, <2>10, <2>12, <2>13 DEF Inv, AllPlaced
  <2> QED
    BY <2>1, <2>2, <2>14 DEF P
<1>6. n \in P
  <2> HIDE DEF P
  <2> QED
    BY <1>2, <1>4, <1>5, StepInduction
<1>7. Inv(n, g[1 .. n])
  BY <1>6
<1> QED
  BY <1>1, <1>2, <1>7

-----------------------------------------------------------------------------
(* getUniqueIdFromFolderVec: a path has a longer name than its starts.     *)

Name == Seq(Int) \ {<<>>}

(* The function in FlattenSeq(s).                                          *)
IsFlat(f, s) ==
    f = [i \in 1 .. Len(s) |-> IF i = 1 THEN s[i] ELSE f[i - 1] \o s[i]]

LEMMA FlattenIs ==
    ASSUME NEW s, Len(s) # 0
    PROVE  FlattenSeq(s) = (CHOOSE f : IsFlat(f, s))[Len(s)]
BY DEF FlattenSeq, IsFlat

LEMMA FlatExists ==
    ASSUME NEW s \in Seq(Name)
    PROVE  \E f : IsFlat(f, s)
<1> DEFINE step == [p \in Seq(Int) \X Name |-> p[1] \o p[2]]
           n == Len(s)
<1>1. n \in Nat /\ DOMAIN s = 1 .. n /\ (\A i \in 1 .. n : s[i] \in Name) /\ <<>> \in Seq(Int)
  OBVIOUS
<1>2. \A x \in Seq(Int), y \in Name : step[<<x, y>>] = x \o y
  OBVIOUS
<1>3. step \in [Seq(Int) \X Name -> Seq(Int)]
  BY DEF Name
<1> HIDE DEF step, n
<1>4. PICK g \in [SUBSET (1 .. n) -> Seq(Int)] : IsFold(g, <<>>, step, s, n)
  <2>1. HasFold(Seq(Int), <<>>, step, s, n)
    BY <1>1, <1>3, FoldExists
  <2> QED
    BY <2>1 DEF HasFold
<1>5. PICK f : f = [i \in 1 .. n |-> g[1 .. i]]
  OBVIOUS
<1>6. ASSUME NEW k \in 0 .. n - 1 PROVE f[k + 1] = g[1 .. k] \o s[k + 1]
  <2>1. /\ 1 .. k + 1 \in SUBSET (1 .. n) /\ 1 .. k + 1 # {}
        /\ Max(1 .. k + 1) = k + 1 /\ (1 .. k + 1) \ {k + 1} = 1 .. k
    BY <1>1, FoldSegments
  <2>2. k + 1 \in 1 .. n /\ 1 .. k \in SUBSET (1 .. n)
    BY <1>1
  <2>3. g[1 .. k + 1] = step[<<g[1 .. k], s[k + 1]>>]
    BY <1>4, <2>1 DEF IsFold
  <2>4. g[1 .. k] \in Seq(Int) /\ s[k + 1] \in Name
    BY <1>1, <1>4, <2>2
  <2> QED
    BY <1>2, <1>5, <2>2, <2>3, <2>4
<1>7. ASSUME NEW i \in 1 .. n
      PROVE  f[i] = IF i = 1 THEN s[i] ELSE f[i - 1] \o s[i]
  <2>1. i - 1 \in 0 .. n - 1 /\ i = (i - 1) + 1
    BY <1>1
  <2>2. f[i] = g[1 .. (i - 1)] \o s[i]
    BY <1>6, <2>1
  <2>3. CASE i = 1
    <3>1. 1 .. (i - 1) = {}
      BY <2>3
    <3>2. g[1 .. (i - 1)] = <<>>
      BY <1>4, <3>1 DEF IsFold
    <3>3. PICK name : name = s[i] /\ name \in Seq(Int)
      BY <1>1 DEF Name
    <3>4. <<>> \o name = name
      BY <3>3
    <3> QED
      BY <2>2, <2>3, <3>2, <3>3, <3>4
  <2>4. CASE i # 1
    <3>1. i - 1 \in 1 .. n
      BY <1>1, <2>4
    <3> QED
      BY <1>5, <2>2, <2>4, <3>1
  <2> QED
    BY <2>3, <2>4
<1>8. f = [i \in 1 .. n |-> IF i = 1 THEN s[i] ELSE f[i - 1] \o s[i]]
  BY <1>5, <1>7
<1> QED
  BY <1>8 DEF IsFlat, n

FlatUpTo(f, s, n) ==
    \A i \in 1 .. n : f[i] = IF i = 1 THEN s[i] ELSE f[i - 1] \o s[i]

LEMMA Increasing ==
    ASSUME NEW n \in Nat, NEW len, \A i \in 1 .. n : len[i] \in Nat,
           \A i \in 1 .. n : i > 1 => len[i - 1] < len[i]
    PROVE  \A i, j \in 1 .. n : i < j => len[i] < len[j]
<1> DEFINE P == {k \in Nat : \A i, j \in 1 .. n : i < j /\ j <= k => len[i] < len[j]}
<1>1. 0 \in P
  OBVIOUS
<1>2. ASSUME NEW k \in 0 .. n - 1, k \in P PROVE k + 1 \in P
  <2>1. ASSUME NEW i \in 1 .. n, NEW j \in 1 .. n, i < j, j <= k + 1
        PROVE  len[i] < len[j]
    <3>1. CASE j <= k
      BY <1>2, <2>1, <3>1
    <3>2. CASE ~(j <= k)
      <4>1. j = k + 1 /\ j > 1 /\ j - 1 = k /\ k \in 1 .. n
        BY <2>1, <3>2
      <4>2. len[k] < len[j]
        BY <4>1
      <4>3. i = k \/ len[i] < len[k]
        BY <1>2, <2>1, <4>1
      <4> QED
        BY <4>1, <4>2, <4>3
    <3> QED
      BY <3>1, <3>2
  <2> QED
    BY <2>1
<1>3. n \in P
  <2> HIDE DEF P
  <2> QED
    BY <1>1, <1>2, StepInduction
<1> QED
  BY <1>3

LEMMA FlatTyped ==
    ASSUME NEW n \in Nat, NEW s, \A i \in 1 .. n : s[i] \in Name, NEW f, FlatUpTo(f, s, n)
    PROVE  \A i \in 1 .. n : f[i] \in Seq(Int)
<1>0. \A i \in 1 .. n : f[i] = IF i = 1 THEN s[i] ELSE f[i - 1] \o s[i]
  BY DEF FlatUpTo
<1> DEFINE P == {k \in Nat : \A i \in 1 .. n : i <= k => f[i] \in Seq(Int)}
<1>1. 0 \in P
  OBVIOUS
<1>2. ASSUME NEW k \in 0 .. n - 1, k \in P PROVE k + 1 \in P
  <2>1. k + 1 \in 1 .. n
    OBVIOUS
  <2>2. f[k + 1] \in Seq(Int)
    <3>1. PICK name : name = s[k + 1] /\ name \in Seq(Int)
      BY <2>1 DEF Name
    <3>2. CASE k = 0
      BY <1>0, <2>1, <3>1, <3>2
    <3>3. CASE k # 0
      <4>1. k \in 1 .. n /\ (k + 1) - 1 = k /\ k + 1 # 1
        BY <2>1, <3>3
      <4>2. f[k] \in Seq(Int)
        BY <1>2, <4>1
      <4>3. f[k + 1] = f[k] \o name
        BY <1>0, <2>1, <3>1, <4>1
      <4> QED
        BY <3>1, <4>2, <4>3, Concatenation
    <3> QED
      BY <3>2, <3>3
  <2>3. \A i \in 1 .. n : i <= k + 1 => i <= k \/ i = k + 1
    BY <2>1
  <2> QED
    BY <1>2, <2>2, <2>3
<1>3. n \in P
  <2> HIDE DEF P
  <2> QED
    BY <1>1, <1>2, StepInduction
<1> QED
  BY <1>3

(* The names of the starts of a sequence become longer and longer.         *)
LEMMA FlatGrows ==
    ASSUME NEW n \in Nat, NEW s, \A i \in 1 .. n : s[i] \in Name, NEW f, FlatUpTo(f, s, n)
    PROVE  \A i, j \in 1 .. n : f[i] = f[j] => i = j
<1>0. \A i \in 1 .. n : f[i] = IF i = 1 THEN s[i] ELSE f[i - 1] \o s[i]
  BY DEF FlatUpTo
<1>1. \A i \in 1 .. n : f[i] \in Seq(Int)
  BY FlatTyped
<1>2. PICK len : len = [i \in 1 .. n |-> Len(f[i])]
  OBVIOUS
<1>3. \A i \in 1 .. n : len[i] = Len(f[i]) /\ len[i] \in Nat
  BY <1>1, <1>2
<1>4. ASSUME NEW i \in 1 .. n, i > 1 PROVE len[i - 1] < len[i]
  <2>1. PICK name : name = s[i] /\ name \in Seq(Int) /\ Len(name) > 0
    BY DEF Name
  <2>2. i - 1 \in 1 .. n /\ f[i] = f[i - 1] \o name
    <3>1. i - 1 \in 1 .. n /\ i # 1
      BY <1>4
    <3> QED
      BY <1>0, <2>1, <3>1
  <2>3. Len(f[i]) = Len(f[i - 1]) + Len(name) /\ Len(name) \in Nat
    BY <1>1, <2>1, <2>2, Concatenation
  <2> QED
    <3>1. len[i] = len[i - 1] + Len(name) /\ len[i - 1] \in Nat
      BY <1>3, <2>2, <2>3
    <3> QED
      BY <2>1, <2>3, <3>1
<1>5. \A i, j \in 1 .. n : i < j => len[i] < len[j]
  BY <1>3, <1>4, Increasing
<1>6. ASSUME NEW i \in 1 .. n, NEW j \in 1 .. n, f[i] = f[j] PROVE i = j
  <2>1. len[i] = len[j] /\ len[i] \in Nat
    BY <1>3, <1>6
  <2>2. ~(i < j) /\ ~(j < i)
    BY <1>5, <2>1
  <2> QED
    BY <2>2
<1> QED
  BY <1>6

(* What is flattened of a start is what is flattened of all, up to there.  *)
LEMMA FlatStarts ==
    ASSUME NEW n \in Nat, NEW s, NEW f, NEW h,
           FlatUpTo(f, s, n), FlatUpTo(h, s, n)
    PROVE  \A i \in 1 .. n : f[i] = h[i]
<1>0. /\ \A i \in 1 .. n : f[i] = IF i = 1 THEN s[i] ELSE f[i - 1] \o s[i]
      /\ \A i \in 1 .. n : h[i] = IF i = 1 THEN s[i] ELSE h[i - 1] \o s[i]
  BY DEF FlatUpTo
<1> DEFINE P == {k \in Nat : \A i \in 1 .. n : i <= k => f[i] = h[i]}
<1>1. 0 \in P
  OBVIOUS
<1>2. ASSUME NEW k \in 0 .. n - 1, k \in P PROVE k + 1 \in P
  <2>1. k + 1 \in 1 .. n
    OBVIOUS
  <2>2. f[k + 1] = h[k + 1]
    <3>1. CASE k = 0
      BY <1>0, <2>1, <3>1
    <3>2. CASE k # 0
      <4>1. k \in 1 .. n /\ (k + 1) - 1 = k /\ k + 1 # 1
        BY <2>1, <3>2
      <4>2. f[k] = h[k]
        BY <1>2, <4>1
      <4> QED
        BY <1>0, <2>1, <4>1, <4>2
    <3> QED
      BY <3>1, <3>2
  <2>3. \A i \in 1 .. n : i <= k + 1 => i <= k \/ i = k + 1
    BY <2>1
  <2> QED
    BY <1>2, <2>2, <2>3
<1>3. n \in P
  <2> HIDE DEF P
  <2> QED
    BY <1>1, <1>2, StepInduction
<1> QED
  BY <1>3

PartsOf(path) == [i \in DOMAIN path |-> Parts[path[i]]]

LEMMA NamesOfStarts ==
    ASSUME NEW path \in Path, \A i \in DOMAIN path : Parts[path[i]] \in Name
    PROVE  Distinct(path)
<1>1. PICK n \in Nat : /\ n = Len(path) /\ DOMAIN path = 1 .. n /\ n >= 1
                       /\ path \in Seq(Int)
  BY DEF Path
<1>2. PICK s : s = PartsOf(path)
  OBVIOUS
<1>3. \A i \in 1 .. n : s[i] = Parts[path[i]] /\ s[i] \in Name
  BY <1>1, <1>2 DEF PartsOf
<1>4. s = [i \in 1 .. n |-> s[i]]
  BY <1>1, <1>2 DEF PartsOf
<1>5. s \in Seq(Name) /\ Len(s) = n
  BY <1>3, <1>4, ElementsMakeSeq
<1>6. PICK f : IsFlat(f, s)
  BY <1>5, FlatExists
<1>7. FlatUpTo(f, s, n)
  BY <1>5, <1>6 DEF IsFlat, FlatUpTo
<1>8. ASSUME NEW m \in 1 .. n PROVE FolderId(SubSeq(path, 1, m)) = f[m]
  <2>1. PICK start : start = SubSeq(path, 1, m)
    OBVIOUS
  <2>2. /\ m \in Nat /\ start \in Seq(Int) /\ DOMAIN start = 1 .. m
        /\ \A i \in 1 .. m : start[i] = path[i] /\ i \in 1 .. n
    BY <1>1, <2>1
  <2>3. PICK t : t = PartsOf(start)
    OBVIOUS
  <2>4. t = [i \in 1 .. m |-> t[i]] /\ \A i \in 1 .. m : t[i] = s[i] /\ t[i] \in Name
    BY <1>3, <2>2, <2>3 DEF PartsOf
  <2>5. t \in Seq(Name) /\ Len(t) = m
    BY <2>2, <2>4, ElementsMakeSeq
  <2>6. PICK h : IsFlat(h, t) /\ FlattenSeq(t) = h[m]
    <3>1. Len(t) # 0
      BY <2>5
    <3> QED
      BY <2>5, <3>1, FlatExists, FlattenIs
  <2>7. FlatUpTo(h, s, m)
    BY <2>4, <2>5, <2>6 DEF IsFlat, FlatUpTo
  <2>8. FlatUpTo(f, s, m)
    BY <1>7, <2>2 DEF FlatUpTo
  <2>9. m \in 1 .. m
    OBVIOUS
  <2>10. f[m] = h[m]
    <3>1. m \in Nat
      BY <2>2
    <3>2. \A i \in 1 .. m : f[i] = h[i]
      BY <2>7, <2>8, <3>1, FlatStarts
    <3> QED
      BY <2>9, <3>2
  <2> QED
    <3>1. FolderId(start) = FlattenSeq(t)
      BY <2>3 DEF FolderId, PartsOf
    <3> QED
      <4>1. FolderId(start) = h[m]
        BY <2>6, <3>1
      <4> QED
        BY <2>1, <2>10, <4>1
<1>9. \A i, j \in 1 .. n : f[i] = f[j] => i = j
  BY <1>3, <1>7, FlatGrows
<1> QED
  BY <1>1, <1>8, <1>9 DEF Distinct

-----------------------------------------------------------------------------
(* The arrangements that a node can have.                                  *)

LEMMA AttributeArrangeable ==
    ASSUME NEW p \in Packages, NEW a \in ToSet(SortedAttributes[p])
    PROVE  IsArrangeable(a) /\ Distinct(FoldersOf(a))
<1>1. PICK info : info = RuleFile[p]
  OBVIOUS
<1>2. PICK d \in ToSet(info.attributes) : IsVisible(d) /\ IsOf(a, info, d)
  BY <1>1, AttributesDeclared
<1>3. PICK decl :
        /\ decl = Declared(info, d)
        /\ decl \in Attribute([style : Int, prefix : Int, name : Int], Types)
  <2>1. /\ info.attributes \in Seq(ToSet(info.attributes))
        /\ WellFormed(info, [style : Int, prefix : Int, name : Int], Types)
    BY <1>1, SoundRuleFiles
  <2>2. PICK i \in DOMAIN info.attributes : d = info.attributes[i]
    BY <2>1, ElementsOf
  <2> QED
    BY <1>2, <2>1, <2>2 DEF WellFormed
<1>4. /\ decl.fqName \in [style : Int, prefix : Int, name : Int]
      /\ decl.groups \in Seq(Int) /\ decl.ruleFile \in Int
  BY <1>3 DEF Attribute
<1>5. decl.fqName = a.fqName /\ decl.groups = a.groups /\ decl.ruleFile = a.ruleFile
  BY <1>2, <1>3 DEF Declared, IsOf
<1>6. PrimAttr(a.fqName) \in Int \X Int
  BY <1>4, <1>5 DEF PrimAttr
<1>7. FoldersOf(a) \in Path
  <2>1. PICK s, t : s = <<Folder, a.ruleFile>> /\ t = a.groups
    OBVIOUS
  <2>2. s \in Seq(Int) /\ Len(s) = 2 /\ t \in Seq(Int)
    <3>1. Folder \in Int /\ a.ruleFile \in Int /\ a.groups \in Seq(Int)
      BY <1>4, <1>5, FolderPath
    <3> QED
      BY <2>1, <3>1
  <2>3. s \o t \in Seq(Int) /\ Len(s \o t) = Len(s) + Len(t) /\ Len(t) \in Nat
    <3>1. s \in Seq(Int) /\ t \in Seq(Int) /\ Len(t) \in Nat
      BY <2>2
    <3> QED
      BY <3>1, Concatenation
  <2>4. s \o t # <<>>
    BY <2>2, <2>3
  <2> QED
    BY <2>1, <2>3, <2>4 DEF FoldersOf, Path
<1>8. Distinct(FoldersOf(a))
  <2>1. \A i \in DOMAIN FoldersOf(a) : FoldersOf(a)[i] \in ToSet(FoldersOf(a))
    BY DEF ToSet
  <2>2. \A i \in DOMAIN FoldersOf(a) : Parts[FoldersOf(a)[i]] \in Name
    BY <2>1, FolderNames DEF Name
  <2> QED
    BY <1>7, <2>2, NamesOfStarts
<1> QED
  BY <1>6, <1>7, <1>8 DEF IsArrangeable

(* No two attributes have a parameter in common.                           *)
LEMMA ParmPerAttribute ==
    ASSUME NEW p \in Packages, NEW i \in DOMAIN SortedAttributes[p],
           NEW j \in DOMAIN SortedAttributes[p],
           ParmIdOf(SortedAttributes[p][i]) = ParmIdOf(SortedAttributes[p][j])
    PROVE  i = j
<1>1. PICK info, ra : info = RuleFile[p] /\ ra = SortedAttributes[p]
  OBVIOUS
<1>2. ra = GetRuleAttributes(info)
  BY <1>1 DEF SortedAttributes
<1>3. /\ info.attributes \in Seq(ToSet(info.attributes))
      /\ WellFormed(info, [style : Int, prefix : Int, name : Int], Types)
  BY <1>1, SoundRuleFiles
<1>4. PICK S : /\ ra \in Seq(S) /\ Sorted(ra)
               /\ \A a, b \in S : IsRuleAttribute(a) /\ Consistent(a, b)
  BY <1>2, <1>3, RuleAttributesSorted
<1>5. i \in Nat /\ j \in Nat /\ ra[i] \in S /\ ra[j] \in S
  BY <1>1, <1>4
<1>6. ra[i] \in ToSet(ra) /\ ra[j] \in ToSet(ra)
  BY <1>1, <1>4, ElementsOf
<1>7. PICK d \in ToSet(info.attributes) : IsVisible(d) /\ IsOf(ra[i], info, d)
  BY <1>1, <1>6, AttributesDeclared
<1>8. PICK e \in ToSet(info.attributes) : IsVisible(e) /\ IsOf(ra[j], info, e)
  BY <1>1, <1>6, AttributesDeclared
<1>9. d = e
  <2>1. <<d.prefix, d.name>> = <<e.prefix, e.name>>
    BY <1>1, <1>7, <1>8 DEF IsOf, FqName, ParmIdOf, PrimAttr
  <2>2. d.prefix = e.prefix /\ d.name = e.name
    BY <2>1
  <2> QED
    BY <1>1, <2>2, SoundRuleFiles
<1>10. /\ ra[i].ruleFile = ra[j].ruleFile /\ ra[i].groups = ra[j].groups
       /\ ra[i].order = ra[j].order /\ ra[i].niceName = ra[j].niceName
  BY <1>7, <1>8, <1>9 DEF IsOf
<1>11. ~Before(ra[i], ra[j]) /\ ~Before(ra[j], ra[i])
  <2>1. IsRuleAttribute(ra[i]) /\ IsRuleAttribute(ra[j]) /\ Consistent(ra[i], ra[j])
    BY <1>4, <1>5
  <2> QED
    BY <1>10, <2>1, Indistinguishable
<1>12. ~(i < j) /\ ~(j < i)
  BY <1>1, <1>4, <1>11 DEF Sorted
<1> QED
  BY <1>5, <1>12

(* Each package's arrangement has the parameters of its attributes and the *)
(* first one, once, and those whose folders are like none of G are placed. *)
LEMMA PackageLayout ==
    ASSUME NEW p \in Packages, NEW G, Separate(G, <<Folder>>),
           \A a \in ToSet(SortedAttributes[p]) : Separate(G, FoldersOf(a))
    PROVE  LET ra == SortedAttributes[p]
               built == Layout[p]
           IN
           /\ SoundLayout(built)
           /\ \A id : Entry("parm", id) \in ToSet(built) <=>
                id = <<>> \/ \E a \in ToSet(ra) : id = PrimAttr(a.fqName)
           /\ \A a \in ToSet(ra) : FoldersOf(a) \in G =>
                Placed(built, Entry("parm", PrimAttr(a.fqName)), FoldersOf(a))
<1>1. PICK ra, built : ra = SortedAttributes[p] /\ built = BuildLayout(ra) /\ built = Layout[p]
  BY DEF Layout
<1>2. ra \in Seq(ToSet(ra))
  BY <1>1, AttributesDeclared
<1>3. \A a \in ToSet(ra) : IsArrangeable(a) /\ Distinct(FoldersOf(a))
  BY <1>1, AttributeArrangeable
<1>4. \A i, j \in DOMAIN ra : ParmIdOf(ra[i]) = ParmIdOf(ra[j]) => i = j
  BY <1>1, ParmPerAttribute
<1>5. \A a \in ToSet(ra) : Separate(G, FoldersOf(a))
  BY <1>1
<1>6. /\ SoundLayout(built)
      /\ \A id : Entry("parm", id) \in ToSet(built) <=>
           id = <<>> \/ \E i \in DOMAIN ra : id = ParmIdOf(ra[i])
      /\ \A i \in DOMAIN ra : FoldersOf(ra[i]) \in G =>
           Placed(built, Entry("parm", ParmIdOf(ra[i])), FoldersOf(ra[i]))
  <2>1. PICK S : S = ToSet(ra)
    OBVIOUS
  <2>2. ra \in Seq(S) /\ \A a \in S : IsArrangeable(a) /\ Distinct(FoldersOf(a))
    BY <1>2, <1>3, <2>1
  <2>3. \A a \in S : Separate(G, FoldersOf(a))
    BY <1>5, <2>1
  <2> QED
    <3>1. \A i, j \in DOMAIN ra : ParmIdOf(ra[i]) = ParmIdOf(ra[j]) => i = j
      BY <1>4
    <3>2. PICK l : l = BuildLayout(ra)
      OBVIOUS
    <3>3. /\ SoundLayout(l)
          /\ \A id : Entry("parm", id) \in ToSet(l) <=>
               id = <<>> \/ \E i \in DOMAIN ra : id = ParmIdOf(ra[i])
          /\ \A i \in DOMAIN ra : FoldersOf(ra[i]) \in G =>
               Placed(l, Entry("parm", ParmIdOf(ra[i])), FoldersOf(ra[i]))
      BY <2>2, <2>3, <3>1, <3>2, LayoutBuilt
    <3> QED
      BY <1>1, <3>2, <3>3
<1>7. /\ \A a \in ToSet(ra) : \E i \in DOMAIN ra : a = ra[i]
      /\ \A i \in DOMAIN ra : ra[i] \in ToSet(ra)
  BY <1>2, ElementsOf
<1>8. ASSUME NEW id
      PROVE  (\E i \in DOMAIN ra : id = ParmIdOf(ra[i]))
               <=> \E a \in ToSet(ra) : id = PrimAttr(a.fqName)
  BY <1>7 DEF ParmIdOf
<1>9. ASSUME NEW a \in ToSet(ra), FoldersOf(a) \in G
      PROVE  Placed(built, Entry("parm", PrimAttr(a.fqName)), FoldersOf(a))
  BY <1>6, <1>7, <1>9 DEF ParmIdOf
<1> QED
  BY <1>1, <1>6, <1>8, <1>9

LEMMA StartsOfStarts ==
    ASSUME NEW path \in Path
    PROVE  \A m \in 1 .. Len(path) : \A f : f = SubSeq(path, 1, m) =>
             /\ f \in Seq(Int) /\ Len(f) = m /\ f # <<>>
             /\ \A n \in 0 .. m : SubSeq(f, 1, n) = SubSeq(path, 1, n)
<1>1. path \in Seq(Int)
  BY DEF Path
<1>2. ASSUME NEW m \in 1 .. Len(path), NEW f, f = SubSeq(path, 1, m)
      PROVE  /\ f \in Seq(Int) /\ Len(f) = m /\ f # <<>>
             /\ \A n \in 0 .. m : SubSeq(f, 1, n) = SubSeq(path, 1, n)
  <2>1. path \in Seq(Int) /\ m \in 1 .. Len(path) /\ f = SubSeq(path, 1, m)
    BY <1>1, <1>2
  <2>2. f \in Seq(Int) /\ Len(f) = m
    BY <2>1, PathSteps
  <2>3. f # <<>>
    BY <2>1, PathSteps
  <2>4. ASSUME NEW n \in 0 .. m PROVE SubSeq(f, 1, n) = SubSeq(path, 1, n)
    BY <2>1, PathSteps
  <2> QED
    BY <2>2, <2>3, <2>4
<1> QED
  BY <1>2

(* The folders of an attribute that is like no other.                      *)
LEMMA OwnFolders ==
    ASSUME NEW p \in Packages, NEW a \in ToSet(SortedAttributes[p]), NEW G,
           G = Prefixes(FoldersOf(a)) \ {<<>>},
           \A b \in ToSet(SortedAttributes[p]) :
             \A f \in G, g \in Prefixes(FoldersOf(b)) \ {<<>>} : FolderId(f) = FolderId(g) => f = g
    PROVE  /\ Separate(G, <<Folder>>) /\ FoldersOf(a) \in G
           /\ \A b \in ToSet(SortedAttributes[p]) : Separate(G, FoldersOf(b))
<1>1. PICK path : path = FoldersOf(a) /\ path \in Path /\ path \in Seq(Int) /\ Len(path) \in Nat
                  /\ Len(path) >= 1
  BY AttributeArrangeable DEF IsArrangeable, Path
<1>2. ASSUME NEW s \in Path, NEW n \in 1 .. Len(s)
      PROVE  SubSeq(s, 1, n) \in Prefixes(s) \ {<<>>}
  <2>1. s \in Seq(Int) /\ n \in 0 .. Len(s)
    BY DEF Path
  <2>2. SubSeq(s, 1, n) # <<>>
    BY <2>1, PathSteps
  <2> QED
    BY <2>1, <2>2 DEF Prefixes
<1>3. ASSUME NEW f \in G
      PROVE  \E n \in 1 .. Len(path) : f = SubSeq(path, 1, n)
  <2>1. PICK n \in 0 .. Len(path) : f = SubSeq(path, 1, n) /\ f # <<>>
    BY <1>1 DEF Prefixes
  <2>2. n # 0
    BY <1>1, <2>1
  <2> QED
    BY <1>1, <2>1, <2>2
<1>4. path \in G
  <2>1. Len(path) \in 1 .. Len(path)
    BY <1>1
  <2>2. PICK f : f = SubSeq(path, 1, Len(path))
    OBVIOUS
  <2>3. f = path
    BY <1>1, <2>1, <2>2, PathSteps
  <2>4. f \in Prefixes(path) \ {<<>>}
    BY <1>1, <1>2, <2>1, <2>2
  <2> QED
    BY <1>1, <2>3, <2>4
<1>5. \A m \in 1 .. Len(path) : \A f : f = SubSeq(path, 1, m) =>
        /\ f \in Seq(Int) /\ Len(f) = m /\ f # <<>>
        /\ \A n \in 0 .. m : SubSeq(f, 1, n) = SubSeq(path, 1, n)
  BY <1>1, StartsOfStarts
<1>6. ASSUME NEW f \in G
      PROVE  f \in Path /\ \A n \in 1 .. Len(f) : SubSeq(f, 1, n) \in G
  <2>1. PICK m \in 1 .. Len(path) : f = SubSeq(path, 1, m)
    BY <1>3
  <2>2. f \in Seq(Int) /\ Len(f) = m /\ f # <<>>
        /\ \A n \in 0 .. m : SubSeq(f, 1, n) = SubSeq(path, 1, n)
    BY <1>5, <2>1
  <2>3. ASSUME NEW n \in 1 .. Len(f) PROVE SubSeq(f, 1, n) \in G
    <3>1. n \in 0 .. m /\ n \in 1 .. Len(path)
      BY <1>1, <2>2
    <3>2. SubSeq(path, 1, n) \in G
      BY <1>1, <1>2, <3>1
    <3> QED
      BY <2>2, <3>1, <3>2
  <2> QED
    BY <2>2, <2>3 DEF Path
<1>7. ASSUME NEW b \in ToSet(SortedAttributes[p]) PROVE Separate(G, FoldersOf(b))
  <2>1. FoldersOf(b) \in Path
    BY AttributeArrangeable DEF IsArrangeable
  <2>2. \A n \in 1 .. Len(FoldersOf(b)) :
          SubSeq(FoldersOf(b), 1, n) \in Prefixes(FoldersOf(b)) \ {<<>>}
    BY <1>2, <2>1
  <2> QED
    BY <1>6, <2>2 DEF Separate
<1>8. Separate(G, <<Folder>>)
  <2>1. ASSUME NEW f \in G, NEW n \in 1 .. Len(<<Folder>>),
               FolderId(f) = FolderId(SubSeq(<<Folder>>, 1, n))
        PROVE  f = SubSeq(<<Folder>>, 1, n)
    <3>1. n = 1
      BY FolderPath
    <3>2. SubSeq(<<Folder>>, 1, n) = SubSeq(path, 1, 1)
      BY <1>1, <3>1, FirstFolder, FolderPath
    <3>3. 1 \in 1 .. Len(path)
      BY <1>1
    <3> QED
      BY <1>1, <1>7, <2>1, <3>2, <3>3 DEF Separate
  <2> QED
    BY <1>6, <2>1 DEF Separate
<1> QED
  BY <1>1, <1>4, <1>7, <1>8

(* An entry that is there is at one place.                                 *)
LEMMA OnePlace ==
    ASSUME NEW l, SoundLayout(l), NEW e \in ToSet(l)
    PROVE  Cardinality({i \in DOMAIN l : l[i] = e}) = 1
<1>1. PICK i \in DOMAIN l : l[i] = e
  BY DEF ToSet
<1>2. \A j \in DOMAIN l : l[j] = e => j = i
  BY <1>1 DEF SoundLayout, IsInjective
<1>3. {j \in DOMAIN l : l[j] = e} = {i}
  BY <1>1, <1>2
<1> QED
  BY <1>3, FS_Singleton

(* For any package: no attribute of its rule file is lost on the way to    *)
(* the parameters, no parameter is there twice, and each is in the folders *)
(* of its file and its groups.                                             *)
LEMMA NoneLost ==
    ASSUME rpk \in Packages
    PROVE  NoAttributeLost
<1> DEFINE ra == SortedAttributes[rpk]
           built == Layout[rpk]
           at(a) == {i \in DOMAIN built : built[i] = Entry("parm", PrimAttr(a.fqName))}
           folders(a) == Prefixes(FoldersOf(a)) \ {<<>>}
           alike(a) == \E b \in ToSet(ra) : \E f \in folders(a), g \in folders(b) :
                         f # g /\ FolderId(f) = FolderId(g)
<1>2. {a.fqName : a \in ToSet(ra)}
        = {FqName(d) : d \in {e \in ToSet(Info.attributes) : IsVisible(e)}}
  BY AttributesComplete DEF Info
<1>3. ASSUME NEW a \in ToSet(ra) PROVE Cardinality(at(a)) = 1
  <2>1. \A path : Separate({}, path)
    BY DEF Separate
  <2>2. SoundLayout(built) /\ Entry("parm", PrimAttr(a.fqName)) \in ToSet(built)
    BY <2>1, PackageLayout
  <2> QED
    BY <2>2, OnePlace
<1>4. ASSUME NEW a \in ToSet(ra), ~alike(a), NEW i \in at(a)
      PROVE  Around(built, i) = {FolderId(f) : f \in folders(a)}
  <2>1. PICK G : G = folders(a)
    OBVIOUS
  <2>2. \A b \in ToSet(ra) : \A f \in G, g \in Prefixes(FoldersOf(b)) \ {<<>>} :
          FolderId(f) = FolderId(g) => f = g
    BY <1>4, <2>1
  <2>3. /\ Separate(G, <<Folder>>) /\ FoldersOf(a) \in G
        /\ \A b \in ToSet(ra) : Separate(G, FoldersOf(b))
    BY <2>1, <2>2, OwnFolders
  <2>4. /\ SoundLayout(built)
        /\ Placed(built, Entry("parm", PrimAttr(a.fqName)), FoldersOf(a))
    BY <2>3, PackageLayout
  <2>5. i \in 1 .. Len(built)
    BY <2>4 DEF SoundLayout, Layouts
  <2>6. Around(built, i) = PathIds(FoldersOf(a))
    BY <2>4, <2>5 DEF Placed
  <2> QED
    BY <2>6 DEF PathIds
<1>5. ASSUME NEW a \in ToSet(ra), NEW i \in at(a)
      PROVE  alike(a) \/ Around(built, i) = {FolderId(f) : f \in folders(a)}
  BY <1>4
<1> QED
  BY <1>2, <1>3, <1>5 DEF NoAttributeLost, Around

(* The parameters that buildUI arranges are those of all attributes, in    *)
(* their folders, in every state and whatever packages there are.          *)
THEOREM NoAttributeLostHolds == Spec => []NoAttributeLost
<1>1. IInv => NoAttributeLost
  BY NoneLost DEF IInv
<1> QED
  BY <1>1, InductiveInvariant, PTL

-----------------------------------------------------------------------------
(* Types.                                                                  *)

(* The arranged parameters are those that the node has, and the first one. *)
Arranged(l) == {l[i].id : i \in {j \in DOMAIN l : l[j].kind = "parm"}}

LayoutOK == Arranged(layout) = IF layout = <<>> THEN {} ELSE DOMAIN parms \cup {<<>>}

LEMMA ArrangedIs ==
    ASSUME NEW l \in Seq(LayoutEntry), NEW id
    PROVE  id \in Arranged(l) <=> Entry("parm", id) \in ToSet(l)
<1>1. \A e \in LayoutEntry : e.kind = "parm" /\ e.id = id <=> e = Entry("parm", id)
  BY DEF LayoutEntry, Entry
<1>2. \A i \in DOMAIN l : l[i] \in LayoutEntry
  OBVIOUS
<1> QED
  BY <1>1, <1>2 DEF Arranged, ToSet

LEMMA CookArranges ==
    ASSUME IInv, LayoutOK, Cook
    PROVE  LayoutOK'
<1>1. PICK values : /\ values = Evaluate(Overrides) /\ ValuesOK(values)
                    /\ parms' = UpdateUIDefaultValues(Built(values), values)
  BY CookSteps
<1>2. PICK built : built = Built(values)
  OBVIOUS
<1>3. DOMAIN parms' = DOMAIN built
  BY <1>1, <1>2 DEF UpdateUIDefaultValues
<1>4. CASE CompareAttributeTypes(SortedAttributes[rpk])
  <2>1. built = parms /\ layout' = layout
    BY <1>2, <1>4 DEF Built, Cook
  <2> QED
    BY <1>3, <2>1 DEF LayoutOK, Arranged
<1>5. CASE ~CompareAttributeTypes(SortedAttributes[rpk])
  <2>1. PICK ra, l : ra = SortedAttributes[rpk] /\ l = Layout[rpk]
    OBVIOUS
  <2>2. layout' = l /\ built = BuildParms(ra, values)
    BY <1>2, <1>5, <2>1 DEF Built, Cook
  <2>3. DOMAIN built = {PrimAttr(a.fqName) : a \in ToSet(ra)}
    BY <2>2 DEF BuildParms
  <2>4. \A path : Separate({}, path)
    BY DEF Separate
  <2>5. /\ SoundLayout(l)
        /\ \A id : Entry("parm", id) \in ToSet(l) <=>
             id = <<>> \/ \E a \in ToSet(ra) : id = PrimAttr(a.fqName)
    BY <2>1, <2>4, PackageLayout DEF IInv
  <2>6. l \in Seq(LayoutEntry) /\ l # <<>>
    BY <2>5 DEF SoundLayout, Layouts
  <2>7. \A id : id \in Arranged(l) <=> id \in DOMAIN built \cup {<<>>}
    BY <2>3, <2>5, <2>6, ArrangedIs
  <2>8. Arranged(layout') = DOMAIN parms' \cup {<<>>}
    BY <1>3, <2>2, <2>7
  <2>9. layout' # <<>>
    BY <2>2, <2>6
  <2> QED
    BY <2>8, <2>9 DEF LayoutOK, Arranged
<1> QED
  BY <1>4, <1>5

LEMMA LayoutInvariant == Spec => []LayoutOK
<1>1. Init => LayoutOK
  BY DEF Init, LayoutOK, Arranged
<1>2. IInv /\ LayoutOK /\ [Next]_vars => LayoutOK'
  <2> SUFFICES ASSUME IInv, LayoutOK, [Next]_vars PROVE LayoutOK'
    OBVIOUS
  <2>1. CASE Cook
    BY <2>1, CookArranges
  <2>2. CASE CookFails
    BY <2>2 DEF CookFails, LayoutOK, Arranged
  <2>3. CASE User
    <3>1. DOMAIN parms' = DOMAIN parms /\ UNCHANGED layout
      BY <2>3, UserKeeps
    <3> QED
      BY <3>1 DEF LayoutOK, Arranged
  <2>4. CASE UNCHANGED vars
    BY <2>4 DEF vars, LayoutOK, Arranged
  <2> QED
    BY <2>1, <2>2, <2>3, <2>4 DEF Next
<1> QED
  BY <1>1, <1>2, InductiveInvariant, PTL DEF Spec

(* A menu shows an option, a parameter that is no list has one value, a    *)
(* parameter is of a declared attribute, and the arranged parameters are   *)
(* those that the node has.                                                *)
THEOREM TypeCorrect == Spec => []TypeOK
<1>1. IInv /\ LayoutOK => TypeOK
  <2> SUFFICES ASSUME IInv, LayoutOK PROVE TypeOK
    OBVIOUS
  <2>1. ASSUME NEW id \in DOMAIN parms
        PROVE  LET parm == parms[id] IN
               /\ id \in Ids
               /\ parm.kind \in Kinds
               /\ Len(parm.value) = Len(parm.default)
               /\ parm.kind \notin Lists => Len(parm.value) = 1 /\ parm.count = 1
               /\ parm.kind \in Menus => parm.value[1] \in 0 .. Len(parm.options) - 1
    <3>1. PICK parm : parm = parms[id] /\ ParmOK(parm) /\ IsFor(id, parm.kind)
      BY DEF IInv, ParmsOK
    <3>2. id \in Ids
      <4>1. PICK p \in Packages : \E d \in ToSet(RuleFile[p].attributes) :
              id = <<d.prefix, d.name>>
        BY <3>1 DEF IsFor
      <4>2. PICK d \in ToSet(RuleFile[p].attributes) : id = <<d.prefix, d.name>>
        BY <4>1
      <4>3. id = PrimAttr(FqName(d))
        BY <4>2 DEF PrimAttr, FqName
      <4> QED
        BY <4>3 DEF Ids
    <3>3. /\ parm.kind \in Kinds /\ parm.options \in Seq(Int)
          /\ Len(parm.value) = Len(parm.default) /\ parm.value \in ParmValues(parm)
          /\ parm.kind \notin Lists => parm.count = 1
      BY <3>1 DEF ParmOK, Parameter
    <3>4. parm.kind \notin Lists => Len(parm.value) = 1
      BY <3>3, ParmsAreSequences
    <3>5. ASSUME parm.kind \in Menus PROVE parm.value[1] \in 0 .. Len(parm.options) - 1
      <4>1. parm.value \in [1 .. 1 -> 0 .. Len(parm.options) - 1]
        BY <3>3, <3>5 DEF ParmValues
      <4> QED
        BY <4>1
    <3> QED
      BY <3>1, <3>2, <3>3, <3>4, <3>5
  <2>2. \A fq \in DOMAIN defaults : defaults[fq].type \in Types
    BY DEF IInv, ValuesOK, ValueOK
  <2> QED
    BY <2>1, <2>2 DEF TypeOK, IInv, LayoutOK, Arranged
<1> QED
  BY <1>1, InductiveInvariant, LayoutInvariant, PTL
=============================================================================
