------------------------ MODULE RuleAttributesProofs ------------------------
(***************************************************************************)
(* Theorems about RuleAttributes.  Before compares names, orders, group    *)
(* orders and group paths, by other rules for each pair of attributes; a   *)
(* std::set needs a strict weak order.  It is one, for attributes whose    *)
(* files and groups agree with each other as Consistent says, and          *)
(* setGlobalGroupOrder makes them agree.  So getRuleAttributes gives a     *)
(* sorted set, from which no visible declaration is missing.               *)
(*                                                                         *)
(* Within a file everything has a place on one line: a group at its global *)
(* group order and its first name, and there in the dictionary order of    *)
(* the paths (Lex); a single attribute at its order and its name.          *)
(***************************************************************************)
EXTENDS RuleAttributes, TLAPS, WellFoundedInduction, FiniteSetTheorems

(* Dictionary order of paths, a path before all that it is the start of.   *)
LexAt(s, t, i) ==
    /\ \A j \in 1 .. i - 1 : j <= Len(s) /\ s[j] = t[j]
    /\ i > Len(s) \/ s[i] < t[i]

Lex(s, t) == \E i \in 1 .. Len(t) : LexAt(s, t, i)

(* Attributes of the same file know the same of the file, those of the     *)
(* same group the same of the group, and no group has a higher order than  *)
(* a group in it.                                                          *)
Consistent(a, b) ==
    a.ruleFile = b.ruleFile =>
      /\ a.memberOfStartRuleFile = b.memberOfStartRuleFile
      /\ a.ruleOrder = b.ruleOrder
      /\ a.groups # <<>> /\ a.groups = b.groups =>
           a.globalGroupOrder = b.globalGroupOrder
      /\ b.groups # <<>> /\ IsChildOf(a.groups, b.groups) =>
           b.globalGroupOrder <= a.globalGroupOrder
      /\ a.groups # <<>> /\ IsChildOf(b.groups, a.groups) =>
           a.globalGroupOrder <= b.globalGroupOrder

-----------------------------------------------------------------------------
(* A non-empty set of numbers from 1 on has a least element.               *)
LEMMA LeastPositive ==
    ASSUME NEW T, T \subseteq Nat, T # {}
    PROVE  \E x \in T : \A y \in T : x <= y
<1>1. IsWellFoundedOn(OpToRel(<, Nat), Nat)
  BY NatLessThanWellFounded
<1>2. PICK x \in T : \A y \in T : ~(<<y, x>> \in OpToRel(<, Nat))
  BY <1>1, WFMin
<1>3. \A y \in T : ~(y < x)
  <2> SUFFICES ASSUME NEW y \in T, y < x PROVE FALSE
    OBVIOUS
  <2>1. <<y, x>> \in OpToRel(<, Nat)
    BY DEF OpToRel
  <2> QED
    BY <1>2, <2>1
<1> QED
  BY <1>3

(* The dictionary order is transitive: of the places where a path differs  *)
(* from the next one, the first is where the outer ones differ.            *)
LEMMA LexTransitive ==
    ASSUME NEW s \in Seq(Int), NEW t \in Seq(Int), NEW u \in Seq(Int),
           Lex(s, t), Lex(t, u)
    PROVE  Lex(s, u)
<1>1. PICK i \in 1 .. Len(t) : LexAt(s, t, i)
  BY DEF Lex
<1>2. PICK k \in 1 .. Len(u) : LexAt(t, u, k)
  BY DEF Lex
<1>3. CASE i <= k
  <2>1. i \in 1 .. Len(u)
    BY <1>3
  <2>2. \A j \in 1 .. i - 1 : j <= Len(s) /\ s[j] = u[j]
    BY <1>1, <1>2, <1>3 DEF LexAt
  <2>3. i > Len(s) \/ s[i] < u[i]
    <3>1. CASE i < k
      BY <1>1, <1>2, <2>1, <3>1 DEF LexAt
    <3>2. CASE i = k
      <4> SUFFICES ASSUME i <= Len(s) PROVE s[i] < u[i]
        OBVIOUS
      <4>1. s[i] < t[i] /\ t[i] < u[i]
        BY <1>1, <1>2, <3>2 DEF LexAt
      <4>2. s[i] \in Int /\ t[i] \in Int /\ u[i] \in Int
        BY <2>1
      <4> QED
        BY <4>1, <4>2
    <3> QED
      BY <1>3, <3>1, <3>2
  <2>4. LexAt(s, u, i)
    BY <2>2, <2>3 DEF LexAt
  <2> QED
    BY <2>1, <2>4 DEF Lex
<1>4. CASE k < i
  <2>1. LexAt(s, u, k)
    BY <1>1, <1>2, <1>4 DEF LexAt
  <2> QED
    BY <2>1 DEF Lex
<1> QED
  BY <1>3, <1>4

(* No path goes before itself in the dictionary order.                     *)
LEMMA LexIrreflexive ==
    ASSUME NEW s \in Seq(Int)
    PROVE  ~Lex(s, s)
BY DEF Lex, LexAt

(* Of two paths that differ one goes before the other: at the first place  *)
(* where they differ.                                                      *)
LEMMA LexTotal ==
    ASSUME NEW s \in Seq(Int), NEW t \in Seq(Int), s # t
    PROVE  Lex(s, t) \/ Lex(t, s)
<1> DEFINE Same(i) == i <= Len(s) /\ i <= Len(t) /\ s[i] = t[i]
           D == {i \in Nat : 0 < i /\ (i <= Len(s) \/ i <= Len(t)) /\ ~Same(i)}
<1>1. D # {}
  <2> SUFFICES ASSUME D = {} PROVE FALSE
    OBVIOUS
  <2>1. \A i \in Nat : 0 < i /\ (i <= Len(s) \/ i <= Len(t)) => Same(i)
    OBVIOUS
  <2>2. Len(s) = Len(t)
    <3>1. Len(s) <= Len(t)
      BY <2>1
    <3>2. Len(t) <= Len(s)
      BY <2>1
    <3> QED
      BY <3>1, <3>2
  <2>3. \A i \in 1 .. Len(s) : s[i] = t[i]
    BY <2>1
  <2> QED
    BY <2>2, <2>3
<1>2. PICK i \in D : \A j \in D : i <= j
  <2> HIDE DEF D
  <2>1. D \subseteq Nat
    BY DEF D
  <2> QED
    BY <1>1, <2>1, LeastPositive
<1>3. \A j \in 1 .. i - 1 : Same(j)
  <2> SUFFICES ASSUME NEW j \in 1 .. i - 1, ~Same(j) PROVE FALSE
    OBVIOUS
  <2>1. j \in D
    BY <1>2
  <2> QED
    BY <1>2, <2>1
<1>4. CASE i > Len(s)
  <2>1. i \in 1 .. Len(t) /\ LexAt(s, t, i)
    BY <1>2, <1>3, <1>4 DEF LexAt
  <2> QED
    BY <2>1 DEF Lex
<1>5. CASE i > Len(t)
  <2>1. i \in 1 .. Len(s) /\ LexAt(t, s, i)
    BY <1>2, <1>3, <1>5 DEF LexAt
  <2> QED
    BY <2>1 DEF Lex
<1>6. CASE i <= Len(s) /\ i <= Len(t)
  <2>1. i \in 1 .. Len(s) /\ i \in 1 .. Len(t)
    BY <1>2, <1>6
  <2>2. s[i] < t[i] \/ t[i] < s[i]
    BY <1>2, <1>6, <2>1
  <2>3. LexAt(s, t, i) \/ LexAt(t, s, i)
    BY <1>3, <2>1, <2>2 DEF LexAt
  <2> QED
    BY <2>1, <2>3 DEF Lex
<1> QED
  BY <1>2, <1>4, <1>5, <1>6

(* The first names of paths are in order, and decide if they differ.       *)
LEMMA LexFirst ==
    ASSUME NEW s \in Seq(Int), NEW t \in Seq(Int), s # <<>>, t # <<>>
    PROVE  /\ Lex(s, t) => s[1] <= t[1]
           /\ s[1] < t[1] => Lex(s, t)
<1>1. ASSUME Lex(s, t) PROVE s[1] <= t[1]
  <2>1. PICK i \in 1 .. Len(t) : LexAt(s, t, i)
    BY <1>1 DEF Lex
  <2>2. Len(s) >= 1 /\ Len(t) >= 1
    OBVIOUS
  <2>3. CASE i = 1
    BY <2>1, <2>2, <2>3 DEF LexAt
  <2>4. CASE i > 1
    BY <2>1, <2>2, <2>4 DEF LexAt
  <2> QED
    BY <2>3, <2>4
<1>2. ASSUME s[1] < t[1] PROVE Lex(s, t)
  <2>1. 1 \in 1 .. Len(t) /\ LexAt(s, t, 1)
    BY <1>2 DEF LexAt
  <2> QED
    BY <2>1 DEF Lex
<1> QED
  BY <1>1, <1>2

(* compareGroups puts longer paths first, but is asked only about paths of *)
(* which none is in the other.                                             *)
LEMMA GroupsBeforeIsLex ==
    ASSUME NEW s \in Seq(Int), NEW t \in Seq(Int), ~IsChildOf(s, t), ~IsChildOf(t, s)
    PROVE  GroupsBefore(s, t) <=> Lex(s, t)
<1>1. ASSUME GroupsBefore(s, t) PROVE Lex(s, t)
  <2>1. PICK i \in 1 .. Len(s) :
               /\ \A j \in 1 .. i - 1 : j <= Len(t) /\ s[j] = t[j]
               /\ i > Len(t) \/ s[i] < t[i]
    BY <1>1 DEF GroupsBefore
  <2>2. i <= Len(t)
    <3> SUFFICES ASSUME i > Len(t) PROVE FALSE
      OBVIOUS
    <3> QED
      BY <2>1 DEF IsChildOf
  <2>3. i \in 1 .. Len(t) /\ LexAt(s, t, i)
    BY <2>1, <2>2 DEF LexAt
  <2> QED
    BY <2>3 DEF Lex
<1>2. ASSUME Lex(s, t) PROVE GroupsBefore(s, t)
  <2>1. PICK i \in 1 .. Len(t) : LexAt(s, t, i)
    BY <1>2 DEF Lex
  <2>2. i <= Len(s)
    <3> SUFFICES ASSUME i > Len(s) PROVE FALSE
      OBVIOUS
    <3> QED
      BY <2>1 DEF IsChildOf, LexAt
  <2> QED
    BY <2>1, <2>2 DEF GroupsBefore, LexAt
<1> QED
  BY <1>1, <1>2

(* A group is before those in it.                                          *)
LEMMA ParentIsLexBefore ==
    ASSUME NEW s \in Seq(Int), NEW t \in Seq(Int), IsChildOf(t, s)
    PROVE  Lex(s, t)
<1>1. Len(s) + 1 \in 1 .. Len(t)
  BY DEF IsChildOf
<1>2. LexAt(s, t, Len(s) + 1)
  BY DEF IsChildOf, LexAt
<1> QED
  BY <1>1, <1>2 DEF Lex

-----------------------------------------------------------------------------
(* The order of two attributes of one file, as their places on a line.     *)

(* Two attributes in different groups.                                     *)
LEMMA GroupsOnALine ==
    ASSUME NEW a, NEW b, IsRuleAttribute(a), IsRuleAttribute(b), Consistent(a, b),
           a.ruleFile = b.ruleFile, a.groups # <<>>, b.groups # <<>>, a.groups # b.groups
    PROVE  GroupOrderBefore(a, b) <=>
             \/ a.globalGroupOrder < b.globalGroupOrder
             \/ a.globalGroupOrder = b.globalGroupOrder /\ Lex(a.groups, b.groups)
<1>1. /\ a.groups \in Seq(Int) /\ b.groups \in Seq(Int)
      /\ a.globalGroupOrder \in Int /\ b.globalGroupOrder \in Int
  BY DEF IsRuleAttribute
<1>2. CASE IsChildOf(a.groups, b.groups)
  <2>1. b.globalGroupOrder <= a.globalGroupOrder
    BY <1>2 DEF Consistent
  <2>2. Lex(b.groups, a.groups)
    BY <1>1, <1>2, ParentIsLexBefore
  <2>3. ~Lex(a.groups, b.groups)
    BY <1>1, <2>2, LexTransitive, LexIrreflexive
  <2>4. ~GroupOrderBefore(a, b)
    BY <1>2 DEF GroupOrderBefore
  <2> QED
    BY <1>1, <2>1, <2>3, <2>4
<1>3. CASE IsChildOf(b.groups, a.groups)
  <2>1. a.globalGroupOrder <= b.globalGroupOrder
    BY <1>3 DEF Consistent
  <2>2. Lex(a.groups, b.groups)
    BY <1>1, <1>3, ParentIsLexBefore
  <2>3. ~IsChildOf(a.groups, b.groups)
    BY <1>1, <1>3 DEF IsChildOf
  <2>4. GroupOrderBefore(a, b)
    BY <1>3, <2>3 DEF GroupOrderBefore
  <2> QED
    BY <1>1, <2>1, <2>2, <2>4
<1>4. CASE ~IsChildOf(a.groups, b.groups) /\ ~IsChildOf(b.groups, a.groups)
  <2>1. GroupsBefore(a.groups, b.groups) <=> Lex(a.groups, b.groups)
    BY <1>1, <1>4, GroupsBeforeIsLex
  <2> QED
    BY <1>4, <2>1 DEF GroupOrderBefore
<1> QED
  BY <1>2, <1>3, <1>4

(* The place of an attribute: an order, a name, and whether it is single,  *)
(* which comes after the groups with the same order and name.              *)
Grouped(a) == a.groups # <<>>
PlaceOrder(a) == IF Grouped(a) THEN a.globalGroupOrder ELSE a.order
PlaceName(a) == IF Grouped(a) THEN a.groups[1] ELSE a.niceName

Ahead(a, b) ==
    \/ PlaceOrder(a) < PlaceOrder(b)
    \/ /\ PlaceOrder(a) = PlaceOrder(b)
       /\ \/ PlaceName(a) < PlaceName(b)
          \/ PlaceName(a) = PlaceName(b) /\ Grouped(a) /\ ~Grouped(b)

Level(a, b) ==
    /\ PlaceOrder(a) = PlaceOrder(b)
    /\ PlaceName(a) = PlaceName(b)
    /\ Grouped(a) = Grouped(b)

(* The order within a place: paths, then orders and names.                 *)
Within(a, b) ==
    \/ Lex(a.groups, b.groups)
    \/ a.groups = b.groups /\ AttributeOrderBefore(a, b)

(* The place of an attribute on the line of its file is a pair of numbers. *)
LEMMA PlaceTypes ==
    ASSUME NEW a, IsRuleAttribute(a)
    PROVE  /\ PlaceOrder(a) \in Int
           /\ PlaceName(a) \in Int
           /\ a.order \in Int
           /\ a.niceName \in Int
           /\ a.groups \in Seq(Int)
           /\ Grouped(a) \in BOOLEAN
BY DEF IsRuleAttribute, PlaceOrder, PlaceName, Grouped

(* Before within a file: the place decides, and then what is within it.    *)
LEMMA FileOnALine ==
    ASSUME NEW a, NEW b, IsRuleAttribute(a), IsRuleAttribute(b), Consistent(a, b),
           a.ruleFile = b.ruleFile
    PROVE  Before(a, b) <=> Ahead(a, b) \/ (Level(a, b) /\ Within(a, b))
<1>1. /\ a.groups \in Seq(Int) /\ b.groups \in Seq(Int)
      /\ a.globalGroupOrder \in Int /\ b.globalGroupOrder \in Int
      /\ a.order \in Int /\ b.order \in Int /\ a.niceName \in Int /\ b.niceName \in Int
      /\ PlaceOrder(a) \in Int /\ PlaceOrder(b) \in Int
      /\ PlaceName(a) \in Int /\ PlaceName(b) \in Int
  BY PlaceTypes DEF IsRuleAttribute
<1>2. CASE a.groups = b.groups
  <2>1. Before(a, b) <=> AttributeOrderBefore(a, b)
    BY <1>2 DEF Before
  <2>2. ~Lex(a.groups, b.groups)
    BY <1>1, <1>2, LexIrreflexive
  <2>3. CASE Grouped(a)
    <3>1. Level(a, b) /\ ~Ahead(a, b)
      BY <1>1, <1>2, <2>3 DEF Level, Ahead, PlaceOrder, PlaceName, Grouped, Consistent
    <3> QED
      BY <1>2, <2>1, <2>2, <3>1 DEF Within
  <2>4. CASE ~Grouped(a)
    <3>1. /\ PlaceOrder(a) = a.order /\ PlaceOrder(b) = b.order
          /\ PlaceName(a) = a.niceName /\ PlaceName(b) = b.niceName
          /\ ~Grouped(b)
      BY <1>2, <2>4 DEF PlaceOrder, PlaceName, Grouped
    <3>2. Ahead(a, b) <=> AttributeOrderBefore(a, b)
      BY <2>4, <3>1 DEF Ahead, AttributeOrderBefore
    <3>3. Level(a, b) => ~AttributeOrderBefore(a, b)
      BY <1>1, <3>1 DEF Level, AttributeOrderBefore
    <3> QED
      BY <2>1, <2>2, <3>2, <3>3 DEF Within
  <2> QED
    BY <2>3, <2>4
<1>3. CASE a.groups # b.groups
  <2>1. Before(a, b) <=> GroupOrderBefore(a, b)
    BY <1>3 DEF Before
  <2>2. Within(a, b) <=> Lex(a.groups, b.groups)
    BY <1>3 DEF Within
  <2>3. CASE Grouped(a) /\ Grouped(b)
    <3>1. /\ PlaceOrder(a) = a.globalGroupOrder /\ PlaceOrder(b) = b.globalGroupOrder
          /\ PlaceName(a) = a.groups[1] /\ PlaceName(b) = b.groups[1]
      BY <2>3 DEF PlaceOrder, PlaceName
    <3>2. GroupOrderBefore(a, b) <=>
             \/ PlaceOrder(a) < PlaceOrder(b)
             \/ PlaceOrder(a) = PlaceOrder(b) /\ Lex(a.groups, b.groups)
      BY <1>3, <2>3, <3>1, GroupsOnALine DEF Grouped
    <3>3. /\ Lex(a.groups, b.groups) => PlaceName(a) <= PlaceName(b)
          /\ PlaceName(a) < PlaceName(b) => Lex(a.groups, b.groups)
      BY <1>1, <2>3, <3>1, LexFirst DEF Grouped
    <3>4. Lex(a.groups, b.groups) <=>
             \/ PlaceName(a) < PlaceName(b)
             \/ PlaceName(a) = PlaceName(b) /\ Lex(a.groups, b.groups)
      BY <1>1, <3>3
    <3>5. Grouped(a) = Grouped(b)
      BY <2>3 DEF Grouped
    <3> QED
      BY <2>1, <2>2, <2>3, <3>2, <3>4, <3>5 DEF Ahead, Level
  <2>4. CASE Grouped(a) /\ ~Grouped(b)
    <3>1. GroupOrderBefore(a, b) <=> GroupBeforeSingle(a, b)
      BY <2>4 DEF GroupOrderBefore, Grouped
    <3>2. Ahead(a, b) <=> GroupBeforeSingle(a, b)
      <4>1. /\ PlaceOrder(a) = a.globalGroupOrder /\ PlaceOrder(b) = b.order
            /\ PlaceName(a) = a.groups[1] /\ PlaceName(b) = b.niceName
        BY <2>4 DEF PlaceOrder, PlaceName
      <4> QED
        BY <1>1, <2>4, <4>1 DEF Ahead, GroupBeforeSingle
    <3>3. ~Level(a, b)
      BY <2>4 DEF Level
    <3> QED
      BY <2>1, <3>1, <3>2, <3>3
  <2>5. CASE ~Grouped(a) /\ Grouped(b)
    <3>1. GroupOrderBefore(a, b) <=> ~GroupBeforeSingle(b, a)
      BY <2>5 DEF GroupOrderBefore, Grouped
    <3>2. Ahead(a, b) <=> ~GroupBeforeSingle(b, a)
      <4>1. /\ PlaceOrder(b) = b.globalGroupOrder /\ PlaceOrder(a) = a.order
            /\ PlaceName(b) = b.groups[1] /\ PlaceName(a) = a.niceName
        BY <2>5 DEF PlaceOrder, PlaceName
      <4> QED
        BY <1>1, <2>5, <4>1 DEF Ahead, GroupBeforeSingle
    <3>3. ~Level(a, b)
      BY <2>5 DEF Level
    <3> QED
      BY <2>1, <3>1, <3>2, <3>3
  <2> QED
    BY <1>3, <2>3, <2>4, <2>5 DEF Grouped
<1> QED
  BY <1>2, <1>3

-----------------------------------------------------------------------------
(* RuleAttributeCmp, as the order of a std::set: no attribute goes before  *)
(* itself.                                                                 *)
THEOREM BeforeIrreflexive ==
    ASSUME NEW a, IsRuleAttribute(a)
    PROVE  ~Before(a, a)
BY DEF Before, AttributeOrderBefore, IsRuleAttribute

(* RuleAttributeCmp is transitive, across groups, single attributes and    *)
(* imported files, for attributes that agree about their groups and files. *)
THEOREM BeforeTransitive ==
    ASSUME NEW a, NEW b, NEW c,
           IsRuleAttribute(a), IsRuleAttribute(b), IsRuleAttribute(c),
           Consistent(a, b), Consistent(b, c), Consistent(a, c),
           Before(a, b), Before(b, c)
    PROVE  Before(a, c)
<1>1. CASE a.ruleFile = b.ruleFile /\ b.ruleFile = c.ruleFile
  <2>1. /\ Ahead(a, b) \/ (Level(a, b) /\ Within(a, b))
        /\ Ahead(b, c) \/ (Level(b, c) /\ Within(b, c))
    BY <1>1, FileOnALine
  <2>2. \A x \in {a, b, c} : /\ PlaceOrder(x) \in Int /\ PlaceName(x) \in Int
                             /\ Grouped(x) \in BOOLEAN
    BY PlaceTypes
  <2>3. ASSUME Ahead(a, b) \/ Ahead(b, c) PROVE Ahead(a, c)
    BY <2>1, <2>2, <2>3 DEF Ahead, Level
  <2>4. ASSUME Level(a, b), Level(b, c), Within(a, b), Within(b, c)
        PROVE  Level(a, c) /\ Within(a, c)
    <3>1. Level(a, c)
      BY <2>4 DEF Level
    <3>2. CASE Lex(a.groups, b.groups) /\ Lex(b.groups, c.groups)
      BY <3>1, <3>2, LexTransitive, PlaceTypes DEF Within
    <3>3. CASE a.groups = b.groups /\ b.groups = c.groups
      <4>1. \A x \in {a, b, c} : x.order \in Int /\ x.niceName \in Int
        BY PlaceTypes
      <4>2. ~Lex(a.groups, b.groups) /\ ~Lex(b.groups, c.groups)
        BY <3>3, LexIrreflexive, PlaceTypes
      <4> QED
        BY <2>4, <3>1, <3>3, <4>1, <4>2 DEF Within, AttributeOrderBefore
    <3> QED
      BY <2>4, <3>1, <3>2, <3>3 DEF Within
  <2>5. Ahead(a, c) \/ (Level(a, c) /\ Within(a, c))
    BY <2>1, <2>3, <2>4
  <2> QED
    BY <1>1, <2>5, FileOnALine
<1>2. CASE ~(a.ruleFile = b.ruleFile /\ b.ruleFile = c.ruleFile)
  <2>1. \A x \in {a, b, c} : /\ x.ruleFile \in Int /\ x.ruleOrder \in Int
                             /\ x.memberOfStartRuleFile \in BOOLEAN
    BY DEF IsRuleAttribute
  <2>2. RuleFileBefore(a, b) \/ a.ruleFile = b.ruleFile
    BY DEF Before
  <2>3. RuleFileBefore(b, c) \/ b.ruleFile = c.ruleFile
    BY DEF Before
  <2>4. a.ruleFile = b.ruleFile => a.ruleOrder = b.ruleOrder
                               /\ a.memberOfStartRuleFile = b.memberOfStartRuleFile
    BY DEF Consistent
  <2>5. b.ruleFile = c.ruleFile => b.ruleOrder = c.ruleOrder
                               /\ b.memberOfStartRuleFile = c.memberOfStartRuleFile
    BY DEF Consistent
  <2>6. RuleFileBefore(a, c)
    BY <1>2, <2>1, <2>2, <2>3, <2>4, <2>5 DEF RuleFileBefore
  <2>7. a.ruleFile # c.ruleFile
    <3> SUFFICES ASSUME a.ruleFile = c.ruleFile PROVE FALSE
      OBVIOUS
    <3>1. a.ruleOrder = c.ruleOrder /\ a.memberOfStartRuleFile = c.memberOfStartRuleFile
      BY DEF Consistent
    <3> QED
      BY <2>1, <2>6, <3>1 DEF RuleFileBefore
  <2> QED
    BY <2>6, <2>7 DEF Before
<1> QED
  BY <1>1, <1>2

(* RuleAttributeCmp: attributes of which none goes before the other, the   *)
(* ones a std::set has room for one of only, have the same file, groups,   *)
(* order and name.                                                         *)
THEOREM Indistinguishable ==
    ASSUME NEW a, NEW b, IsRuleAttribute(a), IsRuleAttribute(b), Consistent(a, b)
    PROVE  ~Before(a, b) /\ ~Before(b, a) <=>
             /\ a.ruleFile = b.ruleFile /\ a.groups = b.groups
             /\ a.order = b.order /\ a.niceName = b.niceName
<1>1. \A x \in {a, b} : /\ PlaceOrder(x) \in Int /\ PlaceName(x) \in Int
                        /\ x.order \in Int /\ x.niceName \in Int /\ x.groups \in Seq(Int)
                        /\ Grouped(x) \in BOOLEAN
  BY PlaceTypes
<1>2. CASE a.ruleFile = b.ruleFile /\ a.groups = b.groups
  BY <1>1, <1>2 DEF Before, AttributeOrderBefore
<1>3. CASE a.ruleFile = b.ruleFile /\ a.groups # b.groups
  <2>1. Lex(a.groups, b.groups) \/ Lex(b.groups, a.groups)
    BY <1>1, <1>3, LexTotal
  <2>2. Ahead(a, b) \/ Ahead(b, a) \/ (Level(a, b) /\ Level(b, a))
    BY <1>1 DEF Ahead, Level
  <2>3. \/ Ahead(a, b) \/ (Level(a, b) /\ Within(a, b))
        \/ Ahead(b, a) \/ (Level(b, a) /\ Within(b, a))
    BY <2>1, <2>2 DEF Within
  <2>4. Consistent(b, a)
    BY DEF Consistent
  <2>5. Before(a, b) \/ Before(b, a)
    BY <1>3, <2>3, <2>4, FileOnALine
  <2> QED
    BY <1>3, <2>5
<1>4. CASE a.ruleFile # b.ruleFile
  <2>1. \A x \in {a, b} : /\ x.ruleFile \in Int /\ x.ruleOrder \in Int
                          /\ x.memberOfStartRuleFile \in BOOLEAN
    BY DEF IsRuleAttribute
  <2> QED
    BY <1>4, <2>1 DEF Before, RuleFileBefore
<1> QED
  BY <1>2, <1>3, <1>4

-----------------------------------------------------------------------------
(* What setGlobalGroupOrder makes of the attributes.                       *)

(* Attributes of one file know the same of the file.                       *)
FilesAgree(ra) ==
    \A i, j \in DOMAIN ra : ra[i].ruleFile = ra[j].ruleFile =>
      /\ ra[i].memberOfStartRuleFile = ra[j].memberOfStartRuleFile
      /\ ra[i].ruleOrder = ra[j].ruleOrder

(* They do in getRuleAttributes, if no import has the name of the file.    *)
LEMMA DeclaredFilesAgree ==
    ASSUME NEW info, NEW ds,
           \A i \in DOMAIN ds : ds[i].prefix # NoPrefix => ds[i].prefix # info.stem
    PROVE  FilesAgree([i \in DOMAIN ds |-> Declared(info, ds[i])])
<1> DEFINE ra == [i \in DOMAIN ds |-> Declared(info, ds[i])]
           Order(file) == IF file \in DOMAIN ImportOrder(info) THEN ImportOrder(info)[file]
                                                               ELSE OrderNone
<1>1. \A i \in DOMAIN ds : /\ ra[i].ruleFile = RuleFileOf(info, ds[i])
                           /\ ra[i].ruleOrder = Order(RuleFileOf(info, ds[i]))
                           /\ ra[i].memberOfStartRuleFile = (ds[i].prefix = NoPrefix)
  BY DEF Declared
<1>2. DOMAIN ra = DOMAIN ds
  OBVIOUS
<1> HIDE DEF ra, Order
<1>3. ASSUME NEW i \in DOMAIN ds, NEW j \in DOMAIN ds, ra[i].ruleFile = ra[j].ruleFile
      PROVE  /\ ra[i].memberOfStartRuleFile = ra[j].memberOfStartRuleFile
             /\ ra[i].ruleOrder = ra[j].ruleOrder
  <2>1. RuleFileOf(info, ds[i]) = RuleFileOf(info, ds[j])
    BY <1>1, <1>3
  <2>2. (ds[i].prefix = NoPrefix) = (ds[j].prefix = NoPrefix)
    BY <2>1 DEF RuleFileOf
  <2> QED
    BY <1>1, <2>1, <2>2
<1>4. FilesAgree(ra)
  BY <1>2, <1>3 DEF FilesAgree
<1> QED
  BY <1>4 DEF ra

(* A non-empty set of integers with a lower bound has a minimum.           *)
LEMMA MinOfBounded ==
    ASSUME NEW T, T \subseteq Int, T # {}, NEW lo \in Int, \A x \in T : lo <= x
    PROVE  Min(T) \in T /\ \A y \in T : Min(T) <= y
<1> DEFINE U == {n \in Nat : n + lo \in T}
<1>1. U \subseteq Nat /\ U # {}
  <2>1. PICK x \in T : TRUE
    OBVIOUS
  <2>2. x - lo \in U
    OBVIOUS
  <2> QED
    BY <2>2
<1>2. PICK n \in U : \A m \in U : n <= m
  <2> HIDE DEF U
  <2> QED
    BY <1>1, LeastPositive
<1>3. \A y \in T : n + lo <= y
  <2> SUFFICES ASSUME NEW y \in T PROVE n + lo <= y
    OBVIOUS
  <2>1. y - lo \in U
    OBVIOUS
  <2> QED
    BY <1>2, <2>1
<1>4. \E x \in T : \A y \in T : x <= y
  BY <1>2, <1>3
<1> QED
  BY <1>4 DEF Min

(* A group's orders are among those of the groups it is in.                *)
LEMMA GroupOrdersNested ==
    ASSUME NEW ra, NEW file, NEW s \in Seq(Int), NEW t \in Seq(Int), IsChildOf(t, s),
           \A i \in DOMAIN ra : ra[i].groups \in Seq(Int)
    PROVE  GroupOrders(ra, file, t) \subseteq GroupOrders(ra, file, s)
<1>1. ASSUME NEW u \in Seq(Int), IsPrefix(t, u) PROVE IsPrefix(s, u)
  <2>1. Len(s) < Len(t) /\ Len(t) <= Len(u)
    BY <1>1 DEF IsPrefix, IsChildOf
  <2>2. \A j \in 1 .. Len(t) : t[j] = u[j]
    <3>1. SubSeq(t, 1, Len(t)) = SubSeq(u, 1, Len(t))
      BY <1>1 DEF IsPrefix
    <3>2. \A j \in 1 .. Len(t) : /\ SubSeq(t, 1, Len(t))[j] = t[j]
                                 /\ SubSeq(u, 1, Len(t))[j] = u[j]
      BY <2>1
    <3> QED
      BY <3>1, <3>2
  <2>3. \A j \in 1 .. Len(s) : s[j] = u[j]
    BY <2>1, <2>2 DEF IsChildOf
  <2>4. SubSeq(s, 1, Len(s)) = SubSeq(u, 1, Len(s))
    BY <2>1, <2>3
  <2> QED
    BY <2>1, <2>4 DEF IsPrefix
<1> QED
  BY <1>1 DEF GroupOrders

(* setGlobalGroupOrder: whatever the annotations say, afterwards the       *)
(* attributes agree about their groups.                                    *)
THEOREM SetGlobalGroupOrderConsistent ==
    ASSUME NEW Names, NEW Types, NEW ra \in Seq(Attribute(Names, Types)), FilesAgree(ra)
    PROVE  \A i, j \in DOMAIN ra :
             /\ IsRuleAttribute(SetGlobalGroupOrder(ra)[i])
             /\ Consistent(SetGlobalGroupOrder(ra)[i], SetGlobalGroupOrder(ra)[j])
<1> DEFINE s == SetGlobalGroupOrder(ra)
           lo == -OrderNone - 1
           G(i) == GroupOrders(ra, ra[i].ruleFile, ra[i].groups)
<1>1. \A i \in DOMAIN ra : ra[i] \in Attribute(Names, Types)
  OBVIOUS
<1>2. lo \in Int
  BY DEF OrderNone
<1>3. \A i \in DOMAIN ra : /\ ra[i].groupOrder \in Int /\ lo <= ra[i].groupOrder
                           /\ ra[i].groups \in Seq(Int)
  BY <1>1 DEF Attribute
<1>4. ASSUME NEW i \in DOMAIN ra
      PROVE  /\ G(i) \subseteq Int /\ G(i) # {}
             /\ \A x \in G(i) : lo <= x
  <2>1. \A x \in G(i) : x \in Int /\ lo <= x
    BY <1>3 DEF GroupOrders
  <2>2. IsPrefix(ra[i].groups, ra[i].groups)
    BY <1>3, <1>4 DEF IsPrefix
  <2>3. ra[i].groupOrder \in G(i)
    BY <1>4, <2>2 DEF GroupOrders
  <2> QED
    BY <2>1, <2>3
<1>5. ASSUME NEW i \in DOMAIN ra
      PROVE  Min(G(i)) \in G(i) /\ \A y \in G(i) : Min(G(i)) <= y
  <2>1. G(i) \subseteq Int /\ G(i) # {} /\ \A x \in G(i) : lo <= x
    BY <1>4, <1>5
  <2> HIDE DEF G, lo
  <2> QED
    BY <1>2, <2>1, MinOfBounded
<1>6. \A i \in DOMAIN ra : Min(G(i)) \in Int
  BY <1>4, <1>5
<1>7. ASSUME NEW i \in DOMAIN ra
      PROVE  /\ s[i].globalGroupOrder = IF ra[i].groups = <<>> THEN ra[i].globalGroupOrder
                                                              ELSE Min(G(i))
             /\ s[i].groups = ra[i].groups
             /\ s[i].ruleFile = ra[i].ruleFile
             /\ s[i].ruleOrder = ra[i].ruleOrder
             /\ s[i].memberOfStartRuleFile = ra[i].memberOfStartRuleFile
             /\ s[i].order = ra[i].order
             /\ s[i].niceName = ra[i].niceName
  <2>1. s[i] = IF ra[i].groups = <<>> THEN ra[i]
               ELSE [ra[i] EXCEPT !.globalGroupOrder = Min(G(i))]
    BY <1>7 DEF SetGlobalGroupOrder
  <2>2. ra[i] \in Attribute(Names, Types)
    BY <1>1, <1>7
  <2> HIDE DEF s, G
  <2> QED
    BY <2>1, <2>2 DEF Attribute
<1>8. \A i \in DOMAIN ra : IsRuleAttribute(s[i])
  <2> SUFFICES ASSUME NEW i \in DOMAIN ra PROVE IsRuleAttribute(s[i])
    OBVIOUS
  <2>1. ra[i] \in Attribute(Names, Types)
    BY <1>1
  <2>2. Min(G(i)) \in Int
    BY <1>6
  <2> HIDE DEF s, G
  <2> QED
    BY <1>7, <2>1, <2>2 DEF Attribute, IsRuleAttribute
<1>9. ASSUME NEW i \in DOMAIN ra, NEW j \in DOMAIN ra, ra[i].ruleFile = ra[j].ruleFile,
             ra[j].groups # <<>>, IsChildOf(ra[i].groups, ra[j].groups)
      PROVE  s[j].globalGroupOrder <= s[i].globalGroupOrder
  <2>1. ra[i].groups # <<>>
    BY <1>3, <1>9 DEF IsChildOf
  <2>2. G(i) \subseteq G(j)
    BY <1>3, <1>9, GroupOrdersNested
  <2>3. Min(G(j)) <= Min(G(i))
    BY <1>5, <1>9, <2>2
  <2> QED
    BY <1>7, <1>9, <2>1, <2>3
<1>10. ASSUME NEW i \in DOMAIN ra, NEW j \in DOMAIN ra, ra[i].ruleFile = ra[j].ruleFile
       PROVE  /\ s[i].memberOfStartRuleFile = s[j].memberOfStartRuleFile
              /\ s[i].ruleOrder = s[j].ruleOrder
  BY <1>7, <1>10 DEF FilesAgree
<1>11. ASSUME NEW i \in DOMAIN ra, NEW j \in DOMAIN ra, ra[i].ruleFile = ra[j].ruleFile,
              ra[i].groups = ra[j].groups, ra[i].groups # <<>>
       PROVE  s[i].globalGroupOrder = s[j].globalGroupOrder
  BY <1>7, <1>11
<1>12. ASSUME NEW i \in DOMAIN ra, NEW j \in DOMAIN ra PROVE Consistent(s[i], s[j])
  <2> HIDE DEF s, G, lo
  <2> QED
    BY <1>7, <1>9, <1>10, <1>11, <1>12 DEF Consistent
<1> QED
  BY <1>8, <1>12

-----------------------------------------------------------------------------
(* The std::set of the attributes.                                         *)

Sorted(seq) == \A i, j \in DOMAIN seq : i < j => Before(seq[i], seq[j])

(* Numbers 1 to n that have with each number all smaller ones are 1 to k.  *)
LEMMA DownwardClosed ==
    ASSUME NEW n \in Nat, NEW D, D \subseteq 1 .. n,
           \A i, j \in 1 .. n : i < j /\ j \in D => i \in D
    PROVE  \E k \in 0 .. n : D = 1 .. k /\ Cardinality(D) = k
<1> DEFINE U == {i \in Nat : 0 < i /\ i <= n + 1 /\ i \notin D}
<1>1. n + 1 \in U
  OBVIOUS
<1>2. PICK m \in U : \A i \in U : m <= i
  <2> HIDE DEF U
  <2>1. U \subseteq Nat
    BY DEF U
  <2> QED
    BY <1>1, <2>1, LeastPositive
<1>3. D = 1 .. m - 1
  <2>1. ASSUME NEW i \in 1 .. m - 1 PROVE i \in D
    BY <1>2, <2>1
  <2>2. ASSUME NEW i \in D PROVE i \in 1 .. m - 1
    BY <1>2, <2>2
  <2> QED
    BY <2>1, <2>2
<1>4. m - 1 \in 0 .. n
  BY <1>2
<1>5. Cardinality(1 .. m - 1) = m - 1
  <2>1. Cardinality(1 .. m - 1) = IF 1 > m - 1 THEN 0 ELSE (m - 1) - 1 + 1
    BY <1>4, FS_Interval
  <2> QED
    BY <1>4, <2>1
<1> QED
  BY <1>3, <1>4, <1>5

(* The elements of a sequence after one has been inserted.                 *)
LEMMA InsertAtElements ==
    ASSUME NEW S, NEW seq \in Seq(S), NEW a \in S, NEW k \in 0 .. Len(seq)
    PROVE  /\ DOMAIN InsertAt(seq, k + 1, a) = 1 .. Len(seq) + 1
           /\ \A i \in 1 .. k : InsertAt(seq, k + 1, a)[i] = seq[i]
           /\ InsertAt(seq, k + 1, a)[k + 1] = a
           /\ \A i \in k + 2 .. Len(seq) + 1 : InsertAt(seq, k + 1, a)[i] = seq[i - 1]
<1> DEFINE p == SubSeq(seq, 1, k)
           q == SubSeq(seq, k + 1, Len(seq))
           pa == p \o <<a>>
<1>1. p \in Seq(S) /\ Len(p) = k /\ \A i \in 1 .. k : p[i] = seq[i]
  OBVIOUS
<1>2. /\ q \in Seq(S) /\ Len(q) = Len(seq) - k
      /\ \A i \in 1 .. Len(seq) - k : q[i] = seq[k + i]
  OBVIOUS
<1>3. InsertAt(seq, k + 1, a) = pa \o q
  <2>1. (k + 1) - 1 = k
    OBVIOUS
  <2>2. InsertAt(seq, k + 1, a) = (SubSeq(seq, 1, (k + 1) - 1) \o <<a>>) \o q
    BY DEF InsertAt
  <2> QED
    BY <2>1, <2>2
<1> HIDE DEF p, q
<1>4. /\ pa \in Seq(S) /\ Len(pa) = k + 1
      /\ \A i \in 1 .. k : pa[i] = seq[i]
      /\ pa[k + 1] = a
  BY <1>1
<1> HIDE DEF pa
<1>5. /\ Len(pa \o q) = Len(seq) + 1 /\ pa \o q \in Seq(S)
      /\ \A i \in 1 .. k + 1 : (pa \o q)[i] = pa[i]
      /\ \A i \in k + 2 .. Len(seq) + 1 : (pa \o q)[i] = q[i - (k + 1)]
  BY <1>2, <1>4
<1>6. ASSUME NEW i \in k + 2 .. Len(seq) + 1 PROVE q[i - (k + 1)] = seq[i - 1]
  <2>1. i - (k + 1) \in 1 .. Len(seq) - k /\ k + (i - (k + 1)) = i - 1
    BY <1>6
  <2> QED
    BY <1>2, <2>1
<1>7. \A i \in 1 .. k : (pa \o q)[i] = seq[i]
  BY <1>4, <1>5
<1>8. (pa \o q)[k + 1] = a
  <2>1. k + 1 \in 1 .. k + 1
    OBVIOUS
  <2> QED
    BY <1>4, <1>5, <2>1
<1>9. \A i \in k + 2 .. Len(seq) + 1 : (pa \o q)[i] = seq[i - 1]
  BY <1>5, <1>6
<1>10. DOMAIN (pa \o q) = 1 .. Len(seq) + 1
  BY <1>5
<1> QED
  BY <1>3, <1>7, <1>8, <1>9, <1>10

(* The insertion into a std::set that is sorted keeps it sorted, removes   *)
(* nothing, and leaves an attribute out only for one with the same file,   *)
(* groups, order and name.                                                 *)
THEOREM InsertKeepsSorted ==
    ASSUME NEW S, NEW seq \in Seq(S), NEW a \in S, Sorted(seq),
           \A x, y \in S : IsRuleAttribute(x) /\ Consistent(x, y)
    PROVE  /\ Sorted(Insert(seq, a))
           /\ \A i \in DOMAIN seq : \E k \in DOMAIN Insert(seq, a) : Insert(seq, a)[k] = seq[i]
           /\ \E k \in DOMAIN Insert(seq, a) :
                LET b == Insert(seq, a)[k] IN
                \/ b = a
                \/ /\ a.ruleFile = b.ruleFile /\ a.groups = b.groups
                   /\ a.order = b.order /\ a.niceName = b.niceName
<1> DEFINE lower == {i \in DOMAIN seq : Before(seq[i], a)}
           n == Len(seq)
<1>1. \A i \in 1 .. n : seq[i] \in S
  OBVIOUS
<1>2. \A x, y, z \in S : Before(x, y) /\ Before(y, z) => Before(x, z)
  BY BeforeTransitive
<1>3. CASE \E i \in DOMAIN seq \ lower : ~Before(a, seq[i])
  <2>1. Insert(seq, a) = seq
    BY <1>3 DEF Insert
  <2>2. PICK i \in DOMAIN seq : ~Before(seq[i], a) /\ ~Before(a, seq[i])
    BY <1>3
  <2>3. /\ a.ruleFile = seq[i].ruleFile /\ a.groups = seq[i].groups
        /\ a.order = seq[i].order /\ a.niceName = seq[i].niceName
    BY <1>1, <2>2, Indistinguishable
  <2> QED
    BY <2>1, <2>3
<1>4. CASE ~\E i \in DOMAIN seq \ lower : ~Before(a, seq[i])
  <2>1. PICK k \in 0 .. n : lower = 1 .. k /\ Cardinality(lower) = k
    <3>1. \A i, j \in 1 .. n : i < j /\ j \in lower => i \in lower
      BY <1>1, <1>2 DEF Sorted
    <3>2. lower \subseteq 1 .. n /\ n \in Nat
      OBVIOUS
    <3> HIDE DEF lower, n
    <3> QED
      BY <3>1, <3>2, DownwardClosed
  <2>2. Insert(seq, a) = InsertAt(seq, k + 1, a)
    BY <1>4, <2>1 DEF Insert
  <2>3. PICK r : /\ r = InsertAt(seq, k + 1, a)
                 /\ DOMAIN r = 1 .. n + 1
                 /\ \A i \in 1 .. k : r[i] = seq[i]
                 /\ r[k + 1] = a
                 /\ \A i \in k + 2 .. n + 1 : r[i] = seq[i - 1]
    BY InsertAtElements
  <2>4. /\ \A i \in 1 .. k : Before(seq[i], a)
        /\ \A i \in k + 1 .. n : Before(a, seq[i])
    <3>1. /\ \A i \in 1 .. k : i \in lower
          /\ \A i \in k + 1 .. n : i \in DOMAIN seq \ lower
      <4> HIDE DEF lower
      <4> QED
        BY <2>1
    <3> QED
      BY <1>4, <3>1
  <2>5. ASSUME NEW i \in 1 .. n + 1, NEW j \in 1 .. n + 1, i < j
        PROVE  Before(r[i], r[j])
    <3> HIDE DEF lower
    <3>1. CASE j <= k
      <4>1. r[i] = seq[i] /\ r[j] = seq[j] /\ i \in 1 .. n /\ j \in 1 .. n
        BY <2>3, <2>5, <3>1
      <4> QED
        BY <2>5, <4>1 DEF Sorted
    <3>2. CASE j = k + 1
      <4>1. i \in 1 .. k
        BY <2>5, <3>2
      <4>2. Before(seq[i], a)
        BY <2>4, <4>1
      <4>3. r[j] = a /\ r[i] = seq[i]
        BY <2>3, <3>2, <4>1
      <4> QED
        BY <4>2, <4>3
    <3>3. CASE i = k + 1
      <4>1. j - 1 \in k + 1 .. n /\ j \in k + 2 .. n + 1
        BY <2>5, <3>3
      <4>2. Before(a, seq[j - 1])
        BY <2>4, <4>1
      <4>3. r[i] = a /\ r[j] = seq[j - 1]
        BY <2>3, <3>3, <4>1
      <4> QED
        BY <4>2, <4>3
    <3>4. CASE k + 1 < i
      <4>1. /\ r[i] = seq[i - 1] /\ r[j] = seq[j - 1]
            /\ i - 1 \in 1 .. n /\ j - 1 \in 1 .. n /\ i - 1 < j - 1
        BY <2>3, <2>5, <3>4
      <4> QED
        BY <4>1 DEF Sorted
    <3>5. CASE i <= k /\ k + 1 < j
      <4>1. /\ r[i] = seq[i] /\ r[j] = seq[j - 1]
            /\ i \in 1 .. n /\ j - 1 \in 1 .. n /\ i < j - 1
        BY <2>3, <2>5, <3>5
      <4> QED
        BY <4>1 DEF Sorted
    <3> QED
      BY <2>5, <3>1, <3>2, <3>3, <3>4, <3>5
  <2>6. Sorted(r)
    BY <2>3, <2>5 DEF Sorted
  <2>7. \A i \in DOMAIN seq : \E m \in DOMAIN r : r[m] = seq[i]
    <3> HIDE DEF lower
    <3> SUFFICES ASSUME NEW i \in 1 .. n PROVE \E m \in DOMAIN r : r[m] = seq[i]
      OBVIOUS
    <3>1. CASE i <= k
      BY <2>3, <3>1
    <3>2. CASE k < i
      <4>1. i + 1 \in DOMAIN r /\ r[i + 1] = seq[i]
        BY <2>3, <3>2
      <4> QED
        BY <4>1
    <3> QED
      BY <3>1, <3>2
  <2>8. k + 1 \in DOMAIN r /\ r[k + 1] = a
    BY <2>3
  <2> QED
    BY <2>2, <2>3, <2>6, <2>7, <2>8
<1> QED
  BY <1>3, <1>4

-----------------------------------------------------------------------------
(* Folds.  FoldLeft is a function on sets of indices that calls itself for *)
(* the set without its last index: there is one, and what each step keeps  *)
(* holds at its end.                                                       *)

LEMMA NatSetInduction ==
    ASSUME NEW P, P \subseteq Nat, 0 \in P, \A n \in P : n + 1 \in P
    PROVE  P = Nat
<1> SUFFICES ASSUME Nat \ P # {} PROVE FALSE
  OBVIOUS
<1>1. PICK m \in Nat \ P : \A k \in Nat \ P : m <= k
  BY LeastPositive
<1>2. m # 0 /\ m - 1 \in Nat
  BY <1>1
<1>3. m - 1 \in P
  BY <1>1, <1>2
<1> QED
  BY <1>1, <1>3

LEMMA MaxOfIndices ==
    ASSUME NEW k \in Nat, NEW s \in SUBSET (1 .. k), k \in s
    PROVE  Max(s) = k
<1>1. \A x \in s : x \in Int /\ x <= k
  OBVIOUS
<1>2. \E x \in s : \A y \in s : x >= y
  BY <1>1
<1>3. Max(s) \in s /\ \A y \in s : Max(s) >= y
  BY <1>2 DEF Max
<1> DEFINE max == Max(s)
<1>4. max \in Int /\ max <= k /\ max >= k
  BY <1>1, <1>3
<1> HIDE DEF max
<1>5. max = k
  BY <1>4
<1> QED
  BY <1>5 DEF max

(* The function behind a fold over n indices.                              *)
IsFold(g, base, step, seq, n) ==
    \A s \in SUBSET (1 .. n) :
      g[s] = IF s = {} THEN base ELSE step[<<g[s \ {Max(s)}], seq[Max(s)]>>]

HasFold(X, base, step, seq, n) ==
    \E g \in [SUBSET (1 .. n) -> X] : IsFold(g, base, step, seq, n)

LEMMA FoldExists ==
    ASSUME NEW X, NEW Y, NEW base \in X, NEW step \in [X \X Y -> X],
           NEW n \in Nat, NEW seq, \A i \in 1 .. n : seq[i] \in Y
    PROVE  HasFold(X, base, step, seq, n)
<1> DEFINE P == {k \in Nat : k <= n => HasFold(X, base, step, seq, k)}
<1>1. 0 \in P
  <2> DEFINE g == [s \in SUBSET (1 .. 0) |-> base]
  <2>1. g \in [SUBSET (1 .. 0) -> X]
    OBVIOUS
  <2>2. \A s \in SUBSET (1 .. 0) : s = {} /\ g[s] = base
    OBVIOUS
  <2>3. IsFold(g, base, step, seq, 0)
    BY <2>2 DEF IsFold
  <2>4. HasFold(X, base, step, seq, 0)
    BY <2>1, <2>3 DEF HasFold
  <2> QED
    BY <2>4
<1>2. ASSUME NEW k \in P PROVE k + 1 \in P
  <2> SUFFICES ASSUME k + 1 <= n PROVE HasFold(X, base, step, seq, k + 1)
    OBVIOUS
  <2>0. k \in Nat /\ k <= n
    OBVIOUS
  <2>1. PICK g \in [SUBSET (1 .. k) -> X] : IsFold(g, base, step, seq, k)
    BY <1>2, <2>0 DEF HasFold
  <2> DEFINE h == [s \in SUBSET (1 .. k + 1) |->
                     IF k + 1 \in s THEN step[<<g[s \ {k + 1}], seq[k + 1]>>] ELSE g[s]]
  <2>2. /\ \A s \in SUBSET (1 .. k + 1) : k + 1 \notin s => s \in SUBSET (1 .. k)
        /\ \A s \in SUBSET (1 .. k + 1) : s \ {k + 1} \in SUBSET (1 .. k)
        /\ \A s \in SUBSET (1 .. k) : s \in SUBSET (1 .. k + 1) /\ k + 1 \notin s
    BY <2>0
  <2>3. k + 1 \in 1 .. n /\ seq[k + 1] \in Y
    BY <2>0
  <2>4. h \in [SUBSET (1 .. k + 1) -> X]
    BY <2>1, <2>2, <2>3
  <2>5. \A s \in SUBSET (1 .. k) : h[s] = g[s]
    BY <2>2
  <2>6. ASSUME NEW s \in SUBSET (1 .. k + 1), k + 1 \in s
        PROVE  h[s] = step[<<h[s \ {Max(s)}], seq[Max(s)]>>]
    <3>1. Max(s) = k + 1
      BY <2>0, <2>6, MaxOfIndices
    <3>2. h[s] = step[<<g[s \ {k + 1}], seq[k + 1]>>]
      BY <2>6
    <3>3. h[s \ {k + 1}] = g[s \ {k + 1}]
      BY <2>2, <2>5, <2>6
    <3> QED
      BY <3>1, <3>2, <3>3
  <2>7. ASSUME NEW s \in SUBSET (1 .. k + 1), k + 1 \notin s
        PROVE  h[s] = IF s = {} THEN base ELSE step[<<h[s \ {Max(s)}], seq[Max(s)]>>]
    <3>1. s \in SUBSET (1 .. k) /\ s \ {Max(s)} \in SUBSET (1 .. k)
      BY <2>2, <2>7
    <3> QED
      BY <2>1, <2>5, <3>1 DEF IsFold
  <2> HIDE DEF h
  <2>8. IsFold(h, base, step, seq, k + 1)
    BY <2>6, <2>7 DEF IsFold
  <2> QED
    BY <2>4, <2>8 DEF HasFold
<1>3. P = Nat
  <2>1. P \subseteq Nat
    OBVIOUS
  <2> HIDE DEF P
  <2> QED
    BY <1>1, <1>2, <2>1, NatSetInduction
<1>4. n \in P
  BY <1>3
<1> QED
  BY <1>4

(* The sets of indices that the fold of all n elements goes through.       *)
LEMMA FoldSegments ==
    ASSUME NEW n \in Nat, NEW k \in 0 .. n - 1
    PROVE  /\ 1 .. k + 1 \in SUBSET (1 .. n) /\ 1 .. k + 1 # {}
           /\ Max(1 .. k + 1) = k + 1
           /\ (1 .. k + 1) \ {k + 1} = 1 .. k
<1>1. 1 .. k + 1 \in SUBSET (1 .. n) /\ k + 1 \in 1 .. k + 1 /\ k + 1 \in Nat
  OBVIOUS
<1>2. Max(1 .. k + 1) = k + 1
  BY <1>1, MaxOfIndices
<1> QED
  BY <1>1, <1>2

(* What holds before the first step and is kept by each of n steps.        *)
LEMMA StepInduction ==
    ASSUME NEW n \in Nat, NEW P, 0 \in P, \A k \in 0 .. n - 1 : k \in P => k + 1 \in P
    PROVE  n \in P
<1> DEFINE Q == {k \in Nat : k <= n => k \in P}
<1>1. Q = Nat
  <2>1. Q \subseteq Nat /\ 0 \in Q /\ \A k \in Q : k + 1 \in Q
    OBVIOUS
  <2> HIDE DEF Q
  <2> QED
    BY <2>1, NatSetInduction
<1> QED
  BY <1>1

LEMMA MaxOfSomeIndices ==
    ASSUME NEW k \in Nat, NEW s \in SUBSET (1 .. k), s # {}
    PROVE  Max(s) \in s
<1> DEFINE T == {k - x : x \in s}
<1>1. T \subseteq Nat /\ T # {}
  <2>1. \A x \in s : k - x \in Nat
    OBVIOUS
  <2> QED
    BY <2>1
<1>2. PICK t \in T : \A y \in T : t <= y
  <2> HIDE DEF T
  <2> QED
    BY <1>1, LeastPositive
<1>3. PICK x \in s : t = k - x
  BY <1>2
<1>4. \A y \in s : k - x <= k - y /\ x \in Nat /\ y \in Nat
  BY <1>2, <1>3
<1>5. \A y \in s : x >= y
  BY <1>4
<1> QED
  BY <1>5 DEF Max

-----------------------------------------------------------------------------
(* The std::set of all attributes.                                         *)

LEMMA InsertType ==
    ASSUME NEW S, NEW seq \in Seq(S), NEW a \in S
    PROVE  Insert(seq, a) \in Seq(S)
<1> DEFINE lower == {i \in DOMAIN seq : Before(seq[i], a)}
           k == Cardinality(lower)
<1>1. k \in 0 .. Len(seq)
  <2>1. DOMAIN seq = 1 .. Len(seq) /\ Len(seq) \in Nat
    OBVIOUS
  <2>2. IsFiniteSet(1 .. Len(seq)) /\ Cardinality(1 .. Len(seq)) = Len(seq)
    BY <2>1, FS_Interval
  <2>3. lower \in SUBSET (1 .. Len(seq))
    BY <2>1
  <2> HIDE DEF lower
  <2>4. IsFiniteSet(lower) /\ Cardinality(lower) <= Len(seq)
    BY <2>2, <2>3, FS_Subset
  <2>5. Cardinality(lower) \in Nat
    BY <2>4, FS_CardinalityType
  <2> QED
    BY <2>1, <2>4, <2>5
<1>2. InsertAt(seq, k + 1, a) \in Seq(S)
  <2> HIDE DEF k
  <2> DEFINE p == SubSeq(seq, 1, (k + 1) - 1)
             q == SubSeq(seq, k + 1, Len(seq))
  <2>1. InsertAt(seq, k + 1, a) = (p \o <<a>>) \o q
    BY DEF InsertAt
  <2>2. (k + 1) - 1 = k
    BY <1>1
  <2>3. p \in Seq(S) /\ q \in Seq(S) /\ <<a>> \in Seq(S)
    BY <1>1, <2>2
  <2> HIDE DEF p, q
  <2>4. (p \o <<a>>) \o q \in Seq(S)
    BY <2>3
  <2> QED
    BY <2>1, <2>4
<1> QED
  BY <1>2 DEF Insert

(* Indistinguishable for the set.                                          *)
Alike(a, b) ==
    \/ b = a
    \/ /\ a.ruleFile = b.ruleFile /\ a.groups = b.groups
       /\ a.order = b.order /\ a.niceName = b.niceName

(* The function behind FoldLeft(Insert, <<>>, seq).                        *)
IsSort(g, seq) ==
    g = [s \in SUBSET DOMAIN seq |->
           IF s = {} THEN <<>> ELSE Insert(g[s \ {Max(s)}], seq[Max(s)])]

LEMMA SortIsFold ==
    ASSUME NEW seq
    PROVE  FoldLeft(Insert, <<>>, seq) = (CHOOSE g : IsSort(g, seq))[DOMAIN seq]
BY DEF FoldLeft, MapThenFoldSet, IsSort

LEMMA SortExists ==
    ASSUME NEW S, NEW seq \in Seq(S)
    PROVE  \E g : IsSort(g, seq)
<1> DEFINE step == [p \in Seq(S) \X S |-> Insert(p[1], p[2])]
           n == Len(seq)
<1>1. /\ <<>> \in Seq(S) /\ n \in Nat /\ DOMAIN seq = 1 .. n
      /\ \A i \in 1 .. n : seq[i] \in S
  OBVIOUS
<1>2. \A x \in Seq(S), y \in S : step[<<x, y>>] = Insert(x, y)
  OBVIOUS
<1>3. step \in [Seq(S) \X S -> Seq(S)]
  BY InsertType
<1> HIDE DEF step, n
<1>4. PICK g \in [SUBSET (1 .. n) -> Seq(S)] : IsFold(g, <<>>, step, seq, n)
  <2>1. HasFold(Seq(S), <<>>, step, seq, n)
    BY <1>1, <1>3, FoldExists
  <2> QED
    BY <2>1 DEF HasFold
<1>5. ASSUME NEW s \in SUBSET (1 .. n), s # {}
      PROVE  g[s] = Insert(g[s \ {Max(s)}], seq[Max(s)])
  <2>1. g[s] = step[<<g[s \ {Max(s)}], seq[Max(s)]>>]
    BY <1>4, <1>5 DEF IsFold
  <2>2. Max(s) \in 1 .. n
    BY <1>1, <1>5, MaxOfSomeIndices
  <2>3. g[s \ {Max(s)}] \in Seq(S) /\ seq[Max(s)] \in S
    BY <1>1, <1>4, <2>2
  <2> QED
    BY <1>2, <2>1, <2>3
<1>6. g[{}] = <<>>
  BY <1>4 DEF IsFold
<1>7. IsSort(g, seq)
  BY <1>1, <1>4, <1>5, <1>6 DEF IsSort
<1> QED
  BY <1>7

(* Whatever the order of the attributes in the rule file: the set of them  *)
(* is sorted, has none that was not inserted, and lacks none except for    *)
(* one with the same file, groups, order and name.                         *)
THEOREM SortedSet ==
    ASSUME NEW S, NEW seq \in Seq(S),
           \A x, y \in S : IsRuleAttribute(x) /\ Consistent(x, y)
    PROVE  LET set == FoldLeft(Insert, <<>>, seq) IN
           /\ set \in Seq(S)
           /\ Sorted(set)
           /\ \A i \in DOMAIN seq : \E k \in DOMAIN set : Alike(seq[i], set[k])
<1> DEFINE n == Len(seq)
           Inv(k, set) == /\ set \in Seq(S) /\ Sorted(set)
                          /\ \A i \in 1 .. k : \E m \in DOMAIN set : Alike(seq[i], set[m])
<1>1. PICK g : IsSort(g, seq) /\ FoldLeft(Insert, <<>>, seq) = g[DOMAIN seq]
  BY SortExists, SortIsFold
<1>2. n \in Nat /\ DOMAIN seq = 1 .. n /\ \A i \in 1 .. n : seq[i] \in S
  OBVIOUS
<1> DEFINE P == {k \in Nat : k <= n /\ Inv(k, g[1 .. k])}
<1>3. 0 \in P
  <2>1. 1 .. 0 \in SUBSET (1 .. n) /\ 1 .. 0 = {}
    OBVIOUS
  <2>2. g[1 .. 0] = <<>>
    BY <1>1, <1>2, <2>1 DEF IsSort
  <2>3. <<>> \in Seq(S) /\ Sorted(<<>>)
    BY DEF Sorted
  <2>4. Inv(0, g[1 .. 0])
    BY <2>2, <2>3
  <2> HIDE DEF Inv
  <2> QED
    BY <1>2, <2>4
<1>4. ASSUME NEW k \in 0 .. n - 1, k \in P PROVE k + 1 \in P
  <2>1. k \in Nat /\ k + 1 \in 1 .. n /\ k + 1 \in Nat /\ k + 1 <= n
    BY <1>2
  <2>2. g[1 .. k + 1] = Insert(g[1 .. k], seq[k + 1])
    <3>1. /\ 1 .. k + 1 \in SUBSET (1 .. n) /\ 1 .. k + 1 # {}
          /\ Max(1 .. k + 1) = k + 1
          /\ (1 .. k + 1) \ {k + 1} = 1 .. k
      BY <1>2, FoldSegments
    <3>2. \A s \in SUBSET (1 .. n) :
            g[s] = IF s = {} THEN <<>> ELSE Insert(g[s \ {Max(s)}], seq[Max(s)])
      BY <1>1, <1>2 DEF IsSort
    <3> HIDE DEF n
    <3> QED
      BY <3>1, <3>2
  <2>3. PICK set : set = g[1 .. k] /\ Inv(k, set)
    BY <1>4
  <2>4. PICK next : next = Insert(set, seq[k + 1])
    OBVIOUS
  <2>5. seq[k + 1] \in S /\ set \in Seq(S) /\ Sorted(set)
    BY <1>2, <2>1, <2>3
  <2>6. /\ Sorted(next)
        /\ \A i \in DOMAIN set : \E m \in DOMAIN next : next[m] = set[i]
        /\ \E m \in DOMAIN next : Alike(seq[k + 1], next[m])
    BY <2>4, <2>5, InsertKeepsSorted DEF Alike
  <2>7. next \in Seq(S)
    BY <2>4, <2>5, InsertType
  <2>8. ASSUME NEW i \in 1 .. k + 1 PROVE \E m \in DOMAIN next : Alike(seq[i], next[m])
    <3>1. CASE i = k + 1
      BY <2>6, <3>1
    <3>2. CASE i # k + 1
      <4>1. i \in 1 .. k
        BY <2>1, <3>2
      <4>2. PICK m \in DOMAIN set : Alike(seq[i], set[m])
        BY <2>3, <4>1
      <4> QED
        BY <2>6, <4>2
    <3> QED
      BY <3>1, <3>2
  <2>9. Inv(k + 1, next)
    BY <2>6, <2>7, <2>8
  <2> HIDE DEF Inv
  <2> QED
    BY <2>1, <2>2, <2>3, <2>4, <2>9
<1>5. n \in P
  <2> HIDE DEF P, n
  <2> QED
    BY <1>2, <1>3, <1>4, StepInduction
<1>6. Inv(n, g[1 .. n])
  BY <1>5
<1> QED
  BY <1>1, <1>2, <1>6

-----------------------------------------------------------------------------
(* getRuleAttributes as a whole.                                           *)

(* The function behind FoldLeft(PushVisible, <<>>, seq).                   *)
IsSelection(g, seq) ==
    g = [s \in SUBSET DOMAIN seq |->
           IF s = {} THEN <<>> ELSE PushVisible(g[s \ {Max(s)}], seq[Max(s)])]

LEMMA SelectionIsFold ==
    ASSUME NEW seq
    PROVE  FoldLeft(PushVisible, <<>>, seq) = (CHOOSE g : IsSelection(g, seq))[DOMAIN seq]
BY DEF FoldLeft, MapThenFoldSet, IsSelection

LEMMA SelectionExists ==
    ASSUME NEW S, NEW seq \in Seq(S)
    PROVE  \E g : IsSelection(g, seq)
<1> DEFINE step == [p \in Seq(S) \X S |-> PushVisible(p[1], p[2])]
           n == Len(seq)
<1>1. /\ <<>> \in Seq(S) /\ n \in Nat /\ DOMAIN seq = 1 .. n
      /\ \A i \in 1 .. n : seq[i] \in S
  OBVIOUS
<1>2. \A x \in Seq(S), y \in S : step[<<x, y>>] = PushVisible(x, y)
  OBVIOUS
<1>3. step \in [Seq(S) \X S -> Seq(S)]
  <2>1. \A x \in Seq(S), y \in S : PushVisible(x, y) \in Seq(S)
    BY DEF PushVisible
  <2> QED
    BY <2>1
<1> HIDE DEF step, n
<1>4. PICK g \in [SUBSET (1 .. n) -> Seq(S)] : IsFold(g, <<>>, step, seq, n)
  <2>1. HasFold(Seq(S), <<>>, step, seq, n)
    BY <1>1, <1>3, FoldExists
  <2> QED
    BY <2>1 DEF HasFold
<1>5. ASSUME NEW s \in SUBSET (1 .. n), s # {}
      PROVE  g[s] = PushVisible(g[s \ {Max(s)}], seq[Max(s)])
  <2>1. g[s] = step[<<g[s \ {Max(s)}], seq[Max(s)]>>]
    BY <1>4, <1>5 DEF IsFold
  <2>2. Max(s) \in 1 .. n
    BY <1>1, <1>5, MaxOfSomeIndices
  <2>3. g[s \ {Max(s)}] \in Seq(S) /\ seq[Max(s)] \in S
    BY <1>1, <1>4, <2>2
  <2> QED
    BY <1>2, <2>1, <2>3
<1>6. g[{}] = <<>>
  BY <1>4 DEF IsFold
<1>7. IsSelection(g, seq)
  BY <1>1, <1>4, <1>5, <1>6 DEF IsSelection
<1> QED
  BY <1>7

(* The loop of getRuleAttributes takes the visible attributes, all of      *)
(* them and no others.                                                     *)
LEMMA VisibleOnly ==
    ASSUME NEW S, NEW seq \in Seq(S)
    PROVE  LET visible == FoldLeft(PushVisible, <<>>, seq) IN
           /\ visible \in Seq(S)
           /\ \A m \in DOMAIN visible :
                IsVisible(visible[m]) /\ \E i \in DOMAIN seq : visible[m] = seq[i]
           /\ \A i \in DOMAIN seq :
                IsVisible(seq[i]) => \E m \in DOMAIN visible : visible[m] = seq[i]
<1> DEFINE n == Len(seq)
           Inv(k, vis) ==
             /\ vis \in Seq(S)
             /\ \A m \in DOMAIN vis : IsVisible(vis[m]) /\ \E i \in DOMAIN seq : vis[m] = seq[i]
             /\ \A i \in 1 .. k : IsVisible(seq[i]) => \E m \in DOMAIN vis : vis[m] = seq[i]
<1>1. PICK g : IsSelection(g, seq) /\ FoldLeft(PushVisible, <<>>, seq) = g[DOMAIN seq]
  BY SelectionExists, SelectionIsFold
<1>2. n \in Nat /\ DOMAIN seq = 1 .. n /\ \A i \in 1 .. n : seq[i] \in S
  OBVIOUS
<1> DEFINE P == {k \in Nat : k <= n /\ Inv(k, g[1 .. k])}
<1>3. 0 \in P
  <2>1. 1 .. 0 \in SUBSET (1 .. n) /\ 1 .. 0 = {}
    OBVIOUS
  <2>2. g[1 .. 0] = <<>>
    BY <1>1, <1>2, <2>1 DEF IsSelection
  <2>3. Inv(0, g[1 .. 0])
    BY <2>2
  <2> HIDE DEF Inv
  <2> QED
    BY <1>2, <2>3
<1>4. ASSUME NEW k \in 0 .. n - 1, k \in P PROVE k + 1 \in P
  <2>1. k \in Nat /\ k + 1 \in 1 .. n /\ k + 1 \in Nat /\ k + 1 <= n
    BY <1>2
  <2>2. g[1 .. k + 1] = PushVisible(g[1 .. k], seq[k + 1])
    <3>1. /\ 1 .. k + 1 \in SUBSET (1 .. n) /\ 1 .. k + 1 # {}
          /\ Max(1 .. k + 1) = k + 1
          /\ (1 .. k + 1) \ {k + 1} = 1 .. k
      BY <1>2, FoldSegments
    <3>2. \A s \in SUBSET (1 .. n) :
            g[s] = IF s = {} THEN <<>> ELSE PushVisible(g[s \ {Max(s)}], seq[Max(s)])
      BY <1>1, <1>2 DEF IsSelection
    <3> HIDE DEF n
    <3> QED
      BY <3>1, <3>2
  <2>3. PICK vis : vis = g[1 .. k] /\ Inv(k, vis)
    BY <1>4
  <2>4. PICK decl \in S : decl = seq[k + 1]
    BY <1>2, <2>1
  <2>5. CASE IsVisible(decl)
    <3>1. PICK next : next = Append(vis, decl)
      OBVIOUS
    <3>2. g[1 .. k + 1] = next
      BY <2>2, <2>3, <2>4, <2>5, <3>1 DEF PushVisible, IsVisible
    <3>3. /\ next \in Seq(S) /\ Len(vis) \in Nat
          /\ DOMAIN vis = 1 .. Len(vis)
          /\ DOMAIN next = 1 .. Len(vis) + 1
          /\ next[Len(vis) + 1] = decl
          /\ \A m \in 1 .. Len(vis) : next[m] = vis[m]
      BY <2>3, <3>1
    <3>4. \A m \in DOMAIN next : m \in DOMAIN vis \/ m = Len(vis) + 1
      BY <3>3
    <3>5. Len(vis) + 1 \in DOMAIN next /\ \A m \in DOMAIN vis : m \in DOMAIN next
      BY <3>3
    <3>6. \A i \in 1 .. k + 1 : i \in 1 .. k \/ i = k + 1
      BY <2>1
    <3>7. \A m \in DOMAIN next : IsVisible(next[m]) /\ \E i \in DOMAIN seq : next[m] = seq[i]
      <4>1. ASSUME NEW m \in DOMAIN vis
            PROVE  IsVisible(next[m]) /\ \E i \in DOMAIN seq : next[m] = seq[i]
        BY <2>3, <3>3
      <4>2. IsVisible(next[Len(vis) + 1]) /\ \E i \in DOMAIN seq : next[Len(vis) + 1] = seq[i]
        BY <1>2, <2>1, <2>4, <2>5, <3>3
      <4> QED
        BY <3>4, <4>1, <4>2
    <3>8. \A i \in 1 .. k + 1 : IsVisible(seq[i]) => \E m \in DOMAIN next : next[m] = seq[i]
      <4>1. ASSUME NEW i \in 1 .. k, IsVisible(seq[i])
            PROVE  \E m \in DOMAIN next : next[m] = seq[i]
        <5>1. PICK m \in DOMAIN vis : vis[m] = seq[i]
          BY <2>3, <4>1
        <5> QED
          BY <3>3, <3>5, <5>1
      <4>2. \E m \in DOMAIN next : next[m] = seq[k + 1]
        BY <2>4, <3>3, <3>5
      <4> QED
        BY <3>6, <4>1, <4>2
    <3>9. Inv(k + 1, next)
      BY <3>3, <3>7, <3>8
    <3> HIDE DEF Inv
    <3> QED
      BY <2>1, <3>2, <3>9
  <2>6. CASE ~IsVisible(decl)
    <3>1. g[1 .. k + 1] = vis
      BY <2>2, <2>3, <2>4, <2>6 DEF PushVisible, IsVisible
    <3>2. \A i \in 1 .. k + 1 : i \in 1 .. k \/ i = k + 1
      BY <2>1
    <3>3. Inv(k + 1, vis)
      BY <2>3, <2>4, <2>6, <3>2
    <3> HIDE DEF Inv
    <3> QED
      BY <2>1, <3>1, <3>3
  <2> QED
    BY <2>5, <2>6
<1>5. n \in P
  <2> HIDE DEF P, n
  <2> QED
    BY <1>2, <1>3, <1>4, StepInduction
<1>6. Inv(n, g[1 .. n])
  BY <1>5
<1> QED
  BY <1>1, <1>2, <1>6

(* What the set has of a declaration: all but the order that its group     *)
(* gets from other attributes.                                             *)
IsOf(a, info, decl) ==
    /\ a.fqName = FqName(decl) /\ a.niceName = decl.name /\ a.mType = decl.type
    /\ a.groups = GroupsOf(decl) /\ a.order = OrderOf(decl)
    /\ a.groupOrder = GroupOrderOf(decl)
    /\ a.ruleFile = RuleFileOf(info, decl)
    /\ a.memberOfStartRuleFile = (decl.prefix = NoPrefix)

(* setGlobalGroupOrder sets the global order of the groups, nothing else.  *)
LEMMA GlobalGroupOrderOnly ==
    ASSUME NEW Names, NEW Types, NEW ra \in Seq(Attribute(Names, Types)), NEW i \in DOMAIN ra
    PROVE  LET a == SetGlobalGroupOrder(ra)[i] IN
           /\ a.fqName = ra[i].fqName /\ a.niceName = ra[i].niceName /\ a.mType = ra[i].mType
           /\ a.groups = ra[i].groups /\ a.order = ra[i].order
           /\ a.groupOrder = ra[i].groupOrder /\ a.ruleFile = ra[i].ruleFile
           /\ a.memberOfStartRuleFile = ra[i].memberOfStartRuleFile
           /\ a.groups # <<>> =>
                a.globalGroupOrder = Min(GroupOrders(ra, ra[i].ruleFile, ra[i].groups))
<1> DEFINE a == SetGlobalGroupOrder(ra)[i]
           min == Min(GroupOrders(ra, ra[i].ruleFile, ra[i].groups))
<1>1. a = IF ra[i].groups = <<>> THEN ra[i] ELSE [ra[i] EXCEPT !.globalGroupOrder = min]
  BY DEF SetGlobalGroupOrder
<1>2. ra[i] \in Attribute(Names, Types)
  OBVIOUS
<1> HIDE DEF a, min
<1>3. /\ a.fqName = ra[i].fqName /\ a.niceName = ra[i].niceName /\ a.mType = ra[i].mType
      /\ a.groups = ra[i].groups /\ a.order = ra[i].order
      /\ a.groupOrder = ra[i].groupOrder /\ a.ruleFile = ra[i].ruleFile
      /\ a.memberOfStartRuleFile = ra[i].memberOfStartRuleFile
      /\ a.groups # <<>> => a.globalGroupOrder = min
  BY <1>1, <1>2 DEF Attribute
<1> QED
  BY <1>3 DEF a, min

(* The attributes before they are sorted.                                  *)
Unsorted(info) ==
    LET visible == FoldLeft(PushVisible, <<>>, info.attributes)
    IN  [i \in DOMAIN visible |-> Declared(info, visible[i])]

LEMMA UnsortedAttributes ==
    ASSUME NEW D, NEW info, info.attributes \in Seq(D),
           NEW Names, NEW Types, WellFormed(info, Names, Types)
    PROVE  /\ Unsorted(info) \in Seq(Attribute(Names, Types))
           /\ FilesAgree(Unsorted(info))
           /\ \A m \in DOMAIN Unsorted(info) : \E i \in DOMAIN info.attributes :
                /\ IsVisible(info.attributes[i])
                /\ Unsorted(info)[m] = Declared(info, info.attributes[i])
           /\ \A i \in DOMAIN info.attributes : IsVisible(info.attributes[i]) =>
                \E m \in DOMAIN Unsorted(info) :
                  Unsorted(info)[m] = Declared(info, info.attributes[i])
<1>1. PICK visible :
        /\ visible = FoldLeft(PushVisible, <<>>, info.attributes)
        /\ visible \in Seq(D)
        /\ \A m \in DOMAIN visible :
             IsVisible(visible[m]) /\ \E i \in DOMAIN info.attributes : visible[m] = info.attributes[i]
        /\ \A i \in DOMAIN info.attributes :
             IsVisible(info.attributes[i]) =>
               \E m \in DOMAIN visible : visible[m] = info.attributes[i]
  BY VisibleOnly
<1>2. PICK ra : ra = Unsorted(info)
  OBVIOUS
<1>3. ra = [i \in DOMAIN visible |-> Declared(info, visible[i])]
  BY <1>1, <1>2 DEF Unsorted
<1>4. DOMAIN ra = DOMAIN visible /\ \A m \in DOMAIN visible : ra[m] = Declared(info, visible[m])
  BY <1>3
<1>5. \A m \in DOMAIN visible : /\ ra[m] \in Attribute(Names, Types)
                                /\ visible[m].prefix # NoPrefix => visible[m].prefix # info.stem
  BY <1>1, <1>4 DEF WellFormed
<1>6. ra \in Seq(Attribute(Names, Types))
  <2>1. DOMAIN visible = 1 .. Len(visible) /\ Len(visible) \in Nat
    BY <1>1
  <2>2. ra = [m \in 1 .. Len(visible) |-> ra[m]]
    BY <1>3, <1>4, <2>1
  <2>3. \A m \in 1 .. Len(visible) : ra[m] \in Attribute(Names, Types)
    BY <1>5, <2>1
  <2> QED
    BY <2>1, <2>2, <2>3
<1>7. FilesAgree(ra)
  BY <1>3, <1>5, DeclaredFilesAgree
<1> QED
  BY <1>1, <1>2, <1>4, <1>6, <1>7

(* getRuleAttributes, for any rule file: its attributes in a sorted set,   *)
(* each as declared, and every visible one of them, except where another   *)
(* has the same file, groups, order and name.                              *)
THEOREM RuleAttributesSorted ==
    ASSUME NEW D, NEW info, info.attributes \in Seq(D),
           NEW Names, NEW Types, WellFormed(info, Names, Types)
    PROVE  LET ra == GetRuleAttributes(info)
               S == {SetGlobalGroupOrder(Unsorted(info))[m] : m \in DOMAIN Unsorted(info)}
           IN
           /\ ra \in Seq(S) /\ Sorted(ra)
           /\ \A a, b \in S : IsRuleAttribute(a) /\ Consistent(a, b)
           /\ \A a \in S : \E k \in DOMAIN ra : Alike(a, ra[k])
<1>1. PICK un : un = Unsorted(info)
  OBVIOUS
<1>2. un \in Seq(Attribute(Names, Types)) /\ FilesAgree(un)
  BY <1>1, UnsortedAttributes
<1>3. PICK seq : seq = SetGlobalGroupOrder(un)
  OBVIOUS
<1>4. DOMAIN seq = DOMAIN un
  BY <1>3 DEF SetGlobalGroupOrder
<1> DEFINE S == {seq[m] : m \in DOMAIN un}
<1>5. seq \in Seq(S)
  <2>1. DOMAIN un = 1 .. Len(un) /\ Len(un) \in Nat
    BY <1>2
  <2>2. seq = [m \in 1 .. Len(un) |-> seq[m]]
    BY <1>3, <1>4, <2>1 DEF SetGlobalGroupOrder
  <2>3. \A m \in 1 .. Len(un) : seq[m] \in S
    BY <2>1
  <2> HIDE DEF S
  <2> QED
    BY <2>1, <2>2, <2>3
<1>6. \A a, b \in S : IsRuleAttribute(a) /\ Consistent(a, b)
  BY <1>2, <1>3, SetGlobalGroupOrderConsistent
<1>7. GetRuleAttributes(info) = FoldLeft(Insert, <<>>, seq)
  BY <1>1, <1>3 DEF GetRuleAttributes, Unsorted
<1>8. /\ GetRuleAttributes(info) \in Seq(S) /\ Sorted(GetRuleAttributes(info))
      /\ \A m \in DOMAIN seq : \E k \in DOMAIN GetRuleAttributes(info) :
           Alike(seq[m], GetRuleAttributes(info)[k])
  <2> HIDE DEF S
  <2> QED
    BY <1>5, <1>6, <1>7, SortedSet
<1> QED
  BY <1>1, <1>3, <1>4, <1>6, <1>8

(* An element of the set is of a declaration, and has its group's order.   *)
LEMMA ElementsDeclared ==
    ASSUME NEW D, NEW info, info.attributes \in Seq(D),
           NEW Names, NEW Types, WellFormed(info, Names, Types),
           NEW m \in DOMAIN Unsorted(info)
    PROVE  LET a == SetGlobalGroupOrder(Unsorted(info))[m] IN
           /\ \E i \in DOMAIN info.attributes :
                /\ IsVisible(info.attributes[i])
                /\ IsOf(a, info, info.attributes[i])
                /\ Unsorted(info)[m] = Declared(info, info.attributes[i])
           /\ a.groups # <<>> =>
                a.globalGroupOrder = Min(GroupOrders(Unsorted(info), a.ruleFile, a.groups))
<1>1. PICK un : un = Unsorted(info)
  OBVIOUS
<1>2. un \in Seq(Attribute(Names, Types))
  BY <1>1, UnsortedAttributes
<1>3. PICK i \in DOMAIN info.attributes :
        IsVisible(info.attributes[i]) /\ un[m] = Declared(info, info.attributes[i])
  BY <1>1, UnsortedAttributes
<1>4. PICK a : a = SetGlobalGroupOrder(un)[m]
  OBVIOUS
<1>5. /\ a.fqName = un[m].fqName /\ a.niceName = un[m].niceName /\ a.mType = un[m].mType
      /\ a.groups = un[m].groups /\ a.order = un[m].order
      /\ a.groupOrder = un[m].groupOrder /\ a.ruleFile = un[m].ruleFile
      /\ a.memberOfStartRuleFile = un[m].memberOfStartRuleFile
      /\ a.groups # <<>> =>
           a.globalGroupOrder = Min(GroupOrders(un, un[m].ruleFile, un[m].groups))
  BY <1>1, <1>2, <1>4, GlobalGroupOrderOnly
<1>6. IsOf(a, info, info.attributes[i])
  BY <1>3, <1>5 DEF IsOf, Declared
<1> QED
  BY <1>1, <1>3, <1>4, <1>5, <1>6

(* If each attribute has one declaration, none is lost in the set, and the *)
(* order of a group is the lowest of those that attributes in it give.     *)
THEOREM NoDeclarationLost ==
    ASSUME NEW D, NEW info, info.attributes \in Seq(D),
           NEW Names, NEW Types, WellFormed(info, Names, Types), OneDeclaration(info)
    PROVE  LET ra == GetRuleAttributes(info) IN
           /\ \A k \in DOMAIN ra : \E i \in DOMAIN info.attributes :
                IsVisible(info.attributes[i]) /\ IsOf(ra[k], info, info.attributes[i])
           /\ \A i \in DOMAIN info.attributes : IsVisible(info.attributes[i]) =>
                \E k \in DOMAIN ra : IsOf(ra[k], info, info.attributes[i])
           /\ \A k \in DOMAIN ra : ra[k].groups # <<>> =>
                ra[k].globalGroupOrder = Min(GroupOrders(ra, ra[k].ruleFile, ra[k].groups))
<1>1. PICK un, seq, ra : /\ un = Unsorted(info) /\ seq = SetGlobalGroupOrder(un)
                         /\ ra = GetRuleAttributes(info)
  OBVIOUS
<1> DEFINE attrs == info.attributes
           S == {seq[m] : m \in DOMAIN un}
<1>2. ra \in Seq(S) /\ \A m \in DOMAIN un : \E k \in DOMAIN ra : Alike(seq[m], ra[k])
  BY <1>1, RuleAttributesSorted
<1>3. \A m \in DOMAIN un :
        \E i \in DOMAIN attrs : /\ IsVisible(attrs[i]) /\ IsOf(seq[m], info, attrs[i])
                                /\ un[m] = Declared(info, attrs[i])
  BY <1>1, ElementsDeclared
<1>4. \A m \in DOMAIN un : seq[m].groups # <<>> =>
        seq[m].globalGroupOrder = Min(GroupOrders(un, seq[m].ruleFile, seq[m].groups))
  BY <1>1, ElementsDeclared
<1>5. \A k \in DOMAIN ra : \E m \in DOMAIN un : ra[k] = seq[m]
  BY <1>2
<1>6. \A i \in DOMAIN attrs : IsVisible(attrs[i]) =>
        \E m \in DOMAIN un : un[m] = Declared(info, attrs[i])
  BY <1>1, UnsortedAttributes
<1> HIDE DEF S
<1>7. ASSUME NEW i \in DOMAIN attrs, NEW j \in DOMAIN attrs,
             IsVisible(attrs[i]), IsVisible(attrs[j]),
             RuleFileOf(info, attrs[i]) = RuleFileOf(info, attrs[j]),
             attrs[i].name = attrs[j].name
      PROVE  attrs[i] = attrs[j]
  <2>1. /\ attrs[i].prefix # NoPrefix => attrs[i].prefix # info.stem
        /\ attrs[j].prefix # NoPrefix => attrs[j].prefix # info.stem
    BY <1>7 DEF WellFormed
  <2>2. attrs[i].prefix = attrs[j].prefix
    BY <1>7, <2>1 DEF RuleFileOf
  <2> QED
    BY <1>7, <2>2 DEF OneDeclaration
<1>8. ASSUME NEW i \in DOMAIN attrs, IsVisible(attrs[i])
      PROVE  \E k \in DOMAIN ra : IsOf(ra[k], info, attrs[i])
  <2>1. PICK m \in DOMAIN un : un[m] = Declared(info, attrs[i])
    BY <1>6, <1>8
  <2>2. PICK h \in DOMAIN attrs : /\ IsVisible(attrs[h]) /\ IsOf(seq[m], info, attrs[h])
                                  /\ un[m] = Declared(info, attrs[h])
    BY <1>3
  <2>3. attrs[h] = attrs[i]
    <3>1. RuleFileOf(info, attrs[h]) = RuleFileOf(info, attrs[i]) /\ attrs[h].name = attrs[i].name
      BY <2>1, <2>2 DEF Declared
    <3> QED
      BY <1>7, <1>8, <2>2, <3>1
  <2>4. PICK k \in DOMAIN ra : Alike(seq[m], ra[k])
    BY <1>2
  <2>5. PICK j \in DOMAIN attrs : IsVisible(attrs[j]) /\ IsOf(ra[k], info, attrs[j])
    BY <1>3, <1>5
  <2>6. seq[m].ruleFile = ra[k].ruleFile /\ seq[m].niceName = ra[k].niceName
    BY <2>4 DEF Alike
  <2>7. attrs[j] = attrs[i]
    <3>1. RuleFileOf(info, attrs[j]) = RuleFileOf(info, attrs[i]) /\ attrs[j].name = attrs[i].name
      BY <2>2, <2>3, <2>5, <2>6 DEF IsOf
    <3> QED
      BY <1>7, <1>8, <2>5, <3>1
  <2> QED
    BY <2>5, <2>7
<1>9. ASSUME NEW file, NEW path
      PROVE  GroupOrders(un, file, path) = GroupOrders(ra, file, path)
  <2>1. ASSUME NEW m \in DOMAIN un, un[m].ruleFile = file, IsPrefix(path, un[m].groups)
        PROVE  un[m].groupOrder \in GroupOrders(ra, file, path)
    <3>1. PICK i \in DOMAIN attrs : IsVisible(attrs[i]) /\ un[m] = Declared(info, attrs[i])
      BY <1>3
    <3>2. PICK k \in DOMAIN ra : IsOf(ra[k], info, attrs[i])
      BY <1>8, <3>1
    <3>3. /\ ra[k].ruleFile = un[m].ruleFile /\ ra[k].groups = un[m].groups
          /\ ra[k].groupOrder = un[m].groupOrder
      BY <3>1, <3>2 DEF IsOf, Declared
    <3> QED
      BY <2>1, <3>3 DEF GroupOrders
  <2>2. ASSUME NEW k \in DOMAIN ra, ra[k].ruleFile = file, IsPrefix(path, ra[k].groups)
        PROVE  ra[k].groupOrder \in GroupOrders(un, file, path)
    <3>1. PICK m \in DOMAIN un : ra[k] = seq[m]
      BY <1>5
    <3>2. PICK i \in DOMAIN attrs : /\ IsOf(seq[m], info, attrs[i])
                                    /\ un[m] = Declared(info, attrs[i])
      BY <1>3
    <3>3. /\ ra[k].ruleFile = un[m].ruleFile /\ ra[k].groups = un[m].groups
          /\ ra[k].groupOrder = un[m].groupOrder
      BY <3>1, <3>2 DEF IsOf, Declared
    <3> QED
      BY <2>2, <3>3 DEF GroupOrders
  <2> QED
    BY <2>1, <2>2 DEF GroupOrders
<1>10. ASSUME NEW k \in DOMAIN ra, ra[k].groups # <<>>
       PROVE  ra[k].globalGroupOrder = Min(GroupOrders(ra, ra[k].ruleFile, ra[k].groups))
  <2>1. PICK m \in DOMAIN un : ra[k] = seq[m]
    BY <1>5
  <2>2. ra[k].globalGroupOrder = Min(GroupOrders(un, ra[k].ruleFile, ra[k].groups))
    BY <1>4, <1>10, <2>1
  <2> QED
    BY <1>9, <2>2
<1>11. \A k \in DOMAIN ra : \E i \in DOMAIN attrs :
         IsVisible(attrs[i]) /\ IsOf(ra[k], info, attrs[i])
  BY <1>3, <1>5
<1> QED
  BY <1>1, <1>8, <1>10, <1>11
=============================================================================
