-------------------------- MODULE RuleAttributeCmp --------------------------
(***************************************************************************)
(* RuleAttributeCmp: the order in which std::set keeps the attributes of a *)
(* rule file, and with it the order of the parameters of pldAssign.  Rule  *)
(* files come first, then groups and single attributes in a mixed order,   *)
(* then the attributes of a group.                                         *)
(*                                                                         *)
(* Names are numbers: only their alphabetical order matters here.  A group *)
(* path is the sequence of the names of its groups, from the outermost.    *)
(***************************************************************************)
EXTENDS Integers, Sequences

(* What the order looks at; an attribute has more.                         *)
IsRuleAttribute(a) ==
    /\ a.groups \in Seq(Int)
    /\ {a.niceName, a.order, a.globalGroupOrder, a.ruleFile, a.ruleOrder} \subseteq Int
    /\ a.memberOfStartRuleFile \in BOOLEAN

(* compareRuleFile                                                         *)
RuleFileBefore(a, b) ==
    \/ a.memberOfStartRuleFile /\ ~b.memberOfStartRuleFile
    \/ /\ a.memberOfStartRuleFile = b.memberOfStartRuleFile
       /\ \/ a.ruleOrder < b.ruleOrder
          \/ a.ruleOrder = b.ruleOrder /\ a.ruleFile < b.ruleFile

(* isChildOf: the path of the parent is shorter, and all of it is in the   *)
(* path of the child.                                                      *)
IsChildOf(child, parent) ==
    /\ Len(parent) < Len(child)
    /\ \A i \in 1 .. Len(parent) : parent[i] = child[i]

(* compareGroups: the first difference decides, and the longer path goes   *)
(* before its own beginning.                                               *)
GroupsBefore(s, t) ==
    \E i \in 1 .. Len(s) :
      /\ \A j \in 1 .. i - 1 : j <= Len(t) /\ s[j] = t[j]
      /\ i > Len(t) \/ s[i] < t[i]

(* compareOrderToGroupOrder                                                *)
GroupBeforeSingle(grouped, single) ==
    \/ grouped.globalGroupOrder < single.order
    \/ /\ grouped.globalGroupOrder = single.order
       /\ grouped.groups[1] <= single.niceName

(* compareGroupOrder: a child goes after its parent.                       *)
GroupOrderBefore(a, b) ==
    IF b.groups = <<>> THEN GroupBeforeSingle(a, b)
    ELSE IF a.groups = <<>> THEN ~GroupBeforeSingle(b, a)
    ELSE /\ ~IsChildOf(a.groups, b.groups)
         /\ \/ IsChildOf(b.groups, a.groups)
            \/ a.globalGroupOrder < b.globalGroupOrder
            \/ /\ a.globalGroupOrder = b.globalGroupOrder
               /\ GroupsBefore(a.groups, b.groups)

(* Variant: names do not matter.                                           *)
AttributeOrderBefore_noName(a, b) == a.order < b.order

(* compareAttributeOrder                                                   *)
AttributeOrderBefore(a, b) ==
    \/ a.order < b.order
    \/ a.order = b.order /\ a.niceName < b.niceName

(* RuleAttributeCmp::operator()                                            *)
Before(a, b) ==
    IF a.ruleFile # b.ruleFile THEN RuleFileBefore(a, b)
    ELSE IF a.groups # b.groups THEN GroupOrderBefore(a, b)
    ELSE AttributeOrderBefore(a, b)
=============================================================================
