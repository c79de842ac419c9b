--------------------------- MODULE RuleAttributes ---------------------------
(***************************************************************************)
(* getRuleAttributes: the attributes of a rule file, with the order and    *)
(* the groups that its annotations give them, as a sorted set.             *)
(*                                                                         *)
(* A rule file info has the name of its rule file, annotations (those for  *)
(* the imports), rules and attributes.  The name of an attribute has three *)
(* parts, style$prefix.name, where the prefix tells the imported file and  *)
(* is missing in the file itself.  An annotation has a name and arguments, *)
(* each with a key, a type and a value.  Names and values are numbers.     *)
(***************************************************************************)
EXTENDS RuleAttributeCmp, SequencesExt

OrderNone == 2147483647
NoPrefix == 0

(* getImportOrderMap: every import counts, and the last one of a file      *)
(* gives its place.                                                        *)
ImportOrder(info) ==
    LET args == FlattenSeq([i \in DOMAIN info.annotations |->
                              IF info.annotations[i].name = "_$IMPORTS"
                              THEN info.annotations[i].args ELSE <<>>])
        imports == SelectSeq(args, LAMBDA a : a.type = "str" /\ a.key = "fullPrefix")
    IN  [file \in {imports[i].val : i \in DOMAIN imports} |->
           Max({i \in DOMAIN imports : imports[i].val = file}) - 1]

-----------------------------------------------------------------------------
(* getRuleAttributes, the loop over the annotations of an attribute.       *)

Annotated(decl, name) == SelectSeq(decl.annotations, LAMBDA an : an.name = name)

Hidden(decl) == Annotated(decl, "@Hidden") # <<>>

(* The last annotation with a number decides.                              *)
OrderOf(decl) ==
    LET given == SelectSeq(Annotated(decl, "@Order"),
                           LAMBDA an : an.args # <<>> /\ an.args[1].type = "float")
    IN  IF given = <<>> THEN OrderNone ELSE Last(given).args[1].val

(* All names of all groups make one path.                                  *)
GroupsOf(decl) ==
    LET given == Annotated(decl, "@Group")
        names(an) == SelectSeq(an.args, LAMBDA a : a.type = "str")
        path == FlattenSeq([i \in DOMAIN given |-> names(given[i])])
    IN  [i \in DOMAIN path |-> path[i].val]

GroupOrderOf(decl) ==
    LET given == SelectSeq(Annotated(decl, "@Group"),
                           LAMBDA an : an.args # <<>> /\ Last(an.args).type = "float")
    IN  IF given = <<>> THEN OrderNone ELSE Last(Last(given).args).val

FqName(decl) == [style |-> decl.style, prefix |-> decl.prefix, name |-> decl.name]

RuleFileOf(info, decl) == IF decl.prefix = NoPrefix THEN info.stem ELSE decl.prefix

(* An attribute before setGlobalGroupOrder.                                *)
Declared(info, decl) ==
    LET file == RuleFileOf(info, decl) IN
    [fqName |-> FqName(decl),
     niceName |-> decl.name,
     mType |-> decl.type,
     groups |-> GroupsOf(decl),
     order |-> OrderOf(decl),
     groupOrder |-> GroupOrderOf(decl),
     globalGroupOrder |-> OrderNone,
     ruleFile |-> file,
     ruleOrder |-> IF file \in DOMAIN ImportOrder(info) THEN ImportOrder(info)[file]
                                                        ELSE OrderNone,
     memberOfStartRuleFile |-> decl.prefix = NoPrefix]

-----------------------------------------------------------------------------
(* Variant: only the attributes of the very group count.                   *)
GroupOrders_sameGroup(ra, file, path) ==
    {b.groupOrder : b \in {ra[i] : i \in {j \in DOMAIN ra :
                             ra[j].ruleFile = file /\ path = ra[j].groups}}}

(* The orders that the attributes of a group, and of the groups in it,     *)
(* give to this group.                                                     *)
GroupOrders(ra, file, path) ==
    {b.groupOrder : b \in {ra[i] : i \in {j \in DOMAIN ra :
                             ra[j].ruleFile = file /\ IsPrefix(path, ra[j].groups)}}}

(* setGlobalGroupOrder: the lowest of them.                                *)
SetGlobalGroupOrder(ra) ==
    [i \in DOMAIN ra |->
       IF ra[i].groups = <<>> THEN ra[i]
       ELSE [ra[i] EXCEPT !.globalGroupOrder =
                            Min(GroupOrders(ra, ra[i].ruleFile, ra[i].groups))]]

(* A std::set inserts an element behind those that go before it, unless it *)
(* has one already of which neither goes before the other.                 *)
Insert(set, a) ==
    LET lower == {i \in DOMAIN set : Before(set[i], a)}
    IN  IF \E i \in DOMAIN set \ lower : ~Before(a, set[i]) THEN set
        ELSE InsertAt(set, Cardinality(lower) + 1, a)

(* getRuleAttributes: only attributes without parameters, none hidden.     *)
IsVisible(decl) == decl.params = 0 /\ ~Hidden(decl)

PushVisible(ra, decl) == IF IsVisible(decl) THEN Append(ra, decl) ELSE ra

GetRuleAttributes(info) ==
    LET visible == FoldLeft(PushVisible, <<>>, info.attributes)
    IN  FoldLeft(Insert, <<>>,
                 SetGlobalGroupOrder([i \in DOMAIN visible |-> Declared(info, visible[i])]))

-----------------------------------------------------------------------------
(* Numbers are ints in the code; a group that no annotation gives an order *)
(* has OrderNone, the greatest of them.                                    *)
Attribute(Names, Types) ==
    [fqName : Names, niceName : Int, mType : Types, groups : Seq(Int), order : Int,
     groupOrder : {n \in Int : -OrderNone - 1 <= n}, globalGroupOrder : Int,
     ruleFile : Int, ruleOrder : Int, memberOfStartRuleFile : BOOLEAN]

(* A rule file whose annotations give names and numbers, and that imports  *)
(* no file with its own name.                                              *)
WellFormed(info, Names, Types) ==
    \A i \in DOMAIN info.attributes :
      LET decl == info.attributes[i] IN
      IsVisible(decl) =>
        /\ Declared(info, decl) \in Attribute(Names, Types)
        /\ decl.prefix # NoPrefix => decl.prefix # info.stem

(* Each attribute has one declaration, also among those of all styles.     *)
OneDeclaration(info) ==
    \A i, j \in DOMAIN info.attributes :
      LET d == info.attributes[i]
          e == info.attributes[j]
      IN  IsVisible(d) /\ IsVisible(e) /\ d.prefix = e.prefix /\ d.name = e.name => d = e
=============================================================================
