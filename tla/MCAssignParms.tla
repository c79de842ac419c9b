---------------------------- MODULE MCAssignParms ----------------------------
(* Three versions of a package whose attributes depend on each other, and  *)
(* two packages with imports, groups, orders and other kinds of            *)
(* parameters.                                                             *)
EXTENDS AssignParms

Arg(key, type, val) == [key |-> key, type |-> type, val |-> val]
Str(val) == Arg(NullKey, "str", val)
Num(val) == Arg(NullKey, "float", val)
An(name, args) == [name |-> name, args |-> args]

Attr(prefix, name, type, val, like, annotations) ==
    [style |-> 1, prefix |-> prefix, name |-> name, params |-> 0, type |-> type,
     val |-> val, like |-> like, annotations |-> annotations]

Rule(name, annotated) == [style |-> 1, name |-> name, annotated |-> annotated]

(* Names: of attributes, 1 to 19; of files, 50 to 59, the last one with a  *)
(* dot; of groups, 60 to 69.                                               *)
Names == 1 .. 69
DottedParts == [n \in Names |-> IF n = 59 THEN <<51, 61>> ELSE <<n>>]

(* Colours: 201 is 200 in lower case.                                      *)
Colours == [s \in {200, 201, 202} |-> IF s = 201 THEN 200 ELSE s]

-----------------------------------------------------------------------------
(* 1 height, 2 eaves, 3 mode, 4 label                                      *)
Facade ==
    [stem |-> 50, annotations |-> <<>>, rules |-> <<Rule(40, FALSE), Rule(41, TRUE)>>,
     attributes |->
       <<Attr(0, 1, "float", <<6>>, 0, <<>>),
         Attr(0, 2, "float", <<3>>, 1, <<An("@Range", <<Num(0), Num(30)>>)>>),
         Attr(0, 3, "str", <<21>>, 0, <<An("@Range", <<Str(21), Str(22)>>)>>),
         Attr(0, 4, "str", <<20>>, 3, <<>>)>>]

(* The same attributes with other values, options and dependencies, one of *)
(* them hidden.                                                            *)
FacadeV2 ==
    [Facade EXCEPT !.attributes =
       <<Attr(0, 1, "float", <<8>>, 0, <<An("@Hidden", <<>>)>>),
         Attr(0, 2, "float", <<3>>, 1, <<>>),
         Attr(0, 3, "str", <<22>>, 0, <<An("@Enum", <<Str(22), Str(23)>>)>>),
         Attr(0, 4, "str", <<20>>, 0, <<An("@File", <<>>)>>)>>]

(* One more attribute, and one that has become a number.                   *)
FacadeV3 ==
    [Facade EXCEPT !.attributes =
       <<@[1], @[2], Attr(0, 3, "float", <<22>>, 0, <<>>), Attr(0, 6, "float", <<2>>, 0, <<>>)>>]

(* 11 tint and 12 trim are colours, 13 share is a percentage, 14 level a   *)
(* menu of numbers.                                                        *)
Import(file) == An("_$IMPORTS", <<Arg("fullPrefix", "str", file)>>)
Group(names, order) == An("@Group", [i \in DOMAIN names |-> Str(names[i])] \o <<Num(order)>>)
Order(n) == An("@Order", <<Num(n)>>)

City ==
    [stem |-> 50, annotations |-> <<Import(59), Import(51)>>, rules |-> <<Rule(42, FALSE)>>,
     attributes |->
       <<Attr(51, 1, "float", <<4>>, 0, <<Group(<<61>>, 3)>>),
         Attr(59, 1, "float", <<5>>, 0, <<>>),
         Attr(0, 11, "str", <<201>>, 0, <<An("@Color", <<>>), Group(<<62>>, 5)>>),
         Attr(0, 12, "str", <<200>>, 11, <<An("@Color", <<>>), Group(<<62>>, 8), Order(2)>>),
         Attr(0, 13, "float", <<1>>, 0, <<An("@Percent", <<>>), Group(<<63>>, 9)>>),
         Attr(0, 14, "float", <<2>>, 0, <<An("@Enum", <<Num(2), Num(4)>>), Group(<<63, 60>>, 4)>>),
         Attr(0, 16, "bool", <<1>>, 0, <<Order(5), Group(<<63, 60, 64>>, 4)>>),
         Attr(0, 17, "bool", <<1>>, 0, <<Order(5)>>),
         [Attr(0, 18, "float", <<1>>, 0, <<>>) EXCEPT !.params = 1],
         Attr(0, 19, "float", <<1>>, 0, <<An("@Hidden", <<>>)>>)>>]

(* 15 open is a toggle and so is 14 here, 5 tags a list.                   *)
Door ==
    [stem |-> 50, annotations |-> <<>>, rules |-> <<Rule(40, TRUE), Rule(41, TRUE)>>,
     attributes |->
       <<Attr(0, 15, "bool", <<1>>, 0, <<>>),
         Attr(0, 14, "bool", <<1>>, 15, <<>>),
         Attr(0, 5, "strings", <<30>>, 0, <<>>)>>]

RuleFiles ==
    [facade |-> Facade, facade2 |-> FacadeV2, facade3 |-> FacadeV3, city |-> City, door |-> Door]

UserEdits ==
    {<<<<0, 1>>, <<7>>>>, <<<<0, 3>>, <<1>>>>, <<<<0, 5>>, <<31>>>>,
     <<<<0, 11>>, <<202>>>>, <<<<0, 14>>, <<1>>>>, <<<<0, 15>>, <<0>>>>}
=============================================================================
