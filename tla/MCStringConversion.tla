------------------------- MODULE MCStringConversion -------------------------
(* Two threads and strings with and without a style prefix.                *)
EXTENDS StringConversion

Str(style, stem) == [style |-> style, stem |-> stem]

Names == {Str("Default", "height"), Str("none", "first_floor")}

(* Values that are not the name of an attribute, or whose two conversions  *)
(* are the same.                                                           *)
OtherValues == {Str("none", "first_floor"), Str("New", "height"), Str("none", "first floor")}

(* A report, or an attribute of another style, named like a value.         *)
SharedStrings == {Str("none", "first floor"), Str("New", "height")}

AllStrings == Names \cup OtherValues

AllConversions ==
    {PrimAttrName(s) : s \in AllStrings} \cup {Narrowed(s) : s \in AllStrings}
=============================================================================
