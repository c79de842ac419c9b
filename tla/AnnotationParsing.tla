-------------------------- MODULE AnnotationParsing --------------------------
(***************************************************************************)
(* What an attribute's annotations say of its parameter: traits, each with *)
(* the annotation it was found in, and the options of an enumeration.  The *)
(* arguments of the other traits (range, file extensions, description)     *)
(* shape only the widget.                                                  *)
(***************************************************************************)
EXTENDS RuleAttributes

CONSTANTS Spelling,  \* Spelling[s]: the colour s spells, as getColorString
          Black      \* writes it; and what all other strings are read as

NullKey == "#NULL#"

(* GetRangeType: the old form with two numbers, the new form with a least  *)
(* and a greatest value, or options.                                       *)
GetRangeType(an) ==
    LET keys == {an.args[i].key : i \in DOMAIN an.args}
        types == {an.args[i].type : i \in DOMAIN an.args}
    IN  IF \/ Len(an.args) = 2 /\ an.args[1].type = "float"
           \/ Len(an.args) >= 2 /\ {"min", "max"} \subseteq keys
        THEN "range"
        ELSE IF keys = {NullKey} /\ Cardinality(types) = 1 THEN "enum"
        ELSE "none"

(* detectAttributeTrait; a description is left out.                        *)
DetectAttributeTrait(an) ==
    CASE an.name = "@Enum" -> "enum"
      [] an.name = "@Range" -> GetRangeType(an)
      [] an.name = "@Color" -> "color"
      [] an.name = "@Directory" -> "dir"
      [] an.name = "@File" -> "file"
      [] an.name = "@Angle" -> "angle"
      [] an.name = "@Percent" -> "percent"
      [] OTHER -> "none"

(* parseEnumAnnotation: the options are texts.  A number is written with   *)
(* six decimals, which is all the numbers here have.                       *)
Options(an) ==
    LET given == SelectSeq(an.args, LAMBDA a : a.key = NullKey)
    IN  [i \in DOMAIN given |-> given[i].val]

(* getAttributeAnnotations: of two annotations for a trait the later one   *)
(* counts.                                                                 *)
AttributeTraits(decl) ==
    LET at(t) == {i \in DOMAIN decl.annotations :
                    DetectAttributeTrait(decl.annotations[i]) = t}
        traits == {DetectAttributeTrait(decl.annotations[i]) :
                     i \in DOMAIN decl.annotations} \ {"none"}
    IN  [t \in traits |-> decl.annotations[Max(at(t))]]

(* parseColor and getColorString: a text that starts with # and six        *)
(* digits is a colour, whatever follows and however the digits are spelt.  *)
ColorString(s) == IF s \in DOMAIN Spelling THEN Spelling[s] ELSE Black
=============================================================================
