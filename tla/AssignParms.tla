---------------------------- MODULE AssignParms ----------------------------
(***************************************************************************)
(* A pldAssign node, its rule attribute parameters and the cooks that keep *)
(* them in step with the rule package.  A cook sends the values that a     *)
(* user has set to the rule engine, which evaluates the others; it builds  *)
(* the parameters anew if they do not fit the attributes of the package,   *)
(* makes the evaluated values the default values of parameters that a user *)
(* has not set, and writes the set ones to primitive attributes, where     *)
(* pldGenerate finds them.  A parameter is set if it differs from its      *)
(* default value; each write that changes a parameter schedules a cook.    *)
(*                                                                         *)
(* External: Houdini's parameters, and how a rule computes its attributes: *)
(* a declared attribute evaluates to a value of its own or to that of      *)
(* another attribute ("like").  One initial shape, whose input brings no   *)
(* rule attributes along.                                                  *)
(***************************************************************************)
EXTENDS NodeSpareParameter

CONSTANTS Packages,   \* contents of rule packages
          RuleFile,   \* RuleFile[p]: the rule file in them
          Edits,      \* the values a user may set: <<parameter, value>>
          MaxItems,   \* items a user gives to a list
          Folder      \* RULE_ATTRIBUTES_FOLDER_NAME

Types == {"bool", "float", "str"} \cup Lists

ValuesOf(type) ==
    CASE type = "bool" -> [1 .. 1 -> {0, 1}]
      [] type \in {"float", "str"} -> [1 .. 1 -> Int]
      [] type = "bools" -> Seq({0, 1})
      [] type \in {"floats", "strings"} -> Seq(Int)

(* A declared attribute has a value of its own or that of another one of   *)
(* its type; the menu that its annotations make of it has options.         *)
SoundDeclaration(info, d) ==
    /\ d.type \in Types
    /\ d.val \in ValuesOf(d.type)
    /\ d.like # NoPrefix =>
         \E e \in ToSet(info.attributes) :
           /\ e.params = 0
           /\ e.style = d.style /\ e.prefix = d.prefix /\ e.name = d.like
           /\ e.type = d.type
    /\ "enum" \in DOMAIN AttributeTraits(d) =>
         Options(AttributeTraits(d)["enum"]) \in Seq(Int) \ {<<>>}

SoundRuleFile(info) ==
    LET attributes == ToSet(info.attributes) IN
    /\ info.attributes \in Seq(attributes)
    /\ WellFormed(info, [style : Int, prefix : Int, name : Int], Types)
    /\ \A d, e \in attributes : d.prefix = e.prefix /\ d.name = e.name => d = e
    /\ \A d \in attributes : SoundDeclaration(info, d)

(* Declarations are as a compiled rule file has them; a value that a user  *)
(* sets fits the parameter, and a toggle is on or off.  A colour that      *)
(* getColorString has written is read and written again as it is.          *)
ASSUME AssignParmsAssumption ==
    /\ \A p \in Packages : SoundRuleFile(RuleFile[p])
    /\ \A e \in Edits :
         /\ e[2] \in Seq(Nat)
         /\ \A p \in Packages : \A d \in ToSet(RuleFile[p].attributes) :
              <<d.prefix, d.name>> = e[1] /\ d.type \in {"bool", "bools"} =>
                e[2] \in Seq({0, 1})
    /\ Spelling \in [DOMAIN Spelling -> Int]
    /\ ColorString(Black) = Black
    /\ \A s \in DOMAIN Spelling : ColorString(Spelling[s]) = Spelling[s]
    /\ {Black, Folder} \subseteq Int

VARIABLES rpk,        \* the package of the node
          style,      \* the parameters Style
          startRule,  \*   and Start Rule
          layout,     \* the arrangement of the spare parameters
          parms,      \* the spare parameters that are no folders
          defaults,   \* mDefaultCGAAttributes
          state,      \* "dirty" if a cook is due, "clean" or "failed"
          turn,       \* history: the parity of the cooks that followed one
                      \* another on their own
          sent,       \* history: the values that the last cook sent, if
                      \* it was the last of those that follow one another
          sentAll     \* history: the last cook, if it is over, sent the set
                      \* values as they are on the node after it

vars == <<rpk, style, startRule, layout, parms, defaults, state, turn, sent, sentAll>>

Info == RuleFile[rpk]
SortedAttributes == [p \in Packages |-> GetRuleAttributes(RuleFile[p])]

(* toPrimAttr and toRuleAttr; encoding keeps names apart.                  *)
PrimAttr(fq) == <<fq.prefix, fq.name>>
RuleAttr(id) == [style |-> style, prefix |-> id[1], name |-> id[2]]

Value(type, val) == [type |-> type, val |-> val]

Decl(fq) == CHOOSE d \in ToSet(Info.attributes) : FqName(d) = fq

(* External: what a rule evaluates its attributes to, given some values;   *)
(* one of another type than the attribute's is ignored.  Hidden attributes *)
(* are not reported back.                                                  *)
Evaluate(given) ==
    LET declared == {d \in ToSet(Info.attributes) : d.params = 0 /\ d.style = style}
        isGiven(d) == FqName(d) \in DOMAIN given /\ given[FqName(d)].type = d.type
        other(d) == CHOOSE e \in declared : e.prefix = d.prefix /\ e.name = d.like
        source(d) == IF isGiven(d) \/ d.like = NoPrefix THEN d ELSE other(d)
        val(d) == IF isGiven(source(d)) THEN given[FqName(source(d))].val
                                        ELSE source(d).val
    IN  [fq \in {FqName(d) : d \in {e \in declared : ~Hidden(e)}} |->
           Value(Decl(fq).type, val(Decl(fq)))]

-----------------------------------------------------------------------------
(* findStartRule: the last rule with an annotation, or the first rule.     *)
FindStartRule(rules) ==
    LET annotated == {i \in DOMAIN rules : rules[i].annotated}
    IN  rules[IF annotated = {} THEN 1 ELSE Max(annotated)]

-----------------------------------------------------------------------------
(* getCGAAttributeTypes and compareAttributeTypes                          *)

(* The type of the attributes that a kind of parameter is for.             *)
TypeOf(kind) ==
    CASE kind = "toggle" -> "bool"
      [] kind \in {"float", "floatEnum"} -> "float"
      [] kind \in {"string", "stringEnum", "color"} -> "str"
      [] kind \in Lists -> kind

(* Variant: the types of lists are forgotten.                              *)
CompareAttributeTypes_noLists(ra) ==
    \A a \in ToSet(ra) :
      \E id \in DOMAIN parms :
        RuleAttr(id) = a.fqName /\ parms[id].kind \notin Lists /\ TypeOf(parms[id].kind) = a.mType

CompareAttributeTypes(ra) ==
    \A a \in ToSet(ra) :
      \E id \in DOMAIN parms : RuleAttr(id) = a.fqName /\ TypeOf(parms[id].kind) = a.mType

-----------------------------------------------------------------------------
(* buildUI                                                                 *)

(* getDefaultCGAAttrValue, getDefaultBool ... getDefaultStringVec          *)
DefaultOf(a, values) ==
    IF a.fqName \in DOMAIN values /\ values[a.fqName].type = a.mType
    THEN values[a.fqName].val
    ELSE IF a.mType \in Lists THEN <<>> ELSE <<0>>

(* tryHandleEnum, tryHandleRange: a menu goes before a range.              *)
FloatParmFor(default, traits) ==
    IF "enum" \in DOMAIN traits THEN EnumParm("floatEnum", default, Options(traits["enum"]))
                                ELSE FloatParm(default, "percent" \in DOMAIN traits)

(* tryHandleEnum, tryHandleFile, tryHandleDir, tryHandleColor, in turn.    *)
StringParmFor(default, traits) ==
    IF "enum" \in DOMAIN traits
    THEN EnumParm("stringEnum", default, Options(traits["enum"]))
    ELSE IF "color" \in DOMAIN traits /\ {"file", "dir"} \cap DOMAIN traits = {}
    THEN Parm("color", <<ColorString(default)>>)
    ELSE Parm("string", <<default>>)

ParmFor(a, values) ==
    LET traits == AttributeTraits(Decl(a.fqName))
        default == DefaultOf(a, values)
    IN  CASE a.mType = "bool" -> Parm("toggle", default)
          [] a.mType = "float" -> FloatParmFor(default[1], traits)
          [] a.mType = "str" -> StringParmFor(default[1], traits)
          [] a.mType \in Lists -> ArrayParm(a.mType, default)

(* The folders a parameter is in.                                          *)
FoldersOf(a) == <<Folder, a.ruleFile>> \o a.groups

(* Each name of a folder has a part, be it an empty one.                   *)
ASSUME FolderNames ==
    \A p \in Packages : \A a \in ToSet(SortedAttributes[p]) :
      \A n \in ToSet(FoldersOf(a)) : Parts[n] \in Seq(Int) \ {<<>>}

EmptyLayout == AddFolder(<<Entry("parm", <<>>)>>, Folder, <<>>)

AddAttribute(layoutSoFar, a) == AddParmEntry(layoutSoFar, PrimAttr(a.fqName), FoldersOf(a))

BuildLayout(ra) == FoldLeft(AddAttribute, EmptyLayout, ra)

Layout == [p \in Packages |-> BuildLayout(SortedAttributes[p])]

BuildParms(ra, values) ==
    [id \in {PrimAttr(a.fqName) : a \in ToSet(ra)} |->
       ParmFor(CHOOSE a \in ToSet(ra) : PrimAttr(a.fqName) = id, values)]

-----------------------------------------------------------------------------
(* updateUIDefaultValues                                                   *)

(* Variant: the options are counted from one.                              *)
ShownValue_fromOne(parm, d) ==
    IF parm.kind \in Menus
    THEN LET same == {i \in DOMAIN parm.options : parm.options[i] = d.val[1]}
         IN  IF same = {} THEN parm.value ELSE <<Min(same)>>
    ELSE IF parm.kind = "color" THEN <<ColorString(d.val[1])>> ELSE d.val

(* The value of a parameter for an evaluated value; a menu without such an *)
(* option stays as it is.                                                  *)
ShownValue(parm, d) ==
    CASE parm.kind \in Menus /\ d.type \in {"bool", "float", "str"} ->
           LET same == {i \in DOMAIN parm.options : parm.options[i] = d.val[1]}
           IN  IF same = {} THEN parm.value ELSE <<Min(same) - 1>>
      [] parm.kind = "color" /\ d.type = "str" -> <<ColorString(d.val[1])>>
      [] parm.kind \notin Menus \cup {"color"} /\ d.type = TypeOf(parm.kind) -> d.val
      [] OTHER -> parm.value

(* The value is written and becomes the default; overrideMultiParmDefault  *)
(* does so for the number and for each item of a list.                     *)
WithDefault(parm, d) ==
    LET val == ShownValue(parm, d)
    IN  [parm EXCEPT !.value = val, !.default = val, !.count = Len(val)]

UpdateUIDefaultValues(ps, values) ==
    [id \in DOMAIN ps |->
       IF IsDefault(ps[id]) /\ RuleAttr(id) \in DOMAIN values
       THEN WithDefault(ps[id], values[RuleAttr(id)])
       ELSE ps[id]]

-----------------------------------------------------------------------------
(* The values that a user has set, as the cook and as pldGenerate get them.*)

Token(parm) == <<parm.options[parm.value[1] + 1]>>

(* The value that a parameter shows, as a value of its rule attribute.     *)
Shown(parm) == IF parm.kind \in Menus THEN Token(parm) ELSE parm.value

(* visitMultiParmChildren: the items of a list are those of its kind; if   *)
(* there are none, it passes for any.                                      *)
ItemsFit(parm, type) == type = parm.kind \/ (type \in Lists /\ parm.value = <<>>)

(* generateAttributeMapFromParameterValues; menus and lists go by the type *)
(* that the value of the cook before has, and need one.                    *)
GivenAs(parm, type) ==
    CASE parm.kind \in Menus /\ type \in {"float", "str"} -> {Value(type, Token(parm))}
      [] parm.kind \in Menus /\ type = "bool" ->
           {Value("float", IF Token(parm) = <<0>> THEN <<0>> ELSE <<1>>)}
      [] parm.kind \in Lists /\ ItemsFit(parm, type) -> {Value(type, parm.value)}
      [] OTHER -> {}

Given(id) ==
    IF parms[id].kind \in Menus \cup Lists
    THEN IF RuleAttr(id) \in DOMAIN defaults
         THEN GivenAs(parms[id], defaults[RuleAttr(id)].type) ELSE {}
    ELSE {Value(TypeOf(parms[id].kind), parms[id].value)}

(* Variant: all values are passed on.                                      *)
Overrides_all ==
    LET set == {id \in DOMAIN parms : Given(id) # {}}
    IN  [fq \in {RuleAttr(id) : id \in set} |->
           CHOOSE v \in Given(PrimAttr(fq)) : TRUE]

Overrides ==
    LET set == {id \in DOMAIN parms : ~IsDefault(parms[id]) /\ Given(id) # {}}
    IN  [fq \in {RuleAttr(id) : id \in set} |->
           CHOOSE v \in Given(PrimAttr(fq)) : TRUE]

StorageOf(kind) == CASE kind = "bools" -> "int8s" [] OTHER -> kind

(* updatePrimitiveAttributes: the storage and the value of the attribute   *)
(* for a parameter; what the rule has not evaluated is not written.        *)
Written(parm, d) ==
    CASE parm.kind \in Menus -> {Value("string", Token(parm))}
      [] parm.kind = "toggle" -> {Value("int8", parm.value)}
      [] parm.kind \in Lists ->
           IF ItemsFit(parm, d.type) THEN {Value(StorageOf(d.type), parm.value)} ELSE {}
      [] parm.kind = "float" ->
           {Value("float", IF parm.percent THEN <<parm.value[1] \div 100>> ELSE parm.value)}
      [] OTHER -> {Value("string", parm.value)}

(* Variant: all values become attributes.                                  *)
PrimAttributes_all ==
    LET written(id) == Written(parms[id], defaults[RuleAttr(id)])
        known == {id \in DOMAIN parms : RuleAttr(id) \in DOMAIN defaults /\ written(id) # {}}
    IN  [id \in known |-> CHOOSE v \in written(id) : TRUE]

(* The attributes of the output.  A cook ends with writing them, and the   *)
(* output of a node is taken after it has cooked: so they are those of     *)
(* the present parameters, in a state that is clean.                       *)
PrimAttributes ==
    LET written(id) == Written(parms[id], defaults[RuleAttr(id)])
        set == {id \in DOMAIN parms : /\ ~IsDefault(parms[id])
                                      /\ RuleAttr(id) \in DOMAIN defaults
                                      /\ written(id) # {}}
    IN  [id \in set |-> CHOOSE v \in written(id) : TRUE]

(* FromHoudini: a rule attribute for each attribute of the primitives.     *)
RuleType(storage) ==
    CASE storage = "int8" -> "bool"
      [] storage = "float" -> "float"
      [] storage = "string" -> "str"
      [] storage = "int8s" -> "bools"
      [] storage = "floats" -> "floats"
      [] storage = "strings" -> "strings"

FromHoudini(attrs) ==
    [fq \in {RuleAttr(id) : id \in DOMAIN attrs} |->
       LET a == attrs[PrimAttr(fq)]
           bool(v) == IF v > 0 THEN 1 ELSE 0
       IN  Value(RuleType(a.type),
                 IF a.type \in {"int8", "int8s"} THEN [i \in DOMAIN a.val |-> bool(a.val[i])]
                                                 ELSE a.val)]

-----------------------------------------------------------------------------
NoValues == [fq \in {} |-> Value("none", <<>>)]
NoParms == [id \in {} |-> Parm("toggle", <<0>>)]

Init ==
    /\ rpk \in Packages
    /\ style = FindStartRule(Info.rules).style
    /\ startRule = FindStartRule(Info.rules).name
    /\ layout = <<>>
    /\ parms = NoParms
    /\ defaults = NoValues
    /\ state = "dirty"
    /\ turn = 0
    /\ sent = NoValues
    /\ sentAll = TRUE

(* For the history of what was sent: the package has the attribute of the  *)
(* parameter.                                                              *)
Declares(id) == RuleAttr(id) \in {FqName(d) : d \in ToSet(Info.attributes)}

(* Its value is sent as it is, as one of the type the parameter is for,    *)
(* and the rule reports the attribute back.                                *)
Sent(id, values) ==
    /\ RuleAttr(id) \in DOMAIN values
    /\ Value(TypeOf(parms[id].kind), Shown(parms[id])) \in Given(id)

(* cookMySop                                                               *)
Cook ==
    LET values == Evaluate(Overrides)
        ra == SortedAttributes[rpk]
        fits == CompareAttributeTypes(ra)
        built == IF fits THEN parms ELSE BuildParms(ra, values)
    IN
    /\ state = "dirty"
    /\ defaults' = values
    /\ layout' = IF fits THEN layout ELSE Layout[rpk]
    /\ parms' = UpdateUIDefaultValues(built, values)
    /\ IF \E id \in DOMAIN built : parms'[id].value # built[id].value
       THEN state' = "dirty" /\ turn' = 1 - turn /\ sent' = NoValues
       ELSE state' = "clean" /\ turn' = 0 /\ sent' = Overrides
    /\ sentAll' = \A id \in DOMAIN parms :
                    ~IsDefault(parms[id]) /\ Declares(id) => fits /\ Sent(id, values)
    /\ UNCHANGED <<rpk, style, startRule>>

(* The rule attributes cannot be evaluated, or the rule file not be read   *)
(* for the parameters after they have.                                     *)
CookFails ==
    /\ state = "dirty"
    /\ defaults' \in {defaults, Evaluate(Overrides)}
    /\ state' = "failed"
    /\ turn' = 0
    /\ sent' = NoValues
    /\ sentAll' = TRUE
    /\ UNCHANGED <<rpk, style, startRule, layout, parms>>

-----------------------------------------------------------------------------
(* The user.  A change of a parameter schedules a cook: opChanged, or for  *)
(* the package that the cook depends on it.                                *)

Schedule == state' = "dirty" /\ turn' = 0 /\ sent' = NoValues /\ sentAll' = TRUE

SetParm(id, parm) ==
    /\ parm.value # parms[id].value
    /\ parms' = [parms EXCEPT ![id] = parm]
    /\ Schedule
    /\ UNCHANGED <<rpk, style, startRule, layout, defaults>>

Edit(id, val) ==
    /\ Len(val) = Len(parms[id].value)
    /\ parms[id].kind \in Menus => val[1] < Len(parms[id].options)
    /\ parms[id].kind = "color" => ColorString(val[1]) = val[1]
    /\ SetParm(id, [parms[id] EXCEPT !.value = val])

AddItem(id) ==
    /\ parms[id].kind \in Lists
    /\ Len(parms[id].value) < MaxItems
    /\ SetParm(id, [parms[id] EXCEPT !.value = Append(@, 0), !.default = Append(@, 0)])

RemoveItem(id) ==
    /\ parms[id].kind \in Lists
    /\ parms[id].value # <<>>
    /\ SetParm(id, [parms[id] EXCEPT !.value = Front(@), !.default = Front(@)])

(* Back to the default value; a list loses the items that it had not.      *)
Revert(id) ==
    LET parm == parms[id]
        default == [i \in 1 .. parm.count |-> IF i \in DOMAIN parm.default
                                              THEN parm.default[i] ELSE 0]
    IN  SetParm(id, [parm EXCEPT !.value = default, !.default = default])

(* updateRPK, when the user chooses another package.                       *)
ChoosePackage(next) ==
    /\ next # rpk
    /\ rpk' = next
    /\ style' = FindStartRule(RuleFile[next].rules).style
    /\ startRule' = FindStartRule(RuleFile[next].rules).name
    /\ Schedule
    /\ UNCHANGED <<layout, parms, defaults>>

(* Another package in the place of the old one: the node cooks again, but  *)
(* Style and Start Rule stay.                                              *)
ReloadPackage(next) ==
    /\ next # rpk
    /\ rpk' = next
    /\ Schedule
    /\ UNCHANGED <<style, startRule, layout, parms, defaults>>

(* The scene is saved and loaded: the parameters are kept, and nothing of  *)
(* what the node remembered.                                               *)
Load ==
    /\ defaults' = NoValues
    /\ Schedule
    /\ UNCHANGED <<rpk, style, startRule, layout, parms>>

User ==
    \/ \E e \in Edits : e[1] \in DOMAIN parms /\ Edit(e[1], e[2])
    \/ \E id \in DOMAIN parms : AddItem(id) \/ RemoveItem(id) \/ Revert(id)
    \/ \E next \in Packages : ChoosePackage(next) \/ ReloadPackage(next)
    \/ Load

Next == Cook \/ CookFails \/ User

(* Weak fairness of the cook, which is possible in the dirty states.       *)
Fairness == <>[](state = "dirty") => []<><<Cook \/ CookFails>>_vars

Spec == Init /\ [][Next]_vars /\ Fairness

-----------------------------------------------------------------------------
Ids == {PrimAttr(FqName(d)) : d \in UNION {ToSet(RuleFile[p].attributes) : p \in Packages}}

TypeOK ==
    /\ rpk \in Packages
    /\ state \in {"dirty", "clean", "failed"}
    /\ DOMAIN parms \subseteq Ids
    /\ \A id \in DOMAIN parms :
         LET parm == parms[id] IN
         /\ parm.kind \in Kinds
         /\ Len(parm.value) = Len(parm.default)
         /\ parm.kind \notin Lists => Len(parm.value) = 1 /\ parm.count = 1
         /\ parm.kind \in Menus => parm.value[1] \in 0 .. Len(parm.options) - 1
    /\ {layout[i].id : i \in {j \in DOMAIN layout : layout[j].kind = "parm"}}
         = IF layout = <<>> THEN {} ELSE DOMAIN parms \cup {<<>>}
    /\ \A fq \in DOMAIN defaults : defaults[fq].type \in Types

IsSet(id) == ~IsDefault(parms[id])

(* What pldGenerate makes of the attributes.                               *)
Generated == Evaluate(FromHoudini(PrimAttributes))

(* A set percentage is scaled on one of the two ways only, and a set menu  *)
(* of numbers is a text on one of them.                                    *)
Scaled(parm) == parm.percent \/ parm.kind = "floatEnum"

(* A menu can show the value.                                              *)
Showable(parm, val) == parm.kind \in Menus => val[1] \in ToSet(parm.options)

(* Every parameter shows the value that pldGenerate uses: set ones, those  *)
(* at their default, and those that depend on set ones.                    *)
Agree ==
    \A fq \in DOMAIN Generated :
      LET parm == parms[PrimAttr(fq)]
          val == Generated[fq].val
      IN  Showable(parm, val) =>
            Shown(parm) = IF parm.kind = "color" THEN <<ColorString(val[1])>> ELSE val

NothingScaled == \A id \in DOMAIN parms : IsSet(id) => ~Scaled(parms[id])

(* README, "only pass non-default rule attribute values to PRT.  This      *)
(* fixes setting inter-dependent rule attributes": when the cooks that a   *)
(* change causes are over, parameters and model agree.                     *)
DependentsShown == state = "clean" /\ NothingScaled => Agree

(* They do whenever the last cook sent the set values as they are on the   *)
(* node after it, however often the packages change, a scene is loaded and *)
(* a cook fails in between.  It does not if it makes a new parameter of a  *)
(* set one, whose value then is a default value, if the rule hides the     *)
(* attribute, or if the types of the cook before are those of another      *)
(* package.                                                                *)
ShowsGenerated == sentAll => DependentsShown

(* A cook sends the set values to the rule engine, going by what it knew   *)
(* before, and leaves them on the primitives, going by what it knows then. *)
(* The attributes of the primitives are those of the set values, and each  *)
(* has the type and the value that the cook has sent for it; a menu or a   *)
(* list only if the cook could send it.                                    *)
GenerateGetsOverrides ==
    state = "clean" =>
      LET left == FromHoudini(PrimAttributes)
          plain == {id \in DOMAIN parms : RuleAttr(id) \in DOMAIN defaults /\ ~Scaled(parms[id])}
      IN  \A id \in plain :
            /\ RuleAttr(id) \in DOMAIN left <=> IsSet(id)
            /\ IsSet(id) /\ (sentAll \/ parms[id].kind \notin Menus \cup Lists) =>
                 /\ RuleAttr(id) \in DOMAIN sent
                 /\ left[RuleAttr(id)] = sent[RuleAttr(id)]

(* All attributes have the style that the packages choose for the nodes.   *)
OneStyle ==
    \A p, q \in Packages : \A d \in ToSet(RuleFile[p].attributes) :
      d.style = FindStartRule(RuleFile[q].rules).style

(* SOPAssign.cpp, "avoid overriding if not default": a cook of a node that *)
(* has the parameters that the package calls for keeps the set values.     *)
AsCalled ==
    LET called == BuildParms(SortedAttributes[rpk], NoValues)
    IN  \A id \in DOMAIN called :
          id \in DOMAIN parms /\ parms[id].kind = called[id].kind

SetValuesKept ==
    [][Cook /\ AsCalled => \A id \in DOMAIN parms : IsSet(id) => parms'[id] = parms[id]]_vars

(* No attribute is lost on the way to the parameters, be it because its    *)
(* order and groups are those of another, or because a folder is missing;  *)
(* each is in the folders of its file and its groups, unless dots in names *)
(* make two folders look the same.                                         *)
NoAttributeLost ==
    LET ra == SortedAttributes[rpk]
        built == Layout[rpk]
        at(a) == {i \in DOMAIN built : built[i] = Entry("parm", PrimAttr(a.fqName))}
        around(i) == {id \in {built[j].id : j \in DOMAIN built} :
                        \E j \in 1 .. i, k \in i .. Len(built) :
                          built[j] = Entry("begin", id) /\ built[k] = Entry("end", id)}
        folders(a) == Prefixes(FoldersOf(a)) \ {<<>>}
        alike(a) == \E b \in ToSet(ra) : \E f \in folders(a), g \in folders(b) :
                      f # g /\ FolderId(f) = FolderId(g)
    IN  parms = NoParms =>
        /\ {a.fqName : a \in ToSet(ra)}
             = {FqName(d) : d \in {e \in ToSet(Info.attributes) : IsVisible(e)}}
        /\ \A a \in ToSet(ra) :
             /\ Cardinality(at(a)) = 1
             /\ \A i \in at(a) : alike(a) \/ around(i) = {FolderId(f) : f \in folders(a)}

(* The parameters of a folder are in the order of their annotations; those *)
(* of the rule file itself come first, a group before the groups in it,    *)
(* and of two groups the one with the lowest order anywhere in it.         *)
ParmsInOrder ==
    LET ra == SortedAttributes[rpk]
        lowest(a) == Min({b.groupOrder : b \in {c \in ToSet(ra) :
                            c.ruleFile = a.ruleFile /\ IsPrefix(a.groups, c.groups)}})
        sameFile(a, b) == a.ruleFile = b.ruleFile
        apart(a, b) == ~IsPrefix(a.groups, b.groups) /\ ~IsPrefix(b.groups, a.groups)
    IN  parms = NoParms => \A i, j \in DOMAIN ra :
          LET a == ra[i]  b == ra[j] IN
          \/ a.memberOfStartRuleFile /\ ~b.memberOfStartRuleFile
          \/ sameFile(a, b) /\ a.groups = b.groups /\ a.order < b.order
          \/ sameFile(a, b) /\ a.groups # <<>> /\ IsChildOf(b.groups, a.groups)
          \/ sameFile(a, b) /\ apart(a, b) /\ lowest(a) < lowest(b)
          => i < j

(* The cooks that a cook schedules by what it writes to parameters come to *)
(* an end if the user leaves the node alone.                               *)
Settles ==
    <>[][Cook \/ CookFails]_vars => <>[](state # "dirty")
=============================================================================
