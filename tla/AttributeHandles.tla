-------------------------- MODULE AttributeHandles --------------------------
(***************************************************************************)
(* AttributeConversion::ToHoudini: how attribute maps of the rule engine   *)
(* are written to ranges of primitives.  A converter lives for one call of *)
(* add, and its handles are shared by all the maps of that call.           *)
(*                                                                         *)
(* An attribute map is a function from keys to values; a value is          *)
(*   [base : "bool", "int", "float" or "string", array : BOOLEAN,          *)
(*    val : a sequence, of length one unless it is an array].              *)
(* A key is a pair of a style and a name; the primitive attribute has the  *)
(* name only.  A primitive attribute holds a function from components to   *)
(* elements of values, without the components that have their default.     *)
(*                                                                         *)
(* External: what the detail does when an attribute is added under a name  *)
(* that has one of another type or size.  It replaces the attribute, and   *)
(* its values are lost, or keeps it, and there is no handle to it if the   *)
(* type is another one.  The getters of a map give zero, or no elements,   *)
(* for a key of another type.                                              *)
(***************************************************************************)
EXTENDS Naturals, Sequences

Zero == [kind |-> "zero"]    \* also false
Empty == [kind |-> "empty"]  \* the empty string

EmptyMap == [k \in {} |-> k]

(* f, with what g says where it says something.                            *)
Over(g, f) == [x \in DOMAIN f \cup DOMAIN g |-> IF x \in DOMAIN g THEN g[x] ELSE f[x]]

PrimAttr(key) == key[2]

ArrayLength_one(value) == 1

ArrayLength(value) == IF value.array THEN Len(value.val) ELSE 1

(* extractAttributeNames: the first map that has a name decides the type,  *)
(* the cardinality and the key for the names it adds.  Of two keys of one  *)
(* map with the same name, either may come first.                          *)
FirstKeys(map) ==
    {f \in [{PrimAttr(k) : k \in DOMAIN map} -> DOMAIN map] :
       \A name \in DOMAIN f : PrimAttr(f[name]) = name}

Extracted(handles, map, keyOf) ==
    Over(handles,
         [name \in DOMAIN keyOf |->
            LET value == map[keyOf[name]] IN
            [key |-> keyOf[name], base |-> value.base, array |-> value.array,
             cardinality |-> ArrayLength(value), type |-> "none"]])

(* The type of attribute that createAttributeHandles asks for.             *)
Wanted(handle, useArrayTypes) ==
    IF useArrayTypes /\ handle.array
    THEN [base |-> handle.base, type |-> "array", size |-> 1]
    ELSE [base |-> handle.base, type |-> "tuple", size |-> handle.cardinality]

(* What is there under the name afterwards.                                *)
Added(attributes, name, wanted, replaces) ==
    IF name \in DOMAIN attributes /\ ~replaces THEN attributes[name] ELSE wanted

(* createAttributeHandles: for all handles of the converter, not only for  *)
(* those of this map.  A handle that is not valid changes nothing.         *)
Created(handles, attributes, useArrayTypes, replaces) ==
    [name \in DOMAIN handles |->
       LET wanted == Wanted(handles[name], useArrayTypes)
           added == Added(attributes, name, wanted, replaces)
       IN  IF added.base = wanted.base /\ added.type = wanted.type
           THEN [handles[name] EXCEPT !.type = wanted.type]
           ELSE handles[name]]

CreatedAttributes(handles, attributes, useArrayTypes, replaces) ==
    Over([name \in DOMAIN handles |->
            Added(attributes, name, Wanted(handles[name], useArrayTypes), replaces)],
         attributes)

(* The getter for the type of the handle.                                  *)
Get(handle, map) ==
    LET value == map[handle.key] IN
    IF value.base = handle.base /\ value.array = handle.array THEN value.val
    ELSE IF handle.array THEN <<>> ELSE <<Zero>>

(* HandleVisitor: the components it sets.  Empty strings are skipped, bool *)
(* and int arrays cannot be written to tuples, and a tuple has no more     *)
(* components than it was made with.                                       *)
TupleValues(handle, attribute, map) ==
    LET val == Get(handle, map)
        set == {i \in DOMAIN val :
                  /\ i <= attribute.size
                  /\ handle.base = "string" => val[i] \notin {Empty, Zero}
                  /\ handle.array => handle.base \in {"float", "string"}}
    IN  [i \in set |-> val[i]]

(* An array handle gets the whole array, empty strings and all.            *)
ArrayValues(handle, map) == Get(handle, map)

(* setAttributeValues, for one primitive of the range: those handles whose *)
(* key the map has.  A tuple keeps the components that are not set, an     *)
(* array is set as a whole.                                                *)
SetValues(values, handles, attributes, map) ==
    LET written == {name \in DOMAIN handles :
                      handles[name].key \in DOMAIN map /\ handles[name].type # "none"}
        Before(name) == IF name \in DOMAIN values THEN values[name] ELSE EmptyMap
    IN  Over([name \in written |->
                IF handles[name].type = "array" THEN ArrayValues(handles[name], map)
                ELSE Over(TupleValues(handles[name], attributes[name], map), Before(name))],
             values)

(* The values of a primitive after the attributes have been created: those *)
(* of a replaced attribute are gone.                                       *)
KeptValues(values, before, after) ==
    [name \in {n \in DOMAIN values : n \in DOMAIN before => before[n] = after[n]} |-> values[name]]
=============================================================================
