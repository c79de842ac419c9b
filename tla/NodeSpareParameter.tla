------------------------- MODULE NodeSpareParameter -------------------------
(***************************************************************************)
(* The spare parameters of a pldAssign node: their arrangement in folders, *)
(* and what is made of each.  The arrangement is a sequence in which the   *)
(* begin and the end of a folder enclose what is in it; as in Houdini, an  *)
(* index counts from 0.                                                    *)
(*                                                                         *)
(* A parameter has a kind, a value and the default value it is compared    *)
(* with, as sequences: one element, or the items of a list parameter with  *)
(* the number of items that is its default.  The value of a menu is the    *)
(* index of an option.                                                     *)
(***************************************************************************)
EXTENDS AnnotationParsing

CONSTANT Parts  \* Parts[n]: the parts of a name with dots

Entry(kind, id) == [kind |-> kind, id |-> id]

(* getUniqueIdFromFolderVec: the names joined with dots; dots in a name    *)
(* look the same.                                                          *)
FolderId(path) == FlattenSeq([i \in DOMAIN path |-> Parts[path[i]]])

(* getFolderIndexWithName                                                  *)
FolderIndex(layout, path) ==
    LET at == {i \in DOMAIN layout : layout[i] = Entry("begin", FolderId(path))}
    IN  IF at = {} THEN -1 ELSE Min(at) - 1

(* getMatchingGroupParm, for the begin of a folder.                        *)
FolderEndIndex(layout, path) ==
    Min({i \in DOMAIN layout : layout[i] = Entry("end", FolderId(path))}) - 1

(* addParmsFromTemplateArray, without missing folders: what is new comes   *)
(* last and is moved before the end of its folder.                         *)
AddEntries(layout, block, path) ==
    LET end == FolderEndIndex(layout, path)
    IN  IF FolderIndex(layout, path) > 0
        THEN SubSeq(layout, 1, end) \o block \o SubSeq(layout, end + 1, Len(layout))
        ELSE layout \o block

(* addFolder                                                               *)
AddFolder(layout, name, parent) ==
    LET id == FolderId(Append(parent, name))
    IN  AddEntries(layout, <<Entry("begin", id), Entry("end", id)>>, parent)

(* addMissingFolders: those below the last folder of the path that exists. *)
AddPath(layout, path) == AddFolder(layout, Last(path), Front(path))

AddMissingFolders(layout, path) ==
    LET known == {n \in 0 .. Len(path) :
                    n = 0 \/ FolderIndex(layout, SubSeq(path, 1, n)) > 0}
        last == Max(known)
    IN  FoldLeft(AddPath, layout,
                 [i \in 1 .. Len(path) - last |-> SubSeq(path, 1, last + i)])

(* addParm, addArrayParm, addEnumParm: where the parameter goes.           *)
AddParmEntry(layout, id, path) ==
    AddEntries(AddMissingFolders(layout, path), <<Entry("parm", id)>>, path)

-----------------------------------------------------------------------------
Kinds == {"toggle", "float", "color", "string", "floatEnum", "stringEnum",
          "bools", "floats", "strings"}
Lists == {"bools", "floats", "strings"}
Menus == {"floatEnum", "stringEnum"}

Parm(kind, default) ==
    [kind |-> kind, value |-> default, default |-> default, count |-> Len(default),
     options |-> <<>>, percent |-> FALSE]

(* addFloatParm                                                            *)
FloatParm(default, isPercent) == [Parm("float", <<default>>) EXCEPT !.percent = isPercent]

(* addArrayParm: as many items as there are default values, all of them    *)
(* empty.                                                                  *)
ArrayParm(kind, defaultVals) == Parm(kind, [i \in DOMAIN defaultVals |-> 0])

(* addEnumParm: the last option that equals the default value, or else the *)
(* first option.                                                           *)
EnumParm(kind, default, options) ==
    LET same == {i \in DOMAIN options : options[i] = default}
    IN  [Parm(kind, <<IF same = {} THEN 0 ELSE Max(same) - 1>>) EXCEPT !.options = options]

(* isDefault of one parameter, isMultiParmDefault of a list.               *)
IsDefault(parm) == Len(parm.value) = parm.count /\ parm.value = parm.default
=============================================================================
