---------------------------- MODULE EncodeShapes ----------------------------
(***************************************************************************)
(* The way of one thread's initial shapes through HoudiniEncoder::encode   *)
(* and ModelConverter::add: the attributes of each leaf shape go to the    *)
(* converter by callbacks and wait there under the leaf's shape id, the    *)
(* meshes are packed (Geometry) with a face range, a material and a report *)
(* each, and add unpacks them into primitives and writes to those of each  *)
(* range what belongs to them (AttributeHandles).  The detail mutex is     *)
(* held for the whole of add (see SOPGenerate), so one thread is enough.   *)
(*                                                                         *)
(* External: the rule engine and its EncodePreparator, which here delivers *)
(* one instance for each leaf that has geometry, of one or more meshes,    *)
(* and the ids it gives to the leaves.                                     *)
(***************************************************************************)
EXTENDS Geometry, AttributeHandles

CONSTANTS MaxInitialShapes,  \* initial shapes of the thread's range
          MaxLeaves,         \* leaves of an initial shape
          Leaves,            \* the leaves the rules may generate
          ShapeIdOf(_, _),   \* the shape id of a leaf of an initial shape
          Keys,              \* attributes of the initial shapes
          Blacklist,         \* MATERIAL_ATTRIBUTE_BLACKLIST
          EmitOptions        \* what the node may be set to emit

(* External: the meshes are as the EncodePreparator delivers them, and     *)
(* what is not an array has one element.                                   *)
SoundForms(map) ==
    \A key \in DOMAIN map :
      /\ map[key].filled \in Seq(BOOLEAN)
      /\ map[key].array \in BOOLEAN
      /\ ~map[key].array => Len(map[key].filled) = 1

SoundLeaf(leaf) ==
    /\ SoundForms(leaf.attributes)
    /\ SoundForms(leaf.report)
    /\ leaf.meshes \in Seq({leaf.meshes[m] : m \in DOMAIN leaf.meshes})
    /\ \A m \in DOMAIN leaf.meshes : /\ SoundMesh(leaf.meshes[m].geometry)
                                     /\ SoundForms(leaf.meshes[m].material)

ASSUME EncodeShapesAssumption ==
    /\ {MaxInitialShapes, MaxLeaves} \subseteq Nat \ {0}
    /\ \A leaf \in Leaves : SoundLeaf(leaf)
    /\ EmitOptions \subseteq [materials : BOOLEAN, reports : BOOLEAN, attributes : BOOLEAN]

(* No two leaves of a prt::generate call have one shape id, be they of two *)
(* initial shapes.  The builders rely on it, which go by the shape id and  *)
(* are never cleared; nothing in the repository says that it is so.        *)
ASSUME ShapeIdsApart ==
    \A s, t \in 1 .. MaxInitialShapes : \A k, l \in 1 .. MaxLeaves :
      /\ ShapeIdOf(s, k) \in Nat
      /\ ShapeIdOf(s, k) = ShapeIdOf(t, l) => s = t /\ k = l

VARIABLES emit,        \* the encoder options
          replaces,    \* whether the host replaces attributes of other types
          pc,          \* where the thread is
          leaves,      \* the leaves of each initial shape so far
          at,          \* the leaf or face range it is at
          builders,    \* mShapeAttributeBuilders, by shape id
          ranges,      \* face ranges, their materials and reports
          shapeIDs,    \* the shape ids passed to add
          handles,     \* the handles of the ToHoudini of this add
          attributes,  \* the primitive attributes of the detail
          detail,      \* the primitives of the detail
          holeGroups   \* mHoleGroups

settings == <<emit, replaces>>
inDetail == <<attributes, detail, holeGroups>>
vars == <<settings, pc, leaves, at, builders, ranges, shapeIDs, handles, inDetail>>

(* A leaf has a report, attributes, and meshes of a geometry and a         *)
(* material.  What these maps hold is told by a form: a type, and which of *)
(* its elements are not the empty string.  Each element is named by where  *)
(* it comes from.                                                          *)
count == Len(leaves)

From(leaf, mesh) == [shape |-> count, leaf |-> leaf, mesh |-> mesh]

Value(form, kind, key, from) ==
    [base |-> form.base, array |-> form.array,
     val |-> [i \in DOMAIN form.filled |->
                IF form.filled[i] THEN [kind |-> kind, key |-> key, from |-> from, i |-> i]
                ELSE Empty]]

ShapeId(i) == ShapeIdOf(count, i)

NoShapeId == -1

-----------------------------------------------------------------------------
(* convertMaterialToAttributeMap: textures become the strings of their URI.*)
MaterialMap(material, from) ==
    [key \in DOMAIN material \ Blacklist |->
       LET value == Value(material[key], "material", key, from)
       IN  IF value.base = "texture" THEN [value EXCEPT !.base = "string"] ELSE value]

(* convertReportsToAttributeMap.                                           *)
ReportMap(report, from) ==
    [key \in {k \in DOMAIN report : ~report[k].array /\ report[k].base # "int"} |->
       Value(report[key], "report", key, from)]

(* forwardGenericAttributes: the keys of the initial shape that the leaf   *)
(* has too (others may be hidden from it), with the values of the leaf.    *)
AttributeMap(leaf, from) ==
    [key \in {k \in Keys \cap DOMAIN leaf.attributes : leaf.attributes[k].base # "int"} |->
       Value(leaf.attributes[key], "attribute", key, from)]

-----------------------------------------------------------------------------
(* HoudiniEncoder::convertGeometry.                                        *)

LeavesWithGeometry(shape) ==
    FlattenSeq([i \in DOMAIN shape |-> IF shape[i].meshes # <<>> THEN <<i>> ELSE <<>>])

Instances == LeavesWithGeometry(leaves[count])

(* The meshes of all instances of an initial shape, in order.              *)
MeshesOf(shape) ==
    FlattenSeq([i \in DOMAIN shape |->
                  [m \in DOMAIN shape[i].meshes |-> [leaf |-> i, mesh |-> m]]])

Meshes == MeshesOf(leaves[count])

GeometriesOf(shape) ==
    LET meshes == MeshesOf(shape)
    IN  [j \in DOMAIN meshes |-> shape[meshes[j].leaf].meshes[meshes[j].mesh].geometry]

Geometries == GeometriesOf(leaves[count])

RangeStart(j) == Sum(FaceCounts(Geometries), j - 1)

(* One face range per mesh: its material is that of the mesh, its report   *)
(* that of the instance.                                                   *)
FaceRanges ==
    [j \in DOMAIN Meshes |->
       LET leaf == leaves[count][Meshes[j].leaf] IN
       [start |-> RangeStart(j),
        past |-> IF j < Len(Meshes) THEN RangeStart(j + 1) ELSE Sum(FaceCounts(Geometries), j),
        material |-> MaterialMap(leaf.meshes[Meshes[j].mesh].material,
                                 From(Meshes[j].leaf, Meshes[j].mesh)),
        report |-> ReportMap(leaf.report, From(Meshes[j].leaf, 0))]]

(* Variant: an instance has the shape id of the leaf at its position.      *)
InstanceShapeIds_byPosition == [j \in DOMAIN Instances |-> ShapeId(j)]

(* One shape id per instance.                                              *)
InstanceShapeIds == [j \in DOMAIN Instances |-> ShapeId(Instances[j])]

-----------------------------------------------------------------------------
Init ==
    /\ emit \in EmitOptions
    /\ replaces \in BOOLEAN
    /\ pc = "idle"
    /\ leaves = <<>>
    /\ at = 0
    /\ builders = EmptyMap
    /\ ranges = <<>>
    /\ shapeIDs = <<>>
    /\ handles = EmptyMap
    /\ attributes = EmptyMap
    /\ detail = <<>>
    /\ holeGroups = <<>>

(* The rule engine has generated the next initial shape.                   *)
NextInitialShape ==
    /\ pc = "idle"
    /\ count < MaxInitialShapes
    /\ \E n \in 1 .. MaxLeaves : \E shape \in [1 .. n -> Leaves] : leaves' = Append(leaves, shape)
    /\ at' = 1
    /\ pc' = "forward"
    /\ UNCHANGED <<settings, builders, ranges, shapeIDs, handles, inDetail>>

(* encode: the attributes of the leaf go to its builder, which is made     *)
(* when the first of them comes.                                           *)
Forward ==
    LET id == ShapeId(at)
        map == AttributeMap(leaves[count][at], From(at, 0))
        before == IF id \in DOMAIN builders THEN builders[id] ELSE EmptyMap
    IN
    /\ pc = "forward"
    /\ at <= Len(leaves[count])
    /\ builders' = IF emit.attributes /\ map # EmptyMap
                   THEN [x \in DOMAIN builders \cup {id} |->
                           IF x = id THEN Over(map, before) ELSE builders[x]]
                   ELSE builders
    /\ at' = at + 1
    /\ UNCHANGED <<settings, pc, leaves, ranges, shapeIDs, handles, inDetail>>

(* A primitive: the face it is of, its corners, and what was written to it.*)
Prim(p, corners) ==
    [from |-> From(Meshes[p.mesh].leaf, Meshes[p.mesh].mesh), face |-> p.face,
     corners |-> corners, values |-> EmptyMap]

(* The packed geometry is handed to add, and createPrimitives appends it.  *)
Deliver ==
    LET sg == SerializeGeometry(Geometries)
        faces == Faces(Geometries)
    IN
    /\ pc = "forward"
    /\ at > Len(leaves[count])
    /\ ranges' = FaceRanges
    /\ shapeIDs' = InstanceShapeIds
    /\ detail' = detail \o [i \in DOMAIN faces |-> Prim(faces[i], Corners(sg, i))]
    /\ holeGroups' = holeGroups \o HoleGroups(sg, Len(detail))
    /\ at' = 1
    /\ pc' = IF ranges' = <<>> THEN "return" ELSE "materials"
    /\ UNCHANGED <<settings, leaves, builders, handles, attributes>>

PrimStartOffset == Len(detail) - ranges[Len(ranges)].past

InRange(i) == /\ ranges[at].start < i - PrimStartOffset
              /\ i - PrimStartOffset <= ranges[at].past

(* ToHoudini::convert, of a map to the primitives of the face range.       *)
Convert(map, useArrayTypes) ==
    \E keyOf \in FirstKeys(map) :
      LET extracted == Extracted(handles, map, keyOf)
          created == CreatedAttributes(extracted, attributes, useArrayTypes, replaces)
          Kept(i) == KeptValues(detail[i].values, attributes, created)
      IN
      /\ handles' = Created(extracted, attributes, useArrayTypes, replaces)
      /\ attributes' = created
      /\ detail' = [i \in DOMAIN detail |->
           [detail[i] EXCEPT !.values =
              IF InRange(i) THEN SetValues(Kept(i), handles', created, map) ELSE Kept(i)]]
      /\ UNCHANGED holeGroups

Skip == UNCHANGED <<handles, inDetail>>

ConvertMaterial ==
    /\ pc = "materials"
    /\ IF emit.materials THEN Convert(ranges[at].material, FALSE) ELSE Skip
    /\ pc' = "reports"
    /\ UNCHANGED <<settings, leaves, at, builders, ranges, shapeIDs>>

ConvertReport ==
    /\ pc = "reports"
    /\ IF emit.reports THEN Convert(ranges[at].report, FALSE) ELSE Skip
    /\ pc' = "attributes"
    /\ UNCHANGED <<settings, leaves, at, builders, ranges, shapeIDs>>

(* The attributes found under the shape id of the range, if there are any. *)
(* There may be fewer shape ids than face ranges: the array is then read   *)
(* past its end, where there is the id of a builder or of none.            *)
ConvertAttributes ==
    /\ pc = "attributes"
    /\ \E id \in IF at <= Len(shapeIDs) THEN {shapeIDs[at]} ELSE DOMAIN builders \cup {NoShapeId} :
         IF id \in DOMAIN builders THEN Convert(builders[id], TRUE) ELSE Skip
    /\ IF at < Len(ranges) THEN at' = at + 1 /\ pc' = "materials"
                           ELSE at' = at /\ pc' = "return"
    /\ UNCHANGED <<settings, leaves, builders, ranges, shapeIDs>>

(* add returns; the builders stay as they are, the handles do not.         *)
Return ==
    /\ pc = "return"
    /\ pc' = "idle"
    /\ at' = 0
    /\ ranges' = <<>>
    /\ shapeIDs' = <<>>
    /\ handles' = EmptyMap
    /\ UNCHANGED <<settings, leaves, builders, inDetail>>

Next ==
    \/ NextInitialShape
    \/ Forward
    \/ Deliver
    \/ ConvertMaterial
    \/ ConvertReport
    \/ ConvertAttributes
    \/ Return

Spec == Init /\ [][Next]_vars

-----------------------------------------------------------------------------
(* A face has the points, normals and texture coordinates of its own mesh  *)
(* at its corners, in reverse order, however many meshes are packed        *)
(* together and whichever of them have which uv sets.                      *)
CornersOwn ==
    pc = "idle" =>
      \A i \in DOMAIN detail :
        LET from == detail[i].from
            shape == leaves[from.shape]
            meshes == MeshesOf(shape)
        IN  \A j \in DOMAIN meshes :
              meshes[j] = [leaf |-> from.leaf, mesh |-> from.mesh] =>
                detail[i].corners = OwnCorners(GeometriesOf(shape), j, detail[i].face)

MeshAt(from) == leaves[from.shape][from.leaf].meshes[from.mesh]

HolesOf(i) == MeshAt(detail[i].from).geometry.faces[detail[i].face].holes

Parents == {i \in DOMAIN detail : HolesOf(i) # <<>>}

Group(i) == {i} \cup {h \in DOMAIN detail :
                        /\ detail[h].from = detail[i].from
                        /\ \E x \in DOMAIN HolesOf(i) : detail[h].face = HolesOf(i)[x] + 1}

(* buildHoles gets one group for each face that has holes, and the group   *)
(* is that face with its own holes, wherever the block lies in the detail. *)
HolesOwn ==
    pc = "idle" =>
      /\ Len(holeGroups) = Cardinality(Parents)
      /\ {holeGroups[g] : g \in DOMAIN holeGroups} = {Group(i) : i \in Parents}

(* What a range writes to a face comes from the material of its own mesh,  *)
(* the report of its own leaf or the attributes collected for that leaf,   *)
(* under the name it has there and in the component it has there, never    *)
(* from another mesh, leaf or initial shape: although handles are shared   *)
(* by all ranges, attributes by all calls, and builders by all initial     *)
(* shapes of a thread, if these have shape ids of their own: see           *)
(* ShapeIdsApart.  Attributes of calls with fewer shape ids than face      *)
(* ranges are what ShapeIdPerRange is about.                               *)
NoForeignValues ==
    [][\A i \in DOMAIN detail : \A name \in DOMAIN detail'[i].values :
         LET before == detail[i].values
             values == detail'[i].values
         IN  \/ name \in DOMAIN before /\ before[name] = values[name]
             \/ pc = "attributes" /\ Len(shapeIDs) # Len(ranges)
             \/ \A c \in DOMAIN values[name] : values[name][c] \notin {Zero, Empty} =>
                  LET v == values[name][c] IN
                  /\ PrimAttr(v.key) = name
                  /\ v.i = c
                  /\ v.from.shape = detail[i].from.shape
                  /\ v.from.leaf = detail[i].from.leaf
                  /\ v.from.mesh \in {0, detail[i].from.mesh}]_vars

(* The forms in which the rules give something to a name.                  *)
Forms(kind, map, name) ==
    {<<kind, k, map[k].base, map[k].array, Len(map[k].filled)>> :
       k \in {key \in DOMAIN map : PrimAttr(key) = name}}

Given(name) ==
    UNION {Forms("attribute", leaf.attributes, name) \cup Forms("report", leaf.report, name)
             \cup UNION {Forms("material", leaf.meshes[m].material, name) :
                          m \in DOMAIN leaf.meshes} : leaf \in Leaves}

(* A form that the converters take and a primitive attribute can hold.     *)
Known(g) ==
    /\ g[1] = "material" => g[2] \notin Blacklist /\ (g[4] => g[3] \in {"float", "string", "texture"})
    /\ g[1] # "material" => g[3] # "int"
    /\ g[1] = "report" => ~g[4]

(* Names that mean one thing: one key, always of one type and size.        *)
(* Arrays are excepted if the host replaces attributes and the node emits  *)
(* attributes together with something else: each convert makes the         *)
(* attributes of all handles anew, as arrays for attributes and as tuples  *)
(* for the others.                                                         *)
Plain(name) ==
    \A g, h \in Given(name) :
      /\ g = h
      /\ Known(g)
      /\ ~(g[4] /\ replaces /\ emit.attributes /\ (emit.materials \/ emit.reports))

Shows(i, key, form, kind, mesh) ==
    Plain(PrimAttr(key)) =>
      \A c \in DOMAIN form.filled : form.filled[c] =>
        /\ PrimAttr(key) \in DOMAIN detail[i].values
        /\ c \in DOMAIN detail[i].values[PrimAttr(key)]
        /\ detail[i].values[PrimAttr(key)][c] =
             [kind |-> kind, key |-> key, from |-> [detail[i].from EXCEPT !.mesh = mesh], i |-> c]

ShowsMaterial(i) ==
    LET from == detail[i].from
        material == MeshAt(from).material
    IN  \A key \in DOMAIN material : Shows(i, key, material[key], "material", from.mesh)

ShowsReport(i) ==
    LET from == detail[i].from
        report == leaves[from.shape][from.leaf].report
    IN  \A key \in DOMAIN report : Shows(i, key, report[key], "report", 0)

ShowsAttributes(i) ==
    LET from == detail[i].from
        given == leaves[from.shape][from.leaf].attributes
    IN  \A key \in Keys \cap DOMAIN given : Shows(i, key, given[key], "attribute", 0)

(* The values of plain names reach their faces, all of them but empty      *)
(* strings, and are still there when later ranges, calls and initial       *)
(* shapes have been added.                                                 *)
KeepsValues ==
    pc = "idle" =>
      \A i \in DOMAIN detail :
        LET shape == leaves[detail[i].from.shape] IN
        /\ emit.materials => ShowsMaterial(i)
        /\ emit.reports => ShowsReport(i)
        /\ (emit.attributes /\ Len(LeavesWithGeometry(shape)) = Len(MeshesOf(shape))) =>
             ShowsAttributes(i)

(* HoudiniCallbacks::add, "shapeIDs [...] contains faceRangesSize-1        *)
(* values", and the assertion of convertGeometry.                          *)
ShapeIdPerRange ==
    pc = "materials" => Len(shapeIDs) = Len(ranges)
=============================================================================
