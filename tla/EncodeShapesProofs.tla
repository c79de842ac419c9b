-------------------------- MODULE EncodeShapesProofs --------------------------
(***************************************************************************)
(* Proofs about EncodeShapes, for any leaves the rules may generate, any   *)
(* number of initial shapes, and whatever the node emits and the host      *)
(* replaces.  The inductive invariant says of each primitive which face of *)
(* which mesh it is (FacesInv), and of the builders which leaf each is of, *)
(* of the handles and attributes what they were made from, and of the      *)
(* values of a primitive what has been written to it when the thread is    *)
(* past its range, at it, or not yet there (ValuesInv).                    *)
(***************************************************************************)
EXTENDS EncodeShapes, GeometryProofs

-----------------------------------------------------------------------------
(* The inductive invariant.                                                *)

Shapes == UNION {[1 .. n -> Leaves] : n \in 1 .. MaxLeaves}

Phases == {"idle", "forward", "materials", "reports", "attributes", "return"}

Converting == pc \in {"materials", "reports", "attributes"}

(* A call of add is at one of the face ranges of the last initial shape.   *)
PhaseInv ==
    /\ emit \in EmitOptions /\ replaces \in BOOLEAN
    /\ pc \in Phases
    /\ leaves \in Seq(Shapes) /\ Len(leaves) <= MaxInitialShapes
    /\ pc = "forward" => leaves # <<>> /\ at \in 1 .. Len(leaves[count]) + 1
    /\ Converting => /\ leaves # <<>> /\ at \in 1 .. Len(Meshes)
                     /\ ranges = FaceRanges /\ shapeIDs = InstanceShapeIds

(* The mesh a primitive is of, as prims of the j-th range are.             *)
OfMesh(s, j) ==
    LET mesh == MeshesOf(leaves[s])[j] IN [shape |-> s, leaf |-> mesh.leaf, mesh |-> mesh.mesh]

PrimFields == {"from", "face", "corners", "values"}

(* A primitive is a face of a mesh and has its corners.                    *)
IsPrim(prim, s, j, f) ==
    LET meshes == GeometriesOf(leaves[s]) IN
    /\ DOMAIN prim = PrimFields
    /\ prim.from = OfMesh(s, j)
    /\ prim.face = f
    /\ prim.corners = OwnCorners(meshes, j, f)

PrimInv ==
    /\ detail \in Seq({detail[i] : i \in DOMAIN detail})
    /\ \A i \in DOMAIN detail :
         \E s \in 1 .. count : \E j \in 1 .. Len(MeshesOf(leaves[s])) :
           \E f \in 1 .. Len(GeometriesOf(leaves[s])[j].faces) :
             /\ IsPrim(detail[i], s, j, f)
             /\ pc = "forward" => s < count

(* The last block of the detail is the geometry of this call.              *)
BlockInv ==
    Converting =>
      LET faces == Faces(Geometries)
          start == Len(detail) - Len(faces)
      IN  /\ start \in Nat
          /\ \A i \in 1 .. start : detail[i].from.shape < count
          /\ \A k \in DOMAIN faces : detail[start + k].from = OfMesh(count, faces[k].mesh)

HoleInv ==
    /\ holeGroups \in Seq(SUBSET Nat)
    /\ Len(holeGroups) = Cardinality(Parents)
    /\ {holeGroups[g] : g \in DOMAIN holeGroups} = {Group(i) : i \in Parents}

(* The builder of each leaf whose attributes came.                         *)
Came(s, l) == s < count \/ pc # "forward" \/ l < at

LeafMap(s, l) == AttributeMap(leaves[s][l], [shape |-> s, leaf |-> l, mesh |-> 0])

IsBuilderOf(id, s, l) == id = ShapeIdOf(s, l) /\ builders[id] = LeafMap(s, l)

BuilderInv ==
    /\ \A id \in DOMAIN builders :
         /\ emit.attributes
         /\ \E s \in 1 .. count : \E l \in DOMAIN leaves[s] : Came(s, l) /\ IsBuilderOf(id, s, l)
    /\ \A s \in 1 .. count : \A l \in DOMAIN leaves[s] :
         emit.attributes /\ Came(s, l) /\ DOMAIN LeafMap(s, l) # {} =>
           ShapeIdOf(s, l) \in DOMAIN builders

(* What is made of a form: the type of the attribute, as it is for a plain *)
(* name.                                                                   *)
Emits(kind) ==
    \/ kind = "material" /\ emit.materials
    \/ kind = "report" /\ emit.reports
    \/ kind = "attribute" /\ emit.attributes

BaseOf(g) == IF g[1] = "material" /\ g[3] = "texture" THEN "string" ELSE g[3]

SizeOf(g) == IF g[4] THEN g[5] ELSE 1

TypeOf(g) == IF g[1] = "attribute" /\ g[4] THEN "array" ELSE "tuple"

AttributeOf(g) ==
    [base |-> BaseOf(g), type |-> TypeOf(g), size |-> IF TypeOf(g) = "array" THEN 1 ELSE SizeOf(g)]

HandleFields == {"key", "base", "array", "cardinality", "type"}

IsHandleOf(h, g) ==
    /\ Emits(g[1])
    /\ h.key = g[2] /\ h.base = BaseOf(g) /\ h.array = g[4] /\ h.cardinality = SizeOf(g)

HandleInv ==
    /\ \A name \in DOMAIN handles :
         /\ DOMAIN handles[name] = HandleFields
         /\ PrimAttr(handles[name].key) = name
         /\ \E g \in Given(name) :
              /\ IsHandleOf(handles[name], g)
              /\ Plain(name) => name \in DOMAIN attributes /\ handles[name].type = TypeOf(g)
    /\ \A name \in DOMAIN attributes : \A g \in Given(name) :
         Plain(name) => attributes[name] = AttributeOf(g)

(* A value that belongs to a primitive, under its name and at its place.   *)
OwnValue(v, name, c, from) ==
    v \in {Zero, Empty} \/ /\ PrimAttr(v.key) = name
                           /\ v.i = c
                           /\ v.from.shape = from.shape
                           /\ v.from.leaf = from.leaf
                           /\ v.from.mesh \in {0, from.mesh}

OwnValues(values, from) ==
    \A name \in DOMAIN values : \A c \in DOMAIN values[name] :
      OwnValue(values[name][c], name, c, from)

(* Where the thread is with a primitive: past its range, or at it.         *)
Past(i) ==
    Converting /\ detail[i].from.shape = count =>
      \E j \in 1 .. at - 1 : detail[i].from = OfMesh(count, j)

Now(i) == Converting /\ detail[i].from = OfMesh(count, at)

PerRange(s) == Len(LeavesWithGeometry(leaves[s])) = Len(MeshesOf(leaves[s]))

PerFace(i) == PerRange(detail[i].from.shape)

ValueOf(i) ==
    /\ Past(i) => /\ emit.materials => ShowsMaterial(i)
                  /\ emit.reports => ShowsReport(i)
                  /\ emit.attributes /\ PerFace(i) => ShowsAttributes(i)
    /\ Now(i) => /\ pc = "materials" => DOMAIN detail[i].values = {}
                 /\ OwnValues(detail[i].values, detail[i].from)
                 /\ emit.materials /\ pc # "materials" => ShowsMaterial(i)
                 /\ emit.reports /\ pc = "attributes" => ShowsReport(i)
    /\ ~Past(i) /\ ~Now(i) => DOMAIN detail[i].values = {}

ValueInv == \A i \in DOMAIN detail : ValueOf(i)

(* The inductive invariant, in two parts of which the first stands alone.  *)
FacesInv == PhaseInv /\ PrimInv /\ BlockInv /\ HoleInv

ValuesInv == BuilderInv /\ HandleInv /\ ValueInv

-----------------------------------------------------------------------------
(* The meshes of an initial shape.                                         *)

MeshCounts(shape) == [l \in DOMAIN shape |-> Len(shape[l].meshes)]

LEMMA ShapeFacts ==
    ASSUME NEW shape \in Shapes
    PROVE  /\ Len(shape) \in 1 .. MaxLeaves /\ Len(shape) \in Nat
           /\ DOMAIN shape = 1 .. Len(shape)
           /\ \A l \in 1 .. Len(shape) :
                /\ shape[l] \in Leaves /\ SoundLeaf(shape[l])
                /\ Len(shape[l].meshes) \in Nat
                /\ DOMAIN shape[l].meshes = 1 .. Len(shape[l].meshes)
                /\ shape[l].meshes # <<>> <=> Len(shape[l].meshes) > 0
                /\ \A m \in 1 .. Len(shape[l].meshes) : SoundMesh(shape[l].meshes[m].geometry)
<1>1. PICK n \in 1 .. MaxLeaves : shape \in [1 .. n -> Leaves]
  BY DEF Shapes
<1>2. MaxLeaves \in Nat /\ \A leaf \in Leaves : SoundLeaf(leaf)
  BY EncodeShapesAssumption
<1>3. n \in Nat /\ Len(shape) = n /\ DOMAIN shape = 1 .. n
  BY <1>1, <1>2
<1>4. ASSUME NEW l \in 1 .. n
      PROVE  /\ shape[l] \in Leaves /\ SoundLeaf(shape[l])
             /\ Len(shape[l].meshes) \in Nat
             /\ DOMAIN shape[l].meshes = 1 .. Len(shape[l].meshes)
             /\ shape[l].meshes # <<>> <=> Len(shape[l].meshes) > 0
             /\ \A m \in 1 .. Len(shape[l].meshes) : SoundMesh(shape[l].meshes[m].geometry)
  <2>1. shape[l] \in Leaves /\ SoundLeaf(shape[l])
    BY <1>1, <1>2
  <2>2. PICK meshes : meshes = shape[l].meshes
    OBVIOUS
  <2>3. /\ meshes \in Seq({meshes[m] : m \in DOMAIN meshes})
        /\ \A m \in DOMAIN meshes : SoundMesh(meshes[m].geometry)
    BY <2>1, <2>2 DEF SoundLeaf
  <2>4. Len(meshes) \in Nat /\ DOMAIN meshes = 1 .. Len(meshes)
    BY <2>3, LenProperties
  <2>5. meshes # <<>> <=> Len(meshes) > 0
    BY <2>3, <2>4, EmptySeq
  <2> QED
    BY <2>1, <2>2, <2>3, <2>4, <2>5
<1> QED
  BY <1>1, <1>3, <1>4

(* Where a mesh is, and which mesh is where.                               *)
MeshesAt(shape, places) ==
    /\ Len(MeshesOf(shape)) \in Nat
    /\ DOMAIN MeshesOf(shape) = 1 .. Len(MeshesOf(shape))
    /\ Len(MeshesOf(shape)) = places[Len(shape)]
    /\ \A l \in 1 .. Len(shape) : \A m \in 1 .. Len(shape[l].meshes) :
         /\ places[l - 1] + m \in 1 .. Len(MeshesOf(shape))
         /\ MeshesOf(shape)[places[l - 1] + m] = [leaf |-> l, mesh |-> m]
    /\ \A j \in 1 .. Len(MeshesOf(shape)) :
         \E l \in 1 .. Len(shape) : \E m \in 1 .. Len(shape[l].meshes) :
           /\ MeshesOf(shape)[j] = [leaf |-> l, mesh |-> m]
           /\ j = places[l - 1] + m

LEMMA MeshesInOrder ==
    ASSUME NEW shape \in Shapes
    PROVE  /\ Numbers(MeshCounts(shape), Len(shape))
           /\ MeshesAt(shape, [l \in 0 .. Len(shape) |-> Sum(MeshCounts(shape), l)])
<1> DEFINE n == Len(shape)
           T == [leaf : 1 .. n, mesh : Nat]
           s == [l \in DOMAIN shape |->
                   [m \in DOMAIN shape[l].meshes |-> [leaf |-> l, mesh |-> m]]]
           lens == MeshCounts(shape)
           flat == MeshesOf(shape)
           places == [l \in 0 .. n |-> Sum(lens, l)]
<1>1. /\ n \in Nat /\ DOMAIN shape = 1 .. n
      /\ \A l \in 1 .. n : /\ Len(shape[l].meshes) \in Nat
                           /\ DOMAIN shape[l].meshes = 1 .. Len(shape[l].meshes)
  BY ShapeFacts
<1>2. Numbers(lens, n) /\ \A l \in 1 .. n : lens[l] = Len(shape[l].meshes)
  BY <1>1 DEF Numbers, MeshCounts
<1>3. flat = FlattenSeq(s)
  BY DEF MeshesOf
<1>4. ASSUME NEW l \in 1 .. n
      PROVE  /\ s[l] = [m \in 1 .. Len(shape[l].meshes) |-> [leaf |-> l, mesh |-> m]]
             /\ s[l] \in Seq(T) /\ Len(s[l]) = Len(shape[l].meshes)
  <2>1. s[l] = [m \in 1 .. Len(shape[l].meshes) |-> [leaf |-> l, mesh |-> m]]
    BY <1>1
  <2>2. \A m \in 1 .. Len(shape[l].meshes) : [leaf |-> l, mesh |-> m] \in T
    OBVIOUS
  <2> HIDE DEF s, T
  <2>3. s[l] \in Seq(T) /\ Len(s[l]) = Len(shape[l].meshes)
    BY <1>1, <2>1, <2>2
  <2> QED
    BY <2>1, <2>3
<1>5. Parts(s, n, T)
  <2>1. s = [l \in 1 .. n |-> s[l]]
    BY <1>1
  <2> HIDE DEF s, T
  <2>2. s \in Seq(Seq(T)) /\ Len(s) = n
    BY <1>1, <1>4, <2>1
  <2> QED
    BY <1>1, <2>2 DEF Parts
<1> HIDE DEF s, T
<1>6. \A l \in 1 .. n : lens[l] = Len(s[l])
  BY <1>2, <1>4
<1> HIDE DEF lens, flat
<1>7. /\ Len(flat) = Sum(lens, n)
      /\ DOMAIN flat = 1 .. Sum(lens, n)
      /\ \A l \in 1 .. n : \A m \in 1 .. lens[l] : flat[Sum(lens, l - 1) + m] = s[l][m]
  <2>1. /\ Len(FlattenSeq(s)) = Sum(lens, n)
        /\ DOMAIN FlattenSeq(s) = 1 .. Sum(lens, n)
        /\ \A l \in 1 .. n : \A m \in 1 .. lens[l] :
             FlattenSeq(s)[Sum(lens, l - 1) + m] = s[l][m]
    BY <1>5, <1>6, PackedAt
  <2> QED
    BY <1>3, <2>1
<1>8. Sum(lens, n) \in Nat /\ \A l \in 0 .. n : Sum(lens, l) \in Nat
  BY <1>1, <1>2, SumStep
<1>9. \A l \in 1 .. n : l - 1 \in 0 .. n /\ places[l - 1] = Sum(lens, l - 1)
  BY <1>1
<1>10. places[n] = Sum(lens, n)
  BY <1>1
<1> HIDE DEF places
<1>11. ASSUME NEW l \in 1 .. n, NEW m \in 1 .. Len(shape[l].meshes)
       PROVE  /\ places[l - 1] + m \in 1 .. Len(flat)
              /\ flat[places[l - 1] + m] = [leaf |-> l, mesh |-> m]
  <2>1. m \in 1 .. lens[l] /\ s[l][m] = [leaf |-> l, mesh |-> m]
    BY <1>2, <1>4
  <2>2. Sum(lens, l - 1) + m \in 1 .. Sum(lens, n)
    BY <1>1, <1>2, <2>1, SumPlaces
  <2> QED
    BY <1>7, <1>9, <2>1, <2>2
<1>12. ASSUME NEW j \in 1 .. Len(flat)
       PROVE  \E l \in 1 .. n : \E m \in 1 .. Len(shape[l].meshes) :
                flat[j] = [leaf |-> l, mesh |-> m] /\ j = places[l - 1] + m
  <2>1. PICK l \in 1 .. n : \E m \in 1 .. lens[l] : j = Sum(lens, l - 1) + m
    <3>1. \A p \in 1 .. Sum(lens, n) : \E l \in 1 .. n : \E m \in 1 .. lens[l] :
            p = Sum(lens, l - 1) + m
      BY <1>1, <1>2, SumPlaces
    <3> QED
      BY <1>7, <3>1
  <2>2. PICK m \in 1 .. lens[l] : j = Sum(lens, l - 1) + m
    BY <2>1
  <2>3. m \in 1 .. Len(shape[l].meshes) /\ j = places[l - 1] + m
    BY <1>2, <1>9, <2>2
  <2>4. flat[j] = [leaf |-> l, mesh |-> m]
    BY <1>11, <2>3
  <2> QED
    BY <2>3, <2>4
<1>13. MeshesAt(shape, places)
  BY <1>7, <1>8, <1>10, <1>11, <1>12 DEF MeshesAt, flat
<1> QED
  BY <1>2, <1>13 DEF places, lens

(* Each mesh is there once.                                                *)
LEMMA MeshFound ==
    ASSUME NEW shape \in Shapes
    PROVE  /\ Len(MeshesOf(shape)) \in Nat
           /\ DOMAIN MeshesOf(shape) = 1 .. Len(MeshesOf(shape))
           /\ \A j \in 1 .. Len(MeshesOf(shape)) :
                LET mesh == MeshesOf(shape)[j] IN
                /\ mesh = [leaf |-> mesh.leaf, mesh |-> mesh.mesh]
                /\ mesh.leaf \in 1 .. Len(shape)
                /\ mesh.mesh \in 1 .. Len(shape[mesh.leaf].meshes)
           /\ \A j, k \in 1 .. Len(MeshesOf(shape)) :
                /\ MeshesOf(shape)[j].leaf = MeshesOf(shape)[k].leaf
                /\ MeshesOf(shape)[j].mesh = MeshesOf(shape)[k].mesh
                => j = k
<1>1. PICK places : MeshesAt(shape, places)
  BY MeshesInOrder
<1>2. PICK flat : flat = MeshesOf(shape)
  OBVIOUS
<1>3. /\ Len(flat) \in Nat /\ DOMAIN flat = 1 .. Len(flat)
      /\ \A j \in 1 .. Len(flat) :
           \E l \in 1 .. Len(shape) : \E m \in 1 .. Len(shape[l].meshes) :
             flat[j] = [leaf |-> l, mesh |-> m] /\ j = places[l - 1] + m
  BY <1>1, <1>2 DEF MeshesAt
<1>4. ASSUME NEW j \in 1 .. Len(flat)
      PROVE  /\ flat[j] = [leaf |-> flat[j].leaf, mesh |-> flat[j].mesh]
             /\ flat[j].leaf \in 1 .. Len(shape)
             /\ flat[j].mesh \in 1 .. Len(shape[flat[j].leaf].meshes)
             /\ j = places[flat[j].leaf - 1] + flat[j].mesh
  <2>1. PICK l \in 1 .. Len(shape) : \E m \in 1 .. Len(shape[l].meshes) :
          flat[j] = [leaf |-> l, mesh |-> m] /\ j = places[l - 1] + m
    BY <1>3
  <2>2. PICK m \in 1 .. Len(shape[l].meshes) :
          flat[j] = [leaf |-> l, mesh |-> m] /\ j = places[l - 1] + m
    BY <2>1
  <2>3. flat[j].leaf = l /\ flat[j].mesh = m
    BY <2>2
  <2> QED
    BY <2>2, <2>3
<1>5. \A j, k \in 1 .. Len(flat) :
        flat[j].leaf = flat[k].leaf /\ flat[j].mesh = flat[k].mesh => j = k
  BY <1>4
<1> QED
  BY <1>2, <1>3, <1>4, <1>5

LEMMA GeometriesSound ==
    ASSUME NEW shape \in Shapes
    PROVE  /\ SoundMeshes(GeometriesOf(shape))
           /\ Len(GeometriesOf(shape)) = Len(MeshesOf(shape))
           /\ \A j \in 1 .. Len(MeshesOf(shape)) :
                GeometriesOf(shape)[j] =
                  shape[MeshesOf(shape)[j].leaf].meshes[MeshesOf(shape)[j].mesh].geometry
<1>1. PICK flat : flat = MeshesOf(shape)
  OBVIOUS
<1>2. PICK ms : ms = GeometriesOf(shape)
  OBVIOUS
<1>3. /\ Len(flat) \in Nat /\ DOMAIN flat = 1 .. Len(flat)
      /\ \A j \in 1 .. Len(flat) : /\ flat[j].leaf \in 1 .. Len(shape)
                                   /\ flat[j].mesh \in 1 .. Len(shape[flat[j].leaf].meshes)
  BY <1>1, MeshFound
<1>4. ms = [j \in 1 .. Len(flat) |-> shape[flat[j].leaf].meshes[flat[j].mesh].geometry]
  BY <1>1, <1>2, <1>3 DEF GeometriesOf
<1>5. DOMAIN ms = 1 .. Len(flat) /\ Len(ms) = Len(flat)
  BY <1>3, <1>4
<1>6. \A l \in 1 .. Len(shape) : \A m \in 1 .. Len(shape[l].meshes) :
        SoundMesh(shape[l].meshes[m].geometry)
  BY ShapeFacts
<1>7. \A j \in 1 .. Len(flat) : SoundMesh(ms[j])
  BY <1>3, <1>4, <1>6
<1>8. SoundMeshes(ms)
  BY <1>3, <1>5, <1>7 DEF SoundMeshes
<1> QED
  BY <1>1, <1>2, <1>4, <1>5, <1>8

AtMost(f, g, n) ==
    /\ Numbers(f, n) /\ Numbers(g, n)
    /\ \A i \in 1 .. n : f[i] <= g[i]

AsMany(f, g, n) == \A i \in 1 .. n : f[i] = g[i]

(* Numbers none of which is greater than its counterpart are the same ones *)
(* if their sum is the same.                                               *)
LEMMA SumSqueeze ==
    ASSUME NEW n, n \in Nat, NEW f, NEW g, AtMost(f, g, n), Sum(f, n) = Sum(g, n)
    PROVE  AsMany(f, g, n)
<1>0. /\ Numbers(f, n) /\ Numbers(g, n)
      /\ \A i \in 1 .. n : f[i] <= g[i]
  BY DEF AtMost
<1>1. /\ Sum(f, 0) = 0 /\ Sum(g, 0) = 0
      /\ \A k \in 0 .. n : Sum(f, k) \in Nat /\ Sum(g, k) \in Nat
      /\ \A k \in 0 .. n - 1 : Sum(f, k + 1) = Sum(f, k) + f[k + 1]
      /\ \A k \in 0 .. n - 1 : Sum(g, k + 1) = Sum(g, k) + g[k + 1]
  BY <1>0, SumStep
<1> DEFINE Q(k) == /\ Sum(f, k) <= Sum(g, k)
                   /\ Sum(f, k) = Sum(g, k) => \A i \in 1 .. k : f[i] = g[i]
           P == {k \in Nat : k <= n => Q(k)}
<1>2. 0 \in P
  BY <1>1
<1>3. ASSUME NEW k \in 0 .. n - 1, k \in P PROVE k + 1 \in P
  <2>1. /\ k + 1 \in 1 .. n /\ k \in 0 .. n /\ k + 1 \in Nat /\ k <= n
        /\ f[k + 1] \in Nat /\ g[k + 1] \in Nat /\ f[k + 1] <= g[k + 1]
    BY <1>0 DEF Numbers
  <2>2. Q(k)
    <3> HIDE DEF Q
    <3> QED
      BY <1>3, <2>1
  <2>3. /\ Sum(f, k + 1) = Sum(f, k) + f[k + 1] /\ Sum(g, k + 1) = Sum(g, k) + g[k + 1]
        /\ Sum(f, k) \in Nat /\ Sum(g, k) \in Nat
    BY <1>1, <2>1
  <2>4. Sum(f, k + 1) <= Sum(g, k + 1)
    BY <2>1, <2>2, <2>3
  <2>5. ASSUME Sum(f, k + 1) = Sum(g, k + 1) PROVE \A i \in 1 .. k + 1 : f[i] = g[i]
    <3>1. f[k + 1] = g[k + 1] /\ Sum(f, k) = Sum(g, k)
      BY <2>1, <2>2, <2>3, <2>5
    <3>2. \A i \in 1 .. k + 1 : i \in 1 .. k \/ i = k + 1
      OBVIOUS
    <3> QED
      BY <2>2, <3>1, <3>2
  <2> QED
    BY <2>1, <2>4, <2>5
<1>4. n \in P
  <2> HIDE DEF P
  <2> QED
    BY <1>2, <1>3, StepInduction
<1>5. Q(n)
  <2> HIDE DEF Q
  <2> QED
    BY <1>4
<1> QED
  BY <1>5 DEF AsMany

LEMMA LeavesListed ==
    ASSUME NEW shape \in Shapes
    PROVE  LET places == LeavesWithGeometry(shape) IN
           Len(places) \in Nat /\ DOMAIN places = 1 .. Len(places)
<1>1. PICK n : n = Len(shape)
  OBVIOUS
<1>2. n \in Nat /\ DOMAIN shape = 1 .. n
  BY <1>1, ShapeFacts
<1>3. PICK s : s = [l \in 1 .. n |-> IF shape[l].meshes # <<>> THEN <<l>> ELSE <<>>]
  OBVIOUS
<1>4. ASSUME NEW l \in 1 .. n PROVE s[l] \in Seq(Nat)
  <2>1. s[l] = <<l>> \/ s[l] = <<>>
    BY <1>3
  <2>2. <<l>> \in Seq(Nat) /\ <<>> \in Seq(Nat)
    OBVIOUS
  <2> QED
    BY <2>1, <2>2
<1>5. Parts(s, n, Nat)
  <2>1. s = [l \in 1 .. n |-> s[l]]
    BY <1>3
  <2>2. s \in Seq(Seq(Nat)) /\ Len(s) = n
    BY <1>2, <1>4, <2>1
  <2> QED
    BY <1>2, <2>2 DEF Parts
<1>6. PICK flat : flat = FlattenSeq(s)
  OBVIOUS
<1>7. flat \in Seq(Nat)
  BY <1>5, <1>6, Flattened
<1>8. flat = LeavesWithGeometry(shape)
  BY <1>2, <1>3, <1>6 DEF LeavesWithGeometry
<1> QED
  BY <1>7, <1>8, LenProperties

(* With as many instances as meshes, each instance is of the leaf of the   *)
(* mesh at its place.                                                      *)
LEMMA LeavesInOrder ==
    ASSUME NEW shape \in Shapes, Len(LeavesWithGeometry(shape)) = Len(MeshesOf(shape)),
           NEW j \in 1 .. Len(MeshesOf(shape))
    PROVE  LeavesWithGeometry(shape)[j] = MeshesOf(shape)[j].leaf
<1>1. PICK n : n = Len(shape)
  OBVIOUS
<1>2. /\ n \in Nat /\ DOMAIN shape = 1 .. n
      /\ \A l \in 1 .. n : /\ Len(shape[l].meshes) \in Nat
                           /\ shape[l].meshes # <<>> <=> Len(shape[l].meshes) > 0
  BY <1>1, ShapeFacts
<1>3. PICK s : s = [l \in 1 .. n |-> IF shape[l].meshes # <<>> THEN <<l>> ELSE <<>>]
  OBVIOUS
<1>4. PICK few : few = [l \in 1 .. n |-> IF shape[l].meshes # <<>> THEN 1 ELSE 0]
  OBVIOUS
<1>5. PICK counts : counts = MeshCounts(shape)
  OBVIOUS
<1>6. \A l \in 1 .. n : counts[l] = Len(shape[l].meshes)
  BY <1>2, <1>5 DEF MeshCounts
<1>7. Numbers(few, n) /\ Numbers(counts, n) /\ \A l \in 1 .. n : few[l] <= counts[l]
  BY <1>2, <1>4, <1>6 DEF Numbers
<1>8. ASSUME NEW l \in 1 .. n
      PROVE  /\ s[l] \in Seq(Nat) /\ few[l] = Len(s[l])
             /\ shape[l].meshes # <<>> => s[l][1] = l
  <2>1. PICK part : part = s[l]
    OBVIOUS
  <2>2. CASE shape[l].meshes # <<>>
    <3>1. part = <<l>> /\ few[l] = 1
      BY <1>3, <1>4, <2>1, <2>2
    <3>2. part \in Seq(Nat) /\ Len(part) = 1 /\ part[1] = l
      BY <3>1
    <3> QED
      BY <2>1, <3>1, <3>2
  <2>3. CASE shape[l].meshes = <<>>
    <3>1. part = <<>> /\ few[l] = 0
      BY <1>3, <1>4, <2>1, <2>3
    <3>2. part \in Seq(Nat) /\ Len(part) = 0
      BY <3>1
    <3> QED
      BY <2>1, <2>3, <3>1, <3>2
  <2> QED
    BY <2>2, <2>3
<1>9. Parts(s, n, Nat)
  <2>1. s = [l \in 1 .. n |-> s[l]]
    BY <1>3
  <2>2. s \in Seq(Seq(Nat)) /\ Len(s) = n
    BY <1>2, <1>8, <2>1
  <2> QED
    BY <1>2, <2>2 DEF Parts
<1>10. PICK flat : flat = LeavesWithGeometry(shape)
  OBVIOUS
<1>11. flat = FlattenSeq(s)
  BY <1>2, <1>3, <1>10 DEF LeavesWithGeometry
<1>12. /\ Len(flat) = Sum(few, n)
       /\ \A l \in 1 .. n : \A k \in 1 .. few[l] : flat[Sum(few, l - 1) + k] = s[l][k]
  <2>1. \A l \in 1 .. n : few[l] = Len(s[l])
    BY <1>8
  <2>2. /\ Len(FlattenSeq(s)) = Sum(few, n)
        /\ \A l \in 1 .. n : \A k \in 1 .. few[l] :
             FlattenSeq(s)[Sum(few, l - 1) + k] = s[l][k]
    BY <1>9, <2>1, PackedAt
  <2> QED
    BY <1>11, <2>2
<1>13. PICK places : places = [l \in 0 .. n |-> Sum(counts, l)]
  OBVIOUS
<1>14. MeshesAt(shape, places)
  BY <1>1, <1>5, <1>13, MeshesInOrder
<1>15. PICK meshes : meshes = MeshesOf(shape)
  OBVIOUS
<1>16. PICK l \in 1 .. n : \E m \in 1 .. Len(shape[l].meshes) :
         meshes[j] = [leaf |-> l, mesh |-> m] /\ j = places[l - 1] + m
  BY <1>1, <1>14, <1>15 DEF MeshesAt
<1>17. PICK m \in 1 .. Len(shape[l].meshes) :
         meshes[j] = [leaf |-> l, mesh |-> m] /\ j = places[l - 1] + m
  BY <1>16
<1>18. \A i \in 1 .. n : few[i] = counts[i]
  <2>1. places[n] = Sum(counts, n)
    BY <1>2, <1>13
  <2>2. Sum(few, n) = Sum(counts, n)
    BY <1>1, <1>10, <1>12, <1>14, <2>1 DEF MeshesAt
  <2>3. n \in Nat /\ AtMost(few, counts, n)
    BY <1>2, <1>7 DEF AtMost
  <2>4. AsMany(few, counts, n)
    BY <2>2, <2>3, SumSqueeze
  <2> QED
    BY <2>4 DEF AsMany
<1>19. m = 1 /\ few[l] = 1 /\ shape[l].meshes # <<>>
  BY <1>2, <1>4, <1>6, <1>18
<1>20. l - 1 \in 0 .. n /\ places[l - 1] = Sum(counts, l - 1)
  BY <1>2, <1>13
<1>21. Sum(few, l - 1) = Sum(counts, l - 1)
  BY <1>2, <1>7, <1>18, <1>20, SumSame
<1>22. flat[Sum(few, l - 1) + 1] = s[l][1] /\ s[l][1] = l
  <2>1. 1 \in 1 .. few[l]
    BY <1>19
  <2> QED
    BY <1>8, <1>12, <1>19, <2>1
<1>23. flat[j] = l
  BY <1>17, <1>19, <1>20, <1>21, <1>22
<1>24. meshes[j].leaf = l
  BY <1>17
<1> QED
  BY <1>10, <1>15, <1>23, <1>24

-----------------------------------------------------------------------------
(* The face ranges of a call, and the primitives of a range.               *)

LEMMA LastShape ==
    ASSUME leaves \in Seq(Shapes), leaves # <<>>
    PROVE  count \in Nat /\ count \in 1 .. count /\ leaves[count] \in Shapes
<1>1. PICK n : n = Len(leaves)
  OBVIOUS
<1>2. n \in Nat /\ n # 0 /\ n \in DOMAIN leaves
  BY <1>1, EmptySeq, LenProperties
<1>3. leaves[n] \in Shapes
  BY <1>1, <1>2, ElementOfSeq
<1> QED
  BY <1>1, <1>2, <1>3 DEF count

LEMMA ShapeAt ==
    ASSUME leaves \in Seq(Shapes), NEW s \in 1 .. count
    PROVE  leaves[s] \in Shapes
BY ElementOfSeq DEF count

(* A primitive is of one mesh only.                                        *)
LEMMA OfOneMesh ==
    ASSUME leaves \in Seq(Shapes), NEW s \in 1 .. count,
           NEW j \in 1 .. Len(MeshesOf(leaves[s])), NEW k \in 1 .. Len(MeshesOf(leaves[s])),
           OfMesh(s, j) = OfMesh(s, k)
    PROVE  j = k
<1>1. PICK meshes : meshes = MeshesOf(leaves[s])
  OBVIOUS
<1>2. /\ [shape |-> s, leaf |-> meshes[j].leaf, mesh |-> meshes[j].mesh].leaf = meshes[j].leaf
      /\ [shape |-> s, leaf |-> meshes[j].leaf, mesh |-> meshes[j].mesh].mesh = meshes[j].mesh
      /\ [shape |-> s, leaf |-> meshes[k].leaf, mesh |-> meshes[k].mesh].leaf = meshes[k].leaf
      /\ [shape |-> s, leaf |-> meshes[k].leaf, mesh |-> meshes[k].mesh].mesh = meshes[k].mesh
  OBVIOUS
<1>3. meshes[j].leaf = meshes[k].leaf /\ meshes[j].mesh = meshes[k].mesh
  BY <1>1, <1>2 DEF OfMesh
<1> QED
  BY <1>1, <1>3, ShapeAt, MeshFound

IsRange(range, j) ==
    LET mesh == Meshes[j]
        leaf == leaves[count][mesh.leaf]
    IN  /\ range.start = Sum(FaceCounts(Geometries), j - 1)
        /\ range.past = Sum(FaceCounts(Geometries), j)
        /\ range.material = MaterialMap(leaf.meshes[mesh.mesh].material, OfMesh(count, j))
        /\ range.report = ReportMap(leaf.report, [shape |-> count, leaf |-> mesh.leaf, mesh |-> 0])

LEMMA RangesAre ==
    ASSUME leaves \in Seq(Shapes), leaves # <<>>
    PROVE  /\ Len(FaceRanges) = Len(Meshes) /\ Len(Meshes) \in Nat
           /\ FaceRanges # <<>> => 1 \in 1 .. Len(Meshes)
           /\ \A j \in 1 .. Len(Meshes) : IsRange(FaceRanges[j], j)
<1>1. PICK n, last : n = Len(Meshes) /\ last = count
  OBVIOUS
<1>2. n \in Nat /\ DOMAIN Meshes = 1 .. n
  BY <1>1, LastShape, MeshFound DEF Meshes
<1>3. PICK rs : rs = FaceRanges
  OBVIOUS
<1>4. DOMAIN rs = 1 .. n /\ Len(rs) = n
  BY <1>2, <1>3 DEF FaceRanges
<1>5. rs # <<>> => 1 \in 1 .. n
  <2>1. n = 0 => rs = <<>>
    <3>1. n = 0 => 1 .. n = {}
      OBVIOUS
    <3> QED
      BY <1>2, <1>3, <3>1 DEF FaceRanges
  <2> QED
    BY <1>2, <2>1
<1>6. ASSUME NEW j \in 1 .. n PROVE IsRange(rs[j], j)
  <2>1. PICK mesh, leaf : mesh = Meshes[j] /\ leaf = leaves[last][mesh.leaf]
    OBVIOUS
  <2>2. PICK sums : sums = [k \in 0 .. n |-> Sum(FaceCounts(Geometries), k)]
    OBVIOUS
  <2>3. j - 1 \in 0 .. n /\ j \in 0 .. n /\ (j + 1) - 1 = j
    BY <1>2
  <2>4. /\ RangeStart(j) = sums[j - 1] /\ RangeStart(j + 1) = sums[j]
        /\ Sum(FaceCounts(Geometries), j) = sums[j]
        /\ Sum(FaceCounts(Geometries), j - 1) = sums[j - 1]
    BY <2>2, <2>3 DEF RangeStart
  <2>5. rs[j] = [start |-> sums[j - 1],
                 past |-> IF j < n THEN sums[j] ELSE sums[j],
                 material |-> MaterialMap(leaf.meshes[mesh.mesh].material,
                                          From(mesh.leaf, mesh.mesh)),
                 report |-> ReportMap(leaf.report, From(mesh.leaf, 0))]
    BY <1>1, <1>2, <1>3, <2>1, <2>4 DEF FaceRanges
  <2>6. /\ From(mesh.leaf, mesh.mesh) = OfMesh(last, j)
        /\ From(mesh.leaf, 0) = [shape |-> last, leaf |-> mesh.leaf, mesh |-> 0]
    BY <1>1, <2>1 DEF From, OfMesh, Meshes
  <2>7. /\ rs[j].start = sums[j - 1] /\ rs[j].past = sums[j]
        /\ rs[j].material = MaterialMap(leaf.meshes[mesh.mesh].material, From(mesh.leaf, mesh.mesh))
        /\ rs[j].report = ReportMap(leaf.report, From(mesh.leaf, 0))
    BY <2>5
  <2> QED
    BY <1>1, <2>1, <2>4, <2>6, <2>7 DEF IsRange
<1> QED
  BY <1>1, <1>2, <1>3, <1>4, <1>5, <1>6

(* The faces of a call, by sums of their counts.                           *)
FacesAt(ms, faces, sums) ==
    /\ Len(faces) = sums[Len(ms)] /\ Len(faces) \in Nat /\ DOMAIN faces = 1 .. Len(faces)
    /\ \A j \in 0 .. Len(ms) : sums[j] \in Nat
    /\ \A k \in 1 .. Len(faces) :
         /\ faces[k].mesh \in 1 .. Len(ms)
         /\ faces[k].face \in 1 .. Len(ms[faces[k].mesh].faces)
         /\ \A j \in 1 .. Len(ms) : faces[k].mesh = j <=> sums[j - 1] < k /\ k <= sums[j]

LEMMA FacesBySums ==
    ASSUME NEW ms, SoundMeshes(ms)
    PROVE  FacesAt(ms, Faces(ms), [j \in 0 .. Len(ms) |-> Sum(FaceCounts(ms), j)])
<1>1. PICK n, faces, counts : n = Len(ms) /\ faces = Faces(ms) /\ counts = FaceCounts(ms)
  OBVIOUS
<1>2. PICK sums : sums = [j \in 0 .. n |-> Sum(counts, j)]
  OBVIOUS
<1>3. n \in Nat /\ Numbers(counts, n) /\ \A j \in 1 .. n : counts[j] = Len(ms[j].faces)
  BY <1>1, MeshNumbers DEF SoundMeshes
<1>4. /\ Len(faces) = Sum(counts, n) /\ Len(faces) \in Nat /\ DOMAIN faces = 1 .. Len(faces)
      /\ \A k \in 1 .. Len(faces) :
           /\ faces[k].mesh \in 1 .. n
           /\ faces[k].face \in 1 .. Len(ms[faces[k].mesh].faces)
           /\ k = Sum(counts, faces[k].mesh - 1) + faces[k].face
  BY <1>1, FacesInOrder
<1>5. /\ \A j \in 0 .. n : Sum(counts, j) \in Nat
      /\ \A j \in 0 .. n - 1 : Sum(counts, j + 1) = Sum(counts, j) + counts[j + 1]
  BY <1>3, SumStep
<1>6. \A j, l \in 1 .. n : \A k \in 1 .. counts[j], m \in 1 .. counts[l] :
        Sum(counts, j - 1) + k = Sum(counts, l - 1) + m => j = l /\ k = m
  BY <1>3, SumPlaces
<1>7. ASSUME NEW j \in 1 .. n
      PROVE  /\ j - 1 \in 0 .. n /\ j \in 0 .. n /\ counts[j] \in Nat
             /\ sums[j - 1] = Sum(counts, j - 1) /\ sums[j] = Sum(counts, j)
             /\ sums[j - 1] \in Nat /\ sums[j] = sums[j - 1] + counts[j]
  <2>1. j - 1 \in 0 .. n - 1 /\ j - 1 \in 0 .. n /\ j \in 0 .. n /\ (j - 1) + 1 = j
    BY <1>3
  <2>2. counts[j] \in Nat
    BY <1>3 DEF Numbers
  <2>3. Sum(counts, (j - 1) + 1) = Sum(counts, j - 1) + counts[(j - 1) + 1]
    BY <1>5, <2>1
  <2> QED
    BY <1>2, <1>5, <2>1, <2>2, <2>3
<1>8. ASSUME NEW k \in 1 .. Len(faces), NEW j \in 1 .. n
      PROVE  faces[k].mesh = j <=> sums[j - 1] < k /\ k <= sums[j]
  <2>1. PICK l, f : l = faces[k].mesh /\ f = faces[k].face
    OBVIOUS
  <2>2. l \in 1 .. n /\ f \in 1 .. counts[l] /\ k = Sum(counts, l - 1) + f
    BY <1>3, <1>4, <2>1
  <2>3. ASSUME l = j PROVE sums[j - 1] < k /\ k <= sums[j]
    BY <1>7, <2>2, <2>3
  <2>4. ASSUME sums[j - 1] < k, k <= sums[j] PROVE l = j
    <3>1. PICK m : m = k - sums[j - 1]
      OBVIOUS
    <3>2. m \in 1 .. counts[j] /\ k = Sum(counts, j - 1) + m
      BY <1>4, <1>7, <2>4, <3>1
    <3> QED
      BY <1>6, <2>2, <3>2
  <2> QED
    BY <2>1, <2>3, <2>4
<1>9. sums[n] = Sum(counts, n) /\ \A j \in 0 .. n : sums[j] \in Nat
  BY <1>2, <1>3, <1>5
<1>10. FacesAt(ms, faces, sums)
  BY <1>1, <1>4, <1>8, <1>9 DEF FacesAt
<1> QED
  BY <1>1, <1>2, <1>10

(* The loop of add writes to the primitives of the mesh it is at.          *)
LEMMA AtRange ==
    ASSUME PhaseInv, PrimInv, BlockInv, Converting, NEW i \in DOMAIN detail
    PROVE  InRange(i) <=> Now(i)
<1>1. PICK faces, n, last, sums :
        /\ faces = Faces(Geometries) /\ n = Len(Meshes) /\ last = count
        /\ sums = [j \in 0 .. n |-> Sum(FaceCounts(Geometries), j)]
  OBVIOUS
<1>2. PICK start : start = Len(detail) - Len(faces)
  OBVIOUS
<1>3. /\ leaves \in Seq(Shapes) /\ leaves # <<>> /\ at \in 1 .. n /\ ranges = FaceRanges
  BY <1>1 DEF PhaseInv
<1>4. last \in Nat /\ last \in 1 .. last /\ leaves[last] \in Shapes
  BY <1>1, <1>3, LastShape
<1>5. Len(Geometries) = n /\ SoundMeshes(Geometries) /\ n \in Nat /\ n = Len(MeshesOf(leaves[last]))
  BY <1>1, <1>4, GeometriesSound, MeshFound DEF Geometries, Meshes
<1>6. FacesAt(Geometries, faces, sums)
  BY <1>1, <1>5, FacesBySums
<1>7. /\ Len(faces) = sums[n] /\ Len(faces) \in Nat /\ DOMAIN faces = 1 .. Len(faces)
      /\ \A j \in 0 .. n : sums[j] \in Nat
      /\ \A k \in 1 .. Len(faces) :
           /\ faces[k].mesh \in 1 .. n
           /\ faces[k].mesh = at <=> sums[at - 1] < k /\ k <= sums[at]
  BY <1>3, <1>5, <1>6 DEF FacesAt
<1>8. /\ start \in Nat
      /\ \A h \in 1 .. start : detail[h].from.shape < last
      /\ \A k \in DOMAIN faces : detail[start + k].from = OfMesh(last, faces[k].mesh)
  BY <1>1, <1>2 DEF BlockInv
<1>9. /\ Len(ranges) = n
      /\ ranges[at].start = sums[at - 1] /\ ranges[at].past = sums[at]
      /\ ranges[n].past = sums[n]
  <2>1. n \in 1 .. n /\ n \in 0 .. n /\ at \in 0 .. n /\ at - 1 \in 0 .. n
    BY <1>3, <1>5
  <2>2. Len(ranges) = n /\ IsRange(ranges[at], at) /\ IsRange(ranges[n], n)
    BY <1>1, <1>3, <2>1, RangesAre
  <2> QED
    BY <1>1, <2>1, <2>2 DEF IsRange
<1>10. PrimStartOffset = start
  BY <1>2, <1>7, <1>9 DEF PrimStartOffset
<1>11. i \in 1 .. Len(detail) /\ Len(detail) \in Nat
  BY LenProperties DEF PrimInv
<1>12. PICK k : k = i - start
  OBVIOUS
<1>13. InRange(i) <=> sums[at - 1] < k /\ k <= sums[at]
  BY <1>9, <1>10, <1>12 DEF InRange
<1>14. Now(i) <=> detail[i].from = OfMesh(last, at)
  BY <1>1 DEF Now
<1>15. sums[at - 1] \in Nat /\ sums[at] \in Nat
  <2>1. at \in 0 .. n /\ at - 1 \in 0 .. n
    BY <1>3, <1>5
  <2> QED
    BY <1>7, <2>1
<1>16. CASE i \in 1 .. start
  <2>1. detail[i].from.shape < last
    BY <1>8, <1>16
  <2>2. OfMesh(last, at).shape = last
    BY DEF OfMesh
  <2>3. detail[i].from # OfMesh(last, at)
    BY <1>4, <2>1, <2>2
  <2>4. ~(sums[at - 1] < k)
    BY <1>8, <1>11, <1>12, <1>15, <1>16
  <2> QED
    BY <1>13, <1>14, <2>3, <2>4
<1>17. CASE i \notin 1 .. start
  <2>1. k \in 1 .. Len(faces) /\ start + k = i
    <3>1. PICK d, m : d = Len(detail) /\ m = Len(faces)
      OBVIOUS
    <3>2. d \in Nat /\ m \in Nat /\ start \in Nat /\ start = d - m /\ i \in 1 .. d
      BY <1>2, <1>7, <1>8, <1>11, <3>1
    <3>3. k \in 1 .. m /\ start + k = i
      BY <1>12, <1>17, <3>2
    <3> QED
      BY <3>1, <3>3
  <2>2. detail[i].from = OfMesh(last, faces[k].mesh)
    BY <1>7, <1>8, <2>1
  <2>3. faces[k].mesh \in 1 .. n
    BY <1>7, <2>1
  <2>4. detail[i].from = OfMesh(last, at) => faces[k].mesh = at
    <3> SUFFICES ASSUME OfMesh(last, faces[k].mesh) = OfMesh(last, at) PROVE faces[k].mesh = at
      BY <2>2
    <3>1. last \in 1 .. count /\ at \in 1 .. Len(MeshesOf(leaves[last]))
          /\ faces[k].mesh \in 1 .. Len(MeshesOf(leaves[last]))
      BY <1>1, <1>3, <1>4, <1>5, <2>3
    <3> QED
      BY <1>3, <3>1, OfOneMesh
  <2>5. faces[k].mesh = at <=> sums[at - 1] < k /\ k <= sums[at]
    BY <1>7, <2>1
  <2> QED
    BY <1>13, <1>14, <2>2, <2>4, <2>5
<1> QED
  BY <1>16, <1>17

-----------------------------------------------------------------------------
(* The steps, as far as they change what the invariants are about.         *)

(* What is said of the leaves stays when they stay.                        *)
LEMMA SameLeaves ==
    ASSUME leaves' = leaves
    PROVE  /\ count' = count /\ Meshes' = Meshes /\ Geometries' = Geometries
           /\ FaceRanges' = FaceRanges /\ InstanceShapeIds' = InstanceShapeIds
<1>1. count' = count
  BY DEF count
<1>2. Meshes' = Meshes /\ Geometries' = Geometries /\ Instances' = Instances
  BY <1>1 DEF Meshes, Geometries, Instances
<1>3. \A j : RangeStart(j)' = RangeStart(j)
  BY <1>2 DEF RangeStart
<1>4. \A l, m : From(l, m)' = From(l, m)
  BY <1>1 DEF From
<1>5. FaceRanges' = FaceRanges
  BY <1>1, <1>2, <1>3, <1>4 DEF FaceRanges
<1>6. InstanceShapeIds' = InstanceShapeIds
  BY <1>1, <1>2 DEF InstanceShapeIds, ShapeId
<1> QED
  BY <1>1, <1>2, <1>5, <1>6

(* The primitives stay, but for their values.                              *)
Rewritten ==
    /\ detail' \in Seq({detail'[i] : i \in DOMAIN detail'})
    /\ Len(detail') = Len(detail) /\ DOMAIN detail' = DOMAIN detail
    /\ \A i \in DOMAIN detail :
         /\ DOMAIN detail'[i] = PrimFields
         /\ detail'[i].from = detail[i].from
         /\ detail'[i].face = detail[i].face
         /\ detail'[i].corners = detail[i].corners
    /\ holeGroups' = holeGroups

LEMMA PrimFacts ==
    ASSUME PrimInv
    PROVE  /\ Len(detail) \in Nat /\ DOMAIN detail = 1 .. Len(detail)
           /\ \A i \in DOMAIN detail : DOMAIN detail[i] = PrimFields
<1>1. Len(detail) \in Nat /\ DOMAIN detail = 1 .. Len(detail)
  BY LenProperties DEF PrimInv
<1>2. \A i \in DOMAIN detail : DOMAIN detail[i] = PrimFields
  BY DEF PrimInv, IsPrim
<1> QED
  BY <1>1, <1>2

LEMMA ASeq ==
    ASSUME NEW n \in Nat, NEW s, s = [i \in 1 .. n |-> s[i]]
    PROVE  s \in Seq({s[i] : i \in DOMAIN s})
<1>1. DOMAIN s = 1 .. n
  OBVIOUS
<1> DEFINE T == {s[i] : i \in DOMAIN s}
<1>2. \A i \in 1 .. n : s[i] \in T
  BY <1>1
<1> HIDE DEF T
<1>3. s \in [1 .. n -> T]
  BY <1>2
<1>4. s \in Seq(T)
  BY <1>3
<1> QED
  BY <1>4 DEF T

LEMMA Joined ==
    ASSUME NEW T, NEW s \in Seq(T), NEW t \in Seq(T)
    PROVE  /\ s \o t \in Seq(T)
           /\ Len(s \o t) = Len(s) + Len(t)
           /\ \A i \in 1 .. Len(s) : (s \o t)[i] = s[i]
           /\ \A k \in 1 .. Len(t) : (s \o t)[Len(s) + k] = t[k]
<1>1. Len(s) \in Nat /\ Len(t) \in Nat
  BY LenProperties
<1>2. PICK m, n : m = Len(s) /\ n = Len(t)
  OBVIOUS
<1>3. /\ s \o t \in Seq(T) /\ Len(s \o t) = m + n
      /\ \A i \in 1 .. m + n : (s \o t)[i] = IF i <= m THEN s[i] ELSE t[i - m]
  BY <1>2, ConcatProperties
<1>4. \A i \in 1 .. m : i \in 1 .. m + n /\ i <= m
  BY <1>1, <1>2
<1>5. \A k \in 1 .. n : m + k \in 1 .. m + n /\ ~(m + k <= m) /\ (m + k) - m = k
  BY <1>1, <1>2
<1>6. \A i \in 1 .. m : (s \o t)[i] = s[i]
  BY <1>3, <1>4
<1>7. ASSUME NEW k \in 1 .. n PROVE (s \o t)[m + k] = t[k]
  <2>1. (s \o t)[m + k] = t[(m + k) - m]
    BY <1>3, <1>5
  <2> QED
    BY <1>5, <2>1
<1> QED
  BY <1>2, <1>3, <1>6, <1>7

LEMMA ConvertRewrites ==
    ASSUME PrimInv, NEW map, NEW useArrayTypes, Convert(map, useArrayTypes)
    PROVE  Rewritten
<1>1. PICK new : detail' = [i \in DOMAIN detail |-> [detail[i] EXCEPT !.values = new[i]]]
  <2>1. PICK keyOf \in FirstKeys(map) :
          LET extracted == Extracted(handles, map, keyOf)
              created == CreatedAttributes(extracted, attributes, useArrayTypes, replaces)
              Kept(i) == KeptValues(detail[i].values, attributes, created)
          IN  detail' = [i \in DOMAIN detail |->
                [detail[i] EXCEPT !.values =
                   IF InRange(i) THEN SetValues(Kept(i), handles', created, map) ELSE Kept(i)]]
    BY DEF Convert
  <2> DEFINE created == CreatedAttributes(Extracted(handles, map, keyOf), attributes,
                                          useArrayTypes, replaces)
             Kept(i) == KeptValues(detail[i].values, attributes, created)
             Written(i) == IF InRange(i) THEN SetValues(Kept(i), handles', created, map)
                           ELSE Kept(i)
  <2>2. detail' = [i \in DOMAIN detail |-> [detail[i] EXCEPT !.values = Written(i)]]
    BY <2>1
  <2> HIDE DEF Written
  <2> DEFINE new == [i \in DOMAIN detail |-> Written(i)]
  <2>3. detail' = [i \in DOMAIN detail |-> [detail[i] EXCEPT !.values = new[i]]]
    BY <2>2
  <2> HIDE DEF new
  <2> QED
    BY <2>3
<1>2. DOMAIN detail = 1 .. Len(detail) /\ Len(detail) \in Nat
      /\ \A i \in DOMAIN detail : DOMAIN detail[i] = PrimFields
  BY PrimFacts
<1>3. DOMAIN detail' = DOMAIN detail /\ Len(detail') = Len(detail)
  BY <1>1, <1>2
<1>4. ASSUME NEW i \in DOMAIN detail
      PROVE  /\ DOMAIN detail'[i] = PrimFields
             /\ detail'[i].from = detail[i].from
             /\ detail'[i].face = detail[i].face
             /\ detail'[i].corners = detail[i].corners
  <2>1. detail'[i] = [detail[i] EXCEPT !.values = new[i]]
    BY <1>1
  <2>2. DOMAIN detail[i] = {"from", "face", "corners", "values"}
    BY <1>2 DEF PrimFields
  <2> QED
    BY <2>1, <2>2 DEF PrimFields
<1>5. holeGroups' = holeGroups
  BY DEF Convert
<1>6. detail' \in Seq({detail'[i] : i \in DOMAIN detail'})
  <2>1. detail' = [i \in 1 .. Len(detail) |-> detail'[i]]
    BY <1>1, <1>2
  <2> QED
    BY <1>2, <2>1, ASeq
<1> QED
  BY <1>3, <1>4, <1>5, <1>6 DEF Rewritten

(* A step of the loop over the face ranges.                                *)
LoopStep ==
    /\ Converting
    /\ Rewritten
    /\ UNCHANGED <<settings, leaves, builders, ranges, shapeIDs>>
    /\ \/ pc = "materials" /\ pc' = "reports" /\ at' = at
       \/ pc = "reports" /\ pc' = "attributes" /\ at' = at
       \/ pc = "attributes" /\ pc' = "materials" /\ at < Len(ranges) /\ at' = at + 1
       \/ pc = "attributes" /\ pc' = "return" /\ at' = at /\ ~(at < Len(ranges))

LEMMA LoopSteps ==
    ASSUME PrimInv, ConvertMaterial \/ ConvertReport \/ ConvertAttributes
    PROVE  LoopStep
<1>1. Skip => Rewritten
  BY PrimFacts DEF Skip, inDetail, Rewritten, PrimInv
<1>2. CASE ConvertMaterial
  <2>1. Rewritten
    BY <1>1, <1>2, ConvertRewrites DEF ConvertMaterial
  <2> QED
    BY <1>2, <2>1 DEF ConvertMaterial, LoopStep, Converting
<1>3. CASE ConvertReport
  <2>1. Rewritten
    BY <1>1, <1>3, ConvertRewrites DEF ConvertReport
  <2> QED
    BY <1>3, <2>1 DEF ConvertReport, LoopStep, Converting
<1>4. CASE ConvertAttributes
  <2>1. PICK id : IF id \in DOMAIN builders THEN Convert(builders[id], TRUE) ELSE Skip
    BY <1>4 DEF ConvertAttributes
  <2>2. Rewritten
    BY <1>1, <2>1, ConvertRewrites
  <2> QED
    BY <1>4, <2>2 DEF ConvertAttributes, LoopStep, Converting
<1> QED
  BY <1>2, <1>3, <1>4

(* The steps by what they do to the primitives.                            *)
StepCases ==
    \/ NextInitialShape
    \/ Forward
    \/ Deliver
    \/ LoopStep
    \/ Return
    \/ UNCHANGED vars

LEMMA Steps ==
    ASSUME PrimInv, [Next]_vars
    PROVE  StepCases
BY LoopSteps DEF Next, StepCases

LEMMA PhaseNext ==
    ASSUME PhaseInv, PrimInv, [Next]_vars
    PROVE  PhaseInv'
<1>0. /\ emit \in EmitOptions /\ replaces \in BOOLEAN /\ pc \in Phases
      /\ leaves \in Seq(Shapes) /\ Len(leaves) <= MaxInitialShapes
      /\ pc = "forward" => leaves # <<>> /\ at \in 1 .. Len(leaves[count]) + 1
      /\ Converting => /\ leaves # <<>> /\ at \in 1 .. Len(Meshes)
                       /\ ranges = FaceRanges /\ shapeIDs = InstanceShapeIds
  BY DEF PhaseInv
<1>1. CASE NextInitialShape
  <2>1. PICK n \in 1 .. MaxLeaves :
          \E shape \in [1 .. n -> Leaves] : leaves' = Append(leaves, shape)
    BY <1>1 DEF NextInitialShape
  <2>2. PICK shape \in [1 .. n -> Leaves] : leaves' = Append(leaves, shape)
    BY <2>1
  <2>3. shape \in Shapes
    BY DEF Shapes
  <2>4. leaves' \in Seq(Shapes) /\ Len(leaves') = Len(leaves) + 1 /\ leaves'[Len(leaves')] = shape
        /\ leaves' # <<>>
    BY <1>0, <2>2, <2>3, AppendProperties
  <2>5. 1 \in 1 .. Len(shape) + 1
    BY <2>3, ShapeFacts
  <2>6. Len(leaves') <= MaxInitialShapes
    <3>1. MaxInitialShapes \in Nat /\ Len(leaves) \in Nat /\ Len(leaves) < MaxInitialShapes
      BY <1>0, <1>1, EncodeShapesAssumption, LenProperties DEF NextInitialShape, count
    <3> QED
      BY <2>4, <3>1
  <2> QED
    BY <1>0, <1>1, <2>4, <2>5, <2>6
       DEF NextInitialShape, PhaseInv, settings, Converting, Phases, count
<1>2. CASE Forward
  <2>1. leaves' = leaves /\ count' = count /\ pc = "forward" /\ pc' = pc /\ at' = at + 1
        /\ at <= Len(leaves[count])
    BY <1>2, SameLeaves DEF Forward
  <2>2. Len(leaves[count]) \in Nat
    <3>1. leaves[count] \in Shapes
      BY <1>0, <2>1, LastShape
    <3> QED
      BY <3>1, ShapeFacts
  <2>3. at' \in 1 .. Len(leaves[count]) + 1
    BY <1>0, <2>1, <2>2
  <2> QED
    BY <1>0, <1>2, <2>1, <2>3 DEF Forward, PhaseInv, settings, Converting
<1>3. CASE Deliver
  <2>1. /\ leaves' = leaves /\ count' = count /\ pc = "forward" /\ at' = 1
        /\ ranges' = FaceRanges /\ shapeIDs' = InstanceShapeIds
        /\ pc' = IF FaceRanges = <<>> THEN "return" ELSE "materials"
    BY <1>3, SameLeaves DEF Deliver
  <2>2. FaceRanges # <<>> => 1 \in 1 .. Len(Meshes)
    BY <1>0, <2>1, RangesAre
  <2>3. Meshes' = Meshes /\ FaceRanges' = FaceRanges /\ InstanceShapeIds' = InstanceShapeIds
    BY <2>1, SameLeaves
  <2> QED
    BY <1>0, <1>3, <2>1, <2>2, <2>3 DEF Deliver, PhaseInv, settings, Converting, Phases
<1>4. CASE LoopStep
  <2>1. /\ leaves' = leaves /\ Meshes' = Meshes /\ FaceRanges' = FaceRanges
        /\ InstanceShapeIds' = InstanceShapeIds
        /\ ranges' = ranges /\ shapeIDs' = shapeIDs /\ Converting
    BY <1>4, SameLeaves DEF LoopStep
  <2>2. Len(FaceRanges) = Len(Meshes) /\ Len(Meshes) \in Nat
    BY <1>0, <2>1, RangesAre
  <2>3. at' \in 1 .. Len(Meshes)
    BY <1>0, <1>4, <2>1, <2>2 DEF LoopStep
  <2> QED
    BY <1>0, <1>4, <2>1, <2>3 DEF LoopStep, PhaseInv, settings, Converting, Phases
<1>5. CASE Return
  BY <1>0, <1>5 DEF Return, PhaseInv, settings, Converting, Phases
<1>6. CASE UNCHANGED vars
  <2>1. leaves' = leaves /\ count' = count /\ Meshes' = Meshes /\ FaceRanges' = FaceRanges
        /\ InstanceShapeIds' = InstanceShapeIds
    BY <1>6, SameLeaves DEF vars
  <2> QED
    BY <1>0, <1>6, <2>1 DEF vars, PhaseInv, settings, Converting
<1> QED
  BY <1>1, <1>2, <1>3, <1>4, <1>5, <1>6, Steps DEF StepCases

ElementsOf(s) == {s[i] : i \in DOMAIN s}

LEMMA JoinedElements ==
    ASSUME NEW T, NEW s \in Seq(T), NEW t \in Seq(T)
    PROVE  ElementsOf(s \o t) = ElementsOf(s) \cup ElementsOf(t)
<1>1. PICK m, n, u : m = Len(s) /\ n = Len(t) /\ u = s \o t
  OBVIOUS
<1>2. m \in Nat /\ n \in Nat /\ DOMAIN s = 1 .. m /\ DOMAIN t = 1 .. n
  BY <1>1, LenProperties
<1>3. /\ u \in Seq(T) /\ Len(u) = m + n
      /\ \A i \in 1 .. m : u[i] = s[i]
      /\ \A k \in 1 .. n : u[m + k] = t[k]
  BY <1>1, Joined
<1>4. DOMAIN u = 1 .. m + n
  BY <1>3, LenProperties
<1>5. \A i \in 1 .. m + n : i \in 1 .. m \/ \E k \in 1 .. n : i = m + k
  <2> TAKE i \in 1 .. m + n
  <2>1. i \notin 1 .. m => i - m \in 1 .. n /\ i = m + (i - m)
    BY <1>2
  <2> QED
    BY <2>1
<1>6. (\A i \in 1 .. m : i \in 1 .. m + n) /\ (\A k \in 1 .. n : m + k \in 1 .. m + n)
  BY <1>2
<1>7. {u[i] : i \in 1 .. m + n} = {s[i] : i \in 1 .. m} \cup {t[i] : i \in 1 .. n}
  <2>1. ASSUME NEW i \in 1 .. m + n
        PROVE  u[i] \in {s[k] : k \in 1 .. m} \cup {t[k] : k \in 1 .. n}
    BY <1>3, <1>5
  <2>2. ASSUME NEW i \in 1 .. m PROVE s[i] \in {u[k] : k \in 1 .. m + n}
    <3>1. u[i] = s[i] /\ i \in 1 .. m + n
      BY <1>3, <1>6
    <3> QED
      BY <3>1
  <2>3. ASSUME NEW i \in 1 .. n PROVE t[i] \in {u[k] : k \in 1 .. m + n}
    <3>1. u[m + i] = t[i] /\ m + i \in 1 .. m + n
      BY <1>3, <1>6
    <3> QED
      BY <3>1
  <2> QED
    BY <2>1, <2>2, <2>3
<1> QED
  BY <1>1, <1>2, <1>4, <1>7 DEF ElementsOf

(* A primitive stays a face of a mesh while its leaves stay.               *)
LEMMA PrimStays ==
    ASSUME PrimInv, leaves \in Seq(Shapes), NEW i \in DOMAIN detail,
           /\ DOMAIN detail'[i] = PrimFields
           /\ detail'[i].from = detail[i].from
           /\ detail'[i].face = detail[i].face
           /\ detail'[i].corners = detail[i].corners,
           \A s \in 1 .. count : s \in 1 .. count' /\ leaves'[s] = leaves[s],
           pc' = "forward" => \/ pc = "forward" /\ count' = count
                              \/ \A s \in 1 .. count : s < count'
    PROVE  (\E s \in 1 .. count : \E j \in 1 .. Len(MeshesOf(leaves[s])) :
              \E f \in 1 .. Len(GeometriesOf(leaves[s])[j].faces) :
                IsPrim(detail[i], s, j, f) /\ (pc = "forward" => s < count))'
<1>1. PICK s \in 1 .. count : \E j \in 1 .. Len(MeshesOf(leaves[s])) :
        \E f \in 1 .. Len(GeometriesOf(leaves[s])[j].faces) :
          IsPrim(detail[i], s, j, f) /\ (pc = "forward" => s < count)
  BY DEF PrimInv
<1>2. PICK j \in 1 .. Len(MeshesOf(leaves[s])) :
        \E f \in 1 .. Len(GeometriesOf(leaves[s])[j].faces) :
          IsPrim(detail[i], s, j, f) /\ (pc = "forward" => s < count)
  BY <1>1
<1>3. PICK f \in 1 .. Len(GeometriesOf(leaves[s])[j].faces) :
        IsPrim(detail[i], s, j, f) /\ (pc = "forward" => s < count)
  BY <1>2
<1>4. s \in 1 .. count' /\ leaves'[s] = leaves[s]
  OBVIOUS
<1>5. OfMesh(s, j)' = OfMesh(s, j)
  BY <1>4 DEF OfMesh
<1>6. IsPrim(detail[i], s, j, f)'
  BY <1>3, <1>4, <1>5 DEF IsPrim
<1>7. pc' = "forward" => s < count'
  BY <1>3
<1> QED
  BY <1>4, <1>6, <1>7

(* What Deliver appends.                                                   *)
IsDelivered(faces, sg) ==
    /\ leaves' = leaves
    /\ detail' \in Seq({detail'[i] : i \in DOMAIN detail'})
    /\ Len(detail') = Len(detail) + Len(faces)
    /\ \A i \in DOMAIN detail : detail'[i] = detail[i] /\ detail[i].from.shape < count
    /\ \A k \in DOMAIN faces :
         /\ detail'[Len(detail) + k].values = EmptyMap
         /\ IsPrim(detail'[Len(detail) + k], count, faces[k].mesh, faces[k].face)
    /\ holeGroups' = holeGroups \o HoleGroups(sg, Len(detail))

LEMMA PrimOf ==
    ASSUME leaves \in Seq(Shapes), leaves # <<>>, NEW k \in DOMAIN Faces(Geometries)
    PROVE  LET p == Faces(Geometries)[k]
               prim == Prim(p, Corners(SerializeGeometry(Geometries), k))
           IN  /\ prim.values = EmptyMap
               /\ IsPrim(prim, count, p.mesh, p.face)
<1>1. PICK ms, p, prim, corners :
        /\ ms = Geometries /\ p = Faces(ms)[k]
        /\ corners = Corners(SerializeGeometry(ms), k) /\ prim = Prim(p, corners)
  OBVIOUS
<1>2. leaves[count] \in Shapes
  BY LastShape
<1>3. SoundMeshes(ms) /\ ms = GeometriesOf(leaves[count])
  BY <1>1, <1>2, GeometriesSound DEF Geometries
<1>4. corners = OwnCorners(ms, p.mesh, p.face)
  BY <1>1, <1>3, CornersUnpacked
<1>5. prim = [from |-> OfMesh(count, p.mesh), face |-> p.face, corners |-> corners,
              values |-> EmptyMap]
  BY <1>1 DEF Prim, From, OfMesh, Meshes
<1>6. /\ DOMAIN prim = PrimFields /\ prim.from = OfMesh(count, p.mesh) /\ prim.face = p.face
      /\ prim.corners = corners /\ prim.values = EmptyMap
  BY <1>5 DEF PrimFields
<1> QED
  BY <1>1, <1>3, <1>4, <1>6 DEF IsPrim

LEMMA Delivered ==
    ASSUME PhaseInv, PrimInv, Deliver
    PROVE  IsDelivered(Faces(Geometries), SerializeGeometry(Geometries))
<1>1. PICK faces, sg : faces = Faces(Geometries) /\ sg = SerializeGeometry(Geometries)
  OBVIOUS
<1>2. leaves \in Seq(Shapes) /\ leaves # <<>> /\ leaves' = leaves /\ pc = "forward"
  BY DEF Deliver, PhaseInv
<1>3. SoundMeshes(Geometries)
  BY <1>2, LastShape, GeometriesSound DEF Geometries
<1>4. Len(faces) \in Nat /\ DOMAIN faces = 1 .. Len(faces)
  BY <1>1, <1>3, FacesInOrder
<1>5. PICK block : block = [k \in DOMAIN faces |-> Prim(faces[k], Corners(sg, k))]
  OBVIOUS
<1>6. detail' = detail \o block /\ holeGroups' = holeGroups \o HoleGroups(sg, Len(detail))
  BY <1>1, <1>5 DEF Deliver
<1>7. Len(detail) \in Nat /\ DOMAIN detail = 1 .. Len(detail)
  BY PrimFacts
<1>8. DOMAIN block = 1 .. Len(faces) /\ Len(block) = Len(faces)
  BY <1>4, <1>5
<1>9. PICK T : T = {detail[i] : i \in DOMAIN detail} \cup {block[i] : i \in DOMAIN block}
  OBVIOUS
<1>10. detail \in Seq(T) /\ block \in Seq(T)
  <2>1. detail \in Seq(T)
    <3>1. {detail[i] : i \in DOMAIN detail} \subseteq T
      BY <1>9
    <3> QED
      BY <3>1 DEF PrimInv
  <2>2. block \in Seq(T)
    <3>1. block = [k \in 1 .. Len(faces) |-> block[k]]
      BY <1>4, <1>5
    <3>2. \A k \in 1 .. Len(faces) : block[k] \in T
      BY <1>8, <1>9
    <3> QED
      BY <1>4, <3>1, <3>2
  <2> QED
    BY <2>1, <2>2
<1>11. /\ detail' \in Seq(T)
       /\ Len(detail') = Len(detail) + Len(faces)
       /\ \A i \in 1 .. Len(detail) : detail'[i] = detail[i]
       /\ \A k \in 1 .. Len(faces) : detail'[Len(detail) + k] = block[k]
  <2>1. /\ detail \o block \in Seq(T)
        /\ Len(detail \o block) = Len(detail) + Len(block)
        /\ \A i \in 1 .. Len(detail) : (detail \o block)[i] = detail[i]
        /\ \A k \in 1 .. Len(block) : (detail \o block)[Len(detail) + k] = block[k]
    BY <1>10, Joined
  <2> QED
    BY <1>6, <1>8, <2>1
<1>12. detail' \in Seq({detail'[i] : i \in DOMAIN detail'})
  <2>1. detail' = [i \in 1 .. Len(detail') |-> detail'[i]] /\ Len(detail') \in Nat
    BY <1>11
  <2> QED
    BY <2>1, ASeq
<1>13. ASSUME NEW i \in DOMAIN detail PROVE detail[i].from.shape < count
  <2>1. PICK s \in 1 .. count : s < count /\ \E j : detail[i].from = OfMesh(s, j)
    BY <1>2 DEF PrimInv, IsPrim
  <2> QED
    BY <2>1 DEF OfMesh
<1>14. ASSUME NEW k \in DOMAIN faces
       PROVE  /\ block[k].values = EmptyMap
              /\ IsPrim(block[k], count, faces[k].mesh, faces[k].face)
  <2>1. block[k] = Prim(faces[k], Corners(sg, k))
    BY <1>5
  <2> QED
    BY <1>1, <1>2, <2>1, PrimOf
<1>15. IsDelivered(faces, sg)
  BY <1>2, <1>4, <1>6, <1>7, <1>11, <1>12, <1>13, <1>14 DEF IsDelivered
<1> QED
  BY <1>1, <1>15

LEMMA PrimNext ==
    ASSUME PhaseInv, PrimInv, [Next]_vars
    PROVE  PrimInv'
<1>1. /\ leaves \in Seq(Shapes) /\ count \in Nat /\ pc \in Phases
      /\ Len(detail) \in Nat /\ DOMAIN detail = 1 .. Len(detail)
      /\ \A i \in DOMAIN detail : DOMAIN detail[i] = PrimFields
      /\ detail \in Seq({detail[i] : i \in DOMAIN detail})
  BY PrimFacts, LenProperties DEF PhaseInv, count, PrimInv
<1> DEFINE Placed(i) ==
             \E s \in 1 .. count : \E j \in 1 .. Len(MeshesOf(leaves[s])) :
               \E f \in 1 .. Len(GeometriesOf(leaves[s])[j].faces) :
                 IsPrim(detail[i], s, j, f) /\ (pc = "forward" => s < count)
<1>2. ASSUME detail' \in Seq({detail'[i] : i \in DOMAIN detail'}),
             \A i \in DOMAIN detail' : Placed(i)'
      PROVE  PrimInv'
  BY <1>2 DEF PrimInv
<1>3. ASSUME detail' = detail, count' >= count, count' \in Nat,
             \A s \in 1 .. count : leaves'[s] = leaves[s],
             pc' = "forward" => (pc = "forward" /\ count' = count) \/ count < count'
      PROVE  PrimInv'
  <2>1. ASSUME NEW i \in DOMAIN detail PROVE Placed(i)'
    <3>1. /\ DOMAIN detail'[i] = PrimFields
          /\ detail'[i].from = detail[i].from
          /\ detail'[i].face = detail[i].face
          /\ detail'[i].corners = detail[i].corners
      BY <1>1, <1>3
    <3>2. \A s \in 1 .. count : s \in 1 .. count' /\ leaves'[s] = leaves[s]
      BY <1>1, <1>3
    <3>3. pc' = "forward" => \/ pc = "forward" /\ count' = count
                             \/ \A s \in 1 .. count : s < count'
      BY <1>1, <1>3
    <3> QED
      BY <1>1, <3>1, <3>2, <3>3, PrimStays
  <2> QED
    BY <1>1, <1>2, <1>3, <2>1
<1>4. CASE NextInitialShape
  <2>1. PICK n \in 1 .. MaxLeaves :
          \E shape \in [1 .. n -> Leaves] : leaves' = Append(leaves, shape)
    BY <1>4 DEF NextInitialShape
  <2>2. PICK shape \in [1 .. n -> Leaves] : leaves' = Append(leaves, shape)
    BY <2>1
  <2>3. shape \in Shapes
    BY DEF Shapes
  <2>4. count' = count + 1 /\ \A s \in 1 .. count : leaves'[s] = leaves[s]
    BY <1>1, <2>2, <2>3, AppendProperties DEF count
  <2>5. count' >= count /\ count' \in Nat /\ count < count' /\ detail' = detail
    BY <1>1, <1>4, <2>4 DEF NextInitialShape, inDetail
  <2> QED
    BY <1>3, <2>4, <2>5
<1>5. CASE Forward \/ Return \/ UNCHANGED vars
  <2>1. leaves' = leaves /\ detail' = detail /\ (pc' = pc \/ pc' = "idle")
    BY <1>5 DEF Forward, Return, vars, inDetail
  <2>2. count' = count /\ count' >= count
    BY <1>1, <2>1 DEF count
  <2> QED
    BY <1>1, <1>3, <2>1, <2>2
<1>6. CASE Deliver
  <2>1. PICK faces : faces = Faces(Geometries)
    OBVIOUS
  <2>2. PICK sg : sg = SerializeGeometry(Geometries)
    OBVIOUS
  <2>3. IsDelivered(faces, sg)
    BY <1>6, <2>1, <2>2, Delivered
  <2>4. leaves' = leaves /\ count' = count /\ pc' # "forward" /\ leaves # <<>>
    BY <1>6, SameLeaves DEF Deliver, PhaseInv
  <2>5. count \in 1 .. count /\ leaves[count] \in Shapes
    BY <1>1, <2>4, LastShape
  <2>6. /\ SoundMeshes(Geometries) /\ Geometries = GeometriesOf(leaves[count])
        /\ Len(Geometries) = Len(MeshesOf(leaves[count]))
    BY <2>5, GeometriesSound DEF Geometries
  <2>7. /\ Len(faces) \in Nat /\ DOMAIN faces = 1 .. Len(faces)
        /\ \A k \in DOMAIN faces : /\ faces[k].mesh \in 1 .. Len(Geometries)
                                   /\ faces[k].face \in 1 .. Len(Geometries[faces[k].mesh].faces)
    BY <2>1, <2>6, FacesInOrder
  <2>8. ASSUME NEW i \in DOMAIN detail' PROVE Placed(i)'
    <3>1. i \in 1 .. Len(detail) + Len(faces)
      BY <1>1, <2>3, <2>7, LenProperties DEF IsDelivered
    <3>2. CASE i \in DOMAIN detail
      <4>1. /\ DOMAIN detail'[i] = PrimFields
            /\ detail'[i].from = detail[i].from
            /\ detail'[i].face = detail[i].face
            /\ detail'[i].corners = detail[i].corners
        BY <1>1, <2>3, <3>2 DEF IsDelivered
      <4> QED
        BY <1>1, <2>4, <3>2, <4>1, PrimStays
    <3>3. CASE i \notin DOMAIN detail
      <4>1. PICK k : k = i - Len(detail)
        OBVIOUS
      <4>2. k \in DOMAIN faces /\ i = Len(detail) + k
        BY <1>1, <2>7, <3>1, <3>3, <4>1
      <4>3. PICK j, f : j = faces[k].mesh /\ f = faces[k].face
        OBVIOUS
      <4>4. IsPrim(detail'[i], count, j, f)
        BY <2>3, <4>2, <4>3 DEF IsDelivered
      <4>5. /\ j \in 1 .. Len(MeshesOf(leaves[count]))
            /\ f \in 1 .. Len(GeometriesOf(leaves[count])[j].faces)
        BY <2>6, <2>7, <4>2, <4>3
      <4>6. IsPrim(detail[i], count, j, f)'
        BY <2>4, <4>4 DEF IsPrim, OfMesh
      <4> QED
        BY <2>4, <2>5, <4>5, <4>6
    <3> QED
      BY <3>2, <3>3
  <2> QED
    BY <1>2, <2>3, <2>8 DEF IsDelivered
<1>7. CASE LoopStep
  <2>1. leaves' = leaves /\ count' = count /\ pc' # "forward" /\ Rewritten
    BY <1>7, SameLeaves DEF LoopStep
  <2>2. ASSUME NEW i \in DOMAIN detail' PROVE Placed(i)'
    <3>1. /\ i \in DOMAIN detail
          /\ DOMAIN detail'[i] = PrimFields
          /\ detail'[i].from = detail[i].from
          /\ detail'[i].face = detail[i].face
          /\ detail'[i].corners = detail[i].corners
      BY <2>1 DEF Rewritten
    <3> QED
      BY <1>1, <2>1, <3>1, PrimStays
  <2> QED
    BY <1>2, <2>1, <2>2 DEF Rewritten
<1> QED
  BY <1>4, <1>5, <1>6, <1>7, Steps DEF StepCases

LEMMA BlockNext ==
    ASSUME PhaseInv, PrimInv, BlockInv, [Next]_vars
    PROVE  BlockInv'
<1>1. CASE NextInitialShape \/ Forward \/ Return
  <2>1. ~Converting'
    BY <1>1 DEF NextInitialShape, Forward, Return, Converting
  <2> QED
    BY <2>1 DEF BlockInv
<1>2. CASE LoopStep \/ UNCHANGED vars
  <2>1. /\ leaves' = leaves /\ count' = count /\ Geometries' = Geometries
        /\ Converting' => Converting
    BY <1>2, SameLeaves DEF LoopStep, vars, Converting
  <2>2. /\ Len(detail') = Len(detail) /\ DOMAIN detail' = DOMAIN detail
        /\ \A i \in DOMAIN detail : detail'[i].from = detail[i].from
    BY <1>2 DEF LoopStep, Rewritten, vars, inDetail
  <2>3. \A s, j : OfMesh(s, j)' = OfMesh(s, j)
    BY <2>1 DEF OfMesh
  <2>4. PICK faces, start : faces = Faces(Geometries) /\ start = Len(detail) - Len(faces)
    OBVIOUS
  <2> SUFFICES ASSUME Converting
               PROVE  /\ \A i \in 1 .. start : detail'[i].from.shape < count
                      /\ \A k \in DOMAIN faces :
                           detail'[start + k].from = OfMesh(count, faces[k].mesh)
                      /\ start \in Nat
    BY <2>1, <2>2, <2>3, <2>4 DEF BlockInv
  <2>5. /\ start \in Nat
        /\ \A i \in 1 .. start : detail[i].from.shape < count
        /\ \A k \in DOMAIN faces : detail[start + k].from = OfMesh(count, faces[k].mesh)
    BY <2>4 DEF BlockInv
  <2>6. Len(faces) \in Nat /\ DOMAIN faces = 1 .. Len(faces)
    <3>1. SoundMeshes(Geometries)
      BY LastShape, GeometriesSound DEF Geometries, PhaseInv
    <3> QED
      BY <2>4, <3>1, FacesInOrder
  <2>7. DOMAIN detail = 1 .. Len(detail) /\ Len(detail) \in Nat
    BY PrimFacts
  <2>8. /\ \A i \in 1 .. start : i \in DOMAIN detail
        /\ \A k \in DOMAIN faces : start + k \in DOMAIN detail
    <3>1. PICK d, n : d = Len(detail) /\ n = Len(faces)
      OBVIOUS
    <3>2. d \in Nat /\ n \in Nat /\ start \in Nat /\ start = d - n
      BY <2>4, <2>5, <2>6, <2>7, <3>1
    <3>3. (\A i \in 1 .. start : i \in 1 .. d) /\ (\A k \in 1 .. n : start + k \in 1 .. d)
      BY <3>2
    <3> QED
      BY <2>6, <2>7, <3>1, <3>3
  <2> QED
    BY <2>2, <2>5, <2>8
<1>3. CASE Deliver
  <2>1. PICK faces, sg : faces = Faces(Geometries) /\ sg = SerializeGeometry(Geometries)
    OBVIOUS
  <2>2. IsDelivered(faces, sg)
    BY <1>3, <2>1, Delivered
  <2>3. leaves' = leaves /\ count' = count /\ Geometries' = Geometries /\ leaves # <<>>
        /\ leaves \in Seq(Shapes)
    BY <1>3, SameLeaves DEF Deliver, PhaseInv
  <2>4. DOMAIN detail = 1 .. Len(detail) /\ Len(detail) \in Nat
    BY PrimFacts
  <2>5. Len(faces) \in Nat
    <3>1. SoundMeshes(Geometries)
      BY <2>3, LastShape, GeometriesSound DEF Geometries
    <3> QED
      BY <2>1, <3>1, FacesInOrder
  <2>6. Len(detail') - Len(faces) = Len(detail)
    BY <2>2, <2>4, <2>5 DEF IsDelivered
  <2>7. \A i \in 1 .. Len(detail) : detail'[i].from.shape < count
    BY <2>2, <2>4 DEF IsDelivered
  <2>8. \A k \in DOMAIN faces : detail'[Len(detail) + k].from = OfMesh(count, faces[k].mesh)
    BY <2>2 DEF IsDelivered, IsPrim
  <2>9. \A s, j : OfMesh(s, j)' = OfMesh(s, j)
    BY <2>3 DEF OfMesh
  <2> QED
    BY <2>1, <2>3, <2>4, <2>6, <2>7, <2>8, <2>9 DEF BlockInv
<1> QED
  BY <1>1, <1>2, <1>3, Steps DEF StepCases

-----------------------------------------------------------------------------
(* Holes.                                                                  *)

(* Two sets, of which the second is moved behind the first.                *)
LEMMA MovedCounted ==
    ASSUME NEW n \in Nat, NEW S \in SUBSET (1 .. n), NEW T \in SUBSET (Nat \ {0}), IsFiniteSet(T)
    PROVE  Cardinality(S \cup {n + k : k \in T}) = Cardinality(S) + Cardinality(T)
<1> DEFINE U == {n + k : k \in T}
           f == [k \in T |-> n + k]
<1>1. f \in [T -> U] /\ \A k \in T : f[k] = n + k
  OBVIOUS
<1>2. \A a, b \in T : n + a = n + b => a = b
  OBVIOUS
<1>3. \A u \in U : \E k \in T : f[k] = u
  OBVIOUS
<1>4. S \cap U = {}
  OBVIOUS
<1> HIDE DEF U, f
<1>5. f \in Bijection(T, U)
  BY <1>1, <1>2, <1>3 DEF Bijection, Injection, Surjection, IsInjective
<1>6. IsFiniteSet(U) /\ Cardinality(U) = Cardinality(T)
  BY <1>5, FS_Bijection DEF ExistsBijection
<1>7. IsFiniteSet(S)
  <2>1. IsFiniteSet(1 .. n)
    BY FS_Interval
  <2> QED
    BY <2>1, FS_Subset
<1>8. Cardinality(S \cup U) = Cardinality(S) + Cardinality(U) - Cardinality({})
  BY <1>4, <1>6, <1>7, FS_Union
<1>9. Cardinality({}) = 0 /\ Cardinality(S) \in Nat /\ Cardinality(U) \in Nat
  BY <1>6, <1>7, FS_EmptySet, FS_CardinalityType
<1> QED
  BY <1>6, <1>8, <1>9 DEF U

(* The groups stay while the primitives and their leaves do.               *)
LEMMA HolesStay ==
    ASSUME HoleInv, DOMAIN detail' = DOMAIN detail, holeGroups' = holeGroups,
           \A i \in DOMAIN detail :
             /\ detail'[i].from = detail[i].from
             /\ detail'[i].face = detail[i].face
             /\ leaves'[detail[i].from.shape] = leaves[detail[i].from.shape]
    PROVE  HoleInv'
<1>1. \A i \in DOMAIN detail : HolesOf(i)' = HolesOf(i)
  BY DEF HolesOf, MeshAt
<1>2. Parents' = Parents /\ Parents \subseteq DOMAIN detail
  BY <1>1 DEF Parents
<1>3. \A i \in DOMAIN detail : Group(i)' = Group(i)
  BY <1>1 DEF Group
<1>4. {Group(i) : i \in Parents}' = {Group(i) : i \in Parents}
  BY <1>2, <1>3
<1> QED
  BY <1>2, <1>4 DEF HoleInv

(* What Deliver adds: the primitives that have holes, and their groups.    *)
Adds(ms, faces, start) ==
    /\ \A i \in 1 .. start : HolesOf(i)' = HolesOf(i) /\ Group(i)' = Group(i)
    /\ \A k \in DOMAIN faces : /\ HolesOf(start + k)' = HolesAt(ms, faces[k])
                              /\ Group(start + k)' = OwnGroup(ms, faces, start, k)
    /\ DOMAIN detail' = DOMAIN detail \cup {start + k : k \in DOMAIN faces}
    /\ DOMAIN faces \in SUBSET (Nat \ {0})

LEMMA HolesAdded ==
    ASSUME PhaseInv, PrimInv, Deliver,
           NEW ms, ms = Geometries, NEW faces, faces = Faces(ms), NEW start, start = Len(detail)
    PROVE  Adds(ms, faces, start)
<1>1. PICK sg : sg = SerializeGeometry(ms)
  OBVIOUS
<1>2. IsDelivered(faces, sg)
  BY <1>1, Delivered
<1>3. leaves' = leaves /\ leaves # <<>> /\ leaves \in Seq(Shapes)
  BY SameLeaves DEF Deliver, PhaseInv
<1>4. start \in Nat /\ DOMAIN detail = 1 .. start
  BY PrimFacts
<1>5. count \in 1 .. count /\ leaves[count] \in Shapes
  BY <1>3, LastShape
<1>6. PICK meshes : meshes = MeshesOf(leaves[count])
  OBVIOUS
<1>7. /\ SoundMeshes(ms) /\ Len(ms) = Len(meshes)
      /\ \A j \in 1 .. Len(meshes) :
           ms[j] = leaves[count][meshes[j].leaf].meshes[meshes[j].mesh].geometry
  BY <1>5, <1>6, GeometriesSound DEF Geometries
<1>8. /\ Len(faces) \in Nat /\ DOMAIN faces = 1 .. Len(faces)
      /\ \A k \in DOMAIN faces : faces[k].mesh \in 1 .. Len(ms)
  BY <1>7, FacesInOrder
<1>9. DOMAIN faces \in SUBSET (Nat \ {0})
  BY <1>8
<1>10. DOMAIN detail' = DOMAIN detail \cup {start + k : k \in DOMAIN faces}
  <2>1. DOMAIN detail' = 1 .. start + Len(faces)
    BY <1>2, LenProperties DEF IsDelivered
  <2>2. \A i \in 1 .. start + Len(faces) : i \notin 1 .. start =>
          i - start \in 1 .. Len(faces) /\ i = start + (i - start)
    BY <1>4, <1>8
  <2>3. \A k \in 1 .. Len(faces) : start + k \in 1 .. start + Len(faces)
    BY <1>4, <1>8
  <2>4. 1 .. start \subseteq 1 .. start + Len(faces)
    BY <1>4, <1>8
  <2>5. 1 .. start + Len(faces) = (1 .. start) \cup {start + k : k \in 1 .. Len(faces)}
    <3>1. ASSUME NEW i \in 1 .. start + Len(faces)
          PROVE  i \in (1 .. start) \cup {start + k : k \in 1 .. Len(faces)}
      BY <2>2
    <3> QED
      BY <2>3, <2>4, <3>1
  <2> QED
    BY <1>4, <1>8, <2>1, <2>5
<1>11. ASSUME NEW i \in 1 .. start
       PROVE  /\ detail'[i] = detail[i] /\ detail[i].from.shape < count
              /\ HolesOf(i)' = HolesOf(i)
  <2>1. detail'[i] = detail[i] /\ detail[i].from.shape < count
    BY <1>2, <1>4 DEF IsDelivered
  <2> QED
    BY <1>3, <2>1 DEF HolesOf, MeshAt
<1>12. ASSUME NEW k \in DOMAIN faces
       PROVE  /\ detail'[start + k].from = OfMesh(count, faces[k].mesh)
              /\ detail'[start + k].from.shape = count
              /\ detail'[start + k].face = faces[k].face
              /\ HolesOf(start + k)' = HolesAt(ms, faces[k])
  <2>1. PICK j, f, prim : j = faces[k].mesh /\ f = faces[k].face /\ prim = detail'[start + k]
    OBVIOUS
  <2>2. IsPrim(prim, count, j, f) /\ j \in 1 .. Len(meshes)
    BY <1>2, <1>7, <1>8, <2>1 DEF IsDelivered
  <2>3. /\ prim.from = [shape |-> count, leaf |-> meshes[j].leaf, mesh |-> meshes[j].mesh]
        /\ prim.face = f
    BY <1>6, <2>2 DEF IsPrim, OfMesh
  <2>4. /\ prim.from.shape = count /\ prim.from.leaf = meshes[j].leaf
        /\ prim.from.mesh = meshes[j].mesh
    BY <2>3
  <2>5. HolesOf(start + k)' =
          leaves[count][meshes[j].leaf].meshes[meshes[j].mesh].geometry.faces[f].holes
    BY <1>3, <2>1, <2>3, <2>4 DEF HolesOf, MeshAt
  <2>6. HolesAt(ms, faces[k]) = ms[j].faces[f].holes
    BY <2>1 DEF HolesAt, FaceAt
  <2>7. prim.from = OfMesh(count, j)
    BY <2>2 DEF IsPrim
  <2> QED
    BY <1>7, <2>1, <2>2, <2>3, <2>4, <2>5, <2>6, <2>7
<1>13. ASSUME NEW i \in 1 .. start PROVE Group(i)' = Group(i)
  <2>1. ASSUME NEW k \in DOMAIN faces PROVE detail'[start + k].from # detail'[i].from
    <3>1. detail'[i].from.shape < count
      BY <1>11
    <3>2. detail'[start + k].from.shape = count
      BY <1>12
    <3> QED
      BY <1>5, <3>1, <3>2
  <2>2. PICK holes : holes = HolesOf(i)
    OBVIOUS
  <2>3. Group(i)' = {i} \cup {h \in DOMAIN detail' :
                                /\ detail'[h].from = detail'[i].from
                                /\ \E x \in DOMAIN holes : detail'[h].face = holes[x] + 1}
    BY <1>11, <2>2 DEF Group
  <2>4. Group(i) = {i} \cup {h \in DOMAIN detail :
                               /\ detail[h].from = detail[i].from
                               /\ \E x \in DOMAIN holes : detail[h].face = holes[x] + 1}
    BY <2>2 DEF Group
  <2>5. \A h \in DOMAIN detail : detail'[h] = detail[h]
    BY <1>4, <1>11
  <2> QED
    BY <1>4, <1>10, <2>1, <2>3, <2>4, <2>5
<1>14. ASSUME NEW k \in DOMAIN faces PROVE Group(start + k)' = OwnGroup(ms, faces, start, k)
  <2>1. PICK holes : holes = HolesAt(ms, faces[k])
    OBVIOUS
  <2>2. Group(start + k)' =
          {start + k} \cup {h \in DOMAIN detail' :
                              /\ detail'[h].from = detail'[start + k].from
                              /\ \E x \in DOMAIN holes : detail'[h].face = holes[x] + 1}
    BY <1>12, <2>1 DEF Group
  <2>3. \A h \in DOMAIN detail : detail'[h].from # detail'[start + k].from
    <3> TAKE h \in DOMAIN detail
    <3>1. detail'[h].from.shape < count
      BY <1>4, <1>11
    <3>2. detail'[start + k].from.shape = count
      BY <1>12
    <3> QED
      BY <1>5, <3>1, <3>2
  <2>4. ASSUME NEW l \in DOMAIN faces
        PROVE  /\ detail'[start + l].from = detail'[start + k].from
                    <=> faces[l].mesh = faces[k].mesh
               /\ detail'[start + l].face = faces[l].face
    <3>1. PICK j, m : j = faces[l].mesh /\ m = faces[k].mesh
      OBVIOUS
    <3>2. j \in 1 .. Len(MeshesOf(leaves[count])) /\ m \in 1 .. Len(MeshesOf(leaves[count]))
      BY <1>6, <1>7, <1>8, <3>1
    <3>3. OfMesh(count, j) = OfMesh(count, m) => j = m
      BY <1>3, <1>5, <3>2, OfOneMesh
    <3> QED
      BY <1>12, <3>1, <3>3
  <2>5. OwnGroup(ms, faces, start, k) =
          {start + k} \cup {start + l : l \in {l \in DOMAIN faces :
            faces[l].mesh = faces[k].mesh /\ \E x \in DOMAIN holes : faces[l].face = holes[x] + 1}}
    BY <2>1 DEF OwnGroup, OwnHoles
  <2> QED
    BY <1>10, <2>2, <2>3, <2>4, <2>5
<1> QED
  BY <1>9, <1>10, <1>11, <1>12, <1>13, <1>14 DEF Adds

LEMMA HoleDeliver ==
    ASSUME PhaseInv, PrimInv, HoleInv, Deliver
    PROVE  HoleInv'
<1>1. PICK ms, start : ms = Geometries /\ start = Len(detail)
  OBVIOUS
<1>2. PICK faces, groups : faces = Faces(ms) /\ groups = HoleGroups(SerializeGeometry(ms), start)
  OBVIOUS
<1>3. /\ \A i \in 1 .. start : HolesOf(i)' = HolesOf(i) /\ Group(i)' = Group(i)
      /\ \A k \in DOMAIN faces : /\ HolesOf(start + k)' = HolesAt(ms, faces[k])
                                /\ Group(start + k)' = OwnGroup(ms, faces, start, k)
      /\ DOMAIN detail' = DOMAIN detail \cup {start + k : k \in DOMAIN faces}
      /\ DOMAIN faces \in SUBSET (Nat \ {0})
  <2>1. Adds(ms, faces, start)
    BY <1>1, <1>2, HolesAdded
  <2> QED
    BY <2>1 DEF Adds
<1>4. start \in Nat /\ DOMAIN detail = 1 .. start
  BY <1>1, PrimFacts
<1>5. PICK parents : parents = ParentsIn(ms, faces)
  OBVIOUS
<1>6. OwnGroups(ms, faces, start, groups)
  <2>1. leaves \in Seq(Shapes) /\ leaves # <<>>
    BY DEF Deliver, PhaseInv
  <2>2. SoundMeshes(ms)
    BY <1>1, <2>1, LastShape, GeometriesSound DEF Geometries
  <2> QED
    BY <1>2, <1>4, <2>2, HolesUnpacked
<1>7. /\ groups \in Seq(SUBSET Nat)
      /\ IsFiniteSet(parents) /\ Len(groups) = Cardinality(parents)
      /\ {groups[g] : g \in DOMAIN groups} = {OwnGroup(ms, faces, start, k) : k \in parents}
  BY <1>5, <1>6 DEF OwnGroups
<1>8. holeGroups' = holeGroups \o groups
  BY <1>1, <1>2 DEF Deliver
<1>9. /\ holeGroups \in Seq(SUBSET Nat) /\ Len(holeGroups) = Cardinality(Parents)
      /\ {holeGroups[g] : g \in DOMAIN holeGroups} = {Group(i) : i \in Parents}
  BY DEF HoleInv
<1>10. /\ parents \in SUBSET (Nat \ {0}) /\ parents \subseteq DOMAIN faces
       /\ Parents \in SUBSET (1 .. start)
  BY <1>3, <1>4, <1>5 DEF ParentsIn, Parents
<1>11. Parents' = Parents \cup {start + k : k \in parents}
  <2>1. \A i \in 1 .. start : HolesOf(i)' = HolesOf(i)
    BY <1>3
  <2>2. \A k \in DOMAIN faces : HolesOf(start + k)' # <<>> <=> k \in parents
    BY <1>3, <1>5 DEF ParentsIn
  <2>3. \A i \in DOMAIN detail' : i \in 1 .. start \/ \E k \in DOMAIN faces : i = start + k
    BY <1>3, <1>4
  <2>4. \A k \in DOMAIN faces : start + k \in DOMAIN detail'
    BY <1>3
  <2>5. 1 .. start \subseteq DOMAIN detail'
    BY <1>3, <1>4
  <2>6. Parents' = {i \in DOMAIN detail' : HolesOf(i)' # <<>>}
    BY DEF Parents
  <2>7. Parents = {i \in 1 .. start : HolesOf(i) # <<>>}
    BY <1>4 DEF Parents
  <2> QED
    BY <1>10, <2>1, <2>2, <2>3, <2>4, <2>5, <2>6, <2>7
<1>12. Len(holeGroups') = Cardinality(Parents')
  <2>1. Len(holeGroups \o groups) = Len(holeGroups) + Len(groups)
    BY <1>7, <1>9, Joined
  <2>2. Cardinality(Parents \cup {start + k : k \in parents}) =
          Cardinality(Parents) + Cardinality(parents)
    BY <1>4, <1>7, <1>10, MovedCounted
  <2> QED
    BY <1>7, <1>8, <1>9, <1>11, <2>1, <2>2
<1>13. {holeGroups'[g] : g \in DOMAIN holeGroups'} = {Group(i)' : i \in Parents'}
  <2>1. {holeGroups'[g] : g \in DOMAIN holeGroups'} =
          {holeGroups[g] : g \in DOMAIN holeGroups} \cup {groups[g] : g \in DOMAIN groups}
    <3>1. holeGroups \in Seq(SUBSET Nat) /\ groups \in Seq(SUBSET Nat)
      BY <1>7, <1>9
    <3>2. ElementsOf(holeGroups \o groups) = ElementsOf(holeGroups) \cup ElementsOf(groups)
      BY <3>1, JoinedElements
    <3> QED
      BY <1>8, <3>2 DEF ElementsOf
  <2>2. \A i \in Parents : Group(i)' = Group(i)
    BY <1>3, <1>10
  <2>3. \A k \in parents : Group(start + k)' = OwnGroup(ms, faces, start, k)
    BY <1>3, <1>10
  <2>4. {Group(i)' : i \in Parents'} =
          {Group(i) : i \in Parents} \cup {OwnGroup(ms, faces, start, k) : k \in parents}
    BY <1>11, <2>2, <2>3
  <2> QED
    BY <1>7, <1>9, <2>1, <2>4
<1>14. holeGroups' \in Seq(SUBSET Nat)
  BY <1>7, <1>8, <1>9, Joined
<1> QED
  BY <1>12, <1>13, <1>14 DEF HoleInv

LEMMA HoleNext ==
    ASSUME PhaseInv, PrimInv, HoleInv, [Next]_vars
    PROVE  HoleInv'
<1>1. \A i \in DOMAIN detail : detail[i].from.shape \in 1 .. count
  <2> TAKE i \in DOMAIN detail
  <2>1. PICK s \in 1 .. count : \E j : detail[i].from = OfMesh(s, j)
    BY DEF PrimInv, IsPrim
  <2> QED
    BY <2>1 DEF OfMesh
<1>2. CASE NextInitialShape
  <2>1. PICK n \in 1 .. MaxLeaves :
          \E shape \in [1 .. n -> Leaves] : leaves' = Append(leaves, shape)
    BY <1>2 DEF NextInitialShape
  <2>2. PICK shape \in [1 .. n -> Leaves] : leaves' = Append(leaves, shape)
    BY <2>1
  <2>3. shape \in Shapes /\ leaves \in Seq(Shapes)
    BY DEF Shapes, PhaseInv
  <2>4. \A s \in 1 .. count : leaves'[s] = leaves[s]
    BY <2>2, <2>3, AppendProperties DEF count
  <2>5. detail' = detail /\ holeGroups' = holeGroups
    BY <1>2 DEF NextInitialShape, inDetail
  <2> QED
    BY <1>1, <2>4, <2>5, HolesStay
<1>3. CASE Forward \/ Return \/ UNCHANGED vars
  <2>1. leaves' = leaves /\ detail' = detail /\ holeGroups' = holeGroups
    BY <1>3 DEF Forward, Return, vars, inDetail
  <2> QED
    BY <2>1, HolesStay
<1>4. CASE LoopStep
  BY <1>4, HolesStay DEF LoopStep, Rewritten
<1> QED
  BY <1>2, <1>3, <1>4, HoleDeliver, Steps DEF StepCases

-----------------------------------------------------------------------------
(* Builders.                                                               *)

(* Leaves with one id are one leaf.                                        *)
LEMMA LeafIds ==
    ASSUME leaves \in Seq(Shapes), Len(leaves) <= MaxInitialShapes,
           NEW s \in 1 .. count, NEW t \in 1 .. count,
           NEW k \in DOMAIN leaves[s], NEW l \in DOMAIN leaves[t],
           ShapeIdOf(s, k) = ShapeIdOf(t, l)
    PROVE  s = t /\ k = l
<1>1. {MaxInitialShapes, MaxLeaves} \subseteq Nat /\ count \in Nat /\ count <= MaxInitialShapes
  BY EncodeShapesAssumption, LenProperties DEF count
<1>2. k \in 1 .. MaxLeaves /\ l \in 1 .. MaxLeaves
  <2>1. /\ DOMAIN leaves[s] = 1 .. Len(leaves[s]) /\ Len(leaves[s]) \in 1 .. MaxLeaves
        /\ DOMAIN leaves[t] = 1 .. Len(leaves[t]) /\ Len(leaves[t]) \in 1 .. MaxLeaves
    BY ShapeAt, ShapeFacts
  <2> QED
    BY <1>1, <2>1
<1>3. s \in 1 .. MaxInitialShapes /\ t \in 1 .. MaxInitialShapes
  BY <1>1
<1> QED
  BY <1>2, <1>3, ShapeIdsApart

(* The parts of BuilderInv.                                                *)
BuildersOwn ==
    \A id \in DOMAIN builders :
      /\ emit.attributes
      /\ \E s \in 1 .. count : \E l \in DOMAIN leaves[s] : Came(s, l) /\ IsBuilderOf(id, s, l)

BuildersThere ==
    \A s \in 1 .. count : \A l \in DOMAIN leaves[s] :
      emit.attributes /\ Came(s, l) /\ DOMAIN LeafMap(s, l) # {} =>
        ShapeIdOf(s, l) \in DOMAIN builders

(* When no leaf is being forwarded.                                        *)
LEMMA BuildersStay ==
    ASSUME BuilderInv, builders' = builders, emit' = emit, count \in Nat, count' \in Nat,
           \A s \in 1 .. count : s \in 1 .. count' /\ leaves'[s] = leaves[s],
           \A s \in 1 .. count : \A l \in DOMAIN leaves[s] : Came(s, l) /\ Came(s, l)',
           \A s \in 1 .. count' : s \notin 1 .. count => \A l \in DOMAIN leaves'[s] : ~Came(s, l)'
    PROVE  BuilderInv'
<1>1. ASSUME NEW s \in 1 .. count, NEW l
      PROVE  /\ LeafMap(s, l)' = LeafMap(s, l)
             /\ \A id : IsBuilderOf(id, s, l)' <=> IsBuilderOf(id, s, l)
  <2>1. leaves'[s] = leaves[s]
    OBVIOUS
  <2> QED
    BY <2>1 DEF LeafMap, IsBuilderOf
<1>2. BuildersOwn /\ BuildersThere
  BY DEF BuilderInv, BuildersOwn, BuildersThere
<1>3. ASSUME NEW id \in DOMAIN builders'
      PROVE  emit'.attributes /\ (\E s \in 1 .. count : \E l \in DOMAIN leaves[s] :
                                     Came(s, l) /\ IsBuilderOf(id, s, l))'
  <2>1. emit.attributes /\ \E s \in 1 .. count : \E l \in DOMAIN leaves[s] : IsBuilderOf(id, s, l)
    BY <1>2 DEF BuildersOwn
  <2>2. PICK s \in 1 .. count : \E l \in DOMAIN leaves[s] : IsBuilderOf(id, s, l)
    BY <2>1
  <2>3. PICK l \in DOMAIN leaves[s] : IsBuilderOf(id, s, l)
    BY <2>2
  <2>4. s \in 1 .. count' /\ l \in DOMAIN leaves'[s] /\ Came(s, l)' /\ IsBuilderOf(id, s, l)'
    BY <1>1, <2>3
  <2> QED
    BY <2>1, <2>4
<1>4. ASSUME NEW s \in 1 .. count', NEW l \in DOMAIN leaves'[s],
             emit'.attributes, Came(s, l)', DOMAIN LeafMap(s, l)' # {}
      PROVE  ShapeIdOf(s, l) \in DOMAIN builders'
  <2>1. s \in 1 .. count
    BY <1>4
  <2>2. l \in DOMAIN leaves[s] /\ Came(s, l) /\ LeafMap(s, l)' = LeafMap(s, l)
    BY <1>1, <2>1
  <2> QED
    BY <1>2, <1>4, <2>1, <2>2 DEF BuildersThere
<1>5. BuildersOwn' /\ BuildersThere'
  BY <1>3, <1>4 DEF BuildersOwn, BuildersThere
<1> QED
  BY <1>5 DEF BuilderInv, BuildersOwn, BuildersThere

LEMMA BuildersForward ==
    ASSUME PhaseInv, BuilderInv, Forward
    PROVE  BuilderInv'
<1>1. /\ leaves \in Seq(Shapes) /\ leaves # <<>> /\ pc = "forward" /\ pc' = pc
      /\ at \in 1 .. Len(leaves[count]) + 1 /\ at <= Len(leaves[count])
      /\ leaves' = leaves /\ count' = count /\ emit' = emit /\ at' = at + 1
      /\ Len(leaves) <= MaxInitialShapes
  BY SameLeaves DEF PhaseInv, Forward, settings
<1>2. PICK last : last = count
  OBVIOUS
<1>3. /\ last \in Nat /\ last \in 1 .. last /\ leaves[last] \in Shapes
      /\ DOMAIN leaves[last] = 1 .. Len(leaves[last]) /\ Len(leaves[last]) \in Nat
  BY <1>1, <1>2, LastShape, ShapeFacts
<1>4. at \in DOMAIN leaves[last]
  BY <1>1, <1>2, <1>3
<1>5. PICK id, map : id = ShapeIdOf(last, at) /\ map = LeafMap(last, at)
  OBVIOUS
<1>6. /\ \A s, l : LeafMap(s, l)' = LeafMap(s, l)
      /\ \A s \in 1 .. last : \A l \in DOMAIN leaves[s] :
           Came(s, l)' <=> Came(s, l) \/ (s = last /\ l = at)
      /\ ~Came(last, at)
  <2>1. \A s, l : LeafMap(s, l)' = LeafMap(s, l)
    BY <1>1 DEF LeafMap
  <2>2. ASSUME NEW s \in 1 .. last, NEW l \in DOMAIN leaves[s]
        PROVE  Came(s, l)' <=> Came(s, l) \/ (s = last /\ l = at)
    <3>1. l \in Nat
      BY <1>1, <1>2, ShapeAt, ShapeFacts
    <3> QED
      BY <1>1, <1>2, <1>3, <3>1 DEF Came
  <2>3. ~Came(last, at)
    BY <1>1, <1>2, <1>3 DEF Came
  <2> QED
    BY <2>1, <2>2, <2>3
<1>7. BuildersOwn /\ BuildersThere
  BY DEF BuilderInv, BuildersOwn, BuildersThere
<1>8. id \notin DOMAIN builders
  <2> SUFFICES ASSUME id \in DOMAIN builders PROVE FALSE
    OBVIOUS
  <2>1. PICK s \in 1 .. last : \E l \in DOMAIN leaves[s] : Came(s, l) /\ IsBuilderOf(id, s, l)
    BY <1>2, <1>7 DEF BuildersOwn
  <2>2. PICK l \in DOMAIN leaves[s] : Came(s, l) /\ IsBuilderOf(id, s, l)
    BY <2>1
  <2>3. ShapeIdOf(s, l) = ShapeIdOf(last, at)
    BY <1>5, <2>2 DEF IsBuilderOf
  <2>4. s = last /\ l = at
    BY <1>1, <1>2, <1>3, <1>4, <2>3, LeafIds
  <2> QED
    BY <1>6, <2>2, <2>4
<1>9. builders' = IF emit.attributes /\ map # EmptyMap
                  THEN [x \in DOMAIN builders \cup {id} |-> IF x = id THEN map ELSE builders[x]]
                  ELSE builders
  <2>1. ShapeId(at) = id
    BY <1>2, <1>5 DEF ShapeId
  <2>2. AttributeMap(leaves[count][at], From(at, 0)) = map
    BY <1>2, <1>5 DEF LeafMap, From
  <2>3. Over(map, EmptyMap) = map
    BY <1>5 DEF Over, EmptyMap, LeafMap, AttributeMap
  <2> QED
    BY <1>8, <2>1, <2>2, <2>3 DEF Forward
<1>10. BuildersOwn'
  <2> SUFFICES ASSUME NEW x \in DOMAIN builders'
               PROVE  emit'.attributes /\ (\E s \in 1 .. count : \E l \in DOMAIN leaves[s] :
                                              Came(s, l) /\ IsBuilderOf(x, s, l))'
    BY DEF BuildersOwn
  <2>1. CASE x \in DOMAIN builders
    <3>1. emit.attributes /\ builders'[x] = builders[x]
      BY <1>7, <1>8, <1>9, <2>1 DEF BuildersOwn
    <3>2. PICK s \in 1 .. last : \E l \in DOMAIN leaves[s] : Came(s, l) /\ IsBuilderOf(x, s, l)
      BY <1>2, <1>7, <2>1 DEF BuildersOwn
    <3>3. PICK l \in DOMAIN leaves[s] : Came(s, l) /\ IsBuilderOf(x, s, l)
      BY <3>2
    <3>4. Came(s, l)' /\ IsBuilderOf(x, s, l)'
      BY <1>6, <3>1, <3>3 DEF IsBuilderOf
    <3> QED
      BY <1>1, <1>2, <3>1, <3>4
  <2>2. CASE x \notin DOMAIN builders
    <3>1. emit.attributes /\ x = id /\ builders'[x] = map
      BY <1>9, <2>2
    <3>2. PICK l : l = at
      OBVIOUS
    <3>3. l \in DOMAIN leaves[last] /\ Came(last, l)' /\ IsBuilderOf(x, last, l)'
      BY <1>3, <1>4, <1>5, <1>6, <3>1, <3>2 DEF IsBuilderOf
    <3> QED
      BY <1>1, <1>2, <1>3, <3>1, <3>3
  <2> QED
    BY <2>1, <2>2
<1>11. BuildersThere'
  <2> SUFFICES ASSUME NEW s \in 1 .. last, NEW l \in DOMAIN leaves[s],
                      emit.attributes, Came(s, l)', DOMAIN LeafMap(s, l) # {}
               PROVE  ShapeIdOf(s, l) \in DOMAIN builders'
    BY <1>1, <1>2, <1>6 DEF BuildersThere
  <2>1. CASE Came(s, l)
    <3>1. ShapeIdOf(s, l) \in DOMAIN builders
      BY <1>2, <1>7, <2>1 DEF BuildersThere
    <3> QED
      BY <1>9, <3>1
  <2>2. CASE s = last /\ l = at
    <3>1. map # EmptyMap
      BY <1>5, <2>2 DEF EmptyMap
    <3> QED
      BY <1>5, <1>9, <2>2, <3>1
  <2> QED
    BY <1>6, <2>1, <2>2
<1> QED
  BY <1>10, <1>11 DEF BuilderInv, BuildersOwn, BuildersThere

LEMMA BuilderNext ==
    ASSUME PhaseInv, PrimInv, BuilderInv, [Next]_vars
    PROVE  BuilderInv'
<1>1. leaves \in Seq(Shapes) /\ count \in Nat
  BY LenProperties DEF PhaseInv, count
<1>2. CASE NextInitialShape
  <2>1. PICK n \in 1 .. MaxLeaves :
          \E shape \in [1 .. n -> Leaves] : leaves' = Append(leaves, shape)
    BY <1>2 DEF NextInitialShape
  <2>2. PICK shape \in [1 .. n -> Leaves] : leaves' = Append(leaves, shape)
    BY <2>1
  <2>3. shape \in Shapes
    BY DEF Shapes
  <2>4. /\ count' = count + 1 /\ leaves'[count'] = shape
        /\ \A s \in 1 .. count : leaves'[s] = leaves[s]
    BY <1>1, <2>2, <2>3, AppendProperties DEF count
  <2>5. builders' = builders /\ emit' = emit /\ pc = "idle" /\ pc' = "forward" /\ at' = 1
    BY <1>2 DEF NextInitialShape, settings
  <2>6. \A s \in 1 .. count : \A l \in DOMAIN leaves[s] : Came(s, l) /\ Came(s, l)'
    BY <1>1, <2>4, <2>5 DEF Came
  <2>7. \A s \in 1 .. count' : s \notin 1 .. count => \A l \in DOMAIN leaves'[s] : ~Came(s, l)'
    <3>1. DOMAIN shape = 1 .. Len(shape) /\ Len(shape) \in Nat
      BY <2>3, ShapeFacts
    <3>2. PICK last : last = count'
      OBVIOUS
    <3>3. \A s \in 1 .. last : s \notin 1 .. count => s = last
      BY <1>1, <2>4, <3>2
    <3>4. \A l \in 1 .. Len(shape) : ~(l < 1)
      BY <3>1
    <3>5. \A l \in DOMAIN leaves'[last] : ~Came(last, l)'
      BY <1>1, <2>4, <2>5, <3>1, <3>2, <3>4 DEF Came
    <3> QED
      BY <3>2, <3>3, <3>5
  <2>8. count' \in Nat /\ \A s \in 1 .. count : s \in 1 .. count' /\ leaves'[s] = leaves[s]
    BY <1>1, <2>4
  <2> QED
    BY <1>1, <2>5, <2>6, <2>7, <2>8, BuildersStay
<1>3. CASE Deliver \/ LoopStep \/ Return
  <2>1. /\ leaves' = leaves /\ builders' = builders /\ emit' = emit /\ count' = count
        /\ pc' # "forward"
    BY <1>3, SameLeaves DEF Deliver, LoopStep, Return, settings
  <2>2. \A s \in 1 .. count : \A l \in DOMAIN leaves[s] : Came(s, l)
    <3>1. CASE pc # "forward"
      BY <3>1 DEF Came
    <3>2. CASE pc = "forward"
      <4>1. /\ leaves # <<>> /\ at \in 1 .. Len(leaves[count]) + 1 /\ at > Len(leaves[count])
        BY <1>3, <3>2 DEF Deliver, LoopStep, Converting, Return, PhaseInv
      <4>2. leaves[count] \in Shapes
        BY <1>1, <4>1, LastShape
      <4>3. DOMAIN leaves[count] = 1 .. Len(leaves[count]) /\ Len(leaves[count]) \in Nat
        BY <4>2, ShapeFacts
      <4>4. \A l \in DOMAIN leaves[count] : l < at
        BY <4>1, <4>3
      <4>5. \A s \in 1 .. count : s < count \/ s = count
        BY <1>1
      <4> QED
        BY <4>4, <4>5 DEF Came
    <3> QED
      BY <3>1, <3>2
  <2>3. \A s \in 1 .. count : \A l \in DOMAIN leaves[s] : Came(s, l) /\ Came(s, l)'
    BY <2>1, <2>2 DEF Came
  <2> QED
    BY <1>1, <2>1, <2>3, BuildersStay
<1>4. CASE UNCHANGED vars
  <2>1. /\ leaves' = leaves /\ builders' = builders /\ emit' = emit /\ count' = count
        /\ pc' = pc /\ at' = at
    BY <1>4, SameLeaves DEF vars, settings
  <2>2. \A s, l : LeafMap(s, l)' = LeafMap(s, l) /\ (Came(s, l)' <=> Came(s, l))
    BY <2>1 DEF LeafMap, Came
  <2>3. \A id, s, l : IsBuilderOf(id, s, l)' <=> IsBuilderOf(id, s, l)
    BY <2>1, <2>2 DEF IsBuilderOf
  <2> QED
    BY <2>1, <2>2, <2>3 DEF BuilderInv
<1> QED
  BY <1>2, <1>3, <1>4, BuildersForward, Steps DEF StepCases

-----------------------------------------------------------------------------
(* Attribute maps.                                                         *)

FormOf(kind, key, form) == <<kind, key, form.base, form.array, Len(form.filled)>>

SoundForm(form) ==
    /\ Len(form.filled) \in Nat /\ DOMAIN form.filled = 1 .. Len(form.filled)
    /\ \A c \in DOMAIN form.filled : form.filled[c] \in BOOLEAN
    /\ form.array \in BOOLEAN
    /\ ~form.array => Len(form.filled) = 1

IsValue(value, form, kind, key, from) ==
    /\ SoundForm(form)
    /\ value.base = BaseOf(FormOf(kind, key, form)) /\ value.array = form.array
    /\ value.val = [c \in 1 .. Len(form.filled) |->
                      IF form.filled[c] THEN [kind |-> kind, key |-> key, from |-> from, i |-> c]
                      ELSE Empty]

(* A map of what is given to a leaf, as material, report or attributes.    *)
IsMap(map, kind, from) ==
    /\ Emits(kind)
    /\ \A key \in DOMAIN map : \E form : /\ FormOf(kind, key, form) \in Given(PrimAttr(key))
                                        /\ IsValue(map[key], form, kind, key, from)

LEMMA FormSound ==
    ASSUME NEW map, SoundForms(map), NEW key \in DOMAIN map
    PROVE  SoundForm(map[key])
<1>1. PICK form : form = map[key]
  OBVIOUS
<1>2. /\ form.filled \in Seq(BOOLEAN) /\ form.array \in BOOLEAN
      /\ ~form.array => Len(form.filled) = 1
  BY <1>1 DEF SoundForms
<1>3. Len(form.filled) \in Nat /\ DOMAIN form.filled = 1 .. Len(form.filled)
  BY <1>2, LenProperties
<1>4. \A c \in DOMAIN form.filled : form.filled[c] \in BOOLEAN
  BY <1>2, <1>3, ElementOfSeq
<1> QED
  BY <1>1, <1>2, <1>3, <1>4 DEF SoundForm

LEMMA FormsGiven ==
    ASSUME NEW leaf \in Leaves
    PROVE  /\ \A key \in DOMAIN leaf.attributes :
                FormOf("attribute", key, leaf.attributes[key]) \in Given(PrimAttr(key))
           /\ \A key \in DOMAIN leaf.report :
                FormOf("report", key, leaf.report[key]) \in Given(PrimAttr(key))
           /\ \A m \in DOMAIN leaf.meshes : \A key \in DOMAIN leaf.meshes[m].material :
                FormOf("material", key, leaf.meshes[m].material[key]) \in Given(PrimAttr(key))
<1> DEFINE All(l, name) ==
             Forms("attribute", l.attributes, name) \cup Forms("report", l.report, name)
               \cup UNION {Forms("material", l.meshes[m].material, name) : m \in DOMAIN l.meshes}
<1>1. \A name : All(leaf, name) \subseteq Given(name)
  BY DEF Given
<1>2. \A kind, map : \A key \in DOMAIN map :
        FormOf(kind, key, map[key]) \in Forms(kind, map, PrimAttr(key))
  BY DEF FormOf, Forms
<1>3. \A name : /\ Forms("attribute", leaf.attributes, name) \subseteq All(leaf, name)
                /\ Forms("report", leaf.report, name) \subseteq All(leaf, name)
                /\ \A m \in DOMAIN leaf.meshes :
                     Forms("material", leaf.meshes[m].material, name) \subseteq All(leaf, name)
  OBVIOUS
<1> HIDE DEF All
<1> QED
  BY <1>1, <1>2, <1>3

LEMMA LeafForms ==
    ASSUME NEW leaf \in Leaves
    PROVE  /\ SoundForms(leaf.attributes) /\ SoundForms(leaf.report)
           /\ \A m \in DOMAIN leaf.meshes : SoundForms(leaf.meshes[m].material)
BY EncodeShapesAssumption DEF SoundLeaf

LEMMA FormValue ==
    ASSUME NEW form, SoundForm(form), NEW kind, NEW key, NEW from
    PROVE  LET value == Value(form, kind, key, from) IN
           /\ value = [base |-> value.base, array |-> value.array, val |-> value.val]
           /\ value.base = form.base /\ value.array = form.array
           /\ value.val = [c \in 1 .. Len(form.filled) |->
                IF form.filled[c] THEN [kind |-> kind, key |-> key, from |-> from, i |-> c]
                ELSE Empty]
<1>1. DOMAIN form.filled = 1 .. Len(form.filled)
  BY DEF SoundForm
<1> QED
  BY <1>1 DEF Value

LEMMA MaterialValues ==
    ASSUME NEW material, SoundForms(material), NEW from, NEW key \in DOMAIN material \ Blacklist
    PROVE  IsValue(MaterialMap(material, from)[key], material[key], "material", key, from)
<1>1. PICK form, value : form = material[key] /\ value = Value(form, "material", key, from)
  OBVIOUS
<1>2. SoundForm(form)
  BY <1>1, FormSound
<1>3. /\ value = [base |-> value.base, array |-> value.array, val |-> value.val]
      /\ value.base = form.base /\ value.array = form.array
      /\ value.val = [c \in 1 .. Len(form.filled) |->
           IF form.filled[c] THEN [kind |-> "material", key |-> key, from |-> from, i |-> c]
           ELSE Empty]
  BY <1>1, <1>2, FormValue
<1>4. PICK new : new = MaterialMap(material, from)[key]
  OBVIOUS
<1>5. new = IF value.base = "texture" THEN [value EXCEPT !.base = "string"] ELSE value
  BY <1>1, <1>4 DEF MaterialMap
<1>6. new.array = value.array /\ new.val = value.val
      /\ new.base = IF value.base = "texture" THEN "string" ELSE value.base
  BY <1>3, <1>5
<1>7. new.base = BaseOf(FormOf("material", key, form))
  BY <1>3, <1>6 DEF BaseOf, FormOf
<1> QED
  BY <1>1, <1>2, <1>3, <1>4, <1>6, <1>7 DEF IsValue

LEMMA ReportValues ==
    ASSUME NEW report, SoundForms(report), NEW from, NEW key \in DOMAIN ReportMap(report, from)
    PROVE  /\ key \in DOMAIN report
           /\ IsValue(ReportMap(report, from)[key], report[key], "report", key, from)
<1>1. /\ key \in DOMAIN report
      /\ ReportMap(report, from)[key] = Value(report[key], "report", key, from)
  BY DEF ReportMap
<1>2. SoundForm(report[key])
  BY <1>1, FormSound
<1>3. BaseOf(FormOf("report", key, report[key])) = report[key].base
  BY DEF BaseOf, FormOf
<1> QED
  BY <1>1, <1>2, <1>3, FormValue DEF IsValue

LEMMA AttributeValues ==
    ASSUME NEW leaf, SoundForms(leaf.attributes), NEW from,
           NEW key \in DOMAIN AttributeMap(leaf, from)
    PROVE  /\ key \in DOMAIN leaf.attributes
           /\ IsValue(AttributeMap(leaf, from)[key], leaf.attributes[key], "attribute", key, from)
<1>1. /\ key \in DOMAIN leaf.attributes
      /\ AttributeMap(leaf, from)[key] = Value(leaf.attributes[key], "attribute", key, from)
  BY DEF AttributeMap
<1>2. SoundForm(leaf.attributes[key])
  BY <1>1, FormSound
<1>3. BaseOf(FormOf("attribute", key, leaf.attributes[key])) = leaf.attributes[key].base
  BY DEF BaseOf, FormOf
<1> QED
  BY <1>1, <1>2, <1>3, FormValue DEF IsValue

LEMMA MapsOfLeaf ==
    ASSUME NEW leaf \in Leaves, NEW from
    PROVE  /\ \A m \in DOMAIN leaf.meshes :
                emit.materials =>
                  IsMap(MaterialMap(leaf.meshes[m].material, from), "material", from)
           /\ emit.reports => IsMap(ReportMap(leaf.report, from), "report", from)
           /\ emit.attributes => IsMap(AttributeMap(leaf, from), "attribute", from)
<1>1. ASSUME NEW m \in DOMAIN leaf.meshes, emit.materials
      PROVE  IsMap(MaterialMap(leaf.meshes[m].material, from), "material", from)
  <2>1. PICK material, map : material = leaf.meshes[m].material /\ map = MaterialMap(material, from)
    OBVIOUS
  <2>2. DOMAIN map = DOMAIN material \ Blacklist
    BY <2>1 DEF MaterialMap
  <2>3. SoundForms(material)
    BY <2>1, LeafForms
  <2>4. ASSUME NEW key \in DOMAIN map
        PROVE  /\ FormOf("material", key, material[key]) \in Given(PrimAttr(key))
               /\ IsValue(map[key], material[key], "material", key, from)
    BY <2>1, <2>2, <2>3, MaterialValues, FormsGiven
  <2> QED
    BY <1>1, <2>1, <2>4 DEF IsMap, Emits
<1>2. ASSUME emit.reports PROVE IsMap(ReportMap(leaf.report, from), "report", from)
  <2>1. PICK report, map : report = leaf.report /\ map = ReportMap(report, from)
    OBVIOUS
  <2>2. SoundForms(report)
    BY <2>1, LeafForms
  <2>3. ASSUME NEW key \in DOMAIN map
        PROVE  /\ FormOf("report", key, report[key]) \in Given(PrimAttr(key))
               /\ IsValue(map[key], report[key], "report", key, from)
    <3>1. key \in DOMAIN report /\ IsValue(map[key], report[key], "report", key, from)
      BY <2>1, <2>2, ReportValues
    <3> QED
      BY <2>1, <3>1, FormsGiven
  <2> QED
    BY <1>2, <2>1, <2>3 DEF IsMap, Emits
<1>3. ASSUME emit.attributes PROVE IsMap(AttributeMap(leaf, from), "attribute", from)
  <2>1. PICK map : map = AttributeMap(leaf, from)
    OBVIOUS
  <2>2. SoundForms(leaf.attributes)
    BY LeafForms
  <2>3. ASSUME NEW key \in DOMAIN map
        PROVE  /\ FormOf("attribute", key, leaf.attributes[key]) \in Given(PrimAttr(key))
               /\ IsValue(map[key], leaf.attributes[key], "attribute", key, from)
    <3>1. /\ key \in DOMAIN leaf.attributes
          /\ IsValue(map[key], leaf.attributes[key], "attribute", key, from)
      BY <2>1, <2>2, AttributeValues
    <3> QED
      BY <3>1, FormsGiven
  <2> QED
    BY <1>3, <2>1, <2>3 DEF IsMap, Emits
<1> QED
  BY <1>1, <1>2, <1>3
-----------------------------------------------------------------------------
(* The faces: their corners and holes.  Values do not matter to them.      *)

LEMMA FacesInit ==
    ASSUME Init
    PROVE  FacesInv
<1>1. /\ leaves = <<>> /\ detail = <<>> /\ holeGroups = <<>> /\ pc = "idle"
      /\ emit \in EmitOptions /\ replaces \in BOOLEAN
  BY DEF Init
<1>2. PhaseInv
  <2>1. MaxInitialShapes \in Nat /\ Len(<<>>) = 0
    BY EncodeShapesAssumption
  <2> QED
    BY <1>1, <2>1 DEF PhaseInv, Phases, Converting
<1>3. DOMAIN detail = {} /\ Len(holeGroups) = 0 /\ DOMAIN holeGroups = {}
  BY <1>1
<1>4. PrimInv
  <2>1. detail \in Seq({detail[i] : i \in DOMAIN detail})
    BY <1>1
  <2> QED
    BY <1>3, <2>1 DEF PrimInv
<1>5. BlockInv
  BY <1>1 DEF BlockInv, Converting
<1>6. Parents = {}
  BY <1>3 DEF Parents
<1>7. {holeGroups[g] : g \in DOMAIN holeGroups} = {} /\ {Group(i) : i \in {}} = {}
  BY <1>3
<1>8. holeGroups \in Seq(SUBSET Nat)
  BY <1>1
<1>9. HoleInv
  BY <1>3, <1>6, <1>7, <1>8, FS_EmptySet DEF HoleInv
<1> QED
  BY <1>2, <1>4, <1>5, <1>9 DEF FacesInv

LEMMA FacesNext ==
    ASSUME FacesInv, [Next]_vars
    PROVE  FacesInv'
BY PhaseNext, PrimNext, BlockNext, HoleNext DEF FacesInv

(* At every moment each primitive is a face of one mesh with its corners,  *)
(* the primitives of this call are the last ones of the detail, and there  *)
(* is one hole group per face with holes.                                  *)
THEOREM FacesInvHolds == Spec => []FacesInv
<1>1. Init => FacesInv
  BY FacesInit
<1>2. FacesInv /\ [Next]_vars => FacesInv'
  BY FacesNext
<1> QED
  BY <1>1, <1>2, PTL DEF Spec

LEMMA CornersAre ==
    ASSUME PhaseInv, PrimInv
    PROVE  CornersOwn
<1> SUFFICES ASSUME NEW i \in DOMAIN detail,
                    NEW j \in DOMAIN MeshesOf(leaves[detail[i].from.shape]),
                    MeshesOf(leaves[detail[i].from.shape])[j]
                      = [leaf |-> detail[i].from.leaf, mesh |-> detail[i].from.mesh]
             PROVE  detail[i].corners
                      = OwnCorners(GeometriesOf(leaves[detail[i].from.shape]), j, detail[i].face)
  BY DEF CornersOwn
<1>1. PICK s \in 1 .. count : \E k \in 1 .. Len(MeshesOf(leaves[s])) :
        \E f : IsPrim(detail[i], s, k, f)
  BY DEF PrimInv
<1>2. PICK k \in 1 .. Len(MeshesOf(leaves[s])) : \E f : IsPrim(detail[i], s, k, f)
  BY <1>1
<1>3. /\ detail[i].from = OfMesh(s, k)
      /\ detail[i].corners = OwnCorners(GeometriesOf(leaves[s]), k, detail[i].face)
  BY <1>2 DEF IsPrim
<1>4. PICK from, meshes : from = detail[i].from /\ meshes = MeshesOf(leaves[s])
  OBVIOUS
<1>5. from = [shape |-> s, leaf |-> meshes[k].leaf, mesh |-> meshes[k].mesh]
  BY <1>3, <1>4 DEF OfMesh
<1>6. from.shape = s /\ from = [shape |-> s, leaf |-> from.leaf, mesh |-> from.mesh]
  BY <1>5
<1>7. j \in DOMAIN meshes /\ meshes[j] = [leaf |-> from.leaf, mesh |-> from.mesh]
  BY <1>4, <1>6
<1>8. meshes[j].leaf = from.leaf /\ meshes[j].mesh = from.mesh
  BY <1>7
<1>9. OfMesh(s, j) = OfMesh(s, k)
  BY <1>3, <1>4, <1>6, <1>8 DEF OfMesh
<1>10. j \in 1 .. Len(MeshesOf(leaves[s]))
  <2>1. leaves[s] \in Shapes
    BY ShapeAt DEF PhaseInv
  <2> QED
    BY <1>4, <1>7, <2>1, MeshFound
<1>11. j = k
  BY <1>9, <1>10, OfOneMesh DEF PhaseInv
<1> QED
  BY <1>3, <1>4, <1>6, <1>11

(* Each face has the points, normals and texture coordinates of its own    *)
(* mesh at its corners in reverse order, however many meshes of whichever  *)
(* uv sets convertGeometry packs together and createPrimitives unpacks.    *)
THEOREM CornersOwnHolds == Spec => []CornersOwn
<1>1. FacesInv => CornersOwn
  BY CornersAre DEF FacesInv
<1> QED
  BY <1>1, FacesInvHolds, PTL

(* buildHoles gets one group for each face that has holes: that face with  *)
(* its own holes, wherever the block of a call begins in the detail.       *)
THEOREM HolesOwnHolds == Spec => []HolesOwn
<1>1. FacesInv => HolesOwn
  BY DEF FacesInv, HoleInv, HolesOwn
<1> QED
  BY <1>1, FacesInvHolds, PTL

-----------------------------------------------------------------------------
(* The handles and the attributes of the detail.                           *)

AreHandles(hs, atts) ==
    \A name \in DOMAIN hs :
      /\ DOMAIN hs[name] = HandleFields
      /\ PrimAttr(hs[name].key) = name
      /\ \E g \in Given(name) :
           /\ IsHandleOf(hs[name], g)
           /\ Plain(name) => name \in DOMAIN atts /\ hs[name].type = TypeOf(g)

AreAttributes(atts) ==
    \A name \in DOMAIN atts : \A g \in Given(name) : Plain(name) => atts[name] = AttributeOf(g)

(* An extracted handle is one of before, or new and of this map's kind.    *)
IsExtracted(e, g, name, hs, atts, kind) ==
    /\ DOMAIN e = HandleFields
    /\ PrimAttr(e.key) = name
    /\ g \in Given(name)
    /\ IsHandleOf(e, g)
    /\ \/ g[1] = kind
       \/ Plain(name) => name \in DOMAIN atts /\ e.type = TypeOf(g)

LEMMA HandleExtracted ==
    ASSUME NEW hs, NEW atts, AreHandles(hs, atts),
           NEW map, NEW kind, NEW from, IsMap(map, kind, from), NEW keyOf \in FirstKeys(map),
           NEW name \in DOMAIN Extracted(hs, map, keyOf)
    PROVE  \E g : IsExtracted(Extracted(hs, map, keyOf)[name], g, name, hs, atts, kind)
<1>1. PICK e : e = Extracted(hs, map, keyOf)[name]
  OBVIOUS
<1>2. DOMAIN Extracted(hs, map, keyOf) = DOMAIN keyOf \cup DOMAIN hs
  BY DEF Extracted, Over
<1>3. CASE name \in DOMAIN hs
  <2>1. e = hs[name]
    BY <1>1, <1>2, <1>3 DEF Extracted, Over
  <2> QED
    BY <1>1, <1>3, <2>1 DEF AreHandles, IsExtracted
<1>4. CASE name \notin DOMAIN hs
  <2>1. name \in DOMAIN keyOf
    BY <1>2, <1>4
  <2>2. PICK key, value : key = keyOf[name] /\ value = map[key]
    OBVIOUS
  <2>3. key \in DOMAIN map /\ PrimAttr(key) = name
    BY <2>1, <2>2 DEF FirstKeys
  <2>4. e = [key |-> key, base |-> value.base, array |-> value.array,
             cardinality |-> ArrayLength(value), type |-> "none"]
    BY <1>1, <1>2, <1>4, <2>1, <2>2 DEF Extracted, Over
  <2>5. PICK form : /\ FormOf(kind, key, form) \in Given(PrimAttr(key))
                    /\ IsValue(value, form, kind, key, from)
    BY <2>2, <2>3 DEF IsMap
  <2>6. PICK g : g = FormOf(kind, key, form)
    OBVIOUS
  <2>7. /\ g \in Given(name) /\ g[1] = kind /\ g[2] = key
        /\ g[4] = form.array /\ g[5] = Len(form.filled)
    BY <2>3, <2>5, <2>6 DEF FormOf
  <2>8. ArrayLength(value) = SizeOf(g)
    <3>1. value.array = form.array /\ Len(form.filled) \in Nat
          /\ value.val = [c \in 1 .. Len(form.filled) |->
                IF form.filled[c] THEN [kind |-> kind, key |-> key, from |-> from, i |-> c]
                ELSE Empty]
      BY <2>5 DEF IsValue, SoundForm
    <3>2. Len(value.val) = Len(form.filled)
      BY <3>1
    <3> QED
      BY <2>7, <3>1, <3>2 DEF ArrayLength, SizeOf
  <2>9. IsHandleOf(e, g)
    BY <2>4, <2>5, <2>6, <2>7, <2>8 DEF IsHandleOf, IsMap, IsValue
  <2>10. DOMAIN e = HandleFields /\ PrimAttr(e.key) = name
    BY <2>3, <2>4 DEF HandleFields
  <2> QED
    BY <1>1, <2>7, <2>9, <2>10 DEF IsExtracted
<1> QED
  BY <1>3, <1>4

(* Attributes of a plain name are made once, and as what the form says:    *)
(* the handle then has that type.                                          *)
LEMMA PlainAdded ==
    ASSUME emit \in EmitOptions, replaces \in BOOLEAN,
           NEW hs, NEW atts, AreAttributes(atts),
           NEW kind, Emits(kind), NEW e, NEW g, NEW name, Plain(name),
           IsExtracted(e, g, name, hs, atts, kind)
    PROVE  LET wanted == Wanted(e, kind = "attribute")
               added == Added(atts, name, wanted, replaces)
           IN  /\ added = AttributeOf(g)
               /\ IF added.base = wanted.base /\ added.type = wanted.type
                  THEN wanted.type = TypeOf(g) ELSE e.type = TypeOf(g)
<1>1. PICK wanted, added : /\ wanted = Wanted(e, kind = "attribute")
                           /\ added = Added(atts, name, wanted, replaces)
  OBVIOUS
<1>2. /\ g \in Given(name) /\ Emits(g[1])
      /\ e.base = BaseOf(g) /\ e.array = g[4] /\ e.cardinality = SizeOf(g)
  BY DEF IsExtracted, IsHandleOf
<1>3. name \in DOMAIN atts => atts[name] = AttributeOf(g)
  BY <1>2 DEF AreAttributes
<1>4. CASE ~g[4] \/ (g[1] = "attribute" <=> kind = "attribute")
  <2>1. wanted = AttributeOf(g)
    BY <1>1, <1>2, <1>4 DEF Wanted, AttributeOf, TypeOf
  <2>2. added = AttributeOf(g)
    BY <1>1, <1>3, <2>1 DEF Added
  <2>3. wanted.type = TypeOf(g)
    BY <2>1 DEF AttributeOf
  <2> QED
    BY <1>1, <2>1, <2>2, <2>3
<1>5. CASE g[4] /\ ~(g[1] = "attribute" <=> kind = "attribute")
  <2>1. name \in DOMAIN atts /\ e.type = TypeOf(g)
    BY <1>5 DEF IsExtracted
  <2>2. ~replaces
    <3>1. emit.attributes /\ (emit.materials \/ emit.reports)
      BY <1>2, <1>5 DEF Emits
    <3> QED
      BY <1>2, <1>5, <3>1 DEF Plain
  <2>3. added = AttributeOf(g)
    BY <1>1, <1>3, <2>1, <2>2 DEF Added
  <2>4. added.type = TypeOf(g)
    BY <2>3 DEF AttributeOf
  <2>5. wanted.type # TypeOf(g)
    BY <1>1, <1>2, <1>5 DEF Wanted, TypeOf
  <2> QED
    BY <1>1, <2>1, <2>3, <2>4, <2>5
<1> QED
  BY <1>4, <1>5

LEMMA HandlesCreated ==
    ASSUME emit \in EmitOptions, replaces \in BOOLEAN,
           NEW hs, NEW atts, AreHandles(hs, atts), AreAttributes(atts),
           NEW map, NEW kind, NEW from, IsMap(map, kind, from), NEW keyOf \in FirstKeys(map)
    PROVE  LET extracted == Extracted(hs, map, keyOf)
               created == CreatedAttributes(extracted, atts, kind = "attribute", replaces)
           IN  /\ AreHandles(Created(extracted, atts, kind = "attribute", replaces), created)
               /\ AreAttributes(created)
<1>1. PICK es, new, created :
        /\ es = Extracted(hs, map, keyOf)
        /\ new = Created(es, atts, kind = "attribute", replaces)
        /\ created = CreatedAttributes(es, atts, kind = "attribute", replaces)
  OBVIOUS
<1>2. DOMAIN new = DOMAIN es /\ DOMAIN created = DOMAIN es \cup DOMAIN atts
  BY <1>1 DEF Created, CreatedAttributes, Over
<1>3. Emits(kind)
  BY DEF IsMap
<1>4. \A name \in DOMAIN es : \E g : IsExtracted(es[name], g, name, hs, atts, kind)
  BY <1>1, HandleExtracted
<1>5. \A name \in DOMAIN atts : name \notin DOMAIN es => created[name] = atts[name]
  BY <1>1 DEF CreatedAttributes, Over
<1>6. ASSUME NEW name \in DOMAIN es, NEW g, IsExtracted(es[name], g, name, hs, atts, kind)
      PROVE  /\ DOMAIN new[name] = HandleFields
             /\ PrimAttr(new[name].key) = name
             /\ g \in Given(name)
             /\ IsHandleOf(new[name], g)
             /\ Plain(name) => created[name] = AttributeOf(g) /\ new[name].type = TypeOf(g)
  <2>1. PICK e, wanted, added : /\ e = es[name] /\ wanted = Wanted(e, kind = "attribute")
                                /\ added = Added(atts, name, wanted, replaces)
    OBVIOUS
  <2>2. new[name] = IF added.base = wanted.base /\ added.type = wanted.type
                    THEN [e EXCEPT !.type = wanted.type] ELSE e
    BY <1>1, <2>1 DEF Created
  <2>3. DOMAIN e = HandleFields /\ PrimAttr(e.key) = name /\ g \in Given(name) /\ IsHandleOf(e, g)
    BY <1>6, <2>1 DEF IsExtracted
  <2>4. DOMAIN e = {"key", "base", "array", "cardinality", "type"}
    BY <2>3 DEF HandleFields
  <2>5. PICK h : h = new[name]
    OBVIOUS
  <2>6. /\ DOMAIN h = DOMAIN e /\ h.key = e.key /\ h.base = e.base /\ h.array = e.array
        /\ h.cardinality = e.cardinality
        /\ h.type = IF added.base = wanted.base /\ added.type = wanted.type
                    THEN wanted.type ELSE e.type
    BY <2>2, <2>4, <2>5
  <2>7. IsHandleOf(h, g)
    BY <2>3, <2>6 DEF IsHandleOf
  <2>8. ASSUME Plain(name) PROVE created[name] = AttributeOf(g) /\ h.type = TypeOf(g)
    <3>1. /\ added = AttributeOf(g)
          /\ IF added.base = wanted.base /\ added.type = wanted.type
             THEN wanted.type = TypeOf(g) ELSE e.type = TypeOf(g)
      BY <1>3, <1>6, <2>1, <2>8, PlainAdded
    <3>2. created[name] = added
      BY <1>1, <2>1 DEF CreatedAttributes, Over
    <3> QED
      BY <2>6, <3>1, <3>2
  <2> QED
    BY <2>3, <2>5, <2>6, <2>7, <2>8
<1>7. AreHandles(new, created)
  BY <1>2, <1>4, <1>6 DEF AreHandles
<1>8. AreAttributes(created)
  <2> SUFFICES ASSUME NEW name \in DOMAIN created, NEW f \in Given(name), Plain(name)
               PROVE  created[name] = AttributeOf(f)
    BY DEF AreAttributes
  <2>1. CASE name \in DOMAIN es
    <3>1. PICK g \in Given(name) : created[name] = AttributeOf(g)
      BY <1>4, <1>6, <2>1
    <3>2. f = g
      BY <3>1 DEF Plain
    <3> QED
      BY <3>1, <3>2
  <2>2. CASE name \notin DOMAIN es
    BY <1>2, <1>5, <2>2 DEF AreAttributes
  <2> QED
    BY <2>1, <2>2
<1> QED
  BY <1>1, <1>7, <1>8

(* What a converter step knows: the map it converts.                       *)
Converts(map, kind, from) ==
    /\ IsMap(map, kind, from)
    /\ Convert(map, kind = "attribute")
    /\ UNCHANGED settings

LEMMA SameSettings ==
    ASSUME UNCHANGED settings
    PROVE  /\ \A kind : Emits(kind)' <=> Emits(kind)
           /\ \A name : Plain(name)' <=> Plain(name)
BY DEF settings, Emits, Plain

LEMMA SameHandles ==
    ASSUME UNCHANGED settings, NEW hs, NEW atts, hs = handles', atts = attributes',
           AreHandles(hs, atts), AreAttributes(atts)
    PROVE  HandleInv'
<1>1. \A h, g : IsHandleOf(h, g)' <=> IsHandleOf(h, g)
  BY SameSettings DEF IsHandleOf
<1>2. \A name \in DOMAIN hs :
         /\ DOMAIN hs[name] = HandleFields
         /\ PrimAttr(hs[name].key) = name
         /\ \E g \in Given(name) :
              /\ IsHandleOf(hs[name], g)'
              /\ Plain(name)' => name \in DOMAIN atts /\ hs[name].type = TypeOf(g)
  BY <1>1, SameSettings DEF AreHandles
<1>3. \A name \in DOMAIN atts : \A g \in Given(name) : Plain(name)' => atts[name] = AttributeOf(g)
  BY SameSettings DEF AreAttributes
<1> QED
  BY <1>2, <1>3 DEF HandleInv, IsHandleOf

LEMMA HandlesConvert ==
    ASSUME emit \in EmitOptions, replaces \in BOOLEAN, HandleInv,
           NEW map, NEW kind, NEW from, Converts(map, kind, from)
    PROVE  HandleInv'
<1>1. PICK keyOf \in FirstKeys(map) :
        LET extracted == Extracted(handles, map, keyOf)
            created == CreatedAttributes(extracted, attributes, kind = "attribute", replaces)
        IN  /\ handles' = Created(extracted, attributes, kind = "attribute", replaces)
            /\ attributes' = created
  BY DEF Converts, Convert
<1>2. PICK hs, atts : hs = handles' /\ atts = attributes'
  OBVIOUS
<1>3. AreHandles(handles, attributes) /\ AreAttributes(attributes)
  BY DEF HandleInv, AreHandles, AreAttributes
<1>4. IsMap(map, kind, from)
  BY DEF Converts
<1>5. AreHandles(hs, atts) /\ AreAttributes(atts)
  BY <1>1, <1>2, <1>3, <1>4, HandlesCreated
<1> QED
  BY <1>2, <1>5, SameHandles DEF Converts

-----------------------------------------------------------------------------
(* What a converter step writes to one primitive.                          *)

IsConverted(i, map) ==
    /\ AreHandles(handles', attributes') /\ AreAttributes(attributes')
    /\ DOMAIN attributes \subseteq DOMAIN attributes'
    /\ \A key \in DOMAIN map : PrimAttr(key) \in DOMAIN handles'
    /\ LET kept == KeptValues(detail[i].values, attributes, attributes') IN
       detail'[i].values = IF Now(i) THEN SetValues(kept, handles', attributes', map) ELSE kept

LEMMA Converted ==
    ASSUME PhaseInv, PrimInv, BlockInv, Converting, HandleInv,
           NEW map, NEW kind, NEW from, Converts(map, kind, from), NEW i \in DOMAIN detail
    PROVE  IsConverted(i, map)
<1>1. PICK keyOf \in FirstKeys(map) :
        LET extracted == Extracted(handles, map, keyOf)
            created == CreatedAttributes(extracted, attributes, kind = "attribute", replaces)
            Kept(x) == KeptValues(detail[x].values, attributes, created)
        IN  /\ handles' = Created(extracted, attributes, kind = "attribute", replaces)
            /\ attributes' = created
            /\ detail' = [x \in DOMAIN detail |->
                 [detail[x] EXCEPT !.values =
                    IF InRange(x) THEN SetValues(Kept(x), handles', created, map) ELSE Kept(x)]]
  BY DEF Converts, Convert
<1>2. PICK extracted, hs, atts, kept :
        /\ extracted = Extracted(handles, map, keyOf)
        /\ hs = handles' /\ atts = attributes'
        /\ kept = KeptValues(detail[i].values, attributes, atts)
  OBVIOUS
<1>3. emit \in EmitOptions /\ replaces \in BOOLEAN
  BY DEF PhaseInv
<1>4. AreHandles(handles, attributes) /\ AreAttributes(attributes)
  BY DEF HandleInv, AreHandles, AreAttributes
<1>5. IsMap(map, kind, from)
  BY DEF Converts
<1>6. AreHandles(hs, atts) /\ AreAttributes(atts)
  BY <1>1, <1>2, <1>3, <1>4, <1>5, HandlesCreated
<1>7. DOMAIN attributes \subseteq DOMAIN atts
  BY <1>1, <1>2 DEF CreatedAttributes, Over
<1>8. \A key \in DOMAIN map : PrimAttr(key) \in DOMAIN hs
  <2>1. \A key \in DOMAIN map : PrimAttr(key) \in DOMAIN keyOf
    BY DEF FirstKeys
  <2>2. DOMAIN keyOf \subseteq DOMAIN extracted
    BY <1>2 DEF Extracted, Over
  <2>3. DOMAIN hs = DOMAIN extracted
    BY <1>1, <1>2 DEF Created
  <2> QED
    BY <2>1, <2>2, <2>3
<1>9. detail'[i].values = IF Now(i) THEN SetValues(kept, hs, atts, map) ELSE kept
  <2>1. PICK new : new = IF InRange(i) THEN SetValues(kept, hs, atts, map) ELSE kept
    OBVIOUS
  <2>2. detail'[i] = [detail[i] EXCEPT !.values = new]
    BY <1>1, <1>2, <2>1
  <2>3. DOMAIN detail[i] = {"from", "face", "corners", "values"}
    BY PrimFacts DEF PrimFields
  <2>4. detail'[i].values = new
    BY <2>2, <2>3
  <2> QED
    BY <2>1, <2>4, AtRange
<1> QED
  BY <1>2, <1>6, <1>7, <1>8, <1>9 DEF IsConverted

(* Plain attributes are not replaced.                                      *)
LEMMA PlainKept ==
    ASSUME NEW before, NEW after, AreAttributes(before), AreAttributes(after),
           DOMAIN before \subseteq DOMAIN after,
           NEW name, Plain(name), Given(name) # {}, NEW values, name \in DOMAIN values
    PROVE  name \in DOMAIN KeptValues(values, before, after)
<1>1. PICK g : g \in Given(name)
  OBVIOUS
<1>2. name \in DOMAIN before => before[name] = AttributeOf(g) /\ after[name] = AttributeOf(g)
  BY <1>1 DEF AreAttributes
<1> QED
  BY <1>2 DEF KeptValues

LEMMA KeptSame ==
    ASSUME NEW before, NEW after, NEW values
    PROVE  /\ DOMAIN KeptValues(values, before, after) \subseteq DOMAIN values
           /\ \A name \in DOMAIN KeptValues(values, before, after) :
                KeptValues(values, before, after)[name] = values[name]
BY DEF KeptValues

(* What setAttributeValues does to one name.                               *)
IsWritten(h, map) == h.key \in DOMAIN map /\ h.type # "none"

LEMMA SetOne ==
    ASSUME NEW values, NEW hs, NEW atts, NEW map, NEW name
    PROVE  LET new == SetValues(values, hs, atts, map)
               before == IF name \in DOMAIN values THEN values[name] ELSE EmptyMap
               written == name \in DOMAIN hs /\ IsWritten(hs[name], map)
           IN  /\ name \in DOMAIN new <=> written \/ name \in DOMAIN values
               /\ written =>
                    new[name] = IF hs[name].type = "array" THEN ArrayValues(hs[name], map)
                                ELSE Over(TupleValues(hs[name], atts[name], map), before)
               /\ ~written /\ name \in DOMAIN values => new[name] = values[name]
<1>1. PICK written : written = {n \in DOMAIN hs : hs[n].key \in DOMAIN map /\ hs[n].type # "none"}
  OBVIOUS
<1>3. PICK set : set = [n \in written |->
                IF hs[n].type = "array" THEN ArrayValues(hs[n], map)
                ELSE Over(TupleValues(hs[n], atts[n], map),
                          IF n \in DOMAIN values THEN values[n] ELSE EmptyMap)]
  OBVIOUS
<1>4. SetValues(values, hs, atts, map) = Over(set, values)
  BY <1>1, <1>3 DEF SetValues
<1>5. PICK new : new = SetValues(values, hs, atts, map)
  OBVIOUS
<1>6. DOMAIN new = DOMAIN values \cup written
      /\ \A n \in DOMAIN new : new[n] = IF n \in written THEN set[n] ELSE values[n]
  BY <1>3, <1>4, <1>5 DEF Over
<1>7. name \in written <=> name \in DOMAIN hs /\ IsWritten(hs[name], map)
  BY <1>1 DEF IsWritten
<1>8. name \in written =>
        set[name] = IF hs[name].type = "array" THEN ArrayValues(hs[name], map)
                    ELSE Over(TupleValues(hs[name], atts[name], map),
                              IF name \in DOMAIN values THEN values[name] ELSE EmptyMap)
  BY <1>3
<1> QED
  BY <1>5, <1>6, <1>7, <1>8

(* The values of a plain name that the map has are set, but for empty      *)
(* strings.                                                                *)
AreShown(values, key, form, kind, from) ==
    \A c \in DOMAIN form.filled : form.filled[c] =>
      /\ PrimAttr(key) \in DOMAIN values
      /\ c \in DOMAIN values[PrimAttr(key)]
      /\ values[PrimAttr(key)][c] = [kind |-> kind, key |-> key, from |-> from, i |-> c]

LEMMA NotEmpty ==
    ASSUME NEW kind, kind \in {"material", "report", "attribute"}, NEW key, NEW from, NEW c
    PROVE  [kind |-> kind, key |-> key, from |-> from, i |-> c] \notin {Zero, Empty}
<1>1. PICK v : v = [kind |-> kind, key |-> key, from |-> from, i |-> c]
  OBVIOUS
<1>2. v.kind = kind
  BY <1>1
<1>3. Zero.kind = "zero" /\ Empty.kind = "empty"
  BY DEF Zero, Empty
<1>4. v # Zero /\ v # Empty
  BY <1>2, <1>3
<1> QED
  BY <1>1, <1>4

(* The handle of a plain name is that of the form.                         *)
LEMMA PlainHandle ==
    ASSUME NEW hs, NEW atts, AreHandles(hs, atts), AreAttributes(atts),
           NEW kind, NEW key, NEW form, NEW name, name = PrimAttr(key),
           FormOf(kind, key, form) \in Given(name), Plain(name), name \in DOMAIN hs
    PROVE  LET g == FormOf(kind, key, form) IN
           /\ IsHandleOf(hs[name], g) /\ hs[name].type = TypeOf(g)
           /\ atts[name] = AttributeOf(g) /\ Known(g)
<1>1. PICK g : g = FormOf(kind, key, form)
  OBVIOUS
<1>2. PICK f \in Given(name) :
        /\ IsHandleOf(hs[name], f)
        /\ Plain(name) => name \in DOMAIN atts /\ hs[name].type = TypeOf(f)
  BY DEF AreHandles
<1>3. f = g /\ Known(g)
  BY <1>1, <1>2 DEF Plain
<1>4. atts[name] = AttributeOf(g)
  BY <1>1, <1>2, <1>3 DEF AreAttributes
<1> QED
  BY <1>1, <1>2, <1>3, <1>4

LEMMA TupleShows ==
    ASSUME NEW h, NEW att, NEW map, NEW kind, NEW key, NEW form, NEW from, NEW g,
           g = FormOf(kind, key, form), Emits(kind), Known(g), IsHandleOf(h, g),
           att = AttributeOf(g), TypeOf(g) = "tuple", IsValue(map[key], form, kind, key, from),
           NEW c \in DOMAIN form.filled, form.filled[c]
    PROVE  /\ c \in DOMAIN TupleValues(h, att, map)
           /\ TupleValues(h, att, map)[c] = [kind |-> kind, key |-> key, from |-> from, i |-> c]
<1>1. /\ g[1] = kind /\ g[2] = key /\ g[3] = form.base /\ g[4] = form.array
      /\ g[5] = Len(form.filled)
  BY DEF FormOf
<1>2. PICK value, v : value = map[key] /\ v = [kind |-> kind, key |-> key, from |-> from, i |-> c]
  OBVIOUS
<1>3. /\ value.base = h.base /\ value.array = h.array /\ h.key = key /\ h.base = BaseOf(g)
      /\ h.array = form.array
      /\ value.val = [x \in 1 .. Len(form.filled) |->
                        IF form.filled[x] THEN [kind |-> kind, key |-> key, from |-> from, i |-> x]
                        ELSE Empty]
  BY <1>1, <1>2 DEF IsHandleOf, IsValue
<1>4. Get(h, map) = value.val
  BY <1>2, <1>3 DEF Get
<1>5. /\ c \in 1 .. Len(form.filled) /\ Len(form.filled) \in Nat
      /\ ~form.array => Len(form.filled) = 1
  BY DEF IsValue, SoundForm
<1>6. c \in DOMAIN value.val /\ value.val[c] = v
  BY <1>2, <1>3, <1>5
<1>7. v \notin {Zero, Empty}
  BY <1>2, NotEmpty DEF Emits
<1>8. c <= att.size
  <2>1. att.size = SizeOf(g)
    BY DEF AttributeOf
  <2>2. SizeOf(g) = Len(form.filled)
    BY <1>1, <1>5 DEF SizeOf
  <2>3. PICK n : n = Len(form.filled)
    OBVIOUS
  <2>4. c \in 1 .. n /\ n \in Nat /\ att.size = n
    BY <1>5, <2>1, <2>2, <2>3
  <2> QED
    BY <2>4
<1>9. h.array => h.base \in {"float", "string"}
  <2> SUFFICES ASSUME g[4] PROVE BaseOf(g) \in {"float", "string"}
    BY <1>1, <1>3
  <2>1. g[1] # "attribute"
    BY DEF TypeOf
  <2>2. g[1] = "material"
    BY <1>1, <2>1 DEF Known, Emits
  <2>3. g[3] \in {"float", "string", "texture"}
    BY <2>2 DEF Known
  <2> QED
    BY <2>2, <2>3 DEF BaseOf
<1>10. PICK val, set : /\ val = Get(h, map)
                       /\ set = {i \in DOMAIN val :
                                   /\ i <= att.size
                                   /\ h.base = "string" => val[i] \notin {Empty, Zero}
                                   /\ h.array => h.base \in {"float", "string"}}
  OBVIOUS
<1>11. TupleValues(h, att, map) = [i \in set |-> val[i]]
  BY <1>10 DEF TupleValues
<1>12. c \in set
  BY <1>4, <1>6, <1>7, <1>8, <1>9, <1>10
<1> QED
  BY <1>2, <1>4, <1>6, <1>10, <1>11, <1>12

LEMMA SetShows ==
    ASSUME NEW values, NEW hs, NEW atts, AreHandles(hs, atts), AreAttributes(atts),
           NEW map, NEW kind, NEW from, Emits(kind),
           NEW key \in DOMAIN map, NEW form, FormOf(kind, key, form) \in Given(PrimAttr(key)),
           IsValue(map[key], form, kind, key, from),
           Plain(PrimAttr(key)), PrimAttr(key) \in DOMAIN hs
    PROVE  AreShown(SetValues(values, hs, atts, map), key, form, kind, from)
<1>1. PICK name, g, h, new : /\ name = PrimAttr(key) /\ g = FormOf(kind, key, form)
                             /\ h = hs[name] /\ new = SetValues(values, hs, atts, map)
  OBVIOUS
<1>2. IsHandleOf(h, g) /\ h.type = TypeOf(g) /\ atts[name] = AttributeOf(g) /\ Known(g)
  BY <1>1, PlainHandle
<1>3. g[1] = kind /\ g[2] = key /\ g[3] = form.base /\ g[4] = form.array
  BY <1>1 DEF FormOf
<1>4. IsWritten(h, map)
  BY <1>2, <1>3 DEF IsWritten, IsHandleOf, TypeOf
<1>5. PICK before : before = IF name \in DOMAIN values THEN values[name] ELSE EmptyMap
  OBVIOUS
<1>6. /\ name \in DOMAIN new
      /\ new[name] = IF h.type = "array" THEN ArrayValues(h, map)
                     ELSE Over(TupleValues(h, atts[name], map), before)
  BY <1>1, <1>4, <1>5, SetOne
<1> SUFFICES ASSUME NEW c \in DOMAIN form.filled, form.filled[c]
             PROVE  /\ c \in DOMAIN new[name]
                    /\ new[name][c] = [kind |-> kind, key |-> key, from |-> from, i |-> c]
  BY <1>1, <1>6 DEF AreShown
<1>7. CASE TypeOf(g) = "array"
  <2>1. PICK value : value = map[key]
    OBVIOUS
  <2>2. /\ value.base = h.base /\ value.array = h.array /\ h.key = key
        /\ value.val = [x \in 1 .. Len(form.filled) |->
                          IF form.filled[x]
                          THEN [kind |-> kind, key |-> key, from |-> from, i |-> x]
                          ELSE Empty]
    BY <1>1, <1>2, <1>3, <2>1 DEF IsHandleOf, IsValue
  <2>3. new[name] = value.val
    BY <1>2, <1>6, <1>7, <2>1, <2>2 DEF ArrayValues, Get
  <2>4. c \in 1 .. Len(form.filled)
    BY DEF IsValue, SoundForm
  <2> QED
    BY <2>2, <2>3, <2>4
<1>8. CASE TypeOf(g) # "array"
  <2>1. PICK set : set = TupleValues(h, atts[name], map)
    OBVIOUS
  <2>2. TypeOf(g) = "tuple"
    BY <1>8 DEF TypeOf
  <2>3. c \in DOMAIN set /\ set[c] = [kind |-> kind, key |-> key, from |-> from, i |-> c]
    BY <1>1, <1>2, <2>1, <2>2, TupleShows
  <2>4. new[name] = Over(set, before)
    BY <1>2, <1>6, <1>8, <2>1
  <2> QED
    BY <2>3, <2>4 DEF Over
<1> QED
  BY <1>7, <1>8

(* The values of a plain name stay when a map of another kind is written.  *)
LEMMA SetStays ==
    ASSUME NEW values, NEW hs, NEW atts, AreHandles(hs, atts),
           NEW map, NEW kind, NEW from, IsMap(map, kind, from),
           NEW other, other # kind, NEW key, NEW form, NEW source,
           FormOf(other, key, form) \in Given(PrimAttr(key)), Plain(PrimAttr(key)),
           AreShown(values, key, form, other, source)
    PROVE  AreShown(SetValues(values, hs, atts, map), key, form, other, source)
<1>1. PICK name, new : name = PrimAttr(key) /\ new = SetValues(values, hs, atts, map)
  OBVIOUS
<1>2. ~(name \in DOMAIN hs /\ IsWritten(hs[name], map))
  <2> SUFFICES ASSUME name \in DOMAIN hs, hs[name].key \in DOMAIN map PROVE FALSE
    BY DEF IsWritten
  <2>1. PICK k : k = hs[name].key
    OBVIOUS
  <2>2. PrimAttr(k) = name /\ k \in DOMAIN map
    BY <2>1 DEF AreHandles
  <2>3. PICK f : FormOf(kind, k, f) \in Given(PrimAttr(k))
    BY <2>2 DEF IsMap
  <2>4. FormOf(kind, k, f) = FormOf(other, key, form)
    BY <1>1, <2>2, <2>3 DEF Plain
  <2>5. FormOf(kind, k, f)[1] = kind /\ FormOf(other, key, form)[1] = other
    BY DEF FormOf
  <2> QED
    BY <2>4, <2>5
<1>3. name \in DOMAIN values => name \in DOMAIN new /\ new[name] = values[name]
  BY <1>1, <1>2, SetOne
<1> QED
  BY <1>1, <1>3 DEF AreShown

LEMMA KeptShows ==
    ASSUME NEW values, NEW before, NEW after, AreAttributes(before), AreAttributes(after),
           DOMAIN before \subseteq DOMAIN after, NEW kind, NEW key, NEW form, NEW source,
           FormOf(kind, key, form) \in Given(PrimAttr(key)), Plain(PrimAttr(key)),
           AreShown(values, key, form, kind, source)
    PROVE  AreShown(KeptValues(values, before, after), key, form, kind, source)
<1>1. PICK name, kept : name = PrimAttr(key) /\ kept = KeptValues(values, before, after)
  OBVIOUS
<1>2. name \in DOMAIN values => name \in DOMAIN kept
  BY <1>1, PlainKept
<1>3. name \in DOMAIN kept => kept[name] = values[name]
  BY <1>1, KeptSame
<1> QED
  BY <1>1, <1>2, <1>3 DEF AreShown

(* Values that belong to a primitive.                                      *)
LEMMA KeptOwn ==
    ASSUME NEW values, NEW before, NEW after, NEW own, OwnValues(values, own)
    PROVE  OwnValues(KeptValues(values, before, after), own)
<1>1. PICK kept : kept = KeptValues(values, before, after)
  OBVIOUS
<1>2. \A name \in DOMAIN kept : name \in DOMAIN values /\ kept[name] = values[name]
  BY <1>1, KeptSame
<1> QED
  BY <1>1, <1>2 DEF OwnValues

LEMMA GotOwn ==
    ASSUME NEW map, NEW kind, NEW from, IsMap(map, kind, from),
           NEW h, h.key \in DOMAIN map, NEW name, PrimAttr(h.key) = name,
           NEW own, from.shape = own.shape, from.leaf = own.leaf, from.mesh \in {0, own.mesh}
    PROVE  \A c \in DOMAIN Get(h, map) : OwnValue(Get(h, map)[c], name, c, own)
<1>1. PICK key, value, val : key = h.key /\ value = map[key] /\ val = Get(h, map)
  OBVIOUS
<1>2. PICK form : IsValue(value, form, kind, key, from)
  BY <1>1 DEF IsMap
<1>3. val = value.val \/ val = <<>> \/ val = <<Zero>>
  BY <1>1 DEF Get
<1> SUFFICES ASSUME NEW c \in DOMAIN val PROVE OwnValue(val[c], name, c, own)
  BY <1>1
<1>4. CASE val = value.val
  <2>1. val = [x \in 1 .. Len(form.filled) |->
                 IF form.filled[x] THEN [kind |-> kind, key |-> key, from |-> from, i |-> x]
                 ELSE Empty]
    BY <1>2, <1>4 DEF IsValue
  <2>2. val[c] = Empty \/ val[c] = [kind |-> kind, key |-> key, from |-> from, i |-> c]
    BY <2>1
  <2>3. CASE val[c] = Empty
    BY <2>3 DEF OwnValue
  <2>4. CASE val[c] = [kind |-> kind, key |-> key, from |-> from, i |-> c]
    <3>1. PICK v : v = val[c]
      OBVIOUS
    <3>2. v.key = key /\ v.i = c /\ v.from = from
      BY <2>4, <3>1
    <3> QED
      BY <1>1, <3>1, <3>2 DEF OwnValue
  <2> QED
    BY <2>2, <2>3, <2>4
<1>5. CASE val = <<>>
  BY <1>5
<1>6. CASE val = <<Zero>>
  <2>1. val[c] = Zero
    BY <1>6
  <2> QED
    BY <2>1 DEF OwnValue
<1> QED
  BY <1>3, <1>4, <1>5, <1>6

LEMMA SetOwn ==
    ASSUME NEW values, NEW hs, NEW atts, AreHandles(hs, atts),
           NEW map, NEW kind, NEW from, IsMap(map, kind, from),
           NEW own, from.shape = own.shape, from.leaf = own.leaf, from.mesh \in {0, own.mesh},
           OwnValues(values, own)
    PROVE  OwnValues(SetValues(values, hs, atts, map), own)
<1>1. PICK new : new = SetValues(values, hs, atts, map)
  OBVIOUS
<1> SUFFICES ASSUME NEW name \in DOMAIN new, NEW c \in DOMAIN new[name]
             PROVE  OwnValue(new[name][c], name, c, own)
  BY <1>1 DEF OwnValues
<1>2. PICK h, before : /\ h = hs[name]
                       /\ before = IF name \in DOMAIN values THEN values[name] ELSE EmptyMap
  OBVIOUS
<1>3. CASE name \in DOMAIN hs /\ IsWritten(h, map)
  <2>1. h.key \in DOMAIN map /\ PrimAttr(h.key) = name
    BY <1>2, <1>3 DEF IsWritten, AreHandles
  <2>2. \A x \in DOMAIN Get(h, map) : OwnValue(Get(h, map)[x], name, x, own)
    BY <2>1, GotOwn
  <2>3. new[name] = IF h.type = "array" THEN ArrayValues(h, map)
                    ELSE Over(TupleValues(h, atts[name], map), before)
    BY <1>1, <1>2, <1>3, SetOne
  <2>4. CASE h.type = "array"
    BY <2>2, <2>3, <2>4 DEF ArrayValues
  <2>5. CASE h.type # "array"
    <3>1. PICK set : set = TupleValues(h, atts[name], map)
      OBVIOUS
    <3>2. \A x \in DOMAIN set : x \in DOMAIN Get(h, map) /\ set[x] = Get(h, map)[x]
      BY <3>1 DEF TupleValues
    <3>3. new[name] = Over(set, before)
      BY <2>3, <2>5, <3>1
    <3>4. \/ c \in DOMAIN set /\ new[name][c] = set[c]
          \/ c \in DOMAIN before /\ new[name][c] = before[c]
      <4>1. PICK both : both = Over(set, before)
        OBVIOUS
      <4>2. /\ DOMAIN both = DOMAIN before \cup DOMAIN set
            /\ \A x \in DOMAIN both : both[x] = IF x \in DOMAIN set THEN set[x] ELSE before[x]
        BY <4>1 DEF Over
      <4>3. c \in DOMAIN both /\ new[name] = both
        BY <3>3, <4>1
      <4>4. new[name][c] = both[c]
        BY <4>3
      <4>5. c \in DOMAIN set => both[c] = set[c]
        BY <4>2, <4>3
      <4>6. c \notin DOMAIN set => c \in DOMAIN before /\ both[c] = before[c]
        BY <4>2, <4>3
      <4> QED
        BY <4>4, <4>5, <4>6
    <3>5. CASE c \in DOMAIN set /\ new[name][c] = set[c]
      BY <2>2, <3>2, <3>5
    <3>6. CASE c \in DOMAIN before /\ new[name][c] = before[c]
      <4>1. DOMAIN EmptyMap = {}
        BY DEF EmptyMap
      <4>2. c \in DOMAIN before
        BY <3>6
      <4>3. name \in DOMAIN values
        <5> SUFFICES ASSUME name \notin DOMAIN values PROVE FALSE
          OBVIOUS
        <5>1. before = EmptyMap
          BY <1>2
        <5> QED
          BY <4>1, <4>2, <5>1
      <4>4. before = values[name]
        BY <1>2, <4>3
      <4> QED
        BY <3>6, <4>3, <4>4 DEF OwnValues
    <3> QED
      BY <3>4, <3>5, <3>6
  <2> QED
    BY <2>4, <2>5
<1>4. CASE ~(name \in DOMAIN hs /\ IsWritten(h, map))
  <2>1. name \in DOMAIN values /\ new[name] = values[name]
    BY <1>1, <1>2, <1>4, SetOne
  <2> QED
    BY <2>1 DEF OwnValues
<1> QED
  BY <1>3, <1>4

-----------------------------------------------------------------------------
(* What the faces of a mesh show.                                          *)

LeafOf(from) == leaves[from.shape][from.leaf]

InLeaf(from) ==
    /\ from = [shape |-> from.shape, leaf |-> from.leaf, mesh |-> from.mesh]
    /\ from.shape \in 1 .. count
    /\ from.leaf \in DOMAIN leaves[from.shape]
    /\ LeafOf(from) \in Leaves
    /\ from.mesh \in DOMAIN LeafOf(from).meshes

Whole(from) == [from EXCEPT !.mesh = 0]

ShownAll(values, map, keys, kind, from) ==
    \A key \in keys : Plain(PrimAttr(key)) => AreShown(values, key, map[key], kind, from)

MaterialShown(values, from) ==
    LET material == LeafOf(from).meshes[from.mesh].material
    IN  ShownAll(values, material, DOMAIN material, "material", from)

ReportShown(values, from) ==
    LET report == LeafOf(from).report
    IN  ShownAll(values, report, DOMAIN report, "report", Whole(from))

AttributesShown(values, from) ==
    LET given == LeafOf(from).attributes
    IN  ShownAll(values, given, Keys \cap DOMAIN given, "attribute", Whole(from))

LEMMA LeafOfMesh ==
    ASSUME leaves \in Seq(Shapes), NEW s \in 1 .. count, NEW j \in 1 .. Len(MeshesOf(leaves[s]))
    PROVE  InLeaf(OfMesh(s, j))
<1>1. PICK mesh, from, shape : /\ mesh = MeshesOf(leaves[s])[j] /\ from = OfMesh(s, j)
                               /\ shape = leaves[s]
  OBVIOUS
<1>2. shape \in Shapes
  BY <1>1, ShapeAt
<1>3. mesh.leaf \in 1 .. Len(shape) /\ mesh.mesh \in 1 .. Len(shape[mesh.leaf].meshes)
  BY <1>1, <1>2, MeshFound
<1>4. /\ mesh.leaf \in DOMAIN shape /\ shape[mesh.leaf] \in Leaves
      /\ mesh.mesh \in DOMAIN shape[mesh.leaf].meshes
  BY <1>2, <1>3, ShapeFacts
<1>5. from = [shape |-> s, leaf |-> mesh.leaf, mesh |-> mesh.mesh]
  BY <1>1 DEF OfMesh
<1>6. /\ from = [shape |-> from.shape, leaf |-> from.leaf, mesh |-> from.mesh]
      /\ from.shape = s /\ from.leaf = mesh.leaf /\ from.mesh = mesh.mesh
  BY <1>5
<1> QED
  BY <1>1, <1>4, <1>6 DEF InLeaf, LeafOf

LEMMA LeafOfPrim ==
    ASSUME PhaseInv, PrimInv, NEW i \in DOMAIN detail
    PROVE  InLeaf(detail[i].from)
<1>1. PICK s \in 1 .. count :
        \E j \in 1 .. Len(MeshesOf(leaves[s])) : \E f : IsPrim(detail[i], s, j, f)
  BY DEF PrimInv
<1>2. PICK j \in 1 .. Len(MeshesOf(leaves[s])) : \E f : IsPrim(detail[i], s, j, f)
  BY <1>1
<1>3. detail[i].from = OfMesh(s, j)
  BY <1>2 DEF IsPrim
<1> QED
  BY <1>3, LeafOfMesh DEF PhaseInv

LEMMA ShowsAll ==
    ASSUME NEW i, NEW key, NEW form, NEW kind, NEW mesh
    PROVE  Shows(i, key, form, kind, mesh) <=>
             (Plain(PrimAttr(key)) =>
                AreShown(detail[i].values, key, form, kind, [detail[i].from EXCEPT !.mesh = mesh]))
BY DEF Shows, AreShown

LEMMA ShownNow ==
    ASSUME NEW i, InLeaf(detail[i].from)
    PROVE  /\ ShowsMaterial(i) <=> MaterialShown(detail[i].values, detail[i].from)
           /\ ShowsReport(i) <=> ReportShown(detail[i].values, detail[i].from)
           /\ ShowsAttributes(i) <=> AttributesShown(detail[i].values, detail[i].from)
<1>1. PICK from, values : from = detail[i].from /\ values = detail[i].values
  OBVIOUS
<1>2. [from EXCEPT !.mesh = from.mesh] = from
  BY <1>1 DEF InLeaf
<1>3. ShowsMaterial(i) <=> MaterialShown(values, from)
  BY <1>1, <1>2, ShowsAll DEF ShowsMaterial, MaterialShown, ShownAll, MeshAt, LeafOf
<1>4. ShowsReport(i) <=> ReportShown(values, from)
  BY <1>1, ShowsAll DEF ShowsReport, ReportShown, ShownAll, LeafOf, Whole
<1>5. ShowsAttributes(i) <=> AttributesShown(values, from)
  BY <1>1, ShowsAll DEF ShowsAttributes, AttributesShown, ShownAll, LeafOf, Whole
<1> QED
  BY <1>1, <1>3, <1>4, <1>5

LEMMA ShownNext ==
    ASSUME UNCHANGED settings, NEW i, InLeaf(detail[i].from), detail'[i].from = detail[i].from,
           leaves'[detail[i].from.shape] = leaves[detail[i].from.shape]
    PROVE  /\ ShowsMaterial(i)' <=> MaterialShown(detail'[i].values, detail[i].from)
           /\ ShowsReport(i)' <=> ReportShown(detail'[i].values, detail[i].from)
           /\ ShowsAttributes(i)' <=> AttributesShown(detail'[i].values, detail[i].from)
           /\ PerFace(i)' <=> PerFace(i)
<1>1. PICK prim, from, values : prim = detail'[i] /\ from = detail[i].from /\ values = prim.values
  OBVIOUS
<1>2. [from EXCEPT !.mesh = from.mesh] = from
  BY <1>1 DEF InLeaf
<1>3. ASSUME NEW key, NEW form, NEW kind, NEW mesh
      PROVE  Shows(i, key, form, kind, mesh)' <=>
               (Plain(PrimAttr(key)) =>
                  AreShown(values, key, form, kind, [from EXCEPT !.mesh = mesh]))
  <2>1. prim.from = from /\ (Plain(PrimAttr(key))' <=> Plain(PrimAttr(key)))
    BY <1>1, SameSettings
  <2> QED
    BY <1>1, <2>1 DEF Shows, AreShown
<1>4. leaves'[from.shape] = leaves[from.shape] /\ prim.from = from
  BY <1>1
<1>5. ShowsMaterial(i)' <=> MaterialShown(values, from)
  <2>1. PICK material : material = leaves[from.shape][from.leaf].meshes[from.mesh].material
    OBVIOUS
  <2>2. leaves'[from.shape][from.leaf].meshes[from.mesh].material = material
    BY <1>4, <2>1
  <2>3. MeshAt(detail[i].from)'.material = material /\ detail[i].from' = from
    BY <1>1, <1>4, <2>2 DEF MeshAt
  <2>4. ShowsMaterial(i)' <=>
          \A key \in DOMAIN material : Shows(i, key, material[key], "material", from.mesh)'
    BY <2>3 DEF ShowsMaterial
  <2>5. MaterialShown(values, from)
          <=> ShownAll(values, material, DOMAIN material, "material", from)
    BY <2>1 DEF MaterialShown, LeafOf
  <2>6. [from EXCEPT !.mesh = from.mesh] = from
    BY <1>2
  <2> QED
    BY <1>3, <2>4, <2>5, <2>6 DEF ShownAll
<1>6. ShowsReport(i)' <=> ReportShown(values, from)
  <2>1. PICK report : report = leaves[from.shape][from.leaf].report
    OBVIOUS
  <2>2. ShowsReport(i)' <=> \A key \in DOMAIN report : Shows(i, key, report[key], "report", 0)'
    BY <1>1, <1>4, <2>1 DEF ShowsReport
  <2>3. ReportShown(values, from) <=> ShownAll(values, report, DOMAIN report, "report", Whole(from))
    BY <2>1 DEF ReportShown, LeafOf
  <2>4. [from EXCEPT !.mesh = 0] = Whole(from)
    BY DEF Whole
  <2> QED
    BY <1>3, <2>2, <2>3, <2>4 DEF ShownAll
<1>7. ShowsAttributes(i)' <=> AttributesShown(values, from)
  <2>1. PICK given : given = leaves[from.shape][from.leaf].attributes
    OBVIOUS
  <2>2. ShowsAttributes(i)' <=>
          \A key \in Keys \cap DOMAIN given : Shows(i, key, given[key], "attribute", 0)'
    BY <1>1, <1>4, <2>1 DEF ShowsAttributes
  <2>3. AttributesShown(values, from)
          <=> ShownAll(values, given, Keys \cap DOMAIN given, "attribute", Whole(from))
    BY <2>1 DEF AttributesShown, LeafOf
  <2>4. [from EXCEPT !.mesh = 0] = Whole(from)
    BY DEF Whole
  <2> QED
    BY <1>3, <2>2, <2>3, <2>4 DEF ShownAll
<1>8. PerFace(i)' <=> PerFace(i)
  BY DEF PerFace, PerRange
<1> QED
  BY <1>1, <1>5, <1>6, <1>7, <1>8

(* What is shown stays when a map of another kind is written, or none.     *)
LEMMA AllStay ==
    ASSUME NEW before, NEW hs, NEW atts, AreHandles(hs, atts), AreAttributes(before),
           AreAttributes(atts), DOMAIN before \subseteq DOMAIN atts,
           NEW map, NEW kind, NEW from, IsMap(map, kind, from),
           NEW values, NEW given, NEW keys, NEW other, NEW source,
           \A key \in keys : FormOf(other, key, given[key]) \in Given(PrimAttr(key)),
           ShownAll(values, given, keys, other, source)
    PROVE  LET kept == KeptValues(values, before, atts) IN
           /\ ShownAll(kept, given, keys, other, source)
           /\ other # kind => ShownAll(SetValues(kept, hs, atts, map), given, keys, other, source)
<1>1. PICK kept, set : /\ kept = KeptValues(values, before, atts)
                       /\ set = SetValues(kept, hs, atts, map)
  OBVIOUS
<1>2. ASSUME NEW key \in keys, Plain(PrimAttr(key))
      PROVE  /\ AreShown(kept, key, given[key], other, source)
             /\ other # kind => AreShown(set, key, given[key], other, source)
  <2>1. PICK form : form = given[key]
    OBVIOUS
  <2>2. /\ FormOf(other, key, form) \in Given(PrimAttr(key))
        /\ AreShown(values, key, form, other, source)
    BY <1>2, <2>1 DEF ShownAll
  <2>3. AreShown(kept, key, form, other, source)
    BY <1>1, <1>2, <2>2, KeptShows
  <2>4. other # kind => AreShown(set, key, form, other, source)
    BY <1>1, <1>2, <2>2, <2>3, SetStays
  <2> QED
    BY <2>1, <2>3, <2>4
<1> QED
  BY <1>1, <1>2 DEF ShownAll

(* The maps have what the leaf was given under plain names.                *)
LEMMA PlainInMaps ==
    ASSUME NEW leaf \in Leaves, NEW from
    PROVE  /\ \A m \in DOMAIN leaf.meshes : \A key \in DOMAIN leaf.meshes[m].material :
                Plain(PrimAttr(key)) => key \in DOMAIN MaterialMap(leaf.meshes[m].material, from)
           /\ \A key \in DOMAIN leaf.report :
                Plain(PrimAttr(key)) => key \in DOMAIN ReportMap(leaf.report, from)
           /\ \A key \in Keys \cap DOMAIN leaf.attributes :
                Plain(PrimAttr(key)) => key \in DOMAIN AttributeMap(leaf, from)
<1>1. ASSUME NEW kind, NEW key, NEW form, FormOf(kind, key, form) \in Given(PrimAttr(key)),
             Plain(PrimAttr(key))
      PROVE  /\ kind = "material" => key \notin Blacklist
             /\ kind # "material" => form.base # "int"
             /\ kind = "report" => ~form.array
  <2>1. PICK g : g = FormOf(kind, key, form)
    OBVIOUS
  <2>2. Known(g)
    BY <1>1, <2>1 DEF Plain
  <2>3. g[1] = kind /\ g[2] = key /\ g[3] = form.base /\ g[4] = form.array
    BY <2>1 DEF FormOf
  <2> QED
    BY <2>2, <2>3 DEF Known
<1>2. ASSUME NEW m \in DOMAIN leaf.meshes, NEW key \in DOMAIN leaf.meshes[m].material,
             Plain(PrimAttr(key))
      PROVE  key \in DOMAIN MaterialMap(leaf.meshes[m].material, from)
  <2>1. key \notin Blacklist
    BY <1>1, <1>2, FormsGiven
  <2> QED
    BY <2>1 DEF MaterialMap
<1>3. ASSUME NEW key \in DOMAIN leaf.report, Plain(PrimAttr(key))
      PROVE  key \in DOMAIN ReportMap(leaf.report, from)
  <2>1. leaf.report[key].base # "int" /\ ~leaf.report[key].array
    BY <1>1, <1>3, FormsGiven
  <2> QED
    BY <2>1 DEF ReportMap
<1>4. ASSUME NEW key \in Keys \cap DOMAIN leaf.attributes, Plain(PrimAttr(key))
      PROVE  key \in DOMAIN AttributeMap(leaf, from)
  <2>1. leaf.attributes[key].base # "int"
    BY <1>1, <1>4, FormsGiven
  <2> QED
    BY <2>1 DEF AttributeMap
<1> QED
  BY <1>2, <1>3, <1>4

LEMMA AllSet ==
    ASSUME NEW hs, NEW atts, AreHandles(hs, atts), AreAttributes(atts),
           NEW map, NEW kind, NEW from, Emits(kind),
           \A key \in DOMAIN map : PrimAttr(key) \in DOMAIN hs,
           NEW values, NEW given, NEW keys,
           \A key \in keys : Plain(PrimAttr(key)) =>
             /\ key \in DOMAIN map
             /\ FormOf(kind, key, given[key]) \in Given(PrimAttr(key))
             /\ IsValue(map[key], given[key], kind, key, from)
    PROVE  ShownAll(SetValues(values, hs, atts, map), given, keys, kind, from)
<1>1. ASSUME NEW key \in keys, Plain(PrimAttr(key))
      PROVE  AreShown(SetValues(values, hs, atts, map), key, given[key], kind, from)
  <2>1. PICK form : form = given[key]
    OBVIOUS
  <2>2. /\ key \in DOMAIN map /\ PrimAttr(key) \in DOMAIN hs
        /\ FormOf(kind, key, form) \in Given(PrimAttr(key))
        /\ IsValue(map[key], form, kind, key, from)
    BY <1>1, <2>1
  <2>3. AreShown(SetValues(values, hs, atts, map), key, form, kind, from)
    BY <1>1, <2>2, SetShows
  <2> QED
    BY <2>1, <2>3
<1> QED
  BY <1>1 DEF ShownAll

LEMMA MaterialSet ==
    ASSUME NEW hs, NEW atts, AreHandles(hs, atts), AreAttributes(atts), emit.materials,
           NEW own, InLeaf(own), NEW map,
           map = MaterialMap(LeafOf(own).meshes[own.mesh].material, own),
           \A key \in DOMAIN map : PrimAttr(key) \in DOMAIN hs, NEW values
    PROVE  MaterialShown(SetValues(values, hs, atts, map), own)
<1>1. PICK leaf, m, material : /\ leaf = LeafOf(own) /\ m = own.mesh
                               /\ material = leaf.meshes[m].material
  OBVIOUS
<1>2. leaf \in Leaves /\ m \in DOMAIN leaf.meshes
  BY <1>1 DEF InLeaf
<1>3. SoundForms(material) /\ map = MaterialMap(material, own)
  BY <1>1, <1>2, LeafForms
<1>4. ASSUME NEW key \in DOMAIN material, Plain(PrimAttr(key))
      PROVE  /\ key \in DOMAIN map
             /\ FormOf("material", key, material[key]) \in Given(PrimAttr(key))
             /\ IsValue(map[key], material[key], "material", key, own)
  <2>1. key \in DOMAIN map
    BY <1>1, <1>2, <1>3, <1>4, PlainInMaps
  <2>2. key \in DOMAIN material \ Blacklist
    BY <1>3, <2>1 DEF MaterialMap
  <2>3. FormOf("material", key, material[key]) \in Given(PrimAttr(key))
    BY <1>1, <1>2, FormsGiven
  <2> QED
    BY <1>3, <2>1, <2>2, <2>3, MaterialValues
<1>5. Emits("material")
  BY DEF Emits
<1>6. ShownAll(SetValues(values, hs, atts, map), material, DOMAIN material, "material", own)
  BY <1>4, <1>5, AllSet
<1> QED
  BY <1>1, <1>6 DEF MaterialShown

LEMMA ReportSet ==
    ASSUME NEW hs, NEW atts, AreHandles(hs, atts), AreAttributes(atts), emit.reports,
           NEW own, InLeaf(own), NEW map, map = ReportMap(LeafOf(own).report, Whole(own)),
           \A key \in DOMAIN map : PrimAttr(key) \in DOMAIN hs, NEW values
    PROVE  ReportShown(SetValues(values, hs, atts, map), own)
<1>1. PICK leaf, report, from : leaf = LeafOf(own) /\ report = leaf.report /\ from = Whole(own)
  OBVIOUS
<1>2. leaf \in Leaves
  BY <1>1 DEF InLeaf
<1>3. SoundForms(report) /\ map = ReportMap(report, from)
  BY <1>1, <1>2, LeafForms
<1>4. ASSUME NEW key \in DOMAIN report, Plain(PrimAttr(key))
      PROVE  /\ key \in DOMAIN map
             /\ FormOf("report", key, report[key]) \in Given(PrimAttr(key))
             /\ IsValue(map[key], report[key], "report", key, from)
  <2>1. key \in DOMAIN map
    BY <1>1, <1>2, <1>3, <1>4, PlainInMaps
  <2>2. FormOf("report", key, report[key]) \in Given(PrimAttr(key))
    BY <1>1, <1>2, FormsGiven
  <2> QED
    BY <1>3, <2>1, <2>2, ReportValues
<1>5. Emits("report")
  BY DEF Emits
<1>6. ShownAll(SetValues(values, hs, atts, map), report, DOMAIN report, "report", from)
  BY <1>4, <1>5, AllSet
<1> QED
  BY <1>1, <1>6 DEF ReportShown

LEMMA AttributesSet ==
    ASSUME NEW hs, NEW atts, AreHandles(hs, atts), AreAttributes(atts), emit.attributes,
           NEW own, InLeaf(own), NEW map, map = AttributeMap(LeafOf(own), Whole(own)),
           \A key \in DOMAIN map : PrimAttr(key) \in DOMAIN hs, NEW values
    PROVE  AttributesShown(SetValues(values, hs, atts, map), own)
<1>1. PICK leaf, given, from : leaf = LeafOf(own) /\ given = leaf.attributes /\ from = Whole(own)
  OBVIOUS
<1>2. leaf \in Leaves
  BY <1>1 DEF InLeaf
<1>3. SoundForms(leaf.attributes) /\ map = AttributeMap(leaf, from)
  BY <1>1, <1>2, LeafForms
<1>4. ASSUME NEW key \in Keys \cap DOMAIN given, Plain(PrimAttr(key))
      PROVE  /\ key \in DOMAIN map
             /\ FormOf("attribute", key, given[key]) \in Given(PrimAttr(key))
             /\ IsValue(map[key], given[key], "attribute", key, from)
  <2>1. key \in DOMAIN map
    BY <1>1, <1>2, <1>3, <1>4, PlainInMaps
  <2>2. FormOf("attribute", key, given[key]) \in Given(PrimAttr(key))
    BY <1>1, <1>2, FormsGiven
  <2> QED
    BY <1>1, <1>3, <2>1, <2>2, AttributeValues
<1>5. Emits("attribute")
  BY DEF Emits
<1>6. ShownAll(SetValues(values, hs, atts, map), given, Keys \cap DOMAIN given, "attribute", from)
  BY <1>4, <1>5, AllSet
<1> QED
  BY <1>1, <1>6 DEF AttributesShown

-----------------------------------------------------------------------------
(* Which map each step of the loop converts.                               *)

Own == OfMesh(count, at)

LEMMA AtMesh ==
    ASSUME PhaseInv, Converting
    PROVE  /\ InLeaf(Own) /\ IsRange(ranges[at], at) /\ Len(ranges) = Len(Meshes)
           /\ Own = [shape |-> count, leaf |-> Meshes[at].leaf, mesh |-> Meshes[at].mesh]
           /\ Whole(Own) = [shape |-> count, leaf |-> Meshes[at].leaf, mesh |-> 0]
<1>1. /\ leaves \in Seq(Shapes) /\ leaves # <<>> /\ at \in 1 .. Len(Meshes) /\ ranges = FaceRanges
  BY DEF PhaseInv
<1>2. IsRange(ranges[at], at) /\ Len(ranges) = Len(Meshes)
  BY <1>1, RangesAre
<1>3. Meshes = MeshesOf(leaves[count]) /\ count \in 1 .. count
  BY <1>1, LastShape DEF Meshes
<1>4. PICK last : last = count
  OBVIOUS
<1>5. InLeaf(OfMesh(last, at))
  BY <1>1, <1>3, <1>4, LeafOfMesh
<1>6. Own = [shape |-> count, leaf |-> Meshes[at].leaf, mesh |-> Meshes[at].mesh]
  BY <1>3 DEF Own, OfMesh
<1>7. Whole(Own) = [shape |-> count, leaf |-> Meshes[at].leaf, mesh |-> 0]
  BY <1>6 DEF Whole
<1> QED
  BY <1>2, <1>4, <1>5, <1>6, <1>7 DEF Own

LEMMA MaterialStep ==
    ASSUME PhaseInv, ConvertMaterial, emit.materials
    PROVE  Converts(MaterialMap(LeafOf(Own).meshes[Own.mesh].material, Own), "material", Own)
<1>1. Converting
  BY DEF ConvertMaterial, Converting
<1>2. PICK own, leaf, m, map : /\ own = Own /\ leaf = LeafOf(own) /\ m = own.mesh
                               /\ map = MaterialMap(leaf.meshes[m].material, own)
  OBVIOUS
<1>3. leaf \in Leaves /\ m \in DOMAIN leaf.meshes
  BY <1>1, <1>2, AtMesh DEF InLeaf
<1>4. ranges[at].material = map
  <2>1. own.shape = count /\ own.leaf = Meshes[at].leaf /\ own.mesh = Meshes[at].mesh
    BY <1>1, <1>2, AtMesh
  <2>2. leaf = leaves[count][Meshes[at].leaf]
    BY <1>2, <2>1 DEF LeafOf
  <2>3. ranges[at].material = MaterialMap(leaf.meshes[m].material, own)
    BY <1>1, <1>2, <2>1, <2>2, AtMesh DEF IsRange, Own
  <2> QED
    BY <1>2, <2>3
<1>5. IsMap(map, "material", own)
  BY <1>2, <1>3, MapsOfLeaf
<1>6. Convert(map, FALSE)
  BY <1>4 DEF ConvertMaterial
<1>7. Convert(map, "material" = "attribute")
  <2>1. ("material" = "attribute") = FALSE
    OBVIOUS
  <2> QED
    BY <1>6, <2>1
<1>8. UNCHANGED settings
  BY DEF ConvertMaterial
<1> QED
  BY <1>2, <1>5, <1>7, <1>8 DEF Converts

LEMMA ReportStep ==
    ASSUME PhaseInv, ConvertReport, emit.reports
    PROVE  Converts(ReportMap(LeafOf(Own).report, Whole(Own)), "report", Whole(Own))
<1>1. Converting
  BY DEF ConvertReport, Converting
<1>2. PICK own, leaf, from, map : /\ own = Own /\ leaf = LeafOf(own) /\ from = Whole(own)
                                  /\ map = ReportMap(leaf.report, from)
  OBVIOUS
<1>3. leaf \in Leaves
  BY <1>1, <1>2, AtMesh DEF InLeaf
<1>4. ranges[at].report = map
  <2>1. own.shape = count /\ own.leaf = Meshes[at].leaf
    BY <1>1, <1>2, AtMesh
  <2>2. leaf = leaves[count][Meshes[at].leaf]
    BY <1>2, <2>1 DEF LeafOf
  <2>3. ranges[at].report = ReportMap(leaf.report, from)
    BY <1>1, <1>2, <2>2, AtMesh DEF IsRange
  <2> QED
    BY <1>2, <2>3
<1>5. IsMap(map, "report", from)
  BY <1>2, <1>3, MapsOfLeaf
<1>6. Convert(map, FALSE)
  BY <1>4 DEF ConvertReport
<1>7. Convert(map, "report" = "attribute")
  <2>1. ("report" = "attribute") = FALSE
    OBVIOUS
  <2> QED
    BY <1>6, <2>1
<1>8. UNCHANGED settings
  BY DEF ConvertReport
<1> QED
  BY <1>2, <1>5, <1>7, <1>8 DEF Converts

(* With a shape id per range, the attributes are those of the leaf.        *)
AttributesConverted ==
    \/ \E map, from : /\ Converts(map, "attribute", from)
                      /\ PerRange(count) => /\ from = Whole(Own)
                                            /\ map = AttributeMap(LeafOf(Own), Whole(Own))
    \/ /\ Skip
       /\ UNCHANGED settings
       /\ PerRange(count) /\ emit.attributes =>
            DOMAIN AttributeMap(LeafOf(Own), Whole(Own)) = {}

LEMMA OwnId ==
    ASSUME PhaseInv, Converting, PerRange(count)
    PROVE  at <= Len(shapeIDs) /\ shapeIDs[at] = ShapeIdOf(count, Own.leaf)
<1>1. PICK last, shape, n : last = count /\ shape = leaves[last] /\ n = Len(MeshesOf(shape))
  OBVIOUS
<1>2. /\ leaves \in Seq(Shapes) /\ leaves # <<>> /\ at \in 1 .. n /\ shapeIDs = InstanceShapeIds
  BY <1>1 DEF PhaseInv, Meshes
<1>3. shape \in Shapes
  BY <1>1, <1>2, LastShape
<1>4. n \in Nat
  BY <1>1, <1>3, MeshFound
<1>5. PICK places : places = LeavesWithGeometry(shape)
  OBVIOUS
<1>6. Len(places) = n
  BY <1>1, <1>5 DEF PerRange
<1>7. places[at] = MeshesOf(shape)[at].leaf
  BY <1>1, <1>2, <1>3, <1>5, <1>6, LeavesInOrder
<1>8. DOMAIN places = 1 .. n
  BY <1>3, <1>5, <1>6, LeavesListed
<1>9. shapeIDs = [j \in 1 .. n |-> ShapeIdOf(last, places[j])]
  BY <1>1, <1>2, <1>5, <1>8 DEF InstanceShapeIds, Instances, ShapeId
<1>10. Len(shapeIDs) = n /\ shapeIDs[at] = ShapeIdOf(last, places[at])
  BY <1>2, <1>4, <1>9
<1>11. Own.leaf = MeshesOf(shape)[at].leaf
  BY <1>1 DEF Own, OfMesh
<1> QED
  BY <1>1, <1>2, <1>4, <1>7, <1>10, <1>11

LEMMA AttributeStep ==
    ASSUME PhaseInv, BuilderInv, ConvertAttributes
    PROVE  AttributesConverted
<1>1. Converting /\ pc = "attributes" /\ UNCHANGED settings
  BY DEF ConvertAttributes, Converting
<1>2. PICK own, last : own = Own /\ last = count
  OBVIOUS
<1>3. /\ InLeaf(own) /\ own.shape = last
      /\ Whole(own) = [shape |-> last, leaf |-> own.leaf, mesh |-> 0]
  <2>1. Own = [shape |-> count, leaf |-> Meshes[at].leaf, mesh |-> Meshes[at].mesh]
    BY <1>1, AtMesh
  <2>2. Own.shape = count /\ Own.leaf = Meshes[at].leaf
    BY <2>1
  <2> QED
    BY <1>1, <1>2, <2>2, AtMesh
<1>4. /\ leaves \in Seq(Shapes) /\ leaves # <<>> /\ last \in 1 .. count
      /\ Len(leaves) <= MaxInitialShapes
      /\ own.leaf \in DOMAIN leaves[last] /\ LeafOf(own) = leaves[last][own.leaf]
  BY <1>1, <1>2, <1>3, LastShape DEF PhaseInv, InLeaf, LeafOf
<1>5. LeafMap(last, own.leaf) = AttributeMap(LeafOf(own), Whole(own))
  BY <1>3, <1>4 DEF LeafMap
<1>6. PICK id : /\ id \in IF at <= Len(shapeIDs) THEN {shapeIDs[at]} ELSE DOMAIN builders \cup {NoShapeId}
                /\ IF id \in DOMAIN builders THEN Convert(builders[id], TRUE) ELSE Skip
  BY DEF ConvertAttributes
<1>7. PerRange(count) => id = ShapeIdOf(last, own.leaf)
  BY <1>1, <1>2, <1>6, OwnId
<1>8. CASE id \in DOMAIN builders
  <2>1. /\ emit.attributes
        /\ \E s \in 1 .. count : \E l \in DOMAIN leaves[s] : IsBuilderOf(id, s, l)
    BY <1>8 DEF BuilderInv
  <2>2. PICK s \in 1 .. count : \E l \in DOMAIN leaves[s] : IsBuilderOf(id, s, l)
    BY <2>1
  <2>3. PICK l \in DOMAIN leaves[s] : IsBuilderOf(id, s, l)
    BY <2>2
  <2>4. PICK map, from : map = LeafMap(s, l) /\ from = [shape |-> s, leaf |-> l, mesh |-> 0]
    OBVIOUS
  <2>5. id = ShapeIdOf(s, l) /\ builders[id] = map
    BY <2>3, <2>4 DEF IsBuilderOf
  <2>6. leaves[s][l] \in Leaves
    <3>1. leaves[s] \in Shapes
      BY <1>4, ShapeAt
    <3> QED
      BY <3>1, ShapeFacts
  <2>7. IsMap(map, "attribute", from)
    BY <2>1, <2>4, <2>6, MapsOfLeaf DEF LeafMap
  <2>8. Convert(map, "attribute" = "attribute")
    <3>1. ("attribute" = "attribute") = TRUE
      OBVIOUS
    <3>2. Convert(map, TRUE)
      BY <1>6, <1>8, <2>5
    <3> QED
      BY <3>1, <3>2
  <2>9. Converts(map, "attribute", from)
    BY <1>1, <2>7, <2>8 DEF Converts
  <2>10. ASSUME PerRange(count)
         PROVE  from = Whole(own) /\ map = AttributeMap(LeafOf(own), Whole(own))
    <3>1. ShapeIdOf(s, l) = ShapeIdOf(last, own.leaf)
      BY <1>7, <2>5, <2>10
    <3>2. s = last /\ l = own.leaf
      BY <1>4, <3>1, LeafIds
    <3> QED
      BY <1>3, <1>5, <2>4, <3>2
  <2> QED
    BY <1>2, <2>9, <2>10 DEF AttributesConverted
<1>9. CASE id \notin DOMAIN builders
  <2>1. Skip
    BY <1>6, <1>9
  <2>2. ASSUME PerRange(count), emit.attributes
        PROVE  DOMAIN AttributeMap(LeafOf(own), Whole(own)) = {}
    <3> SUFFICES ASSUME DOMAIN LeafMap(last, own.leaf) # {} PROVE FALSE
      BY <1>5
    <3>1. Came(last, own.leaf)
      BY <1>1 DEF Came
    <3>2. ShapeIdOf(last, own.leaf) \in DOMAIN builders
      BY <1>4, <2>2, <3>1 DEF BuilderInv
    <3> QED
      BY <1>7, <1>9, <2>2, <3>2
  <2> QED
    BY <1>1, <1>2, <2>1, <2>2 DEF AttributesConverted
<1> QED
  BY <1>8, <1>9

-----------------------------------------------------------------------------
(* What a step of the loop does to the values of one primitive.            *)

Same(new, old) ==
    DOMAIN new \subseteq DOMAIN old /\ \A name \in DOMAIN new : new[name] = old[name]

Stays(new, old, from, now, kind) ==
    /\ ~now => Same(new, old)
    /\ MaterialShown(old, from) /\ (now => kind # "material") => MaterialShown(new, from)
    /\ ReportShown(old, from) /\ (now => kind # "report") => ReportShown(new, from)
    /\ AttributesShown(old, from) /\ (now => kind # "attribute") => AttributesShown(new, from)

Gets(new, old, from, kind) ==
    /\ OwnValues(old, from) /\ (kind = "attribute" => PerRange(count)) => OwnValues(new, from)
    /\ kind = "material" /\ emit.materials => MaterialShown(new, from)
    /\ kind = "report" /\ emit.reports => ReportShown(new, from)
    /\ kind = "attribute" /\ emit.attributes /\ PerRange(count) => AttributesShown(new, from)

Writes(i, kind) ==
    /\ Stays(detail'[i].values, detail[i].values, detail[i].from, Now(i), kind)
    /\ Now(i) => Gets(detail'[i].values, detail[i].values, detail[i].from, kind)

LEMMA ConvertStays ==
    ASSUME NEW i \in DOMAIN detail, InLeaf(detail[i].from), HandleInv,
           NEW map, NEW kind, NEW source, IsMap(map, kind, source), IsConverted(i, map)
    PROVE  Stays(detail'[i].values, detail[i].values, detail[i].from, Now(i), kind)
<1>1. PICK hs, atts, old, new, from :
        /\ hs = handles' /\ atts = attributes'
        /\ old = detail[i].values /\ new = detail'[i].values /\ from = detail[i].from
  OBVIOUS
<1>2. PICK kept, set : /\ kept = KeptValues(old, attributes, atts)
                       /\ set = SetValues(kept, hs, atts, map)
  OBVIOUS
<1>3. /\ AreHandles(hs, atts) /\ AreAttributes(atts) /\ DOMAIN attributes \subseteq DOMAIN atts
      /\ new = IF Now(i) THEN set ELSE kept
  BY <1>1, <1>2 DEF IsConverted
<1>4. AreAttributes(attributes)
  BY DEF HandleInv, AreAttributes
<1>5. ASSUME NEW given, NEW keys, NEW other, NEW target,
             \A key \in keys : FormOf(other, key, given[key]) \in Given(PrimAttr(key)),
             ShownAll(old, given, keys, other, target), Now(i) => other # kind
      PROVE  ShownAll(new, given, keys, other, target)
  <2>1. /\ ShownAll(kept, given, keys, other, target)
        /\ other # kind => ShownAll(set, given, keys, other, target)
    BY <1>2, <1>3, <1>4, <1>5, AllStay
  <2> QED
    BY <1>3, <1>5, <2>1
<1>6. PICK leaf, m : leaf = LeafOf(from) /\ m = from.mesh
  OBVIOUS
<1>7. leaf \in Leaves /\ m \in DOMAIN leaf.meshes
  BY <1>1, <1>6 DEF InLeaf
<1>8. MaterialShown(old, from) /\ (Now(i) => kind # "material") => MaterialShown(new, from)
  <2>1. PICK material : material = leaf.meshes[m].material
    OBVIOUS
  <2>2. \A key \in DOMAIN material : FormOf("material", key, material[key]) \in Given(PrimAttr(key))
    BY <1>7, <2>1, FormsGiven
  <2>3. ShownAll(old, material, DOMAIN material, "material", from) /\ (Now(i) => kind # "material")
        => ShownAll(new, material, DOMAIN material, "material", from)
    BY <1>5, <2>2
  <2> QED
    BY <1>6, <2>1, <2>3 DEF MaterialShown
<1>9. ReportShown(old, from) /\ (Now(i) => kind # "report") => ReportShown(new, from)
  <2>1. PICK report : report = leaf.report
    OBVIOUS
  <2>2. \A key \in DOMAIN report : FormOf("report", key, report[key]) \in Given(PrimAttr(key))
    BY <1>7, <2>1, FormsGiven
  <2>3. ShownAll(old, report, DOMAIN report, "report", Whole(from)) /\ (Now(i) => kind # "report")
        => ShownAll(new, report, DOMAIN report, "report", Whole(from))
    BY <1>5, <2>2
  <2> QED
    BY <1>6, <2>1, <2>3 DEF ReportShown
<1>10. AttributesShown(old, from) /\ (Now(i) => kind # "attribute") => AttributesShown(new, from)
  <2>1. PICK given, keys : given = leaf.attributes /\ keys = Keys \cap DOMAIN given
    OBVIOUS
  <2>2. \A key \in keys : FormOf("attribute", key, given[key]) \in Given(PrimAttr(key))
    BY <1>7, <2>1, FormsGiven
  <2>3. ShownAll(old, given, keys, "attribute", Whole(from)) /\ (Now(i) => kind # "attribute")
        => ShownAll(new, given, keys, "attribute", Whole(from))
    BY <1>5, <2>2
  <2> QED
    BY <1>6, <2>1, <2>3 DEF AttributesShown
<1>11. ~Now(i) => Same(new, old)
  BY <1>2, <1>3, KeptSame DEF Same
<1> QED
  BY <1>1, <1>8, <1>9, <1>10, <1>11 DEF Stays

LEMMA ConvertOwn ==
    ASSUME NEW i \in DOMAIN detail, Now(i), NEW map, NEW kind, NEW source,
           IsMap(map, kind, source), IsConverted(i, map),
           OwnValues(detail[i].values, detail[i].from),
           source.shape = detail[i].from.shape, source.leaf = detail[i].from.leaf,
           source.mesh \in {0, detail[i].from.mesh}
    PROVE  OwnValues(detail'[i].values, detail[i].from)
<1>1. PICK hs, atts, old, new, from :
        /\ hs = handles' /\ atts = attributes'
        /\ old = detail[i].values /\ new = detail'[i].values /\ from = detail[i].from
  OBVIOUS
<1>2. PICK kept : kept = KeptValues(old, attributes, atts)
  OBVIOUS
<1>3. AreHandles(hs, atts) /\ new = SetValues(kept, hs, atts, map)
  BY <1>1, <1>2 DEF IsConverted
<1>4. OwnValues(kept, from)
  BY <1>1, <1>2, KeptOwn
<1>5. OwnValues(new, from)
  BY <1>1, <1>3, <1>4, SetOwn
<1> QED
  BY <1>1, <1>5

LEMMA SkipWrites ==
    ASSUME NEW i, detail' = detail, NEW kind,
           Now(i) => /\ kind = "material" => ~emit.materials
                     /\ kind = "report" => ~emit.reports
                     /\ kind = "attribute" /\ emit.attributes /\ PerRange(count) =>
                          AttributesShown(detail[i].values, detail[i].from)
    PROVE  Writes(i, kind)
BY DEF Writes, Stays, Gets, Same

LEMMA NowOwn ==
    ASSUME NEW i, Now(i)
    PROVE  detail[i].from = Own
BY DEF Now, Own

LEMMA MaterialWrites ==
    ASSUME PhaseInv, PrimInv, BlockInv, HandleInv, ConvertMaterial, NEW i \in DOMAIN detail
    PROVE  Writes(i, "material")
<1>1. Converting /\ pc = "materials"
  BY DEF ConvertMaterial, Converting
<1>2. CASE ~emit.materials
  <2>1. detail' = detail
    BY <1>2 DEF ConvertMaterial, Skip, inDetail
  <2> QED
    BY <1>2, <2>1, SkipWrites
<1>3. CASE emit.materials
  <2>1. PICK own, map : own = Own /\ map = MaterialMap(LeafOf(own).meshes[own.mesh].material, own)
    OBVIOUS
  <2>2. Converts(map, "material", own)
    BY <1>3, <2>1, MaterialStep
  <2>3. IsMap(map, "material", own) /\ IsConverted(i, map) /\ InLeaf(detail[i].from) /\ InLeaf(own)
    BY <1>1, <2>1, <2>2, Converted, LeafOfPrim, AtMesh DEF Converts
  <2>4. Stays(detail'[i].values, detail[i].values, detail[i].from, Now(i), "material")
    BY <2>3, ConvertStays
  <2>5. ASSUME Now(i) PROVE Gets(detail'[i].values, detail[i].values, own, "material")
    <3>1. detail[i].from = own
      BY <2>1, <2>5, NowOwn
    <3>2. OwnValues(detail[i].values, own) => OwnValues(detail'[i].values, own)
      BY <2>3, <2>5, <3>1, ConvertOwn
    <3>3. PICK hs, atts, kept :
            /\ hs = handles' /\ atts = attributes'
            /\ kept = KeptValues(detail[i].values, attributes, atts)
      OBVIOUS
    <3>4. /\ AreHandles(hs, atts) /\ AreAttributes(atts)
          /\ \A key \in DOMAIN map : PrimAttr(key) \in DOMAIN hs
          /\ detail'[i].values = SetValues(kept, hs, atts, map)
      BY <2>3, <2>5, <3>3 DEF IsConverted
    <3>5. MaterialShown(detail'[i].values, own)
      BY <1>3, <2>1, <2>3, <3>4, MaterialSet
    <3> QED
      BY <3>2, <3>5 DEF Gets
  <2> QED
    BY <2>1, <2>4, <2>5, NowOwn DEF Writes
<1> QED
  BY <1>2, <1>3

LEMMA ReportWrites ==
    ASSUME PhaseInv, PrimInv, BlockInv, HandleInv, ConvertReport, NEW i \in DOMAIN detail
    PROVE  Writes(i, "report")
<1>1. Converting /\ pc = "reports"
  BY DEF ConvertReport, Converting
<1>2. CASE ~emit.reports
  <2>1. detail' = detail
    BY <1>2 DEF ConvertReport, Skip, inDetail
  <2> QED
    BY <1>2, <2>1, SkipWrites
<1>3. CASE emit.reports
  <2>1. PICK own, map : own = Own /\ map = ReportMap(LeafOf(own).report, Whole(own))
    OBVIOUS
  <2>2. Converts(map, "report", Whole(own))
    BY <1>3, <2>1, ReportStep
  <2>3. IsMap(map, "report", Whole(own)) /\ IsConverted(i, map)
        /\ InLeaf(detail[i].from) /\ InLeaf(own)
    BY <1>1, <2>1, <2>2, Converted, LeafOfPrim, AtMesh DEF Converts
  <2>4. Stays(detail'[i].values, detail[i].values, detail[i].from, Now(i), "report")
    BY <2>3, ConvertStays
  <2>5. ASSUME Now(i) PROVE Gets(detail'[i].values, detail[i].values, own, "report")
    <3>1. detail[i].from = own
      BY <2>1, <2>5, NowOwn
    <3>2. OwnValues(detail[i].values, own) => OwnValues(detail'[i].values, own)
      <4>1. PICK whole : whole = Whole(own)
        OBVIOUS
      <4>2. whole.shape = own.shape /\ whole.leaf = own.leaf /\ whole.mesh = 0
        BY <2>3, <4>1 DEF Whole, InLeaf
      <4> QED
        BY <2>3, <2>5, <3>1, <4>1, <4>2, ConvertOwn
    <3>3. PICK hs, atts, kept :
            /\ hs = handles' /\ atts = attributes'
            /\ kept = KeptValues(detail[i].values, attributes, atts)
      OBVIOUS
    <3>4. /\ AreHandles(hs, atts) /\ AreAttributes(atts)
          /\ \A key \in DOMAIN map : PrimAttr(key) \in DOMAIN hs
          /\ detail'[i].values = SetValues(kept, hs, atts, map)
      BY <2>3, <2>5, <3>3 DEF IsConverted
    <3>5. ReportShown(detail'[i].values, own)
      BY <1>3, <2>1, <2>3, <3>4, ReportSet
    <3> QED
      BY <3>2, <3>5 DEF Gets
  <2> QED
    BY <2>1, <2>4, <2>5, NowOwn DEF Writes
<1> QED
  BY <1>2, <1>3

LEMMA AttributeWrites ==
    ASSUME PhaseInv, PrimInv, BlockInv, BuilderInv, HandleInv, ConvertAttributes,
           NEW i \in DOMAIN detail
    PROVE  Writes(i, "attribute")
<1>1. Converting /\ pc = "attributes"
  BY DEF ConvertAttributes, Converting
<1>2. PICK own, whole : own = Own /\ whole = Whole(own)
  OBVIOUS
<1>3. InLeaf(detail[i].from) /\ InLeaf(own)
  BY <1>1, <1>2, LeafOfPrim, AtMesh
<1>4. CASE \E map, from : /\ Converts(map, "attribute", from)
                          /\ PerRange(count) => /\ from = Whole(Own)
                                                /\ map = AttributeMap(LeafOf(Own), Whole(Own))
  <2>1. PICK map, from : /\ Converts(map, "attribute", from)
                         /\ PerRange(count) => /\ from = whole
                                               /\ map = AttributeMap(LeafOf(own), whole)
    BY <1>2, <1>4
  <2>2. IsMap(map, "attribute", from) /\ IsConverted(i, map)
    BY <1>1, <2>1, Converted DEF Converts
  <2>3. Stays(detail'[i].values, detail[i].values, detail[i].from, Now(i), "attribute")
    BY <1>3, <2>2, ConvertStays
  <2>4. ASSUME Now(i), PerRange(count), OwnValues(detail[i].values, own)
        PROVE  OwnValues(detail'[i].values, own)
    <3>1. detail[i].from = own
      BY <1>2, <2>4, NowOwn
    <3>2. whole.shape = own.shape /\ whole.leaf = own.leaf /\ whole.mesh = 0 /\ from = whole
      BY <1>2, <1>3, <2>1, <2>4 DEF Whole, InLeaf
    <3> QED
      BY <2>2, <2>4, <3>1, <3>2, ConvertOwn
  <2>5. ASSUME Now(i), PerRange(count), emit.attributes
        PROVE  AttributesShown(detail'[i].values, own)
    <3>1. PICK hs, atts, kept :
            /\ hs = handles' /\ atts = attributes'
            /\ kept = KeptValues(detail[i].values, attributes, atts)
      OBVIOUS
    <3>2. /\ AreHandles(hs, atts) /\ AreAttributes(atts)
          /\ \A key \in DOMAIN map : PrimAttr(key) \in DOMAIN hs
          /\ detail'[i].values = SetValues(kept, hs, atts, map)
      BY <2>2, <2>5, <3>1 DEF IsConverted
    <3>3. map = AttributeMap(LeafOf(own), Whole(own))
      BY <1>2, <2>1, <2>5
    <3> QED
      BY <1>3, <2>5, <3>2, <3>3, AttributesSet
  <2>6. Now(i) => Gets(detail'[i].values, detail[i].values, own, "attribute")
    BY <2>4, <2>5 DEF Gets
  <2> QED
    BY <1>2, <2>3, <2>6, NowOwn DEF Writes
<1>5. CASE /\ Skip
           /\ PerRange(count) /\ emit.attributes =>
                DOMAIN AttributeMap(LeafOf(Own), Whole(Own)) = {}
  <2>1. detail' = detail
    BY <1>5 DEF Skip, inDetail
  <2>2. ASSUME PerRange(count), emit.attributes PROVE AttributesShown(detail[i].values, own)
    <3>1. PICK leaf : leaf = LeafOf(own)
      OBVIOUS
    <3>2. leaf \in Leaves
      BY <1>3, <3>1 DEF InLeaf
    <3>3. DOMAIN AttributeMap(leaf, whole) = {}
      BY <1>2, <1>5, <2>2, <3>1
    <3>4. \A key \in Keys \cap DOMAIN leaf.attributes : ~Plain(PrimAttr(key))
      BY <3>2, <3>3, PlainInMaps
    <3> QED
      BY <3>1, <3>4 DEF AttributesShown, ShownAll
  <2> QED
    BY <1>2, <2>1, <2>2, NowOwn, SkipWrites
<1> QED
  BY <1>4, <1>5, AttributeStep DEF AttributesConverted

-----------------------------------------------------------------------------
(* The values from one state to the next.                                  *)

LEMMA Apart ==
    ASSUME PhaseInv, PrimInv, NEW i \in DOMAIN detail
    PROVE  /\ ~(Past(i) /\ Now(i))
           /\ ~Converting => Past(i) /\ ~Now(i)
<1>1. ASSUME Past(i), Now(i) PROVE FALSE
  <2>1. Converting /\ detail[i].from = OfMesh(count, at)
    BY <1>1 DEF Now
  <2>2. detail[i].from.shape = count
    BY <2>1 DEF OfMesh
  <2>3. PICK j \in 1 .. at - 1 : detail[i].from = OfMesh(count, j)
    BY <1>1, <2>1, <2>2 DEF Past
  <2>4. PICK n, last : n = Len(Meshes) /\ last = count
    OBVIOUS
  <2>5. leaves \in Seq(Shapes) /\ last \in 1 .. count /\ at \in 1 .. n /\ n \in Nat
        /\ n = Len(MeshesOf(leaves[last]))
    BY <2>1, <2>4, LastShape, MeshFound DEF PhaseInv, Meshes
  <2>6. j \in 1 .. n /\ j # at
    BY <2>5
  <2>7. OfMesh(last, j) = OfMesh(last, at)
    BY <2>1, <2>3, <2>4
  <2> QED
    BY <2>5, <2>6, <2>7, OfOneMesh
<1> QED
  BY <1>1 DEF Past, Now

LEMMA LoopPlaces ==
    ASSUME PhaseInv, PrimInv, LoopStep, NEW i \in DOMAIN detail
    PROVE  /\ pc \in {"materials", "reports"} => (Past(i)' <=> Past(i)) /\ (Now(i)' <=> Now(i))
           /\ pc = "attributes" =>
                /\ Past(i)' => pc' = "return" \/ Past(i) \/ Now(i)
                /\ pc' = "return" => Past(i) \/ Now(i)
                /\ Past(i) \/ Now(i) => Past(i)' /\ ~Now(i)'
                /\ Now(i)' => pc' = "materials"
<1>1. PICK from, last, n, a : from = detail[i].from /\ last = count /\ n = Len(Meshes) /\ a = at
  OBVIOUS
<1>2. /\ leaves \in Seq(Shapes) /\ last \in 1 .. count /\ a \in 1 .. n /\ n \in Nat
      /\ n = Len(MeshesOf(leaves[last])) /\ Len(ranges) = n /\ Converting
  BY <1>1, LastShape, MeshFound, RangesAre DEF PhaseInv, LoopStep, Meshes
<1>3. /\ detail'[i].from = from /\ count' = last
      /\ \A j : OfMesh(last, j)' = OfMesh(last, j)
  <2>1. leaves' = leaves /\ count' = count
    BY SameLeaves DEF LoopStep
  <2> QED
    BY <1>1, <2>1 DEF LoopStep, Rewritten, OfMesh
<1>4. PICK mesh : mesh = [j \in 1 .. n |-> OfMesh(last, j)]
  OBVIOUS
<1>5. \A j \in 1 .. n : \A k \in 1 .. n : mesh[j] = mesh[k] => j = k
  BY <1>2, <1>4, OfOneMesh
<1>6. \A j \in 1 .. n : mesh[j].shape = last
  BY <1>4 DEF OfMesh
<1>7. from.shape = last => \E j \in 1 .. n : from = mesh[j]
  <2> SUFFICES ASSUME from.shape = last PROVE \E j \in 1 .. n : from = mesh[j]
    OBVIOUS
  <2>1. PICK s \in 1 .. count :
          \E j \in 1 .. Len(MeshesOf(leaves[s])) : \E f : IsPrim(detail[i], s, j, f)
    BY DEF PrimInv
  <2>2. PICK j \in 1 .. Len(MeshesOf(leaves[s])) : \E f : IsPrim(detail[i], s, j, f)
    BY <2>1
  <2>3. from = OfMesh(s, j)
    BY <1>1, <2>2 DEF IsPrim
  <2>4. s = last
    BY <2>3 DEF OfMesh
  <2> QED
    BY <1>2, <1>4, <2>2, <2>3, <2>4
<1>8. Past(i) <=> (from.shape = last => \E j \in 1 .. a - 1 : from = mesh[j])
  <2>1. \A j \in 1 .. a - 1 : j \in 1 .. n
    BY <1>2
  <2> QED
    BY <1>1, <1>2, <1>4, <2>1 DEF Past
<1>9. Now(i) <=> from = mesh[a]
  BY <1>1, <1>2, <1>4 DEF Now
<1>10. CASE pc \in {"materials", "reports"}
  <2>1. at' = a /\ Converting'
    BY <1>1, <1>10 DEF LoopStep, Converting
  <2>2. Past(i)' <=> Past(i)
    BY <1>1, <1>2, <1>3, <2>1 DEF Past
  <2>3. Now(i)' <=> Now(i)
    BY <1>1, <1>2, <1>3, <2>1 DEF Now
  <2> QED
    BY <1>10, <2>2, <2>3
<1>11. CASE pc = "attributes" /\ pc' = "materials"
  <2>1. at' = a + 1 /\ a < n /\ Converting'
    BY <1>1, <1>2, <1>11 DEF LoopStep, Converting
  <2>2. a + 1 \in 1 .. n /\ (a + 1) - 1 = a
    BY <1>2, <2>1
  <2>3. Past(i)' <=> (from.shape = last => \E j \in 1 .. a : from = mesh[j])
    <3>1. \A j \in 1 .. a : j \in 1 .. n
      BY <1>2
    <3>2. Past(i)' <=> (from.shape = last => \E j \in 1 .. (a + 1) - 1 : from = OfMesh(last, j))
      BY <1>3, <2>1 DEF Past
    <3> QED
      BY <1>4, <2>2, <3>1, <3>2
  <2>4. Now(i)' <=> from = mesh[a + 1]
    <3>1. Now(i)' <=> from = OfMesh(last, a + 1)
      BY <1>3, <2>1 DEF Now
    <3> QED
      BY <1>4, <2>2, <3>1
  <2>5. \A j \in 1 .. a : j = a \/ j \in 1 .. a - 1
    BY <1>2
  <2>6. Past(i)' => Past(i) \/ Now(i)
    BY <1>8, <1>9, <2>3, <2>5
  <2>7. Past(i) \/ Now(i) => Past(i)'
    <3>1. a \in 1 .. a /\ \A j \in 1 .. a - 1 : j \in 1 .. a
      BY <1>2
    <3> QED
      BY <1>8, <1>9, <2>3, <3>1
  <2>8. Now(i)' => ~Past(i) /\ ~Now(i)
    <3>1. a \in 1 .. n /\ a # a + 1 /\ \A j \in 1 .. a - 1 : j \in 1 .. n /\ j # a + 1
      BY <1>2
    <3> QED
      BY <1>5, <1>6, <1>8, <1>9, <2>2, <2>4, <3>1
  <2> QED
    BY <1>11, <2>6, <2>7, <2>8
<1>12. CASE pc = "attributes" /\ pc' = "return"
  <2>1. ~(a < n) /\ ~Converting'
    BY <1>1, <1>2, <1>12 DEF LoopStep, Converting
  <2>2. \A j \in 1 .. n : j = a \/ j \in 1 .. a - 1
    BY <1>2, <2>1
  <2>3. Past(i) \/ Now(i)
    BY <1>7, <1>8, <1>9, <2>2
  <2>4. Past(i)' /\ ~Now(i)'
    BY <2>1 DEF Past, Now
  <2> QED
    BY <1>12, <2>3, <2>4
<1> QED
  BY <1>10, <1>11, <1>12 DEF LoopStep, Converting

(* Where nothing is written and the thread is not at the primitive.        *)
LEMMA ValueStays ==
    ASSUME UNCHANGED settings, NEW i, InLeaf(detail[i].from), detail'[i] = detail[i],
           leaves'[detail[i].from.shape] = leaves[detail[i].from.shape],
           ValueOf(i), Past(i), ~Now(i)'
    PROVE  Past(i)' => ValueOf(i)'
<1>1. /\ emit' = emit
      /\ ShowsMaterial(i) => ShowsMaterial(i)'
      /\ ShowsReport(i) => ShowsReport(i)'
      /\ ShowsAttributes(i) => ShowsAttributes(i)'
      /\ PerFace(i)' <=> PerFace(i)
  BY ShownNow, ShownNext DEF settings
<1> QED
  BY <1>1 DEF ValueOf

LEMMA ValueLoop ==
    ASSUME PhaseInv, PrimInv, LoopStep, NEW i \in DOMAIN detail, ValueOf(i),
           NEW kind, Writes(i, kind),
           \/ pc = "materials" /\ kind = "material"
           \/ pc = "reports" /\ kind = "report"
           \/ pc = "attributes" /\ kind = "attribute"
    PROVE  ValueOf(i)'
<1>1. PICK old, new, from : /\ old = detail[i].values /\ new = detail'[i].values
                            /\ from = detail[i].from
  OBVIOUS
<1>2. detail'[i].from = from /\ UNCHANGED settings /\ leaves' = leaves /\ emit' = emit
  BY <1>1 DEF LoopStep, Rewritten, settings
<1>3. /\ ShowsMaterial(i) <=> MaterialShown(old, from)
      /\ ShowsReport(i) <=> ReportShown(old, from)
      /\ ShowsAttributes(i) <=> AttributesShown(old, from)
  BY <1>1, LeafOfPrim, ShownNow
<1>4. /\ ShowsMaterial(i)' <=> MaterialShown(new, from)
      /\ ShowsReport(i)' <=> ReportShown(new, from)
      /\ ShowsAttributes(i)' <=> AttributesShown(new, from)
      /\ PerFace(i)' <=> PerFace(i)
  BY <1>1, <1>2, LeafOfPrim, ShownNext
<1>5. Stays(new, old, from, Now(i), kind) /\ (Now(i) => Gets(new, old, from, kind))
  BY <1>1 DEF Writes
<1>6. ~(Past(i) /\ Now(i))
  BY Apart
<1>7. /\ Past(i) => /\ emit.materials => ShowsMaterial(i)
                    /\ emit.reports => ShowsReport(i)
                    /\ emit.attributes /\ PerFace(i) => ShowsAttributes(i)
      /\ Now(i) => /\ OwnValues(old, from)
                   /\ emit.materials /\ pc # "materials" => ShowsMaterial(i)
                   /\ emit.reports /\ pc = "attributes" => ShowsReport(i)
      /\ ~Past(i) /\ ~Now(i) => DOMAIN old = {}
  BY <1>1 DEF ValueOf
<1>8. ~Now(i) /\ DOMAIN old = {} => DOMAIN new = {}
  BY <1>5 DEF Stays, Same
<1>9. Past(i) => /\ emit.materials => ShowsMaterial(i)'
                 /\ emit.reports => ShowsReport(i)'
                 /\ emit.attributes /\ PerFace(i)' => ShowsAttributes(i)'
  BY <1>3, <1>4, <1>5, <1>6, <1>7 DEF Stays
<1>10. Now(i) => (PerFace(i) <=> PerRange(count))
  BY DEF Now, OfMesh, PerFace
<1>11. CASE pc = "materials" /\ kind = "material"
  <2>1. pc' = "reports" /\ (Past(i)' <=> Past(i)) /\ (Now(i)' <=> Now(i))
    BY <1>11, LoopPlaces DEF LoopStep
  <2>2. Now(i) => OwnValues(new, from) /\ (emit.materials => ShowsMaterial(i)')
    BY <1>4, <1>5, <1>7, <1>11 DEF Gets
  <2> QED
    BY <1>1, <1>2, <1>7, <1>8, <1>9, <2>1, <2>2 DEF ValueOf
<1>12. CASE pc = "reports" /\ kind = "report"
  <2>1. pc' = "attributes" /\ (Past(i)' <=> Past(i)) /\ (Now(i)' <=> Now(i))
    BY <1>12, LoopPlaces DEF LoopStep
  <2>2. Now(i) => /\ OwnValues(new, from)
                  /\ emit.reports => ShowsReport(i)'
                  /\ emit.materials => ShowsMaterial(i)'
    BY <1>3, <1>4, <1>5, <1>7, <1>12 DEF Gets, Stays
  <2> QED
    BY <1>1, <1>2, <1>7, <1>8, <1>9, <2>1, <2>2 DEF ValueOf
<1>13. CASE pc = "attributes" /\ kind = "attribute"
  <2>1. /\ Past(i)' => pc' = "return" \/ Past(i) \/ Now(i)
        /\ pc' = "return" => Past(i) \/ Now(i)
        /\ Past(i) \/ Now(i) => Past(i)' /\ ~Now(i)'
        /\ Now(i)' => pc' = "materials"
    BY <1>13, LoopPlaces
  <2>2. Now(i) => /\ emit.materials => ShowsMaterial(i)'
                  /\ emit.reports => ShowsReport(i)'
                  /\ emit.attributes /\ PerFace(i)' => ShowsAttributes(i)'
    BY <1>3, <1>4, <1>5, <1>7, <1>10, <1>13 DEF Gets, Stays
  <2>3. CASE Past(i) \/ Now(i)
    BY <1>2, <1>9, <2>1, <2>2, <2>3 DEF ValueOf
  <2>4. CASE ~Past(i) /\ ~Now(i)
    <3>1. ~Past(i)' /\ DOMAIN new = {}
      BY <1>7, <1>8, <2>1, <2>4
    <3>2. OwnValues(new, from)
      BY <3>1 DEF OwnValues
    <3> QED
      BY <1>1, <1>2, <2>1, <3>1, <3>2 DEF ValueOf
  <2> QED
    BY <2>3, <2>4
<1> QED
  BY <1>11, <1>12, <1>13

LEMMA HandleNext ==
    ASSUME PhaseInv, BuilderInv, HandleInv, [Next]_vars
    PROVE  HandleInv'
<1>1. emit \in EmitOptions /\ replaces \in BOOLEAN
  BY DEF PhaseInv
<1>2. AreHandles(handles, attributes) /\ AreAttributes(attributes)
  BY DEF HandleInv, AreHandles, AreAttributes
<1>3. ASSUME UNCHANGED <<settings, handles, attributes>> PROVE HandleInv'
  <2>1. PICK hs, atts : hs = handles /\ atts = attributes
    OBVIOUS
  <2> QED
    BY <1>2, <1>3, <2>1, SameHandles
<1>4. CASE NextInitialShape \/ Forward \/ Deliver \/ UNCHANGED vars
  BY <1>3, <1>4 DEF NextInitialShape, Forward, Deliver, vars, inDetail
<1>5. CASE ConvertMaterial
  BY <1>1, <1>3, <1>5, MaterialStep, HandlesConvert DEF ConvertMaterial, Skip, inDetail
<1>6. CASE ConvertReport
  BY <1>1, <1>3, <1>6, ReportStep, HandlesConvert DEF ConvertReport, Skip, inDetail
<1>7. CASE ConvertAttributes
  BY <1>1, <1>3, <1>7, AttributeStep, HandlesConvert DEF AttributesConverted, Skip, inDetail
<1>8. CASE Return
  <2>1. PICK hs, atts : hs = EmptyMap /\ atts = attributes
    OBVIOUS
  <2>2. AreHandles(hs, atts)
    <3>1. DOMAIN hs = {}
      BY <2>1 DEF EmptyMap
    <3> QED
      BY <3>1 DEF AreHandles
  <2>3. UNCHANGED settings /\ handles' = hs /\ attributes' = atts
    BY <1>8, <2>1 DEF Return, inDetail
  <2> QED
    BY <1>2, <2>1, <2>2, <2>3, SameHandles
<1> QED
  BY <1>4, <1>5, <1>6, <1>7, <1>8 DEF Next

LEMMA ValueDeliver ==
    ASSUME PhaseInv, PrimInv, ValueInv, Deliver
    PROVE  ValueInv'
<1>1. PICK faces, sg, last, n, d :
        /\ faces = Faces(Geometries) /\ sg = SerializeGeometry(Geometries)
        /\ last = count /\ n = Len(Meshes) /\ d = Len(detail)
  OBVIOUS
<1>2. IsDelivered(faces, sg)
  BY <1>1, Delivered
<1>3. /\ leaves \in Seq(Shapes) /\ leaves # <<>> /\ leaves' = leaves /\ count' = last
      /\ pc = "forward" /\ ~Converting /\ UNCHANGED settings /\ at' = 1
      /\ pc' = IF FaceRanges = <<>> THEN "return" ELSE "materials"
  BY <1>1, SameLeaves DEF PhaseInv, Deliver, Converting
<1>4. /\ Len(faces) \in Nat /\ DOMAIN faces = 1 .. Len(faces)
      /\ \A k \in DOMAIN faces : faces[k].mesh \in 1 .. n
  <2>1. SoundMeshes(Geometries) /\ Len(Geometries) = n
    BY <1>1, <1>3, LastShape, GeometriesSound, MeshFound DEF Geometries, Meshes
  <2> QED
    BY <1>1, <2>1, FacesInOrder
<1>5. d \in Nat /\ DOMAIN detail = 1 .. d
  BY <1>1, PrimFacts
<1>6. /\ Len(detail') = d + Len(faces)
      /\ \A i \in 1 .. d : detail'[i] = detail[i] /\ detail[i].from.shape < last
      /\ \A k \in 1 .. Len(faces) : /\ detail'[d + k].values = EmptyMap
                                    /\ detail'[d + k].from = OfMesh(last, faces[k].mesh)
  BY <1>1, <1>2, <1>4, <1>5 DEF IsDelivered, IsPrim
<1>7. ASSUME NEW i \in 1 .. d PROVE ValueOf(i)'
  <2>1. PICK from : from = detail[i].from
    OBVIOUS
  <2>2. detail'[i].from = from /\ from.shape # last
    <3>1. from.shape < last /\ detail'[i].from = from
      BY <1>6, <2>1
    <3>2. last \in Nat
      BY <1>1, <1>3, LastShape
    <3>3. from.shape \in 1 .. last
      BY <1>1, <1>5, <2>1, LeafOfPrim DEF InLeaf
    <3> QED
      BY <3>1, <3>2, <3>3
  <2>3. Past(i)' /\ ~Now(i)'
    BY <1>3, <2>2 DEF Past, Now, OfMesh
  <2>4. Past(i) /\ ValueOf(i)
    BY <1>3, <1>5, Apart DEF ValueInv
  <2> QED
    BY <1>3, <1>5, <1>6, <2>3, <2>4, LeafOfPrim, ValueStays
<1>8. ASSUME NEW k \in 1 .. Len(faces), NEW i, i = d + k PROVE ValueOf(i)'
  <2>1. n # 0
    <3>1. faces[k].mesh \in 1 .. n
      BY <1>4
    <3>2. n \in Nat
      BY <1>1, <1>3, LastShape, MeshFound DEF Meshes
    <3> QED
      BY <3>1, <3>2
  <2>2. FaceRanges # <<>>
    <3>1. Len(FaceRanges) = n
      BY <1>1, <1>3, RangesAre
    <3> QED
      BY <2>1, <3>1
  <2>3. pc' = "materials" /\ Converting'
    BY <1>3, <2>2 DEF Converting
  <2>4. detail'[i].from.shape = last /\ DOMAIN detail'[i].values = {}
    <3>1. PICK prim : prim = detail'[i]
      OBVIOUS
    <3>2. prim.values = EmptyMap /\ prim.from = OfMesh(last, faces[k].mesh)
      BY <1>6, <1>8, <3>1
    <3>3. DOMAIN prim.values = {}
      BY <3>2 DEF EmptyMap
    <3>4. prim.from.shape = last
      BY <3>2 DEF OfMesh
    <3> QED
      BY <3>1, <3>3, <3>4
  <2>5. ~Past(i)'
    <3>1. \A j \in 1 .. 1 - 1 : FALSE
      OBVIOUS
    <3>2. Past(i)' => \E j \in 1 .. 1 - 1 : detail'[i].from = OfMesh(count, j)'
      BY <1>3, <2>3, <2>4 DEF Past
    <3> QED
      BY <3>1, <3>2
  <2>6. OwnValues(detail'[i].values, detail'[i].from)
    BY <2>4 DEF OwnValues
  <2> QED
    BY <2>3, <2>4, <2>5, <2>6 DEF ValueOf
<1>9. ASSUME NEW i \in DOMAIN detail' PROVE i \in 1 .. d \/ \E k \in 1 .. Len(faces) : i = d + k
  <2>1. DOMAIN detail' = 1 .. Len(detail')
    BY <1>2, LenProperties DEF IsDelivered
  <2>2. PICK m : m = Len(faces)
    OBVIOUS
  <2>3. i \in 1 .. d + m /\ m \in Nat
    BY <1>4, <1>6, <1>9, <2>1, <2>2
  <2>4. i \notin 1 .. d => i - d \in 1 .. m /\ i = d + (i - d)
    BY <1>5, <2>3
  <2> QED
    BY <2>2, <2>4
<1>10. \A i \in DOMAIN detail' : ValueOf(i)'
  BY <1>7, <1>8, <1>9
<1> QED
  BY <1>10 DEF ValueInv

LEMMA ValueNext ==
    ASSUME PhaseInv, PrimInv, BlockInv, BuilderInv, HandleInv, ValueInv, [Next]_vars
    PROVE  ValueInv'
<1>1. CASE NextInitialShape \/ Forward \/ Return
  <2>1. /\ ~Converting /\ ~Converting' /\ detail' = detail /\ UNCHANGED settings
        /\ \A s \in 1 .. count : leaves'[s] = leaves[s]
    <3>1. CASE NextInitialShape
      <4>1. PICK n \in 1 .. MaxLeaves :
              \E shape \in [1 .. n -> Leaves] : leaves' = Append(leaves, shape)
        BY <3>1 DEF NextInitialShape
      <4>2. PICK shape \in [1 .. n -> Leaves] : leaves' = Append(leaves, shape)
        BY <4>1
      <4>3. shape \in Shapes /\ leaves \in Seq(Shapes)
        BY DEF Shapes, PhaseInv
      <4>4. \A s \in 1 .. count : leaves'[s] = leaves[s]
        BY <4>2, <4>3, AppendProperties DEF count
      <4> QED
        BY <3>1, <4>4 DEF NextInitialShape, Converting, inDetail
    <3>2. CASE Forward \/ Return
      BY <3>2 DEF Forward, Return, Converting, inDetail
    <3> QED
      BY <1>1, <3>1, <3>2
  <2>2. ASSUME NEW i \in DOMAIN detail PROVE ValueOf(i)'
    <3>1. Past(i) /\ ValueOf(i)
      BY <2>1, Apart DEF ValueInv
    <3>2. Past(i)' /\ ~Now(i)'
      BY <2>1 DEF Past, Now
    <3>3. InLeaf(detail[i].from) /\ detail'[i] = detail[i]
      BY <2>1, LeafOfPrim
    <3>4. leaves'[detail[i].from.shape] = leaves[detail[i].from.shape]
      BY <2>1, <3>3 DEF InLeaf
    <3> QED
      BY <2>1, <3>1, <3>2, <3>3, <3>4, ValueStays
  <2> QED
    BY <2>1, <2>2 DEF ValueInv
<1>2. CASE UNCHANGED vars
  <2>1. \A i : ValueOf(i)' <=> ValueOf(i)
    BY <1>2 DEF vars, settings, inDetail, ValueOf, Past, Now, PerFace, PerRange, OfMesh, count,
                Converting, ShowsMaterial, ShowsReport, ShowsAttributes, Shows, Plain, MeshAt
  <2> QED
    BY <1>2, <2>1 DEF ValueInv, vars, inDetail
<1>3. CASE ConvertMaterial \/ ConvertReport \/ ConvertAttributes
  <2>1. LoopStep
    BY <1>3, LoopSteps
  <2>2. ASSUME NEW i \in DOMAIN detail PROVE ValueOf(i)'
    <3>1. ValueOf(i)
      BY DEF ValueInv
    <3>2. CASE ConvertMaterial
      <4>1. pc = "materials" /\ Writes(i, "material")
        BY <3>2, MaterialWrites DEF ConvertMaterial
      <4> QED
        BY <2>1, <3>1, <4>1, ValueLoop
    <3>3. CASE ConvertReport
      <4>1. pc = "reports" /\ Writes(i, "report")
        BY <3>3, ReportWrites DEF ConvertReport
      <4> QED
        BY <2>1, <3>1, <4>1, ValueLoop
    <3>4. CASE ConvertAttributes
      <4>1. pc = "attributes" /\ Writes(i, "attribute")
        BY <3>4, AttributeWrites DEF ConvertAttributes
      <4> QED
        BY <2>1, <3>1, <4>1, ValueLoop
    <3> QED
      BY <1>3, <3>2, <3>3, <3>4
  <2> QED
    BY <2>1, <2>2 DEF ValueInv, LoopStep, Rewritten
<1> QED
  BY <1>1, <1>2, <1>3, ValueDeliver DEF Next

-----------------------------------------------------------------------------
(* The values.                                                             *)

LEMMA ValuesInit ==
    ASSUME Init
    PROVE  ValuesInv
<1>1. /\ DOMAIN builders = {} /\ DOMAIN handles = {} /\ DOMAIN attributes = {}
      /\ DOMAIN detail = {} /\ leaves = <<>>
  BY DEF Init, EmptyMap
<1>2. count = 0
  BY <1>1 DEF count
<1>3. BuilderInv
  BY <1>1, <1>2 DEF BuilderInv
<1>4. HandleInv
  BY <1>1 DEF HandleInv
<1>5. ValueInv
  BY <1>1 DEF ValueInv
<1> QED
  BY <1>3, <1>4, <1>5 DEF ValuesInv

LEMMA ValuesNext ==
    ASSUME FacesInv, ValuesInv, [Next]_vars
    PROVE  ValuesInv'
BY BuilderNext, HandleNext, ValueNext DEF FacesInv, ValuesInv

(* Each builder has the attributes of one leaf, the handle of a name comes *)
(* from what the rules give under it, and a primitive has been written     *)
(* exactly what the loop has come to.                                      *)
THEOREM ValuesInvHolds == Spec => []ValuesInv
<1>1. Init => ValuesInv
  BY ValuesInit
<1>2. FacesInv /\ ValuesInv /\ [Next]_vars => ValuesInv'
  BY ValuesNext
<1> QED
  BY <1>1, <1>2, FacesInvHolds, PTL DEF Spec

LEMMA ValuesAreKept ==
    ASSUME FacesInv, ValuesInv
    PROVE  KeepsValues
<1> SUFFICES ASSUME pc = "idle", NEW i \in DOMAIN detail
             PROVE  LET shape == leaves[detail[i].from.shape] IN
                    /\ emit.materials => ShowsMaterial(i)
                    /\ emit.reports => ShowsReport(i)
                    /\ (emit.attributes /\ Len(LeavesWithGeometry(shape)) = Len(MeshesOf(shape))) =>
                         ShowsAttributes(i)
  BY DEF KeepsValues
<1>1. Past(i)
  BY DEF Past, Converting
<1>2. ValueOf(i)
  BY DEF ValuesInv, ValueInv
<1> QED
  BY <1>1, <1>2 DEF ValueOf, PerFace, PerRange

(* What the rules give under a plain name reaches the faces it belongs to, *)
(* all of it but empty strings, and is still there when later ranges,      *)
(* calls of add and initial shapes have been added: attributes with as     *)
(* many shape ids as face ranges, materials and reports always.            *)
THEOREM KeepsValuesHolds == Spec => []KeepsValues
<1>1. FacesInv /\ ValuesInv => KeepsValues
  BY ValuesAreKept
<1> QED
  BY <1>1, FacesInvHolds, ValuesInvHolds, PTL

NotForeign(i, name) ==
    LET before == detail[i].values
        values == detail'[i].values
    IN  \/ name \in DOMAIN before /\ before[name] = values[name]
        \/ pc = "attributes" /\ Len(shapeIDs) # Len(ranges)
        \/ \A c \in DOMAIN values[name] : values[name][c] \notin {Zero, Empty} =>
             LET v == values[name][c] IN
             /\ PrimAttr(v.key) = name
             /\ v.i = c
             /\ v.from.shape = detail[i].from.shape
             /\ v.from.leaf = detail[i].from.leaf
             /\ v.from.mesh \in {0, detail[i].from.mesh}

(* The attributes of a range are its own if there is a shape id per range. *)
LEMMA PerRangeIds ==
    ASSUME PhaseInv, Converting
    PROVE  Len(shapeIDs) = Len(ranges) => PerRange(count)
<1>1. PICK last, shape, places : /\ last = count /\ shape = leaves[last]
                                 /\ places = LeavesWithGeometry(shape)
  OBVIOUS
<1>2. /\ leaves \in Seq(Shapes) /\ leaves # <<>> /\ shapeIDs = InstanceShapeIds
      /\ ranges = FaceRanges
  BY DEF PhaseInv
<1>3. shape \in Shapes
  BY <1>1, <1>2, LastShape
<1>4. Len(places) \in Nat /\ DOMAIN places = 1 .. Len(places)
  BY <1>1, <1>3, LeavesListed
<1>5. Len(shapeIDs) = Len(places)
  <2>1. shapeIDs = [j \in 1 .. Len(places) |-> ShapeId(places[j])]
    BY <1>1, <1>2, <1>4 DEF InstanceShapeIds, Instances
  <2> QED
    BY <1>4, <2>1
<1>6. Len(ranges) = Len(MeshesOf(shape))
  BY <1>1, <1>2, RangesAre DEF Meshes
<1> QED
  BY <1>1, <1>5, <1>6 DEF PerRange

LEMMA LoopNotForeign ==
    ASSUME FacesInv, ValuesInv, NEW kind, NEW i \in DOMAIN detail, Writes(i, kind), Converting,
           kind = "attribute" => pc = "attributes", NEW name \in DOMAIN detail'[i].values
    PROVE  NotForeign(i, name)
<1>1. PICK old, new, from : /\ old = detail[i].values /\ new = detail'[i].values
                            /\ from = detail[i].from
  OBVIOUS
<1>2. CASE ~Now(i)
  <2>1. Same(new, old)
    BY <1>1, <1>2 DEF Writes, Stays
  <2>2. name \in DOMAIN old /\ old[name] = new[name]
    BY <1>1, <2>1 DEF Same
  <2> QED
    BY <1>1, <2>2 DEF NotForeign
<1>3. CASE Now(i) /\ pc = "attributes" /\ Len(shapeIDs) # Len(ranges)
  BY <1>3 DEF NotForeign
<1>4. CASE Now(i) /\ ~(pc = "attributes" /\ Len(shapeIDs) # Len(ranges))
  <2>1. OwnValues(old, from)
    BY <1>1, <1>4 DEF ValuesInv, ValueInv, ValueOf
  <2>2. kind = "attribute" => PerRange(count)
    BY <1>4, PerRangeIds DEF FacesInv
  <2>3. OwnValues(new, from)
    BY <1>1, <1>4, <2>1, <2>2 DEF Writes, Gets
  <2>4. \A c \in DOMAIN new[name] : OwnValue(new[name][c], name, c, from)
    BY <1>1, <2>3 DEF OwnValues
  <2> QED
    BY <1>1, <2>4 DEF NotForeign, OwnValue
<1> QED
  BY <1>2, <1>3, <1>4

(* A value that a step writes to a face comes from the material of its own *)
(* mesh, the report of its own leaf or the attributes collected for that   *)
(* leaf, under its own name and in its own component: never from another   *)
(* mesh, leaf or initial shape.  Left out are the attributes of calls with *)
(* fewer shape ids than face ranges.                                       *)
THEOREM NoForeignValuesHolds == Spec => NoForeignValues
<1>1. ASSUME FacesInv, ValuesInv, [Next]_vars, NEW i \in DOMAIN detail,
             NEW name \in DOMAIN detail'[i].values
      PROVE  NotForeign(i, name)
  <2>1. CASE ConvertMaterial
    <3>1. Writes(i, "material") /\ Converting
      BY <1>1, <2>1, MaterialWrites DEF FacesInv, ValuesInv, ConvertMaterial, Converting
    <3> QED
      BY <1>1, <3>1, LoopNotForeign
  <2>2. CASE ConvertReport
    <3>1. Writes(i, "report") /\ Converting
      BY <1>1, <2>2, ReportWrites DEF FacesInv, ValuesInv, ConvertReport, Converting
    <3> QED
      BY <1>1, <3>1, LoopNotForeign
  <2>3. CASE ConvertAttributes
    <3>1. Writes(i, "attribute") /\ Converting /\ pc = "attributes"
      BY <1>1, <2>3, AttributeWrites DEF FacesInv, ValuesInv, ConvertAttributes, Converting
    <3> QED
      BY <1>1, <3>1, LoopNotForeign
  <2>4. CASE NextInitialShape \/ Forward \/ Deliver \/ Return \/ UNCHANGED vars
    <3>1. detail'[i] = detail[i]
      <4>1. CASE Deliver
        BY <1>1, <4>1, Delivered DEF FacesInv, IsDelivered
      <4> QED
        BY <2>4, <4>1 DEF NextInitialShape, Forward, Return, vars, inDetail
    <3> QED
      BY <1>1, <3>1 DEF NotForeign
  <2> QED
    BY <1>1, <2>1, <2>2, <2>3, <2>4 DEF Next
<1>2. FacesInv /\ ValuesInv /\ [Next]_vars =>
        [\A i \in DOMAIN detail : \A name \in DOMAIN detail'[i].values :
           LET before == detail[i].values
               values == detail'[i].values
           IN  \/ name \in DOMAIN before /\ before[name] = values[name]
               \/ pc = "attributes" /\ Len(shapeIDs) # Len(ranges)
               \/ \A c \in DOMAIN values[name] : values[name][c] \notin {Zero, Empty} =>
                    LET v == values[name][c] IN
                    /\ PrimAttr(v.key) = name
                    /\ v.i = c
                    /\ v.from.shape = detail[i].from.shape
                    /\ v.from.leaf = detail[i].from.leaf
                    /\ v.from.mesh \in {0, detail[i].from.mesh}]_vars
  BY <1>1 DEF NotForeign
<1> QED
  BY <1>2, FacesInvHolds, ValuesInvHolds, PTL DEF Spec, NoForeignValues

=============================================================================
