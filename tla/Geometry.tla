------------------------------ MODULE Geometry ------------------------------
(***************************************************************************)
(* How the codec packs the meshes of a call into flat arrays, and how the  *)
(* generate node unpacks them into primitives (serializeGeometry and       *)
(* createPrimitives).  A mesh is                                           *)
(*   [verts, norms : the numbers of its points and normals,                *)
(*    faces : a sequence of [vtx, nrm : the indices of the points and      *)
(*            normals at its corners, holes : the faces that are its holes],*)
(*    uvSets : a sequence of [coords : the number of texture coordinates,  *)
(*             faces : for each face the indices at its corners],          *)
(*    textures : how many uv sets the textures of its material need].      *)
(* Indices count from 0, as in the code.  A point, a normal or a texture   *)
(* coordinate is named by the mesh it is of and its place there.           *)
(*                                                                         *)
(* External: the EncodePreparator delivers a normal for each corner, and   *)
(* texture coordinates for all corners of a face or none; buildBlock makes *)
(* the vertices of the primitives in the order of the indices.             *)
(***************************************************************************)
EXTENDS Naturals, Sequences, SequencesExt, FiniteSetsExt

NoUV == <<>>

Faces(ms) == FlattenSeq([j \in DOMAIN ms |->
               [f \in DOMAIN ms[j].faces |-> [mesh |-> j, face |-> f]]])

FaceAt(ms, p) == ms[p.mesh].faces[p.face]

Verts(ms) == [j \in DOMAIN ms |-> ms[j].verts]
Norms(ms) == [j \in DOMAIN ms |-> ms[j].norms]
FaceCounts(ms) == [j \in DOMAIN ms |-> Len(ms[j].faces)]

(* The sum of the first n numbers.                                         *)
Sum(numbers, n) == SumFunctionOnSet(numbers, 1 .. n)

Shifted(indices, base) == [i \in DOMAIN indices |-> indices[i] + base]

-----------------------------------------------------------------------------
(* serializeGeometry.                                                      *)

(* Pass 1: the most uv sets any mesh has or its material needs.            *)
UVSetCount(ms) == Max({0} \cup UNION {{Len(ms[j].uvSets), ms[j].textures} : j \in DOMAIN ms})

(* What a mesh contributes to a uv set: its own, if that has coordinates,  *)
(* else its first one, else no coordinates and empty faces.                *)
SourceSet(m, set) ==
    IF set <= Len(m.uvSets) /\ m.uvSets[set].coords > 0 THEN set ELSE 1

Source(m, set) ==
    IF m.uvSets = <<>> THEN [coords |-> 0, faces |-> [f \in DOMAIN m.faces |-> <<>>]]
    ELSE m.uvSets[SourceSet(m, set)]

UVFace(ms, set, p) == Source(ms[p.mesh], set).faces[p.face]

(* Variant: the base is advanced by the mesh's own coordinates of the set. *)
UVBase_own(ms, set, j) ==
    Sum([i \in DOMAIN ms |-> IF set <= Len(ms[i].uvSets) THEN ms[i].uvSets[set].coords ELSE 0],
        j - 1)

UVBase(ms, set, j) == Sum([i \in DOMAIN ms |-> Source(ms[i], set).coords], j - 1)

(* Pass 2: the indices of a face, moved behind what the meshes before its  *)
(* own have; the corners in reverse order.                                 *)
VertexIndices(ms, p) == Shifted(Reverse(FaceAt(ms, p).vtx), Sum(Verts(ms), p.mesh - 1))

NormalIndices(ms, p) == Shifted(Reverse(FaceAt(ms, p).nrm), Sum(Norms(ms), p.mesh - 1))

UVIndices(ms, set, p) == Shifted(Reverse(UVFace(ms, set, p)), UVBase(ms, set, p.mesh))

(* Variant: the holes keep the indices they have in their mesh.            *)
HoleIndices_local(ms, p) == FaceAt(ms, p).holes

HoleIndices(ms, p) == Shifted(FaceAt(ms, p).holes, Sum(FaceCounts(ms), p.mesh - 1))

(* Points and normals: so many of each mesh, mesh by mesh.                 *)
Elements(numbers) ==
    FlattenSeq([j \in DOMAIN numbers |-> [i \in 1 .. numbers[j] |-> <<j, i>>]])

UVElements(ms, set) ==
    FlattenSeq([j \in DOMAIN ms |->
                  [i \in 1 .. Source(ms[j], set).coords |-> <<j, SourceSet(ms[j], set), i>>]])

(* The flat arrays.                                                        *)
SerializeGeometry(ms) ==
    LET faces == Faces(ms)
        sets == 1 .. UVSetCount(ms)
    IN
    [coords |-> Elements(Verts(ms)),
     normals |-> Elements(Norms(ms)),
     counts |-> [i \in DOMAIN faces |-> Len(FaceAt(ms, faces[i]).vtx)],
     vertexIndices |-> FlattenSeq([i \in DOMAIN faces |-> VertexIndices(ms, faces[i])]),
     normalIndices |-> FlattenSeq([i \in DOMAIN faces |-> NormalIndices(ms, faces[i])]),
     holeCounts |-> [i \in DOMAIN faces |-> Len(FaceAt(ms, faces[i]).holes)],
     holeIndices |-> FlattenSeq([i \in DOMAIN faces |-> HoleIndices(ms, faces[i])]),
     uvs |-> [set \in sets |-> UVElements(ms, set)],
     uvCounts |-> [set \in sets |-> [i \in DOMAIN faces |-> Len(UVFace(ms, set, faces[i]))]],
     uvIndices |-> [set \in sets |->
                      FlattenSeq([i \in DOMAIN faces |-> UVIndices(ms, set, faces[i])])]]

-----------------------------------------------------------------------------
(* createPrimitives.                                                       *)

(* The uv indices are used up vertex by vertex by the faces that have a    *)
(* uv count.                                                               *)
UVUsed(sg, set) ==
    [g \in DOMAIN sg.counts |-> IF sg.uvCounts[set][g] > 0 THEN sg.counts[g] ELSE 0]

UVAt(sg, set, i, v) ==
    IF sg.uvCounts[set][i] = 0 THEN NoUV
    ELSE sg.uvs[set][sg.uvIndices[set][Sum(UVUsed(sg, set), i - 1) + v] + 1]

(* The corners of the i-th primitive of the block.                         *)
Corners(sg, i) ==
    LET first == Sum(sg.counts, i - 1) IN
    [v \in 1 .. sg.counts[i] |->
       [point |-> sg.coords[sg.vertexIndices[first + v] + 1],
        normal |-> sg.normals[sg.normalIndices[first + v] + 1],
        uv |-> [set \in DOMAIN sg.uvs |-> UVAt(sg, set, i, v)]]]

(* A group for each face that has holes: the face, and as many of the hole *)
(* indices as it has holes.  start is the number of primitives before.     *)
HoleGroup(sg, start, i) ==
    LET pos == Sum(sg.holeCounts, i - 1) IN
    {start + i} \cup {start + sg.holeIndices[pos + h] + 1 : h \in 1 .. sg.holeCounts[i]}

HoleGroups(sg, start) ==
    FlattenSeq([i \in DOMAIN sg.counts |->
                  IF sg.holeCounts[i] > 0 THEN <<HoleGroup(sg, start, i)>> ELSE <<>>])

-----------------------------------------------------------------------------
(* What the corners of a face are in its mesh, whatever else is packed     *)
(* with it.                                                                *)
OwnCorners(ms, j, f) ==
    LET m == ms[j]
        face == m.faces[f]
        size == Len(face.vtx)
        OwnUV(set, c) ==
            IF m.uvSets = <<>> \/ m.uvSets[SourceSet(m, set)].faces[f] = <<>> THEN NoUV
            ELSE <<j, SourceSet(m, set), m.uvSets[SourceSet(m, set)].faces[f][c] + 1>>
    IN  [v \in 1 .. size |->
           [point |-> <<j, face.vtx[size + 1 - v] + 1>>,
            normal |-> <<j, face.nrm[size + 1 - v] + 1>>,
            uv |-> [set \in 1 .. UVSetCount(ms) |-> OwnUV(set, size + 1 - v)]]]

(* What the preparator delivers: indices of points, normals and texture    *)
(* coordinates that exist, a normal for each corner of a face, texture     *)
(* coordinates for all of them or none, and holes of the same mesh.        *)
SoundMesh(m) ==
    /\ {m.verts, m.norms} \subseteq Nat
    /\ m.faces \in Seq([vtx : Seq(0 .. m.verts - 1), nrm : Seq(0 .. m.norms - 1),
                        holes : Seq(0 .. Len(m.faces) - 1)])
    /\ \A f \in DOMAIN m.faces : Len(m.faces[f].nrm) = Len(m.faces[f].vtx)
    /\ m.uvSets \in Seq([coords : Nat, faces : Seq(Seq(Nat))])
    /\ \A set \in DOMAIN m.uvSets :
         LET uvs == m.uvSets[set] IN
         /\ uvs.faces \in Seq(Seq(0 .. uvs.coords - 1))
         /\ Len(uvs.faces) = Len(m.faces)
         /\ \A f \in DOMAIN m.faces : Len(uvs.faces[f]) \in {0, Len(m.faces[f].vtx)}
=============================================================================
