--------------------------- MODULE MCEncodeShapes ---------------------------
(* Small instances of EncodeShapes for TLC.                                *)
EXTENDS EncodeShapes

Face(vtx, nrm, holes) == [vtx |-> vtx, nrm |-> nrm, holes |-> holes]

(* Two triangles that share an edge, without uv sets.                      *)
Bare == [verts |-> 4, norms |-> 2,
         faces |-> <<Face(<<0, 1, 2>>, <<0, 0, 0>>, <<>>), Face(<<2, 1, 3>>, <<1, 1, 0>>, <<>>)>>,
         uvSets |-> <<>>, textures |-> 0]

(* A quad with a hole behind it, one uv set; the textures need three.      *)
Window == [verts |-> 7, norms |-> 1,
           faces |-> <<Face(<<4, 5, 6>>, <<0, 0, 0>>, <<>>),
                       Face(<<0, 1, 2, 3>>, <<0, 0, 0, 0>>, <<0>>)>>,
           uvSets |-> <<[coords |-> 4, faces |-> <<<<>>, <<3, 1, 2, 0>>>>]>>, textures |-> 3]

(* A triangle with three uv sets: one is empty, the last is a larger one.  *)
Painted == [verts |-> 3, norms |-> 3,
            faces |-> <<Face(<<2, 0, 1>>, <<2, 0, 1>>, <<>>)>>,
            uvSets |-> <<[coords |-> 3, faces |-> <<<<0, 1, 2>>>>],
                         [coords |-> 0, faces |-> <<<<>>>>],
                         [coords |-> 5, faces |-> <<<<4, 3, 0>>>>]>>, textures |-> 1]

Scalar(base) == [base |-> base, array |-> FALSE, filled |-> <<TRUE>>]
Blank == [base |-> "string", array |-> FALSE, filled |-> <<FALSE>>]
Array(base, filled) == [base |-> base, array |-> TRUE, filled |-> filled]

Own(name) == <<"", name>>
Styled(name) == <<"Default$", name>>

Opaque == Own("opacity") :> Scalar("float") @@ Own("color") :> Array("float", <<TRUE, TRUE>>)
            @@ Own("blacklisted") :> Scalar("string")
Glass == Own("opacity") :> Scalar("float") @@ Own("color") :> Array("float", <<TRUE, TRUE>>)
            @@ Own("map") :> Array("texture", <<TRUE, FALSE, TRUE>>) @@ Own("height") :> Scalar("float")

Mesh(geometry, material) == [geometry |-> geometry, material |-> material]

(* A wall; a leaf of two meshes; a roof whose height is a string and whose *)
(* area is reported as a string; a leaf without geometry.                  *)
Wall == [attributes |-> Styled("height") :> Scalar("float") @@ Styled("levels") :> Array("string", <<TRUE, FALSE>>)
                          @@ Styled("local") :> Scalar("bool"),
         report |-> Own("area") :> Scalar("float") @@ Own("kind") :> Scalar("string"),
         meshes |-> <<Mesh(Bare, Opaque)>>]
Facade == [attributes |-> Styled("height") :> Scalar("float"),
           report |-> Own("area") :> Scalar("float"),
           meshes |-> <<Mesh(Window, Glass), Mesh(Bare, Opaque)>>]
Roof == [attributes |-> Styled("height") :> Scalar("string"),
         report |-> Own("area") :> Scalar("string") @@ Own("kind") :> Blank,
         meshes |-> <<Mesh(Painted, Opaque)>>]
Bush == [attributes |-> Styled("levels") :> Array("string", <<TRUE, FALSE>>), report |-> EmptyMap, meshes |-> <<>>]

MCLeaves == {Wall, Facade, Roof, Bush}
MCShapeIdOf(shape, leaf) == shape * MaxLeaves + leaf
MCKeys == {Styled("height"), Styled("levels")}
MCBlacklist == {Own("blacklisted")}

Emit(m, r, a) == [materials |-> m, reports |-> r, attributes |-> a]
MCEmitOptions == {Emit(TRUE, TRUE, TRUE), Emit(TRUE, FALSE, FALSE), Emit(FALSE, TRUE, TRUE)}
=============================================================================
