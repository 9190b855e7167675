--------------------------- MODULE MCNeuroplasticity ---------------------------
(* A bundle in two versions and one that reaches for a row of the core.    *)
EXTENDS Neuroplasticity

Shipped(g, version, requires) ==
  [genome |-> g, version |-> version, name |-> "shipped", entry |-> TRUE,
   from |-> None, requires |-> requires]

ThreeSlugs == {"incubator", "unreal", "forge"}
SomeGenomes == {"canonical", "incubator", "unreal", "thief", "forged"}

Keys(refs, loose) == [refs |-> refs, loose |-> loose]
NoRows == [p \in Pks |-> None]

Tables ==
  [p \in Pks |-> CASE p \in {"core", "a", "x"} -> "NeuralPathway"
                  [] p \in {"knot", "b", "y"} -> "Neuron"
                  [] p = "face"               -> "Avatar"]

ThePathway == {<<"Neuron", "NeuralPathway">>}

(* A pathway of the core, and its neuron.                                  *)
TheCore ==
  [p \in {"core", "knot"} |-> IF p = "core" THEN Keys({}, {}) ELSE Keys({"core"}, {})]

TheFactory ==
  [slug |-> "incubator", manifest |-> [Shipped("incubator", 1, {}) EXCEPT !.entry = FALSE],
   rows |-> NoRows, code |-> "good", media |-> {"shipped"}]

(* A pathway, and a neuron on it that calls the pathway of the core.       *)
Unreal ==
  [slug |-> "unreal", manifest |-> Shipped("unreal", 1, {}), code |-> "good",
   rows |-> [NoRows EXCEPT !["a"] = Keys({}, {}), !["b"] = Keys({"a"}, {"core"})],
   media |-> {}]

(* Its successor drops a row; an impostor brings its own avatar, and takes *)
(* a row of the core; and one has lost its code.                           *)
Unreal2 ==
  [Unreal EXCEPT !.manifest.version = 2, !.rows = [NoRows EXCEPT !["a"] = Keys({}, {})]]
Faces ==
  [Unreal EXCEPT !.slug = "forge", !.manifest.genome = "thief", !.media = {"shipped"},
                 !.rows = [NoRows EXCEPT !["face"] = Keys({}, {})]]
Thief == [Faces EXCEPT !.rows = [NoRows EXCEPT !["core"] = Keys({}, {})]]
Hollow == [Faces EXCEPT !.code = "absent"]

Bundles == {Unreal, Unreal2, Faces, Thief, Hollow}
=============================================================================
