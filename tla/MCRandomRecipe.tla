--------------------------- MODULE MCRandomRecipe ---------------------------
(* The random recipe next to a route whose limit is turned off.             *)
EXTENDS RandomRecipe, TLC

RecipeLimit == [joinIp |-> 1, joinUser |-> 1, mutation |-> 1, ai |-> 0, randomRecipe |-> 3]

Symmetry == Permutations(Requests)
=============================================================================
