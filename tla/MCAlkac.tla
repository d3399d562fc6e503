------------------------------- MODULE MCAlkac -------------------------------
(* The compiler on the recipes of MCRecipes. *)
EXTENDS Compilation, MCRecipes
=============================================================================
