--------------------------- MODULE MCRecipeImport ----------------------------
(* Small instances of RecipeImport; the .cfg files give the bounds.         *)
EXTENDS RecipeImport, TLC

\* Workers are interchangeable, and so are admins: used by the runs that
\* check no liveness.
MCSymmetry == Permutations(Workers) \cup Permutations(Admins)
=============================================================================
