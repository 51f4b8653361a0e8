------------------------------ MODULE MCRestore ------------------------------
(* Instances of Restore for TLC. *)
EXTENDS Restore

CONSTANTS a, b, c, l, x, y, z

(* Containers of different lengths; no two chunks of a are alike. *)
MCBody == [id \in ContainerID |->
             CASE id = a -> <<x, y>> [] id = b -> <<z>> [] OTHER -> <<y>>]

(* All recipes up to a length, with a head that fits or, for an upload that  *)
(* did not finish, one that does not.                                        *)
RecipesUpTo(n) ==
    LET entryLists == UNION {[1 .. m -> RecipeEntry] : m \in 0 .. n}
    IN  {[totalChunkNum |-> Len(e), entries |-> e] : e \in entryLists}
        \cup {[totalChunkNum |-> Len(e) + 1, entries |-> e] :
                 e \in {f \in entryLists : Len(f) <= 1}}

(* The longest ones have all their containers. *)
MCRecipes == RecipesUpTo(4)
    \cup {[totalChunkNum |-> 5, entries |-> e] :
             e \in [1 .. 5 -> {entry \in RecipeEntry : entry.containerName \notin Lost}]}
=============================================================================
