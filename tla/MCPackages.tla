----------------------------- MODULE MCPackages -----------------------------
(* Paths that are above, below and beside one another, and three images.   *)
EXTENDS Packages

CONSTANTS a, b, x, y

A  == <<a>>
AB == <<a, b>>
BB == <<b, b>>
MCPaths == {A, AB, BB}

(* An image with two variables, one with a name twice, one with a constant.*)
MCImages == [path \in MCPaths |->
               CASE path = AB -> <<<<x, "var">>, <<y, "var">>>>
                 [] path = BB -> <<<<x, "var">>, <<x, "var">>>>
                 [] path = A  -> <<<<x, "const">>>>
                 [] OTHER -> None]
=============================================================================
