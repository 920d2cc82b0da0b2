------------------------------ MODULE MCMalloc ------------------------------
(* Bounds of the model-checked instance of Malloc: a pool of three blocks, *)
(* requests of one block and of the fewest and the most words of two       *)
(* blocks, and data that look like headers and links.                      *)
EXTENDS Malloc

MCRequests == {0, 16, 28}
MCVals == {1}
=============================================================================
