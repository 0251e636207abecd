--------------------------- MODULE MCRequestBody ---------------------------
(***************************************************************************)
(* Values for RequestBody: pieces that reach the limit exactly, together   *)
(* or alone, and one that crosses it; headers at the limit and beyond.     *)
(***************************************************************************)
EXTENDS RequestBody

PieceSizes == {0, 1, 2, 3}
DeclaredLengths == {1, 2, 3}
============================================================================
