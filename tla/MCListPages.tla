---------------------------- MODULE MCListPages -----------------------------
(* Five rows, the first two of one name, in pages of one to three.         *)
EXTENDS ListPages

Five  == 1..5
Names == <<1, 1, 2, 3, 4>>
=============================================================================
