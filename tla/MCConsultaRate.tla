--------------------------- MODULE MCConsultaRate ---------------------------
(***************************************************************************)
(* A small instance of ConsultaRate: two tries in a window of three        *)
(* instants, two windows and a part of a third.                            *)
(***************************************************************************)
EXTENDS ConsultaRate, TLC

ClientSymmetry == Permutations(Clients)
=============================================================================
