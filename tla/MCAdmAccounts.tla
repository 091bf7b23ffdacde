--------------------------- MODULE MCAdmAccounts ----------------------------
(* Small instances of AdmAccounts.                                         *)
EXTENDS AdmAccounts, TLC

\* "Ana" is a spelling of the address "ana".
Spellings == [e \in Emails |-> IF e = "Ana" THEN "ana" ELSE e]

Bodies == {[email |-> "Ana", senha |-> TRUE]}
AccountsRoom == [adm |-> 2, link |-> 2, session |-> 2, senha |-> 3]
SlotSymmetry == Permutations(Slots)
=============================================================================
