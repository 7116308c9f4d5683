----------------------------- MODULE MCSession ------------------------------
(***************************************************************************)
(* Session for TLC: two active lists that share an element.                *)
(***************************************************************************)
EXTENDS Session

MCLists == {<<3, 77>>, <<77, 81>>}
=============================================================================
