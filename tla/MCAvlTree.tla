------------------------------ MODULE MCAvlTree ------------------------------
(* Eight nodes with six keys: enough for both kinds of rotation on either   *)
(* side and for the three ways to remove a node.  The nodes that share a    *)
(* key, an inner one and the last, are for Replace and Move.                *)
EXTENDS AvlTree

MCNodes == 1..8
MCKey == <<1, 2, 3, 3, 4, 5, 6, 6>>

\* all keys different
MCFewNodes == 1..4
MCFewKey == <<1, 2, 3, 4>>
=============================================================================
