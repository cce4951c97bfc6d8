------------------------------- MODULE MCMain -------------------------------
(* A small instance of Main: two results of a query.                         *)
EXTENDS Main

SmallHistories == {<<>>, <<"v1", "v2">>}
=============================================================================
