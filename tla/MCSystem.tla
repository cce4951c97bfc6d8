------------------------------ MODULE MCSystem ------------------------------
(* A small instance of System: two flows, a list of two versions, and every  *)
(* result those can lead to.                                                 *)
EXTENDS System

CONSTANTS v1, v2

TwoVersions == {<<v1, v2>>}
Results == {<<>>, <<v1>>, <<v2>>, <<v1, v2>>}
OneFlag == {0}
NoLimit == {99}
=============================================================================
