------------------------------- MODULE MCFlow -------------------------------
(* Two addons, three requests, and bodies below, at and above the limit.     *)
EXTENDS Flow

BodySizes == {0, Limit - 1, Limit, Limit + 1}
=============================================================================
