------------------------------ MODULE MCAddon ------------------------------
(* A small instance of Addon: lists of up to two versions, -start and -end   *)
(* of both signs, inside and outside the list (99 stands for the default     *)
(* MaxInt), with and without -dump, and a truncated dump that an earlier     *)
(* session may have left.                                                    *)
EXTENDS Addon

CONSTANTS v1, v2

RangeListings == {<<>>, <<v1>>, <<v1, v2>>}
RangeStarts == {-3, -2, -1, 0, 1, 2}
RangeEnds == {-3, -1, 0, 1, 2, 99}

OldFiles == {<<2, NoVersion>>}
=============================================================================
