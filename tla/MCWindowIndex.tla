---------------------------- MODULE MCWindowIndex ----------------------------
(* Two orderBy keys in opposite directions, nulls and ties included.        *)
EXTENDS WindowIndex

MCDirections == <<"desc", "asc">>
=============================================================================
