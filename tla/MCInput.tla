------------------------------ MODULE MCInput ------------------------------
(***************************************************************************)
(* The state of the data run: a part of the system and one input of it.    *)
(***************************************************************************)
VARIABLES part, x
=============================================================================
