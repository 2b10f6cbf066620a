-------------------------- MODULE MCDeleteTuples ---------------------------
(* An instance of DeleteTuples for TLC.                                     *)
EXTENDS DeleteTuples

CONSTANT other
=============================================================================
