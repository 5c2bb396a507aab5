------------------------------ MODULE MCDbScope -----------------------------
(***************************************************************************)
(* Small instances of DbScope for TLC.                                     *)
(***************************************************************************)
EXTENDS DbScope

CONSTANTS i1, i2, url
=============================================================================
