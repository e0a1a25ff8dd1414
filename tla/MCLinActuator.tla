--------------------------- MODULE MCLinActuator ---------------------------
(***************************************************************************)
(* Instances of LinActuator for TLC.  The signature byte is the expected   *)
(* one or noise; the flags byte takes every value of the two masked bits   *)
(* and, with 3 and 5, of the bits around them.                             *)
(***************************************************************************)
EXTENDS LinActuator

MCSignatureBytes == {StatusSignature, 255}
MCFlagsBytes     == {0, 2, 3, 4, 5, 6}
=============================================================================
