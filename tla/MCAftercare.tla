------------------------------ MODULE MCAftercare ------------------------------
(***************************************************************************)
(* Instances of Aftercare for TLC.                                         *)
(***************************************************************************)
EXTENDS Aftercare

CONSTANTS m1

Mail == {NewMail(TRUE, FALSE)}
=============================================================================
