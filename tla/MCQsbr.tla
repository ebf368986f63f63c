------------------------------ MODULE MCQsbr ------------------------------
(* The instance of Qsbr that TLC checks; MCQsbr.cfg gives the constants.   *)
EXTENDS Qsbr
=============================================================================
