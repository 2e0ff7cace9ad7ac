------------------------------ MODULE MCProgram ------------------------------
(* Bounds for Program: three polls before the timeout of a login, so that a *)
(* child can end before, between and after them; any number of logins.      *)
EXTENDS Program

MCTimeout == 3
MCGrace == 1
=============================================================================
