------------------------------ MODULE MCSignIn ------------------------------
(* Two browsers on one account; one free attempt, lockouts of one and two  *)
(* ticks, a counting window of three.  A code can be typed in two ways.    *)
EXTENDS SignIn
=============================================================================
