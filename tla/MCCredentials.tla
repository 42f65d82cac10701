---------------------------- MODULE MCCredentials ----------------------------
(***************************************************************************)
(* Credentials with two operations of any kind around a refresh and a      *)
(* restart, beginning with and without credentials.                        *)
(***************************************************************************)
EXTENDS Credentials

MCOperations == {2, 3}
===============================================================================
