---------------------------- MODULE MCAdminServer ----------------------------
(* A small instance of AdminServer for TLC. *)
EXTENDS AdminServer

CONSTANTS c1, c2
==============================================================================
