--------------------------- MODULE MCResultMixing ---------------------------
(* One query, for every kind of command, with up to three remote services  *)
(* and with or without local tables.                                       *)
EXTENDS ResultMixing
=============================================================================
