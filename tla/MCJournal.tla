------------------------------ MODULE MCJournal ------------------------------
(***************************************************************************)
(* Journal for TLC.  Each configuration gives the constants their values.  *)
(***************************************************************************)
EXTENDS Journal
=============================================================================
