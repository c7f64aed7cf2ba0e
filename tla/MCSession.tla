----------------------------- MODULE MCSession -----------------------------
(***************************************************************************)
(* Session for TLC.  Each configuration gives the constants their values.  *)
(***************************************************************************)
EXTENDS Session
=============================================================================
