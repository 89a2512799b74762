----------------------------- MODULE MCStartup -----------------------------
(* Small instances of Startup.                                              *)
EXTENDS Startup

CONSTANTS u1, u2
=============================================================================
