------------------------------- MODULE MCLog --------------------------------
(* Log for TLC.                                                            *)
EXTENDS Log
=============================================================================
