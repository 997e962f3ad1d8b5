---------------------------- MODULE MCThreadPool ----------------------------
(* The three tasks of the server, for TLC.                                 *)
EXTENDS ThreadPool

CONSTANTS evloop, precv, psend

Tasks == <<evloop, precv, psend>>

=============================================================================
