------------------------------ MODULE MCStdio -------------------------------
(* The model-checked instance of Stdio: a table of two entries, so that it  *)
(* is full and is reused, one standard stream, and a host with four ids.    *)
EXTENDS Stdio
=============================================================================
