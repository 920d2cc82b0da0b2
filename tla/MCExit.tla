------------------------------- MODULE MCExit -------------------------------
(* The model-checked instance of Exit: a table of three entries, which four *)
(* registrations and _fini overflow, and two nested calls of exit.          *)
EXTENDS Exit
=============================================================================
