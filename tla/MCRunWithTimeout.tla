-------------------------- MODULE MCRunWithTimeout --------------------------
(* Instances of RunWithTimeout: a command that forks two children.  In the  *)
(* second, the pid of the listing subshell begins with that of the killer:  *)
(* it is made a whole timeout later.                                        *)
EXTENDS RunWithTimeout

P12 == <<1, 2>>
P13 == <<1, 3>>
P34 == <<3, 4>>
P125 == <<1, 2, 5>>
Kids == {<<1, 4>>, <<1, 5>>}
=============================================================================
