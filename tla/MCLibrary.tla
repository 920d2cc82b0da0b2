----------------------------- MODULE MCLibrary ------------------------------
(* The model-checked instance of Library: words of three bits, qsort with   *)
(* its limits 7 and 40 lowered to 3 and 5, longs of five bits, and the      *)
(* field of 256 elements with x^8 = x^4 + x^3 + x + 1.                      *)
EXTENDS Library

FieldR == <<3, 1, 2, 0>>
SomeElements == {<<2, 0, 0, 0>>, <<1, 0, 0, 0>>, <<0, 0, 0, 1>>, <<3, 2, 1, 3>>, <<0, 2, 3, 1>>}
NumeralChars == {Space, Minus, Plus, 0, 1, 7, 12, LetterX}
=============================================================================
