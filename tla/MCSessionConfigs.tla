-------------------------- MODULE MCSessionConfigs --------------------------
(* Names and keys of operators for model checking SessionConfigs. *)
EXTENDS SessionConfigs

PlainNames == {<<"a">>, <<"b">>}
PlainKeys == <<<<"k">>, <<"m">>>>

(* Operators "a" and "a.b"; entries "b.c" and "c". *)
DottedNames == {<<"a">>, <<"a", ".", "b">>}
DottedKeys == <<<<"b", ".", "c">>, <<"c">>>>

(* The empty value, and two that differ in length. *)
Values == {<<>>, <<"x">>, <<"y", "y">>}
TwoValues == {<<"x">>, <<"y", "y">>}
=============================================================================
