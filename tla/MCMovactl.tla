------------------------------- MODULE MCMovactl -------------------------------
(* Instances of Movactl: commands of one and of two words, of which one begins  *)
(* the other, one or two or all of them besides the client's own names, and two *)
(* lines that have one command in common.  Two commands share a code, but take  *)
(* an argument and none; the code of one is longer than what is written of it.  *)
EXTENDS Movactl

CONSTANTS a, b, d, e

A  == <<a>>
B  == <<b>>
AB == <<a, b>>
D  == <<d>>
E  == <<e>>

MCLetter   == {a, b, d, e}
MCEnable   == <<E>>
MCDisable  == <<D>>
MCNotify   == { <<B>> }
MCCommand  == { <<A>>, <<AB>>, <<A, A>>, <<A, AB>>, <<AB, B>>, <<AB, A>> }
MCNargs    == [c \in MCCommand |-> IF c = <<AB, B>> THEN 1 ELSE 0]
MCWire     == [c \in MCCommand |-> IF c = <<A, AB>> THEN <<AB, B>> ELSE c]
MCCodeOf   == [c \in MCCommand |-> IF c = <<AB, A>> THEN <<AB, A, A>> ELSE MCWire[c]]
MCSupports == (1 :> { <<A>>, <<A, A>>, <<AB, B>>, <<AB, A>> }) @@ (2 :> { <<A>>, <<AB>>, <<A, AB>> })

MCNameSets == { N \union { <<E>>, <<D>>, <<B>> } :
                N \in { C \in SUBSET MCCommand : Cardinality(C) \in {1, 2, 6} } }

Arg1 == { <<w>> : w \in {<<>>, A, AB, B, D, E} }
Arg2 == { <<v, w>> : v \in {A, AB}, w \in {<<>>, A, AB, B} }
MCArgLists == {<<>>} \union { <<x>> : x \in Arg1 \union Arg2 }
                     \union { <<x, y>> : x \in Arg1 \union Arg2, y \in { <<A>>, <<AB>>, <<B>>, <<AB, <<>>>> } }
=============================================================================
