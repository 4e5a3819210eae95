---------------------------- MODULE MCAddrSpace ----------------------------
(* Instances of AddrSpace for TLC: an image of a text page and a stack     *)
(* page under one table, and a heap page between them under a second.      *)
EXTENDS AddrSpace

CONSTANTS c0, c1, t1, t2

OneCpu == {c0}
TwoCpus == {c0, c1}
TextAndStack == <<1, 3>>
OneHeap == <<2>>
Walks == [va \in 1..3 |-> IF va = 2 THEN <<t1, t2>> ELSE <<t1>>]
=============================================================================
