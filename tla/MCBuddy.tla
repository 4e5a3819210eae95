------------------------------ MODULE MCBuddy ------------------------------
(* Small instances of Buddy. *)
EXTENDS Buddy

CONSTANTS c0, c1

TwoCpus == {c0, c1}
Powers == [o \in 0..MAX_ORDER |-> 2^o]

(* Pages of two bytes.  The whole pages are 0..2 and 3..7, so that blocks  *)
(* of the second region merge with blocks of the first; the second ends    *)
(* inside a page and the third has no whole page.                          *)
ThreeRegions == << [base |-> 0, end |-> 6], [base |-> 6, end |-> 17],
                   [base |-> 17, end |-> 19] >>
UpTo3 == 0..3
=============================================================================
