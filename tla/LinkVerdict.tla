------------------------------ MODULE LinkVerdict ------------------------------
(***************************************************************************)
(* What the connection monitor promises about its ping tests: a link is    *)
(* deemed down after DOWN failed tests in a row and deemed up after UP     *)
(* successful ones in a row, whichever comes first, and on nothing less.   *)
(* A link that was deemed up is tested again from the start; after "down"  *)
(* no more tests are made.                                                 *)
(***************************************************************************)
EXTENDS Naturals

CONSTANTS UP, DOWN

VARIABLES good,      \* successful tests in a row
          bad,       \* failed tests in a row
          verdict    \* "testing", "up" or "down"

lvars == <<good, bad, verdict>>

Init == good = 0 /\ bad = 0 /\ verdict = "up"

Begin ==
  /\ verdict = "up"
  /\ good' = 0 /\ bad' = 0 /\ verdict' = "testing"

Success ==
  /\ verdict = "testing"
  /\ good' = good + 1 /\ bad' = 0
  /\ verdict' = IF good' = UP THEN "up" ELSE "testing"

Failure ==
  /\ verdict = "testing"
  /\ good' = 0 /\ bad' = bad + 1
  /\ verdict' = IF bad' = DOWN THEN "down" ELSE "testing"

Next == Begin \/ Success \/ Failure

Spec == Init /\ [][Next]_lvars
===============================================================================
