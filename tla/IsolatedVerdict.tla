--------------------------- MODULE IsolatedVerdict ---------------------------
(***************************************************************************)
(* What an isolated run promises about its files, however many of them run *)
(* at once and however often a child has to be started: they are accounted *)
(* for in file order, each once and for good; the exit status is decided   *)
(* when all are, and afterwards can only change from green to red.         *)
(***************************************************************************)
EXTENDS Naturals

CONSTANTS
  Pass, Fail,   \* exit statuses
  Statuses,     \* all exit statuses
  NoStatus      \* the status is not decided

VARIABLES
  total,        \* files selected
  accounted,    \* how many of them have their rows in the result table
  red,          \* those whose rows make the run red
  status        \* exit status

vars == <<total, accounted, red, status>>

Init == total \in Nat /\ accounted = 0 /\ red = {} /\ status = NoStatus

Account ==
  /\ status = NoStatus
  /\ accounted' \in accounted + 1 .. total
  /\ red' \in SUBSET (1 .. accounted') /\ red' \intersect 1 .. accounted = red
  /\ UNCHANGED <<total, status>>

Conclude ==
  /\ status = NoStatus /\ status' \in Statuses
  /\ status' = Pass => accounted = total /\ red = {}
  /\ UNCHANGED <<total, accounted, red>>

TurnRed == status = Pass /\ status' = Fail /\ UNCHANGED <<total, accounted, red>>

Next == Account \/ Conclude \/ TurnRed

Spec == Init /\ [][Next]_vars
=============================================================================
