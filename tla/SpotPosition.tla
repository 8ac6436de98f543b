---------------------------- MODULE SpotPosition ----------------------------
(***************************************************************************)
(* What a spot bot promises about the position it holds: it buys into      *)
(* nothing that is open, adds to a position and reduces it a bounded       *)
(* number of times, and closes it.  The promise is as good as the bot's    *)
(* knowledge of its position.  Once a fill, balance or restart cost it     *)
(* some of that, it may buy into an open position, which starts the counts *)
(* of the position anew, and each such loss allows the position one more   *)
(* set of add-ons and partial sales.  Partial sales are counted together,  *)
(* whether they take a profit or limit a loss.                             *)
(***************************************************************************)
EXTENDS Naturals

CONSTANTS
  MaxAddOns,  \* add-ons of a position
  MaxParts    \* partial sales of a position

VARIABLES
  open,     \* does the account hold a position?
  adds,     \* add-ons of the current position
  halved,   \* partial sales of the current position
  slips     \* times some of the bot's knowledge was lost

vars == <<open, adds, halved, slips>>

Init == open = FALSE /\ adds = 0 /\ halved = 0 /\ slips = 0

\* An order that is executed may be the very one the bot does not hear of.
Slipping == slips' \in Nat /\ slips' >= slips

Open ==
  /\ open => slips > 0
  /\ open' = TRUE /\ adds' = 0 /\ halved' = 0
  /\ Slipping

\* An add-on to a position that was sold unnoticed opens one.
Add ==
  /\ open \/ slips > 0
  /\ adds < MaxAddOns * (1 + slips)
  /\ open' = TRUE /\ adds' = adds + 1
  /\ UNCHANGED halved /\ Slipping

Halve ==
  /\ open /\ halved < MaxParts * (1 + slips)
  /\ halved' = halved + 1
  /\ UNCHANGED <<open, adds>> /\ Slipping

\* A sale ordered from an amount that is no longer true leaves some behind.
Close ==
  /\ open
  /\ open' \in BOOLEAN
  /\ open' => slips > 0
  /\ adds' = 0 /\ halved' = 0
  /\ Slipping

Slip ==
  /\ Slipping
  /\ UNCHANGED <<open, adds, halved>>

Next == Open \/ Add \/ Halve \/ Close \/ Slip
Spec == Init /\ [][Next]_vars
=============================================================================
