------------------------------- MODULE Clock -------------------------------
(***************************************************************************)
(* The hours that cache lifetimes are counted in.  A store access takes    *)
(* seconds, so an hour passes only when nothing is in flight.              *)
(***************************************************************************)
EXTENDS Naturals

CONSTANT MaxNow     \* bound: hours

ASSUME ClockConstants == MaxNow \in Nat \ {0}

VARIABLE now

Hours == 1 .. MaxNow

ClockInit == now = 1

NextHour == now < MaxNow /\ now' = now + 1
=============================================================================
