------------------------------ MODULE SeatPool ------------------------------
(***************************************************************************)
(* What the seat counter promises, with no word about commands, promoters  *)
(* or jobs: a stock of Capacity seats from which seats are acquired one at *)
(* a time and to which each is returned at most once.  A failure may lose  *)
(* seats; nothing creates one.  free is below zero when a failure leaves a *)
(* decrement of an empty counter uncompensated.                            *)
(***************************************************************************)
EXTENDS Integers

CONSTANT Capacity

VARIABLES stocked, free, held

Init == stocked = FALSE /\ free = 0 /\ held = 0

Stock == ~stocked /\ stocked' = TRUE /\ free' = Capacity /\ UNCHANGED held

Acquire == /\ stocked
           /\ free > 0
           /\ free' = free - 1
           /\ held' = held + 1
           /\ UNCHANGED stocked

GiveBack == /\ held > 0
            /\ held' = held - 1
            /\ free' = free + 1
            /\ UNCHANGED stocked

Lose == /\ free' <= free
        /\ held' <= held
        /\ UNCHANGED stocked

Next == Stock \/ Acquire \/ GiveBack \/ Lose

Spec == Init /\ [][Next]_<<stocked, free, held>>
=============================================================================
