------------------------------ MODULE MCPinAuth ------------------------------
(***************************************************************************)
(* PinAuth on a small instance: two PINs, lockouts of 1, 2 and 3 ticks and *)
(* a timer that wraps after 5, so that within the 16 ticks of the clock    *)
(* every rung is reached, runs out, and is met again after the wrap.       *)
(***************************************************************************)
EXTENDS PinAuth

CONSTANTS right, wrong  \* the PIN in the vehicle's memory, and another

==============================================================================
