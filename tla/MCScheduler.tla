----------------------------- MODULE MCScheduler -----------------------------
(* Instance of Scheduler with its history for TLC. *)
EXTENDS Overtaking

\* The code's scale -20 .. 20 shrunk to -2 .. 2.  Three user tasks at the default
\* priority are then exactly as far from the limit as NoStarvation asks for.
MCMax == -2
MCPrios == {-9, 1, 9}  \* arguments inside the scale and outside on both sides
=============================================================================
