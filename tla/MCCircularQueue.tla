--------------------------- MODULE MCCircularQueue ---------------------------
(* Instance of CircularQueue for TLC: four slots, two items.               *)
EXTENDS CircularQueue

\* Slots in use differ in content only through what the operations put there;
\* the initial content of the array is one arbitrary function.
MCItem == {"a", "b"}
==============================================================================
