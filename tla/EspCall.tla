------------------------------ MODULE EspCall -------------------------------
(***************************************************************************)
(* What the SPI driver promises the WiFi library above it: the ESP8285     *)
(* carries out commands it was asked to carry out, each at most once and   *)
(* in the order of the calls.  Some it may never carry out.  A command     *)
(* that sends a TCP segment or opens a socket must not be replayed.        *)
(***************************************************************************)
EXTENDS Naturals, Sequences

CONSTANT MaxCalls         \* bound: calls made

VARIABLES
  asked,            \* calls made so far, numbered from 1
  carried           \* those carried out, in order

callVars == <<asked, carried>>

Latest == IF carried = <<>> THEN 0 ELSE carried[Len(carried)]

Init == asked = 0 /\ carried = <<>>

Ask ==
  /\ asked < MaxCalls
  /\ asked' = asked + 1
  /\ UNCHANGED carried

CarryOut ==
  /\ \E c \in Latest + 1 .. asked : carried' = Append(carried, c)
  /\ UNCHANGED asked

Next == Ask \/ CarryOut
Spec == Init /\ [][Next]_callVars
=============================================================================
