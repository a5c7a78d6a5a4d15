------------------------------ MODULE AudioFeed ------------------------------
(***************************************************************************)
(* What the radio source promises its listener: the samples are heard in   *)
(* the order they arrived, each at most once, none invented.  When the     *)
(* connection breaks, what is waiting may still be played out, but before  *)
(* anything new is accepted the rest of it is dropped: old audio never     *)
(* runs into live audio.                                                   *)
(***************************************************************************)
EXTENDS Naturals

VARIABLES fed,     \* samples accepted so far, numbered 1 .. fed
          next,    \* samples 1 .. next have been heard or dropped
          broken,  \* no connection, or a new one that still has to drop the old audio
          out      \* the last block handed to the listener

vars == <<fed, next, broken, out>>

Init == fed = 0 /\ next = 0 /\ broken = TRUE /\ out = <<>>

Put == ~broken /\ fed' = fed + 1 /\ UNCHANGED <<next, broken, out>>

Break == broken' = TRUE /\ UNCHANGED <<fed, next, out>>

\* Dropping what waits, and with it, or later, taking up the new connection.
Drop   == broken /\ next' = fed /\ broken' \in BOOLEAN /\ UNCHANGED <<fed, out>>
Resume == broken /\ next = fed /\ broken' = FALSE /\ UNCHANGED <<fed, next, out>>

Hear == \E n \in 1 .. (fed - next) :
          /\ next' = next + n
          /\ out'  = [i \in 1 .. n |-> next + i]
          /\ UNCHANGED <<fed, broken>>

Next == Put \/ Break \/ Drop \/ Resume \/ Hear

Spec == Init /\ [][Next]_vars
=============================================================================
