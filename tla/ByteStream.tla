----------------------------- MODULE ByteStream -----------------------------
(***************************************************************************)
(* What one direction of a stream transport promises the link above it: a  *)
(* bounded pipe.  Bytes come out in the order they went in, none lost,     *)
(* doubled or made up, never more than the capacity are under way, and the *)
(* reader learns of the end only when nothing is left to read.             *)
(***************************************************************************)
EXTENDS Naturals, Sequences

CONSTANTS Byte, Capacity

VARIABLES
  asked,   \* the bytes of the write in progress, none between writes
  transit, \* the bytes under way, oldest first
  out,     \* the bytes the last read returned
  ended    \* the reader has been told the stream is over

vars == <<asked, transit, out, ended>>

Init == asked = <<>> /\ transit = <<>> /\ out = <<>> /\ ended = FALSE

\* A write begins.
Ask ==
  /\ asked = <<>>
  /\ asked' \in Seq(Byte)
  /\ UNCHANGED <<transit, out, ended>>

\* It puts its first bytes on their way, as many as fit, and returns.
Send ==
  \E n \in 1 .. Len(asked) :
    /\ Len(transit) + n <= Capacity
    /\ transit' = [i \in 1 .. Len(transit) + n |->
                     IF i <= Len(transit) THEN transit[i] ELSE asked[i - Len(transit)]]
    /\ asked' = <<>>
    /\ UNCHANGED <<out, ended>>

\* It fails with none of them on their way.
GiveUp ==
  /\ asked' = <<>>
  /\ UNCHANGED <<transit, out, ended>>

\* A read takes some of the oldest bytes.
Receive ==
  \E n \in 1 .. Len(transit) :
    /\ ~ended
    /\ out' = [i \in 1 .. n |-> transit[i]]
    /\ transit' = [i \in 1 .. Len(transit) - n |-> transit[n + i]]
    /\ UNCHANGED <<asked, ended>>

\* A read finds the stream over; there is nothing left it could return.
End ==
  /\ transit = <<>>
  /\ ended' = TRUE
  /\ UNCHANGED <<asked, transit, out>>

Next == Ask \/ Send \/ GiveUp \/ Receive \/ End

Spec == Init /\ [][Next]_vars

=============================================================================
