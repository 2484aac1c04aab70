------------------------------ MODULE Outbox ------------------------------
(***************************************************************************)
(* What the link's writer promises (the doc of link/gate.rs): frames go to *)
(* the peer one at a time in the order they were accepted, a frame still   *)
(* pending may be taken back and then never goes, a close refuses later    *)
(* frames and still lets the pending ones go, and once a write has failed  *)
(* nothing goes any more.                                                  *)
(***************************************************************************)
EXTENDS Naturals, Sequences

CONSTANT Frames

VARIABLES
  pending,  \* accepted and not yet handed to the transport, oldest first
  wire,     \* handed to the transport, in order
  open,     \* still accepting
  broken    \* a write has failed

vars == <<pending, wire, open, broken>>

Init == pending = <<>> /\ wire = <<>> /\ open = TRUE /\ broken = FALSE

Accept(f) ==
  /\ open /\ ~broken
  /\ pending' = Append(pending, f)
  /\ UNCHANGED <<wire, open, broken>>

Write ==
  /\ pending # <<>>
  /\ wire' = Append(wire, Head(pending))
  /\ pending' = Tail(pending)
  /\ UNCHANGED <<open, broken>>

\* A pending frame is taken back; the others keep their order.
TakeBack ==
  /\ \E at \in 1 .. Len(pending) :
       pending' = [i \in 1 .. Len(pending) - 1 |->
                     IF i < at THEN pending[i] ELSE pending[i + 1]]
  /\ UNCHANGED <<wire, open, broken>>

Close ==
  /\ open' = FALSE
  /\ UNCHANGED <<pending, wire, broken>>

\* A write fails part way: its frame may have gone, the others never do.
Fail ==
  /\ pending # <<>>
  /\ wire' \in {wire, Append(wire, Head(pending))}
  /\ pending' = <<>>
  /\ broken' = TRUE
  /\ UNCHANGED open

Next ==
  \/ \E f \in Frames : Accept(f)
  \/ Write
  \/ TakeBack
  \/ Close
  \/ Fail

Spec == Init /\ [][Next]_vars

=============================================================================
