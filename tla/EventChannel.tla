----------------------------- MODULE EventChannel -----------------------------
(***************************************************************************)
(* What the event bus promises of the events it accepts: one after the     *)
(* other, in the order they were accepted, each is delivered once.         *)
(***************************************************************************)
EXTENDS Sequences

CONSTANT Events

VARIABLES
  pending,    \* accepted and not delivered, oldest first
  delivered   \* in the order of their delivery

vars == <<pending, delivered>>

Init == pending = <<>> /\ delivered = <<>>

Accept(e) ==
  /\ pending' = Append(pending, e)
  /\ UNCHANGED delivered

Deliver ==
  /\ pending # <<>>
  /\ delivered' = Append(delivered, Head(pending))
  /\ pending' = Tail(pending)

Next == Deliver \/ \E e \in Events : Accept(e)

Spec == Init /\ [][Next]_vars
===============================================================================
