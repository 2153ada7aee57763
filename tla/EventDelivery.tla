--------------------------- MODULE EventDelivery ---------------------------
(* What the event endpoint promises the follower of one research run: the    *)
(* run's log only grows, and the follower receives it from the first event   *)
(* on, one event at a time, in order, without a gap and without a            *)
(* repetition.  EventStream implements this over connections that end.       *)
EXTENDS Naturals, Sequences

VARIABLES log, delivered

Init == log = <<>> /\ delivered = <<>>

(* A transaction appends its events at once.                                 *)
Publish ==
  /\ Len(log') > Len(log)
  /\ log' = [i \in 1..Len(log') |-> i]
  /\ UNCHANGED delivered

Deliver ==
  /\ Len(delivered) < Len(log)
  /\ delivered' = Append(delivered, log[Len(delivered) + 1])
  /\ UNCHANGED log

Spec == Init /\ [][Publish \/ Deliver]_<<log, delivered>>
=============================================================================
