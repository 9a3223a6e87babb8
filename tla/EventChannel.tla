----------------------------- MODULE EventChannel -----------------------------
(***************************************************************************)
(* What the transport between the gateway thread and the matching core     *)
(* promises, whatever ring implements it: a bounded channel that delivers  *)
(* the published events in publication order, each exactly once, never     *)
(* holds more than Capacity undelivered ones (backpressure, never a drop), *)
(* and eventually delivers all of them.                                    *)
(*                                                                         *)
(* An event is its sequence number, 1 for the first one published, the     *)
(* numbering the cursors of the rings use.                                 *)
(***************************************************************************)
EXTENDS Naturals, Sequences

CONSTANTS
    Capacity,   \* the number of slots of the ring, at least one
    Events      \* how many events a run publishes, the closing report included

VARIABLES
    sent,       \* number of events published so far
    delivered   \* the events handed to the matching core, in order

channelVars == <<sent, delivered>>

Init ==
    /\ sent = 0
    /\ delivered = <<>>

(* The publisher adds the next event; it stalls while the channel is full. *)
Send ==
    /\ sent < Events
    /\ sent - Len(delivered) < Capacity
    /\ sent' = sent + 1
    /\ UNCHANGED delivered

(* The core takes the oldest undelivered event. *)
Deliver ==
    /\ Len(delivered) < sent
    /\ delivered' = Append(delivered, Len(delivered) + 1)
    /\ UNCHANGED sent

Next == Send \/ Deliver

Fairness == WF_channelVars(Send) /\ WF_channelVars(Deliver)

SafeSpec == Init /\ [][Next]_channelVars

Spec == SafeSpec /\ Fairness

===============================================================================
