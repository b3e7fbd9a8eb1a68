---------------------------- MODULE ReceiptOrder ----------------------------
(***************************************************************************)
(* What a replay of recorded events promises: each event is handed over    *)
(* once, and none ahead of another that was received more than Slack       *)
(* before it.                                                              *)
(***************************************************************************)
EXTENDS Integers

CONSTANT Slack

VARIABLE pending   \* events not handed over yet, each with its receipt time

Init == pending \in SUBSET [at : Int, event : Nat]

Deliver(e) ==
    /\ \A f \in pending : e.at <= f.at + Slack
    /\ pending' = pending \ {e}

Next == \E e \in pending : Deliver(e)

Spec == Init /\ [][Next]_pending
=============================================================================
