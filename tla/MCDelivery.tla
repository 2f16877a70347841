----------------------------- MODULE MCDelivery -----------------------------
(* Instances of Delivery.                                                  *)
EXTENDS Delivery

(* A whole batch, one with an event missing, one cut off, one too long.    *)
MCBatches == {<<1, 2>>, <<1, NoEvent, 2>>, <<1, Undecodable>>, <<1, 2, 3>>}

(* The first event is indexed a second after it happened.                  *)
MCLag == <<1, 0, 0>>

MCMaxFaults == [d \in Deployments |-> IF d = "poller" THEN 1 ELSE 2]
=============================================================================
