----------------------------- MODULE MCEventBus -----------------------------
(* A small EventBus: two sensors and the consumer publish, two deliveries   *)
(* fill the queue, and two events fill a batch.                             *)
EXTENDS EventBus

MCCalls == {<<"normal">>, <<"high">>, <<"high", "normal">>}
=============================================================================
