-------------------------- MODULE MCFederatedRequests --------------------------
(* Two federated requests over the same two sources, in opposite orders.    *)
EXTENDS FederatedRequests
CONSTANTS q1, q2
Opposite == q1 :> <<1, 2>> @@ q2 :> <<2, 1>>
Mixed    == {<<"sqlite", "postgres">>, <<"mysql", "sqlite">>}
=============================================================================
