---------------------------- MODULE MCConference ----------------------------
(* Instances of Conference for TLC: three participants, two of which reach   *)
(* the server from different hosts with the same source port.                *)
EXTENDS Conference

CONSTANTS alice, bob, carol

Endpoints == {alice, bob, carol}
Ports == {5000, 6000}
SharedPort == [e \in Endpoints |-> IF e = carol THEN 6000 ELSE 5000]
=============================================================================
