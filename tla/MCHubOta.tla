------------------------------ MODULE MCHubOta ------------------------------
(* Instances of HubOta for TLC. *)
EXTENDS HubOta

OneNetwork    == {"full"}
TwoHubs       == [full |-> {"h1", "h2"}]
TwoNetworks   == {"full", "empty"}
TwoHubsOrNone == [full |-> {"h1", "h2"}, empty |-> {}]
=============================================================================
