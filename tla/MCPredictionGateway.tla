------------------------- MODULE MCPredictionGateway -------------------------
(* Instances of PredictionGateway for TLC. *)
EXTENDS PredictionGateway
=============================================================================
