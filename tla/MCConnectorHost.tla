-------------------------- MODULE MCConnectorHost --------------------------
(* Two threads of one client; liveness is checked, so without symmetry. *)
EXTENDS ConnectorHost
=============================================================================
