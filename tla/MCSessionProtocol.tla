------------------------- MODULE MCSessionProtocol -------------------------
(* One file the server has and one it has not.                             *)
EXTENDS SessionProtocol
=============================================================================
