------------------------- MODULE MCServerDelivery -------------------------
(* The model-checking instance of the server with its history of invitations. *)
EXTENDS ServerDelivery, MCServer

=============================================================================
