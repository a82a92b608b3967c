--------------------------- MODULE MCReplyDelivery ---------------------------
(* Two voice connections share the mouth and the voice brain. *)
EXTENDS ReplyDelivery
=============================================================================
