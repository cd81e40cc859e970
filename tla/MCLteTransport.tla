--------------------------- MODULE MCLteTransport ---------------------------
(* The nRF9160's MQTT connection, six commands and four events. *)
EXTENDS LteTransport
=============================================================================
