------------------------------- MODULE MCForm --------------------------------
(* The four-field form of the MQTT page with the three keys that change it. *)
EXTENDS FormKeys
==============================================================================
