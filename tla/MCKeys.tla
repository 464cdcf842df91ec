------------------------------- MODULE MCKeys -------------------------------
(***************************************************************************)
(* Small instances of KeyHandshake for TLC.                                *)
(***************************************************************************)
EXTENDS KeyProperties

MCEapKeys == <<"eap1", "eap2">>

MCNetworks == [auth : {"PSK", "EAP"}, version : {"WPA", "WPA2"}]
=============================================================================
