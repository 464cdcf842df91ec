----------------------------- MODULE MCWireless -----------------------------
(***************************************************************************)
(* Small instances of WirelessLink for TLC.                                *)
(***************************************************************************)
EXTENDS WirelessProperties

\* A network with 802.1X, and one with a shared key.
MCOffice == [office |-> "eap"]

MCHome == [home |-> "psk"]

\* Every event of the driver.
MCLink ==
    {"associated", "disassociated", "results", "down", "up", "flags"}
=============================================================================
