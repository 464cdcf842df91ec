------------------------------ MODULE MCConfig ------------------------------
(***************************************************************************)
(* Small instances of ConfigStore for TLC.                                 *)
(***************************************************************************)
EXTENDS ConfigProperties

Conn(type, name, ssid, auth, profile) ==
    [type |-> type, name |-> name, ssid |-> ssid, auth |-> auth,
     profile |-> profile, first |-> ssid = NULL, key |-> FALSE, temp |-> FALSE]

Prof(type) ==
    [type |-> type, name |-> "p", method |-> "PEAP", server |-> "s",
     stored |-> TRUE, temp |-> FALSE]

(***************************************************************************)
(* A wired connection of the system or of the user, a wireless one of the  *)
(* user with a pre-shared key, and the profile of the wired one.           *)
(***************************************************************************)
MCNewConns ==
    {Conn(t, "a", NULL, "UNKNOWN", "p") : t \in Types}
    \cup {Conn("USER", "b", "net", "PSK", NULL)}

MCNewProfs == {Prof(t) : t \in Types}

MCOnDisk ==
    [conns   |-> [k \in ConnCells |->
                    IF k = "c1" THEN Conn("GLOBAL", "a", NULL, "EAP", "p")
                    ELSE Free],
     profs   |-> [k \in ProfCells |-> Prof("GLOBAL")],
     servers |-> [k \in ServerCells |-> [type |-> "GLOBAL", name |-> "s"]]]

\* Two wireless connections, with the same profile.
MCWirelessOnDisk ==
    [MCOnDisk EXCEPT !.conns =
        [k \in ConnCells |->
            IF k = "c1" THEN Conn("USER", "a", "net", "EAP", "p")
                        ELSE Conn("USER", "b", "air", "EAP", "p")]]
=============================================================================
