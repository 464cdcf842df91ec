---------------------------- MODULE ConfigStore ----------------------------
(***************************************************************************)
(* The configuration in the memory of the daemon (lib/libxsupconfig), the  *)
(* requests of the user interface that change it (ipc_callout.c) and the   *)
(* pointers into it that every interface keeps: ctx->conn and ctx->prof.   *)
(*                                                                         *)
(* Memory is a set of cells; a pointer is the number of a cell.  A pointer *)
(* to a cell that has been freed is FREED: what the program does when it   *)
(* follows one is undefined, and the model stops there.  Connections refer *)
(* to profiles, and profiles to trusted servers, by name.                  *)
(***************************************************************************)
EXTENDS Naturals, FiniteSets

CONSTANTS
    ConnCells, ProfCells, ServerCells,  \* memory: how many objects there can be
    ConnNames, ProfNames, ServerNames,  \* the names requests use
    Ssids,        \* the networks
    Interfaces,   \* 1 .. n, in the order of the table of event_core
    Wireless,     \* which of them are wireless
    NewConns,     \* what Set_Connection_Config brings
    NewProfs,     \* what Set_Profile_Config brings
    OnDisk,       \* the configuration of the system, in its file
    InCache,      \* is the network of a connection in the scan cache?
    Careful       \* the user interface checks what it asks for

NULL  == "NULL"
FREED == "FREED"

Types == {"GLOBAL", "USER"}  \* CONFIG_LOAD_GLOBAL and CONFIG_LOAD_USER

\* A mutant: the name is looked for in the list it is meant for.
SameType(t) == t

Other(t) == IF t = "GLOBAL" THEN "USER" ELSE "GLOBAL"

\* struct config_connection.  first: priority 1; key: a PSK is stored;
\* temp: one the user typed (temp_psk).
Connections ==
    [type : Types, name : ConnNames, ssid : Ssids \cup {NULL},
     auth : {"EAP", "PSK", "NONE", "UNKNOWN"},
     profile : ProfNames \cup {NULL},
     first : BOOLEAN, key : BOOLEAN, temp : BOOLEAN]

\* struct config_profiles.  stored: with a password from the file; temp: with
\* one the user typed (temp_password).
Profiles ==
    [type : Types, name : ProfNames, method : {"PEAP", "FAST", "MD5"},
     server : ServerNames \cup {NULL}, stored : BOOLEAN, temp : BOOLEAN]

\* struct config_trusted_server.
Servers == [type : Types, name : ServerNames]

\* A cell of memory that holds nothing.
Free == [type |-> "FREE"]

\* The part of struct context that points into the configuration.
Contexts ==
    [conn : ConnCells \cup {NULL, FREED}, prof : ProfCells \cup {NULL, FREED},
     connName : ConnNames \cup Ssids \cup {NULL}]

VARIABLES conns,    \* [ConnCells -> Connections, or Free]
          profs,    \* [ProfCells -> Profiles, or Free]
          servers,  \* [ServerCells -> Servers, or Free]
          ctx,      \* [Interfaces -> Contexts]
          status    \* of the daemon: "up", "crashed" or "undefined"

store == <<conns, profs, servers>>
vars == <<conns, profs, servers, ctx, status>>

TypeOK ==
    /\ conns \in [ConnCells -> Connections \cup {Free}]
    /\ profs \in [ProfCells -> Profiles \cup {Free}]
    /\ servers \in [ServerCells -> Servers \cup {Free}]
    /\ ctx \in [Interfaces -> Contexts]
    /\ status \in {"up", "crashed", "undefined"}

(***************************************************************************)
(* Looking things up.  The lists are ordered and the first match is taken; *)
(* the order is left open, so a search yields the set of its candidates.   *)
(***************************************************************************)
Cells(mem, t) == {k \in DOMAIN mem : mem[k].type = t}

Named(mem, t, name) == {k \in Cells(mem, t) : mem[k].name = name}

NameUsed(mem, name) == \E t \in Types : Named(mem, t, name) # {}

\* Two lists are searched one after the other.
Prefer(first, second) == IF first # {} THEN first ELSE second

\* config_find_connection: by name, else by network.
FindConnection(t, name) ==
    Prefer(Named(conns, t, name),
           {k \in Cells(conns, t) : conns[k].ssid = name})

ConnectionFor(name) ==
    Prefer(FindConnection("GLOBAL", name), FindConnection("USER", name))

\* config_find_profile for a profile's name, in the global list first.
ProfileFor(name) ==
    Prefer(Named(profs, "GLOBAL", name), Named(profs, "USER", name))

OrNull(cells) == IF cells = {} THEN {NULL} ELSE cells

\* ipc_callout_helper_get_tsname_from_profile: EAP-FAST is left out.
TsName(p) == IF p.method = "FAST" THEN NULL ELSE p.server

(***************************************************************************)
(* A user interface that checks offers what there is: to the system, what  *)
(* belongs to the system.  The files were written by such a one.           *)
(***************************************************************************)
Offers(mem, t, name) ==
    \/ name = NULL
    \/ Named(mem, "GLOBAL", name) # {}
    \/ t = "USER" /\ Named(mem, "USER", name) # {}

UniqueNames(mem) ==
    \A j, k \in DOMAIN mem :
        mem[j] # Free /\ mem[k] # Free /\ mem[j].name = mem[k].name => j = k

Consistent(cmem, pmem, smem) ==
    /\ UniqueNames(cmem) /\ UniqueNames(pmem)
    /\ \A k \in DOMAIN cmem : cmem[k] # Free =>
          Offers(pmem, cmem[k].type, cmem[k].profile)
    /\ \A k \in DOMAIN pmem : pmem[k] # Free =>
          Offers(smem, pmem[k].type, TsName(pmem[k]))

ASSUME ConfigAssumption ==
    /\ Interfaces \subseteq Nat /\ Wireless \subseteq Interfaces
    /\ {NULL, FREED} \cap (ConnCells \cup ProfCells) = {}
    /\ NULL \notin ConnNames \cup ProfNames \cup ServerNames \cup Ssids
    /\ ConnNames \cap Ssids = {}
    /\ NewConns \subseteq Connections /\ NewProfs \subseteq Profiles
    /\ OnDisk.conns \in [ConnCells -> Connections \cup {Free}]
    /\ OnDisk.profs \in [ProfCells -> Profiles \cup {Free}]
    /\ OnDisk.servers \in [ServerCells -> Servers \cup {Free}]
    /\ Consistent(OnDisk.conns, OnDisk.profs, OnDisk.servers)
    /\ InCache \subseteq BOOLEAN /\ Careful \in BOOLEAN

(***************************************************************************)
(* Changing memory.                                                        *)
(***************************************************************************)
Unused(mem) == Cells(mem, "FREE")

Fresh(mem) == CHOOSE k \in Unused(mem) : TRUE

Put(mem, k, new) == [mem EXCEPT ![k] = new]

\* An object replaces that of its name, which is freed, or is added.
PlaceFor(mem, t, name) ==
    IF Named(mem, t, name) # {} THEN Named(mem, t, name)
    ELSE IF Unused(mem) # {} THEN {Fresh(mem)} ELSE {}

\* The pointers to a cell that is freed dangle.
After(pointer, freed) == IF pointer = freed THEN FREED ELSE pointer

ConnFreed(k) ==
    ctx' = [i \in Interfaces |-> [ctx[i] EXCEPT !.conn = After(@, k)]]

ProfFreed(k) ==
    ctx' = [i \in Interfaces |-> [ctx[i] EXCEPT !.prof = After(@, k)]]

\* config_delete_connection, config_delete_profile.
RemoveConnection(k) == conns' = Put(conns, k, Free) /\ ConnFreed(k)

RemoveProfile(k) == profs' = Put(profs, k, Free) /\ ProfFreed(k)

RemoveServer(k) == servers' = Put(servers, k, Free)

\* add_change_config_connections, _profiles and _trusted_server.
PutConnection(new) ==
    \E k \in PlaceFor(conns, new.type, new.name) :
        conns' = Put(conns, k, new) /\ ConnFreed(k)

PutProfile(new) ==
    \E k \in PlaceFor(profs, new.type, new.name) :
        profs' = Put(profs, k, new) /\ ProfFreed(k)

PutServer(new) ==
    \E k \in PlaceFor(servers, new.type, new.name) :
        servers' = Put(servers, k, new)

\* A mutant: the old name is freed and no new one is set.
NameLost(mem, t, old, new) ==
    [k \in DOMAIN mem |->
        IF k \in Named(mem, t, old) THEN [mem[k] EXCEPT !.name = NULL]
                                    ELSE mem[k]]

\* Every object of one list with the name old gets the name new.
Renamed(mem, t, old, new) ==
    [k \in DOMAIN mem |->
        IF k \in Named(mem, t, old) THEN [mem[k] EXCEPT !.name = new]
                                    ELSE mem[k]]

(***************************************************************************)
(* What the interfaces use.                                                *)
(***************************************************************************)
BoundConns == {ctx[i].conn : i \in Interfaces}

BoundProfs == {ctx[i].prof : i \in Interfaces}

\* A mutant: the search for the connection ends at the first interface.
FirstInUse(name) ==
    \E i \in Interfaces :
        /\ \A j \in Interfaces : i <= j
        /\ ctx[i].conn \in ConnCells /\ conns[ctx[i].conn].name = name

\* ipc_callout_is_connection_in_use.
ConnectionInUse(name) ==
    \E k \in BoundConns \cap ConnCells : conns[k].name = name

\* The interfaces of which both pointers are set.
Busy == {i \in Interfaces : ctx[i].conn # NULL /\ ctx[i].prof # NULL}

\* ipc_callout_is_profile_in_use, which the user interface is trusted with.
ProfileInUse(name) ==
    \E i \in Busy : ctx[i].prof # FREED /\ profs[ctx[i].prof].name = name

\* A mutant: only the connections of the user are asked.
UserReferred(name) ==
    \E k \in Cells(conns, "USER") : conns[k].profile = name

\* ipc_callout_helper_is_profile_in_use, for both lists.
Referred(name) ==
    \E t \in Types : \E k \in Cells(conns, t) : conns[k].profile = name

ServerReferred(name) ==
    \E t \in Types : \E k \in Cells(profs, t) : TsName(profs[k]) = name

\* ipc_callout_is_trusted_server_in_use.
ServerInUse(name) == \E i \in Busy : TsName(profs[ctx[i].prof]) = name

\* What a request finds when it follows these pointers.
Follow(pointers, change) ==
    /\ status = "up"
    /\ IF FREED \in pointers
       THEN status' = "undefined" /\ UNCHANGED <<store, ctx>>
       ELSE change

Allowed(t, admin) == t = "GLOBAL" => admin

(***************************************************************************)
(* Deleting.  A connection in use, or one of the system for a user that is *)
(* not its administrator, is refused with the name of an interface that    *)
(* was never looked up: ctx->intName of a NULL pointer.                    *)
(***************************************************************************)
DeleteConnection(t, name, admin) ==
    Follow(BoundConns,
        IF ConnectionInUse(name) \/ ~Allowed(t, admin)
        THEN status' = "crashed" /\ UNCHANGED <<store, ctx>>
        ELSE /\ \E k \in Named(conns, t, name) : RemoveConnection(k)
             /\ UNCHANGED <<profs, servers, status>>)

DeleteProfile(t, name, forced, admin) ==
    /\ Careful => ~forced
    /\ ~forced => ~Referred(name)
    /\ Allowed(t, admin)
    /\ Follow({}, /\ \E k \in Named(profs, t, name) : RemoveProfile(k)
                  /\ UNCHANGED <<conns, servers, status>>)

DeleteServer(t, name, admin) ==
    /\ ~ServerReferred(name) /\ admin
    /\ Follow({}, /\ \E k \in Named(servers, t, name) : RemoveServer(k)
                  /\ UNCHANGED <<conns, profs, ctx, status>>)

(***************************************************************************)
(* Adding and changing.                                                    *)
(***************************************************************************)
\* A connection in use gets the new priority and PSK, no more.
SetConnection(new, admin) ==
    /\ Careful => Offers(profs, new.type, new.profile)
    /\ Allowed(new.type, admin)
    /\ Follow(BoundConns,
          /\ IF ConnectionInUse(new.name)
             THEN \E k \in FindConnection(new.type, new.name) :
                     /\ conns' = Put(conns, k,
                                     [conns[k] EXCEPT !.first = new.first,
                                                      !.key = @ \/ new.key])
                     /\ UNCHANGED ctx
             ELSE /\ FindConnection(Other(new.type), new.name) = {}
                  /\ PutConnection(new)
          /\ UNCHANGED <<profs, servers, status>>)

\* The check that the profile is in use is commented out.
SetProfile(new, admin) ==
    /\ Careful => /\ ~ProfileInUse(new.name)
                  /\ Named(profs, Other(new.type), new.name) = {}
                  /\ Offers(servers, new.type, new.server)
    /\ Allowed(new.type, admin)
    /\ Follow({}, PutProfile(new) /\ UNCHANGED <<conns, servers, status>>)

SetServer(new, admin) ==
    /\ Allowed(new.type, admin)
    /\ Follow({ctx[i].prof : i \in Busy},
          /\ ~ServerInUse(new.name) /\ PutServer(new)
          /\ UNCHANGED <<conns, profs, ctx, status>>)

(***************************************************************************)
(* Renaming.                                                               *)
(***************************************************************************)
First(interfaces) ==
    CHOOSE i \in interfaces : \A j \in interfaces : i <= j

\* The interfaces that go by the name are told; the first of them that is
\* bound gives the object to rename, and only if there is none the list is
\* searched.
RenameConnection(t, old, new, admin) ==
    LET bound == {i \in Interfaces :
                     ctx[i].connName = old /\ ctx[i].conn # NULL}
        k     == ctx[First(bound)].conn
    IN  /\ Careful => Named(conns, t, old) # {}
        /\ Allowed(t, admin) /\ ~NameUsed(conns, new)
        /\ Follow(IF bound = {} THEN {} ELSE {k},
              /\ ctx' = [i \in Interfaces |->
                           IF ctx[i].connName = old
                           THEN [ctx[i] EXCEPT !.connName = new]
                           ELSE ctx[i]]
              /\ conns' = IF bound = {} THEN Renamed(conns, t, old, new)
                          ELSE Put(conns, k, [conns[k] EXCEPT !.name = new])
              /\ UNCHANGED <<profs, servers, status>>)

\* The connections in use that refer to the profile are changed first, each
\* at the first interface that uses it; the first of those interfaces that
\* has a profile gives the object to rename.
RenameProfile(t, old, new, admin) ==
    LET refer == {i \in Interfaces :
                    /\ ctx[i].conn \in ConnCells
                    /\ conns[ctx[i].conn].profile = old
                    /\ \A j \in 1 .. i - 1 : ctx[j].conn # ctx[i].conn}
        bound == {i \in refer : ctx[i].prof # NULL}
        k     == ctx[First(bound)].prof
    IN  /\ Careful => /\ Named(profs, t, old) # {}
                      /\ ~NameUsed(profs, new)
        /\ Allowed(t, admin) /\ Named(profs, t, new) = {}
        /\ Follow(BoundConns \cup (IF bound = {} THEN {} ELSE {k}),
              /\ profs' = IF bound = {} THEN Renamed(profs, t, old, new)
                          ELSE Put(profs, k, [profs[k] EXCEPT !.name = new])
              /\ conns' = [c \in ConnCells |->
                    IF /\ conns[c] # Free /\ conns[c].profile = old
                       /\ \/ c \in BoundConns
                          \/ conns[c].type \in {t, "USER"}
                    THEN [conns[c] EXCEPT !.profile = new] ELSE conns[c]]
              /\ UNCHANGED <<servers, ctx, status>>)

RenameServer(t, old, new, admin) ==
    /\ Careful => ~NameUsed(servers, new)
    /\ Allowed(t, admin)
    /\ Named(servers, t, new) = {} /\ Named(servers, t, old) # {}
    /\ Follow({},
          /\ servers' = Renamed(servers, t, old, new)
          /\ profs' = [p \in ProfCells |->
                IF /\ profs[p] # Free /\ profs[p].server = old
                   /\ profs[p].type \in {t, "USER"}
                THEN [profs[p] EXCEPT !.server = new] ELSE profs[p]]
          /\ UNCHANGED <<conns, ctx, status>>)

(***************************************************************************)
(* Passwords.  Afterwards the identity of every interface's profile is     *)
(* looked up again (ipc_callout_rebind_upw_all).                           *)
(***************************************************************************)
GiveToProfile(name) ==
    \E p \in ProfileFor(name) :
        profs' = Put(profs, p, [profs[p] EXCEPT !.temp = TRUE])

SetConnectionUPW(name) ==
    \E k \in ConnectionFor(name) :
        Follow(BoundProfs,
            /\ IF conns[k].auth = "PSK"
               THEN /\ conns' = Put(conns, k, [conns[k] EXCEPT !.temp = TRUE])
                    /\ UNCHANGED profs
               ELSE GiveToProfile(conns[k].profile) /\ UNCHANGED conns
            /\ UNCHANGED <<servers, ctx, status>>)

\* What the connection is made for, if its configuration does not say: a
\* connection without a profile may also be left as it is.
AuthFor(c) ==
    IF c.auth # "UNKNOWN" THEN {c.auth}
    ELSE IF c.profile # NULL THEN {"EAP"} ELSE {"PSK", "NONE", "UNKNOWN"}

SetConnectionPW(name) ==
    \E k \in ConnectionFor(name) : \E auth \in AuthFor(conns[k]) :
        LET set == [conns[k] EXCEPT !.auth = auth]
        IN  /\ IF auth = "EAP" /\ ProfileFor(set.profile) # {}
               THEN Follow(BoundProfs, /\ conns' = Put(conns, k, set)
                                       /\ GiveToProfile(set.profile)
                                       /\ UNCHANGED <<servers, ctx, status>>)
               ELSE Follow(IF auth \in {"PSK", "NONE"} THEN BoundProfs
                                                       ELSE {},
                       /\ conns' = Put(conns, k,
                             [set EXCEPT !.temp = @ \/ auth = "PSK",
                                         !.key  = @ \/ auth = "NONE"])
                       /\ UNCHANGED <<profs, servers, ctx, status>>)

(***************************************************************************)
(* Binding.                                                                *)
(***************************************************************************)
Unbound == [conn |-> NULL, prof |-> NULL, connName |-> NULL]

\* xsupconfcheck_profile_check: is the password known, and the server?
ProfileCheck(p) ==
    IF ~p.stored /\ ~p.temp THEN "need"
    ELSE IF TsName(p) # NULL /\ ~NameUsed(servers, TsName(p)) THEN "error"
    ELSE "ok"

\* xsupconfcheck_conn_check for connection c with the profile in cell p.
ConnectionCheck(i, c, p) ==
    LET profile == IF c.profile = NULL THEN "ok"
                   ELSE IF p = NULL THEN "error" ELSE ProfileCheck(profs[p])
        eap     == c.auth \in {"EAP", "UNKNOWN"}
    IN  IF i \notin Wireless THEN profile
        ELSE IF \/ eap /\ profile = "need"
                \/ c.auth = "PSK" /\ ~c.key /\ ~c.temp
             THEN "need"
        ELSE IF \/ c.ssid = NULL
                \/ eap /\ profile = "error"
                \/ c.auth = "EAP" /\ c.profile = NULL
                \/ ~eap /\ c.profile # NULL
             THEN "error" ELSE "ok"

\* A mutant: a connection without 802.1X keeps the profile there was.
ProfileKept(i, name, k, p, found) ==
    [ctx[i] EXCEPT !.conn = k, !.connName = name,
                   !.prof = IF conns[k].auth \in {"PSK", "NONE"} THEN @
                                                                ELSE p]

\* The network is looked for when the connection has been bound already.
BoundBy(i, name, k, p, found) ==
    IF i \in Wireless /\ ~found THEN [ctx[i] EXCEPT !.conn = k]
    ELSE [conn |-> k, connName |-> name,
          prof |-> IF conns[k].auth \in {"PSK", "NONE"} THEN NULL ELSE p]

Candidates(name) ==
    {kp \in ConnectionFor(name) \X (ProfCells \cup {NULL}) :
        kp[2] \in OrNull(ProfileFor(conns[kp[1]].profile))}

\* A connection that needs a password is left to the user.
ChangeConnection(i, name, found) ==
    \/ \E kp \in Candidates(name) :
          /\ ConnectionCheck(i, conns[kp[1]], kp[2]) = "ok"
          /\ Follow({ctx[i].conn},
                /\ ctx' = [ctx EXCEPT ![i] =
                              BoundBy(i, name, kp[1], kp[2], found)]
                /\ UNCHANGED <<store, status>>)
    \/ /\ \A kp \in Candidates(name) :
             ConnectionCheck(i, conns[kp[1]], kp[2]) = "error"
       /\ Follow({}, /\ ctx' = [ctx EXCEPT ![i].connName = NULL]
                     /\ UNCHANGED <<store, status>>)

RequestLogoff(i) ==
    Follow({}, /\ ctx' = [ctx EXCEPT ![i].conn = NULL, ![i].connName = NULL]
               /\ UNCHANGED <<store, status>>)

\* context_disconnect.
Release(i) ==
    Follow({ctx[i].conn}, /\ ctx' = [ctx EXCEPT ![i] = Unbound]
                          /\ UNCHANGED <<store, status>>)

\* What was typed is to be forgotten, but the pointers are gone by then.
DisconnectConnection(i) == Release(i)

UnbindConnection(i) == Release(i)

(***************************************************************************)
(* config_build without a name, when the settings of an interface that has *)
(* a connection change: the default of a wired interface, if it is managed *)
(* and the connection can do without the user.                             *)
(***************************************************************************)
Defaults(t) == {k \in Cells(conns, t) : conns[k].ssid = NULL /\ conns[k].first}

HasAllData(k) == \E p \in ProfileFor(conns[k].profile) : profs[p].stored

SetInterface(i, managed) ==
    LET usable == IF i \in Wireless \/ ~managed THEN {}
                  ELSE Prefer(Defaults("GLOBAL"), Defaults("USER"))
    IN  /\ ctx[i].conn # NULL
        /\ Follow({},
              /\ \/ \E k \in usable : \E p \in
                        Prefer(Named(profs, "USER", conns[k].profile),
                               Named(profs, "GLOBAL", conns[k].profile)) :
                      /\ HasAllData(k)
                      /\ ctx' = [ctx EXCEPT ![i] =
                            [conn |-> k, prof |-> p,
                             connName |-> conns[k].name]]
                 \/ /\ \A k \in usable : ~HasAllData(k)
                    /\ ctx' = [ctx EXCEPT ![i].conn = NULL, ![i].prof = NULL]
              /\ UNCHANGED <<store, status>>)

\* config_build with the name of a network, after a scan or an association.
BuildForSsid(i, ssid) ==
    /\ i \in Wireless
    /\ Follow({}, /\ \/ \E kp \in Candidates(ssid) :
                          ctx' = [ctx EXCEPT ![i] =
                             [conn |-> kp[1], prof |-> kp[2],
                              connName |-> ssid]]
                     \/ /\ ConnectionFor(ssid) = {}
                        /\ ctx' = [ctx EXCEPT ![i] = Unbound]
                  /\ UNCHANGED <<store, status>>)

\* global_config_reload: all of it is freed, the file of the system is read
\* again, that of the user is not, and nobody is bound again.
Loaded(mem) ==
    [k \in DOMAIN mem |-> IF mem[k].type = "GLOBAL" THEN mem[k] ELSE Free]

Lost(pointer) == IF pointer = NULL THEN NULL ELSE FREED

ReloadConfiguration ==
    Follow({}, /\ conns' = Loaded(OnDisk.conns)
               /\ profs' = Loaded(OnDisk.profs)
               /\ servers' = Loaded(OnDisk.servers)
               /\ ctx' = [i \in Interfaces |->
                            [ctx[i] EXCEPT !.conn = Lost(@),
                                           !.prof = Lost(@)]]
               /\ UNCHANGED status)

Init ==
    /\ conns = OnDisk.conns /\ profs = OnDisk.profs
    /\ servers = OnDisk.servers
    /\ ctx = [i \in Interfaces |-> Unbound]
    /\ status = "up"

Deletes ==
    \E t \in Types, admin \in BOOLEAN :
        \/ \E name \in ConnNames : DeleteConnection(t, name, admin)
        \/ \E name \in ProfNames, forced \in BOOLEAN :
              DeleteProfile(t, name, forced, admin)
        \/ \E name \in ServerNames : DeleteServer(t, name, admin)

Sets ==
    \E admin \in BOOLEAN :
        \/ \E new \in NewConns : SetConnection(new, admin)
        \/ \E new \in NewProfs : SetProfile(new, admin)
        \/ \E new \in Servers : SetServer(new, admin)

Renames ==
    \E t \in Types, admin \in BOOLEAN :
        \/ \E old, new \in ConnNames : RenameConnection(t, old, new, admin)
        \/ \E old, new \in ProfNames : RenameProfile(t, old, new, admin)
        \/ \E old, new \in ServerNames : RenameServer(t, old, new, admin)

Passwords ==
    \E name \in ConnNames : SetConnectionUPW(name) \/ SetConnectionPW(name)

Binds ==
    \E i \in Interfaces :
        \/ \E name \in ConnNames \cup Ssids, found \in InCache :
              ChangeConnection(i, name, found)
        \/ RequestLogoff(i)
        \/ DisconnectConnection(i) \/ UnbindConnection(i)
        \/ \E managed \in BOOLEAN : SetInterface(i, managed)
        \/ \E ssid \in Ssids : BuildForSsid(i, ssid)

Next == Deletes \/ Sets \/ Renames \/ Passwords \/ Binds \/ ReloadConfiguration

Spec == Init /\ [][Next]_vars
=============================================================================
