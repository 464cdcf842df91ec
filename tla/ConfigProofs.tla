---------------------------- MODULE ConfigProofs ----------------------------
(***************************************************************************)
(* Theorems of ConfigStore, for every number of objects, names and         *)
(* interfaces, whatever the files hold and the user interface asks for.    *)
(***************************************************************************)
EXTENDS ConfigProperties, WellFoundedInduction, TLAPS

(***************************************************************************)
(* The invariant: no interface points to a cell that holds nothing.        *)
(***************************************************************************)
Valid(x) ==
    /\ x \in Contexts
    /\ x.conn \in ConnCells => conns[x.conn] # Free
    /\ x.prof \in ProfCells => profs[x.prof] # Free

StoreOk ==
    /\ conns \in [ConnCells -> Connections \cup {Free}]
    /\ profs \in [ProfCells -> Profiles \cup {Free}]
    /\ servers \in [ServerCells -> Servers \cup {Free}]

BoundOk ==
    ctx \in [Interfaces -> Contexts] /\ \A i \in Interfaces : Valid(ctx[i])

Invariant ==
    /\ StoreOk /\ NamesUnique /\ BoundOk
    /\ status \in {"up", "crashed", "undefined"}

\* No pointer to a connection begins to dangle.
Keeps == \A i \in Interfaces : ctx'[i].conn = FREED => ctx[i].conn = FREED

\* What is in a cell of one of the lists is no free one.
LEMMA Objects ==
    /\ \A c \in Connections :
          c # Free /\ c.type \in Types /\ c.name \in ConnNames
    /\ \A p \in Profiles :
          p # Free /\ p.type \in Types /\ p.name \in ProfNames
    /\ \A s \in Servers :
          s # Free /\ s.type \in Types /\ s.name \in ServerNames
    /\ Free.type = "FREE" /\ "FREE" \notin Types
BY DEF Connections, Profiles, Servers, Free, Types

\* The cells of a list hold objects of its type; the others are free.
LEMMA CellsOk ==
    ASSUME StoreOk
    PROVE  /\ \A t \in Types : \A k \in Cells(conns, t) :
                 k \in ConnCells /\ conns[k] \in Connections
                 /\ conns[k].type = t
           /\ \A t \in Types : \A k \in Cells(profs, t) :
                 k \in ProfCells /\ profs[k] \in Profiles /\ profs[k].type = t
           /\ \A t \in Types : \A k \in Cells(servers, t) :
                 k \in ServerCells /\ servers[k] \in Servers
           /\ \A k \in Unused(conns) : k \in ConnCells /\ conns[k] = Free
           /\ \A k \in Unused(profs) : k \in ProfCells /\ profs[k] = Free
           /\ \A k \in Unused(servers) : k \in ServerCells
<1>1. DOMAIN conns = ConnCells /\ DOMAIN profs = ProfCells
      /\ DOMAIN servers = ServerCells
    BY DEF StoreOk
<1>2. /\ \A k \in ConnCells : conns[k] \in Connections \/ conns[k] = Free
      /\ \A k \in ProfCells : profs[k] \in Profiles \/ profs[k] = Free
      /\ \A k \in ServerCells : servers[k] \in Servers \/ servers[k] = Free
    BY DEF StoreOk
<1> QED
    BY <1>1, <1>2, Objects DEF Cells, Unused

\* Where a new object goes: it replaces one of its name, or is added.
LEMMA PlaceOk ==
    ASSUME NEW mem, NEW t, NEW name, NEW k \in PlaceFor(mem, t, name)
    PROVE  \/ k \in Named(mem, t, name)
           \/ Named(mem, t, name) = {} /\ k \in Unused(mem)
<1>1. CASE Named(mem, t, name) # {}
    BY <1>1 DEF PlaceFor
<1>2. CASE Named(mem, t, name) = {} /\ Unused(mem) # {}
    <2>1. Fresh(mem) \in Unused(mem)
        BY <1>2 DEF Fresh
    <2> QED
        BY <1>2, <2>1 DEF PlaceFor
<1>3. CASE Named(mem, t, name) = {} /\ Unused(mem) = {}
    BY <1>3 DEF PlaceFor
<1> QED
    BY <1>1, <1>2, <1>3

(***************************************************************************)
(* Steps that change the interfaces only, and steps that only change what  *)
(* is in the cells.                                                        *)
(***************************************************************************)
LEMMA BindsOnly ==
    ASSUME Invariant, UNCHANGED <<store, status>>,
           ctx' \in [Interfaces -> Contexts],
           \A i \in Interfaces :
              \/ ctx'[i] = ctx[i]
              \/ /\ Valid(ctx'[i])
                 /\ ctx'[i].conn = FREED => ctx[i].conn = FREED
    PROVE  Invariant' /\ Keeps
<1>1. \A i \in Interfaces : Valid(ctx'[i])
    BY DEF Invariant, BoundOk
<1>2. conns' = conns /\ profs' = profs /\ servers' = servers
    BY DEF store
<1>3. BoundOk'
    BY <1>1, <1>2 DEF BoundOk, Valid
<1> QED
    BY <1>2, <1>3 DEF Invariant, StoreOk, NamesUnique, Keeps

LEMMA SameNames ==
    ASSUME Invariant, conns' \in [ConnCells -> Connections \cup {Free}],
           \A k \in ConnCells :
              /\ conns[k] = Free <=> conns'[k] = Free
              /\ conns'[k] # Free => conns'[k].name = conns[k].name
    PROVE  NamesUnique'
<1>1. DOMAIN conns = ConnCells /\ DOMAIN conns' = ConnCells
    BY DEF Invariant, StoreOk
<1> QED
    BY <1>1 DEF Invariant, NamesUnique, UniqueNames

LEMMA KeepsBinding ==
    ASSUME Invariant, ctx' = ctx,
           \A k \in ConnCells : conns'[k] = Free => conns[k] = Free,
           \A k \in ProfCells : profs'[k] = Free => profs[k] = Free
    PROVE  BoundOk'
BY DEF Invariant, BoundOk, Valid

\* The first of some interfaces.
LEMMA FirstOk ==
    ASSUME NEW S \in SUBSET Interfaces, S # {}
    PROVE  First(S) \in S
<1> DEFINE R == OpToRel(<, Nat)
<1>1. IsWellFoundedOn(R, Nat)
    BY NatLessThanWellFounded
<1>2. S \subseteq Nat
    BY ConfigAssumption
<1>3. \A x, y \in Nat : x < y => <<x, y>> \in R
    BY DEF OpToRel
<1> HIDE DEF R
<1>4. PICK x \in S : \A y \in S : ~ (<<y, x>> \in R)
    BY <1>1, <1>2, WFMin
<1>5. ASSUME NEW y \in S PROVE x <= y
    <2>1. x \in Nat /\ y \in Nat
        BY <1>2
    <2>2. ~ (y < x)
        BY <1>3, <1>4, <2>1
    <2> QED
        BY <2>1, <2>2
<1> QED
    BY <1>4, <1>5 DEF First

(***************************************************************************)
(* Deleting.                                                               *)
(***************************************************************************)
\* The pointers to a cell that is freed dangle, the others are as valid as
\* before.
LEMMA ConnFreedOk ==
    ASSUME Invariant, NEW k \in ConnCells, ConnFreed(k),
           \A j \in ConnCells \ {k} : conns'[j] = conns[j],
           profs' = profs
    PROVE  /\ BoundOk'
           /\ \A i \in Interfaces : ctx'[i].conn =
                 IF ctx[i].conn = k THEN FREED ELSE ctx[i].conn
<1>1. ctx' = [i \in Interfaces |-> [ctx[i] EXCEPT !.conn = After(@, k)]]
    BY DEF ConnFreed
<1>2. ASSUME NEW i \in Interfaces
      PROVE  /\ Valid(ctx[i])'
             /\ ctx'[i].conn = IF ctx[i].conn = k THEN FREED ELSE ctx[i].conn
    <2> DEFINE conn == After(ctx[i].conn, k)
    <2>1. ctx[i] \in Contexts /\ Valid(ctx[i])
        BY DEF Invariant, BoundOk
    <2>2. conn = IF ctx[i].conn = k THEN FREED ELSE ctx[i].conn
        BY DEF After
    <2>3. conn \in ConnCells \cup {NULL, FREED}
        BY <2>1, <2>2 DEF Contexts
    <2>4. ctx'[i] = [ctx[i] EXCEPT !.conn = conn]
        BY <1>1, <2>1 DEF Contexts
    <2> HIDE DEF conn
    <2>5. /\ ctx'[i] \in Contexts /\ ctx'[i].conn = conn
          /\ ctx'[i].prof = ctx[i].prof
        BY <2>1, <2>3, <2>4 DEF Contexts
    <2>6. conn \in ConnCells => conn # k /\ conn = ctx[i].conn
        BY <2>2, ConfigAssumption
    <2> QED
        BY <2>1, <2>2, <2>5, <2>6 DEF Valid
<1>3. ctx' \in [Interfaces -> Contexts]
    BY <1>1, <1>2 DEF Valid
<1> QED
    BY <1>2, <1>3 DEF BoundOk

LEMMA ProfFreedOk ==
    ASSUME Invariant, NEW k \in ProfCells, ProfFreed(k),
           \A j \in ProfCells \ {k} : profs'[j] = profs[j],
           conns' = conns
    PROVE  /\ BoundOk'
           /\ \A i \in Interfaces : ctx'[i].conn = ctx[i].conn
<1>1. ctx' = [i \in Interfaces |-> [ctx[i] EXCEPT !.prof = After(@, k)]]
    BY DEF ProfFreed
<1>2. ASSUME NEW i \in Interfaces
      PROVE  Valid(ctx[i])' /\ ctx'[i].conn = ctx[i].conn
    <2> DEFINE prof == After(ctx[i].prof, k)
    <2>1. ctx[i] \in Contexts /\ Valid(ctx[i])
        BY DEF Invariant, BoundOk
    <2>2. prof = IF ctx[i].prof = k THEN FREED ELSE ctx[i].prof
        BY DEF After
    <2>3. prof \in ProfCells \cup {NULL, FREED}
        BY <2>1, <2>2 DEF Contexts
    <2>4. ctx'[i] = [ctx[i] EXCEPT !.prof = prof]
        BY <1>1, <2>1 DEF Contexts
    <2> HIDE DEF prof
    <2>5. /\ ctx'[i] \in Contexts /\ ctx'[i].prof = prof
          /\ ctx'[i].conn = ctx[i].conn
        BY <2>1, <2>3, <2>4 DEF Contexts
    <2>6. prof \in ProfCells => prof # k /\ prof = ctx[i].prof
        BY <2>2, ConfigAssumption
    <2> QED
        BY <2>1, <2>5, <2>6 DEF Valid
<1>3. ctx' \in [Interfaces -> Contexts]
    BY <1>1, <1>2 DEF Valid
<1> QED
    BY <1>2, <1>3 DEF BoundOk

\* The objects of a name.
LEMMA NamedOk ==
    ASSUME StoreOk, NEW t \in Types, NEW name
    PROVE  /\ \A k \in Named(conns, t, name) :
                 k \in ConnCells /\ conns[k] \in Connections
                 /\ conns[k].type = t /\ conns[k].name = name
           /\ \A k \in Named(profs, t, name) :
                 k \in ProfCells /\ profs[k] \in Profiles
                 /\ profs[k].type = t /\ profs[k].name = name
           /\ \A k \in Named(servers, t, name) :
                 k \in ServerCells /\ servers[k] \in Servers
BY CellsOk DEF Named

\* The program has stopped, or nothing happens.
LEMMA StoppedOk ==
    ASSUME Invariant, UNCHANGED <<store, ctx>>,
           status' \in {"up", "crashed", "undefined"}
    PROVE  Invariant' /\ Keeps
BY DEF Invariant, StoreOk, NamesUnique, BoundOk, Valid, Keeps, store

\* A connection that no interface uses is freed, and another one may take its
\* cell.
LEMMA ReplaceOk ==
    ASSUME Invariant, NEW k \in ConnCells, NEW new \in Connections \cup {Free},
           conns' = Put(conns, k, new), ConnFreed(k),
           UNCHANGED <<profs, servers, status>>,
           \A i \in Interfaces : ctx[i].conn # k,
           new # Free => \A j \in ConnCells \ {k} :
                            conns[j] # Free => conns[j].name # new.name
    PROVE  Invariant' /\ Keeps
<1>1. /\ conns' \in [ConnCells -> Connections \cup {Free}]
      /\ conns'[k] = new
      /\ \A j \in ConnCells \ {k} : conns'[j] = conns[j]
    BY DEF Invariant, StoreOk, Put
<1>2. BoundOk' /\ Keeps
    BY <1>1, ConnFreedOk DEF Keeps
<1>3. NamesUnique'
    BY <1>1 DEF Invariant, StoreOk, NamesUnique, UniqueNames
<1> QED
    BY <1>1, <1>2, <1>3 DEF Invariant, StoreOk

\* Only a connection that is in use is one an interface points to.
LEMMA InUse ==
    ASSUME Invariant, FREED \notin BoundConns, NEW name,
           ~ConnectionInUse(name), NEW k \in ConnCells, conns[k].name = name
    PROVE  \A i \in Interfaces : ctx[i].conn # k
BY DEF ConnectionInUse, BoundConns

LEMMA DeleteConnectionOk ==
    ASSUME Invariant, NEW t \in Types, NEW name, NEW admin,
           DeleteConnection(t, name, admin)
    PROVE  Invariant' /\ Keeps
<1>1. CASE UNCHANGED <<store, ctx>> /\ status' \in {"crashed", "undefined"}
    BY <1>1, StoppedOk
<1>2. CASE /\ FREED \notin BoundConns /\ ~ConnectionInUse(name)
           /\ \E k \in Named(conns, t, name) : RemoveConnection(k)
           /\ UNCHANGED <<profs, servers, status>>
    <2>1. PICK k \in Named(conns, t, name) : RemoveConnection(k)
        BY <1>2
    <2>2. k \in ConnCells /\ conns[k].name = name
        BY NamedOk DEF Invariant
    <2>3. \A i \in Interfaces : ctx[i].conn # k
        BY <1>2, <2>2, InUse
    <2> QED
        BY <1>2, <2>1, <2>2, <2>3, ReplaceOk DEF RemoveConnection
<1> QED
    BY <1>1, <1>2 DEF DeleteConnection, Follow

\* A profile is freed, and another one may take its cell.
LEMMA ReplaceProfileOk ==
    ASSUME Invariant, NEW k \in ProfCells, NEW new \in Profiles \cup {Free},
           profs' = Put(profs, k, new), ProfFreed(k),
           UNCHANGED <<conns, servers, status>>
    PROVE  Invariant' /\ Keeps
<1>1. /\ profs' \in [ProfCells -> Profiles \cup {Free}]
      /\ \A j \in ProfCells \ {k} : profs'[j] = profs[j]
    BY DEF Invariant, StoreOk, Put
<1>2. BoundOk' /\ Keeps
    BY <1>1, ProfFreedOk DEF Keeps
<1> QED
    BY <1>1, <1>2 DEF Invariant, StoreOk, NamesUnique

LEMMA DeleteProfileOk ==
    ASSUME Invariant, NEW t \in Types, NEW name, NEW forced, NEW admin,
           DeleteProfile(t, name, forced, admin)
    PROVE  Invariant' /\ Keeps
<1>1. PICK k \in Named(profs, t, name) : RemoveProfile(k)
    BY DEF DeleteProfile, Follow
<1>2. k \in ProfCells
    BY NamedOk DEF Invariant
<1>3. UNCHANGED <<conns, servers, status>>
    BY DEF DeleteProfile, Follow
<1> QED
    BY <1>1, <1>2, <1>3, ReplaceProfileOk DEF RemoveProfile

\* The trusted servers change, and nothing else does.
LEMMA ServersOk ==
    ASSUME Invariant, UNCHANGED <<conns, profs, ctx, status>>,
           servers' \in [ServerCells -> Servers \cup {Free}]
    PROVE  Invariant' /\ Keeps
BY DEF Invariant, StoreOk, NamesUnique, BoundOk, Valid, Keeps

LEMMA DeleteServerOk ==
    ASSUME Invariant, NEW t \in Types, NEW name, NEW admin,
           DeleteServer(t, name, admin)
    PROVE  Invariant' /\ Keeps
<1>1. PICK k \in Named(servers, t, name) : servers' = Put(servers, k, Free)
    BY DEF DeleteServer, Follow, RemoveServer
<1>2. UNCHANGED <<conns, profs, ctx, status>>
    BY DEF DeleteServer, Follow
<1>3. servers' \in [ServerCells -> Servers \cup {Free}]
    BY <1>1 DEF Invariant, StoreOk, Put
<1> QED
    BY <1>2, <1>3, ServersOk

(***************************************************************************)
(* Adding and changing.                                                    *)
(***************************************************************************)
\* The objects in the cells change, but not which cells hold one, nor the
\* names of the connections; the interfaces stay bound.
LEMMA ChangedOk ==
    ASSUME Invariant, UNCHANGED <<servers, ctx, status>>,
           conns' \in [ConnCells -> Connections \cup {Free}],
           profs' \in [ProfCells -> Profiles \cup {Free}],
           \A k \in ConnCells :
              /\ conns[k] = Free <=> conns'[k] = Free
              /\ conns'[k] # Free => conns'[k].name = conns[k].name,
           \A k \in ProfCells : profs'[k] = Free => profs[k] = Free
    PROVE  Invariant' /\ Keeps
<1>1. NamesUnique'
    BY SameNames
<1>2. BoundOk'
    BY KeepsBinding
<1> QED
    BY <1>1, <1>2 DEF Invariant, StoreOk, Keeps

\* A change to one connection.
LEMMA ConnChanged ==
    ASSUME Invariant, NEW k \in ConnCells, conns[k] # Free,
           NEW new \in Connections, new.name = conns[k].name,
           conns' = Put(conns, k, new)
    PROVE  /\ conns' \in [ConnCells -> Connections \cup {Free}]
           /\ \A j \in ConnCells :
                 /\ conns[j] = Free <=> conns'[j] = Free
                 /\ conns'[j] # Free => conns'[j].name = conns[j].name
BY Objects DEF Invariant, StoreOk, Put

\* A change to one profile.
LEMMA ProfChanged ==
    ASSUME Invariant, NEW p \in ProfCells, profs[p] # Free,
           NEW new \in Profiles, profs' = Put(profs, p, new)
    PROVE  /\ profs' \in [ProfCells -> Profiles \cup {Free}]
           /\ \A j \in ProfCells : profs'[j] = Free => profs[j] = Free
BY Objects DEF Invariant, StoreOk, Put

\* What a search finds.
LEMMA Found ==
    ASSUME StoreOk
    PROVE  /\ \A t \in Types : \A name : \A k \in FindConnection(t, name) :
                 k \in ConnCells /\ conns[k] \in Connections
           /\ \A name : \A k \in ConnectionFor(name) :
                 k \in ConnCells /\ conns[k] \in Connections
           /\ \A name : \A p \in ProfileFor(name) :
                 p \in ProfCells /\ profs[p] \in Profiles
<1>1. \A t \in Types : \A name : \A k \in FindConnection(t, name) :
          k \in ConnCells /\ conns[k] \in Connections
    BY CellsOk DEF FindConnection, Prefer, Named
<1>2. \A name : \A k \in ConnectionFor(name) :
          k \in ConnCells /\ conns[k] \in Connections
    BY <1>1 DEF ConnectionFor, Prefer, Types
<1>3. \A name : \A p \in ProfileFor(name) :
          p \in ProfCells /\ profs[p] \in Profiles
    BY CellsOk DEF ProfileFor, Prefer, Named, Types
<1> QED
    BY <1>1, <1>2, <1>3

LEMMA SetConnectionOk ==
    ASSUME Invariant, NEW new \in Connections, NEW admin,
           SetConnection(new, admin)
    PROVE  Invariant' /\ Keeps
<1>1. CASE UNCHANGED <<store, ctx>> /\ status' = "undefined"
    BY <1>1, StoppedOk
<1>2. CASE /\ ConnectionInUse(new.name)
           /\ \E k \in FindConnection(new.type, new.name) :
                 conns' = Put(conns, k,
                              [conns[k] EXCEPT !.first = new.first,
                                               !.key = @ \/ new.key])
           /\ UNCHANGED <<profs, servers, ctx, status>>
    <2>1. PICK k \in FindConnection(new.type, new.name) :
             conns' = Put(conns, k,
                          [conns[k] EXCEPT !.first = new.first,
                                           !.key = @ \/ new.key])
        BY <1>2
    <2>2. k \in ConnCells /\ conns[k] \in Connections /\ conns[k] # Free
        BY Objects, Found DEF Invariant
    <2> DEFINE key == conns[k].key \/ new.key
               changed == [conns[k] EXCEPT !.first = new.first, !.key = key]
    <2>3. key \in BOOLEAN
        OBVIOUS
    <2>4. conns' = Put(conns, k, changed)
        BY <2>1, <2>2 DEF Connections
    <2> HIDE DEF key
    <2>5. changed \in Connections /\ changed.name = conns[k].name
        BY <2>2, <2>3 DEF Connections
    <2> HIDE DEF changed
    <2>6. /\ conns' \in [ConnCells -> Connections \cup {Free}]
          /\ \A j \in ConnCells :
                /\ conns[j] = Free <=> conns'[j] = Free
                /\ conns'[j] # Free => conns'[j].name = conns[j].name
        BY <2>2, <2>4, <2>5, ConnChanged
    <2> QED
        BY <1>2, <2>6, ChangedOk DEF Invariant, StoreOk
<1>3. CASE /\ ~ConnectionInUse(new.name) /\ FREED \notin BoundConns
           /\ FindConnection(Other(new.type), new.name) = {}
           /\ PutConnection(new)
           /\ UNCHANGED <<profs, servers, status>>
    <2>1. PICK k \in PlaceFor(conns, new.type, new.name) :
             conns' = Put(conns, k, new) /\ ConnFreed(k)
        BY <1>3 DEF PutConnection
    <2>2. new.type \in Types /\ Other(new.type) \in Types
        BY Objects DEF Other, Types
    <2>3. Named(conns, Other(new.type), new.name) = {}
        BY <1>3 DEF FindConnection, Prefer
    <2>4. DOMAIN conns = ConnCells
        BY DEF Invariant, StoreOk
    <2>5. ASSUME NEW j \in ConnCells \ {k}, conns[j] # Free
          PROVE  conns[j].name # new.name
        <3>1. conns[j] \in Connections /\ conns[j].type \in Types
            BY <2>5, Objects DEF Invariant, StoreOk
        <3>2. CASE k \in Named(conns, new.type, new.name)
            <4>1. k \in ConnCells /\ conns[k] # Free
                  /\ conns[k].name = new.name
                BY <2>2, <3>2, NamedOk, Objects DEF Invariant
            <4> QED
                BY <2>4, <2>5, <4>1 DEF Invariant, NamesUnique, UniqueNames
        <3>3. CASE Named(conns, new.type, new.name) = {}
            BY <2>2, <2>3, <2>4, <3>1, <3>3
            DEF Named, Cells, Types, Other
        <3> QED
            BY <2>1, <3>2, <3>3, PlaceOk
    <2>6. k \in ConnCells /\ \A i \in Interfaces : ctx[i].conn # k
        <3>1. CASE k \in Named(conns, new.type, new.name)
            BY <1>3, <2>2, <3>1, NamedOk, InUse DEF Invariant
        <3>2. CASE k \in Unused(conns)
            BY <3>2, CellsOk DEF Invariant, BoundOk, Valid
        <3> QED
            BY <2>1, <3>1, <3>2, PlaceOk
    <2> QED
        BY <1>3, <2>1, <2>5, <2>6, ReplaceOk
<1> QED
    BY <1>1, <1>2, <1>3 DEF SetConnection, Follow

LEMMA SetProfileOk ==
    ASSUME Invariant, NEW new \in Profiles, NEW admin, SetProfile(new, admin)
    PROVE  Invariant' /\ Keeps
<1>1. PICK k \in PlaceFor(profs, new.type, new.name) :
         profs' = Put(profs, k, new) /\ ProfFreed(k)
    BY DEF SetProfile, Follow, PutProfile
<1>2. UNCHANGED <<conns, servers, status>>
    BY DEF SetProfile, Follow
<1>3. k \in ProfCells
    <2>1. new.type \in Types
        BY Objects
    <2> QED
        BY <1>1, <2>1, PlaceOk, NamedOk, CellsOk DEF Invariant
<1> QED
    BY <1>1, <1>2, <1>3, ReplaceProfileOk

LEMMA SetServerOk ==
    ASSUME Invariant, NEW new \in Servers, NEW admin, SetServer(new, admin)
    PROVE  Invariant' /\ Keeps
<1>1. CASE UNCHANGED <<store, ctx>> /\ status' = "undefined"
    BY <1>1, StoppedOk
<1>2. CASE PutServer(new) /\ UNCHANGED <<conns, profs, ctx, status>>
    <2>1. PICK k \in PlaceFor(servers, new.type, new.name) :
             servers' = Put(servers, k, new)
        BY <1>2 DEF PutServer
    <2>2. servers' \in [ServerCells -> Servers \cup {Free}]
        BY <2>1 DEF Put, Invariant, StoreOk
    <2> QED
        BY <1>2, <2>2, ServersOk
<1> QED
    BY <1>1, <1>2 DEF SetServer, Follow

(***************************************************************************)
(* Renaming.                                                               *)
(***************************************************************************)
\* A context goes by another name.
LEMMA ContextNamed ==
    ASSUME NEW x, Valid(x), NEW name \in ConnNames \cup Ssids \cup {NULL}
    PROVE  /\ Valid([x EXCEPT !.connName = name])
           /\ [x EXCEPT !.connName = name].conn = x.conn
           /\ [x EXCEPT !.connName = name].prof = x.prof
BY DEF Valid, Contexts

\* Objects of one name get another one.
LEMMA RenamedOk ==
    ASSUME StoreOk, NEW t \in Types, NEW old, NEW new
    PROVE  /\ new \in ConnNames =>
              /\ Renamed(conns, t, old, new)
                    \in [ConnCells -> Connections \cup {Free}]
              /\ \A k \in ConnCells :
                    LET r == Renamed(conns, t, old, new)[k]
                    IN  \/ r = conns[k]
                        \/ /\ conns[k] # Free /\ conns[k].name = old
                           /\ r # Free /\ r.name = new
           /\ new \in ProfNames =>
              /\ Renamed(profs, t, old, new)
                    \in [ProfCells -> Profiles \cup {Free}]
              /\ \A k \in ProfCells :
                    Renamed(profs, t, old, new)[k] = Free => profs[k] = Free
           /\ new \in ServerNames =>
              Renamed(servers, t, old, new)
                    \in [ServerCells -> Servers \cup {Free}]
<1>1. ASSUME new \in ConnNames, NEW k \in ConnCells
      PROVE  LET r == Renamed(conns, t, old, new)[k]
             IN  /\ r \in Connections \cup {Free}
                 /\ \/ r = conns[k]
                    \/ /\ conns[k] # Free /\ conns[k].name = old
                       /\ r # Free /\ r.name = new
    <2>1. Renamed(conns, t, old, new)[k] =
              IF k \in Named(conns, t, old)
              THEN [conns[k] EXCEPT !.name = new] ELSE conns[k]
        BY DEF Renamed, StoreOk
    <2>2. CASE k \in Named(conns, t, old)
        <3>1. conns[k] \in Connections /\ conns[k].name = old
              /\ conns[k] # Free
            BY <2>2, NamedOk, Objects
        <3>2. /\ [conns[k] EXCEPT !.name = new] \in Connections
              /\ [conns[k] EXCEPT !.name = new].name = new
            BY <1>1, <3>1 DEF Connections
        <3> QED
            BY <2>1, <2>2, <3>1, <3>2, Objects
    <2>3. CASE k \notin Named(conns, t, old)
        BY <2>1, <2>3 DEF StoreOk
    <2> QED
        BY <2>2, <2>3
<1>2. ASSUME new \in ProfNames, NEW k \in ProfCells
      PROVE  /\ Renamed(profs, t, old, new)[k] \in Profiles \cup {Free}
             /\ Renamed(profs, t, old, new)[k] = Free => profs[k] = Free
    <2>1. Renamed(profs, t, old, new)[k] =
              IF k \in Named(profs, t, old)
              THEN [profs[k] EXCEPT !.name = new] ELSE profs[k]
        BY DEF Renamed, StoreOk
    <2>2. CASE k \in Named(profs, t, old)
        <3>1. profs[k] \in Profiles
            BY <2>2, NamedOk
        <3>2. [profs[k] EXCEPT !.name = new] \in Profiles
            BY <1>2, <3>1 DEF Profiles
        <3> QED
            BY <2>1, <2>2, <3>1, <3>2, Objects
    <2>3. CASE k \notin Named(profs, t, old)
        BY <2>1, <2>3 DEF StoreOk
    <2> QED
        BY <2>2, <2>3
<1>3. ASSUME new \in ServerNames, NEW k \in ServerCells
      PROVE  Renamed(servers, t, old, new)[k] \in Servers \cup {Free}
    <2>1. Renamed(servers, t, old, new)[k] =
              IF k \in Named(servers, t, old)
              THEN [servers[k] EXCEPT !.name = new] ELSE servers[k]
        BY DEF Renamed, StoreOk
    <2>2. CASE k \in Named(servers, t, old)
        <3>1. servers[k] \in Servers
            BY <2>2, NamedOk
        <3>2. [servers[k] EXCEPT !.name = new] \in Servers
            BY <1>3, <3>1 DEF Servers
        <3> QED
            BY <2>1, <2>2, <3>2
    <2>3. CASE k \notin Named(servers, t, old)
        BY <2>1, <2>3 DEF StoreOk
    <2> QED
        BY <2>2, <2>3
<1> QED
    BY <1>1, <1>2, <1>3 DEF Renamed, StoreOk

\* One connection gets a name that no connection has.
LEMMA NewNameOk ==
    ASSUME Invariant, NEW new, ~NameUsed(conns, new),
           conns' \in [ConnCells -> Connections \cup {Free}],
           \A k \in ConnCells :
              \/ conns'[k] = conns[k]
              \/ conns[k] # Free /\ conns'[k] # Free /\ conns'[k].name = new,
           \A j, k \in ConnCells :
              conns'[j] # conns[j] /\ conns'[k] # conns[k] => j = k
    PROVE  NamesUnique'
<1>1. DOMAIN conns = ConnCells /\ DOMAIN conns' = ConnCells
    BY DEF Invariant, StoreOk
<1>2. \A k \in ConnCells : conns[k] # Free => conns[k].name # new
    <2>1. ASSUME NEW k \in ConnCells, conns[k] # Free
          PROVE  conns[k].name # new
        <3>1. conns[k].type \in Types
            BY <2>1, Objects DEF Invariant, StoreOk
        <3> QED
            BY <1>1, <3>1 DEF NameUsed, Named, Cells
    <2> QED
        BY <2>1
<1>3. ASSUME NEW j \in ConnCells, NEW k \in ConnCells,
             conns'[j] # Free, conns'[k] # Free,
             conns'[j].name = conns'[k].name
      PROVE  j = k
    <2>1. CASE conns'[j] = conns[j] /\ conns'[k] = conns[k]
        BY <1>1, <1>3, <2>1 DEF Invariant, NamesUnique, UniqueNames
    <2>2. CASE conns'[j] = conns[j] /\ conns'[k] # conns[k]
        BY <1>2, <1>3, <2>2
    <2>3. CASE conns'[j] # conns[j] /\ conns'[k] = conns[k]
        BY <1>2, <1>3, <2>3
    <2>4. CASE conns'[j] # conns[j] /\ conns'[k] # conns[k]
        BY <2>4
    <2> QED
        BY <2>1, <2>2, <2>3, <2>4
<1> QED
    BY <1>1, <1>3 DEF NamesUnique, UniqueNames

LEMMA RenameConnectionOk ==
    ASSUME Invariant, NEW t \in Types, NEW old, NEW new \in ConnNames,
           NEW admin, RenameConnection(t, old, new, admin)
    PROVE  Invariant' /\ Keeps
<1> DEFINE bound == {i \in Interfaces :
                        ctx[i].connName = old /\ ctx[i].conn # NULL}
           k     == ctx[First(bound)].conn
<1>1. ~NameUsed(conns, new)
    BY DEF RenameConnection
<1>2. \/ UNCHANGED <<store, ctx>> /\ status' = "undefined"
      \/ /\ FREED \notin IF bound = {} THEN {} ELSE {k}
         /\ ctx' = [i \in Interfaces |->
                      IF ctx[i].connName = old
                      THEN [ctx[i] EXCEPT !.connName = new] ELSE ctx[i]]
         /\ conns' = IF bound = {} THEN Renamed(conns, t, old, new)
                     ELSE Put(conns, k, [conns[k] EXCEPT !.name = new])
         /\ UNCHANGED <<profs, servers, status>>
    BY DEF RenameConnection, Follow
<1>3. CASE UNCHANGED <<store, ctx>> /\ status' = "undefined"
    BY <1>3, StoppedOk
<1>4. CASE /\ FREED \notin IF bound = {} THEN {} ELSE {k}
           /\ ctx' = [i \in Interfaces |->
                        IF ctx[i].connName = old
                        THEN [ctx[i] EXCEPT !.connName = new] ELSE ctx[i]]
           /\ conns' = IF bound = {} THEN Renamed(conns, t, old, new)
                       ELSE Put(conns, k, [conns[k] EXCEPT !.name = new])
           /\ UNCHANGED <<profs, servers, status>>
    <2>1. /\ conns' \in [ConnCells -> Connections \cup {Free}]
          /\ \A c \in ConnCells :
                \/ conns'[c] = conns[c]
                \/ conns[c] # Free /\ conns'[c] # Free /\ conns'[c].name = new
          /\ \A b, c \in ConnCells :
                conns'[b] # conns[b] /\ conns'[c] # conns[c] => b = c
        <3>1. CASE bound = {}
            <4>1. conns' = Renamed(conns, t, old, new)
                BY <1>4, <3>1
            <4>2. StoreOk /\ DOMAIN conns = ConnCells
                BY DEF Invariant, StoreOk
            <4>3. /\ conns' \in [ConnCells -> Connections \cup {Free}]
                  /\ \A c \in ConnCells :
                        \/ conns'[c] = conns[c]
                        \/ /\ conns[c] # Free /\ conns[c].name = old
                           /\ conns'[c] # Free /\ conns'[c].name = new
                BY <4>1, <4>2, RenamedOk
            <4>4. \A b, c \in ConnCells :
                     conns'[b] # conns[b] /\ conns'[c] # conns[c] => b = c
                BY <4>2, <4>3 DEF Invariant, NamesUnique, UniqueNames
            <4> QED
                BY <4>3, <4>4
        <3>2. CASE bound # {}
            <4>1. First(bound) \in bound
                BY <3>2, FirstOk
            <4>2. /\ conns' = Put(conns, k, [conns[k] EXCEPT !.name = new])
                  /\ k # FREED /\ k # NULL
                BY <1>4, <3>2, <4>1
            <4>3. k \in ConnCells /\ conns[k] # Free
                BY <4>1, <4>2 DEF Invariant, BoundOk, Valid, Contexts
            <4> HIDE DEF k
            <4>4. conns[k] \in Connections
                BY <4>3 DEF Invariant, StoreOk
            <4>5. /\ [conns[k] EXCEPT !.name = new] \in Connections
                  /\ [conns[k] EXCEPT !.name = new].name = new
                BY <4>4 DEF Connections
            <4> QED
                BY <4>2, <4>3, <4>5, Objects DEF Put, Invariant, StoreOk
        <3> QED
            BY <3>1, <3>2
    <2>2. NamesUnique'
        BY <1>1, <2>1, NewNameOk
    <2>3. BoundOk' /\ Keeps
        <3>1. ASSUME NEW i \in Interfaces
              PROVE  /\ Valid(ctx[i])' /\ ctx'[i] \in Contexts
                     /\ ctx'[i].conn = ctx[i].conn
            <4>1. Valid(ctx[i])
                BY DEF Invariant, BoundOk
            <4>2. ctx'[i] = IF ctx[i].connName = old
                            THEN [ctx[i] EXCEPT !.connName = new] ELSE ctx[i]
                BY <1>4
            <4>3. Valid(ctx'[i]) /\ ctx'[i].conn = ctx[i].conn
                BY <4>1, <4>2, ContextNamed
            <4>4. \A c \in ConnCells : conns[c] # Free => conns'[c] # Free
                BY <2>1
            <4> QED
                BY <1>4, <4>3, <4>4 DEF Valid
        <3>2. ctx' \in [Interfaces -> Contexts]
            BY <1>4, <3>1
        <3> QED
            BY <3>1, <3>2 DEF BoundOk, Keeps
    <2> QED
        BY <1>4, <2>1, <2>2, <2>3 DEF Invariant, StoreOk
<1> QED
    BY <1>2, <1>3, <1>4

LEMMA RenameProfileOk ==
    ASSUME Invariant, NEW t \in Types, NEW old, NEW new \in ProfNames,
           NEW admin, RenameProfile(t, old, new, admin)
    PROVE  Invariant' /\ Keeps
<1> DEFINE refer == {i \in Interfaces :
                       /\ ctx[i].conn \in ConnCells
                       /\ conns[ctx[i].conn].profile = old
                       /\ \A j \in 1 .. i - 1 : ctx[j].conn # ctx[i].conn}
           bound == {i \in refer : ctx[i].prof # NULL}
           k     == ctx[First(bound)].prof
           refers(c) == /\ conns[c] # Free /\ conns[c].profile = old
                        /\ \/ c \in BoundConns
                           \/ conns[c].type \in {t, "USER"}
           asked == BoundConns \cup (IF bound = {} THEN {} ELSE {k})
<1>1. \/ UNCHANGED <<store, ctx>> /\ status' = "undefined"
      \/ /\ FREED \notin asked
         /\ profs' = IF bound = {} THEN Renamed(profs, t, old, new)
                     ELSE Put(profs, k, [profs[k] EXCEPT !.name = new])
         /\ conns' = [c \in ConnCells |->
                        IF refers(c) THEN [conns[c] EXCEPT !.profile = new]
                        ELSE conns[c]]
         /\ UNCHANGED <<servers, ctx, status>>
    BY DEF RenameProfile, Follow
<1>2. CASE UNCHANGED <<store, ctx>> /\ status' = "undefined"
    BY <1>2, StoppedOk
<1>3. CASE /\ FREED \notin asked
           /\ profs' = IF bound = {} THEN Renamed(profs, t, old, new)
                       ELSE Put(profs, k, [profs[k] EXCEPT !.name = new])
           /\ conns' = [c \in ConnCells |->
                          IF refers(c) THEN [conns[c] EXCEPT !.profile = new]
                          ELSE conns[c]]
           /\ UNCHANGED <<servers, ctx, status>>
    <2>1. ASSUME NEW c \in ConnCells
          PROVE  /\ conns'[c] \in Connections \cup {Free}
                 /\ conns[c] = Free <=> conns'[c] = Free
                 /\ conns'[c] # Free => conns'[c].name = conns[c].name
        <3>1. conns'[c] = IF refers(c) THEN [conns[c] EXCEPT !.profile = new]
                          ELSE conns[c]
            BY <1>3
        <3>2. CASE refers(c)
            <4>1. conns[c] \in Connections
                BY <3>2 DEF Invariant, StoreOk
            <4>2. /\ [conns[c] EXCEPT !.profile = new] \in Connections
                  /\ [conns[c] EXCEPT !.profile = new].name = conns[c].name
                BY <4>1 DEF Connections
            <4> QED
                BY <3>1, <3>2, <4>2, Objects
        <3>3. CASE ~refers(c)
            BY <3>1, <3>3 DEF Invariant, StoreOk
        <3> QED
            BY <3>2, <3>3
    <2> HIDE DEF refers
    <2>2. conns' \in [ConnCells -> Connections \cup {Free}]
        BY <1>3, <2>1
    <2>3. /\ profs' \in [ProfCells -> Profiles \cup {Free}]
          /\ \A p \in ProfCells : profs'[p] = Free => profs[p] = Free
        <3>1. CASE bound = {}
            BY <1>3, <3>1, RenamedOk DEF Invariant
        <3>2. CASE bound # {}
            <4>1. First(bound) \in bound /\ bound \subseteq Interfaces
                BY <3>2, FirstOk
            <4>2. /\ profs' = Put(profs, k, [profs[k] EXCEPT !.name = new])
                  /\ k # FREED /\ k # NULL
                BY <1>3, <3>2, <4>1
            <4>3. k \in ProfCells /\ profs[k] # Free
                BY <4>1, <4>2 DEF Invariant, BoundOk, Valid, Contexts
            <4> HIDE DEF k
            <4>4. profs[k] \in Profiles
                BY <4>3 DEF Invariant, StoreOk
            <4>5. [profs[k] EXCEPT !.name = new] \in Profiles
                BY <4>4 DEF Profiles
            <4> QED
                BY <4>2, <4>3, <4>5, ProfChanged
        <3> QED
            BY <3>1, <3>2
    <2> QED
        BY <1>3, <2>1, <2>2, <2>3, ChangedOk
<1> QED
    BY <1>1, <1>2, <1>3

LEMMA RenameServerOk ==
    ASSUME Invariant, NEW t \in Types, NEW old, NEW new \in ServerNames,
           NEW admin, RenameServer(t, old, new, admin)
    PROVE  Invariant' /\ Keeps
<1> DEFINE refers(p) == /\ profs[p] # Free /\ profs[p].server = old
                        /\ profs[p].type \in {t, "USER"}
<1>1. /\ servers' = Renamed(servers, t, old, new)
      /\ profs' = [p \in ProfCells |->
                     IF refers(p) THEN [profs[p] EXCEPT !.server = new]
                     ELSE profs[p]]
      /\ UNCHANGED <<conns, ctx, status>>
    BY DEF RenameServer, Follow
<1>2. servers' \in [ServerCells -> Servers \cup {Free}]
    BY <1>1, RenamedOk DEF Invariant
<1>3. ASSUME NEW p \in ProfCells
      PROVE  /\ profs'[p] \in Profiles \cup {Free}
             /\ profs'[p] = Free => profs[p] = Free
    <2>1. profs'[p] = IF refers(p) THEN [profs[p] EXCEPT !.server = new]
                      ELSE profs[p]
        BY <1>1
    <2>2. CASE refers(p)
        <3>1. profs[p] \in Profiles
            BY <2>2 DEF Invariant, StoreOk
        <3>2. [profs[p] EXCEPT !.server = new] \in Profiles
            BY <3>1 DEF Profiles
        <3> QED
            BY <2>1, <2>2, <3>2, Objects
    <2>3. CASE ~refers(p)
        BY <2>1, <2>3 DEF Invariant, StoreOk
    <2> QED
        BY <2>2, <2>3
<1> HIDE DEF refers
<1>4. profs' \in [ProfCells -> Profiles \cup {Free}]
    BY <1>1, <1>3
<1>5. BoundOk'
    BY <1>1, <1>3, KeepsBinding
<1> QED
    BY <1>1, <1>2, <1>4, <1>5 DEF Invariant, StoreOk, NamesUnique, Keeps

(***************************************************************************)
(* Passwords.                                                              *)
(***************************************************************************)
LEMMA GiveOk ==
    ASSUME Invariant, NEW name, GiveToProfile(name)
    PROVE  /\ profs' \in [ProfCells -> Profiles \cup {Free}]
           /\ \A j \in ProfCells : profs'[j] = Free => profs[j] = Free
<1>1. PICK p \in ProfileFor(name) :
         profs' = Put(profs, p, [profs[p] EXCEPT !.temp = TRUE])
    BY DEF GiveToProfile
<1>2. p \in ProfCells /\ profs[p] \in Profiles /\ profs[p] # Free
    BY Found, Objects DEF Invariant
<1>3. [profs[p] EXCEPT !.temp = TRUE] \in Profiles
    BY <1>2 DEF Profiles
<1> QED
    BY <1>1, <1>2, <1>3, ProfChanged

\* Nothing happens to the connections, or to the profiles.
LEMMA SameConns ==
    ASSUME Invariant, conns' = conns
    PROVE  /\ conns' \in [ConnCells -> Connections \cup {Free}]
           /\ \A j \in ConnCells :
                 /\ conns[j] = Free <=> conns'[j] = Free
                 /\ conns'[j] # Free => conns'[j].name = conns[j].name
BY DEF Invariant, StoreOk

LEMMA SameProfs ==
    ASSUME Invariant, profs' = profs
    PROVE  /\ profs' \in [ProfCells -> Profiles \cup {Free}]
           /\ \A j \in ProfCells : profs'[j] = Free => profs[j] = Free
BY DEF Invariant, StoreOk

LEMMA SetConnectionUPWOk ==
    ASSUME Invariant, NEW name, SetConnectionUPW(name)
    PROVE  Invariant' /\ Keeps
<1>1. PICK k \in ConnectionFor(name) :
         Follow(BoundProfs,
            /\ IF conns[k].auth = "PSK"
               THEN /\ conns' = Put(conns, k, [conns[k] EXCEPT !.temp = TRUE])
                    /\ UNCHANGED profs
               ELSE GiveToProfile(conns[k].profile) /\ UNCHANGED conns
            /\ UNCHANGED <<servers, ctx, status>>)
    BY DEF SetConnectionUPW
<1>2. CASE UNCHANGED <<store, ctx>> /\ status' = "undefined"
    BY <1>2, StoppedOk
<1>3. CASE /\ conns' = Put(conns, k, [conns[k] EXCEPT !.temp = TRUE])
           /\ UNCHANGED <<profs, servers, ctx, status>>
    <2>1. k \in ConnCells /\ conns[k] \in Connections /\ conns[k] # Free
        BY Found, Objects DEF Invariant
    <2>2. /\ [conns[k] EXCEPT !.temp = TRUE] \in Connections
          /\ [conns[k] EXCEPT !.temp = TRUE].name = conns[k].name
        BY <2>1 DEF Connections
    <2>3. /\ conns' \in [ConnCells -> Connections \cup {Free}]
          /\ \A j \in ConnCells :
                /\ conns[j] = Free <=> conns'[j] = Free
                /\ conns'[j] # Free => conns'[j].name = conns[j].name
        BY <1>3, <2>1, <2>2, ConnChanged
    <2> QED
        BY <1>3, <2>3, SameProfs, ChangedOk
<1>4. CASE /\ GiveToProfile(conns[k].profile)
           /\ UNCHANGED <<conns, servers, ctx, status>>
    BY <1>4, GiveOk, SameConns, ChangedOk
<1> QED
    BY <1>1, <1>2, <1>3, <1>4 DEF Follow

LEMMA SetConnectionPWOk ==
    ASSUME Invariant, NEW name, SetConnectionPW(name)
    PROVE  Invariant' /\ Keeps
<1>1. PICK k \in ConnectionFor(name) : \E auth \in AuthFor(conns[k]) :
         LET set == [conns[k] EXCEPT !.auth = auth]
         IN  IF auth = "EAP" /\ ProfileFor(set.profile) # {}
             THEN Follow(BoundProfs, /\ conns' = Put(conns, k, set)
                                     /\ GiveToProfile(set.profile)
                                     /\ UNCHANGED <<servers, ctx, status>>)
             ELSE Follow(IF auth \in {"PSK", "NONE"} THEN BoundProfs ELSE {},
                     /\ conns' = Put(conns, k,
                           [set EXCEPT !.temp = @ \/ auth = "PSK",
                                       !.key  = @ \/ auth = "NONE"])
                     /\ UNCHANGED <<profs, servers, ctx, status>>)
    BY DEF SetConnectionPW
<1>2. PICK auth \in AuthFor(conns[k]) :
         LET set == [conns[k] EXCEPT !.auth = auth]
         IN  IF auth = "EAP" /\ ProfileFor(set.profile) # {}
             THEN Follow(BoundProfs, /\ conns' = Put(conns, k, set)
                                     /\ GiveToProfile(set.profile)
                                     /\ UNCHANGED <<servers, ctx, status>>)
             ELSE Follow(IF auth \in {"PSK", "NONE"} THEN BoundProfs ELSE {},
                     /\ conns' = Put(conns, k,
                           [set EXCEPT !.temp = @ \/ auth = "PSK",
                                       !.key  = @ \/ auth = "NONE"])
                     /\ UNCHANGED <<profs, servers, ctx, status>>)
    BY <1>1
<1> DEFINE set == [conns[k] EXCEPT !.auth = auth]
           temp == set.temp \/ auth = "PSK"
           key == set.key \/ auth = "NONE"
           new == [set EXCEPT !.temp = temp, !.key = key]
<1>3. k \in ConnCells /\ conns[k] \in Connections /\ conns[k] # Free
    BY Found, Objects DEF Invariant
<1>4. temp \in BOOLEAN /\ key \in BOOLEAN
    OBVIOUS
<1>5. \/ UNCHANGED <<store, ctx>> /\ status' = "undefined"
      \/ /\ conns' = Put(conns, k, set) /\ GiveToProfile(set.profile)
         /\ UNCHANGED <<servers, ctx, status>>
      \/ /\ conns' = Put(conns, k, [set EXCEPT !.temp = @ \/ auth = "PSK",
                                               !.key  = @ \/ auth = "NONE"])
         /\ UNCHANGED <<profs, servers, ctx, status>>
    BY <1>2 DEF Follow
<1> HIDE DEF temp, key
<1>6. /\ set \in Connections /\ set.name = conns[k].name
      /\ new \in Connections /\ new.name = conns[k].name
    <2>1. auth \in {"EAP", "PSK", "NONE", "UNKNOWN"}
        BY <1>3 DEF AuthFor, Connections
    <2>2. set \in Connections /\ set.name = conns[k].name
        BY <1>3, <2>1 DEF Connections
    <2> HIDE DEF set
    <2>3. new \in Connections /\ new.name = set.name
        BY <1>4, <2>2 DEF Connections
    <2> QED
        BY <2>2, <2>3
<1>7. CASE UNCHANGED <<store, ctx>> /\ status' = "undefined"
    BY <1>7, StoppedOk
<1>8. CASE /\ conns' = Put(conns, k, set) /\ GiveToProfile(set.profile)
           /\ UNCHANGED <<servers, ctx, status>>
    <2>1. /\ conns' \in [ConnCells -> Connections \cup {Free}]
          /\ \A j \in ConnCells :
                /\ conns[j] = Free <=> conns'[j] = Free
                /\ conns'[j] # Free => conns'[j].name = conns[j].name
        BY <1>3, <1>6, <1>8, ConnChanged
    <2>2. /\ profs' \in [ProfCells -> Profiles \cup {Free}]
          /\ \A j \in ProfCells : profs'[j] = Free => profs[j] = Free
        BY <1>8, GiveOk
    <2> HIDE DEF set, new
    <2> QED
        BY <1>8, <2>1, <2>2, ChangedOk
<1>9. CASE /\ conns' = Put(conns, k, [set EXCEPT !.temp = @ \/ auth = "PSK",
                                                !.key  = @ \/ auth = "NONE"])
           /\ UNCHANGED <<profs, servers, ctx, status>>
    <2>1. conns' = Put(conns, k, new)
        BY <1>6, <1>9 DEF Connections, temp, key
    <2> HIDE DEF set, new
    <2>2. /\ conns' \in [ConnCells -> Connections \cup {Free}]
          /\ \A j \in ConnCells :
                /\ conns[j] = Free <=> conns'[j] = Free
                /\ conns'[j] # Free => conns'[j].name = conns[j].name
        BY <1>3, <1>6, <2>1, ConnChanged
    <2> QED
        BY <1>9, <2>2, SameProfs, ChangedOk
<1> QED
    BY <1>5, <1>7, <1>8, <1>9

(***************************************************************************)
(* Binding.                                                                *)
(***************************************************************************)
\* One interface is bound to something else, or to nothing.
LEMMA BindOne ==
    ASSUME Invariant, NEW i \in Interfaces, NEW r, Valid(r),
           r.conn = FREED => ctx[i].conn = FREED,
           ctx' = [ctx EXCEPT ![i] = r], UNCHANGED <<store, status>>
    PROVE  Invariant' /\ Keeps
<1>1. ctx \in [Interfaces -> Contexts]
    BY DEF Invariant, BoundOk
<1>2. /\ ctx' \in [Interfaces -> Contexts]
      /\ ctx'[i] = r
      /\ \A j \in Interfaces \ {i} : ctx'[j] = ctx[j]
    BY <1>1 DEF Valid
<1> QED
    BY <1>2, BindsOnly

\* To a connection, and to the profile there is.
LEMMA BoundContext ==
    ASSUME NEW k \in ConnCells, conns[k] # Free,
           NEW p \in ProfCells \cup {NULL},
           p \in ProfCells => profs[p] # Free,
           NEW name \in ConnNames \cup Ssids \cup {NULL}
    PROVE  LET r == [conn |-> k, prof |-> p, connName |-> name]
           IN  Valid(r) /\ r.conn # FREED
BY ConfigAssumption DEF Valid, Contexts

LEMMA UnboundOk == Valid(Unbound) /\ Unbound.conn # FREED
BY ConfigAssumption DEF Valid, Contexts, Unbound, NULL, FREED

\* A context forgets one of its pointers, or its name.
LEMMA ForgetOk ==
    ASSUME NEW x, Valid(x), NEW k \in {x.conn, NULL}, NEW p \in {x.prof, NULL}
    PROVE  LET r == [x EXCEPT !.conn = k, !.prof = p]
               n == [x EXCEPT !.conn = k, !.connName = NULL]
           IN  /\ Valid(r) /\ (r.conn = FREED => x.conn = FREED)
               /\ Valid(n) /\ (n.conn = FREED => x.conn = FREED)
BY ConfigAssumption DEF Valid, Contexts, NULL, FREED

\* What a connection may be bound with.
LEMMA CandidateOk ==
    ASSUME StoreOk, NEW name, NEW kp \in Candidates(name)
    PROVE  /\ kp[1] \in ConnCells /\ conns[kp[1]] \in Connections
           /\ conns[kp[1]] # Free
           /\ kp[2] \in ProfCells \cup {NULL}
           /\ kp[2] \in ProfCells => profs[kp[2]] # Free
<1>1. /\ kp[1] \in ConnectionFor(name) /\ kp[2] \in ProfCells \cup {NULL}
      /\ kp[2] \in OrNull(ProfileFor(conns[kp[1]].profile))
    BY DEF Candidates
<1>2. kp[2] \in ProfileFor(conns[kp[1]].profile) \/ kp[2] = NULL
    BY <1>1 DEF OrNull
<1> QED
    BY <1>1, <1>2, Found, Objects, ConfigAssumption

LEMMA BoundByOk ==
    ASSUME Invariant, NEW i \in Interfaces, NEW name \in ConnNames \cup Ssids,
           NEW found, NEW kp \in Candidates(name)
    PROVE  /\ Valid(BoundBy(i, name, kp[1], kp[2], found))
           /\ BoundBy(i, name, kp[1], kp[2], found).conn # FREED
<1> DEFINE k == kp[1]
           p == kp[2]
           q == IF conns[k].auth \in {"PSK", "NONE"} THEN NULL ELSE p
           r == [conn |-> k, connName |-> name, prof |-> q]
<1>1. /\ k \in ConnCells /\ conns[k] # Free /\ p \in ProfCells \cup {NULL}
      /\ p \in ProfCells => profs[p] # Free
    BY CandidateOk DEF Invariant
<1> HIDE DEF k, p
<1>2. /\ q \in ProfCells \cup {NULL} /\ (q \in ProfCells => profs[q] # Free)
    BY <1>1, ConfigAssumption
<1>3. BoundBy(i, name, k, p, found) =
          IF i \in Wireless /\ ~found THEN [ctx[i] EXCEPT !.conn = k] ELSE r
    BY DEF BoundBy
<1> HIDE DEF q
<1>4. Valid(r) /\ r.conn # FREED
    BY <1>1, <1>2, ConfigAssumption DEF Valid, Contexts
<1>5. Valid(ctx[i])
    BY DEF Invariant, BoundOk
<1>6. /\ Valid([ctx[i] EXCEPT !.conn = k])
      /\ [ctx[i] EXCEPT !.conn = k].conn # FREED
    BY <1>1, <1>5, ConfigAssumption DEF Valid, Contexts
<1>7. /\ Valid(BoundBy(i, name, k, p, found))
      /\ BoundBy(i, name, k, p, found).conn # FREED
    BY <1>3, <1>4, <1>6
<1> QED
    BY <1>7 DEF k, p

LEMMA ChangeConnectionOk ==
    ASSUME Invariant, NEW i \in Interfaces, NEW name \in ConnNames \cup Ssids,
           NEW found, ChangeConnection(i, name, found)
    PROVE  Invariant' /\ Keeps
<1>1. CASE UNCHANGED <<store, ctx>> /\ status' = "undefined"
    BY <1>1, StoppedOk
<1>2. CASE /\ \E kp \in Candidates(name) :
                 ctx' = [ctx EXCEPT ![i] =
                            BoundBy(i, name, kp[1], kp[2], found)]
           /\ UNCHANGED <<store, status>>
    BY <1>2, BoundByOk, BindOne
<1>3. CASE /\ ctx' = [ctx EXCEPT ![i].connName = NULL]
           /\ UNCHANGED <<store, status>>
    <2> DEFINE r == [ctx[i] EXCEPT !.connName = NULL]
    <2>1. ctx' = [ctx EXCEPT ![i] = r]
        BY <1>3
    <2>2. Valid(r) /\ r.conn = ctx[i].conn
        BY ContextNamed DEF Invariant, BoundOk
    <2> HIDE DEF r
    <2> QED
        BY <1>3, <2>1, <2>2, BindOne
<1> QED
    BY <1>1, <1>2, <1>3 DEF ChangeConnection, Follow

LEMMA RequestLogoffOk ==
    ASSUME Invariant, NEW i \in Interfaces, RequestLogoff(i)
    PROVE  Invariant' /\ Keeps
<1> DEFINE r == [ctx[i] EXCEPT !.conn = NULL, !.connName = NULL]
<1>1. ctx' = [ctx EXCEPT ![i] = r] /\ UNCHANGED <<store, status>>
    BY DEF RequestLogoff, Follow, Invariant, BoundOk
<1>2. Valid(r) /\ (r.conn = FREED => ctx[i].conn = FREED)
    BY ForgetOk DEF Invariant, BoundOk
<1> HIDE DEF r
<1> QED
    BY <1>1, <1>2, BindOne

LEMMA ReleaseOk ==
    ASSUME Invariant, NEW i \in Interfaces, Release(i)
    PROVE  Invariant' /\ Keeps
<1>1. CASE UNCHANGED <<store, ctx>> /\ status' = "undefined"
    BY <1>1, StoppedOk
<1>2. CASE ctx' = [ctx EXCEPT ![i] = Unbound] /\ UNCHANGED <<store, status>>
    BY <1>2, UnboundOk, BindOne
<1> QED
    BY <1>1, <1>2 DEF Release, Follow

LEMMA SetInterfaceOk ==
    ASSUME Invariant, NEW i \in Interfaces, NEW managed,
           SetInterface(i, managed)
    PROVE  Invariant' /\ Keeps
<1> DEFINE usable == IF i \in Wireless \/ ~managed THEN {}
                     ELSE Prefer(Defaults("GLOBAL"), Defaults("USER"))
           profsOf(k) == Prefer(Named(profs, "USER", conns[k].profile),
                                Named(profs, "GLOBAL", conns[k].profile))
<1>1. /\ UNCHANGED <<store, status>>
      /\ \/ \E k \in usable : \E p \in profsOf(k) :
               ctx' = [ctx EXCEPT ![i] =
                          [conn |-> k, prof |-> p, connName |-> conns[k].name]]
         \/ ctx' = [ctx EXCEPT ![i].conn = NULL, ![i].prof = NULL]
    BY DEF SetInterface, Follow
<1>2. ASSUME NEW k \in usable, NEW p \in profsOf(k),
             ctx' = [ctx EXCEPT ![i] =
                        [conn |-> k, prof |-> p, connName |-> conns[k].name]]
      PROVE  Invariant' /\ Keeps
    <2>1. \E t \in Types : k \in Cells(conns, t)
        BY DEF Prefer, Defaults, Types
    <2>2. k \in ConnCells /\ conns[k] \in Connections
        BY <2>1, CellsOk DEF Invariant
    <2>3. \E t \in Types : p \in Named(profs, t, conns[k].profile)
        BY DEF Prefer, Types
    <2>4. p \in ProfCells /\ profs[p] \in Profiles
        BY <2>3, NamedOk DEF Invariant
    <2> DEFINE r == [conn |-> k, prof |-> p, connName |-> conns[k].name]
    <2>5. Valid(r) /\ r.conn # FREED
        BY <2>2, <2>4, Objects, BoundContext
    <2>6. ctx' = [ctx EXCEPT ![i] = r]
        BY <1>2
    <2> HIDE DEF r, usable, profsOf
    <2> QED
        BY <1>1, <2>5, <2>6, BindOne
<1>3. CASE ctx' = [ctx EXCEPT ![i].conn = NULL, ![i].prof = NULL]
    <2> DEFINE r == [ctx[i] EXCEPT !.conn = NULL, !.prof = NULL]
    <2>1. ctx' = [ctx EXCEPT ![i] = r]
        BY <1>3 DEF Invariant, BoundOk
    <2>2. Valid(r) /\ (r.conn = FREED => ctx[i].conn = FREED)
        BY ForgetOk DEF Invariant, BoundOk
    <2> HIDE DEF r, usable, profsOf
    <2> QED
        BY <1>1, <2>1, <2>2, BindOne
<1> HIDE DEF usable, profsOf
<1> QED
    BY <1>1, <1>2, <1>3

LEMMA BuildForSsidOk ==
    ASSUME Invariant, NEW i \in Interfaces, NEW ssid \in Ssids,
           BuildForSsid(i, ssid)
    PROVE  Invariant' /\ Keeps
<1>1. /\ UNCHANGED <<store, status>>
      /\ \/ \E kp \in Candidates(ssid) :
               ctx' = [ctx EXCEPT ![i] =
                  [conn |-> kp[1], prof |-> kp[2], connName |-> ssid]]
         \/ ctx' = [ctx EXCEPT ![i] = Unbound]
    BY DEF BuildForSsid, Follow
<1>2. ASSUME NEW kp \in Candidates(ssid),
             ctx' = [ctx EXCEPT ![i] =
                [conn |-> kp[1], prof |-> kp[2], connName |-> ssid]]
      PROVE  Invariant' /\ Keeps
    <2> DEFINE r == [conn |-> kp[1], prof |-> kp[2], connName |-> ssid]
    <2>1. Valid(r) /\ r.conn # FREED
        BY CandidateOk, BoundContext DEF Invariant
    <2>2. ctx' = [ctx EXCEPT ![i] = r]
        BY <1>2
    <2> HIDE DEF r
    <2> QED
        BY <1>1, <2>1, <2>2, BindOne
<1>3. CASE ctx' = [ctx EXCEPT ![i] = Unbound]
    BY <1>1, <1>3, UnboundOk, BindOne
<1> QED
    BY <1>1, <1>2, <1>3

\* The configuration of the system is read again.
LEMMA LoadedOk ==
    /\ Loaded(OnDisk.conns) \in [ConnCells -> Connections \cup {Free}]
    /\ Loaded(OnDisk.profs) \in [ProfCells -> Profiles \cup {Free}]
    /\ Loaded(OnDisk.servers) \in [ServerCells -> Servers \cup {Free}]
    /\ UniqueNames(Loaded(OnDisk.conns))
<1>1. /\ OnDisk.conns \in [ConnCells -> Connections \cup {Free}]
      /\ OnDisk.profs \in [ProfCells -> Profiles \cup {Free}]
      /\ OnDisk.servers \in [ServerCells -> Servers \cup {Free}]
    BY ConfigAssumption
<1>2. UniqueNames(OnDisk.conns)
    BY ConfigAssumption DEF Consistent
<1>3. /\ DOMAIN Loaded(OnDisk.conns) = ConnCells
      /\ \A k \in ConnCells :
            Loaded(OnDisk.conns)[k] \in {OnDisk.conns[k], Free}
    BY <1>1 DEF Loaded
<1>4. UniqueNames(Loaded(OnDisk.conns))
    BY <1>1, <1>2, <1>3 DEF UniqueNames
<1> QED
    BY <1>1, <1>4 DEF Loaded

LEMMA ReloadConfigurationOk ==
    ASSUME Invariant, ReloadConfiguration
    PROVE  Invariant'
<1>1. /\ conns' = Loaded(OnDisk.conns) /\ profs' = Loaded(OnDisk.profs)
      /\ servers' = Loaded(OnDisk.servers)
      /\ ctx' = [i \in Interfaces |->
                   [ctx[i] EXCEPT !.conn = Lost(@), !.prof = Lost(@)]]
      /\ status' = status
    BY DEF ReloadConfiguration, Follow
<1>2. ASSUME NEW i \in Interfaces
      PROVE  ctx'[i] \in Contexts /\ Valid(ctx[i])'
    <2> DEFINE conn == Lost(ctx[i].conn)
               prof == Lost(ctx[i].prof)
    <2>1. ctx[i] \in Contexts
        BY DEF Invariant, BoundOk
    <2>2. conn \in {NULL, FREED} /\ prof \in {NULL, FREED}
        BY DEF Lost
    <2>3. ctx'[i] = [ctx[i] EXCEPT !.conn = conn, !.prof = prof]
        BY <1>1, <2>1 DEF Contexts
    <2> HIDE DEF conn, prof
    <2>4. /\ ctx'[i] \in Contexts
          /\ ctx'[i].conn = conn /\ ctx'[i].prof = prof
        BY <2>1, <2>2, <2>3 DEF Contexts
    <2> QED
        BY <2>2, <2>4, ConfigAssumption DEF Valid
<1>3. BoundOk'
    BY <1>1, <1>2 DEF BoundOk
<1> QED
    BY <1>1, <1>3, LoadedOk DEF Invariant, StoreOk, NamesUnique

(***************************************************************************)
(* The theorems.                                                           *)
(***************************************************************************)
LEMMA InitOk == Init => Invariant
<1> SUFFICES ASSUME Init PROVE Invariant
    OBVIOUS
<1>1. StoreOk /\ NamesUnique
    BY ConfigAssumption DEF Init, StoreOk, NamesUnique, Consistent
<1>2. BoundOk
    <2>1. \A i \in Interfaces : ctx[i] = Unbound /\ Valid(ctx[i])
        BY UnboundOk DEF Init
    <2> QED
        BY <2>1 DEF Init, BoundOk, Valid
<1> QED
    BY <1>1, <1>2 DEF Init, Invariant

\* No request but a reload of the configuration frees a connection that is in
\* use, and none lets two connections have one name.
LEMMA StepOk ==
    ASSUME Invariant, [Next]_vars
    PROVE  Invariant' /\ (Keeps \/ ReloadConfiguration)
<1>1. CASE Deletes
    BY <1>1, DeleteConnectionOk, DeleteProfileOk, DeleteServerOk DEF Deletes
<1>2. CASE Sets
    <2>1. NewConns \subseteq Connections /\ NewProfs \subseteq Profiles
        BY ConfigAssumption
    <2> QED
        BY <1>2, <2>1, SetConnectionOk, SetProfileOk, SetServerOk DEF Sets
<1>3. CASE Renames
    BY <1>3, RenameConnectionOk, RenameProfileOk, RenameServerOk DEF Renames
<1>4. CASE Passwords
    BY <1>4, SetConnectionUPWOk, SetConnectionPWOk DEF Passwords
<1>5. CASE Binds
    BY <1>5, ChangeConnectionOk, RequestLogoffOk, ReleaseOk, SetInterfaceOk,
       BuildForSsidOk
    DEF Binds, DisconnectConnection, UnbindConnection
<1>6. CASE ReloadConfiguration
    BY <1>6, ReloadConfigurationOk
<1>7. CASE UNCHANGED vars
    <2>1. UNCHANGED <<store, ctx>> /\ status' = status
        BY <1>7 DEF vars, store
    <2> QED
        BY <2>1, StoppedOk DEF Invariant
<1> QED
    BY <1>1, <1>2, <1>3, <1>4, <1>5, <1>6, <1>7 DEF Next

\* The invariant holds in every state of every behaviour.
LEMMA ConfigInductive == Spec => []Invariant
BY InitOk, StepOk, PTL DEF Spec

\* The objects in memory and the pointers of the interfaces keep their types,
\* whatever the user interface asks for (lib/libxsupconfig, ipc_callout.c).
THEOREM ConfigTypeCorrect == Spec => []TypeOK
<1>1. Invariant => TypeOK
    BY DEF Invariant, StoreOk, BoundOk, TypeOK
<1> QED
    BY <1>1, ConfigInductive, PTL

\* No two connections of the system and the user ever have the same name
\* (ipc_callout_set_connection_config,
\* ipc_callout_request_rename_connection).
THEOREM NamesUniqueTheorem == Spec => []NamesUnique
<1>1. Invariant => NamesUnique
    BY DEF Invariant
<1> QED
    BY <1>1, ConfigInductive, PTL

\* Only a reload of the configuration frees a connection an interface uses:
\* deleting and replacing one looks at every interface first
\* (ipc_callout_is_connection_in_use, config_delete_connection).
THEOREM OnlyReloadUnbindsTheorem == Spec => OnlyReloadUnbinds
<1>1. Invariant /\ [Next]_vars =>
          [\A i \in Interfaces :
              ctx'[i].conn = FREED =>
                  ctx[i].conn = FREED \/ ReloadConfiguration]_vars
    BY StepOk DEF Keeps
<1> QED
    BY <1>1, ConfigInductive, PTL DEF Spec, OnlyReloadUnbinds

(***************************************************************************)
(* A user interface that checks what it asks for.  A connection has the    *)
(* profile it refers to, and a profile its trusted server, in the list of  *)
(* the system unless it is the user's own; and no two profiles share a     *)
(* name.  Without that an object that is renamed in one list would leave   *)
(* behind what refers to its namesake in the other.  An interface that     *)
(* looks for its network after it was bound keeps the profile it had, so   *)
(* the network has to be in the cache.                                     *)
(***************************************************************************)
Checks == Careful /\ InCache \subseteq {TRUE}

ProfilesOffered ==
    \A k \in ConnCells :
       conns[k] # Free => Offers(profs, conns[k].type, conns[k].profile)

ServersOffered ==
    \A k \in ProfCells :
       profs[k] # Free => Offers(servers, profs[k].type, TsName(profs[k]))

\* What BoundTogether says of one context.
Together(x) ==
    x.conn \in ConnCells =>
        /\ x.connName \in {conns[x.conn].name, conns[x.conn].ssid, NULL}
        /\ x.prof # FREED
        /\ x.prof # NULL => profs[x.prof].name = conns[x.conn].profile

AllTogether == \A i \in Interfaces : Together(ctx[i])

Linked ==
    /\ UniqueNames(profs)
    /\ ProfilesOffered /\ ServersOffered
    /\ AllTogether

\* What is offered stays so while an object of the name is in its list.
LEMMA OffersKept ==
    ASSUME NEW mem, NEW mem2, NEW t, NEW name, Offers(mem, t, name),
           \A u \in Types :
              Named(mem, u, name) # {} => Named(mem2, u, name) # {}
    PROVE  Offers(mem2, t, name)
BY DEF Offers, Types

\* An object is replaced by one of its list and its name, or has not got the
\* name that is looked for.
LEMMA NamedPut ==
    ASSUME NEW mem, NEW k \in DOMAIN mem, NEW new, NEW u, NEW name,
           Named(mem, u, name) # {},
           k \in Named(mem, u, name) => new.type = u /\ new.name = name
    PROVE  Named(Put(mem, k, new), u, name) # {}
<1>1. PICK j \in Named(mem, u, name) : TRUE
    OBVIOUS
<1>2. j \in DOMAIN mem /\ mem[j].type = u /\ mem[j].name = name
    BY <1>1 DEF Named, Cells
<1>3. /\ DOMAIN Put(mem, k, new) = DOMAIN mem
      /\ Put(mem, k, new)[j] = IF j = k THEN new ELSE mem[j]
    BY <1>2 DEF Put
<1>4. Put(mem, k, new)[j].type = u /\ Put(mem, k, new)[j].name = name
    BY <1>1, <1>2, <1>3
<1> QED
    BY <1>2, <1>3, <1>4 DEF Named, Cells

\* The objects that a reference may be to.
LEMMA Domains ==
    ASSUME StoreOk
    PROVE  /\ DOMAIN conns = ConnCells /\ DOMAIN profs = ProfCells
           /\ DOMAIN servers = ServerCells
           /\ \A k \in ConnCells : conns[k] # Free => conns[k] \in Connections
           /\ \A k \in ProfCells : profs[k] # Free => profs[k] \in Profiles
           /\ \A k \in ServerCells :
                 servers[k] # Free => servers[k] \in Servers
BY DEF StoreOk

\* A connection is freed, and another one may take its cell: no interface
\* points there afterwards.
LEMMA LinkedConn ==
    ASSUME Invariant, Linked, NEW k \in ConnCells,
           NEW new \in Connections \cup {Free},
           conns' = Put(conns, k, new), ConnFreed(k),
           UNCHANGED <<profs, servers>>,
           new # Free => Offers(profs, new.type, new.profile)
    PROVE  Linked'
<1>1. /\ conns'[k] = new
      /\ \A j \in ConnCells \ {k} : conns'[j] = conns[j]
    BY DEF Invariant, StoreOk, Put
<1>2. ProfilesOffered'
    BY <1>1 DEF Linked, ProfilesOffered
<1>3. ASSUME NEW i \in Interfaces
      PROVE  Together(ctx[i])'
    <2>1. ctx[i] \in Contexts /\ Together(ctx[i])
        BY DEF Invariant, BoundOk, Linked, AllTogether
    <2> DEFINE conn == After(ctx[i].conn, k)
    <2>2. ctx'[i] = [ctx[i] EXCEPT !.conn = conn]
        BY <2>1 DEF ConnFreed, Contexts
    <2>3. conn = IF ctx[i].conn = k THEN FREED ELSE ctx[i].conn
        BY DEF After
    <2>4. conn \in ConnCells => conn = ctx[i].conn /\ conn # k
        BY <2>3, ConfigAssumption
    <2> HIDE DEF conn
    <2>5. /\ ctx'[i].conn = conn /\ ctx'[i].prof = ctx[i].prof
          /\ ctx'[i].connName = ctx[i].connName
        BY <2>1, <2>2 DEF Contexts
    <2>6. ctx'[i].conn \in ConnCells =>
             /\ ctx'[i].conn = ctx[i].conn
             /\ conns'[ctx[i].conn] = conns[ctx[i].conn]
        BY <1>1, <2>4, <2>5
    <2> QED
        BY <2>1, <2>5, <2>6 DEF Together
<1> QED
    BY <1>2, <1>3 DEF Linked, AllTogether, ServersOffered

\* Profiles that no interface with a connection points to, and no connection
\* refers to by another name than before.
LEMMA LinkedProf ==
    ASSUME Invariant, Linked, NEW k \in ProfCells,
           NEW new \in Profiles \cup {Free},
           profs' = Put(profs, k, new), ProfFreed(k),
           UNCHANGED <<conns, servers>>,
           \A i \in Interfaces : ctx[i].conn \in ConnCells => ctx[i].prof # k,
           new # Free => \A j \in ProfCells \ {k} :
                            profs[j] # Free => profs[j].name # new.name,
           new # Free => Offers(servers, new.type, TsName(new)),
           \/ profs[k] = Free \/ ~Referred(profs[k].name)
           \/ /\ new # Free /\ new.type = profs[k].type
              /\ new.name = profs[k].name
    PROVE  Linked'
<1>1. /\ profs'[k] = new /\ DOMAIN profs = ProfCells
      /\ DOMAIN profs' = ProfCells
      /\ \A j \in ProfCells \ {k} : profs'[j] = profs[j]
    BY DEF Invariant, StoreOk, Put
<1>2. UniqueNames(profs')
    BY <1>1 DEF Linked, UniqueNames
<1>3. ServersOffered'
    BY <1>1 DEF Linked, ServersOffered
<1>4. ASSUME NEW c \in ConnCells, conns[c] # Free
      PROVE  Offers(profs', conns[c].type, conns[c].profile)
    <2> DEFINE name == conns[c].profile
    <2>1. conns[c].type \in Types /\ DOMAIN conns = ConnCells
        BY <1>4, Objects DEF Invariant, StoreOk
    <2>2. Offers(profs, conns[c].type, name)
        BY <1>4 DEF Linked, ProfilesOffered
    <2>3. Referred(name)
        BY <1>4, <2>1 DEF Referred, Cells
    <2>4. ASSUME NEW u \in Types, Named(profs, u, name) # {}
          PROVE  Named(profs', u, name) # {}
        <3>1. k \in Named(profs, u, name) =>
                 profs[k].type = u /\ profs[k].name = name /\ profs[k] # Free
            BY NamedOk, Objects DEF Invariant
        <3> HIDE DEF name
        <3>2. k \in Named(profs, u, name) => new.type = u /\ new.name = name
            BY <2>3, <3>1
        <3> QED
            BY <1>1, <2>4, <3>2, NamedPut
    <2> HIDE DEF name
    <2> QED
        BY <2>2, <2>4, OffersKept DEF name
<1>5. ProfilesOffered'
    BY <1>4 DEF ProfilesOffered
<1>6. ASSUME NEW i \in Interfaces
      PROVE  Together(ctx[i])'
    <2>1. ctx[i] \in Contexts /\ Together(ctx[i])
        BY DEF Invariant, BoundOk, Linked, AllTogether
    <2> DEFINE prof == After(ctx[i].prof, k)
    <2>2. ctx'[i] = [ctx[i] EXCEPT !.prof = prof]
        BY <2>1 DEF ProfFreed, Contexts
    <2>3. ctx[i].conn \in ConnCells => prof = ctx[i].prof /\ prof # k
        BY DEF After
    <2> HIDE DEF prof
    <2>4. /\ ctx'[i].conn = ctx[i].conn /\ ctx'[i].prof = prof
          /\ ctx'[i].connName = ctx[i].connName
        BY <2>1, <2>2 DEF Contexts
    <2>5. ctx[i].conn \in ConnCells /\ prof # NULL /\ prof # FREED =>
             profs'[prof] = profs[prof]
        BY <1>1, <2>1, <2>3 DEF Contexts
    <2> QED
        BY <2>1, <2>3, <2>4, <2>5 DEF Together
<1> QED
    BY <1>2, <1>3, <1>5, <1>6 DEF Linked, AllTogether

\* The trusted servers that profiles refer to are still there.
LEMMA LinkedServers ==
    ASSUME Invariant, Linked, UNCHANGED <<conns, profs, ctx>>,
           \A u \in Types : \A name :
              ServerReferred(name) /\ Named(servers, u, name) # {} =>
                 Named(servers', u, name) # {}
    PROVE  Linked'
<1>1. ASSUME NEW p \in ProfCells, profs[p] # Free
      PROVE  Offers(servers', profs[p].type, TsName(profs[p]))
    <2> DEFINE name == TsName(profs[p])
    <2>1. profs[p].type \in Types /\ DOMAIN profs = ProfCells
        BY <1>1, Objects DEF Invariant, StoreOk
    <2>2. Offers(servers, profs[p].type, name)
        BY <1>1 DEF Linked, ServersOffered
    <2>3. ServerReferred(name)
        BY <1>1, <2>1 DEF ServerReferred, Cells
    <2> HIDE DEF name
    <2> QED
        BY <2>2, <2>3, OffersKept DEF name
<1>2. ServersOffered'
    BY <1>1 DEF ServersOffered
<1>3. AllTogether'
    BY DEF Linked, AllTogether, Together
<1> QED
    BY <1>2, <1>3 DEF Linked, ProfilesOffered

\* What an object refers to and is called stays.
LEMMA LinkedSame ==
    ASSUME Invariant, Linked, UNCHANGED <<servers, ctx>>,
           conns' \in [ConnCells -> Connections \cup {Free}],
           profs' \in [ProfCells -> Profiles \cup {Free}],
           \A k \in ConnCells : conns'[k] # conns[k] =>
              /\ conns[k] # Free /\ conns'[k].type = conns[k].type
              /\ conns'[k].name = conns[k].name
              /\ conns'[k].ssid = conns[k].ssid
              /\ conns'[k].profile = conns[k].profile,
           \A k \in ProfCells : profs'[k] # profs[k] =>
              /\ profs[k] # Free /\ profs'[k].type = profs[k].type
              /\ profs'[k].name = profs[k].name
              /\ TsName(profs'[k]) = TsName(profs[k])
    PROVE  Linked'
<1>1. DOMAIN profs = ProfCells /\ DOMAIN profs' = ProfCells
    BY DEF Invariant, StoreOk
<1>2. /\ \A k \in ProfCells :
            profs'[k].type = profs[k].type /\ profs'[k].name = profs[k].name
      /\ \A k \in ProfCells : TsName(profs'[k]) = TsName(profs[k])
      /\ \A k \in ProfCells : profs'[k] # Free => profs[k] # Free
    OBVIOUS
<1>3. UniqueNames(profs')
    BY <1>1, <1>2 DEF Linked, UniqueNames
<1>4. \A u \in Types : \A name :
         Named(profs', u, name) = Named(profs, u, name)
    BY <1>1, <1>2 DEF Named, Cells
<1>5. ProfilesOffered'
    <2>1. ASSUME NEW c \in ConnCells, conns'[c] # Free
          PROVE  Offers(profs', conns'[c].type, conns'[c].profile)
        <3>1. /\ conns[c] # Free /\ conns'[c].type = conns[c].type
              /\ conns'[c].profile = conns[c].profile
            BY <2>1
        <3>2. Offers(profs, conns'[c].type, conns'[c].profile)
            BY <3>1 DEF Linked, ProfilesOffered
        <3> QED
            BY <1>4, <3>2, OffersKept
    <2> QED
        BY <2>1 DEF ProfilesOffered
<1>6. ServersOffered'
    BY <1>2 DEF Linked, ServersOffered
<1>7. ASSUME NEW i \in Interfaces
      PROVE  Together(ctx[i])'
    <2>1. ctx[i] \in Contexts /\ Together(ctx[i])
        BY DEF Invariant, BoundOk, Linked, AllTogether
    <2>2. \A c \in ConnCells : /\ conns'[c].name = conns[c].name
                               /\ conns'[c].ssid = conns[c].ssid
                               /\ conns'[c].profile = conns[c].profile
        OBVIOUS
    <2>3. ctx[i].prof # NULL /\ ctx[i].prof # FREED =>
             profs'[ctx[i].prof].name = profs[ctx[i].prof].name
        BY <1>2, <2>1 DEF Contexts
    <2> QED
        BY <2>1, <2>2, <2>3 DEF Together
<1> QED
    BY <1>3, <1>5, <1>6, <1>7 DEF Linked, AllTogether

\* Interfaces are bound, or not bound any more.
LEMMA LinkedBinds ==
    ASSUME Linked, UNCHANGED store,
           \A i \in Interfaces : ctx'[i] = ctx[i] \/ Together(ctx'[i])
    PROVE  Linked'
<1>1. conns' = conns /\ profs' = profs /\ servers' = servers
    BY DEF store
<1>2. \A i \in Interfaces : Together(ctx'[i])
    BY DEF Linked, AllTogether
<1>3. AllTogether'
    BY <1>1, <1>2 DEF AllTogether, Together
<1> QED
    BY <1>1, <1>3 DEF Linked, ProfilesOffered, ServersOffered

\* The program has stopped, or nothing happens.
LEMMA LinkedStopped ==
    ASSUME Linked, UNCHANGED <<store, ctx>>
    PROVE  Linked'
BY LinkedBinds

LEMMA LinkedDeleteConnection ==
    ASSUME Invariant, Linked, NEW t \in Types, NEW name, NEW admin,
           DeleteConnection(t, name, admin)
    PROVE  Linked'
<1>1. CASE UNCHANGED <<store, ctx>>
    BY <1>1, LinkedStopped
<1>2. CASE /\ \E k \in Named(conns, t, name) : RemoveConnection(k)
           /\ UNCHANGED <<profs, servers>>
    <2>1. PICK k \in Named(conns, t, name) : RemoveConnection(k)
        BY <1>2
    <2>2. k \in ConnCells
        BY NamedOk DEF Invariant
    <2> QED
        BY <1>2, <2>1, <2>2, LinkedConn DEF RemoveConnection
<1> QED
    BY <1>1, <1>2 DEF DeleteConnection, Follow

LEMMA LinkedDeleteProfile ==
    ASSUME Invariant, Linked, Checks, NEW t \in Types, NEW name, NEW forced,
           NEW admin, DeleteProfile(t, name, forced, admin)
    PROVE  Linked'
<1>1. PICK k \in Named(profs, t, name) : RemoveProfile(k)
    BY DEF DeleteProfile, Follow
<1>2. UNCHANGED <<conns, servers>> /\ ~Referred(name)
    BY DEF DeleteProfile, Follow, Checks
<1>3. k \in ProfCells /\ profs[k].name = name
    BY NamedOk DEF Invariant
<1>4. ASSUME NEW i \in Interfaces, ctx[i].conn \in ConnCells
      PROVE  ctx[i].prof # k
    <2>1. Together(ctx[i]) /\ Valid(ctx[i])
        BY DEF Invariant, BoundOk, Linked, AllTogether
    <2>2. conns[ctx[i].conn] \in Connections
        BY <1>4, <2>1, Domains DEF Valid, Invariant
    <2>3. Referred(conns[ctx[i].conn].profile)
        BY <1>4, <2>2, Domains, Objects DEF Referred, Cells, Invariant
    <2> QED
        BY <1>2, <1>3, <1>4, <2>1, <2>3, ConfigAssumption DEF Together
<1> QED
    BY <1>1, <1>2, <1>3, <1>4, LinkedProf DEF RemoveProfile

LEMMA LinkedDeleteServer ==
    ASSUME Invariant, Linked, NEW t \in Types, NEW name, NEW admin,
           DeleteServer(t, name, admin)
    PROVE  Linked'
<1>1. PICK k \in Named(servers, t, name) : servers' = Put(servers, k, Free)
    BY DEF DeleteServer, Follow, RemoveServer
<1>2. UNCHANGED <<conns, profs, ctx>> /\ ~ServerReferred(name)
    BY DEF DeleteServer, Follow
<1>3. k \in DOMAIN servers /\ servers[k].name = name
    BY <1>1 DEF Named, Cells
<1>4. ASSUME NEW u \in Types, NEW n, ServerReferred(n),
             Named(servers, u, n) # {}
      PROVE  Named(servers', u, n) # {}
    <2>1. k \notin Named(servers, u, n)
        BY <1>2, <1>3, <1>4 DEF Named
    <2> QED
        BY <1>1, <1>3, <1>4, <2>1, NamedPut
<1> QED
    BY <1>2, <1>4, LinkedServers

LEMMA LinkedSetConnection ==
    ASSUME Invariant, Linked, Checks, NEW new \in Connections, NEW admin,
           SetConnection(new, admin)
    PROVE  Linked'
<1>1. CASE UNCHANGED <<store, ctx>>
    BY <1>1, LinkedStopped
<1>2. CASE /\ \E k \in FindConnection(new.type, new.name) :
                 conns' = Put(conns, k,
                              [conns[k] EXCEPT !.first = new.first,
                                               !.key = @ \/ new.key])
           /\ UNCHANGED <<profs, servers, ctx>>
    <2>1. PICK k \in FindConnection(new.type, new.name) :
             conns' = Put(conns, k,
                          [conns[k] EXCEPT !.first = new.first,
                                           !.key = @ \/ new.key])
        BY <1>2
    <2>2. k \in ConnCells /\ conns[k] \in Connections /\ conns[k] # Free
        BY Objects, Found DEF Invariant
    <2> DEFINE key == conns[k].key \/ new.key
               changed == [conns[k] EXCEPT !.first = new.first, !.key = key]
    <2>3. key \in BOOLEAN
        OBVIOUS
    <2>4. conns' = Put(conns, k, changed)
        BY <2>1, <2>2 DEF Connections
    <2> HIDE DEF key
    <2>5. /\ changed \in Connections /\ changed.name = conns[k].name
          /\ changed.type = conns[k].type /\ changed.ssid = conns[k].ssid
          /\ changed.profile = conns[k].profile
        BY <2>2, <2>3 DEF Connections
    <2> HIDE DEF changed
    <2> QED
        BY <1>2, <2>2, <2>4, <2>5, LinkedSame DEF Put, Invariant, StoreOk
<1>3. CASE PutConnection(new) /\ UNCHANGED <<profs, servers>>
    <2>1. PICK k \in PlaceFor(conns, new.type, new.name) :
             conns' = Put(conns, k, new) /\ ConnFreed(k)
        BY <1>3 DEF PutConnection
    <2>2. new.type \in Types
        BY Objects
    <2>3. k \in ConnCells
        BY <2>1, <2>2, PlaceOk, NamedOk, CellsOk DEF Invariant
    <2>4. Offers(profs, new.type, new.profile)
        BY DEF SetConnection, Checks
    <2> QED
        BY <1>3, <2>1, <2>3, <2>4, LinkedConn
<1> QED
    BY <1>1, <1>2, <1>3 DEF SetConnection, Follow

LEMMA LinkedSetProfile ==
    ASSUME Invariant, Linked, Checks, NEW new \in Profiles, NEW admin,
           SetProfile(new, admin)
    PROVE  Linked'
<1>1. PICK k \in PlaceFor(profs, new.type, new.name) :
         profs' = Put(profs, k, new) /\ ProfFreed(k)
    BY DEF SetProfile, Follow, PutProfile
<1>2. /\ UNCHANGED <<conns, servers>> /\ ~ProfileInUse(new.name)
      /\ Named(profs, Other(new.type), new.name) = {}
      /\ Offers(servers, new.type, new.server)
    BY DEF SetProfile, Follow, Checks
<1>3. new.type \in Types /\ Other(new.type) \in Types /\ new # Free
    BY Objects DEF Other, Types
<1>4. \/ k \in Named(profs, new.type, new.name)
      \/ Named(profs, new.type, new.name) = {} /\ k \in Unused(profs)
    BY <1>1, PlaceOk
<1>5. /\ k \in ProfCells
      /\ \/ profs[k] = Free
         \/ profs[k].type = new.type /\ profs[k].name = new.name
    BY <1>3, <1>4, NamedOk, CellsOk DEF Invariant
<1>6. DOMAIN profs = ProfCells
    BY DEF Invariant, StoreOk
<1>7. ASSUME NEW i \in Interfaces, ctx[i].conn \in ConnCells
      PROVE  ctx[i].prof # k
    <2>1. Valid(ctx[i])
        BY DEF Invariant, BoundOk
    <2>2. CASE profs[k] = Free
        BY <1>5, <2>1, <2>2 DEF Valid
    <2>3. CASE profs[k].name = new.name
        <3>1. ctx[i].conn # NULL /\ k # NULL /\ k # FREED
            BY <1>5, <1>7, ConfigAssumption
        <3> QED
            BY <1>2, <2>3, <3>1 DEF ProfileInUse, Busy
    <2> QED
        BY <1>5, <2>2, <2>3
<1>8. ASSUME NEW j \in ProfCells \ {k}, profs[j] # Free
      PROVE  profs[j].name # new.name
    <2>1. profs[j].type \in Types
        BY <1>8, Objects DEF Invariant, StoreOk
    <2>2. CASE k \in Named(profs, new.type, new.name)
        <3>1. profs[k] # Free /\ profs[k].name = new.name
            BY <1>3, <2>2, NamedOk, Objects DEF Invariant
        <3> QED
            BY <1>5, <1>6, <1>8, <3>1 DEF Linked, UniqueNames
    <2>3. CASE Named(profs, new.type, new.name) = {}
        BY <1>2, <1>3, <1>6, <2>1, <2>3 DEF Named, Cells, Types, Other
    <2> QED
        BY <1>4, <2>2, <2>3
<1>9. Offers(servers, new.type, TsName(new))
    BY <1>2 DEF TsName, Offers
<1> QED
    BY <1>1, <1>2, <1>3, <1>5, <1>7, <1>8, <1>9, LinkedProf

LEMMA LinkedSetServer ==
    ASSUME Invariant, Linked, NEW new \in Servers, NEW admin,
           SetServer(new, admin)
    PROVE  Linked'
<1>1. CASE UNCHANGED <<store, ctx>>
    BY <1>1, LinkedStopped
<1>2. CASE PutServer(new) /\ UNCHANGED <<conns, profs, ctx>>
    <2>1. PICK k \in PlaceFor(servers, new.type, new.name) :
             servers' = Put(servers, k, new)
        BY <1>2 DEF PutServer
    <2>2. \/ k \in Named(servers, new.type, new.name)
          \/ k \in Unused(servers)
        BY <2>1, PlaceOk
    <2>3. k \in DOMAIN servers
        BY <2>2 DEF Named, Unused, Cells
    <2>4. ASSUME NEW u \in Types, NEW n, Named(servers, u, n) # {}
          PROVE  Named(servers', u, n) # {}
        <3>1. k \in Named(servers, u, n) => new.type = u /\ new.name = n
            BY <2>2, <2>4, Objects DEF Named, Unused, Cells
        <3> QED
            BY <2>1, <2>3, <2>4, <3>1, NamedPut
    <2> QED
        BY <1>2, <2>4, LinkedServers
<1> QED
    BY <1>1, <1>2 DEF SetServer, Follow

LEMMA LinkedGive ==
    ASSUME Invariant, NEW name, GiveToProfile(name)
    PROVE  /\ profs' \in [ProfCells -> Profiles \cup {Free}]
           /\ \A k \in ProfCells : profs'[k] # profs[k] =>
                 /\ profs[k] # Free /\ profs'[k].type = profs[k].type
                 /\ profs'[k].name = profs[k].name
                 /\ TsName(profs'[k]) = TsName(profs[k])
<1>1. PICK p \in ProfileFor(name) :
         profs' = Put(profs, p, [profs[p] EXCEPT !.temp = TRUE])
    BY DEF GiveToProfile
<1>2. p \in ProfCells /\ profs[p] \in Profiles /\ profs[p] # Free
    BY Found, Objects DEF Invariant
<1> DEFINE new == [profs[p] EXCEPT !.temp = TRUE]
<1>3. /\ new \in Profiles /\ new.type = profs[p].type
      /\ new.name = profs[p].name /\ TsName(new) = TsName(profs[p])
    BY <1>2 DEF Profiles, TsName
<1>4. profs' = Put(profs, p, new)
    BY <1>1
<1> HIDE DEF new
<1> QED
    BY <1>2, <1>3, <1>4 DEF Put, Invariant, StoreOk

\* A connection whose name, network and profile stay.
LEMMA LinkedChange ==
    ASSUME Invariant, NEW k \in ConnCells, conns[k] # Free,
           NEW new \in Connections, conns' = Put(conns, k, new),
           new.type = conns[k].type, new.name = conns[k].name,
           new.ssid = conns[k].ssid, new.profile = conns[k].profile
    PROVE  /\ conns' \in [ConnCells -> Connections \cup {Free}]
           /\ \A j \in ConnCells : conns'[j] # conns[j] =>
                 /\ conns[j] # Free /\ conns'[j].type = conns[j].type
                 /\ conns'[j].name = conns[j].name
                 /\ conns'[j].ssid = conns[j].ssid
                 /\ conns'[j].profile = conns[j].profile
BY DEF Invariant, StoreOk, Put

LEMMA LinkedSetConnectionUPW ==
    ASSUME Invariant, Linked, NEW name, SetConnectionUPW(name)
    PROVE  Linked'
<1>1. PICK k \in ConnectionFor(name) :
         Follow(BoundProfs,
            /\ IF conns[k].auth = "PSK"
               THEN /\ conns' = Put(conns, k, [conns[k] EXCEPT !.temp = TRUE])
                    /\ UNCHANGED profs
               ELSE GiveToProfile(conns[k].profile) /\ UNCHANGED conns
            /\ UNCHANGED <<servers, ctx, status>>)
    BY DEF SetConnectionUPW
<1>2. CASE UNCHANGED <<store, ctx>>
    BY <1>2, LinkedStopped
<1>3. CASE /\ conns' = Put(conns, k, [conns[k] EXCEPT !.temp = TRUE])
           /\ UNCHANGED <<profs, servers, ctx>>
    <2> DEFINE new == [conns[k] EXCEPT !.temp = TRUE]
    <2>1. k \in ConnCells /\ conns[k] \in Connections /\ conns[k] # Free
        BY Found, Objects DEF Invariant
    <2>2. /\ new \in Connections /\ new.type = conns[k].type
          /\ new.name = conns[k].name /\ new.ssid = conns[k].ssid
          /\ new.profile = conns[k].profile
        BY <2>1 DEF Connections
    <2>3. conns' = Put(conns, k, new)
        BY <1>3
    <2> HIDE DEF new
    <2> QED
        BY <1>3, <2>1, <2>2, <2>3, LinkedChange, LinkedSame
        DEF Invariant, StoreOk
<1>4. CASE /\ GiveToProfile(conns[k].profile)
           /\ UNCHANGED <<conns, servers, ctx>>
    BY <1>4, LinkedGive, LinkedSame DEF Invariant, StoreOk
<1> QED
    BY <1>1, <1>2, <1>3, <1>4 DEF Follow, store

LEMMA LinkedSetConnectionPW ==
    ASSUME Invariant, Linked, NEW name, SetConnectionPW(name)
    PROVE  Linked'
<1>1. PICK k \in ConnectionFor(name) : \E auth \in AuthFor(conns[k]) :
         LET set == [conns[k] EXCEPT !.auth = auth]
         IN  IF auth = "EAP" /\ ProfileFor(set.profile) # {}
             THEN Follow(BoundProfs, /\ conns' = Put(conns, k, set)
                                     /\ GiveToProfile(set.profile)
                                     /\ UNCHANGED <<servers, ctx, status>>)
             ELSE Follow(IF auth \in {"PSK", "NONE"} THEN BoundProfs ELSE {},
                     /\ conns' = Put(conns, k,
                           [set EXCEPT !.temp = @ \/ auth = "PSK",
                                       !.key  = @ \/ auth = "NONE"])
                     /\ UNCHANGED <<profs, servers, ctx, status>>)
    BY DEF SetConnectionPW
<1>2. PICK auth \in AuthFor(conns[k]) :
         LET set == [conns[k] EXCEPT !.auth = auth]
         IN  IF auth = "EAP" /\ ProfileFor(set.profile) # {}
             THEN Follow(BoundProfs, /\ conns' = Put(conns, k, set)
                                     /\ GiveToProfile(set.profile)
                                     /\ UNCHANGED <<servers, ctx, status>>)
             ELSE Follow(IF auth \in {"PSK", "NONE"} THEN BoundProfs ELSE {},
                     /\ conns' = Put(conns, k,
                           [set EXCEPT !.temp = @ \/ auth = "PSK",
                                       !.key  = @ \/ auth = "NONE"])
                     /\ UNCHANGED <<profs, servers, ctx, status>>)
    BY <1>1
<1> DEFINE set == [conns[k] EXCEPT !.auth = auth]
           temp == set.temp \/ auth = "PSK"
           key == set.key \/ auth = "NONE"
           new == [set EXCEPT !.temp = temp, !.key = key]
<1>3. k \in ConnCells /\ conns[k] \in Connections /\ conns[k] # Free
    BY Found, Objects DEF Invariant
<1>4. temp \in BOOLEAN /\ key \in BOOLEAN
    OBVIOUS
<1>5. \/ UNCHANGED <<store, ctx>>
      \/ /\ conns' = Put(conns, k, set) /\ GiveToProfile(set.profile)
         /\ UNCHANGED <<servers, ctx>>
      \/ /\ conns' = Put(conns, k, [set EXCEPT !.temp = @ \/ auth = "PSK",
                                               !.key  = @ \/ auth = "NONE"])
         /\ UNCHANGED <<profs, servers, ctx>>
    BY <1>2 DEF Follow
<1> HIDE DEF temp, key
<1>6. /\ set \in Connections /\ set.type = conns[k].type
      /\ set.name = conns[k].name /\ set.ssid = conns[k].ssid
      /\ set.profile = conns[k].profile
    <2>1. auth \in {"EAP", "PSK", "NONE", "UNKNOWN"}
        BY <1>3 DEF AuthFor, Connections
    <2> QED
        BY <1>3, <2>1 DEF Connections
<1>7. CASE UNCHANGED <<store, ctx>>
    BY <1>7, LinkedStopped
<1>8. CASE /\ conns' = Put(conns, k, set) /\ GiveToProfile(set.profile)
           /\ UNCHANGED <<servers, ctx>>
    <2> HIDE DEF set, new
    <2> QED
        BY <1>3, <1>6, <1>8, LinkedChange, LinkedGive, LinkedSame
<1>9. CASE /\ conns' = Put(conns, k, [set EXCEPT !.temp = @ \/ auth = "PSK",
                                                !.key  = @ \/ auth = "NONE"])
           /\ UNCHANGED <<profs, servers, ctx>>
    <2>1. conns' = Put(conns, k, new)
        BY <1>6, <1>9 DEF Connections, temp, key
    <2> HIDE DEF set
    <2>2. /\ new \in Connections /\ new.type = set.type
          /\ new.name = set.name /\ new.ssid = set.ssid
          /\ new.profile = set.profile
        BY <1>4, <1>6 DEF Connections
    <2> HIDE DEF new
    <2> QED
        BY <1>3, <1>6, <1>9, <2>1, <2>2, LinkedChange, LinkedSame
        DEF Invariant, StoreOk
<1> QED
    BY <1>5, <1>7, <1>8, <1>9

\* A trusted server and the profiles that refer to it get another name; those
\* of the system keep the old one if it is a server of the user.
LEMMA LinkedRenameServer ==
    ASSUME Invariant, Invariant', Linked, NEW t \in Types,
           NEW old \in ServerNames, NEW new \in ServerNames, NEW admin,
           RenameServer(t, old, new, admin)
    PROVE  Linked'
<1>1. /\ servers' = Renamed(servers, t, old, new)
      /\ profs' = [p \in ProfCells |->
                     IF /\ profs[p] # Free /\ profs[p].server = old
                        /\ profs[p].type \in {t, "USER"}
                     THEN [profs[p] EXCEPT !.server = new] ELSE profs[p]]
      /\ UNCHANGED <<conns, ctx>> /\ Named(servers, t, old) # {}
    BY DEF RenameServer, Follow
<1>2. DOMAIN profs = ProfCells /\ DOMAIN profs' = ProfCells
    BY DEF Invariant, StoreOk
<1>3. ASSUME NEW p \in ProfCells
      PROVE  /\ profs'[p] = Free <=> profs[p] = Free
             /\ profs'[p].type = profs[p].type
             /\ profs'[p].name = profs[p].name
             /\ profs[p] # Free /\ TsName(profs[p]) = old
                   /\ profs[p].type \in {t, "USER"} => TsName(profs'[p]) = new
             /\ ~(profs[p] # Free /\ TsName(profs[p]) = old
                   /\ profs[p].type \in {t, "USER"}) =>
                       \/ TsName(profs'[p]) = NULL
                       \/ TsName(profs'[p]) = TsName(profs[p])
    <2> DEFINE changed == [profs[p] EXCEPT !.server = new]
    <2>1. CASE /\ profs[p] # Free /\ profs[p].server = old
               /\ profs[p].type \in {t, "USER"}
        <3>1. profs'[p] = changed /\ profs[p] \in Profiles
            BY <1>1, <2>1 DEF Invariant, StoreOk
        <3>2. /\ changed \in Profiles /\ changed.type = profs[p].type
              /\ changed.name = profs[p].name /\ changed.server = new
              /\ changed.method = profs[p].method
            BY <3>1 DEF Profiles
        <3> HIDE DEF changed
        <3>3. changed # Free
            BY <3>2, Objects
        <3>4. TsName(changed) = IF changed.method = "FAST" THEN NULL ELSE new
            BY <3>2 DEF TsName
        <3>5. TsName(profs[p]) = IF changed.method = "FAST" THEN NULL ELSE old
            BY <2>1, <3>2 DEF TsName
        <3>6. old # NULL
            BY ConfigAssumption
        <3> QED
            BY <2>1, <3>1, <3>2, <3>3, <3>4, <3>5, <3>6
    <2>2. CASE ~ /\ profs[p] # Free /\ profs[p].server = old
                 /\ profs[p].type \in {t, "USER"}
        <3>1. profs'[p] = profs[p]
            BY <1>1, <2>2
        <3>2. TsName(profs[p]) \in {NULL, profs[p].server} /\ old # NULL
            BY ConfigAssumption DEF TsName
        <3>3. ~(profs[p] # Free /\ TsName(profs[p]) = old
                   /\ profs[p].type \in {t, "USER"})
            BY <2>2, <3>2
        <3> QED
            BY <3>1, <3>3
    <2> QED
        BY <2>1, <2>2
<1>4. UniqueNames(profs')
    BY <1>2, <1>3 DEF Linked, UniqueNames
<1>5. \A u \in Types : \A name :
         Named(profs', u, name) = Named(profs, u, name)
    BY <1>2, <1>3 DEF Named, Cells
<1>6. ProfilesOffered'
    <2>1. \A c \in ConnCells : conns[c] # Free =>
              Offers(profs', conns[c].type, conns[c].profile)
        BY <1>5, OffersKept DEF Linked, ProfilesOffered
    <2> QED
        BY <1>1, <2>1 DEF ProfilesOffered
<1>7. ASSUME NEW u \in Types, NEW name, Named(servers, u, name) # {},
             u # t \/ name # old
      PROVE  Named(servers', u, name) # {}
    <2>1. PICK s \in Named(servers, u, name) : TRUE
        BY <1>7
    <2>2. /\ s \in DOMAIN servers /\ servers[s].type = u
          /\ servers[s].name = name
        BY DEF Named, Cells
    <2>3. s \notin Named(servers, t, old)
        BY <1>7, <2>2 DEF Named, Cells
    <2>4. servers'[s] = servers[s] /\ DOMAIN servers' = DOMAIN servers
        BY <1>1, <2>2, <2>3 DEF Renamed
    <2> QED
        BY <2>2, <2>4 DEF Named, Cells
<1>8. Named(servers', t, new) # {}
    <2>1. PICK s \in Named(servers, t, old) : TRUE
        BY <1>1
    <2>2. s \in ServerCells /\ servers[s] \in Servers /\ servers[s].type = t
        BY NamedOk DEF Invariant, Named, Cells
    <2>3. /\ servers'[s] = [servers[s] EXCEPT !.name = new]
          /\ DOMAIN servers' = ServerCells
        BY <1>1, <2>1, <2>2 DEF Renamed, Invariant, StoreOk
    <2>4. servers'[s].type = t /\ servers'[s].name = new
        BY <2>2, <2>3 DEF Servers
    <2> QED
        BY <2>2, <2>3, <2>4 DEF Named, Cells
<1>9. ASSUME NEW p \in ProfCells, profs'[p] # Free
      PROVE  Offers(servers', profs'[p].type, TsName(profs'[p]))
    <2>1. profs[p] # Free /\ profs[p].type \in Types
        BY <1>3, <1>9, Objects DEF Invariant, StoreOk
    <2>2. Offers(servers, profs[p].type, TsName(profs[p]))
        BY <2>1 DEF Linked, ServersOffered
    <2>3. CASE TsName(profs[p]) = old /\ profs[p].type \in {t, "USER"}
        <3>1. TsName(profs'[p]) = new /\ profs'[p].type = profs[p].type
            BY <1>3, <2>1, <2>3
        <3> QED
            BY <1>8, <2>1, <2>3, <3>1 DEF Offers, Types
    <2>4. CASE TsName(profs[p]) # old
        <3>1. profs'[p].type = profs[p].type
              /\ TsName(profs'[p]) \in {NULL, TsName(profs[p])}
            BY <1>3, <2>4
        <3>2. Offers(servers', profs[p].type, TsName(profs[p]))
            BY <1>7, <2>2, <2>4, OffersKept
        <3> QED
            BY <3>1, <3>2 DEF Offers
    <2>5. CASE TsName(profs[p]) = old /\ profs[p].type \notin {t, "USER"}
        <3>1. profs'[p].type = profs[p].type
              /\ TsName(profs'[p]) \in {NULL, old}
            BY <1>3, <2>5
        <3>2. t = "USER" /\ profs[p].type = "GLOBAL"
            BY <2>1, <2>5 DEF Types
        <3>3. old = NULL \/ Named(servers, "GLOBAL", old) # {}
            BY <2>2, <2>5, <3>2 DEF Offers
        <3>4. old = NULL \/ Named(servers', "GLOBAL", old) # {}
            BY <1>7, <3>2, <3>3 DEF Types
        <3> QED
            BY <3>1, <3>2, <3>4 DEF Offers
    <2> QED
        BY <2>3, <2>4, <2>5
<1>10. ServersOffered'
    BY <1>9 DEF ServersOffered
<1>11. ASSUME NEW i \in Interfaces
       PROVE  Together(ctx[i])'
    <2>1. ctx[i] \in Contexts /\ Together(ctx[i])
        BY DEF Invariant, BoundOk, Linked, AllTogether
    <2>2. ctx[i].prof # NULL /\ ctx[i].prof # FREED =>
             profs'[ctx[i].prof].name = profs[ctx[i].prof].name
        BY <1>3, <2>1 DEF Contexts
    <2>3. ctx' = ctx /\ conns' = conns
        BY <1>1
    <2> QED
        BY <2>1, <2>2, <2>3 DEF Together
<1> QED
    BY <1>4, <1>6, <1>10, <1>11 DEF Linked, AllTogether

\* What goes by the name of a connection is bound to it.
LEMMA NameMeansConn ==
    ASSUME Invariant, Linked, NEW i \in Interfaces, NEW name \in ConnNames,
           ctx[i].connName = name, ctx[i].conn \in ConnCells
    PROVE  conns[ctx[i].conn] \in Connections /\ conns[ctx[i].conn].name = name
<1>1. Valid(ctx[i]) /\ Together(ctx[i])
    BY DEF Invariant, BoundOk, Linked, AllTogether
<1>2. conns[ctx[i].conn] \in Connections
    BY <1>1, Domains DEF Valid, Invariant
<1>3. conns[ctx[i].conn].ssid # name /\ NULL # name
    BY <1>2, ConfigAssumption DEF Connections
<1> QED
    BY <1>1, <1>2, <1>3 DEF Together

\* The connection with the old name gets the new one, in whichever list.
LEMMA LinkedRenameConnection ==
    ASSUME Invariant, Linked, Checks, NEW t \in Types, NEW old \in ConnNames,
           NEW new \in ConnNames, NEW admin,
           RenameConnection(t, old, new, admin)
    PROVE  Linked'
<1> DEFINE bound == {i \in Interfaces :
                        ctx[i].connName = old /\ ctx[i].conn # NULL}
           k     == ctx[First(bound)].conn
<1>1. Named(conns, t, old) # {}
    BY DEF RenameConnection, Checks
<1>2. \/ UNCHANGED <<store, ctx>>
      \/ /\ FREED \notin IF bound = {} THEN {} ELSE {k}
         /\ ctx' = [i \in Interfaces |->
                      IF ctx[i].connName = old
                      THEN [ctx[i] EXCEPT !.connName = new] ELSE ctx[i]]
         /\ conns' = IF bound = {} THEN Renamed(conns, t, old, new)
                     ELSE Put(conns, k, [conns[k] EXCEPT !.name = new])
         /\ UNCHANGED <<profs, servers>>
    BY DEF RenameConnection, Follow
<1>3. CASE UNCHANGED <<store, ctx>>
    BY <1>3, LinkedStopped
<1>4. CASE /\ FREED \notin IF bound = {} THEN {} ELSE {k}
           /\ ctx' = [i \in Interfaces |->
                        IF ctx[i].connName = old
                        THEN [ctx[i] EXCEPT !.connName = new] ELSE ctx[i]]
           /\ conns' = IF bound = {} THEN Renamed(conns, t, old, new)
                       ELSE Put(conns, k, [conns[k] EXCEPT !.name = new])
           /\ UNCHANGED <<profs, servers>>
    <2>1. DOMAIN conns = ConnCells
        BY DEF Invariant, StoreOk
    <2>2. ASSUME NEW b \in ConnCells, NEW c \in ConnCells, conns[b] # Free,
                 conns[c] # Free, conns[b].name = old, conns[c].name = old
          PROVE  b = c
        BY <2>1, <2>2 DEF Invariant, NamesUnique, UniqueNames
    <2>3. PICK c \in ConnCells :
             /\ conns[c] \in Connections /\ conns[c].name = old
             /\ conns' = Put(conns, c, [conns[c] EXCEPT !.name = new])
        <3>1. CASE bound = {}
            <4>1. PICK c \in Named(conns, t, old) : TRUE
                BY <1>1
            <4>2. /\ c \in ConnCells /\ conns[c] \in Connections
                  /\ conns[c].name = old /\ conns[c] # Free
                BY NamedOk, Objects DEF Invariant
            <4>3. ASSUME NEW b \in Named(conns, t, old) PROVE b = c
                BY <2>2, <4>2, NamedOk, Objects DEF Invariant
            <4>4. Named(conns, t, old) = {c}
                BY <4>1, <4>3
            <4>5. conns' = Renamed(conns, t, old, new)
                BY <1>4, <3>1
            <4>6. conns' = Put(conns, c, [conns[c] EXCEPT !.name = new])
                BY <2>1, <4>2, <4>4, <4>5 DEF Renamed, Put, Invariant, StoreOk
            <4> QED
                BY <4>2, <4>6
        <3>2. CASE bound # {}
            <4>1. First(bound) \in bound
                BY <3>2, FirstOk
            <4>2. /\ conns' = Put(conns, k, [conns[k] EXCEPT !.name = new])
                  /\ k # FREED /\ k # NULL
                BY <1>4, <3>2, <4>1
            <4>3. k \in ConnCells
                BY <4>1, <4>2 DEF Invariant, BoundOk, Contexts
            <4>4. conns[k] \in Connections /\ conns[k].name = old
                BY <4>1, <4>3, NameMeansConn
            <4> HIDE DEF k
            <4> QED
                BY <4>2, <4>3, <4>4
        <3> QED
            BY <3>1, <3>2
    <2> DEFINE changed == [conns[c] EXCEPT !.name = new]
    <2>4. /\ changed \in Connections /\ changed.name = new
          /\ changed.type = conns[c].type /\ changed.ssid = conns[c].ssid
          /\ changed.profile = conns[c].profile
        BY <2>3 DEF Connections
    <2>5. conns' = Put(conns, c, changed)
        BY <2>3
    <2> HIDE DEF changed
    <2>6. /\ conns'[c] = changed /\ conns[c] # Free
          /\ \A b \in ConnCells \ {c} : conns'[b] = conns[b]
        BY <2>1, <2>3, <2>5, Objects DEF Put
    <2>7. ProfilesOffered'
        <3>1. \A b \in ConnCells : conns'[b] # Free =>
                 /\ conns[b] # Free /\ conns'[b].type = conns[b].type
                 /\ conns'[b].profile = conns[b].profile
            BY <2>4, <2>6
        <3> QED
            BY <1>4, <3>1 DEF Linked, ProfilesOffered
    <2>8. ASSUME NEW i \in Interfaces
          PROVE  Together(ctx[i])'
        <3>1. Valid(ctx[i]) /\ Together(ctx[i])
            BY DEF Invariant, BoundOk, Linked, AllTogether
        <3> DEFINE x == ctx[i]
                   y == ctx'[i]
        <3>2. y = IF x.connName = old THEN [x EXCEPT !.connName = new] ELSE x
            BY <1>4
        <3>3. /\ y.conn = x.conn /\ y.prof = x.prof
              /\ y.connName = IF x.connName = old THEN new ELSE x.connName
            BY <3>1, <3>2 DEF Valid, Contexts
        <3>4. CASE x.conn \notin ConnCells
            BY <3>3, <3>4 DEF Together
        <3>5. CASE x.conn = c
            <4>1. conns'[c].name = new /\ conns'[c].ssid = conns[c].ssid
                  /\ conns'[c].profile = conns[c].profile
                BY <2>4, <2>6
            <4>2. y.connName \in {conns'[c].name, conns'[c].ssid, NULL}
                BY <2>3, <3>1, <3>3, <3>5, <4>1 DEF Together
            <4>3. profs' = profs
                BY <1>4
            <4> HIDE DEF x, y
            <4> QED
                BY <2>3, <3>1, <3>3, <3>5, <4>1, <4>2, <4>3
                DEF Together, x, y
        <3>6. CASE x.conn \in ConnCells /\ x.conn # c
            <4>1. x.connName # old
                BY <2>2, <2>3, <2>6, <3>6, NameMeansConn, Objects
            <4>2. conns'[x.conn] = conns[x.conn] /\ profs' = profs
                BY <1>4, <2>6, <3>6
            <4>3. y.connName = x.connName
                BY <3>3, <4>1
            <4> HIDE DEF x, y
            <4> QED
                BY <3>1, <3>3, <3>6, <4>2, <4>3 DEF Together, x, y
        <3> QED
            BY <3>4, <3>5, <3>6
    <2> QED
        BY <1>4, <2>7, <2>8 DEF Linked, AllTogether, ServersOffered
<1> QED
    BY <1>2, <1>3, <1>4

\* The profile with the old name gets the new one, and so do the connections
\* that refer to it.
LEMMA LinkedRenameProfile ==
    ASSUME Invariant, Linked, Checks, NEW t \in Types,
           NEW old \in ProfNames, NEW new \in ProfNames, NEW admin,
           RenameProfile(t, old, new, admin)
    PROVE  Linked'
<1> DEFINE refer == {i \in Interfaces :
                       /\ ctx[i].conn \in ConnCells
                       /\ conns[ctx[i].conn].profile = old
                       /\ \A j \in 1 .. i - 1 : ctx[j].conn # ctx[i].conn}
           bound == {i \in refer : ctx[i].prof # NULL}
           k     == ctx[First(bound)].prof
           refers(c) == /\ conns[c] # Free /\ conns[c].profile = old
                        /\ \/ c \in BoundConns
                           \/ conns[c].type \in {t, "USER"}
           asked == BoundConns \cup (IF bound = {} THEN {} ELSE {k})
<1>1. Named(profs, t, old) # {} /\ ~NameUsed(profs, new)
    BY DEF RenameProfile, Checks
<1>2. \/ UNCHANGED <<store, ctx>>
      \/ /\ profs' = IF bound = {} THEN Renamed(profs, t, old, new)
                     ELSE Put(profs, k, [profs[k] EXCEPT !.name = new])
         /\ conns' = [c \in ConnCells |->
                        IF refers(c) THEN [conns[c] EXCEPT !.profile = new]
                        ELSE conns[c]]
         /\ UNCHANGED <<servers, ctx>>
    BY DEF RenameProfile, Follow
<1>3. CASE UNCHANGED <<store, ctx>>
    BY <1>3, LinkedStopped
<1>4. CASE /\ profs' = IF bound = {} THEN Renamed(profs, t, old, new)
                       ELSE Put(profs, k, [profs[k] EXCEPT !.name = new])
           /\ conns' = [c \in ConnCells |->
                          IF refers(c) THEN [conns[c] EXCEPT !.profile = new]
                          ELSE conns[c]]
           /\ UNCHANGED <<servers, ctx>>
    <2>1. DOMAIN profs = ProfCells /\ DOMAIN conns = ConnCells
        BY DEF Invariant, StoreOk
    <2>2. PICK p \in Named(profs, t, old) : TRUE
        BY <1>1
    <2>3. /\ p \in ProfCells /\ profs[p] \in Profiles /\ profs[p] # Free
          /\ profs[p].type = t /\ profs[p].name = old
        BY NamedOk, Objects DEF Invariant
    <2>4. ASSUME NEW q \in ProfCells, profs[q] # Free, profs[q].name = old
          PROVE  q = p
        BY <2>1, <2>3, <2>4 DEF Linked, UniqueNames
    <2>5. profs' = Put(profs, p, [profs[p] EXCEPT !.name = new])
        <3>1. CASE bound = {}
            <4>1. Named(profs, t, old) = {p}
                <5>1. ASSUME NEW q \in Named(profs, t, old) PROVE q = p
                    BY <2>4, NamedOk, Objects DEF Invariant
                <5> QED
                    BY <2>2, <5>1
            <4>2. profs' = Renamed(profs, t, old, new)
                BY <1>4, <3>1
            <4> QED
                BY <2>1, <2>3, <4>1, <4>2 DEF Renamed, Put, Invariant, StoreOk
        <3>2. CASE bound # {}
            <4>1. First(bound) \in bound
                BY <3>2, FirstOk
            <4> DEFINE x == ctx[First(bound)]
            <4>2. /\ First(bound) \in Interfaces /\ x.conn \in ConnCells
                  /\ conns[x.conn].profile = old /\ x.prof # NULL
                BY <4>1
            <4>3. Valid(x) /\ Together(x)
                BY <4>2 DEF Invariant, BoundOk, Linked, AllTogether
            <4> HIDE DEF x
            <4>4. x.prof \in ProfCells
                BY <4>2, <4>3 DEF Valid, Contexts, Together
            <4>5. profs[x.prof].name = old /\ profs[x.prof] # Free
                BY <4>2, <4>3, <4>4 DEF Together, Valid
            <4>6. k = p
                BY <2>4, <4>4, <4>5 DEF x
            <4>7. profs' = Put(profs, k, [profs[k] EXCEPT !.name = new])
                BY <1>4, <3>2
            <4> HIDE DEF k
            <4> QED
                BY <4>6, <4>7
        <3> QED
            BY <3>1, <3>2
    <2> HIDE DEF bound, refer, k, asked
    <2> DEFINE changed == [profs[p] EXCEPT !.name = new]
    <2>6. /\ changed \in Profiles /\ changed.name = new
          /\ changed.type = t /\ TsName(changed) = TsName(profs[p])
        BY <2>3 DEF Profiles, TsName
    <2>7. profs' = Put(profs, p, changed)
        BY <2>5
    <2> HIDE DEF changed
    <2>8. /\ profs'[p] = changed /\ DOMAIN profs' = ProfCells
          /\ \A q \in ProfCells \ {p} : profs'[q] = profs[q]
        BY <2>1, <2>3, <2>7 DEF Put
    <2>9. \A q \in ProfCells : profs[q] # Free => profs[q].name # new
        <3>1. ASSUME NEW q \in ProfCells, profs[q] # Free
              PROVE  profs[q].name # new
            <4>1. profs[q].type \in Types
                BY <3>1, Objects DEF Invariant, StoreOk
            <4> QED
                BY <1>1, <2>1, <4>1 DEF NameUsed, Named, Cells
        <3> QED
            BY <3>1
    <2>10. UniqueNames(profs')
        BY <2>1, <2>6, <2>8, <2>9 DEF Linked, UniqueNames
    <2>11. ServersOffered'
        <3>1. ASSUME NEW q \in ProfCells, profs'[q] # Free
              PROVE  Offers(servers, profs'[q].type, TsName(profs'[q]))
            <4>1. /\ profs[q] # Free /\ profs'[q].type = profs[q].type
                  /\ TsName(profs'[q]) = TsName(profs[q])
                BY <2>3, <2>6, <2>8, <3>1
            <4> QED
                BY <4>1 DEF Linked, ServersOffered
        <3> QED
            BY <1>4, <3>1 DEF ServersOffered
    <2>12. ASSUME NEW c \in ConnCells
           PROVE  /\ conns'[c] = Free <=> conns[c] = Free
                  /\ conns'[c].type = conns[c].type
                  /\ conns'[c].name = conns[c].name
                  /\ conns'[c].ssid = conns[c].ssid
                  /\ conns'[c].profile =
                        IF refers(c) THEN new ELSE conns[c].profile
        <3>1. CASE refers(c)
            <4> DEFINE other == [conns[c] EXCEPT !.profile = new]
            <4>1. conns[c] \in Connections /\ conns'[c] = other
                BY <1>4, <3>1 DEF Invariant, StoreOk
            <4>2. /\ other \in Connections /\ other.type = conns[c].type
                  /\ other.name = conns[c].name /\ other.profile = new
                  /\ other.ssid = conns[c].ssid
                BY <4>1 DEF Connections
            <4> HIDE DEF other
            <4> QED
                BY <3>1, <4>1, <4>2, Objects
        <3>2. CASE ~refers(c)
            <4>1. conns'[c] = conns[c]
                BY <1>4, <3>2
            <4> HIDE DEF refers
            <4> QED
                BY <3>2, <4>1
        <3> QED
            BY <3>1, <3>2
    <2>13. ASSUME NEW c \in ConnCells, conns[c] # Free,
                  conns[c].profile = old
           PROVE  conns[c].type \in {t, "USER"}
        <3>1. conns[c].type \in Types /\ Offers(profs, conns[c].type, old)
            BY <2>13, Objects
            DEF Linked, ProfilesOffered, Invariant, StoreOk
        <3>2. CASE conns[c].type = "GLOBAL" /\ t = "USER"
            <4>1. old # NULL
                BY ConfigAssumption
            <4>2. PICK q \in Named(profs, "GLOBAL", old) : TRUE
                BY <3>1, <3>2, <4>1 DEF Offers
            <4>3. /\ q \in ProfCells /\ profs[q] # Free
                  /\ profs[q].name = old /\ profs[q].type = "GLOBAL"
                BY NamedOk, Objects DEF Invariant, Types
            <4>4. q = p
                BY <2>4, <4>3
            <4> QED
                BY <2>3, <3>2, <4>3, <4>4
        <3> QED
            BY <3>1, <3>2 DEF Types
    <2>14. Named(profs', t, new) # {}
        BY <2>3, <2>6, <2>8 DEF Named, Cells
    <2>15. ASSUME NEW c \in ConnCells, conns'[c] # Free
           PROVE  Offers(profs', conns'[c].type, conns'[c].profile)
        <3>1. conns[c] # Free /\ conns'[c].type = conns[c].type
            BY <2>12, <2>15
        <3>2. Offers(profs, conns[c].type, conns[c].profile)
            BY <3>1 DEF Linked, ProfilesOffered
        <3>3. CASE conns[c].profile = old
            <4>1. conns[c].type \in {t, "USER"}
                BY <2>13, <3>1, <3>3
            <4>2. conns'[c].profile = new
                BY <2>12, <3>1, <3>3, <4>1
            <4> QED
                BY <2>14, <3>1, <4>1, <4>2 DEF Offers, Types
        <3>4. CASE conns[c].profile # old
            <4>1. conns'[c].profile = conns[c].profile
                BY <2>12, <3>4
            <4> DEFINE name == conns[c].profile
            <4>2. ASSUME NEW u \in Types, Named(profs, u, name) # {}
                  PROVE  Named(profs', u, name) # {}
                <5>1. p \notin Named(profs, u, name)
                    BY <2>3, <3>4 DEF Named
                <5> HIDE DEF name
                <5> QED
                    BY <2>1, <2>3, <2>7, <4>2, <5>1, NamedPut
            <4> HIDE DEF name
            <4> QED
                BY <3>1, <3>2, <4>1, <4>2, OffersKept DEF name
        <3> QED
            BY <3>3, <3>4
    <2>16. ProfilesOffered'
        BY <2>15 DEF ProfilesOffered
    <2>17. ASSUME NEW i \in Interfaces
           PROVE  Together(ctx[i])'
        <3> DEFINE x == ctx[i]
        <3>1. Valid(x) /\ Together(x) /\ ctx'[i] = x
            BY <1>4 DEF Invariant, BoundOk, Linked, AllTogether
        <3> SUFFICES ASSUME x.conn \in ConnCells
                     PROVE  Together(ctx[i])'
            BY <3>1 DEF Together
        <3> HIDE DEF x
        <3>2. conns[x.conn] # Free
            BY <3>1 DEF Valid
        <3>3. /\ x.connName \in
                    {conns'[x.conn].name, conns'[x.conn].ssid, NULL}
              /\ x.prof # FREED
            BY <2>12, <3>1 DEF Together
        <3>4. ASSUME x.prof # NULL
              PROVE  profs'[x.prof].name = conns'[x.conn].profile
            <4>1. x.prof \in ProfCells /\ profs[x.prof] # Free
                BY <3>1, <3>3, <3>4 DEF Valid, Contexts
            <4>2. profs[x.prof].name = conns[x.conn].profile
                BY <3>1, <3>4 DEF Together
            <4>3. CASE conns[x.conn].profile = old
                <5>1. x.prof = p
                    BY <2>4, <4>1, <4>2, <4>3
                <5>2. conns[x.conn].type \in {t, "USER"}
                    BY <2>13, <3>2, <4>3
                <5>3. conns'[x.conn].profile = new
                    BY <2>12, <3>2, <4>3, <5>2
                <5> QED
                    BY <2>6, <2>8, <5>1, <5>3
            <4>4. CASE conns[x.conn].profile # old
                <5>1. x.prof # p
                    BY <2>3, <4>2, <4>4
                <5>2. conns'[x.conn].profile = conns[x.conn].profile
                    BY <2>12, <4>4
                <5> QED
                    BY <2>8, <4>1, <4>2, <5>1, <5>2
            <4> QED
                BY <4>3, <4>4
        <3> QED
            BY <3>1, <3>3, <3>4 DEF Together, x
    <2> QED
        BY <2>10, <2>11, <2>16, <2>17 DEF Linked, AllTogether
<1> QED
    BY <1>2, <1>3, <1>4

(***************************************************************************)
(* Binding: to a connection that is called so, or whose network is, with   *)
(* the profile it refers to.                                               *)
(***************************************************************************)
LEMMA LinkedBind ==
    ASSUME Invariant, Linked, NEW i \in Interfaces, NEW r, Together(r),
           ctx' = [ctx EXCEPT ![i] = r], UNCHANGED store
    PROVE  Linked'
<1>1. ctx \in [Interfaces -> Contexts]
    BY DEF Invariant, BoundOk
<1>2. \A j \in Interfaces : ctx'[j] = ctx[j] \/ Together(ctx'[j])
    BY <1>1
<1> QED
    BY <1>2, LinkedBinds

LEMMA FoundFor ==
    ASSUME StoreOk
    PROVE  /\ \A name : \A k \in ConnectionFor(name) :
                 k \in ConnCells /\ name \in {conns[k].name, conns[k].ssid}
           /\ \A name : \A p \in ProfileFor(name) :
                 p \in ProfCells /\ profs[p].name = name
<1>1. \A t \in Types : \A name : \A k \in FindConnection(t, name) :
          k \in ConnCells /\ name \in {conns[k].name, conns[k].ssid}
    BY CellsOk DEF FindConnection, Prefer, Named
<1>2. \A name : \A k \in ConnectionFor(name) :
          k \in ConnCells /\ name \in {conns[k].name, conns[k].ssid}
    BY <1>1 DEF ConnectionFor, Prefer, Types
<1>3. \A name : \A p \in ProfileFor(name) :
          p \in ProfCells /\ profs[p].name = name
    BY CellsOk DEF ProfileFor, Prefer, Named, Types
<1> QED
    BY <1>2, <1>3

LEMMA TogetherBound ==
    ASSUME NEW k \in ConnCells, NEW p \in ProfCells \cup {NULL}, NEW name,
           name \in {conns[k].name, conns[k].ssid},
           p \in ProfCells => profs[p].name = conns[k].profile
    PROVE  /\ Together([conn |-> k, prof |-> p, connName |-> name])
           /\ Together([conn |-> k, prof |-> NULL, connName |-> name])
BY ConfigAssumption DEF Together, NULL, FREED

LEMMA CandidateFor ==
    ASSUME StoreOk, NEW name, NEW kp \in Candidates(name)
    PROVE  /\ kp[1] \in ConnCells /\ kp[2] \in ProfCells \cup {NULL}
           /\ name \in {conns[kp[1]].name, conns[kp[1]].ssid}
           /\ kp[2] \in ProfCells => profs[kp[2]].name = conns[kp[1]].profile
<1>1. /\ kp[1] \in ConnectionFor(name) /\ kp[2] \in ProfCells \cup {NULL}
      /\ kp[2] \in OrNull(ProfileFor(conns[kp[1]].profile))
    BY DEF Candidates
<1>2. kp[2] \in ProfileFor(conns[kp[1]].profile) \/ kp[2] = NULL
    BY <1>1 DEF OrNull
<1> QED
    BY <1>1, <1>2, FoundFor, ConfigAssumption

\* A context without a connection is bound to nothing.
LEMMA TogetherFree ==
    ASSUME NEW r, r.conn = NULL
    PROVE  Together(r)
BY ConfigAssumption DEF Together

LEMMA LinkedChangeConnection ==
    ASSUME Invariant, Linked, Checks, NEW i \in Interfaces, NEW name,
           NEW found \in InCache, ChangeConnection(i, name, found)
    PROVE  Linked'
<1>1. CASE UNCHANGED <<store, ctx>>
    BY <1>1, LinkedStopped
<1>2. CASE /\ \E kp \in Candidates(name) :
                 ctx' = [ctx EXCEPT ![i] =
                            BoundBy(i, name, kp[1], kp[2], found)]
           /\ UNCHANGED store
    <2>1. PICK kp \in Candidates(name) :
             ctx' = [ctx EXCEPT ![i] = BoundBy(i, name, kp[1], kp[2], found)]
        BY <1>2
    <2> DEFINE k == kp[1]
               p == kp[2]
               r == BoundBy(i, name, k, p, found)
    <2>2. /\ k \in ConnCells /\ p \in ProfCells \cup {NULL}
          /\ name \in {conns[k].name, conns[k].ssid}
          /\ p \in ProfCells => profs[p].name = conns[k].profile
        BY CandidateFor DEF Invariant
    <2> HIDE DEF k, p
    <2>3. found = TRUE
        BY DEF Checks
    <2>4. r \in {[conn |-> k, prof |-> p, connName |-> name],
                 [conn |-> k, prof |-> NULL, connName |-> name]}
        BY <2>3 DEF BoundBy
    <2>5. Together(r)
        BY <2>2, <2>4, TogetherBound
    <2>6. ctx' = [ctx EXCEPT ![i] = r]
        BY <2>1 DEF k, p
    <2> HIDE DEF r
    <2> QED
        BY <1>2, <2>5, <2>6, LinkedBind
<1>3. CASE ctx' = [ctx EXCEPT ![i].connName = NULL] /\ UNCHANGED store
    <2> DEFINE r == [ctx[i] EXCEPT !.connName = NULL]
    <2>1. ctx' = [ctx EXCEPT ![i] = r]
        BY <1>3
    <2>2. ctx[i] \in Contexts /\ Together(ctx[i])
        BY DEF Invariant, BoundOk, Linked, AllTogether
    <2>3. /\ r.conn = ctx[i].conn /\ r.prof = ctx[i].prof
          /\ r.connName = NULL
        BY <2>2 DEF Contexts
    <2> HIDE DEF r
    <2>4. Together(r)
        BY <2>2, <2>3 DEF Together
    <2> QED
        BY <1>3, <2>1, <2>4, LinkedBind
<1> QED
    BY <1>1, <1>2, <1>3 DEF ChangeConnection, Follow

LEMMA LinkedRequestLogoff ==
    ASSUME Invariant, Linked, NEW i \in Interfaces, RequestLogoff(i)
    PROVE  Linked'
<1> DEFINE r == [ctx[i] EXCEPT !.conn = NULL, !.connName = NULL]
<1>1. ctx' = [ctx EXCEPT ![i] = r] /\ UNCHANGED store
    BY DEF RequestLogoff, Follow, Invariant, BoundOk
<1>2. r.conn = NULL
    BY DEF Invariant, BoundOk, Contexts
<1> HIDE DEF r
<1> QED
    BY <1>1, <1>2, TogetherFree, LinkedBind

LEMMA LinkedRelease ==
    ASSUME Invariant, Linked, NEW i \in Interfaces, Release(i)
    PROVE  Linked'
<1>1. CASE UNCHANGED <<store, ctx>>
    BY <1>1, LinkedStopped
<1>2. CASE ctx' = [ctx EXCEPT ![i] = Unbound] /\ UNCHANGED store
    <2>1. Unbound.conn = NULL
        BY DEF Unbound
    <2> QED
        BY <1>2, <2>1, TogetherFree, LinkedBind
<1> QED
    BY <1>1, <1>2 DEF Release, Follow

LEMMA LinkedSetInterface ==
    ASSUME Invariant, Linked, NEW i \in Interfaces, NEW managed,
           SetInterface(i, managed)
    PROVE  Linked'
<1> DEFINE usable == IF i \in Wireless \/ ~managed THEN {}
                     ELSE Prefer(Defaults("GLOBAL"), Defaults("USER"))
           profsOf(k) == Prefer(Named(profs, "USER", conns[k].profile),
                                Named(profs, "GLOBAL", conns[k].profile))
<1>1. /\ UNCHANGED store
      /\ \/ \E k \in usable : \E p \in profsOf(k) :
               ctx' = [ctx EXCEPT ![i] =
                          [conn |-> k, prof |-> p, connName |-> conns[k].name]]
         \/ ctx' = [ctx EXCEPT ![i].conn = NULL, ![i].prof = NULL]
    BY DEF SetInterface, Follow
<1>2. ASSUME NEW k \in usable, NEW p \in profsOf(k),
             ctx' = [ctx EXCEPT ![i] =
                        [conn |-> k, prof |-> p, connName |-> conns[k].name]]
      PROVE  Linked'
    <2>1. \E t \in Types : k \in Cells(conns, t)
        BY DEF Prefer, Defaults, Types
    <2>2. k \in ConnCells
        BY <2>1, CellsOk DEF Invariant
    <2>3. \E t \in Types : p \in Named(profs, t, conns[k].profile)
        BY DEF Prefer, Types
    <2>4. p \in ProfCells /\ profs[p].name = conns[k].profile
        BY <2>3, NamedOk DEF Invariant
    <2> DEFINE r == [conn |-> k, prof |-> p, connName |-> conns[k].name]
    <2>5. Together(r)
        BY <2>2, <2>4, TogetherBound
    <2>6. ctx' = [ctx EXCEPT ![i] = r]
        BY <1>2
    <2> HIDE DEF r, usable, profsOf
    <2> QED
        BY <1>1, <2>5, <2>6, LinkedBind
<1>3. CASE ctx' = [ctx EXCEPT ![i].conn = NULL, ![i].prof = NULL]
    <2> DEFINE r == [ctx[i] EXCEPT !.conn = NULL, !.prof = NULL]
    <2>1. ctx' = [ctx EXCEPT ![i] = r]
        BY <1>3 DEF Invariant, BoundOk
    <2>2. r.conn = NULL
        BY DEF Invariant, BoundOk, Contexts
    <2> HIDE DEF r, usable, profsOf
    <2> QED
        BY <1>1, <2>1, <2>2, TogetherFree, LinkedBind
<1> HIDE DEF usable, profsOf
<1> QED
    BY <1>1, <1>2, <1>3

LEMMA LinkedBuildForSsid ==
    ASSUME Invariant, Linked, NEW i \in Interfaces, NEW ssid,
           BuildForSsid(i, ssid)
    PROVE  Linked'
<1>1. /\ UNCHANGED store
      /\ \/ \E kp \in Candidates(ssid) :
               ctx' = [ctx EXCEPT ![i] =
                  [conn |-> kp[1], prof |-> kp[2], connName |-> ssid]]
         \/ ctx' = [ctx EXCEPT ![i] = Unbound]
    BY DEF BuildForSsid, Follow
<1>2. ASSUME NEW kp \in Candidates(ssid),
             ctx' = [ctx EXCEPT ![i] =
                [conn |-> kp[1], prof |-> kp[2], connName |-> ssid]]
      PROVE  Linked'
    <2> DEFINE r == [conn |-> kp[1], prof |-> kp[2], connName |-> ssid]
    <2>1. Together(r)
        BY CandidateFor, TogetherBound DEF Invariant
    <2>2. ctx' = [ctx EXCEPT ![i] = r]
        BY <1>2
    <2> HIDE DEF r
    <2> QED
        BY <1>1, <2>1, <2>2, LinkedBind
<1>3. CASE ctx' = [ctx EXCEPT ![i] = Unbound]
    <2>1. Unbound.conn = NULL
        BY DEF Unbound
    <2> QED
        BY <1>1, <1>3, <2>1, TogetherFree, LinkedBind
<1> QED
    BY <1>1, <1>2, <1>3

\* The objects of the system refer to objects of the system.
LEMMA LinkedReload ==
    ASSUME Invariant, ReloadConfiguration
    PROVE  Linked'
<1> DEFINE cmem == OnDisk.conns
           pmem == OnDisk.profs
           smem == OnDisk.servers
<1>1. /\ conns' = Loaded(cmem) /\ profs' = Loaded(pmem)
      /\ servers' = Loaded(smem)
      /\ ctx' = [i \in Interfaces |->
                   [ctx[i] EXCEPT !.conn = Lost(@), !.prof = Lost(@)]]
    BY DEF ReloadConfiguration, Follow
<1>2. /\ cmem \in [ConnCells -> Connections \cup {Free}]
      /\ pmem \in [ProfCells -> Profiles \cup {Free}]
      /\ smem \in [ServerCells -> Servers \cup {Free}]
      /\ Consistent(cmem, pmem, smem)
    BY ConfigAssumption
<1> HIDE DEF cmem, pmem, smem
<1>3. ASSUME NEW mem, NEW name, Named(mem, "GLOBAL", name) # {}
      PROVE  Named(Loaded(mem), "GLOBAL", name) # {}
    <2>1. PICK k \in Named(mem, "GLOBAL", name) : TRUE
        BY <1>3
    <2>2. k \in DOMAIN mem /\ mem[k].type = "GLOBAL" /\ mem[k].name = name
        BY DEF Named, Cells
    <2>3. Loaded(mem)[k] = mem[k] /\ DOMAIN Loaded(mem) = DOMAIN mem
        BY <2>2 DEF Loaded
    <2> QED
        BY <2>2, <2>3 DEF Named, Cells
<1>4. UniqueNames(Loaded(pmem))
    BY <1>2 DEF Consistent, UniqueNames, Loaded
<1>5. ASSUME NEW k \in ConnCells, Loaded(cmem)[k] # Free
      PROVE  Offers(Loaded(pmem), Loaded(cmem)[k].type,
                    Loaded(cmem)[k].profile)
    <2>1. /\ Loaded(cmem)[k] = cmem[k] /\ cmem[k].type = "GLOBAL"
          /\ cmem[k] # Free /\ k \in DOMAIN cmem
        BY <1>2, <1>5 DEF Loaded
    <2>2. Offers(pmem, "GLOBAL", cmem[k].profile)
        BY <1>2, <2>1 DEF Consistent
    <2>3. \/ cmem[k].profile = NULL
          \/ Named(pmem, "GLOBAL", cmem[k].profile) # {}
        BY <2>2 DEF Offers
    <2> QED
        BY <1>3, <2>1, <2>3 DEF Offers
<1>6. ASSUME NEW k \in ProfCells, Loaded(pmem)[k] # Free
      PROVE  Offers(Loaded(smem), Loaded(pmem)[k].type,
                    TsName(Loaded(pmem)[k]))
    <2>1. /\ Loaded(pmem)[k] = pmem[k] /\ pmem[k].type = "GLOBAL"
          /\ pmem[k] # Free /\ k \in DOMAIN pmem
        BY <1>2, <1>6 DEF Loaded
    <2>2. Offers(smem, "GLOBAL", TsName(pmem[k]))
        BY <1>2, <2>1 DEF Consistent
    <2>3. \/ TsName(pmem[k]) = NULL
          \/ Named(smem, "GLOBAL", TsName(pmem[k])) # {}
        BY <2>2 DEF Offers
    <2> QED
        BY <1>3, <2>1, <2>3 DEF Offers
<1>7. ASSUME NEW i \in Interfaces
      PROVE  Together(ctx[i])'
    <2> DEFINE conn == Lost(ctx[i].conn)
               prof == Lost(ctx[i].prof)
    <2>1. ctx[i] \in Contexts
        BY DEF Invariant, BoundOk
    <2>2. conn \in {NULL, FREED}
        BY DEF Lost
    <2>3. ctx'[i] = [ctx[i] EXCEPT !.conn = conn, !.prof = prof]
        BY <1>1, <2>1 DEF Contexts
    <2> HIDE DEF conn, prof
    <2>4. ctx'[i].conn = conn
        BY <2>1, <2>3 DEF Contexts
    <2> QED
        BY <2>2, <2>4, ConfigAssumption DEF Together
<1>8. ProfilesOffered' /\ ServersOffered'
    BY <1>1, <1>5, <1>6 DEF ProfilesOffered, ServersOffered
<1> QED
    BY <1>1, <1>4, <1>7, <1>8 DEF Linked, AllTogether

(***************************************************************************)
(* The theorems about a user interface that checks.                        *)
(***************************************************************************)
LEMMA LinkedInit == Init => Linked
<1> SUFFICES ASSUME Init PROVE Linked
    OBVIOUS
<1>1. /\ conns = OnDisk.conns /\ profs = OnDisk.profs
      /\ servers = OnDisk.servers
      /\ conns \in [ConnCells -> Connections \cup {Free}]
      /\ profs \in [ProfCells -> Profiles \cup {Free}]
      /\ Consistent(conns, profs, servers)
    BY ConfigAssumption DEF Init
<1>2. UniqueNames(profs) /\ ProfilesOffered /\ ServersOffered
    BY <1>1 DEF Consistent, ProfilesOffered, ServersOffered
<1>3. \A i \in Interfaces : ctx[i] = Unbound /\ Unbound.conn = NULL
    BY DEF Init, Unbound
<1> QED
    BY <1>2, <1>3, TogetherFree DEF Linked, AllTogether

LEMMA LinkedStep ==
    ASSUME Checks, Invariant, Invariant', Linked, [Next]_vars
    PROVE  Linked'
<1>1. CASE Deletes
    BY <1>1, LinkedDeleteConnection, LinkedDeleteProfile, LinkedDeleteServer
    DEF Deletes
<1>2. CASE Sets
    <2>1. NewConns \subseteq Connections /\ NewProfs \subseteq Profiles
        BY ConfigAssumption
    <2> QED
        BY <1>2, <2>1, LinkedSetConnection, LinkedSetProfile, LinkedSetServer
        DEF Sets
<1>3. CASE Renames
    BY <1>3, LinkedRenameConnection, LinkedRenameProfile, LinkedRenameServer
    DEF Renames
<1>4. CASE Passwords
    BY <1>4, LinkedSetConnectionUPW, LinkedSetConnectionPW DEF Passwords
<1>5. CASE Binds
    BY <1>5, LinkedChangeConnection, LinkedRequestLogoff, LinkedRelease,
       LinkedSetInterface, LinkedBuildForSsid
    DEF Binds, DisconnectConnection, UnbindConnection
<1>6. CASE ReloadConfiguration
    BY <1>6, LinkedReload
<1>7. CASE UNCHANGED vars
    BY <1>7, LinkedStopped DEF vars, store
<1> QED
    BY <1>1, <1>2, <1>3, <1>4, <1>5, <1>6, <1>7 DEF Next

\* With a user interface that checks what it asks for, Linked is an inductive
\* invariant, relative to the invariant of any user interface.
THEOREM LinkedInductive ==
    ASSUME Checks
    PROVE  Spec => []Linked
<1>1. Invariant /\ Invariant' /\ Linked /\ [Next]_vars => Linked'
    BY LinkedStep
<1> QED
    BY <1>1, LinkedInit, ConfigInductive, PTL DEF Spec

\* No connection is left with a profile that is gone, nor a profile with a
\* trusted server that is gone, whatever is set, deleted, renamed and
\* reloaded while interfaces use it (ipc_callout.c:4759, :4906, :7137, :7313).
THEOREM ReferencesResolveTheorem ==
    ASSUME Checks
    PROVE  Spec => []ReferencesResolve
<1>1. Invariant /\ Linked => ReferencesResolve
    <2> SUFFICES ASSUME Invariant, Linked PROVE ReferencesResolve
        OBVIOUS
    <2>1. ASSUME NEW t \in Types, NEW k \in Cells(conns, t)
          PROVE  conns[k].profile = NULL \/ NameUsed(profs, conns[k].profile)
        <3>1. k \in ConnCells /\ conns[k] # Free
            BY CellsOk, Objects DEF Invariant
        <3> QED
            BY <3>1 DEF Linked, ProfilesOffered, Offers, NameUsed, Types
    <2>2. ASSUME NEW t \in Types, NEW k \in Cells(profs, t)
          PROVE  TsName(profs[k]) = NULL \/ NameUsed(servers, TsName(profs[k]))
        <3>1. k \in ProfCells /\ profs[k] # Free
            BY CellsOk, Objects DEF Invariant
        <3> QED
            BY <3>1 DEF Linked, ServersOffered, Offers, NameUsed, Types
    <2> QED
        BY <2>1, <2>2 DEF ReferencesResolve
<1> QED
    BY <1>1, ConfigInductive, LinkedInductive, PTL

\* An interface that has a connection uses the profile of that connection and
\* goes by its name or network, whatever the user interface renames, replaces
\* or deletes behind its back (ipc_callout.c:7040, :7137).
THEOREM BoundTogetherTheorem ==
    ASSUME Checks
    PROVE  Spec => []BoundTogether
<1>1. Linked => BoundTogether
    BY DEF Linked, AllTogether, Together, BoundTogether
<1> QED
    BY <1>1, LinkedInductive, PTL
=============================================================================
