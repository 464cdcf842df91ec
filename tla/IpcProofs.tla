----------------------------- MODULE IpcProofs -----------------------------
(***************************************************************************)
(* Proofs about the event loop and its connections, for every size of the  *)
(* table, number of instances, interfaces, clients and requests.           *)
(***************************************************************************)
EXTENDS IpcProperties, FiniteSetTheorems, SequenceTheorems, TLAPS

(***************************************************************************)
(* Sets of numbers, the table and descriptors.                             *)
(***************************************************************************)

\* A set of numbers that is not empty has a least one: the smallest of its
\* initial pieces is a singleton.
LEMMA LeastOne ==
    ASSUME NEW S \in SUBSET Nat, S # {}
    PROVE  /\ Min(S) \in S
           /\ \A x \in S : Min(S) <= x
<1> DEFINE R == OpToRel(<, Nat)
<1>1. IsWellFoundedOn(R, Nat)
    BY NatLessThanWellFounded
<1>2. \A x, y \in Nat : x < y => <<x, y>> \in R
    BY DEF OpToRel
<1> HIDE DEF R
<1>3. PICK m \in S : \A y \in S : ~ (<<y, m>> \in R)
    BY <1>1, WFMin
<1>4. ASSUME NEW y \in S PROVE m <= y
    <2>1. m \in Nat /\ y \in Nat
        OBVIOUS
    <2>2. ~ (y < m)
        BY <1>2, <1>3, <2>1
    <2> QED
        BY <2>1, <2>2
<1> QED
    BY <1>4 DEF Min

\* A bounded one has a greatest.
LEMMA GreatestOne ==
    ASSUME NEW n \in Nat, NEW S \in SUBSET (0 .. n), S # {}
    PROVE  /\ Max(S) \in S
           /\ \A x \in S : x <= Max(S)
<1> DEFINE T == {n - x : x \in S}
<1>1. T \in SUBSET Nat /\ T # {}
    <2>1. \A x \in S : n - x \in Nat
        OBVIOUS
    <2> QED
        BY <2>1
<1>2. Min(T) \in T /\ \A y \in T : Min(T) <= y
    BY <1>1, LeastOne
<1>3. PICK m \in S : Min(T) = n - m
    BY <1>2
<1>4. ASSUME NEW x \in S PROVE m >= x
    <2>1. n - m <= n - x
        BY <1>2, <1>3
    <2> QED
        BY <2>1
<1> QED
    BY <1>4 DEF Max

(***************************************************************************)
(* The invariant.  First the types, those of the clients' ends included.   *)
(***************************************************************************)
ClientEnds == {"out", "open", "shut", "hung", "refused"}

ClientTypes ==
    [end : ClientEnds, requests : Seq(Nat), answers : Seq(Nat),
     waiting : Nat, asked : Nat, late : Nat]

Types ==
    /\ TypeOK
    /\ backlog \in [Listeners -> Seq(Clients)]
    /\ links \in Seq([type : {"new", "del"}, iface : Interfaces])
    /\ sigpipe \in {"kills", "ignored"}
    /\ ui \in [Clients -> ClientTypes]

(***************************************************************************)
(* Descriptors and the table.  Only an interface that found no slot has a  *)
(* descriptor that nobody watches, and keeps it for ever; there is no      *)
(* descriptor above the size of the table and their number.                *)
(***************************************************************************)
Open == {f \in Fds : file[f] # "none"}

Unwatched == Open \ Sockets

FilesOnce ==
    /\ \A f, g \in Open : file[f] = file[g] => f = g
    /\ \A f \in Open : file[f] \in Interfaces => file[f] \in listed

TableMatches ==
    /\ \A s \in Slots : IF s \in InUse
                        THEN /\ events[s].sock \in Open
                             /\ file[events[s].sock] = events[s].source
                        ELSE events[s] = Unused
    /\ \A s, t \in InUse : events[s].sock = events[t].sock => s = t
    /\ \A s \in InUse : events[s].source = "rtnl" => s = 0

UnwatchedAreLow ==
    /\ \A f \in Unwatched : file[f] \in Interfaces
    /\ \A f \in Open : f <= MaxEvents + Cardinality(Unwatched)

(***************************************************************************)
(* Instances.  A connection that is watched has one; a leaked one keeps a  *)
(* descriptor that no client gets, because it is too high or because an    *)
(* interface without a slot has it.                                        *)
(***************************************************************************)
IsClient(f) == f \in Open /\ file[f] \in Clients

InstancesMatch ==
    /\ \A i \in FreeInstances : ipcs[i] = NoConnection
    /\ \A f \in Open : file[f] \in Clients =>
          \E i \in Instances :
              ipcs[i] = [sock |-> f, flags |-> FlagsOf(KindOf[file[f]])]
    /\ \A i, j \in Instances :
          ipcs[i].sock = ipcs[j].sock /\ IsClient(ipcs[i].sock) => i = j

LeakedAreHigh ==
    \A i \in Instances \ FreeInstances :
        \/ IsClient(ipcs[i].sock)
        \/ ipcs[i].sock \in Unwatched
        \/ ipcs[i].sock > MaxEvents + Cardinality(Unwatched)

(***************************************************************************)
(* Clients.                                                                *)
(***************************************************************************)
InBacklog(c) == \E l \in Listeners : \E k \in DOMAIN backlog[l] :
                    backlog[l][k] = c

\* A connection is waiting, accepted, or neither, and has an answer only
\* after it was accepted.
PlacesOk ==
    /\ \A l \in Listeners : \A k \in DOMAIN backlog[l] :
          LET c == backlog[l][k]
          IN  /\ KindOf[c] = l
              /\ ui[c].end \in {"open", "hung"} /\ ui[c].answers = <<>>
              /\ \A f \in Open : file[f] # c
              /\ \A j \in DOMAIN backlog[l] : backlog[l][j] = c => j = k
    /\ \A f \in Open : file[f] \in Clients =>
          ui[file[f]].end \in {"open", "hung"}

\* These numbers are in order, are of requests that were made, and from each
\* of them to the last request there are at most so many.
Numbered(s, asked, most) ==
    \A k \in 1 .. Len(s) : /\ asked + k <= s[k] + most
                           /\ s[k] + Len(s) <= asked + k

\* What the library has given up, and what it waits for.
Outstanding(u) == u.late + (IF u.waiting = 0 THEN 0 ELSE 1)

\* The answers and requests on their way are in their order.  Reads that join
\* several of them leave gaps, but what is left is of the last requests, no
\* more than are outstanding.
ClientOk(u) ==
    /\ u.end = "out" => u.requests = <<>> /\ u.waiting = 0
    /\ u.end \in {"open", "shut"} =>
          /\ Numbered(u.answers \o u.requests, u.asked, Outstanding(u))
          /\ u.waiting \in {0, u.asked}
    /\ u.end = "shut" => u.requests = <<>>
    /\ u.end \in {"out", "hung", "refused"} => u.answers = <<>>

StreamOk == \A c \in Clients : ClientOk(ui[c])

\* EPIPE comes from an accepted client that has hung up.
CauseOk ==
    epipe \/ (\E c \in Clients : ui[c].end = "shut")
        => \E c \in HungUp : ~ InBacklog(c)

(***************************************************************************)
(* The walk.  What select() found in a slot ahead can still be read, except *)
(* on a connection that was accepted in a slot below.                      *)
(***************************************************************************)
StillDue(s) ==
    \/ Readable(events[s].sock)
    \/ /\ events[s].source \in Clients
       /\ \E t \in InUse :
             events[t].source = KindOf[events[s].source] /\ t < s

WalkOk ==
    phase = "walk" =>
        /\ events[at].sock \in rfds
        /\ \A s \in Slots : s >= at /\ events[s].sock \in rfds => StillDue(s)
        /\ at = 0 => rfds \subseteq Open

(***************************************************************************)
(* Counting.  Slots and descriptors are finite sets of numbers, and there  *)
(* are enough descriptors for everything that can be open.                 *)
(***************************************************************************)
LEMMA Numbers ==
    /\ MaxEvents \in Nat \ {0}
    /\ Slots \in SUBSET Nat /\ 0 \in Slots
    /\ IsFiniteSet(Slots) /\ Cardinality(Slots) = MaxEvents
    /\ Fds \in SUBSET (Nat \ {0})
    /\ IsFiniteSet(Fds)
    /\ Len(Ifaces) \in Nat /\ Cardinality(Clients) \in Nat
    /\ Cardinality(Fds) = 3 + Len(Ifaces) + Cardinality(Clients)
    /\ Cardinality(Instances) \in Nat
    /\ Instances \in SUBSET (Nat \ {0})
    /\ Instances \in SUBSET (0 .. Cardinality(Instances))
<1>1. MaxEvents \in Nat \ {0}
    BY EventAssumption
<1>2. Slots \in SUBSET Nat /\ 0 \in Slots
    BY <1>1 DEF Slots
<1>3. IsFiniteSet(Slots) /\ Cardinality(Slots) = MaxEvents
    BY <1>1, FS_Interval DEF Slots
<1>4. /\ Len(Ifaces) \in Nat /\ Cardinality(Clients) \in Nat
      /\ Cardinality(Instances) \in Nat
    BY IpcAssumption, FS_CardinalityType
<1>5. Fds = 1 .. (3 + Len(Ifaces) + Cardinality(Clients))
    BY IpcAssumption
<1>6. IsFiniteSet(Fds)
      /\ Cardinality(Fds) = 3 + Len(Ifaces) + Cardinality(Clients)
    BY <1>4, <1>5, FS_Interval
<1>7. Instances = 1 .. Cardinality(Instances)
    BY IpcAssumption
<1> QED
    BY <1>1, <1>2, <1>3, <1>4, <1>5, <1>6, <1>7

LEMMA OneMore ==
    ASSUME NEW S, NEW x, IsFiniteSet(S)
    PROVE  /\ IsFiniteSet(S \cup {x})
           /\ Cardinality(S \cup {x}) <= Cardinality(S) + 1
<1> DEFINE n == Cardinality(S)
           m == Cardinality(S \cup {x})
<1>1. n \in Nat
    BY FS_CardinalityType
<1>2. IsFiniteSet(S \cup {x}) /\ m = IF x \in S THEN n ELSE n + 1
    BY FS_AddElement
<1> HIDE DEF n, m
<1>3. m <= n + 1
    BY <1>1, <1>2
<1> QED
    BY <1>2, <1>3 DEF m, n

LEMMA SourcesAreFew ==
    IsFiniteSet(Sources) /\ Cardinality(Sources) <= Cardinality(Fds)
<1>1. IsFiniteSet(Interfaces) /\ Cardinality(Interfaces) <= Len(Ifaces)
    <2>1. Ifaces \in Surjection(1 .. Len(Ifaces), Interfaces)
        BY IpcAssumption DEF Interfaces, Surjection
    <2>2. IsFiniteSet(1 .. Len(Ifaces))
          /\ Cardinality(1 .. Len(Ifaces)) = Len(Ifaces)
        <3>1. 1 \in Int /\ Len(Ifaces) \in Int
            BY Numbers
        <3>2. /\ IsFiniteSet(1 .. Len(Ifaces))
              /\ Cardinality(1 .. Len(Ifaces)) =
                     IF 1 > Len(Ifaces) THEN 0 ELSE Len(Ifaces) - 1 + 1
            BY <3>1, FS_Interval
        <3> QED
            BY <3>2, Numbers
    <2> QED
        BY <2>1, <2>2, FS_Surjection
<1>2. IsFiniteSet(Interfaces \cup Clients)
      /\ Cardinality(Interfaces \cup Clients)
             <= Len(Ifaces) + Cardinality(Clients)
    <2>1. Cardinality(Interfaces \cap Clients) \in Nat
          /\ Cardinality(Interfaces) \in Nat
        BY <1>1, FS_Intersection, FS_CardinalityType
    <2>2. IsFiniteSet(Interfaces \cup Clients)
          /\ Cardinality(Interfaces \cup Clients) =
                 Cardinality(Interfaces) + Cardinality(Clients)
                 - Cardinality(Interfaces \cap Clients)
        BY <1>1, IpcAssumption, FS_Union
    <2> QED
        BY <1>1, <2>1, <2>2, Numbers
<1> DEFINE A == (Interfaces \cup Clients) \cup {"rtnl"}
           B == A \cup {"event"}
<1>3. IsFiniteSet(A)
      /\ Cardinality(A) <= Cardinality(Interfaces \cup Clients) + 1
    BY <1>2, OneMore
<1>4. IsFiniteSet(B) /\ Cardinality(B) <= Cardinality(A) + 1
    <2> HIDE DEF A
    <2> QED
        BY <1>3, OneMore
<1>5. IsFiniteSet(B \cup {"control"})
      /\ Cardinality(B \cup {"control"}) <= Cardinality(B) + 1
    <2> HIDE DEF B
    <2> QED
        BY <1>4, OneMore
<1>6. Sources = B \cup {"control"}
    BY DEF Sources, Listeners
<1>7. /\ Cardinality(A) \in Nat /\ Cardinality(B) \in Nat
      /\ Cardinality(B \cup {"control"}) \in Nat
      /\ Cardinality(Interfaces \cup Clients) \in Nat
    BY <1>2, <1>3, <1>4, <1>5, FS_CardinalityType
<1> HIDE DEF A, B
<1> QED
    BY <1>2, <1>3, <1>4, <1>5, <1>6, <1>7, Numbers

\* Watched descriptors are open ones, one for each slot in use.
LEMMA Counting ==
    ASSUME TypeOK, TableMatches
    PROVE  /\ IsFiniteSet(Open) /\ IsFiniteSet(Unwatched)
           /\ Cardinality(Unwatched) \in Nat
           /\ Cardinality(Open) \in Nat
           /\ Cardinality(Open) = Cardinality(InUse) + Cardinality(Unwatched)
           /\ InUse = Slots \ FreeSlots(events)
           /\ Cardinality(InUse) \in Nat
           /\ FreeSlots(events) = {} => Cardinality(InUse) = MaxEvents
           /\ FreeSlots(events) # {} => Cardinality(InUse) < MaxEvents
<1>1. IsFiniteSet(Open)
    BY Numbers, FS_Subset DEF Open
<1>2. Sockets \subseteq Open
    BY DEF TableMatches, Sockets, InUse
<1>3. IsFiniteSet(InUse)
    BY Numbers, FS_Subset DEF InUse
<1>4. IsFiniteSet(Sockets) /\ Cardinality(Sockets) = Cardinality(InUse)
    <2> DEFINE b == [s \in InUse |-> events[s].sock]
    <2>1. b \in Bijection(InUse, Sockets)
        <3>1. b \in [InUse -> Sockets]
            BY DEF Sockets, InUse
        <3>2. IsInjective(b)
            BY DEF IsInjective, TableMatches
        <3>3. \A f \in Sockets : \E s \in InUse : b[s] = f
            BY DEF Sockets, InUse
        <3> QED
            BY <3>1, <3>2, <3>3 DEF Bijection, Injection, Surjection
    <2>2. ExistsBijection(InUse, Sockets)
        BY <2>1 DEF ExistsBijection
    <2> QED
        BY <1>3, <2>2, FS_Bijection
<1>5. /\ IsFiniteSet(Unwatched)
      /\ Cardinality(Unwatched)
             = Cardinality(Open) - Cardinality(Open \cap Sockets)
    <2>1. IsFiniteSet(Open \ Sockets)
        BY <1>1, FS_Subset
    <2> QED
        BY <1>1, <2>1, FS_Difference DEF Unwatched
<1>6. Open \cap Sockets = Sockets
    BY <1>2
<1>7. InUse = Slots \ FreeSlots(events)
    BY DEF InUse, FreeSlots
<1>8. FreeSlots(events) = {} => Cardinality(InUse) = MaxEvents
    BY <1>7, Numbers
<1>9. FreeSlots(events) # {} => Cardinality(InUse) < MaxEvents
    <2>1. InUse \in SUBSET Slots
        BY <1>7
    <2>2. /\ Cardinality(InUse) <= Cardinality(Slots)
          /\ Cardinality(Slots) = Cardinality(InUse) => Slots = InUse
        BY <2>1, Numbers, FS_Subset
    <2>3. FreeSlots(events) \subseteq Slots
        BY DEF FreeSlots
    <2>4. Cardinality(InUse) \in Nat
        BY <1>3, FS_CardinalityType
    <2> QED
        BY <1>7, <2>2, <2>3, <2>4, Numbers
<1>10. /\ Cardinality(Unwatched) \in Nat /\ Cardinality(Open) \in Nat
       /\ Cardinality(InUse) \in Nat
    BY <1>1, <1>3, <1>5, FS_CardinalityType
<1> QED
    <2>1. Cardinality(Open) = Cardinality(InUse) + Cardinality(Unwatched)
        BY <1>4, <1>5, <1>6, <1>10
    <2> QED
        BY <1>1, <1>5, <2>1, <1>7, <1>8, <1>9, <1>10

\* Something that is not open yet finds a descriptor, the next one when the
\* table is full.
LEMMA NewFdOk ==
    ASSUME TypeOK, FilesOnce, TableMatches, UnwatchedAreLow,
           NEW x \in Interfaces \cup Clients, \A f \in Open : file[f] # x
    PROVE  /\ NewFd \in Fds /\ NewFd \notin Open /\ file[NewFd] = "none"
           /\ FreeSlots(events) # {} =>
                 NewFd <= MaxEvents + Cardinality(Unwatched)
           /\ FreeSlots(events) = {} =>
                 NewFd = MaxEvents + Cardinality(Unwatched) + 1
<1> DEFINE Closed == {f \in Fds : file[f] = "none"}
<1>1. Cardinality(Open) < Cardinality(Fds)
    <2> DEFINE T == Sources \ {x}
               g == [f \in Open |-> file[f]]
    <2>1. x \in Sources
        BY DEF Sources
    <2>2. IsFiniteSet(T) /\ Cardinality(T) = Cardinality(Sources) - 1
        BY <2>1, SourcesAreFew, FS_RemoveElement
    <2>3. g \in Injection(Open, T)
        <3>1. g \in [Open -> T]
            BY DEF Open, TypeOK
        <3>2. IsInjective(g)
            BY DEF IsInjective, FilesOnce
        <3> QED
            BY <3>1, <3>2 DEF Injection
    <2>4. Cardinality(Open) <= Cardinality(T)
        <3> HIDE DEF g, T
        <3> QED
            BY <2>2, <2>3, FS_Injection
    <2>5. /\ Cardinality(T) \in Nat /\ Cardinality(Sources) \in Nat
          /\ Cardinality(Open) \in Nat /\ Cardinality(Fds) \in Nat
        BY <2>2, SourcesAreFew, Numbers, Counting, FS_CardinalityType
    <2> HIDE DEF T
    <2> QED
        BY <2>2, <2>4, <2>5, SourcesAreFew
<1>2. Closed # {}
    <2>1. SUFFICES ASSUME Closed = {} PROVE FALSE
        OBVIOUS
    <2>2. Open = Fds
        BY <2>1 DEF Open
    <2>3. Cardinality(Fds) \in Nat
        BY Numbers, FS_CardinalityType
    <2> QED
        BY <1>1, <2>2, <2>3
<1>3. /\ NewFd \in Closed
      /\ \A f \in Closed : NewFd <= f
    <2>1. Closed \in SUBSET Nat
        BY Numbers
    <2>2. NewFd = Min(Closed)
        BY DEF NewFd
    <2> HIDE DEF Closed
    <2> QED
        BY <1>2, <2>1, <2>2, LeastOne
<1>4. NewFd \in Fds /\ NewFd \notin Open /\ file[NewFd] = "none"
    BY <1>3 DEF Open
<1>5. NewFd \in Nat \ {0}
    BY <1>4, Numbers
<1>6. 1 .. (NewFd - 1) \in SUBSET Open
    <2>1. SUFFICES ASSUME NEW k \in 1 .. (NewFd - 1) PROVE k \in Open
        OBVIOUS
    <2>2. k \in Fds
        <3>1. Fds = 1 .. (3 + Len(Ifaces) + Cardinality(Clients))
            BY IpcAssumption
        <3> QED
            BY <1>4, <1>5, <3>1, Numbers
    <2>3. k \notin Closed
        <3>1. ~ (NewFd <= k)
            BY <1>5
        <3> QED
            BY <1>3, <3>1
    <2> QED
        BY <2>2, <2>3 DEF Open
<1>7. NewFd - 1 <= Cardinality(Open)
    <2>1. Cardinality(1 .. (NewFd - 1)) = NewFd - 1
        BY <1>5, FS_Interval
    <2>2. Cardinality(1 .. (NewFd - 1)) <= Cardinality(Open)
        BY <1>6, Counting, FS_Subset
    <2> QED
        BY <2>1, <2>2
<1>8. FreeSlots(events) # {} => NewFd <= MaxEvents + Cardinality(Unwatched)
    BY <1>5, <1>7, Counting, Numbers
<1>9. FreeSlots(events) = {} =>
          NewFd = MaxEvents + Cardinality(Unwatched) + 1
    <2> DEFINE n == MaxEvents + Cardinality(Unwatched)
    <2>1. SUFFICES ASSUME FreeSlots(events) = {} PROVE NewFd = n + 1
        OBVIOUS
    <2>2. n \in Nat /\ Cardinality(Open) = n
        BY <2>1, Counting, Numbers
    <2>3. Open \in SUBSET (1 .. n)
        BY <2>2, Numbers DEF UnwatchedAreLow, Open
    <2>4. Open = 1 .. n
        <3> HIDE DEF n
        <3>1. IsFiniteSet(1 .. n) /\ Cardinality(1 .. n) = n
            <4>1. 1 \in Int /\ n \in Int
                BY <2>2
            <4>2. /\ IsFiniteSet(1 .. n)
                  /\ Cardinality(1 .. n) = IF 1 > n THEN 0 ELSE n - 1 + 1
                BY <4>1, FS_Interval
            <4> QED
                BY <2>2, <4>2
        <3> QED
            BY <2>2, <2>3, <3>1, FS_Subset
    <2> HIDE DEF n
    <2> QED
        BY <1>4, <1>5, <1>7, <2>2, <2>4
<1> QED
    BY <1>4, <1>8, <1>9


(***************************************************************************)
(* The table.  A registration fills one free slot if there is one, and a   *)
(* deregistration clears the slots of the descriptor.                      *)
(***************************************************************************)
LEMMA Registering ==
    ASSUME TypeOK, NEW f, NEW x \in Interfaces \cup Clients
    PROVE  /\ FreeSlots(events) = {} => Registered(f, x) = events
           /\ FreeSlots(events) # {} =>
                 \E t \in FreeSlots(events) :
                     Registered(f, x) =
                         [events EXCEPT ![t] = [sock |-> f, source |-> x]]
<1>1. PriorityOf(x) = "LOW_PRIORITY"
    BY IpcAssumption DEF PriorityOf
<1>2. FreeSlots(events) \in SUBSET (0 .. (MaxEvents - 1))
      /\ MaxEvents - 1 \in Nat
    BY Numbers DEF FreeSlots, Slots
<1>3. FreeSlots(events) # {} => Max(FreeSlots(events)) \in FreeSlots(events)
    BY <1>2, GreatestOne
<1> QED
    BY <1>1, <1>3 DEF Registered, event_core_register

\* The last part of the invariant does not depend on what is open.
StructureOk ==
    /\ FilesOnce /\ TableMatches /\ UnwatchedAreLow
    /\ InstancesMatch /\ LeakedAreHigh

\* Nothing is opened or closed.
LEMMA StructureKept ==
    ASSUME StructureOk, UNCHANGED <<events, file, ipcs, listed>>
    PROVE  StructureOk'
BY DEF StructureOk, FilesOnce, TableMatches, UnwatchedAreLow, InstancesMatch,
       LeakedAreHigh, Open, Unwatched, Sockets, InUse, FreeInstances, IsClient

\* Something is opened and gets a slot.
LEMMA OpensWatched ==
    ASSUME TypeOK, StructureOk,
           NEW x \in Interfaces \cup Clients, \A f \in Open : file[f] # x,
           NEW t \in FreeSlots(events),
           events' = [events EXCEPT ![t] = [sock |-> NewFd, source |-> x]],
           file' = [file EXCEPT ![NewFd] = x],
           listed' = IF x \in Interfaces THEN listed \cup {x} ELSE listed,
           \/ x \in Interfaces /\ ipcs' = ipcs
           \/ x \in Clients /\ \E i \in FreeInstances :
                 ipcs' = [ipcs EXCEPT ![i] =
                             [sock |-> NewFd, flags |-> FlagsOf(KindOf[x])]]
    PROVE  StructureOk'
<1> USE DEF StructureOk
<1>1. /\ NewFd \in Fds /\ NewFd \notin Open /\ NewFd \in Nat \ {0}
      /\ NewFd <= MaxEvents + Cardinality(Unwatched)
    BY NewFdOk, Numbers
<1>2. t \in Slots /\ t \notin InUse
    BY DEF FreeSlots, InUse
<1>3. Open' = Open \cup {NewFd}
    BY <1>1, IpcAssumption DEF Open, TypeOK
<1>4. InUse' = InUse \cup {t}
    BY <1>1, <1>2 DEF InUse, TypeOK
<1>5. /\ events'[t] = [sock |-> NewFd, source |-> x]
      /\ \A s \in Slots \ {t} : events'[s] = events[s]
      /\ file'[NewFd] = x
      /\ \A f \in Fds \ {NewFd} : file'[f] = file[f]
    BY <1>1, <1>2 DEF TypeOK
<1>6. Sockets' = Sockets \cup {NewFd}
    <2>1. Sockets = {events[s].sock : s \in InUse}
        BY DEF Sockets, InUse
    <2>2. Sockets' = {events'[s].sock : s \in InUse'}
        BY DEF Sockets, InUse
    <2>3. \A s \in InUse : events'[s] = events[s]
        BY <1>2, <1>5 DEF InUse
    <2> QED
        BY <1>4, <1>5, <2>1, <2>2, <2>3
<1>7. Unwatched' = Unwatched
    BY <1>1, <1>3, <1>6 DEF Unwatched
<1>8. FilesOnce'
    BY <1>3, <1>5, <1>1, IpcAssumption DEF FilesOnce, Open
<1>9. TableMatches'
    <2>1. \A s \in InUse : events[s].sock # NewFd /\ events[s].sock \in Fds
        BY <1>1 DEF TableMatches, InUse, Open
    <2>2. x # "rtnl"
        BY IpcAssumption
    <2>3. \A s \in Slots : IF s \in InUse'
                           THEN /\ events'[s].sock \in Open'
                                /\ file'[events'[s].sock] = events'[s].source
                           ELSE events'[s] = Unused
        BY <1>2, <1>3, <1>4, <1>5, <2>1 DEF TableMatches, InUse
    <2>4. \A s, u \in InUse' : events'[s].sock = events'[u].sock => s = u
        BY <1>2, <1>4, <1>5, <2>1 DEF TableMatches, InUse
    <2>5. \A s \in InUse' : events'[s].source = "rtnl" => s = 0
        BY <1>2, <1>4, <1>5, <2>2 DEF TableMatches, InUse
    <2> QED
        BY <2>3, <2>4, <2>5 DEF TableMatches
<1>10. UnwatchedAreLow'
    BY <1>1, <1>3, <1>5, <1>7 DEF UnwatchedAreLow, Unwatched, Open
<1>11. \A i \in Instances : ipcs[i].sock # 0 => ipcs[i].sock \in Fds
    BY DEF TypeOK
<1>12. \A i \in Instances : ipcs[i].sock # NewFd
    <2>1. SUFFICES ASSUME NEW i \in Instances, ipcs[i].sock = NewFd
                   PROVE  FALSE
        OBVIOUS
    <2>2. i \in Instances \ FreeInstances
        BY <1>1, <2>1 DEF FreeInstances
    <2>3. ~ (NewFd > MaxEvents + Cardinality(Unwatched))
        BY <1>1, Counting, Numbers
    <2>4. ~ IsClient(NewFd) /\ NewFd \notin Unwatched
        BY <1>1 DEF IsClient, Unwatched
    <2> QED
        BY <2>1, <2>2, <2>3, <2>4 DEF LeakedAreHigh
<1> DEFINE ClientNext(f) == f \in Open' /\ file'[f] \in Clients
<1>13. \A f \in Fds : f # NewFd => (ClientNext(f) <=> IsClient(f))
    BY <1>3, <1>5 DEF IsClient
<1>14. CASE x \in Interfaces /\ ipcs' = ipcs
    <2>1. x \notin Clients
        BY <1>14, IpcAssumption
    <2>2. InstancesMatch'
        BY <1>3, <1>5, <1>12, <1>13, <1>11, <1>14, <2>1, Numbers
        DEF InstancesMatch, FreeInstances, IsClient, Open
    <2>3. LeakedAreHigh'
        BY <1>7, <1>12, <1>13, <1>11, <1>14
        DEF LeakedAreHigh, FreeInstances, IsClient
    <2> QED
        BY <1>8, <1>9, <1>10, <2>2, <2>3
<1>15. ASSUME x \in Clients, NEW i \in FreeInstances,
              ipcs' = [ipcs EXCEPT ![i] =
                          [sock |-> NewFd, flags |-> FlagsOf(KindOf[x])]]
       PROVE  StructureOk'
    <2>1. /\ i \in Instances /\ ipcs[i].sock = 0
          /\ ipcs'[i] = [sock |-> NewFd, flags |-> FlagsOf(KindOf[x])]
          /\ \A j \in Instances \ {i} : ipcs'[j] = ipcs[j]
        BY <1>15 DEF FreeInstances, TypeOK
    <2>2. FreeInstances' = FreeInstances \ {i}
        BY <1>1, <2>1 DEF FreeInstances
    <2>3. 0 \notin Open
        BY Numbers DEF Open
    <2>4. \A j \in FreeInstances' : ipcs'[j] = NoConnection
        BY <2>1, <2>2 DEF InstancesMatch, FreeInstances
    <2>5. \A f \in Open' : file'[f] \in Clients =>
              \E j \in Instances :
                  ipcs'[j] = [sock |-> f,
                              flags |-> FlagsOf(KindOf[file'[f]])]
        <3>1. SUFFICES ASSUME NEW f \in Open', file'[f] \in Clients
                       PROVE  \E j \in Instances :
                                  ipcs'[j] = [sock |-> f,
                                     flags |-> FlagsOf(KindOf[file'[f]])]
            OBVIOUS
        <3>2. CASE f = NewFd
            BY <1>5, <2>1, <3>2
        <3>3. CASE f # NewFd
            <4>1. f \in Open /\ file'[f] = file[f]
                BY <1>3, <1>5, <3>3 DEF Open
            <4>2. PICK j \in Instances :
                      ipcs[j] = [sock |-> f,
                                 flags |-> FlagsOf(KindOf[file[f]])]
                BY <3>1, <4>1 DEF InstancesMatch
            <4>3. j # i
                BY <2>1, <2>3, <4>1, <4>2
            <4> QED
                BY <2>1, <4>1, <4>2, <4>3
        <3> QED
            BY <3>2, <3>3
    <2>6. \A j, k \in Instances :
              ipcs'[j].sock = ipcs'[k].sock /\ ClientNext(ipcs'[j].sock)
                  => j = k
        <3>1. SUFFICES ASSUME NEW j \in Instances, NEW k \in Instances,
                              ipcs'[j].sock = ipcs'[k].sock,
                              ClientNext(ipcs'[j].sock)
                       PROVE  j = k
            OBVIOUS
        <3>2. CASE j = i \/ k = i
            BY <1>12, <2>1, <3>1, <3>2
        <3>3. CASE j # i /\ k # i
            <4>1. ipcs[j].sock \in Fds /\ ipcs[j].sock # NewFd
                BY <1>12, <2>1, <3>1, <3>3 DEF Open
            <4>2. IsClient(ipcs[j].sock)
                BY <1>13, <2>1, <3>1, <3>3, <4>1
            <4> QED
                BY <2>1, <3>1, <3>3, <4>2 DEF InstancesMatch
        <3> QED
            BY <3>2, <3>3
    <2>7. InstancesMatch'
        BY <2>4, <2>5, <2>6 DEF InstancesMatch, IsClient
    <2>8. LeakedAreHigh'
        <3>1. ClientNext(NewFd)
            BY <1>3, <1>5, <1>15
        <3>2. SUFFICES ASSUME NEW j \in Instances \ FreeInstances', j # i
                       PROVE  \/ ClientNext(ipcs'[j].sock)
                              \/ ipcs'[j].sock \in Unwatched'
                              \/ ipcs'[j].sock >
                                     MaxEvents + Cardinality(Unwatched')
            BY <2>1, <3>1 DEF LeakedAreHigh, IsClient
        <3>3. j \notin FreeInstances /\ ipcs'[j] = ipcs[j]
            BY <2>1, <2>2, <3>2
        <3> QED
            BY <1>7, <1>12, <1>13, <1>11, <3>3 DEF LeakedAreHigh, FreeInstances
    <2> QED
        BY <1>8, <1>9, <1>10, <2>7, <2>8
<1> QED
    BY <1>14, <1>15


\* An interface that finds no slot has a descriptor that nobody watches.
LEMMA OpensUnwatched ==
    ASSUME TypeOK, StructureOk, FreeSlots(events) = {},
           NEW x \in Interfaces, \A f \in Open : file[f] # x,
           events' = events, ipcs' = ipcs, listed' = listed \cup {x},
           file' = [file EXCEPT ![NewFd] = x]
    PROVE  StructureOk'
<1> USE DEF StructureOk
<1>1. /\ NewFd \in Fds /\ NewFd \notin Open /\ NewFd \in Nat \ {0}
      /\ NewFd = MaxEvents + Cardinality(Unwatched) + 1
    BY NewFdOk, Numbers
<1>2. Open' = Open \cup {NewFd}
    BY <1>1, IpcAssumption DEF Open, TypeOK
<1>3. /\ file'[NewFd] = x
      /\ \A f \in Fds \ {NewFd} : file'[f] = file[f]
    BY <1>1 DEF TypeOK
<1>4. /\ Sockets' = Sockets /\ InUse' = InUse
      /\ FreeInstances' = FreeInstances
    BY DEF Sockets, InUse, FreeInstances
<1>5. Sockets \subseteq Open
    BY DEF TableMatches, Sockets, InUse
<1>6. Unwatched' = Unwatched \cup {NewFd} /\ NewFd \notin Unwatched
    BY <1>1, <1>2, <1>4, <1>5 DEF Unwatched
<1>7. Cardinality(Unwatched)' = Cardinality(Unwatched) + 1
    BY <1>6, Counting, FS_AddElement
<1>8. Cardinality(Unwatched) \in Nat
    BY Counting
<1>9. \A f : (f \in Open' /\ file'[f] \in Clients) <=> IsClient(f)
    BY <1>1, <1>2, <1>3, IpcAssumption DEF IsClient, Open
<1>10. FilesOnce'
    BY <1>1, <1>2, <1>3 DEF FilesOnce, Open
<1>11. TableMatches'
    BY <1>1, <1>2, <1>3, <1>4 DEF TableMatches, Open
<1>12. UnwatchedAreLow'
    <2>1. \A f \in Unwatched' : file'[f] \in Interfaces
        BY <1>3, <1>6 DEF UnwatchedAreLow, Unwatched, Open
    <2>2. \A f \in Open' : f <= MaxEvents + Cardinality(Unwatched)'
        <3>1. \A f \in Open : f \in Nat
            BY Numbers DEF Open
        <3> QED
            BY <1>1, <1>2, <1>7, <1>8, <3>1, Numbers DEF UnwatchedAreLow
    <2> QED
        BY <2>1, <2>2 DEF UnwatchedAreLow
<1>13. InstancesMatch'
    <2>1. \A f \in Open' : file'[f] \in Clients =>
              f \in Open /\ file'[f] = file[f]
        BY <1>1, <1>2, <1>3, <1>9 DEF IsClient, Open
    <2>2. \A i \in Instances : IsClient(ipcs[i].sock)' =>
              IsClient(ipcs[i].sock)
        BY <1>9 DEF IsClient
    <2> QED
        BY <1>4, <2>1, <2>2 DEF InstancesMatch
<1>14. LeakedAreHigh'
    <2>1. SUFFICES ASSUME NEW i \in Instances \ FreeInstances
                   PROVE  \/ IsClient(ipcs[i].sock)
                          \/ ipcs[i].sock \in Unwatched'
                          \/ ipcs[i].sock >
                                 MaxEvents + Cardinality(Unwatched)'
        BY <1>4, <1>9 DEF LeakedAreHigh, IsClient
    <2>2. ipcs[i].sock \in Nat
        BY Numbers DEF TypeOK
    <2>3. ipcs[i].sock > MaxEvents + Cardinality(Unwatched)
              => \/ ipcs[i].sock = NewFd
                 \/ ipcs[i].sock > MaxEvents + Cardinality(Unwatched)'
        BY <1>1, <1>7, <1>8, <2>2, Numbers
    <2> QED
        BY <1>6, <2>3 DEF LeakedAreHigh
<1> QED
    BY <1>10, <1>11, <1>12, <1>13, <1>14

\* A client that finds no slot leaves its instance behind, with a descriptor
\* above those that are open.
LEMMA Leaking ==
    ASSUME TypeOK, StructureOk, FreeSlots(events) = {},
           NEW x \in Clients, \A f \in Open : file[f] # x,
           NEW i \in FreeInstances, NEW flags,
           UNCHANGED <<events, file, listed>>,
           ipcs' = [ipcs EXCEPT ![i] = [sock |-> NewFd, flags |-> flags]]
    PROVE  StructureOk'
<1> USE DEF StructureOk
<1>1. /\ NewFd \in Fds /\ NewFd \notin Open /\ NewFd \in Nat \ {0}
      /\ NewFd = MaxEvents + Cardinality(Unwatched) + 1
    BY NewFdOk, Numbers
<1>2. /\ Sockets' = Sockets /\ InUse' = InUse /\ Open' = Open
      /\ Unwatched' = Unwatched
    BY DEF Sockets, InUse, Open, Unwatched
<1>3. FilesOnce' /\ TableMatches' /\ UnwatchedAreLow'
    BY <1>2 DEF FilesOnce, TableMatches, UnwatchedAreLow
<1>4. /\ i \in Instances /\ ipcs[i].sock = 0
      /\ ipcs'[i] = [sock |-> NewFd, flags |-> flags]
      /\ \A j \in Instances \ {i} : ipcs'[j] = ipcs[j]
    BY DEF FreeInstances, TypeOK
<1>5. FreeInstances' = FreeInstances \ {i}
    BY <1>1, <1>4 DEF FreeInstances
<1>6. \A f : (f \in Open' /\ file'[f] \in Clients) <=> IsClient(f)
    BY <1>2 DEF IsClient
<1>7. ~ IsClient(NewFd) /\ ~ IsClient(0)
    BY <1>1, Numbers DEF IsClient, Open
<1>8. InstancesMatch'
    <2>1. \A j \in FreeInstances' : ipcs'[j] = NoConnection
        BY <1>4, <1>5 DEF InstancesMatch, FreeInstances
    <2>2. \A f \in Open' : file'[f] \in Clients =>
              \E j \in Instances :
                  ipcs'[j] = [sock |-> f,
                              flags |-> FlagsOf(KindOf[file'[f]])]
        <3>1. SUFFICES ASSUME NEW f \in Open', file'[f] \in Clients
                       PROVE  \E j \in Instances :
                                  ipcs'[j] = [sock |-> f,
                                     flags |-> FlagsOf(KindOf[file'[f]])]
            OBVIOUS
        <3>2. f \in Open /\ file'[f] = file[f] /\ f # 0
            BY <1>2, Numbers DEF Open
        <3>3. PICK j \in Instances :
                  ipcs[j] = [sock |-> f, flags |-> FlagsOf(KindOf[file[f]])]
            BY <3>1, <3>2 DEF InstancesMatch
        <3>4. j # i
            BY <1>4, <3>2, <3>3
        <3> QED
            BY <1>4, <3>2, <3>3, <3>4
    <2>3. \A j, k \in Instances :
              /\ ipcs'[j].sock = ipcs'[k].sock
              /\ ipcs'[j].sock \in Open' /\ file'[ipcs'[j].sock] \in Clients
              => j = k
        BY <1>4, <1>6, <1>7 DEF InstancesMatch
    <2> QED
        BY <2>1, <2>2, <2>3 DEF InstancesMatch, IsClient
<1>9. LeakedAreHigh'
    <2>1. NewFd > MaxEvents + Cardinality(Unwatched)
        BY <1>1, Counting, Numbers
    <2> QED
        BY <1>2, <1>4, <1>5, <2>1 DEF LeakedAreHigh, IsClient
<1> QED
    BY <1>3, <1>8, <1>9

\* A watched descriptor is cleared in its slot and nowhere else.
LEMMA Deregistering ==
    ASSUME TypeOK, TableMatches, NEW s \in InUse
    PROVE  event_core_deregister(events[s].sock)
               = [events EXCEPT ![s] = Unused]
BY DEF event_core_deregister, TableMatches, InUse, TypeOK

\* A watched client has one instance, an interface none.
LEMMA KnownIs ==
    ASSUME TypeOK, StructureOk, NEW s \in InUse
    PROVE  /\ events[s].source \in Clients =>
                 \E i \in Instances :
                     /\ Known(events[s].sock) = {i}
                     /\ Min(Known(events[s].sock)) = i
           /\ events[s].source \in Interfaces => Known(events[s].sock) = {}
<1> USE DEF StructureOk
<1> DEFINE f == events[s].sock
<1>1. /\ s \in Slots /\ f \in Open /\ file[f] = events[s].source
      /\ f \in Sockets /\ f \in Nat \ {0}
    BY Numbers DEF TableMatches, InUse, Open, Sockets
<1>2. CASE events[s].source \in Clients
    <2>1. PICK i \in Instances :
              ipcs[i] = [sock |-> f, flags |-> FlagsOf(KindOf[file[f]])]
        BY <1>1, <1>2 DEF InstancesMatch
    <2>2. IsClient(f)
        BY <1>1, <1>2 DEF IsClient
    <2>3. Known(f) = {i}
        BY <2>1, <2>2 DEF Known, InstancesMatch
    <2>4. Min({i}) \in {i}
        <3>1. {i} \in SUBSET Nat /\ {i} # {}
            BY Numbers
        <3> QED
            BY <3>1, LeastOne
    <2>5. events[s].source \notin Interfaces
        BY <1>2, IpcAssumption
    <2> QED
        BY <2>3, <2>4, <2>5
<1>3. CASE events[s].source \in Interfaces
    <2>1. events[s].source \notin Clients
        BY <1>3, IpcAssumption
    <2>2. SUFFICES ASSUME NEW i \in Instances, ipcs[i].sock = f PROVE FALSE
        BY <2>1 DEF Known
    <2>3. i \in Instances \ FreeInstances
        BY <1>1, <2>2 DEF FreeInstances
    <2>4. ~ IsClient(f) /\ f \notin Unwatched
        BY <1>1, <2>1 DEF IsClient, Unwatched
    <2>5. f <= MaxEvents + Cardinality(Unwatched)
        BY <1>1 DEF UnwatchedAreLow
    <2>6. ~ (f > MaxEvents + Cardinality(Unwatched))
        BY <1>1, <2>5, Counting, Numbers
    <2> QED
        BY <2>2, <2>3, <2>4, <2>6 DEF LeakedAreHigh
<1> QED
    BY <1>2, <1>3

\* A socket is closed, its slot cleared and its instance, if any, given back.
LEMMA Closing ==
    ASSUME TypeOK, StructureOk,
           NEW s \in InUse, events[s].source \in Interfaces \cup Clients,
           events' = [events EXCEPT ![s] = Unused],
           file' = [file EXCEPT ![events[s].sock] = "none"],
           listed' = listed \ {events[s].source},
           \/ events[s].source \in Interfaces /\ ipcs' = ipcs
           \/ /\ events[s].source \in Clients
              /\ \E i \in Instances :
                    /\ Known(events[s].sock) = {i}
                    /\ ipcs' = [ipcs EXCEPT ![i] = NoConnection]
    PROVE  StructureOk'
<1> USE DEF StructureOk
<1> DEFINE f == events[s].sock
<1>1. /\ s \in Slots /\ f \in Open /\ file[f] = events[s].source
      /\ f \in Fds /\ f \in Sockets /\ f \in Nat \ {0}
    BY Numbers DEF TableMatches, InUse, Open, Sockets
<1>2. /\ events'[s] = Unused
      /\ \A t \in Slots \ {s} : events'[t] = events[t]
      /\ file'[f] = "none"
      /\ \A g \in Fds \ {f} : file'[g] = file[g]
    BY <1>1 DEF TypeOK
<1>3. Open' = Open \ {f}
    BY <1>1, <1>2 DEF Open
<1>4. InUse' = InUse \ {s}
    BY <1>1, <1>2 DEF InUse, Unused
<1>5. Sockets' = Sockets \ {f}
    <2>1. Sockets = {events[t].sock : t \in InUse}
        BY DEF Sockets, InUse
    <2>2. Sockets' = {events'[t].sock : t \in InUse'}
        BY DEF Sockets, InUse
    <2>3. \A t \in InUse \ {s} : events'[t] = events[t] /\ events[t].sock # f
        BY <1>2 DEF InUse, TableMatches
    <2> QED
        BY <1>4, <2>1, <2>2, <2>3
<1>6. Unwatched' = Unwatched
    BY <1>1, <1>3, <1>5 DEF Unwatched
<1>7. FilesOnce'
    BY <1>1, <1>2, <1>3 DEF FilesOnce, Open
<1>8. TableMatches'
    BY <1>1, <1>2, <1>3, <1>4 DEF TableMatches, InUse, Open
<1>9. UnwatchedAreLow'
    BY <1>1, <1>2, <1>3, <1>6 DEF UnwatchedAreLow, Unwatched, Open
<1>10. \A i \in Instances \ Known(f) : ipcs'[i] = ipcs[i]
    BY DEF TypeOK
<1>11. \A i \in Known(f) : ipcs'[i] = NoConnection
    <2>1. CASE events[s].source \in Interfaces /\ ipcs' = ipcs
        BY <2>1, KnownIs
    <2>2. ASSUME NEW i \in Instances, Known(f) = {i},
                 ipcs' = [ipcs EXCEPT ![i] = NoConnection]
          PROVE  ipcs'[i] = NoConnection
        BY <2>2 DEF TypeOK
    <2> QED
        BY <2>1, <2>2
<1>12. FreeInstances' = FreeInstances \cup Known(f)
    BY <1>1, <1>10, <1>11 DEF FreeInstances, Known, NoConnection
<1>13. InstancesMatch'
    <2>1. \A i \in FreeInstances' : ipcs'[i] = NoConnection
        BY <1>10, <1>11, <1>12 DEF InstancesMatch, FreeInstances
    <2>2. \A g \in Open' : file'[g] \in Clients =>
              \E i \in Instances :
                  ipcs'[i] = [sock |-> g,
                              flags |-> FlagsOf(KindOf[file'[g]])]
        <3>1. SUFFICES ASSUME NEW g \in Open', file'[g] \in Clients
                       PROVE  \E i \in Instances :
                                  ipcs'[i] = [sock |-> g,
                                     flags |-> FlagsOf(KindOf[file'[g]])]
            OBVIOUS
        <3>2. g \in Open /\ file'[g] = file[g] /\ g # f
            BY <1>2, <1>3 DEF Open
        <3>3. PICK i \in Instances :
                  ipcs[i] = [sock |-> g, flags |-> FlagsOf(KindOf[file[g]])]
            BY <3>1, <3>2 DEF InstancesMatch
        <3>4. i \notin Known(f)
            BY <3>2, <3>3 DEF Known
        <3> QED
            BY <1>10, <3>2, <3>3, <3>4
    <2>3. \A i, j \in Instances :
              /\ ipcs'[i].sock = ipcs'[j].sock
              /\ ipcs'[i].sock \in Open' /\ file'[ipcs'[i].sock] \in Clients
              => i = j
        <3>1. SUFFICES ASSUME NEW i \in Instances, NEW j \in Instances,
                              ipcs'[i].sock = ipcs'[j].sock,
                              ipcs'[i].sock \in Open',
                              file'[ipcs'[i].sock] \in Clients
                       PROVE  i = j
            OBVIOUS
        <3>2. 0 \notin Open'
            BY <1>3, Numbers DEF Open
        <3>3. i \notin Known(f) /\ j \notin Known(f)
            BY <1>11, <3>1, <3>2 DEF NoConnection
        <3>4. ipcs'[i] = ipcs[i] /\ ipcs'[j] = ipcs[j]
            BY <1>10, <3>3
        <3>5. IsClient(ipcs[i].sock)
            BY <1>2, <1>3, <3>1, <3>4 DEF IsClient, Open
        <3> QED
            BY <3>1, <3>4, <3>5 DEF InstancesMatch
    <2> QED
        BY <2>1, <2>2, <2>3 DEF InstancesMatch, IsClient
<1>14. LeakedAreHigh'
    <2>1. SUFFICES ASSUME NEW i \in Instances \ FreeInstances'
                   PROVE  \/ /\ ipcs'[i].sock \in Open'
                             /\ file'[ipcs'[i].sock] \in Clients
                          \/ ipcs'[i].sock \in Unwatched'
                          \/ ipcs'[i].sock >
                                 MaxEvents + Cardinality(Unwatched')
        BY DEF LeakedAreHigh, IsClient
    <2>2. /\ i \in Instances \ FreeInstances /\ i \notin Known(f)
          /\ ipcs'[i] = ipcs[i] /\ ipcs[i].sock # f
        BY <1>10, <1>12, <2>1 DEF Known
    <2>3. IsClient(ipcs[i].sock) =>
              ipcs[i].sock \in Open' /\ file'[ipcs[i].sock] \in Clients
        BY <1>2, <1>3, <2>2 DEF IsClient, Open
    <2> QED
        BY <1>6, <2>2, <2>3 DEF LeakedAreHigh
<1> QED
    BY <1>7, <1>8, <1>9, <1>13, <1>14

(***************************************************************************)
(* The inductive invariant.                                                *)
(***************************************************************************)
Inv ==
    /\ Types /\ StructureOk /\ PlacesOk /\ StreamOk /\ CauseOk /\ WalkOk
    /\ LeakIsRefusal
    /\ phase # "exited"

Entries == [sock : Fds \cup {0}, source : Sources \cup {"none"}]

\* A slot in use holds an open descriptor; what is found ready is in use.
LEMMA InUseIs ==
    ASSUME Types, StructureOk, NEW s \in Slots
    PROVE  /\ events[s].sock \in rfds => s \in InUse
           /\ events[s].source # "none" => s \in InUse
           /\ s \in InUse =>
                 /\ events[s].sock \in Open /\ events[s].sock \in Fds
                 /\ file[events[s].sock] = events[s].source
                 /\ events[s].source # "none"
BY Numbers DEF Types, TypeOK, StructureOk, TableMatches, InUse, Open, Unused

\* Where the walk goes on from slot n.
LEMMA Walking ==
    ASSUME Types, NEW n \in Nat, NEW table \in [Slots -> Entries],
           NEW ready \in SUBSET Fds, WalkOn(n, table, ready)
    PROVE  /\ events' = table /\ rfds' = ready /\ at' \in Slots
           /\ phase' \in {"walk", "machines"}
           /\ phase' = "walk" => at' >= n /\ table[at'].sock \in ready
           /\ \A t \in Slots : phase' = "walk" /\ t >= at' => t >= n
<1> DEFINE due == {t \in Slots : t >= n /\ table[t].sock \in ready}
<1>1. /\ events' = table /\ rfds' = ready
      /\ IF due = {} THEN phase' = "machines" /\ at' = 0
                     ELSE phase' = "walk" /\ at' = Min(due)
    BY DEF WalkOn
<1>2. due \in SUBSET Nat
    BY Numbers
<1>3. due # {} => Min(due) \in due
    <2> HIDE DEF due
    <2> QED
        BY <1>2, LeastOne
<1>4. due # {} => /\ Min(due) \in Slots /\ Min(due) >= n
                  /\ table[Min(due)].sock \in ready
    BY <1>3
<1> HIDE DEF due
<1>5. \A t \in Slots : due # {} /\ t >= Min(due) => t >= n
    <2>1. SUFFICES ASSUME NEW t \in Slots, due # {}, t >= Min(due)
                   PROVE  t >= n
        OBVIOUS
    <2>2. t \in Nat /\ Min(due) \in Nat
        BY <1>4, <2>1, Numbers
    <2> QED
        BY <1>4, <2>1, <2>2
<1> QED
    BY <1>1, <1>4, <1>5, Numbers

\* A handler returns, or the process is killed under it.
LEMMA Handled ==
    ASSUME Types, WalkOk, phase = "walk", NEW table \in [Slots -> Entries],
           \/ Returns(table)
           \/ \E fs \in {EventSockets, <<events[at].sock>>} :
                 ReturnsAfter(fs, table)
    PROVE  /\ events' = table /\ rfds' = rfds /\ at' \in Slots
           /\ phase' \in {"walk", "machines", "killed"}
           /\ (\A s \in Slots : s > at /\ table[s].sock \in rfds
                                    => StillDue(s)')
                 => WalkOk'
<1>1. at \in Slots /\ at \in Nat /\ rfds \in SUBSET Fds /\ at + 1 \in Nat
    BY Numbers DEF Types, TypeOK
<1>2. CASE phase' = "killed" /\ events' = table /\ UNCHANGED <<at, rfds>>
    BY <1>1, <1>2 DEF WalkOk
<1>3. CASE Returns(table)
    <2>1. WalkOn(at + 1, table, rfds)
        BY <1>3 DEF Returns
    <2>2. /\ events' = table /\ rfds' = rfds /\ at' \in Slots
          /\ phase' \in {"walk", "machines"}
          /\ phase' = "walk" => at' >= at + 1 /\ table[at'].sock \in rfds
          /\ \A t \in Slots : phase' = "walk" /\ t >= at' => t >= at + 1
        BY <1>1, <2>1, Walking
    <2>3. ASSUME \A s \in Slots : s > at /\ table[s].sock \in rfds
                                      => StillDue(s)',
                 phase' = "walk"
          PROVE  /\ events'[at'].sock \in rfds'
                 /\ \A s \in Slots : s >= at' /\ events'[s].sock \in rfds'
                                         => StillDue(s)'
                 /\ at' # 0
        <3>1. \A s \in Slots : s >= at' => s > at
            BY <1>1, <2>2, <2>3, Numbers
        <3>2. at' # 0
            BY <1>1, <2>2, <2>3
        <3> QED
            BY <2>2, <2>3, <3>1, <3>2
    <2>4. (\A s \in Slots : s > at /\ table[s].sock \in rfds
                                => StillDue(s)') => WalkOk'
        BY <2>3 DEF WalkOk
    <2> QED
        BY <2>2, <2>4
<1> QED
    BY <1>2, <1>3 DEF ReturnsAfter, Ends

\* A connection that asked for events is the one of an instance in use.
LEMMA EventSocketsAre ==
    ASSUME Types, StructureOk, NEW k \in DOMAIN EventSockets
    PROVE  /\ k \in Instances /\ EventSockets[k] \in Fds
           /\ EventSockets[k] = ipcs[k].sock
           /\ "EVENTS_ONLY" \in ipcs[k].flags
<1>1. /\ k \in Instances /\ EventSockets[k] = ipcs[k].sock
      /\ "EVENTS_ONLY" \in ipcs[k].flags
    BY DEF EventSockets
<1>2. k \notin FreeInstances
    BY <1>1 DEF StructureOk, InstancesMatch, NoConnection
<1> QED
    BY <1>1, <1>2 DEF FreeInstances, Types, TypeOK

\* errno says EPIPE when it did, or when a client has hung up that is not
\* waiting to be accepted.
LEMMA Sending ==
    ASSUME Types, StructureOk, PlacesOk,
           NEW fs, DOMAIN fs \in SUBSET (0 .. Cardinality(Instances) + 1),
           \A k \in DOMAIN fs : fs[k] \in Fds
    PROVE  /\ ErrnoAfter(fs) \in BOOLEAN
           /\ ErrnoAfter(fs) => \/ epipe
                                \/ \E c \in HungUp : ~ InBacklog(c)
<1> DEFINE failed == {k \in DOMAIN fs : Fails(fs[k])}
<1>1. failed # {} => Max(failed) \in failed
    <2>1. failed \in SUBSET (0 .. Cardinality(Instances) + 1)
          /\ Cardinality(Instances) + 1 \in Nat
        BY Numbers
    <2> HIDE DEF failed
    <2> QED
        BY <2>1, GreatestOne
<1>2. ErrnoAfter(fs) = IF failed = {} THEN epipe
                       ELSE Broken(fs[Max(failed)])
    BY DEF ErrnoAfter
<1>3. ASSUME NEW f \in Fds, Broken(f)
      PROVE  \E c \in HungUp : ~ InBacklog(c)
    <2>1. file[f] \in HungUp /\ f \in Open
        BY <1>3, IpcAssumption DEF Broken, HungUp, Open
    <2>2. ~ InBacklog(file[f])
        BY <2>1 DEF PlacesOk, InBacklog
    <2> QED
        BY <2>1, <2>2
<1>4. \A f : Broken(f) \in BOOLEAN
    BY DEF Broken
<1>5. failed # {} => fs[Max(failed)] \in Fds
    BY <1>1
<1> HIDE DEF failed
<1> QED
    BY <1>2, <1>3, <1>4, <1>5 DEF Types, TypeOK

LEMMA EventsSent ==
    ASSUME Types, StructureOk, PlacesOk, xsup_ipc_send_all
    PROVE  /\ epipe' \in BOOLEAN
           /\ epipe' => epipe \/ \E c \in HungUp : ~ InBacklog(c)
<1>1. DOMAIN EventSockets \in SUBSET (0 .. Cardinality(Instances) + 1)
    <2>1. DOMAIN EventSockets \subseteq Instances
        BY DEF EventSockets
    <2>2. \A i \in 0 .. Cardinality(Instances) :
              i \in 0 .. Cardinality(Instances) + 1
        BY Numbers
    <2> QED
        BY <2>1, <2>2, Numbers
<1>2. \A k \in DOMAIN EventSockets : EventSockets[k] \in Fds
    BY EventSocketsAre
<1> QED
    BY <1>1, <1>2, Sending DEF xsup_ipc_send_all

(***************************************************************************)
(* What a step leaves alone.                                               *)
(***************************************************************************)
LEMMA PlacesKept ==
    ASSUME PlacesOk, UNCHANGED <<backlog, file, ui>>
    PROVE  PlacesOk'
BY DEF PlacesOk, Open

LEMMA StreamKept ==
    ASSUME StreamOk, UNCHANGED ui
    PROVE  StreamOk'
BY DEF StreamOk

LEMMA CauseKept ==
    ASSUME CauseOk, UNCHANGED <<backlog, ui>>,
           epipe' => epipe \/ \E c \in HungUp : ~ InBacklog(c)
    PROVE  CauseOk'
BY DEF CauseOk, HungUp, InBacklog

LEMMA LeakKept ==
    ASSUME LeakIsRefusal, UNCHANGED <<events, ipcs>>,
           RefusedClients' = RefusedClients
    PROVE  LeakIsRefusal'
BY DEF LeakIsRefusal, InUse, FreeInstances

\* What is readable stays so when only more arrives.
LEMMA WalkKept ==
    ASSUME Types, WalkOk, UNCHANGED <<loopVars, file>>,
           links # <<>> => links' # <<>>,
           \A l \in Listeners : backlog[l] # <<>> => backlog'[l] # <<>>,
           frames \subseteq frames',
           \A c \in Clients : ui[c].requests # <<>> \/ ui[c].end = "hung"
              => ui'[c].requests # <<>> \/ ui'[c].end = "hung"
    PROVE  WalkOk'
<1>1. \A s \in Slots : Readable(events[s].sock)
                           => Readable(events[s].sock)'
    BY DEF Readable, loopVars
<1>2. \A s \in Slots : StillDue(s) => StillDue(s)'
    BY <1>1 DEF StillDue, InUse, loopVars
<1> QED
    BY <1>2 DEF WalkOk, Open, loopVars, Types, TypeOK

(***************************************************************************)
(* The steps that open and close nothing.                                  *)
(***************************************************************************)
LEMMA WaitStep ==
    ASSUME Inv, Wait
    PROVE  Inv'
<1> DEFINE ready == {f \in Watched : Readable(f)}
<1>1. /\ phase = "select" /\ WalkOn(0, events, ready)
      /\ UNCHANGED <<ipcVars, kernelVars, worldVars, ui>>
    BY DEF Wait, Select
<1>2. ready \subseteq Fds /\ ready \subseteq Open
    BY Numbers
    DEF Watched, Sockets, Inv, StructureOk, TableMatches, InUse, Open
<1>3. /\ events' = events /\ rfds' = ready /\ at' \in Slots
      /\ phase' \in {"walk", "machines"}
      /\ phase' = "walk" => events[at'].sock \in ready
    <2> HIDE DEF ready
    <2> QED
        BY <1>1, <1>2, Walking, 0 \in Nat, SMTT(20)
        DEF Inv, Types, TypeOK, Entries
<1>4. Types'
    BY <1>1, <1>2, <1>3
    DEF Inv, Types, TypeOK, ipcVars, kernelVars, worldVars
<1>5. StructureOk' /\ PlacesOk' /\ StreamOk' /\ CauseOk' /\ LeakIsRefusal'
    BY <1>1, <1>3, StructureKept, PlacesKept, StreamKept, CauseKept, LeakKept
    DEF Inv, ipcVars, kernelVars, RefusedClients
<1>6. WalkOk'
    <2>1. \A f \in ready : Readable(f)'
        BY <1>1 DEF Readable, kernelVars
    <2>2. \A s \in Slots : events'[s].sock \in rfds' => StillDue(s)'
        BY <1>3, <2>1 DEF StillDue
    <2>3. rfds' \subseteq Open'
        BY <1>1, <1>2, <1>3 DEF Open, kernelVars
    <2> QED
        BY <1>3, <2>2, <2>3 DEF WalkOk
<1> QED
    BY <1>3, <1>4, <1>5, <1>6 DEF Inv

LEMMA MachinesStep ==
    ASSUME Inv, Machines
    PROVE  Inv'
<1>1. /\ UNCHANGED <<events, at, ipcs, listed, kernelVars, worldVars, ui>>
      /\ phase' \in {"select", "killed"}
      /\ rfds' \in {{}, rfds}
    BY DEF Machines, Ends, EndsPass
<1>2. /\ epipe' \in BOOLEAN
      /\ epipe' => epipe \/ \E c \in HungUp : ~ InBacklog(c)
    <2>1. CASE xsup_ipc_send_all
        BY <2>1, EventsSent DEF Inv
    <2>2. CASE epipe' = epipe
        BY <2>2 DEF Inv, Types, TypeOK
    <2>3. CASE epipe' = FALSE
        BY <2>3
    <2> QED
        BY <2>1, <2>2, <2>3 DEF Machines
<1>3. Types'
    BY <1>1, <1>2 DEF Inv, Types, TypeOK, kernelVars, worldVars
<1>4. StructureOk' /\ PlacesOk' /\ StreamOk' /\ CauseOk' /\ LeakIsRefusal'
    BY <1>1, <1>2, StructureKept, PlacesKept, StreamKept, CauseKept, LeakKept
    DEF Inv, kernelVars, RefusedClients
<1> QED
    BY <1>1, <1>3, <1>4 DEF Inv, WalkOk

LEMMA FrameReadStep ==
    ASSUME Inv, NEW s \in Slots, eapol_withframe(s)
    PROVE  Inv'
<1>1. /\ phase = "walk" /\ at = s /\ events[s].source \in frames
      /\ frames' = frames \ {events[s].source}
      /\ epipe' = FALSE /\ Returns(events)
      /\ UNCHANGED <<ipcs, listed, file, backlog, links, worldVars, ui>>
    BY DEF eapol_withframe, Due
<1>2. events \in [Slots -> Entries] /\ Types /\ StructureOk
    BY DEF Inv, Types, TypeOK, Entries
<1>3. /\ events' = events /\ rfds' = rfds /\ at' \in Slots
      /\ phase' \in {"walk", "machines", "killed"}
      /\ (\A t \in Slots : t > at /\ events[t].sock \in rfds
                               => StillDue(t)') => WalkOk'
    BY <1>1, <1>2, Handled DEF Inv
<1>4. Types'
    BY <1>1, <1>2, <1>3 DEF Types, TypeOK, worldVars
<1>5. StructureOk' /\ PlacesOk' /\ StreamOk' /\ CauseOk' /\ LeakIsRefusal'
    BY <1>1, <1>3, StructureKept, PlacesKept, StreamKept, CauseKept, LeakKept
    DEF Inv, RefusedClients
<1>6. ASSUME NEW t \in Slots, t > at, events[t].sock \in rfds
      PROVE  StillDue(t)'
    <2>1. s \in InUse /\ t \in InUse /\ t >= at /\ t # s
        BY <1>1, <1>2, <1>6, InUseIs, Numbers, IpcAssumption
        DEF Types, TypeOK
    <2>2. events[t].source # events[s].source
        BY <1>2, <2>1, InUseIs DEF StructureOk, FilesOnce, TableMatches
    <2>3. StillDue(t)
        BY <1>1, <1>6, <2>1 DEF Inv, WalkOk
    <2>4. file[events[t].sock] = events[t].source
        BY <1>2, <2>1, InUseIs
    <2> QED
        BY <1>1, <1>3, <2>2, <2>3, <2>4 DEF StillDue, Readable, InUse
<1> QED
    BY <1>3, <1>4, <1>5, <1>6 DEF Inv

LEMMA FrameStep ==
    ASSUME Inv, NEW i \in Interfaces, Frame(i)
    PROVE  Inv'
<1>1. /\ frames' = frames \cup {i}
      /\ UNCHANGED <<loopVars, ipcVars, file, backlog, links, worldVars, ui>>
    BY DEF Frame
<1>2. Types'
    BY <1>1 DEF Inv, Types, TypeOK, loopVars, ipcVars, worldVars
<1>3. StructureOk' /\ PlacesOk' /\ StreamOk' /\ CauseOk' /\ LeakIsRefusal'
    BY <1>1, StructureKept, PlacesKept, StreamKept, CauseKept, LeakKept
    DEF Inv, RefusedClients, loopVars, ipcVars
<1>4. WalkOk'
    BY <1>1, WalkKept DEF Inv, loopVars
<1> QED
    BY <1>1, <1>2, <1>3, <1>4 DEF Inv, loopVars

LEMMA MoveStep ==
    ASSUME Inv, NEW i \in Interfaces, Move(i)
    PROVE  Inv'
<1> DEFINE m == [type |-> IF i \in plugged THEN "del" ELSE "new",
                 iface |-> i]
<1>1. /\ moves < MaxMoves /\ moves' = moves + 1
      /\ plugged' = IF i \in plugged THEN plugged \ {i} ELSE plugged \cup {i}
      /\ links' = Append(links, m)
      /\ frames' \in {frames, frames \cup {i}}
      /\ UNCHANGED <<loopVars, ipcVars, file, backlog, sigpipe, ui>>
    BY DEF Move
<1>2. m \in [type : {"new", "del"}, iface : Interfaces]
    OBVIOUS
<1>3. links' \in Seq([type : {"new", "del"}, iface : Interfaces])
      /\ links' # <<>>
    <2> HIDE DEF m
    <2> QED
        BY <1>1, <1>2, AppendProperties, SMTT(20) DEF Inv, Types
<1>4. moves' \in 0 .. MaxMoves
    BY <1>1, IpcAssumption DEF Inv, Types, TypeOK
<1>5. Types'
    <2> HIDE DEF m
    <2> QED
        BY <1>1, <1>3, <1>4
        DEF Inv, Types, TypeOK, loopVars, ipcVars
<1>6. StructureOk' /\ PlacesOk' /\ StreamOk' /\ CauseOk' /\ LeakIsRefusal'
    BY <1>1, StructureKept, PlacesKept, StreamKept, CauseKept, LeakKept
    DEF Inv, RefusedClients, loopVars, ipcVars
<1>7. WalkOk'
    BY <1>1, <1>3, WalkKept DEF Inv, loopVars
<1> QED
    BY <1>1, <1>5, <1>6, <1>7 DEF Inv, loopVars

(***************************************************************************)
(* The steps of the clients.                                               *)
(***************************************************************************)

\* What the two directions of a stream become: nothing more is asked, what was
\* answered is read, or one more is asked.
LEMMA Streaming ==
    ASSUME NEW a \in Seq(Nat), NEW r \in Seq(Nat)
    PROVE  /\ a \o r \in Seq(Nat) /\ Len(a \o r) = Len(a) + Len(r)
           /\ Len(a) \in Nat /\ Len(r) \in Nat
           /\ \A k \in 1 .. Len(a) : (a \o r)[k] = a[k]
           /\ \A k \in 1 .. Len(r) : (a \o r)[k + Len(a)] = r[k]
           /\ a \o <<>> = a /\ <<>> \o r = r
<1>1. /\ a \o r \in Seq(Nat) /\ Len(a \o r) = Len(a) + Len(r)
      /\ Len(a) \in Nat /\ Len(r) \in Nat
    BY ConcatProperties, LenProperties
<1>2. ASSUME NEW k \in 1 .. Len(a) PROVE (a \o r)[k] = a[k]
    BY <1>1, ConcatProperties
<1>3. ASSUME NEW k \in 1 .. Len(r) PROVE (a \o r)[k + Len(a)] = r[k]
    BY <1>1, ConcatProperties
<1>4. a \o <<>> = a /\ <<>> \o r = r
    BY ConcatEmptySeq
<1> QED
    BY <1>1, <1>2, <1>3, <1>4

LEMMA FirstOnes ==
    ASSUME NEW a \in Seq(Nat), NEW r \in Seq(Nat), NEW asked \in Nat,
           NEW most \in Nat, Numbered(a \o r, asked, most)
    PROVE  Numbered(a, asked, most)
<1>1. SUFFICES ASSUME NEW k \in 1 .. Len(a)
               PROVE  /\ asked + k <= a[k] + most
                      /\ a[k] + Len(a) <= asked + k
    BY DEF Numbered
<1>2. /\ Len(a \o r) = Len(a) + Len(r) /\ Len(a) \in Nat /\ Len(r) \in Nat
      /\ (a \o r)[k] = a[k]
    BY Streaming
<1>3. /\ asked + k <= a[k] + most
      /\ a[k] + (Len(a) + Len(r)) <= asked + k
    <2>1. k \in 1 .. Len(a \o r)
        BY <1>2
    <2> QED
        BY <1>2, <2>1 DEF Numbered
<1>4. a[k] \in Nat
    BY ElementOfSeq
<1> QED
    BY <1>2, <1>3, <1>4

LEMMA LastOnes ==
    ASSUME NEW a \in Seq(Nat), NEW r \in Seq(Nat), NEW asked \in Nat,
           NEW most \in Nat, Numbered(a \o r, asked, most + 1), a # <<>>
    PROVE  Numbered(r, asked, most)
<1>1. SUFFICES ASSUME NEW k \in 1 .. Len(r)
               PROVE  /\ asked + k <= r[k] + most
                      /\ r[k] + Len(r) <= asked + k
    BY DEF Numbered
<1>2. /\ Len(a \o r) = Len(a) + Len(r) /\ Len(a) \in Nat \ {0}
      /\ Len(r) \in Nat /\ (a \o r)[k + Len(a)] = r[k]
    BY Streaming, EmptySeq
<1>3. k + Len(a) \in 1 .. Len(a \o r)
    BY <1>2
<1>4. /\ asked + (k + Len(a)) <= r[k] + (most + 1)
      /\ r[k] + (Len(a) + Len(r)) <= asked + (k + Len(a))
    BY <1>2, <1>3 DEF Numbered
<1>5. PICK x, m, n \in Nat : x = r[k] /\ m = Len(a) /\ n = Len(r)
    BY <1>2, ElementOfSeq
<1>6. /\ asked + (k + m) <= x + (most + 1) /\ m >= 1
      /\ x + (m + n) <= asked + (k + m)
    BY <1>2, <1>4, <1>5
<1>7. asked + k <= x + most /\ x + n <= asked + k
    BY <1>6
<1> QED
    BY <1>5, <1>7

LEMMA OneMoreAsked ==
    ASSUME NEW a \in Seq(Nat), NEW r \in Seq(Nat), NEW asked \in Nat,
           NEW most \in Nat, Numbered(a \o r, asked, most)
    PROVE  /\ Append(r, asked + 1) \in Seq(Nat)
           /\ Append(r, asked + 1) # <<>>
           /\ Numbered(a \o Append(r, asked + 1), asked + 1, most + 1)
<1> DEFINE n == asked + 1
           s == a \o r
           t == a \o Append(r, n)
<1>1. /\ s \in Seq(Nat) /\ Len(s) = Len(a) + Len(r)
      /\ Len(a) \in Nat /\ Len(r) \in Nat /\ n \in Nat
    BY Streaming
<1>2. /\ Append(r, n) \in Seq(Nat) /\ Append(r, n) # <<>>
      /\ Append(r, n) = r \o <<n>> /\ Append(s, n) = s \o <<n>>
      /\ Len(Append(s, n)) = Len(s) + 1
      /\ \A k \in 1 .. Len(s) : Append(s, n)[k] = s[k]
      /\ Append(s, n)[Len(s) + 1] = n
    <2> HIDE DEF s, n
    <2>1. /\ Append(r, n) \in Seq(Nat) /\ Append(r, n) # <<>>
          /\ Append(r, n) = r \o <<n>>
        BY <1>1, AppendProperties, AppendIsConcat
    <2>2. Append(s, n) = s \o <<n>>
        BY <1>1, AppendIsConcat
    <2>3. /\ Len(Append(s, n)) = Len(s) + 1
          /\ \A k \in 1 .. Len(s) : Append(s, n)[k] = s[k]
          /\ Append(s, n)[Len(s) + 1] = n
        <3>1. PICK m : m = n /\ m \in Nat
            BY <1>1
        <3>2. PICK z : z = s /\ z \in Seq(Nat)
            BY <1>1
        <3>3. /\ Len(Append(z, m)) = Len(z) + 1
              /\ \A k \in 1 .. Len(z) : Append(z, m)[k] = z[k]
              /\ Append(z, m)[Len(z) + 1] = m
            BY <3>1, <3>2, AppendProperties
        <3> QED
            BY <3>1, <3>2, <3>3
    <2> QED
        BY <2>1, <2>2, <2>3
<1>3. t = Append(s, n)
    <2>1. <<n>> \in Seq(Nat)
        BY <1>1
    <2>2. s \o <<n>> = a \o (r \o <<n>>)
        BY <2>1, ConcatAssociative
    <2> QED
        BY <1>2, <2>2
<1>4. \A k \in 1 .. Len(s) : s[k] \in Nat
    <2> HIDE DEF s
    <2> QED
        BY <1>1, ElementOfSeq
<1>5. \A k \in 1 .. Len(s) : /\ asked + k <= s[k] + most
                            /\ s[k] + Len(s) <= asked + k
    BY DEF Numbered
<1> HIDE DEF s
<1>6. Len(s) <= most
    <2>1. CASE Len(s) = 0
        BY <2>1
    <2>2. CASE Len(s) # 0
        <3>1. 1 \in 1 .. Len(s) /\ Len(s) \in Nat
            BY <1>1, <2>2
        <3> QED
            BY <1>4, <1>5, <3>1
    <2> QED
        BY <2>1, <2>2
<1>7. ASSUME NEW k \in 1 .. Len(s) + 1
      PROVE  /\ n + k <= Append(s, n)[k] + (most + 1)
             /\ Append(s, n)[k] + (Len(s) + 1) <= n + k
    <2>1. CASE k = Len(s) + 1
        BY <1>1, <1>2, <1>6, <2>1
    <2>2. CASE k \in 1 .. Len(s)
        <3>1. /\ Append(s, n)[k] = s[k] /\ s[k] \in Nat
              /\ asked + k <= s[k] + most
              /\ s[k] + Len(s) <= asked + k
            BY <1>2, <1>4, <1>5, <2>2
        <3>2. PICK x, m \in Nat : x = s[k] /\ m = Len(s)
            BY <1>1, <3>1
        <3>3. asked + k <= x + most /\ x + m <= asked + k
            BY <3>1, <3>2
        <3>4. (asked + 1) + k <= x + (most + 1)
              /\ x + (m + 1) <= (asked + 1) + k
            BY <3>3
        <3> QED
            BY <3>1, <3>2, <3>4
    <2>3. Len(s) \in Nat
        BY <1>1
    <2> QED
        BY <2>1, <2>2, <2>3
<1>8. Numbered(Append(s, n), n, most + 1)
    BY <1>2, <1>7 DEF Numbered
<1> QED
    BY <1>2, <1>3, <1>8

\* The parts of a client's end.
Parts(v) == [end |-> v.end, requests |-> v.requests, answers |-> v.answers,
             waiting |-> v.waiting, asked |-> v.asked, late |-> v.late]

LEMMA PartsOf ==
    ASSUME NEW u \in ClientTypes
    PROVE  /\ u = Parts(u) /\ u.end \in ClientEnds
           /\ u.requests \in Seq(Nat) /\ u.answers \in Seq(Nat)
           /\ u.waiting \in Nat /\ u.asked \in Nat /\ u.late \in Nat
           /\ Outstanding(u) \in Nat
BY DEF ClientTypes, Parts, Outstanding

LEMMA PartsOk ==
    ASSUME NEW v, v = Parts(v), v.end \in ClientEnds,
           v.requests \in Seq(Nat), v.answers \in Seq(Nat),
           v.waiting \in Nat, v.asked \in Nat, v.late \in Nat
    PROVE  v \in ClientTypes
BY DEF ClientTypes, Parts

\* One request is answered: what is on its way stays the same.
LEMMA Answering ==
    ASSUME NEW u \in ClientTypes, ClientOk(u), Len(u.requests) = 1,
           u.end \in {"open", "hung"},
           NEW v, v = [u EXCEPT !.requests = <<>>,
                                !.answers =
                                    IF u.end = "open"
                                    THEN Append(@, Head(u.requests)) ELSE @]
    PROVE  v \in ClientTypes /\ v.end = u.end /\ ClientOk(v)
<1> DEFINE a == u.answers
           h == Head(u.requests)
<1>1. /\ u = Parts(u) /\ u.end \in ClientEnds
      /\ u.requests \in Seq(Nat) /\ a \in Seq(Nat)
      /\ u.waiting \in Nat /\ u.asked \in Nat /\ u.late \in Nat
    BY PartsOf
<1>2. /\ v.end = u.end /\ v.requests = <<>> /\ v.waiting = u.waiting
      /\ v.asked = u.asked /\ v.late = u.late /\ v = Parts(v)
      /\ v.answers = IF u.end = "open" THEN Append(a, h) ELSE a
    BY DEF ClientTypes, Parts
<1>3. h \in Nat /\ u.requests = <<h>>
    BY <1>1
<1>4. Append(a, h) \in Seq(Nat) /\ Append(a, h) = a \o u.requests
    <2> HIDE DEF a, h
    <2> QED
        BY <1>1, <1>3, AppendProperties, AppendIsConcat
<1> HIDE DEF a, h
<1>5. Append(a, h) \o <<>> = Append(a, h)
    BY <1>4, ConcatEmptySeq
<1>6. v \in ClientTypes
    <2>1. /\ v.end \in ClientEnds
          /\ v.waiting \in Nat /\ v.late \in Nat /\ v.asked \in Nat
        BY <1>1, <1>2
    <2>2. v.requests \in Seq(Nat)
        BY <1>2
    <2>3. v.answers \in Seq(Nat)
        BY <1>1, <1>2, <1>4 DEF a
    <2> QED
        BY <1>2, <2>1, <2>2, <2>3, PartsOk, Zenon
<1>7. ClientOk(v)
    <2>1. Outstanding(v) = Outstanding(u)
        BY <1>2 DEF Outstanding
    <2>2. CASE u.end = "open"
        <3>1. v.answers \o v.requests = u.answers \o u.requests
            BY <1>2, <1>4, <1>5, <2>2 DEF a
        <3> QED
            BY <1>2, <2>1, <2>2, <3>1 DEF ClientOk
    <2>3. CASE u.end = "hung"
        BY <1>2, <2>3 DEF ClientOk, a
    <2> QED
        BY <2>2, <2>3
<1> QED
    BY <1>2, <1>6, <1>7

\* Several are thrown away: what is left is what was answered.
LEMMA Discarding ==
    ASSUME NEW u \in ClientTypes, ClientOk(u), u.end \in {"open", "hung"},
           NEW v, v = [u EXCEPT !.requests = <<>>]
    PROVE  v \in ClientTypes /\ v.end = u.end /\ ClientOk(v)
<1>1. /\ u = Parts(u) /\ u.end \in ClientEnds
      /\ u.requests \in Seq(Nat) /\ u.answers \in Seq(Nat)
      /\ u.waiting \in Nat /\ u.asked \in Nat /\ u.late \in Nat
      /\ Outstanding(u) \in Nat
    BY PartsOf
<1>2. /\ v.end = u.end /\ v.requests = <<>> /\ v.waiting = u.waiting
      /\ v.asked = u.asked /\ v.late = u.late /\ v = Parts(v)
      /\ v.answers = u.answers
    BY DEF ClientTypes, Parts
<1>3. v \in ClientTypes
    <2>1. /\ v.end \in ClientEnds /\ v.requests \in Seq(Nat)
          /\ v.answers \in Seq(Nat)
          /\ v.waiting \in Nat /\ v.late \in Nat /\ v.asked \in Nat
        BY <1>1, <1>2
    <2> QED
        BY <1>2, <2>1, PartsOk, Zenon
<1>4. ClientOk(v)
    <2>1. Outstanding(v) = Outstanding(u)
        BY <1>2 DEF Outstanding
    <2>2. v.answers \o v.requests = u.answers
        BY <1>1, <1>2, ConcatEmptySeq
    <2>3. u.end = "open" => Numbered(u.answers, u.asked, Outstanding(u))
        BY <1>1, FirstOnes DEF ClientOk
    <2> QED
        BY <1>2, <2>1, <2>2, <2>3 DEF ClientOk
<1> QED
    BY <1>2, <1>3, <1>4

\* One more request, and the library waits for its answer.
LEMMA Asking ==
    ASSUME NEW u \in ClientTypes, ClientOk(u), u.end = "open", u.waiting = 0,
           NEW v, v = [u EXCEPT !.asked = @ + 1, !.waiting = u.asked + 1,
                                !.requests = Append(@, u.asked + 1)]
    PROVE  /\ v \in ClientTypes /\ ClientOk(v) /\ v.end = u.end
           /\ v.requests # <<>> /\ v.answers = u.answers
<1>1. /\ u = Parts(u) /\ u.end \in ClientEnds
      /\ u.requests \in Seq(Nat) /\ u.answers \in Seq(Nat)
      /\ u.waiting \in Nat /\ u.asked \in Nat /\ u.late \in Nat
      /\ Outstanding(u) \in Nat
    BY PartsOf
<1>2. /\ v.end = u.end /\ v.answers = u.answers /\ v.late = u.late
      /\ v.asked = u.asked + 1 /\ v.waiting = u.asked + 1
      /\ v.requests = Append(u.requests, u.asked + 1) /\ v = Parts(v)
    BY DEF ClientTypes, Parts
<1>3. /\ v.requests \in Seq(Nat) /\ v.requests # <<>>
      /\ Numbered(v.answers \o v.requests, u.asked + 1, Outstanding(u) + 1)
    <2>1. Numbered(u.answers \o u.requests, u.asked, Outstanding(u))
        BY DEF ClientOk
    <2>2. /\ Append(u.requests, u.asked + 1) \in Seq(Nat)
          /\ Append(u.requests, u.asked + 1) # <<>>
          /\ Numbered(u.answers \o Append(u.requests, u.asked + 1),
                      u.asked + 1, Outstanding(u) + 1)
        BY <1>1, <2>1, OneMoreAsked, Zenon
    <2> QED
        BY <1>2, <2>2
<1>4. v \in ClientTypes
    <2>1. /\ v.end \in ClientEnds /\ v.requests \in Seq(Nat)
          /\ v.answers \in Seq(Nat)
          /\ v.waiting \in Nat /\ v.late \in Nat /\ v.asked \in Nat
        BY <1>1, <1>2, <1>3
    <2> QED
        BY <1>2, <2>1, PartsOk, Zenon
<1>5. Outstanding(v) = Outstanding(u) + 1
    BY <1>1, <1>2 DEF Outstanding
<1>6. ClientOk(v)
    BY <1>2, <1>3, <1>5 DEF ClientOk
<1> QED
    BY <1>2, <1>3, <1>4, <1>6

\* All that was answered is taken for the answer.
LEMMA Taking ==
    ASSUME NEW u \in ClientTypes, ClientOk(u), u.waiting # 0,
           u.answers # <<>>,
           NEW v, v = [u EXCEPT !.waiting = 0, !.answers = <<>>]
    PROVE  /\ v \in ClientTypes /\ ClientOk(v) /\ v.end = u.end
           /\ v.requests = u.requests /\ v.answers = <<>>
<1>1. /\ u = Parts(u) /\ u.end \in ClientEnds
      /\ u.requests \in Seq(Nat) /\ u.answers \in Seq(Nat)
      /\ u.waiting \in Nat /\ u.asked \in Nat /\ u.late \in Nat
    BY PartsOf
<1>2. /\ v.end = u.end /\ v.answers = <<>> /\ v.late = u.late
      /\ v.asked = u.asked /\ v.waiting = 0
      /\ v.requests = u.requests /\ v = Parts(v)
    BY DEF ClientTypes, Parts
<1>3. v \in ClientTypes
    <2>1. /\ v.end \in ClientEnds /\ v.requests \in Seq(Nat)
          /\ v.answers \in Seq(Nat)
          /\ v.waiting \in Nat /\ v.late \in Nat /\ v.asked \in Nat
        BY <1>1, <1>2
    <2> QED
        BY <1>2, <2>1, PartsOk, Zenon
<1>4. Outstanding(u) = u.late + 1 /\ Outstanding(v) = u.late
    BY <1>1, <1>2 DEF Outstanding
<1>5. u.end \in {"open", "shut"}
    BY <1>1 DEF ClientOk, ClientEnds
<1>6. Numbered(u.requests, u.asked, u.late)
    BY <1>1, <1>4, <1>5, LastOnes DEF ClientOk
<1>7. v.answers \o v.requests = u.requests
    BY <1>1, <1>2, ConcatEmptySeq
<1>8. ClientOk(v)
    BY <1>2, <1>4, <1>5, <1>6, <1>7 DEF ClientOk
<1> QED
    BY <1>2, <1>3, <1>8

\* The library gives up: the answer may be one too many.
LEMMA GivingUp ==
    ASSUME NEW u \in ClientTypes, ClientOk(u), u.waiting # 0,
           u.answers = <<>>,
           NEW v, v = [u EXCEPT !.waiting = 0,
                           !.late = IF u.end = "open" THEN @ + 1 ELSE @]
    PROVE  /\ v \in ClientTypes /\ ClientOk(v) /\ v.end = u.end
           /\ v.requests = u.requests /\ v.answers = <<>>
<1>1. /\ u = Parts(u) /\ u.end \in ClientEnds
      /\ u.requests \in Seq(Nat) /\ u.answers \in Seq(Nat)
      /\ u.waiting \in Nat /\ u.asked \in Nat /\ u.late \in Nat
    BY PartsOf
<1>2. /\ v.end = u.end /\ v.answers = <<>>
      /\ v.late = IF u.end = "open" THEN u.late + 1 ELSE u.late
      /\ v.asked = u.asked /\ v.waiting = 0
      /\ v.requests = u.requests /\ v = Parts(v)
    BY DEF ClientTypes, Parts
<1>3. v \in ClientTypes
    <2>1. /\ v.end \in ClientEnds /\ v.requests \in Seq(Nat)
          /\ v.waiting \in Nat /\ v.asked \in Nat
        BY <1>1, <1>2
    <2>2. v.late \in Nat
        <3>1. u.late \in Nat /\ u.late + 1 \in Nat
            BY <1>1
        <3>2. v.late = u.late + 1 \/ v.late = u.late
            BY <1>2
        <3> QED
            BY <3>1, <3>2
    <2>3. v.answers \in Seq(Nat)
        <3>1. v.answers = u.answers
            BY <1>2
        <3> QED
            BY <1>1, <3>1
    <2> QED
        BY <1>2, <2>1, <2>2, <2>3, PartsOk, Zenon
<1>4. u.end = "open" => Outstanding(v) = Outstanding(u)
    BY <1>1, <1>2 DEF Outstanding
<1>5. u.end = "shut" => v.answers \o v.requests = <<>>
    BY <1>2 DEF ClientOk
<1>6. Numbered(<<>>, v.asked, Outstanding(v))
    BY DEF Numbered
<1>7. ClientOk(v)
    BY <1>2, <1>4, <1>5, <1>6 DEF ClientOk
<1> QED
    BY <1>2, <1>3, <1>7

\* The daemon closes: what was asked is lost, what was answered stays.
LEMMA Shutting ==
    ASSUME NEW u \in ClientTypes, ClientOk(u), u.end \in {"open", "hung"},
           NEW v, v = [u EXCEPT !.end = IF @ = "open" THEN "shut" ELSE @,
                                !.requests = <<>>]
    PROVE  /\ v \in ClientTypes /\ ClientOk(v)
           /\ v.end = IF u.end = "open" THEN "shut" ELSE "hung"
<1>1. /\ u = Parts(u) /\ u.end \in ClientEnds
      /\ u.requests \in Seq(Nat) /\ u.answers \in Seq(Nat)
      /\ u.waiting \in Nat /\ u.asked \in Nat /\ u.late \in Nat
      /\ Outstanding(u) \in Nat
    BY PartsOf
<1>2. /\ v.end = IF u.end = "open" THEN "shut" ELSE "hung"
      /\ v.requests = <<>> /\ v.answers = u.answers
      /\ v.waiting = u.waiting /\ v.late = u.late /\ v.asked = u.asked
      /\ v = Parts(v)
    BY DEF ClientTypes, Parts
<1>3. v \in ClientTypes
    <2>1. /\ v.end \in ClientEnds /\ v.requests \in Seq(Nat)
          /\ v.answers \in Seq(Nat)
          /\ v.waiting \in Nat /\ v.late \in Nat /\ v.asked \in Nat
        BY <1>1, <1>2 DEF ClientEnds
    <2> QED
        BY <1>2, <2>1, PartsOk, Zenon
<1>4. ClientOk(v)
    <2>1. Outstanding(v) = Outstanding(u)
        BY <1>2 DEF Outstanding
    <2>2. v.answers \o v.requests = u.answers
        BY <1>1, <1>2, ConcatEmptySeq
    <2>3. u.end = "open" => Numbered(u.answers, u.asked, Outstanding(u))
        BY <1>1, FirstOnes DEF ClientOk
    <2> QED
        BY <1>2, <2>1, <2>2, <2>3 DEF ClientOk
<1> QED
    BY <1>2, <1>3, <1>4

\* A connection is refused before it had an answer.
LEMMA Refusing ==
    ASSUME NEW u \in ClientTypes, u.answers = <<>>,
           NEW v, v = [u EXCEPT !.end = "refused", !.requests = <<>>]
    PROVE  /\ v \in ClientTypes /\ ClientOk(v) /\ v.end = "refused"
<1>1. /\ v.end = "refused" /\ v.requests = <<>> /\ v.answers = <<>>
    BY DEF ClientTypes
<1>2. v \in ClientTypes
    BY DEF ClientTypes, ClientEnds
<1>3. ClientOk(v)
    BY <1>1 DEF ClientOk
<1> QED
    BY <1>1, <1>2, <1>3

\* A client's end changes, and nothing else.
LEMMA ClientStep ==
    ASSUME Inv, NEW c \in Clients, NEW v \in ClientTypes, ClientOk(v),
           Client(c, v),
           UNCHANGED <<loopVars, ipcVars, kernelVars, worldVars>>,
           ui[c].requests # <<>> => v.requests # <<>>,
           ui[c].answers = <<>> => v.answers = <<>>,
           ui[c].end = "hung" => v.end = "hung",
           ui[c].end \in {"open", "hung"} => v.end \in {"open", "hung"},
           v.end \in {"shut", "refused"} => ui[c].end = v.end,
           ui[c].end = "refused" => v.end = "refused"
    PROVE  Inv'
<1>1. /\ ui' \in [Clients -> ClientTypes] /\ ui'[c] = v
      /\ \A d \in Clients \ {c} : ui'[d] = ui[d]
    BY DEF Client, Inv, Types
<1>2. Types'
    BY <1>1
    DEF Inv, Types, TypeOK, loopVars, ipcVars, kernelVars, worldVars
<1>3. RefusedClients' = RefusedClients
    BY <1>1 DEF RefusedClients
<1>4. StructureOk' /\ LeakIsRefusal'
    BY <1>3, StructureKept, LeakKept DEF Inv, loopVars, ipcVars, kernelVars
<1>5. PlacesOk'
    <2>1. backlog' = backlog /\ Open' = Open /\ file' = file
        BY DEF kernelVars, Open
    <2>2. \A l \in Listeners : \A k \in DOMAIN backlog[l] :
              backlog[l][k] \in Clients
        BY DEF Inv, Types, TypeOK
    <2>3. \A d \in Clients : ui[d].end \in {"open", "hung"}
                                 => ui'[d].end \in {"open", "hung"}
        BY <1>1
    <2>4. \A d \in Clients : ui[d].answers = <<>> => ui'[d].answers = <<>>
        BY <1>1
    <2> QED
        BY <2>1, <2>2, <2>3, <2>4 DEF Inv, PlacesOk
<1>6. StreamOk'
    BY <1>1 DEF Inv, StreamOk
<1>7. CauseOk'
    <2>1. \A d \in Clients : ui[d].end = "hung" => ui'[d].end = "hung"
        BY <1>1
    <2>2. \A d \in Clients : ui'[d].end = "shut" => ui[d].end = "shut"
        BY <1>1
    <2>3. \A d : InBacklog(d)' <=> InBacklog(d)
        BY DEF InBacklog, kernelVars
    <2>4. epipe' = epipe
        BY DEF ipcVars
    <2> QED
        BY <2>1, <2>2, <2>3, <2>4 DEF Inv, CauseOk, HungUp
<1>8. WalkOk'
    <2>1. \A d \in Clients :
              ui[d].requests # <<>> \/ ui[d].end = "hung"
                 => ui'[d].requests # <<>> \/ ui'[d].end = "hung"
        BY <1>1
    <2> QED
        BY <2>1, WalkKept DEF Inv, kernelVars
<1> QED
    BY <1>2, <1>4, <1>5, <1>6, <1>7, <1>8 DEF Inv, loopVars

LEMMA AskStep ==
    ASSUME Inv, NEW c \in Clients, Ask(c)
    PROVE  Inv'
<1> DEFINE v == [ui[c] EXCEPT !.asked = @ + 1, !.waiting = ui[c].asked + 1,
                              !.requests = Append(@, ui[c].asked + 1)]
<1>1. /\ ui[c].end = "open" /\ ui[c].waiting = 0 /\ Client(c, v)
      /\ UNCHANGED <<loopVars, ipcVars, kernelVars, worldVars>>
    BY DEF Ask
<1>2. ui[c] \in ClientTypes /\ ClientOk(ui[c])
    BY DEF Inv, Types, StreamOk
<1>3. /\ v \in ClientTypes /\ ClientOk(v) /\ v.end = ui[c].end
      /\ v.requests # <<>> /\ v.answers = ui[c].answers
    BY <1>1, <1>2, Asking
<1> HIDE DEF v
<1> QED
    BY <1>1, <1>3, ClientStep

LEMMA TakeStep ==
    ASSUME Inv, NEW c \in Clients, Take(c)
    PROVE  Inv'
<1> DEFINE v == [ui[c] EXCEPT !.waiting = 0, !.answers = <<>>]
<1>1. /\ ui[c].waiting # 0 /\ ui[c].answers # <<>> /\ Client(c, v)
      /\ UNCHANGED <<loopVars, ipcVars, kernelVars, worldVars>>
    BY DEF Take
<1>2. ui[c] \in ClientTypes /\ ClientOk(ui[c])
    BY DEF Inv, Types, StreamOk
<1>3. /\ v \in ClientTypes /\ ClientOk(v) /\ v.end = ui[c].end
      /\ v.requests = ui[c].requests /\ v.answers = <<>>
    BY <1>1, <1>2, Taking
<1> HIDE DEF v
<1> QED
    BY <1>1, <1>3, ClientStep

LEMMA GiveUpStep ==
    ASSUME Inv, NEW c \in Clients, GiveUp(c)
    PROVE  Inv'
<1> DEFINE v == [ui[c] EXCEPT !.waiting = 0,
                     !.late = IF ui[c].end = "open" THEN @ + 1 ELSE @]
<1>1. /\ ui[c].waiting # 0 /\ ui[c].answers = <<>> /\ Client(c, v)
      /\ UNCHANGED <<loopVars, ipcVars, kernelVars, worldVars>>
    BY DEF GiveUp
<1>2. ui[c] \in ClientTypes /\ ClientOk(ui[c])
    BY DEF Inv, Types, StreamOk
<1>3. /\ v \in ClientTypes /\ ClientOk(v) /\ v.end = ui[c].end
      /\ v.requests = ui[c].requests /\ v.answers = <<>>
    <2>1. PICK u : u = ui[c]
        OBVIOUS
    <2>2. v = [u EXCEPT !.waiting = 0,
                   !.late = IF u.end = "open" THEN @ + 1 ELSE @]
        BY <2>1
    <2>3. PICK w : w = v
        OBVIOUS
    <2> HIDE DEF v
    <2> QED
        BY <1>1, <1>2, <2>1, <2>2, <2>3, GivingUp
<1> HIDE DEF v
<1> QED
    BY <1>1, <1>3, ClientStep

LEMMA HangUpStep ==
    ASSUME Inv, NEW c \in Clients, HangUp(c)
    PROVE  Inv'
<1> DEFINE v == [Fresh EXCEPT !.end = "hung", !.requests = ui[c].requests]
<1>1. /\ ui[c].end = "open" /\ Client(c, v)
      /\ UNCHANGED <<loopVars, ipcVars, kernelVars, worldVars>>
    BY DEF HangUp
<1>2. ui[c].requests \in Seq(Nat)
    BY DEF Inv, Types, ClientTypes
<1>3. Fresh \in ClientTypes
    BY DEF Fresh, ClientTypes, ClientEnds
<1>4. /\ v.end = "hung" /\ v.requests = ui[c].requests /\ v.answers = <<>>
      /\ v.waiting = 0
    BY DEF Fresh
<1>5. v \in ClientTypes /\ ClientOk(v)
    <2>1. v \in ClientTypes
        BY <1>2, <1>3 DEF ClientTypes, ClientEnds
    <2>2. ClientOk(v)
        BY <1>4 DEF ClientOk
    <2> QED
        BY <2>1, <2>2
<1> HIDE DEF v
<1> QED
    BY <1>1, <1>5, <1>4, ClientStep

LEMMA ConnectStep ==
    ASSUME Inv, NEW c \in Clients, Connect(c)
    PROVE  Inv'
<1> DEFINE v == [ui[c] EXCEPT !.end = "open"]
           b == backlog[KindOf[c]]
<1>1. /\ ui[c].end = "out" /\ ui' = [ui EXCEPT ![c] = v]
      /\ backlog' = [backlog EXCEPT ![KindOf[c]] = Append(b, c)]
      /\ UNCHANGED <<loopVars, ipcVars, file, frames, links, worldVars>>
    BY DEF Connect, Client, Inv, Types
<1>2. ui[c] \in ClientTypes /\ ClientOk(ui[c])
    BY DEF Inv, Types, StreamOk
<1>3. /\ v \in ClientTypes /\ ClientOk(v) /\ v.end = "open"
      /\ v.requests = ui[c].requests /\ v.answers = <<>>
    <2>1. /\ ui[c].requests = <<>> /\ ui[c].answers = <<>>
          /\ ui[c].waiting = 0
        BY <1>1, <1>2 DEF ClientOk
    <2>2. /\ v.end = "open" /\ v.requests = <<>> /\ v.answers = <<>>
          /\ v.waiting = 0 /\ v.asked = ui[c].asked /\ v.late = ui[c].late
          /\ v = Parts(v)
        BY <1>2, <2>1 DEF ClientTypes, Parts
    <2>3. /\ v.requests \in Seq(Nat) /\ v.answers \in Seq(Nat)
          /\ v.waiting \in Nat /\ v.asked \in Nat /\ v.late \in Nat
        BY <1>2, <2>1, <2>2, PartsOf
    <2> HIDE DEF v
    <2>4. v \in ClientTypes
        BY <2>2, <2>3, PartsOk DEF ClientEnds
    <2>5. v.answers \o v.requests = <<>>
        BY <2>2
    <2>6. Numbered(<<>>, v.asked, Outstanding(v))
        BY DEF Numbered
    <2>7. ClientOk(v)
        BY <2>2, <2>5, <2>6 DEF ClientOk
    <2> QED
        BY <2>1, <2>2, <2>4, <2>7
<1> HIDE DEF v
<1>4. /\ ui' \in [Clients -> ClientTypes] /\ ui'[c] = v
      /\ \A d \in Clients \ {c} : ui'[d] = ui[d]
    BY <1>1, <1>3 DEF Inv, Types
<1>5. /\ KindOf[c] \in Listeners /\ b \in Seq(Clients)
      /\ Append(b, c) \in Seq(Clients)
      /\ Len(b) \in Nat /\ DOMAIN b = 1 .. Len(b)
      /\ DOMAIN Append(b, c) = 1 .. Len(b) + 1
      /\ \A k \in 1 .. Len(b) : Append(b, c)[k] = b[k]
      /\ Append(b, c)[Len(b) + 1] = c
      /\ Append(b, c) # <<>>
    <2>1. KindOf[c] \in Listeners
        BY IpcAssumption
    <2>2. b \in Seq(Clients)
        BY <2>1 DEF Inv, Types
    <2> HIDE DEF b
    <2> QED
        BY <2>1, <2>2, AppendProperties, LenProperties
<1>6. /\ backlog' \in [Listeners -> Seq(Clients)]
      /\ backlog'[KindOf[c]] = Append(b, c)
      /\ \A l \in Listeners \ {KindOf[c]} : backlog'[l] = backlog[l]
    <2> HIDE DEF b
    <2> QED
        BY <1>1, <1>5 DEF Inv, Types
<1> HIDE DEF b
<1>7. Types'
    BY <1>1, <1>4, <1>6 DEF Inv, Types, TypeOK, loopVars, ipcVars, worldVars
<1>8. RefusedClients' = RefusedClients
    BY <1>1, <1>3, <1>4 DEF RefusedClients
<1>9. StructureOk' /\ LeakIsRefusal'
    BY <1>1, <1>8, StructureKept, LeakKept DEF Inv, loopVars, ipcVars
<1>10. PlacesOk'
    <2>1. Open' = Open /\ file' = file
        BY <1>1 DEF Open
    <2>2. \A f \in Open : file[f] # c
        BY <1>1 DEF Inv, PlacesOk
    <2>3. \A l \in Listeners : \A k \in DOMAIN backlog[l] :
              backlog[l][k] \in Clients /\ backlog[l][k] # c
        <3>1. \A l \in Listeners : \A k \in DOMAIN backlog[l] :
                  backlog[l][k] \in Clients
            BY DEF Inv, Types, TypeOK
        <3>2. \A l \in Listeners : \A k \in DOMAIN backlog[l] :
                  ui[backlog[l][k]].end \in {"open", "hung"}
            BY DEF Inv, PlacesOk
        <3> QED
            BY <1>1, <3>1, <3>2
    <2>4. \A l \in Listeners : \A j, k \in DOMAIN backlog[l] :
              backlog[l][j] = backlog[l][k] => j = k
        BY DEF Inv, PlacesOk
    <2>5. ASSUME NEW l \in Listeners, NEW k \in DOMAIN backlog'[l]
          PROVE  LET d == backlog'[l][k]
                 IN  /\ KindOf[d] = l
                     /\ ui'[d].end \in {"open", "hung"}
                     /\ ui'[d].answers = <<>>
                     /\ \A f \in Open : file[f] # d
                     /\ \A j \in DOMAIN backlog'[l] :
                           backlog'[l][j] = d => j = k
        <3>1. CASE l # KindOf[c]
            <4>1. backlog'[l] = backlog[l]
                BY <1>6, <3>1
            <4> QED
                BY <1>4, <2>3, <4>1 DEF Inv, PlacesOk
        <3>2. CASE l = KindOf[c] /\ k \in 1 .. Len(b)
            <4>1. backlog'[l][k] = backlog[l][k] /\ k \in DOMAIN backlog[l]
                BY <1>5, <1>6, <3>2 DEF b
            <4>2. \A j \in DOMAIN backlog'[l] :
                      backlog'[l][j] = backlog[l][k] => j = k
                <5>1. SUFFICES ASSUME NEW j \in 1 .. Len(b) + 1,
                                      backlog'[l][j] = backlog[l][k]
                               PROVE  j = k
                    BY <1>5, <1>6, <3>2
                <5>2. CASE j = Len(b) + 1
                    <6>1. backlog'[l][j] = c
                        BY <1>5, <1>6, <3>2, <5>2
                    <6> QED
                        BY <2>3, <4>1, <5>1, <6>1
                <5>3. CASE j \in 1 .. Len(b)
                    <6>1. j \in DOMAIN backlog[l]
                          /\ backlog'[l][j] = backlog[l][j]
                        BY <1>5, <1>6, <3>2, <5>3 DEF b
                    <6> QED
                        BY <2>4, <4>1, <5>1, <6>1
                <5> QED
                    BY <1>5, <5>1, <5>2, <5>3
            <4> QED
                BY <1>4, <2>3, <4>1, <4>2 DEF Inv, PlacesOk
        <3>3. CASE l = KindOf[c] /\ k = Len(b) + 1
            <4>1. backlog'[l][k] = c
                BY <1>5, <1>6, <3>3
            <4>2. \A j \in DOMAIN backlog'[l] : backlog'[l][j] = c => j = k
                <5>1. SUFFICES ASSUME NEW j \in 1 .. Len(b),
                                      backlog'[l][j] = c
                               PROVE  FALSE
                    BY <1>5, <1>6, <3>3
                <5>2. j \in DOMAIN backlog[l] /\ backlog[l][j] = c
                    BY <1>5, <1>6, <3>3, <5>1 DEF b
                <5> QED
                    BY <2>3, <5>2
            <4> QED
                BY <1>3, <1>4, <2>2, <3>3, <4>1, <4>2
        <3> QED
            BY <1>5, <1>6, <3>1, <3>2, <3>3
    <2>6. ASSUME NEW f \in Open, file[f] \in Clients
          PROVE  ui'[file[f]].end \in {"open", "hung"}
        BY <1>4, <2>2, <2>6 DEF Inv, PlacesOk
    <2> QED
        BY <2>1, <2>5, <2>6 DEF PlacesOk
<1>11. StreamOk'
    BY <1>3, <1>4 DEF Inv, StreamOk
<1>12. CauseOk'
    <2>1. \A d \in Clients : /\ ui[d].end = "hung" <=> ui'[d].end = "hung"
                             /\ ui[d].end = "shut" <=> ui'[d].end = "shut"
        BY <1>1, <1>3, <1>4
    <2>2. \A d \in Clients \ {c} : ~ InBacklog(d) => ~ InBacklog(d)'
        <3>1. SUFFICES ASSUME NEW d \in Clients \ {c}, NEW l \in Listeners,
                              NEW k \in DOMAIN backlog'[l],
                              backlog'[l][k] = d
                       PROVE  InBacklog(d)
            BY DEF InBacklog
        <3>2. CASE l # KindOf[c]
            BY <1>6, <3>1, <3>2 DEF InBacklog
        <3>3. CASE l = KindOf[c]
            <4>1. k \in 1 .. Len(b) /\ b[k] = d
                BY <1>5, <1>6, <3>1, <3>3
            <4> QED
                BY <1>5, <3>3, <4>1 DEF InBacklog, b
        <3> QED
            BY <3>2, <3>3
    <2>3. epipe' = epipe
        BY <1>1 DEF ipcVars
    <2> QED
        BY <1>1, <2>1, <2>2, <2>3 DEF Inv, CauseOk, HungUp
<1>13. WalkOk'
    <2>1. \A d \in Clients :
              ui[d].requests # <<>> \/ ui[d].end = "hung"
                 => ui'[d].requests # <<>> \/ ui'[d].end = "hung"
        BY <1>1, <1>3, <1>4
    <2>2. \A l \in Listeners : backlog[l] # <<>> => backlog'[l] # <<>>
        BY <1>5, <1>6
    <2> QED
        BY <1>1, <2>1, <2>2, WalkKept DEF Inv
<1> QED
    BY <1>1, <1>7, <1>9, <1>10, <1>11, <1>12, <1>13 DEF Inv, loopVars

(***************************************************************************)
(* Counting the instances.                                                 *)
(***************************************************************************)
Taken == Instances \ FreeInstances

ServedSlots == {s \in InUse : events[s].source \in Clients}

LEMMA CountsAre ==
    /\ IsFiniteSet(Taken) /\ Cardinality(Taken) \in Nat
    /\ IsFiniteSet(ServedSlots) /\ Cardinality(ServedSlots) \in Nat
    /\ IsFiniteSet(RefusedClients) /\ Cardinality(RefusedClients) \in Nat
    /\ LeakIsRefusal <=> Cardinality(Taken) =
           Cardinality(ServedSlots) + Cardinality(RefusedClients)
<1>1. /\ Taken \in SUBSET Instances /\ ServedSlots \in SUBSET Slots
      /\ RefusedClients \in SUBSET Clients
    BY DEF Taken, ServedSlots, RefusedClients, InUse
<1>2. IsFiniteSet(Taken) /\ IsFiniteSet(ServedSlots)
      /\ IsFiniteSet(RefusedClients)
    BY <1>1, IpcAssumption, Numbers, FS_Subset
<1>3. /\ Cardinality(Taken) \in Nat /\ Cardinality(ServedSlots) \in Nat
      /\ Cardinality(RefusedClients) \in Nat
    BY <1>2, FS_CardinalityType
<1> QED
    BY <1>2, <1>3 DEF LeakIsRefusal, Taken, ServedSlots

\* The same for the state after a step.
LEMMA CountsAfter ==
    LeakIsRefusal' <=> Cardinality(Taken)' =
        Cardinality(ServedSlots)' + Cardinality(RefusedClients)'
BY DEF LeakIsRefusal, Taken, ServedSlots

LEMMA LeakAtClosing ==
    ASSUME Types, StructureOk, LeakIsRefusal,
           NEW s \in InUse, events' = [events EXCEPT ![s] = Unused],
           RefusedClients' = RefusedClients,
           \/ events[s].source \notin Clients /\ ipcs' = ipcs
           \/ /\ events[s].source \in Clients
              /\ \E i \in Taken : ipcs' = [ipcs EXCEPT ![i] = NoConnection]
    PROVE  LeakIsRefusal'
<1>1. /\ s \in Slots /\ events'[s] = Unused
      /\ \A t \in Slots \ {s} : events'[t] = events[t]
    BY DEF InUse, Types, TypeOK
<1>2. ServedSlots' = ServedSlots \ {s}
    BY <1>1 DEF ServedSlots, InUse, Unused
<1>3. CASE events[s].source \notin Clients /\ ipcs' = ipcs
    <2>1. ServedSlots' = ServedSlots /\ Taken' = Taken
        BY <1>2, <1>3 DEF ServedSlots, Taken, FreeInstances
    <2> QED
        BY <2>1, CountsAre, CountsAfter
<1>4. ASSUME events[s].source \in Clients, NEW i \in Taken,
             ipcs' = [ipcs EXCEPT ![i] = NoConnection]
      PROVE  LeakIsRefusal'
    <2>1. s \in ServedSlots
        BY <1>4 DEF ServedSlots
    <2>2. Taken' = Taken \ {i}
        BY <1>4 DEF Taken, FreeInstances, NoConnection, Types, TypeOK
    <2>3. /\ Cardinality(ServedSlots \ {s}) = Cardinality(ServedSlots) - 1
          /\ Cardinality(Taken \ {i}) = Cardinality(Taken) - 1
        BY <1>4, <2>1, CountsAre, FS_RemoveElement
    <2> QED
        BY <1>2, <2>2, <2>3, CountsAre, CountsAfter
<1> QED
    BY <1>3, <1>4

LEMMA LeakAtOpening ==
    ASSUME Types, StructureOk, LeakIsRefusal, RefusedClients' = RefusedClients,
           NEW t \in FreeSlots(events), NEW f \in Fds, NEW x,
           events' = [events EXCEPT ![t] = [sock |-> f, source |-> x]],
           \/ x \notin Clients /\ ipcs' = ipcs
           \/ /\ x \in Clients
              /\ \E i \in FreeInstances : \E flags :
                    ipcs' = [ipcs EXCEPT ![i] = [sock |-> f, flags |-> flags]]
    PROVE  LeakIsRefusal'
<1>1. /\ t \in Slots /\ events[t].sock = 0 /\ f # 0
      /\ events'[t] = [sock |-> f, source |-> x]
      /\ \A s \in Slots \ {t} : events'[s] = events[s]
    BY Numbers DEF FreeSlots, Types, TypeOK
<1>2. t \notin ServedSlots
    BY <1>1 DEF ServedSlots, InUse
<1>3. ServedSlots' = IF x \in Clients THEN ServedSlots \cup {t}
                     ELSE ServedSlots
    BY <1>1, <1>2 DEF ServedSlots, InUse
<1>4. CASE x \notin Clients /\ ipcs' = ipcs
    <2>1. ServedSlots' = ServedSlots /\ Taken' = Taken
        BY <1>3, <1>4 DEF Taken, FreeInstances
    <2> QED
        BY <2>1, CountsAre, CountsAfter
<1>5. ASSUME x \in Clients, NEW i \in FreeInstances, NEW flags,
             ipcs' = [ipcs EXCEPT ![i] = [sock |-> f, flags |-> flags]]
      PROVE  LeakIsRefusal'
    <2>1. Taken' = Taken \cup {i} /\ i \notin Taken
        BY <1>1, <1>5 DEF Taken, FreeInstances, Types, TypeOK
    <2>2. /\ Cardinality(ServedSlots \cup {t}) = Cardinality(ServedSlots) + 1
          /\ Cardinality(Taken \cup {i}) = Cardinality(Taken) + 1
        BY <1>2, <2>1, CountsAre, FS_AddElement
    <2> QED
        BY <1>3, <1>5, <2>1, <2>2, CountsAre, CountsAfter
<1> QED
    BY <1>4, <1>5

LEMMA LeakAtRefusal ==
    ASSUME Types, LeakIsRefusal, events' = events,
           NEW c \in Clients, c \notin RefusedClients,
           RefusedClients' = RefusedClients \cup {c},
           NEW i \in FreeInstances, NEW f \in Fds, NEW flags,
           ipcs' = [ipcs EXCEPT ![i] = [sock |-> f, flags |-> flags]]
    PROVE  LeakIsRefusal'
<1>1. ServedSlots' = ServedSlots
    BY DEF ServedSlots, InUse
<1>2. Taken' = Taken \cup {i} /\ i \notin Taken
    BY Numbers DEF Taken, FreeInstances, Types, TypeOK
<1>3. /\ Cardinality(RefusedClients \cup {c})
             = Cardinality(RefusedClients) + 1
      /\ Cardinality(Taken \cup {i}) = Cardinality(Taken) + 1
    BY <1>2, CountsAre, FS_AddElement
<1> QED
    BY <1>1, <1>2, <1>3, CountsAre, CountsAfter

(***************************************************************************)
(* Requests.                                                               *)
(***************************************************************************)

\* The slot whose handler is called, and those ahead of it.
LEMMA Ahead ==
    ASSUME Inv, NEW s \in Slots, Due(s), NEW t \in Slots, t > at,
           events[t].sock \in rfds
    PROVE  /\ t \in InUse /\ t # s /\ StillDue(t) /\ Readable(events[t].sock)
                 \in BOOLEAN
           /\ events[t].sock \in Open
           /\ file[events[t].sock] = events[t].source
           /\ s \in InUse => /\ events[t].sock # events[s].sock
                             /\ events[t].source # events[s].source
<1>1. at = s /\ phase = "walk" /\ t >= at /\ t # s
    BY Numbers DEF Due, Inv, Types, TypeOK
<1>2. t \in InUse /\ events[t].sock \in Open
      /\ file[events[t].sock] = events[t].source
    BY InUseIs DEF Inv
<1>3. StillDue(t)
    BY <1>1 DEF Inv, WalkOk
<1>4. ASSUME s \in InUse
      PROVE  /\ events[t].sock # events[s].sock
             /\ events[t].source # events[s].source
    <2>1. events[s].sock \in Open /\ file[events[s].sock] = events[s].source
        BY <1>4, InUseIs DEF Inv
    <2>2. events[t].sock # events[s].sock
        BY <1>1, <1>2, <1>4 DEF Inv, StructureOk, TableMatches
    <2> QED
        BY <1>2, <2>1, <2>2 DEF Inv, StructureOk, FilesOnce
<1> QED
    BY <1>1, <1>2, <1>3, <1>4 DEF Readable

LEMMA AnswerStep ==
    ASSUME Inv, NEW s \in Slots, Due(s), events[s].source \in Clients,
           IpcAnswer(s),
           UNCHANGED <<listed, backlog, frames, links, worldVars>>
    PROVE  Inv'
<1> DEFINE f == events[s].sock
           c == file[f]
           w == [ui[c] EXCEPT !.requests = <<>>,
                              !.answers =
                                  IF ui[c].end = "open"
                                  THEN Append(@, Head(ui[c].requests)) ELSE @]
           x == [ui[c] EXCEPT !.requests = <<>>]
<1>1. /\ phase = "walk" /\ at = s /\ s \in InUse /\ f \in Open /\ f \in Fds
      /\ c = events[s].source /\ c \in Clients
    BY InUseIs, IpcAssumption DEF Due, Inv
<1>2. /\ \/ /\ Len(ui[c].requests) = 1
            /\ ReturnsAfter(<<f>>, events)
            /\ epipe' = ErrnoAfter(<<f>>) /\ ui' = [ui EXCEPT ![c] = w]
         \/ /\ Returns(events) /\ UNCHANGED epipe
            /\ ui' = [ui EXCEPT ![c] = x]
      /\ UNCHANGED <<ipcs, file>>
    BY <1>1 DEF IpcAnswer, Inv, Types
<1>3. /\ \A d \in Clients \ {c} : ui'[d] = ui[d]
      /\ ui'[c] \in {w, x}
      /\ Len(ui[c].requests) = 1 \/ ui'[c] = x
    BY <1>1, <1>2 DEF Inv, Types
<1>4. ui[c] \in ClientTypes /\ ClientOk(ui[c])
      /\ ui[c].end \in {"open", "hung"}
    BY <1>1 DEF Inv, Types, StreamOk, PlacesOk
<1>5. /\ ui'[c] \in ClientTypes /\ ClientOk(ui'[c])
      /\ ui'[c].end = ui[c].end
    <2>1. PICK u : u = ui[c]
        OBVIOUS
    <2>2. /\ w = [u EXCEPT !.requests = <<>>,
                           !.answers = IF u.end = "open"
                                       THEN Append(@, Head(u.requests))
                                       ELSE @]
          /\ x = [u EXCEPT !.requests = <<>>]
        BY <2>1
    <2>3. PICK y : y = ui'[c]
        OBVIOUS
    <2>4. CASE ui'[c] = x
        <3> HIDE DEF w
        <3> QED
            BY <1>4, <2>1, <2>2, <2>4, Discarding
    <2>5. CASE ui'[c] = w /\ Len(ui[c].requests) = 1
        <3>1. /\ y = [u EXCEPT !.requests = <<>>,
                               !.answers = IF u.end = "open"
                                           THEN Append(@, Head(u.requests))
                                           ELSE @]
            BY <2>2, <2>3, <2>5
        <3>2. /\ u \in ClientTypes /\ ClientOk(u) /\ Len(u.requests) = 1
              /\ u.end \in {"open", "hung"}
            BY <1>4, <2>1, <2>5
        <3>3. y \in ClientTypes /\ y.end = u.end /\ ClientOk(y)
            BY <3>1, <3>2, Answering
        <3> QED
            BY <2>1, <2>3, <3>3
    <2> QED
        BY <1>3, <2>4, <2>5
<1>6. ui' \in [Clients -> ClientTypes]
    <2>1. PICK z : ui' = [ui EXCEPT ![c] = z]
        BY <1>2
    <2>2. ui \in [Clients -> ClientTypes]
        BY DEF Inv, Types
    <2>3. z \in ClientTypes
        BY <1>1, <1>5, <2>1, <2>2
    <2> QED
        BY <1>1, <2>1, <2>2, <2>3
<1> HIDE DEF w, x
<1>7. events \in [Slots -> Entries]
    BY DEF Inv, Types, TypeOK, Entries
<1>8. /\ events' = events /\ rfds' = rfds /\ at' \in Slots
      /\ phase' \in {"walk", "machines", "killed"}
      /\ (\A t \in Slots : t > at /\ events[t].sock \in rfds
                               => StillDue(t)') => WalkOk'
    <2>1. \/ Returns(events)
          \/ \E fs \in {EventSockets, <<events[at].sock>>} :
                ReturnsAfter(fs, events)
        BY <1>1, <1>2
    <2> QED
        BY <1>1, <1>7, <2>1, Handled DEF Inv
<1>9. /\ epipe' \in BOOLEAN
      /\ epipe' => epipe \/ \E d \in HungUp : ~ InBacklog(d)
    <2>1. DOMAIN <<f>> \in SUBSET (0 .. Cardinality(Instances) + 1)
        BY Numbers
    <2>2. \A k \in DOMAIN <<f>> : <<f>>[k] \in Fds
        BY <1>1
    <2>3. PICK fs : fs = <<f>>
        OBVIOUS
    <2> QED
        <3>1. epipe \in BOOLEAN
            BY DEF Inv, Types, TypeOK
        <3>2. CASE epipe' = ErrnoAfter(fs)
            BY <2>1, <2>2, <2>3, <3>2, Sending DEF Inv
        <3>3. CASE epipe' = epipe
            BY <3>1, <3>3
        <3> QED
            BY <1>2, <2>3, <3>2, <3>3
<1> HIDE DEF f
<1>10. Types'
    BY <1>2, <1>6, <1>8, <1>9 DEF Inv, Types, TypeOK, worldVars
<1>11. RefusedClients' = RefusedClients /\ HungUp' = HungUp
    BY <1>1, <1>3, <1>5 DEF RefusedClients, HungUp
<1>12. StructureOk' /\ LeakIsRefusal'
    BY <1>2, <1>8, <1>11, StructureKept, LeakKept DEF Inv
<1>13. PlacesOk'
    <2>1. \A l \in Listeners : \A k \in DOMAIN backlog[l] :
              backlog[l][k] \in Clients
        BY DEF Inv, Types, TypeOK
    <2>2. \A l \in Listeners : \A k \in DOMAIN backlog[l] : backlog[l][k] # c
        BY <1>1 DEF Inv, PlacesOk
    <2>3. Open' = Open
        BY <1>2 DEF Open
    <2>4. \A d \in Clients : ui'[d].end = ui[d].end
        BY <1>3, <1>5
    <2> QED
        BY <1>2, <1>3, <2>1, <2>2, <2>3, <2>4 DEF Inv, PlacesOk
<1>14. StreamOk'
    BY <1>3, <1>5 DEF Inv, StreamOk
<1>15. CauseOk'
    <2>1. \A d \in Clients : ui'[d].end = ui[d].end
        BY <1>3, <1>5
    <2>2. \A d : InBacklog(d)' <=> InBacklog(d)
        BY DEF InBacklog
    <2> QED
        BY <1>9, <1>11, <2>1, <2>2 DEF Inv, CauseOk
<1>16. ASSUME NEW t \in Slots, t > at, events[t].sock \in rfds
       PROVE  StillDue(t)'
    <2>1. /\ StillDue(t) /\ file[events[t].sock] # c
          /\ t \in InUse /\ file[events[t].sock] = events[t].source
        BY <1>1, <1>16, Ahead
    <2> QED
        BY <1>2, <1>3, <1>8, <2>1 DEF StillDue, Readable, InUse
<1> QED
    BY <1>8, <1>10, <1>12, <1>13, <1>14, <1>15, <1>16 DEF Inv

LEMMA BrokenStep ==
    ASSUME Inv, NEW s \in Slots, Due(s), events[s].source \in Clients,
           IpcBroken(s),
           UNCHANGED <<listed, backlog, frames, links, worldVars>>
    PROVE  Inv'
<1> DEFINE f == events[s].sock
           c == file[f]
           v == [ui[c] EXCEPT !.end = IF @ = "open" THEN "shut" ELSE @,
                              !.requests = <<>>]
           table == [events EXCEPT ![s] = Unused]
<1>1. /\ phase = "walk" /\ at = s /\ s \in InUse /\ f \in Open /\ f \in Fds
      /\ c = events[s].source /\ c \in Clients
    BY InUseIs, IpcAssumption DEF Due, Inv
<1>2. /\ epipe \/ ui[c].end = "hung"
      /\ file' = [file EXCEPT ![f] = "none"]
      /\ Returns(event_core_deregister(f))
      /\ ipcs' = [ipcs EXCEPT ![Min(Known(f))] = NoConnection]
      /\ ui' = Shut(c) /\ epipe' = epipe
    BY DEF IpcBroken
<1>3. /\ ui'[c] = v /\ \A d \in Clients \ {c} : ui'[d] = ui[d]
      /\ ui' = [ui EXCEPT ![c] = v]
    BY <1>1, <1>2 DEF Shut, Inv, Types
<1>4. ui[c] \in ClientTypes /\ ClientOk(ui[c])
      /\ ui[c].end \in {"open", "hung"}
    BY <1>1 DEF Inv, Types, StreamOk, PlacesOk
<1>5. /\ v \in ClientTypes /\ ClientOk(v)
      /\ v.end = IF ui[c].end = "open" THEN "shut" ELSE "hung"
    <2>1. PICK u : u = ui[c]
        OBVIOUS
    <2>2. v = [u EXCEPT !.end = IF @ = "open" THEN "shut" ELSE @,
                        !.requests = <<>>]
        BY <2>1
    <2>3. PICK w : w = v
        OBVIOUS
    <2> HIDE DEF v
    <2> QED
        BY <1>4, <2>1, <2>2, <2>3, Shutting
<1> HIDE DEF v
<1>6. table \in [Slots -> Entries]
    BY <1>1 DEF Inv, Types, TypeOK, Entries, Unused
<1>7. Returns(table)
    BY <1>1, <1>2, Deregistering DEF Inv, Types, StructureOk
<1>8. /\ table[s] = Unused
      /\ \A t \in Slots \ {s} : table[t] = events[t]
    BY DEF Inv, Types, TypeOK
<1> HIDE DEF table
<1>9. /\ events' = table /\ rfds' = rfds /\ at' \in Slots
      /\ phase' \in {"walk", "machines", "killed"}
      /\ (\A t \in Slots : t > at /\ table[t].sock \in rfds
                               => StillDue(t)') => WalkOk'
    BY <1>1, <1>6, <1>7, Handled DEF Inv
<1>10. PICK i \in Instances : /\ Known(f) = {i}
                              /\ ipcs' = [ipcs EXCEPT ![i] = NoConnection]
    BY <1>1, <1>2, KnownIs DEF Inv, Types
<1>11. events' = [events EXCEPT ![s] = Unused]
    BY <1>9 DEF table
<1>12. ipcs[i].sock = f /\ i \in Taken
    <2>1. i \in Known(f)
        BY <1>10
    <2>2. f # 0
        BY <1>1, Numbers
    <2> QED
        BY <2>1, <2>2 DEF Known, Taken, FreeInstances
<1>13. StructureOk'
    <2>1. listed' = listed \ {events[s].source}
        BY <1>1, IpcAssumption DEF Inv, Types, TypeOK
    <2> QED
        BY <1>1, <1>2, <1>10, <1>11, <2>1, Closing DEF Inv, Types
<1>14. Types'
    <2>1. ipcs' \in [Instances -> [sock : Fds \cup {0},
                                   flags : SUBSET {"CONNECTED",
                                                   "EVENTS_ONLY"}]]
        BY <1>10 DEF Inv, Types, TypeOK, NoConnection
    <2>2. file' \in [Fds -> Sources \cup {"none"}]
        BY <1>2 DEF Inv, Types, TypeOK
    <2>3. ui' \in [Clients -> ClientTypes]
        BY <1>3, <1>5 DEF Inv, Types
    <2> QED
        BY <1>2, <1>6, <1>9, <2>1, <2>2, <2>3
        DEF Inv, Types, TypeOK, worldVars, Entries
<1>15. RefusedClients' = RefusedClients /\ HungUp' = HungUp
    BY <1>1, <1>3, <1>4, <1>5 DEF RefusedClients, HungUp
<1>16. LeakIsRefusal'
    <2>1. \E j \in Taken : ipcs' = [ipcs EXCEPT ![j] = NoConnection]
        BY <1>10, <1>12
    <2> QED
        BY <1>1, <1>11, <1>15, <2>1, LeakAtClosing DEF Inv
<1>17. /\ file'[f] = "none" /\ \A g \in Fds \ {f} : file'[g] = file[g]
       /\ Open' = Open \ {f}
    BY <1>1, <1>2 DEF Inv, Types, TypeOK, Open
<1> HIDE DEF f
<1>18. PlacesOk'
    <2>1. \A l \in Listeners : \A k \in DOMAIN backlog[l] :
              backlog[l][k] \in Clients
        BY DEF Inv, Types, TypeOK
    <2>2. \A l \in Listeners : \A k \in DOMAIN backlog[l] : backlog[l][k] # c
        BY <1>1 DEF Inv, PlacesOk
    <2>3. \A g \in Open' : g \in Open /\ file'[g] = file[g] /\ file[g] # c
        BY <1>1, <1>17 DEF Inv, StructureOk, FilesOnce, Open
    <2> QED
        BY <1>3, <2>1, <2>2, <2>3 DEF Inv, PlacesOk
<1>19. StreamOk'
    BY <1>3, <1>5 DEF Inv, StreamOk
<1>20. CauseOk'
    <2>1. \A d \in Clients \ {c} : ui'[d].end = ui[d].end
        BY <1>3
    <2>2. \A d : InBacklog(d)' <=> InBacklog(d)
        BY DEF InBacklog
    <2>3. CASE epipe
        BY <1>2, <1>15, <2>2, <2>3 DEF Inv, CauseOk
    <2>4. CASE ui[c].end = "hung"
        <3>1. ui'[c].end = "hung"
            BY <1>3, <1>5, <2>4
        <3>2. c \in HungUp /\ ~ InBacklog(c)
            BY <1>1, <2>4 DEF HungUp, InBacklog, Inv, PlacesOk
        <3> QED
            BY <1>15, <2>2, <3>2 DEF CauseOk
    <2> QED
        BY <1>2, <2>3, <2>4
<1>21. ASSUME NEW t \in Slots, t > at, table[t].sock \in rfds
       PROVE  StillDue(t)'
    <2>1. t # s
        BY <1>1, <1>21, Numbers DEF Inv, Types, TypeOK
    <2>2. table[t] = events[t] /\ events[t].sock \in rfds
        BY <1>8, <1>21, <2>1
    <2>3. /\ StillDue(t) /\ file[events[t].sock] # c
          /\ events[t].sock # f /\ events[t].sock \in Open
          /\ t \in InUse /\ file[events[t].sock] = events[t].source
        BY <1>1, <1>21, <2>2, Ahead DEF f
    <2>4. file'[events[t].sock] = file[events[t].sock]
        BY <1>17, <2>3 DEF Open
    <2>5. c \notin Listeners
        BY <1>1, IpcAssumption
    <2>6. \A r \in InUse : events[r].source \in Listeners
              => events'[r] = events[r] /\ r \in InUse'
        BY <1>1, <1>8, <1>9, <2>5 DEF InUse
    <2>7. events[t].source \in Clients
              => KindOf[events[t].source] \in Listeners
        BY IpcAssumption
    <2>8. Readable(events[t].sock) => Readable(events[t].sock)'
        BY <1>3, <1>9, <2>2, <2>3, <2>4 DEF Readable
    <2> QED
        BY <1>9, <2>2, <2>3, <2>6, <2>7, <2>8 DEF StillDue
<1> QED
    BY <1>9, <1>13, <1>14, <1>16, <1>18, <1>19, <1>20, <1>21 DEF Inv

\* No connection is unknown.
LEMMA EventStep ==
    ASSUME Inv, NEW s \in Slots, xsup_ipc_event(s)
    PROVE  Inv'
<1>1. /\ Due(s) /\ events[s].source \in Clients
      /\ UNCHANGED <<listed, backlog, frames, links, worldVars>>
    BY DEF xsup_ipc_event
<1>2. s \in InUse
    BY <1>1, InUseIs, IpcAssumption DEF Inv
<1>3. Known(events[s].sock) # {}
    BY <1>1, <1>2, KnownIs DEF Inv, Types
<1>4. IpcAnswer(s) \/ IpcBroken(s)
    BY <1>3 DEF xsup_ipc_event
<1> QED
    BY <1>1, <1>4, AnswerStep, BrokenStep

(***************************************************************************)
(* Interfaces that come and go.                                            *)
(***************************************************************************)

\* The message is taken off: what the walk still needs is elsewhere, because
\* the socket of the messages is in the first slot.
LEMMA LinkStep ==
    ASSUME Inv, NEW s \in Slots, cardif_linux_rtnetlink_check_event(s)
    PROVE  /\ phase = "walk" /\ at = s /\ s = 0 /\ s \in InUse
           /\ events[s].source = "rtnl" /\ rfds \subseteq Open
           /\ links' = Tail(links)
           /\ Head(links).iface \in Interfaces
           /\ links' \in Seq([type : {"new", "del"}, iface : Interfaces])
           /\ UNCHANGED <<ipcs, backlog, worldVars, ui>>
           /\ \A f \in Open : file[f] \in Interfaces => file[f] \in listed
<1>1. /\ phase = "walk" /\ at = s /\ events[s].source = "rtnl"
      /\ links # <<>> /\ links' = Tail(links)
      /\ UNCHANGED <<ipcs, backlog, worldVars, ui>>
    BY DEF cardif_linux_rtnetlink_check_event, Due, NewLink, DelLink,
           LinkIgnored
<1>2. s \in InUse
    BY <1>1, InUseIs DEF Inv
<1>3. s = 0
    BY <1>1, <1>2 DEF Inv, StructureOk, TableMatches
<1>4. rfds \subseteq Open
    BY <1>1, <1>3 DEF Inv, WalkOk
<1>5. /\ Head(links) \in [type : {"new", "del"}, iface : Interfaces]
      /\ Tail(links) \in Seq([type : {"new", "del"}, iface : Interfaces])
    BY <1>1, HeadTailProperties DEF Inv, Types
<1> QED
    BY <1>1, <1>2, <1>3, <1>4, <1>5 DEF Inv, StructureOk, FilesOnce

\* What nobody connected or closed does to the clients.
LEMMA LinkClients ==
    ASSUME Inv, UNCHANGED <<backlog, ui>>,
           \A f \in Open' : /\ file'[f] \in Clients
                            => f \in Open /\ file'[f] = file[f],
           epipe' => epipe \/ \E c \in HungUp : ~ InBacklog(c)
    PROVE  /\ PlacesOk' /\ StreamOk' /\ CauseOk'
           /\ RefusedClients' = RefusedClients
<1>1. PlacesOk'
    <2>1. \A l \in Listeners : \A k \in DOMAIN backlog[l] :
              backlog[l][k] \in Clients
        BY DEF Inv, Types, TypeOK
    <2>2. \A l \in Listeners : \A k \in DOMAIN backlog[l] :
              \A f \in Open' : file'[f] # backlog[l][k]
        BY <2>1 DEF Inv, PlacesOk
    <2> QED
        BY <2>2 DEF Inv, PlacesOk
<1>2. StreamOk' /\ CauseOk'
    BY StreamKept, CauseKept DEF Inv
<1> QED
    BY <1>1, <1>2 DEF RefusedClients

LEMMA NewLinkStep ==
    ASSUME Inv, NEW s \in Slots, cardif_linux_rtnetlink_check_event(s),
           NewLink(Head(links).iface)
    PROVE  Inv'
<1> DEFINE i == Head(links).iface
           table == Registered(NewFd, i)
<1>1. /\ phase = "walk" /\ at = s /\ s = 0 /\ s \in InUse
      /\ rfds \subseteq Open /\ i \in Interfaces
      /\ events[s].source = "rtnl"
      /\ links' \in Seq([type : {"new", "del"}, iface : Interfaces])
      /\ UNCHANGED <<ipcs, backlog, worldVars, ui>>
      /\ \A f \in Open : file[f] \in Interfaces => file[f] \in listed
    BY LinkStep
<1> HIDE DEF i
<1>2. /\ i \notin listed /\ listed' = listed \cup {i}
      /\ file' = [file EXCEPT ![NewFd] = i]
      /\ xsup_ipc_send_all /\ ReturnsAfter(EventSockets, table)
      /\ frames' = frames
    BY DEF NewLink, i
<1>3. i \in Interfaces \cup Clients /\ (\A f \in Open : file[f] # i)
      /\ i \notin Clients
    BY <1>1, <1>2, IpcAssumption
<1>4. /\ NewFd \in Fds /\ NewFd \notin Open
    BY <1>3, NewFdOk DEF Inv, Types, StructureOk
<1>5. /\ FreeSlots(events) = {} => table = events
      /\ FreeSlots(events) # {} =>
            \E t \in FreeSlots(events) :
                table = [events EXCEPT ![t] = [sock |-> NewFd, source |-> i]]
    BY <1>3, Registering DEF Inv, Types
<1> HIDE DEF table
<1>6. table \in [Slots -> Entries]
    <2>1. i \in Sources
        BY <1>1 DEF Sources
    <2>2. [sock |-> NewFd, source |-> i] \in Entries
        BY <1>4, <2>1 DEF Entries
    <2>3. events \in [Slots -> Entries]
        BY DEF Inv, Types, TypeOK, Entries
    <2> QED
        BY <1>5, <2>2, <2>3
<1>7. /\ events' = table /\ rfds' = rfds /\ at' \in Slots
      /\ phase' \in {"walk", "machines", "killed"}
      /\ (\A t \in Slots : t > at /\ table[t].sock \in rfds
                               => StillDue(t)') => WalkOk'
    BY <1>1, <1>2, <1>6, Handled DEF Inv
<1>8. /\ epipe' \in BOOLEAN
      /\ epipe' => epipe \/ \E c \in HungUp : ~ InBacklog(c)
    BY <1>2, EventsSent DEF Inv
<1>9. /\ file'[NewFd] = i /\ \A f \in Fds \ {NewFd} : file'[f] = file[f]
      /\ Open' = Open \cup {NewFd}
    BY <1>2, <1>3, <1>4, IpcAssumption DEF Inv, Types, TypeOK, Open
<1>10. Types'
    <2>1. file' \in [Fds -> Sources \cup {"none"}]
        BY <1>1, <1>2 DEF Inv, Types, TypeOK, Sources
    <2> QED
        BY <1>1, <1>2, <1>6, <1>7, <1>8, <2>1
        DEF Inv, Types, TypeOK, worldVars, Entries
<1>11. StructureOk'
    <2>1. ipcs' = ipcs
        BY <1>1
    <2>2. CASE FreeSlots(events) = {}
        BY <1>1, <1>2, <1>3, <1>5, <1>7, <2>1, <2>2, OpensUnwatched
        DEF Inv, Types
    <2>3. ASSUME NEW t \in FreeSlots(events),
                 table = [events EXCEPT ![t] = [sock |-> NewFd, source |-> i]]
          PROVE  StructureOk'
        <3>1. listed' = IF i \in Interfaces THEN listed \cup {i} ELSE listed
            BY <1>1, <1>2
        <3> QED
            BY <1>1, <1>2, <1>3, <1>7, <2>1, <2>3, <3>1, OpensWatched
            DEF Inv, Types
    <2> QED
        BY <1>5, <2>2, <2>3
<1>12. PlacesOk' /\ StreamOk' /\ CauseOk' /\ RefusedClients' = RefusedClients
    <2>1. \A f \in Open' : file'[f] \in Clients
              => f \in Open /\ file'[f] = file[f]
        BY <1>3, <1>9 DEF Open
    <2> QED
        BY <1>1, <1>8, <2>1, LinkClients
<1>13. LeakIsRefusal'
    <2>1. CASE FreeSlots(events) = {}
        BY <1>1, <1>5, <1>7, <1>12, <2>1, LeakKept DEF Inv
    <2>2. ASSUME NEW t \in FreeSlots(events),
                 table = [events EXCEPT ![t] = [sock |-> NewFd, source |-> i]]
          PROVE  LeakIsRefusal'
        BY <1>1, <1>3, <1>4, <1>7, <1>12, <2>2, LeakAtOpening DEF Inv
    <2> QED
        BY <1>5, <2>1, <2>2
<1>14. ASSUME NEW t \in Slots, t > at, table[t].sock \in rfds
       PROVE  StillDue(t)'
    <2>1. Due(s)
        BY <1>1 DEF Due
    <2>2. \A r \in Slots : table[r] = events[r] \/
              (r \in FreeSlots(events) /\ table[r].sock = NewFd)
        BY <1>5 DEF Inv, Types, TypeOK
    <2>3. table[t] = events[t] /\ events[t].sock \in rfds
        BY <1>1, <1>4, <1>14, <2>2
    <2>4. /\ StillDue(t) /\ events[t].sock \in Open
          /\ events[t].source # "rtnl"
          /\ t \in InUse /\ file[events[t].sock] = events[t].source
        BY <1>1, <1>14, <2>1, <2>3, Ahead
    <2>5. file'[events[t].sock] = file[events[t].sock]
        BY <1>4, <1>9, <2>4 DEF Open
    <2>6. \A r \in InUse : events'[r] = events[r] /\ r \in InUse'
        BY <1>7, <2>2 DEF InUse, FreeSlots
    <2>7. Readable(events[t].sock) => Readable(events[t].sock)'
        BY <1>1, <1>2, <1>7, <2>3, <2>4, <2>5 DEF Readable
    <2> QED
        BY <1>7, <2>3, <2>4, <2>6, <2>7 DEF StillDue
<1> QED
    BY <1>7, <1>10, <1>11, <1>12, <1>13, <1>14 DEF Inv

LEMMA DelLinkStep ==
    ASSUME Inv, NEW s \in Slots, cardif_linux_rtnetlink_check_event(s),
           DelLink(Head(links).iface)
    PROVE  Inv'
<1> DEFINE i == Head(links).iface
<1>1. /\ phase = "walk" /\ at = s /\ s = 0 /\ s \in InUse
      /\ rfds \subseteq Open /\ i \in Interfaces
      /\ events[s].source = "rtnl"
      /\ links' \in Seq([type : {"new", "del"}, iface : Interfaces])
      /\ UNCHANGED <<ipcs, backlog, worldVars, ui>>
    BY LinkStep
<1> HIDE DEF i
<1>2. PICK u \in Slots :
          /\ events[u].source = i
          /\ listed' = listed \ {i}
          /\ file' = [file EXCEPT ![events[u].sock] = "none"]
          /\ frames' = frames \ {i} /\ xsup_ipc_send_all
          /\ ReturnsAfter(EventSockets,
                          event_core_deregister(events[u].sock))
    BY DEF DelLink, i
<1> DEFINE table == [events EXCEPT ![u] = Unused]
           f == events[u].sock
<1>3. /\ u \in InUse /\ f \in Open /\ f \in Fds /\ file[f] = i
      /\ i \notin Clients /\ i # "rtnl" /\ i \notin Listeners /\ u # s
    BY <1>1, <1>2, InUseIs, IpcAssumption DEF Inv
<1>4. ReturnsAfter(EventSockets, table)
    BY <1>2, <1>3, Deregistering DEF Inv, Types, StructureOk
<1>5. table \in [Slots -> Entries]
    BY <1>3 DEF Inv, Types, TypeOK, Entries, Unused
<1>6. /\ table[u] = Unused
      /\ \A t \in Slots \ {u} : table[t] = events[t]
    BY DEF Inv, Types, TypeOK
<1> HIDE DEF table
<1>7. /\ events' = table /\ rfds' = rfds /\ at' \in Slots
      /\ phase' \in {"walk", "machines", "killed"}
      /\ (\A t \in Slots : t > at /\ table[t].sock \in rfds
                               => StillDue(t)') => WalkOk'
    BY <1>1, <1>4, <1>5, Handled DEF Inv
<1>8. /\ epipe' \in BOOLEAN
      /\ epipe' => epipe \/ \E c \in HungUp : ~ InBacklog(c)
    BY <1>2, EventsSent DEF Inv
<1>9. /\ file'[f] = "none" /\ \A g \in Fds \ {f} : file'[g] = file[g]
      /\ Open' = Open \ {f}
    BY <1>2, <1>3 DEF Inv, Types, TypeOK, Open
<1>10. Types'
    <2>1. file' \in [Fds -> Sources \cup {"none"}]
        BY <1>2 DEF Inv, Types, TypeOK
    <2> QED
        BY <1>1, <1>2, <1>5, <1>7, <1>8, <2>1
        DEF Inv, Types, TypeOK, worldVars, Entries
<1>11. events' = [events EXCEPT ![u] = Unused]
    BY <1>7 DEF table
<1>12. StructureOk'
    BY <1>1, <1>2, <1>3, <1>11, Closing DEF Inv, Types
<1>13. PlacesOk' /\ StreamOk' /\ CauseOk' /\ RefusedClients' = RefusedClients
    <2>1. \A g \in Open' : file'[g] \in Clients
              => g \in Open /\ file'[g] = file[g]
        BY <1>9 DEF Open
    <2> QED
        BY <1>1, <1>8, <2>1, LinkClients
<1>14. LeakIsRefusal'
    BY <1>1, <1>2, <1>3, <1>11, <1>13, LeakAtClosing DEF Inv
<1>15. ASSUME NEW t \in Slots, t > at, table[t].sock \in rfds
       PROVE  StillDue(t)'
    <2>1. Due(s)
        BY <1>1 DEF Due
    <2>2. t # u /\ table[t] = events[t] /\ events[t].sock \in rfds
        <3>1. 0 \notin rfds
            BY Numbers DEF Inv, Types, TypeOK
        <3> QED
            BY <1>6, <1>15, <3>1 DEF Unused
    <2>3. /\ StillDue(t) /\ events[t].sock \in Open
          /\ events[t].source # "rtnl"
          /\ t \in InUse /\ file[events[t].sock] = events[t].source
        BY <1>1, <1>15, <2>1, <2>2, Ahead
    <2>4. events[t].sock # f /\ events[t].source # i
        <3>1. events[t].sock # f
            BY <1>3, <2>2, <2>3 DEF Inv, StructureOk, TableMatches
        <3> QED
            BY <1>3, <2>3, <3>1 DEF Inv, StructureOk, FilesOnce
    <2>5. file'[events[t].sock] = file[events[t].sock]
        BY <1>9, <2>3, <2>4 DEF Open
    <2>6. \A r \in InUse : events[r].source \in Listeners
              => events'[r] = events[r] /\ r \in InUse'
        BY <1>2, <1>3, <1>6, <1>7 DEF InUse
    <2>7. events[t].source \in Clients
              => KindOf[events[t].source] \in Listeners
        BY IpcAssumption
    <2>8. Readable(events[t].sock) => Readable(events[t].sock)'
        BY <1>1, <1>2, <1>7, <2>2, <2>3, <2>4, <2>5 DEF Readable
    <2> QED
        BY <1>7, <2>2, <2>3, <2>6, <2>7, <2>8 DEF StillDue
<1> QED
    BY <1>7, <1>10, <1>12, <1>13, <1>14, <1>15 DEF Inv

LEMMA LinkIgnoredStep ==
    ASSUME Inv, NEW s \in Slots, cardif_linux_rtnetlink_check_event(s),
           Returns(events), UNCHANGED <<listed, file, frames, epipe>>
    PROVE  Inv'
<1>1. /\ phase = "walk" /\ at = s /\ s \in InUse
      /\ events[s].source = "rtnl"
      /\ links' \in Seq([type : {"new", "del"}, iface : Interfaces])
      /\ UNCHANGED <<ipcs, backlog, worldVars, ui>>
    BY LinkStep
<1>2. events \in [Slots -> Entries]
    BY DEF Inv, Types, TypeOK, Entries
<1>3. /\ events' = events /\ rfds' = rfds /\ at' \in Slots
      /\ phase' \in {"walk", "machines", "killed"}
      /\ (\A t \in Slots : t > at /\ events[t].sock \in rfds
                               => StillDue(t)') => WalkOk'
    BY <1>1, <1>2, Handled DEF Inv
<1>4. Types'
    BY <1>1, <1>3 DEF Inv, Types, TypeOK, worldVars
<1>5. StructureOk' /\ PlacesOk' /\ StreamOk' /\ CauseOk' /\ LeakIsRefusal'
    BY <1>1, <1>3, StructureKept, PlacesKept, StreamKept, CauseKept, LeakKept
    DEF Inv, RefusedClients
<1>6. ASSUME NEW t \in Slots, t > at, events[t].sock \in rfds
      PROVE  StillDue(t)'
    <2>1. Due(s)
        BY <1>1 DEF Due
    <2>2. StillDue(t) /\ file[events[t].sock] = events[t].source
          /\ events[t].source # "rtnl"
        BY <1>1, <1>6, <2>1, Ahead
    <2> QED
        BY <1>1, <1>3, <2>2 DEF StillDue, Readable, InUse
<1> QED
    BY <1>3, <1>4, <1>5, <1>6 DEF Inv

LEMMA RtnetlinkStep ==
    ASSUME Inv, NEW s \in Slots, cardif_linux_rtnetlink_check_event(s)
    PROVE  Inv'
<1>1. \/ NewLink(Head(links).iface)
      \/ DelLink(Head(links).iface)
      \/ LinkIgnored(Head(links).type, Head(links).iface)
    BY DEF cardif_linux_rtnetlink_check_event
<1> QED
    BY <1>1, NewLinkStep, DelLinkStep, LinkIgnoredStep DEF LinkIgnored

(***************************************************************************)
(* A connection is accepted.                                               *)
(***************************************************************************)

\* The first of a backlog, and what is left of it.
FirstTaken(l, c) ==
    /\ c \in Clients /\ KindOf[c] = l /\ InBacklog(c)
    /\ ui[c].end \in {"open", "hung"} /\ ui[c].answers = <<>>
    /\ \A f \in Open : file[f] # c
    /\ backlog' \in [Listeners -> Seq(Clients)]
    /\ \A m \in Listeners \ {l} : backlog'[m] = backlog[m]
    /\ \A m \in Listeners : \A k \in DOMAIN backlog'[m] :
          /\ backlog'[m][k] # c /\ backlog'[m][k] \in Clients
          /\ \E j \in DOMAIN backlog[m] :
                backlog'[m][k] = backlog[m][j]
          /\ \A j \in DOMAIN backlog'[m] :
                backlog'[m][j] = backlog'[m][k] => j = k

LEMMA FirstOfBacklog ==
    ASSUME Inv, NEW l \in Listeners, backlog[l] # <<>>,
           NEW c, c = Head(backlog[l]),
           backlog' = [backlog EXCEPT ![l] = Tail(@)]
    PROVE  FirstTaken(l, c)
<1> DEFINE b == backlog[l]
<1>1. b \in Seq(Clients) /\ b # <<>>
    BY DEF Inv, Types
<1>2. /\ Tail(b) \in Seq(Clients)
      /\ Len(b) \in Nat \ {0} /\ DOMAIN b = 1 .. Len(b)
      /\ Len(Tail(b)) = Len(b) - 1
      /\ \A k \in 1 .. Len(Tail(b)) : Tail(b)[k] = b[k + 1]
      /\ DOMAIN Tail(b) = 1 .. Len(Tail(b))
      /\ c = b[1]
    <2> HIDE DEF b
    <2>1. /\ Tail(b) \in Seq(Clients)
          /\ Len(Tail(b)) = Len(b) - 1
          /\ \A k \in 1 .. Len(Tail(b)) : Tail(b)[k] = b[k + 1]
        BY <1>1, HeadTailProperties
    <2>2. Len(b) \in Nat \ {0} /\ DOMAIN b = 1 .. Len(b)
          /\ DOMAIN Tail(b) = 1 .. Len(Tail(b))
        BY <1>1, <2>1, EmptySeq, LenProperties
    <2>3. c = b[1]
        BY <1>1 DEF b
    <2> QED
        BY <2>1, <2>2, <2>3
<1>3. 1 \in DOMAIN b /\ b[1] \in Clients
    BY <1>1, <1>2
<1>4. /\ c \in Clients /\ KindOf[c] = l /\ InBacklog(c)
      /\ ui[c].end \in {"open", "hung"} /\ ui[c].answers = <<>>
      /\ \A f \in Open : file[f] # c
    BY <1>2, <1>3 DEF Inv, PlacesOk, InBacklog
<1>5. /\ backlog' \in [Listeners -> Seq(Clients)]
      /\ \A m \in Listeners \ {l} : backlog'[m] = backlog[m]
      /\ backlog'[l] = Tail(b)
    BY <1>2 DEF Inv, Types
<1>6. \A m \in Listeners : \A j, k \in DOMAIN backlog[m] :
          backlog[m][j] = backlog[m][k] => j = k
    BY DEF Inv, PlacesOk
<1>7. \A m \in Listeners : \A k \in DOMAIN backlog[m] :
          backlog[m][k] \in Clients
    BY DEF Inv, Types, TypeOK
<1>8. ASSUME NEW m \in Listeners, NEW k \in DOMAIN backlog'[m]
      PROVE  /\ backlog'[m][k] # c /\ backlog'[m][k] \in Clients
             /\ \E j \in DOMAIN backlog[m] : backlog'[m][k] = backlog[m][j]
             /\ \A j \in DOMAIN backlog'[m] :
                   backlog'[m][j] = backlog'[m][k] => j = k
    <2>1. CASE m # l
        <3>1. backlog'[m] = backlog[m]
            BY <1>5, <2>1
        <3>2. KindOf[backlog[m][k]] = m
            BY <3>1 DEF Inv, PlacesOk
        <3> QED
            BY <1>4, <1>6, <1>7, <2>1, <3>1, <3>2
    <2>2. CASE m = l
        <3>1. /\ DOMAIN backlog'[m] = 1 .. Len(b) - 1
              /\ \A j \in 1 .. Len(b) - 1 :
                    /\ j + 1 \in DOMAIN backlog[m] /\ j + 1 # 1
                    /\ backlog'[m][j] = backlog[m][j + 1]
            BY <1>2, <1>5, <2>2
        <3>2. k \in 1 .. Len(b) - 1
            BY <3>1
        <3>3. backlog[m][k + 1] # backlog[m][1]
            BY <1>3, <1>6, <2>2, <3>1, <3>2
        <3>4. ASSUME NEW j \in 1 .. Len(b) - 1,
                     backlog'[m][j] = backlog'[m][k]
              PROVE  j = k
            <4>1. j + 1 = k + 1
                BY <1>6, <3>1, <3>2, <3>4
            <4> QED
                BY <1>2, <3>2, <4>1
        <3> QED
            BY <1>2, <1>7, <2>2, <3>1, <3>2, <3>3, <3>4
    <2> QED
        BY <2>1, <2>2
<1> QED
    BY <1>4, <1>5, <1>8 DEF FirstTaken

LEMMA AcceptStep ==
    ASSUME Inv, NEW s \in Slots, xsup_ipc_new_socket(s), FreeInstances # {}
    PROVE  Inv'
<1>1. PICK l, c : l = events[s].source /\ c = Head(backlog[l])
    OBVIOUS
<1> DEFINE i == Min(FreeInstances)
           table == Registered(NewFd, c)
<1>2. /\ phase = "walk" /\ at = s /\ Due(s) /\ l \in Listeners
      /\ l = events[s].source /\ c = Head(backlog[l])
      /\ backlog[l] # <<>>
      /\ backlog' = [backlog EXCEPT ![l] = Tail(@)]
      /\ ipcs' = [ipcs EXCEPT ![i] = [sock |-> NewFd, flags |-> FlagsOf(l)]]
      /\ Returns(table)
      /\ IF FreeSlots(events) # {}
         THEN file' = [file EXCEPT ![NewFd] = c] /\ UNCHANGED ui
         ELSE ui' = Refused(c) /\ UNCHANGED file
      /\ UNCHANGED <<epipe, listed, frames, links, worldVars>>
    BY <1>1 DEF xsup_ipc_new_socket, Due
<1>3. s \in InUse /\ l # "none"
    BY <1>2, InUseIs, IpcAssumption DEF Inv, Listeners
<1>4. i \in FreeInstances /\ i \in Instances
    <2>1. FreeInstances \in SUBSET Nat
        BY Numbers DEF FreeInstances
    <2>2. Min(FreeInstances) \in FreeInstances
        BY <2>1, LeastOne
    <2> QED
        BY <2>2 DEF FreeInstances
<1>5. /\ c \in Clients /\ KindOf[c] = l /\ InBacklog(c)
      /\ ui[c].end \in {"open", "hung"} /\ ui[c].answers = <<>>
      /\ \A f \in Open : file[f] # c
      /\ backlog' \in [Listeners -> Seq(Clients)]
      /\ \A m \in Listeners \ {l} : backlog'[m] = backlog[m]
      /\ \A m \in Listeners : \A k \in DOMAIN backlog'[m] :
            /\ backlog'[m][k] # c /\ backlog'[m][k] \in Clients
            /\ \E j \in DOMAIN backlog[m] : backlog'[m][k] = backlog[m][j]
            /\ \A j \in DOMAIN backlog'[m] :
                  backlog'[m][j] = backlog'[m][k] => j = k
    <2>1. FirstTaken(l, c)
        BY <1>2, FirstOfBacklog
    <2> QED
        BY <2>1 DEF FirstTaken
<1> HIDE DEF i
<1>6. c \in Interfaces \cup Clients /\ c \notin Interfaces
      /\ c \in Sources /\ c # "none"
    BY <1>5, IpcAssumption DEF Sources
<1>7. NewFd \in Fds /\ NewFd \notin Open
    BY <1>5, <1>6, NewFdOk DEF Inv, Types, StructureOk
<1>8. /\ FreeSlots(events) = {} => table = events
      /\ FreeSlots(events) # {} =>
            \E t \in FreeSlots(events) :
                table = [events EXCEPT ![t] = [sock |-> NewFd, source |-> c]]
    BY <1>6, Registering DEF Inv, Types
<1> HIDE DEF table
<1>9. table \in [Slots -> Entries]
    <2>1. [sock |-> NewFd, source |-> c] \in Entries
        BY <1>6, <1>7 DEF Entries
    <2>2. events \in [Slots -> Entries]
        BY DEF Inv, Types, TypeOK, Entries
    <2> QED
        BY <1>8, <2>1, <2>2
<1>10. /\ events' = table /\ rfds' = rfds /\ at' \in Slots
       /\ phase' \in {"walk", "machines", "killed"}
       /\ (\A t \in Slots : t > at /\ table[t].sock \in rfds
                                => StillDue(t)') => WalkOk'
    BY <1>2, <1>9, Handled DEF Inv
<1>11. CASE FreeSlots(events) # {}
    <2>1. file' = [file EXCEPT ![NewFd] = c] /\ ui' = ui
        BY <1>2, <1>11
    <2>2. /\ file'[NewFd] = c /\ \A f \in Fds \ {NewFd} : file'[f] = file[f]
          /\ Open' = Open \cup {NewFd}
        BY <1>6, <1>7, <2>1 DEF Inv, Types, TypeOK, Open
    <2>3. PICK t \in FreeSlots(events) :
              table = [events EXCEPT ![t] = [sock |-> NewFd, source |-> c]]
        BY <1>8, <1>11
    <2>4. Types'
        <3>1. file' \in [Fds -> Sources \cup {"none"}]
            BY <1>6, <2>1 DEF Inv, Types, TypeOK
        <3>2. ipcs' \in [Instances -> [sock : Fds \cup {0},
                                       flags : SUBSET {"CONNECTED",
                                                       "EVENTS_ONLY"}]]
            BY <1>2, <1>4, <1>7 DEF Inv, Types, TypeOK, FlagsOf
        <3> QED
            BY <1>2, <1>5, <1>9, <1>10, <2>1, <3>1, <3>2
            DEF Inv, Types, TypeOK, worldVars, Entries
    <2>5. StructureOk'
        <3>1. listed' = IF c \in Interfaces THEN listed \cup {c} ELSE listed
            BY <1>2, <1>6
        <3>2. \E j \in FreeInstances :
                  ipcs' = [ipcs EXCEPT ![j] =
                              [sock |-> NewFd, flags |-> FlagsOf(KindOf[c])]]
            BY <1>2, <1>4, <1>5
        <3> QED
            BY <1>5, <1>6, <1>10, <2>1, <2>3, <3>1, <3>2, OpensWatched
            DEF Inv, Types
    <2>6. RefusedClients' = RefusedClients /\ HungUp' = HungUp
        BY <2>1 DEF RefusedClients, HungUp
    <2>7. LeakIsRefusal'
        <3>1. \E j \in FreeInstances : \E flags :
                  ipcs' = [ipcs EXCEPT ![j] =
                              [sock |-> NewFd, flags |-> flags]]
            BY <1>2, <1>4
        <3> QED
            BY <1>5, <1>7, <1>10, <2>3, <2>6, <3>1, LeakAtOpening DEF Inv
    <2>8. PlacesOk'
        <3>1. ASSUME NEW m \in Listeners, NEW k \in DOMAIN backlog'[m]
              PROVE  LET d == backlog'[m][k]
                     IN  /\ KindOf[d] = m
                         /\ ui[d].end \in {"open", "hung"}
                         /\ ui[d].answers = <<>>
                         /\ \A f \in Open' : file'[f] # d
            <4>1. PICK j \in DOMAIN backlog[m] :
                      backlog'[m][k] = backlog[m][j]
                BY <1>5
            <4>2. \A f \in Open : file[f] # backlog[m][j]
                BY DEF Inv, PlacesOk
            <4>3. \A f \in Open' : file'[f] # backlog'[m][k]
                BY <1>5, <1>7, <2>2, <4>1, <4>2 DEF Open
            <4> QED
                BY <4>1, <4>3 DEF Inv, PlacesOk
        <3>2. \A f \in Open' : file'[f] \in Clients
                  => ui[file'[f]].end \in {"open", "hung"}
            BY <1>5, <2>2 DEF Inv, PlacesOk, Open
        <3> QED
            BY <1>5, <2>1, <3>1, <3>2 DEF PlacesOk
    <2>9. StreamOk'
        BY <2>1, StreamKept DEF Inv
    <2>10. CauseOk'
        <3>1. \A d : InBacklog(d)' => InBacklog(d)
            BY <1>5 DEF InBacklog
        <3> QED
            BY <1>2, <2>1, <2>6, <3>1 DEF Inv, CauseOk
    <2>11. ASSUME NEW r \in Slots, r > at, table[r].sock \in rfds
           PROVE  StillDue(r)'
        <3>1. /\ t \in Slots /\ t \notin InUse
              /\ table[t] = [sock |-> NewFd, source |-> c]
              /\ \A q \in Slots \ {t} : table[q] = events[q]
            BY <2>3 DEF FreeSlots, InUse, Inv, Types, TypeOK
        <3>2. \A q \in InUse : events'[q] = events[q] /\ q \in InUse'
            BY <1>10, <3>1 DEF InUse
        <3>3. CASE r = t
            <4>1. s < r
                BY <1>2, <2>11, Numbers DEF Inv, Types, TypeOK
            <4>2. events'[r].source = c
                BY <1>10, <3>1, <3>3
            <4>3. s \in InUse' /\ events'[s].source = KindOf[c]
                BY <1>2, <1>3, <1>5, <3>2
            <4> QED
                BY <1>5, <4>1, <4>2, <4>3 DEF StillDue
        <3>4. CASE r # t
            <4>1. table[r] = events[r] /\ events[r].sock \in rfds
                BY <2>11, <3>1, <3>4
            <4>2. /\ StillDue(r) /\ events[r].sock \in Open
                  /\ events[r].source # l
                  /\ r \in InUse /\ file[events[r].sock] = events[r].source
                BY <1>2, <1>3, <2>11, <4>1, Ahead
            <4>3. file'[events[r].sock] = file[events[r].sock]
                BY <1>7, <2>2, <4>2 DEF Open
            <4>4. Readable(events[r].sock) => Readable(events[r].sock)'
                <5>1. PICK f, x : /\ f = events[r].sock /\ f = events'[r].sock
                                  /\ x = file[f] /\ x = file'[f] /\ x # l
                    BY <1>10, <4>1, <4>2, <4>3
                <5>2. x \in Listeners => backlog'[x] = backlog[x]
                    BY <1>5, <5>1
                <5>3. ui' = ui /\ frames' = frames /\ links' = links
                    BY <1>2, <2>1
                <5> QED
                    BY <5>1, <5>2, <5>3 DEF Readable
            <4> QED
                BY <1>10, <3>2, <4>1, <4>2, <4>4 DEF StillDue
        <3> QED
            BY <3>3, <3>4
    <2> QED
        BY <1>10, <2>4, <2>5, <2>7, <2>8, <2>9, <2>10, <2>11 DEF Inv
<1>12. CASE FreeSlots(events) = {}
    <2>1. file' = file /\ ui' = Refused(c) /\ events' = events
          /\ table = events
        BY <1>2, <1>8, <1>10, <1>12
    <2> DEFINE v == [ui[c] EXCEPT !.end = "refused", !.requests = <<>>]
    <2>2. /\ ui'[c] = v /\ \A d \in Clients \ {c} : ui'[d] = ui[d]
          /\ ui' = [ui EXCEPT ![c] = v]
        BY <1>5, <2>1 DEF Refused, Inv, Types
    <2>3. v \in ClientTypes /\ ClientOk(v) /\ v.end = "refused"
        <3>1. ui[c] \in ClientTypes
            BY <1>5 DEF Inv, Types
        <3> QED
            BY <1>5, <3>1, Refusing
    <2> HIDE DEF v
    <2>4. Open' = Open
        BY <2>1 DEF Open
    <2>5. Types'
        <3>1. ui' \in [Clients -> ClientTypes]
            BY <2>2, <2>3 DEF Inv, Types
        <3>2. ipcs' \in [Instances -> [sock : Fds \cup {0},
                                       flags : SUBSET {"CONNECTED",
                                                       "EVENTS_ONLY"}]]
            BY <1>2, <1>4, <1>7 DEF Inv, Types, TypeOK, FlagsOf
        <3> QED
            BY <1>2, <1>5, <1>10, <2>1, <3>1, <3>2, SMTT(20)
            DEF Inv, Types, TypeOK, worldVars
    <2>6. StructureOk'
        <3>1. PICK flags : flags = FlagsOf(l)
            OBVIOUS
        <3> QED
            BY <1>2, <1>4, <1>5, <1>12, <2>1, <3>1, Leaking DEF Inv, Types
    <2>7. /\ RefusedClients' = RefusedClients \cup {c}
          /\ c \notin RefusedClients
        BY <1>5, <2>2, <2>3 DEF RefusedClients
    <2>8. LeakIsRefusal'
        <3>1. PICK flags : flags = FlagsOf(l)
            OBVIOUS
        <3> QED
            BY <1>2, <1>4, <1>5, <1>7, <2>1, <2>7, <3>1, LeakAtRefusal
            DEF Inv
    <2>9. PlacesOk'
        <3>1. ASSUME NEW m \in Listeners, NEW k \in DOMAIN backlog'[m]
              PROVE  LET d == backlog'[m][k]
                     IN  /\ KindOf[d] = m
                         /\ ui'[d].end \in {"open", "hung"}
                         /\ ui'[d].answers = <<>>
                         /\ \A f \in Open : file[f] # d
            <4>1. PICK j \in DOMAIN backlog[m] :
                      backlog'[m][k] = backlog[m][j]
                BY <1>5
            <4>2. ui'[backlog[m][j]] = ui[backlog[m][j]]
                BY <1>5, <2>2, <4>1
            <4> QED
                BY <4>1, <4>2 DEF Inv, PlacesOk
        <3>2. \A f \in Open : file[f] \in Clients
                  => ui'[file[f]].end \in {"open", "hung"}
            BY <1>5, <2>2 DEF Inv, PlacesOk
        <3> QED
            BY <1>5, <2>1, <2>4, <3>1, <3>2 DEF PlacesOk
    <2>10. StreamOk'
        BY <2>2, <2>3 DEF Inv, StreamOk
    <2>11. CauseOk'
        <3>1. \A d : InBacklog(d)' => InBacklog(d)
            BY <1>5 DEF InBacklog
        <3>2. \A d \in Clients : ui'[d].end = "shut" => ui[d].end = "shut"
            BY <2>2, <2>3
        <3>3. \A d \in HungUp : ~ InBacklog(d) => d \in HungUp'
            BY <1>5, <2>2 DEF HungUp
        <3>4. epipe' = epipe
            BY <1>2
        <3> QED
            BY <3>1, <3>2, <3>3, <3>4 DEF Inv, CauseOk
    <2>12. ASSUME NEW r \in Slots, r > at, table[r].sock \in rfds
           PROVE  StillDue(r)'
        <3>1. /\ StillDue(r) /\ events[r].sock \in Open
              /\ events[r].source # l
              /\ r \in InUse /\ file[events[r].sock] = events[r].source
            BY <1>2, <1>3, <2>1, <2>12, Ahead
        <3>2. file[events[r].sock] # c
            BY <1>5, <3>1
        <3>3. Readable(events[r].sock) => Readable(events[r].sock)'
            <4>1. PICK f, x : /\ f = events[r].sock /\ f = events'[r].sock
                              /\ x = file[f] /\ x = file'[f]
                              /\ x # l /\ x # c
                BY <2>1, <3>1, <3>2
            <4>2. /\ x \in Listeners => backlog'[x] = backlog[x]
                  /\ x \in Clients => ui'[x] = ui[x]
                BY <1>5, <2>2, <4>1
            <4>3. frames' = frames /\ links' = links
                BY <1>2
            <4> QED
                BY <4>1, <4>2, <4>3 DEF Readable
        <3> QED
            BY <2>1, <3>1, <3>3 DEF StillDue, InUse
    <2> QED
        BY <1>10, <2>5, <2>6, <2>8, <2>9, <2>10, <2>11, <2>12 DEF Inv
<1> QED
    BY <1>11, <1>12

\* No instance is free: the listener stays readable.
LEMMA NoInstanceStep ==
    ASSUME Inv, NEW s \in Slots, xsup_ipc_new_socket(s), FreeInstances = {}
    PROVE  Inv'
<1>1. /\ phase = "walk" /\ at = s /\ Due(s) /\ events[s].source \in Listeners
      /\ Returns(events)
      /\ UNCHANGED <<ipcs, file, backlog, ui, epipe, listed, frames, links,
                     worldVars>>
    BY DEF xsup_ipc_new_socket, Due
<1>2. events \in [Slots -> Entries]
    BY DEF Inv, Types, TypeOK, Entries
<1>3. /\ events' = events /\ rfds' = rfds /\ at' \in Slots
      /\ phase' \in {"walk", "machines", "killed"}
      /\ (\A t \in Slots : t > at /\ events[t].sock \in rfds
                               => StillDue(t)') => WalkOk'
    BY <1>1, <1>2, Handled DEF Inv
<1>4. Types'
    BY <1>1, <1>3 DEF Inv, Types, TypeOK, worldVars
<1>5. StructureOk' /\ PlacesOk' /\ StreamOk' /\ CauseOk' /\ LeakIsRefusal'
    BY <1>1, <1>3, StructureKept, PlacesKept, StreamKept, CauseKept, LeakKept
    DEF Inv, RefusedClients
<1>6. ASSUME NEW t \in Slots, t > at, events[t].sock \in rfds
      PROVE  StillDue(t)'
    <2>1. StillDue(t)
        BY <1>1, <1>6, Ahead
    <2> QED
        BY <1>1, <1>3, <2>1 DEF StillDue, Readable, InUse
<1> QED
    BY <1>3, <1>4, <1>5, <1>6 DEF Inv

(***************************************************************************)
(* The start.                                                              *)
(***************************************************************************)
LEMMA InitInv ==
    ASSUME Init
    PROVE  Inv
<1> DEFINE FdOf(s) == IF s = 0 THEN 1 ELSE MaxEvents + 1 - s
<1>1. PICK n \in 0 .. Len(Ifaces) :
          LET b == Booted(n)
          IN  /\ file = [f \in Fds |-> IF f \in DOMAIN b THEN b[f]
                                       ELSE "none"]
              /\ events = BootTable(b)
              /\ plugged = {b[f] : f \in 2 .. n + 1}
              /\ listed = plugged
              /\ phase = "select" /\ at = 0 /\ rfds = {}
              /\ ipcs = [i \in Instances |-> NoConnection]
              /\ epipe = FALSE
              /\ backlog = [l \in Listeners |-> <<>>]
              /\ frames = {} /\ links = <<>> /\ moves = 0
              /\ sigpipe \in {"kills", "ignored"}
              /\ ui = [c \in Clients |-> Fresh]
    BY DEF Init
<1> DEFINE b == Booted(n)
           m == n + 3
<1>2. /\ DOMAIN events = Slots
      /\ \A s \in Slots :
            events[s] = IF FdOf(s) \in DOMAIN b
                        THEN [sock |-> FdOf(s), source |-> b[FdOf(s)]]
                        ELSE Unused
      /\ file = [f \in Fds |-> IF f \in DOMAIN b THEN b[f] ELSE "none"]
      /\ plugged = {b[f] : f \in 2 .. n + 1} /\ listed = plugged
      /\ n \in 0 .. Len(Ifaces)
    BY <1>1 DEF BootTable
<1>3. /\ n \in Nat /\ n <= Len(Ifaces) /\ m \in Nat
      /\ \A k \in 1 .. n : Ifaces[k] \in Interfaces
      /\ DOMAIN Ifaces = 1 .. Len(Ifaces)
    BY <1>1, IpcAssumption, Numbers, LenProperties DEF Interfaces
<1>4. /\ DOMAIN b = 1 .. m
      /\ b[1] = "rtnl" /\ b[n + 2] = "event" /\ b[n + 3] = "control"
      /\ \A f \in 2 .. n + 1 : b[f] = Ifaces[f - 1]
    <2> DEFINE p == SubSeq(Ifaces, 1, n)
               q == <<"rtnl">>
               r == <<"event", "control">>
    <2>1. /\ p \in Seq(Sources) /\ Len(p) = n
          /\ \A k \in 1 .. n : p[k] = Ifaces[k]
        <3>1. \A k \in 1 .. n : Ifaces[k] \in Sources
            BY <1>3 DEF Sources
        <3>2. /\ p \in Seq(Sources)
              /\ Len(p) = IF 1 <= n THEN n - 1 + 1 ELSE 0
              /\ \A k \in 1 .. n - 1 + 1 : p[k] = Ifaces[1 + k - 1]
            <4>1. 1 \in Int /\ n \in Int
                BY <1>3
            <4> QED
                BY <3>1, <4>1, SubSeqProperties
        <3> QED
            BY <1>3, <3>2
    <2>2. /\ q \in Seq(Sources) /\ Len(q) = 1 /\ q[1] = "rtnl"
          /\ r \in Seq(Sources) /\ Len(r) = 2
          /\ r[1] = "event" /\ r[2] = "control"
        BY DEF Sources, Listeners
    <2>3. b = (q \o p) \o r
        BY DEF Booted
    <2> HIDE DEF p, q, r
    <2>4. /\ q \o p \in Seq(Sources) /\ Len(q \o p) = 1 + n
          /\ \A k \in 1 .. 1 + n :
                (q \o p)[k] = IF k <= 1 THEN q[k] ELSE p[k - 1]
        <3>1. /\ q \o p \in Seq(Sources) /\ Len(q \o p) = Len(q) + Len(p)
              /\ \A k \in 1 .. Len(q) + Len(p) :
                    (q \o p)[k] = IF k <= Len(q) THEN q[k] ELSE p[k - Len(q)]
            BY <2>1, <2>2, ConcatProperties
        <3>2. Len(q) = 1 /\ Len(p) = n
            BY <2>1, <2>2
        <3> QED
            BY <3>1, <3>2
    <2>5. PICK x \in Seq(Sources) : x = q \o p
        BY <2>4
    <2>6. /\ x \o r \in Seq(Sources) /\ Len(x \o r) = 1 + n + 2
          /\ \A k \in 1 .. 1 + n + 2 :
                (x \o r)[k] = IF k <= 1 + n THEN x[k] ELSE r[k - (1 + n)]
        <3>1. /\ x \o r \in Seq(Sources) /\ Len(x \o r) = Len(x) + Len(r)
              /\ \A k \in 1 .. Len(x) + Len(r) :
                    (x \o r)[k] = IF k <= Len(x) THEN x[k] ELSE r[k - Len(x)]
            BY <2>2, <2>5, ConcatProperties
        <3>2. Len(x) = 1 + n /\ Len(r) = 2
            BY <2>2, <2>4, <2>5
        <3> QED
            BY <3>1, <3>2
    <2>7. b \in Seq(Sources) /\ Len(b) = m /\ b = x \o r
        BY <1>3, <2>3, <2>5, <2>6
    <2>8. DOMAIN b = 1 .. m
        <3> HIDE DEF b
        <3> QED
            BY <2>7, LenProperties
    <2>9. b[1] = "rtnl"
        <3>1. 1 \in 1 .. 1 + n + 2 /\ 1 <= 1 + n /\ 1 \in 1 .. 1 + n
            BY <1>3
        <3> HIDE DEF b
        <3> QED
            BY <2>2, <2>4, <2>5, <2>6, <2>7, <3>1, SMTT(20)
    <2>10. b[n + 2] = "event" /\ b[n + 3] = "control"
        <3>1. /\ n + 2 \in 1 .. 1 + n + 2 /\ n + 3 \in 1 .. 1 + n + 2
              /\ ~ (n + 2 <= 1 + n) /\ ~ (n + 3 <= 1 + n)
              /\ n + 2 - (1 + n) = 1 /\ n + 3 - (1 + n) = 2
            BY <1>3
        <3> HIDE DEF b
        <3> QED
            BY <2>2, <2>6, <2>7, <3>1
    <2>11. \A f \in 2 .. n + 1 : b[f] = Ifaces[f - 1]
        <3> HIDE DEF b
        <3>1. SUFFICES ASSUME NEW f \in 2 .. n + 1 PROVE b[f] = Ifaces[f - 1]
            OBVIOUS
        <3>2. /\ f \in 1 .. 1 + n + 2 /\ f <= 1 + n /\ f \in 1 .. 1 + n
              /\ ~ (f <= 1) /\ f - 1 \in 1 .. n
            BY <1>3, <3>1
        <3> QED
            BY <2>1, <2>4, <2>5, <2>6, <2>7, <3>2
    <2> QED
        BY <2>8, <2>9, <2>10, <2>11
<1>5. /\ \A f \in 1 .. m : /\ b[f] \in {"rtnl"} \cup Listeners \cup Interfaces
                           /\ b[f] \notin Clients /\ b[f] # "none"
                           /\ b[f] = "rtnl" <=> f = 1
                           /\ b[f] \in Interfaces <=> f \in 2 .. n + 1
      /\ \A f, g \in 1 .. m : b[f] = b[g] => f = g
    <2>1. ASSUME NEW f \in 1 .. m
          PROVE  \/ f = 1 /\ b[f] = "rtnl"
                 \/ f = n + 2 /\ b[f] = "event"
                 \/ f = n + 3 /\ b[f] = "control"
                 \/ /\ f \in 2 .. n + 1 /\ b[f] = Ifaces[f - 1]
                    /\ f - 1 \in DOMAIN Ifaces /\ b[f] \in Interfaces
        <3>1. f = 1 \/ f = n + 2 \/ f = n + 3 \/ f \in 2 .. n + 1
            BY <1>3
        <3>2. f \in 2 .. n + 1 => f - 1 \in 1 .. n /\ f - 1 \in DOMAIN Ifaces
            BY <1>3
        <3> HIDE DEF b, m
        <3> QED
            BY <1>3, <1>4, <3>1, <3>2
    <2>2. /\ "rtnl" \notin Interfaces \cup Clients
          /\ "none" \notin Interfaces \cup Clients
          /\ "event" \notin Interfaces \cup Clients
          /\ "control" \notin Interfaces \cup Clients
          /\ Interfaces \cap Clients = {}
        BY IpcAssumption DEF Listeners
    <2>3. /\ 1 \notin 2 .. n + 1 /\ n + 2 \notin 2 .. n + 1
          /\ n + 3 \notin 2 .. n + 1 /\ n + 2 # 1 /\ n + 3 # 1
        BY <1>3
    <2>4. \A f \in 1 .. m :
              /\ b[f] \in {"rtnl"} \cup Listeners \cup Interfaces
              /\ b[f] \notin Clients /\ b[f] # "none"
              /\ b[f] = "rtnl" <=> f = 1
              /\ b[f] \in Interfaces <=> f \in 2 .. n + 1
        <3> HIDE DEF b, m
        <3> QED
            BY <2>1, <2>2, <2>3 DEF Listeners
    <2>5. ASSUME NEW f \in 1 .. m, NEW g \in 1 .. m, b[f] = b[g]
          PROVE  f = g
        <3>1. CASE f \in 2 .. n + 1
            <4>1. g \in 2 .. n + 1
                BY <2>4, <2>5, <3>1
            <4>2. /\ f - 1 \in DOMAIN Ifaces /\ g - 1 \in DOMAIN Ifaces
                  /\ Ifaces[f - 1] = Ifaces[g - 1]
                <5> HIDE DEF b, m
                <5> QED
                    BY <1>3, <1>4, <2>1, <2>5, <3>1, <4>1, <2>3
            <4>3. f - 1 = g - 1
                BY <4>2, IpcAssumption
            <4> QED
                BY <1>3, <3>1, <4>1, <4>3
        <3>2. CASE f \notin 2 .. n + 1
            <4>1. g \notin 2 .. n + 1
                BY <2>4, <2>5, <3>2
            <4> HIDE DEF b, m
            <4> QED
                BY <2>1, <2>5, <3>2, <4>1
        <3> QED
            BY <3>1, <3>2
    <2> QED
        BY <2>4, <2>5
<1>6. /\ m <= MaxEvents /\ 1 .. m \subseteq Fds
    <2>1. Fds = 1 .. 3 + Len(Ifaces) + Cardinality(Clients)
          /\ MaxEvents >= 3 + Len(Ifaces)
        BY IpcAssumption
    <2> QED
        BY <1>3, <2>1, Numbers
<1> HIDE DEF b
<1>7. /\ \A s \in Slots : FdOf(s) \in Nat \ {0}
      /\ \A s, t \in Slots : FdOf(s) = FdOf(t) =>
            s = t \/ (s = 0 /\ t = MaxEvents) \/ (t = 0 /\ s = MaxEvents)
      /\ MaxEvents \notin Slots
      /\ \A f \in 1 .. m : \E s \in Slots : FdOf(s) = f
    <2>1. ASSUME NEW s \in Slots PROVE FdOf(s) \in Nat \ {0}
        BY Numbers DEF Slots
    <2>2. ASSUME NEW s \in Slots, NEW t \in Slots, FdOf(s) = FdOf(t)
          PROVE  s = t \/ (s = 0 /\ t = MaxEvents) \/ (t = 0 /\ s = MaxEvents)
        BY <2>2, Numbers DEF Slots
    <2>3. MaxEvents \notin Slots
        BY Numbers DEF Slots
    <2>4. ASSUME NEW f \in 1 .. m
          PROVE  \E s \in Slots : FdOf(s) = f
        <3>1. CASE f = 1
            BY <3>1, Numbers
        <3>2. CASE f # 1
            <4>1. MaxEvents + 1 - f \in Slots /\ MaxEvents + 1 - f # 0
                BY <1>3, <1>6, <2>4, <3>2, Numbers DEF Slots
            <4>2. FdOf(MaxEvents + 1 - f) = f
                BY <1>3, <2>4, <4>1, Numbers
            <4> QED
                BY <4>1, <4>2
        <3> QED
            BY <3>1, <3>2
    <2> QED
        BY <2>1, <2>2, <2>3, <2>4
<1>8. m \in Nat /\ n + 2 < m /\ 0 \notin 1 .. m
    BY <1>3
<1> HIDE DEF FdOf, m
<1>9. ASSUME NEW s \in Slots
      PROVE  /\ FdOf(s) \in 1 .. m =>
                  events[s].sock = FdOf(s) /\ events[s].source = b[FdOf(s)]
             /\ FdOf(s) \notin 1 .. m => events[s] = Unused
             /\ events[s] \in {[sock |-> FdOf(s), source |-> b[FdOf(s)]],
                               Unused}
    BY <1>4, <1>2
<1>10. /\ Open = 1 .. m
       /\ \A f \in 1 .. m : file[f] = b[f]
       /\ \A f \in Fds \ (1 .. m) : file[f] = "none"
    BY <1>4, <1>5, <1>6, <1>2 DEF Open
<1>11. InUse = {s \in Slots : FdOf(s) \in 1 .. m}
    BY <1>9, <1>7 DEF InUse, Unused
<1>12. Unwatched = {}
    <2>1. \A f \in 1 .. m : \E s \in Slots : events[s].sock = f
        BY <1>9, <1>7
    <2>2. \A f \in 1 .. m : f # 0
        BY <1>8
    <2> QED
        BY <1>10, <2>1, <2>2 DEF Unwatched, Sockets
<1>13. Types
    <2>1. events \in [Slots -> Entries]
        <3>1. \A s \in Slots : events[s] \in Entries
            BY <1>5, <1>6, <1>9 DEF Entries, Sources, Unused
        <3>2. events = [s \in Slots |-> events[s]]
            BY <1>1 DEF BootTable
        <3> QED
            BY <3>1, <3>2
    <2>2. file \in [Fds -> Sources \cup {"none"}]
        BY <1>4, <1>5, <1>2 DEF Sources
    <2>3. plugged \subseteq Interfaces
        <3>1. \A f \in 2 .. n + 1 : f \in 1 .. m
            BY <1>3 DEF m
        <3>2. \A f \in 2 .. n + 1 : b[f] \in Interfaces
            BY <1>5, <3>1
        <3> QED
            BY <1>2, <3>2
    <2>4. ipcs \in [Instances -> [sock : Fds \cup {0},
                                  flags : SUBSET {"CONNECTED",
                                                  "EVENTS_ONLY"}]]
        BY <1>1 DEF NoConnection
    <2>5. backlog \in [Listeners -> Seq(Clients)]
        BY <1>1
    <2>6. ui \in [Clients -> ClientTypes]
        BY <1>1 DEF Fresh, ClientTypes, ClientEnds
    <2>7. 0 \in Slots /\ 0 \in 0 .. MaxMoves
        BY Numbers, IpcAssumption
    <2>8. links \in Seq([type : {"new", "del"}, iface : Interfaces])
        BY <1>1
    <2> QED
        BY <1>1, <2>1, <2>2, <2>3, <2>4, <2>5, <2>6, <2>7, <2>8
        DEF Types, TypeOK, Entries
<1>14. StructureOk
    <2>1. FilesOnce
        <3>1. \A f \in Open : file[f] \in Interfaces => file[f] \in listed
            <4>1. SUFFICES ASSUME NEW f \in 1 .. m, b[f] \in Interfaces
                           PROVE  b[f] \in listed
                BY <1>10
            <4>2. f \in 2 .. n + 1
                BY <1>5, <4>1
            <4> QED
                BY <1>2, <4>2
        <3> QED
            BY <1>5, <1>10, <3>1 DEF FilesOnce
    <2>2. TableMatches
        <3>1. \A s \in Slots : IF s \in InUse
                               THEN /\ events[s].sock \in Open
                                    /\ file[events[s].sock] = events[s].source
                               ELSE events[s] = Unused
            BY <1>9, <1>10, <1>11
        <3>2. \A s, t \in InUse : events[s].sock = events[t].sock => s = t
            BY <1>9, <1>7, <1>11
        <3>3. \A s \in InUse : events[s].source = "rtnl" => s = 0
            <4>1. SUFFICES ASSUME NEW s \in InUse, events[s].source = "rtnl"
                           PROVE  s = 0
                OBVIOUS
            <4>2. s \in Slots /\ FdOf(s) = 1
                BY <1>5, <1>9, <1>11, <4>1
            <4> QED
                BY <4>2, Numbers DEF Slots, FdOf
        <3> QED
            BY <3>1, <3>2, <3>3 DEF TableMatches
    <2>3. UnwatchedAreLow
        <3>1. Cardinality(Unwatched) = 0
            BY <1>12, FS_EmptySet
        <3>2. \A f \in 1 .. m : f <= MaxEvents + 0
            BY <1>6, <1>8, Numbers
        <3> QED
            BY <1>10, <1>12, <3>1, <3>2 DEF UnwatchedAreLow
    <2>4. FreeInstances = Instances
        BY <1>1 DEF FreeInstances, NoConnection
    <2>5. \A f \in Open : file[f] \notin Clients
        BY <1>5, <1>10
    <2>6. InstancesMatch /\ LeakedAreHigh
        BY <1>1, <2>4, <2>5 DEF InstancesMatch, LeakedAreHigh, IsClient
    <2> QED
        BY <2>1, <2>2, <2>3, <2>6 DEF StructureOk
<1>15. PlacesOk
    <2>1. \A f \in Open : file[f] \notin Clients
        BY <1>5, <1>10
    <2>2. \A l \in Listeners : DOMAIN backlog[l] = {}
        BY <1>1
    <2> QED
        BY <2>1, <2>2 DEF PlacesOk
<1>16. StreamOk /\ CauseOk /\ WalkOk /\ phase # "exited"
    <2>1. StreamOk
        <3>1. <<>> \o <<>> = <<>>
            BY ConcatEmptySeq, EmptySeq
        <3> QED
            BY <1>1, <3>1 DEF StreamOk, ClientOk, Fresh
    <2>2. CauseOk
        BY <1>1 DEF CauseOk, Fresh
    <2> QED
        BY <1>1, <2>1, <2>2 DEF WalkOk
<1>17. LeakIsRefusal
    <2>1. Taken = {} /\ RefusedClients = {}
        BY <1>1 DEF Taken, FreeInstances, NoConnection, RefusedClients, Fresh
    <2>2. ServedSlots = {}
        BY <1>5, <1>9, <1>11 DEF ServedSlots
    <2>3. Cardinality({}) = 0
        BY FS_EmptySet
    <2> QED
        BY <2>1, <2>2, <2>3, CountsAre
<1> QED
    BY <1>13, <1>14, <1>15, <1>16, <1>17 DEF Inv


(***************************************************************************)
(* The theorems.                                                           *)
(***************************************************************************)
LEMMA StepInv ==
    ASSUME Inv, [Next]_vars
    PROVE  Inv'
<1>1. ASSUME NEW s \in Slots, xsup_ipc_new_socket(s) PROVE Inv'
    BY <1>1, NoInstanceStep, AcceptStep
<1>2. CASE Daemon
    BY <1>1, <1>2, WaitStep, EventStep, RtnetlinkStep, FrameReadStep,
       MachinesStep
    DEF Daemon
<1>3. CASE World
    BY <1>3, ConnectStep, AskStep, TakeStep, GiveUpStep, HangUpStep,
       FrameStep, MoveStep
    DEF World
<1>4. CASE UNCHANGED vars
    <2>1. UNCHANGED <<loopVars, ipcVars, kernelVars, worldVars, ui>>
        BY <1>4 DEF vars
    <2>2. Types'
        BY <2>1 DEF Inv, Types, TypeOK, loopVars, ipcVars, kernelVars,
                    worldVars
    <2>3. StructureOk' /\ PlacesOk' /\ StreamOk' /\ CauseOk' /\ LeakIsRefusal'
        BY <2>1, StructureKept, PlacesKept, StreamKept, CauseKept, LeakKept
        DEF Inv, RefusedClients, loopVars, ipcVars, kernelVars
    <2>4. WalkOk'
        BY <2>1, WalkKept DEF Inv, loopVars, kernelVars
    <2> QED
        BY <2>1, <2>2, <2>3, <2>4 DEF Inv, loopVars
<1> QED
    BY <1>2, <1>3, <1>4 DEF Next

\* Every step of the daemon, of the clients and of the kernel preserves the
\* invariant, and every start establishes it (event_core.c, xsup_ipc.c).
THEOREM IpcInductive == Spec => []Inv
BY InitInv, StepInv, PTL DEF Spec

\* The table, the connections and what the kernel has open always have their
\* types: no slot, instance or descriptor outside its range is written
\* (event_core.c:178, xsup_ipc.c:580).
THEOREM IpcTypeCorrect == Spec => []TypeOK
<1>1. Inv => TypeOK
    BY DEF Inv, Types
<1> QED
    BY <1>1, IpcInductive, PTL

\* The handler of a slot is called for the file it was registered for, and
\* xsup_ipc_event always knows the connection: "This shouldn't happen!" does
\* not (xsup_ipc.c:507).
THEOREM HandlersMatchTheorem == Spec => []HandlersMatch
<1>1. ASSUME Inv PROVE HandlersMatch
    <2>1. \A s \in InUse : file[events[s].sock] = events[s].source
        BY <1>1 DEF Inv, StructureOk, TableMatches, InUse
    <2>2. \A s, t \in InUse : events[s].sock = events[t].sock => s = t
        BY <1>1 DEF Inv, StructureOk, TableMatches
    <2>3. \A s \in InUse : events[s].source \in Clients
                             => Known(events[s].sock) # {}
        BY <1>1, KnownIs DEF Inv, Types
    <2> QED
        BY <1>1, <2>1, <2>2, <2>3 DEF HandlersMatch, Inv
<1> QED
    BY <1>1, IpcInductive, PTL

\* The loop blocks only on a connection accepted in this very pass by a
\* listener in a slot below (event_core.c:325).
THEOREM BlocksOnlyAboveTheorem == Spec => []BlocksOnlyAbove
<1>1. ASSUME Inv, Blocked PROVE BlocksOnlyAbove
    <2>1. at \in Slots /\ at >= at /\ events[at].sock \in rfds
        BY <1>1, Numbers DEF Inv, Types, TypeOK, WalkOk, Blocked
    <2>2. StillDue(at) /\ ~ Readable(events[at].sock)
        BY <1>1, <2>1 DEF Inv, WalkOk, Blocked
    <2> QED
        BY <2>2 DEF StillDue, BlocksOnlyAbove
<1>2. Inv => BlocksOnlyAbove
    BY <1>1 DEF BlocksOnlyAbove
<1> QED
    BY <1>2, IpcInductive, PTL

\* The instances that are taken are those of the connections served and of
\* the connections refused for want of a slot, one each (xsup_ipc.c:614).
THEOREM LeakIsRefusalTheorem == Spec => []LeakIsRefusal
<1>1. Inv => LeakIsRefusal
    BY DEF Inv
<1> QED
    BY <1>1, IpcInductive, PTL

\* The first answer is one of the last requests, no more than are outstanding.
LEMMA LagIs ==
    ASSUME NEW u \in ClientTypes, ClientOk(u), u.waiting # 0,
           u.answers # <<>>
    PROVE  /\ Head(u.answers) <= u.waiting
           /\ u.waiting <= Head(u.answers) + u.late
           /\ Len(u.answers) <= u.late + 1
<1>1. /\ u.requests \in Seq(Nat) /\ u.answers \in Seq(Nat)
      /\ u.waiting \in Nat /\ u.asked \in Nat /\ u.late \in Nat
      /\ u.end \in ClientEnds
    BY PartsOf
<1>2. u.end \in {"open", "shut"} /\ u.waiting = u.asked
    BY <1>1 DEF ClientOk, ClientEnds
<1>3. Outstanding(u) = u.late + 1 /\ Outstanding(u) \in Nat
    BY <1>1 DEF Outstanding
<1>4. Numbered(u.answers, u.asked, u.late + 1)
    BY <1>1, <1>2, <1>3, FirstOnes DEF ClientOk
<1>5. PICK a \in Seq(Nat) : a = u.answers /\ a # <<>>
    BY <1>1
<1>6. /\ Len(a) \in Nat /\ 1 \in 1 .. Len(a)
      /\ a[1] = Head(a) /\ a[1] \in Nat
    <2>1. Len(a) \in Nat \ {0}
        BY <1>5, EmptySeq
    <2> QED
        BY <1>5, <2>1, ElementOfSeq
<1>7. /\ u.asked + 1 <= a[1] + (u.late + 1)
      /\ a[1] + Len(a) <= u.asked + 1
    BY <1>4, <1>5, <1>6 DEF Numbered
<1>8. PICK h, n, asked, late \in Nat :
          h = Head(a) /\ n = Len(a) /\ asked = u.asked /\ late = u.late
    BY <1>1, <1>6
<1>9. /\ asked + 1 <= h + (late + 1) /\ h + n <= asked + 1 /\ n >= 1
    BY <1>6, <1>7, <1>8
<1>10. h <= asked /\ asked <= h + late /\ n <= late + 1
    BY <1>9
<1>11. Head(u.answers) = h /\ Len(u.answers) = n
    BY <1>5, <1>8
<1> QED
    BY <1>2, <1>8, <1>10, <1>11

\* An answer is late by at most the requests the library gave up on, and no
\* more are read with it; no event gets among the answers (xsupgui_ud.c:266,
\* xsup_ipc.c:671).
THEOREM AnswersLagTheorem == Spec => []AnswersLag
<1>1. ASSUME Inv PROVE AnswersLag
    <2>1. ASSUME NEW c \in Clients, ui[c].waiting # 0, ui[c].answers # <<>>
          PROVE  /\ Head(ui[c].answers) <= ui[c].waiting
                 /\ ui[c].waiting <= Head(ui[c].answers) + ui[c].late
                 /\ Len(ui[c].answers) <= ui[c].late + 1
        BY <1>1, <2>1, LagIs DEF Inv, Types, StreamOk
    <2>2. ASSUME NEW k \in DOMAIN EventSockets,
                 file[EventSockets[k]] \in Clients
          PROVE  KindOf[file[EventSockets[k]]] = "event"
        <3>1. /\ k \in Instances /\ EventSockets[k] \in Fds
              /\ EventSockets[k] = ipcs[k].sock
              /\ "EVENTS_ONLY" \in ipcs[k].flags
            BY <1>1, EventSocketsAre DEF Inv
        <3>2. IsClient(ipcs[k].sock)
            BY <2>2, <3>1, IpcAssumption DEF IsClient, Open
        <3>3. PICK i \in Instances :
                  ipcs[i] = [sock |-> ipcs[k].sock,
                             flags |-> FlagsOf(KindOf[file[ipcs[k].sock]])]
            BY <1>1, <2>2, <3>1, <3>2
            DEF Inv, StructureOk, InstancesMatch, IsClient
        <3>4. i = k
            BY <1>1, <3>1, <3>2, <3>3 DEF Inv, StructureOk, InstancesMatch
        <3>5. "EVENTS_ONLY" \in FlagsOf(KindOf[file[ipcs[k].sock]])
            BY <3>1, <3>3, <3>4
        <3> QED
            BY <3>1, <3>5 DEF FlagsOf
    <2> QED
        BY <2>1, <2>2 DEF AnswersLag
<1> QED
    BY <1>1, IpcInductive, PTL

\* The daemon closes no connection of a client that is there, unless another
\* client has gone before (xsup_ipc.c:521).
THEOREM CutOnlyAfterHangUpTheorem == Spec => []CutOnlyAfterHangUp
<1>1. Inv => CutOnlyAfterHangUp
    BY DEF Inv, CauseOk, CutOnlyAfterHangUp
<1> QED
    BY <1>1, IpcInductive, PTL
=============================================================================
