-------------------------- MODULE ConfigProperties --------------------------
(***************************************************************************)
(* What has to be true of the configuration and of the interfaces' use of  *)
(* it.  NamesUnique and OnlyReloadUnbinds hold for any user interface, the *)
(* others for one that checks what it asks for.                            *)
(***************************************************************************)
EXTENDS ConfigStore

\* No two connections have the same name, not even one of the system and one
\* of the user: ipc_callout_set_connection_config looks for the name in the
\* other list, Rename_Connection in both, and neither may be got around by a
\* connection that is in use.
NamesUnique == UniqueNames(conns)

\* Deleting and renaming (ipc_callout.c:4759, :4906, :7137, :7313) leave no
\* connection with a profile that is gone, and no profile with a trusted
\* server that is gone; but an EAP-FAST profile is not asked for its server.
ReferencesResolve ==
    /\ \A t \in Types : \A k \in Cells(conns, t) :
          conns[k].profile = NULL \/ NameUsed(profs, conns[k].profile)
    /\ \A t \in Types : \A k \in Cells(profs, t) :
          TsName(profs[k]) = NULL \/ NameUsed(servers, TsName(profs[k]))

\* An interface that has a connection uses the profile of that connection,
\* which has not been freed, and goes by the connection's name or network,
\* whatever is renamed, replaced or deleted behind its back.
BoundTogether ==
    \A i \in Interfaces : ctx[i].conn \in ConnCells =>
        /\ ctx[i].connName \in {conns[ctx[i].conn].name,
                                conns[ctx[i].conn].ssid, NULL}
        /\ ctx[i].prof # FREED
        /\ ctx[i].prof # NULL =>
              profs[ctx[i].prof].name = conns[ctx[i].conn].profile

\* Only a reload of the configuration frees a connection that an interface
\* uses ("Updating everything could cause a crash", ipc_callout.c:5135).
OnlyReloadUnbinds ==
    [][\A i \in Interfaces :
          ctx'[i].conn = FREED =>
              ctx[i].conn = FREED \/ ReloadConfiguration]_vars

(***************************************************************************)
(* A promise of a comment that the code does not keep.                     *)
(***************************************************************************)
\* ipc_callout.c:7088: "this pointer is to our master structure for this
\* connection": the connection that is renamed is the one with the old name.
RenamesTheNamed ==
    [][\A t \in Types, old, new \in ConnNames, admin \in BOOLEAN :
          RenameConnection(t, old, new, admin) =>
              \A k \in ConnCells :
                  conns'[k] # conns[k] => conns[k].name = old]_vars
=============================================================================
