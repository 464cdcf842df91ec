# Xsupplicant: a verification project

Xsupplicant (the repository Open1X, directory `xsupplicant/`) is an IEEE 802.1X
supplicant: a daemon that runs an EAP conversation with an authenticator over
EAPOL frames and opens or closes the port of a network interface by its result.
This directory holds TLA+ models of its core, configurations to check them with
TLC, and proofs for TLAPS. File names without a directory are below
`xsupplicant/src/`.

## 1. The system

### Components

| Component | Code | State it keeps | Operations |
|---|---|---|---|
| EAP peer machine | `eap_sm.c`, `eap_sm.h` | struct `eap_sm`: flags to and from the lower layer, `methodState`, `decision`, `selectedMethod`, `lastId`, last response | `eap_sm_run`, `eap_sm_force_init`, `eap_sm_init`, `eap_sm_deinit`, one `change_to` function per state |
| 802.1X backend machine | `backend_sm.c` | `beCurState`, `authWhile`, `suppStart/Abort/Success/Fail/Timeout` in struct `dot1x_state` | `backend_sm_run`, `txSuppRsp`, `getSuppRsp` |
| 802.1X port access entity (PAE) | `statemachine.c` | `curState`, `portControl`, `sPortMode`, `suppPortStatus`, the timers `heldWhile`, `startWhen`, `startCount` | `statemachine_run`, `statemachine_change_state`, `txStart`, `txLogoff` |
| EAPOL reception | `eapol.c` | `recvframe`, `eapolEap` | `eapol_withframe`, `eapol_execute` |
| Event loop | `event_core.c` | table of event sources, `last_check` | `event_core`: select, serve, tick, run; `event_core_register`, `event_core_deregister` |
| IPC server | `xsup_ipc.c` | `ipcs`: descriptor and flags of each connection; `errno` between calls | accept, read and answer a request, send events to all |
| User interface library | `../lib/libxsupgui` | the client's descriptors, unread answers in the stream | connect, request, answer or timeout, disconnect |
| Requests of the user interface | `ipc_callout.c`, `context.c` | `conn`, `prof`, `conn_name` of struct `context` | change connection, logoff, disconnect, unbind, set password; delete, set and rename the objects of the configuration |
| Configuration in memory | `../lib/libxsupconfig`, `../lib/libxsupconfcheck` | lists of connections, profiles and trusted servers, of the system and of the user | find, add or change, delete, check, reload |
| Password dialogue | `eap_types/otp`, `eap_types/mschapv2` | `pwd_callback`, stored frame | ask, replay |
| Timer list | `timer.c` | list of (kind, seconds left, callbacks) | add, cancel, reset, tick |
| Wireless machine | `wireless_sm.c` | `state` and `flags` of struct `wireless_ctx`, `FORCED_CONN` | `wireless_sm_do_state`, `wireless_sm_change_state`, a callback per timer |
| Interface events on Linux | `platform/linux/cardif_linux*.c` | `WIRELESS_SCANNING`, `WIRELESS_PASV_SCANNING`, the interface cache | scan, collect results, association and operational state events, insertion and removal |
| Key machine, EAPOL-Key handshakes | `key_statemachine.c`, `eapol_key_type*.c` | replay counter, nonce, transient and master key, `WIRELESS_SM_DOING_PSK`, `PSK_DEATH_TIMER` | one handler per message, `psk_timeout` |
| PMKSA cache | `pmksa.c` | list with ages and a limit | add, age, evict, look up |
| SSID cache | `config_ssid.c` | scan results | add, dump, choose |
| Error queue, IPC events | `error_prequeue.c`, `ipc_events.c` | queued errors | add, flush |
| EAP-TLS, EAP-PEAP, EAP-TTLS | `eap_types/tls`, `eap_types/peap`, `eap_types/ttls` | struct `tls_vars`: SSL context and object, `resumable`, the queues in and out, `expected_in`, `in_so_far`, `handshake_done`; `ignore` of the method | init, check, process, build response, deinit; start or resume a session, take a fragment, send one, en- and decrypt |
| Other EAP methods | `eap_types/` | cryptographic state | check, process, build response |
| Operating system drivers | `platform/` | sockets, interface flags | send, receive, link state |
| Configuration files, user interface, plugins, tests | `../lib/`, `../../xsupplicant-ui/`, `../plugins/`, `../../xsupplicant-engine-test-suite/` | | |

### How they interact

The daemon is single threaded. One pass of `event_core` waits in `select` for
at most a second, serves every ready source (a frame socket, the IPC socket)
once, sets `tick` when a second has passed, and calls `statemachine_run` for
every bound wired interface. A frame is put in `recvframe` and
`eapol_execute` runs the machines until the flag `eapolEap` is down, at most
255 times. `statemachine_run` makes one move of the PAE and then calls
`backend_sm_run`, which may call `eap_sm_run`, which may call an EAP method.
All three machines share struct `context`: each reads flags the others set,
some of them a run later. A `change_to` function may go on to the next state by
itself, so that one call can pass through several states.

A wireless interface has another machine on top. A netlink socket is one more
source; its handlers only set flags, cancel timers, collect scan results or
change the state outright. When a second has passed, `timer_tick` walks the list
of timers and calls what expires; at the end of every pass
`wireless_sm_do_state` looks at the flags (`wireless_sm_check_globals`) and acts
on the state. In ASSOCIATED it runs the PAE; leaving ASSOCIATED it closes the
port through `statemachine_change_state` or `statemachine_reinit`. EAPOL-Key
frames go past both machines to the handlers of the handshakes, which take the
master key that EAP or the user left and put keys in the card.

The EAP machine calls three functions of a method for each request: check,
process, build response. The methods that run TLS share their code
(`ossl_tls_funcs.c`): fragments are written to a BIO until a message is complete, OpenSSL
reads it and leaves its answer in another BIO, from where it goes to a queue
that is sent a fragment for each request.

A user interface opens two connections, one for requests and one for events.
The handler of a request may change the configuration, whose objects refer to
each other by name, and the interfaces, whose contexts point into it. A
netlink message about a link that came or went makes or destroys a context. New
connections, new interfaces and what is removed change the table of
event sources while `event_core` walks it.

### What is hard

* Flags that outlive what they announce: `eapolEap` after its frame was freed,
  `suppSuccess`, `eapSuccess` and `eapFail` after their conversation,
  `portControl` after its connection, `pwd_callback` after its EAP machine.
* The order of the tests in a state: each `do` function of the backend is a row
  of independent `if`s, later ones see what the earlier ones did.
* The other side is free: requests may be lost, repeated, reordered, come with
  any identifier, or stop; the link may go away.
* The user acts at any time: connection changes in the middle of a
  conversation, a password long after it was asked for.
* 8-bit counters, and 0xff as a value with a meaning of its own.
* One timer ends each wait of the wireless machine, and every transition cancels
  timers of other states; callbacks change the list that is being walked; a
  counter nobody resets wraps to 18 hours.
* The configuration is shared by name and by pointer: deleting, replacing and
  renaming have to find every user of an object, in two lists and in every
  context, and each request looks for them in its own way.
* Key frames may be lost, repeated or late; each repeated message 1 makes a new
  nonce; one flag and one timer decide what the user is told of the shared key.
* The table of event sources and the five connections are limited; handlers change
  both during a pass, and the kernel gives closed descriptors out again; `errno`
  outlives the call that set it; the library of the user interface gives up after
  two seconds, the daemon does not know.
* A TLS conversation that breaks off between two fragments leaves counters, queues,
  a session and flags behind, which the next Start meets; what cleans them up
  differs between the methods, and is not called on every way.
* Events of the driver are flags that are looked at a pass later, when the
  interface may be down, stopped or scanning; handlers for frames do not ask the
  wireless machine at all.

### What makes each component correct

* EAP peer: a success comes from a method that ran in this conversation; a
  duplicate gets the same answer and changes nothing; a new request is never
  taken for a duplicate.
* Backend: it speaks only while the PAE authenticates; a conversation gets
  one verdict; a response answers the request in the buffer.
* PAE: the port opens for a success of the present conversation or when
  802.1X is given up, and for nothing else; no state is for ever.
* Reception and event loop: every frame is used up, by few runs; no freed
  buffer is read.
* User requests: no result of one connection counts for the next.
* Timer list: a timer expires once a period, and the walk stays on the list.
* Wireless machine: every wait has the timer that ends it, and nothing but a frame
  that comes late opens the port off the link.
* Configuration: names are unique, references resolve, and an interface uses
  objects that exist and belong together.
* Handshakes: when the access point is done, both sides use the same keys, and the
  user hears the truth about the shared key.
* TLS methods: OpenSSL and the server get whole messages, each in its conversation;
  a handshake that is done has a session; a server that keeps to the protocol is
  always answered.
* Event loop and IPC: a handler is called for the file it was registered for, a
  request is read and answered whatever other clients and interfaces do, and an
  answer is late by no more than the requests that were given up before it.

## 2. Modules

| Module | What it is |
|---|---|
| `EapPeer` | the EAP peer machine: one operator per `eap_sm_change_to_*`, from the value of struct `eap_sm` to its value after the call |
| `SuppBackend` | the backend machine, the same way, on the value of struct `context` |
| `SuppPae` | the PAE and `statemachine_run` |
| `WiredSupplicant` | the state machine: variables, the event loop, frames, user requests, the clock |
| `PortAccess` | abstract specification: what the supplicant promises about its port |
| `WiredProperties` | the properties of `WiredSupplicant`, and the mapping to `PortAccess` |
| `WiredLiveness` | `WiredSupplicant` without user requests, with fairness and liveness properties |
| `MCWired`, `MCLiveness` | small instances for TLC |
| `TimerList` | the list of timers as operators on its value |
| `WirelessLink` | the wireless machine with its timers, the events of the Linux driver and the user requests to a wireless interface |
| `WirelessProperties` | its properties, fairness and liveness |
| `MCWireless` | small instances of it |
| `WirelessProofs` | proofs: the inductive invariant of `WirelessLink` and its theorems |
| `ConfigStore` | the configuration in memory, the requests that change it and the interfaces' pointers into it |
| `ConfigProperties`, `MCConfig` | its properties, and small instances |
| `KeyHandshake` | the four-way and group handshakes of WPA and WPA2, with an access point and a link |
| `KeyProperties`, `MCKeys` | its properties, and small instances |
| `EventCore` | the table of event sources and one pass over it |
| `IpcServer` | composes `EventCore` with the handlers it calls: connections of user interfaces, interfaces that come and go, frames |
| `IpcProperties`, `MCIpc` | its properties, fairness and liveness, and a small instance |
| `TlsFuncs` | the functions that EAP-TLS, EAP-PEAP and EAP-TTLS share, as operators on struct `tls_vars` |
| `TlsMethods` | the three methods as the EAP machine calls them, with a server |
| `TlsProperties`, `MCTls` | its properties, and small instances |
| `EapProofs` | proofs: what every operator of `EapPeer` preserves |
| `WiredProofs` | proofs: the inductive invariant of `WiredSupplicant` and its theorems |
| `KeyProofs` | proofs: the inductive invariant of `KeyHandshake` and its theorems |
| `ConfigProofs` | proofs: the invariant of `ConfigStore` and its theorems |
| `PortProofs` | proofs: the backend follows the PAE, and `WiredSupplicant` implements `PortAccess` |
| `IpcProofs` | proofs: the inductive invariant of `IpcServer` and its theorems |
| `TlsProofs` | proofs: the session behind `handshake_done`, and the whole messages of both sides |

`SuppBackend` extends `EapPeer`, `SuppPae` extends `SuppBackend`,
`WiredSupplicant` extends `SuppPae`: the machines of the code call each other as
functions, so the modules that model them are operators that call each other,
and one atomic action is one call of the event loop. The variables are

* `ctx`: struct `context` with its two structs (`sm`, `eap`), the frame in the
  buffer, the bound connection and profile, and `out`, what the current step
  sent. Three fields of `eap` are history: `won`, the SUCCESS state was reached
  since the last INITIALIZE; `by`, the last method that ran; `wild`, a freed or
  uninitialised value was used.
* `pc`: whether the daemon is in `event_core` or in the loop of
  `eapol_execute`, called for a frame or by a password callback.
* `runs`: `sm_runs`; `saved`: the frame a password callback displaced;
  `served`: the sources served in the present pass.

| Action | Code |
|---|---|
| `EapFrame`, `IgnoredFrame` | `event_core` frees the old frame, `eapol_withframe` receives one; after one it ignores the machines still run for a frame that is pending (`eapol.c:247`) |
| `ExecuteRun`, `ExecuteEnd` | the loop of `eapol_execute` |
| `ChangeConnection`, `RequestLogoff`, `DisconnectConnection`, `UnbindConnection` | the IPC handlers |
| `SetPassword` | `Set_Connection_PW` calls the password callback of EAP-OTP/GTC or EAP-MSCHAPv2 |
| `Tick`, `Poll` | the end of a pass, with and without a second gone by |

`WirelessLink` is a system of its own, on the same level as `WiredSupplicant`:
`w` is what the wireless machine, the timers and the PAE see of struct `context`
and `wireless_ctx`; `up` is IFF_UP of the interface; `at` is where `event_core`
is: in `select`, on its way through the timers (the timer that is next, the
pointer `timer_tick` keeps), at the machine (`run`), or `CRASHED` after it
followed a pointer to a freed node that no new node took the place of.

| Action | Code |
|---|---|
| `TickStarts`, `TimerTicks` | `timer_tick`, one `do_tick` with its callbacks |
| `MachineRuns` | `wireless_sm_do_state` at the end of a pass |
| `FlagsChange` | somebody takes the interface down or up |
| `ApEvent`, `ScanResults`, `OperDown`, `OperUp` | the netlink events |
| `Frame`, `KeyFrame` | `eapol_execute` for an EAP frame and for a key frame |
| `Connect`, `Disassociate`, `Stop`, `Scan`, `SetLock`, `RequestLogoff`, `Disconnect`, `Unbind` | the IPC handlers, on a wireless interface |

A node of the list is its kind (the list never holds two of a kind), and the
order of the nodes is a function from each kind to the kinds before it, so that
adding at the end and taking out anywhere are one update and no sequence has to
be searched.

`ConfigStore` has `conns`, `profs` and `servers`, functions from the cells of memory
to objects; `ctx`, the pointers and the name that each interface keeps; and
`status`. A pointer to a freed cell becomes `FREED`, and a request that would
follow one ends in `status = "undefined"`; one that dereferences NULL ends in
`"crashed"`.

| Action | Code |
|---|---|
| `DeleteConnection`, `DeleteProfile`, `DeleteServer` | `Delete_*_Config`: in use, referred to, then taken off its list |
| `SetConnection`, `SetProfile`, `SetServer` | `Set_*_Config`: check, add or change in place |
| `RenameConnection`, `RenameProfile`, `RenameServer` | `Rename_*`, with the references that follow |
| `SetConnectionUPW`, `SetConnectionPW` | passwords the user types, kept in the profile or the connection |
| `ChangeConnection`, `RequestLogoff`, `DisconnectConnection`, `UnbindConnection`, `SetInterface`, `BuildForSsid` | whatever binds an interface or lets go |
| `ReloadConfiguration` | `global_config_reload` |

`KeyHandshake` has `net`, the network of the connection; `orderly` and `link`, the
link; `sup` and `ap`, the two ends; `down` and `up`, the frames on their way.

| Action | Code |
|---|---|
| `Receives` | `eapol_key_type2_process`, `eapol_key_type254_process` and all they call, for each kind of message |
| `MachineRuns` | the machine sees the association and clears the replay counter |
| `PskTimeout` | `eapol_key_type2_psk_timeout` |
| `LinkDrops`, `Associates`, `EapSucceeds` | the netlink event, the way to ASSOCIATING, and EAP's master key |
| `ChangeConnection`, `SetPassword` | the IPC handlers |
| `ApStarts`, `ApRepeats`, `ApRekeys`, `ApReceives`, `LosesFrame` | the access point and the link, which are not in the repository |

`IpcServer` has the table `events`, the position of the walk (`phase`, `at`) and what
`select` found (`rfds`); the connections `ipcs` and whether `errno` is EPIPE
(`epipe`); the interface cache `listed`; what the kernel keeps (`file`, what each
descriptor stands for, `backlog`, `frames`, `links`); and the clients' ends `ui`.

| Action | Code |
|---|---|
| `Wait` | `select` |
| `xsup_ipc_new_socket` | a connection is accepted, registered or refused |
| `xsup_ipc_event` | a request is read and answered (`IpcAnswer`), or the connection closed (`IpcBroken`) |
| `cardif_linux_rtnetlink_check_event` | a link came (`NewLink`), went (`DelLink`), or is none of ours |
| `eapol_withframe` | a frame is read |
| `Machines` | the end of a pass, events to the user interfaces included |
| `Connect`, `Ask`, `Take`, `GiveUp`, `HangUp` | the library of the user interface |
| `Frame`, `Move` | frames arrive; an interface is plugged in or out |

`BootTable` is the table the daemon starts with: every registration took the first
free slot. `BootedByRegistering` in `MCIpc` has TLC evaluate that the calls of
`event_core_register`, one after the other, leave this table.

A handler blocks by having no step: `recvfrom` on a connection that nothing came
on. Slots that are not due are skipped in one step, which loses nothing, because
only the daemon changes the table and the set that `select` returned.

`TlsMethods` has `peer`, what the supplicant keeps: struct `tls_vars` with the fields of the
method and of the EAP machine that decide about it (`data` says whether the structure is
there, or was freed and is still pointed to); `srv`, what the server is at; `req` and
`rsp`, the packet on its way; and `cfg`, which method it is, whether the profile asks
for resumption and whether the server puts a length on messages in one piece.

| Action | Code |
|---|---|
| `PeerHandlesRequest` | `eap_sm_change_to_received` to `eap_sm_change_to_method`: check, process, build response of the method |
| `PeerRestarts` | `eap_sm_force_init` |
| `MachineIsRebuilt` | `eap_sm_deinit` and `eap_sm_init`, from a logoff or a connection change |
| `ServerTakes` | the server acknowledges, goes on with a fragment or a message, or ends |
| `ServerBegins` | a new conversation: the Identity request (`eap_sm_change_to_identity`), then a Start |

### Abstractions

* A method's `check`, `process` and `buildResp` are one record of outcomes
  (`Outcomes`): ignore, method state, decision, a response or none, an
  indication, or "asks for a password". Which a method produces when is left
  open, except for what all methods share: `eap_type_common_fail` sets
  `ignore` with `EAP_FAIL`, only OTP/GTC and MSCHAPv2 ask for passwords, and
  none accepts on its first message.
* `portValid` is never cleared and `keyDone` never set in the repository; the
  branches they guard are left out, among them HELD after too many starts.
  `idleWhile` is reloaded before every run, so its timeout never happens.
* `userLogoff` is set by the wireless machine only, `eapRestart` of the PAE only
  within RESTART; the global transitions for the first and for FORCE_UNAUTHORIZED
  are in the model and, on a wired interface, unreachable. `WiredProofs` proves
  it (`Unreached`).
* `Malloc` zero-fills: the decision of a machine that was never initialised is
  "UNSET" and its use is recorded in `wild`.
* Key material, `credsSent`, `eap_sm_state`, SNMP counters, IPC events and
  display are left out. Only phase 1 of the EAP machine is modelled.
* `cardif_get_link_state` answers TRUE on Linux and Mac as long as the interface
  exists, and TRUE is what the runs have (`LinkAnswers`); what is proved holds for a link
  that answers FALSE as well.
* The PAE of a wireless interface is its port, `portControl` and whether there is a
  pairwise key; a run of it ends with the port as it was, open or closed, as
  the environment says (`SuppPae` says when). A forced `portControl` keeps the port
  where it is forced to. The key handshakes are a first frame, which makes a key,
  and a last one, which opens the port of a network with a shared key; with
  802.1X it is the EAP conversation that opens it.
* Of the kinds of `timer.h` only the six of the wireless machine on Linux are
  modelled; PMKSA and SSID cache, countermeasures and the key timers have
  callbacks that touch neither the state nor these timers.
* The SSID cache is what a look at it answers (`known`, `chosen`, `otherAp`), the
  scan ioctl works or fails, and its results are data, none yet or an error.
* Frames are taken in every state of the wireless machine, as in the code: neither
  `eapol_withframe` nor the key handshakes look at it, and a frame that was in the
  socket when the link was lost, or the interface stopped, is served all the same. A
  frame needs a connection (`eapol.c:248`, `eapol_key_type2.c:1381`).
* Lengths of EAP packets are left out: that `txSuppRsp` drops a response longer than
  1520 bytes (`backend_sm.c:230`) is not in the model.
* The events for the ESSID are commented out in `cardif_linux_rtnetlink.c:1177-1183`,
  INT_RESTART has no caller, and `statemachine.c:1286` needs a link state the
  Linux driver does not report; none is modelled. A period of zero, which the
  configuration may hold, is excluded by `WirelessAssumption` (see the hazards).
* `TERM_ON_FAIL` ends the daemon and is not modelled. `IpcServer` has the
  insertion and removal of interfaces; the machines' models have one interface that
  stays.
* In `ConfigStore` an object is its name, its list and its references, with the
  fields the checks look at (`first`, `key`, `temp`, `stored`). The order of a list is
  left open: a search yields a set of candidates and any of them may be the first.
  `Careful` says that the user interface asks for what makes sense: it does not
  force a deletion, replace a profile in use, rename what is not there or to a name
  that is taken, or bring an object that refers to one that is missing. The content of EAP methods, the interface list,
  globals, plugins and `Write_Config` are left out; so are `FORCED_CONN` and
  logon credentials.
* In `KeyHandshake` a transient key is the record of what it is computed from, and a
  message is authentic if it carries the same record; key data is a group
  key's number, nonces are numbers. The access point keeps to 802.11i: a
  message counts when it has the counter of the last frame. The port is not in this
  model, `WirelessLink` has it; keys in the card end with the association. Requests for
  a new key after MIC failures and dynamic WEP are left out.
* In `IpcServer` a request is its number and an answer the number of its request. A
  socket is a stream: one read takes everything that is queued (`xsup_ipc.c:520`,
  `xsupgui_ud.c:290`). A single request is answered; several that were read together
  are no XML document, and are thrown away without an answer (`ipc_callout.c:530`);
  several answers that were read together are an error for the caller. A message fits
  one read and one fragment. Sockets have buffers without limit, so a client that never
  reads, which blocks the daemon in `send`, is left out. Descriptors are
  handed out lowest first, as POSIX says. Of `errno` only "is EPIPE" is kept. The
  daemon ends when it is killed by SIGPIPE or calls `exit`, and nothing follows.
  `Change_Socket_Type` is sent by nobody on Linux. The contexts behind the
  interfaces are not in this model.
* In `TlsMethods` the server keeps to the protocol, and a request or a response is on its
  way, never both: lost and repeated ones are the EAP machine's, in `EapPeer`. Data is a
  sequence of units, each of which says of which message it is a part and where, so
  that a hole or a mixture can be seen. What OpenSSL makes of a message that is whole and
  expected is to go on, or one of `Refusals`; of anything else, an error. Which messages it
  sends is left open. `AckSlack` stands for the five bytes of `ossl_tls_funcs.c:850`.
  Certificates, keys and random numbers are outcomes, and so is the check of the name,
  which is made again whenever nothing is left to hand over on an open session
  (`ossl_tls_funcs.c:1064`); phase 2 is
  a message that is decrypted and a reply of one of the lengths in `cfg`, which fits
  `tls_funcs_encrypt`'s buffer of 1500 bytes. Old EAP types stay allowed; a NAK is not
  in this model. A wireless interface disassociates where the wired one sends
  an EAPOL-Start; both are `asked`, and `ServerBegins` is what follows.

## 3. Runs

| Run | Checks | Result |
|---|---|---|
| `conversation` | `TypeOK`, `AnswersItsRequest`, `OneVerdict`, `NoStaleRead`, `DuplicateChangesNothing`, and the liveness properties `NeverStuck`, `HeldEnds` | hold |
| `requests` | `AuthenticatedByMethod`, `BackendFollowsPae`, `FewRuns`, refinement of `PortAccess` (`PortSpec`) | hold |
| `wireless_driver` | `WaitIsTimed`, `CountersInRange`, `WaitsEnd` with every event of the driver | hold |
| `wireless_requests` | `WaitIsTimed`, `PortFollowsLink` with every request of the user, manual association, a shared key, dropped links and late frames | hold |
| `config` | `TypeOK`, `NamesUnique`, `ReferencesResolve`, `BoundTogether`, `OnlyReloadUnbinds` with every request that changes or uses the configuration | hold |
| `keys` | `TypeOK`, `SharedKey`, `CanFinish`, `GroupAgrees`, `DoingIsTimed`, `MasterKeyIsThere`, `VerdictIsTrue` | hold |
| `ipc` | `TypeOK`, `HandlersMatch`, `BlocksOnlyAbove`, `LeakIsRefusal`, `AnswersLag`, `CutOnlyAfterHangUp`, `Served` | hold |
| `tls` | `TypeOK`, `Intact`, `KeysHaveSession`, `HandedWhole` | hold |
| `tls_completes` | `Completes` | holds |
| `carried_over` | `FailureIsNotCarriedOver` | violated |
| `wireless_walk` | `NextIsAlive` | violated |
| `config_rename` | `RenamesTheNamed` | violated |

`WaitIsTimed` is checked for every way a wait can begin and every timer that
another state cancels; `CountersInRange` says that no counter reaches zero and
stays on the list, except for the passive scan timer, which does.
`PortFollowsLink` relates the port machine to the state of the
wireless machine, which nothing in the code does: whatever the user, the driver and the
timers do to each other, a port that was shut off the link stays shut, and a
stopped interface stays forced shut. It is an action property because a frame can break
this, as the code is: the steps that take one after a drop or a stop are named in it
(`TakesLateFrame`), and they are in the model, so that the property also says what
follows from a state such a frame has made. An EAP frame is no exception where the
interface is stopped, where `portControl` has to keep the port shut.

`NamesUnique` and `OnlyReloadUnbinds` hold for any user interface;
`ReferencesResolve` and `BoundTogether` for a careful one. `SharedKey` holds on a link
that repeats and reorders; `CanFinish` and `GroupAgrees` are about a link that
keeps the order, the other one breaks them (below).

Three properties of `ipc` say how far a fault goes that the code has. A pass can
block, but only on a connection that was accepted in the pass in which an interface
was removed (`BlocksOnlyAbove`); instances leak, but only by a refusal for want of a
slot (`LeakIsRefusal`); a connection whose client is there is closed, but only after
another client has hung up (`CutOnlyAfterHangUp`). `AnswersLag` says how late
an answer can be: by no more than the requests given up on its connection, with no
more answers read together than these and one, so that who has given up nothing gets the
answer to its own request, alone. It is a bound: an answer that is read joined to others, or a
request that is thrown away with another, brings the two ends closer together again.
`Served` says that nothing else stops a request from being read.

`HandedWhole` and `Intact` are the two directions of the same thing: what is given to
OpenSSL in one piece is the message the server has sent, and what the server takes for
complete is a message of the peer in the present conversation. Both hold although the
counters are not reset with a conversation, because `ossl_funcs_do_start` empties the
BIO and the queues when it has a new SSL object; EAP-TTLS without resumption has none and is
left out of `tls`. `KeysHaveSession` is what `isKeyAvailable` relies on.
`Completes` says that all this caution does not stop a good conversation: with
fragments longer than an ACK, inner messages of one fragment, sessions that end before the
next begins and replies the method can send, it holds, and each of those conditions is
in the next section but one.

### What the violated properties show

1. `carried_over`: `eapFail` is never cleared by the lower layer. After HELD the
   next request makes CONNECTING enter AUTHENTICATING with the old failure,
   which fails at once and drops the request.
2. `wireless_walk`: a callback whose scan fails cancels the SCANCHECK timer; if
   that was the next node, `timer_tick` goes on in freed memory
   (`timer.c:301`).
3. `config_rename`: a connection change binds the connection before it looks for
   the network. If the network is not in the cache, `conn` points to the new
   connection and `conn_name` is the old one's; renaming the old one then renames the
   new one (`ipc_callout.c:7082-7095`).

### What else the models show

The models have these behaviours because the code does; each was seen as a trace
of TLC while the models were written, and no run repeats it.

* INITIALIZE sets `lastId` to 0xff and keeps the stored response: a first
  request with identifier 255 is a retransmission, and the conversation fails, or
  gets a response of the one before. RFC 4137 has `lastId = NONE`; the code
  guards against this for TNC in phase 2 only (`eap_sm.c:465`).
* The password callback decrements `lastId` because it takes it for the identifier
  of the frame it replays (`eap_types/otp/eapotp.c:307`). When another request was
  answered meanwhile, the frame can be taken for a retransmission of that one.
* A passive scan timer that expires while a scan is under way is neither reset nor
  cancelled (`platform/linux/cardif_linux.c:2050`), and wraps.
* An interface that associates while it scans cancels the timer that would end the
  scan (`wireless_sm.c:627`); without a report of the card the scanning flag stays,
  and every later scan is refused.
* In S_FORCE_AUTH `statemachine_run` calls no machine that takes a frame, so
  `eapol_execute` runs 255 times for each EAP frame and reports a jam
  (`eapol.c:253`).
* A request of type 0, when no method is selected and some are configured, is neither
  answered nor refused: `eapol_execute` runs 255 times for it too (`eap_sm.c:1168`).
* After S_FORCE_AUTH `portControl` stays forced; a connection bound then is
  logged off and forced again on the next tick, without the start that
  `ipc_callout.c:3147` promises.
* A frame that arrives with no connection bound keeps `eapolEap` up and is
  processed once a connection is bound.
* With an authentication period of one second, which the configuration may ask for
  (`xsupconfig_parse_globals.c:393`), a failure that comes with an answer is reported
  twice: the backend reports it in REQUEST, goes on to RECEIVE, and when the second
  passes before its next run reports it there again, together with a timeout
  (`backend_sm.c:657`). `OneVerdict` is a property of longer periods.
* The change to DISCONNECTED cancels the passive scan timer when there is none
  (`statemachine.c:519`); after a dropped link it runs on.
* The port check marks a wireless interface active whenever it was not, down or
  not (`wireless_sm.c:1226`), and an association that was reported takes
  PORT_DOWN to ASSOCIATED, which the comment at 1238 excludes.
* A netlink DOWN event makes a stopped interface UNASSOCIATED
  (`cardif_linux_rtnetlink.c:1855`), from where it scans and associates by
  itself.
* The last frame of a handshake that was under way when the link was lost or the interface
  was stopped changes the PAE to S_FORCE_AUTH (`eapol_key_type2.c:1384`): the port of an
  interface that is not associated opens, and that of a stopped one too, which
  `wireless_sm.c:1597` excludes. It stays open until the next change that shuts it. An EAP
  frame does the same off the link, when it was the last of its conversation.

Of the configuration:

* A request to delete a connection that is in use, or one of the system by a user who
  is no administrator, is refused through a context that is NULL
  (`ipc_callout.c:4684`, `:4694`): the daemon crashes.
* `Set_Profile_Config` replaces a profile that an interface uses; the check is
  commented out (`ipc_callout.c:5278-5292`).
* A logoff clears `conn` and keeps `prof` (`ipc_callout.c:2176`). The profile no longer
  counts as used; once it is deleted, `rebind_upw_all` (2381) reads freed memory.
* `Set_Interface_Config` rebuilds the binding of an interface in use, although the
  comment at 5521 says otherwise (5535).
* Disconnect clears `conn` and `prof` before it clears the passwords the user typed,
  which it finds through them (8258-8268): they stay.
* The trusted server of an EAP-FAST profile does not count as used, but is renamed
  with the others. `Rename_Profile` changes the references of the user's
  connections even when it answers that it cannot rename.
* A reload frees everything, does not read the user's configuration again, and
  leaves the pointers of every bound interface (`xsup_driver.c:416-439`).

Of the handshakes:

* A pre-shared key of hexadecimal digits is converted and never copied
  (`eapol_key_type2.c:1596-1611`): the master key stays zero.
* The user is told of a bad shared key whenever the link drops during the handshake
  (`platform/linux/cardif_linux_rtnetlink.c:1833`).
* Disassociating and disconnecting clear the flag and not the timer
  (`ipc_callout.c:3274`, `:8219`), so the user hears of a timeout later.
* WPA computes the transient key from a master key it does not look for
  (`eapol_key_type254.c:204`), and answers message 3 even when its information
  elements differ.
* The counter is kept by message 3 only, and a counter of zero is always good. On a
  link that reorders, a late message 1 makes message 3 unreadable, and a group
  message delayed past the next one installs the older key again.

Of the event loop and the IPC:

* Once the library has given up a request, the next answers on that connection may be
  those of earlier requests: it does not read what is left before it asks again, and
  nothing in an answer says which request it belongs to.
* A request that is sent while the one given up before it is still unread is read together
  with it, and the daemon throws both away without an answer (`ipc_callout.c:530-539`);
  the library waits for two seconds and gives up. Two answers that are read together
  (`xsupgui_ud.c:290`) are an error for the caller of the second.
* The daemon does not ignore SIGPIPE. A client that closes with an answer or an
  event on the way kills it; if the signal was ignored by its parent, EPIPE stays in
  `errno` and the next healthy client's request is dropped and its connection closed.
* When the table is full, a client is refused after it took an instance, which is
  never given back; five such refusals and no client gets in. The
  instance keeps a descriptor that will be used again, and an event would be sent
  to whatever has it, a frame socket for one.
* An interface that is inserted when the table is full stays in the interface cache
  and is never managed; when it goes away nobody finds its context.
* A client that connects for events in the pass in which an interface is removed may
  get the interface's descriptor and slot; the daemon then reads from it and
  blocks until the client closes.

Of the TLS methods:

* An Identity request in the middle of EAP-TLS frees struct `tls_vars` and leaves the
  pointer (`tls/eaptls.c:450`); the next Start cleans the freed structure up again.
* A packet without flags and at most five bytes of data is an ACK to
  `ossl_funcs_process_other` (`ossl_tls_funcs.c:849`), so a last fragment that short is
  lost and the handshake hangs; `doc/standards/draft-funk-eap-ttls-v1-01.txt:1008`
  has an ACK without data.
* In phase 2 a fragment without a length begins a new queue
  (`ossl_tls_funcs.c:1823`); an inner message in several fragments is acknowledged to
  the end and never decrypted.
* An unexpected message frees the SSL context; `resumable` stays and makes
  `tls_funcs_init` create none (`ossl_tls_funcs.c:250-309`). EAP-PEAP and EAP-TTLS
  fail at each later Start that finds the structure.
* EAP-TLS asks for a new start after an unexpected message, "to get things back in
  order" (`ossl_tls_funcs.c:956`), and ignores it and every request after it,
  because `ignore` stays set (`eap_types/eap_type_common.c:83`).
* EAP-TTLS without resumption keeps the SSL object of a conversation that broke off;
  the Start fails (`ossl_tls_funcs.c:580`), nobody looks at that, and the answer is the
  next fragment of the old flight.
* EAP-TTLS sends the first fragment of a long reply only (`ttls/eapttls.c:373`); the
  acknowledgement is answered with an ACK.
* A tunnel without resumption that keeps its open session (the EAP machine was
  restarted and not asked for the identity in between) cannot start again
  (`ossl_tls_funcs.c:356`).
* A message that begins after a conversation broke off may find `in_so_far` or
  `expected_in` of the old one and fail; it is never read in part.
* EAP-PEAP with a server that sends a length where it need not refuses everything after an
  empty inner packet (`../lib/liblist/queue.c:71`).

These were read in the code and are outside the models: an answer of 4092 to 4095
bytes is one message longer than the library reads; the library reads the
fragments of a long answer as if `recv` kept their boundaries; the
event side reads one chunk per event; `xsupgui_disconnect_event_listener` closes the
control socket on Unix.

### Bounds

`IdSpace` 2 or 3 instead of 256 (arithmetic on identifiers is modulo `IdSpace`,
so wrap-around happens; three identifiers are the smallest space with one that
is neither the last, the next nor "no request yet"), one or two methods,
periods of one second (two in `conversation`, so that events fall inside a
period as well as at its end), `MaxStart` 1 or 2, `MaxRuns` 6 for 255: `FewRuns` shows that
four runs use up a frame except in S_FORCE_AUTH, where no number of runs does.
`AirFrames` holds a request for every type and identifier the run is about,
success and failure; an unbounded sequence of them, in any order, is what loss,
duplication and reordering come to. The identifier that stands for "no request"
is left out of the runs, because a request that has it is not taken for a new
one. The user requests are left out of `conversation` (a change of the connection
disturbs `NoStaleRead`, the late password `AnswersItsRequest`; section 4 proves both for
the other requests) and are all in `requests`. `conversation` has EAP-MSCHAPv2, which takes the verdict from its own
messages, `requests` only outcomes without one.

For `WirelessLink`: `Modulus` 3 for 2^16, so that a counter that is not reset
wraps within the run, and periods of one or two seconds, so that timers expire
together and apart; `AssocSecs` is two where scans and associations outlast other
timers. One network with 802.1X where the events are all there, one with a shared
key where the user's requests are: the machine has one context, and a second network
of a kind only renames the first. The requests run without a passive scan and with
associations, dropped links and both kinds of frames, the driver runs with all events of
the driver and neither user nor frames (what an EAP frame does to the port and the passive
scan timer, a run of the port machine in ASSOCIATED does there); the inductive
proof covers their union, and the kinds of networks that are in no run (one that is
not configured, one whose profile has no method). Deadlock is not checked in these runs, because the daemon
may crash (`wireless_walk`).

For `ConfigStore`: a wired and a wireless interface, memory for two connections, a
profile and a trusted server, and two names for each, so that an object can meet one
of its own name, in its list or the other, and be renamed away. `InCache` is TRUE
in `config` (the half-made connection change is `config_rename`) and both there.
Deadlock is not checked: a daemon that crashed stops.

For `KeyHandshake`: every network, and every pre-shared key. `MaxCounter` 3
frames of the access point per association are enough for both handshakes with a
repetition; `MaxHandshakes`, `MaxNonce` and `MaxGtk` 2 give each thing a successor;
`Capacity` 2 lets a frame overtake another. When the access point has used its bound the
link can still drop, so nothing is cut short.

For `IpcServer`: two instances and five slots, three clients and an interface that
comes or goes once. With the listeners and netlink three slots are taken, so
the table is full with an interface and one connection, and the instances are full
with two; two requests on one connection give an answer that is late for the next.
Deadlock is not checked: the daemon may be killed, or block.

For `TlsMethods`: fragments of two units in `tls`, messages of two to five, so that each
is one, two or three fragments with a last one that is full or not; three conversations, so
that what two broken ones left meets a third; two restarts, and two inner messages. In `tls`
fragments are longer than `AckSlack` or shorter, in `tls_completes` (fragments of four)
always longer. Deadlock is not checked: after the last conversation nothing happens.

### Fairness

`WirelessProperties` assumes that a pass once begun goes on (weak fairness of
`TimerTicks` and of `MachineRuns` after them) and that `select` returns after a
second (weak fairness of `TickStarts`); nothing of the driver, the AP or the card.

`IpcServer` assumes weak fairness of `Daemon`, the daemon's next step: its loop is one
thread that goes on as long as it is not killed and no call blocks. Nothing is
assumed of clients and kernel.

`TlsMethods` assumes that the peer handles a request that has arrived and that the server
answers a response (weak fairness of both); a lost one is repeated. Nothing is assumed of
restarts or of new conversations, which `tls_completes` allows after the last has ended.

`WiredLiveness` assumes two things. The loop of `eapol_execute` is one call, so
once in it the daemon goes on (weak fairness). Real time passes: however many
frames arrive, again and again a pass of `event_core` finds
`cur_time > last_check` (strong fairness of a second passing; strong, because
reception disables it again and again). Nothing is assumed of the
authenticator or of the user.

## 4. Proofs

What `tlapm` proves it proves for all values of the constants that satisfy the
named assumptions of the modules; where a theorem needs more than those, it says
so in its own ASSUME. Every proof of a safety property goes the same way: a
conjunction of named parts that contains the property is shown to hold at the
start and to be preserved by each action, with a lemma for each function of the code
on the way.

### The wired supplicant

For all methods, connections, profiles, frames, identifier spaces and periods
(`IdSpaceAssumption`, `MethodsAssumption`, `ConnsAssumption`,
`PeriodsAssumption`, `EnvironmentAssumption`):

* `Inductive`: `Spec => []IInv`
* `TypeCorrect`: `Spec => []TypeOK`
* `AuthenticatedTheorem`: `Spec => []AuthenticatedByMethod`
* `PortInductive`: `Spec => []PortInv(ctx)`
* `BackendFollowsTheorem`: `Spec => []BackendFollowsPae`
* `PortTheorem`: `Spec => PortSpec`, the refinement of `PortAccess`
* `FewInductive`: `Spec => []FewInv`, under `Steady`
* `FewRunsTheorem`: `Spec => []FewRuns`, under `Steady`
* `OneVerdictTheorem`: `Spec => []OneVerdict`, under `AuthPeriod > 1`
* `DuplicateTheorem`: `Spec => DuplicateChangesNothing`, without EAP-TNC
* `AnsInductive`: `Spec => []AnsInv`, under `Orderly`
* `AnswersTheorem`, `NoStaleReadTheorem`: `Spec => []AnswersItsRequest` and
  `Spec => []NoStaleRead`, under `Orderly`

`AuthenticatedByMethod` is not inductive: AUTHENTICATED is entered because of
`suppSuccess`, which the backend sets because of `eapSuccess`, which the EAP
machine sets because of its decision, each at a different time. `IInv` states
the chain:

* `EapOk`: `eapSuccess` implies `won`; `won`, an accepting indication and every
  decision but EAP_FAIL imply that a method ran (`by`), one the bound profile
  allows; the selected and the configured methods are allowed ones;
* `SuccessHolds`: while the PAE is AUTHENTICATED, or AUTHENTICATING with
  `suppSuccess`, the conversation is won and the backend is quiet, that is it
  will not call the EAP machine and so not start a new conversation behind the
  PAE's back;
* `ReceiveWaits`: `eapSuccess` is taken before the backend waits for a frame;
* `UnsetIsUnused`: a machine that was reinitialised and not yet started is not
  called;
* `GivenUp`, `Unreached`: S_FORCE_AUTH comes with its port mode, and the
  transitions no code triggers stay untriggered.

`EapProofs` shows that every operator of `EapPeer` preserves `EapOk`.
`WiredProofs` follows the calls outwards: the backend (`Enabled`, `Live`), the
PAE (`Base`, `Entered`, `Begun`), one run of all machines
(`StatemachineRunOk`), the user requests (`Handed`), and the actions
(`StepOk`).

The refinement needs more. A step of the wired supplicant is one call of the event
loop, in which the port may be closed and something else begun; `PortStep` says what
such a step comes to: nothing, a success proved or forgotten behind a port that stays
as it is, a grant after a success, a port that 802.1X gives up, a port that closes.
`PortInv` has what has to be known beforehand: a port without link is to be initialised
(`LinkOk`), a forced port is left through LOGOFF only (`ModeOk`), the backend is where the
PAE expects it (`Follows`, which is `BackendFollowsPae`), and a verdict leaves the backend
quiet, or about to be (`VerdictQuiets`). The last is the strengthening: AUTHENTICATING is
left by a verdict, and the backend must not go on talking for a PAE that is in HELD or
CONNECTING. `PortProofs` goes through the same calls a second time for it; the link
may answer what it likes.

`FewRuns` is a matter of progress told as safety. `RunsLeft` says for each pair of states
how many runs a frame still needs: at most four, none once the frame is taken. A run
makes it smaller (`RunPrompt`), because what the machines wait for is there when the
next run looks (`Prompt`): in AUTHENTICATING there is a verdict, or the backend waits for
the frame, or it is in REQUEST with an answer of the EAP machine to send; a machine that
is to be initialised or aborted has left the conversation. That the EAP machine always
answers a request, if only by discarding it, is shown along its operators (`RunAnswers`).
`Steady` is needed for both its parts, and TLC has a counterexample without either:
without link nothing is received, and a request of type 0 that comes before a method is
selected counts as one for the selected method, is looked up in vain
(`eap_sm.c:1129`, `eap_sm.c:1168`) and stays pending, until `eapol_execute` has run 255
times.

`OneVerdict` has three sources of a second verdict to exclude, none of which the
property mentions; `VerdictInv` does. The EAP machine could have failed and succeeded:
what it comes to from neither is not both (`RunNotBoth`), and the backend
takes a request only when it has neither, or a verdict already. Verdicts of two
conversations could add up: AUTHENTICATING starts with none, and a backend that is
told to begin is idle (`Told`). And a failure is reported in two runs, in REQUEST and again in
RECEIVE, where the clock is looked at as well: the first of these runs set the clock, one
second at most passes until the second, and so the clock has not run out if the period
is longer (`Pending`, `InTime`). The theorem needs nothing else: the link may fail, the
user may ask for anything.

`DuplicateChangesNothing` is an action property. `RunRetransmits` shows that the EAP
machine takes a repeated request for one, whatever the configured methods are, and
`RequestRetransmits` that the backend hands it nothing else; that a state of the backend
was left by this request and not by the clock needs an invariant (`Untimed`). It is false
of EAP-TNC, an option of the build (`HAVE_TNC`): its request initialises the machine, the
last identifier included, before the identifier is looked at (`eap_sm.c:891`).

`AnswersItsRequest` and `NoStaleRead` are about what two runs of the machines do to one
frame, with the stored response, a response that waits and the frame in the buffer each
kept in a place of its own. `Faithful` says that the response that waits answers the frame
and that the stored one has the identifier of the last request. `Honest` adds where a
response may wait between two runs (AUTHENTICATING with the backend in REQUEST, the frame
still pending) and where a success may (`Won`: told, about to be told, or to be
forgotten). Between the port access entity and the backend, within a run, that is
not so, and `Mid` says what is: a conversation at rest, one that failed, one that
talks, or one that opens with the frame it was woken by. `FewInv` is needed: it says that
the frame is used up before the loop of `eapol_execute` ends, so that no response is left
for the next frame. Each part of `Orderly` leaves out a thing that the code does otherwise:

* without link a frame stays pending, and the next takes its place (`Steady`);
* a change of the connection can leave S_FORCE_AUTH, where nobody takes a frame,
  with one pending that is freed by then; a late password steps `lastId` back by one and
  replays the request, so that a stored response of another identifier may be sent;
* EAP-LEAP answers a SUCCESS, and so a frame that is no request;
* a frame has one of the four codes of EAP, and no request has the identifier 255, which
  stands for "no request yet" (`eap_sm.c:462`);
* fewer than four runs would not use up a frame (the code has 255).

The run `conversation` satisfies `Orderly`; the user requests that it leaves out and
`Orderly` admits (logoff, disconnect, unbind) are covered by the proof.

### The wireless machine

For all networks, kinds, periods, requests, events and
widths of the counter that satisfy `ModulusAssumption` and `WirelessAssumption`:

* `WirelessInductive`: `Spec => []Invariant`
* `WirelessTypeCorrect`: `Spec => []TypeOK`
* `WaitIsTimedTheorem`: `Spec => []WaitIsTimed`
* `PortFollowsLinkTheorem`: `Spec => PortFollowsLink`
* `CountersInRangeTheorem`: `Spec => []CountersInRange`

`Invariant` says that the context is `Sound` and that the walk of the timers is on a
node (`WalkIsOnNode`): counting down a timer that is not there would make one.
`Sound(c, p)` is the type of the context and `Timed`, and for `p = "shut"` also
`ShutOffLink`. The lemmas are stated for both values of `p`: every function of
`wireless_sm.c` and every request and event keeps the context sound, and keeps the port
shut off the link when it was (`QuietStep`). For that `ShutOffLink` has its second part,
that INT_STOPPED comes with the port forced shut: without it an EAP frame taken after a
stop could open the port. Late frames keep the first kind of soundness only, so the
invariant is `State("any")`, and `PortFollowsLinkTheorem` begins in any state that is
`State("shut")`. Each function gets a lemma that it makes a
sound context of a sound one, or of any context when it sets everything anew
(`ToActiveScan`, `ToPortDown`, `ToIntStopped`); the lemmas about `TimerList` say
which kinds have a node afterwards.

`CountersInRange` has an invariant of its own, `Paced`: every timer on the list, the
passive scan's excepted, has between one second and its period left. While a timer is
ticked that is not so; it may be at zero until its callbacks are through (`PacedBut`), and
each of them either cancels it, sets it again or leads to a state that has it
cancelled. That the walk is on a node (`WalkIsOnNode`) is needed too.

### The handshakes

For every number of frames, handshakes, nonces, keys, places on
the link and networks that satisfy `KeyAssumption` and `PmksAssumption`:

* `KeysInductive`: `Spec => []Invariant`
* `KeysTypeCorrect`, `SharedKeyTheorem`, `CanFinishTheorem`, `GroupAgreesTheorem`,
  `DoingIsTimedTheorem`, `MasterKeyTheorem`, `VerdictIsTrueTheorem`: every property
  of the run `keys`

`SharedKey` is not inductive: a message 4 on its way can make the access point
finish, and an old message 1 or 3 could make the supplicant compute another
transient key. `Message4Counts` says that a message 4 which will count was sent
by a supplicant that still has the keys and kept the counter of message 3;
`OldAreReplays` that the frames before it are replays from then on. On an orderly
link an answer with the counter of the access point's last frame means that
nothing is on its way to the supplicant (`InOrder`), so that what was true when it
was sent still is (`OrderlyAnswers`, `OrderlyStages`, `LastHasGroupKey`). The
other parts say what counters (`Counted`), the access point's keys (`Keyed`) and the
master key (`MasterKnown`) can be, and that nothing was answered before the machine
saw the association (`NewIsQuiet`). The proof has lemmas about the sequences of
frames (one more, one less, one repeated), one about what a supplicant may do with
each kind of message (`Outcomes`), and one for each action.

### The configuration

For all memories, names, interfaces, files and requests that
satisfy `ConfigAssumption`, for a user interface that is careful and for one that is
not:

* `ConfigInductive`: `Spec => []Invariant`
* `ConfigTypeCorrect`, `NamesUniqueTheorem`, `OnlyReloadUnbindsTheorem`
* `LinkedInductive`: under `Checks`, `Spec => [](Invariant /\ Linked)`
* `ReferencesResolveTheorem`, `BoundTogetherTheorem`: under `Checks`

`Invariant` has, next to the types and `NamesUnique`, that an interface never
points to a cell that holds nothing (`Valid`): what is freed is not in use or the
pointer is known to dangle. `Keeps` says of a step that no pointer to a connection
begins to dangle; it holds of every action but `ReloadConfiguration`.

The other two are about a user interface that checks what it asks for and networks that
are in the cache when an interface is bound (`Checks`; without the second a bound interface
keeps the profile of the connection before, finding 3). `Linked` has three parts that lean
on each other: what a reference names is in the list where the code looks for it
(`ProfilesOffered`, `ServersOffered`), no two profiles share a name (or the renaming
of one would leave behind what refers to the other), and each interface's connection,
profile and name belong together (`AllTogether`).

### The TLS methods

For all sizes of fragments and messages, servers, refusals,
restarts and numbers of conversations that satisfy `ChunkAssumption` and `TlsAssumption`:

* `SessionForKeys`: `Spec => []KeysHaveSession`
* `TlsTypeCorrect`: `Spec => []TypeOK`
* `FlowInductive`: under `Resumes`, `Spec => [](TypeInv /\ SessionInv /\ Flow)`
* `IntactTheorem`, `HandedWholeTheorem`: under `Resumes`, both directions

A Start on a structure whose handshake is done would tear the session down and leave the
flag. `SessionInv` adds that a Start meets a machine that has selected no
method: each way to a new conversation deselects it, so the method is initialised,
and the flag reset, before the session is touched. The lemmas follow the calls
from `ossl_tls_funcs.c` through the methods to the EAP machine; most functions touch neither
the session nor the flag (`Keeps`).

`Intact` and `HandedWhole` are about messages that are complete, and one step completes
them; what makes them true is where both sides are before. `Flow` says it for each
packet that can be on its way:

* a request starts a conversation (`AtStart`), acknowledges a fragment (`AtAck`) or
  is a fragment of the server's message, with the flags it has by its place in it
  (`AtFragment`); a response is one the server can go on from (`Answered`);
* `Midway`: the peer has got the first n units of the server's message, in the BIO
  while the handshake lasts and in `in_so_far` and the queue later. What an
  earlier conversation left there may be anything as long as it cannot
  be taken for the missing part;
* `HalfSent`: the server has got a part of what is in the peer's queue and knows
  how long all of it is;
* `Backed`, `Kept`: there is a session behind every SSL object, an SSL object behind
  every queue, and a handshake is done with an open session only. With
  them a Start empties what the conversation before has left.
* `Ended`: a method state DONE is no failure in EAP-TLS (`tls/eaptls.c:285` leaves the
  decision UNCOND_SUCC), so a packet could still be sent after it. There is none but an
  ACK, because the queue out was destroyed with the other.

`Resumes` says that the profiles for EAP-TTLS ask for resumption. Without it
`Backed` fails, and so do the two properties (section 3); EAP-TLS and EAP-PEAP
need no assumption.

### The event loop and its connections

For every size of the table, number of instances, interfaces, clients, requests and link
messages (`EventAssumption`, `IpcAssumption`):

* `IpcInductive`: `Spec => []Inv`
* `IpcTypeCorrect`, `HandlersMatchTheorem`, `BlocksOnlyAboveTheorem`,
  `LeakIsRefusalTheorem`, `AnswersLagTheorem`, `CutOnlyAfterHangUpTheorem`: every
  safety property of the run `ipc`

None of them is inductive, because each joins a table of the daemon with something of the
kernel. `Inv` has, next to the types:

* `StructureOk`: nothing is open twice (`FilesOnce`), a slot in use has the
  descriptor of its source (`TableMatches`), an instance that of its connection with
  the flags of its kind (`InstancesMatch`); what is open and not watched
  (`UnwatchedAreLow`) and what a refused client left (`LeakedAreHigh`) are told apart.
  This is what makes a descriptor that the kernel gives out again harmless;
* `PlacesOk`: a client is in a backlog, accepted, or neither;
* `StreamOk`: the requests and answers on a stream are in their order, none is newer than
  the last request asked, and there are no more of them than requests given up and the one
  the client waits for. Reads that join several leave gaps, so this is a bound;
* `CauseOk`: `errno` is EPIPE because an accepted client hung up;
* `WalkOk`: what `select` found above the position of the walk is still
  readable, unless its slot was given to a connection that a listener below accepted;
* the daemon has not left its loop by `exit`.

### Only model-checked

* `Served`, `Completes`, `NeverStuck`, `HeldEnds`, `WaitsEnd`: liveness is beyond this
  prover, and so is ENABLED.
* What a recursive definition computes (the folds over the table, `BootedByRegistering`):
  induction over data needs theorems that no installed prover can instantiate.

## 5. Plan

1. Extend the model: the PMKSA cache with its limit and ages; the SSID cache behind
   `known` and `chosen`; the error queue; EAP-FAST, which
   shares `ossl_tls_funcs.c`; fragments on the IPC sockets and a client that does not read;
   several interfaces that receive.
2. Compose: `WirelessLink` with `SuppPae` in the place of `PaeRun` and with
   `KeyHandshake` in the place of its two frames; an abstract specification of the
   link that `WirelessLink` implements.
3. Prove: weaken `Orderly`, a condition at a time, to what the code does then (a late
   password, a change of the connection).

Not planned: the cryptography of the EAP methods, the drivers, the syntax of the
configuration files, the graphical user interface, plugins and crash dumps: input
and output, generated code, or data without behaviour of their own.
