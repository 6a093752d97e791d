---------------------------- MODULE SwarmRegistry ----------------------------
(***************************************************************************)
(* The transport registry of rings-core's Swarm (src/rings-core/src/       *)
(* swarm.rs) driven by its message loop.                                   *)
(*                                                                         *)
(* A handshake creates a transport and pushes it on the pending list.  The *)
(* transport's ICE callbacks put RegisterTransport(did, id) on the event   *)
(* channel when it connects and ConnectClosed(did, id) when it closes.     *)
(* The loop (iter_messages / poll_message) takes one event at a time and   *)
(* runs load_message on it: a pending transport is registered under its    *)
(* DID (register closes the transport it replaces, and awaits that close)  *)
(* and popped from the pending list, and JoinDHT / LeaveDHT tell the DHT.  *)
(*                                                                         *)
(* The pending list sits behind a Mutex taken with try_lock.  When the     *)
(* runtime is multi-threaded another thread (pending_transports) may hold  *)
(* it, and then find_pending_transport and pop_pending_transport fail.     *)
(***************************************************************************)
EXTENDS Naturals, Sequences, FiniteSets

CONSTANTS
  Peers,          \* the DIDs this node may connect to
  Conns,          \* transport ids (uuid) of the transports it may create
  None,           \* Option::None
  MultiThreaded   \* may another thread hold the pending Mutex?

ASSUME SwarmAssumption ==
  /\ Peers # {} /\ Conns # {}
  /\ None \notin Peers \cup Conns
  /\ MultiThreaded \in BOOLEAN

VARIABLES
  tstate,    \* id -> "Unused", "New", "Connected" or "Closed"
  tpeer,     \* id -> the DID the transport connects to (None while Unused)
  pending,   \* pending_transports: the Vec behind the Mutex
  registry,  \* transports: MemStorage<Did, Transport>, None when absent
  events,    \* transport_event_channel, first in first out
  loop,      \* the message loop: receiving, or suspended in register
  lock,      \* does another thread hold the pending Mutex?
  dht,       \* the DIDs announced with JoinDHT and not withdrawn by LeaveDHT
  sender     \* a do_send_payload call: idle, or awaiting the data channel of
             \* the transport it took for a DID

vars == <<tstate, tpeer, pending, registry, events, loop, lock, dht, sender>>

States == {"Unused", "New", "Connected", "Closed"}

Event == [kind: {"Register", "Closed"}, did: Peers, id: Conns]

Idle == [pc |-> "recv", did |-> None, id |-> None]

Loop == {Idle} \cup [pc: {"register"}, did: Peers, id: Conns]

SendIdle == [pc |-> "idle", did |-> None, id |-> None]

Sender == {SendIdle} \cup [pc: {"wait"}, did: Peers, id: Conns]

-----------------------------------------------------------------------------
(* The pending list                                                         *)

Registered(c) == \E p \in Peers : registry[p] = c

InPending(c) == \E k \in 1..Len(pending) : pending[k] = c

\* iter().position(|x| x.id == c): the first index holding c
IndexOf(s, c) ==
  CHOOSE k \in 1..Len(s) : s[k] = c /\ \A j \in 1..(k - 1) : s[j] # c

\* Vec::remove(k)
RemoveAt(s, k) == [i \in 1..(Len(s) - 1) |-> IF i < k THEN s[i] ELSE s[i + 1]]

\* try_lock succeeds and the transport is found: pop_pending_transport is Ok
PopOk(c) == ~lock /\ InPending(c)

Popped(c) == RemoveAt(pending, IndexOf(pending, c))

\* transport.close(): a live transport closes and its callback reports it;
\* closing a closed one is an error that register only logs
Close(c, did, rest) ==
  IF tstate[c] \in {"New", "Connected"}
  THEN /\ tstate' = [tstate EXCEPT ![c] = "Closed"]
       /\ events' = Append(rest, [kind |-> "Closed", did |-> did, id |-> c])
  ELSE /\ UNCHANGED tstate
       /\ events' = rest

-----------------------------------------------------------------------------
Init ==
  /\ tstate = [c \in Conns |-> "Unused"]
  /\ tpeer = [c \in Conns |-> None]
  /\ pending = <<>>
  /\ registry = [p \in Peers |-> None]
  /\ events = <<>>
  /\ loop = Idle
  /\ lock = FALSE
  /\ dht = {}
  /\ sender = SendIdle

(* A handshake to p creates transport c and push_pending_transport pushes   *)
(* it.  If try_lock fails the push returns an error and the handshake is    *)
(* abandoned before its offer leaves: nothing changes.                      *)
PrepareOffer(c, p) ==
  /\ tstate[c] = "Unused"
  /\ ~lock
  /\ tstate' = [tstate EXCEPT ![c] = "New"]
  /\ tpeer' = [tpeer EXCEPT ![c] = p]
  /\ pending' = Append(pending, c)
  /\ UNCHANGED <<registry, events, loop, lock, dht, sender>>

\* Mutant: the connect callback fires for a transport that was never created
TransportConnectedUnchecked(c) ==
  /\ tstate[c] \in {"Unused", "New"}
  /\ tstate' = [tstate EXCEPT ![c] = "Connected"]
  /\ events' = Append(events, [kind |-> "Register", did |-> tpeer[c], id |-> c])
  /\ UNCHANGED <<tpeer, pending, registry, loop, lock, dht, sender>>

(* The data channel of c opens: its callback sends RegisterTransport.       *)
TransportConnected(c) ==
  /\ tstate[c] = "New"
  /\ tstate' = [tstate EXCEPT ![c] = "Connected"]
  /\ events' = Append(events, [kind |-> "Register", did |-> tpeer[c], id |-> c])
  /\ UNCHANGED <<tpeer, pending, registry, loop, lock, dht, sender>>

(* c fails or is closed by its peer: its callback sends ConnectClosed.      *)
TransportClosed(c) ==
  /\ tstate[c] \in {"New", "Connected"}
  /\ Close(c, tpeer[c], events)
  /\ UNCHANGED <<tpeer, pending, registry, loop, lock, dht, sender>>

-----------------------------------------------------------------------------
(* The message loop                                                         *)

\* Mutant: the transport is registered but never popped from the pending list
FinishRegisterKeepsPending(did, id) ==
  /\ loop' = Idle
  /\ dht' = IF PopOk(id) THEN dht \cup {did} ELSE dht
  /\ UNCHANGED pending

(* After register: pop_pending_transport(id)? and, get_transport(did) being *)
(* Some, the JoinDHT payload.  A failed pop returns the error instead.      *)
FinishRegister(did, id) ==
  /\ loop' = Idle
  /\ \/ /\ PopOk(id)
        /\ pending' = Popped(id)
        /\ dht' = dht \cup {did}
     \/ /\ ~PopOk(id)
        /\ UNCHANGED <<pending, dht>>

(* RegisterTransport for a pending transport, no transport registered for  *)
(* the DID: register does not suspend and the loop goes straight on.        *)
LoadRegisterFresh ==
  LET e == Head(events) IN
  /\ loop = Idle
  /\ events # <<>>
  /\ e.kind = "Register"
  /\ PopOk(e.id)
  /\ registry[e.did] = None
  /\ registry' = [registry EXCEPT ![e.did] = e.id]
  /\ events' = Tail(events)
  /\ FinishRegister(e.did, e.id)
  /\ UNCHANGED <<tstate, tpeer, lock, sender>>

\* Mutant: register overwrites the table entry without closing the old one
LoadRegisterReplaceNoClose ==
  LET e == Head(events) IN
  /\ loop = Idle
  /\ events # <<>>
  /\ e.kind = "Register"
  /\ PopOk(e.id)
  /\ registry[e.did] # None
  /\ registry' = [registry EXCEPT ![e.did] = e.id]
  /\ events' = Tail(events)
  /\ loop' = [pc |-> "register", did |-> e.did, id |-> e.id]
  /\ UNCHANGED <<tstate, tpeer, pending, lock, dht, sender>>

(* RegisterTransport for a pending transport when one is registered for    *)
(* the DID: table.set replaces it and register awaits its close().          *)
LoadRegisterReplace ==
  LET e == Head(events)
      prev == registry[e.did]
  IN
  /\ loop = Idle
  /\ events # <<>>
  /\ e.kind = "Register"
  /\ PopOk(e.id)
  /\ prev # None
  /\ registry' = [registry EXCEPT ![e.did] = e.id]
  /\ Close(prev, e.did, Tail(events))
  /\ loop' = [pc |-> "register", did |-> e.did, id |-> e.id]
  /\ UNCHANGED <<tpeer, pending, lock, dht, sender>>

(* The close of the replaced transport has completed: register returns.    *)
RegisterResume ==
  /\ loop.pc = "register"
  /\ FinishRegister(loop.did, loop.id)
  /\ UNCHANGED <<tstate, tpeer, registry, events, lock, sender>>

(* RegisterTransport when find_pending_transport is an Err (try_lock      *)
(* failed) or Ok(None): nothing is registered; JoinDHT if get_transport    *)
(* finds a transport for the DID, SwarmMissTransport otherwise.             *)
LoadRegisterMissed ==
  LET e == Head(events) IN
  /\ loop = Idle
  /\ events # <<>>
  /\ e.kind = "Register"
  /\ ~PopOk(e.id)
  /\ events' = Tail(events)
  /\ dht' = IF registry[e.did] # None THEN dht \cup {e.did} ELSE dht
  /\ UNCHANGED <<tstate, tpeer, pending, registry, loop, lock, sender>>

\* Mutant: ConnectClosed removes whatever is registered, without t.id == uuid
LoadConnectClosedAnyId ==
  LET e == Head(events) IN
  /\ loop = Idle
  /\ events # <<>>
  /\ e.kind = "Closed"
  /\ events' = Tail(events)
  /\ pending' = IF PopOk(e.id) THEN Popped(e.id) ELSE pending
  /\ registry' = [registry EXCEPT ![e.did] = None]
  /\ dht' = IF registry[e.did] # None THEN dht \ {e.did} ELSE dht
  /\ UNCHANGED <<tstate, tpeer, loop, lock, sender>>

\* Mutant: the transport is removed but no LeaveDHT is sent
LoadConnectClosedNoLeave ==
  LET e == Head(events) IN
  /\ loop = Idle
  /\ events # <<>>
  /\ e.kind = "Closed"
  /\ events' = Tail(events)
  /\ pending' = IF PopOk(e.id) THEN Popped(e.id) ELSE pending
  /\ registry' = IF registry[e.did] = e.id
                 THEN [registry EXCEPT ![e.did] = None] ELSE registry
  /\ UNCHANGED <<tstate, tpeer, loop, lock, dht, sender>>

(* ConnectClosed(did, uuid): drop uuid from the pending list if the pop    *)
(* succeeds; if the transport registered for did has id uuid, remove it     *)
(* and send LeaveDHT.                                                        *)
LoadConnectClosed ==
  LET e == Head(events) IN
  /\ loop = Idle
  /\ events # <<>>
  /\ e.kind = "Closed"
  /\ events' = Tail(events)
  /\ pending' = IF PopOk(e.id) THEN Popped(e.id) ELSE pending
  /\ IF registry[e.did] = e.id
     THEN /\ registry' = [registry EXCEPT ![e.did] = None]
          /\ dht' = dht \ {e.did}
     ELSE UNCHANGED <<registry, dht>>
  /\ UNCHANGED <<tstate, tpeer, loop, lock, sender>>

(* Another thread calls pending_transports(): it holds the Mutex while it  *)
(* clones the list.  Only a multi-threaded runtime lets the loop see that. *)
OtherThreadLocks ==
  /\ MultiThreaded
  /\ ~lock
  /\ lock' = TRUE
  /\ UNCHANGED <<tstate, tpeer, pending, registry, events, loop, dht, sender>>

OtherThreadUnlocks ==
  /\ lock
  /\ lock' = FALSE
  /\ UNCHANGED <<tstate, tpeer, pending, registry, events, loop, dht, sender>>

-----------------------------------------------------------------------------
(* do_send_payload on another task                                          *)

(* get_and_check_transport(did): the registered transport, if it is        *)
(* Connected; the call then awaits wait_for_data_channel_open.  Without a   *)
(* live transport it fails with SwarmMissDidInTable and nothing changes.    *)
SendCheck(p) ==
  /\ sender = SendIdle
  /\ registry[p] # None
  /\ tstate[registry[p]] = "Connected"
  /\ sender' = [pc |-> "wait", did |-> p, id |-> registry[p]]
  /\ UNCHANGED <<tstate, tpeer, pending, registry, events, loop, lock, dht>>

(* The await returns and send_message writes on the transport taken before *)
(* it; on a transport closed meanwhile both fail and the payload is lost.   *)
SendWrite ==
  /\ sender.pc = "wait"
  /\ sender' = SendIdle
  /\ UNCHANGED <<tstate, tpeer, pending, registry, events, loop, lock, dht>>

\* The write reaches the peer: the transport is still Connected
Written == sender.pc = "wait" /\ tstate[sender.id] = "Connected"

LoadMessage ==
  \/ LoadRegisterFresh
  \/ LoadRegisterReplace
  \/ RegisterResume
  \/ LoadRegisterMissed
  \/ LoadConnectClosed

Next ==
  \/ \E c \in Conns, p \in Peers : PrepareOffer(c, p)
  \/ \E c \in Conns : TransportConnected(c) \/ TransportClosed(c)
  \/ LoadMessage
  \/ OtherThreadLocks
  \/ OtherThreadUnlocks
  \/ \E p \in Peers : SendCheck(p)
  \/ SendWrite

\* ICE on a new transport ends: it connects, or its timeout surfaces as
\* Failed and the callback reports the close (spec section 5).
IceEnds(c) == tstate[c] = "New" /\ (TransportConnected(c) \/ TransportClosed(c))

\* The loop is polled for ever, a MutexGuard is dropped when the function
\* that took it returns, and ICE times out.  A connected transport stays
\* open as long as the network lets it: no fairness closes it.
Spec ==
  /\ Init /\ [][Next]_vars
  /\ WF_vars(LoadMessage) /\ WF_vars(OtherThreadUnlocks)
  /\ \A c \in Conns : WF_vars(IceEnds(c))

-----------------------------------------------------------------------------
(* Properties                                                               *)

TypeOK ==
  /\ tstate \in [Conns -> States]
  /\ tpeer \in [Conns -> Peers \cup {None}]
  /\ pending \in Seq(Conns)
  /\ registry \in [Peers -> Conns \cup {None}]
  /\ events \in Seq(Event)
  /\ loop \in Loop
  /\ lock \in BOOLEAN
  /\ dht \in SUBSET Peers
  /\ sender \in Sender

(* Once the loop has drained the channel, the registry holds exactly the    *)
(* connected transports, one per DID and under its own DID, none of them   *)
(* still pending, and the DHT knows exactly the registered DIDs: the       *)
(* replace-and-close of register, the uuid check of ConnectClosed and the  *)
(* FIFO order of the callbacks' events together leave nothing stale.        *)
QuiescentConsistency ==
  (loop = Idle /\ events = <<>>) =>
    /\ \A c \in Conns : tstate[c] = "Connected" <=> Registered(c)
    /\ \A p \in Peers : registry[p] # None => tpeer[registry[p]] = p
    /\ \A p \in Peers : registry[p] # None => ~InPending(registry[p])
    /\ dht = {p \in Peers : registry[p] # None}

(* A DID is announced to the DHT only while a transport is registered for  *)
(* it: JoinDHT follows a successful get_transport and LeaveDHT goes out     *)
(* with every removal, whatever try_lock does.                              *)
DhtOnlyRegistered ==
  \A p \in dht : registry[p] # None

(* A connected transport is eventually registered under its DID, or        *)
(* closed: no RegisterTransport is lost between the callback and the loop.  *)
ConnectedEventuallyRegistered ==
  \A c \in Conns :
    tstate[c] = "Connected" ~> (Registered(c) \/ tstate[c] = "Closed")

(* Every transport pushed on the pending list leaves it: a handshake that  *)
(* is abandoned still ends in RegisterTransport or ConnectClosed once ICE   *)
(* connects or times out, and the loop pops it on either event.             *)
PendingEventuallyCleared ==
  \A c \in Conns : InPending(c) ~> ~InPending(c)

(* do_send_payload writes only on the transport registered for the DID at  *)
(* the moment of the write: a transport that register replaced or that     *)
(* ConnectClosed removed during the await has been closed, so the write     *)
(* fails instead of reaching a stale connection.                            *)
SendLandsOnRegistered ==
  [][SendWrite /\ Written => registry[sender.did] = sender.id]_vars

(* RegistryBinding: the transports' states and DIDs and the registry, seen *)
(* without the pending list, the channel and the suspended register.        *)
Binding == INSTANCE RegistryBinding WITH
  state <- tstate, peer <- tpeer, binding <- registry

(* The registry keeps the promise of spec section 4.5: register binds a     *)
(* DID only to a connected transport of that DID and closes the transport  *)
(* it replaces, and ConnectClosed removes a binding only once its transport *)
(* has closed, whatever other threads do to the pending list.                *)
RegistryRefined == Binding!Spec

=============================================================================
