------------------------------ MODULE Relay ------------------------------
(***************************************************************************)
(* The websocket edge of the relay (src/server.ts, handleUplink and        *)
(* handleClient) around the hub of one device: admission while the         *)
(* registry is asked, the frame chain that serialises a browser's frames   *)
(* behind a metered send, eviction, revocation, half-dead sockets.         *)
(*                                                                         *)
(* The relay runs on one event loop.  An action is one turn of it, or one  *)
(* link of a frame chain: those links are microtasks, so no other turn     *)
(* starts while one can run (Quiet).  What follows an await is an action   *)
(* of its own.                                                             *)
(*                                                                         *)
(* uplinkSockets, the server's own map of live uplinks, is written exactly *)
(* where the hub attaches and detaches and is not kept apart from it.      *)
(***************************************************************************)
EXTENDS Hub, Sequences

CONSTANTS
  TabOf,        \* the tab token each browser connection presents
  MaxFrames,    \* bound: frames a browser sends on each connection
  MaxPending,   \* MAX_AUTH_PENDING_FRAMES
  Vanishing     \* bound: the sockets whose peer may vanish without a close

ASSUME RelayAssumption ==
  /\ TabOf \in [Client -> Tab \cup {NoTab}]
  /\ MaxFrames \in [Client -> Nat]
  /\ MaxPending \in Nat
  /\ Vanishing \subseteq Client \cup Uplink

VARIABLES
  phase,      \* how far the handler of each connection has got
  queue,      \* frames received and not yet handled: buffer, then frame chain
  awaiting,   \* clients whose chain waits for the usage store
  sent,       \* frames each browser has sent
  delivered,  \* the number of the last msg of each client the host was given
  synced,     \* clients given a snapshot by the current uplink
  row,        \* the device's registry row
  again       \* history: a browser has sent ready again on a connection

edgeVars == <<phase, queue, awaiting, sent, delivered, synced, row, again>>
vars == <<hubVars, socket, edgeVars>>

Phase == {"idle", "admitting", "verified", "joined", "closed"}
FrameKind == {"ready", "act", "send"}
Frame == [kind : FrameKind, n : Nat]
RowState == {"linked", "revoked", "disconnected"}

(***************************************************************************)
(* The frame chain.  Frames of a joined client run in arrival order, those *)
(* that were on the chain when its socket closed included.                 *)
(***************************************************************************)
Runnable(c) ==
  phase[c] \in {"joined", "closed"} /\ queue[c] # <<>> /\ c \notin awaiting

Quiet == \A c \in Client : ~Runnable(c)

Socket(S) == socket' = Closing(S)

(***************************************************************************)
(* Uplinks.                                                                *)
(***************************************************************************)
UplinkDial(u) ==
  /\ Quiet
  /\ phase[u] = "idle"
  /\ phase' = [phase EXCEPT ![u] = "admitting"]
  /\ socket' = [socket EXCEPT ![u] = "open"]
  /\ UNCHANGED <<hubVars, queue, awaiting, sent, delivered, synced, row, again>>

\* The registry answers devices.verify: the token is good.
VerifyReads(u) ==
  /\ Quiet
  /\ phase[u] = "admitting"
  /\ row = "linked"
  /\ phase' = [phase EXCEPT ![u] = "verified"]
  /\ UNCHANGED <<hubVars, socket, queue, awaiting, sent, delivered, synced, row, again>>

\* It answers null, or fails: closed 4001 or 1011.
VerifyRefuses(u) ==
  /\ Quiet
  /\ phase[u] = "admitting"
  /\ phase' = [phase EXCEPT ![u] = "closed"]
  /\ Socket({u})
  /\ UNCHANGED <<hubVars, queue, awaiting, sent, delivered, synced, row, again>>

\* handleUplink resumes: the socket died meanwhile, or the device is taken
\* (4002), or the hub takes it.
UplinkDied(u) ==
  /\ Quiet
  /\ phase[u] = "verified"
  /\ ~IsOpen(u)
  /\ phase' = [phase EXCEPT ![u] = "closed"]
  /\ UNCHANGED <<hubVars, socket, queue, awaiting, sent, delivered, synced, row, again>>

UplinkTaken(u) ==
  /\ Quiet
  /\ phase[u] = "verified"
  /\ IsOpen(u)
  /\ uplink # NoUplink
  /\ phase' = [phase EXCEPT ![u] = "closed"]
  /\ Socket({u})
  /\ UNCHANGED <<hubVars, queue, awaiting, sent, delivered, synced, row, again>>

UplinkAttaches(u) ==
  /\ Quiet
  /\ phase[u] = "verified"
  /\ IsOpen(u)
  /\ AttachUplink(u)
  /\ phase' = [phase EXCEPT ![u] = "joined"]
  /\ synced' = {}
  /\ UNCHANGED <<socket, queue, awaiting, sent, delivered, row, again>>

\* Frames of the attached uplink.  ws hands over frames that arrive after the
\* relay's own close() too, and this handler does not look at readyState.
Speaking(u) == Quiet /\ uplink = u /\ socket[u] \in {"open", "closing"}

HostHello(u) ==
  /\ Speaking(u)
  /\ UplinkHello
  /\ UNCHANGED <<socket, edgeVars>>

\* A newer protocol, or traffic before hello: closed 4006.
HostRefused(u) ==
  /\ Speaking(u)
  /\ Socket({u})
  /\ UNCHANGED <<hubVars, edgeVars>>

\* The host answers a client-ready; a client that left meanwhile gets nothing.
HostSnapshot(u, c) ==
  /\ Speaking(u)
  /\ c \in host.owed
  /\ UplinkSnapshot(c)
  /\ synced' = IF c \in clients /\ socket[c] = "open"
               THEN synced \cup {c} ELSE synced
  /\ UNCHANGED <<socket, phase, queue, awaiting, sent, delivered, row, again>>

UplinkClosed(u) ==
  /\ Quiet
  /\ socket[u] = "closing"
  /\ socket' = [socket EXCEPT ![u] = "closed"]
  /\ IF phase[u] = "joined"
     THEN DetachUplink /\ phase' = [phase EXCEPT ![u] = "closed"]
     ELSE UNCHANGED <<hubVars, phase>>
  /\ UNCHANGED <<queue, awaiting, sent, delivered, synced, row, again>>

(***************************************************************************)
(* Revocation: DELETE /api/devices/:id, and unlink from the host.          *)
(***************************************************************************)
RevokeCommits ==
  /\ Quiet
  /\ row = "linked"
  /\ row' = "revoked"
  /\ UNCHANGED <<hubVars, socket, phase, queue, awaiting, sent, delivered, synced, again>>

\* revokeDevice resumes and closes the live uplink 4001.
RevokeCloses ==
  /\ Quiet
  /\ row = "revoked"
  /\ row' = "disconnected"
  /\ Socket({uplink})
  /\ UNCHANGED <<hubVars, phase, queue, awaiting, sent, delivered, synced, again>>

(***************************************************************************)
(* Browser connections.                                                    *)
(***************************************************************************)
ClientDial(c) ==
  /\ Quiet
  /\ phase[c] = "idle"
  /\ phase' = [phase EXCEPT ![c] = "admitting"]
  /\ socket' = [socket EXCEPT ![c] = "open"]
  /\ UNCHANGED <<hubVars, queue, awaiting, sent, delivered, synced, row, again>>

\* The page sends ready first, on the socket's open event, and may send it again.
Sends(c, f) ==
  /\ f.n = sent[c] + 1
  /\ f.n = 1 => f.kind = "ready"

\* bufferUntilAdmitted overflows: 1009, and what was buffered is dropped.
Overflows(c) == phase[c] = "admitting" /\ Len(queue[c]) >= MaxPending

ClientFrame(c, f) ==
  /\ Quiet
  /\ phase[c] \in {"admitting", "joined"}
  /\ socket[c] = "open"
  /\ f.n <= MaxFrames[c]
  /\ Sends(c, f)
  /\ sent' = [sent EXCEPT ![c] = f.n]
  /\ queue' = [queue EXCEPT ![c] = IF Overflows(c) THEN <<>> ELSE Append(@, f)]
  /\ Socket(IF Overflows(c) THEN {c} ELSE {})
  /\ again' = (again \/ (f.kind = "ready" /\ f.n > 1))
  /\ UNCHANGED <<hubVars, phase, awaiting, delivered, synced, row>>

\* Mutant: readyState is not looked at again after the awaits.
ClientJoinsUnchecked(c) ==
  /\ Quiet
  /\ phase[c] = "admitting"
  /\ AddClient(c)
  /\ phase' = [phase EXCEPT ![c] = "joined"]
  /\ UNCHANGED <<socket, queue, awaiting, sent, delivered, synced, row, again>>

\* handleClient's awaits are over and the socket is still open: it joins, and
\* the buffered frames become its chain.
ClientJoins(c) ==
  /\ Quiet
  /\ phase[c] = "admitting"
  /\ IsOpen(c)
  /\ AddClient(c)
  /\ phase' = [phase EXCEPT ![c] = "joined"]
  /\ UNCHANGED <<socket, queue, awaiting, sent, delivered, synced, row, again>>

\* No session, no entitlement, not the owner, a lookup failed: closed. Or the
\* socket died while it was asked.
ClientRefused(c) ==
  /\ Quiet
  /\ phase[c] = "admitting"
  /\ phase' = [phase EXCEPT ![c] = "closed"]
  /\ queue' = [queue EXCEPT ![c] = <<>>]
  /\ Socket({c})
  /\ UNCHANGED <<hubVars, awaiting, sent, delivered, synced, row, again>>

Popped(c) == queue' = [queue EXCEPT ![c] = Tail(@)]

\* handleFrame up to its first await, for an uncapped frame.
RunReady(c) ==
  /\ Runnable(c)
  /\ Head(queue[c]).kind = "ready"
  /\ ClientReady(c, TabOf[c])
  /\ Popped(c)
  /\ UNCHANGED <<phase, awaiting, sent, delivered, synced, row, again>>

Routed(c) ==
  /\ ClientMsg(c)
  /\ delivered' = IF Deliverable
                  THEN [delivered EXCEPT ![c] = Head(queue[c]).n] ELSE delivered

RunAct(c) ==
  /\ Runnable(c)
  /\ Head(queue[c]).kind = "act"
  /\ Routed(c)
  /\ Popped(c)
  /\ UNCHANGED <<socket, phase, awaiting, sent, synced, row, again>>

\* A capped frame: bounced when the device is offline or the minute is full,
\* routed at once when it is not metered, else the usage store is asked.
RunSendBounces(c) ==
  /\ Runnable(c)
  /\ Head(queue[c]).kind = "send"
  /\ Popped(c)
  /\ UNCHANGED <<hubVars, socket, phase, awaiting, sent, delivered, synced, row, again>>

RunSendRoutes(c) ==
  /\ Runnable(c)
  /\ Head(queue[c]).kind = "send"
  /\ Deliverable
  /\ Routed(c)
  /\ Popped(c)
  /\ UNCHANGED <<socket, phase, awaiting, sent, synced, row, again>>

\* Mutant: a send is metered off the chain, and the frames behind it go ahead.
RunSendMetersAside(c) ==
  /\ Runnable(c)
  /\ Head(queue[c]).kind = "send"
  /\ Deliverable
  /\ queue' = [queue EXCEPT ![c] = Append(Tail(@), Head(@))]
  /\ UNCHANGED <<hubVars, socket, phase, awaiting, sent, delivered, synced, row, again>>

RunSendMeters(c) ==
  /\ Runnable(c)
  /\ Head(queue[c]).kind = "send"
  /\ Deliverable
  /\ awaiting' = awaiting \cup {c}
  /\ UNCHANGED <<hubVars, socket, phase, queue, sent, delivered, synced, row, again>>

\* The usage store answers: within the quota, or failed, which routes the
\* frame if an uplink is still there; or over the quota.
MeteredRoutes(c) ==
  /\ Quiet
  /\ c \in awaiting
  /\ awaiting' = awaiting \ {c}
  /\ Routed(c)
  /\ Popped(c)
  /\ UNCHANGED <<socket, phase, sent, synced, row, again>>

MeteredBounces(c) ==
  /\ Quiet
  /\ c \in awaiting
  /\ awaiting' = awaiting \ {c}
  /\ Popped(c)
  /\ UNCHANGED <<hubVars, socket, phase, sent, delivered, synced, row, again>>

ClientClosed(c) ==
  /\ Quiet
  /\ socket[c] = "closing"
  /\ socket' = [socket EXCEPT ![c] = "closed"]
  /\ IF phase[c] = "joined"
     THEN RemoveClient(c) /\ phase' = [phase EXCEPT ![c] = "closed"]
     ELSE UNCHANGED <<hubVars, phase>>
  /\ UNCHANGED <<queue, awaiting, sent, delivered, synced, row, again>>

(***************************************************************************)
(* Any socket: its peer vanishes, closes, or misses a pong.                *)
(***************************************************************************)
PeerVanishes(s) ==
  /\ Quiet
  /\ s \in Vanishing
  /\ socket[s] = "open"
  /\ socket' = [socket EXCEPT ![s] = "lost"]
  /\ UNCHANGED <<hubVars, edgeVars>>

PeerCloses(s) ==
  /\ Quiet
  /\ socket[s] = "open"
  /\ Socket({s})
  /\ UNCHANGED <<hubVars, edgeVars>>

\* The pinger found no pong since its last tick and terminates the socket.
PingTerminates(s) ==
  /\ Quiet
  /\ socket[s] = "lost"
  /\ Socket({s})
  /\ UNCHANGED <<hubVars, edgeVars>>

(***************************************************************************)
(* The specification.                                                      *)
(***************************************************************************)
Init ==
  /\ HubInit
  /\ phase = [s \in Client \cup Uplink |-> "idle"]
  /\ queue = [c \in Client |-> <<>>]
  /\ awaiting = {}
  /\ sent = [c \in Client |-> 0]
  /\ delivered = [c \in Client |-> 0]
  /\ synced = {}
  /\ row = "linked"
  /\ again = FALSE

UplinkStep(u) ==
  \/ UplinkDial(u) \/ VerifyReads(u) \/ VerifyRefuses(u)
  \/ UplinkDied(u) \/ UplinkTaken(u) \/ UplinkAttaches(u)
  \/ HostHello(u) \/ HostRefused(u) \/ UplinkClosed(u)
  \/ \E c \in Client : HostSnapshot(u, c)

ClientStep(c) ==
  \/ ClientDial(c) \/ ClientJoins(c) \/ ClientRefused(c) \/ ClientClosed(c)
  \/ \E k \in FrameKind : ClientFrame(c, [kind |-> k, n |-> sent[c] + 1])
  \/ MeteredRoutes(c) \/ MeteredBounces(c)

ChainStep(c) ==
  \/ RunReady(c) \/ RunAct(c)
  \/ RunSendBounces(c) \/ RunSendRoutes(c) \/ RunSendMeters(c)

SocketStep(s) == PeerVanishes(s) \/ PeerCloses(s) \/ PingTerminates(s)

Next ==
  \/ \E u \in Uplink : UplinkStep(u)
  \/ \E c \in Client : ClientStep(c) \/ ChainStep(c)
  \/ \E s \in Client \cup Uplink : SocketStep(s)
  \/ RevokeCommits \/ RevokeCloses

Spec == Init /\ [][Next]_vars

(***************************************************************************)
(* Fairness.  The event loop runs what is queued on it, the usage store    *)
(* answers, the pinger ticks, a close is followed by its close event, and  *)
(* a host that is linked greets the relay and answers every client-ready.  *)
(* Nobody is obliged to dial, to send or to stay.                          *)
(***************************************************************************)
Fairness ==
  /\ \A c \in Client :
       /\ WF_vars(ChainStep(c))
       /\ WF_vars(MeteredRoutes(c) \/ MeteredBounces(c))
       /\ WF_vars(ClientClosed(c))
  /\ \A u \in Uplink :
       /\ WF_vars(UplinkClosed(u))
       /\ WF_vars(HostHello(u))
       /\ \A c \in Client : WF_vars(HostSnapshot(u, c))
  /\ \A s \in Client \cup Uplink : WF_vars(PingTerminates(s))

FairSpec == Spec /\ Fairness

(***************************************************************************)
(* Types.                                                                  *)
(***************************************************************************)
TypeOK ==
  /\ HubTypeOK
  /\ phase \in [Client \cup Uplink -> Phase]
  /\ queue \in [Client -> Seq(Frame)]
  /\ awaiting \in SUBSET Client
  /\ sent \in [Client -> Nat]
  /\ delivered \in [Client -> Nat]
  /\ synced \in SUBSET Client
  /\ row \in RowState
  /\ again \in BOOLEAN

\* A chain that waits for the usage store was admitted, and waits with a frame.
AwaitingHasFrame ==
  \A c \in awaiting : queue[c] # <<>> /\ phase[c] \in {"joined", "closed"}

(***************************************************************************)
(* Safety.                                                                 *)
(***************************************************************************)
\* One token is one client: across admissions, evictions, outages and late
\* frames, no two entries of the hub hold the same tab token
\* (evictClientsWithTabToken, and ready's write to tabToken).
OneHolderPerTab ==
  \A c, d \in clients : c # d /\ tab[c] = tab[d] => tab[c] = NoTab

\* A host that can be reached has been told of every client that presented a
\* token, with that token, whether the ready was routed while it was connected
\* or arrived during an outage and was replayed by attachUplink.
HostKnowsTabs ==
  Deliverable =>
    \A c \in clients :
      tab[c] # NoTab => c \in host.present /\ host.tab[c] = tab[c]

\* The last count a reachable host was sent is the number of clients: every
\* path that changes the map tells it, eviction included (notifyClientCount).
CountIsCurrent == Deliverable => host.count = Cardinality(clients)

\* Nothing is left in the hub that no close event will ever remove: an entry
\* or an uplink belongs to a handler that is attached and whose close event is
\* still to come (the readyState checks after each await).
NothingStranded ==
  /\ \A c \in clients : phase[c] = "joined" /\ socket[c] # "closed"
  /\ uplink # NoUplink => phase[uplink] = "joined" /\ socket[uplink] # "closed"

\* A browser whose socket stays open after it joined is in the hub: a client
\* evicted by its successor is closed, online or offline, and is never left
\* open and deaf.
NoDeafSocket == \A c \in Client : phase[c] = "joined" /\ IsOpen(c) => c \in clients

\* The host never has to refuse an arrival because another present client
\* holds its token (the eviction's client-left is written before client-ready).
NoRivalArrival == host.refused = {}

\* Once a removal has run to its end, the device has no open uplink.
RevokedIsDisconnected ==
  row = "disconnected" => uplink = NoUplink \/ ~IsOpen(uplink)

\* The messages of one client reach the host in the order they were sent: none
\* overtakes a send that waits for the usage store (frameChain).
FramesInOrder ==
  [][\A c \in Client : delivered'[c] # delivered[c] => delivered'[c] > delivered[c]]_delivered

(***************************************************************************)
(* The roster the host holds, as TabRoster describes it.  A client is gone *)
(* when its handler has returned or its successor has evicted it.          *)
(***************************************************************************)
Members == IF Deliverable THEN host.present ELSE {}

Held == [c \in Client |-> IF c \in Members THEN host.tab[c] ELSE NoTab]

Gone == {c \in Client : phase[c] \in {"joined", "closed"} /\ c \notin clients}

Roster == INSTANCE TabRoster WITH members <- Members, holds <- Held, gone <- Gone

\* The hub and the websocket edge implement the roster, for as long as no browser
\* has sent ready again on a connection.
ImplementsRoster ==
  Roster!Init /\ [][again' \/ Roster!Next]_Roster!rosterVars

(***************************************************************************)
(* Liveness.                                                               *)
(***************************************************************************)
HostReachable == uplink # NoUplink /\ socket[uplink] = "open"

\* If an uplink stays up from some point on, every client that is in the hub
\* and has presented its token gets a snapshot from it, or stops being there:
\* also one whose ready came during an outage, and one that was synced by an
\* earlier uplink.
EventuallySynced ==
  <>[]HostReachable =>
    \A c \in Client :
      (c \in clients /\ tab[c] # NoTab) ~>
        (c \in synced \/ c \notin clients \/ socket[c] # "open")
=============================================================================
