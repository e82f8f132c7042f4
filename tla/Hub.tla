------------------------------- MODULE Hub -------------------------------
(***************************************************************************)
(* The routing hub of the relay (src/hub.ts) for one device: one uplink    *)
(* (the host, a VS Code extension) and any number of browser clients.      *)
(* Devices share nothing in the hub but the counter that mints client ids, *)
(* so one device is the whole component.                                   *)
(*                                                                         *)
(* Each operation of class Hub is an action over the hub's variables.      *)
(* Relay.tla adds the sockets' lifecycle and says when each one is called. *)
(*                                                                         *)
(* Frames the hub writes to the uplink are not queued: the host reads them *)
(* in order, so what it knows is a function of the frames written, and     *)
(* `host` is that function's value.  A frame written while the uplink is   *)
(* not deliverable reaches nobody.                                         *)
(***************************************************************************)
EXTENDS Naturals, FiniteSets

CONSTANTS
  Client,    \* browser connections; each gets a fresh client id when it joins
  Tab,       \* tab tokens a browser can present
  NoTab,     \* an entry or a frame without a tab token
  Uplink,    \* uplink connections
  NoUplink   \* the device has no uplink

ASSUME HubAssumption ==
  /\ IsFiniteSet(Client)
  /\ NoTab \notin Tab
  /\ NoUplink \notin Uplink
  /\ Client \cap Uplink = {}

VARIABLES
  uplink,    \* DeviceHub.uplink
  hello,     \* DeviceHub.uplinkProto # undefined
  clients,   \* the keys of DeviceHub.clients
  tab,       \* the tabToken of each entry of DeviceHub.clients
  socket,    \* what each WebSocket is doing
  host       \* what the frames on the current uplink have told the host

hubVars == <<uplink, hello, clients, tab, host>>

(***************************************************************************)
(* Sockets.  readyState is OPEN in "open" and in "lost": a socket whose    *)
(* peer vanished without a close looks open until the pinger misses a pong.*)
(***************************************************************************)
SocketState == {"none", "open", "lost", "closing", "closed"}

IsOpen(s) == socket[s] \in {"open", "lost"}

\* ws.close() and ws.terminate() on the sockets in S.
Closing(S) ==
  [s \in Client \cup Uplink |->
     IF s \in S /\ IsOpen(s) THEN "closing" ELSE socket[s]]

\* senderDeliverable(d.uplink)
Deliverable == uplink # NoUplink /\ IsOpen(uplink)

(***************************************************************************)
(* The host's reading of relay frames.                                     *)
(*   present  announced by client-ready and not yet by client-left         *)
(*   tab      the token each one was announced with                        *)
(*   count    the last viewer count                                        *)
(*   refused  announced with a token another present client was holding    *)
(*   owed     announced and not yet answered with a snapshot               *)
(***************************************************************************)
FreshHost ==
  [present |-> {}, tab |-> [c \in Client |-> NoTab], count |-> 0, refused |-> {}, owed |-> {}]

HostLeft(v, C) == [v EXCEPT !.present = @ \ C]

HostReady(v, C, t) ==
  LET tabs == [c \in Client |-> IF c \in C THEN t[c] ELSE v.tab[c]]
      rivals(c) == {d \in (v.present \cup C) \ {c} : tabs[d] = tabs[c]}
  IN [v EXCEPT !.present = @ \cup C,
               !.tab = tabs,
               !.refused = @ \cup {c \in C : t[c] # NoTab /\ rivals(c) # {}},
               !.owed = @ \cup C]

HostCount(v, n) == [v EXCEPT !.count = n]

Tell(v) == host' = IF Deliverable THEN v ELSE host

(***************************************************************************)
(* The uplink side.                                                        *)
(***************************************************************************)
\* Mutant: the clients that survived the outage are not announced again.
AttachWithoutReplay(u) ==
  /\ uplink = NoUplink
  /\ uplink' = u
  /\ hello' = FALSE
  /\ host' = HostCount(FreshHost, Cardinality(clients))
  /\ UNCHANGED <<clients, tab>>

AttachUplink(u) ==
  /\ uplink = NoUplink
  /\ uplink' = u
  /\ hello' = FALSE
  /\ host' = HostReady(HostCount(FreshHost, Cardinality(clients)), clients, tab)
  /\ UNCHANGED <<clients, tab>>

DetachUplink ==
  /\ uplink' = NoUplink
  /\ hello' = FALSE
  /\ UNCHANGED <<clients, tab, host>>

\* fromUplink, a hello this relay understands.
UplinkHello ==
  /\ hello' = TRUE
  /\ UNCHANGED <<uplink, clients, tab, host>>

\* fromUplink, a snapshot; whether `c` is still there is the hub's to know.
UplinkSnapshot(c) ==
  /\ hello
  /\ host' = [host EXCEPT !.owed = @ \ {c}]
  /\ UNCHANGED <<uplink, hello, clients, tab>>

(***************************************************************************)
(* The browser side.                                                       *)
(***************************************************************************)
AddClient(c) ==
  /\ clients' = clients \cup {c}
  /\ tab' = [tab EXCEPT ![c] = NoTab]
  /\ Tell(HostCount(host, Cardinality(clients')))
  /\ UNCHANGED <<uplink, hello>>

\* Mutant: the viewer count is decremented, not recomputed.
RemoveClientDecrements(c) ==
  /\ clients' = clients \ {c}
  /\ tab' = [tab EXCEPT ![c] = NoTab]
  /\ Tell(HostCount(HostLeft(host, {c} \cap clients), host.count - 1))
  /\ UNCHANGED <<uplink, hello>>

RemoveClient(c) ==
  /\ clients' = clients \ {c}
  /\ tab' = [tab EXCEPT ![c] = NoTab]
  /\ Tell(HostCount(HostLeft(host, {c} \cap clients), Cardinality(clients')))
  /\ UNCHANGED <<uplink, hello>>

\* Mutant: nobody is evicted while the host is away.
EvictedOnline(c, t) == {d \in clients \ {c} : Deliverable /\ t # NoTab /\ tab[d] = t}

\* evictClientsWithTabToken: the entries a ready of `c` with token `t` displaces.
Evicted(c, t) == {d \in clients \ {c} : t # NoTab /\ tab[d] = t}

\* What ready does to the entries of the hub.
Registers(c, t, E) ==
  /\ clients' = clients \ E
  /\ tab' = [d \in Client |-> IF d \in E THEN NoTab
                              ELSE IF d = c /\ c \in clients THEN t
                              ELSE tab[d]]
  /\ UNCHANGED <<uplink, hello>>

\* Mutant: the viewer count is not sent again after an eviction.
ClientReadyUncounted(c, t) ==
  LET E == Evicted(c, t)
  IN /\ Registers(c, t, E)
     /\ Tell(HostReady(HostLeft(host, E), {c}, [d \in Client |-> t]))
     /\ socket' = Closing(E)

\* Mutant: the offline return comes before the evicted sockets are closed.
ClientReadyDeaf(c, t) ==
  LET E == Evicted(c, t)
      arrived == HostReady(HostLeft(host, E), {c}, [d \in Client |-> t])
  IN /\ Registers(c, t, E)
     /\ Tell(IF E = {} THEN arrived ELSE HostCount(arrived, Cardinality(clients')))
     /\ socket' = IF Deliverable THEN Closing(E) ELSE socket

\* Mutant: the predecessor leaves the hub without a client-left.
ClientReadyQuiet(c, t) ==
  LET E == Evicted(c, t)
      arrived == HostReady(host, {c}, [d \in Client |-> t])
  IN /\ Registers(c, t, E)
     /\ Tell(IF E = {} THEN arrived ELSE HostCount(arrived, Cardinality(clients')))
     /\ socket' = Closing(E)

\* fromClient, a ready.  Nothing here asks whether `c` is still a client.
ClientReady(c, t) ==
  LET E == Evicted(c, t)
      arrived == HostReady(HostLeft(host, E), {c}, [d \in Client |-> t])
  IN /\ Registers(c, t, E)
     /\ Tell(IF E = {} THEN arrived ELSE HostCount(arrived, Cardinality(clients')))
     /\ socket' = Closing(E)

\* fromClient, any other message: the host learns nothing of who is there.
ClientMsg(c) == UNCHANGED hubVars

(***************************************************************************)
(* Types.                                                                  *)
(***************************************************************************)
HostView ==
  [present : SUBSET Client, tab : [Client -> Tab \cup {NoTab}],
   count : Nat, refused : SUBSET Client, owed : SUBSET Client]

HubTypeOK ==
  /\ uplink \in Uplink \cup {NoUplink}
  /\ hello \in BOOLEAN
  /\ clients \in SUBSET Client
  /\ tab \in [Client -> Tab \cup {NoTab}]
  /\ socket \in [Client \cup Uplink -> SocketState]
  /\ host \in HostView

HubInit ==
  /\ uplink = NoUplink
  /\ hello = FALSE
  /\ clients = {}
  /\ tab = [c \in Client |-> NoTab]
  /\ socket = [s \in Client \cup Uplink |-> "none"]
  /\ host = FreshHost
=============================================================================
