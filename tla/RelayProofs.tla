--------------------------- MODULE RelayProofs ---------------------------
(***************************************************************************)
(* Proofs about Relay, for any number of browsers, tabs and uplinks and    *)
(* any bounds: types, the safety of the hub, the order of frames, and, for *)
(* pages that send ready once on a connection, the roster.                 *)
(***************************************************************************)
EXTENDS Relay, FiniteSetTheorems, TLAPS

TypeInv == TypeOK /\ AwaitingHasFrame

\* The count the hub sends is a number: a set of clients is finite.
LEMMA CountIsNat ==
  ASSUME NEW S \in SUBSET Client
  PROVE  Cardinality(S) \in Nat
BY HubAssumption, FS_Subset, FS_CardinalityType

\* ws.close() keeps every socket in a known state.
LEMMA ClosingType ==
  ASSUME socket \in [Client \cup Uplink -> SocketState], NEW S
  PROVE  Closing(S) \in [Client \cup Uplink -> SocketState]
BY DEF Closing, SocketState

\* What the host is told is again a view of the host.
LEMMA LeftType ==
  ASSUME NEW v \in HostView, NEW C \in SUBSET Client
  PROVE  HostLeft(v, C) \in HostView
BY DEF HostLeft, HostView

LEMMA ReadyType ==
  ASSUME NEW v \in HostView, NEW C \in SUBSET Client,
         NEW t \in [Client -> Tab \cup {NoTab}]
  PROVE  HostReady(v, C, t) \in HostView
BY DEF HostReady, HostView

LEMMA CountType ==
  ASSUME NEW v \in HostView, NEW n \in Nat
  PROVE  HostCount(v, n) \in HostView
BY DEF HostCount, HostView

(***************************************************************************)
(* Operations of the hub keep their types.                                 *)
(***************************************************************************)
LEMMA TellType ==
  ASSUME host \in HostView, NEW v \in HostView, Tell(v)
  PROVE  host' \in HostView
BY DEF Tell

LEMMA AttachType ==
  ASSUME HubTypeOK, NEW u \in Uplink, AttachUplink(u), UNCHANGED socket
  PROVE  HubTypeOK'
<1>1. FreshHost \in HostView
  BY DEF FreshHost, HostView
<1>2. clients \in SUBSET Client /\ tab \in [Client -> Tab \cup {NoTab}]
  BY DEF HubTypeOK
<1>3. HostCount(FreshHost, Cardinality(clients)) \in HostView
  BY <1>1, <1>2, CountIsNat, CountType
<1>4. host' \in HostView
  BY <1>2, <1>3, ReadyType DEF AttachUplink
<1>5. QED
  BY <1>4 DEF HubTypeOK, AttachUplink

LEMMA AddClientType ==
  ASSUME HubTypeOK, NEW c \in Client, AddClient(c), UNCHANGED socket
  PROVE  HubTypeOK'
<1>1. clients' \in SUBSET Client /\ tab' \in [Client -> Tab \cup {NoTab}]
  BY DEF HubTypeOK, AddClient
<1>2. HostCount(host, Cardinality(clients')) \in HostView
  BY <1>1, CountIsNat, CountType DEF HubTypeOK
<1>3. host' \in HostView
  BY <1>2, TellType DEF HubTypeOK, AddClient
<1>4. QED
  BY <1>1, <1>3 DEF HubTypeOK, AddClient

LEMMA RemoveClientType ==
  ASSUME HubTypeOK, NEW c \in Client, RemoveClient(c),
         socket' \in [Client \cup Uplink -> SocketState]
  PROVE  HubTypeOK'
<1>1. clients' \in SUBSET Client /\ tab' \in [Client -> Tab \cup {NoTab}]
  BY DEF HubTypeOK, RemoveClient
<1>2. Cardinality(clients') \in Nat
  BY <1>1, CountIsNat
<1>3. HostLeft(host, {c} \cap clients) \in HostView
  BY LeftType DEF HubTypeOK
<1>4. HostCount(HostLeft(host, {c} \cap clients), Cardinality(clients')) \in HostView
  BY <1>2, <1>3, CountType
<1>5. host' \in HostView
  BY <1>4, TellType DEF HubTypeOK, RemoveClient
<1>6. QED
  BY <1>1, <1>5 DEF HubTypeOK, RemoveClient

LEMMA ClientReadyType ==
  ASSUME HubTypeOK, NEW c \in Client, NEW t \in Tab \cup {NoTab}, ClientReady(c, t)
  PROVE  HubTypeOK'
<1> DEFINE E == Evicted(c, t)
           ts == [d \in Client |-> t]
           arrived == HostReady(HostLeft(host, E), {c}, ts)
<1>1. clients' \in SUBSET Client /\ tab' \in [Client -> Tab \cup {NoTab}]
  BY DEF HubTypeOK, ClientReady, Registers
<1>2. Cardinality(clients') \in Nat
  BY <1>1, CountIsNat
<1>3. E \in SUBSET Client
  BY DEF HubTypeOK, Evicted
<1>4. HostLeft(host, E) \in HostView
  BY <1>3, LeftType DEF HubTypeOK
<1>5. ts \in [Client -> Tab \cup {NoTab}] /\ {c} \in SUBSET Client
  OBVIOUS
<1>6. arrived \in HostView
  BY <1>4, <1>5, ReadyType
<1>7. HostCount(arrived, Cardinality(clients')) \in HostView
  BY <1>2, <1>6, CountType
<1>8. host' \in HostView
  <2>1. Tell(IF E = {} THEN arrived ELSE HostCount(arrived, Cardinality(clients')))
    BY DEF ClientReady
  <2>2. QED
    BY <1>6, <1>7, <2>1 DEF Tell, HubTypeOK
<1>9. socket' \in [Client \cup Uplink -> SocketState]
  BY ClosingType DEF HubTypeOK, ClientReady
<1>10. QED
  BY <1>1, <1>8, <1>9 DEF HubTypeOK, ClientReady, Registers

LEMMA ClientMsgType ==
  ASSUME HubTypeOK, NEW c \in Client, ClientMsg(c), UNCHANGED socket
  PROVE  HubTypeOK'
BY DEF HubTypeOK, ClientMsg, hubVars

(***************************************************************************)
(* Types of the whole.                                                     *)
(***************************************************************************)
LEMMA PoppedType ==
  ASSUME queue \in [Client -> Seq(Frame)], NEW c \in Client, queue[c] # <<>>, Popped(c)
  PROVE  queue' \in [Client -> Seq(Frame)] /\ \A d \in Client \ {c} : queue'[d] = queue[d]
BY DEF Popped

LEMMA HeadNumber ==
  ASSUME queue \in [Client -> Seq(Frame)], NEW c \in Client, queue[c] # <<>>
  PROVE  Head(queue[c]).n \in Nat
<1>1. Head(queue[c]) \in Frame
  OBVIOUS
<1>2. QED
  BY <1>1 DEF Frame

LEMMA RoutedType ==
  ASSUME TypeOK, NEW c \in Client, queue[c] # <<>>, Routed(c), UNCHANGED socket
  PROVE  HubTypeOK' /\ delivered' \in [Client -> Nat]
<1>1. HubTypeOK'
  BY ClientMsgType DEF TypeOK, Routed
<1>2. delivered' \in [Client -> Nat]
  BY HeadNumber DEF TypeOK, Routed
<1>3. QED
  BY <1>1, <1>2

LEMMA HubFrame ==
  ASSUME HubTypeOK, UNCHANGED hubVars,
         socket' \in [Client \cup Uplink -> SocketState]
  PROVE  HubTypeOK'
BY DEF HubTypeOK, hubVars

LEMMA InitTypes == Init => TypeInv
<1> SUFFICES ASSUME Init PROVE TypeInv
  OBVIOUS
<1>1. HubTypeOK
  BY DEF Init, HubInit, HubTypeOK, FreshHost, HostView, SocketState
<1>2. queue \in [Client -> Seq(Frame)] /\ phase \in [Client \cup Uplink -> Phase]
  BY DEF Init, Phase
<1>3. again \in BOOLEAN /\ row \in RowState
  BY DEF Init, RowState
<1>4. QED
  BY <1>1, <1>2, <1>3 DEF Init, TypeInv, TypeOK, AwaitingHasFrame

LEMMA UplinkTypes ==
  ASSUME TypeInv, NEW u \in Uplink, UplinkStep(u)
  PROVE  TypeInv'
<1> USE HubAssumption DEF TypeInv, AwaitingHasFrame
<1> DEFINE SocketOK == socket' \in [Client \cup Uplink -> SocketState]
<1>1. CASE UplinkDial(u)
  <2>1. SocketOK
    BY <1>1 DEF UplinkDial, TypeOK, HubTypeOK, SocketState
  <2>2. HubTypeOK'
    BY <1>1, <2>1, HubFrame DEF UplinkDial, TypeOK
  <2>3. QED
    BY <1>1, <2>2 DEF UplinkDial, TypeOK, Phase
<1>2. CASE VerifyReads(u)
  BY <1>2 DEF VerifyReads, TypeOK, HubTypeOK, hubVars, Phase
<1>3. CASE VerifyRefuses(u)
  <2>1. SocketOK
    BY <1>3, ClosingType DEF VerifyRefuses, Socket, TypeOK, HubTypeOK
  <2>2. HubTypeOK'
    BY <1>3, <2>1, HubFrame DEF VerifyRefuses, TypeOK
  <2>3. QED
    BY <1>3, <2>2 DEF VerifyRefuses, TypeOK, Phase
<1>4. CASE UplinkDied(u)
  BY <1>4 DEF UplinkDied, TypeOK, HubTypeOK, hubVars, Phase
<1>5. CASE UplinkTaken(u)
  <2>1. SocketOK
    BY <1>5, ClosingType DEF UplinkTaken, Socket, TypeOK, HubTypeOK
  <2>2. HubTypeOK'
    BY <1>5, <2>1, HubFrame DEF UplinkTaken, TypeOK
  <2>3. QED
    BY <1>5, <2>2 DEF UplinkTaken, TypeOK, Phase
<1>6. CASE UplinkAttaches(u)
  <2>1. HubTypeOK'
    BY <1>6, AttachType DEF UplinkAttaches, TypeOK
  <2>2. QED
    BY <1>6, <2>1 DEF UplinkAttaches, TypeOK, Phase
<1>7. CASE HostHello(u)
  BY <1>7 DEF HostHello, UplinkHello, edgeVars, TypeOK, HubTypeOK
<1>8. CASE HostRefused(u)
  <2>1. SocketOK
    BY <1>8, ClosingType DEF HostRefused, Socket, TypeOK, HubTypeOK
  <2>2. HubTypeOK'
    BY <1>8, <2>1, HubFrame DEF HostRefused, TypeOK
  <2>3. QED
    BY <1>8, <2>2 DEF HostRefused, edgeVars, TypeOK
<1>9. CASE UplinkClosed(u)
  <2>1. SocketOK
    BY <1>9 DEF UplinkClosed, TypeOK, HubTypeOK, SocketState
  <2>2. HubTypeOK' /\ phase' \in [Client \cup Uplink -> Phase]
    BY <1>9, <2>1 DEF UplinkClosed, DetachUplink, hubVars, TypeOK, HubTypeOK, Phase
  <2>3. QED
    BY <1>9, <2>2 DEF UplinkClosed, TypeOK
<1>10. ASSUME NEW c \in Client, HostSnapshot(u, c)
       PROVE  TypeInv'
  <2>1. host' \in HostView
    BY <1>10 DEF HostSnapshot, UplinkSnapshot, TypeOK, HubTypeOK, HostView
  <2>2. synced' \in SUBSET Client
    BY <1>10 DEF HostSnapshot, TypeOK
  <2>3. QED
    BY <1>10, <2>1, <2>2 DEF HostSnapshot, UplinkSnapshot, TypeOK, HubTypeOK
<1>11. QED
  BY <1>1, <1>2, <1>3, <1>4, <1>5, <1>6, <1>7, <1>8, <1>9, <1>10 DEF UplinkStep

LEMMA ClientTypes ==
  ASSUME TypeInv, NEW c \in Client, ClientStep(c)
  PROVE  TypeInv'
<1> USE HubAssumption DEF TypeInv, AwaitingHasFrame
<1> DEFINE SocketOK == socket' \in [Client \cup Uplink -> SocketState]
<1>1. CASE ClientDial(c)
  <2>1. SocketOK
    BY <1>1 DEF ClientDial, TypeOK, HubTypeOK, SocketState
  <2>2. HubTypeOK'
    BY <1>1, <2>1, HubFrame DEF ClientDial, TypeOK
  <2>3. QED
    BY <1>1, <2>2 DEF ClientDial, TypeOK, Phase
<1>2. CASE ClientJoins(c)
  <2>1. HubTypeOK'
    BY <1>2, AddClientType DEF ClientJoins, TypeOK
  <2>2. QED
    BY <1>2, <2>1 DEF ClientJoins, TypeOK, Phase
<1>3. CASE ClientRefused(c)
  <2>1. SocketOK
    BY <1>3, ClosingType DEF ClientRefused, Socket, TypeOK, HubTypeOK
  <2>2. HubTypeOK'
    BY <1>3, <2>1, HubFrame DEF ClientRefused, TypeOK
  <2>3. queue' \in [Client -> Seq(Frame)] /\ \A d \in Client \ {c} : queue'[d] = queue[d]
    BY <1>3 DEF ClientRefused, TypeOK
  <2>4. c \notin awaiting
    BY <1>3 DEF ClientRefused
  <2>5. QED
    BY <1>3, <2>2, <2>3, <2>4 DEF ClientRefused, TypeOK, Phase
<1>4. CASE ClientClosed(c)
  <2>1. SocketOK
    BY <1>4 DEF ClientClosed, TypeOK, HubTypeOK, SocketState
  <2>2. HubTypeOK' /\ phase' \in [Client \cup Uplink -> Phase]
    <3>1. CASE phase[c] = "joined"
      BY <1>4, <2>1, <3>1, RemoveClientType DEF ClientClosed, TypeOK, Phase
    <3>2. CASE phase[c] # "joined"
      BY <1>4, <2>1, <3>2, HubFrame DEF ClientClosed, TypeOK
    <3>3. QED
      BY <3>1, <3>2
  <2>3. QED
    BY <1>4, <2>2 DEF ClientClosed, TypeOK
<1>5. ASSUME NEW k \in FrameKind, ClientFrame(c, [kind |-> k, n |-> sent[c] + 1])
      PROVE  TypeInv'
  <2> DEFINE f == [kind |-> k, n |-> sent[c] + 1]
  <2>1. f \in Frame /\ f.n \in Nat
    BY DEF TypeOK, Frame
  <2>2. SocketOK
    BY <1>5, ClosingType DEF ClientFrame, Socket, TypeOK, HubTypeOK
  <2>3. HubTypeOK'
    BY <1>5, <2>2, HubFrame DEF ClientFrame, TypeOK
  <2>4. Append(queue[c], f) \in Seq(Frame) /\ Append(queue[c], f) # <<>>
    <3>1. queue[c] \in Seq(Frame)
      BY DEF TypeOK
    <3> HIDE DEF f
    <3>2. QED
      BY <2>1, <3>1
  <2>5. queue' \in [Client -> Seq(Frame)]
    BY <1>5, <2>4 DEF ClientFrame, TypeOK
  <2>6. \A d \in awaiting : queue'[d] # <<>>
    BY <1>5, <2>4 DEF ClientFrame, Overflows, TypeOK
  <2>7. sent' \in [Client -> Nat]
    BY <1>5, <2>1 DEF ClientFrame, TypeOK
  <2>8. QED
    BY <1>5, <2>3, <2>5, <2>6, <2>7 DEF ClientFrame, TypeOK
<1>6. CASE MeteredRoutes(c)
  <2>1. queue[c] # <<>>
    BY <1>6 DEF MeteredRoutes
  <2>2. HubTypeOK' /\ delivered' \in [Client -> Nat]
    BY <1>6, <2>1, RoutedType DEF MeteredRoutes
  <2>3. QED
    BY <1>6, <2>1, <2>2, PoppedType DEF MeteredRoutes, TypeOK
<1>7. CASE MeteredBounces(c)
  <2>1. queue[c] # <<>>
    BY <1>7 DEF MeteredBounces
  <2>2. QED
    BY <1>7, <2>1, PoppedType DEF MeteredBounces, hubVars, TypeOK, HubTypeOK
<1>8. QED
  BY <1>1, <1>2, <1>3, <1>4, <1>5, <1>6, <1>7 DEF ClientStep

LEMMA ChainTypes ==
  ASSUME TypeInv, NEW c \in Client, ChainStep(c)
  PROVE  TypeInv'
<1> USE HubAssumption DEF TypeInv, AwaitingHasFrame
<1>1. queue[c] # <<>> /\ c \notin awaiting /\ phase[c] \in {"joined", "closed"}
  BY DEF ChainStep, RunReady, RunAct, RunSendBounces, RunSendRoutes, RunSendMeters, Runnable
<1>2. CASE RunReady(c)
  <2>1. TabOf[c] \in Tab \cup {NoTab}
    BY RelayAssumption
  <2>2. HubTypeOK'
    BY <1>2, <2>1, ClientReadyType DEF RunReady, TypeOK
  <2>3. QED
    BY <1>1, <1>2, <2>2, PoppedType DEF RunReady, TypeOK
<1>3. CASE RunAct(c)
  <2>1. HubTypeOK' /\ delivered' \in [Client -> Nat]
    BY <1>1, <1>3, RoutedType DEF RunAct
  <2>2. QED
    BY <1>1, <1>3, <2>1, PoppedType DEF RunAct, TypeOK
<1>4. CASE RunSendBounces(c)
  BY <1>1, <1>4, PoppedType DEF RunSendBounces, hubVars, TypeOK, HubTypeOK
<1>5. CASE RunSendRoutes(c)
  <2>1. HubTypeOK' /\ delivered' \in [Client -> Nat]
    BY <1>1, <1>5, RoutedType DEF RunSendRoutes
  <2>2. QED
    BY <1>1, <1>5, <2>1, PoppedType DEF RunSendRoutes, TypeOK
<1>6. CASE RunSendMeters(c)
  BY <1>1, <1>6 DEF RunSendMeters, hubVars, TypeOK, HubTypeOK
<1>7. QED
  BY <1>2, <1>3, <1>4, <1>5, <1>6 DEF ChainStep

LEMMA SocketTypes ==
  ASSUME TypeInv, NEW s \in Client \cup Uplink, SocketStep(s)
  PROVE  TypeInv'
<1>1. socket' \in [Client \cup Uplink -> SocketState]
  BY ClosingType DEF TypeInv, TypeOK, HubTypeOK, SocketState,
     SocketStep, PeerVanishes, PeerCloses, PingTerminates, Socket
<1>2. UNCHANGED hubVars /\ UNCHANGED edgeVars
  BY DEF SocketStep, PeerVanishes, PeerCloses, PingTerminates
<1>3. HubTypeOK'
  BY <1>1, <1>2, HubFrame DEF TypeInv, TypeOK
<1>4. QED
  BY <1>2, <1>3 DEF TypeInv, TypeOK, edgeVars, AwaitingHasFrame

LEMMA RevokeTypes ==
  ASSUME TypeInv, RevokeCommits \/ RevokeCloses
  PROVE  TypeInv'
<1>1. socket' \in [Client \cup Uplink -> SocketState]
  BY ClosingType DEF TypeInv, TypeOK, HubTypeOK, RevokeCommits, RevokeCloses, Socket
<1>2. HubTypeOK'
  BY <1>1, HubFrame DEF TypeInv, TypeOK, RevokeCommits, RevokeCloses
<1>3. QED
  BY <1>2 DEF TypeInv, TypeOK, AwaitingHasFrame, RevokeCommits, RevokeCloses, RowState

LEMMA StepTypes == TypeInv /\ [Next]_vars => TypeInv'
<1> SUFFICES ASSUME TypeInv, [Next]_vars PROVE TypeInv'
  OBVIOUS
<1>1. CASE UNCHANGED vars
  BY <1>1 DEF vars, hubVars, edgeVars, TypeInv, TypeOK, HubTypeOK, AwaitingHasFrame
<1>2. CASE Next
  BY <1>2, UplinkTypes, ClientTypes, ChainTypes, SocketTypes, RevokeTypes DEF Next
<1>3. QED
  BY <1>1, <1>2

\* Every variable of the hub and of the websocket edge keeps its type, and a
\* chain that waits for the usage store has a frame to wait for.
THEOREM TypeCorrect == Spec => [](TypeOK /\ AwaitingHasFrame)
<1>1. Init => TypeInv
  BY InitTypes
<1>2. TypeInv /\ [Next]_vars => TypeInv'
  BY StepTypes
<1>3. QED
  BY <1>1, <1>2, PTL DEF Spec, TypeInv

(***************************************************************************)
(* Safety of the hub.  The five invariants are inductive together, given   *)
(* the types: what a reachable host knows can only be carried over a step  *)
(* because an uplink in the hub belongs to a handler that is attached, so  *)
(* that no undeliverable uplink becomes deliverable again.                 *)
(***************************************************************************)
HubSafe ==
  /\ OneHolderPerTab
  /\ HostKnowsTabs
  /\ CountIsCurrent
  /\ NothingStranded
  /\ NoDeafSocket

\* A step that leaves the hub alone: a joined connection stays joined, and its
\* socket stays as it is or stops being open.
OutsideHub ==
  /\ UNCHANGED hubVars
  /\ \A s \in Client \cup Uplink :
       /\ phase'[s] = "joined" <=> phase[s] = "joined"
       /\ phase[s] = "joined" =>
            \/ socket'[s] = socket[s]
            \/ IsOpen(s) /\ socket'[s] \in {"lost", "closing"}

\* No uplink becomes reachable outside the hub.
LEMMA OutsideReach ==
  ASSUME TypeInv, HubSafe, OutsideHub
  PROVE  Deliverable' => Deliverable
<1> USE DEF TypeInv, TypeOK, HubTypeOK, OutsideHub, hubVars
<1>1. \A s \in Client \cup Uplink : phase'[s] = "joined" /\ IsOpen(s)' => IsOpen(s)
  BY DEF IsOpen
<1>2. CASE uplink = NoUplink
  BY <1>2 DEF Deliverable
<1>3. CASE uplink # NoUplink
  BY <1>1, <1>3 DEF Deliverable, HubSafe, NothingStranded
<1>4. QED
  BY <1>2, <1>3

LEMMA OutsideHubSafe ==
  ASSUME TypeInv, HubSafe, OutsideHub
  PROVE  HubSafe'
<1> USE DEF TypeInv, TypeOK, HubTypeOK, OutsideHub, hubVars
<1>1. NothingStranded'
  BY DEF HubSafe, NothingStranded, IsOpen
<1>2. \A s \in Client \cup Uplink : phase'[s] = "joined" /\ IsOpen(s)' => IsOpen(s)
  BY DEF IsOpen
<1>3. NoDeafSocket'
  BY <1>2 DEF HubSafe, NoDeafSocket
<1>4. Deliverable' => Deliverable
  BY OutsideReach
<1>5. OneHolderPerTab' /\ HostKnowsTabs' /\ CountIsCurrent'
  BY <1>4 DEF HubSafe, OneHolderPerTab, HostKnowsTabs, CountIsCurrent
<1>6. QED
  BY <1>1, <1>3, <1>5 DEF HubSafe

\* ws.close() on any sockets is outside the hub.
LEMMA ClosingOutside ==
  ASSUME TypeInv, NEW S, Socket(S), NEW s \in Client \cup Uplink
  PROVE  socket'[s] = socket[s] \/ (IsOpen(s) /\ socket'[s] \in {"lost", "closing"})
BY DEF Socket, Closing

LEMMA AttachSafe ==
  ASSUME TypeInv, HubSafe, NEW u \in Uplink, UplinkAttaches(u)
  PROVE  HubSafe'
<1> USE HubAssumption DEF TypeInv, TypeOK, HubTypeOK, UplinkAttaches, AttachUplink
<1>1. NothingStranded' /\ NoDeafSocket' /\ OneHolderPerTab'
  BY DEF HubSafe, NothingStranded, NoDeafSocket, OneHolderPerTab, IsOpen
<1>2. \A c \in clients : c \in host'.present /\ host'.tab[c] = tab[c]
  BY DEF HostReady, HostCount, FreshHost
<1>3. host'.count = Cardinality(clients)
  BY DEF HostReady, HostCount, FreshHost
<1>4. HostKnowsTabs' /\ CountIsCurrent'
  BY <1>2, <1>3 DEF HostKnowsTabs, CountIsCurrent
<1>5. QED
  BY <1>1, <1>4 DEF HubSafe

LEMMA JoinSafe ==
  ASSUME TypeInv, HubSafe, NEW c \in Client, ClientJoins(c)
  PROVE  HubSafe'
<1> USE HubAssumption DEF TypeInv, TypeOK, HubTypeOK, ClientJoins, AddClient
<1>1. NothingStranded'
  BY DEF HubSafe, NothingStranded, IsOpen
<1>2. NoDeafSocket'
  BY DEF HubSafe, NoDeafSocket, IsOpen
<1>3. OneHolderPerTab'
  BY DEF HubSafe, OneHolderPerTab
<1>4. Deliverable' <=> Deliverable
  BY DEF Deliverable, IsOpen
<1>5. Deliverable => /\ host'.present = host.present
                     /\ host'.tab = host.tab
                     /\ host'.count = Cardinality(clients')
  BY DEF Tell, HostCount, HostView
<1>6. HostKnowsTabs'
  BY <1>4, <1>5 DEF HubSafe, HostKnowsTabs
<1>7. CountIsCurrent'
  BY <1>4, <1>5 DEF CountIsCurrent
<1>8. QED
  BY <1>1, <1>2, <1>3, <1>6, <1>7 DEF HubSafe

LEMMA LeaveSafe ==
  ASSUME TypeInv, HubSafe, NEW c \in Client, ClientClosed(c), phase[c] = "joined"
  PROVE  HubSafe'
<1> USE HubAssumption DEF TypeInv, TypeOK, HubTypeOK, ClientClosed, RemoveClient
<1>1. NothingStranded'
  BY DEF HubSafe, NothingStranded, IsOpen
<1>2. NoDeafSocket'
  BY DEF HubSafe, NoDeafSocket, IsOpen
<1>3. OneHolderPerTab'
  BY DEF HubSafe, OneHolderPerTab
<1>4. Deliverable' <=> Deliverable
  BY DEF Deliverable, IsOpen
<1>5. Deliverable => /\ host'.present = host.present \ ({c} \cap clients)
                     /\ host'.tab = host.tab
                     /\ host'.count = Cardinality(clients')
  BY DEF Tell, HostCount, HostLeft, HostView
<1>6. HostKnowsTabs'
  BY <1>4, <1>5 DEF HubSafe, HostKnowsTabs
<1>7. CountIsCurrent'
  BY <1>4, <1>5 DEF CountIsCurrent
<1>8. QED
  BY <1>1, <1>2, <1>3, <1>6, <1>7 DEF HubSafe

\* What one client-ready changes in the host's view.
LEMMA ReadyFields ==
  ASSUME NEW v \in HostView, NEW c \in Client, NEW t \in Tab \cup {NoTab}
  PROVE  LET r == HostReady(v, {c}, [d \in Client |-> t])
         IN /\ r.present = v.present \cup {c}
            /\ r.tab = [d \in Client |-> IF d = c THEN t ELSE v.tab[d]]
            /\ r.count = v.count
            /\ r \in HostView
<1>1. HostReady(v, {c}, [d \in Client |-> t]) \in HostView
  BY ReadyType
<1>2. QED
  BY <1>1 DEF HostReady, HostView

\* And what it changes after the departures of an eviction.
LEMMA ArrivalFields ==
  ASSUME host \in HostView, NEW E \in SUBSET Client, NEW c \in Client,
         NEW t \in Tab \cup {NoTab}
  PROVE  LET r == HostReady(HostLeft(host, E), {c}, [d \in Client |-> t])
         IN /\ r.present = (host.present \ E) \cup {c}
            /\ r.tab = [d \in Client |-> IF d = c THEN t ELSE host.tab[d]]
            /\ r.count = host.count
            /\ r \in HostView
<1>1. PICK v \in HostView : v = HostLeft(host, E)
  BY LeftType
<1>2. v.present = host.present \ E /\ v.tab = host.tab /\ v.count = host.count
  BY <1>1 DEF HostLeft, HostView
<1>3. HostReady(v, {c}, [d \in Client |-> t]) \in HostView
  BY <1>1, ReadyType
<1>4. LET r == HostReady(v, {c}, [d \in Client |-> t])
      IN /\ r.present = v.present \cup {c}
         /\ r.tab = [d \in Client |-> IF d = c THEN t ELSE v.tab[d]]
         /\ r.count = v.count
         /\ r \in HostView
  BY <1>1, <1>3 DEF HostReady, HostView
<1>5. QED
  BY <1>1, <1>2, <1>4, Zenon

LEMMA ReadySafe ==
  ASSUME TypeInv, HubSafe, NEW c \in Client, RunReady(c)
  PROVE  HubSafe'
<1> DEFINE t == TabOf[c]
           E == Evicted(c, t)
           arrived == HostReady(HostLeft(host, E), {c}, [d \in Client |-> t])
<1> USE HubAssumption DEF TypeInv, TypeOK, HubTypeOK
<1>1. /\ ClientReady(c, t)
      /\ Registers(c, t, E)
      /\ socket' = Closing(E)
      /\ phase' = phase
  BY DEF RunReady, ClientReady
<1>2. E \in SUBSET Client /\ t \in Tab \cup {NoTab}
  BY RelayAssumption DEF Evicted
<1>3. \A s \in Client \cup Uplink :
        /\ IsOpen(s)' <=> IsOpen(s) /\ s \notin E
        /\ socket'[s] = "closed" => socket[s] = "closed"
  BY <1>1 DEF Closing, IsOpen, SocketState
<1>4. NothingStranded'
  BY <1>1, <1>3 DEF HubSafe, NothingStranded, Registers
<1>5. NoDeafSocket'
  BY <1>1, <1>3 DEF HubSafe, NoDeafSocket, Registers
<1>6. OneHolderPerTab'
  BY <1>1, <1>2 DEF HubSafe, OneHolderPerTab, Registers, Evicted
<1>7. Deliverable' <=> Deliverable
  BY <1>1, <1>2, <1>3 DEF Deliverable, Registers
<1>8. Deliverable => host' = IF E = {} THEN arrived
                             ELSE HostCount(arrived, Cardinality(clients'))
  BY <1>1 DEF ClientReady, Tell
<1>9. /\ arrived.present = (host.present \ E) \cup {c}
      /\ arrived.tab = [d \in Client |-> IF d = c THEN t ELSE host.tab[d]]
      /\ arrived.count = host.count
      /\ arrived \in HostView
  <2>1. host \in HostView /\ E \in SUBSET Client /\ t \in Tab \cup {NoTab}
    BY <1>2
  <2> HIDE DEF E, t
  <2>2. QED
    BY ONLY <2>1, ArrivalFields, c \in Client
<1>10. Deliverable => /\ host'.present = arrived.present
                      /\ host'.tab = arrived.tab
                      /\ host'.count = IF E = {} THEN host.count ELSE Cardinality(clients')
  BY <1>8, <1>9 DEF HostCount, HostView
<1>11. HostKnowsTabs'
  BY <1>1, <1>7, <1>9, <1>10 DEF HubSafe, HostKnowsTabs, Registers
<1>12. CountIsCurrent'
  BY <1>1, <1>7, <1>10 DEF HubSafe, CountIsCurrent, Registers
<1>13. QED
  BY <1>4, <1>5, <1>6, <1>11, <1>12 DEF HubSafe

LEMMA MsgSafe ==
  ASSUME TypeInv, HubSafe, NEW c \in Client, ClientMsg(c), UNCHANGED <<socket, phase>>
  PROVE  HubSafe'
<1> USE DEF TypeInv, TypeOK, HubTypeOK, ClientMsg, hubVars
<1>1. Deliverable' <=> Deliverable
  BY DEF Deliverable, IsOpen
<1>2. QED
  BY <1>1 DEF HubSafe, OneHolderPerTab, HostKnowsTabs, CountIsCurrent,
     NothingStranded, NoDeafSocket, IsOpen

(***************************************************************************)
(* The remaining steps, and the theorem.                                   *)
(***************************************************************************)
LEMMA UplinkClosedSafe ==
  ASSUME TypeInv, HubSafe, NEW u \in Uplink, UplinkClosed(u)
  PROVE  HubSafe'
<1> USE HubAssumption DEF TypeInv, TypeOK, HubTypeOK, UplinkClosed
<1>1. CASE phase[u] = "joined"
  BY <1>1 DEF DetachUplink, HubSafe, OneHolderPerTab, HostKnowsTabs, CountIsCurrent,
     NothingStranded, NoDeafSocket, Deliverable, IsOpen
<1>2. CASE phase[u] # "joined"
  BY <1>2, OutsideHubSafe DEF OutsideHub
<1>3. QED
  BY <1>1, <1>2

LEMMA SnapshotSafe ==
  ASSUME TypeInv, HubSafe, NEW u \in Uplink, NEW c \in Client, HostSnapshot(u, c)
  PROVE  HubSafe'
<1> USE DEF TypeInv, TypeOK, HubTypeOK, HostSnapshot, UplinkSnapshot
<1>1. host'.present = host.present /\ host'.tab = host.tab /\ host'.count = host.count
  BY DEF HostView
<1>2. QED
  BY <1>1 DEF HubSafe, OneHolderPerTab, HostKnowsTabs, CountIsCurrent,
     NothingStranded, NoDeafSocket, Deliverable, IsOpen

LEMMA HelloSafe ==
  ASSUME TypeInv, HubSafe, NEW u \in Uplink, HostHello(u)
  PROVE  HubSafe'
BY DEF HostHello, UplinkHello, edgeVars, HubSafe, OneHolderPerTab, HostKnowsTabs,
   CountIsCurrent, NothingStranded, NoDeafSocket, Deliverable, IsOpen

LEMMA UplinkSafe ==
  ASSUME TypeInv, HubSafe, NEW u \in Uplink, UplinkStep(u)
  PROVE  HubSafe'
<1> USE HubAssumption
<1>1. CASE UplinkDial(u)
  <2>1. OutsideHub
    BY <1>1 DEF UplinkDial, OutsideHub, TypeInv, TypeOK, HubTypeOK
  <2>2. QED
    BY <2>1, OutsideHubSafe
<1>2. CASE VerifyReads(u)
  <2>1. OutsideHub
    BY <1>2 DEF VerifyReads, OutsideHub, TypeInv, TypeOK, HubTypeOK
  <2>2. QED
    BY <2>1, OutsideHubSafe
<1>3. CASE VerifyRefuses(u)
  <2>1. OutsideHub
    BY <1>3, ClosingOutside DEF VerifyRefuses, OutsideHub, TypeInv, TypeOK, HubTypeOK
  <2>2. QED
    BY <2>1, OutsideHubSafe
<1>4. CASE UplinkDied(u)
  <2>1. OutsideHub
    BY <1>4 DEF UplinkDied, OutsideHub, TypeInv, TypeOK, HubTypeOK
  <2>2. QED
    BY <2>1, OutsideHubSafe
<1>5. CASE UplinkTaken(u)
  <2>1. OutsideHub
    BY <1>5, ClosingOutside DEF UplinkTaken, OutsideHub, TypeInv, TypeOK, HubTypeOK
  <2>2. QED
    BY <2>1, OutsideHubSafe
<1>6. CASE UplinkAttaches(u)
  BY <1>6, AttachSafe
<1>7. CASE HostHello(u)
  BY <1>7, HelloSafe
<1>8. CASE HostRefused(u)
  <2>1. OutsideHub
    BY <1>8, ClosingOutside DEF HostRefused, OutsideHub, edgeVars
  <2>2. QED
    BY <2>1, OutsideHubSafe
<1>9. CASE UplinkClosed(u)
  BY <1>9, UplinkClosedSafe
<1>10. ASSUME NEW c \in Client, HostSnapshot(u, c)
       PROVE  HubSafe'
  BY <1>10, SnapshotSafe
<1>11. QED
  BY <1>1, <1>2, <1>3, <1>4, <1>5, <1>6, <1>7, <1>8, <1>9, <1>10 DEF UplinkStep

LEMMA ClientSafe ==
  ASSUME TypeInv, HubSafe, NEW c \in Client, ClientStep(c)
  PROVE  HubSafe'
<1> USE HubAssumption
<1>1. CASE ClientDial(c)
  <2>1. OutsideHub
    BY <1>1 DEF ClientDial, OutsideHub, TypeInv, TypeOK, HubTypeOK
  <2>2. QED
    BY <2>1, OutsideHubSafe
<1>2. CASE ClientJoins(c)
  BY <1>2, JoinSafe
<1>3. CASE ClientRefused(c)
  <2>1. OutsideHub
    BY <1>3, ClosingOutside DEF ClientRefused, OutsideHub, TypeInv, TypeOK, HubTypeOK
  <2>2. QED
    BY <2>1, OutsideHubSafe
<1>4. CASE ClientClosed(c)
  <2>1. CASE phase[c] = "joined"
    BY <1>4, <2>1, LeaveSafe
  <2>2. CASE phase[c] # "joined"
    <3>1. OutsideHub
      BY <1>4, <2>2 DEF ClientClosed, OutsideHub, TypeInv, TypeOK, HubTypeOK
    <3>2. QED
      BY <3>1, OutsideHubSafe
  <2>3. QED
    BY <2>1, <2>2
<1>5. ASSUME NEW k \in FrameKind, ClientFrame(c, [kind |-> k, n |-> sent[c] + 1])
      PROVE  HubSafe'
  <2>1. OutsideHub
    BY <1>5, ClosingOutside DEF ClientFrame, OutsideHub
  <2>2. QED
    BY <2>1, OutsideHubSafe
<1>6. CASE MeteredRoutes(c)
  BY <1>6, MsgSafe DEF MeteredRoutes, Routed
<1>7. CASE MeteredBounces(c)
  <2>1. OutsideHub
    BY <1>7 DEF MeteredBounces, OutsideHub
  <2>2. QED
    BY <2>1, OutsideHubSafe
<1>8. QED
  BY <1>1, <1>2, <1>3, <1>4, <1>5, <1>6, <1>7 DEF ClientStep

LEMMA ChainSafe ==
  ASSUME TypeInv, HubSafe, NEW c \in Client, ChainStep(c)
  PROVE  HubSafe'
<1>1. CASE RunReady(c)
  BY <1>1, ReadySafe
<1>2. CASE RunAct(c) \/ RunSendRoutes(c)
  BY <1>2, MsgSafe DEF RunAct, RunSendRoutes, Routed
<1>3. CASE RunSendBounces(c) \/ RunSendMeters(c)
  <2>1. OutsideHub
    BY <1>3 DEF RunSendBounces, RunSendMeters, OutsideHub
  <2>2. QED
    BY <2>1, OutsideHubSafe
<1>4. QED
  BY <1>1, <1>2, <1>3 DEF ChainStep

LEMMA SocketSafe ==
  ASSUME TypeInv, HubSafe, NEW s \in Client \cup Uplink, SocketStep(s)
  PROVE  HubSafe'
<1>1. OutsideHub
  <2>1. CASE PeerVanishes(s)
    BY <2>1 DEF PeerVanishes, OutsideHub, edgeVars, IsOpen, TypeInv, TypeOK, HubTypeOK
  <2>2. CASE PeerCloses(s) \/ PingTerminates(s)
    BY <2>2, ClosingOutside DEF PeerCloses, PingTerminates, OutsideHub, edgeVars
  <2>3. QED
    BY <2>1, <2>2 DEF SocketStep
<1>2. QED
  BY <1>1, OutsideHubSafe

LEMMA RevokeSafe ==
  ASSUME TypeInv, HubSafe, RevokeCommits \/ RevokeCloses
  PROVE  HubSafe'
<1>1. OutsideHub
  BY ClosingOutside DEF RevokeCommits, RevokeCloses, OutsideHub
<1>2. QED
  BY <1>1, OutsideHubSafe

LEMMA InitSafe == Init => HubSafe
BY DEF Init, HubInit, HubSafe, OneHolderPerTab, HostKnowsTabs, CountIsCurrent,
   NothingStranded, NoDeafSocket, Deliverable, IsOpen

LEMMA StepSafe == TypeInv /\ HubSafe /\ [Next]_vars => HubSafe'
<1> SUFFICES ASSUME TypeInv, HubSafe, [Next]_vars PROVE HubSafe'
  OBVIOUS
<1>1. CASE UNCHANGED vars
  <2>1. OutsideHub
    BY <1>1 DEF vars, edgeVars, OutsideHub
  <2>2. QED
    BY <2>1, OutsideHubSafe
<1>2. CASE Next
  BY <1>2, UplinkSafe, ClientSafe, ChainSafe, SocketSafe, RevokeSafe DEF Next
<1>3. QED
  BY <1>1, <1>2

LEMMA AlwaysSafe == Spec => []HubSafe
<1>1. Init => HubSafe
  BY InitSafe
<1>2. TypeInv /\ HubSafe /\ [Next]_vars => HubSafe'
  BY StepSafe
<1>3. Spec => []TypeInv
  BY TypeCorrect DEF TypeInv
<1>4. QED
  BY <1>1, <1>2, <1>3, PTL DEF Spec

\* One token is one client, for any number of browsers and tokens, whatever
\* frames of evicted clients are still on their chains.
THEOREM OneTokenOneClient == Spec => []OneHolderPerTab
<1>1. HubSafe => OneHolderPerTab
  BY DEF HubSafe
<1>2. QED
  BY <1>1, AlwaysSafe, PTL

\* What a reachable host was told about clients that presented a token agrees
\* with the hub across outages and replays.
THEOREM HostIsInformed == Spec => []HostKnowsTabs
<1>1. HubSafe => HostKnowsTabs
  BY DEF HubSafe
<1>2. QED
  BY <1>1, AlwaysSafe, PTL

\* How many clients there are is what a reachable host was last told.
THEOREM HostHasTheCount == Spec => []CountIsCurrent
<1>1. HubSafe => CountIsCurrent
  BY DEF HubSafe
<1>2. QED
  BY <1>1, AlwaysSafe, PTL

\* An entry of the hub always has a close event to come.
THEOREM EntriesFollowSockets == Spec => []NothingStranded
<1>1. HubSafe => NothingStranded
  BY DEF HubSafe
<1>2. QED
  BY <1>1, AlwaysSafe, PTL

\* An open socket that joined always has its entry.
THEOREM SocketsHaveEntries == Spec => []NoDeafSocket
<1>1. HubSafe => NoDeafSocket
  BY DEF HubSafe
<1>2. QED
  BY <1>1, AlwaysSafe, PTL
(***************************************************************************)
(* The order of frames.  A chain holds the frames a browser sent after the *)
(* last one the host was given, in the order they were sent.               *)
(***************************************************************************)
\* `q` holds frames numbered upwards, above `low` and up to `high`.
Upwards(q, low, high) ==
  /\ low <= high
  /\ \A i \in 1..Len(q) : low < q[i].n /\ q[i].n <= high
  /\ \A i, j \in 1..Len(q) : i < j => q[i].n < q[j].n

ChainsInOrder == \A c \in Client : Upwards(queue[c], delivered[c], sent[c])

\* What a step may do to the chain of one browser.
ChainKept(c) ==
  queue'[c] = queue[c] /\ sent'[c] = sent[c] /\ delivered'[c] = delivered[c]

ChainTakes(c) ==
  /\ queue[c] # <<>>
  /\ queue'[c] = Tail(queue[c])
  /\ sent'[c] = sent[c]
  /\ delivered'[c] \in {delivered[c], Head(queue[c]).n}

ChainGets(c) ==
  \E f \in Frame :
    /\ Sends(c, f) /\ (f.kind = "ready" /\ f.n > 1 => again')
    /\ phase[c] \in {"admitting", "joined"} /\ phase'[c] = phase[c]
    /\ queue'[c] = Append(queue[c], f)
    /\ sent'[c] = f.n
    /\ delivered'[c] = delivered[c]

ChainDropped(c) ==
  /\ queue'[c] = <<>>
  /\ sent'[c] \in {sent[c], sent[c] + 1}
  /\ delivered'[c] = delivered[c]

ChainMoves(c) == ChainKept(c) \/ ChainTakes(c) \/ ChainGets(c) \/ ChainDropped(c)

LEMMA TakeMoves ==
  ASSUME TypeInv, NEW c \in Client, queue[c] # <<>>, Popped(c), UNCHANGED sent,
         \/ UNCHANGED delivered
         \/ delivered' = [delivered EXCEPT ![c] = Head(queue[c]).n],
         NEW d \in Client
  PROVE  ChainMoves(d)
<1> USE DEF TypeInv, TypeOK, Popped
<1>1. CASE d = c
  BY <1>1 DEF ChainMoves, ChainTakes
<1>2. CASE d # c
  BY <1>2 DEF ChainMoves, ChainKept
<1>3. QED
  BY <1>1, <1>2

LEMMA FrameMoves ==
  ASSUME TypeInv, NEW c \in Client, NEW k \in FrameKind,
         ClientFrame(c, [kind |-> k, n |-> sent[c] + 1]), NEW d \in Client
  PROVE  ChainMoves(d)
<1> DEFINE f == [kind |-> k, n |-> sent[c] + 1]
<1>1. f \in Frame /\ f.n = sent[c] + 1
  BY DEF TypeInv, TypeOK, Frame
<1>2. /\ sent' = [sent EXCEPT ![c] = f.n]
      /\ queue' = [queue EXCEPT ![c] = IF Overflows(c) THEN <<>> ELSE Append(@, f)]
      /\ delivered' = delivered
      /\ Sends(c, f) /\ (f.kind = "ready" /\ f.n > 1 => again')
      /\ phase[c] \in {"admitting", "joined"} /\ phase' = phase
  BY DEF ClientFrame
<1> HIDE DEF f
<1>3. CASE d # c
  BY <1>2, <1>3 DEF TypeInv, TypeOK, ChainMoves, ChainKept
<1>4. CASE d = c /\ Overflows(c)
  BY <1>1, <1>2, <1>4 DEF TypeInv, TypeOK, ChainMoves, ChainDropped
<1>5. CASE d = c /\ ~Overflows(c)
  <2>1. queue'[c] = Append(queue[c], f) /\ sent'[c] = f.n
    BY <1>2, <1>5 DEF TypeInv, TypeOK
  <2>2. ChainGets(c)
    BY <1>1, <1>2, <2>1 DEF ChainGets
  <2>3. QED
    BY <1>5, <2>2 DEF ChainMoves
<1>6. QED
  BY <1>3, <1>4, <1>5

LEMMA RefusedMoves ==
  ASSUME TypeInv, NEW c \in Client, ClientRefused(c), NEW d \in Client
  PROVE  ChainMoves(d)
BY DEF TypeInv, TypeOK, ClientRefused, ChainMoves, ChainKept, ChainDropped

LEMMA StepMoves ==
  ASSUME TypeInv, [Next]_vars, NEW d \in Client
  PROVE  ChainMoves(d)
<1> USE DEF ChainMoves, ChainKept
<1>1. CASE UNCHANGED vars
  BY <1>1 DEF vars, edgeVars
<1>2. ASSUME NEW u \in Uplink, UplinkStep(u)
      PROVE  ChainMoves(d)
  BY <1>2 DEF UplinkStep, UplinkDial, VerifyReads, VerifyRefuses, UplinkDied, UplinkTaken,
     UplinkAttaches, HostHello, HostRefused, UplinkClosed, HostSnapshot, edgeVars
<1>3. ASSUME NEW c \in Client, ClientStep(c)
      PROVE  ChainMoves(d)
  <2>1. CASE ClientDial(c) \/ ClientJoins(c) \/ ClientClosed(c)
    BY <2>1 DEF ClientDial, ClientJoins, ClientClosed
  <2>2. CASE ClientRefused(c)
    BY <2>2, RefusedMoves
  <2>3. CASE \E k \in FrameKind : ClientFrame(c, [kind |-> k, n |-> sent[c] + 1])
    BY <2>3, FrameMoves
  <2>4. CASE MeteredRoutes(c) \/ MeteredBounces(c)
    <3>1. queue[c] # <<>>
      BY <2>4 DEF MeteredRoutes, MeteredBounces, TypeInv, AwaitingHasFrame
    <3>2. QED
      BY <2>4, <3>1, TakeMoves DEF MeteredRoutes, MeteredBounces, Routed
  <2>5. QED
    BY <1>3, <2>1, <2>2, <2>3, <2>4 DEF ClientStep
<1>4. ASSUME NEW c \in Client, ChainStep(c)
      PROVE  ChainMoves(d)
  <2>1. CASE RunSendMeters(c)
    BY <2>1 DEF RunSendMeters
  <2>2. CASE RunReady(c) \/ RunAct(c) \/ RunSendBounces(c) \/ RunSendRoutes(c)
    BY <2>2, TakeMoves DEF RunReady, RunAct, RunSendBounces, RunSendRoutes, Routed, Runnable
  <2>3. QED
    BY <1>4, <2>1, <2>2 DEF ChainStep
<1>5. ASSUME NEW s \in Client \cup Uplink, SocketStep(s)
      PROVE  ChainMoves(d)
  BY <1>5 DEF SocketStep, PeerVanishes, PeerCloses, PingTerminates, edgeVars
<1>6. CASE RevokeCommits \/ RevokeCloses
  BY <1>6 DEF RevokeCommits, RevokeCloses
<1>7. QED
  BY <1>1, <1>2, <1>3, <1>4, <1>5, <1>6 DEF Next

LEMMA FrameNumbers ==
  ASSUME NEW q \in Seq(Frame), NEW i \in 1..Len(q)
  PROVE  q[i].n \in Nat
<1>1. q[i] \in Frame
  OBVIOUS
<1>2. QED
  BY <1>1 DEF Frame

LEMMA UpwardsTail ==
  ASSUME NEW q \in Seq(Frame), q # <<>>, NEW low \in Nat, NEW high \in Nat,
         Upwards(q, low, high)
  PROVE  /\ low < Head(q).n
         /\ Upwards(Tail(q), low, high)
         /\ Upwards(Tail(q), Head(q).n, high)
<1>1. Head(q) = q[1] /\ 1 \in 1..Len(q)
  OBVIOUS
<1>2. \A i \in 1..Len(Tail(q)) : i + 1 \in 1..Len(q) /\ Tail(q)[i] = q[i + 1]
  OBVIOUS
<1>3. Len(Tail(q)) \in Nat
  OBVIOUS
<1>4. \A i \in 1..Len(q) : q[i].n \in Nat
  BY FrameNumbers
<1>5. \A i \in 1..Len(Tail(q)) : low < Tail(q)[i].n /\ Tail(q)[i].n <= high
  BY <1>2 DEF Upwards
<1>6. \A i \in 1..Len(Tail(q)) : Head(q).n < Tail(q)[i].n
  BY <1>1, <1>2, <1>3 DEF Upwards
<1>7. \A i, j \in 1..Len(Tail(q)) : i < j => Tail(q)[i].n < Tail(q)[j].n
  BY <1>2, <1>3 DEF Upwards
<1>8. QED
  BY <1>1, <1>4, <1>5, <1>6, <1>7 DEF Upwards

LEMMA UpwardsAppend ==
  ASSUME NEW q \in Seq(Frame), NEW f \in Frame, NEW low \in Nat, NEW high \in Nat,
         Upwards(q, low, high), f.n = high + 1
  PROVE  Upwards(Append(q, f), low, f.n)
<1> DEFINE r == Append(q, f)
<1>1. Len(r) = Len(q) + 1 /\ r[Len(q) + 1] = f /\ Len(q) \in Nat
  OBVIOUS
<1>2. \A i \in 1..Len(q) : r[i] = q[i] /\ q[i].n \in Nat
  BY FrameNumbers
<1>3. \A i \in 1..Len(r) : i \in 1..Len(q) \/ i = Len(q) + 1
  BY <1>1
<1> HIDE DEF r
<1>4. \A i \in 1..Len(r) : low < r[i].n /\ r[i].n <= f.n
  BY <1>1, <1>2, <1>3 DEF Upwards
<1>5. \A i, j \in 1..Len(r) : i < j => r[i].n < r[j].n
  BY <1>1, <1>2, <1>3 DEF Upwards
<1>6. Upwards(r, low, f.n)
  BY <1>4, <1>5 DEF Upwards
<1>7. QED
  BY <1>6 DEF r

\* A step keeps the chain of one browser in order, and what it hands to the
\* host is newer than what the host had.
LEMMA MoveKeepsOrder ==
  ASSUME TypeInv, NEW d \in Client, Upwards(queue[d], delivered[d], sent[d]), ChainMoves(d)
  PROVE  /\ Upwards(queue'[d], delivered'[d], sent'[d])
         /\ delivered'[d] # delivered[d] => delivered'[d] > delivered[d]
<1>1. queue[d] \in Seq(Frame) /\ sent[d] \in Nat /\ delivered[d] \in Nat
  BY DEF TypeInv, TypeOK
<1>2. CASE ChainKept(d)
  BY <1>2 DEF ChainKept
<1>3. CASE ChainTakes(d)
  <2>1. Head(queue[d]).n \in Nat
    BY <1>3, HeadNumber DEF ChainTakes, TypeInv, TypeOK
  <2>2. QED
    BY <1>1, <1>3, <2>1, UpwardsTail DEF ChainTakes
<1>4. CASE ChainGets(d)
  BY <1>1, <1>4, UpwardsAppend DEF ChainGets, Sends
<1>5. CASE ChainDropped(d)
  BY <1>1, <1>5 DEF ChainDropped, Upwards
<1>6. QED
  BY <1>2, <1>3, <1>4, <1>5 DEF ChainMoves

LEMMA InitInOrder == Init => ChainsInOrder
BY DEF Init, ChainsInOrder, Upwards

LEMMA StepInOrder ==
  TypeInv /\ ChainsInOrder /\ [Next]_vars =>
    /\ ChainsInOrder'
    /\ \A c \in Client : delivered'[c] # delivered[c] => delivered'[c] > delivered[c]
<1> SUFFICES ASSUME TypeInv, ChainsInOrder, [Next]_vars, NEW c \in Client
             PROVE  /\ Upwards(queue'[c], delivered'[c], sent'[c])
                    /\ delivered'[c] # delivered[c] => delivered'[c] > delivered[c]
  BY DEF ChainsInOrder, Upwards
<1>1. Upwards(queue[c], delivered[c], sent[c])
  BY DEF ChainsInOrder
<1>2. QED
  BY <1>1, StepMoves, MoveKeepsOrder

LEMMA AlwaysInOrder == Spec => []ChainsInOrder
<1>1. Spec => []TypeInv
  BY TypeCorrect DEF TypeInv
<1>2. QED
  BY <1>1, InitInOrder, StepInOrder, PTL DEF Spec

\* Between the messages the host is given of one client the numbers only grow,
\* whatever is buffered, metered, dropped or bounced on the way.
THEOREM NoneOvertakes == Spec => FramesInOrder
<1>1. TypeInv /\ ChainsInOrder /\ [Next]_vars =>
        [\A c \in Client : delivered'[c] # delivered[c] =>
           delivered'[c] > delivered[c]]_delivered
  BY StepInOrder
<1>2. Spec => []TypeInv
  BY TypeCorrect DEF TypeInv
<1>3. QED
  BY <1>1, <1>2, AlwaysInOrder, PTL DEF Spec, FramesInOrder

(***************************************************************************)
(* What a step does to the hub.  All but four kinds of step pass unnoticed *)
(* there: they touch no entry, tell the host of nobody, and let no uplink  *)
(* become reachable.                                                       *)
(***************************************************************************)
PassesUnnoticed ==
  /\ UNCHANGED <<clients, tab>>
  /\ host'.present = host.present /\ host'.tab = host.tab /\ host'.refused = host.refused
  /\ Deliverable' => Deliverable
  /\ \A c \in Client : /\ phase'[c] = "joined" <=> phase[c] = "joined"
                       /\ phase[c] = "closed" => phase'[c] = "closed"

LEMMA OutsideUnnoticed ==
  ASSUME TypeInv, HubSafe, OutsideHub,
         \A c \in Client : phase[c] = "closed" => phase'[c] = "closed"
  PROVE  PassesUnnoticed
BY OutsideReach DEF PassesUnnoticed, OutsideHub, hubVars

LEMMA UplinkUnnoticed ==
  ASSUME TypeInv, HubSafe, NEW u \in Uplink, UplinkStep(u), ~UplinkAttaches(u)
  PROVE  PassesUnnoticed
<1> USE HubAssumption DEF TypeInv, TypeOK, HubTypeOK
<1>1. CASE UplinkDial(u) \/ VerifyReads(u) \/ UplinkDied(u)
  <2>1. OutsideHub
    BY <1>1 DEF UplinkDial, VerifyReads, UplinkDied, OutsideHub
  <2>2. QED
    BY <1>1, <2>1, OutsideUnnoticed DEF UplinkDial, VerifyReads, UplinkDied
<1>2. CASE VerifyRefuses(u) \/ UplinkTaken(u)
  <2>1. OutsideHub
    BY <1>2, ClosingOutside DEF VerifyRefuses, UplinkTaken, OutsideHub
  <2>2. QED
    BY <1>2, <2>1, OutsideUnnoticed DEF VerifyRefuses, UplinkTaken
<1>3. CASE HostRefused(u)
  <2>1. OutsideHub
    BY <1>3, ClosingOutside DEF HostRefused, OutsideHub, edgeVars
  <2>2. QED
    BY <1>3, <2>1, OutsideUnnoticed DEF HostRefused, edgeVars
<1>4. CASE HostHello(u)
  BY <1>4 DEF HostHello, UplinkHello, edgeVars, PassesUnnoticed, Deliverable, IsOpen
<1>5. ASSUME NEW c \in Client, HostSnapshot(u, c)
      PROVE  PassesUnnoticed
  <2>1. host'.present = host.present /\ host'.tab = host.tab /\ host'.refused = host.refused
    BY <1>5 DEF HostSnapshot, UplinkSnapshot, HostView
  <2>2. QED
    BY <1>5, <2>1 DEF HostSnapshot, UplinkSnapshot, PassesUnnoticed, Deliverable, IsOpen
<1>6. CASE UplinkClosed(u) /\ phase[u] = "joined"
  BY <1>6 DEF UplinkClosed, DetachUplink, PassesUnnoticed, Deliverable
<1>7. CASE UplinkClosed(u) /\ phase[u] # "joined"
  <2>1. OutsideHub
    BY <1>7 DEF UplinkClosed, OutsideHub
  <2>2. QED
    BY <1>7, <2>1, OutsideUnnoticed DEF UplinkClosed
<1>8. QED
  BY <1>1, <1>2, <1>3, <1>4, <1>5, <1>6, <1>7 DEF UplinkStep

LEMMA ClientUnnoticed ==
  ASSUME TypeInv, HubSafe, NEW c \in Client, ClientStep(c), ~ClientJoins(c),
         ~(ClientClosed(c) /\ phase[c] = "joined")
  PROVE  PassesUnnoticed
<1> USE HubAssumption DEF TypeInv, TypeOK, HubTypeOK
<1>1. CASE ClientDial(c) \/ MeteredBounces(c)
  <2>1. OutsideHub
    BY <1>1 DEF ClientDial, MeteredBounces, OutsideHub
  <2>2. QED
    BY <1>1, <2>1, OutsideUnnoticed DEF ClientDial, MeteredBounces
<1>2. CASE ClientRefused(c)
  <2>1. OutsideHub
    BY <1>2, ClosingOutside DEF ClientRefused, OutsideHub
  <2>2. QED
    BY <1>2, <2>1, OutsideUnnoticed DEF ClientRefused
<1>3. CASE ClientClosed(c) /\ phase[c] # "joined"
  <2>1. OutsideHub
    BY <1>3 DEF ClientClosed, OutsideHub
  <2>2. QED
    BY <1>3, <2>1, OutsideUnnoticed DEF ClientClosed
<1>4. ASSUME NEW k \in FrameKind, ClientFrame(c, [kind |-> k, n |-> sent[c] + 1])
      PROVE  PassesUnnoticed
  <2>1. OutsideHub
    BY <1>4, ClosingOutside DEF ClientFrame, OutsideHub
  <2>2. QED
    BY <1>4, <2>1, OutsideUnnoticed DEF ClientFrame
<1>5. CASE MeteredRoutes(c)
  BY <1>5 DEF MeteredRoutes, Routed, ClientMsg, hubVars, PassesUnnoticed, Deliverable, IsOpen
<1>6. QED
  BY <1>1, <1>2, <1>3, <1>4, <1>5 DEF ClientStep

LEMMA ChainUnnoticed ==
  ASSUME NEW c \in Client, ChainStep(c), ~RunReady(c)
  PROVE  PassesUnnoticed
BY DEF ChainStep, RunAct, RunSendBounces, RunSendRoutes, RunSendMeters, Routed, ClientMsg,
   hubVars, PassesUnnoticed, Deliverable, IsOpen

LEMMA SocketUnnoticed ==
  ASSUME TypeInv, HubSafe, NEW s \in Client \cup Uplink, SocketStep(s)
  PROVE  PassesUnnoticed
<1>1. OutsideHub
  <2>1. CASE PeerVanishes(s)
    BY <2>1 DEF PeerVanishes, OutsideHub, edgeVars, IsOpen, TypeInv, TypeOK, HubTypeOK
  <2>2. CASE PeerCloses(s) \/ PingTerminates(s)
    BY <2>2, ClosingOutside DEF PeerCloses, PingTerminates, OutsideHub, edgeVars
  <2>3. QED
    BY <2>1, <2>2 DEF SocketStep
<1>2. phase' = phase
  BY DEF SocketStep, PeerVanishes, PeerCloses, PingTerminates, edgeVars
<1>3. QED
  BY <1>1, <1>2, OutsideUnnoticed

LEMMA RevokeUnnoticed ==
  ASSUME TypeInv, HubSafe, RevokeCommits \/ RevokeCloses
  PROVE  PassesUnnoticed
<1>1. OutsideHub
  BY ClosingOutside DEF RevokeCommits, RevokeCloses, OutsideHub
<1>2. QED
  BY <1>1, OutsideUnnoticed DEF RevokeCommits, RevokeCloses

\* Every step passes unnoticed, or an uplink attaches, or a client joins,
\* leaves, or presents its token.
LEMMA StepKinds ==
  ASSUME TypeInv, HubSafe, [Next]_vars
  PROVE  \/ PassesUnnoticed
         \/ \E u \in Uplink : UplinkAttaches(u)
         \/ \E c \in Client : \/ ClientJoins(c)
                              \/ ClientClosed(c) /\ phase[c] = "joined"
                              \/ RunReady(c)
<1>1. CASE UNCHANGED vars
  <2>1. OutsideHub /\ phase' = phase
    BY <1>1 DEF vars, edgeVars, OutsideHub
  <2>2. QED
    BY <2>1, OutsideUnnoticed
<1>2. CASE Next
  BY <1>2, UplinkUnnoticed, ClientUnnoticed, ChainUnnoticed, SocketUnnoticed,
     RevokeUnnoticed DEF Next
<1>3. QED
  BY <1>1, <1>2

(***************************************************************************)
(* Pages that send ready once.  It is the first frame of its connection,   *)
(* so it is run before anything else can happen to its client, and the     *)
(* host counts as present none but clients of the hub.                     *)
(***************************************************************************)
ReadyIsFirst ==
  \A c \in Client : \A i \in 1..Len(queue[c]) :
    queue[c][i].kind = "ready" => queue[c][i].n = 1

\* What waits for the usage store is a send.
SendsAwait == \A c \in awaiting : queue[c] # <<>> /\ Head(queue[c]).kind = "send"

ReadyWaits(c) == queue[c] # <<>> /\ Head(queue[c]).kind = "ready"

\* A client whose ready is still to be run is one that nobody has closed, and
\* once it has joined it is in the hub, without a token.
ReadyComesFresh ==
  \A c \in Client :
    /\ ReadyWaits(c) => phase[c] # "closed"
    /\ (ReadyWaits(c) \/ sent[c] = 0) /\ phase[c] = "joined" =>
         c \in clients /\ tab[c] = NoTab

\* A reachable host counts nobody present who is not a client of the hub, and
\* knows each one by the token the hub has for it.
HostFollowsHub ==
  Deliverable =>
    \A c \in host.present : c \in clients /\ host.tab[c] = tab[c]

EdgeInv == TypeInv /\ HubSafe /\ ChainsInOrder

RosterInv == ReadyIsFirst /\ SendsAwait /\ ReadyComesFresh /\ HostFollowsHub

LEMMA NumberedFromOne ==
  ASSUME EdgeInv, NEW c \in Client, queue[c] # <<>>
  PROVE  /\ 0 < Head(queue[c]).n
         /\ Head(queue[c]).n <= sent[c]
         /\ Head(queue[c]) = queue[c][1]
         /\ 1 \in 1..Len(queue[c])
<1>1. queue[c] \in Seq(Frame) /\ sent[c] \in Nat /\ delivered[c] \in Nat
  BY DEF EdgeInv, TypeInv, TypeOK
<1>2. Head(queue[c]) = queue[c][1] /\ 1 \in 1..Len(queue[c])
  BY <1>1
<1>3. Head(queue[c]).n \in Nat
  BY <1>1, <1>2, FrameNumbers
<1>4. delivered[c] < queue[c][1].n /\ queue[c][1].n <= sent[c]
  BY <1>2 DEF EdgeInv, ChainsInOrder, Upwards
<1>5. QED
  BY <1>1, <1>2, <1>3, <1>4

\* Behind the head of a chain there is no ready.
LEMMA NoSecondReady ==
  ASSUME EdgeInv, ReadyIsFirst, NEW c \in Client, queue[c] # <<>>, Tail(queue[c]) # <<>>
  PROVE  Head(Tail(queue[c])).kind # "ready"
<1> DEFINE q == queue[c]
<1>1. q \in Seq(Frame) /\ Tail(q) \in Seq(Frame)
  BY DEF EdgeInv, TypeInv, TypeOK
<1>2. /\ Head(Tail(q)) = q[2] /\ Len(q) \in Nat /\ Len(q) >= 2
      /\ 1 \in 1..Len(q) /\ 2 \in 1..Len(q)
  BY <1>1
<1>3. q[1].n < q[2].n /\ 0 < q[1].n
  BY <1>2, NumberedFromOne DEF EdgeInv, ChainsInOrder, Upwards
<1>4. q[1].n \in Nat /\ q[2].n \in Nat
  BY <1>1, <1>2, FrameNumbers
<1>5. q[2].n # 1
  BY <1>3, <1>4
<1>6. QED
  BY <1>2, <1>5 DEF ReadyIsFirst

\* What happened once has happened.
LEMMA AgainStays ==
  ASSUME [Next]_vars, again
  PROVE  again'
<1>1. ASSUME NEW u \in Uplink, UplinkStep(u) PROVE again'
  BY <1>1 DEF UplinkStep, UplinkDial, VerifyReads, VerifyRefuses, UplinkDied, UplinkTaken,
     UplinkAttaches, HostHello, HostRefused, UplinkClosed, HostSnapshot, edgeVars
<1>2. ASSUME NEW c \in Client, ClientStep(c) PROVE again'
  BY <1>2 DEF ClientStep, ClientDial, ClientJoins, ClientRefused, ClientClosed, ClientFrame,
     MeteredRoutes, MeteredBounces
<1>3. ASSUME NEW c \in Client, ChainStep(c) PROVE again'
  BY <1>3 DEF ChainStep, RunReady, RunAct, RunSendBounces, RunSendRoutes, RunSendMeters
<1>4. ASSUME NEW s \in Client \cup Uplink, SocketStep(s) PROVE again'
  BY <1>4 DEF SocketStep, PeerVanishes, PeerCloses, PingTerminates, edgeVars
<1>5. CASE RevokeCommits \/ RevokeCloses \/ UNCHANGED vars
  BY <1>5 DEF RevokeCommits, RevokeCloses, vars, edgeVars
<1>6. QED
  BY <1>1, <1>2, <1>3, <1>4, <1>5 DEF Next

LEMMA ReadyStaysFirst ==
  ASSUME ~again', EdgeInv, ReadyIsFirst, [Next]_vars
  PROVE  ReadyIsFirst'
<1> SUFFICES ASSUME NEW c \in Client, NEW i \in 1..Len(queue'[c]), queue'[c][i].kind = "ready"
             PROVE  queue'[c][i].n = 1
  BY DEF ReadyIsFirst
<1>1. queue[c] \in Seq(Frame) /\ ChainMoves(c)
  BY StepMoves DEF EdgeInv, TypeInv, TypeOK
<1>2. CASE ChainKept(c)
  BY <1>2 DEF ChainKept, ReadyIsFirst
<1>3. CASE ChainTakes(c)
  <2>1. i + 1 \in 1..Len(queue[c]) /\ queue'[c][i] = queue[c][i + 1]
    BY <1>1, <1>3 DEF ChainTakes
  <2>2. QED
    BY <2>1 DEF ReadyIsFirst
<1>4. CASE ChainGets(c)
  <2>1. PICK f \in Frame : /\ Sends(c, f) /\ (f.kind = "ready" /\ f.n > 1 => again')
                          /\ queue'[c] = Append(queue[c], f)
    BY <1>4 DEF ChainGets
  <2>2. CASE i = Len(queue[c]) + 1
    <3>1. sent[c] \in Nat /\ f.n = sent[c] + 1
      BY <2>1 DEF Sends, EdgeInv, TypeInv, TypeOK
    <3>2. f.kind = "ready" /\ queue'[c][i] = f
      BY <1>1, <2>1, <2>2
    <3>3. QED
      BY <2>1, <3>1, <3>2
  <2>3. CASE i # Len(queue[c]) + 1
    <3>1. i \in 1..Len(queue[c]) /\ queue'[c][i] = queue[c][i]
      BY <1>1, <2>1, <2>3
    <3>2. QED
      BY <3>1 DEF ReadyIsFirst
  <2>4. QED
    BY <2>2, <2>3
<1>5. CASE ChainDropped(c)
  BY <1>5 DEF ChainDropped
<1>6. QED
  BY <1>1, <1>2, <1>3, <1>4, <1>5 DEF ChainMoves

LEMMA HeadAppended ==
  ASSUME NEW q \in Seq(Frame), q # <<>>, NEW f \in Frame
  PROVE  Append(q, f) # <<>> /\ Head(Append(q, f)) = Head(q)
<1>1. Len(q) \in Nat /\ Len(q) # 0
  OBVIOUS
<1>2. Append(q, f) \in Seq(Frame) /\ Len(Append(q, f)) = Len(q) + 1
  OBVIOUS
<1>3. Append(q, f)[1] = q[1]
  BY <1>1
<1>4. Append(q, f) # <<>>
  BY <1>1, <1>2
<1>5. Head(q) = q[1] /\ Head(Append(q, f)) = Append(q, f)[1]
  BY <1>2, <1>4
<1>6. QED
  BY <1>3, <1>4, <1>5

\* The head of a chain that waits stays where it is while it waits.
LEMMA SendsStillAwait ==
  ASSUME TypeInv, SendsAwait, [Next]_vars
  PROVE  SendsAwait'
<1> SUFFICES ASSUME NEW d \in awaiting'
             PROVE  queue'[d] # <<>> /\ Head(queue'[d]).kind = "send"
  BY DEF SendsAwait
<1> USE DEF TypeInv, TypeOK
<1>1. d \in Client
  BY StepTypes
<1>2. ASSUME NEW c \in Client, RunSendMeters(c)
      PROVE  queue'[d] # <<>> /\ Head(queue'[d]).kind = "send"
  BY <1>2 DEF RunSendMeters, Runnable, SendsAwait
<1>3. ASSUME d \in awaiting, queue'[d] = queue[d]
      PROVE  queue'[d] # <<>> /\ Head(queue'[d]).kind = "send"
  BY <1>3 DEF SendsAwait
<1>4. ASSUME NEW c \in Client, NEW k \in FrameKind,
             ClientFrame(c, [kind |-> k, n |-> sent[c] + 1])
      PROVE  queue'[d] # <<>> /\ Head(queue'[d]).kind = "send"
  <2>1. d \in awaiting
    BY <1>4 DEF ClientFrame
  <2>2. CASE d # c
    BY <1>3, <1>4, <2>1, <2>2, <1>1 DEF ClientFrame
  <2>3. CASE d = c
    <3>1. phase[d] = "joined"
      BY <1>4, <2>1, <2>3 DEF ClientFrame, AwaitingHasFrame
    <3>2. PICK f \in Frame : queue'[d] = Append(queue[d], f)
      <4>1. [kind |-> k, n |-> sent[c] + 1] \in Frame
        BY DEF Frame
      <4>2. ~Overflows(c)
        BY <2>3, <3>1 DEF Overflows
      <4>3. queue'[c] = Append(queue[c], [kind |-> k, n |-> sent[c] + 1])
        BY <1>4, <4>2 DEF ClientFrame
      <4>4. QED
        BY <2>3, <4>1, <4>3
    <3>3. queue[d] \in Seq(Frame) /\ queue[d] # <<>> /\ Head(queue[d]).kind = "send"
      BY <1>1, <2>1 DEF SendsAwait
    <3>4. Append(queue[d], f) # <<>> /\ Head(Append(queue[d], f)) = Head(queue[d])
      BY <3>3, HeadAppended
    <3>5. QED
      BY <3>2, <3>3, <3>4
  <2>4. QED
    BY <2>2, <2>3
<1>5. ASSUME NEW c \in Client, ClientRefused(c)
      PROVE  queue'[d] # <<>> /\ Head(queue'[d]).kind = "send"
  <2>1. d \in awaiting /\ phase[c] = "admitting"
    BY <1>5 DEF ClientRefused
  <2>2. d # c
    BY <2>1 DEF AwaitingHasFrame
  <2>3. QED
    BY <1>1, <1>3, <1>5, <2>1, <2>2 DEF ClientRefused
<1>6. ASSUME NEW c \in Client,
             \/ MeteredRoutes(c) \/ MeteredBounces(c) \/ RunReady(c) \/ RunAct(c)
             \/ RunSendBounces(c) \/ RunSendRoutes(c)
      PROVE  queue'[d] # <<>> /\ Head(queue'[d]).kind = "send"
  <2>1. d \in awaiting /\ d # c /\ Popped(c)
    BY <1>6 DEF MeteredRoutes, MeteredBounces, RunReady, RunAct, RunSendBounces,
       RunSendRoutes, Runnable
  <2>2. QED
    BY <1>1, <1>3, <2>1 DEF Popped
<1>7. CASE UNCHANGED <<queue, awaiting>>
  BY <1>3, <1>7
<1>8. ASSUME NEW u \in Uplink, UplinkStep(u)
      PROVE  UNCHANGED <<queue, awaiting>>
  BY <1>8 DEF UplinkStep, UplinkDial, VerifyReads, VerifyRefuses, UplinkDied, UplinkTaken,
     UplinkAttaches, HostHello, HostRefused, UplinkClosed, HostSnapshot, edgeVars
<1>9. ASSUME NEW s \in Client \cup Uplink, SocketStep(s)
      PROVE  UNCHANGED <<queue, awaiting>>
  BY <1>9 DEF SocketStep, PeerVanishes, PeerCloses, PingTerminates, edgeVars
<1>10. ASSUME NEW c \in Client, ClientStep(c)
       PROVE  queue'[d] # <<>> /\ Head(queue'[d]).kind = "send"
  <2>1. CASE ClientDial(c) \/ ClientJoins(c) \/ ClientClosed(c)
    BY <1>7, <2>1 DEF ClientDial, ClientJoins, ClientClosed
  <2>2. QED
    BY <1>4, <1>5, <1>6, <1>10, <2>1 DEF ClientStep
<1>11. ASSUME NEW c \in Client, ChainStep(c)
       PROVE  queue'[d] # <<>> /\ Head(queue'[d]).kind = "send"
  BY <1>2, <1>6, <1>11 DEF ChainStep
<1>12. CASE RevokeCommits \/ RevokeCloses \/ UNCHANGED vars
  BY <1>7, <1>12 DEF RevokeCommits, RevokeCloses, vars, edgeVars
<1>13. QED
  BY <1>7, <1>8, <1>9, <1>10, <1>11, <1>12 DEF Next

\* No step makes a ready wait again.
LEMMA ReadyWaitedBefore ==
  ASSUME ~again', EdgeInv, ReadyIsFirst, [Next]_vars, NEW c \in Client
  PROVE  /\ sent'[c] = 0 => sent[c] = 0
         /\ ReadyWaits(c)' => ReadyWaits(c) \/ sent[c] = 0
         /\ ReadyWaits(c)' /\ ~ReadyWaits(c) =>
              phase[c] \in {"admitting", "joined"} /\ phase'[c] = phase[c]
<1>1. queue[c] \in Seq(Frame) /\ sent[c] \in Nat /\ ChainMoves(c)
  BY StepMoves DEF EdgeInv, TypeInv, TypeOK
<1>2. CASE ChainKept(c)
  BY <1>2 DEF ChainKept, ReadyWaits
<1>3. CASE ChainTakes(c)
  <2>1. ~ReadyWaits(c)'
    BY <1>3, NoSecondReady DEF ChainTakes, ReadyWaits
  <2>2. QED
    BY <1>3, <2>1 DEF ChainTakes
<1>4. CASE ChainGets(c)
  <2>1. PICK f \in Frame :
          /\ Sends(c, f) /\ (f.kind = "ready" /\ f.n > 1 => again')
          /\ phase[c] \in {"admitting", "joined"} /\ phase'[c] = phase[c]
          /\ queue'[c] = Append(queue[c], f)
          /\ sent'[c] = f.n
    BY <1>4 DEF ChainGets
  <2>2. sent'[c] = sent[c] + 1
    BY <2>1 DEF Sends
  <2>3. CASE queue[c] = <<>>
    <3>1. Head(queue'[c]) = f
      BY <2>1, <2>3
    <3>2. f.kind = "ready" => f.n = 1
      BY <1>1, <2>1 DEF Sends
    <3>3. ReadyWaits(c)' => sent[c] = 0
      BY <1>1, <2>1, <2>2, <3>1, <3>2 DEF ReadyWaits
    <3>4. QED
      BY <1>1, <2>1, <2>2, <3>3
  <2>4. CASE queue[c] # <<>>
    <3>1. Head(queue'[c]) = Head(queue[c])
      BY <1>1, <2>1, <2>4, HeadAppended
    <3>2. ReadyWaits(c)' => ReadyWaits(c)
      BY <2>4, <3>1 DEF ReadyWaits
    <3>3. QED
      BY <1>1, <2>2, <3>2
  <2>5. QED
    BY <2>3, <2>4
<1>5. CASE ChainDropped(c)
  BY <1>1, <1>5 DEF ChainDropped, ReadyWaits
<1>6. QED
  BY <1>1, <1>2, <1>3, <1>4, <1>5 DEF ChainMoves

\* A connection whose ready waits is not closed under it: its close event comes
\* when no chain can run, and a refusal drops what was buffered.
LEMMA NotClosedUnready ==
  ASSUME EdgeInv, SendsAwait, [Next]_vars, NEW c \in Client,
         phase[c] # "closed", phase'[c] = "closed"
  PROVE  ~ReadyWaits(c)'
<1> USE HubAssumption DEF EdgeInv, TypeInv, TypeOK, HubTypeOK
<1>1. ASSUME NEW u \in Uplink, UplinkStep(u)
      PROVE  phase'[c] = phase[c]
  BY <1>1 DEF UplinkStep, UplinkDial, VerifyReads, VerifyRefuses, UplinkDied, UplinkTaken,
     UplinkAttaches, HostHello, HostRefused, UplinkClosed, HostSnapshot, edgeVars
<1>2. ASSUME NEW d \in Client, ClientRefused(d)
      PROVE  ~ReadyWaits(c)'
  BY <1>2 DEF ClientRefused, ReadyWaits
<1>3. ASSUME NEW d \in Client, ClientClosed(d)
      PROVE  ~ReadyWaits(c)'
  <2>1. d = c /\ phase[c] = "joined" /\ Quiet /\ queue' = queue
    BY <1>3 DEF ClientClosed
  <2>2. queue[c] = <<>> \/ c \in awaiting
    BY <2>1 DEF Quiet, Runnable
  <2>3. QED
    BY <2>1, <2>2 DEF SendsAwait, ReadyWaits
<1>4. ASSUME NEW d \in Client, ClientStep(d), ~ClientRefused(d), ~ClientClosed(d)
      PROVE  FALSE
  BY <1>4 DEF ClientStep, ClientDial, ClientJoins, ClientFrame, MeteredRoutes, MeteredBounces
<1>5. ASSUME NEW d \in Client, ChainStep(d)
      PROVE  phase'[c] = phase[c]
  BY <1>5 DEF ChainStep, RunReady, RunAct, RunSendBounces, RunSendRoutes, RunSendMeters
<1>6. ASSUME NEW s \in Client \cup Uplink, SocketStep(s)
      PROVE  phase'[c] = phase[c]
  BY <1>6 DEF SocketStep, PeerVanishes, PeerCloses, PingTerminates, edgeVars
<1>7. CASE RevokeCommits \/ RevokeCloses \/ UNCHANGED vars
  BY <1>7 DEF RevokeCommits, RevokeCloses, vars, edgeVars
<1>8. QED
  BY <1>1, <1>2, <1>3, <1>4, <1>5, <1>6, <1>7 DEF Next

\* After its ready was run, a client is not fresh any more.
LEMMA ReadyEnds ==
  ASSUME EdgeInv, ReadyIsFirst, NEW c \in Client, RunReady(c)
  PROVE  ~ReadyWaits(c)' /\ sent'[c] # 0
<1>1. queue[c] # <<>> /\ queue'[c] = Tail(queue[c]) /\ sent' = sent
  BY DEF RunReady, Runnable, Popped, EdgeInv, TypeInv, TypeOK
<1>2. ~ReadyWaits(c)'
  BY <1>1, NoSecondReady DEF ReadyWaits
<1>3. Head(queue[c]).n \in Nat /\ sent[c] \in Nat
  BY <1>1, HeadNumber DEF EdgeInv, TypeInv, TypeOK
<1>4. QED
  BY <1>1, <1>2, <1>3, NumberedFromOne

LEMMA ReadyStaysFresh ==
  ASSUME ~again', EdgeInv, RosterInv, [Next]_vars
  PROVE  ReadyComesFresh'
<1> USE DEF RosterInv
<1>1. SUFFICES ASSUME NEW c \in Client
               PROVE  /\ ReadyWaits(c)' => phase'[c] # "closed"
                      /\ (ReadyWaits(c)' \/ sent'[c] = 0) /\ phase'[c] = "joined" =>
                           c \in clients' /\ tab'[c] = NoTab
  BY DEF ReadyComesFresh, ReadyWaits
<1>2. ReadyWaits(c)' => phase'[c] # "closed"
  <2>1. CASE ReadyWaits(c) /\ phase[c] # "closed"
    BY <2>1, NotClosedUnready
  <2>2. CASE ~ReadyWaits(c)
    BY <2>2, ReadyWaitedBefore
  <2>3. QED
    BY <2>1, <2>2 DEF ReadyComesFresh
<1>3. ASSUME ReadyWaits(c)' \/ sent'[c] = 0, phase'[c] = "joined"
      PROVE  c \in clients' /\ tab'[c] = NoTab
  <2>1. ReadyWaits(c) \/ sent[c] = 0
    BY <1>3, ReadyWaitedBefore
  <2>2. phase[c] = "joined" => c \in clients /\ tab[c] = NoTab
    BY <2>1 DEF ReadyComesFresh
  <2> USE HubAssumption DEF EdgeInv, TypeInv, TypeOK, HubTypeOK
  <2>3. CASE PassesUnnoticed
    BY <1>3, <2>2, <2>3 DEF PassesUnnoticed
  <2>4. ASSUME NEW u \in Uplink, UplinkAttaches(u)
        PROVE  c \in clients' /\ tab'[c] = NoTab
    BY <1>3, <2>2, <2>4 DEF UplinkAttaches, AttachUplink
  <2>5. ASSUME NEW d \in Client, ClientJoins(d)
        PROVE  c \in clients' /\ tab'[c] = NoTab
    BY <1>3, <2>2, <2>5 DEF ClientJoins, AddClient
  <2>6. ASSUME NEW d \in Client, ClientClosed(d), phase[d] = "joined"
        PROVE  c \in clients' /\ tab'[c] = NoTab
    BY <1>3, <2>2, <2>6 DEF ClientClosed, RemoveClient
  <2>7. ASSUME NEW d \in Client, RunReady(d)
        PROVE  c \in clients' /\ tab'[c] = NoTab
    <3>1. d # c
      BY <1>3, <2>7, ReadyEnds
    <3>2. c \in clients /\ tab[c] = NoTab
      BY <1>3, <2>2, <2>7 DEF RunReady
    <3>3. c \notin Evicted(d, TabOf[d])
      BY <3>2 DEF Evicted
    <3>4. QED
      BY <2>7, <3>1, <3>2, <3>3 DEF RunReady, ClientReady, Registers
  <2>8. QED
    BY <2>3, <2>4, <2>5, <2>6, <2>7, StepKinds
<1>4. QED
  BY <1>2, <1>3

\* What running a ready does to the hub and, when the host can be reached, to
\* what the host knows.
LEMMA ReadyEffect ==
  ASSUME EdgeInv, RosterInv, NEW c \in Client, RunReady(c)
  PROVE  LET E == Evicted(c, TabOf[c])
         IN /\ c \in clients /\ E \subseteq clients \ {c}
            /\ clients' = clients \ E
            /\ tab' = [d \in Client |-> IF d \in E THEN NoTab
                                        ELSE IF d = c THEN TabOf[c] ELSE tab[d]]
            /\ phase' = phase
            /\ Deliverable' <=> Deliverable
            /\ Deliverable =>
                 /\ host'.present = (host.present \ E) \cup {c}
                 /\ host'.tab = [d \in Client |-> IF d = c THEN TabOf[c] ELSE host.tab[d]]
            /\ ~Deliverable => host' = host
<1> DEFINE t == TabOf[c]
           E == Evicted(c, t)
           arrived == HostReady(HostLeft(host, E), {c}, [d \in Client |-> t])
<1> USE HubAssumption DEF EdgeInv, TypeInv, TypeOK, HubTypeOK
<1>1. /\ ClientReady(c, t)
      /\ Registers(c, t, E)
      /\ socket' = Closing(E)
      /\ phase' = phase
  BY DEF RunReady, ClientReady
<1>2. E \in SUBSET Client /\ t \in Tab \cup {NoTab} /\ E \subseteq clients \ {c}
  BY RelayAssumption DEF Evicted
<1>3. c \in clients
  BY DEF RosterInv, ReadyComesFresh, ReadyWaits, RunReady, Runnable
<1>4. Deliverable' <=> Deliverable
  BY <1>1, <1>2 DEF Deliverable, Registers, Closing, IsOpen, SocketState
<1>5. /\ arrived.present = (host.present \ E) \cup {c}
      /\ arrived.tab = [d \in Client |-> IF d = c THEN t ELSE host.tab[d]]
      /\ arrived.count = host.count
      /\ arrived \in HostView
  <2>1. host \in HostView /\ E \in SUBSET Client /\ t \in Tab \cup {NoTab}
    BY <1>2
  <2> HIDE DEF E, t
  <2>2. QED
    BY ONLY <2>1, ArrivalFields, c \in Client
<1>6. host' = IF Deliverable
              THEN IF E = {} THEN arrived ELSE HostCount(arrived, Cardinality(clients'))
              ELSE host
  BY <1>1 DEF ClientReady, Tell
<1>7. Deliverable => host'.present = arrived.present /\ host'.tab = arrived.tab
  BY <1>5, <1>6 DEF HostCount, HostView
<1>8. clients' = clients \ E
      /\ tab' = [d \in Client |-> IF d \in E THEN NoTab
                                  ELSE IF d = c THEN t ELSE tab[d]]
  BY <1>1, <1>3 DEF Registers
<1>9. QED
  BY <1>1, <1>2, <1>3, <1>4, <1>5, <1>6, <1>7, <1>8

LEMMA HostStillFollows ==
  ASSUME ~again', EdgeInv, RosterInv, [Next]_vars
  PROVE  HostFollowsHub'
<1> SUFFICES ASSUME Deliverable', NEW c \in host'.present
             PROVE  c \in clients' /\ host'.tab[c] = tab'[c]
  BY DEF HostFollowsHub
<1> USE HubAssumption DEF EdgeInv, TypeInv, TypeOK, HubTypeOK, RosterInv
<1>1. CASE PassesUnnoticed
  BY <1>1 DEF PassesUnnoticed, HostFollowsHub
<1>2. ASSUME NEW u \in Uplink, UplinkAttaches(u)
      PROVE  c \in clients' /\ host'.tab[c] = tab'[c]
  BY <1>2 DEF UplinkAttaches, AttachUplink, HostReady, HostCount, FreshHost
<1>3. ASSUME NEW d \in Client, ClientJoins(d)
      PROVE  c \in clients' /\ host'.tab[c] = tab'[c]
  <2>1. Deliverable
    BY <1>3 DEF ClientJoins, AddClient, Deliverable, IsOpen
  <2>2. host'.present = host.present /\ host'.tab = host.tab
    BY <1>3 DEF ClientJoins, AddClient, Tell, HostCount, HostView
  <2>3. c \in clients /\ host.tab[c] = tab[c]
    BY <2>1, <2>2 DEF HostFollowsHub
  <2>4. d \notin clients
    BY <1>3 DEF ClientJoins, HubSafe, NothingStranded
  <2>5. QED
    BY <1>3, <2>2, <2>3, <2>4 DEF ClientJoins, AddClient
<1>4. ASSUME NEW d \in Client, ClientClosed(d), phase[d] = "joined"
      PROVE  c \in clients' /\ host'.tab[c] = tab'[c]
  <2>1. Deliverable
    BY <1>4 DEF ClientClosed, RemoveClient, Deliverable, IsOpen
  <2>2. host'.present = host.present \ ({d} \cap clients) /\ host'.tab = host.tab
    BY <1>4, <2>1 DEF ClientClosed, RemoveClient, Tell, HostCount, HostLeft, HostView
  <2>3. c \in clients /\ host.tab[c] = tab[c]
    BY <2>1, <2>2 DEF HostFollowsHub
  <2>4. QED
    BY <1>4, <2>2, <2>3 DEF ClientClosed, RemoveClient
<1>5. ASSUME NEW d \in Client, RunReady(d)
      PROVE  c \in clients' /\ host'.tab[c] = tab'[c]
  <2> DEFINE E == Evicted(d, TabOf[d])
  <2>1. /\ Deliverable
        /\ d \in clients /\ clients' = clients \ E /\ E \subseteq clients \ {d}
        /\ tab' = [e \in Client |-> IF e \in E THEN NoTab
                                    ELSE IF e = d THEN TabOf[d] ELSE tab[e]]
        /\ host'.present = (host.present \ E) \cup {d}
        /\ host'.tab = [e \in Client |-> IF e = d THEN TabOf[d] ELSE host.tab[e]]
    BY <1>5, ReadyEffect
  <2> HIDE DEF E
  <2>2. CASE c = d
    BY <2>1, <2>2
  <2>3. CASE c # d
    <3>1. c \in host.present /\ c \notin E
      BY <2>1, <2>3
    <3>2. c \in clients /\ host.tab[c] = tab[c]
      BY <2>1, <3>1 DEF HostFollowsHub
    <3>3. QED
      BY <2>1, <2>3, <3>1, <3>2
  <2>4. QED
    BY <2>2, <2>3
<1>6. QED
  BY <1>1, <1>2, <1>3, <1>4, <1>5, StepKinds

LEMMA InitRoster == Init => RosterInv
BY DEF Init, HubInit, RosterInv, ReadyIsFirst, SendsAwait, ReadyComesFresh, ReadyWaits,
   HostFollowsHub, Deliverable

LEMMA AlwaysRoster == Spec => [](EdgeInv /\ (again \/ RosterInv))
<1>1. Spec => []EdgeInv
  BY TypeCorrect, AlwaysSafe, AlwaysInOrder, PTL DEF EdgeInv, TypeInv
<1>2. EdgeInv /\ (again \/ RosterInv) /\ [Next]_vars => (again \/ RosterInv)'
  <2> SUFFICES ASSUME EdgeInv, again \/ RosterInv, [Next]_vars, ~again' PROVE RosterInv'
    OBVIOUS
  <2> RosterInv
    BY AgainStays
  <2>1. ReadyIsFirst' /\ SendsAwait'
    BY ReadyStaysFirst, SendsStillAwait DEF EdgeInv, RosterInv
  <2>2. ReadyComesFresh' /\ HostFollowsHub'
    BY ReadyStaysFresh, HostStillFollows
  <2>3. QED
    BY <2>1, <2>2 DEF RosterInv
<1>3. QED
  BY <1>1, <1>2, InitRoster, PTL DEF Spec

(***************************************************************************)
(* The refinement.                                                         *)
(***************************************************************************)
LEMMA MembersAreClients ==
  ASSUME EdgeInv, RosterInv
  PROVE  /\ Members \subseteq clients /\ Members \cap Gone = {} /\ clients \cap Gone = {}
         /\ clients \subseteq Client
         /\ \A c \in Members : Held[c] = tab[c]
         /\ \A c \in Client \ Members : Held[c] = NoTab
         /\ \A c \in clients : phase[c] = "joined"
<1> USE DEF EdgeInv, TypeInv, TypeOK, HubTypeOK
<1>1. Members \subseteq clients /\ \A c \in Members : host.tab[c] = tab[c]
  BY DEF RosterInv, HostFollowsHub, Members
<1>2. clients \cap Gone = {}
  BY DEF Gone
<1>3. \A c \in clients : phase[c] = "joined"
  BY DEF HubSafe, NothingStranded
<1>4. QED
  BY <1>1, <1>2, <1>3 DEF Held

\* What passes unnoticed in the hub is unseen on the roster, or takes the link
\* down.
LEMMA UnnoticedOnRoster ==
  ASSUME EdgeInv, RosterInv, PassesUnnoticed
  PROVE  Roster!Next
<1> DEFINE C == Gone' \ Gone
<1>1. Gone \subseteq Gone'
  BY DEF Gone, PassesUnnoticed
<1>2. Gone' \cap clients = {} /\ Gone' \subseteq Client
  BY DEF Gone, PassesUnnoticed
<1>3. C \in SUBSET (Client \ Members) /\ Gone' = Gone \cup C
  BY <1>1, <1>2, MembersAreClients
<1>4. Roster!GoUnseen
  BY <1>3, Zenon DEF Roster!GoUnseen
<1>5. CASE Deliverable' <=> Deliverable
  <2>1. Members' = Members /\ Held' = Held
    BY <1>5 DEF Members, Held, PassesUnnoticed
  <2>2. QED
    BY <1>4, <2>1 DEF Roster!Unseen, Roster!Next
<1>6. CASE ~Deliverable'
  <2>1. Members' = {} /\ Held' = Roster!Nobody
    BY <1>6 DEF Members, Held, Roster!Nobody
  <2>2. QED
    BY <1>4, <2>1 DEF Roster!LinkDown, Roster!Next
<1>7. QED
  BY <1>5, <1>6 DEF PassesUnnoticed

\* An uplink that attaches is told of every client at once.
LEMMA AttachOnRoster ==
  ASSUME EdgeInv, RosterInv, NEW u \in Uplink, UplinkAttaches(u)
  PROVE  Roster!Next
<1> USE HubAssumption DEF EdgeInv, TypeInv, TypeOK, HubTypeOK, UplinkAttaches, AttachUplink
<1>1. Members = {} /\ Gone' = Gone
  BY DEF Members, Deliverable, Gone
<1>2. Deliverable'
  BY DEF Deliverable, IsOpen
<1>3. host'.present = clients /\ \A c \in clients : host'.tab[c] = tab[c]
  BY DEF HostReady, HostCount, FreshHost
<1>4. Members' = clients
  BY <1>2, <1>3 DEF Members
<1>5. Held' = [c \in Client |-> IF c \in clients THEN tab[c] ELSE NoTab]
  <2>1. Held' = [c \in Client |-> IF c \in Members' THEN host'.tab[c] ELSE NoTab]
    BY DEF Held
  <2>2. QED
    BY <1>3, <1>4, <2>1
<1>6. Members' \in SUBSET (Client \ Gone) /\ Held' \in [Client -> Tab \cup {NoTab}]
  BY <1>4, <1>5, MembersAreClients
<1>7. Roster!DistinctTabs(Members', Held')
  BY <1>4, <1>5 DEF Roster!DistinctTabs, HubSafe, OneHolderPerTab
<1>8. \A c \in Client \ Members' : Held'[c] = NoTab
  BY <1>4, <1>5
<1>9. Roster!LinkUp
  BY <1>1, <1>6, <1>7, <1>8 DEF Roster!LinkUp
<1>10. QED
  BY <1>9 DEF Roster!Next

\* Nobody is told that a client joined until it presents its token.
LEMMA JoinOnRoster ==
  ASSUME EdgeInv, RosterInv, NEW c \in Client, ClientJoins(c)
  PROVE  Roster!Next
<1> USE HubAssumption DEF EdgeInv, TypeInv, TypeOK, HubTypeOK, ClientJoins, AddClient
<1>1. Deliverable' <=> Deliverable
  BY DEF Deliverable, IsOpen
<1>2. host'.present = host.present /\ host'.tab = host.tab
  BY DEF Tell, HostCount, HostView
<1>3. Members' = Members /\ Held' = Held
  BY <1>1, <1>2 DEF Members, Held
<1>4. Gone' = Gone \cup {}
  BY DEF Gone
<1>5. Roster!GoUnseen
  BY <1>4 DEF Roster!GoUnseen
<1>6. QED
  BY <1>3, <1>5 DEF Roster!Unseen, Roster!Next

\* A client that leaves is struck off, if the host knew of it.
LEMMA LeaveOnRoster ==
  ASSUME EdgeInv, RosterInv, NEW c \in Client, ClientClosed(c), phase[c] = "joined"
  PROVE  Roster!Next
<1> USE HubAssumption DEF EdgeInv, TypeInv, TypeOK, HubTypeOK, ClientClosed, RemoveClient
<1>1. Deliverable' <=> Deliverable
  BY DEF Deliverable, IsOpen
<1>2. Deliverable => host'.present = host.present \ ({c} \cap clients) /\ host'.tab = host.tab
  BY DEF Tell, HostCount, HostLeft, HostView
<1>3. Gone' = Gone \cup {c}
  BY DEF Gone
<1>4. Members' = Members \ {c}
  BY <1>1, <1>2, MembersAreClients DEF Members
<1>5. Held' = [d \in Client |-> IF d \in Members' THEN host.tab[d] ELSE NoTab]
  BY <1>1, <1>2 DEF Held, Members
<1>6. CASE c \in Members
  <2>1. Held' = [Held EXCEPT ![c] = NoTab]
    BY <1>4, <1>5 DEF Held
  <2>2. Roster!Depart(c)
    BY <1>3, <1>4, <1>6, <2>1 DEF Roster!Depart
  <2>3. QED
    BY <2>2 DEF Roster!Next
<1>7. CASE c \notin Members
  <2>1. Members' = Members /\ Held' = Held
    BY <1>4, <1>5, <1>7 DEF Held
  <2>2. {c} \in SUBSET (Client \ Members)
    BY <1>7
  <2>3. Roster!GoUnseen
    BY <1>3, <2>2 DEF Roster!GoUnseen
  <2>4. QED
    BY <2>1, <2>3 DEF Roster!Unseen, Roster!Next
<1>8. QED
  BY <1>6, <1>7

\* A token that is presented to a reachable host displaces on its roster
\* exactly those the hub evicts.
LEMMA ReadyOnRoster ==
  ASSUME EdgeInv, RosterInv, NEW c \in Client, RunReady(c)
  PROVE  Roster!Next
<1> DEFINE t == TabOf[c]
           E == Evicted(c, t)
<1>1. /\ c \in clients /\ E \subseteq clients \ {c}
      /\ clients' = clients \ E
      /\ phase' = phase
      /\ Deliverable' <=> Deliverable
      /\ Deliverable => /\ host'.present = (host.present \ E) \cup {c}
                        /\ host'.tab = [d \in Client |-> IF d = c THEN t ELSE host.tab[d]]
      /\ ~Deliverable => host' = host
  BY ReadyEffect
<1>2. t \in Tab \cup {NoTab}
  BY RelayAssumption
<1>3. E = {d \in clients \ {c} : t # NoTab /\ tab[d] = t}
  BY DEF Evicted
<1> HIDE DEF E, t
<1>4. Gone' = Gone \cup E
  BY <1>1, MembersAreClients DEF Gone
<1>5. CASE Deliverable
  <2>1. Members = host.present /\ Members' = (Members \ E) \cup {c}
    BY <1>1, <1>5 DEF Members
  <2>2. Roster!Holders(t) \ {c} = Members \cap E
    BY <1>3, MembersAreClients DEF Roster!Holders
  <2>3. E \subseteq Members
    BY <1>3, <1>5, <2>1 DEF EdgeInv, HubSafe, HostKnowsTabs
  <2>4. E = Roster!Holders(t) \ {c}
    BY <2>2, <2>3
  <2>5. Held' = [d \in Client |-> IF d = c THEN t
                                  ELSE IF d \in E THEN NoTab ELSE Held[d]]
    BY <1>1, <1>5, <2>1 DEF Held
  <2>6. c \notin Gone
    BY <1>1, MembersAreClients
  <2>7. Gone' = Gone \cup E \cup {} /\ {} \in SUBSET (Client \ (Members \cup {c}))
    BY <1>4
  <2>8. Roster!Arrive(c, t)
    BY <2>1, <2>4, <2>5, <2>6, <2>7 DEF Roster!Arrive
  <2>9. QED
    BY <1>2, <2>8 DEF Roster!Next
<1>6. CASE ~Deliverable
  <2>1. Members' = Members /\ Held' = Held /\ Members = {}
    BY <1>1, <1>6 DEF Members, Held
  <2>2. E \in SUBSET (Client \ Members)
    BY <1>1, <2>1, MembersAreClients
  <2>3. Roster!GoUnseen
    BY <1>4, <2>2 DEF Roster!GoUnseen
  <2>4. QED
    BY <2>1, <2>3 DEF Roster!Unseen, Roster!Next
<1>7. QED
  BY <1>5, <1>6

LEMMA InitOnRoster == Init => Roster!Init
BY DEF Init, HubInit, Roster!Init, Roster!Nobody, Members, Held, Gone, Deliverable

\* The hub and the websocket edge implement the roster, for any number of
\* browsers, tabs and uplinks, until a page sends ready again on a connection:
\* a reachable host sees clients arrive, displace and leave one at a time, and
\* none of them comes back.
THEOREM RosterIsImplemented == Spec => ImplementsRoster
<1>1. EdgeInv /\ (again \/ RosterInv) /\ [Next]_vars =>
        [again' \/ Roster!Next]_Roster!rosterVars
  <2> SUFFICES ASSUME EdgeInv, again \/ RosterInv, [Next]_vars, ~again' PROVE Roster!Next
    OBVIOUS
  <2> RosterInv
    BY AgainStays
  <2>1. QED
    BY StepKinds, UnnoticedOnRoster, AttachOnRoster, JoinOnRoster, LeaveOnRoster,
       ReadyOnRoster DEF EdgeInv
<1>2. Spec => [](EdgeInv /\ (again \/ RosterInv))
  BY AlwaysRoster
<1>3. QED
  BY <1>1, <1>2, InitOnRoster, PTL DEF Spec, ImplementsRoster

(***************************************************************************)
(* Rival arrivals.                                                         *)
(***************************************************************************)
LEMMA ReadyIsNoRival ==
  ASSUME EdgeInv, RosterInv, NoRivalArrival, NEW c \in Client, RunReady(c)
  PROVE  NoRivalArrival'
<1> DEFINE t == TabOf[c]
           E == Evicted(c, t)
           ts == [d \in Client |-> t]
           arrived == HostReady(HostLeft(host, E), {c}, ts)
<1> USE DEF EdgeInv, TypeInv, TypeOK, HubTypeOK
<1>1. host' = IF Deliverable
              THEN IF E = {} THEN arrived ELSE HostCount(arrived, Cardinality(clients'))
              ELSE host
  BY DEF RunReady, ClientReady, Tell
<1>2. PICK v \in HostView : v = HostLeft(host, E)
  <2>1. E \in SUBSET Client
    BY DEF Evicted
  <2>2. QED
    BY <2>1, LeftType
<1>3. v.present = host.present \ E /\ v.tab = host.tab /\ v.refused = {}
  BY <1>2 DEF HostLeft, HostView, NoRivalArrival
<1>4. ASSUME Deliverable, t # NoTab, NEW d \in host.present \ E, d # c
      PROVE  host.tab[d] # t
  BY <1>4 DEF RosterInv, HostFollowsHub, Evicted
<1>5. Deliverable => arrived.refused = {} /\ arrived \in HostView
  <2>1. ts \in [Client -> Tab \cup {NoTab}]
    BY RelayAssumption
  <2>2. arrived \in HostView
    BY <1>2, <2>1, ReadyType
  <2> DEFINE tabs == [f \in Client |-> IF f \in {c} THEN ts[f] ELSE v.tab[f]]
             rivals == {d \in (v.present \cup {c}) \ {c} : tabs[d] = tabs[c]}
  <2>3. arrived.refused = v.refused \cup {e \in {c} : ts[e] # NoTab /\
          {d \in (v.present \cup {c}) \ {e} : tabs[d] = tabs[e]} # {}}
    BY <1>2 DEF HostReady, HostView
  <2>4. \A d \in v.present \ {c} : tabs[d] = host.tab[d]
    BY <1>2, <1>3 DEF HostView
  <2>5. tabs[c] = t
    OBVIOUS
  <2>6. ASSUME Deliverable, t # NoTab
        PROVE  rivals = {}
    BY <1>3, <1>4, <2>4, <2>5, <2>6
  <2>7. Deliverable /\ ts[c] # NoTab => rivals = {}
    BY <2>6
  <2> HIDE DEF tabs, E, ts, arrived
  <2>8. Deliverable => arrived.refused = {}
    BY <1>3, <2>3, <2>7
  <2>9. QED
    BY <2>2, <2>8
<1>6. QED
  BY <1>1, <1>5 DEF HostCount, HostView, NoRivalArrival

LEMMA AttachIsNoRival ==
  ASSUME EdgeInv, NEW u \in Uplink, UplinkAttaches(u)
  PROVE  NoRivalArrival'
<1> USE DEF EdgeInv, TypeInv, TypeOK, HubTypeOK
<1>1. host'.refused = {c \in clients : tab[c] # NoTab /\
        {d \in clients \ {c} : tab[d] = tab[c]} # {}}
  <2> DEFINE v == HostCount(FreshHost, Cardinality(clients))
             tabs == [c \in Client |-> IF c \in clients THEN tab[c] ELSE v.tab[c]]
  <2>1. v.present = {} /\ v.refused = {}
    BY DEF HostCount, FreshHost
  <2>2. host'.refused = v.refused \cup {c \in clients : tab[c] # NoTab /\
          {d \in (v.present \cup clients) \ {c} : tabs[d] = tabs[c]} # {}}
    <3> HIDE DEF v
    <3>1. host' = HostReady(v, clients, tab)
      BY DEF UplinkAttaches, AttachUplink, v
    <3>2. v \in HostView
      <4>1. FreshHost \in HostView
        BY DEF FreshHost, HostView
      <4>2. Cardinality(clients) \in Nat
        BY CountIsNat
      <4>3. QED
        BY <4>1, <4>2, CountType DEF v
    <3>3. QED
      BY <3>1, <3>2 DEF HostReady, HostView
  <2>3. \A c \in clients : tabs[c] = tab[c]
    OBVIOUS
  <2> HIDE DEF tabs, v
  <2>4. QED
    BY <2>1, <2>2, <2>3
<1>2. QED
  BY <1>1 DEF HubSafe, OneHolderPerTab, NoRivalArrival

\* Until a page sends ready again on a connection, no arrival is announced to the
\* host with a token that another present client holds.
THEOREM NoneIsRefused == Spec => [](again \/ NoRivalArrival)
<1>1. Init => NoRivalArrival
  BY DEF Init, HubInit, FreshHost, NoRivalArrival
<1>2. EdgeInv /\ (again \/ RosterInv) /\ (again \/ NoRivalArrival) /\ [Next]_vars =>
        (again \/ NoRivalArrival)'
  <2> SUFFICES ASSUME EdgeInv, again \/ RosterInv, again \/ NoRivalArrival, [Next]_vars, ~again'
               PROVE  NoRivalArrival'
    OBVIOUS
  <2> RosterInv /\ NoRivalArrival
    BY AgainStays
  <2>1. CASE PassesUnnoticed
    BY <2>1 DEF PassesUnnoticed, NoRivalArrival
  <2>2. ASSUME NEW c \in Client,
               ClientJoins(c) \/ (ClientClosed(c) /\ phase[c] = "joined")
        PROVE  NoRivalArrival'
    BY <2>2 DEF ClientJoins, ClientClosed, AddClient, RemoveClient, Tell, HostCount, HostLeft,
       HostView, NoRivalArrival, EdgeInv, TypeInv, TypeOK, HubTypeOK
  <2>3. QED
    BY <2>1, <2>2, StepKinds, AttachIsNoRival, ReadyIsNoRival DEF EdgeInv
<1>3. Spec => [](EdgeInv /\ (again \/ RosterInv))
  BY AlwaysRoster
<1>4. QED
  BY <1>1, <1>2, <1>3, PTL DEF Spec
=============================================================================
