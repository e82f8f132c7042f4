------------------------------ MODULE MCOutbox ------------------------------
(***************************************************************************)
(* The page's outbox, and next to it the lane of one of its connections    *)
(* through the relay, for TLC: they share no state.  A behaviour is one of *)
(* a single part: part says of which, and the fairness a liveness property *)
(* needs is that of its part.                                              *)
(***************************************************************************)
EXTENDS Outbox

CONSTANTS Connection, Token, NoToken, Wire, NoWire, Fickle    \* Relay

VARIABLES wire, hello, clients, tokens, view, socket, phase, queue, awaiting, sent, delivered,
          synced, row, again
VARIABLE part

relayVars == <<wire, hello, clients, tokens, view, socket, phase, queue, awaiting, sent, delivered,
               synced, row, again>>

\* Every connection presents a token and sends three frames, so that one can wait
\* behind another that waits; none is dropped before it is admitted.
R == INSTANCE RelayProofs
  WITH Client <- Connection, Tab <- Token, NoTab <- NoToken, Uplink <- Wire, NoUplink <- NoWire,
       TabOf <- [c \in Connection |-> CHOOSE t \in Token : TRUE],
       MaxFrames <- [c \in Connection |-> 3], MaxPending <- 3, Vanishing <- Fickle,
       uplink <- wire, tab <- tokens, host <- view

\* What the lane assumes of its constants.
ASSUME LaneAssumption == R!HubAssumption /\ R!RelayAssumption

\* While the lane moves the page rests, in one of its initial states.
BothInit ==
  /\ Init /\ R!Init /\ part \in {"page", "relay"}
  /\ part = "relay" => remembered = None /\ uplink = "up"

\* The connections are spent and the device is removed.
AllOver ==
  row = "disconnected" /\ \A s \in Connection \cup Wire : phase[s] = "closed"

BothNext ==
  /\ UNCHANGED part
  /\ \/ part = "page" /\ Next /\ UNCHANGED relayVars
     \/ part = "relay" /\ R!Next /\ UNCHANGED vars
     \/ part = "relay" /\ AllOver /\ UNCHANGED <<vars, relayVars>>

Both == BothInit /\ [][BothNext]_<<vars, relayVars, part>>

\* The liveness of Outbox.
RestoresEnd == part = "page" /\ Fairness => RestoreEnds

\* The properties of Relay, which says what each is about.
FramesInOrder == R!FramesInOrder
EventuallySynced == part = "relay" /\ R!Fairness => R!EventuallySynced
=============================================================================
