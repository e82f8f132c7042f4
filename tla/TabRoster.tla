---------------------------- MODULE TabRoster ----------------------------
(***************************************************************************)
(* What the relay promises the host about browser tabs, with no hub, no    *)
(* sockets and no queues: a roster of clients, each perhaps holding a tab. *)
(*   - no two members hold the same tab;                                   *)
(*   - a newcomer with a tab displaces whoever held it, in one step;       *)
(*   - a client that has gone never returns, on this link or a later one;  *)
(*   - while the link is down the roster is empty, and when it comes back  *)
(*     the host gets a whole roster at once.                               *)
(***************************************************************************)
CONSTANTS Client, Tab, NoTab

VARIABLES
  members,   \* clients the host counts as present
  holds,     \* the tab each of them holds
  gone       \* clients that will not be members again

rosterVars == <<members, holds, gone>>

Nobody == [c \in Client |-> NoTab]

Holders(t) == {c \in members : t # NoTab /\ holds[c] = t}

DistinctTabs(C, h) ==
  \A c, d \in C : c # d /\ h[c] = h[d] => h[c] = NoTab

\* Clients go that are not, or no longer, members.
GoUnseen == \E C \in SUBSET (Client \ members) : gone' = gone \cup C

Arrive(c, t) ==
  LET displaced == Holders(t) \ {c}
  IN /\ c \notin gone
     /\ members' = (members \ displaced) \cup {c}
     /\ holds' = [d \in Client |-> IF d = c THEN t
                                   ELSE IF d \in displaced THEN NoTab
                                   ELSE holds[d]]
     /\ \E C \in SUBSET (Client \ (members \cup {c})) :
          gone' = gone \cup displaced \cup C

Depart(c) ==
  /\ c \in members
  /\ members' = members \ {c}
  /\ holds' = [holds EXCEPT ![c] = NoTab]
  /\ gone' = gone \cup {c}

LinkDown ==
  /\ members' = {}
  /\ holds' = Nobody
  /\ GoUnseen

LinkUp ==
  /\ members = {}
  /\ members' \in SUBSET (Client \ gone)
  /\ holds' \in [Client -> Tab \cup {NoTab}]
  /\ DistinctTabs(members', holds')
  /\ \A c \in Client \ members' : holds'[c] = NoTab
  /\ UNCHANGED gone

Unseen == UNCHANGED <<members, holds>> /\ GoUnseen

Init == members = {} /\ holds = Nobody /\ gone = {}

Next ==
  \/ \E c \in Client, t \in Tab \cup {NoTab} : Arrive(c, t)
  \/ \E c \in Client : Depart(c)
  \/ LinkDown \/ LinkUp \/ Unseen

Spec == Init /\ [][Next]_rosterVars
=============================================================================
