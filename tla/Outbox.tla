------------------------------- MODULE Outbox -------------------------------
(***************************************************************************)
(* What the browser page does with a prompt (web/chat.html): written to    *)
(* the socket, held in the tab's outbox while there is nobody to take it,  *)
(* flushed once the host confirms the conversation again, or handed back   *)
(* to the composer.  A prompt carries a submissionId, which the relay      *)
(* copies onto the frame that bounces it (src/server.ts).                  *)
(*                                                                         *)
(* The page's socket is two channels: up to the relay, down to the page.   *)
(* The host is not this repository's: it is whatever may answer.           *)
(***************************************************************************)
EXTENDS Naturals, SequencesExt

CONSTANTS
  Prompt,     \* prompts a person types, each with an id of its own
  MaxDials,   \* bound: sockets the page opens
  MaxFlaps,   \* bound: times the host's uplink is down
  MaxMoves    \* bound: frames that are no prompt, changes of conversation, reloads

None == 0        \* no conversation
NoPrompt == "none"

ASSUME OutboxAssumption ==
  /\ NoPrompt \notin Prompt
  /\ {MaxDials, MaxFlaps, MaxMoves} \subseteq Nat /\ MaxFlaps > 0

VARIABLES
  sock,        \* the page's socket: "shut" or "open"
  outbox,      \* prompts held in the tab, in order
  live,        \* prompts written to a socket and not answered yet
  composer,    \* prompts whose text is the person's again
  remembered,  \* the tab's conversation
  target,      \* the conversation being restored
  complete,    \* a restore has ended and none is under way
  ever,        \* a restore has ended since the page was loaded
  marked,      \* the page is marked as restoring
  offline,     \* "no", "grace", or "offline" once the grace is over
  armed,       \* the restore's fail timer runs
  up, down,    \* frames on their way over the open socket
  late,        \* prompts of sockets that are gone, which the relay may yet route
  uplink,      \* the host's uplink: "up" or "down"
  known,       \* the relay has had this connection's ready
  session,     \* the conversation the host has this connection in
  sessions,    \* how many conversations there have been
  ran,         \* history: how often the host took each prompt
  meant,       \* history: the tab's conversation when a prompt was typed, or last held;
               \* none while the tab had asked for another, or the answer was on its way
  held,        \* history: prompts that have been in the outbox
  astray,      \* history: of those, the ones the host took in another conversation
  over,        \* history: prompts refused by a limit, or forgotten unanswered
  swayed,      \* history: the tab's conversation changed, or another was asked for,
               \* during a restore or while a prompt waited
  dials, flaps, moves

tab == <<outbox, live, composer, remembered>>
restore == <<target, complete, ever, marked, offline, armed>>
host == <<uplink, session, sessions>>
taken == <<ran, astray>>
vars == <<sock, tab, restore, up, down, late, known, host, taken, meant, held, swayed, over,
          dials, flaps, moves>>

Frame(type, p, id) == [type |-> type, p |-> p, id |-> id, at |-> flaps]
Says(type) == Frame(type, NoPrompt, None)

\* at: how often the uplink had dropped when the host said what the frame relies on.
Written(p, at) == [type |-> "prompt", p |-> p, id |-> None, at |-> at]

PromptsOf(frames) == {f.p : f \in ToSet(frames)} \ {NoPrompt}

\* The conversation the tab is in, or is going back to.
Tab == IF target = None THEN remembered ELSE target

\* A prompt waits for a host, or for its answer.
Waits == live # {} \/ outbox # <<>>

\* Nothing on its way is about another conversation: the tab has asked for none, and
\* the host has answered with none.
Settled ==
  /\ \A f \in ToSet(up) : f.type # "switch" /\ (f.type = "resume" => f.id = Tab)
  /\ \A f \in ToSet(down) : f.type = "session" => f.id = Tab

\* The history, when the prompts of P are meant for where the tab is.
Means(P) ==
  [p \in DOMAIN meant \cup P |->
     IF p \notin P THEN meant[p] ELSE IF Settled THEN Tab ELSE None]

Typed == ToSet(outbox) \cup live \cup composer \cup over
           \cup late \cup {p \in Prompt : ran[p] > 0}

TypeOK ==
  /\ sock \in {"shut", "open"} /\ uplink \in {"up", "down"}
  /\ ToSet(outbox) \cup live \cup composer \cup late \cup held \cup astray
       \cup over \subseteq Prompt
  /\ {remembered, target, session} \subseteq 0..sessions
  /\ {complete, ever, marked, armed, known} \subseteq BOOLEAN
  /\ offline \in {"no", "grace", "offline"}
  /\ PromptsOf(up) \cup PromptsOf(down) \subseteq Prompt
  /\ ran \in [Prompt -> Nat]
  /\ DOMAIN meant \subseteq Prompt /\ Range(meant) \subseteq 0..sessions
  /\ dials \in 0..MaxDials /\ flaps \in 0..MaxFlaps /\ moves \in 0..MaxMoves

\* A page loaded afresh or again, in a tab that has a conversation or has none.
Init ==
  /\ sock = "shut"
  /\ outbox = <<>> /\ live = {} /\ composer = {}
  /\ remembered \in {None, 1}
  /\ target = None /\ complete = FALSE /\ ever = FALSE /\ marked = FALSE
  /\ offline = "no" /\ armed = FALSE
  /\ up = <<>> /\ down = <<>> /\ late = {} /\ known = FALSE
  /\ uplink \in {"up", "down"} /\ session = None /\ sessions = 1
  /\ ran = [p \in Prompt |-> 0] /\ meant = <<>>
  /\ held = {} /\ astray = {} /\ swayed = FALSE /\ over = {}
  /\ dials = 0 /\ flaps = (IF uplink = "up" THEN 0 ELSE 1) /\ moves = 0

(***************************************************************************)
(* Restores.  left is what is unanswered when one begins or ends.          *)
(***************************************************************************)
\* finishIdentityRestore, forgetUnbouncedLiveOutbound
Finishes(left) ==
  /\ target' = None /\ complete' = TRUE /\ ever' = TRUE /\ marked' = FALSE /\ armed' = FALSE
  /\ over' = over \cup left

\* abandonIdentityRestore, reportOutboxFailure
Abandons(entries, left) ==
  /\ Finishes(left)
  /\ composer' = composer \cup ToSet(entries)
  /\ outbox' = <<>> /\ live' = {}

\* flushRestoredOutbox: cleared and saved, then written.
Flushes(frames) ==
  /\ Finishes(live)
  /\ outbox' = <<>> /\ live' = ToSet(outbox)
  /\ up' = up \o frames \o [i \in DOMAIN outbox |-> Written(outbox[i], Head(down).at)]
  /\ UNCHANGED composer

\* beginIdentityRestore; its fail timer runs while the host is thought to be there.
Begins(entries, left, timed) ==
  IF remembered = None
  THEN Abandons(entries, left)
  ELSE /\ target' = remembered /\ complete' = FALSE /\ marked' = TRUE /\ armed' = timed
       /\ outbox' = entries /\ live' = left
       /\ UNCHANGED <<ever, composer, over>>

(***************************************************************************)
(* The person.                                                             *)
(***************************************************************************)
\* liveSendDisposition
CanSend == sock = "open" /\ complete /\ offline = "no"

Types(p) ==
  /\ p \notin Typed
  /\ meant' = Means({p})
  /\ \/ /\ CanSend
        /\ live' = live \cup {p} /\ up' = Append(up, Written(p, flaps))
        /\ UNCHANGED <<outbox, held>>
     \/ /\ ~CanSend
        /\ outbox' = Append(outbox, p) /\ held' = held \cup {p}
        /\ UNCHANGED <<live, up>>
  /\ UNCHANGED <<sock, composer, remembered, restore, down, late, known, host, taken,
                 swayed, over, dials, flaps, moves>>

\* A frame with no prompt in it.
Asks ==
  /\ CanSend /\ moves < MaxMoves
  /\ up' = Append(up, Says("ask"))
  /\ moves' = moves + 1
  /\ UNCHANGED <<sock, tab, restore, down, late, known, host, taken, meant, held, swayed, over,
                 dials, flaps>>

\* Another conversation: the one remembered is dropped first, and a restore under way,
\* or an absent host, is waited for no longer.
Switches ==
  /\ sock = "open" /\ moves < MaxMoves
  /\ remembered' = None
  /\ up' = Append(up, Says("switch"))
  /\ moves' = moves + 1
  /\ IF CanSend
     THEN swayed' = (swayed \/ Waits) /\ UNCHANGED <<outbox, live, composer, restore, over>>
     ELSE Abandons(outbox, live) /\ UNCHANGED <<offline, swayed>>
  /\ UNCHANGED <<sock, down, late, known, host, taken, meant, held, dials, flaps>>

PersonStep == Asks \/ Switches \/ \E p \in Prompt : Types(p)

(***************************************************************************)
(* The page's socket.                                                      *)
(***************************************************************************)
\* Open: the host is presumed there, the restore begins, ready goes out.
Dials ==
  /\ sock = "shut" /\ dials < MaxDials
  /\ sock' = "open" /\ dials' = dials + 1
  /\ offline' = "no"
  /\ Begins(outbox, live, TRUE)
  /\ up' = <<Says("ready")>> /\ session' = None
  /\ UNCHANGED <<remembered, down, late, known, uplink, sessions, taken, meant, held, swayed,
                 flaps, moves>>

\* What was written may have reached the relay, in order, or be lost with the socket.
Ends ==
  /\ sock = "open"
  /\ sock' = "shut" /\ up' = <<>> /\ down' = <<>> /\ known' = FALSE
  /\ late' = late \cup PromptsOf(up)
  /\ armed' = FALSE

\* Mutant: what was not answered is held for the next socket.
ClosesAndHolds ==
  /\ Ends
  /\ outbox' = outbox \o SetToSeq(live) /\ live' = {} /\ held' = held \cup live
  /\ UNCHANGED <<composer, remembered, target, complete, ever, marked, offline, host,
                 taken, meant, swayed, over, dials, flaps, moves>>

\* The socket closes; what was not answered is neither held nor given up yet.
Closes ==
  /\ Ends
  /\ UNCHANGED <<tab, target, complete, ever, marked, offline, host, taken, meant, held,
                 swayed, over, dials, flaps, moves>>

\* abandonSocketAndRedial, parkLiveOutboundForReplacement: a socket that answers no
\* probe is given up, and the text of what went over it comes back.
GivesUpSocket ==
  /\ Ends
  /\ composer' = composer \cup live /\ live' = {}
  /\ UNCHANGED <<outbox, remembered, target, complete, ever, marked, offline, host,
                 taken, meant, held, swayed, over, dials, flaps, moves>>

\* A reload keeps what the tab's storage has.
Reloads ==
  /\ Ends /\ moves < MaxMoves
  /\ moves' = moves + 1
  /\ target' = None /\ complete' = FALSE /\ ever' = FALSE /\ marked' = FALSE /\ offline' = "no"
  /\ live' = {} /\ over' = over \cup live
  /\ UNCHANGED <<outbox, composer, remembered, host, taken, meant, held, swayed, dials, flaps>>

SocketStep == Dials \/ Closes \/ GivesUpSocket \/ Reloads

(***************************************************************************)
(* What the page hears.                                                    *)
(***************************************************************************)
Heard == Head(down)
Hears(type) == sock = "open" /\ down # <<>> /\ Heard.type = type /\ down' = Tail(down)
PageOnly == UNCHANGED <<sock, late, known, host, taken, dials, flaps, moves>>

\* beginDeviceOfflineGrace: one probe, when the absence is news.
Probes(frames) ==
  /\ offline' = IF offline = "no" THEN "grace" ELSE offline
  /\ up' = IF offline = "no" THEN Append(frames, Says("ready")) ELSE frames

\* Mutant: the bounce is news of the host, and the prompt it names is done with.
HearsBounceDeaf ==
  /\ Hears("bounce")
  /\ live' = live \ {Heard.p}
  /\ Probes(up) /\ armed' = FALSE
  /\ UNCHANGED <<outbox, composer, remembered, target, complete, ever, marked, meant, held,
                 swayed, over>>
  /\ PageOnly

\* "Device offline": holdLiveOutboundInOutbox, the grace, and the restore is begun
\* again when something is held.
HearsBounce ==
  /\ Hears("bounce")
  /\ LET bounced == live \cap {Heard.p}
         entries == IF bounced = {} THEN outbox ELSE Append(outbox, Heard.p)
     IN /\ held' = held \cup bounced
        /\ meant' = Means(bounced)
        /\ IF complete /\ entries # <<>>
           THEN Begins(entries, live \ bounced, FALSE)
           ELSE /\ outbox' = entries /\ live' = live \ bounced /\ armed' = FALSE
                /\ UNCHANGED <<target, complete, ever, marked, composer, over>>
  /\ Probes(up)
  /\ UNCHANGED <<remembered, swayed>>
  /\ PageOnly

\* Mutant: the timer that the grace stopped stays stopped.
AliveUnarmed == offline' = "no" /\ UNCHANGED armed

\* applyInboundDeviceAlive: any other frame is proof of the host.
Alive == offline' = "no" /\ armed' = (target # None)

\* chat.js remembers the conversation a frame names, unless it is empty.
Remembers(id) == remembered' \in {id, None}

\* Mutant: whichever conversation the host has will do.
ConfirmsAny(id, frames) ==
  IF target # None
  THEN Flushes(frames) /\ remembered' = id /\ UNCHANGED swayed
  ELSE /\ up' = up \o frames
       /\ UNCHANGED <<outbox, live, composer, target, complete, ever, marked, armed, swayed, over>>
       /\ Remembers(id)

\* The page restores as soon as the frame names its target, and lets no other
\* conversation through while it is marked as restoring.
Confirms(id, frames) ==
  IF target # None /\ id = target
  THEN Flushes(frames) /\ Remembers(id) /\ UNCHANGED swayed
  ELSE /\ up' = up \o frames
       /\ armed' = (target # None)
       /\ UNCHANGED <<outbox, live, composer, target, complete, ever, marked, over>>
       /\ IF target # None /\ marked
          THEN UNCHANGED <<remembered, swayed>>
          ELSE /\ Remembers(id)
               /\ swayed' = \/ swayed
                            \/ /\ Tab \notin {None, remembered'}
                               /\ target # None \/ Waits

HearsSession ==
  /\ Hears("session")
  /\ offline' = "no" /\ Confirms(Heard.id, <<>>)
  /\ UNCHANGED <<meant, held>> /\ PageOnly

\* A snapshot: chat.js asks for the remembered conversation, then the page sees which
\* one the host has.  To ask for one that is not restored is to give the restore up.
HearsSnapshot ==
  /\ Hears("snapshot")
  /\ offline' = "no"
  /\ LET resume == IF remembered = None THEN <<>> ELSE <<Frame("resume", NoPrompt, remembered)>>
     IN IF target # None /\ remembered \notin {None, target}
        THEN /\ Abandons(outbox, live) /\ up' = up \o resume /\ Remembers(Heard.id)
             /\ UNCHANGED swayed
        ELSE Confirms(Heard.id, resume)
  /\ UNCHANGED <<meant, held>> /\ PageOnly

\* resumeFailed: chat.js forgets that conversation, the page its restore.
HearsRefused ==
  /\ Hears("refused")
  /\ offline' = "no"
  /\ remembered' = IF remembered = Heard.id THEN None ELSE remembered
  /\ swayed' = (swayed \/ (remembered = Heard.id /\ target # Heard.id /\ Waits))
  /\ IF target = Heard.id
     THEN Abandons(outbox, live)
     ELSE /\ armed' = (target # None)
          /\ UNCHANGED <<outbox, live, composer, target, complete, ever, marked, over>>
  /\ UNCHANGED <<up, meant, held>> /\ PageOnly

\* An error of the host's; if it is all that a returning host says, it is asked again.
HearsError ==
  /\ Hears("error")
  /\ Alive
  /\ up' = IF offline # "no" /\ target # None THEN Append(up, Says("ready")) ELSE up
  /\ UNCHANGED <<outbox, live, composer, remembered, target, complete, ever, marked, meant, held,
                 swayed, over>>
  /\ PageOnly

\* acknowledgeLiveOutbound; no id is in the outbox twice.
HearsAck ==
  /\ Hears("ack")
  /\ Alive
  /\ live' = live \ {Heard.p}
  /\ outbox' = RemoveFirst(outbox, Heard.p)
  /\ UNCHANGED <<composer, remembered, target, complete, ever, marked, up, meant, held,
                 swayed, over>>
  /\ PageOnly

\* A limit's bounce: not to be tried again.
HearsLimit ==
  /\ Hears("limit")
  /\ Alive
  /\ live' = live \ {Heard.p} /\ over' = over \cup {Heard.p}
  /\ UNCHANGED <<outbox, composer, remembered, target, complete, ever, marked, up, meant, held,
                 swayed>>
  /\ PageOnly

HearStep ==
  \/ HearsBounce \/ HearsSession \/ HearsSnapshot \/ HearsRefused
  \/ HearsError \/ HearsAck \/ HearsLimit

(***************************************************************************)
(* The page's timers.                                                      *)
(***************************************************************************)
\* handlePersistentDeviceOffline: the mark goes; a restore begun again for nothing ends.
GraceEnds ==
  /\ offline = "grace"
  /\ offline' = "offline"
  /\ IF ever /\ ~complete /\ outbox = <<>>
     THEN Finishes(live) /\ live' = {}
     ELSE marked' = FALSE /\ armed' = FALSE /\ UNCHANGED <<live, target, complete, ever, over>>
  /\ UNCHANGED <<outbox, composer, remembered, up, down, meant, held, swayed>> /\ PageOnly

\* The host had its chance to confirm.
FailTimer ==
  /\ armed /\ sock = "open" /\ offline = "no" /\ target # None
  /\ Abandons(outbox, live)
  /\ UNCHANGED <<remembered, offline, up, down, meant, held, swayed>> /\ PageOnly

(***************************************************************************)
(* The relay and the host.                                                 *)
(***************************************************************************)
Sent == Head(up)
Routes(type) == sock = "open" /\ up # <<>> /\ Sent.type = type /\ up' = Tail(up)
Answers(frame) == down' = Append(down, frame)
HostOnly == UNCHANGED <<sock, tab, restore, late, meant, held, swayed, over, dials, flaps, moves>>

\* A connection new to the host is bound to a conversation of its own.
Binds(new) ==
  /\ session' = IF new THEN sessions + 1 ELSE session
  /\ sessions' = IF new THEN sessions + 1 ELSE sessions

\* A host shows where it is, or has nothing but an error.
Shows == Answers(Frame("snapshot", NoPrompt, session')) \/ Answers(Says("error"))

\* No uplink: the relay answers; it keeps what a ready says.
Bounces ==
  /\ uplink = "down" /\ sock = "open" /\ up # <<>> /\ up' = Tail(up)
  /\ known' = (known \/ Sent.type = "ready")
  /\ Answers(Frame("bounce", Sent.p, None))
  /\ UNCHANGED <<host, taken>> /\ HostOnly

RoutesReady ==
  /\ uplink = "up" /\ Routes("ready")
  /\ known' = TRUE
  /\ Binds(session = None) /\ Shows
  /\ UNCHANGED <<uplink, taken>> /\ HostOnly

RoutesAsk ==
  /\ uplink = "up" /\ Routes("ask")
  /\ Answers(Says("error")) \/ UNCHANGED down
  /\ UNCHANGED <<known, host, taken>> /\ HostOnly

\* Opened, refused by name, or, by an old host, ignored.
RoutesResume ==
  /\ uplink = "up" /\ Routes("resume")
  /\ \/ Answers(Frame("session", NoPrompt, Sent.id)) /\ session' = Sent.id
     \/ Answers(Frame("refused", NoPrompt, Sent.id)) /\ UNCHANGED session
     \/ UNCHANGED <<down, session>>
  /\ UNCHANGED <<known, uplink, sessions, taken>> /\ HostOnly

RoutesSwitch ==
  /\ uplink = "up" /\ Routes("switch")
  /\ Binds(TRUE) /\ Answers(Frame("session", NoPrompt, session'))
  /\ UNCHANGED <<known, uplink, taken>> /\ HostOnly

\* The host takes it, in the conversation it has the connection in.  Where a held one
\* ends is the page's doing unless the uplink has dropped since the host confirmed.
RoutesPrompt ==
  /\ uplink = "up" /\ Routes("prompt")
  /\ \/ /\ ran' = [ran EXCEPT ![Sent.p] = @ + 1]
        /\ astray' = IF /\ Sent.p \in held /\ Sent.at = flaps
                        /\ meant[Sent.p] \notin {None, session}
                     THEN astray \cup {Sent.p} ELSE astray
        /\ Answers(Frame("ack", Sent.p, None))
     \/ /\ Answers(Frame("limit", Sent.p, None))
        /\ UNCHANGED <<ran, astray>>
  /\ UNCHANGED <<known, host>> /\ HostOnly

\* A prompt of a socket that is gone: routed all the same, or lost.
RoutesLate(p) ==
  /\ p \in late
  /\ late' = late \ {p}
  /\ \/ uplink = "up" /\ ran' = [ran EXCEPT ![p] = @ + 1] /\ UNCHANGED over
     \/ over' = over \cup {p} /\ UNCHANGED ran
  /\ UNCHANGED <<sock, tab, restore, up, down, known, host, astray, meant, held, swayed,
                 dials, flaps, moves>>

UplinkDrops ==
  /\ uplink = "up" /\ flaps < MaxFlaps
  /\ uplink' = "down" /\ flaps' = flaps + 1
  /\ UNCHANGED <<sock, tab, restore, up, down, late, known, session, sessions, taken, meant,
                 held, swayed, over, dials, moves>>

\* The host is told of the connections that have joined, which is before their ready,
\* and shows each where it is.  A host that restarted has forgotten where that was.
UplinkReturns ==
  /\ uplink = "down" /\ uplink' = "up"
  /\ \/ sock = "open" /\ (Binds(TRUE) \/ (session # None /\ Binds(FALSE))) /\ Shows
     \/ ~known /\ session' = None /\ UNCHANGED <<sessions, down>>
  /\ UNCHANGED <<up, known, taken>> /\ HostOnly

RelayStep ==
  \/ Bounces \/ RoutesReady \/ RoutesAsk \/ RoutesResume \/ RoutesSwitch \/ RoutesPrompt

\* Bound: the page opens no more sockets.
Rests == sock = "shut" /\ dials = MaxDials /\ UNCHANGED vars

Next ==
  \/ PersonStep \/ SocketStep \/ HearStep \/ GraceEnds \/ FailTimer
  \/ RelayStep \/ UplinkDrops \/ UplinkReturns
  \/ \E p \in Prompt : RoutesLate(p)
  \/ Rests

Spec == Init /\ [][Next]_vars

\* Frames arrive and are read, timers fire; nothing makes a person type, a socket
\* open or a host come back.
Fairness ==
  /\ WF_vars(HearStep) /\ WF_vars(RelayStep) /\ WF_vars(GraceEnds) /\ WF_vars(FailTimer)

FairSpec == Spec /\ Fairness

(***************************************************************************)
(* Properties.                                                             *)
(***************************************************************************)
\* A prompt is taken once: it is held again only when the relay has said that it was not
\* routed, whatever sockets, uplinks and restores come between (chat.html:1561-1580).
RunsOnce == \A p \in Prompt : ran[p] <= 1

\* No prompt vanishes: what was typed is held, on its way, with the person again, taken,
\* refused by a limit, or was written to a socket and forgotten without an answer
\* (chat.html:3861-3871).
Accounted ==
  \A p \in DOMAIN meant : p \in Typed \cup PromptsOf(up)

\* A restore ends once the page has a socket and the host an uplink for good, whatever
\* the host answers or fails to answer (chat.html:3602-3608).
RestoreEnds == <>[](sock = "open" /\ uplink = "up") => <>[]complete

\* A held prompt runs in the conversation the tab had when it was held, unless the tab
\* left that conversation while the prompt waited: a flush goes where the host has just
\* said that it is (chat.html:3866-3871).  The tab leaves by a person's choice, by a
\* refusal of the conversation, and by the page's own doing: after the grace it is no
\* longer marked as restoring and remembers what the host shows first; a prompt not
\* flushed when the host returns is restored with whatever is remembered next.
HeldRunsWhereMeant == astray # {} => swayed

\* What is held is sent, or handed back, once the page has a socket and the host an
\* uplink for good: "saved and will be sent when VS Code reconnects" (chat.html:3326-3328).
OutboxDrains == <>[](sock = "open" /\ uplink = "up") => <>[](outbox = <<>>)
=============================================================================
