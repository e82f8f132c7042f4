---------------------------- MODULE OutboxProofs ----------------------------
(***************************************************************************)
(* Proofs about Outbox, for any number of prompts, and any bounds on       *)
(* sockets, absences of the host and moves of the person; and that what    *)
(* RelayProofs proves of the lane holds where the two are put together.    *)
(***************************************************************************)
EXTENDS MCOutbox, SequenceTheorems, TLAPS

(***************************************************************************)
(* Sequences, and what is in them.                                         *)
(***************************************************************************)
LEMMA ToSetEmpty == ToSet(<<>>) = {} /\ PromptsOf(<<>>) = {}
  BY DEF ToSet, PromptsOf

LEMMA ToSetType ==
  ASSUME NEW S, NEW s \in Seq(S)
  PROVE  ToSet(s) \subseteq S
  BY DEF ToSet

LEMMA ToSetAppend ==
  ASSUME NEW S, NEW s \in Seq(S), NEW e \in S
  PROVE  Append(s, e) \in Seq(S) /\ ToSet(Append(s, e)) = ToSet(s) \cup {e}
<1> DEFINE t == Append(s, e)
<1>1. /\ DOMAIN t = 1..Len(s) + 1 /\ DOMAIN s = 1..Len(s) /\ Len(s) \in Nat
      /\ \A i \in 1..Len(s) : t[i] = s[i]
      /\ t[Len(s) + 1] = e /\ t \in Seq(S)
  OBVIOUS
<1> HIDE DEF t
<1>2. \A x \in ToSet(t) : x \in ToSet(s) \cup {e}
  BY <1>1 DEF ToSet
<1>3. \A x \in ToSet(s) : x \in ToSet(t)
  BY <1>1 DEF ToSet
<1>4. e \in ToSet(t)
  BY <1>1 DEF ToSet
<1> QED
  BY <1>1, <1>2, <1>3, <1>4 DEF t

LEMMA ToSetTail ==
  ASSUME NEW S, NEW s \in Seq(S), s # <<>>
  PROVE  /\ Head(s) \in S /\ Tail(s) \in Seq(S)
         /\ ToSet(s) = ToSet(Tail(s)) \cup {Head(s)}
<1> DEFINE t == Tail(s)
<1>1. /\ Len(s) \in Nat \ {0} /\ DOMAIN s = 1..Len(s) /\ DOMAIN t = 1..Len(s) - 1
      /\ \A i \in 1..Len(s) - 1 : t[i] = s[i + 1]
      /\ Head(s) = s[1] /\ Head(s) \in S /\ t \in Seq(S)
  OBVIOUS
<1> HIDE DEF t
<1>2. \A x \in ToSet(t) : x \in ToSet(s)
  <2> SUFFICES ASSUME NEW i \in 1..Len(s) - 1 PROVE t[i] \in ToSet(s)
    BY <1>1 DEF ToSet
  <2>1. t[i] = s[i + 1] /\ i + 1 \in 1..Len(s)
    BY <1>1
  <2> QED
    BY <1>1, <2>1 DEF ToSet
<1>3. \A x \in ToSet(s) : x \in ToSet(t) \cup {Head(s)}
  <2> SUFFICES ASSUME NEW i \in 1..Len(s), i # 1 PROVE s[i] \in ToSet(t)
    BY <1>1 DEF ToSet
  <2>1. i - 1 \in 1..Len(s) - 1 /\ t[i - 1] = s[i]
    BY <1>1
  <2> QED
    BY <1>1, <2>1 DEF ToSet
<1>4. Head(s) \in ToSet(s)
  BY <1>1 DEF ToSet
<1> QED
  BY <1>1, <1>2, <1>3, <1>4 DEF t

LEMMA ToSetConcat ==
  ASSUME NEW S, NEW s \in Seq(S), NEW t \in Seq(S)
  PROVE  s \o t \in Seq(S) /\ ToSet(s \o t) = ToSet(s) \cup ToSet(t)
<1>1. s \o t \in Seq(S)
  BY ConcatProperties
<1>2. Range(s \o t) = Range(s) \cup Range(t)
  BY RangeConcatenation
<1>3. \A u \in {s, t, s \o t} : Range(u) = ToSet(u)
  BY DEF Range, ToSet
<1> QED
  BY <1>1, <1>2, <1>3

\* No prompt is twice on its way in a sequence of frames, or twice in the outbox.
Once(frames) ==
  \A i, j \in 1..Len(frames) :
    frames[i].p \in Prompt /\ frames[i].p = frames[j].p => i = j

Distinct(s) == \A i, j \in 1..Len(s) : s[i] = s[j] => i = j

LEMMA PromptsIn ==
  ASSUME NEW s, NEW f \in ToSet(s), f.p \in Prompt
  PROVE  f.p \in PromptsOf(s)
  BY OutboxAssumption DEF PromptsOf

LEMMA OnceAppend ==
  ASSUME NEW S, NEW s \in Seq(S), NEW e \in S, Once(s), e.p \notin PromptsOf(s)
  PROVE  Once(Append(s, e))
<1> DEFINE t == Append(s, e)
<1>1. /\ Len(t) = Len(s) + 1 /\ Len(s) \in Nat
      /\ \A i \in 1..Len(s) : t[i] = s[i] /\ s[i] \in ToSet(s)
      /\ t[Len(s) + 1] = e
  BY DEF ToSet
<1>2. \A i \in 1..Len(s) : s[i].p \in Prompt => s[i].p # e.p
  BY <1>1, PromptsIn
<1> HIDE DEF t
<1>3. Once(t)
  BY <1>1, <1>2 DEF Once
<1> QED
  BY <1>3 DEF t

LEMMA OnceTail ==
  ASSUME NEW S, NEW s \in Seq(S), s # <<>>, Once(s)
  PROVE  /\ Once(Tail(s))
         /\ Head(s).p \in Prompt => Head(s).p \notin PromptsOf(Tail(s))
<1> DEFINE t == Tail(s)
<1>1. /\ Len(s) \in Nat \ {0} /\ Len(t) = Len(s) - 1 /\ DOMAIN t = 1..Len(s) - 1
      /\ \A i \in 1..Len(s) - 1 : t[i] = s[i + 1] /\ i + 1 \in 1..Len(s)
      /\ Head(s) = s[1]
  OBVIOUS
<1> HIDE DEF t
<1>2. Once(t)
  <2> SUFFICES ASSUME NEW i \in 1..Len(s) - 1, NEW j \in 1..Len(s) - 1,
                      t[i].p \in Prompt, t[i].p = t[j].p
               PROVE  i = j
    BY <1>1 DEF Once
  <2>1. i + 1 = j + 1
    BY <1>1 DEF Once
  <2> QED
    BY <2>1
<1>3. ASSUME NEW f \in ToSet(t), Head(s).p \in Prompt PROVE f.p # Head(s).p
  <2>1. PICK i \in 1..Len(s) - 1 : f = s[i + 1] /\ i + 1 \in 1..Len(s)
    BY <1>1 DEF ToSet
  <2> QED
    BY <1>1, <1>3, <2>1 DEF Once
<1> QED
  BY <1>2, <1>3 DEF t, PromptsOf

LEMMA OnceConcat ==
  ASSUME NEW S, NEW s \in Seq(S), NEW t \in Seq(S), Once(s), Once(t),
         PromptsOf(s) \cap PromptsOf(t) = {}
  PROVE  Once(s \o t)
<1> DEFINE u == s \o t
<1>1. /\ Len(u) = Len(s) + Len(t) /\ Len(s) \in Nat /\ Len(t) \in Nat
      /\ \A i \in 1..Len(s) + Len(t) : u[i] = IF i <= Len(s) THEN s[i] ELSE t[i - Len(s)]
  BY ConcatProperties
<1>2. /\ \A i \in 1..Len(s) : s[i] \in ToSet(s)
      /\ \A i \in 1..Len(t) : t[i] \in ToSet(t)
  BY DEF ToSet
<1>3. \A i \in 1..Len(s), j \in 1..Len(t) : s[i].p \in Prompt => s[i].p # t[j].p
  BY <1>2, PromptsIn
<1> HIDE DEF u
<1>4. ASSUME NEW i \in 1..Len(u), NEW j \in 1..Len(u), u[i].p \in Prompt, u[i].p = u[j].p
      PROVE  i = j
  <2>1. CASE i <= Len(s) /\ j <= Len(s)
    BY <1>1, <1>4, <2>1 DEF Once
  <2>2. CASE i > Len(s) /\ j > Len(s)
    <3>1. i - Len(s) \in 1..Len(t) /\ j - Len(s) \in 1..Len(t)
          /\ u[i] = t[i - Len(s)] /\ u[j] = t[j - Len(s)]
      BY <1>1, <2>2
    <3>2. i - Len(s) = j - Len(s)
      BY <1>4, <3>1 DEF Once
    <3> QED
      BY <1>1, <3>2
  <2>3. CASE i <= Len(s) /\ j > Len(s)
    BY <1>1, <1>3, <1>4, <2>3
  <2>4. CASE i > Len(s) /\ j <= Len(s)
    BY <1>1, <1>3, <1>4, <2>4
  <2> QED
    BY <1>1, <2>1, <2>2, <2>3, <2>4
<1> QED
  BY <1>4 DEF Once, u

LEMMA DistinctAppend ==
  ASSUME NEW S, NEW s \in Seq(S), NEW e \in S, Distinct(s), e \notin ToSet(s)
  PROVE  Distinct(Append(s, e))
<1>1. \A i \in 1..Len(s) : s[i] \in ToSet(s)
  BY DEF ToSet
<1> QED
  BY <1>1 DEF Distinct

LEMMA RemovesNone ==
  ASSUME NEW S, NEW s \in Seq(S), NEW e, e \notin ToSet(s)
  PROVE  RemoveFirst(s, e) = s
  BY DEF ToSet, RemoveFirst

(***************************************************************************)
(* Frames, and types.                                                      *)
(***************************************************************************)
\* What the page sends names a prompt when it is one.
SentFrame ==
  {f \in [type : {"prompt", "ask", "switch", "ready", "resume"},
          p : Prompt \cup {NoPrompt}, id : Nat, at : Nat] :
     f.type = "prompt" <=> f.p \in Prompt}

\* What it hears names one when it answers one.
HeardFrame ==
  {f \in [type : {"bounce", "session", "snapshot", "refused", "error", "ack", "limit"},
          p : Prompt \cup {NoPrompt}, id : Nat, at : Nat] :
     /\ f.type \in {"ack", "limit"} => f.p \in Prompt
     /\ f.p \in Prompt => f.type \in {"ack", "limit", "bounce"}}

\* No frame names a conversation, or relies on an absence, that has not been.
Dated == \A f \in ToSet(up) \cup ToSet(down) : f.id \in 0..sessions /\ f.at \in 0..flaps

\* What is on its way is on the open socket.
OnSocket == sock = "shut" => up = <<>> /\ down = <<>>

VarsTyped ==
  /\ TypeOK /\ sessions \in Nat
  /\ outbox \in Seq(Prompt) /\ up \in Seq(SentFrame) /\ down \in Seq(HeardFrame)

TypeInv == VarsTyped /\ Dated /\ OnSocket

\* The prompts of the outbox, as a flush writes them.
Letters(at) == [i \in DOMAIN outbox |-> Written(outbox[i], at)]

LEMMA LettersAre ==
  ASSUME outbox \in Seq(Prompt), flaps \in Nat, NEW at \in Nat
  PROVE  /\ Letters(at) \in Seq(SentFrame)
         /\ PromptsOf(Letters(at)) = ToSet(outbox)
         /\ Distinct(outbox) => Once(Letters(at))
         /\ \A f \in ToSet(Letters(at)) :
              f.type = "prompt" /\ f.p \in ToSet(outbox) /\ f.id = None /\ f.at = at
<1>1. /\ DOMAIN outbox = 1..Len(outbox) /\ Len(outbox) \in Nat
      /\ \A i \in 1..Len(outbox) : outbox[i] \in Prompt
  OBVIOUS
<1>2. \A p \in Prompt : Written(p, at) \in SentFrame
  BY DEF Written, SentFrame, None
<1> DEFINE w == Letters(at)
<1>3. /\ w \in Seq(SentFrame) /\ Len(w) = Len(outbox) /\ DOMAIN w = 1..Len(outbox)
      /\ \A i \in 1..Len(outbox) : w[i] = Written(outbox[i], at)
  BY <1>1, <1>2 DEF Letters
<1> HIDE DEF w
<1>4. /\ w \in Seq(SentFrame) /\ Len(w) = Len(outbox) /\ DOMAIN w = 1..Len(outbox)
      /\ \A i \in 1..Len(outbox) :
           w[i].type = "prompt" /\ w[i].p = outbox[i] /\ w[i].id = None /\ w[i].at = at
  BY <1>3 DEF Written
<1>5. \A f \in ToSet(w) :
        f.type = "prompt" /\ f.p \in ToSet(outbox) /\ f.id = None /\ f.at = at
  BY <1>1, <1>4 DEF ToSet
<1>6. \A p \in ToSet(outbox) : p # NoPrompt /\ \E f \in ToSet(w) : f.p = p
  BY <1>1, <1>4, OutboxAssumption DEF ToSet
<1>7. PromptsOf(w) = ToSet(outbox)
  <2>1. PromptsOf(w) \subseteq ToSet(outbox)
    BY <1>5 DEF PromptsOf
  <2>2. ToSet(outbox) \subseteq PromptsOf(w)
    BY <1>6 DEF PromptsOf
  <2> QED
    BY <2>1, <2>2
<1>8. Distinct(outbox) => Once(w)
  BY <1>1, <1>4 DEF Distinct, Once
<1> QED
  BY <1>4, <1>5, <1>7, <1>8 DEF w

LEMMA PromptsTyped ==
  /\ \A s \in Seq(SentFrame) : PromptsOf(s) \subseteq Prompt
  /\ \A s \in Seq(HeardFrame) : PromptsOf(s) \subseteq Prompt
<1>1. ASSUME NEW s \in Seq(SentFrame) PROVE PromptsOf(s) \subseteq Prompt
  <2>1. ToSet(s) \subseteq SentFrame
    BY ToSetType
  <2> QED
    BY <2>1 DEF PromptsOf, SentFrame
<1>2. ASSUME NEW s \in Seq(HeardFrame) PROVE PromptsOf(s) \subseteq Prompt
  <2>1. ToSet(s) \subseteq HeardFrame
    BY ToSetType
  <2> QED
    BY <2>1 DEF PromptsOf, HeardFrame
<1> QED
  BY <1>1, <1>2

LEMMA SentFrames ==
  ASSUME VarsTyped
  PROVE  /\ \A t \in {"ask", "switch", "ready"} : Says(t) \in SentFrame
         /\ Frame("resume", NoPrompt, remembered) \in SentFrame
         /\ \A p \in Prompt : Written(p, flaps) \in SentFrame
<1>1. remembered \in Nat /\ flaps \in Nat /\ sessions \in Nat
  BY OutboxAssumption DEF VarsTyped, TypeOK
<1> QED
  BY <1>1, OutboxAssumption DEF Says, Frame, Written, SentFrame, None

LEMMA HeardFrames ==
  ASSUME flaps \in Nat
  PROVE  /\ \A p \in Prompt \cup {NoPrompt} : Frame("bounce", p, None) \in HeardFrame
         /\ \A p \in Prompt, t \in {"ack", "limit"} : Frame(t, p, None) \in HeardFrame
         /\ \A id \in Nat, t \in {"session", "snapshot", "refused"} :
              Frame(t, NoPrompt, id) \in HeardFrame
         /\ Says("error") \in HeardFrame
  BY OutboxAssumption DEF Says, Frame, HeardFrame, None

\* What is written, heard, answered and routed: the sequences of frames, as sets.
LEMMA FrameGoesUp ==
  ASSUME NEW S, NEW s \in Seq(S), NEW f \in S
  PROVE  /\ Append(s, f) \in Seq(S) /\ ToSet(Append(s, f)) = ToSet(s) \cup {f}
         /\ PromptsOf(Append(s, f)) = PromptsOf(s) \cup ({f.p} \ {NoPrompt})
         /\ Once(s) /\ f.p \notin PromptsOf(s) => Once(Append(s, f))
<1>1. Append(s, f) \in Seq(S) /\ ToSet(Append(s, f)) = ToSet(s) \cup {f}
  BY ToSetAppend
<1>2. Once(s) /\ f.p \notin PromptsOf(s) => Once(Append(s, f))
  BY OnceAppend
<1> QED
  BY <1>1, <1>2 DEF PromptsOf

LEMMA FrameIsRead ==
  ASSUME NEW S, NEW s \in Seq(S), s # <<>>
  PROVE  /\ Head(s) \in S /\ Tail(s) \in Seq(S)
         /\ ToSet(s) = ToSet(Tail(s)) \cup {Head(s)}
         /\ PromptsOf(s) = PromptsOf(Tail(s)) \cup ({Head(s).p} \ {NoPrompt})
         /\ Once(s) => /\ Once(Tail(s))
                       /\ Head(s).p \in Prompt => Head(s).p \notin PromptsOf(Tail(s))
<1>1. /\ Head(s) \in S /\ Tail(s) \in Seq(S)
      /\ ToSet(s) = ToSet(Tail(s)) \cup {Head(s)}
  BY ToSetTail
<1>2. Once(s) => /\ Once(Tail(s))
                 /\ Head(s).p \in Prompt => Head(s).p \notin PromptsOf(Tail(s))
  BY OnceTail
<1> QED
  BY <1>1, <1>2 DEF PromptsOf

LEMMA FramesGoUp ==
  ASSUME NEW S, NEW s \in Seq(S), NEW t \in Seq(S)
  PROVE  /\ s \o t \in Seq(S) /\ ToSet(s \o t) = ToSet(s) \cup ToSet(t)
         /\ PromptsOf(s \o t) = PromptsOf(s) \cup PromptsOf(t)
         /\ Once(s) /\ Once(t) /\ PromptsOf(s) \cap PromptsOf(t) = {} => Once(s \o t)
<1>1. s \o t \in Seq(S) /\ ToSet(s \o t) = ToSet(s) \cup ToSet(t)
  BY ToSetConcat
<1>2. Once(s) /\ Once(t) /\ PromptsOf(s) \cap PromptsOf(t) = {} => Once(s \o t)
  BY OnceConcat
<1> QED
  BY <1>1, <1>2 DEF PromptsOf

(***************************************************************************)
(* Types.                                                                  *)
(***************************************************************************)
\* The page's own state.
PageTyped ==
  /\ outbox \in Seq(Prompt) /\ live \cup composer \cup over \subseteq Prompt
  /\ {remembered, target} \subseteq 0..sessions
  /\ {complete, ever, marked, armed} \subseteq BOOLEAN

\* A sequence of frames that is dated, as of now.
DatedFrames(s) == \A f \in ToSet(s) : f.id \in 0..sessions /\ f.at \in 0..flaps

LEMMA RestoresAreTyped ==
  ASSUME VarsTyped, NEW entries \in Seq(Prompt), NEW left \in SUBSET Prompt,
         NEW timed \in BOOLEAN, UNCHANGED sessions, remembered' \in 0..sessions,
         Begins(entries, left, timed) \/ Abandons(entries, left)
  PROVE  PageTyped'
<1>1. ToSet(entries) \subseteq Prompt /\ <<>> \in Seq(Prompt)
  BY ToSetType
<1>2. None \in 0..sessions /\ remembered \in 0..sessions
  BY DEF VarsTyped, TypeOK, None
<1>3. ASSUME Abandons(entries, left) PROVE PageTyped'
  BY <1>1, <1>2, <1>3 DEF Abandons, Finishes, PageTyped, VarsTyped, TypeOK
<1>4. ASSUME Begins(entries, left, timed), remembered # None
      PROVE  PageTyped'
  <2>1. /\ target' = remembered /\ complete' = FALSE /\ marked' = TRUE /\ armed' = timed
        /\ outbox' = entries /\ live' = left /\ UNCHANGED <<ever, composer, over>>
    BY <1>4 DEF Begins
  <2>2. {complete, ever, marked, armed}' \subseteq BOOLEAN
    BY <2>1, Zenon DEF VarsTyped, TypeOK
  <2> QED
    BY <1>2, <2>1, <2>2 DEF PageTyped, VarsTyped, TypeOK
<1> QED
  BY <1>3, <1>4 DEF Begins

LEMMA ConfirmsIsTyped ==
  ASSUME VarsTyped, Dated, down # <<>>, UNCHANGED <<sessions, flaps>>,
         NEW id \in 0..sessions, NEW frames \in Seq(SentFrame), DatedFrames(frames),
         Confirms(id, frames)
  PROVE  /\ PageTyped'
         /\ up' \in Seq(SentFrame) /\ DatedFrames(up)'
         /\ swayed \in BOOLEAN => swayed' \in BOOLEAN
<1> USE DEF VarsTyped
<1>1. None \in 0..sessions /\ remembered \in 0..sessions /\ flaps \in Nat
  BY OutboxAssumption DEF TypeOK, None
<1>2. up \o frames \in Seq(SentFrame) /\ ToSet(up \o frames) = ToSet(up) \cup ToSet(frames)
  BY FramesGoUp
<1>3. ASSUME target # None, id = target, Flushes(frames), Remembers(id)
      PROVE  /\ PageTyped'
             /\ up' \in Seq(SentFrame) /\ DatedFrames(up)'
  <2> DEFINE at == Head(down).at
  <2> DEFINE u == up \o frames
  <2>1. Head(down) \in HeardFrame /\ Head(down) \in ToSet(down)
    BY FrameIsRead
  <2>2. at \in 0..flaps /\ at \in Nat
    BY <2>1 DEF Dated, HeardFrame
  <2>3. up' = u \o Letters(at)
    BY <1>3 DEF Flushes, Letters
  <2>4. /\ Letters(at) \in Seq(SentFrame)
        /\ \A f \in ToSet(Letters(at)) : f.id = None /\ f.at = at
    BY <1>1, <2>2, LettersAre
  <2>10. u \in Seq(SentFrame) /\ ToSet(u) = ToSet(up) \cup ToSet(frames)
    BY <1>2
  <2> HIDE DEF u
  <2>5. /\ up' \in Seq(SentFrame)
        /\ ToSet(up') = ToSet(up) \cup ToSet(frames) \cup ToSet(Letters(at))
    BY <2>10, <2>3, <2>4, FramesGoUp
  <2>6. DatedFrames(up)'
    BY <1>1, <2>2, <2>4, <2>5 DEF DatedFrames, Dated
  <2>7. ToSet(outbox) \subseteq Prompt /\ <<>> \in Seq(Prompt)
    BY ToSetType
  <2>8. /\ target' = None /\ complete' = TRUE /\ ever' = TRUE /\ marked' = FALSE
        /\ armed' = FALSE /\ over' = over \cup live
        /\ outbox' = <<>> /\ live' = ToSet(outbox) /\ UNCHANGED composer
        /\ remembered' \in {id, None}
    BY <1>3 DEF Flushes, Finishes, Remembers
  <2>9. PageTyped'
    BY <1>1, <2>7, <2>8 DEF PageTyped, TypeOK
  <2> QED
    BY <2>5, <2>6, <2>9
<1>4. ASSUME ~(target # None /\ id = target)
      PROVE  /\ PageTyped'
             /\ up' \in Seq(SentFrame) /\ DatedFrames(up)'
  <2>1. up' = up \o frames /\ remembered' \in {remembered, id, None}
    BY <1>4 DEF Confirms, Remembers
  <2>2. armed' \in BOOLEAN /\ UNCHANGED <<outbox, live, composer, target, complete, ever, marked, over>>
    BY <1>4 DEF Confirms
  <2>3. PageTyped'
    BY <1>1, <2>1, <2>2 DEF PageTyped, TypeOK
  <2>4. DatedFrames(up)'
    BY <1>2, <2>1 DEF DatedFrames, Dated
  <2> QED
    BY <1>2, <2>1, <2>3, <2>4
<1>5. swayed \in BOOLEAN => swayed' \in BOOLEAN
  BY DEF Confirms
<1> QED
  BY <1>3, <1>4, <1>5 DEF Confirms

LEMMA StaysDated ==
  ASSUME TypeInv, sessions' \in {sessions, sessions + 1}, flaps' \in {flaps, flaps + 1},
         \A f \in ToSet(up') \cup ToSet(down') :
           \/ f \in ToSet(up) \cup ToSet(down)
           \/ f.id \in 0..sessions' /\ f.at \in 0..flaps'
  PROVE  Dated'
<1>1. /\ sessions \in Nat /\ flaps \in Nat
      /\ 0..sessions \subseteq 0..sessions' /\ 0..flaps \subseteq 0..flaps'
  BY OutboxAssumption DEF TypeInv, VarsTyped, TypeOK
<1> QED
  BY <1>1 DEF TypeInv, Dated

\* The channels: what goes in is typed and dated, what comes out was.
LEMMA FramesStay ==
  ASSUME TypeInv, Next
  PROVE  /\ up' \in Seq(SentFrame) /\ down' \in Seq(HeardFrame)
         /\ Dated' /\ OnSocket'
<1> USE DEF TypeInv, VarsTyped
<1>1. /\ sessions \in Nat /\ flaps \in Nat /\ None \in 0..sessions /\ None \in Nat
      /\ {remembered, session} \subseteq 0..sessions /\ {remembered, session} \subseteq Nat
  BY OutboxAssumption DEF TypeOK, None
<1>2. /\ \A t \in {"ask", "switch", "ready"} :
           Says(t) \in SentFrame /\ Says(t).id = None /\ Says(t).at = flaps
      /\ LET f == Frame("resume", NoPrompt, remembered)
         IN f \in SentFrame /\ f.id = remembered /\ f.at = flaps
      /\ \A p \in Prompt : LET f == Written(p, flaps)
                           IN f \in SentFrame /\ f.id = None /\ f.at = flaps
  BY SentFrames DEF Says, Frame, Written
<1>3. /\ \A p \in Prompt \cup {NoPrompt} :
           LET f == Frame("bounce", p, None) IN f \in HeardFrame /\ f.id = None /\ f.at = flaps
      /\ \A p \in Prompt, t \in {"ack", "limit"} :
           LET f == Frame(t, p, None) IN f \in HeardFrame /\ f.id = None /\ f.at = flaps
      /\ \A id \in Nat, t \in {"session", "snapshot", "refused"} :
           LET f == Frame(t, NoPrompt, id) IN f \in HeardFrame /\ f.id = id /\ f.at = flaps
      /\ Says("error") \in HeardFrame
  BY <1>1, HeardFrames DEF Frame
<1>4. \A f \in SentFrame :
        Append(up, f) \in Seq(SentFrame) /\ ToSet(Append(up, f)) = ToSet(up) \cup {f}
  BY ToSetAppend
<1>5. \A f \in HeardFrame :
        Append(down, f) \in Seq(HeardFrame) /\ ToSet(Append(down, f)) = ToSet(down) \cup {f}
  BY ToSetAppend
<1>6. up # <<>> =>
        /\ Tail(up) \in Seq(SentFrame) /\ ToSet(Tail(up)) \subseteq ToSet(up)
        /\ Head(up) \in SentFrame /\ Head(up) \in ToSet(up)
  BY ToSetTail
<1>7. down # <<>> =>
        /\ Tail(down) \in Seq(HeardFrame) /\ ToSet(Tail(down)) \subseteq ToSet(down)
        /\ Head(down) \in HeardFrame /\ Head(down) \in ToSet(down)
  BY ToSetTail
<1>8. <<>> \in Seq(SentFrame) /\ <<>> \in Seq(HeardFrame) /\ ToSet(<<>>) = {}
  BY ToSetEmpty
<1>9. ASSUME NEW p \in Prompt, Types(p) 
      PROVE  /\ up' \in Seq(SentFrame) /\ down' \in Seq(HeardFrame)
             /\ Dated' /\ OnSocket'
  <2>1. /\ UNCHANGED <<sock, down, sessions, flaps>>
        /\ UNCHANGED up \/ (sock = "open" /\ up' = Append(up, Written(p, flaps)))
    BY <1>9 DEF Types, CanSend, host
  <2>2. UNCHANGED sock /\ UNCHANGED down /\ UNCHANGED sessions /\ UNCHANGED flaps
    BY <2>1
  <2>3. /\ up' \in Seq(SentFrame)
        /\ \A f \in ToSet(up') : f \in ToSet(up) \/ (f.id = None /\ f.at = flaps)
    BY <1>2, <1>4, <2>1
  <2>4. Dated'
    BY <1>1, <2>2, <2>3, StaysDated
  <2> QED
    BY <2>1, <2>2, <2>3, <2>4 DEF OnSocket
<1>10. CASE Asks \/ Switches
  <2>1. sock = "open" /\ UNCHANGED <<sock, down, sessions, flaps>>
        /\ \E t \in {"ask", "switch", "ready"} : up' = Append(up, Says(t))
    BY <1>10 DEF Asks, Switches, CanSend, host
  <2> QED
    BY <1>1, <1>2, <1>4, <2>1 DEF Dated, OnSocket
<1>11. CASE Dials
  <2>1. /\ sock = "shut" /\ sock' = "open" /\ UNCHANGED <<down, sessions, flaps>>
        /\ up' = <<Says("ready")>>
    BY <1>11 DEF Dials
  <2>2. up' \in Seq(SentFrame) /\ ToSet(up') = {Says("ready")}
    BY <1>2, <2>1 DEF ToSet
  <2> QED
    BY <1>1, <1>2, <2>1, <2>2 DEF Dated, OnSocket
<1>12. CASE Closes \/ GivesUpSocket \/ Reloads
  <2>1. up' = <<>> /\ down' = <<>>
    BY <1>12 DEF Closes, GivesUpSocket, Reloads, Ends
  <2> QED
    BY <1>8, <2>1 DEF Dated, OnSocket
<1>13. CASE HearsBounce \/ HearsRefused \/ HearsError \/ HearsAck \/ HearsLimit
  <2>1. /\ sock = "open" /\ down # <<>> /\ down' = Tail(down)
        /\ UNCHANGED sock /\ UNCHANGED sessions /\ UNCHANGED flaps
        /\ UNCHANGED up \/ up' = Append(up, Says("ready"))
    BY <1>13 DEF HearsBounce, HearsRefused, HearsError, HearsAck, HearsLimit, Hears, Probes,
                 PageOnly, host
  <2>2. up' \in Seq(SentFrame) /\ \A f \in ToSet(up') : f \in ToSet(up) \/ f = Says("ready")
    BY <1>2, <1>4, <2>1
  <2>3. Dated'
    BY <1>1, <1>2, <1>7, <2>1, <2>2, StaysDated
  <2> QED
    BY <1>7, <2>1, <2>2, <2>3 DEF OnSocket
<1>14. CASE HearsSession \/ HearsSnapshot
  <2>1. /\ sock = "open" /\ down # <<>> /\ down' = Tail(down) /\ UNCHANGED <<sock, sessions, flaps>>
    BY <1>14 DEF HearsSession, HearsSnapshot, Hears, PageOnly, host
  <2> DEFINE resume == IF remembered = None THEN <<>> ELSE <<Frame("resume", NoPrompt, remembered)>>
  <2>2. /\ resume \in Seq(SentFrame) /\ <<>> \in Seq(SentFrame)
        /\ ToSet(resume) \subseteq {Frame("resume", NoPrompt, remembered)}
    BY <1>2, <1>8 DEF ToSet
  <2>3. DatedFrames(resume) /\ DatedFrames(<<>>)
    <3>1. remembered \in 0..sessions /\ flaps \in 0..flaps
      BY <1>1
    <3> QED
      BY <1>2, <1>8, <2>2, <3>1 DEF DatedFrames
  <2> HIDE DEF resume
  <2>4. Heard.id \in 0..sessions
    BY <1>7, <2>1 DEF Dated, Heard
  <2>5. up' = up \o resume \/ Confirms(Heard.id, <<>>) \/ Confirms(Heard.id, resume)
    BY <1>14 DEF HearsSession, HearsSnapshot, resume
  <2>6. up' \in Seq(SentFrame) /\ DatedFrames(up)'
    <3>1. CASE up' = up \o resume
      <4>1. up' \in Seq(SentFrame) /\ ToSet(up') = ToSet(up) \cup ToSet(resume)
        BY <2>2, <3>1, ToSetConcat
      <4> QED
        BY <2>1, <2>3, <4>1 DEF DatedFrames, Dated
    <3>2. CASE Confirms(Heard.id, <<>>) \/ Confirms(Heard.id, resume)
      BY <2>1, <2>2, <2>3, <2>4, <3>2, ConfirmsIsTyped
    <3> QED
      BY <2>5, <3>1, <3>2
  <2> QED
    BY <1>7, <2>1, <2>6 DEF DatedFrames, Dated, OnSocket
<1>15. CASE GraceEnds \/ FailTimer \/ (\E p \in Prompt : RoutesLate(p)) \/ Rests
  <2>1. UNCHANGED <<sock, up, down, sessions, flaps>>
    BY <1>15 DEF GraceEnds, FailTimer, RoutesLate, Rests, PageOnly, host, vars
  <2> QED
    BY <2>1 DEF Dated, OnSocket
<1>16. CASE UplinkDrops
  <2>1. flaps' = flaps + 1 /\ UNCHANGED <<sock, up, down, sessions>>
    BY <1>16 DEF UplinkDrops
  <2> QED
    BY <1>1, <2>1 DEF Dated, OnSocket
<1>17. CASE RelayStep
  <2>1. /\ sock = "open" /\ up # <<>> /\ up' = Tail(up)
        /\ UNCHANGED sock /\ UNCHANGED flaps
        /\ sessions' \in {sessions, sessions + 1} /\ session' \in 0..sessions'
    BY <1>1, <1>6, <1>17 DEF RelayStep, Bounces, RoutesReady, RoutesAsk, RoutesResume,
       RoutesSwitch,
              RoutesPrompt, Routes, HostOnly, host, Binds, Dated, Sent
  <2>2. session' \in Nat /\ None \in 0..sessions' /\ 0..sessions \subseteq 0..sessions'
    BY <1>1, <2>1
  <2>3. \/ UNCHANGED down
        \/ \E f \in HeardFrame : f.id \in 0..sessions' /\ f.at = flaps /\ down' = Append(down, f)
    <3>1. CASE Bounces
      <4>1. down' = Append(down, Frame("bounce", Sent.p, None)) /\ Sent.p \in Prompt \cup {NoPrompt}
        BY <1>6, <3>1 DEF Bounces, Answers, Sent, SentFrame
      <4> QED
        BY <1>1, <1>3, <2>1, <2>2, <4>1
    <3>2. CASE RoutesReady \/ RoutesAsk
      <4>1. \/ UNCHANGED down \/ down' = Append(down, Says("error"))
            \/ down' = Append(down, Frame("snapshot", NoPrompt, session'))
        BY <3>2 DEF RoutesReady, RoutesAsk, Shows, Answers
      <4>2. Says("error").id = None /\ Says("error").at = flaps
        BY DEF Says, Frame
      <4> QED
        BY <1>1, <1>3, <2>1, <2>2, <4>1, <4>2
    <3>3. CASE RoutesResume \/ RoutesSwitch
      <4>1. PICK id \in {Sent.id, session'} :
              \/ UNCHANGED down \/ down' = Append(down, Frame("refused", NoPrompt, id))
              \/ down' = Append(down, Frame("session", NoPrompt, id))
        BY <3>3 DEF RoutesResume, RoutesSwitch, Answers
      <4>2. id \in 0..sessions' /\ id \in Nat
        BY <1>1, <1>6, <2>1 DEF Dated, Sent
      <4> QED
        BY <1>3, <4>1, <4>2
    <3>4. CASE RoutesPrompt
      <4>1. PICK t \in {"ack", "limit"} : down' = Append(down, Frame(t, Sent.p, None))
        BY <3>4 DEF RoutesPrompt, Answers
      <4>2. Sent.p \in Prompt
        BY <1>6, <2>1, <3>4 DEF RoutesPrompt, Routes, SentFrame, Sent
      <4> QED
        BY <1>1, <1>3, <2>1, <2>2, <4>1, <4>2
    <3> QED
      BY <1>17, <3>1, <3>2, <3>3, <3>4 DEF RelayStep
  <2>4. /\ down' \in Seq(HeardFrame)
        /\ \A f \in ToSet(down') : f \in ToSet(down) \/ (f.id \in 0..sessions' /\ f.at = flaps)
    BY <1>5, <2>3
  <2>5. Dated'
    BY <1>1, <1>6, <2>1, <2>4, StaysDated
  <2> QED
    BY <1>6, <2>1, <2>4, <2>5 DEF OnSocket
<1>18. CASE UplinkReturns
  <2>1. /\ UNCHANGED <<sock, up, flaps>> /\ sessions' \in {sessions, sessions + 1}
        /\ session' \in 0..sessions' /\ (sock = "shut" => UNCHANGED down)
        /\ \/ UNCHANGED down \/ down' = Append(down, Says("error"))
           \/ down' = Append(down, Frame("snapshot", NoPrompt, session'))
    BY <1>1, <1>18 DEF UplinkReturns, HostOnly, Binds, Shows, Answers, None
  <2>2. session' \in Nat /\ None \in 0..sessions' /\ 0..sessions \subseteq 0..sessions'
    BY <1>1, <2>1
  <2>3. Says("error").id = None /\ Says("error").at = flaps
    BY DEF Says, Frame
  <2>4. \/ UNCHANGED down
        \/ \E f \in HeardFrame : f.id \in 0..sessions' /\ f.at = flaps /\ down' = Append(down, f)
    BY <1>1, <1>3, <2>1, <2>2, <2>3
  <2>5. /\ down' \in Seq(HeardFrame)
        /\ \A f \in ToSet(down') : f \in ToSet(down) \/ (f.id \in 0..sessions' /\ f.at = flaps)
    BY <1>5, <2>4
  <2>6. Dated'
    BY <1>1, <2>1, <2>5, StaysDated
  <2> QED
    BY <2>1, <2>5, <2>6 DEF OnSocket
<1> QED
  BY <1>9, <1>10, <1>11, <1>12, <1>13, <1>14, <1>15, <1>16, <1>17, <1>18
     DEF Next, PersonStep, SocketStep, HearStep

LEMMA MeansIsTyped ==
  ASSUME VarsTyped, NEW P \in SUBSET Prompt, meant' = Means(P)
  PROVE  /\ DOMAIN meant' = DOMAIN meant \cup P
         /\ Range(meant') \subseteq 0..sessions
<1>1. Tab \in 0..sessions /\ None \in 0..sessions /\ Range(meant) \subseteq 0..sessions
  BY DEF VarsTyped, TypeOK, Tab, None
<1>2. DOMAIN meant' = DOMAIN meant \cup P
  BY DEF Means
<1>3. ASSUME NEW p \in DOMAIN meant' PROVE meant'[p] \in 0..sessions
  <2>1. meant'[p] = IF p \notin P THEN meant[p] ELSE IF Settled THEN Tab ELSE None
    BY <1>2, <1>3 DEF Means
  <2>2. p \notin P => meant[p] \in Range(meant)
    BY <1>2, <1>3 DEF Range
  <2> QED
    BY <1>1, <2>1, <2>2
<1> QED
  BY <1>2, <1>3 DEF Range

LEMMA HostStays ==
  ASSUME TypeInv, Next
  PROVE  /\ sessions' \in {sessions, sessions + 1} /\ sessions' \in Nat
         /\ session' \in 0..sessions'
<1> USE DEF TypeInv, VarsTyped
<1>1. /\ sessions \in Nat /\ None \in 0..sessions /\ session \in 0..sessions
  BY DEF TypeOK, None
<1>2. CASE RelayStep
  <2>1. up # <<>> => Sent.id \in 0..sessions
    BY ToSetTail DEF Dated, Sent
  <2>2. CASE Bounces \/ RoutesAsk \/ RoutesPrompt
    BY <1>1, <2>2 DEF Bounces, RoutesAsk, RoutesPrompt, host
  <2>3. CASE RoutesReady \/ RoutesSwitch
    BY <1>1, <2>3 DEF RoutesReady, RoutesSwitch, Binds
  <2>4. CASE RoutesResume
    BY <1>1, <2>1, <2>4 DEF RoutesResume, Routes
  <2> QED
    BY <1>2, <2>2, <2>3, <2>4 DEF RelayStep
<1>3. CASE UplinkReturns
  BY <1>1, <1>3 DEF UplinkReturns, Binds
<1>4. CASE Dials
  BY <1>1, <1>4 DEF Dials
<1>5. ASSUME ~RelayStep, ~UplinkReturns, ~Dials PROVE UNCHANGED <<session, sessions>>
  BY <1>5 DEF Next, PersonStep, Asks, Switches, Types, SocketStep, Closes, GivesUpSocket,
     Reloads,
     HearStep, HearsBounce, HearsSession, HearsSnapshot, HearsRefused, HearsError, HearsAck,
     HearsLimit, GraceEnds, FailTimer, PageOnly, UplinkDrops, RoutesLate, Rests, vars, host
<1> QED
  BY <1>1, <1>2, <1>3, <1>4, <1>5

\* An acknowledged prompt is not held.
AckedIsOut == \A f \in ToSet(down) : f.type = "ack" => f.p \notin ToSet(outbox)

LEMMA AckLeavesOutbox ==
  ASSUME VarsTyped, AckedIsOut, HearsAck
  PROVE  UNCHANGED outbox
<1>1. Heard \in ToSet(down) /\ Heard.type = "ack"
  BY ToSetTail DEF VarsTyped, HearsAck, Hears, Heard
<1>2. Heard.p \notin ToSet(outbox)
  BY <1>1 DEF AckedIsOut
<1>3. RemoveFirst(outbox, Heard.p) = outbox
  BY <1>2, RemovesNone DEF VarsTyped
<1> QED
  BY <1>3 DEF HearsAck

\* The page's own state.
LEMMA PageStays ==
  ASSUME TypeInv, AckedIsOut, Next
  PROVE  PageTyped'
<1> USE DEF TypeInv, VarsTyped
<1>1. /\ sessions \in Nat /\ None \in 0..sessions
      /\ {remembered, session, target} \subseteq 0..sessions
  BY DEF TypeOK, None
<1>2. PageTyped /\ live \in SUBSET Prompt /\ outbox \in Seq(Prompt)
  BY DEF PageTyped, TypeOK
<1>3. down # <<>> => Heard.id \in 0..sessions /\ Heard \in HeardFrame
  BY ToSetTail DEF Dated, Heard
<1>4. \A p \in Prompt : Append(outbox, p) \in Seq(Prompt)
  BY ToSetAppend
<1>5. ASSUME NEW p \in Prompt, Types(p) PROVE PageTyped'
  BY <1>2, <1>4, <1>5 DEF Types, PageTyped, restore, host
<1>6. CASE Asks
  BY <1>1, <1>2, <1>6 DEF Asks, PageTyped, tab, restore, host
<1>7. CASE Switches
  <2>1. remembered' \in 0..sessions /\ UNCHANGED sessions
    BY <1>1, <1>7 DEF Switches, host
  <2>2. CASE CanSend
    BY <1>2, <1>7, <2>1, <2>2 DEF Switches, PageTyped, restore
  <2>3. CASE ~CanSend
    BY <1>2, <1>7, <2>1, <2>3, RestoresAreTyped DEF Switches
  <2> QED
    BY <2>2, <2>3
<1>8. CASE Dials
  <2>1. remembered' \in 0..sessions /\ UNCHANGED sessions /\ Begins(outbox, live, TRUE)
    BY <1>1, <1>8 DEF Dials
  <2> QED
    BY <1>2, <2>1, RestoresAreTyped
<1>9. CASE Closes \/ GivesUpSocket
  <2>1. /\ UNCHANGED <<outbox, remembered, sessions, target, complete, ever, marked, over>>
        /\ live' \subseteq live /\ composer' \subseteq composer \cup live /\ armed' = FALSE
    BY <1>9 DEF Closes, GivesUpSocket, Ends, tab, host
  <2> QED
    BY <1>2, <2>1 DEF PageTyped
<1>10. CASE Reloads
  <2>1. None \in 0..sessions'
    BY <1>1, <1>10 DEF Reloads, host
  <2> QED
    BY <1>2, <1>10, <2>1 DEF Reloads, Ends, PageTyped, host
<1>11. CASE HearsBounce
  <2> DEFINE bounced == live \cap {Heard.p}
             entries == IF bounced = {} THEN outbox ELSE Append(outbox, Heard.p)
  <2>1. entries \in Seq(Prompt) /\ live \ bounced \in SUBSET Prompt
    BY <1>2, <1>4
  <2>2. UNCHANGED <<remembered, sessions>> /\ remembered' \in 0..sessions
    BY <1>1, <1>11 DEF HearsBounce, PageOnly, host
  <2>3. CASE complete /\ entries # <<>>
    <3>1. Begins(entries, live \ bounced, FALSE)
      BY <1>11, <2>3 DEF HearsBounce
    <3> HIDE DEF entries, bounced
    <3> QED
      BY <2>1, <2>2, <3>1, RestoresAreTyped
  <2>4. CASE ~(complete /\ entries # <<>>)
    <3>1. /\ outbox' = entries /\ live' = live \ bounced /\ armed' = FALSE
          /\ UNCHANGED <<target, complete, ever, marked, composer, over>>
      BY <1>11, <2>4 DEF HearsBounce
    <3> HIDE DEF entries, bounced
    <3> QED
      BY <1>2, <2>1, <2>2, <3>1 DEF PageTyped
  <2> QED
    BY <2>3, <2>4
<1>12. CASE HearsSession \/ HearsSnapshot
  <2>1. down # <<>> /\ UNCHANGED sessions /\ UNCHANGED flaps
    BY <1>12 DEF HearsSession, HearsSnapshot, Hears, PageOnly, host
  <2> DEFINE resume == IF remembered = None THEN <<>> ELSE <<Frame("resume", NoPrompt, remembered)>>
  <2>2. resume \in Seq(SentFrame) /\ <<>> \in Seq(SentFrame) /\ DatedFrames(<<>>)
    BY SentFrames, ToSetEmpty DEF DatedFrames
  <2>3. DatedFrames(resume)
    <3>1. \A f \in ToSet(resume) : f.id \in {remembered} /\ f.at = flaps
      BY DEF ToSet, Frame
    <3>2. flaps \in 0..flaps
      BY OutboxAssumption DEF TypeOK
    <3> QED
      BY <1>1, <3>1, <3>2 DEF DatedFrames
  <2> HIDE DEF resume
  <2>4. \/ Abandons(outbox, live) /\ remembered' \in {Heard.id, None}
        \/ Confirms(Heard.id, <<>>) \/ Confirms(Heard.id, resume)
    BY <1>12 DEF HearsSession, HearsSnapshot, Remembers, resume
  <2>5. CASE Abandons(outbox, live) /\ remembered' \in {Heard.id, None}
    BY <1>1, <1>2, <1>3, <2>1, <2>5, RestoresAreTyped
  <2>6. CASE Confirms(Heard.id, <<>>) \/ Confirms(Heard.id, resume)
    BY <1>3, <2>1, <2>2, <2>3, <2>6, ConfirmsIsTyped
  <2> QED
    BY <2>4, <2>5, <2>6
<1>13. CASE HearsRefused
  <2>1. UNCHANGED sessions /\ remembered' \in 0..sessions
    BY <1>1, <1>13 DEF HearsRefused, PageOnly, host
  <2>2. CASE target = Heard.id
    BY <1>2, <1>13, <2>1, <2>2, RestoresAreTyped DEF HearsRefused
  <2>3. CASE target # Heard.id
    <3>1. armed' \in BOOLEAN
          /\ UNCHANGED <<outbox, live, composer, target, complete, ever, marked, over>>
      BY <1>13, <2>3 DEF HearsRefused
    <3> QED
      BY <1>2, <2>1, <3>1 DEF PageTyped
  <2> QED
    BY <2>2, <2>3
<1>14. CASE HearsError
  <2>1. armed' \in BOOLEAN
        /\ UNCHANGED <<outbox, live, composer, remembered, sessions, target, complete, ever,
                       marked, over>>
    BY <1>14 DEF HearsError, Alive, PageOnly, host
  <2> QED
    BY <1>2, <2>1 DEF PageTyped
<1>15. CASE HearsAck \/ HearsLimit
  <2>1. /\ armed' \in BOOLEAN /\ live' \subseteq live /\ over' \subseteq over \cup {Heard.p}
        /\ UNCHANGED <<composer, remembered, sessions, target, complete, ever, marked>>
        /\ UNCHANGED outbox
        /\ down # <<>> /\ Heard.type \in {"ack", "limit"}
    BY <1>15, AckLeavesOutbox DEF HearsAck, HearsLimit, Alive, PageOnly, Hears, host
  <2>2. Heard.p \in Prompt
    BY <1>3, <2>1 DEF HeardFrame
  <2> QED
    BY <1>2, <2>1, <2>2 DEF PageTyped
<1>16. CASE GraceEnds
  <2>1. UNCHANGED remembered /\ UNCHANGED sessions
    BY <1>16 DEF GraceEnds, PageOnly, host
  <2>2. /\ target' \in {target, None} /\ marked' = FALSE /\ armed' = FALSE
        /\ complete' \in {complete, TRUE} /\ ever' \in {ever, TRUE}
        /\ live' \subseteq live /\ over' \subseteq over \cup live
        /\ UNCHANGED <<outbox, composer>>
    BY <1>16 DEF GraceEnds, Finishes
  <2> QED
    BY <1>1, <1>2, <2>1, <2>2 DEF PageTyped
<1>17. CASE FailTimer
  <2>1. UNCHANGED sessions /\ remembered' \in 0..sessions /\ Abandons(outbox, live)
    BY <1>1, <1>17 DEF FailTimer, PageOnly, host
  <2> QED
    BY <1>2, <2>1, RestoresAreTyped
<1>18. CASE RelayStep \/ UplinkReturns
  <2>1. UNCHANGED <<outbox, live, composer, remembered, target, complete, ever, marked, armed, over>>
    BY <1>18 DEF RelayStep, Bounces, RoutesReady, RoutesAsk, RoutesResume, RoutesSwitch,
              RoutesPrompt, HostOnly, UplinkReturns, tab, restore
  <2> QED
    BY <1>1, <1>2, <2>1, HostStays DEF PageTyped
<1>19. CASE (\E p \in Prompt : RoutesLate(p)) \/ UplinkDrops \/ Rests
  <2>1. UNCHANGED <<outbox, live, composer, remembered, target, complete, ever, marked, armed,
                    sessions>>
        /\ over' \subseteq over \cup Prompt
    BY <1>19 DEF RoutesLate, UplinkDrops, Rests, vars, tab, restore, host
  <2> QED
    BY <1>1, <1>2, <2>1 DEF PageTyped
<1> QED
  BY <1>5, <1>6, <1>7, <1>8, <1>9, <1>10, <1>11, <1>12, <1>13, <1>14, <1>15, <1>16, <1>17,
     <1>18, <1>19 DEF Next, PersonStep, SocketStep, HearStep

\* The rest: the connection, the relay, and the histories.
OtherTyped ==
  /\ sock \in {"shut", "open"} /\ uplink \in {"up", "down"} /\ known \in BOOLEAN
  /\ offline \in {"no", "grace", "offline"}
  /\ late \cup held \cup astray \subseteq Prompt
  /\ ran \in [Prompt -> Nat]
  /\ DOMAIN meant \subseteq Prompt /\ Range(meant) \subseteq 0..sessions
  /\ dials \in 0..MaxDials /\ flaps \in 0..MaxFlaps /\ moves \in 0..MaxMoves

LEMMA OthersStay ==
  ASSUME TypeInv, Next
  PROVE  OtherTyped'
<1> USE DEF TypeInv, VarsTyped
<1>1. OtherTyped /\ live \in SUBSET Prompt /\ PromptsOf(up) \subseteq Prompt
  BY DEF OtherTyped, TypeOK
<1>2. {MaxDials, MaxFlaps, MaxMoves} \subseteq Nat
  BY OutboxAssumption
<1>3. /\ up # <<>> => Sent \in SentFrame
      /\ down # <<>> => Heard \in HeardFrame
  BY ToSetTail DEF Sent, Heard
<1>4. ASSUME UNCHANGED meant PROVE Range(meant') \subseteq 0..sessions' /\ DOMAIN meant' \subseteq Prompt
  <2>1. 0..sessions \subseteq 0..sessions'
    BY HostStays
  <2> QED
    BY <1>1, <1>4, <2>1 DEF OtherTyped
<1>5. ASSUME NEW p \in Prompt, Types(p) PROVE OtherTyped'
  <2>1. /\ UNCHANGED <<sock, uplink, known, offline, late, astray, ran, sessions, dials, flaps, moves>>
        /\ held' \subseteq held \cup {p} /\ meant' = Means({p})
    BY <1>5 DEF Types, restore, host, taken
  <2>2. DOMAIN meant' = DOMAIN meant \cup {p} /\ Range(meant') \subseteq 0..sessions
    BY <2>1, MeansIsTyped
  <2> QED
    BY <1>1, <2>1, <2>2 DEF OtherTyped
<1>6. CASE Asks \/ Switches
  <2>1. /\ UNCHANGED <<sock, uplink, known, offline, late, held, astray, ran, meant, dials, flaps>>
        /\ moves < MaxMoves /\ moves' = moves + 1
    BY <1>6 DEF Asks, Switches, restore, host, taken
  <2> QED
    BY <1>1, <1>2, <1>4, <2>1 DEF OtherTyped
<1>7. CASE Dials
  <2>1. /\ UNCHANGED <<uplink, known, late, held, astray, ran, meant, flaps, moves>>
        /\ sock' = "open" /\ offline' = "no" /\ dials < MaxDials /\ dials' = dials + 1
    BY <1>7 DEF Dials, taken
  <2> QED
    BY <1>1, <1>2, <1>4, <2>1 DEF OtherTyped
<1>8. CASE Closes \/ GivesUpSocket \/ Reloads
  <2>1. /\ UNCHANGED <<uplink, held, astray, ran, meant, dials, flaps>>
        /\ sock' = "shut" /\ known' = FALSE /\ late' = late \cup PromptsOf(up)
        /\ offline' \in {offline, "no"}
        /\ \/ UNCHANGED moves \/ (moves < MaxMoves /\ moves' = moves + 1)
    BY <1>8 DEF Closes, GivesUpSocket, Reloads, Ends, host, taken
  <2>2. moves' \in 0..MaxMoves /\ late' \subseteq Prompt
    BY <1>1, <1>2, <2>1 DEF OtherTyped
  <2>3. UNCHANGED meant /\ flaps' \in 0..MaxFlaps /\ dials' \in 0..MaxDials
    BY <1>1, <2>1 DEF OtherTyped
  <2> QED
    BY <1>1, <1>4, <2>1, <2>2, <2>3 DEF OtherTyped
<1>9. CASE HearsBounce
  <2> DEFINE bounced == live \cap {Heard.p}
  <2>1. /\ UNCHANGED <<sock, uplink, known, late, astray, ran, sessions, dials, flaps, moves>>
        /\ offline' \in {offline, "grace"} /\ held' = held \cup bounced /\ meant' = Means(bounced)
    BY <1>9 DEF HearsBounce, Probes, PageOnly, host, taken
  <2>2. DOMAIN meant' = DOMAIN meant \cup bounced /\ Range(meant') \subseteq 0..sessions
    BY <1>1, <2>1, MeansIsTyped
  <2> QED
    BY <1>1, <2>1, <2>2 DEF OtherTyped
<1>10. ASSUME HearStep, ~HearsBounce PROVE OtherTyped'
  <2>1. /\ UNCHANGED <<sock, uplink, known, late, held, astray, ran, meant, dials, flaps, moves>>
        /\ offline' = "no"
    BY <1>10 DEF HearStep, HearsSession, HearsSnapshot, HearsRefused, HearsError, HearsAck,
                 HearsLimit, Alive, PageOnly, host, taken
  <2> QED
    BY <1>1, <1>4, <2>1 DEF OtherTyped
<1>11. CASE GraceEnds \/ FailTimer
  <2>1. /\ UNCHANGED <<sock, uplink, known, late, held, astray, ran, meant, dials, flaps, moves>>
        /\ offline' \in {offline, "offline"}
    BY <1>11 DEF GraceEnds, FailTimer, PageOnly, host, taken
  <2> QED
    BY <1>1, <1>4, <2>1 DEF OtherTyped
<1>12. CASE RelayStep
  <2>1. /\ UNCHANGED <<sock, uplink, offline, late, held, meant, dials, flaps, moves>>
        /\ known' \in BOOLEAN
    BY <1>1, <1>12 DEF RelayStep, Bounces, RoutesReady, RoutesAsk, RoutesResume, RoutesSwitch,
                 RoutesPrompt, HostOnly, host, restore, OtherTyped
  <2>2. ran' \in [Prompt -> Nat] /\ astray' \subseteq Prompt
    <3>1. CASE RoutesPrompt
      <4>1. Sent.p \in Prompt
        BY <1>3, <3>1 DEF RoutesPrompt, Routes, SentFrame
      <4>2. /\ ran' = ran \/ ran' = [ran EXCEPT ![Sent.p] = @ + 1]
            /\ astray' \subseteq astray \cup {Sent.p}
        BY <3>1 DEF RoutesPrompt
      <4>3. ran[Sent.p] + 1 \in Nat
        BY <1>1, <4>1 DEF OtherTyped
      <4>4. ran' \in [Prompt -> Nat]
        BY <1>1, <4>1, <4>2, <4>3 DEF OtherTyped
      <4> QED
        BY <1>1, <4>1, <4>2, <4>4 DEF OtherTyped
    <3>2. CASE ~RoutesPrompt
      <4>1. UNCHANGED <<ran, astray>>
        BY <1>12, <3>2 DEF RelayStep, Bounces, RoutesReady, RoutesAsk, RoutesResume,
           RoutesSwitch,
                           taken
      <4> QED
        BY <1>1, <4>1 DEF OtherTyped
    <3> QED
      BY <3>1, <3>2
  <2> QED
    BY <1>1, <1>4, <2>1, <2>2 DEF OtherTyped
<1>13. CASE UplinkDrops
  <2>1. /\ UNCHANGED <<sock, known, offline, late, held, astray, ran, meant, dials, moves>>
        /\ uplink' = "down" /\ flaps < MaxFlaps /\ flaps' = flaps + 1
    BY <1>13 DEF UplinkDrops, restore, taken
  <2> QED
    BY <1>1, <1>2, <1>4, <2>1 DEF OtherTyped
<1>14. CASE UplinkReturns
  <2>1. /\ UNCHANGED <<sock, known, offline, late, held, astray, ran, meant, dials, flaps, moves>>
        /\ uplink' = "up"
    BY <1>14 DEF UplinkReturns, HostOnly, restore, taken
  <2> QED
    BY <1>1, <1>4, <2>1 DEF OtherTyped
<1>15. ASSUME NEW p \in Prompt, RoutesLate(p) PROVE OtherTyped'
  <2>1. /\ UNCHANGED <<sock, uplink, known, offline, held, astray, meant, dials, flaps, moves>>
        /\ late' \subseteq late /\ (ran' = ran \/ ran' = [ran EXCEPT ![p] = @ + 1])
    BY <1>15 DEF RoutesLate, restore, host
  <2> QED
    BY <1>1, <1>4, <2>1 DEF OtherTyped
<1>16. CASE Rests
  BY <1>1, <1>4, <1>16 DEF Rests, vars, restore, host, taken, OtherTyped
<1> QED
  BY <1>5, <1>6, <1>7, <1>8, <1>9, <1>10, <1>11, <1>12, <1>13, <1>14, <1>15, <1>16
     DEF Next, PersonStep, SocketStep

LEMMA TypesStay ==
  ASSUME TypeInv, AckedIsOut, [Next]_vars
  PROVE  TypeInv'
<1>1. CASE Next
  <2>1. PageTyped' /\ OtherTyped' /\ sessions' \in Nat /\ session' \in 0..sessions'
    BY <1>1, PageStays, OthersStay, HostStays
  <2>2. up' \in Seq(SentFrame) /\ down' \in Seq(HeardFrame) /\ Dated' /\ OnSocket'
    BY <1>1, FramesStay
  <2>3. ToSet(outbox') \subseteq Prompt
    BY <2>1, ToSetType DEF PageTyped
  <2>4. PromptsOf(up') \cup PromptsOf(down') \subseteq Prompt
    BY <2>2, PromptsTyped
  <2>5. TypeOK'
    BY <2>1, <2>3, <2>4 DEF TypeOK, PageTyped, OtherTyped
  <2> QED
    BY <2>1, <2>2, <2>5 DEF TypeInv, VarsTyped, PageTyped
<1>2. CASE UNCHANGED vars
  BY <1>2 DEF vars, tab, restore, host, taken, TypeInv, VarsTyped, TypeOK, Dated, OnSocket
<1> QED
  BY <1>1, <1>2

LEMMA InitIsTyped ==
  ASSUME Init
  PROVE  TypeInv
<1>1. /\ ToSet(outbox) = {} /\ ToSet(up) = {} /\ ToSet(down) = {}
      /\ PromptsOf(up) = {} /\ PromptsOf(down) = {}
  BY ToSetEmpty DEF Init
<1>2. DOMAIN meant = {} /\ Range(meant) = {}
  BY DEF Init, Range
<1>3. /\ dials \in 0..MaxDials /\ flaps \in 0..MaxFlaps /\ moves \in 0..MaxMoves
      /\ {remembered, target, session} \subseteq 0..sessions /\ sessions \in Nat
      /\ {complete, ever, marked, armed, known} \subseteq BOOLEAN
  <2>1. dials \in 0..MaxDials /\ flaps \in 0..MaxFlaps /\ moves \in 0..MaxMoves
    BY OutboxAssumption DEF Init
  <2>2. {remembered, target, session} \subseteq 0..sessions /\ sessions \in Nat
    BY DEF Init, None
  <2>3. {complete, ever, marked, armed, known} \subseteq BOOLEAN
    BY DEF Init
  <2> QED
    BY <2>1, <2>2, <2>3
<1>4. TypeOK
  BY <1>1, <1>2, <1>3 DEF Init, TypeOK
<1>5. VarsTyped
  BY <1>3, <1>4 DEF Init, VarsTyped
<1> QED
  BY <1>1, <1>5 DEF Init, TypeInv, Dated, OnSocket

(***************************************************************************)
(* A prompt is in one place: held, written, answered, or left behind by a  *)
(* socket.  It has been taken when its answer says so, and not before; so  *)
(* the page may hold again what is bounced.  And no place is one that the  *)
(* account of a prompt forgets.                                            *)
(***************************************************************************)
NoTwo == Distinct(outbox) /\ Once(up) /\ Once(down)

Apart ==
  /\ ToSet(outbox) \cap (PromptsOf(up) \cup PromptsOf(down) \cup late) = {}
  /\ PromptsOf(up) \cap (PromptsOf(down) \cup late) = {}
  /\ PromptsOf(down) \cap late = {}

NotTaken == \A p \in ToSet(outbox) \cup PromptsOf(up) \cup late : ran[p] = 0

Answered == \A f \in ToSet(down) : f.p \in Prompt => (f.type = "ack" <=> ran[f.p] > 0)

Recorded == DOMAIN meant \cup PromptsOf(up) \cup PromptsOf(down) \subseteq Typed

Flight == NoTwo /\ Apart /\ NotTaken /\ Answered /\ RunsOnce

LEMMA ApartAcks ==
  ASSUME VarsTyped, Apart
  PROVE  AckedIsOut
<1>1. ASSUME NEW f \in ToSet(down), f.type = "ack" PROVE f.p \notin ToSet(outbox)
  <2>1. f \in HeardFrame
    BY ToSetType DEF VarsTyped
  <2>2. f.p \in Prompt
    BY <1>1, <2>1 DEF HeardFrame
  <2> QED
    BY <2>2, PromptsIn DEF Apart
<1> QED
  BY <1>1 DEF AckedIsOut

LEMMA NoneTwice == Distinct(<<>>) /\ Once(<<>>)
  BY DEF Distinct, Once

\* What a step leaves where it was, or drops, is as apart as before.
LEMMA FlightShrinks ==
  ASSUME Flight, ran' = ran,
         NoTwo', ToSet(outbox') \subseteq ToSet(outbox), late' \subseteq late,
         PromptsOf(up') \subseteq PromptsOf(up), PromptsOf(down') \subseteq PromptsOf(down),
         \A f \in ToSet(down') : f \in ToSet(down) \/ f.p = NoPrompt
  PROVE  Flight'
<1>1. Apart' /\ NotTaken' /\ RunsOnce'
  BY DEF Flight, Apart, NotTaken, RunsOnce
<1>2. Answered'
  BY OutboxAssumption DEF Flight, Answered
<1> QED
  BY <1>1, <1>2 DEF Flight

\* A flush writes what was held.
LEMMA FlightFlushes ==
  ASSUME Flight, ran' = ran, NoTwo', outbox' = <<>>, UNCHANGED late,
         PromptsOf(up') = PromptsOf(up) \cup ToSet(outbox),
         PromptsOf(down') \subseteq PromptsOf(down), ToSet(down') \subseteq ToSet(down)
  PROVE  Flight'
<1>1. ToSet(outbox') = {}
  BY ToSetEmpty
<1>2. Apart' /\ NotTaken' /\ RunsOnce'
  BY <1>1 DEF Flight, Apart, NotTaken, RunsOnce
<1>3. Answered'
  BY DEF Flight, Answered
<1> QED
  BY <1>2, <1>3 DEF Flight

\* The socket's end.
LEMMA FlightEnds ==
  ASSUME Flight, Ends, UNCHANGED <<outbox, ran>>
  PROVE  Flight'
<1>1. up' = <<>> /\ down' = <<>> /\ late' = late \cup PromptsOf(up)
      /\ PromptsOf(<<>>) = {} /\ ToSet(<<>>) = {}
  BY ToSetEmpty DEF Ends
<1>2. NoTwo'
  BY <1>1, NoneTwice DEF Flight, NoTwo
<1>3. Apart' /\ NotTaken' /\ RunsOnce' /\ Answered'
  BY <1>1 DEF Flight, Apart, NotTaken, RunsOnce, Answered
<1> QED
  BY <1>2, <1>3 DEF Flight

LEMMA ConfirmsMoves ==
  ASSUME TypeInv, Flight, down # <<>>, NEW id, NEW frames \in Seq(SentFrame),
         PromptsOf(frames) = {}, Once(frames), Confirms(id, frames)
  PROVE  /\ Once(up') /\ Distinct(outbox')
         /\ \/ outbox' = outbox /\ PromptsOf(up') = PromptsOf(up)
            \/ outbox' = <<>> /\ PromptsOf(up') = PromptsOf(up) \cup ToSet(outbox)
<1> DEFINE at == Head(down).at
           u == up \o frames
<1> USE DEF TypeInv, VarsTyped
<1>1. u \in Seq(SentFrame) /\ PromptsOf(u) = PromptsOf(up) /\ Once(u)
  <2>1. up \in Seq(SentFrame) /\ Once(up) /\ PromptsOf(up) \cap PromptsOf(frames) = {}
    BY DEF Flight, NoTwo
  <2>2. u \in Seq(SentFrame) /\ Once(u)
    BY <2>1, FramesGoUp
  <2>3. PromptsOf(u) = PromptsOf(up) \cup PromptsOf(frames)
    <3>1. ToSet(u) = ToSet(up) \cup ToSet(frames)
      BY <2>1, ToSetConcat
    <3> QED
      BY <3>1 DEF PromptsOf
  <2> QED
    BY <2>2, <2>3
<1> HIDE DEF u
<1>2. CASE target # None /\ id = target
  <2>1. outbox' = <<>> /\ up' = u \o Letters(at)
    BY <1>2 DEF Confirms, Flushes, Letters, u
  <2>2. Head(down) \in HeardFrame /\ flaps \in Nat
    BY FrameIsRead, OutboxAssumption DEF TypeOK
  <2>3. at \in Nat
    BY <2>2 DEF HeardFrame
  <2>4. /\ Letters(at) \in Seq(SentFrame) /\ Once(Letters(at))
        /\ PromptsOf(Letters(at)) = ToSet(outbox)
    BY <2>2, <2>3, LettersAre DEF Flight, NoTwo
  <2>5. PromptsOf(u) \cap PromptsOf(Letters(at)) = {}
    BY <1>1, <2>4 DEF Flight, Apart
  <2>6. Once(u \o Letters(at)) /\ PromptsOf(u \o Letters(at)) = PromptsOf(u) \cup ToSet(outbox)
    BY <1>1, <2>4, <2>5, FramesGoUp
  <2> QED
    BY <1>1, <2>1, <2>6, NoneTwice
<1>3. CASE ~(target # None /\ id = target)
  <2>1. outbox' = outbox /\ up' = u
    BY <1>3 DEF Confirms, u
  <2> QED
    BY <1>1, <2>1 DEF Flight, NoTwo
<1> QED
  BY <1>2, <1>3

LEMMA FlightStays ==
  ASSUME TypeInv, Flight, Recorded, Next
  PROVE  Flight'
<1> USE DEF TypeInv, VarsTyped
<1>1. Distinct(outbox) /\ Once(up) /\ Once(down)
  BY DEF Flight, NoTwo
<1>2. up # <<>> =>
        /\ Sent \in SentFrame /\ Tail(up) \in Seq(SentFrame) /\ Once(Tail(up))
        /\ PromptsOf(Tail(up)) = PromptsOf(up) \ {Sent.p}
        /\ Sent.p \in Prompt => Sent.p \in PromptsOf(up)
  <2> HAVE up # <<>>
  <2>1. /\ Sent \in SentFrame /\ Tail(up) \in Seq(SentFrame) /\ Once(Tail(up))
        /\ PromptsOf(up) = PromptsOf(Tail(up)) \cup ({Sent.p} \ {NoPrompt})
        /\ Sent.p \in Prompt => Sent.p \notin PromptsOf(Tail(up))
    BY <1>1, FrameIsRead DEF Sent
  <2>2. Sent.p \in Prompt \cup {NoPrompt} /\ NoPrompt \notin PromptsOf(Tail(up))
    BY <2>1 DEF SentFrame, PromptsOf
  <2> QED
    BY <2>1, <2>2, OutboxAssumption
<1>3. down # <<>> =>
        /\ Heard \in HeardFrame /\ Heard \in ToSet(down)
        /\ Tail(down) \in Seq(HeardFrame) /\ Once(Tail(down))
        /\ ToSet(Tail(down)) \subseteq ToSet(down)
        /\ PromptsOf(Tail(down)) = PromptsOf(down) \ {Heard.p}
        /\ Heard.p \in Prompt => Heard.p \in PromptsOf(down)
  <2> HAVE down # <<>>
  <2>1. /\ Heard \in HeardFrame /\ Tail(down) \in Seq(HeardFrame) /\ Once(Tail(down))
        /\ ToSet(down) = ToSet(Tail(down)) \cup {Heard}
        /\ PromptsOf(down) = PromptsOf(Tail(down)) \cup ({Heard.p} \ {NoPrompt})
        /\ Heard.p \in Prompt => Heard.p \notin PromptsOf(Tail(down))
    BY <1>1, FrameIsRead DEF Heard
  <2>2. Heard.p \in Prompt \cup {NoPrompt} /\ NoPrompt \notin PromptsOf(Tail(down))
    BY <2>1 DEF HeardFrame, PromptsOf
  <2> QED
    BY <2>1, <2>2, OutboxAssumption
<1>4. \A t \in {"ask", "switch", "ready"} :
        LET s == Append(up, Says(t)) IN PromptsOf(s) = PromptsOf(up) /\ Once(s)
  <2> SUFFICES ASSUME NEW t \in {"ask", "switch", "ready"}
               PROVE  LET s == Append(up, Says(t)) IN PromptsOf(s) = PromptsOf(up) /\ Once(s)
    OBVIOUS
  <2>1. Says(t) \in SentFrame /\ Says(t).p = NoPrompt /\ NoPrompt \notin PromptsOf(up)
    BY SentFrames DEF Says, Frame, PromptsOf
  <2>2. ToSet(Append(up, Says(t))) = ToSet(up) \cup {Says(t)} /\ Once(Append(up, Says(t)))
    BY <1>1, <2>1, FrameGoesUp
  <2> QED
    BY <2>1, <2>2 DEF PromptsOf
<1>5. \A p \in Prompt \ PromptsOf(up) :
        LET s == Append(up, Written(p, flaps)) IN PromptsOf(s) = PromptsOf(up) \cup {p} /\ Once(s)
  <2> SUFFICES ASSUME NEW p \in Prompt \ PromptsOf(up)
               PROVE  LET s == Append(up, Written(p, flaps))
                      IN PromptsOf(s) = PromptsOf(up) \cup {p} /\ Once(s)
    OBVIOUS
  <2>1. Written(p, flaps) \in SentFrame /\ Written(p, flaps).p = p /\ p # NoPrompt
    BY SentFrames, OutboxAssumption DEF Written
  <2> QED
    BY <1>1, <2>1, FrameGoesUp
<1>6. \A p \in Prompt \ ToSet(outbox) :
        LET s == Append(outbox, p) IN ToSet(s) = ToSet(outbox) \cup {p} /\ Distinct(s)
  BY <1>1, ToSetAppend, DistinctAppend
<1>7. \A f \in HeardFrame : f.p \notin PromptsOf(down) =>
        LET s == Append(down, f)
        IN /\ ToSet(s) = ToSet(down) \cup {f} /\ Once(s)
           /\ PromptsOf(s) = PromptsOf(down) \cup ({f.p} \ {NoPrompt})
  BY <1>1, FrameGoesUp
<1>8. ToSet(<<>>) = {} /\ PromptsOf(<<>>) = {} /\ Distinct(<<>>) /\ Once(<<>>)
  BY ToSetEmpty, NoneTwice

<1>9. ASSUME NEW p \in Prompt, Types(p) PROVE Flight'
  <2>1. UNCHANGED <<down, late, ran>>
    BY <1>9 DEF Types, taken
  <2>2. p \notin ToSet(outbox) \cup PromptsOf(up) \cup PromptsOf(down) \cup late /\ ran[p] = 0
    BY <1>9 DEF Types, Recorded, Typed, TypeOK
  <2>3. CASE up' = Append(up, Written(p, flaps)) /\ UNCHANGED outbox
    <3>1. NoTwo' /\ PromptsOf(up') = PromptsOf(up) \cup {p}
      BY <1>1, <1>5, <2>1, <2>2, <2>3 DEF NoTwo
    <3> QED
      BY <2>1, <2>2, <2>3, <3>1 DEF Flight, Apart, NotTaken, Answered, RunsOnce
  <2>4. CASE outbox' = Append(outbox, p) /\ UNCHANGED up
    <3>1. NoTwo' /\ ToSet(outbox') = ToSet(outbox) \cup {p}
      BY <1>1, <1>6, <2>1, <2>2, <2>4 DEF NoTwo
    <3> QED
      BY <2>1, <2>2, <2>4, <3>1 DEF Flight, Apart, NotTaken, Answered, RunsOnce
  <2> QED
    BY <1>9, <2>3, <2>4 DEF Types
<1>10. CASE Asks \/ Switches
  <2>1. UNCHANGED <<down, late, ran>> /\ outbox' \in {outbox, <<>>}
        /\ \E t \in {"ask", "switch", "ready"} : up' = Append(up, Says(t))
    BY <1>10 DEF Asks, Switches, tab, taken, Abandons
  <2>2. NoTwo' /\ PromptsOf(up') = PromptsOf(up)
    BY <1>1, <1>4, <1>8, <2>1 DEF NoTwo
  <2> QED
    BY <1>8, <2>1, <2>2, FlightShrinks
<1>11. CASE Dials
  <2>1. UNCHANGED <<down, late, ran>> /\ outbox' \in {outbox, <<>>} /\ up' = <<Says("ready")>>
    BY <1>11 DEF Dials, taken, Begins, Abandons
  <2>2. PromptsOf(up') = {} /\ Once(up')
    BY <2>1 DEF PromptsOf, ToSet, Once, Says, Frame
  <2>3. NoTwo'
    BY <1>1, <1>8, <2>1, <2>2 DEF NoTwo
  <2> QED
    BY <1>8, <2>1, <2>2, <2>3, FlightShrinks
<1>12. CASE Closes \/ GivesUpSocket \/ Reloads
  <2>1. Ends /\ UNCHANGED <<outbox, ran>>
    BY <1>12 DEF Closes, GivesUpSocket, Reloads, tab, taken
  <2> QED
    BY <2>1, FlightEnds
<1>13. CASE HearsBounce
  <2> DEFINE bounced == live \cap {Heard.p}
             entries == IF bounced = {} THEN outbox ELSE Append(outbox, Heard.p)
  <2>1. /\ Hears("bounce") /\ UNCHANGED <<late, ran>>
        /\ outbox' \in {entries, <<>>}
        /\ up' = up \/ up' = Append(up, Says("ready"))
    BY <1>13 DEF HearsBounce, Probes, PageOnly, taken, Begins, Abandons
  <2>2. down # <<>> /\ Heard.type = "bounce" /\ down' = Tail(down)
    BY <2>1 DEF Hears
  <2>3. Once(up') /\ PromptsOf(up') = PromptsOf(up) /\ Once(down')
    BY <1>1, <1>3, <1>4, <2>1, <2>2
  <2>4. CASE bounced = {} \/ outbox' = <<>>
    <3>1. outbox' \in {outbox, <<>>}
      BY <2>1, <2>4
    <3>2. NoTwo'
      BY <1>1, <1>8, <2>3, <3>1 DEF NoTwo
    <3> QED
      BY <1>3, <1>8, <2>1, <2>2, <2>3, <3>1, <3>2, FlightShrinks
  <2>5. CASE bounced # {} /\ outbox' # <<>>
    <3>1. outbox' = Append(outbox, Heard.p) /\ Heard.p \in Prompt
      BY <2>1, <2>5 DEF TypeOK
    <3>2. Heard.p \notin ToSet(outbox) \cup PromptsOf(up) \cup late /\ ran[Heard.p] = 0
      <4>1. Heard.p \in PromptsOf(down) /\ ~(ran[Heard.p] > 0) /\ ran[Heard.p] \in Nat
        BY <1>3, <2>2, <3>1 DEF Flight, Answered, TypeOK
      <4> QED
        BY <4>1 DEF Flight, Apart
    <3>3. Distinct(outbox') /\ ToSet(outbox') = ToSet(outbox) \cup {Heard.p}
      BY <1>6, <3>1, <3>2
    <3>4. Apart' /\ NotTaken' /\ NoTwo'
      BY <1>3, <2>1, <2>2, <2>3, <3>1, <3>2, <3>3 DEF Flight, Apart, NotTaken, NoTwo
    <3>5. Answered' /\ RunsOnce'
      BY <1>3, <2>1, <2>2 DEF Flight, Answered, RunsOnce
    <3> QED
      BY <3>4, <3>5 DEF Flight
  <2> QED
    BY <2>4, <2>5
<1>14. CASE HearsSession \/ HearsSnapshot
  <2> DEFINE resume == IF remembered = None THEN <<>> ELSE <<Frame("resume", NoPrompt, remembered)>>
  <2>1. /\ down # <<>> /\ down' = Tail(down) /\ UNCHANGED <<late, ran>>
        /\ \/ Confirms(Heard.id, <<>>) \/ Confirms(Heard.id, resume)
           \/ outbox' = <<>> /\ up' = up \o resume
    BY <1>14 DEF HearsSession, HearsSnapshot, Hears, PageOnly, taken, Abandons
  <2>2. resume \in Seq(SentFrame) /\ <<>> \in Seq(SentFrame)
    BY SentFrames
  <2>3. PromptsOf(resume) = {} /\ Once(resume)
    BY OutboxAssumption DEF PromptsOf, ToSet, Once, Frame
  <2> HIDE DEF resume
  <2>4. PromptsOf(up) \cap PromptsOf(resume) = {}
    BY <2>3
  <2>5. Once(up \o resume) /\ PromptsOf(up \o resume) = PromptsOf(up)
    <3>1. Once(up \o resume) /\ ToSet(up \o resume) = ToSet(up) \cup ToSet(resume)
      BY <1>1, <2>2, <2>3, <2>4, FramesGoUp
    <3> QED
      BY <2>3, <3>1 DEF PromptsOf
  <2>6. /\ Once(up') /\ Distinct(outbox')
        /\ \/ outbox' \in {outbox, <<>>} /\ PromptsOf(up') = PromptsOf(up)
           \/ outbox' = <<>> /\ PromptsOf(up') = PromptsOf(up) \cup ToSet(outbox)
    BY <1>8, <2>1, <2>2, <2>3, <2>5, ConfirmsMoves
  <2>7. NoTwo'
    BY <1>3, <2>1, <2>6 DEF NoTwo
  <2>8. CASE outbox' \in {outbox, <<>>} /\ PromptsOf(up') = PromptsOf(up)
    BY <1>3, <1>8, <2>1, <2>7, <2>8, FlightShrinks
  <2>9. CASE outbox' = <<>> /\ PromptsOf(up') = PromptsOf(up) \cup ToSet(outbox)
    BY <1>3, <2>1, <2>7, <2>9, FlightFlushes
  <2> QED
    BY <2>6, <2>8, <2>9
<1>15. CASE HearsRefused \/ HearsError \/ HearsAck \/ HearsLimit
  <2>1. AckedIsOut
    BY ApartAcks DEF Flight
  <2>2. /\ down # <<>> /\ down' = Tail(down) /\ UNCHANGED <<late, ran>>
        /\ outbox' \in {outbox, <<>>} /\ (up' = up \/ up' = Append(up, Says("ready")))
    BY <1>15, <2>1, AckLeavesOutbox DEF HearsRefused, HearsError, HearsAck, HearsLimit, Hears,
       PageOnly, taken, Abandons
  <2>3. NoTwo' /\ PromptsOf(up') = PromptsOf(up)
    BY <1>1, <1>3, <1>4, <1>8, <2>2 DEF NoTwo
  <2> QED
    BY <1>3, <1>8, <2>2, <2>3, FlightShrinks
<1>16. CASE GraceEnds \/ FailTimer
  <2>1. UNCHANGED <<up, down, late, ran>> /\ outbox' \in {outbox, <<>>}
    BY <1>16 DEF GraceEnds, FailTimer, PageOnly, taken, Abandons
  <2>2. NoTwo'
    BY <1>1, <1>8, <2>1 DEF NoTwo
  <2> QED
    BY <1>8, <2>1, <2>2, FlightShrinks
<1>17. ASSUME NEW f \in HeardFrame, f.p = NoPrompt, down' = Append(down, f) \/ UNCHANGED down,
              (up # <<>> /\ up' = Tail(up)) \/ UNCHANGED up, UNCHANGED <<outbox, late, ran>>
       PROVE  Flight'
  <2>1. Once(down') /\ PromptsOf(down') = PromptsOf(down)
        /\ \A g \in ToSet(down') : g \in ToSet(down) \/ g.p = NoPrompt
    <3>1. f.p \notin PromptsOf(down)
      BY <1>17 DEF PromptsOf
    <3> QED
      BY <1>1, <1>7, <1>17, <3>1
  <2>2. NoTwo' /\ PromptsOf(up') \subseteq PromptsOf(up)
    BY <1>1, <1>2, <1>17, <2>1 DEF NoTwo
  <2> QED
    BY <1>17, <2>1, <2>2, FlightShrinks
<1>18. CASE RoutesReady \/ RoutesAsk \/ RoutesResume \/ RoutesSwitch \/ UplinkReturns
            \/ (Bounces /\ Sent.p = NoPrompt)
  <2>1. /\ UNCHANGED <<outbox, late, ran>> /\ ((up # <<>> /\ up' = Tail(up)) \/ UNCHANGED up)
    BY <1>18 DEF Bounces, RoutesReady, RoutesAsk, RoutesResume, RoutesSwitch, UplinkReturns,
       Routes, HostOnly, tab, taken
  <2>2. \/ UNCHANGED down
        \/ \E t \in {"bounce", "session", "snapshot", "refused", "error"}, id \in Nat :
             down' = Append(down, Frame(t, NoPrompt, id))
    <3>1. None \in Nat /\ session' \in Nat /\ (up # <<>> => Sent.id \in Nat)
      BY <1>2, HostStays DEF None, SentFrame
    <3> QED
      BY <1>18, <3>1 DEF Bounces, RoutesReady, RoutesAsk, RoutesResume, RoutesSwitch,
         UplinkReturns, Routes, Shows, Answers, Says
  <2>3. \A t \in {"bounce", "session", "snapshot", "refused", "error"}, id \in Nat :
          Frame(t, NoPrompt, id) \in HeardFrame /\ Frame(t, NoPrompt, id).p = NoPrompt
    BY OutboxAssumption DEF Frame, HeardFrame, TypeOK
  <2>4. CASE UNCHANGED down
    <3>1. NoTwo' /\ PromptsOf(up') \subseteq PromptsOf(up)
      BY <1>1, <1>2, <2>1, <2>4 DEF NoTwo
    <3> QED
      BY <2>1, <2>4, <3>1, FlightShrinks
  <2> QED
    BY <1>17, <2>1, <2>2, <2>3, <2>4
<1>19. CASE (Bounces \/ RoutesPrompt) /\ Sent.p \in Prompt
  <2> DEFINE p == Sent.p
  <2>1. /\ up # <<>> /\ up' = Tail(up) /\ UNCHANGED <<outbox, late>> /\ p \in Prompt
        /\ \E t \in {"bounce", "ack", "limit"} :
             /\ down' = Append(down, Frame(t, p, None))
             /\ ran' = IF t = "ack" THEN [ran EXCEPT ![p] = @ + 1] ELSE ran
    BY <1>19 DEF Bounces, RoutesPrompt, Routes, HostOnly, Answers, tab, taken
  <2>2. PICK t \in {"bounce", "ack", "limit"} :
             /\ down' = Append(down, Frame(t, p, None))
             /\ ran' = IF t = "ack" THEN [ran EXCEPT ![p] = @ + 1] ELSE ran
    BY <2>1
  <2>3. /\ p \in PromptsOf(up) /\ ran[p] = 0 /\ ran \in [Prompt -> Nat]
        /\ p \notin ToSet(outbox) \cup PromptsOf(down) \cup late
    BY <1>2, <2>1 DEF Flight, Apart, NotTaken, TypeOK
  <2>4. Frame(t, p, None) \in HeardFrame /\ Frame(t, p, None).p = p /\ Frame(t, p, None).type = t
    BY <2>1, OutboxAssumption DEF Frame, HeardFrame, TypeOK, None
  <2>5. /\ ToSet(down') = ToSet(down) \cup {Frame(t, p, None)} /\ Once(down')
        /\ PromptsOf(down') = PromptsOf(down) \cup {p}
    BY <1>7, <2>1, <2>2, <2>3, <2>4, OutboxAssumption
  <2>6. Once(up') /\ PromptsOf(up') = PromptsOf(up) \ {p}
    BY <1>2, <2>1
  <2>7. \A q \in Prompt : ran'[q] = IF q = p /\ t = "ack" THEN 1 ELSE ran[q]
    BY <2>1, <2>2, <2>3
  <2>8. NoTwo' /\ Apart'
    BY <1>1, <2>1, <2>3, <2>5, <2>6 DEF Flight, NoTwo, Apart
  <2>9. NotTaken' /\ RunsOnce'
    <3>1. ToSet(outbox) \cup PromptsOf(up) \cup late \subseteq Prompt
      BY DEF TypeOK
    <3> QED
      BY <2>1, <2>3, <2>6, <2>7, <3>1 DEF Flight, NotTaken, RunsOnce
  <2>10. Answered'
    <3> SUFFICES ASSUME NEW f \in ToSet(down'), f.p \in Prompt
                 PROVE  f.type = "ack" <=> ran'[f.p] > 0
      BY DEF Answered
    <3>1. CASE f = Frame(t, p, None)
      BY <2>3, <2>4, <2>7, <3>1
    <3>2. CASE f \in ToSet(down)
      <4>1. f.p # p
        BY <2>3, <3>2, PromptsIn
      <4> QED
        BY <2>7, <3>2, <4>1 DEF Flight, Answered
    <3> QED
      BY <2>5, <3>1, <3>2
  <2> QED
    BY <2>8, <2>9, <2>10 DEF Flight
<1>20. ASSUME NEW p \in Prompt, RoutesLate(p) PROVE Flight'
  <2>1. /\ UNCHANGED <<outbox, up, down>> /\ p \in late /\ late' = late \ {p}
        /\ ran' \in {ran, [ran EXCEPT ![p] = @ + 1]}
    BY <1>20 DEF RoutesLate, tab
  <2>2. /\ ran[p] = 0 /\ ran \in [Prompt -> Nat]
        /\ p \notin ToSet(outbox) \cup PromptsOf(up) \cup PromptsOf(down)
    BY <2>1 DEF Flight, Apart, NotTaken, TypeOK
  <2>3. \A q \in Prompt : ran'[q] = ran[q] \/ (q = p /\ ran'[q] = 1)
    BY <2>1, <2>2
  <2>4. NoTwo' /\ Apart'
    BY <2>1 DEF Flight, NoTwo, Apart
  <2>5. NotTaken' /\ RunsOnce'
    <3>1. ToSet(outbox) \cup PromptsOf(up) \cup late \subseteq Prompt
      BY DEF TypeOK
    <3>2. NotTaken'
      BY <2>1, <2>2, <2>3, <3>1 DEF Flight, NotTaken
    <3>3. RunsOnce'
      BY <2>3 DEF Flight, RunsOnce
    <3> QED
      BY <3>2, <3>3
  <2>6. Answered'
    <3> SUFFICES ASSUME NEW f \in ToSet(down), f.p \in Prompt
                 PROVE  f.type = "ack" <=> ran'[f.p] > 0
      BY <2>1 DEF Answered
    <3>1. f.p # p
      BY <2>2, PromptsIn
    <3> QED
      BY <2>3, <3>1 DEF Flight, Answered
  <2> QED
    BY <2>4, <2>5, <2>6 DEF Flight
<1>21. CASE UplinkDrops \/ Rests
  <2>1. UNCHANGED <<outbox, up, down, late, ran>>
    BY <1>21 DEF UplinkDrops, Rests, vars, tab, taken
  <2> QED
    BY <1>1, <2>1, FlightShrinks DEF NoTwo
<1>22. ASSUME Bounces \/ RoutesPrompt PROVE Sent.p \in Prompt \/ (Bounces /\ Sent.p = NoPrompt)
  BY <1>2, <1>22 DEF Bounces, RoutesPrompt, Routes, SentFrame
<1> QED
  BY <1>9, <1>10, <1>11, <1>12, <1>13, <1>14, <1>15, <1>16, <1>18, <1>19, <1>20, <1>21, <1>22
     DEF Next, PersonStep, SocketStep, HearStep, RelayStep

\* The account of a prompt never closes.
LEMMA TypedGrows ==
  ASSUME TypeInv, Flight, Next
  PROVE  Typed \subseteq Typed'
<1> USE DEF TypeInv, VarsTyped
<1>1. ran \in [Prompt -> Nat] /\ live \subseteq Prompt
  BY DEF TypeOK
<1>2. down # <<>> => /\ Heard \in HeardFrame /\ Heard \in ToSet(down)
                     /\ Heard.p \in Prompt => Heard.p \in PromptsOf(down)
  <2> HAVE down # <<>>
  <2>1. Heard \in HeardFrame /\ Heard \in ToSet(down)
    BY ToSetTail DEF Heard
  <2> QED
    BY <2>1, PromptsIn
<1>3. up # <<>> => Sent \in SentFrame
  BY ToSetTail DEF Sent
<1>4. ToSet(<<>>) = {}
  BY ToSetEmpty
<1>5. ASSUME NEW entries, NEW left, Abandons(entries, left)
      PROVE  over' = over \cup left /\ composer' = composer \cup ToSet(entries)
  BY <1>5 DEF Abandons, Finishes
<1>6. ASSUME NEW p \in Prompt, Types(p) PROVE Typed \subseteq Typed'
  <2>1. /\ live \subseteq live'
        /\ UNCHANGED outbox \/ outbox' = Append(outbox, p)
    BY <1>6 DEF Types
  <2>2. ToSet(Append(outbox, p)) = ToSet(outbox) \cup {p}
    BY ToSetAppend
  <2>3. UNCHANGED <<composer, over, late, ran>>
    BY <1>6 DEF Types, taken
  <2> QED
    BY <2>1, <2>2, <2>3 DEF Typed
<1>7. CASE Asks
  BY <1>7 DEF Asks, tab, taken, Typed
<1>8. CASE Switches
  <2>1. UNCHANGED <<ran, late>>
    BY <1>8 DEF Switches, taken
  <2>2. CASE CanSend
    BY <1>8, <2>1, <2>2 DEF Switches, Typed
  <2>3. CASE ~CanSend
    BY <1>5, <1>8, <2>1, <2>3 DEF Switches, Typed
  <2> QED
    BY <2>2, <2>3
<1>9. CASE Dials
  <2>1. UNCHANGED <<ran, late>> /\ Begins(outbox, live, TRUE)
    BY <1>9 DEF Dials, taken
  <2>2. CASE remembered = None
    BY <1>5, <2>1, <2>2 DEF Begins, Typed
  <2>3. CASE remembered # None
    BY <2>1, <2>3 DEF Begins, Typed
  <2> QED
    BY <2>2, <2>3
<1>10. CASE Closes \/ GivesUpSocket \/ Reloads
  <2>1. /\ UNCHANGED <<ran, outbox>> /\ late \subseteq late' /\ composer \subseteq composer'
        /\ over \subseteq over' /\ live \subseteq live' \cup composer' \cup over'
    BY <1>10 DEF Closes, GivesUpSocket, Reloads, Ends, tab, taken
  <2> QED
    BY <2>1 DEF Typed
<1>11. CASE HearsBounce
  <2> DEFINE bounced == live \cap {Heard.p}
             entries == IF bounced = {} THEN outbox ELSE Append(outbox, Heard.p)
  <2>1. ToSet(outbox) \cup bounced \subseteq ToSet(entries)
    BY <1>1, ToSetAppend
  <2>2. UNCHANGED <<ran, late>>
    BY <1>11 DEF HearsBounce, PageOnly, taken
  <2>3. \/ Begins(entries, live \ bounced, FALSE)
        \/ outbox' = entries /\ live' = live \ bounced /\ UNCHANGED <<composer, over>>
    BY <1>11 DEF HearsBounce
  <2> HIDE DEF entries, bounced
  <2>4. \/ outbox' = entries /\ live' = live \ bounced /\ UNCHANGED <<composer, over>>
        \/ over' = over \cup (live \ bounced) /\ composer' = composer \cup ToSet(entries)
    BY <1>5, <2>3 DEF Begins
  <2> QED
    BY <2>1, <2>2, <2>4 DEF Typed
<1>12. CASE HearsSession \/ HearsSnapshot
  <2>1. UNCHANGED <<ran, late>>
    BY <1>12 DEF HearsSession, HearsSnapshot, PageOnly, taken
  <2>2. \/ Abandons(outbox, live) \/ \E frames : Flushes(frames)
        \/ UNCHANGED <<outbox, live, composer, over>>
    BY <1>12 DEF HearsSession, HearsSnapshot, Confirms
  <2>3. CASE Abandons(outbox, live)
    BY <1>5, <2>1, <2>3 DEF Typed
  <2>4. ASSUME NEW frames, Flushes(frames) PROVE Typed \subseteq Typed'
    BY <2>1, <2>4 DEF Flushes, Finishes, Typed
  <2>5. CASE UNCHANGED <<outbox, live, composer, over>>
    BY <2>1, <2>5 DEF Typed
  <2> QED
    BY <2>2, <2>3, <2>4, <2>5
<1>13. CASE HearsRefused \/ HearsError
  <2>1. UNCHANGED <<ran, late>>
    BY <1>13 DEF HearsRefused, HearsError, PageOnly, taken
  <2>2. Abandons(outbox, live) \/ UNCHANGED <<outbox, live, composer, over>>
    BY <1>13 DEF HearsRefused, HearsError
  <2>3. CASE Abandons(outbox, live)
    BY <1>5, <2>1, <2>3 DEF Typed
  <2>4. CASE UNCHANGED <<outbox, live, composer, over>>
    BY <2>1, <2>4 DEF Typed
  <2> QED
    BY <2>2, <2>3, <2>4
<1>14. CASE HearsAck
  <2>1. UNCHANGED outbox
    BY <1>14, ApartAcks, AckLeavesOutbox DEF Flight
  <2>2. live' = live \ {Heard.p} /\ UNCHANGED <<composer, over, late, ran>>
    BY <1>14 DEF HearsAck, PageOnly, taken
  <2>3. Heard.p \in Prompt /\ ran[Heard.p] > 0
    BY <1>2, <1>14 DEF HearsAck, Hears, HeardFrame, Flight, Answered
  <2> QED
    BY <2>1, <2>2, <2>3 DEF Typed
<1>15. CASE HearsLimit
  <2>1. live' = live \ {Heard.p} /\ over' = over \cup {Heard.p}
        /\ UNCHANGED <<outbox, composer, late, ran>>
    BY <1>15 DEF HearsLimit, PageOnly, taken
  <2> QED
    BY <2>1 DEF Typed
<1>16. CASE GraceEnds
  <2>1. UNCHANGED <<outbox, composer, ran, late>>
    BY <1>16 DEF GraceEnds, PageOnly, taken
  <2>2. over' = over \cup live \/ (UNCHANGED live /\ UNCHANGED over)
    BY <1>16 DEF GraceEnds, Finishes
  <2> QED
    BY <2>1, <2>2 DEF Typed
<1>17. CASE FailTimer
  <2>1. Abandons(outbox, live) /\ UNCHANGED <<ran, late>>
    BY <1>17 DEF FailTimer, PageOnly, taken
  <2> QED
    BY <1>5, <2>1 DEF Typed
<1>18. CASE RelayStep \/ UplinkDrops \/ UplinkReturns \/ Rests
  <2>1. UNCHANGED <<outbox, live, composer, over, late>>
    BY <1>18 DEF RelayStep, Bounces, RoutesReady, RoutesAsk, RoutesResume, RoutesSwitch,
       RoutesPrompt, UplinkDrops, UplinkReturns, Rests, HostOnly, tab, vars
  <2>2. ran' = ran \/ (RoutesPrompt /\ ran' = [ran EXCEPT ![Sent.p] = @ + 1])
    BY <1>18 DEF RelayStep, Bounces, RoutesReady, RoutesAsk, RoutesResume, RoutesSwitch,
       RoutesPrompt, UplinkDrops, UplinkReturns, Rests, HostOnly, taken, vars
  <2>3. RoutesPrompt => Sent.p \in Prompt
    BY <1>3 DEF RoutesPrompt, Routes, SentFrame
  <2>4. \A p \in Prompt : ran[p] > 0 => ran'[p] > 0
    BY <1>1, <2>2, <2>3
  <2> QED
    BY <2>1, <2>4 DEF Typed
<1>19. ASSUME NEW p \in Prompt, RoutesLate(p) PROVE Typed \subseteq Typed'
  <2>1. /\ UNCHANGED <<outbox, live, composer>> /\ late' = late \ {p}
        /\ \/ ran' = [ran EXCEPT ![p] = @ + 1] /\ UNCHANGED over
           \/ over' = over \cup {p} /\ UNCHANGED ran
    BY <1>19 DEF RoutesLate, tab
  <2>2. \A q \in Prompt : ran[q] > 0 => ran'[q] > 0
    BY <1>1, <2>1
  <2>3. p \in Typed'
    BY <1>1, <2>1 DEF Typed
  <2> QED
    BY <2>1, <2>2, <2>3 DEF Typed
<1> QED
  BY <1>6, <1>7, <1>8, <1>9, <1>10, <1>11, <1>12, <1>13, <1>14, <1>15, <1>16, <1>17, <1>18,
     <1>19
     DEF Next, PersonStep, SocketStep, HearStep

\* What is in a sequence that got longer by one.
LEMMA AppendAdds ==
  ASSUME NEW S, NEW s \in Seq(S), NEW e
  PROVE  ToSet(Append(s, e)) \subseteq ToSet(s) \cup {e}
<1>1. e \in S \cup {e} /\ s \in Seq(S \cup {e})
  OBVIOUS
<1> QED
  BY <1>1, ToSetAppend

\* What a step does to a frame that is no prompt does nothing to the prompts.
LEMMA SaysNoPrompt ==
  ASSUME TypeInv, NEW t \in {"ask", "switch", "ready"}
  PROVE  PromptsOf(Append(up, Says(t))) = PromptsOf(up)
<1>1. Says(t) \in SentFrame /\ Says(t).p = NoPrompt
  BY SentFrames DEF TypeInv, Says, Frame
<1>2. ToSet(Append(up, Says(t))) = ToSet(up) \cup {Says(t)}
  BY <1>1, ToSetAppend DEF TypeInv, VarsTyped
<1> QED
  BY <1>1, <1>2 DEF PromptsOf

\* A prompt that is typed is held, or written.
LEMMA TypedMoves ==
  ASSUME TypeInv, NEW p \in Prompt, Types(p)
  PROVE  /\ DOMAIN meant' = DOMAIN meant \cup {p} /\ UNCHANGED down /\ p \in Typed'
         /\ PromptsOf(up') \subseteq PromptsOf(up) \cup {p}
         /\ \/ ToSet(outbox') = ToSet(outbox) \cup {p} /\ held' = held \cup {p} /\ up' = up
            \/ UNCHANGED <<outbox, held>> /\ up' = Append(up, Written(p, flaps))
<1> USE DEF TypeInv, VarsTyped
<1>1. DOMAIN meant' = DOMAIN meant \cup {p} /\ UNCHANGED down
  BY MeansIsTyped DEF Types
<1>2. ToSet(Append(outbox, p)) = ToSet(outbox) \cup {p}
  BY ToSetAppend
<1>3. \/ outbox' = Append(outbox, p) /\ held' = held \cup {p} /\ up' = up
      \/ p \in live' /\ UNCHANGED <<outbox, held>> /\ up' = Append(up, Written(p, flaps))
  BY DEF Types
<1>4. p \in Typed'
  BY <1>2, <1>3 DEF Typed
<1>5. PromptsOf(up') \subseteq PromptsOf(up) \cup {p}
  <2>1. Written(p, flaps) \in SentFrame /\ Written(p, flaps).p = p
    BY SentFrames DEF Written
  <2>2. ToSet(Append(up, Written(p, flaps))) = ToSet(up) \cup {Written(p, flaps)}
    BY <2>1, ToSetAppend
  <2>3. PromptsOf(Append(up, Written(p, flaps))) \subseteq PromptsOf(up) \cup {p}
    BY <2>1, <2>2 DEF PromptsOf
  <2> QED
    BY <1>3, <2>3
<1> QED
  BY <1>1, <1>2, <1>3, <1>4, <1>5

\* A bounced one is held.
LEMMA BouncedMoves ==
  ASSUME TypeInv, HearsBounce
  PROVE  LET bounced == live \cap {Heard.p}
         IN /\ meant' = Means(bounced) /\ DOMAIN meant' = DOMAIN meant \cup bounced
            /\ held' = held \cup bounced /\ bounced \subseteq PromptsOf(down)
            /\ ToSet(outbox') \subseteq ToSet(outbox) \cup bounced
            /\ PromptsOf(up') = PromptsOf(up) /\ PromptsOf(down') \subseteq PromptsOf(down)
<1> USE DEF TypeInv, VarsTyped
<1> DEFINE bounced == live \cap {Heard.p}
           entries == IF bounced = {} THEN outbox ELSE Append(outbox, Heard.p)
<1>1. /\ meant' = Means(bounced) /\ down' = Tail(down) /\ down # <<>>
      /\ held' = held \cup bounced /\ outbox' \in {entries, <<>>}
      /\ up' = up \/ up' = Append(up, Says("ready"))
  BY DEF HearsBounce, Hears, Probes, Begins, Abandons
<1>2. bounced \subseteq Prompt
  BY DEF TypeOK
<1>3. DOMAIN meant' = DOMAIN meant \cup bounced
  BY <1>1, <1>2, MeansIsTyped
<1>4. Heard \in ToSet(down) /\ ToSet(Tail(down)) \subseteq ToSet(down)
  BY <1>1, ToSetTail DEF Heard
<1>5. bounced \subseteq PromptsOf(down) /\ PromptsOf(down') \subseteq PromptsOf(down)
  BY <1>1, <1>2, <1>4, OutboxAssumption DEF PromptsOf
<1>6. ToSet(entries) \subseteq ToSet(outbox) \cup bounced
  BY <1>2, ToSetAppend
<1>7. ToSet(outbox') \subseteq ToSet(outbox) \cup bounced
  BY <1>1, <1>6, ToSetEmpty
<1>8. PromptsOf(up') = PromptsOf(up)
  BY <1>1, SaysNoPrompt
<1> QED
  BY <1>1, <1>3, <1>5, <1>7, <1>8

\* Any other step holds none, and writes what was held.
LEMMA OthersMove ==
  ASSUME TypeInv, Flight, Next, ~HearsBounce, \A p \in Prompt : ~Types(p)
  PROVE  /\ UNCHANGED <<meant, held>> /\ outbox' \in {outbox, <<>>}
         /\ PromptsOf(up') \subseteq PromptsOf(up) \cup ToSet(outbox)
         /\ PromptsOf(down') \subseteq PromptsOf(down) \cup PromptsOf(up)
<1> USE DEF TypeInv, VarsTyped
<1>1. up # <<>> =>
        /\ ToSet(Tail(up)) \subseteq ToSet(up) /\ Sent \in ToSet(up) /\ Sent \in SentFrame
        /\ Tail(up) \in Seq(SentFrame)
  BY ToSetTail DEF Sent
<1>2. down # <<>> => PromptsOf(Tail(down)) \subseteq PromptsOf(down)
  BY ToSetTail DEF PromptsOf
<1>3. PromptsOf(<<>>) = {}
  BY ToSetEmpty
<1>4. CASE Asks \/ Switches
  <2>1. UNCHANGED <<meant, held, down>> /\ outbox' \in {outbox, <<>>}
        /\ \E t \in {"ask", "switch", "ready"} : up' = Append(up, Says(t))
    BY <1>4 DEF Asks, Switches, tab, Abandons
  <2> QED
    BY <2>1, SaysNoPrompt
<1>5. CASE SocketStep
  <2>1. /\ UNCHANGED <<meant, held>> /\ outbox' \in {outbox, <<>>}
        /\ down' \in {down, <<>>} /\ up' \in {<<>>, <<Says("ready")>>}
    BY <1>5 DEF SocketStep, Dials, Closes, GivesUpSocket, Reloads, Ends, Begins, Abandons, tab
  <2>2. PromptsOf(<<Says("ready")>>) = {}
    BY DEF PromptsOf, ToSet, Says, Frame
  <2> QED
    BY <1>3, <2>1, <2>2
<1>6. CASE HearsSession \/ HearsSnapshot
  <2> DEFINE resume == IF remembered = None THEN <<>> ELSE <<Frame("resume", NoPrompt, remembered)>>
  <2>1. /\ UNCHANGED <<meant, held>> /\ down' = Tail(down) /\ down # <<>>
        /\ outbox' \in {outbox, <<>>}
        /\ \/ Confirms(Heard.id, <<>>) \/ Confirms(Heard.id, resume)
           \/ up' = up \o resume
    BY <1>6 DEF HearsSession, HearsSnapshot, Hears, Confirms, Flushes, Abandons
  <2>2. resume \in Seq(SentFrame) /\ <<>> \in Seq(SentFrame)
    BY SentFrames
  <2>3. PromptsOf(resume) = {} /\ Once(resume) /\ Once(<<>>)
    BY OutboxAssumption DEF PromptsOf, ToSet, Once, Frame
  <2> HIDE DEF resume
  <2>4. PromptsOf(up \o resume) = PromptsOf(up)
    <3>1. ToSet(up \o resume) = ToSet(up) \cup ToSet(resume)
      BY <2>2, ToSetConcat
    <3> QED
      BY <2>3, <3>1 DEF PromptsOf
  <2>5. PromptsOf(up') \subseteq PromptsOf(up) \cup ToSet(outbox)
    BY <1>3, <2>1, <2>2, <2>3, <2>4, ConfirmsMoves
  <2> QED
    BY <1>2, <2>1, <2>5
<1>7. CASE HearsRefused \/ HearsError \/ HearsAck \/ HearsLimit
  <2>1. AckedIsOut
    BY ApartAcks DEF Flight
  <2>2. /\ UNCHANGED <<meant, held>> /\ down' = Tail(down) /\ down # <<>>
        /\ up' = up \/ up' = Append(up, Says("ready"))
        /\ outbox' \in {outbox, <<>>}
    BY <1>7, <2>1, AckLeavesOutbox
       DEF HearsRefused, HearsError, HearsAck, HearsLimit, Hears, Abandons
  <2> QED
    BY <1>2, <2>2, SaysNoPrompt
<1>8. CASE RelayStep \/ UplinkReturns
  <2>1. /\ UNCHANGED <<meant, held, outbox>> /\ (UNCHANGED up \/ (up # <<>> /\ up' = Tail(up)))
        /\ \/ UNCHANGED down
           \/ \E t \in {"bounce", "session", "snapshot", "refused", "error", "ack", "limit"},
                 p \in {NoPrompt} \cup (IF up = <<>> THEN {} ELSE {Sent.p}), id \in Nat :
                down' = Append(down, Frame(t, p, id))
    <3>1. None \in Nat /\ session' \in Nat /\ (up # <<>> => Sent.id \in Nat)
      BY <1>1, HostStays DEF None, SentFrame
    <3> QED
      BY <1>8, <3>1 DEF RelayStep, Bounces, RoutesReady, RoutesAsk, RoutesResume, RoutesSwitch,
       RoutesPrompt, UplinkReturns, Routes, HostOnly, Shows, Answers, Says, tab
  <2>2. PromptsOf(up') \subseteq PromptsOf(up)
    BY <1>1, <2>1 DEF PromptsOf
  <2>3. PromptsOf(down') \subseteq PromptsOf(down) \cup PromptsOf(up)
    <3>1. \A f \in ToSet(down') : \/ f \in ToSet(down) \/ f.p = NoPrompt
                                  \/ up # <<>> /\ f.p = Sent.p
      <4>1. ASSUME NEW t, NEW p \in {NoPrompt} \cup (IF up = <<>> THEN {} ELSE {Sent.p}), NEW id,
                   down' = Append(down, Frame(t, p, id)), NEW f \in ToSet(down')
            PROVE  f \in ToSet(down) \/ f.p = NoPrompt \/ (up # <<>> /\ f.p = Sent.p)
        <5>1. f \in ToSet(down) \/ f = Frame(t, p, id)
          BY <4>1, AppendAdds
        <5>2. Frame(t, p, id).p = p
          BY DEF Frame
        <5> QED
          BY <4>1, <5>1, <5>2
      <4> QED
        BY <2>1, <4>1
    <3> QED
      BY <1>1, <3>1 DEF PromptsOf
  <2> QED
    BY <2>1, <2>2, <2>3
<1>9. CASE GraceEnds \/ FailTimer \/ UplinkDrops \/ Rests \/ \E p \in Prompt : RoutesLate(p)
  <2>1. UNCHANGED <<meant, held, up, down>> /\ outbox' \in {outbox, <<>>}
    BY <1>9 DEF GraceEnds, FailTimer, UplinkDrops, Rests, RoutesLate, Abandons, tab, vars
  <2> QED
    BY <2>1
<1> QED
  BY <1>4, <1>5, <1>6, <1>7, <1>8, <1>9 DEF Next, PersonStep, HearStep

LEMMA RecordedStays ==
  ASSUME TypeInv, Flight, Recorded, Next
  PROVE  Recorded'
<1> DEFINE All == DOMAIN meant \cup PromptsOf(up) \cup PromptsOf(down)
<1>1. All \subseteq Typed /\ Typed \subseteq Typed'
  BY TypedGrows DEF Recorded
<1>2. live \cup ToSet(outbox) \subseteq Typed
  BY DEF Typed
<1>3. ASSUME NEW p \in Prompt, Types(p) PROVE All' \subseteq All \cup {p} /\ p \in Typed'
  BY <1>3, TypedMoves
<1>4. CASE HearsBounce
  <2>1. All' \subseteq All \cup live
    BY <1>4, BouncedMoves
  <2> QED
    BY <1>1, <1>2, <2>1 DEF Recorded
<1>5. ASSUME ~HearsBounce, \A p \in Prompt : ~Types(p) PROVE All' \subseteq All \cup ToSet(outbox)
  BY <1>5, OthersMove
<1> QED
  BY <1>1, <1>2, <1>3, <1>4, <1>5 DEF Recorded

(***************************************************************************)
(* What holds of every run.                                                *)
(***************************************************************************)
OutboxInv == TypeInv /\ Flight /\ Recorded

LEMMA InitInv ==
  ASSUME Init
  PROVE  OutboxInv
<1>1. /\ ToSet(outbox) = {} /\ PromptsOf(up) = {} /\ PromptsOf(down) = {} /\ ToSet(down) = {}
      /\ Distinct(outbox) /\ Once(up) /\ Once(down) /\ DOMAIN meant = {}
  BY ToSetEmpty, NoneTwice DEF Init
<1>2. late = {} /\ \A p \in Prompt : ran[p] = 0
  BY DEF Init
<1>3. Flight /\ Recorded
  BY <1>1, <1>2 DEF Flight, NoTwo, Apart, NotTaken, Answered, RunsOnce, Recorded
<1> QED
  BY <1>3, InitIsTyped DEF OutboxInv

LEMMA StepInv ==
  ASSUME OutboxInv, [Next]_vars
  PROVE  OutboxInv'
<1>1. TypeInv'
  BY TypesStay, ApartAcks DEF OutboxInv, TypeInv, Flight
<1>2. CASE Next
  BY <1>1, <1>2, FlightStays, RecordedStays DEF OutboxInv
<1>3. CASE UNCHANGED vars
  <2>1. UNCHANGED <<outbox, live, composer, over, up, down, late, ran, meant>>
    BY <1>3 DEF vars, tab, taken
  <2>2. Flight' /\ Recorded'
    BY <2>1 DEF OutboxInv, Flight, NoTwo, Apart, NotTaken, Answered, RunsOnce, Recorded, Typed
  <2> QED
    BY <1>1, <2>2 DEF OutboxInv
<1> QED
  BY <1>2, <1>3

THEOREM Invariance == Spec => []OutboxInv
<1>1. Init => OutboxInv
  BY InitInv
<1>2. OutboxInv /\ [Next]_vars => OutboxInv'
  BY StepInv
<1> QED
  BY <1>1, <1>2, PTL DEF Spec

\* Every variable of the page, of its two channels and of the histories keeps its type.
THEOREM PageTypes == Spec => []TypeOK
<1>1. OutboxInv => TypeOK
  BY DEF OutboxInv, TypeInv, VarsTyped
<1> QED
  BY <1>1, Invariance, PTL

\* A prompt is taken once: what the page holds again was bounced, and what was bounced
\* was taken by nobody, on whichever socket (chat.html:1561-1580).
THEOREM TakenOnce == Spec => []RunsOnce
<1>1. OutboxInv => RunsOnce
  BY DEF OutboxInv, Flight
<1> QED
  BY <1>1, Invariance, PTL

\* No prompt that was typed is ever in none of the places that account for it
\* (chat.html:3861-3871).
THEOREM NoneVanishes == Spec => []Accounted
<1>1. OutboxInv => Accounted
  BY DEF OutboxInv, Recorded, Accounted
<1> QED
  BY <1>1, Invariance, PTL

(***************************************************************************)
(* Where a held prompt goes.  It is flushed when the host says that it has *)
(* the tab's conversation; that is still so when the host gets to it, as   *)
(* what is between asks for no other.                                      *)
(***************************************************************************)
\* What has been held was typed, and meant for somewhere.
HeldIsKnown ==
  /\ ToSet(outbox) \subseteq held /\ held \subseteq Typed
  /\ held \cup PromptsOf(up) \subseteq DOMAIN meant

\* A restore is for the tab's conversation.
RestoresTab == target # None => ~complete /\ (swayed \/ remembered = target)

Locates(f) == f.type \in {"session", "snapshot"}

\* Who resumes a conversation, or says where the host is, names one.
Named ==
  /\ \A f \in ToSet(up) : f.type = "resume" => f.id # None
  /\ \A f \in ToSet(down) : Locates(f) \/ f.type = "refused" => f.id # None

\* The host has said nothing, and nothing relies on what it said, since its uplink went.
SilentWhileAway ==
  uplink = "down" =>
    /\ \A f \in ToSet(down) : Locates(f) => f.at # flaps
    /\ \A f \in ToSet(up) : f.p \in held => f.at # flaps

\* The host is where it last said that it is, unless its uplink has gone since.
LastWordHolds ==
  \A k \in 1..Len(down) :
    Locates(down[k]) /\ down[k].at = flaps =>
      \/ session = down[k].id
      \/ \E l \in k + 1..Len(down) : down[l].type = "session" /\ down[l].id # down[k].id

\* Nothing leads away from where a held prompt is meant to go.
HeldStaysPut ==
  ~swayed => \A p \in ToSet(outbox) : meant[p] # None => Tab = meant[p] /\ Settled

\* Nor, once it is flushed, before it is taken.
Leads(f, c) == f.type # "switch" /\ (f.type = "resume" => f.id = c)

Flushed(f) == f.type = "prompt" /\ f.p \in held /\ f.at = flaps /\ meant[f.p] # None

FlushedGoesThere ==
  ~swayed =>
    \A k \in 1..Len(up) :
      Flushed(up[k]) =>
        /\ session = meant[up[k].p]
        /\ \A j \in 1..k - 1 : Leads(up[j], meant[up[k].p])

HeldInv ==
  /\ HeldIsKnown /\ RestoresTab /\ Named /\ SilentWhileAway /\ LastWordHolds
  /\ HeldStaysPut /\ FlushedGoesThere /\ HeldRunsWhereMeant

LEMMA HeldIsKnownStays ==
  ASSUME OutboxInv, HeldIsKnown, Next
  PROVE  HeldIsKnown'
<1> USE DEF OutboxInv
<1>1. Typed \subseteq Typed' /\ live \cup ToSet(outbox) \subseteq Typed
  BY TypedGrows DEF Typed
<1>2. ASSUME NEW p \in Prompt, Types(p) PROVE HeldIsKnown'
  <2>1. /\ DOMAIN meant' = DOMAIN meant \cup {p} /\ p \in Typed'
        /\ PromptsOf(up') \subseteq PromptsOf(up) \cup {p}
    BY <1>2, TypedMoves
  <2>2. \/ ToSet(outbox') = ToSet(outbox) \cup {p} /\ held' = held \cup {p}
        \/ outbox' = outbox /\ held' = held
    BY <1>2, TypedMoves
  <2>3. held' \subseteq held \cup {p} /\ ToSet(outbox') \subseteq held'
    BY <2>2 DEF HeldIsKnown
  <2> QED
    BY <1>1, <2>1, <2>3 DEF HeldIsKnown
<1>3. CASE HearsBounce
  BY <1>1, <1>3, BouncedMoves DEF HeldIsKnown
<1>4. ASSUME ~HearsBounce, \A p \in Prompt : ~Types(p) PROVE HeldIsKnown'
  <2>1. ToSet(outbox') \subseteq ToSet(outbox)
    BY <1>4, OthersMove, ToSetEmpty
  <2> QED
    BY <1>1, <1>4, <2>1, OthersMove DEF HeldIsKnown
<1> QED
  BY <1>2, <1>3, <1>4

\* What is known of a prompt that is held, or on its way, does not change meanwhile.
LEMMA HistoryStays ==
  ASSUME OutboxInv, HeldIsKnown, Next
  PROVE  /\ held \subseteq held'
         /\ \A p \in PromptsOf(up) : p \in held' => p \in held
         /\ \A p \in PromptsOf(up) \cup ToSet(outbox) : meant'[p] = meant[p]
<1> USE DEF OutboxInv
<1>1. PromptsOf(up) \cup ToSet(outbox) \subseteq DOMAIN meant \cap Typed
  BY DEF HeldIsKnown, Recorded
<1>2. ASSUME NEW P, meant' = Means(P), P \cap (PromptsOf(up) \cup ToSet(outbox)) = {}
      PROVE  \A p \in PromptsOf(up) \cup ToSet(outbox) : meant'[p] = meant[p]
  BY <1>1, <1>2 DEF Means
<1>3. ASSUME NEW p \in Prompt, Types(p)
      PROVE  /\ held \subseteq held'
             /\ \A q \in PromptsOf(up) : q \in held' => q \in held
             /\ \A q \in PromptsOf(up) \cup ToSet(outbox) : meant'[q] = meant[q]
  <2>1. p \notin Typed /\ meant' = Means({p}) /\ held' \subseteq held \cup {p} /\ held \subseteq held'
    BY <1>3 DEF Types
  <2> QED
    BY <1>1, <1>2, <2>1
<1>4. CASE HearsBounce
  <2> DEFINE bounced == live \cap {Heard.p}
  <2>1. /\ bounced \subseteq PromptsOf(down) /\ meant' = Means(bounced)
        /\ held' = held \cup bounced
    BY <1>4, BouncedMoves
  <2>2. bounced \cap (PromptsOf(up) \cup ToSet(outbox)) = {}
    BY <2>1 DEF Flight, Apart
  <2> HIDE DEF bounced
  <2> QED
    BY <1>2, <2>1, <2>2
<1>5. ASSUME ~HearsBounce, \A p \in Prompt : ~Types(p) PROVE UNCHANGED <<meant, held>>
  BY <1>5, OthersMove
<1> QED
  BY <1>3, <1>4, <1>5

LEMMA RestoresTabStays ==
  ASSUME OutboxInv, RestoresTab, Next
  PROVE  RestoresTab'
<1> USE DEF OutboxInv, TypeInv, VarsTyped
<1>1. ASSUME NEW entries, NEW left, Abandons(entries, left) PROVE target' = None
  BY <1>1 DEF Abandons, Finishes
<1>2. ASSUME NEW entries, NEW left, NEW timed, Begins(entries, left, timed), UNCHANGED remembered
      PROVE  RestoresTab'
  BY <1>1, <1>2 DEF Begins, RestoresTab
<1>3. ASSUME UNCHANGED <<remembered, target, complete>>, swayed => swayed' PROVE RestoresTab'
  BY <1>3 DEF RestoresTab
<1>4. CASE Dials
  BY <1>2, <1>4 DEF Dials
<1>5. CASE Switches
  <2>1. CASE CanSend
    BY <1>5, <2>1 DEF Switches, CanSend, restore, RestoresTab
  <2>2. CASE ~CanSend
    BY <1>1, <1>5, <2>2 DEF Switches, RestoresTab
  <2> QED
    BY <2>1, <2>2
<1>6. CASE Reloads
  BY <1>6 DEF Reloads, RestoresTab
<1>7. CASE HearsBounce
  BY <1>2, <1>3, <1>7 DEF HearsBounce
<1>8. ASSUME NEW id, NEW frames, Confirms(id, frames) PROVE RestoresTab'
  <2>1. CASE target # None /\ id = target
    BY <1>8, <2>1 DEF Confirms, Flushes, Finishes, RestoresTab
  <2>2. CASE ~(target # None /\ id = target) /\ target # None /\ marked
    BY <1>8, <2>2 DEF Confirms, RestoresTab
  <2>3. CASE ~(target # None /\ id = target) /\ ~(target # None /\ marked)
    <3>1. /\ UNCHANGED <<target, complete>> /\ remembered' \in {id, None}
          /\ swayed' = (swayed \/ (Tab \notin {None, remembered'} /\ (target # None \/ Waits)))
      BY <1>8, <2>3 DEF Confirms, Remembers
    <3> QED
      BY <2>3, <3>1 DEF RestoresTab, Tab
  <2> QED
    BY <2>1, <2>2, <2>3
<1>9. CASE HearsSession \/ HearsSnapshot
  BY <1>1, <1>8, <1>9 DEF HearsSession, HearsSnapshot, RestoresTab
<1>10. CASE HearsRefused
  <2>1. CASE target = Heard.id
    BY <1>1, <1>10, <2>1 DEF HearsRefused, RestoresTab
  <2>2. CASE target # Heard.id
    <3>1. /\ UNCHANGED <<target, complete>> /\ (swayed => swayed')
          /\ remembered # Heard.id => UNCHANGED remembered
      BY <1>10, <2>2 DEF HearsRefused
    <3> QED
      BY <2>2, <3>1 DEF RestoresTab
  <2> QED
    BY <2>1, <2>2
<1>11. CASE GraceEnds
  <2>1. UNCHANGED <<remembered, swayed>>
        /\ (target' = None \/ UNCHANGED <<target, complete>>)
    BY <1>11 DEF GraceEnds, Finishes
  <2> QED
    BY <2>1 DEF RestoresTab
<1>12. CASE FailTimer
  BY <1>1, <1>12 DEF FailTimer, RestoresTab
<1>13. CASE Asks \/ (\E p \in Prompt : Types(p)) \/ Closes \/ GivesUpSocket \/ HearsError \/ HearsAck
            \/ HearsLimit \/ RelayStep \/ UplinkDrops \/ UplinkReturns \/ Rests
            \/ \E p \in Prompt : RoutesLate(p)
  <2>1. UNCHANGED <<remembered, target, complete, swayed>>
    BY <1>13 DEF Asks, Types, Closes, GivesUpSocket, HearsError, HearsAck, HearsLimit,
       RelayStep,
       Bounces, RoutesReady, RoutesAsk, RoutesResume, RoutesSwitch, RoutesPrompt, HostOnly,
       UplinkDrops, UplinkReturns, Rests, RoutesLate, vars, tab, restore
  <2> QED
    BY <1>3, <2>1
<1> QED
  BY <1>4, <1>5, <1>6, <1>7, <1>9, <1>10, <1>11, <1>12, <1>13
     DEF Next, PersonStep, SocketStep, HearStep

(***************************************************************************)
(* New frames.                                                             *)
(***************************************************************************)
\* A flush writes what is held, on the word of the frame that was heard.
FromOutbox(f) ==
  /\ HearsSession \/ HearsSnapshot
  /\ f.type = "prompt" /\ f.p \in ToSet(outbox) /\ f.at = Heard.at
  /\ down # <<>> /\ Locates(Heard) /\ Heard.id = target /\ target # None

LEMMA ConfirmsWrites ==
  ASSUME TypeInv, HearsSession \/ HearsSnapshot,
         NEW frames \in Seq(SentFrame), Confirms(Heard.id, frames), NEW f \in ToSet(up')
  PROVE  f \in ToSet(up) \cup ToSet(frames) \/ FromOutbox(f)
<1> USE DEF TypeInv, VarsTyped
<1> DEFINE at == Head(down).at
           u == up \o frames
<1>1. u \in Seq(SentFrame) /\ ToSet(u) = ToSet(up) \cup ToSet(frames)
  BY ToSetConcat
<1> HIDE DEF u
<1>2. down # <<>> /\ Locates(Heard)
  BY DEF HearsSession, HearsSnapshot, Hears, Locates
<1>3. CASE target # None /\ Heard.id = target
  <2>1. up' = u \o Letters(at)
    BY <1>3 DEF Confirms, Flushes, Letters, u
  <2>2. Heard \in HeardFrame /\ flaps \in Nat
    BY <1>2, ToSetTail, OutboxAssumption DEF TypeOK, Heard
  <2>3. at \in Nat
    BY <2>2 DEF HeardFrame, Heard
  <2>4. /\ Letters(at) \in Seq(SentFrame)
        /\ \A g \in ToSet(Letters(at)) : g.type = "prompt" /\ g.p \in ToSet(outbox) /\ g.at = at
    BY <2>2, <2>3, LettersAre
  <2>5. ToSet(up') = ToSet(u) \cup ToSet(Letters(at))
    BY <1>1, <2>1, <2>4, ToSetConcat
  <2> QED
    BY <1>1, <1>2, <1>3, <2>4, <2>5 DEF FromOutbox, Heard
<1>4. CASE ~(target # None /\ Heard.id = target)
  BY <1>1, <1>4 DEF Confirms, u
<1> QED
  BY <1>3, <1>4

\* What the page may send in a step.
Sends(f) ==
  \/ f.type \in {"ask", "switch", "ready"} /\ f.p = NoPrompt /\ (f.type = "switch" => Switches)
  \/ /\ f.type = "resume" /\ f.id = remembered /\ remembered # None /\ f.p = NoPrompt
     /\ HearsSnapshot
  \/ \E p \in Prompt : Types(p) /\ UNCHANGED held /\ f.p = p /\ f.type = "prompt"
  \/ FromOutbox(f)

LEMMA NewAbove ==
  ASSUME TypeInv, Next
  PROVE  \A f \in ToSet(up') : f \in ToSet(up) \/ Sends(f)
<1> USE DEF TypeInv, VarsTyped
<1>1. up # <<>> => ToSet(Tail(up)) \subseteq ToSet(up)
  BY ToSetTail
<1>2. \A t \in {"ask", "switch", "ready"} :
        Says(t).type = t /\ Says(t).p = NoPrompt
  BY DEF Says, Frame
<1>3. \A f : ToSet(Append(up, f)) \subseteq ToSet(up) \cup {f}
  BY AppendAdds
<1>4. ASSUME NEW t \in {"ask", "ready"}, up' = Append(up, Says(t)) \/ up' = up,
             NEW f \in ToSet(up')
      PROVE  f \in ToSet(up) \/ Sends(f)
  <2>1. Sends(Says(t))
    BY <1>2 DEF Sends
  <2>2. f \in ToSet(up) \cup {Says(t)}
    BY <1>3, <1>4
  <2> QED
    BY <2>1, <2>2
<1>5. ASSUME NEW p \in Prompt, Types(p), NEW f \in ToSet(up') PROVE f \in ToSet(up) \/ Sends(f)
  <2>1. UNCHANGED up \/ (up' = Append(up, Written(p, flaps)) /\ UNCHANGED held)
    BY <1>5 DEF Types
  <2>2. Written(p, flaps).p = p /\ Written(p, flaps).type = "prompt"
    BY DEF Written
  <2> QED
    BY <1>3, <1>5, <2>1, <2>2 DEF Sends
<1>6. ASSUME Asks, NEW f \in ToSet(up') PROVE f \in ToSet(up) \/ Sends(f)
  BY <1>4, <1>6 DEF Asks
<1>7. ASSUME Switches, NEW f \in ToSet(up') PROVE f \in ToSet(up) \/ Sends(f)
  <2>1. f \in ToSet(up) \/ f = Says("switch")
    BY <1>3, <1>7 DEF Switches
  <2> QED
    BY <1>2, <1>7, <2>1 DEF Sends
<1>8. ASSUME SocketStep, NEW f \in ToSet(up') PROVE f \in ToSet(up) \/ Sends(f)
  <2>1. up' \in {<<>>, <<Says("ready")>>}
    BY <1>8 DEF SocketStep, Dials, Closes, GivesUpSocket, Reloads, Ends
  <2>2. f = Says("ready")
    BY <1>8, <2>1 DEF ToSet
  <2> QED
    BY <1>2, <2>2 DEF Sends
<1>9. ASSUME HearsBounce \/ HearsRefused \/ HearsError \/ HearsAck \/ HearsLimit, NEW f \in ToSet(up')
      PROVE  f \in ToSet(up) \/ Sends(f)
  <2>1. up' = up \/ up' = Append(up, Says("ready"))
    BY <1>9 DEF HearsBounce, HearsRefused, HearsError, HearsAck, HearsLimit, Probes
  <2> QED
    BY <1>4, <1>9, <2>1
<1>10. ASSUME HearsSession, NEW f \in ToSet(up') PROVE f \in ToSet(up) \/ Sends(f)
  <2>1. <<>> \in Seq(SentFrame) /\ Confirms(Heard.id, <<>>) /\ ToSet(<<>>) = {}
    BY <1>10, ToSetEmpty DEF HearsSession
  <2> QED
    BY <1>10, <2>1, ConfirmsWrites DEF Sends
<1>11. ASSUME HearsSnapshot, NEW f \in ToSet(up') PROVE f \in ToSet(up) \/ Sends(f)
  <2> DEFINE resume == IF remembered = None THEN <<>> ELSE <<Frame("resume", NoPrompt, remembered)>>
  <2>1. resume \in Seq(SentFrame)
    BY SentFrames
  <2>2. \A g \in ToSet(resume) :
          g.type = "resume" /\ g.p = NoPrompt /\ g.id = remembered /\ remembered # None
    BY DEF ToSet, Frame
  <2>3. \A g \in ToSet(resume) : Sends(g)
    BY <1>11, <2>2 DEF Sends
  <2>4. up' = up \o resume \/ Confirms(Heard.id, resume)
    BY <1>11 DEF HearsSnapshot
  <2> HIDE DEF resume
  <2>5. f \in ToSet(up) \cup ToSet(resume) \/ FromOutbox(f)
    <3>1. ToSet(up \o resume) = ToSet(up) \cup ToSet(resume)
      BY <2>1, ToSetConcat
    <3>2. CASE up' = up \o resume
      BY <1>11, <3>1, <3>2
    <3>3. CASE Confirms(Heard.id, resume)
      BY <1>11, <2>1, <3>3, ConfirmsWrites
    <3> QED
      BY <2>4, <3>2, <3>3
  <2> QED
    BY <2>3, <2>5 DEF Sends
<1>12. ASSUME ~(PersonStep \/ SocketStep \/ HearStep), NEW f \in ToSet(up') PROVE f \in ToSet(up)
  <2>1. UNCHANGED up \/ (up # <<>> /\ up' = Tail(up))
    BY <1>12 DEF Next, RelayStep, Bounces, RoutesReady, RoutesAsk, RoutesResume, RoutesSwitch,
       RoutesPrompt, Routes, GraceEnds, FailTimer, UplinkDrops, UplinkReturns, HostOnly, Rests,
       RoutesLate, vars
  <2> QED
    BY <1>1, <1>12, <2>1
<1> QED
  BY <1>5, <1>6, <1>7, <1>8, <1>9, <1>10, <1>11, <1>12 DEF PersonStep, HearStep

\* What the relay or the host may answer in a step.
AnswersWith(f) ==
  /\ f \in HeardFrame /\ f.at = flaps
  /\ Locates(f) \/ f.type = "refused" => f.id # None
  /\ Locates(f) => f.id = session' /\ uplink' = "up"
  /\ f.type = "session" => RoutesSwitch \/ (RoutesResume /\ f.id = Sent.id)

LEMMA NewBelow ==
  ASSUME TypeInv, Named, RelayStep \/ UplinkReturns
  PROVE  \/ UNCHANGED down
         \/ \E f : down' = Append(down, f) /\ AnswersWith(f)
<1> USE DEF TypeInv, VarsTyped
<1>1. sessions \in Nat /\ session \in 0..sessions /\ None \notin {sessions + 1}
      /\ flaps \in Nat
  BY OutboxAssumption DEF TypeOK, None
<1>2. up # <<>> => Sent \in SentFrame /\ Sent \in ToSet(up)
  BY ToSetTail DEF Sent
<1>3. \A t, p, id : LET f == Frame(t, p, id)
                    IN f.type = t /\ f.p = p /\ f.id = id /\ f.at = flaps
  BY DEF Frame
<1>4. Says("error") \in HeardFrame /\ Says("error").type = "error" /\ Says("error").at = flaps
  BY <1>1, HeardFrames DEF Says, Frame
<1>5. AnswersWith(Says("error"))
  BY <1>4 DEF AnswersWith, Locates
<1>6. ASSUME NEW p \in Prompt \cup {NoPrompt}, NEW t \in {"bounce", "ack", "limit"},
             t = "bounce" \/ p \in Prompt
      PROVE  AnswersWith(Frame(t, p, None))
  <2>1. Frame(t, p, None) \in HeardFrame
    BY <1>1, <1>6, HeardFrames
  <2> QED
    BY <1>3, <2>1 DEF AnswersWith, Locates
<1>7. ASSUME session' \in Nat, session' # None, uplink' = "up"
      PROVE  AnswersWith(Frame("snapshot", NoPrompt, session'))
  <2>1. Frame("snapshot", NoPrompt, session') \in HeardFrame
    BY <1>1, <1>7, HeardFrames
  <2> QED
    BY <1>3, <1>7, <2>1 DEF AnswersWith, Locates
<1>8. CASE Bounces
  <2>1. down' = Append(down, Frame("bounce", Sent.p, None)) /\ Sent.p \in Prompt \cup {NoPrompt}
    BY <1>2, <1>8 DEF Bounces, Answers, SentFrame
  <2> QED
    BY <1>6, <2>1
<1>9. CASE RoutesReady
  <2>1. session' \in Nat /\ session' # None /\ uplink' = "up"
    BY <1>1, <1>9 DEF RoutesReady, Binds, None
  <2>2. down' = Append(down, Says("error")) \/ down' = Append(down, Frame("snapshot", NoPrompt, session'))
    BY <1>9 DEF RoutesReady, Shows, Answers
  <2> QED
    BY <1>5, <1>7, <2>1, <2>2
<1>10. CASE RoutesAsk
  BY <1>5, <1>10 DEF RoutesAsk, Answers
<1>11. CASE RoutesResume
  <2>1. Sent.id \in Nat /\ Sent.id # None /\ uplink' = "up"
    BY <1>2, <1>11 DEF RoutesResume, Routes, SentFrame, Named
  <2>2. \A t \in {"session", "refused"} : Frame(t, NoPrompt, Sent.id) \in HeardFrame
    BY <1>1, <2>1, HeardFrames
  <2>3. session' = Sent.id => AnswersWith(Frame("session", NoPrompt, Sent.id))
    BY <1>3, <1>11, <2>1, <2>2 DEF AnswersWith, Locates
  <2>4. AnswersWith(Frame("refused", NoPrompt, Sent.id))
    BY <1>3, <2>1, <2>2 DEF AnswersWith, Locates
  <2> QED
    BY <1>11, <2>3, <2>4 DEF RoutesResume, Answers
<1>12. CASE RoutesSwitch
  <2>1. session' \in Nat /\ session' # None /\ uplink' = "up"
    BY <1>1, <1>12 DEF RoutesSwitch, Binds, None
  <2>2. Frame("session", NoPrompt, session') \in HeardFrame
    BY <1>1, <2>1, HeardFrames
  <2>3. AnswersWith(Frame("session", NoPrompt, session'))
    BY <1>3, <1>12, <2>1, <2>2 DEF AnswersWith, Locates
  <2> QED
    BY <1>12, <2>3 DEF RoutesSwitch, Answers
<1>13. CASE RoutesPrompt
  <2>1. Sent.p \in Prompt
    BY <1>2, <1>13 DEF RoutesPrompt, Routes, SentFrame
  <2> QED
    BY <1>6, <1>13, <2>1 DEF RoutesPrompt, Answers
<1>14. CASE UplinkReturns
  <2>1. CASE UNCHANGED down
    BY <2>1
  <2>2. CASE (Binds(TRUE) \/ (session # None /\ Binds(FALSE))) /\ Shows
    <3>1. session' \in Nat /\ session' # None /\ uplink' = "up"
      BY <1>1, <1>14, <2>2 DEF UplinkReturns, Binds, None
    <3> QED
      BY <1>5, <1>7, <2>2, <3>1 DEF Shows, Answers
  <2> QED
    BY <1>14, <2>1, <2>2 DEF UplinkReturns
<1> QED
  BY <1>8, <1>9, <1>10, <1>11, <1>12, <1>13, <1>14 DEF RelayStep

\* Nobody else does.
LEMMA NothingBelow ==
  ASSUME TypeInv, Next, ~RelayStep, ~UplinkReturns
  PROVE  ToSet(down') \subseteq ToSet(down)
<1>1. \/ UNCHANGED down \/ down' = <<>>
      \/ down # <<>> /\ down' = Tail(down)
  BY DEF Next, PersonStep, Asks, Switches, Types, SocketStep, Dials, Closes, GivesUpSocket,
     Reloads, Ends, HearStep, HearsBounce, HearsSession, HearsSnapshot, HearsRefused, HearsError,
     HearsAck, HearsLimit, Hears, GraceEnds, FailTimer, UplinkDrops, RoutesLate, Rests, vars
<1> QED
  BY <1>1, ToSetEmpty, ToSetTail DEF TypeInv, VarsTyped

\* A host that takes a connection elsewhere says so, unless it had it nowhere.
LEMMA SessionMoves ==
  ASSUME RelayStep
  PROVE  \/ UNCHANGED session
         \/ session = None /\ RoutesReady
         \/ \E f : down' = Append(down, f) /\ f.type = "session" /\ f.id = session'
<1>1. CASE RoutesReady
  BY <1>1 DEF RoutesReady, Binds
<1>2. CASE Bounces \/ RoutesAsk \/ RoutesPrompt
  BY <1>2 DEF Bounces, RoutesAsk, RoutesPrompt, host
<1>3. CASE RoutesResume \/ RoutesSwitch
  <2>1. UNCHANGED session \/ down' = Append(down, Frame("session", NoPrompt, session'))
    BY <1>3 DEF RoutesResume, RoutesSwitch, Answers
  <2>2. LET f == Frame("session", NoPrompt, session') IN f.type = "session" /\ f.id = session'
    BY DEF Frame
  <2> QED
    BY <2>1, <2>2
<1> QED
  BY <1>1, <1>2, <1>3 DEF RelayStep

LEMMA NewAnswers ==
  ASSUME TypeInv, Named, RelayStep \/ UplinkReturns
  PROVE  \A f \in ToSet(down') : f \in ToSet(down) \/ AnswersWith(f)
<1>1. CASE UNCHANGED down
  BY <1>1
<1>2. ASSUME NEW f, down' = Append(down, f), AnswersWith(f)
      PROVE  \A g \in ToSet(down') : g \in ToSet(down) \/ AnswersWith(g)
  <2>1. ToSet(down') \subseteq ToSet(down) \cup {f}
    BY <1>2, AppendAdds DEF TypeInv, VarsTyped
  <2> QED
    BY <1>2, <2>1
<1> QED
  BY <1>1, <1>2, NewBelow

LEMMA NamedStays ==
  ASSUME OutboxInv, Named, Next
  PROVE  Named'
<1> USE DEF OutboxInv
<1>1. ASSUME NEW f \in ToSet(up'), f.type = "resume" PROVE f.id # None
  <2>1. f \in ToSet(up) \/ Sends(f)
    BY NewAbove
  <2> QED
    BY <1>1, <2>1 DEF Sends, FromOutbox, Named
<1>2. ASSUME NEW f \in ToSet(down'), Locates(f) \/ f.type = "refused" PROVE f.id # None
  <2>1. CASE RelayStep \/ UplinkReturns
    <3>1. f \in ToSet(down) \/ AnswersWith(f)
      BY <1>2, <2>1, NewAnswers
    <3> QED
      BY <1>2, <3>1 DEF AnswersWith, Named
  <2>2. CASE ~(RelayStep \/ UplinkReturns)
    BY <1>2, <2>2, NothingBelow DEF Named
  <2> QED
    BY <2>1, <2>2
<1> QED
  BY <1>1, <1>2 DEF Named

LEMMA SilentStays ==
  ASSUME OutboxInv, HeldIsKnown, Named, SilentWhileAway, Next
  PROVE  SilentWhileAway'
<1> USE DEF OutboxInv
<1>1. CASE UplinkDrops
  <2>1. flaps' = flaps + 1 /\ flaps \in Nat /\ UNCHANGED <<up, down>>
    BY <1>1, OutboxAssumption DEF UplinkDrops, TypeInv, VarsTyped, TypeOK
  <2>2. \A f \in ToSet(up) \cup ToSet(down) : f.at # flaps + 1
    BY <2>1 DEF TypeInv, Dated
  <2> QED
    BY <2>1, <2>2 DEF SilentWhileAway
<1>2. ASSUME ~UplinkDrops, uplink' = "down" PROVE SilentWhileAway'
  <2>1. uplink = "down" /\ UNCHANGED flaps
    BY <1>2 DEF Next, PersonStep, Asks, Switches, Types, SocketStep, Dials, Closes,
       GivesUpSocket,
       Reloads, HearStep, HearsBounce, HearsSession, HearsSnapshot, HearsRefused, HearsError,
       HearsAck, HearsLimit, GraceEnds, FailTimer, PageOnly, RelayStep, Bounces, RoutesReady,
       RoutesAsk, RoutesResume, RoutesSwitch, RoutesPrompt, HostOnly, UplinkReturns, RoutesLate,
       Rests, Ends, host, vars
  <2>2. ASSUME NEW f \in ToSet(down'), Locates(f) PROVE f.at # flaps
    <3>1. CASE RelayStep \/ UplinkReturns
      <4>1. f \in ToSet(down) \/ AnswersWith(f)
        BY <2>2, <3>1, NewAnswers
      <4> QED
        BY <1>2, <2>1, <2>2, <4>1 DEF AnswersWith, SilentWhileAway
    <3>2. CASE ~(RelayStep \/ UplinkReturns)
      BY <2>1, <2>2, <3>2, NothingBelow DEF SilentWhileAway
    <3> QED
      BY <3>1, <3>2
  <2>3. ASSUME NEW f \in ToSet(up'), f.p \in held' PROVE f.at # flaps
    <3>1. f.p \in Prompt
      BY <2>3, TypesStay, ApartAcks DEF TypeInv, VarsTyped, TypeOK, Flight
    <3>2. CASE f \in ToSet(up)
      <4>1. f.p \in held
        BY <2>3, <3>1, <3>2, PromptsIn, HistoryStays
      <4> QED
        BY <2>1, <3>2, <4>1 DEF SilentWhileAway
    <3>3. CASE Sends(f)
      <4>1. CASE FromOutbox(f)
        <5>1. Heard \in ToSet(down)
          BY <4>1, ToSetTail DEF FromOutbox, Heard, TypeInv, VarsTyped
        <5> QED
          BY <2>1, <4>1, <5>1 DEF FromOutbox, SilentWhileAway
      <4>2. ASSUME NEW p \in Prompt, Types(p), UNCHANGED held, f.p = p PROVE FALSE
        BY <2>3, <4>2 DEF Types, HeldIsKnown
      <4> QED
        BY <3>1, <3>3, <4>1, <4>2, OutboxAssumption DEF Sends
    <3> QED
      BY <2>3, <3>2, <3>3, NewAbove
  <2> QED
    BY <2>1, <2>2, <2>3 DEF SilentWhileAway
<1> QED
  BY <1>1, <1>2 DEF SilentWhileAway

LEMMA LastWordStays ==
  ASSUME OutboxInv, Named, SilentWhileAway, LastWordHolds, Next
  PROVE  LastWordHolds'
<1> USE DEF OutboxInv, TypeInv, VarsTyped
<1>1. CASE UNCHANGED <<session, down, flaps>>
  BY <1>1 DEF LastWordHolds
<1>2. CASE down' = <<>>
  BY <1>2 DEF LastWordHolds
<1>3. CASE down # <<>> /\ down' = Tail(down) /\ UNCHANGED <<session, flaps>>
  <2> DEFINE t == Tail(down)
  <2>1. /\ Len(down) \in Nat \ {0} /\ Len(t) = Len(down) - 1
        /\ \A i \in 1..Len(down) - 1 : t[i] = down[i + 1]
    BY <1>3
  <2> HIDE DEF t
  <2> SUFFICES ASSUME NEW k \in 1..Len(down'), Locates(down'[k]), down'[k].at = flaps'
               PROVE  \/ session' = down'[k].id
                      \/ \E l \in k + 1..Len(down') :
                           down'[l].type = "session" /\ down'[l].id # down'[k].id
    BY DEF LastWordHolds
  <2>2. k + 1 \in 1..Len(down) /\ down'[k] = down[k + 1]
    BY <1>3, <2>1 DEF t
  <2>3. CASE session = down[k + 1].id
    BY <1>3, <2>2, <2>3
  <2>4. CASE session # down[k + 1].id
    <3>1. PICK l \in k + 1 + 1..Len(down) : down[l].type = "session" /\ down[l].id # down[k + 1].id
      BY <1>3, <2>2, <2>4 DEF LastWordHolds
    <3>2. l - 1 \in k + 1..Len(down') /\ down'[l - 1] = down[l]
      BY <1>3, <2>1, <3>1 DEF t
    <3> QED
      BY <2>2, <3>1, <3>2
  <2> QED
    BY <2>3, <2>4
<1>4. CASE UplinkDrops
  <2>1. flaps' = flaps + 1 /\ flaps \in Nat /\ UNCHANGED down
    BY <1>4, OutboxAssumption DEF UplinkDrops, TypeOK
  <2>2. \A k \in 1..Len(down) : down[k] \in ToSet(down)
    BY DEF ToSet
  <2> QED
    BY <2>1, <2>2 DEF Dated, LastWordHolds
<1>5. CASE RelayStep \/ UplinkReturns
  <2>1. UNCHANGED flaps /\ session \in 0..sessions /\ sessions \in Nat
    BY <1>5 DEF RelayStep, Bounces, RoutesReady, RoutesAsk, RoutesResume, RoutesSwitch,
       RoutesPrompt, HostOnly, UplinkReturns, TypeOK
  <2>2. CASE UplinkReturns /\ uplink = "down"
    <3>1. \A k \in 1..Len(down) : Locates(down[k]) => down[k].at # flaps
      BY <2>2 DEF SilentWhileAway, ToSet
    <3>2. CASE UNCHANGED down
      BY <2>1, <3>1, <3>2 DEF LastWordHolds
    <3>3. ASSUME NEW f, down' = Append(down, f), AnswersWith(f) PROVE LastWordHolds'
      <4> DEFINE t == Append(down, f)
      <4>1. /\ Len(t) = Len(down) + 1 /\ Len(down) \in Nat /\ t[Len(down) + 1] = f
            /\ \A i \in 1..Len(down) : t[i] = down[i]
        OBVIOUS
      <4> HIDE DEF t
      <4>2. \A k \in 1..Len(t) : Locates(t[k]) /\ t[k].at = flaps => session' = t[k].id
        BY <3>1, <3>3, <4>1 DEF AnswersWith
      <4> QED
        BY <2>1, <3>3, <4>2 DEF LastWordHolds, t
    <3> QED
      BY <1>5, <3>2, <3>3, NewBelow
  <2>3. ASSUME NEW f, down' = Append(down, f), Locates(f) => f.id = session',
               \/ session' = session \/ session = None
               \/ f.type = "session" /\ f.id = session'
        PROVE  LastWordHolds'
    <3> DEFINE t == Append(down, f)
    <3>1. /\ Len(t) = Len(down) + 1 /\ Len(down) \in Nat /\ t[Len(down) + 1] = f
          /\ \A i \in 1..Len(down) : t[i] = down[i]
      OBVIOUS
    <3> HIDE DEF t
    <3> SUFFICES ASSUME NEW k \in 1..Len(t), Locates(t[k]), t[k].at = flaps
                 PROVE  \/ session' = t[k].id
                        \/ \E l \in k + 1..Len(t) : t[l].type = "session" /\ t[l].id # t[k].id
      BY <2>1, <2>3 DEF LastWordHolds, t
    <3>2. CASE k = Len(down) + 1
      BY <2>3, <3>1, <3>2
    <3>3. CASE k \in 1..Len(down)
      <4>1. t[k] = down[k] /\ down[k] \in ToSet(down) /\ down[k].id # None
        BY <3>1, <3>3 DEF Named, ToSet
      <4>2. CASE \E l \in k + 1..Len(down) : down[l].type = "session" /\ down[l].id # down[k].id
        BY <3>1, <3>3, <4>1, <4>2
      <4>3. CASE session = down[k].id
        <5>1. session' = session \/ (f.type = "session" /\ f.id = session')
          BY <2>3, <4>1, <4>3
        <5>2. Len(down) + 1 \in k + 1..Len(t)
          BY <3>1, <3>3
        <5> QED
          BY <3>1, <4>1, <4>3, <5>1, <5>2
      <4> QED
        BY <3>3, <4>1, <4>2, <4>3 DEF LastWordHolds
    <3> QED
      BY <3>1, <3>2, <3>3
  <2>4. CASE UNCHANGED down /\ (UNCHANGED session \/ session = None)
    <3>1. \A k \in 1..Len(down) : Locates(down[k]) => down[k].id # None
      BY DEF Named, ToSet
    <3> QED
      BY <2>1, <2>4, <3>1 DEF LastWordHolds
  <2>5. CASE RelayStep
    <3>1. ASSUME UNCHANGED session \/ session = None PROVE LastWordHolds'
      <4>1. UNCHANGED down \/ \E f : down' = Append(down, f) /\ AnswersWith(f)
        BY <2>5, NewBelow
      <4> QED
        BY <2>3, <2>4, <3>1, <4>1 DEF AnswersWith
    <3> QED
      BY <2>3, <2>5, <3>1, SessionMoves
  <2> QED
    BY <1>5, <2>2, <2>5 DEF UplinkReturns
<1>6. CASE Dials
  <2>1. down' = <<>>
    BY <1>6 DEF Dials, OnSocket
  <2> QED
    BY <1>2, <2>1
<1>7. ASSUME ~RelayStep, ~UplinkReturns, ~UplinkDrops, ~Dials
      PROVE  \/ UNCHANGED <<session, down, flaps>> \/ down' = <<>>
             \/ down # <<>> /\ down' = Tail(down) /\ UNCHANGED <<session, flaps>>
  BY <1>7 DEF Next, PersonStep, Asks, Switches, Types, SocketStep, Closes, GivesUpSocket,
     Reloads, Ends, HearStep, HearsBounce, HearsSession, HearsSnapshot, HearsRefused, HearsError,
     HearsAck, HearsLimit, Hears, GraceEnds, FailTimer, PageOnly, RoutesLate, Rests, host, vars
<1> QED
  BY <1>1, <1>2, <1>3, <1>4, <1>5, <1>6, <1>7

\* The tab is swayed for good.
LEMMA SwayedStays ==
  ASSUME Next, ~swayed'
  PROVE  ~swayed
<1>1. CASE Switches
  BY <1>1 DEF Switches
<1>2. CASE HearsSession \/ HearsSnapshot
  <2>1. UNCHANGED swayed \/ \E id, frames : Confirms(id, frames)
    BY <1>2 DEF HearsSession, HearsSnapshot
  <2> QED
    BY <2>1 DEF Confirms
<1>3. CASE HearsRefused
  BY <1>3 DEF HearsRefused
<1>4. ASSUME ~Switches, ~HearsSession, ~HearsSnapshot, ~HearsRefused PROVE UNCHANGED swayed
  BY <1>4 DEF Next, PersonStep, Asks, Types, SocketStep, Dials, Closes, GivesUpSocket, Reloads,
     HearStep, HearsBounce, HearsError, HearsAck, HearsLimit, GraceEnds, FailTimer, RelayStep,
     Bounces, RoutesReady, RoutesAsk, RoutesResume, RoutesSwitch, RoutesPrompt, HostOnly,
     UplinkDrops, UplinkReturns, RoutesLate, Rests, vars
<1> QED
  BY <1>1, <1>2, <1>3, <1>4

\* While something waits and the tab is not swayed, it stays in its conversation.
LEMMA TabStays ==
  ASSUME RestoresTab, Next, ~swayed', Tab # None, outbox' # <<>>,
         Waits \/ \E p \in Prompt : Types(p)
  PROVE  Tab' = Tab
<1>1. remembered = Tab /\ (target # None => ~complete)
  BY SwayedStays DEF RestoresTab, Tab
<1>2. ASSUME NEW entries, NEW left, Abandons(entries, left) PROVE FALSE
  BY <1>2 DEF Abandons
<1>3. ASSUME NEW entries, NEW left, NEW timed, Begins(entries, left, timed), UNCHANGED remembered
      PROVE  Tab' = Tab
  BY <1>1, <1>2, <1>3 DEF Begins, Tab
<1>4. ASSUME UNCHANGED <<remembered, target>> PROVE Tab' = Tab
  BY <1>4 DEF Tab
<1>5. CASE \E p \in Prompt : Types(p)
  BY <1>4, <1>5 DEF Types, restore
<1>6. CASE Switches /\ Waits
  BY <1>2, <1>6 DEF Switches
<1>7. CASE Dials
  BY <1>3, <1>7 DEF Dials
<1>8. CASE Reloads
  BY <1>1, <1>8 DEF Reloads, Tab
<1>9. CASE HearsBounce
  BY <1>3, <1>4, <1>9 DEF HearsBounce
<1>10. ASSUME NEW id, NEW frames, Confirms(id, frames), Waits PROVE Tab' = Tab
  <2>1. CASE target # None /\ id = target
    BY <1>10, <2>1 DEF Confirms, Flushes
  <2>2. CASE ~(target # None /\ id = target) /\ target # None /\ marked
    BY <1>4, <1>10, <2>2 DEF Confirms
  <2>3. CASE ~(target # None /\ id = target) /\ ~(target # None /\ marked)
    <3>1. /\ UNCHANGED target /\ remembered' \in {id, None}
          /\ swayed' = (swayed \/ (Tab \notin {None, remembered'} /\ (target # None \/ Waits)))
      BY <1>10, <2>3 DEF Confirms, Remembers
    <3>2. remembered' = Tab
      BY <1>10, <3>1
    <3> QED
      BY <3>1, <3>2 DEF Tab
  <2> QED
    BY <2>1, <2>2, <2>3
<1>11. CASE (HearsSession \/ HearsSnapshot) /\ Waits
  BY <1>2, <1>10, <1>11 DEF HearsSession, HearsSnapshot
<1>12. CASE HearsRefused /\ Waits
  <2>1. target # Heard.id /\ UNCHANGED target
    BY <1>2, <1>12 DEF HearsRefused
  <2>2. remembered # Heard.id /\ UNCHANGED remembered
    BY <1>12, <2>1 DEF HearsRefused
  <2> QED
    BY <1>4, <2>1, <2>2
<1>13. CASE GraceEnds
  BY <1>4, <1>13 DEF GraceEnds
<1>14. CASE FailTimer
  BY <1>2, <1>14 DEF FailTimer
<1>15. CASE Asks \/ Closes \/ GivesUpSocket \/ HearsError \/ HearsAck \/ HearsLimit \/ RelayStep
            \/ UplinkDrops \/ UplinkReturns \/ Rests \/ \E p \in Prompt : RoutesLate(p)
  <2>1. UNCHANGED <<remembered, target>>
    BY <1>15 DEF Asks, Closes, GivesUpSocket, HearsError, HearsAck, HearsLimit, RelayStep,
       Bounces, RoutesReady, RoutesAsk, RoutesResume, RoutesSwitch, RoutesPrompt, HostOnly,
       UplinkDrops, UplinkReturns, Rests, RoutesLate, vars, tab, restore
  <2> QED
    BY <1>4, <2>1
<1> QED
  BY <1>5, <1>6, <1>7, <1>8, <1>9, <1>11, <1>12, <1>13, <1>14, <1>15
     DEF Next, PersonStep, SocketStep, HearStep

LEMMA SettledStays ==
  ASSUME OutboxInv, RestoresTab, Named, Next, ~swayed', Tab' = Tab, Settled,
         ~Switches
  PROVE  Settled'
<1> USE DEF OutboxInv
<1>1. remembered = Tab
  BY SwayedStays DEF RestoresTab, Tab
<1>2. ASSUME NEW f \in ToSet(up') PROVE f.type # "switch" /\ (f.type = "resume" => f.id = Tab)
  <2>1. f \in ToSet(up) \/ Sends(f)
    BY NewAbove
  <2> QED
    BY <1>1, <2>1 DEF Sends, FromOutbox, Settled
<1>3. ASSUME NEW f \in ToSet(down'), f.type = "session" PROVE f.id = Tab
  <2>1. CASE RelayStep \/ UplinkReturns
    <3>1. CASE f \in ToSet(down)
      BY <1>3, <3>1 DEF Settled
    <3>2. CASE AnswersWith(f)
      <4>1. RoutesSwitch \/ (RoutesResume /\ f.id = Sent.id)
        BY <1>3, <3>2 DEF AnswersWith
      <4>2. Sent \in ToSet(up) /\ (Sent.type = "switch" \/ (Sent.type = "resume" /\ f.id = Sent.id))
        BY <4>1, ToSetTail DEF RoutesSwitch, RoutesResume, Routes, Sent, TypeInv, VarsTyped
      <4> QED
        BY <4>2 DEF Settled
    <3> QED
      BY <2>1, <3>1, <3>2, NewAnswers
  <2>2. CASE ~(RelayStep \/ UplinkReturns)
    BY <1>3, <2>2, NothingBelow DEF Settled
  <2> QED
    BY <2>1, <2>2
<1> QED
  BY <1>2, <1>3 DEF Settled

LEMMA HeldStaysPutStays ==
  ASSUME OutboxInv, HeldIsKnown, RestoresTab, Named, HeldStaysPut, Next
  PROVE  HeldStaysPut'
<1> SUFFICES ASSUME ~swayed', NEW p \in ToSet(outbox'), meant'[p] # None
             PROVE  Tab' = meant'[p] /\ Settled'
  BY DEF HeldStaysPut
<1> USE DEF OutboxInv
<1>1. ~swayed /\ outbox' # <<>>
  BY SwayedStays, ToSetEmpty
<1>2. ASSUME meant'[p] = Tab, Settled, Waits \/ \E q \in Prompt : Types(q)
      PROVE  Tab' = meant'[p] /\ Settled'
  <2>1. Tab' = Tab
    BY <1>1, <1>2, TabStays
  <2>2. ~Switches
    <3>1. CASE Waits
      BY <1>1, <3>1 DEF Switches, Abandons
    <3>2. ASSUME NEW q \in Prompt, Types(q), Switches PROVE FALSE
      <4>1. moves' = moves /\ moves' = moves + 1 /\ moves \in Nat
        BY <3>2, OutboxAssumption DEF Types, Switches, TypeInv, VarsTyped, TypeOK
      <4> QED
        BY <4>1
    <3> QED
      BY <1>2, <3>1, <3>2
  <2> QED
    BY <1>1, <1>2, <2>1, <2>2, SettledStays
<1>3. CASE p \in ToSet(outbox)
  <2>1. meant'[p] = meant[p] /\ outbox # <<>>
    BY <1>3, HistoryStays, ToSetEmpty
  <2>2. Tab = meant[p] /\ Settled
    BY <1>1, <1>3, <2>1 DEF HeldStaysPut
  <2> QED
    BY <1>2, <2>1, <2>2 DEF Waits
<1>4. ASSUME p \notin ToSet(outbox), NEW q \in Prompt, Types(q)
      PROVE  Tab' = meant'[p] /\ Settled'
  <2>1. ToSet(outbox') = ToSet(outbox) \cup {q} \/ outbox' = outbox
    BY <1>4, TypedMoves
  <2>2. p = q
    BY <1>4, <2>1
  <2>3. meant' = Means({q})
    BY <1>4 DEF Types
  <2>4. meant'[p] = IF Settled THEN Tab ELSE None
    BY <2>2, <2>3 DEF Means
  <2> QED
    BY <1>2, <1>4, <2>4
<1>5. ASSUME p \notin ToSet(outbox), HearsBounce
      PROVE  Tab' = meant'[p] /\ Settled'
  <2>1. p \in live \cap {Heard.p} /\ meant' = Means(live \cap {Heard.p})
    BY <1>5, BouncedMoves
  <2>2. meant'[p] = IF Settled THEN Tab ELSE None
    BY <2>1 DEF Means
  <2> QED
    BY <1>2, <2>1, <2>2 DEF Waits
<1>6. ASSUME ~HearsBounce, \A q \in Prompt : ~Types(q) PROVE p \in ToSet(outbox)
  BY <1>6, OthersMove, ToSetEmpty
<1> QED
  BY <1>3, <1>4, <1>5, <1>6

LEMMA ConcatItems ==
  ASSUME NEW S, NEW s \in Seq(S), NEW t \in Seq(S)
  PROVE  /\ Len(s \o t) = Len(s) + Len(t) /\ Len(s) \in Nat /\ Len(t) \in Nat
         /\ \A i \in 1..Len(s) : (s \o t)[i] = s[i]
         /\ \A i \in Len(s) + 1..Len(s) + Len(t) : (s \o t)[i] = t[i - Len(s)] /\ i - Len(s) \in 1..Len(t)
  BY ConcatProperties

\* A frame that is flushed was so before, and is meant for where it was.
LEMMA FlushedKept ==
  ASSUME OutboxInv, HeldIsKnown, Next, NEW f \in ToSet(up), Flushed(f)'
  PROVE  Flushed(f) /\ meant'[f.p] = meant[f.p]
<1> USE DEF OutboxInv, TypeInv, VarsTyped
<1>1. f.p \in PromptsOf(up)
  <2>1. f \in SentFrame /\ f.type = "prompt"
    BY ToSetType DEF Flushed
  <2> QED
    BY <2>1, PromptsIn DEF SentFrame
<1>2. f.p \in held /\ meant'[f.p] = meant[f.p]
  BY <1>1, HistoryStays DEF Flushed
<1>3. CASE UNCHANGED flaps
  BY <1>2, <1>3 DEF Flushed
<1>4. CASE UplinkDrops
  BY <1>4, OutboxAssumption DEF UplinkDrops, Dated, Flushed, TypeOK
<1>5. ASSUME ~UplinkDrops PROVE UNCHANGED flaps
  BY <1>5 DEF Next, PersonStep, Asks, Switches, Types, SocketStep, Dials, Closes, GivesUpSocket,
     Reloads, HearStep, HearsBounce, HearsSession, HearsSnapshot, HearsRefused, HearsError,
     HearsAck, HearsLimit, GraceEnds, FailTimer, PageOnly, RelayStep, Bounces, RoutesReady,
     RoutesAsk, RoutesResume, RoutesSwitch, RoutesPrompt, HostOnly, UplinkReturns, RoutesLate,
     Rests, vars
<1> QED
  BY <1>3, <1>4, <1>5

\* As long as nothing flushed is added, and the host stays.
LEMMA NoneFlushed ==
  ASSUME OutboxInv, HeldIsKnown, FlushedGoesThere, Next, ~swayed, UNCHANGED session,
         \A k \in 1..Len(up') :
           Flushed(up[k])' => k \in 1..Len(up) /\ \A j \in 1..k : up'[j] = up[j]
  PROVE  FlushedGoesThere'
<1> SUFFICES ASSUME NEW k \in 1..Len(up'), Flushed(up[k])'
             PROVE  /\ session' = meant'[up'[k].p]
                    /\ \A j \in 1..k - 1 : Leads(up'[j], meant'[up'[k].p])
  BY DEF FlushedGoesThere, Leads, Flushed
<1>1. k \in 1..Len(up) /\ \A j \in 1..k : up'[j] = up[j]
  OBVIOUS
<1>2. PICK f : f = up[k] /\ f = up'[k]
  BY <1>1
<1>3. f \in ToSet(up)
  BY <1>1, <1>2 DEF ToSet, OutboxInv, TypeInv, VarsTyped
<1>4. Flushed(f)'
  BY <1>2 DEF Flushed
<1>5. Flushed(f) /\ meant'[f.p] = meant[f.p]
  BY <1>3, <1>4, FlushedKept
<1>6. session = meant[f.p] /\ \A j \in 1..k - 1 : Leads(up[j], meant[f.p])
  BY <1>1, <1>2, <1>5 DEF FlushedGoesThere
<1> QED
  BY <1>1, <1>2, <1>5, <1>6

LEMMA UnflushedAppend ==
  ASSUME OutboxInv, HeldIsKnown, FlushedGoesThere, Next, ~swayed, UNCHANGED session,
         NEW f, up' = Append(up, f), f.p \notin held' \/ f.type # "prompt"
  PROVE  FlushedGoesThere'
<1>1. /\ Len(up') = Len(up) + 1 /\ Len(up) \in Nat /\ up'[Len(up) + 1] = f
      /\ \A i \in 1..Len(up) : up'[i] = up[i]
  BY DEF OutboxInv, TypeInv, VarsTyped
<1>2. \A k \in 1..Len(up') :
        Flushed(up[k])' => k \in 1..Len(up) /\ \A j \in 1..k : up'[j] = up[j]
  BY <1>1 DEF Flushed
<1> QED
  BY <1>2, NoneFlushed

LEMMA UnflushedConcat ==
  ASSUME OutboxInv, HeldIsKnown, FlushedGoesThere, Next, ~swayed, UNCHANGED session,
         NEW w \in Seq(SentFrame), up' = up \o w, \A f \in ToSet(w) : f.type # "prompt"
  PROVE  FlushedGoesThere'
<1>1. /\ Len(up') = Len(up) + Len(w) /\ Len(up) \in Nat /\ Len(w) \in Nat
      /\ \A i \in 1..Len(up) : up'[i] = up[i]
      /\ \A i \in Len(up) + 1..Len(up) + Len(w) : up'[i] \in ToSet(w)
  BY ConcatItems DEF OutboxInv, TypeInv, VarsTyped, ToSet
<1>2. \A k \in 1..Len(up') :
        Flushed(up[k])' => k \in 1..Len(up) /\ \A j \in 1..k : up'[j] = up[j]
  BY <1>1 DEF Flushed
<1> QED
  BY <1>2, NoneFlushed

\* A flush: the host is where the frame that was heard says, and nothing leads away.
LEMMA FlushGoesThere ==
  ASSUME OutboxInv, HeldInv, Next, ~swayed', HearsSession \/ HearsSnapshot,
         NEW frames \in Seq(SentFrame),
         \A f \in ToSet(frames) : f.type = "resume" /\ f.id = remembered,
         Confirms(Heard.id, frames), target # None, Heard.id = target
  PROVE  FlushedGoesThere'
<1> USE DEF OutboxInv, TypeInv, VarsTyped
<1> DEFINE at == Head(down).at
           u == up \o frames
<1>1. ~swayed /\ remembered = target /\ Tab = target
  BY SwayedStays DEF HeldInv, RestoresTab, Tab
<1>2. /\ down # <<>> /\ Locates(Heard) /\ UNCHANGED <<session, meant, held, flaps>>
      /\ up' = u \o Letters(at)
  BY DEF HearsSession, HearsSnapshot, Hears, Locates, PageOnly, host, Confirms, Flushes, Letters
<1>3. Heard = down[1] /\ Len(down) \in Nat \ {0} /\ Heard \in HeardFrame /\ Heard.at = at
  BY <1>2, ToSetTail DEF Heard
<1>4. /\ Letters(at) \in Seq(SentFrame)
      /\ \A f \in ToSet(Letters(at)) : f.type = "prompt" /\ f.p \in ToSet(outbox) /\ f.at = at
  <2>1. at \in Nat
    BY <1>3 DEF HeardFrame
  <2>2. flaps \in Nat
    BY OutboxAssumption DEF TypeOK
  <2> QED
    BY <2>1, <2>2, LettersAre
<1>5. /\ u \in Seq(SentFrame) /\ ToSet(u) = ToSet(up) \cup ToSet(frames)
      /\ Len(u) = Len(up) + Len(frames) /\ Len(up) \in Nat /\ Len(frames) \in Nat
      /\ \A i \in 1..Len(up) : u[i] = up[i]
      /\ \A i \in Len(up) + 1..Len(u) : u[i].type = "resume"
  <2>1. \A i \in 1..Len(frames) : frames[i] \in ToSet(frames)
    BY DEF ToSet
  <2> QED
    BY <2>1, ConcatItems, ToSetConcat
<1> HIDE DEF u, at
<1>6. /\ Len(up') = Len(u) + Len(Letters(at)) /\ Len(Letters(at)) \in Nat
      /\ \A i \in 1..Len(u) : up'[i] = u[i] /\ u[i] \in ToSet(u)
      /\ \A i \in Len(u) + 1..Len(up') : up'[i] \in ToSet(Letters(at))
  <2> DEFINE w == Letters(at)
  <2>1. w \in Seq(SentFrame) /\ u \in Seq(SentFrame) /\ up' = u \o w
    BY <1>2, <1>4, <1>5
  <2> HIDE DEF w
  <2>2. /\ Len(up') = Len(u) + Len(w) /\ Len(w) \in Nat
        /\ \A i \in 1..Len(u) : up'[i] = u[i]
        /\ \A i \in Len(u) + 1..Len(u) + Len(w) : up'[i] = w[i - Len(u)] /\ i - Len(u) \in 1..Len(w)
    BY <2>1, ConcatItems
  <2>3. /\ \A i \in 1..Len(u) : u[i] \in ToSet(u)
        /\ \A i \in 1..Len(w) : w[i] \in ToSet(w)
    BY <2>1 DEF ToSet
  <2> QED
    BY <2>2, <2>3 DEF w
<1> SUFFICES ASSUME NEW k \in 1..Len(up'), Flushed(up[k])'
             PROVE  /\ session' = meant'[up'[k].p]
                    /\ \A j \in 1..k - 1 : Leads(up'[j], meant'[up'[k].p])
  BY DEF FlushedGoesThere, Leads, Flushed
<1>7. CASE k \in 1..Len(u)
  <2>1. k \in 1..Len(up) /\ \A j \in 1..k : up'[j] = up[j]
    <3>1. up'[k].type = "prompt" /\ up'[k] = u[k]
      BY <1>6, <1>7 DEF Flushed
    <3>2. k \in 1..Len(up)
      BY <1>5, <1>7, <3>1
    <3>3. \A j \in 1..k : up'[j] = u[j] /\ u[j] = up[j]
      BY <1>5, <1>6, <1>7, <3>2
    <3> QED
      BY <3>2, <3>3
  <2>2. Flushed(up[k])
    BY <1>2, <2>1 DEF Flushed
  <2>3. session = meant[up[k].p] /\ \A j \in 1..k - 1 : Leads(up[j], meant[up[k].p])
    BY <1>1, <2>1, <2>2 DEF HeldInv, FlushedGoesThere
  <2> QED
    BY <1>2, <2>1, <2>3
<1>8. CASE k \in Len(u) + 1..Len(up')
  <2> DEFINE p == up'[k].p
  <2>1. p \in ToSet(outbox) /\ at = flaps /\ meant[p] # None
    BY <1>2, <1>4, <1>6, <1>8 DEF Flushed
  <2>2. target = meant[p] /\ Settled
    BY <1>1, <2>1 DEF HeldInv, HeldStaysPut
  <2>3. session = target
    <3>1. \A l \in 1..Len(down) : down[l].type = "session" => down[l].id = target
      BY <1>1, <2>2 DEF Settled, ToSet
    <3>2. \/ session = down[1].id
          \/ \E l \in 1 + 1..Len(down) : down[l].type = "session" /\ down[l].id # down[1].id
      <4>1. 1 \in 1..Len(down) /\ Locates(down[1]) /\ down[1].at = flaps
        BY <1>2, <1>3, <2>1
      <4> QED
        BY <4>1 DEF HeldInv, LastWordHolds
    <3> QED
      BY <1>3, <3>1, <3>2
  <2>4. ASSUME NEW j \in 1..k - 1 PROVE Leads(up'[j], target)
    <3>1. CASE j \in 1..Len(u)
      <4>1. up'[j] \in ToSet(up) \cup ToSet(frames)
        BY <1>5, <1>6, <3>1
      <4> QED
        BY <1>1, <2>2, <4>1 DEF Settled, Leads
    <3>2. CASE j \in Len(u) + 1..Len(up')
      BY <1>4, <1>6, <3>2 DEF Leads
    <3> QED
      BY <1>5, <1>6, <1>8, <3>1, <3>2
  <2> QED
    BY <1>2, <2>2, <2>3, <2>4
<1> QED
  BY <1>5, <1>6, <1>7, <1>8

\* The host, or the relay, takes the first frame.
LEMMA RoutedStays ==
  ASSUME OutboxInv, HeldIsKnown, FlushedGoesThere, SilentWhileAway, RelayStep, ~swayed
  PROVE  FlushedGoesThere'
<1> USE DEF OutboxInv, TypeInv, VarsTyped
<1> DEFINE t == Tail(up)
<1>1. /\ up # <<>> /\ up' = t /\ UNCHANGED <<held, meant, flaps>>
  BY DEF RelayStep, Bounces, RoutesReady, RoutesAsk, RoutesResume, RoutesSwitch, RoutesPrompt,
     Routes, HostOnly
<1>2. /\ Len(up) \in Nat \ {0} /\ Len(t) = Len(up) - 1
      /\ \A i \in 1..Len(up) - 1 : t[i] = up[i + 1]
      /\ Sent = up[1]
  BY <1>1 DEF Sent
<1> HIDE DEF t
<1> SUFFICES ASSUME NEW k \in 1..Len(up'), Flushed(up[k])'
             PROVE  /\ session' = meant'[up'[k].p]
                    /\ \A j \in 1..k - 1 : Leads(up'[j], meant'[up'[k].p])
  BY DEF FlushedGoesThere, Leads, Flushed
<1> DEFINE c == meant[up[k + 1].p]
<1>3. k + 1 \in 1..Len(up) /\ up'[k] = up[k + 1]
  BY <1>1, <1>2
<1>4. Flushed(up[k + 1])
  BY <1>1, <1>3 DEF Flushed
<1>5. c # None /\ session = c /\ \A j \in 1..k : Leads(up[j], c)
  BY <1>3, <1>4 DEF FlushedGoesThere, Flushed
<1>6. \A j \in 1..k - 1 : up'[j] = up[j + 1] /\ j + 1 \in 1..k
  BY <1>1, <1>2, <1>3
<1>7. Leads(Sent, c)
  BY <1>2, <1>5
<1>8. session' = c
  <2>1. CASE Bounces \/ RoutesAsk \/ RoutesPrompt
    BY <1>5, <2>1 DEF Bounces, RoutesAsk, RoutesPrompt, host
  <2>2. CASE RoutesReady
    BY <1>5, <2>2 DEF RoutesReady, Binds
  <2>3. CASE RoutesResume
    BY <1>5, <1>7, <2>3 DEF RoutesResume, Routes, Leads
  <2>4. CASE RoutesSwitch
    BY <1>7, <2>4 DEF RoutesSwitch, Routes, Leads
  <2> QED
    BY <2>1, <2>2, <2>3, <2>4 DEF RelayStep
<1> QED
  BY <1>1, <1>3, <1>5, <1>6, <1>8

LEMMA FlushedStays ==
  ASSUME OutboxInv, HeldInv, Next
  PROVE  FlushedGoesThere'
<1> SUFFICES ASSUME ~swayed' PROVE FlushedGoesThere'
  BY DEF FlushedGoesThere
<1> USE DEF OutboxInv, TypeInv, VarsTyped
<1>1. ~swayed /\ HeldIsKnown /\ FlushedGoesThere /\ SilentWhileAway /\ RestoresTab
  BY SwayedStays DEF HeldInv
<1>2. \A t \in {"ask", "switch", "ready"} : Says(t).type = t
  BY DEF Says, Frame
<1>3. ASSUME UNCHANGED session,
             \/ UNCHANGED up
             \/ \E t \in {"ask", "switch", "ready"} : up' = Append(up, Says(t))
      PROVE  FlushedGoesThere'
  <2>1. CASE UNCHANGED up
    BY <1>1, <1>3, <2>1, NoneFlushed
  <2>2. ASSUME NEW t \in {"ask", "switch", "ready"}, up' = Append(up, Says(t))
        PROVE  FlushedGoesThere'
    <3>1. Says(t).type # "prompt"
      BY <1>2
    <3> QED
      BY <1>1, <1>3, <2>2, <3>1, UnflushedAppend
  <2> QED
    BY <1>3, <2>1, <2>2
<1>4. CASE Asks \/ Switches \/ HearsBounce \/ HearsRefused \/ HearsError \/ HearsAck \/ HearsLimit
           \/ GraceEnds \/ FailTimer \/ UplinkDrops \/ Rests \/ \E p \in Prompt : RoutesLate(p)
  <2>1. /\ UNCHANGED session
        /\ \/ UNCHANGED up
           \/ \E t \in {"ask", "switch", "ready"} : up' = Append(up, Says(t))
    BY <1>4 DEF Asks, Switches, HearsBounce, HearsRefused, HearsError, HearsAck, HearsLimit,
       GraceEnds, FailTimer, PageOnly, Probes, UplinkDrops, Rests, RoutesLate, vars, host
  <2> QED
    BY <1>3, <2>1
<1>5. ASSUME NEW p \in Prompt, Types(p) PROVE FlushedGoesThere'
  <2>1. CASE UNCHANGED up
    BY <1>3, <1>5, <2>1 DEF Types, host
  <2>2. CASE UNCHANGED held /\ up' = Append(up, Written(p, flaps))
    <3>1. p \notin held /\ UNCHANGED session
      BY <1>1, <1>5 DEF Types, HeldIsKnown, host
    <3>2. Written(p, flaps).p \notin held'
      BY <2>2, <3>1 DEF Written
    <3> QED
      BY <1>1, <2>2, <3>1, <3>2, UnflushedAppend
  <2> QED
    BY <1>5, <2>1, <2>2 DEF Types
<1>6. CASE Closes \/ GivesUpSocket \/ Reloads
  <2>1. up' = <<>>
    BY <1>6 DEF Closes, GivesUpSocket, Reloads, Ends
  <2> QED
    BY <2>1 DEF FlushedGoesThere
<1>7. CASE Dials
  <2>1. Len(up') = 1 /\ up'[1] = Says("ready") /\ Says("ready").type = "ready"
    BY <1>2, <1>7 DEF Dials
  <2>2. \A k \in 1..Len(up') : ~Flushed(up[k])'
    BY <2>1 DEF Flushed
  <2> QED
    BY <2>2 DEF FlushedGoesThere, Leads, Flushed
<1>8. ASSUME HearsSession \/ HearsSnapshot, NEW frames \in Seq(SentFrame),
             \A f \in ToSet(frames) : f.type = "resume" /\ f.id = remembered,
             Confirms(Heard.id, frames)
      PROVE  FlushedGoesThere'
  <2>1. UNCHANGED session
    BY <1>8 DEF HearsSession, HearsSnapshot, PageOnly, host
  <2>2. CASE target # None /\ Heard.id = target
    BY <1>8, <2>2, FlushGoesThere
  <2>3. CASE ~(target # None /\ Heard.id = target)
    <3>1. up' = up \o frames
      BY <1>8, <2>3 DEF Confirms
    <3> QED
      BY <1>1, <1>8, <2>1, <3>1, UnflushedConcat
  <2> QED
    BY <2>2, <2>3
<1>9. CASE HearsSession
  <2>1. <<>> \in Seq(SentFrame) /\ ToSet(<<>>) = {} /\ Confirms(Heard.id, <<>>)
    BY <1>9, ToSetEmpty DEF HearsSession
  <2> QED
    BY <1>8, <1>9, <2>1
<1>10. CASE HearsSnapshot
  <2> DEFINE f == Frame("resume", NoPrompt, remembered)
             resume == IF remembered = None THEN <<>> ELSE <<f>>
  <2>1. f \in SentFrame /\ f.type = "resume" /\ f.id = remembered
    BY SentFrames DEF Frame
  <2>2. ToSet(<<f>>) = {f} /\ <<f>> \in Seq(SentFrame)
    BY <2>1 DEF ToSet
  <2>3. resume \in Seq(SentFrame) /\ ToSet(resume) \subseteq {f}
    BY <2>1, <2>2, ToSetEmpty
  <2>4. \/ Confirms(Heard.id, resume)
        \/ up' = up \o resume /\ UNCHANGED session
    BY <1>10 DEF HearsSnapshot, PageOnly, host
  <2>5. \A g \in ToSet(resume) : g.type = "resume" /\ g.id = remembered
    BY <2>1, <2>3
  <2> HIDE DEF resume
  <2>6. CASE Confirms(Heard.id, resume)
    BY <1>8, <1>10, <2>3, <2>5, <2>6
  <2>7. CASE up' = up \o resume /\ UNCHANGED session
    <3>1. \A g \in ToSet(resume) : g.type # "prompt"
      BY <2>5
    <3> QED
      BY <1>1, <2>3, <2>7, <3>1, UnflushedConcat
  <2> QED
    BY <2>4, <2>6, <2>7
<1>11. CASE RelayStep
  BY <1>1, <1>11, RoutedStays
<1>12. CASE UplinkReturns
  <2>1. uplink = "down" /\ UNCHANGED <<up, held, flaps>>
    BY <1>12 DEF UplinkReturns, HostOnly
  <2>2. \A k \in 1..Len(up) : up[k].p \in held => up[k].at # flaps
    BY <1>1, <2>1 DEF SilentWhileAway, ToSet
  <2>3. \A k \in 1..Len(up') : ~Flushed(up[k])'
    BY <2>1, <2>2 DEF Flushed
  <2> QED
    BY <2>3 DEF FlushedGoesThere, Leads, Flushed
<1> QED
  BY <1>4, <1>5, <1>6, <1>7, <1>9, <1>10, <1>11, <1>12
     DEF Next, PersonStep, SocketStep, HearStep

\* So what is held is taken where it was meant to go.
LEMMA HeldRunsStays ==
  ASSUME OutboxInv, HeldInv, Next
  PROVE  HeldRunsWhereMeant'
<1> SUFFICES ASSUME ~swayed' PROVE astray' = {}
  BY DEF HeldRunsWhereMeant
<1> USE DEF OutboxInv, TypeInv, VarsTyped
<1>1. ~swayed /\ astray = {}
  BY SwayedStays DEF HeldInv, HeldRunsWhereMeant
<1>2. ASSUME RoutesPrompt, Sent.p \in held, Sent.at = flaps, meant[Sent.p] # None
      PROVE  session = meant[Sent.p]
  <2>1. 1 \in 1..Len(up) /\ Sent = up[1]
    BY <1>2 DEF RoutesPrompt, Routes, Sent
  <2>2. Flushed(up[1])
    BY <1>2, <2>1 DEF RoutesPrompt, Routes, Flushed
  <2> QED
    BY <1>1, <2>1, <2>2 DEF HeldInv, FlushedGoesThere
<1>3. CASE RoutesPrompt
  BY <1>1, <1>2, <1>3 DEF RoutesPrompt
<1>4. ASSUME ~RoutesPrompt PROVE UNCHANGED astray
  BY <1>4 DEF Next, PersonStep, Asks, Switches, Types, SocketStep, Dials, Closes, GivesUpSocket,
     Reloads, HearStep, HearsBounce, HearsSession, HearsSnapshot, HearsRefused, HearsError,
     HearsAck, HearsLimit, GraceEnds, FailTimer, PageOnly, RelayStep, Bounces, RoutesReady,
     RoutesAsk, RoutesResume, RoutesSwitch, UplinkDrops, UplinkReturns, RoutesLate,
     Rests, vars, taken
<1> QED
  BY <1>1, <1>3, <1>4

LEMMA InitHeld ==
  ASSUME Init
  PROVE  HeldInv
<1>1. /\ up = <<>> /\ down = <<>> /\ outbox = <<>> /\ held = {} /\ target = None /\ astray = {}
  BY DEF Init
<1>2. Len(<<>>) = 0 /\ \A k : k \notin 1..0
  OBVIOUS
<1> QED
  BY <1>1, <1>2, ToSetEmpty DEF HeldInv, HeldIsKnown, RestoresTab, Named, SilentWhileAway,
     LastWordHolds, HeldStaysPut, FlushedGoesThere, HeldRunsWhereMeant

LEMMA StepHeld ==
  ASSUME OutboxInv, HeldInv, [Next]_vars
  PROVE  HeldInv'
<1>1. CASE Next
  BY <1>1, HeldIsKnownStays, RestoresTabStays, NamedStays, SilentStays, LastWordStays,
     HeldStaysPutStays, FlushedStays, HeldRunsStays DEF HeldInv
<1>2. CASE UNCHANGED vars
  <2>1. /\ UNCHANGED <<outbox, live, composer, over, up, down, late, ran, meant>>
        /\ UNCHANGED <<remembered, target, complete, uplink, session, held, astray, swayed, flaps>>
    BY <1>2 DEF vars, tab, restore, host, taken
  <2>2. (HeldIsKnown /\ RestoresTab /\ Named /\ SilentWhileAway)'
    BY <2>1 DEF HeldInv, HeldIsKnown, RestoresTab, Named, SilentWhileAway, Typed
  <2>3. (LastWordHolds /\ HeldStaysPut /\ FlushedGoesThere /\ HeldRunsWhereMeant)'
    BY <2>1 DEF HeldInv, LastWordHolds, HeldStaysPut, FlushedGoesThere, HeldRunsWhereMeant,
       Tab, Settled, Flushed
  <2> QED
    BY <2>2, <2>3 DEF HeldInv
<1> QED
  BY <1>1, <1>2

\* A held prompt is taken in the conversation the tab had when it was held, unless the
\* tab left that conversation while the prompt waited, or the uplink went after the host
\* had confirmed: a flush follows the host's own word, and neither the page nor the
\* relay puts anything between (chat.html:3866-3871).
THEOREM HeldGoesWhereMeant == Spec => []HeldRunsWhereMeant
<1>1. Init => OutboxInv /\ HeldInv
  BY InitInv, InitHeld
<1>2. OutboxInv /\ HeldInv /\ [Next]_vars => (OutboxInv /\ HeldInv)'
  BY StepInv, StepHeld
<1>3. HeldInv => HeldRunsWhereMeant
  BY DEF HeldInv
<1> QED
  BY <1>1, <1>2, <1>3, PTL DEF Spec

(***************************************************************************)
(* The lane beside the page.                                               *)
(***************************************************************************)
LEMMA LaneIsSpec == Both => R!Spec
<1>1. BothInit => R!Init
  BY DEF BothInit
<1>2. [BothNext]_<<vars, relayVars, part>> => [R!Next]_R!vars
  BY DEF BothNext, relayVars, R!vars, R!hubVars, R!edgeVars
<1> QED
  BY <1>1, <1>2, PTL DEF Both, R!Spec

\* A message of a client is never given to the host after a later one of that client,
\* though a metered one waits for the usage store (server.ts:1584-1592).
THEOREM LaneInOrder == Both => FramesInOrder
<1>1. R!Spec => R!FramesInOrder
  BY LaneAssumption, R!NoneOvertakes
<1>2. R!FramesInOrder <=> FramesInOrder
  BY DEF FramesInOrder
<1> QED
  BY <1>1, <1>2, LaneIsSpec, PTL
=============================================================================
