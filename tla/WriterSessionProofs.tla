------------------------ MODULE WriterSessionProofs ------------------------
(***************************************************************************)
(* Proofs about the page's end of a collaboration session, for any edits,   *)
(* flushes, epochs, connections and faults: "Saved" is true, and a flush    *)
(* covers what its caller had typed.                                        *)
(***************************************************************************)
EXTENDS WriterSessionProperties, SequenceTheorems, FiniteSetTheorems, TLAPS

-----------------------------------------------------------------------------
(* Frames and messages under way, in any sequence q *)

Updates(q) == {q[i] : i \in {i \in 1 .. Len(q) : q[i].type = "SOURCE_UPDATE"}}
AckedIn(q) == {q[i].seq : i \in {i \in 1 .. Len(q) : q[i].type = "DURABLE_ACK"}}
Says(q, type) == \E i \in 1 .. Len(q) : q[i].type = type

\* The numbers of the updates grow along q.
Growing(q) ==
    \A i, j \in 1 .. Len(q) :
        i < j /\ q[i].type = "SOURCE_UPDATE" /\ q[j].type = "SOURCE_UPDATE" => q[i].seq < q[j].seq

\* The edit u is in an update that goes before every flush in q.
Before(q, u) ==
    \E i \in 1 .. Len(q) :
        /\ q[i].type = "SOURCE_UPDATE" /\ u \in q[i].ups
        /\ \A j \in 1 .. Len(q) : q[j].type = "FLUSH" => i < j

LEMMA FrameTypes ==
    /\ [type |-> "FLUSH"] \in Frame
    /\ \A n \in Nat : \A U \in SUBSET All : [type |-> "SOURCE_UPDATE", seq |-> n, ups |-> U] \in Frame
    /\ \A f \in Frame : f.type \in {"SOURCE_UPDATE", "FLUSH"}
    /\ \A f \in Frame : f.type = "SOURCE_UPDATE" =>
          f.seq \in Nat /\ f.ups \in SUBSET All /\ f = [type |-> "SOURCE_UPDATE", seq |-> f.seq, ups |-> f.ups]
BY DEF Frame

LEMMA MessageTypes ==
    /\ \A e \in Epochs : \A a \in Modes : [type |-> "JOIN_ACCEPTED", epoch |-> e, access |-> a] \in Message
    /\ \A U \in SUBSET All : [type |-> "INITIAL_STATE", ups |-> U] \in Message
    /\ \A U \in SUBSET Others : [type |-> "REMOTE_SOURCE_UPDATE", ups |-> U] \in Message
    /\ \A n \in Nat : [type |-> "DURABLE_ACK", seq |-> n] \in Message
    /\ \A t \in {"FLUSHED", "REMOTE_DURABLE", "POLICY_CHANGED", "PAPER_EPOCH_CHANGED", "ERROR"} :
          [type |-> t] \in Message
BY DEF Message

LEMMA MessageFields ==
    \A m \in Message :
        /\ m.type = "JOIN_ACCEPTED" => m.epoch \in Epochs /\ m.access \in Modes
        /\ m.type \in {"INITIAL_STATE", "REMOTE_SOURCE_UPDATE"} => m.ups \in SUBSET All
        /\ m.type = "REMOTE_SOURCE_UPDATE" => m.ups \in SUBSET Others
        /\ m.type = "DURABLE_ACK" => m.seq \in Nat
BY DEF Message, All

\* Where the elements of a longer and of a shorter sequence come from
LEMMA Appended ==
    ASSUME NEW T, NEW q \in Seq(T), NEW x \in T
    PROVE  /\ Append(q, x) \in Seq(T) /\ Len(q) \in Nat /\ Len(Append(q, x)) = Len(q) + 1
           /\ \A i \in 1 .. Len(q) : Append(q, x)[i] = q[i]
           /\ Append(q, x)[Len(q) + 1] = x
           /\ \A i \in 1 .. Len(q) + 1 : i \in 1 .. Len(q) \/ i = Len(q) + 1
<1>1. /\ Append(q, x) \in Seq(T) /\ Len(Append(q, x)) = Len(q) + 1
      /\ \A i \in 1 .. Len(q) : Append(q, x)[i] = q[i]
      /\ Append(q, x)[Len(q) + 1] = x
  BY AppendProperties
<1>2. PICK n \in Nat : Len(q) = n
  BY LenProperties
<1>3. \A i \in 1 .. n + 1 : i \in 1 .. n \/ i = n + 1
  OBVIOUS
<1>. QED  BY <1>1, <1>2, <1>3

LEMMA UpdatesAppended ==
    ASSUME NEW q \in Seq(Frame), NEW x \in Frame
    PROVE  /\ Updates(Append(q, x)) = Updates(q) \cup (IF x.type = "SOURCE_UPDATE" THEN {x} ELSE {})
           /\ Growing(q) /\ (x.type = "SOURCE_UPDATE" => \A f \in Updates(q) : f.seq < x.seq) => Growing(Append(q, x))
           /\ \A u : Before(q, u) => Before(Append(q, x), u)
           /\ \A u : x.type = "FLUSH" /\ ~Says(q, "FLUSH") /\ (\E f \in Updates(q) : u \in f.ups)
                      => Before(Append(q, x), u)
<1>1. PICK n \in Nat : Len(q) = n /\ Len(Append(q, x)) = n + 1
  BY Appended
<1>2. /\ \A i \in 1 .. n : Append(q, x)[i] = q[i]
      /\ Append(q, x)[n + 1] = x
      /\ \A i \in 1 .. n + 1 : i \in 1 .. n \/ i = n + 1
      /\ \A i \in 1 .. n : i \in 1 .. n + 1 /\ i < n + 1
      /\ n + 1 \in 1 .. n + 1
  BY <1>1, Appended
<1>3. Updates(Append(q, x)) = Updates(q) \cup (IF x.type = "SOURCE_UPDATE" THEN {x} ELSE {})
  BY <1>1, <1>2 DEF Updates
<1>4. ASSUME Growing(q), x.type = "SOURCE_UPDATE" => \A f \in Updates(q) : f.seq < x.seq
      PROVE  Growing(Append(q, x))
  <2>. SUFFICES ASSUME NEW i \in 1 .. n + 1, NEW j \in 1 .. n + 1, i < j,
                       Append(q, x)[i].type = "SOURCE_UPDATE", Append(q, x)[j].type = "SOURCE_UPDATE"
       PROVE  Append(q, x)[i].seq < Append(q, x)[j].seq
    BY <1>1 DEF Growing
  <2>1. i \in 1 .. n
    BY <1>1, <1>2
  <2>2. q[i] \in Updates(q)
    BY <2>1, <1>1, <1>2 DEF Updates
  <2>. QED  BY <1>1, <1>2, <1>4, <2>1, <2>2 DEF Growing
<1>5. ASSUME NEW u, Before(q, u)
      PROVE  Before(Append(q, x), u)
  BY <1>1, <1>2, <1>5 DEF Before
<1>6. ASSUME NEW u, x.type = "FLUSH", ~Says(q, "FLUSH"), NEW f \in Updates(q), u \in f.ups
      PROVE  Before(Append(q, x), u)
  BY <1>1, <1>2, <1>6 DEF Before, Updates, Says
<1>. QED  BY <1>3, <1>4, <1>5, <1>6

LEMMA UpdatesTaken ==
    ASSUME NEW q \in Seq(Frame), q # <<>>
    PROVE  /\ Head(q) \in Frame /\ Tail(q) \in Seq(Frame)
           /\ Updates(q) = Updates(Tail(q)) \cup (IF Head(q).type = "SOURCE_UPDATE" THEN {Head(q)} ELSE {})
           /\ Growing(q) => Growing(Tail(q))
           /\ Growing(q) /\ Head(q).type = "SOURCE_UPDATE" => \A f \in Updates(Tail(q)) : Head(q).seq < f.seq
           /\ \A u : Before(q, u) => /\ Head(q).type # "FLUSH"
                                     /\ u \in Head(q).ups \/ Before(Tail(q), u)
<1>1. PICK n \in Nat : Len(q) = n + 1 /\ Len(Tail(q)) = n
  <2>1. Len(q) \in Nat \ {0}
    BY EmptySeq
  <2>. QED  BY <2>1, HeadTailProperties
<1>2. /\ Head(q) \in Frame /\ Tail(q) \in Seq(Frame) /\ Head(q) = q[1]
      /\ \A i \in 1 .. n : Tail(q)[i] = q[i + 1]
  BY <1>1, HeadTailProperties
<1>3. /\ \A i \in 1 .. n : i + 1 \in 1 .. n + 1 /\ 1 < i + 1
      /\ \A i \in 1 .. n + 1 : i = 1 \/ \E j \in 1 .. n : i = j + 1
      /\ 1 \in 1 .. n + 1
  <2>1. ASSUME NEW i \in 1 .. n + 1, i # 1
        PROVE  i - 1 \in 1 .. n /\ i = (i - 1) + 1
    BY <2>1
  <2>. QED  BY <2>1
<1>4. Updates(q) = Updates(Tail(q)) \cup (IF Head(q).type = "SOURCE_UPDATE" THEN {Head(q)} ELSE {})
  <2>1. ASSUME NEW f \in Updates(q)
        PROVE  f \in Updates(Tail(q)) \/ (f = Head(q) /\ Head(q).type = "SOURCE_UPDATE")
    <3>1. PICK i \in 1 .. n + 1 : f = q[i] /\ q[i].type = "SOURCE_UPDATE"
      BY <1>1 DEF Updates
    <3>. QED  BY <3>1, <1>1, <1>2, <1>3 DEF Updates
  <2>2. ASSUME NEW f \in Updates(Tail(q))
        PROVE  f \in Updates(q)
    BY <1>1, <1>2, <1>3 DEF Updates
  <2>3. Head(q).type = "SOURCE_UPDATE" => Head(q) \in Updates(q)
    BY <1>1, <1>2, <1>3 DEF Updates
  <2>. QED  BY <2>1, <2>2, <2>3
<1>5. Growing(q) => Growing(Tail(q))
  <2>1. \A i, j \in 1 .. n : i < j => i + 1 < j + 1
    OBVIOUS
  <2>. QED  BY <1>1, <1>2, <1>3, <2>1 DEF Growing
<1>6. Growing(q) /\ Head(q).type = "SOURCE_UPDATE" => \A f \in Updates(Tail(q)) : Head(q).seq < f.seq
  BY <1>1, <1>2, <1>3 DEF Growing, Updates
<1>7. ASSUME NEW u, Before(q, u)
      PROVE  Head(q).type # "FLUSH" /\ (u \in Head(q).ups \/ Before(Tail(q), u))
  <2>1. PICK i \in 1 .. n + 1 : /\ q[i].type = "SOURCE_UPDATE" /\ u \in q[i].ups
                                /\ \A j \in 1 .. n + 1 : q[j].type = "FLUSH" => i < j
    BY <1>1, <1>7 DEF Before
  <2>2. q[1].type # "FLUSH"
    BY <1>3, <2>1
  <2>3. CASE i = 1
    BY <2>1, <2>2, <2>3, <1>2
  <2>4. CASE i # 1
    <3>1. PICK j \in 1 .. n : i = j + 1
      BY <1>3, <2>4
    <3>2. \A k \in 1 .. n : Tail(q)[k].type = "FLUSH" => j < k
      <4>. SUFFICES ASSUME NEW k \in 1 .. n, Tail(q)[k].type = "FLUSH"
           PROVE  j < k
        OBVIOUS
      <4>1. k + 1 \in 1 .. n + 1 /\ q[k + 1].type = "FLUSH"
        BY <1>2, <1>3
      <4>2. i < k + 1
        BY <2>1, <4>1
      <4>. QED  BY <3>1, <4>2
    <3>. QED  BY <1>1, <1>2, <2>1, <2>2, <3>1, <3>2 DEF Before
  <2>. QED  BY <2>3, <2>4
<1>. QED  BY <1>2, <1>4, <1>5, <1>6, <1>7

LEMMA MessagesTold ==
    ASSUME NEW q \in Seq(Message), NEW m \in Seq(Message)
    PROVE  /\ q \o m \in Seq(Message) /\ Len(q) <= Len(q \o m)
           /\ \A i \in 1 .. Len(q) : (q \o m)[i] = q[i]
           /\ AckedIn(q \o m) = AckedIn(q) \cup AckedIn(m)
           /\ \A t : Says(q \o m, t) => Says(q, t) \/ Says(m, t)
           /\ \A i \in 1 .. Len(q \o m) : i \in 1 .. Len(q) \/ Says(m, (q \o m)[i].type)
<1>1. PICK n \in Nat, k \in Nat : Len(q) = n /\ Len(m) = k
  BY LenProperties
<1>2. /\ q \o m \in Seq(Message) /\ Len(q \o m) = n + k
      /\ \A i \in 1 .. n + k : (q \o m)[i] = IF i <= n THEN q[i] ELSE m[i - n]
  BY <1>1, ConcatProperties
<1>3. /\ \A i \in 1 .. n : i \in 1 .. n + k /\ i <= n
      /\ \A i \in 1 .. k : n + i \in 1 .. n + k /\ ~(n + i <= n) /\ (n + i) - n = i
      /\ \A i \in 1 .. n + k : i \in 1 .. n \/ (~(i <= n) /\ i - n \in 1 .. k)
  OBVIOUS
<1>4. /\ \A i \in 1 .. n : i \in 1 .. n + k /\ (q \o m)[i] = q[i]
      /\ \A i \in 1 .. k : n + i \in 1 .. n + k /\ (q \o m)[n + i] = m[i]
      /\ \A i \in 1 .. n + k : i \in 1 .. n \/ (i - n \in 1 .. k /\ (q \o m)[i] = m[i - n])
  BY <1>2, <1>3
<1>5. AckedIn(q \o m) = AckedIn(q) \cup AckedIn(m)
  <2>1. ASSUME NEW a \in AckedIn(q \o m)
        PROVE  a \in AckedIn(q) \cup AckedIn(m)
    <3>1. PICK i \in 1 .. n + k : (q \o m)[i].type = "DURABLE_ACK" /\ a = (q \o m)[i].seq
      BY <1>2 DEF AckedIn
    <3>. QED  BY <3>1, <1>1, <1>4 DEF AckedIn
  <2>2. ASSUME NEW a \in AckedIn(q)
        PROVE  a \in AckedIn(q \o m)
    BY <1>1, <1>2, <1>4 DEF AckedIn
  <2>3. ASSUME NEW a \in AckedIn(m)
        PROVE  a \in AckedIn(q \o m)
    <3>1. PICK i \in 1 .. k : m[i].type = "DURABLE_ACK" /\ a = m[i].seq
      BY <1>1, <2>3 DEF AckedIn
    <3>2. n + i \in 1 .. n + k /\ (q \o m)[n + i] = m[i]
      BY <1>4
    <3>. QED  BY <1>2, <3>1, <3>2 DEF AckedIn
  <2>. QED  BY <2>1, <2>2, <2>3
<1>6. \A t : Says(q \o m, t) => Says(q, t) \/ Says(m, t)
  BY <1>1, <1>2, <1>4 DEF Says
<1>7. \A i \in 1 .. n + k : i \in 1 .. n \/ Says(m, (q \o m)[i].type)
  BY <1>1, <1>4 DEF Says
<1>8. n <= n + k
  OBVIOUS
<1>. QED  BY <1>1, <1>2, <1>4, <1>5, <1>6, <1>7, <1>8

LEMMA OneMessage ==
    ASSUME NEW x \in Message
    PROVE  /\ <<x>> \in Seq(Message) /\ \A t : Says(<<x>>, t) <=> t = x.type
           /\ AckedIn(<<x>>) = IF x.type = "DURABLE_ACK" THEN {x.seq} ELSE {}
<1>1. <<x>> \in Seq(Message) /\ Len(<<x>>) = 1 /\ <<x>>[1] = x
  OBVIOUS
<1>2. \A i \in 1 .. 1 : i = 1
  OBVIOUS
<1>. QED  BY <1>1, <1>2 DEF Says, AckedIn

LEMMA TwoMessages ==
    ASSUME NEW x \in Message, NEW y \in Message
    PROVE  /\ <<x, y>> \in Seq(Message) /\ Len(<<x, y>>) = 2 /\ <<x, y>>[1] = x /\ <<x, y>>[2] = y
           /\ \A i \in 1 .. Len(<<x, y>>) : i = 1 \/ i = 2
OBVIOUS

LEMMA MessagesRead ==
    ASSUME NEW q \in Seq(Message), q # <<>>
    PROVE  /\ Head(q) \in Message /\ Head(q) = q[1] /\ Tail(q) \in Seq(Message)
           /\ Len(q) \in Nat \ {0} /\ Len(Tail(q)) = Len(q) - 1
           /\ \A i \in 1 .. Len(Tail(q)) : i + 1 \in 1 .. Len(q) /\ Tail(q)[i] = q[i + 1]
           /\ AckedIn(Tail(q)) \subseteq AckedIn(q)
           /\ \A t : Says(Tail(q), t) => Says(q, t)
           /\ Head(q).type = "DURABLE_ACK" => Head(q).seq \in AckedIn(q)
           /\ Says(q, Head(q).type)
<1>1. PICK n \in Nat : Len(q) = n + 1 /\ Len(Tail(q)) = n
  <2>1. Len(q) \in Nat \ {0}
    BY EmptySeq
  <2>. QED  BY <2>1, HeadTailProperties
<1>2. /\ Head(q) \in Message /\ Tail(q) \in Seq(Message) /\ Head(q) = q[1]
      /\ \A i \in 1 .. n : i + 1 \in 1 .. n + 1 /\ Tail(q)[i] = q[i + 1]
      /\ 1 \in 1 .. n + 1
  BY <1>1, HeadTailProperties
<1>. HIDE DEF Message
<1>3. AckedIn(Tail(q)) \subseteq AckedIn(q)
  BY <1>1, <1>2 DEF AckedIn
<1>4. \A t : Says(Tail(q), t) => Says(q, t)
  BY <1>1, <1>2 DEF Says
<1>5. Head(q).type = "DURABLE_ACK" => Head(q).seq \in AckedIn(q)
  BY <1>1, <1>2 DEF AckedIn
<1>6. Says(q, Head(q).type)
  BY <1>1, <1>2 DEF Says
<1>. QED  BY <1>1, <1>2, <1>3, <1>4, <1>5, <1>6

-----------------------------------------------------------------------------
(* Types *)

\* What the fields of a session say of each other
Shape(s) ==
    /\ s.doc # None \/ s.metadata => s.epoch # 0
    /\ s.loading \/ s.mounted => s.doc # None \/ s.destroyed
    /\ s.mounted => ~s.loading \/ s.destroyed
    /\ s.editable => s.mounted
SoundSession == {s \in Session : s.pending \subseteq 1 .. s.seq /\ Shape(s)}

Typed ==
    /\ session \in SoundSession /\ page \in Page /\ flushes \in [Flushes -> Call]
    /\ idb \in [Epochs -> SUBSET All] /\ wire \in Wire /\ server \in Server
    /\ made \in [All -> 0 .. MaxEpoch] /\ IsFiniteSet(server.unsaved)

LEMMA TypedImplies == Typed => TypeOK
BY DEF Typed, SoundSession, TypeOK

LEMMA NoneIsNoSet == \A S \in SUBSET All : S # None
BY SessionAssumption

LEMMA InitTyped == Init => Typed
<1>. SUFFICES ASSUME Init PROVE Typed
  OBVIOUS
<1>1. session \in SoundSession
  <2>1. Constructed \in Session
    BY SessionAssumption DEF Constructed, Session, Modes
  <2>. QED  BY <2>1 DEF Init, SoundSession, Shape, Constructed
<1>2. page \in Page
  BY DEF Init, Page, Labels
<1>3. flushes \in [Flushes -> Call]
  BY SessionAssumption DEF Init, Call, NoCall
<1>4. wire \in Wire
  BY SessionAssumption DEF Init, Wire
<1>5. server \in Server /\ IsFiniteSet(server.unsaved)
  BY SessionAssumption, FS_EmptySet DEF Init, Server, Epochs
<1>6. idb \in [Epochs -> SUBSET All] /\ made \in [All -> 0 .. MaxEpoch]
  BY SessionAssumption DEF Init
<1>. QED  BY <1>1, <1>2, <1>3, <1>4, <1>5, <1>6 DEF Typed

LEMMA LabelTyped ==
    ASSUME NEW p \in Page, NEW l \in Labels
    PROVE  /\ Label(p, l) \in Page /\ Label(p, l).label = l
           /\ Label(p, l).conflict = p.conflict /\ Label(p, l).recovery = p.recovery /\ Label(p, l).reload = p.reload
BY DEF Label, Page

LEMMA SettledTyped ==
    ASSUME flushes \in [Flushes -> Call], NEW how \in {"resolved", "rejected"}
    PROVE  /\ Settled(how) \in [Flushes -> Call]
           /\ \A f \in Flushes :
                /\ ~Settled(how)[f].listed /\ Settled(how)[f].covers = flushes[f].covers
                /\ Settled(how)[f].epoch = flushes[f].epoch /\ Settled(how)[f].alone = flushes[f].alone
                /\ Settled(how)[f].state = IF flushes[f].listed /\ flushes[f].state = "waiting"
                                           THEN how ELSE flushes[f].state
<1>2. ASSUME NEW f \in Flushes
      PROVE  /\ Settled(how)[f] \in Call /\ ~Settled(how)[f].listed /\ Settled(how)[f].covers = flushes[f].covers
             /\ Settled(how)[f].epoch = flushes[f].epoch /\ Settled(how)[f].alone = flushes[f].alone
             /\ Settled(how)[f].state = IF flushes[f].listed /\ flushes[f].state = "waiting"
                                        THEN how ELSE flushes[f].state
  <2>1. PICK st : st = IF flushes[f].listed /\ flushes[f].state = "waiting" THEN how ELSE flushes[f].state
    OBVIOUS
  <2>2. flushes[f] \in Call /\ st \in {"none", "waiting", "resolved", "rejected"}
    BY <2>1 DEF Call
  <2>3. Settled(how)[f] = [flushes[f] EXCEPT !.listed = FALSE, !.state = st]
    BY <2>1 DEF Settled
  <2>. DEFINE d == Settled(how)[f]
  <2>. HIDE DEF d
  <2>5. d = [flushes[f] EXCEPT !.listed = FALSE, !.state = st]
    BY <2>3 DEF d
  <2>6. /\ d \in Call /\ ~d.listed /\ d.covers = flushes[f].covers /\ d.epoch = flushes[f].epoch
        /\ d.alone = flushes[f].alone /\ d.state = st
    BY <2>2, <2>5 DEF Call
  <2>4. /\ Settled(how)[f] \in Call /\ ~Settled(how)[f].listed /\ Settled(how)[f].covers = flushes[f].covers
        /\ Settled(how)[f].epoch = flushes[f].epoch /\ Settled(how)[f].alone = flushes[f].alone
        /\ Settled(how)[f].state = st
    BY <2>6 DEF d
  <2>. QED  BY <2>1, <2>4
<1>3. Settled(how) \in [Flushes -> Call]
  BY <1>2 DEF Settled
<1>. QED  BY <1>2, <1>3

LEMMA ClosedTyped ==
    ASSUME NEW w \in Wire
    PROVE  /\ Closed(w) \in Wire /\ Closed(w).pc = "none" /\ Closed(w).up = <<>> /\ Closed(w).down = <<>>
           /\ Closed(w).count = w.count /\ Closed(w).epoch = w.epoch
BY EmptySeq DEF Closed, Wire

LEMMA DestroyedTyped ==
    ASSUME NEW s \in SoundSession
    PROVE  /\ Destroyed(s) \in SoundSession /\ Destroyed(s).destroyed /\ ~Destroyed(s).timer /\ Destroyed(s).doc = None
           /\ Destroyed(s).epoch = s.epoch /\ Destroyed(s).mounted = s.mounted
<1>1. /\ Destroyed(s) \in Session /\ Destroyed(s).destroyed /\ ~Destroyed(s).timer /\ Destroyed(s).doc = None
      /\ Destroyed(s).epoch = s.epoch /\ Destroyed(s).mounted = s.mounted /\ Destroyed(s).metadata = s.metadata
      /\ Destroyed(s).loading = s.loading /\ Destroyed(s).editable = s.editable
      /\ Destroyed(s).pending = s.pending /\ Destroyed(s).seq = s.seq
  BY DEF Destroyed, Session, SoundSession
<1>. QED  BY <1>1 DEF SoundSession, Shape

\* What one step may read from the socket
LEMMA ReadTyped ==
    ASSUME Typed, IsOpen, wire.down # <<>>
    PROVE  /\ Head(wire.down) \in Message /\ Tail(wire.down) \in Seq(Message)
           /\ [wire EXCEPT !.down = Tail(wire.down)] \in Wire
<1>1. wire \in Wire /\ wire.down \in Seq(Message)
  BY DEF Typed, Wire
<1>2. Head(wire.down) \in Message /\ Tail(wire.down) \in Seq(Message)
  BY <1>1, MessagesRead
<1>. QED  BY <1>1, <1>2 DEF Wire

\* sendUpdate
LEMMA SentTyped ==
    ASSUME NEW s \in Session, s.pending \subseteq 1 .. s.seq, NEW U \in SUBSET All
    PROVE  /\ Sent(s, U) \in Session /\ Sent(s, U).pending \subseteq 1 .. Sent(s, U).seq
           /\ Sent(s, U).seq = s.seq + 1 /\ Sent(s, U).pending = s.pending \cup {s.seq + 1}
           /\ Sent(s, U).doc = s.doc /\ Sent(s, U).epoch = s.epoch /\ Sent(s, U).metadata = s.metadata
           /\ Sent(s, U).loading = s.loading /\ Sent(s, U).mounted = s.mounted /\ Sent(s, U).destroyed = s.destroyed
           /\ Sent(s, U).editable = s.editable /\ Sent(s, U).access = s.access /\ Sent(s, U).initial = s.initial
           /\ Sent(s, U).timer = s.timer /\ Sent(s, U).connected = s.connected
           /\ UpdateFrame(s, U) \in Frame /\ UpdateFrame(s, U).type = "SOURCE_UPDATE"
           /\ UpdateFrame(s, U).seq = s.seq + 1 /\ UpdateFrame(s, U).ups = U
<1>1. s.seq \in Nat /\ s.seq + 1 \in Nat /\ s.pending \in SUBSET Nat
  BY DEF Session
<1>2. s.pending \cup {s.seq + 1} \in SUBSET Nat /\ s.pending \cup {s.seq + 1} \subseteq 1 .. s.seq + 1
  BY <1>1
<1>3. Sent(s, U) \in Session
  BY <1>1, <1>2 DEF Sent, Session
<1>4. /\ Sent(s, U).seq = s.seq + 1 /\ Sent(s, U).pending = s.pending \cup {s.seq + 1}
      /\ Sent(s, U).doc = s.doc /\ Sent(s, U).epoch = s.epoch /\ Sent(s, U).metadata = s.metadata
      /\ Sent(s, U).loading = s.loading /\ Sent(s, U).mounted = s.mounted /\ Sent(s, U).destroyed = s.destroyed
      /\ Sent(s, U).editable = s.editable /\ Sent(s, U).access = s.access /\ Sent(s, U).initial = s.initial
      /\ Sent(s, U).timer = s.timer /\ Sent(s, U).connected = s.connected
  BY DEF Sent, Session
<1>5. /\ UpdateFrame(s, U) \in Frame /\ UpdateFrame(s, U).type = "SOURCE_UPDATE"
      /\ UpdateFrame(s, U).seq = s.seq + 1 /\ UpdateFrame(s, U).ups = U
  BY <1>1, FrameTypes DEF UpdateFrame
<1>. QED  BY <1>2, <1>3, <1>4, <1>5

\* Two sessions that differ in their document, what waits for an acknowledgement, or nothing
Same(s, t) ==
    /\ s.epoch = t.epoch /\ s.metadata = t.metadata /\ s.initial = t.initial /\ s.mounted = t.mounted
    /\ s.destroyed = t.destroyed /\ s.editable = t.editable /\ s.access = t.access
    /\ s.timer = t.timer /\ s.connected = t.connected

\* The document of the session is stored in the browser and, by a Writer, sent.
LEMMA AnnouncedIs ==
    ASSUME Typed, NEW s \in SoundSession, s.epoch # 0, NEW doc \in SUBSET All,
           NEW down \in Seq(Message), Announced(s, doc, down)
    PROVE  /\ session' \in SoundSession /\ idb' \in [Epochs -> SUBSET All] /\ wire' \in Wire /\ page' \in Page
           /\ Same(session', s) /\ session'.loading = s.loading /\ session'.doc = doc
           /\ idb'[s.epoch] = doc /\ \A e \in Epochs : e # s.epoch => idb'[e] = idb[e]
           /\ wire'.pc = wire.pc /\ wire'.count = wire.count /\ wire'.epoch = wire.epoch /\ wire'.down = down
           /\ s.access = "read_write" /\ IsOpen =>
                 /\ session'.seq = s.seq + 1 /\ session'.pending = s.pending \cup {s.seq + 1}
                 /\ wire'.up = Append(wire.up, UpdateFrame(s, doc)) /\ page'.label = "syncing"
           /\ s.access = "read_write" /\ ~IsOpen => page'.label = "offline"
           /\ ~(s.access = "read_write" /\ IsOpen) =>
                 session'.seq = s.seq /\ session'.pending = s.pending /\ wire'.up = wire.up
<1>. DEFINE t == [s EXCEPT !.doc = doc]
<1>1. s \in Session /\ s.pending \subseteq 1 .. s.seq /\ Shape(s) /\ wire \in Wire /\ page \in Page /\ s.epoch \in Epochs
  BY DEF Typed, SoundSession, Session, Epochs
<1>2. /\ t \in Session /\ Same(t, s) /\ t.loading = s.loading /\ t.doc = doc /\ t.seq = s.seq /\ t.pending = s.pending
  BY <1>1 DEF Session, Same
<1>3. doc # None
  BY NoneIsNoSet
<1>. HIDE DEF t
<1>4. t \in SoundSession
  <2>1. Shape(t)
    BY <1>1, <1>2, <1>3 DEF Shape, Same
  <2>. QED  BY <1>1, <1>2, <2>1 DEF SoundSession
<1>5. idb' = [idb EXCEPT ![s.epoch] = doc]
  BY DEF Announced
<1>6. /\ idb' \in [Epochs -> SUBSET All] /\ idb'[s.epoch] = doc
      /\ \A e \in Epochs : e # s.epoch => idb'[e] = idb[e]
  BY <1>1, <1>5 DEF Typed
<1>7. CASE s.access = "read_write" /\ IsOpen
  <2>1. /\ session' = Sent(t, doc) /\ page' = Label(page, "syncing")
        /\ wire' = [wire EXCEPT !.up = Append(wire.up, UpdateFrame(s, doc)), !.down = down]
    BY <1>7 DEF Announced, t
  <2>2. /\ Sent(t, doc) \in Session /\ Sent(t, doc).pending \subseteq 1 .. Sent(t, doc).seq
        /\ Same(Sent(t, doc), t) /\ Sent(t, doc).loading = t.loading /\ Sent(t, doc).doc = doc
        /\ Sent(t, doc).seq = t.seq + 1 /\ Sent(t, doc).pending = t.pending \cup {t.seq + 1}
    BY <1>1, <1>2, SentTyped DEF Same
  <2>3. Shape(Sent(t, doc))
    BY <1>4, <2>2, <1>2 DEF Shape, Same, SoundSession
  <2>4. UpdateFrame(s, doc) \in Frame /\ wire.up \in Seq(Frame)
    BY <1>1, SentTyped DEF Wire
  <2>5. Append(wire.up, UpdateFrame(s, doc)) \in Seq(Frame)
    BY <2>4, AppendProperties
  <2>6. /\ wire' \in Wire /\ wire'.pc = wire.pc /\ wire'.count = wire.count /\ wire'.epoch = wire.epoch
        /\ wire'.down = down /\ wire'.up = Append(wire.up, UpdateFrame(s, doc))
    BY <1>1, <2>1, <2>5 DEF Wire
  <2>7. page' \in Page /\ page'.label = "syncing"
    BY <1>1, <2>1, LabelTyped DEF Labels
  <2>8. session' \in SoundSession /\ Same(session', s)
    BY <2>1, <2>2, <2>3, <1>2 DEF SoundSession, Same
  <2>. QED  BY <1>2, <1>6, <1>7, <2>1, <2>2, <2>6, <2>7, <2>8
<1>8. CASE ~(s.access = "read_write" /\ IsOpen)
  <2>1. /\ session' = t /\ wire' = [wire EXCEPT !.down = down]
        /\ page' = Label(page, IF s.access = "read_write" THEN "offline" ELSE "synced")
    BY <1>8 DEF Announced, t
  <2>2. /\ wire' \in Wire /\ wire'.pc = wire.pc /\ wire'.count = wire.count /\ wire'.epoch = wire.epoch
        /\ wire'.down = down /\ wire'.up = wire.up
    BY <1>1, <2>1 DEF Wire
  <2>3. page' \in Page /\ page'.label = IF s.access = "read_write" THEN "offline" ELSE "synced"
    BY <1>1, <2>1, LabelTyped DEF Labels
  <2>. QED  BY <1>2, <1>4, <1>6, <1>8, <2>1, <2>2, <2>3
<1>. QED  BY <1>7, <1>8

\* A message that completes the handshake, or one that does not
LEMMA MergeIs ==
    ASSUME Typed, NEW s \in SoundSession, IsOpen, wire.down # <<>>, InitializeOrMerge(s)
    PROVE  \/ /\ session' = s \/ (s.doc = None /\ Ready(s) /\ session' = [s EXCEPT !.loading = TRUE, !.doc = {}])
              /\ Ready(s) => s.doc = None
              /\ wire' = [wire EXCEPT !.down = Tail(wire.down)] /\ UNCHANGED <<idb, page>>
           \/ /\ Ready(s) /\ s.doc # None /\ s.epoch # 0 /\ s.doc \cup s.initial \in SUBSET All
              /\ Announced(s, s.doc \cup s.initial, Tail(wire.down))
<1>1. s.doc \in {None} \cup SUBSET All /\ s.initial \in {None} \cup SUBSET All
  BY DEF SoundSession, Session
<1>2. Ready(s) => s.initial # None
  BY DEF Ready
<1>3. s.doc # None => s.epoch # 0
  BY DEF SoundSession, Shape
<1>. QED  BY <1>1, <1>2, <1>3 DEF InitializeOrMerge, Merged

LEMMA LoadingTyped ==
    ASSUME NEW s \in SoundSession, s.doc = None, Ready(s), NEW t, t = [s EXCEPT !.loading = TRUE, !.doc = {}]
    PROVE  /\ t \in SoundSession /\ Same(t, s) /\ t.seq = s.seq /\ t.pending = s.pending
           /\ t.loading /\ t.doc = {} /\ (t.mounted => t.destroyed)
<1>1. /\ t \in Session /\ Same(t, s) /\ t.seq = s.seq /\ t.pending = s.pending /\ t.loading /\ t.doc = {}
  BY DEF SoundSession, Session, Same
<1>2. s.metadata /\ (s.mounted => s.destroyed)
  BY DEF SoundSession, Shape, Ready
<1>3. {} # None
  BY NoneIsNoSet
<1>. QED  BY <1>1, <1>2, <1>3 DEF SoundSession, Shape, Same

LEMMA ConnectTyped == ASSUME Typed, Connect PROVE Typed'
<1>1. session' \in SoundSession
  <2>1. session' = [session EXCEPT !.timer = FALSE, !.metadata = FALSE, !.initial = None] /\ session \in SoundSession
    BY DEF Connect, Typed
  <2>. QED  BY <2>1 DEF SoundSession, Session, Shape
<1>2. page' \in Page
  BY LabelTyped DEF Connect, Typed, Labels
<1>3. wire' \in Wire
  <2>1. PICK w : w = Closed(wire)
    OBVIOUS
  <2>2. w \in Wire /\ w.count = wire.count
    BY <2>1, ClosedTyped DEF Typed
  <2>3. wire' = [w EXCEPT !.pc = "connecting", !.count = wire.count + 1] /\ wire.count < MaxConnections
    BY <2>1 DEF Connect
  <2>4. wire.count + 1 \in 0 .. MaxConnections
    BY <2>2, <2>3, SessionAssumption DEF Wire
  <2>. QED  BY <2>2, <2>3, <2>4 DEF Wire
<1>. QED  BY <1>1, <1>2, <1>3 DEF Typed, Connect

LEMMA OpenTyped == ASSUME Typed, Open PROVE Typed'
<1>1. session' \in SoundSession
  <2>1. session' = [session EXCEPT !.connected = TRUE] /\ session \in SoundSession
    BY DEF Open, Typed
  <2>. QED  BY <2>1 DEF SoundSession, Session, Shape
<1>2. page' \in Page
  BY LabelTyped DEF Open, Typed, Labels
<1>3. wire' \in Wire
  <2>. DEFINE a == [type |-> "JOIN_ACCEPTED", epoch |-> server.epoch,
                    access |-> IF server.frozen THEN "read_only" ELSE "read_write"]
              U == server.durable[server.epoch] \cup UNION {b.ups : b \in server.unsaved}
              b == [type |-> "INITIAL_STATE", ups |-> U]
  <2>1. wire' = [wire EXCEPT !.pc = "open", !.epoch = server.epoch, !.down = <<a, b>>]
    BY DEF Open
  <2>2. server.epoch \in Epochs /\ U \in SUBSET All
    BY DEF Typed, Server
  <2>3. a \in Message /\ b \in Message
    BY <2>2, MessageTypes DEF Modes
  <2>. HIDE DEF a, b
  <2>4. PICK q \in Seq(Message) : q = <<a, b>>
    <3>1. <<a, b>> \in Seq(Message)
      BY <2>3, TwoMessages
    <3>. QED  BY <3>1
  <2>5. PICK e \in 0 .. MaxEpoch : e = server.epoch
    BY <2>2 DEF Epochs
  <2>6. wire' = [wire EXCEPT !.pc = "open", !.epoch = e, !.down = q] /\ wire \in Wire
    BY <2>1, <2>4, <2>5 DEF Typed
  <2>. QED  BY <2>6 DEF Wire
<1>. QED  BY <1>1, <1>2, <1>3 DEF Typed, Open

LEMMA CloseTyped == ASSUME Typed, Close PROVE Typed'
<1>1. session' \in SoundSession
  <2>1. session' = [session EXCEPT !.connected = FALSE, !.pending = {}, !.timer = TRUE] /\ session \in SoundSession
    BY DEF Close, Typed
  <2>. QED  BY <2>1 DEF SoundSession, Session, Shape
<1>2. page' \in Page
  BY LabelTyped DEF Close, Typed, Labels
<1>3. wire' \in Wire /\ flushes' \in [Flushes -> Call]
  BY ClosedTyped, SettledTyped DEF Close, Typed
<1>. QED  BY <1>1, <1>2, <1>3 DEF Typed, Close

\* What a message with the rest of the handshake leaves typed
LEMMA MergeTyped ==
    ASSUME Typed, NEW s \in SoundSession, IsOpen, wire.down # <<>>, InitializeOrMerge(s)
    PROVE  /\ session' \in SoundSession /\ idb' \in [Epochs -> SUBSET All] /\ wire' \in Wire /\ page' \in Page
<1>1. CASE /\ session' = s \/ (s.doc = None /\ Ready(s) /\ session' = [s EXCEPT !.loading = TRUE, !.doc = {}])
           /\ wire' = [wire EXCEPT !.down = Tail(wire.down)] /\ UNCHANGED <<idb, page>>
  <2>1. session' \in SoundSession
    BY <1>1, LoadingTyped
  <2>2. wire' \in Wire
    BY <1>1, ReadTyped
  <2>. QED  BY <1>1, <2>1, <2>2 DEF Typed
<1>2. CASE /\ s.epoch # 0 /\ s.doc \cup s.initial \in SUBSET All
           /\ Announced(s, s.doc \cup s.initial, Tail(wire.down))
  BY <1>2, ReadTyped, AnnouncedIs
<1>. QED  BY <1>1, <1>2, MergeIs

LEMMA PreserveTyped ==
    ASSUME Typed, PreserveOldEpoch
    PROVE  /\ session' \in SoundSession /\ wire' \in Wire /\ page' \in Page /\ flushes' \in [Flushes -> Call]
           /\ idb' = idb
<1>1. page' \in Page
  <2>1. session.doc \in {None} \cup SUBSET All /\ page \in Page
    BY DEF Typed, SoundSession, Session
  <2>. QED  BY <2>1 DEF PreserveOldEpoch, Page, Labels
<1>. QED  BY <1>1, ClosedTyped, SettledTyped, DestroyedTyped DEF PreserveOldEpoch, Typed

LEMMA JoinedTyped ==
    ASSUME NEW s \in SoundSession, NEW e \in Epochs, NEW a \in Modes, NEW t,
           t = [s EXCEPT !.epoch = e, !.metadata = TRUE, !.access = a]
    PROVE  /\ t \in SoundSession /\ t.epoch = e /\ t.metadata /\ t.access = a /\ t.doc = s.doc /\ t.initial = s.initial
           /\ t.loading = s.loading /\ t.mounted = s.mounted /\ t.destroyed = s.destroyed /\ t.editable = s.editable
           /\ t.seq = s.seq /\ t.pending = s.pending /\ t.timer = s.timer /\ t.connected = s.connected
<1>1. /\ t \in Session /\ t.epoch = e /\ t.metadata /\ t.access = a /\ t.doc = s.doc /\ t.initial = s.initial
      /\ t.loading = s.loading /\ t.mounted = s.mounted /\ t.destroyed = s.destroyed /\ t.editable = s.editable
      /\ t.seq = s.seq /\ t.pending = s.pending /\ t.timer = s.timer /\ t.connected = s.connected
  <2>1. e \in 0 .. MaxEpoch /\ s \in Session
    BY DEF Epochs, SoundSession
  <2>. QED  BY <2>1 DEF Session
<1>2. e # 0
  BY DEF Epochs
<1>. QED  BY <1>1, <1>2 DEF SoundSession, Shape

LEMMA JoinAcceptedTyped == ASSUME Typed, JoinAccepted PROVE Typed'
<1>1. Head(wire.down) \in Message /\ Head(wire.down).type = "JOIN_ACCEPTED" /\ IsOpen /\ wire.down # <<>>
  BY ReadTyped DEF JoinAccepted, Got
<1>2. Head(wire.down).epoch \in Epochs /\ Head(wire.down).access \in Modes
  BY <1>1, MessageFields
<1>3. CASE PreserveOldEpoch /\ UNCHANGED <<server, made>>
  BY <1>3, PreserveTyped DEF Typed
<1>4. CASE InitializeOrMerge([session EXCEPT !.epoch = Head(wire.down).epoch, !.metadata = TRUE,
                                             !.access = Head(wire.down).access]) /\ UNCHANGED <<flushes, server, made>>
  <2>1. [session EXCEPT !.epoch = Head(wire.down).epoch, !.metadata = TRUE,
                        !.access = Head(wire.down).access] \in SoundSession
    BY <1>2, JoinedTyped DEF Typed
  <2>. QED  BY <1>1, <1>4, <2>1, MergeTyped DEF Typed
<1>. QED  BY <1>3, <1>4 DEF JoinAccepted

LEMMA InitialStateTyped == ASSUME Typed, InitialState PROVE Typed'
<1>1. Head(wire.down) \in Message /\ Head(wire.down).type = "INITIAL_STATE" /\ IsOpen /\ wire.down # <<>>
  BY ReadTyped DEF InitialState, Got
<1>2. PICK U \in SUBSET All : U = Head(wire.down).ups
  BY <1>1, MessageFields
<1>3. [session EXCEPT !.initial = U] \in SoundSession
  <2>1. session \in SoundSession
    BY DEF Typed
  <2>. QED  BY <2>1 DEF SoundSession, Session, Shape
<1>4. InitializeOrMerge([session EXCEPT !.initial = U]) /\ UNCHANGED <<flushes, server, made>>
  BY <1>2 DEF InitialState
<1>. QED  BY <1>1, <1>3, <1>4, MergeTyped DEF Typed

LEMMA StoredTyped ==
    ASSUME page \in Page, NEW pending
    PROVE  Stored(pending) \in Page /\ (Stored(pending) = page \/ (pending = {} /\ Stored(pending).label = "synced"))
BY LabelTyped DEF Stored, Labels

LEMMA NoticeTyped == ASSUME Typed, DurableAck \/ RemoteDurable \/ Flushed \/ Error PROVE Typed'
<1>1. IsOpen /\ wire.down # <<>>
  BY DEF DurableAck, RemoteDurable, Flushed, Error, Got
<1>2. wire' \in Wire
  BY <1>1, ReadTyped DEF DurableAck, RemoteDurable, Flushed, Error, Read
<1>3. session' \in SoundSession
  <2>1. CASE UNCHANGED session
    BY <2>1 DEF Typed
  <2>2. CASE DurableAck
    <3>1. session' = [session EXCEPT !.pending = session.pending \ {Head(wire.down).seq}] /\ session \in SoundSession
      BY <2>2 DEF DurableAck, Typed
    <3>. QED  BY <3>1 DEF SoundSession, Session, Shape
  <2>. QED  BY <2>1, <2>2 DEF RemoteDurable, Flushed, Error
<1>4. page' \in Page
  <2>1. CASE Error
    BY <2>1 DEF Error, Typed, Page, Labels
  <2>2. page \in Page
    BY DEF Typed
  <2>. QED  BY <2>1, <2>2, StoredTyped DEF DurableAck, RemoteDurable, Flushed
<1>5. flushes' \in [Flushes -> Call]
  BY SettledTyped DEF DurableAck, RemoteDurable, Flushed, Error, Typed
<1>6. UNCHANGED <<idb, server, made>>
  BY DEF DurableAck, RemoteDurable, Flushed, Error
<1>. QED  BY <1>2, <1>3, <1>4, <1>5, <1>6 DEF Typed

LEMMA RemoteSourceTyped == ASSUME Typed, RemoteSourceUpdate PROVE Typed'
<1>1. IsOpen /\ wire.down # <<>> /\ Head(wire.down).type = "REMOTE_SOURCE_UPDATE"
  BY DEF RemoteSourceUpdate, Got
<1>2. PICK U \in SUBSET All : U = Head(wire.down).ups
  BY <1>1, ReadTyped, MessageFields
<1>3. session \in SoundSession /\ session.doc \in {None} \cup SUBSET All
  BY DEF Typed, SoundSession, Session
<1>4. CASE session.doc = None
  <2>1. session' = [session EXCEPT !.buffered = session.buffered \cup U] /\ idb' = idb
    BY <1>2, <1>4 DEF RemoteSourceUpdate
  <2>2. session' \in SoundSession
    BY <1>3, <2>1 DEF SoundSession, Session, Shape
  <2>. QED  BY <1>1, <2>1, <2>2, ReadTyped, LabelTyped DEF RemoteSourceUpdate, Read, Typed, Labels
<1>5. CASE session.doc # None
  <2>1. PICK D \in SUBSET All : D = session.doc \cup U
    BY <1>3, <1>5
  <2>2. session' = [session EXCEPT !.doc = D] /\ idb' = [idb EXCEPT ![session.epoch] = idb[session.epoch] \cup U]
    BY <1>2, <1>5, <2>1 DEF RemoteSourceUpdate
  <2>3. session.epoch # 0 /\ session.epoch \in Epochs
    BY <1>3, <1>5 DEF SoundSession, Shape, Session, Epochs
  <2>4. session' \in SoundSession
    BY <1>3, <2>2, <2>3, NoneIsNoSet DEF SoundSession, Session, Shape
  <2>5. idb' \in [Epochs -> SUBSET All]
    BY <2>2, <2>3 DEF Typed
  <2>. QED  BY <1>1, <2>4, <2>5, ReadTyped, LabelTyped DEF RemoteSourceUpdate, Read, Typed, Labels
<1>. QED  BY <1>4, <1>5

LEMMA PolicyChangedTyped == ASSUME Typed, PolicyChanged PROVE Typed'
<1>1. page' \in Page
  BY DEF PolicyChanged, Typed, Page, Labels
<1>. QED  BY <1>1, ClosedTyped, SettledTyped, DestroyedTyped DEF PolicyChanged, Typed

LEMMA LoadedTyped == ASSUME Typed, Loaded PROVE Typed'
<1>. DEFINE doc == session.doc \cup idb[session.epoch]
            s == [session EXCEPT !.loading = FALSE]
            t == [s EXCEPT !.mounted = TRUE, !.editable = (s.access = "read_write"), !.buffered = {}]
<1>1. session \in SoundSession /\ session.loading /\ ~session.destroyed
  BY DEF Typed, Loaded
<1>2. session.doc \in SUBSET All /\ session.epoch # 0 /\ session.epoch \in Epochs
  BY <1>1 DEF SoundSession, Shape, Session, Epochs
<1>3. doc \in SUBSET All
  BY <1>2 DEF Typed
<1>4. CASE session.initial = None
  <2>1. session' = [s EXCEPT !.doc = doc] /\ UNCHANGED <<idb, wire, page, flushes, server, made>>
    BY <1>4 DEF Loaded
  <2>. HIDE DEF doc
  <2>2. session' \in SoundSession
    BY <1>1, <1>2, <1>3, <2>1, NoneIsNoSet DEF SoundSession, Session, Shape
  <2>. QED  BY <2>1, <2>2 DEF Typed
<1>5. CASE session.initial # None
  <2>1. Announced(t, doc \cup session.initial \cup session.buffered, wire.down) /\ UNCHANGED <<flushes, server, made>>
    BY <1>5 DEF Loaded
  <2>2. t \in SoundSession /\ t.epoch # 0
    BY <1>1, <1>2, NoneIsNoSet DEF SoundSession, Session, Shape
  <2>3. doc \cup session.initial \cup session.buffered \in SUBSET All
    BY <1>1, <1>3, <1>5 DEF SoundSession, Session
  <2>4. wire.down \in Seq(Message)
    BY DEF Typed, Wire
  <2>. HIDE DEF doc, s, t
  <2>. QED  BY <2>1, <2>2, <2>3, <2>4, AnnouncedIs DEF Typed
<1>. QED  BY <1>4, <1>5

\* A keystroke goes on the wire, or it does not.
LEMMA TypeIs ==
    ASSUME Typed, NEW u \in Edits, Type(u)
    PROVE  /\ session' \in SoundSession /\ Same(session', session) /\ session'.loading = session.loading
           /\ session.doc \in SUBSET All /\ session.epoch \in Epochs /\ session.mounted
           /\ session'.doc = session.doc \cup {u} /\ idb' = [idb EXCEPT ![session.epoch] = idb[session.epoch] \cup {u}]
           /\ page' \in Page /\ page'.label # "synced" /\ wire' \in Wire
           /\ \/ /\ session.connected /\ session.access = "read_write" /\ IsOpen
                 /\ session'.seq = session.seq + 1 /\ session'.pending = session.pending \cup {session.seq + 1}
                 /\ \E x \in Frame : /\ x.type = "SOURCE_UPDATE" /\ x.seq = session.seq + 1 /\ x.ups = {u}
                                     /\ wire' = [wire EXCEPT !.up = Append(wire.up, x)]
              \/ /\ ~(session.connected /\ session.access = "read_write" /\ IsOpen)
                 /\ session'.seq = session.seq /\ session'.pending = session.pending /\ wire' = wire
<1>. DEFINE s == [session EXCEPT !.doc = session.doc \cup {u}]
<1>1. session \in SoundSession /\ session.editable /\ ~session.destroyed /\ u \in All
  BY DEF Typed, Type, All
<1>2. session.doc \in SUBSET All /\ session.epoch # 0 /\ session.epoch \in Epochs /\ session.mounted
  BY <1>1 DEF SoundSession, Shape, Session, Epochs
<1>3. PICK D \in SUBSET All : D = session.doc \cup {u}
  BY <1>1, <1>2
<1>4. s = [session EXCEPT !.doc = D]
  BY <1>3
<1>5. /\ s \in SoundSession /\ Same(s, session) /\ s.loading = session.loading /\ s.doc = D
      /\ s.seq = session.seq /\ s.pending = session.pending
  BY <1>1, <1>2, <1>4, NoneIsNoSet DEF SoundSession, Session, Shape, Same
<1>6. CASE session.connected /\ session.access = "read_write" /\ IsOpen
  <2>1. session' = Sent(s, {u}) /\ wire' = [wire EXCEPT !.up = Append(wire.up, UpdateFrame(s, {u}))]
        /\ page' = Label(page, "syncing") /\ idb' = [idb EXCEPT ![session.epoch] = idb[session.epoch] \cup {u}]
    BY <1>6 DEF Type
  <2>. HIDE DEF s
  <2>2. /\ {u} \in SUBSET All /\ s \in Session /\ s.pending \subseteq 1 .. s.seq
    BY <1>1, <1>5 DEF SoundSession
  <2>3. PICK t : t = Sent(s, {u})
    OBVIOUS
  <2>4. /\ t \in Session /\ t.pending \subseteq 1 .. t.seq /\ Same(t, s) /\ t.loading = s.loading /\ t.doc = s.doc
        /\ t.seq = s.seq + 1 /\ t.pending = s.pending \cup {s.seq + 1}
    BY <2>2, <2>3, SentTyped DEF Same
  <2>5. t \in SoundSession
    BY <2>4, <1>5 DEF SoundSession, Shape, Same
  <2>6. PICK x : x = UpdateFrame(s, {u})
    OBVIOUS
  <2>7. x \in Frame /\ x.type = "SOURCE_UPDATE" /\ x.seq = s.seq + 1 /\ x.ups = {u}
    BY <2>2, <2>6, SentTyped
  <2>8. wire \in Wire /\ wire.up \in Seq(Frame)
    BY DEF Typed, Wire
  <2>9. Append(wire.up, x) \in Seq(Frame)
    BY <2>7, <2>8, AppendProperties
  <2>10. wire' \in Wire /\ wire' = [wire EXCEPT !.up = Append(wire.up, x)]
    BY <2>1, <2>6, <2>8, <2>9 DEF Wire
  <2>11. page' \in Page /\ page'.label # "synced"
    BY <2>1, LabelTyped DEF Typed, Labels
  <2>12. Same(t, session)
    BY <2>4, <1>5 DEF Same
  <2>. QED  BY <1>2, <1>3, <1>5, <1>6, <2>1, <2>3, <2>4, <2>5, <2>7, <2>10, <2>11, <2>12
<1>7. CASE ~(session.connected /\ session.access = "read_write" /\ IsOpen)
  <2>1. /\ session' = s /\ wire' = wire /\ page' = Label(page, "offline")
        /\ idb' = [idb EXCEPT ![session.epoch] = idb[session.epoch] \cup {u}]
    BY <1>7 DEF Type
  <2>2. page' \in Page /\ page'.label # "synced" /\ wire \in Wire
    BY <2>1, LabelTyped DEF Typed, Labels
  <2>. HIDE DEF s
  <2>. QED  BY <1>2, <1>3, <1>5, <1>7, <2>1, <2>2
<1>. QED  BY <1>6, <1>7

LEMMA TypeTyped == ASSUME Typed, NEW u \in Edits, Type(u) PROVE Typed'
<1>1. made' = [made EXCEPT ![u] = session.epoch] /\ UNCHANGED <<flushes, server>>
  BY DEF Type
<1>2. session.epoch \in 0 .. MaxEpoch /\ u \in All
  BY DEF Typed, SoundSession, Session, All
<1>3. made' \in [All -> 0 .. MaxEpoch]
  BY <1>1, <1>2 DEF Typed
<1>4. idb' \in [Epochs -> SUBSET All]
  BY <1>2, TypeIs DEF Typed
<1>. QED  BY <1>1, <1>3, <1>4, TypeIs DEF Typed

LEMMA FlushIs ==
    ASSUME Typed, NEW f \in Flushes, Flush(f)
    PROVE  /\ flushes' \in [Flushes -> Call] /\ \A g \in Flushes : g # f => flushes'[g] = flushes[g]
           /\ session.doc \in SUBSET All /\ flushes'[f].covers = session.doc /\ flushes'[f].epoch = session.epoch
           /\ page' \in Page /\ page'.label # "synced" /\ wire' \in Wire
           /\ \/ /\ ~IsOpen /\ flushes'[f].state = "rejected" /\ ~flushes'[f].listed /\ wire' = wire
              \/ /\ IsOpen /\ flushes'[f].state = "waiting" /\ flushes'[f].listed
                 /\ flushes'[f].alone => NoFlushUnderWay /\ session.initial # None
                 /\ wire' = [wire EXCEPT !.up = Append(wire.up, [type |-> "FLUSH"])]
<1>1. session \in SoundSession /\ session.mounted /\ ~session.destroyed
  BY DEF Typed, Flush
<1>2. session.doc \in SUBSET All /\ session.epoch \in 0 .. MaxEpoch
  BY <1>1 DEF SoundSession, Shape, Session
<1>3. PICK call : call = [NoCall EXCEPT !.covers = session.doc, !.epoch = session.epoch]
  OBVIOUS
<1>4. call \in Call /\ call.covers = session.doc /\ call.epoch = session.epoch /\ ~call.listed
  <2>1. NoCall \in Call /\ ~NoCall.listed
    BY SessionAssumption DEF NoCall, Call
  <2>. QED  BY <1>2, <1>3, <2>1 DEF Call
<1>5. CASE ~IsOpen
  <2>1. PICK c : c = [call EXCEPT !.state = "rejected"]
    OBVIOUS
  <2>2. c \in Call /\ c.covers = session.doc /\ c.epoch = session.epoch /\ c.state = "rejected" /\ ~c.listed
    BY <1>4, <2>1 DEF Call
  <2>3. flushes' = [flushes EXCEPT ![f] = c] /\ page' = Label(page, "offline") /\ wire' = wire
    BY <1>3, <1>5, <2>1 DEF Flush
  <2>4. page' \in Page /\ page'.label # "synced" /\ wire' \in Wire
    BY <2>3, LabelTyped DEF Typed, Labels
  <2>5. /\ flushes' \in [Flushes -> Call] /\ flushes'[f] = c /\ \A g \in Flushes : g # f => flushes'[g] = flushes[g]
    BY <2>2, <2>3 DEF Typed
  <2>. QED  BY <1>2, <1>5, <2>2, <2>3, <2>4, <2>5
<1>6. CASE IsOpen
  <2>1. PICK b \in BOOLEAN : b = (NoFlushUnderWay /\ session.initial # None)
    OBVIOUS
  <2>2. PICK c : c = [call EXCEPT !.state = "waiting", !.listed = TRUE, !.alone = b]
    OBVIOUS
  <2>3. c \in Call /\ c.covers = session.doc /\ c.epoch = session.epoch /\ c.state = "waiting" /\ c.listed /\ c.alone = b
    BY <1>4, <2>2 DEF Call
  <2>4. /\ flushes' = [flushes EXCEPT ![f] = c]
        /\ page' = Label(page, "syncing") /\ wire' = [wire EXCEPT !.up = Append(wire.up, [type |-> "FLUSH"])]
    BY <1>3, <1>6, <2>1, <2>2 DEF Flush
  <2>6. page' \in Page /\ page'.label # "synced"
    BY <2>4, LabelTyped DEF Typed, Labels
  <2>7. /\ flushes' \in [Flushes -> Call] /\ flushes'[f] = c /\ \A g \in Flushes : g # f => flushes'[g] = flushes[g]
    BY <2>3, <2>4 DEF Typed
  <2>8. wire' \in Wire
    <3>1. wire \in Wire /\ wire.up \in Seq(Frame)
      BY DEF Typed, Wire
    <3>2. Append(wire.up, [type |-> "FLUSH"]) \in Seq(Frame)
      BY <3>1, FrameTypes, AppendProperties
    <3>. QED  BY <2>4, <3>1, <3>2 DEF Wire
  <2>. QED  BY <1>2, <1>6, <2>1, <2>3, <2>4, <2>6, <2>7, <2>8
<1>. QED  BY <1>5, <1>6

LEMMA FlushTyped == ASSUME Typed, NEW f \in Flushes, Flush(f) \/ FlushTimeout(f) PROVE Typed'
<1>1. CASE Flush(f)
  BY <1>1, FlushIs DEF Typed, Flush
<1>2. CASE FlushTimeout(f)
  <2>1. flushes' = [flushes EXCEPT ![f].state = "rejected"] /\ UNCHANGED <<session, page, idb, wire, server, made>>
    BY <1>2 DEF FlushTimeout
  <2>2. flushes' \in [Flushes -> Call]
    BY <2>1 DEF Typed, Call
  <2>. QED  BY <2>1, <2>2 DEF Typed
<1>. QED  BY <1>1, <1>2

LEMMA ReopenTyped == ASSUME Typed, Reopen PROVE Typed'
<1>1. session' \in SoundSession
  <2>1. Constructed \in Session
    BY SessionAssumption DEF Constructed, Session, Modes
  <2>. QED  BY <2>1 DEF Reopen, SoundSession, Shape, Constructed
<1>2. page' \in Page
  BY DEF Reopen, Typed, Page, Labels
<1>. QED  BY <1>1, <1>2, ClosedTyped, SettledTyped DEF Reopen, Typed

-----------------------------------------------------------------------------
(* The server: five kinds of step *)

Notice == {"DURABLE_ACK", "REMOTE_DURABLE"}
Late == Notice \cup {"FLUSHED", "ERROR", "REMOTE_SOURCE_UPDATE", "POLICY_CHANGED", "PAPER_EPOCH_CHANGED"}

SameSocket == wire'.pc = wire.pc /\ wire'.count = wire.count /\ wire'.epoch = wire.epoch
Told(m) == SameSocket /\ wire'.down = IF wire.pc = "open" THEN wire.down \o m ELSE wire.down
Takes(type) == wire.pc = "open" /\ wire.up # <<>> /\ Head(wire.up).type = type /\ wire'.up = Tail(wire.up)

\* What waits is stored, and those who sent it are told.
Stores ==
    /\ server' = Kept(server)
    /\ \E m \in Seq(Message) :
         /\ Told(m) /\ AckedIn(m) \subseteq AcksOf(wire, server)
         /\ \A t : Says(m, t) => t \in Notice \cup {"FLUSHED"}
         /\ (wire'.up = wire.up /\ ~Says(m, "FLUSHED")) \/ Takes("FLUSH")
\* An update is taken in.
Accepts ==
    /\ Takes("SOURCE_UPDATE") /\ SameSocket /\ wire'.down = wire.down
    /\ \E b : /\ b = [seq |-> Head(wire.up).seq, ups |-> Head(wire.up).ups, from |-> wire.count]
              /\ server' = [server EXCEPT !.unsaved = server.unsaved \cup {b}]
\* A flush is answered, and nothing is stored.
Answers ==
    /\ Takes("FLUSH") /\ server' = server
    /\ \E t \in {"FLUSHED", "ERROR"} : Told(<<[type |-> t]>>) /\ (t = "FLUSHED" => server.unsaved = {})
\* Another Writer's edit arrives.
Hears ==
    /\ \E u \in Others : \E b : /\ b = [seq |-> 0, ups |-> {u}, from |-> 0]
                                /\ server' = [server EXCEPT !.unsaved = server.unsaved \cup {b}]
                                /\ Told(<<[type |-> "REMOTE_SOURCE_UPDATE", ups |-> {u}]>>)
    /\ wire'.up = wire.up
\* The server hangs up.
HangsUp ==
    /\ \/ server' = server \/ server' = [server EXCEPT !.frozen = TRUE]
       \/ server' = [Kept(server) EXCEPT !.epoch = server.epoch + 1] /\ server.epoch < MaxEpoch
    /\ wire'.count = wire.count /\ wire'.epoch = wire.epoch
    /\ IF wire.pc = "open"
       THEN /\ wire'.pc = "hungup" /\ wire'.up = <<>>
            /\ \E t \in {"ERROR", "POLICY_CHANGED", "PAPER_EPOCH_CHANGED"} : wire'.down = wire.down \o <<[type |-> t]>>
       ELSE wire'.pc = wire.pc /\ wire'.up = wire.up /\ wire'.down = wire.down

LEMMA NoticesAre ==
    ASSUME Typed, NEW m \in Notices(wire, server)
    PROVE  /\ m \in Seq(Message) /\ AckedIn(m) \subseteq AcksOf(wire, server)
           /\ \A t : Says(m, t) => t \in Notice
<1>. DEFINE S == AcksOf(wire, server)
            B == {b \in server.unsaved : b.from = wire.count}
            durable == <<[type |-> "REMOTE_DURABLE"]>>
            acks(q) == [i \in DOMAIN q |-> [type |-> "DURABLE_ACK", seq |-> q[i]]]
<1>1. S \in SUBSET Nat /\ IsFiniteSet(S)
  <2>1. IsFiniteSet(B)
    BY FS_Subset DEF Typed
  <2>2. \A b \in B : b.seq \in Nat
    BY DEF Typed, Server
  <2>3. [b \in B |-> b.seq] \in Surjection(B, S)
    BY DEF Surjection, AcksOf
  <2>4. IsFiniteSet(S)
    BY <2>1, <2>3, FS_Surjection
  <2>. QED  BY <2>2, <2>4 DEF AcksOf
<1>2. PICK q \in Orders(S) : m = acks(q) \o durable \/ m = durable \o acks(q)
  <2>1. Notices(wire, server) = UNION {{acks(q) \o durable, durable \o acks(q)} : q \in Orders(S)}
    BY DEF Notices
  <2>. HIDE DEF acks, durable, S
  <2>2. PICK X \in {{acks(q) \o durable, durable \o acks(q)} : q \in Orders(S)} : m \in X
    BY <2>1
  <2>. QED  BY <2>2
<1>3. PICK k \in Nat : q \in [1 .. k -> S]
  BY <1>1, FS_CardinalityType DEF Orders
<1>4. acks(q) \in Seq(Message) /\ Len(acks(q)) = k /\ DOMAIN q = 1 .. k
  <2>1. \A i \in 1 .. k : [type |-> "DURABLE_ACK", seq |-> q[i]] \in Message
    BY <1>1, <1>3, MessageTypes
  <2>. QED  BY <1>3, <2>1
<1>5. AckedIn(acks(q)) \subseteq S /\ \A t : Says(acks(q), t) => t = "DURABLE_ACK"
  BY <1>3, <1>4 DEF AckedIn, Says
<1>6. durable \in Seq(Message) /\ AckedIn(durable) = {} /\ \A t : Says(durable, t) => t = "REMOTE_DURABLE"
  BY MessageTypes, OneMessage
<1>. HIDE DEF acks, durable, S
<1>7. /\ m \in Seq(Message) /\ AckedIn(m) = AckedIn(acks(q)) \cup AckedIn(durable)
      /\ \A t : Says(m, t) => Says(acks(q), t) \/ Says(durable, t)
  <2>1. ASSUME NEW x \in Seq(Message), NEW y \in Seq(Message), m = x \o y
        PROVE  /\ m \in Seq(Message) /\ AckedIn(m) = AckedIn(x) \cup AckedIn(y)
               /\ \A t : Says(m, t) => Says(x, t) \/ Says(y, t)
    BY <2>1, MessagesTold
  <2>2. acks(q) \in Seq(Message) /\ durable \in Seq(Message)
    BY <1>4, <1>6
  <2>3. CASE m = acks(q) \o durable
    BY <2>1, <2>2, <2>3
  <2>4. CASE m = durable \o acks(q)
    BY <2>1, <2>2, <2>4
  <2>. QED  BY <1>2, <2>3, <2>4
<1>. QED  BY <1>5, <1>6, <1>7 DEF Notice, S

LEMMA KeptIs ==
    ASSUME Typed
    PROVE  /\ Kept(server) \in Server /\ Kept(server).unsaved = {} /\ IsFiniteSet(Kept(server).unsaved)
           /\ Kept(server).epoch = server.epoch /\ Kept(server).frozen = server.frozen
           /\ \A e \in Epochs : server.durable[e] \subseteq Kept(server).durable[e]
           /\ \A b \in server.unsaved : b.ups \subseteq Kept(server).durable[server.epoch]
<1>1. server \in Server /\ server.epoch \in Epochs /\ server.durable \in [Epochs -> SUBSET All]
  BY DEF Typed, Server
<1>2. PICK D \in SUBSET All : D = server.durable[server.epoch] \cup UNION {b.ups : b \in server.unsaved}
  <2>1. \A b \in server.unsaved : b.ups \subseteq All
    BY <1>1 DEF Server
  <2>2. UNION {b.ups : b \in server.unsaved} \subseteq All
    BY <2>1
  <2>3. server.durable[server.epoch] \subseteq All
    BY <1>1
  <2>. QED  BY <2>2, <2>3
<1>3. Kept(server) = [server EXCEPT !.unsaved = {}, !.durable[server.epoch] = D]
  BY <1>2 DEF Kept
<1>4. PICK G : G = [server.durable EXCEPT ![server.epoch] = D]
  OBVIOUS
<1>5. /\ G \in [Epochs -> SUBSET All] /\ G[server.epoch] = D
      /\ \A e \in Epochs : server.durable[e] \subseteq G[e]
  BY <1>1, <1>2, <1>4
<1>6. PICK v : v = Kept(server)
  OBVIOUS
<1>7. v = [server EXCEPT !.unsaved = {}, !.durable = G]
  BY <1>1, <1>3, <1>4, <1>6 DEF Server
<1>8. v \in Server /\ v.unsaved = {} /\ v.epoch = server.epoch /\ v.frozen = server.frozen /\ v.durable = G
  BY <1>1, <1>5, <1>7 DEF Server
<1>9. \A b \in server.unsaved : b.ups \subseteq D
  BY <1>2
<1>. QED  BY <1>5, <1>6, <1>8, <1>9, FS_EmptySet

LEMMA TellIs ==
    ASSUME NEW w \in Wire, NEW m \in Seq(Message)
    PROVE  /\ Tell(w, m) \in Wire /\ Tell(w, m).pc = w.pc /\ Tell(w, m).count = w.count
           /\ Tell(w, m).epoch = w.epoch /\ Tell(w, m).up = w.up
           /\ Tell(w, m).down = IF w.pc = "open" THEN w.down \o m ELSE w.down
<1>1. w.down \o m \in Seq(Message)
  BY ConcatProperties DEF Wire
<1>2. PICK q \in Seq(Message) : q = w.down \o m
  BY <1>1
<1>. QED  BY <1>2 DEF Tell, Wire

LEMMA HangUpIs ==
    ASSUME NEW w \in Wire, NEW t \in {"ERROR", "POLICY_CHANGED", "PAPER_EPOCH_CHANGED"}
    PROVE  /\ HangUp(w, t) \in Wire /\ HangUp(w, t).count = w.count /\ HangUp(w, t).epoch = w.epoch
           /\ HangUp(w, t).pc = IF w.pc = "open" THEN "hungup" ELSE w.pc
           /\ w.pc # "open" => HangUp(w, t).up = w.up /\ HangUp(w, t).down = w.down
           /\ w.pc = "open" => /\ HangUp(w, t).up = <<>>
                               /\ HangUp(w, t).down = w.down \o <<[type |-> t]>>
<1>1. w.down \in Seq(Message) /\ [type |-> t] \in Message
  BY MessageTypes DEF Wire
<1>2. PICK q \in Seq(Message) : q = Append(w.down, [type |-> t]) /\ q = w.down \o <<[type |-> t]>>
  <2>1. PICK x \in Message : x = [type |-> t]
    BY <1>1
  <2>2. Append(w.down, x) \in Seq(Message)
    BY <1>1, AppendProperties
  <2>3. Append(w.down, x) = w.down \o <<x>>
    BY <1>1, AppendIsConcat
  <2>. QED  BY <2>1, <2>2, <2>3
<1>3. PICK p \in Seq(Frame) : p = <<>>
  BY EmptySeq
<1>4. CASE w.pc = "open"
  <2>1. HangUp(w, t) = [w EXCEPT !.pc = "hungup", !.up = p, !.down = q]
    BY <1>2, <1>3, <1>4 DEF HangUp
  <2>2. /\ HangUp(w, t) \in Wire /\ HangUp(w, t).count = w.count /\ HangUp(w, t).epoch = w.epoch
        /\ HangUp(w, t).pc = "hungup" /\ HangUp(w, t).up = p /\ HangUp(w, t).down = q
    BY <2>1 DEF Wire
  <2>. QED  BY <1>2, <1>3, <1>4, <2>2
<1>5. CASE w.pc # "open"
  BY <1>5 DEF HangUp
<1>. QED  BY <1>4, <1>5

\* The rest of the page's frames, after the first
LEMMA TakenIs ==
    ASSUME Typed, wire.up # <<>>, NEW w, w = [wire EXCEPT !.up = Tail(wire.up)]
    PROVE  /\ w \in Wire /\ w.pc = wire.pc /\ w.count = wire.count /\ w.epoch = wire.epoch
           /\ w.down = wire.down /\ w.up = Tail(wire.up)
<1>1. wire \in Wire /\ wire.up \in Seq(Frame)
  BY DEF Typed, Wire
<1>2. Tail(wire.up) \in Seq(Frame)
  BY <1>1, UpdatesTaken
<1>. QED  BY <1>1, <1>2 DEF Wire

LEMMA PersistIs == ASSUME Typed, Persist PROVE Stores /\ wire' \in Wire
<1>1. PICK m \in Notices(wire, server) : wire' = Tell(wire, m)
  BY DEF Persist
<1>2. m \in Seq(Message) /\ AckedIn(m) \subseteq AcksOf(wire, server) /\ \A t : Says(m, t) => t \in Notice
  BY <1>1, NoticesAre
<1>3. wire' \in Wire /\ Told(m) /\ wire'.up = wire.up
  <2>1. wire \in Wire
    BY DEF Typed
  <2>. QED  BY <1>1, <1>2, <2>1, TellIs DEF Told, SameSocket
<1>4. server' = Kept(server) /\ ~Says(m, "FLUSHED")
  BY <1>2 DEF Persist, Notice
<1>. QED  BY <1>2, <1>3, <1>4 DEF Stores

\* A flush that finds something to store
LEMMA FlushStores ==
    ASSUME Typed, Takes("FLUSH"), server' = Kept(server), NEW w, w = [wire EXCEPT !.up = Tail(wire.up)],
           NEW m \in Notices(wire, server), NEW n, n = Append(m, [type |-> "FLUSHED"]) \/ n = <<[type |-> "FLUSHED"]>> \o m,
           wire' = Tell(w, n)
    PROVE  Stores /\ wire' \in Wire
<1>1. m \in Seq(Message) /\ AckedIn(m) \subseteq AcksOf(wire, server) /\ \A t : Says(m, t) => t \in Notice
  BY NoticesAre
<1>2. PICK x \in Message : x = [type |-> "FLUSHED"]
  BY MessageTypes
<1>3. <<x>> \in Seq(Message) /\ AckedIn(<<x>>) = {} /\ \A t : Says(<<x>>, t) => t = "FLUSHED"
  BY <1>2, OneMessage
<1>4. n = m \o <<x>> \/ n = <<x>> \o m
  BY <1>1, <1>2, AppendIsConcat
<1>5. /\ n \in Seq(Message) /\ AckedIn(n) = AckedIn(m) \cup AckedIn(<<x>>)
      /\ \A t : Says(n, t) => Says(m, t) \/ Says(<<x>>, t)
  <2>1. ASSUME NEW y \in Seq(Message), NEW z \in Seq(Message), n = y \o z
        PROVE  /\ n \in Seq(Message) /\ AckedIn(n) = AckedIn(y) \cup AckedIn(z)
               /\ \A t : Says(n, t) => Says(y, t) \/ Says(z, t)
    BY <2>1, MessagesTold
  <2>2. CASE n = m \o <<x>>
    BY <1>1, <1>3, <2>1, <2>2
  <2>3. CASE n = <<x>> \o m
    BY <1>1, <1>3, <2>1, <2>3
  <2>. QED  BY <1>4, <2>2, <2>3
<1>6. wire' \in Wire /\ Told(n)
  <2>1. w \in Wire /\ w.pc = wire.pc /\ w.count = wire.count /\ w.epoch = wire.epoch /\ w.down = wire.down
    BY TakenIs DEF Takes
  <2>2. /\ Tell(w, n) \in Wire /\ Tell(w, n).pc = w.pc /\ Tell(w, n).count = w.count /\ Tell(w, n).epoch = w.epoch
        /\ Tell(w, n).down = IF w.pc = "open" THEN w.down \o n ELSE w.down
    BY <1>5, <2>1, TellIs
  <2>. QED  BY <2>1, <2>2 DEF Told, SameSocket
<1>7. AckedIn(n) \subseteq AcksOf(wire, server)
  BY <1>1, <1>3, <1>5
<1>8. \A t : Says(n, t) => t \in Notice \cup {"FLUSHED"}
  BY <1>1, <1>3, <1>5
<1>. QED  BY <1>5, <1>6, <1>7, <1>8 DEF Stores

LEMMA TakeIs == ASSUME Typed, Take PROVE (Stores \/ Accepts \/ Answers \/ HangsUp) /\ wire' \in Wire
<1>. DEFINE w == [wire EXCEPT !.up = Tail(wire.up)]
<1>1. wire.pc = "open" /\ wire.up # <<>> /\ wire \in Wire
  BY DEF Take, Typed
<1>2. /\ w \in Wire /\ w.pc = wire.pc /\ w.count = wire.count /\ w.epoch = wire.epoch
      /\ w.down = wire.down /\ w.up = Tail(wire.up)
  BY <1>1, TakenIs
<1>3. CASE /\ Head(wire.up).type = "SOURCE_UPDATE" /\ wire.epoch = server.epoch /\ ~server.frozen
           /\ server' = [server EXCEPT !.unsaved = server.unsaved \cup
                           {[seq |-> Head(wire.up).seq, ups |-> Head(wire.up).ups, from |-> wire.count]}]
           /\ wire' = w
  <2>. HIDE DEF w
  <2>. QED  BY <1>1, <1>2, <1>3 DEF Accepts, Takes, SameSocket
<1>4. CASE wire' = HangUp(w, "ERROR") /\ server' = server
  <2>. HIDE DEF w
  <2>1. /\ HangUp(w, "ERROR") \in Wire /\ HangUp(w, "ERROR").count = w.count /\ HangUp(w, "ERROR").epoch = w.epoch
        /\ HangUp(w, "ERROR").pc = "hungup" /\ HangUp(w, "ERROR").up = <<>>
        /\ HangUp(w, "ERROR").down = w.down \o <<[type |-> "ERROR"]>>
    <3>1. w \in Wire /\ w.pc = "open"
      BY <1>1, <1>2
    <3>. QED  BY <3>1, HangUpIs
  <2>. QED  BY <1>1, <1>2, <1>4, <2>1 DEF HangsUp
<1>5. CASE Head(wire.up).type = "FLUSH" /\ wire' = Tell(w, <<[type |-> "FLUSHED"]>>) /\ server' = server /\ server.unsaved = {}
  <2>1. <<[type |-> "FLUSHED"]>> \in Seq(Message)
    BY MessageTypes, OneMessage
  <2>. HIDE DEF w
  <2>2. PICK n \in Seq(Message) : n = <<[type |-> "FLUSHED"]>>
    BY <2>1
  <2>3. /\ Tell(w, n) \in Wire /\ Tell(w, n).pc = w.pc /\ Tell(w, n).count = w.count /\ Tell(w, n).epoch = w.epoch
        /\ Tell(w, n).up = w.up /\ Tell(w, n).down = IF w.pc = "open" THEN w.down \o n ELSE w.down
    BY <1>2, TellIs
  <2>4. wire' = Tell(w, n)
    BY <1>5, <2>2
  <2>5. wire' \in Wire /\ Told(n) /\ wire'.up = w.up
    BY <1>2, <2>3, <2>4 DEF Told, SameSocket
  <2>. QED  BY <1>1, <1>2, <1>5, <2>2, <2>5 DEF Answers, Takes
<1>6. CASE Head(wire.up).type = "FLUSH" /\ wire' = Tell(w, <<[type |-> "ERROR"]>>) /\ server' = server
  <2>1. <<[type |-> "ERROR"]>> \in Seq(Message)
    BY MessageTypes, OneMessage
  <2>. HIDE DEF w
  <2>2. PICK n \in Seq(Message) : n = <<[type |-> "ERROR"]>>
    BY <2>1
  <2>3. /\ Tell(w, n) \in Wire /\ Tell(w, n).pc = w.pc /\ Tell(w, n).count = w.count /\ Tell(w, n).epoch = w.epoch
        /\ Tell(w, n).up = w.up /\ Tell(w, n).down = IF w.pc = "open" THEN w.down \o n ELSE w.down
    BY <1>2, TellIs
  <2>4. wire' = Tell(w, n)
    BY <1>6, <2>2
  <2>5. wire' \in Wire /\ Told(n) /\ wire'.up = w.up
    BY <1>2, <2>3, <2>4 DEF Told, SameSocket
  <2>. QED  BY <1>1, <1>2, <1>6, <2>2, <2>5 DEF Answers, Takes
<1>7. CASE /\ Head(wire.up).type = "FLUSH" /\ server' = Kept(server)
           /\ \E m \in Notices(wire, server) :
                 wire' = Tell(w, Append(m, [type |-> "FLUSHED"])) \/ wire' = Tell(w, <<[type |-> "FLUSHED"]>> \o m)
  <2>1. PICK m, n :
           /\ m \in Notices(wire, server)
           /\ n = Append(m, [type |-> "FLUSHED"]) \/ n = <<[type |-> "FLUSHED"]>> \o m
           /\ wire' = Tell(w, n)
    BY <1>7
  <2>2. n \in Seq(Message)
    <3>1. m \in Seq(Message) /\ [type |-> "FLUSHED"] \in Message
      BY <2>1, NoticesAre, MessageTypes
    <3>2. <<[type |-> "FLUSHED"]>> \in Seq(Message)
      BY <3>1, OneMessage
    <3>3. Append(m, [type |-> "FLUSHED"]) \in Seq(Message)
      BY <3>1, AppendProperties
    <3>4. <<[type |-> "FLUSHED"]>> \o m \in Seq(Message)
      BY <3>1, <3>2, ConcatProperties
    <3>. QED  BY <2>1, <3>3, <3>4
  <2>3. wire'.up = Tail(wire.up)
    BY <1>2, <2>1, <2>2, TellIs
  <2>4. Takes("FLUSH")
    BY <1>1, <1>7, <2>3 DEF Takes
  <2>. QED  BY <1>7, <2>1, <2>4, FlushStores
<1>8. CASE Head(wire.up).type = "SOURCE_UPDATE"
  BY <1>3, <1>4, <1>8 DEF Take
<1>9. CASE Head(wire.up).type # "SOURCE_UPDATE"
  <2>1. /\ Head(wire.up).type = "FLUSH"
        /\ \/ server.unsaved = {} /\ wire' = Tell(w, <<[type |-> "FLUSHED"]>>) /\ UNCHANGED server
           \/ /\ server.unsaved # {} /\ server' = Kept(server)
              /\ \E notices \in Notices(wire, server) :
                    \/ wire' = Tell(w, Append(notices, [type |-> "FLUSHED"]))
                    \/ wire' = Tell(w, <<[type |-> "FLUSHED"]>> \o notices)
           \/ "error" \in Faults /\ server.unsaved # {} /\ wire' = Tell(w, <<[type |-> "ERROR"]>>) /\ UNCHANGED server
    BY <1>9, Zenon DEF Take
  <2>. HIDE DEF w
  <2>. QED  BY <1>5, <1>6, <1>7, <2>1
<1>. QED  BY <1>8, <1>9

LEMMA RestoreIs == ASSUME Typed, Restore \/ Freeze PROVE HangsUp /\ wire' \in Wire
<1>1. PICK t \in {"POLICY_CHANGED", "PAPER_EPOCH_CHANGED"} : wire' = HangUp(wire, t)
  BY DEF Restore, Freeze
<1>2. /\ wire' \in Wire /\ wire'.count = wire.count /\ wire'.epoch = wire.epoch
      /\ wire'.pc = IF wire.pc = "open" THEN "hungup" ELSE wire.pc
      /\ wire.pc # "open" => wire'.up = wire.up /\ wire'.down = wire.down
      /\ wire.pc = "open" => wire'.up = <<>> /\ wire'.down = wire.down \o <<[type |-> t]>>
  <2>1. wire \in Wire
    BY DEF Typed
  <2>. QED  BY <1>1, <2>1, HangUpIs
<1>3. \/ server' = [server EXCEPT !.frozen = TRUE]
      \/ server' = [Kept(server) EXCEPT !.epoch = server.epoch + 1] /\ server.epoch < MaxEpoch
  BY DEF Restore, Freeze
<1>. QED  BY <1>2, <1>3 DEF HangsUp

LEMMA RemoteIs == ASSUME Typed, NEW u \in Others, Remote(u) PROVE Hears /\ wire' \in Wire
<1>1. PICK x \in Message : x = [type |-> "REMOTE_SOURCE_UPDATE", ups |-> {u}]
  BY MessageTypes DEF All
<1>2. wire' = Tell(wire, <<x>>) /\ <<x>> \in Seq(Message) /\ wire \in Wire
  BY <1>1, OneMessage DEF Remote, Typed
<1>3. wire' \in Wire /\ wire'.up = wire.up /\ Told(<<x>>)
  BY <1>2, TellIs DEF Told, SameSocket
<1>4. PICK b : b = [seq |-> 0, ups |-> {u}, from |-> 0]
  OBVIOUS
<1>5. server' = [server EXCEPT !.unsaved = server.unsaved \cup {b}]
  BY <1>4 DEF Remote
<1>. QED  BY <1>1, <1>3, <1>4, <1>5 DEF Hears

ServerMoves == Stores \/ Accepts \/ Answers \/ Hears \/ HangsUp

\* The browser's side stays as it is.
LEMMA ServerMovesOnly ==
    ASSUME Typed, ServerStep
    PROVE  ServerMoves /\ wire' \in Wire /\ UNCHANGED <<session, page, flushes, idb>>
<1>1. CASE Persist
  BY <1>1, PersistIs DEF ServerMoves, Persist
<1>2. CASE Take
  BY <1>2, TakeIs DEF ServerMoves, Take
<1>3. CASE Restore
  BY <1>3, RestoreIs DEF ServerMoves, Restore
<1>4. CASE Freeze
  BY <1>4, RestoreIs DEF ServerMoves, Freeze
<1>5. CASE \E u \in Others : Remote(u)
  BY <1>5, RemoteIs DEF ServerMoves, Remote
<1>. QED  BY <1>1, <1>2, <1>3, <1>4, <1>5 DEF ServerStep

LEMMA ServerTyped == ASSUME Typed, ServerStep PROVE Typed'
<1>1. ServerMoves /\ wire' \in Wire /\ UNCHANGED <<session, page, flushes, idb>>
  BY ServerMovesOnly
<1>2. server \in Server /\ IsFiniteSet(server.unsaved) /\ wire \in Wire /\ made \in [All -> 0 .. MaxEpoch]
  BY DEF Typed
<1>3. made' \in [All -> 0 .. MaxEpoch]
  <2>1. ASSUME NEW u \in Others, Remote(u) PROVE made' \in [All -> 0 .. MaxEpoch]
    <3>1. made' = [made EXCEPT ![u] = server.epoch] /\ server.epoch \in 0 .. MaxEpoch /\ u \in All
      BY <1>2, <2>1 DEF Remote, Server, Epochs, All
    <3>. QED  BY <1>2, <3>1
  <2>. QED  BY <1>2, <2>1 DEF ServerStep, Persist, Take, Restore, Freeze
<1>4. ASSUME NEW n \in Nat, NEW U \in SUBSET All, NEW c \in 0 .. MaxConnections, NEW b,
             b = [seq |-> n, ups |-> U, from |-> c], server' = [server EXCEPT !.unsaved = server.unsaved \cup {b}]
      PROVE  server' \in Server /\ IsFiniteSet(server'.unsaved)
  <2>1. b \in [seq : Nat, ups : SUBSET All, from : 0 .. MaxConnections]
    BY <1>4
  <2>2. server' \in Server /\ server'.unsaved = server.unsaved \cup {b}
    BY <1>2, <1>4, <2>1 DEF Server
  <2>. QED  BY <1>2, <2>2, FS_AddElement
<1>5. server' \in Server /\ IsFiniteSet(server'.unsaved)
  <2>1. CASE Stores
    BY <2>1, KeptIs DEF Stores
  <2>2. CASE Accepts
    <3>1. Head(wire.up) \in Frame /\ Head(wire.up).type = "SOURCE_UPDATE"
      BY <1>2, <2>2, UpdatesTaken DEF Accepts, Takes, Wire
    <3>2. Head(wire.up).seq \in Nat /\ Head(wire.up).ups \in SUBSET All /\ wire.count \in 0 .. MaxConnections
      BY <1>2, <3>1, FrameTypes DEF Wire
    <3>3. PICK b : /\ b = [seq |-> Head(wire.up).seq, ups |-> Head(wire.up).ups, from |-> wire.count]
                   /\ server' = [server EXCEPT !.unsaved = server.unsaved \cup {b}]
      BY <2>2 DEF Accepts
    <3>4. PICK n, U, k : n = Head(wire.up).seq /\ U = Head(wire.up).ups /\ k = wire.count
      OBVIOUS
    <3>5. n \in Nat /\ U \in SUBSET All /\ k \in 0 .. MaxConnections /\ b = [seq |-> n, ups |-> U, from |-> k]
      BY <3>2, <3>3, <3>4
    <3>. QED  BY <1>4, <3>3, <3>5
  <2>3. CASE Answers
    BY <1>2, <2>3 DEF Answers
  <2>4. CASE Hears
    <3>1. PICK u, b : /\ u \in Others /\ b = [seq |-> 0, ups |-> {u}, from |-> 0]
                      /\ server' = [server EXCEPT !.unsaved = server.unsaved \cup {b}]
      BY <2>4 DEF Hears
    <3>2. {u} \in SUBSET All /\ 0 \in 0 .. MaxConnections /\ 0 \in Nat
      BY <3>1, SessionAssumption DEF All
    <3>. QED  BY <1>4, <3>1, <3>2
  <2>5. CASE HangsUp
    <3>1. CASE server' = server \/ server' = [server EXCEPT !.frozen = TRUE]
      BY <1>2, <3>1 DEF Server
    <3>2. CASE server' = [Kept(server) EXCEPT !.epoch = server.epoch + 1] /\ server.epoch < MaxEpoch
      <4>1. server.epoch + 1 \in Epochs
        BY <1>2, <3>2, SessionAssumption DEF Server, Epochs
      <4>. QED  BY <3>2, <4>1, KeptIs DEF Server
    <3>. QED  BY <2>5, <3>1, <3>2 DEF HangsUp
  <2>. QED  BY <1>1, <2>1, <2>2, <2>3, <2>4, <2>5 DEF ServerMoves
<1>. QED  BY <1>1, <1>3, <1>5 DEF Typed

LEMMA NextTyped == Typed /\ [Next]_vars => Typed'
<1>. SUFFICES ASSUME Typed, [Next]_vars PROVE Typed'
  OBVIOUS
<1>1. CASE Receive
  BY <1>1, JoinAcceptedTyped, InitialStateTyped, NoticeTyped, RemoteSourceTyped, PolicyChangedTyped, PreserveTyped
  DEF Receive, PaperEpochChanged, Typed
<1>2. CASE Writer
  BY <1>2, TypeTyped, FlushTyped DEF Writer
<1>3. CASE UNCHANGED vars
  BY <1>3 DEF vars, Typed
<1>. QED
  BY <1>1, <1>2, <1>3, ConnectTyped, OpenTyped, CloseTyped, LoadedTyped, ReopenTyped, ServerTyped DEF Next

LEMMA TypedAlways == Spec => []Typed
BY InitTyped, NextTyped, PTL DEF Spec

\* The fields of the session, the calls of flush and what is under way keep their
\* types for any edits, epochs and connections; a session that has joined an epoch
\* has a document only after the browser's database was asked (Shape).
THEOREM SessionTypeCorrect == Spec => []TypeOK
BY TypedAlways, TypedImplies, PTL

-----------------------------------------------------------------------------
(* The session, its socket and the browser's document *)

Linked ==
    /\ session.timer \/ session.destroyed => wire.pc = "none"
    /\ session.destroyed => ~session.timer
    /\ wire.pc # "none" => wire.count # 0
    /\ wire.pc = "open" => wire.epoch = server.epoch
    /\ wire.pc = "connecting" => ~session.metadata /\ session.initial = None
    /\ ~IsOpen => wire.up = <<>> /\ wire.down = <<>>
    /\ IsOpen => session.connected
    /\ \A b \in server.unsaved : b.from <= wire.count /\ (wire.pc = "connecting" => b.from # wire.count)

\* What a socket begins with is read first, and no label says "Saved" before that.
Greeted ==
    IsOpen =>
        /\ \A i \in 1 .. Len(wire.down) :
              wire.down[i].type = "JOIN_ACCEPTED" => i = 1 /\ ~session.metadata /\ wire.down[i].epoch = wire.epoch
        /\ session.metadata => session.epoch = wire.epoch
        /\ session.initial # None => session.metadata
        /\ session.initial = None => page.label # "synced"
        /\ session.initial = None /\ session.metadata =>
              wire.down # <<>> /\ wire.down[1].type = "INITIAL_STATE"
        /\ session.initial = None /\ ~session.metadata =>
              Len(wire.down) >= 2 /\ wire.down[1].type = "JOIN_ACCEPTED" /\ wire.down[2].type = "INITIAL_STATE"

\* What is on the screen is in the browser's database, and nothing is missing there.
Mirrored ==
    /\ session.mounted /\ ~session.destroyed => session.doc = idb[session.epoch]
    /\ session.doc # None /\ ~session.loading => idb[session.epoch] \subseteq session.doc

Base == Typed /\ Linked /\ Greeted /\ Mirrored

LEMMA InitBase == Init => Base
<1>. SUFFICES ASSUME Init PROVE Linked /\ Greeted /\ Mirrored
  BY InitTyped DEF Base
<1>1. /\ session.doc = None /\ ~session.mounted /\ ~session.destroyed /\ wire.pc = "none"
      /\ wire.up = <<>> /\ wire.down = <<>> /\ server.unsaved = {}
  BY DEF Init, Constructed
<1>. QED  BY <1>1 DEF Linked, Greeted, Mirrored, IsOpen

LEMMA ConnectBase == ASSUME Base, Connect PROVE (Linked /\ Greeted /\ Mirrored)'
<1>1. session' = [session EXCEPT !.timer = FALSE, !.metadata = FALSE, !.initial = None] /\ session \in Session
  BY DEF Connect, Base, Typed, SoundSession
<1>2. /\ ~session'.timer /\ session'.destroyed = session.destroyed /\ ~session'.metadata /\ session'.initial = None
      /\ session'.doc = session.doc /\ session'.mounted = session.mounted /\ session'.loading = session.loading
      /\ session'.epoch = session.epoch
  BY <1>1 DEF Session
<1>3. wire'.pc = "connecting" /\ wire'.count = wire.count + 1 /\ wire'.up = <<>> /\ wire'.down = <<>> /\ wire.count \in Nat
  <2>1. PICK w : w = Closed(wire)
    OBVIOUS
  <2>2. w \in Wire /\ w.up = <<>> /\ w.down = <<>> /\ w.count = wire.count
    BY <2>1, ClosedTyped DEF Base, Typed
  <2>3. wire' = [w EXCEPT !.pc = "connecting", !.count = wire.count + 1]
    BY <2>1 DEF Connect
  <2>. QED  BY <2>2, <2>3 DEF Wire
<1>4. session.timer /\ UNCHANGED <<idb, server>>
  BY DEF Connect
<1>5. \A b \in server.unsaved : b.from <= wire.count /\ b.from \in Nat
  BY DEF Base, Linked, Typed, Server
<1>6. Linked'
  <2>1. ~session.destroyed
    BY <1>4 DEF Base, Linked
  <2>2. \A b \in server'.unsaved : b.from <= wire'.count /\ b.from # wire'.count
    BY <1>3, <1>4, <1>5
  <2>. QED  BY <1>2, <1>3, <2>1, <2>2 DEF Linked, IsOpen
<1>7. Greeted' /\ Mirrored'
  BY <1>2, <1>3, <1>4 DEF Greeted, Mirrored, Base, IsOpen
<1>. QED  BY <1>6, <1>7

LEMMA OpenBase == ASSUME Base, Open PROVE (Linked /\ Greeted /\ Mirrored)'
<1>. DEFINE a == [type |-> "JOIN_ACCEPTED", epoch |-> server.epoch,
                  access |-> IF server.frozen THEN "read_only" ELSE "read_write"]
            U == server.durable[server.epoch] \cup UNION {b.ups : b \in server.unsaved}
            second == [type |-> "INITIAL_STATE", ups |-> U]
<1>1. session' = [session EXCEPT !.connected = TRUE] /\ session \in Session /\ UNCHANGED <<idb, server>>
  BY DEF Open, Base, Typed, SoundSession
<1>2. /\ session'.timer = session.timer /\ session'.destroyed = session.destroyed /\ session'.metadata = session.metadata
      /\ session'.initial = session.initial /\ session'.doc = session.doc /\ session'.mounted = session.mounted
      /\ session'.loading = session.loading /\ session'.epoch = session.epoch /\ session'.connected
  BY <1>1 DEF Session
<1>3. wire.pc = "connecting" /\ wire \in Wire
  BY DEF Open, Base, Typed
<1>4. wire' = [wire EXCEPT !.pc = "open", !.epoch = server.epoch, !.down = <<a, second>>]
  BY DEF Open
<1>5. a.type = "JOIN_ACCEPTED" /\ a.epoch = server.epoch /\ second.type = "INITIAL_STATE"
  OBVIOUS
<1>. HIDE DEF a, second
<1>6. /\ wire'.pc = "open" /\ wire'.epoch = server.epoch /\ wire'.count = wire.count /\ wire'.down = <<a, second>>
  BY <1>3, <1>4 DEF Wire
<1>7. /\ Len(wire'.down) = 2 /\ wire'.down[1] = a /\ wire'.down[2] = second
      /\ \A i \in 1 .. Len(wire'.down) : i = 1 \/ i = 2
  BY <1>6
<1>8. Linked'
  BY <1>1, <1>2, <1>3, <1>6 DEF Base, Linked, IsOpen
<1>9. page'.label = "syncing"
  BY LabelTyped DEF Open, Base, Typed, Labels
<1>10. Greeted'
  <2>1. ~session'.metadata /\ session'.initial = None
    BY <1>2, <1>3 DEF Base, Linked
  <2>. QED  BY <1>5, <1>6, <1>7, <1>9, <2>1 DEF Greeted
<1>11. Mirrored'
  BY <1>1, <1>2 DEF Base, Mirrored
<1>. QED  BY <1>8, <1>10, <1>11

\* Whoever ends the connection
LEMMA EndedBase ==
    ASSUME Base, wire' = Closed(wire), server' = server, idb' = idb,
           session'.destroyed => ~session'.timer,
           session'.mounted /\ ~session'.destroyed =>
              session.mounted /\ ~session.destroyed /\ session'.doc = session.doc /\ session'.epoch = session.epoch,
           session'.doc # None =>
              session'.doc = session.doc /\ session'.epoch = session.epoch /\ session'.loading = session.loading
    PROVE  (Linked /\ Greeted /\ Mirrored)'
<1>1. wire'.pc = "none" /\ wire'.up = <<>> /\ wire'.down = <<>> /\ wire'.count = wire.count
  BY ClosedTyped DEF Base, Typed
<1>2. Linked'
  BY <1>1 DEF Base, Linked, IsOpen
<1>3. Greeted'
  BY <1>1 DEF Greeted, IsOpen
<1>4. Mirrored'
  BY DEF Base, Mirrored
<1>. QED  BY <1>2, <1>3, <1>4

LEMMA EndBase ==
    ASSUME Base, Close \/ Reopen \/ PolicyChanged \/ (PreserveOldEpoch /\ UNCHANGED server)
    PROVE  (Linked /\ Greeted /\ Mirrored)'
<1>1. wire' = Closed(wire) /\ server' = server /\ idb' = idb /\ session \in SoundSession /\ session \in Session
  BY DEF Close, Reopen, PolicyChanged, PreserveOldEpoch, Base, Typed, SoundSession
<1>2. CASE Close
  <2>1. session' = [session EXCEPT !.connected = FALSE, !.pending = {}, !.timer = TRUE] /\ wire.pc # "none"
    BY <1>2 DEF Close
  <2>2. /\ session'.destroyed = session.destroyed /\ session'.mounted = session.mounted /\ session'.doc = session.doc
        /\ session'.epoch = session.epoch /\ session'.loading = session.loading
    BY <1>1, <2>1 DEF Session
  <2>3. ~session.destroyed
    BY <2>1 DEF Base, Linked
  <2>. QED  BY <1>1, <2>2, <2>3, EndedBase
<1>3. CASE Reopen
  <2>1. ~session'.destroyed /\ ~session'.mounted /\ session'.doc = None
    BY <1>3 DEF Reopen, Constructed
  <2>. QED  BY <1>1, <2>1, EndedBase
<1>4. CASE session' = Destroyed(session)
  <2>1. session'.destroyed /\ ~session'.timer /\ session'.doc = None
    BY <1>1, <1>4, DestroyedTyped
  <2>. QED  BY <1>1, <2>1, EndedBase
<1>. QED  BY <1>2, <1>3, <1>4 DEF PolicyChanged, PreserveOldEpoch

\* A message has been read, and the session is as far with the handshake as the
\* message says.
LEMMA ReadLinked ==
    ASSUME Base, IsOpen, wire.down # <<>>, wire'.pc = wire.pc, wire'.count = wire.count, wire'.epoch = wire.epoch,
           wire'.down = Tail(wire.down), server' = server,
           session'.timer = session.timer, session'.destroyed = session.destroyed,
           session'.connected = session.connected
    PROVE  Linked' /\ ~session.destroyed
BY DEF Base, Linked, IsOpen

LEMMA RestOfHandshake ==
    ASSUME Base, IsOpen, wire.down # <<>>
    PROVE  /\ \A i \in 1 .. Len(Tail(wire.down)) : Tail(wire.down)[i].type # "JOIN_ACCEPTED"
           /\ Head(wire.down).type # "JOIN_ACCEPTED" => session.metadata
           /\ session.initial = None /\ session.metadata => Head(wire.down).type = "INITIAL_STATE"
           /\ Head(wire.down).type = "JOIN_ACCEPTED" =>
                 /\ ~session.metadata /\ session.initial = None /\ Head(wire.down).epoch = wire.epoch
                 /\ Tail(wire.down) # <<>> /\ Tail(wire.down)[1].type = "INITIAL_STATE" /\ page.label # "synced"
<1>1. wire.down \in Seq(Message)
  BY DEF Base, Typed, Wire
<1>2. PICK n \in Nat : Len(wire.down) = n + 1 /\ Len(Tail(wire.down)) = n
  <2>1. Len(wire.down) \in Nat \ {0} /\ Len(Tail(wire.down)) = Len(wire.down) - 1
    BY <1>1, MessagesRead
  <2>2. PICK k \in Nat \ {0} : Len(wire.down) = k
    BY <2>1
  <2>3. k - 1 \in Nat /\ k = (k - 1) + 1
    OBVIOUS
  <2>. QED  BY <2>1, <2>2, <2>3
<1>3. /\ Head(wire.down) = wire.down[1] /\ 1 \in 1 .. n + 1
      /\ \A i \in 1 .. n : i + 1 \in 1 .. n + 1 /\ i + 1 # 1 /\ Tail(wire.down)[i] = wire.down[i + 1]
      /\ Tail(wire.down) \in Seq(Message)
  BY <1>1, <1>2, HeadTailProperties
<1>4. Tail(wire.down) # <<>> <=> n # 0
  BY <1>2, <1>3, EmptySeq
<1>5. \A i \in 1 .. n + 1 :
        wire.down[i].type = "JOIN_ACCEPTED" => i = 1 /\ ~session.metadata /\ wire.down[i].epoch = wire.epoch
  BY <1>2 DEF Base, Greeted
<1>6. \A i \in 1 .. n : Tail(wire.down)[i].type # "JOIN_ACCEPTED"
  BY <1>3, <1>5
<1>7. Head(wire.down).type # "JOIN_ACCEPTED" => session.metadata
  BY <1>3 DEF Base, Greeted
<1>8. session.initial = None /\ session.metadata => Head(wire.down).type = "INITIAL_STATE"
  BY <1>3 DEF Base, Greeted
<1>9. ASSUME Head(wire.down).type = "JOIN_ACCEPTED"
      PROVE  /\ ~session.metadata /\ session.initial = None /\ Head(wire.down).epoch = wire.epoch
             /\ Tail(wire.down) # <<>> /\ Tail(wire.down)[1].type = "INITIAL_STATE" /\ page.label # "synced"
  <2>1. ~session.metadata /\ Head(wire.down).epoch = wire.epoch
    BY <1>3, <1>5, <1>9
  <2>2. session.initial = None /\ page.label # "synced"
    BY <2>1 DEF Base, Greeted
  <2>3. n + 1 >= 2 /\ wire.down[2].type = "INITIAL_STATE"
    BY <1>2, <2>1, <2>2 DEF Base, Greeted
  <2>4. 1 \in 1 .. n /\ n # 0 /\ 1 + 1 = 2
    BY <2>3
  <2>. QED  BY <1>3, <1>4, <2>1, <2>2, <2>3, <2>4
<1>. QED  BY <1>2, <1>6, <1>7, <1>8, <1>9

\* The first message says which epoch and what access; it never completes the handshake.
LEMMA JoinIs ==
    ASSUME Base, JoinAccepted, ~PreserveOldEpoch
    PROVE  /\ session' \in SoundSession /\ session'.epoch = wire.epoch /\ session'.metadata /\ session'.initial = None
           /\ session.initial = None /\ session.epoch \in {0, wire.epoch} /\ ~session.destroyed
           /\ session'.doc = session.doc /\ session'.loading = session.loading /\ session'.mounted = session.mounted
           /\ session'.destroyed = session.destroyed /\ session'.seq = session.seq /\ session'.pending = session.pending
           /\ session'.timer = session.timer /\ session'.connected = session.connected
           /\ wire' = [wire EXCEPT !.down = Tail(wire.down)] /\ page.label # "synced"
           /\ IsOpen /\ wire.down # <<>> /\ Head(wire.down).type = "JOIN_ACCEPTED"
           /\ UNCHANGED <<idb, page, flushes, server>>
<1>1. IsOpen /\ wire.down # <<>> /\ Head(wire.down).type = "JOIN_ACCEPTED"
  BY DEF JoinAccepted, Got
<1>2. PICK e \in Epochs, a \in Modes : e = Head(wire.down).epoch /\ a = Head(wire.down).access
  BY <1>1, ReadTyped, MessageFields DEF Base
<1>3. PICK s : s = [session EXCEPT !.epoch = e, !.metadata = TRUE, !.access = a]
  OBVIOUS
<1>4. /\ s \in SoundSession /\ s.epoch = e /\ s.metadata /\ s.doc = session.doc
      /\ s.initial = session.initial /\ s.loading = session.loading /\ s.mounted = session.mounted
      /\ s.destroyed = session.destroyed /\ s.seq = session.seq /\ s.pending = session.pending
      /\ s.timer = session.timer /\ s.connected = session.connected
  <2>1. session \in SoundSession
    BY DEF Base, Typed
  <2>2. e \in 0 .. MaxEpoch /\ e # 0 /\ session \in Session
    BY <2>1 DEF Epochs, SoundSession
  <2>3. /\ s \in Session /\ s.epoch = e /\ s.metadata /\ s.doc = session.doc
        /\ s.initial = session.initial /\ s.loading = session.loading /\ s.mounted = session.mounted
        /\ s.destroyed = session.destroyed /\ s.seq = session.seq /\ s.pending = session.pending
        /\ s.timer = session.timer /\ s.connected = session.connected /\ s.editable = session.editable
    BY <1>3, <2>2 DEF Session
  <2>4. s \in SoundSession
    BY <2>1, <2>2, <2>3 DEF SoundSession, Shape
  <2>. QED  BY <2>3, <2>4
<1>5. ~session.metadata /\ session.initial = None /\ Head(wire.down).epoch = wire.epoch /\ page.label # "synced"
  BY <1>1, RestOfHandshake
<1>6. session.epoch \in {0, wire.epoch} /\ InitializeOrMerge(s) /\ UNCHANGED <<flushes, server>>
  BY <1>2, <1>3, <1>5 DEF JoinAccepted
<1>7. session' = s /\ wire' = [wire EXCEPT !.down = Tail(wire.down)] /\ UNCHANGED <<idb, page>>
  BY <1>4, <1>5, <1>6 DEF InitializeOrMerge, Ready
<1>8. ~session.destroyed
  BY <1>1 DEF Base, Linked, IsOpen
<1>. QED  BY <1>1, <1>2, <1>4, <1>5, <1>6, <1>7, <1>8

LEMMA JoinBase == ASSUME Base, JoinAccepted, ~PreserveOldEpoch PROVE (Linked /\ Greeted /\ Mirrored)'
<1>1. /\ wire'.pc = wire.pc /\ wire'.count = wire.count /\ wire'.epoch = wire.epoch /\ wire'.down = Tail(wire.down)
  BY JoinIs DEF Base, Typed, Wire
<1>2. Linked'
  BY <1>1, JoinIs, ReadLinked
<1>3. Greeted'
  <2>1. \A i \in 1 .. Len(wire'.down) : wire'.down[i].type # "JOIN_ACCEPTED"
    BY <1>1, JoinIs, RestOfHandshake
  <2>2. wire'.down # <<>> /\ wire'.down[1].type = "INITIAL_STATE" /\ page'.label # "synced"
    BY <1>1, JoinIs, RestOfHandshake
  <2>3. session'.metadata /\ session'.epoch = wire'.epoch /\ session'.initial = None
    BY <1>1, JoinIs
  <2>. QED  BY <2>1, <2>2, <2>3 DEF Greeted
<1>4. Mirrored'
  <2>1. session.doc # None \/ session.mounted => session.epoch = wire.epoch
    BY JoinIs DEF Base, Typed, SoundSession, Shape
  <2>. QED  BY <2>1, JoinIs DEF Base, Mirrored
<1>. QED  BY <1>2, <1>3, <1>4

\* After the second message a later connection has merged, and has sent the document.
LEMMA InitialIs ==
    ASSUME Base, InitialState
    PROVE  /\ IsOpen /\ wire.down # <<>> /\ Head(wire.down).type = "INITIAL_STATE" /\ session.metadata
           /\ session.epoch = wire.epoch /\ session.epoch # 0 /\ ~session.destroyed /\ UNCHANGED <<flushes, server>>
           /\ \E s \in SoundSession :
                /\ s.epoch = session.epoch /\ s.metadata /\ s.initial # None /\ s.doc = session.doc
                /\ s.loading = session.loading /\ s.mounted = session.mounted /\ s.destroyed = session.destroyed
                /\ s.seq = session.seq /\ s.pending = session.pending /\ s.timer = session.timer
                /\ s.connected = session.connected /\ s.access = session.access
                /\ \/ /\ session' = s \/ (s.doc = None /\ Ready(s) /\ session' = [s EXCEPT !.loading = TRUE, !.doc = {}])
                      /\ Ready(s) => s.doc = None
                      /\ wire' = [wire EXCEPT !.down = Tail(wire.down)] /\ UNCHANGED <<idb, page>>
                   \/ /\ Ready(s) /\ s.doc # None /\ s.doc \cup s.initial \in SUBSET All
                      /\ Announced(s, s.doc \cup s.initial, Tail(wire.down))
<1>1. IsOpen /\ wire.down # <<>> /\ Head(wire.down).type = "INITIAL_STATE" /\ UNCHANGED <<flushes, server>>
  BY DEF InitialState, Got
<1>2. PICK U \in SUBSET All : U = Head(wire.down).ups
  BY <1>1, ReadTyped, MessageFields DEF Base
<1>3. PICK s : s = [session EXCEPT !.initial = U]
  OBVIOUS
<1>4. session \in SoundSession /\ session.metadata /\ session.epoch = wire.epoch
  BY <1>1, RestOfHandshake DEF Base, Typed, Greeted
<1>5. /\ s.epoch = session.epoch /\ s.metadata /\ s.initial = U /\ s.doc = session.doc
      /\ s.loading = session.loading /\ s.mounted = session.mounted /\ s.destroyed = session.destroyed
      /\ s.seq = session.seq /\ s.pending = session.pending /\ s.timer = session.timer
      /\ s.connected = session.connected /\ s.access = session.access /\ s \in Session /\ s.editable = session.editable
  BY <1>3, <1>4 DEF SoundSession, Session
<1>6. s \in SoundSession
  BY <1>4, <1>5 DEF SoundSession, Shape
<1>7. InitializeOrMerge(s)
  BY <1>2, <1>3 DEF InitialState
<1>8. session.epoch # 0 /\ ~session.destroyed
  BY <1>1, <1>4 DEF SoundSession, Shape, Base, Linked, IsOpen
<1>9. s.initial # None
  BY <1>5, NoneIsNoSet
<1>10. \/ /\ session' = s \/ (s.doc = None /\ Ready(s) /\ session' = [s EXCEPT !.loading = TRUE, !.doc = {}])
          /\ Ready(s) => s.doc = None
          /\ wire' = [wire EXCEPT !.down = Tail(wire.down)] /\ UNCHANGED <<idb, page>>
       \/ /\ Ready(s) /\ s.doc # None /\ s.doc \cup s.initial \in SUBSET All
          /\ Announced(s, s.doc \cup s.initial, Tail(wire.down))
  BY <1>1, <1>6, <1>7, MergeIs DEF Base
<1>. QED  BY <1>1, <1>4, <1>5, <1>6, <1>8, <1>9, <1>10

\* A message has been read after the handshake, or its end.
LEMMA ReadBase ==
    ASSUME Base, IsOpen, wire.down # <<>>, Head(wire.down).type # "JOIN_ACCEPTED", wire'.pc = wire.pc,
           wire'.count = wire.count, wire'.epoch = wire.epoch, wire'.down = Tail(wire.down), server' = server,
           session'.timer = session.timer, session'.destroyed = session.destroyed,
           session'.connected = session.connected, session'.metadata = session.metadata,
           session'.epoch = session.epoch, session'.initial # None
    PROVE  Linked' /\ Greeted'
<1>1. \A i \in 1 .. Len(wire'.down) : wire'.down[i].type # "JOIN_ACCEPTED"
  BY RestOfHandshake
<1>2. session.metadata /\ session.epoch = wire.epoch
  BY RestOfHandshake DEF Base, Greeted
<1>. QED  BY <1>1, <1>2, ReadLinked DEF Greeted

LEMMA InitialBase == ASSUME Base, InitialState PROVE (Linked /\ Greeted /\ Mirrored)'
<1>1. /\ IsOpen /\ wire.down # <<>> /\ Head(wire.down).type = "INITIAL_STATE" /\ session.metadata
      /\ session.epoch = wire.epoch /\ session.epoch # 0 /\ server' = server
  BY InitialIs
<1>2. PICK s \in SoundSession :
        /\ s.epoch = session.epoch /\ s.metadata /\ s.initial # None /\ s.doc = session.doc
        /\ s.loading = session.loading /\ s.mounted = session.mounted /\ s.destroyed = session.destroyed
        /\ s.seq = session.seq /\ s.pending = session.pending /\ s.timer = session.timer
        /\ s.connected = session.connected /\ s.access = session.access
        /\ \/ /\ session' = s \/ (s.doc = None /\ Ready(s) /\ session' = [s EXCEPT !.loading = TRUE, !.doc = {}])
              /\ Ready(s) => s.doc = None
              /\ wire' = [wire EXCEPT !.down = Tail(wire.down)] /\ UNCHANGED <<idb, page>>
           \/ /\ Ready(s) /\ s.doc # None /\ s.doc \cup s.initial \in SUBSET All
              /\ Announced(s, s.doc \cup s.initial, Tail(wire.down))
  BY InitialIs
<1>3. CASE /\ session' = s \/ (s.doc = None /\ Ready(s) /\ session' = [s EXCEPT !.loading = TRUE, !.doc = {}])
           /\ wire' = [wire EXCEPT !.down = Tail(wire.down)] /\ UNCHANGED <<idb, page>>
  <2>1. Same(session', s)
    <3>1. CASE session' = s
      BY <3>1 DEF Same
    <3>2. CASE s.doc = None /\ Ready(s) /\ session' = [s EXCEPT !.loading = TRUE, !.doc = {}]
      BY <3>2, LoadingTyped
    <3>. QED  BY <1>3, <3>1, <3>2
  <2>2. \/ session' = s
        \/ session'.loading /\ (session'.mounted => session'.destroyed)
    BY <1>3, LoadingTyped
  <2>3. /\ wire'.pc = wire.pc /\ wire'.count = wire.count /\ wire'.epoch = wire.epoch /\ wire'.down = Tail(wire.down)
    BY <1>3 DEF Base, Typed, Wire
  <2>4. Linked' /\ Greeted'
    BY <1>1, <1>2, <2>1, <2>3, ReadBase DEF Same
  <2>5. Mirrored'
    BY <1>2, <1>3, <2>2 DEF Base, Mirrored
  <2>. QED  BY <2>4, <2>5
<1>4. CASE /\ Ready(s) /\ s.doc # None /\ s.doc \cup s.initial \in SUBSET All
           /\ Announced(s, s.doc \cup s.initial, Tail(wire.down))
  <2>1. PICK doc \in SUBSET All : doc = s.doc \cup s.initial
    BY <1>4
  <2>2. Tail(wire.down) \in Seq(Message)
    BY <1>1, ReadTyped DEF Base
  <2>3. /\ Same(session', s) /\ session'.doc = doc /\ idb'[s.epoch] = doc
        /\ wire'.pc = wire.pc /\ wire'.count = wire.count /\ wire'.epoch = wire.epoch /\ wire'.down = Tail(wire.down)
    BY <1>1, <1>2, <1>4, <2>1, <2>2, AnnouncedIs DEF Base
  <2>4. Linked' /\ Greeted'
    BY <1>1, <1>2, <2>3, ReadBase DEF Same
  <2>5. Mirrored'
    BY <2>3 DEF Mirrored, Same
  <2>. QED  BY <2>4, <2>5
<1>. QED  BY <1>2, <1>3, <1>4

LEMMA NoticeBase ==
    ASSUME Base, DurableAck \/ RemoteDurable \/ Flushed \/ Error \/ RemoteSourceUpdate
    PROVE  (Linked /\ Greeted /\ Mirrored)'
<1>1. /\ IsOpen /\ wire.down # <<>> /\ Read /\ server' = server
      /\ Head(wire.down).type \notin {"JOIN_ACCEPTED", "INITIAL_STATE"}
  BY DEF DurableAck, RemoteDurable, Flushed, Error, RemoteSourceUpdate, Got
<1>2. /\ wire'.pc = wire.pc /\ wire'.count = wire.count /\ wire'.epoch = wire.epoch /\ wire'.down = Tail(wire.down)
  BY <1>1 DEF Read, Base, Typed, Wire
<1>3. session.initial # None /\ session.metadata
  BY <1>1, RestOfHandshake
<1>4. session \in Session /\ session \in SoundSession
  BY DEF Base, Typed, SoundSession
<1>5. Same(session', session) /\ session'.loading = session.loading /\ Mirrored'
  <2>1. CASE DurableAck \/ RemoteDurable \/ Flushed \/ Error
    <3>1. \/ session' = session
          \/ session' = [session EXCEPT !.pending = session.pending \ {Head(wire.down).seq}]
      BY <2>1 DEF DurableAck, RemoteDurable, Flushed, Error
    <3>2. Same(session', session) /\ session'.loading = session.loading /\ session'.doc = session.doc
      BY <1>4, <3>1 DEF Session, Same
    <3>3. idb' = idb
      BY <2>1 DEF DurableAck, RemoteDurable, Flushed, Error
    <3>. QED  BY <3>2, <3>3 DEF Base, Mirrored, Same
  <2>2. CASE RemoteSourceUpdate
    <3>1. PICK U : U = Head(wire.down).ups
      OBVIOUS
    <3>2. CASE session.doc = None
      <4>1. session' = [session EXCEPT !.buffered = session.buffered \cup U] /\ idb' = idb
        BY <2>2, <3>1, <3>2 DEF RemoteSourceUpdate
      <4>2. Same(session', session) /\ session'.loading = session.loading /\ session'.doc = session.doc
        BY <1>4, <4>1 DEF Session, Same
      <4>. QED  BY <4>1, <4>2 DEF Base, Mirrored, Same
    <3>3. CASE session.doc # None
      <4>1. /\ session' = [session EXCEPT !.doc = session.doc \cup U]
            /\ idb' = [idb EXCEPT ![session.epoch] = idb[session.epoch] \cup U]
        BY <2>2, <3>1, <3>3 DEF RemoteSourceUpdate
      <4>2. Same(session', session) /\ session'.loading = session.loading /\ session'.doc = session.doc \cup U
        BY <1>4, <4>1 DEF Session, Same
      <4>3. session.epoch \in Epochs
        BY <1>4, <3>3 DEF SoundSession, Shape, Session, Epochs
      <4>4. idb'[session.epoch] = idb[session.epoch] \cup U
        BY <4>1, <4>3 DEF Base, Typed
      <4>. QED  BY <3>3, <4>2, <4>4 DEF Base, Mirrored, Same
    <3>. QED  BY <3>2, <3>3
  <2>. QED  BY <2>1, <2>2
<1>6. Linked' /\ Greeted'
  BY <1>1, <1>2, <1>3, <1>5, ReadBase DEF Same
<1>. QED  BY <1>5, <1>6

\* The browser's database has answered.
LEMMA LoadedIs ==
    ASSUME Typed, Loaded
    PROVE  /\ ~session.mounted /\ ~session.destroyed /\ session.epoch \in Epochs /\ UNCHANGED <<flushes, server, made>>
           /\ \/ /\ session.initial = None /\ Same(session', session) /\ ~session'.loading
                 /\ session'.doc = session.doc \cup idb[session.epoch]
                 /\ session'.seq = session.seq /\ session'.pending = session.pending /\ UNCHANGED <<idb, wire, page>>
              \/ /\ session.initial # None
                 /\ \E s \in SoundSession, doc \in SUBSET All :
                      /\ s.mounted /\ ~s.loading /\ s.epoch = session.epoch /\ s.metadata = session.metadata
                      /\ s.initial = session.initial /\ s.destroyed = session.destroyed /\ s.access = session.access
                      /\ s.timer = session.timer /\ s.connected = session.connected /\ s.seq = session.seq
                      /\ s.pending = session.pending /\ idb[session.epoch] \subseteq doc
                      /\ Announced(s, doc, wire.down)
<1>1. session \in SoundSession /\ session.loading /\ ~session.destroyed /\ session \in Session
  BY DEF Typed, Loaded, SoundSession
<1>2. session.doc \in SUBSET All /\ session.epoch # 0 /\ session.epoch \in Epochs /\ ~session.mounted
  BY <1>1 DEF SoundSession, Shape, Session, Epochs
<1>3. PICK doc \in SUBSET All : doc = session.doc \cup idb[session.epoch]
  BY <1>2 DEF Typed
<1>4. PICK s : s = [session EXCEPT !.loading = FALSE]
  OBVIOUS
<1>5. CASE session.initial = None
  <2>1. session' = [s EXCEPT !.doc = doc] /\ UNCHANGED <<idb, wire, page, flushes, server, made>>
    BY <1>3, <1>4, <1>5 DEF Loaded
  <2>2. /\ Same(session', session) /\ ~session'.loading /\ session'.doc = doc
        /\ session'.seq = session.seq /\ session'.pending = session.pending
    BY <1>1, <1>4, <2>1 DEF Session, Same
  <2>. QED  BY <1>1, <1>2, <1>3, <1>5, <2>1, <2>2
<1>6. CASE session.initial # None
  <2>1. PICK t : t = [s EXCEPT !.mounted = TRUE, !.editable = (s.access = "read_write"), !.buffered = {}]
    OBVIOUS
  <2>2. PICK all \in SUBSET All : all = doc \cup session.initial \cup session.buffered
    <3>1. session.initial \in SUBSET All /\ session.buffered \in SUBSET All
      BY <1>1, <1>6 DEF Session
    <3>. QED  BY <3>1
  <2>3. Announced(t, all, wire.down) /\ UNCHANGED <<flushes, server, made>>
    BY <1>3, <1>4, <1>6, <2>1, <2>2 DEF Loaded
  <2>4. /\ t \in Session /\ t.mounted /\ ~t.loading /\ t.epoch = session.epoch /\ t.metadata = session.metadata
        /\ t.initial = session.initial /\ t.destroyed = session.destroyed /\ t.access = session.access
        /\ t.timer = session.timer /\ t.connected = session.connected /\ t.seq = session.seq
        /\ t.pending = session.pending /\ t.doc = session.doc
    <3>1. PICK b \in BOOLEAN : b = (s.access = "read_write")
      OBVIOUS
    <3>2. t = [session EXCEPT !.loading = FALSE, !.mounted = TRUE, !.editable = b, !.buffered = {}]
      BY <1>4, <2>1, <3>1
    <3>. QED  BY <1>1, <3>2 DEF Session
  <2>5. t \in SoundSession
    BY <1>1, <1>2, <2>4, NoneIsNoSet DEF SoundSession, Shape
  <2>. QED  BY <1>1, <1>2, <1>3, <1>6, <2>2, <2>3, <2>4, <2>5
<1>. QED  BY <1>5, <1>6

\* Nothing is read, and the session is as far as it was.
LEMMA StayBase ==
    ASSUME Base, wire'.pc = wire.pc, wire'.count = wire.count, wire'.epoch = wire.epoch, wire'.down = wire.down,
           IsOpen \/ wire'.up = wire.up, server' = server, session'.timer = session.timer,
           session'.destroyed = session.destroyed, session'.connected = session.connected,
           session'.metadata = session.metadata, session'.epoch = session.epoch, session'.initial = session.initial,
           page'.label = page.label \/ page'.label # "synced" \/ session.initial # None
    PROVE  Linked' /\ Greeted'
<1>1. Linked'
  BY DEF Base, Linked, IsOpen
<1>2. Greeted'
  BY DEF Base, Greeted, IsOpen
<1>. QED  BY <1>1, <1>2

LEMMA LoadedBase == ASSUME Base, Loaded PROVE (Linked /\ Greeted /\ Mirrored)'
<1>1. session.loading /\ ~session.mounted /\ ~session.destroyed /\ session.epoch \in Epochs /\ server' = server
  BY LoadedIs DEF Base, Loaded
<1>2. CASE /\ session.initial = None /\ Same(session', session) /\ ~session'.loading
           /\ session'.doc = session.doc \cup idb[session.epoch] /\ UNCHANGED <<idb, wire, page>>
  <2>1. Linked' /\ Greeted'
    BY <1>1, <1>2, StayBase DEF Same
  <2>2. Mirrored'
    BY <1>1, <1>2 DEF Mirrored, Same
  <2>. QED  BY <2>1, <2>2
<1>3. CASE session.initial # None
  <2>1. PICK s \in SoundSession, doc \in SUBSET All :
          /\ s.mounted /\ ~s.loading /\ s.epoch = session.epoch /\ s.metadata = session.metadata
          /\ s.initial = session.initial /\ s.destroyed = session.destroyed /\ s.access = session.access
          /\ s.timer = session.timer /\ s.connected = session.connected
          /\ Announced(s, doc, wire.down)
    BY <1>3, LoadedIs DEF Base
  <2>2. s.epoch # 0 /\ wire.down \in Seq(Message)
    BY <1>1, <2>1 DEF Epochs, Base, Typed, Wire
  <2>3. /\ Same(session', s) /\ session'.doc = doc /\ idb'[s.epoch] = doc
        /\ wire'.pc = wire.pc /\ wire'.count = wire.count /\ wire'.epoch = wire.epoch /\ wire'.down = wire.down
        /\ ~IsOpen => wire'.up = wire.up
    BY <2>1, <2>2, AnnouncedIs DEF Base
  <2>4. Linked' /\ Greeted'
    BY <1>1, <1>3, <2>1, <2>3, StayBase DEF Same
  <2>5. Mirrored'
    BY <2>3 DEF Mirrored, Same
  <2>. QED  BY <2>4, <2>5
<1>. QED  BY <1>2, <1>3, LoadedIs DEF Base

LEMMA WriterBase == ASSUME Base, Writer PROVE (Linked /\ Greeted /\ Mirrored)'
<1>1. ASSUME NEW u \in Edits, Type(u) PROVE (Linked /\ Greeted /\ Mirrored)'
  <2>1. /\ Same(session', session) /\ session'.loading = session.loading /\ session.epoch \in Epochs
        /\ session'.doc = session.doc \cup {u} /\ idb' = [idb EXCEPT ![session.epoch] = idb[session.epoch] \cup {u}]
        /\ page'.label # "synced"
        /\ (wire' = wire \/ (IsOpen /\ \E x \in Frame : wire' = [wire EXCEPT !.up = Append(wire.up, x)]))
    BY <1>1, TypeIs DEF Base
  <2>2. /\ wire'.pc = wire.pc /\ wire'.count = wire.count /\ wire'.epoch = wire.epoch /\ wire'.down = wire.down
        /\ IsOpen \/ wire'.up = wire.up
    BY <2>1 DEF Base, Typed, Wire
  <2>3. server' = server
    BY <1>1 DEF Type
  <2>4. Linked' /\ Greeted'
    BY <2>1, <2>2, <2>3, StayBase DEF Same
  <2>5. idb'[session.epoch] = idb[session.epoch] \cup {u}
    BY <2>1 DEF Base, Typed
  <2>6. session.doc # None
    BY <1>1 DEF Base, Typed, SoundSession, Shape, Type
  <2>7. Mirrored'
    BY <2>1, <2>5, <2>6 DEF Base, Mirrored, Same
  <2>. QED  BY <2>4, <2>7
<1>2. ASSUME NEW f \in Flushes, Flush(f) \/ FlushTimeout(f) PROVE (Linked /\ Greeted /\ Mirrored)'
  <2>1. UNCHANGED <<session, idb, server>>
    BY <1>2 DEF Flush, FlushTimeout
  <2>2. page' = page \/ page'.label # "synced"
    BY <1>2, FlushIs DEF Base, FlushTimeout
  <2>3. wire' = wire \/ (IsOpen /\ \E x : wire' = [wire EXCEPT !.up = Append(wire.up, x)])
    BY <1>2, FlushIs DEF Base, FlushTimeout
  <2>4. /\ wire'.pc = wire.pc /\ wire'.count = wire.count /\ wire'.epoch = wire.epoch /\ wire'.down = wire.down
        /\ IsOpen \/ wire'.up = wire.up
    BY <2>3 DEF Base, Typed, Wire
  <2>5. Linked' /\ Greeted'
    BY <2>1, <2>2, <2>4, StayBase
  <2>. QED  BY <2>1, <2>5 DEF Base, Mirrored
<1>. QED  BY <1>1, <1>2 DEF Writer

\* What the server sends comes behind what is under way.
LEMMA ServerTells ==
    ASSUME Typed, ServerMoves
    PROVE  /\ wire'.count = wire.count /\ wire'.epoch = wire.epoch
           /\ wire'.pc = wire.pc \/ (wire.pc = "open" /\ wire'.pc = "hungup")
           /\ wire.pc # "open" => wire'.up = wire.up /\ wire'.down = wire.down
           /\ wire'.pc = "open" => server'.epoch = server.epoch
           /\ \E m \in Seq(Message) : (\A t : Says(m, t) => t \in Late)
                                      /\ (wire.pc = "open" => wire'.down = wire.down \o m)
<1>. DEFINE Behind == \E m \in Seq(Message) : (\A t : Says(m, t) => t \in Late)
                                      /\ (wire.pc = "open" => wire'.down = wire.down \o m)
<1>0. /\ <<>> \in Seq(Message) /\ wire.down \o <<>> = wire.down /\ \A t : ~Says(<<>>, t)
  <2>1. \A i \in 1 .. 0 : FALSE
    OBVIOUS
  <2>. QED  BY <2>1, ConcatEmptySeq DEF Typed, Wire, Says
<1>1. CASE Stores
  <2>1. PICK m \in Seq(Message) :
         /\ Told(m) /\ \A t : Says(m, t) => t \in Notice \cup {"FLUSHED"}
         /\ wire'.up = wire.up \/ Takes("FLUSH")
    BY <1>1 DEF Stores
  <2>2. Behind
    BY <2>1 DEF Told, Late
  <2>3. server'.epoch = server.epoch
    BY <1>1, KeptIs DEF Stores
  <2>. QED  BY <2>1, <2>2, <2>3 DEF Told, SameSocket, Takes
<1>2. CASE Accepts
  <2>1. server'.epoch = server.epoch
    BY <1>2 DEF Accepts, Typed, Server
  <2>2. Behind
    BY <1>0, <1>2 DEF Accepts
  <2>. QED  BY <1>2, <2>1, <2>2 DEF Accepts, SameSocket, Takes
<1>3. CASE Answers
  <2>1. PICK t \in {"FLUSHED", "ERROR"} : Told(<<[type |-> t]>>)
    BY <1>3 DEF Answers
  <2>2. PICK x \in Message : x = [type |-> t]
    BY MessageTypes
  <2>3. <<x>> \in Seq(Message) /\ \A r : Says(<<x>>, r) <=> r = t
    BY <2>2, OneMessage
  <2>4. Behind
    BY <2>1, <2>2, <2>3 DEF Told, Late
  <2>. QED  BY <1>3, <2>1, <2>4 DEF Answers, Told, SameSocket, Takes
<1>4. CASE Hears
  <2>1. PICK u, b : /\ u \in Others /\ server' = [server EXCEPT !.unsaved = server.unsaved \cup {b}]
                    /\ Told(<<[type |-> "REMOTE_SOURCE_UPDATE", ups |-> {u}]>>)
    BY <1>4 DEF Hears
  <2>2. PICK x \in Message : x = [type |-> "REMOTE_SOURCE_UPDATE", ups |-> {u}]
    BY <2>1, MessageTypes DEF All
  <2>3. <<x>> \in Seq(Message) /\ \A r : Says(<<x>>, r) <=> r = "REMOTE_SOURCE_UPDATE"
    BY <2>2, OneMessage
  <2>4. Behind
    BY <2>1, <2>2, <2>3 DEF Told, Late
  <2>5. server'.epoch = server.epoch
    BY <2>1 DEF Typed, Server
  <2>. QED  BY <1>4, <2>1, <2>4, <2>5 DEF Hears, Told, SameSocket
<1>5. CASE HangsUp
  <2>1. CASE wire.pc = "open"
    <3>1. PICK t \in {"ERROR", "POLICY_CHANGED", "PAPER_EPOCH_CHANGED"} : wire'.down = wire.down \o <<[type |-> t]>>
      BY <1>5, <2>1 DEF HangsUp
    <3>2. PICK x \in Message : x = [type |-> t]
      BY MessageTypes
    <3>3. <<x>> \in Seq(Message) /\ \A r : Says(<<x>>, r) <=> r = t
      BY <3>2, OneMessage
    <3>4. Behind
      BY <3>1, <3>2, <3>3 DEF Late
    <3>. QED  BY <1>5, <2>1, <3>4 DEF HangsUp
  <2>2. CASE wire.pc # "open"
    <3>1. Behind
      BY <1>0, <2>2
    <3>. QED  BY <1>5, <2>2, <3>1 DEF HangsUp
  <2>. QED  BY <2>1, <2>2
<1>. QED  BY <1>1, <1>2, <1>3, <1>4, <1>5 DEF ServerMoves

\* What waits to be stored: nothing more, or one batch.
LEMMA UnsavedIs ==
    ASSUME Typed, ServerMoves
    PROVE  \/ server'.unsaved = server.unsaved \/ server'.unsaved = {}
           \/ \E b : /\ server'.unsaved = server.unsaved \cup {b}
                     /\ (wire.pc = "open" /\ b.from = wire.count) \/ b.from = 0
<1>1. server \in Server
  BY DEF Typed
<1>2. CASE Stores
  BY <1>2, KeptIs DEF Stores
<1>3. CASE Accepts
  <2>1. PICK b : /\ b = [seq |-> Head(wire.up).seq, ups |-> Head(wire.up).ups, from |-> wire.count]
                 /\ server' = [server EXCEPT !.unsaved = server.unsaved \cup {b}]
    BY <1>3 DEF Accepts
  <2>2. b.from = wire.count /\ server'.unsaved = server.unsaved \cup {b}
    BY <1>1, <2>1 DEF Server
  <2>. QED  BY <1>3, <2>2 DEF Accepts, Takes
<1>4. CASE Hears
  <2>1. PICK b, u : /\ b = [seq |-> 0, ups |-> {u}, from |-> 0]
                    /\ server' = [server EXCEPT !.unsaved = server.unsaved \cup {b}]
    BY <1>4 DEF Hears
  <2>2. b.from = 0 /\ server'.unsaved = server.unsaved \cup {b}
    BY <1>1, <2>1 DEF Server
  <2>. QED  BY <2>2
<1>5. CASE Answers
  BY <1>5 DEF Answers
<1>6. CASE HangsUp
  <2>1. CASE server' = server \/ server' = [server EXCEPT !.frozen = TRUE]
    BY <1>1, <2>1 DEF Server
  <2>2. CASE server' = [Kept(server) EXCEPT !.epoch = server.epoch + 1]
    BY <2>2, KeptIs DEF Server
  <2>. QED  BY <1>6, <2>1, <2>2 DEF HangsUp
<1>. QED  BY <1>2, <1>3, <1>4, <1>5, <1>6 DEF ServerMoves

LEMMA ServerBase == ASSUME Base, ServerStep PROVE (Linked /\ Greeted /\ Mirrored)'
<1>1. ServerMoves /\ UNCHANGED <<session, page, idb>>
  BY ServerMovesOnly DEF Base
<1>2. PICK m \in Seq(Message) :
         /\ \A t : Says(m, t) => t \in Late
         /\ wire.pc = "open" => wire'.down = wire.down \o m
  BY <1>1, ServerTells DEF Base
<1>3. /\ wire'.count = wire.count /\ wire'.epoch = wire.epoch
      /\ wire'.pc = wire.pc \/ (wire.pc = "open" /\ wire'.pc = "hungup")
      /\ wire.pc # "open" => wire'.up = wire.up /\ wire'.down = wire.down
      /\ wire'.pc = "open" => server'.epoch = server.epoch
  BY <1>1, ServerTells DEF Base
<1>4. \A b \in server'.unsaved : b.from <= wire'.count /\ (wire'.pc = "connecting" => b.from # wire'.count)
  <2>1. \A b \in server.unsaved : b.from <= wire.count /\ (wire.pc = "connecting" => b.from # wire.count)
    BY DEF Base, Linked
  <2>2. wire.count \in Nat /\ (wire.pc = "connecting" => wire.count # 0)
    BY DEF Base, Linked, Typed, Wire
  <2>3. \/ server'.unsaved = server.unsaved \/ server'.unsaved = {}
        \/ \E b : /\ server'.unsaved = server.unsaved \cup {b}
                  /\ (wire.pc = "open" /\ b.from = wire.count) \/ b.from = 0
    BY <1>1, UnsavedIs DEF Base
  <2>4. CASE server'.unsaved = server.unsaved \/ server'.unsaved = {}
    BY <1>3, <2>1, <2>4
  <2>5. CASE \E b : /\ server'.unsaved = server.unsaved \cup {b}
                    /\ (wire.pc = "open" /\ b.from = wire.count) \/ b.from = 0
    <3>1. PICK b : /\ server'.unsaved = server.unsaved \cup {b}
                   /\ (wire.pc = "open" /\ b.from = wire.count) \/ b.from = 0
      BY <2>5
    <3>2. b.from <= wire.count /\ (wire'.pc = "connecting" => b.from # wire.count)
      BY <1>3, <2>2, <3>1
    <3>. QED  BY <1>3, <2>1, <3>1, <3>2
  <2>. QED  BY <2>3, <2>4, <2>5
<1>5. Linked'
  BY <1>1, <1>3, <1>4 DEF Base, Linked, IsOpen
<1>6. Greeted'
  <2>1. CASE wire.pc # "open"
    BY <1>1, <1>3, <2>1 DEF Base, Greeted, IsOpen
  <2>2. CASE wire.pc = "open"
    <3>1. wire.down \in Seq(Message)
      BY DEF Base, Typed, Wire
    <3>2. /\ \A i \in 1 .. Len(wire.down) : wire'.down[i] = wire.down[i]
          /\ Len(wire.down) <= Len(wire'.down)
          /\ \A i \in 1 .. Len(wire'.down) : i \in 1 .. Len(wire.down) \/ Says(m, wire'.down[i].type)
      <4>1. PICK q : q = wire.down \o m
        OBVIOUS
      <4>2. /\ \A i \in 1 .. Len(wire.down) : q[i] = wire.down[i]
            /\ Len(wire.down) <= Len(q)
            /\ \A i \in 1 .. Len(q) : i \in 1 .. Len(wire.down) \/ Says(m, q[i].type)
        BY <3>1, <4>1, MessagesTold
      <4>. QED  BY <1>2, <2>2, <4>1, <4>2
    <3>3. ~Says(m, "JOIN_ACCEPTED")
      BY <1>2 DEF Late, Notice
    <3>4. Len(wire.down) \in Nat /\ Len(wire'.down) \in Nat
      <4>1. wire'.down \in Seq(Message)
        BY <1>2, <2>2, <3>1, ConcatProperties
      <4>. QED  BY <3>1, <4>1, LenProperties
    <3>5. wire.down # <<>> => Len(wire.down) >= 1
      BY <3>1, <3>4, EmptySeq
    <3>6. Len(wire'.down) >= 1 => wire'.down # <<>>
      BY EmptySeq
    <3>7. \A i \in 1 .. Len(wire'.down) : wire'.down[i].type = "JOIN_ACCEPTED" =>
             i = 1 /\ ~session'.metadata /\ wire'.down[i].epoch = wire'.epoch
      <4>. SUFFICES ASSUME NEW i \in 1 .. Len(wire'.down), wire'.down[i].type = "JOIN_ACCEPTED"
           PROVE  i = 1 /\ ~session'.metadata /\ wire'.down[i].epoch = wire'.epoch
        OBVIOUS
      <4>1. i \in 1 .. Len(wire.down) /\ wire'.down[i] = wire.down[i]
        BY <3>2, <3>3
      <4>. QED  BY <1>1, <1>3, <2>2, <4>1 DEF Base, Greeted, IsOpen
    <3>8. session.initial = None /\ session.metadata => wire'.down # <<>> /\ wire'.down[1].type = "INITIAL_STATE"
      <4>. SUFFICES ASSUME session.initial = None, session.metadata
           PROVE  wire'.down # <<>> /\ wire'.down[1].type = "INITIAL_STATE"
        OBVIOUS
      <4>1. wire.down # <<>> /\ wire.down[1].type = "INITIAL_STATE"
        BY <2>2 DEF Base, Greeted, IsOpen
      <4>2. 1 \in 1 .. Len(wire.down) /\ Len(wire'.down) >= 1
        BY <3>2, <3>4, <3>5, <4>1
      <4>. QED  BY <3>2, <3>6, <4>1, <4>2
    <3>9. session.initial = None /\ ~session.metadata =>
             Len(wire'.down) >= 2 /\ wire'.down[1].type = "JOIN_ACCEPTED" /\ wire'.down[2].type = "INITIAL_STATE"
      <4>. SUFFICES ASSUME session.initial = None, ~session.metadata
           PROVE  Len(wire'.down) >= 2 /\ wire'.down[1].type = "JOIN_ACCEPTED" /\ wire'.down[2].type = "INITIAL_STATE"
        OBVIOUS
      <4>1. Len(wire.down) >= 2 /\ wire.down[1].type = "JOIN_ACCEPTED" /\ wire.down[2].type = "INITIAL_STATE"
        BY <2>2 DEF Base, Greeted, IsOpen
      <4>2. 1 \in 1 .. Len(wire.down) /\ 2 \in 1 .. Len(wire.down) /\ Len(wire'.down) >= 2
        BY <3>2, <3>4, <4>1
      <4>. QED  BY <3>2, <4>1, <4>2
    <3>. QED  BY <1>1, <1>3, <2>2, <3>7, <3>8, <3>9 DEF Base, Greeted, IsOpen
  <2>. QED  BY <2>1, <2>2
<1>7. Mirrored'
  BY <1>1 DEF Base, Mirrored
<1>. QED  BY <1>5, <1>6, <1>7

LEMMA NextBase == ASSUME Base, [Next]_vars PROVE Base'
<1>. SUFFICES (Linked /\ Greeted /\ Mirrored)'
  <2>1. Typed'
    BY NextTyped DEF Base
  <2>. QED  BY <2>1 DEF Base
<1>1. CASE JoinAccepted
  <2>1. CASE PreserveOldEpoch
    BY <1>1, <2>1, EndBase DEF JoinAccepted
  <2>. QED  BY <1>1, <2>1, JoinBase
<1>2. CASE PaperEpochChanged
  BY <1>2, EndBase DEF PaperEpochChanged
<1>3. CASE Receive
  BY <1>1, <1>2, <1>3, InitialBase, NoticeBase, EndBase DEF Receive
<1>4. CASE UNCHANGED vars
  BY <1>4 DEF vars, Base, Linked, Greeted, Mirrored, IsOpen
<1>. QED  BY <1>3, <1>4, ConnectBase, OpenBase, EndBase, LoadedBase, WriterBase, ServerBase DEF Next

LEMMA BaseAlways == Spec => []Base
<1>1. Base /\ [Next]_vars => Base'
  BY NextBase
<1>. QED  BY <1>1, InitBase, PTL DEF Spec

-----------------------------------------------------------------------------
(* The numbers of the updates, and of their acknowledgements *)

\* The updates of this connection that the server has taken in and not stored
OfWire == {b \in server.unsaved : b.from = wire.count}

Numbers ==
    /\ IsOpen => \A n \in AckedIn(wire.down) : n <= session.seq
    /\ wire.pc = "open" =>
          /\ Growing(wire.up)
          /\ \A f \in Updates(wire.up) : f.seq <= session.seq /\ \A n \in AckedIn(wire.down) : n < f.seq
          /\ \A b \in OfWire : /\ b.seq <= session.seq /\ b.seq \notin AckedIn(wire.down)
                               /\ \A f \in Updates(wire.up) : b.seq < f.seq

LEMMA NumbersTyped ==
    ASSUME Typed
    PROVE  /\ session.seq \in Nat /\ session.pending \in SUBSET Nat
           /\ wire.up \in Seq(Frame) /\ wire.down \in Seq(Message)
           /\ \A f \in Updates(wire.up) : f \in Frame /\ f.seq \in Nat /\ f.type = "SOURCE_UPDATE" /\ f.ups \in SUBSET All
           /\ \A n \in AckedIn(wire.down) : n \in Nat
           /\ \A b \in OfWire : b \in server.unsaved /\ b.seq \in Nat /\ b.ups \in SUBSET All
<1>1. session.seq \in Nat /\ session.pending \in SUBSET Nat /\ wire.up \in Seq(Frame) /\ wire.down \in Seq(Message)
  BY DEF Typed, SoundSession, Session, Wire
<1>2. \A i \in 1 .. Len(wire.up) : wire.up[i] \in Frame
  BY <1>1, ElementOfSeq
<1>3. \A f \in Updates(wire.up) : f \in Frame /\ f.type = "SOURCE_UPDATE"
  BY <1>2 DEF Updates
<1>4. \A f \in Updates(wire.up) : f.seq \in Nat /\ f.ups \in SUBSET All
  BY <1>3, FrameTypes
<1>5. \A i \in 1 .. Len(wire.down) : wire.down[i] \in Message
  BY <1>1, ElementOfSeq
<1>6. \A n \in AckedIn(wire.down) : n \in Nat
  BY <1>5, MessageFields DEF AckedIn
<1>7. \A b \in OfWire : b \in server.unsaved /\ b.seq \in Nat /\ b.ups \in SUBSET All
  BY DEF OfWire, Typed, Server
<1>. QED  BY <1>1, <1>3, <1>4, <1>6, <1>7

\* No update is sent, and none is taken in.
LEMMA NumbersStay ==
    ASSUME Base, Numbers, wire'.pc = wire.pc, wire'.count = wire.count, server' = server,
           session'.seq = session.seq, AckedIn(wire'.down) \subseteq AckedIn(wire.down),
           Updates(wire'.up) = Updates(wire.up), Growing(wire.up) => Growing(wire'.up)
    PROVE  Numbers'
<1>1. OfWire' = OfWire
  BY DEF OfWire
<1>. QED  BY <1>1 DEF Numbers, IsOpen

\* The next update is sent.
LEMMA NumbersSent ==
    ASSUME Base, Numbers, wire'.pc = wire.pc, wire'.count = wire.count, server' = server,
           session'.seq = session.seq + 1, AckedIn(wire'.down) \subseteq AckedIn(wire.down),
           NEW x \in Frame, x.type = "SOURCE_UPDATE", x.seq = session.seq + 1, wire'.up = Append(wire.up, x)
    PROVE  Numbers'
<1>1. /\ session.seq \in Nat /\ wire.up \in Seq(Frame)
      /\ \A f \in Updates(wire.up) : f.seq \in Nat
      /\ \A n \in AckedIn(wire.down) : n \in Nat
      /\ \A b \in OfWire : b.seq \in Nat
  BY NumbersTyped DEF Base
<1>2. Updates(wire'.up) = Updates(wire.up) \cup {x}
  BY <1>1, UpdatesAppended
<1>3. OfWire' = OfWire
  BY DEF OfWire
<1>4. \A n \in Nat : n <= session.seq => n < x.seq /\ n <= session'.seq
  BY <1>1
<1>5. IsOpen' => \A n \in AckedIn(wire'.down) : n <= session'.seq
  BY <1>1, <1>4 DEF Numbers, IsOpen
<1>6. ASSUME wire.pc = "open"
      PROVE  /\ Growing(wire'.up)
             /\ \A f \in Updates(wire'.up) : f.seq <= session'.seq /\ \A n \in AckedIn(wire'.down) : n < f.seq
             /\ \A b \in OfWire : /\ b.seq <= session'.seq /\ b.seq \notin AckedIn(wire'.down)
                                  /\ \A f \in Updates(wire'.up) : b.seq < f.seq
  <2>1. /\ Growing(wire.up)
        /\ \A f \in Updates(wire.up) : f.seq <= session.seq /\ \A n \in AckedIn(wire.down) : n < f.seq
        /\ \A b \in OfWire : /\ b.seq <= session.seq /\ b.seq \notin AckedIn(wire.down)
                             /\ \A f \in Updates(wire.up) : b.seq < f.seq
        /\ \A n \in AckedIn(wire.down) : n <= session.seq
    BY <1>6 DEF Numbers, IsOpen
  <2>2. \A f \in Updates(wire.up) : f.seq < x.seq
    BY <1>1, <1>4, <2>1
  <2>3. Growing(wire'.up)
    BY <1>1, <2>1, <2>2, UpdatesAppended
  <2>4. x.seq <= session'.seq
    BY <1>1
  <2>5. \A n \in AckedIn(wire.down) : n < x.seq
    BY <1>1, <1>4, <2>1
  <2>6. \A b \in OfWire : b.seq < x.seq /\ b.seq <= session'.seq
    BY <1>1, <1>4, <2>1
  <2>7. \A f \in Updates(wire.up) : f.seq <= session'.seq
    BY <1>1, <1>4, <2>1
  <2>. QED  BY <1>2, <2>1, <2>3, <2>4, <2>5, <2>6, <2>7
<1>. QED  BY <1>3, <1>5, <1>6 DEF Numbers

\* The acknowledgements in what the server sends
LEMMA AcksTold ==
    ASSUME Typed, ServerMoves
    PROVE  \/ AckedIn(wire'.down) = AckedIn(wire.down)
           \/ Stores /\ wire.pc = "open" /\ AckedIn(wire'.down) \subseteq AckedIn(wire.down) \cup AcksOf(wire, server)
<1>1. wire.down \in Seq(Message)
  BY DEF Typed, Wire
<1>2. CASE Stores
  <2>1. PICK m \in Seq(Message) : Told(m) /\ AckedIn(m) \subseteq AcksOf(wire, server)
    BY <1>2 DEF Stores
  <2>2. AckedIn(wire.down \o m) = AckedIn(wire.down) \cup AckedIn(m)
    BY <1>1, MessagesTold
  <2>. QED  BY <1>2, <2>1, <2>2 DEF Told
<1>3. CASE Accepts
  BY <1>3 DEF Accepts
<1>4. ASSUME NEW x \in Message, x.type # "DURABLE_ACK", wire'.down \in {wire.down, wire.down \o <<x>>}
      PROVE  AckedIn(wire'.down) = AckedIn(wire.down)
  <2>1. <<x>> \in Seq(Message) /\ AckedIn(<<x>>) = {}
    BY <1>4, OneMessage
  <2>2. PICK m \in Seq(Message) : m = <<x>>
    BY <2>1
  <2>3. AckedIn(wire.down \o m) = AckedIn(wire.down) \cup AckedIn(m)
    BY <1>1, MessagesTold
  <2>. QED  BY <1>4, <2>1, <2>2, <2>3
<1>5. CASE Answers
  <2>1. PICK t \in {"FLUSHED", "ERROR"} : Told(<<[type |-> t]>>)
    BY <1>5 DEF Answers
  <2>2. PICK x \in Message : x = [type |-> t]
    BY MessageTypes
  <2>. QED  BY <1>4, <2>1, <2>2 DEF Told
<1>6. CASE Hears
  <2>1. PICK u \in Others : Told(<<[type |-> "REMOTE_SOURCE_UPDATE", ups |-> {u}]>>)
    BY <1>6 DEF Hears
  <2>2. PICK x \in Message : x = [type |-> "REMOTE_SOURCE_UPDATE", ups |-> {u}]
    BY MessageTypes
  <2>. QED  BY <1>4, <2>1, <2>2 DEF Told
<1>7. CASE HangsUp
  <2>1. PICK t \in {"ERROR", "POLICY_CHANGED", "PAPER_EPOCH_CHANGED"} :
           wire'.down = wire.down \/ wire'.down = wire.down \o <<[type |-> t]>>
    BY <1>7 DEF HangsUp
  <2>2. PICK x \in Message : x = [type |-> t]
    BY MessageTypes
  <2>. QED  BY <1>4, <2>1, <2>2
<1>. QED  BY <1>2, <1>3, <1>5, <1>6, <1>7 DEF ServerMoves

\* The first frame is taken, or none.
LEMMA FramesTaken ==
    ASSUME Typed, ServerMoves, wire'.pc = "open"
    PROVE  /\ wire.pc = "open" /\ (Growing(wire.up) => Growing(wire'.up))
           /\ Updates(wire'.up) \subseteq Updates(wire.up)
           /\ ~Accepts => Updates(wire'.up) = Updates(wire.up)
           /\ Accepts => Updates(wire.up) = Updates(wire'.up) \cup {Head(wire.up)}
<1>1. wire.up \in Seq(Frame)
  BY DEF Typed, Wire
<1>2. CASE wire'.up = wire.up /\ ~Accepts
  BY <1>2, ServerTells
<1>3. CASE Accepts \/ Takes("FLUSH")
  <2>1. wire.up # <<>> /\ wire'.up = Tail(wire.up)
    BY <1>3 DEF Accepts, Takes
  <2>2. /\ Updates(wire.up) = Updates(Tail(wire.up)) \cup
                                (IF Head(wire.up).type = "SOURCE_UPDATE" THEN {Head(wire.up)} ELSE {})
        /\ Growing(wire.up) => Growing(Tail(wire.up))
    BY <1>1, <2>1, UpdatesTaken
  <2>3. Accepts <=> Head(wire.up).type = "SOURCE_UPDATE"
    BY <1>3 DEF Accepts, Takes
  <2>. QED  BY <2>1, <2>2, <2>3, ServerTells
<1>4. Accepts \/ Takes("FLUSH") \/ wire'.up = wire.up
  <2>1. wire.pc = "open" /\ ~(HangsUp /\ ~(wire'.up = wire.up))
    BY ServerTells DEF HangsUp
  <2>. QED  BY <2>1 DEF ServerMoves, Stores, Answers, Hears
<1>. QED  BY <1>2, <1>3, <1>4

LEMMA NumbersServer == ASSUME Base, Numbers, ServerMoves, session' = session PROVE Numbers'
<1>0. /\ session.seq \in Nat /\ wire.up \in Seq(Frame) /\ wire.count \in Nat
      /\ \A f \in Updates(wire.up) : f.seq \in Nat
      /\ \A n \in AckedIn(wire.down) : n \in Nat
      /\ \A b \in OfWire : b.seq \in Nat
  BY NumbersTyped DEF Base, Typed, Wire
<1>1. AcksOf(wire, server) = {b.seq : b \in OfWire}
  BY DEF AcksOf, OfWire
<1>2. \/ AckedIn(wire'.down) = AckedIn(wire.down)
      \/ /\ Stores /\ wire.pc = "open"
         /\ AckedIn(wire'.down) \subseteq AckedIn(wire.down) \cup {b.seq : b \in OfWire}
  BY <1>1, AcksTold DEF Base
<1>3. /\ wire'.count = wire.count
      /\ wire'.pc = wire.pc \/ (wire.pc = "open" /\ wire'.pc = "hungup")
  BY ServerTells DEF Base
<1>4. IsOpen' => \A n \in AckedIn(wire'.down) : n <= session'.seq
  BY <1>2, <1>3 DEF Numbers, IsOpen
<1>5. ASSUME wire'.pc = "open"
      PROVE  /\ Growing(wire'.up)
             /\ \A f \in Updates(wire'.up) : f.seq <= session'.seq /\ \A n \in AckedIn(wire'.down) : n < f.seq
             /\ \A b \in OfWire' : /\ b.seq <= session'.seq /\ b.seq \notin AckedIn(wire'.down)
                                   /\ \A f \in Updates(wire'.up) : b.seq < f.seq
  <2>1. /\ wire.pc = "open" /\ Growing(wire.up)
        /\ \A f \in Updates(wire.up) : f.seq <= session.seq /\ \A n \in AckedIn(wire.down) : n < f.seq
        /\ \A b \in OfWire : /\ b.seq <= session.seq /\ b.seq \notin AckedIn(wire.down)
                             /\ \A f \in Updates(wire.up) : b.seq < f.seq
    BY <1>3, <1>5 DEF Numbers
  <2>2. /\ Growing(wire'.up) /\ Updates(wire'.up) \subseteq Updates(wire.up)
        /\ Accepts => Updates(wire.up) = Updates(wire'.up) \cup {Head(wire.up)}
    BY <1>5, <2>1, FramesTaken DEF Base
  <2>3. \A f \in Updates(wire'.up) : f.seq <= session'.seq /\ \A n \in AckedIn(wire'.down) : n < f.seq
    BY <1>2, <2>1, <2>2
  <2>4. \A b \in OfWire' : /\ b.seq <= session'.seq /\ b.seq \notin AckedIn(wire'.down)
                           /\ \A f \in Updates(wire'.up) : b.seq < f.seq
    <3>1. CASE Stores
      <4>1. server'.unsaved = {}
        BY <3>1, KeptIs DEF Stores, Base
      <4>. QED  BY <4>1 DEF OfWire
    <3>2. CASE ~Stores /\ OfWire' \subseteq OfWire
      BY <1>2, <2>1, <2>2, <3>2
    <3>3. CASE Accepts
      <4>1. PICK b : /\ b = [seq |-> Head(wire.up).seq, ups |-> Head(wire.up).ups, from |-> wire.count]
                     /\ server' = [server EXCEPT !.unsaved = server.unsaved \cup {b}]
        BY <3>3 DEF Accepts
      <4>2. /\ b.seq = Head(wire.up).seq /\ server'.unsaved = server.unsaved \cup {b}
        BY <4>1 DEF Base, Typed, Server
      <4>3. OfWire' \subseteq OfWire \cup {b}
        BY <1>3, <4>2 DEF OfWire
      <4>4. Head(wire.up) \in Updates(wire.up) /\ wire'.up = Tail(wire.up) /\ wire.up # <<>>
        BY <2>2, <3>3 DEF Accepts, Takes
      <4>5. \A f \in Updates(wire'.up) : b.seq < f.seq
        <5>1. Head(wire.up).type = "SOURCE_UPDATE"
          BY <3>3 DEF Accepts, Takes
        <5>2. \A f \in Updates(Tail(wire.up)) : Head(wire.up).seq < f.seq
          BY <1>0, <2>1, <4>4, <5>1, UpdatesTaken
        <5>. QED  BY <4>2, <4>4, <5>2
      <4>6. wire'.down = wire.down
        BY <3>3 DEF Accepts
      <4>7. b.seq <= session.seq /\ b.seq \notin AckedIn(wire.down)
        <5>1. PICK k \in Nat : k = b.seq /\ k <= session.seq /\ \A n \in AckedIn(wire.down) : n < k
          BY <1>0, <2>1, <4>2, <4>4
        <5>2. k \notin AckedIn(wire.down)
          BY <1>0, <5>1
        <5>. QED  BY <5>1, <5>2
      <4>. QED  BY <2>1, <2>2, <4>3, <4>5, <4>6, <4>7
    <3>4. CASE Hears \/ Answers \/ HangsUp
      <4>1. wire.count # 0
        BY <2>1 DEF Base, Linked
      <4>2. OfWire' \subseteq OfWire
        <5>1. CASE Answers
          BY <1>3, <5>1 DEF Answers, OfWire
        <5>2. CASE Hears
          <6>1. PICK b, u : /\ b = [seq |-> 0, ups |-> {u}, from |-> 0]
                            /\ server' = [server EXCEPT !.unsaved = server.unsaved \cup {b}]
            BY <5>2 DEF Hears
          <6>2. b.from = 0 /\ server'.unsaved = server.unsaved \cup {b}
            BY <6>1 DEF Base, Typed, Server
          <6>. QED  BY <1>3, <4>1, <6>2 DEF OfWire
        <5>3. CASE HangsUp
          BY <1>5, <2>1, <5>3 DEF HangsUp
        <5>. QED  BY <3>4, <5>1, <5>2, <5>3
      <4>3. CASE Stores
        BY <3>1, <4>3
      <4>. QED  BY <3>2, <4>2, <4>3
    <3>. QED  BY <3>1, <3>3, <3>4 DEF ServerMoves
  <2>. QED  BY <2>2, <2>3, <2>4
<1>. QED  BY <1>4, <1>5 DEF Numbers

-----------------------------------------------------------------------------
(* The page: four kinds of step, and the calls of flush *)

Editing == session.mounted /\ ~session.destroyed /\ session.access = "read_write"
Merging == Editing /\ IsOpen /\ session.initial # None

\* No message is sent; what is under way is what was, or less.
Behindhand ==
    /\ server' = server /\ wire'.count = wire.count
    /\ AckedIn(wire'.down) \subseteq AckedIn(wire.down)
    /\ Says(wire'.down, "FLUSHED") => Says(wire.down, "FLUSHED")
SameCalls == flushes' = flushes
SameWire == wire'.pc = wire.pc /\ wire'.epoch = wire.epoch

\* The connection is over, or not yet open.
Off ==
    /\ ~IsOpen' /\ server' = server /\ page'.label # "synced"
    /\ (~IsOpen /\ SameCalls) \/ flushes' = Settled("rejected")
\* An editor that may write and has merged is not the result, and nothing is said to be saved.
Quiet ==
    /\ Behindhand /\ SameCalls /\ ~Merging' /\ (Editing' => page'.label # "synced")
    /\ session'.seq = session.seq /\ wire'.up = wire.up
    /\ SameWire \/ (wire.pc = "connecting" /\ wire'.pc = "open")
\* An update is sent: the whole document, or what was typed.
Sends ==
    /\ Behindhand /\ SameCalls /\ SameWire /\ IsOpen /\ page'.label # "synced"
    /\ session'.seq = session.seq + 1 /\ session'.pending = session.pending \cup {session.seq + 1}
    /\ \E x \in Frame :
         /\ x.type = "SOURCE_UPDATE" /\ x.seq = session.seq + 1 /\ wire'.up = Append(wire.up, x)
         /\ \/ idb'[session'.epoch] \subseteq x.ups
            \/ /\ session'.epoch = session.epoch /\ (Merging' => Merging)
               /\ idb'[session.epoch] = idb[session.epoch] \cup x.ups
\* A message is read after the handshake.
Reads ==
    /\ Behindhand /\ SameWire /\ IsOpen /\ wire.down # <<>> /\ wire'.up = wire.up /\ session'.seq = session.seq
    /\ SameCalls \/ (Says(wire.down, "FLUSHED") /\ flushes' = Settled("resolved"))
    /\ Same(session', session) /\ session.initial # None
    /\ \A n \in session.pending : n \in session'.pending \/ n \in AckedIn(wire.down)
    /\ Mine(idb'[session.epoch]) = Mine(idb[session.epoch])
    /\ page'.label = "synced" => page.label = "synced" \/ session'.pending = {}

LEMMA OffIs ==
    ASSUME Base, Connect \/ Close \/ Reopen \/ PolicyChanged \/ (PreserveOldEpoch /\ UNCHANGED server)
    PROVE  Off
<1>1. page \in Page /\ wire \in Wire /\ Closed(wire).pc = "none"
  BY ClosedTyped DEF Base, Typed
<1>2. CASE Connect
  <2>1. ~IsOpen
    BY <1>2 DEF Connect, Base, Linked, IsOpen
  <2>2. wire'.pc = "connecting"
    <3>1. PICK w : w = Closed(wire)
      OBVIOUS
    <3>2. w \in Wire /\ wire' = [w EXCEPT !.pc = "connecting", !.count = wire.count + 1]
      BY <1>1, <1>2, <3>1, ClosedTyped DEF Connect
    <3>. QED  BY <3>2 DEF Wire
  <2>3. page'.label # "synced"
    BY <1>1, <1>2, LabelTyped DEF Connect, Labels
  <2>. QED  BY <1>2, <2>1, <2>2, <2>3 DEF Off, Connect, IsOpen, SameCalls
<1>3. CASE ~Connect
  <2>1. wire' = Closed(wire) /\ flushes' = Settled("rejected") /\ server' = server
    BY <1>3 DEF Close, Reopen, PolicyChanged, PreserveOldEpoch
  <2>2. page'.label # "synced"
    <3>1. CASE Close
      BY <1>1, <3>1, LabelTyped DEF Close, Labels
    <3>2. CASE Reopen
      BY <1>1, <3>2 DEF Reopen, Page
    <3>3. CASE PolicyChanged
      BY <1>1, <3>3 DEF PolicyChanged, Page
    <3>4. CASE PreserveOldEpoch
      BY <1>1, <3>4 DEF PreserveOldEpoch, Page
    <3>. QED  BY <1>3, <3>1, <3>2, <3>3, <3>4
  <2>. QED  BY <1>1, <2>1, <2>2 DEF Off, IsOpen
<1>. QED  BY <1>2, <1>3

\* What is left of the messages after one is read
LEMMA ReadBehind ==
    ASSUME Typed, IsOpen, wire.down # <<>>, server' = server, wire'.count = wire.count, wire'.down = Tail(wire.down)
    PROVE  Behindhand
<1>1. wire.down \in Seq(Message)
  BY DEF Typed, Wire
<1>2. /\ AckedIn(Tail(wire.down)) \subseteq AckedIn(wire.down)
      /\ \A t : Says(Tail(wire.down), t) => Says(wire.down, t)
  BY <1>1, MessagesRead
<1>. QED  BY <1>2 DEF Behindhand

LEMMA AnnouncedSends ==
    ASSUME Base, NEW s \in SoundSession, s.epoch # 0, NEW doc \in SUBSET All, NEW down \in Seq(Message),
           Announced(s, doc, down), s.seq = session.seq, s.pending = session.pending,
           Behindhand, SameCalls
    PROVE  Quiet \/ Sends
<1>1. /\ Same(session', s) /\ idb'[s.epoch] = doc /\ SameWire
      /\ s.access = "read_write" /\ IsOpen =>
            /\ session'.seq = s.seq + 1 /\ session'.pending = s.pending \cup {s.seq + 1}
            /\ wire'.up = Append(wire.up, UpdateFrame(s, doc)) /\ page'.label = "syncing"
      /\ s.access = "read_write" /\ ~IsOpen => page'.label = "offline"
      /\ ~(s.access = "read_write" /\ IsOpen) => session'.seq = s.seq /\ wire'.up = wire.up
  BY AnnouncedIs DEF Base, SameWire
<1>2. CASE s.access = "read_write" /\ IsOpen
  <2>1. PICK x : x = UpdateFrame(s, doc)
    OBVIOUS
  <2>2. s \in Session /\ s.pending \subseteq 1 .. s.seq
    BY DEF SoundSession
  <2>3. x \in Frame /\ x.type = "SOURCE_UPDATE" /\ x.seq = s.seq + 1 /\ x.ups = doc
    BY <2>1, <2>2, SentTyped
  <2>4. idb'[session'.epoch] \subseteq x.ups
    BY <1>1, <2>3 DEF Same
  <2>5. /\ page'.label # "synced" /\ session'.seq = session.seq + 1
        /\ session'.pending = session.pending \cup {session.seq + 1} /\ wire'.up = Append(wire.up, x)
    BY <1>1, <1>2, <2>1
  <2>6. x.seq = session.seq + 1
    BY <2>3
  <2>. QED  BY <1>1, <1>2, <2>3, <2>4, <2>5, <2>6 DEF Sends
<1>3. CASE ~(s.access = "read_write" /\ IsOpen)
  <2>1. IsOpen' <=> IsOpen
    BY <1>1 DEF SameWire, IsOpen
  <2>2. session'.access = s.access
    BY <1>1 DEF Same
  <2>3. ~Merging'
    BY <1>3, <2>1, <2>2 DEF Merging, Editing
  <2>4. Editing' => page'.label # "synced"
    BY <1>1, <1>3, <2>2 DEF Editing
  <2>. QED  BY <1>1, <1>3, <2>3, <2>4 DEF Quiet
<1>. QED  BY <1>2, <1>3

LEMMA OpenQuiet == ASSUME Base, Open PROVE Quiet
<1>. DEFINE a == [type |-> "JOIN_ACCEPTED", epoch |-> server.epoch,
                  access |-> IF server.frozen THEN "read_only" ELSE "read_write"]
            U == server.durable[server.epoch] \cup UNION {b.ups : b \in server.unsaved}
            second == [type |-> "INITIAL_STATE", ups |-> U]
<1>1. session' = [session EXCEPT !.connected = TRUE] /\ session \in Session /\ UNCHANGED <<flushes, server>>
  BY DEF Open, Base, Typed, SoundSession
<1>2. session'.initial = session.initial /\ session'.seq = session.seq
  BY <1>1 DEF Session
<1>3. wire.pc = "connecting" /\ wire \in Wire
  BY DEF Open, Base, Typed
<1>4. wire' = [wire EXCEPT !.pc = "open", !.epoch = server.epoch, !.down = <<a, second>>]
  BY DEF Open
<1>5. a.type = "JOIN_ACCEPTED" /\ second.type = "INITIAL_STATE"
  OBVIOUS
<1>. HIDE DEF a, second
<1>6. /\ wire'.pc = "open" /\ wire'.up = wire.up /\ wire'.count = wire.count /\ wire'.down = <<a, second>>
  BY <1>3, <1>4 DEF Wire
<1>7. \A i \in 1 .. Len(wire'.down) : wire'.down[i].type \in {"JOIN_ACCEPTED", "INITIAL_STATE"}
  <2>1. /\ Len(<<a, second>>) = 2 /\ <<a, second>>[1] = a /\ <<a, second>>[2] = second
        /\ \A i \in 1 .. 2 : i = 1 \/ i = 2
    OBVIOUS
  <2>. QED  BY <1>5, <1>6, <2>1
<1>8. AckedIn(wire'.down) = {} /\ ~Says(wire'.down, "FLUSHED")
  BY <1>7 DEF AckedIn, Says
<1>9. session.initial = None
  BY <1>3 DEF Base, Linked
<1>10. page'.label # "synced"
  BY LabelTyped DEF Open, Base, Typed, Labels
<1>. QED  BY <1>1, <1>2, <1>3, <1>6, <1>8, <1>9, <1>10 DEF Quiet, Behindhand, SameCalls, Merging

LEMMA JoinQuiet == ASSUME Base, JoinAccepted, ~PreserveOldEpoch PROVE Quiet
<1>1. /\ session'.initial = None /\ session'.seq = session.seq /\ wire' = [wire EXCEPT !.down = Tail(wire.down)]
      /\ page.label # "synced" /\ IsOpen /\ wire.down # <<>> /\ UNCHANGED <<page, flushes, server>>
  BY JoinIs
<1>2. /\ wire'.pc = wire.pc /\ wire'.count = wire.count /\ wire'.epoch = wire.epoch
      /\ wire'.up = wire.up /\ wire'.down = Tail(wire.down)
  BY <1>1 DEF Base, Typed, Wire
<1>3. Behindhand
  BY <1>1, <1>2, ReadBehind DEF Base
<1>. QED  BY <1>1, <1>2, <1>3 DEF Quiet, SameCalls, SameWire, Merging

LEMMA InitialSends == ASSUME Base, InitialState PROVE Quiet \/ Sends
<1>1. /\ IsOpen /\ wire.down # <<>> /\ session.epoch # 0 /\ ~session.destroyed /\ UNCHANGED <<flushes, server>>
  BY InitialIs
<1>2. PICK s \in SoundSession :
        /\ s.epoch = session.epoch /\ s.metadata /\ s.initial # None /\ s.doc = session.doc
        /\ s.loading = session.loading /\ s.mounted = session.mounted /\ s.destroyed = session.destroyed
        /\ s.seq = session.seq /\ s.pending = session.pending
        /\ \/ /\ session' = s \/ (s.doc = None /\ Ready(s) /\ session' = [s EXCEPT !.loading = TRUE, !.doc = {}])
              /\ Ready(s) => s.doc = None
              /\ wire' = [wire EXCEPT !.down = Tail(wire.down)] /\ UNCHANGED <<idb, page>>
           \/ /\ Ready(s) /\ s.doc # None /\ s.doc \cup s.initial \in SUBSET All
              /\ Announced(s, s.doc \cup s.initial, Tail(wire.down))
  BY InitialIs
<1>3. CASE /\ session' = s \/ (s.doc = None /\ Ready(s) /\ session' = [s EXCEPT !.loading = TRUE, !.doc = {}])
           /\ Ready(s) => s.doc = None
           /\ wire' = [wire EXCEPT !.down = Tail(wire.down)] /\ UNCHANGED <<idb, page>>
  <2>1. /\ wire'.pc = wire.pc /\ wire'.count = wire.count /\ wire'.epoch = wire.epoch
        /\ wire'.up = wire.up /\ wire'.down = Tail(wire.down)
    BY <1>3 DEF Base, Typed, Wire
  <2>2. Behindhand
    BY <1>1, <2>1, ReadBehind DEF Base
  <2>3. ~s.mounted
    BY <1>1, <1>2, <1>3 DEF SoundSession, Shape, Ready
  <2>4. ~session'.mounted /\ session'.seq = session.seq
    <3>1. CASE session' = s
      BY <1>2, <2>3, <3>1
    <3>2. CASE s.doc = None /\ Ready(s) /\ session' = [s EXCEPT !.loading = TRUE, !.doc = {}]
      <4>1. Same(session', s) /\ session'.seq = s.seq
        BY <3>2, LoadingTyped
      <4>. QED  BY <1>2, <2>3, <4>1 DEF Same
    <3>. QED  BY <1>3, <3>1, <3>2
  <2>. QED  BY <1>1, <2>1, <2>2, <2>4 DEF Quiet, SameCalls, SameWire, Merging, Editing
<1>4. CASE /\ Ready(s) /\ s.doc # None /\ s.doc \cup s.initial \in SUBSET All
           /\ Announced(s, s.doc \cup s.initial, Tail(wire.down))
  <2>1. PICK doc \in SUBSET All : doc = s.doc \cup s.initial
    BY <1>4
  <2>2. Tail(wire.down) \in Seq(Message) /\ s.epoch # 0 /\ Announced(s, doc, Tail(wire.down))
    BY <1>1, <1>2, <1>4, <2>1, ReadTyped DEF Base
  <2>3. wire'.count = wire.count /\ wire'.down = Tail(wire.down)
    BY <2>2, AnnouncedIs DEF Base
  <2>4. Behindhand /\ SameCalls
    BY <1>1, <2>3, ReadBehind DEF Base, SameCalls
  <2>. QED  BY <1>2, <2>2, <2>4, AnnouncedSends
<1>. QED  BY <1>2, <1>3, <1>4

LEMMA LoadedSends == ASSUME Base, Loaded PROVE Quiet \/ Sends
<1>1. ~session.mounted /\ ~session.destroyed /\ session.epoch \in Epochs /\ UNCHANGED <<flushes, server>>
  BY LoadedIs DEF Base
<1>2. CASE /\ session.initial = None /\ Same(session', session) /\ session'.seq = session.seq /\ UNCHANGED <<wire, page>>
  BY <1>1, <1>2 DEF Quiet, Behindhand, SameCalls, SameWire, Merging, Editing, Same
<1>3. CASE session.initial # None
  <2>1. PICK s \in SoundSession, doc \in SUBSET All :
          s.epoch = session.epoch /\ s.seq = session.seq /\ s.pending = session.pending /\ Announced(s, doc, wire.down)
    BY <1>3, LoadedIs DEF Base
  <2>2. s.epoch # 0 /\ wire.down \in Seq(Message)
    BY <1>1, <2>1 DEF Epochs, Base, Typed, Wire
  <2>3. wire'.count = wire.count /\ wire'.down = wire.down
    BY <2>1, <2>2, AnnouncedIs DEF Base
  <2>4. Behindhand /\ SameCalls
    BY <1>1, <2>3 DEF Behindhand, SameCalls
  <2>. QED  BY <2>1, <2>2, <2>4, AnnouncedSends
<1>. QED  BY <1>2, <1>3, LoadedIs DEF Base

LEMMA TypeSends == ASSUME Base, NEW u \in Edits, Type(u) PROVE Quiet \/ Sends
<1>1. /\ Same(session', session) /\ session.epoch \in Epochs /\ page'.label # "synced"
      /\ idb' = [idb EXCEPT ![session.epoch] = idb[session.epoch] \cup {u}]
      /\ \/ /\ session.connected /\ session.access = "read_write" /\ IsOpen
            /\ session'.seq = session.seq + 1 /\ session'.pending = session.pending \cup {session.seq + 1}
            /\ \E x \in Frame : /\ x.type = "SOURCE_UPDATE" /\ x.seq = session.seq + 1 /\ x.ups = {u}
                                /\ wire' = [wire EXCEPT !.up = Append(wire.up, x)]
         \/ /\ ~(session.connected /\ session.access = "read_write" /\ IsOpen)
            /\ session'.seq = session.seq /\ session'.pending = session.pending /\ wire' = wire
  BY TypeIs DEF Base
<1>2. UNCHANGED <<flushes, server>>
  BY DEF Type
<1>3. CASE /\ IsOpen /\ session'.seq = session.seq + 1 /\ session'.pending = session.pending \cup {session.seq + 1}
           /\ \E x \in Frame : /\ x.type = "SOURCE_UPDATE" /\ x.seq = session.seq + 1 /\ x.ups = {u}
                               /\ wire' = [wire EXCEPT !.up = Append(wire.up, x)]
  <2>1. PICK x \in Frame : /\ x.type = "SOURCE_UPDATE" /\ x.seq = session.seq + 1 /\ x.ups = {u}
                           /\ wire' = [wire EXCEPT !.up = Append(wire.up, x)]
    BY <1>3
  <2>2. /\ wire'.pc = wire.pc /\ wire'.count = wire.count /\ wire'.epoch = wire.epoch
        /\ wire'.up = Append(wire.up, x) /\ wire'.down = wire.down
    BY <2>1 DEF Base, Typed, Wire
  <2>3. Merging' => Merging
    BY <1>1, <2>2 DEF Merging, Editing, Same, IsOpen
  <2>4. idb'[session.epoch] = idb[session.epoch] \cup x.ups /\ session'.epoch = session.epoch
    BY <1>1, <2>1 DEF Base, Typed, Same
  <2>. QED  BY <1>1, <1>2, <1>3, <2>1, <2>2, <2>3, <2>4 DEF Sends, Behindhand, SameCalls, SameWire
<1>4. CASE /\ ~(session.connected /\ session.access = "read_write" /\ IsOpen)
           /\ session'.seq = session.seq /\ wire' = wire
  <2>1. IsOpen => session.connected
    BY DEF Base, Linked
  <2>2. ~Merging'
    BY <1>1, <1>4, <2>1 DEF Merging, Editing, Same, IsOpen
  <2>. QED  BY <1>1, <1>2, <1>4, <2>2 DEF Quiet, Behindhand, SameCalls, SameWire
<1>. QED  BY <1>1, <1>3, <1>4

LEMMA NoticeReads ==
    ASSUME Base, DurableAck \/ RemoteDurable \/ Flushed \/ Error \/ RemoteSourceUpdate
    PROVE  Reads
<1>1. /\ IsOpen /\ wire.down # <<>> /\ Read /\ server' = server
      /\ Head(wire.down).type \notin {"JOIN_ACCEPTED", "INITIAL_STATE"}
  BY DEF DurableAck, RemoteDurable, Flushed, Error, RemoteSourceUpdate, Got
<1>2. /\ wire'.pc = wire.pc /\ wire'.count = wire.count /\ wire'.epoch = wire.epoch /\ wire'.down = Tail(wire.down)
      /\ wire'.up = wire.up
  BY <1>1 DEF Read, Base, Typed, Wire
<1>3. Behindhand
  BY <1>1, <1>2, ReadBehind DEF Base
<1>4. session.initial # None /\ session \in Session /\ session \in SoundSession /\ page \in Page
  BY <1>1, RestOfHandshake DEF Base, Typed, SoundSession
<1>5. Head(wire.down) \in Message /\ Says(wire.down, Head(wire.down).type)
      /\ (Head(wire.down).type = "DURABLE_ACK" => Head(wire.down).seq \in AckedIn(wire.down))
  BY <1>1, MessagesRead DEF Base, Typed, Wire
<1>6. SameCalls \/ (Says(wire.down, "FLUSHED") /\ flushes' = Settled("resolved"))
  <2>1. CASE Flushed
    BY <1>5, <2>1 DEF Flushed, Got
  <2>. QED  BY <2>1 DEF DurableAck, RemoteDurable, Error, RemoteSourceUpdate, SameCalls
<1>7. /\ Same(session', session) /\ session'.seq = session.seq
      /\ \A n \in session.pending : n \in session'.pending \/ n \in AckedIn(wire.down)
      /\ Mine(idb'[session.epoch]) = Mine(idb[session.epoch])
      /\ page'.label = "synced" => page.label = "synced" \/ session'.pending = {}
  <2>1. CASE DurableAck
    <3>1. PICK P \in SUBSET Nat : P = session.pending \ {Head(wire.down).seq}
      BY <1>4 DEF Session
    <3>2. session' = [session EXCEPT !.pending = P] /\ page' = Stored(P) /\ idb' = idb
      BY <2>1, <3>1 DEF DurableAck
    <3>3. Same(session', session) /\ session'.seq = session.seq /\ session'.pending = P
      BY <1>4, <3>2 DEF Session, Same
    <3>4. Head(wire.down).seq \in AckedIn(wire.down)
      BY <1>5, <2>1 DEF DurableAck, Got
    <3>5. page'.label = "synced" => page.label = "synced" \/ P = {}
      BY <1>4, <3>2, StoredTyped
    <3>. QED  BY <3>1, <3>2, <3>3, <3>4, <3>5
  <2>2. CASE RemoteDurable \/ Flushed
    <3>1. session' = session /\ page' = Stored(session.pending) /\ idb' = idb
      BY <2>2 DEF RemoteDurable, Flushed
    <3>. QED  BY <1>4, <3>1, StoredTyped DEF Same
  <2>3. CASE Error
    <3>1. session' = session /\ idb' = idb /\ page'.label = "conflict"
      BY <1>4, <2>3 DEF Error, Page
    <3>. QED  BY <3>1 DEF Same
  <2>4. CASE RemoteSourceUpdate
    <3>1. Head(wire.down).type = "REMOTE_SOURCE_UPDATE"
      BY <2>4 DEF RemoteSourceUpdate, Got
    <3>2. PICK U \in SUBSET Others : U = Head(wire.down).ups
      BY <1>5, <3>1, MessageFields
    <3>3. page'.label # "synced"
      BY <1>4, <2>4, LabelTyped DEF RemoteSourceUpdate, Labels
    <3>4. CASE session.doc = None
      <4>1. session' = [session EXCEPT !.buffered = session.buffered \cup U] /\ idb' = idb
        BY <2>4, <3>2, <3>4 DEF RemoteSourceUpdate
      <4>2. Same(session', session) /\ session'.seq = session.seq /\ session'.pending = session.pending
        BY <1>4, <4>1 DEF Session, Same
      <4>. QED  BY <3>3, <4>1, <4>2
    <3>5. CASE session.doc # None
      <4>1. /\ session' = [session EXCEPT !.doc = session.doc \cup U]
            /\ idb' = [idb EXCEPT ![session.epoch] = idb[session.epoch] \cup U]
        BY <2>4, <3>2, <3>5 DEF RemoteSourceUpdate
      <4>2. Same(session', session) /\ session'.seq = session.seq /\ session'.pending = session.pending
        BY <1>4, <4>1 DEF Session, Same
      <4>3. session.epoch \in Epochs
        BY <1>4, <3>5 DEF SoundSession, Shape, Session, Epochs
      <4>4. idb'[session.epoch] = idb[session.epoch] \cup U
        BY <4>1, <4>3 DEF Base, Typed
      <4>5. Mine(idb'[session.epoch]) = Mine(idb[session.epoch])
        BY <4>4, SessionAssumption DEF Mine
      <4>. QED  BY <3>3, <4>2, <4>5
    <3>. QED  BY <3>4, <3>5
  <2>. QED  BY <2>1, <2>2, <2>3, <2>4
<1>. QED  BY <1>1, <1>2, <1>3, <1>4, <1>6, <1>7 DEF Reads, SameWire

\* The steps of the page but for the calls of flush
PageMoves == Off \/ Quiet \/ Sends \/ Reads

LEMMA PageMovesOnly ==
    ASSUME Base, Connect \/ Open \/ Close \/ Receive \/ Loaded \/ Reopen \/ \E u \in Edits : Type(u)
    PROVE  PageMoves
<1>1. CASE JoinAccepted
  <2>1. CASE PreserveOldEpoch
    BY <1>1, <2>1, OffIs DEF JoinAccepted, PageMoves
  <2>. QED  BY <1>1, <2>1, JoinQuiet DEF PageMoves
<1>2. CASE PaperEpochChanged
  BY <1>2, OffIs DEF PaperEpochChanged, PageMoves
<1>3. CASE Receive
  BY <1>1, <1>2, <1>3, InitialSends, NoticeReads, OffIs DEF Receive, PageMoves
<1>. QED  BY <1>3, OffIs, OpenQuiet, LoadedSends, TypeSends DEF PageMoves

\* flush, and its timeout
Asks(f) ==
    /\ UNCHANGED <<session, idb, server>> /\ (page' = page \/ page'.label # "synced")
    /\ wire'.count = wire.count /\ wire'.pc = wire.pc /\ wire'.epoch = wire.epoch /\ wire'.down = wire.down
    /\ \A g \in Flushes : g # f => flushes'[g] = flushes[g]
    /\ \/ flushes'[f].state = "rejected" /\ wire'.up = wire.up
       \/ /\ IsOpen /\ Editing /\ wire'.up = Append(wire.up, [type |-> "FLUSH"])
          /\ flushes'[f].state = "waiting" /\ flushes'[f].listed
          /\ flushes'[f].covers = session.doc /\ flushes'[f].epoch = session.epoch
          /\ flushes'[f].alone => NoFlushUnderWay /\ session.initial # None

LEMMA FlushAsks == ASSUME Base, NEW f \in Flushes, Flush(f) \/ FlushTimeout(f) PROVE Asks(f)
<1>1. CASE Flush(f)
  <2>1. UNCHANGED <<session, idb, server>> /\ Editing
    BY <1>1 DEF Flush, Editing
  <2>2. /\ \A g \in Flushes : g # f => flushes'[g] = flushes[g]
        /\ flushes'[f].covers = session.doc /\ flushes'[f].epoch = session.epoch
        /\ page'.label # "synced"
        /\ \/ flushes'[f].state = "rejected" /\ wire' = wire
           \/ /\ IsOpen /\ flushes'[f].state = "waiting" /\ flushes'[f].listed
              /\ flushes'[f].alone => NoFlushUnderWay /\ session.initial # None
              /\ wire' = [wire EXCEPT !.up = Append(wire.up, [type |-> "FLUSH"])]
    BY <1>1, FlushIs DEF Base
  <2>3. CASE wire' = wire
    BY <2>1, <2>2, <2>3 DEF Asks, Base, Typed, Wire
  <2>4. CASE wire' = [wire EXCEPT !.up = Append(wire.up, [type |-> "FLUSH"])]
    <3>1. /\ wire'.pc = wire.pc /\ wire'.count = wire.count /\ wire'.epoch = wire.epoch /\ wire'.down = wire.down
          /\ wire'.up = Append(wire.up, [type |-> "FLUSH"])
      BY <2>4 DEF Base, Typed, Wire
    <3>. QED  BY <2>1, <2>2, <3>1 DEF Asks
  <2>. QED  BY <2>2, <2>3, <2>4
<1>2. CASE FlushTimeout(f)
  <2>1. flushes' = [flushes EXCEPT ![f].state = "rejected"] /\ UNCHANGED <<session, page, idb, wire, server, made>>
    BY <1>2 DEF FlushTimeout
  <2>2. flushes'[f].state = "rejected" /\ \A g \in Flushes : g # f => flushes'[g] = flushes[g]
    <3>1. flushes[f] \in Call /\ flushes \in [Flushes -> Call]
      BY DEF Base, Typed
    <3>. QED  BY <2>1, <3>1 DEF Call
  <2>. QED  BY <2>1, <2>2 DEF Asks
<1>. QED  BY <1>1, <1>2

LEMMA NextMoves ==
    ASSUME Base, [Next]_vars
    PROVE  \/ PageMoves \/ (\E f \in Flushes : Asks(f)) \/ UNCHANGED vars
           \/ ServerMoves /\ UNCHANGED <<session, page, flushes, idb>>
<1>1. CASE ServerStep
  BY <1>1, ServerMovesOnly DEF Base
<1>2. CASE Writer
  BY <1>2, PageMovesOnly, FlushAsks DEF Writer
<1>. QED  BY <1>1, <1>2, PageMovesOnly DEF Next

-----------------------------------------------------------------------------
(* The numbers, again: an invariant *)

LEMMA InitNumbers == Init => Numbers
<1>. SUFFICES ASSUME Init PROVE wire.pc = "none"
  BY DEF Numbers, IsOpen
<1>. QED  BY DEF Init

LEMMA NextNumbers == ASSUME Base, Numbers, [Next]_vars PROVE Numbers'
<1>0. wire.up \in Seq(Frame)
  BY DEF Base, Typed, Wire
<1>1. CASE Off
  BY <1>1 DEF Off, Numbers, IsOpen
<1>2. CASE Quiet
  <2>1. CASE SameWire
    BY <1>2, <2>1, NumbersStay DEF Quiet, Behindhand, SameWire
  <2>2. CASE wire.pc = "connecting" /\ wire'.pc = "open"
    <3>1. /\ wire.up = <<>> /\ wire.down = <<>> /\ wire'.up = wire.up
          /\ \A b \in server'.unsaved : b.from # wire'.count
      BY <1>2, <2>2 DEF Base, Linked, IsOpen, Quiet, Behindhand
    <3>2. \A i \in 1 .. 0 : FALSE
      OBVIOUS
    <3>3. AckedIn(<<>>) = {} /\ Updates(<<>>) = {} /\ Growing(<<>>)
      BY <3>2 DEF AckedIn, Updates, Growing
    <3>4. AckedIn(wire'.down) = {} /\ OfWire' = {}
      BY <1>2, <3>1, <3>3 DEF Quiet, Behindhand, OfWire
    <3>. QED  BY <3>1, <3>3, <3>4 DEF Numbers
  <2>. QED  BY <1>2, <2>1, <2>2 DEF Quiet
<1>3. CASE Sends
  BY <1>3, NumbersSent DEF Sends, Behindhand, SameWire
<1>4. CASE Reads
  BY <1>4, NumbersStay DEF Reads, Behindhand, SameWire
<1>5. ASSUME NEW f \in Flushes, Asks(f) PROVE Numbers'
  <2>1. CASE wire'.up = wire.up
    BY <1>5, <2>1, NumbersStay DEF Asks
  <2>2. CASE wire'.up = Append(wire.up, [type |-> "FLUSH"])
    <3>1. PICK x \in Frame : x = [type |-> "FLUSH"]
      BY FrameTypes
    <3>2. Updates(Append(wire.up, x)) = Updates(wire.up) /\ (Growing(wire.up) => Growing(Append(wire.up, x)))
      BY <1>0, <3>1, UpdatesAppended
    <3>. QED  BY <1>5, <2>2, <3>1, <3>2, NumbersStay DEF Asks
  <2>. QED  BY <1>5, <2>1, <2>2 DEF Asks
<1>6. CASE UNCHANGED vars
  BY <1>6 DEF vars, Numbers, IsOpen, OfWire
<1>7. CASE ServerMoves /\ UNCHANGED <<session, page, flushes, idb>>
  BY <1>7, NumbersServer
<1>. QED  BY <1>1, <1>2, <1>3, <1>4, <1>5, <1>6, <1>7, NextMoves DEF PageMoves

-----------------------------------------------------------------------------
(* Every unsaved edit waits for an acknowledgement *)

\* The edit u is under way with the number n, or taken in and not stored.
Carried(n, u) ==
    \/ \E f \in Updates(wire.up) : f.seq = n /\ u \in f.ups
    \/ \E b \in OfWire : b.seq = n /\ u \in b.ups

Covered(u) ==
    \E n \in session.pending : n \notin AckedIn(wire.down) /\ (wire.pc = "open" => Carried(n, u))

Cover == Merging => \A u \in Unsaved(session.epoch) : Covered(u)

\* What goes on being carried, when nothing is taken in
LEMMA CarriedOn ==
    ASSUME NEW n, NEW u, wire'.count = wire.count, server' = server, Updates(wire.up) \subseteq Updates(wire'.up)
    PROVE  Carried(n, u) => Carried(n, u)'
<1>1. OfWire' = OfWire
  BY DEF OfWire
<1>. QED  BY <1>1 DEF Carried

LEMMA CoverPage == ASSUME Base, Numbers, Cover, PageMoves PROVE Cover'
<1>0. /\ session.seq \in Nat /\ wire.up \in Seq(Frame) /\ \A n \in AckedIn(wire.down) : n \in Nat
  BY NumbersTyped DEF Base
<1>1. CASE Off
  BY <1>1 DEF Off, Cover, Merging
<1>2. CASE Quiet
  BY <1>2 DEF Quiet, Cover
<1>3. CASE Sends
  <2>. SUFFICES ASSUME Merging', NEW u \in Unsaved(session.epoch)' PROVE Covered(u)'
    BY DEF Cover
  <2>1. PICK x \in Frame :
         /\ x.type = "SOURCE_UPDATE" /\ x.seq = session.seq + 1 /\ wire'.up = Append(wire.up, x)
         /\ \/ idb'[session'.epoch] \subseteq x.ups
            \/ /\ session'.epoch = session.epoch /\ (Merging' => Merging)
               /\ idb'[session.epoch] = idb[session.epoch] \cup x.ups
    BY <1>3 DEF Sends
  <2>2. Updates(wire'.up) = Updates(wire.up) \cup {x}
    BY <1>0, <2>1, UpdatesAppended
  <2>3. /\ u \in idb'[session'.epoch] /\ u \in Edits /\ u \notin server'.durable[session'.epoch]
        /\ server' = server /\ wire'.count = wire.count /\ wire'.pc = wire.pc
        /\ AckedIn(wire'.down) \subseteq AckedIn(wire.down)
        /\ session'.pending = session.pending \cup {session.seq + 1}
    BY <1>3 DEF Unsaved, Mine, Sends, Behindhand, SameWire
  <2>4. CASE u \in x.ups
    <3>1. PICK k \in Nat : k = session.seq + 1
      BY <1>0
    <3>2. k \notin AckedIn(wire.down)
      BY <1>0, <1>3, <3>1 DEF Numbers, Sends
    <3>3. Carried(k, u)'
      BY <2>1, <2>2, <2>4, <3>1 DEF Carried
    <3>4. k \in session'.pending /\ k \notin AckedIn(wire'.down)
      BY <2>3, <3>1, <3>2
    <3>. QED  BY <3>3, <3>4 DEF Covered
  <2>5. CASE u \notin x.ups
    <3>1. Merging /\ u \in Unsaved(session.epoch)
      BY <2>1, <2>3, <2>5 DEF Unsaved, Mine
    <3>2. PICK n \in session.pending : n \notin AckedIn(wire.down) /\ (wire.pc = "open" => Carried(n, u))
      BY <3>1 DEF Cover, Covered
    <3>3. Carried(n, u) => Carried(n, u)'
      BY <2>2, <2>3, CarriedOn
    <3>. QED  BY <2>3, <3>2, <3>3 DEF Covered
  <2>. QED  BY <2>4, <2>5
<1>4. CASE Reads
  <2>. SUFFICES ASSUME Merging', NEW u \in Unsaved(session.epoch)' PROVE Covered(u)'
    BY DEF Cover
  <2>1. /\ Same(session', session) /\ server' = server /\ wire'.count = wire.count /\ wire'.pc = wire.pc
        /\ AckedIn(wire'.down) \subseteq AckedIn(wire.down) /\ wire'.up = wire.up
        /\ \A n \in session.pending : n \in session'.pending \/ n \in AckedIn(wire.down)
        /\ Mine(idb'[session.epoch]) = Mine(idb[session.epoch])
    BY <1>4 DEF Reads, Behindhand, SameWire
  <2>2. Merging /\ u \in Unsaved(session.epoch)
    BY <2>1 DEF Merging, Editing, IsOpen, Unsaved, Same
  <2>3. PICK n \in session.pending : n \notin AckedIn(wire.down) /\ (wire.pc = "open" => Carried(n, u))
    BY <2>2 DEF Cover, Covered
  <2>4. Carried(n, u) => Carried(n, u)'
    BY <2>1, CarriedOn
  <2>. QED  BY <2>1, <2>3, <2>4 DEF Covered
<1>. QED  BY <1>1, <1>2, <1>3, <1>4 DEF PageMoves

LEMMA CoverAsks == ASSUME Base, Cover, NEW f \in Flushes, Asks(f) PROVE Cover'
<1>1. /\ UNCHANGED <<session, idb, server>>
      /\ wire'.count = wire.count /\ wire'.pc = wire.pc /\ wire'.down = wire.down
  BY DEF Asks
<1>2. Updates(wire.up) \subseteq Updates(wire'.up)
  <2>1. PICK x \in Frame : x = [type |-> "FLUSH"]
    BY FrameTypes
  <2>2. wire'.up = wire.up \/ wire'.up = Append(wire.up, x)
    BY <2>1 DEF Asks
  <2>3. wire.up \in Seq(Frame)
    BY DEF Base, Typed, Wire
  <2>4. Updates(wire.up) \subseteq Updates(Append(wire.up, x))
    BY <2>3, UpdatesAppended
  <2>. QED  BY <2>2, <2>4
<1>3. \A n, u : Carried(n, u) => Carried(n, u)'
  BY <1>1, <1>2, CarriedOn
<1>4. \A u : Covered(u) => Covered(u)'
  BY <1>1, <1>3 DEF Covered
<1>5. Unsaved(session.epoch)' = Unsaved(session.epoch) /\ (Merging' => Merging)
  BY <1>1 DEF Unsaved, Merging, Editing, IsOpen
<1>. QED  BY <1>4, <1>5 DEF Cover

\* The server stores more and more.
LEMMA DurableGrows ==
    ASSUME Typed, ServerMoves, NEW e \in Epochs
    PROVE  server.durable[e] \subseteq server'.durable[e]
<1>1. server \in Server
  BY DEF Typed
<1>2. CASE server' = server
  BY <1>2
<1>3. CASE Stores
  BY <1>3, KeptIs DEF Stores
<1>4. CASE Accepts \/ Hears
  <2>1. PICK b : server' = [server EXCEPT !.unsaved = server.unsaved \cup {b}]
    BY <1>4 DEF Accepts, Hears
  <2>. QED  BY <1>1, <2>1 DEF Server
<1>5. CASE HangsUp
  <2>1. CASE server' = [server EXCEPT !.frozen = TRUE]
    BY <1>1, <2>1 DEF Server
  <2>2. CASE server' = [Kept(server) EXCEPT !.epoch = server.epoch + 1]
    BY <2>2, KeptIs DEF Server
  <2>. QED  BY <1>2, <1>5, <2>1, <2>2 DEF HangsUp
<1>. QED  BY <1>2, <1>3, <1>4, <1>5 DEF ServerMoves, Answers

LEMMA CoverServer ==
    ASSUME Base, Numbers, Cover, ServerMoves, UNCHANGED <<session, page, flushes, idb>>
    PROVE  Cover'
<1>. SUFFICES ASSUME Merging', NEW u \in Unsaved(session.epoch)' PROVE Covered(u)'
  BY DEF Cover
<1>1. /\ wire'.count = wire.count
      /\ wire'.pc = wire.pc \/ (wire.pc = "open" /\ wire'.pc = "hungup")
  BY ServerTells DEF Base
<1>2. session.epoch \in Epochs /\ session.epoch = wire.epoch /\ (wire.pc = "open" => wire.epoch = server.epoch)
  <2>1. IsOpen /\ session.initial # None /\ session.mounted /\ ~session.destroyed
    BY <1>1 DEF Merging, Editing, IsOpen
  <2>2. session.metadata /\ session.epoch = wire.epoch
    BY <2>1 DEF Base, Greeted
  <2>3. session.epoch # 0 /\ session.epoch \in 0 .. MaxEpoch
    BY <2>2 DEF Base, Typed, SoundSession, Shape, Session
  <2>. QED  BY <2>2, <2>3 DEF Base, Linked, Epochs
<1>3. Merging /\ u \in Unsaved(session.epoch) /\ u \notin server'.durable[session.epoch]
  <2>1. server.durable[session.epoch] \subseteq server'.durable[session.epoch]
    BY <1>2, DurableGrows DEF Base
  <2>. QED  BY <1>1, <2>1 DEF Merging, Editing, IsOpen, Unsaved
<1>4. PICK n \in session.pending : n \notin AckedIn(wire.down) /\ (wire.pc = "open" => Carried(n, u))
  BY <1>3 DEF Cover, Covered
<1>5. ~Stores \/ wire.pc # "open" \/ \E f \in Updates(wire.up) : f.seq = n /\ u \in f.ups
  <2>. SUFFICES ASSUME Stores, wire.pc = "open", NEW b \in OfWire, b.seq = n, u \in b.ups PROVE FALSE
    BY <1>4 DEF Carried
  <2>1. u \in Kept(server).durable[server.epoch]
    BY KeptIs DEF Base, OfWire
  <2>. QED  BY <1>2, <1>3, <2>1 DEF Stores
<1>6. n \notin AckedIn(wire'.down)
  <2>1. CASE AckedIn(wire'.down) = AckedIn(wire.down)
    BY <1>4, <2>1
  <2>2. CASE /\ Stores /\ wire.pc = "open"
             /\ AckedIn(wire'.down) \subseteq AckedIn(wire.down) \cup AcksOf(wire, server)
    <3>1. PICK f \in Updates(wire.up) : f.seq = n
      BY <1>5, <2>2
    <3>2. \A b \in OfWire : b.seq < n /\ b.seq \in Nat /\ n \in Nat
      BY <2>2, <3>1, NumbersTyped DEF Numbers, Base
    <3>3. n \notin AcksOf(wire, server)
      BY <3>2 DEF AcksOf, OfWire
    <3>. QED  BY <1>4, <2>2, <3>3
  <2>. QED  BY <2>1, <2>2, AcksTold DEF Base
<1>7. wire'.pc = "open" => Carried(n, u)'
  <2>. SUFFICES ASSUME wire'.pc = "open" PROVE Carried(n, u)'
    OBVIOUS
  <2>1. /\ wire.pc = "open" /\ (~Accepts => Updates(wire'.up) = Updates(wire.up))
        /\ Accepts => Updates(wire.up) = Updates(wire'.up) \cup {Head(wire.up)}
    BY FramesTaken DEF Base
  <2>2. CASE Stores
    <3>1. ~Accepts
      BY <2>2 DEF Stores, Accepts, Takes, Told, Base, Typed, Wire, SameSocket
    <3>. QED  BY <1>5, <2>1, <2>2, <3>1 DEF Carried
  <2>3. CASE Accepts
    <3>1. PICK b : /\ b = [seq |-> Head(wire.up).seq, ups |-> Head(wire.up).ups, from |-> wire.count]
                   /\ server' = [server EXCEPT !.unsaved = server.unsaved \cup {b}]
      BY <2>3 DEF Accepts
    <3>2. /\ b.seq = Head(wire.up).seq /\ b.ups = Head(wire.up).ups /\ b.from = wire.count
          /\ server'.unsaved = server.unsaved \cup {b}
      BY <3>1 DEF Base, Typed, Server
    <3>3. OfWire' = OfWire \cup {b}
      BY <1>1, <3>2 DEF OfWire
    <3>. QED  BY <1>4, <2>1, <2>3, <3>2, <3>3 DEF Carried
  <2>4. CASE ~Stores /\ ~Accepts
    <3>1. server.unsaved \subseteq server'.unsaved
      <4>1. CASE Hears
        <5>1. PICK b : server' = [server EXCEPT !.unsaved = server.unsaved \cup {b}]
          BY <4>1 DEF Hears
        <5>. QED  BY <5>1 DEF Base, Typed, Server
      <4>2. ~HangsUp
        BY <2>1 DEF HangsUp
      <4>. QED  BY <2>4, <4>1, <4>2 DEF ServerMoves, Answers
    <3>2. OfWire \subseteq OfWire'
      BY <1>1, <3>1 DEF OfWire
    <3>. QED  BY <1>4, <2>1, <2>4, <3>2 DEF Carried
  <2>. QED  BY <2>2, <2>3, <2>4
<1>. QED  BY <1>4, <1>6, <1>7 DEF Covered

LEMMA InitCover == Init => Cover
BY DEF Init, Constructed, Cover, Merging, Editing

LEMMA NextCover == ASSUME Base, Numbers, Cover, [Next]_vars PROVE Cover'
<1>1. CASE UNCHANGED vars
  BY <1>1 DEF vars, Cover, Covered, Carried, OfWire, Unsaved, Merging, Editing, IsOpen
<1>. QED  BY <1>1, NextMoves, CoverPage, CoverAsks, CoverServer

-----------------------------------------------------------------------------
(* "Saved" *)

\* SavedIsDurable, in the words of this module
LEMMA SavedSays ==
    SavedIsDurable <=> (page.label = "synced" /\ Editing => Unsaved(session.epoch) = {})
BY DEF SavedIsDurable, Editing

LEMMA InitSaved == Init => SavedIsDurable
BY DEF Init, Constructed, SavedIsDurable

LEMMA NextSaved ==
    ASSUME Base, Base', Cover, Cover', SavedIsDurable, [Next]_vars
    PROVE  SavedIsDurable'
<1>. SUFFICES ASSUME page'.label = "synced", Editing' PROVE Unsaved(session.epoch)' = {}
  BY DEF SavedIsDurable, Editing
<1>1. CASE PageMoves
  <2>1. Reads
    BY <1>1 DEF PageMoves, Off, Quiet, Sends
  <2>2. /\ Same(session', session) /\ server' = server /\ SameWire /\ IsOpen /\ session.initial # None
        /\ Mine(idb'[session.epoch]) = Mine(idb[session.epoch])
        /\ page.label = "synced" \/ session'.pending = {}
    BY <2>1 DEF Reads, Behindhand
  <2>3. CASE page.label = "synced"
    <3>1. Editing
      BY <2>2 DEF Editing, Same
    <3>. QED  BY <2>2, <2>3, <3>1, SavedSays DEF Unsaved, Same
  <2>4. CASE session'.pending = {}
    <3>1. Merging'
      BY <2>2 DEF Merging, Same, SameWire, IsOpen
    <3>. QED  BY <2>4, <3>1 DEF Cover, Covered
  <2>. QED  BY <2>2, <2>3, <2>4
<1>2. ASSUME NEW f \in Flushes, Asks(f) PROVE Unsaved(session.epoch)' = {}
  BY <1>2, SavedSays DEF Asks, Unsaved, Editing
<1>3. CASE UNCHANGED vars
  BY <1>3, SavedSays DEF vars, Unsaved, Editing
<1>4. CASE ServerMoves /\ UNCHANGED <<session, page, flushes, idb>>
  <2>1. session.epoch \in Epochs
    BY <1>4 DEF Editing, Base, Typed, SoundSession, Shape, Session, Epochs
  <2>2. server.durable[session.epoch] \subseteq server'.durable[session.epoch]
    BY <1>4, <2>1, DurableGrows DEF Base
  <2>. QED  BY <1>4, <2>2, SavedSays DEF Unsaved, Editing
<1>. QED  BY <1>1, <1>2, <1>3, <1>4, NextMoves

-----------------------------------------------------------------------------
(* The calls of flush *)

\* No answer to a flush is under way before u is stored.
Ahead(u) ==
    /\ ~Says(wire.down, "FLUSHED")
    /\ wire.pc = "open" => Before(wire.up, u) \/ \E b \in server.unsaved : u \in b.ups

Awaited(f) ==
    /\ flushes[f].state = "waiting" => flushes[f].listed /\ IsOpen
    /\ flushes[f].state \in {"waiting", "resolved"} /\ flushes[f].alone => flushes[f].epoch \in Epochs
    /\ flushes[f].state = "waiting" /\ flushes[f].alone =>
          /\ flushes[f].epoch = wire.epoch
          /\ \A u \in Mine(flushes[f].covers) \ server.durable[flushes[f].epoch] : Ahead(u)

\* FlushCovers, for one call
Covers(f) ==
    flushes[f].state = "resolved" /\ flushes[f].alone =>
        Mine(flushes[f].covers) \subseteq server.durable[flushes[f].epoch]

Calls == \A f \in Flushes : Awaited(f) /\ Covers(f)

LEMMA CallsCover == Calls => FlushCovers
BY DEF Calls, Covers, FlushCovers

LEMMA InitCalls == Init => Calls
<1>. SUFFICES ASSUME Init, NEW f \in Flushes PROVE flushes[f].state = "none"
  BY DEF Calls, Awaited, Covers
<1>. QED  BY DEF Init, NoCall

\* A call that is as it was, with the same socket and nothing new on it
LEMMA AwaitedStill ==
    ASSUME NEW f \in Flushes, Awaited(f), Covers(f), flushes'[f] = flushes[f], server' = server, SameWire,
           Says(wire'.down, "FLUSHED") => Says(wire.down, "FLUSHED"),
           \A u : Before(wire.up, u) => Before(wire'.up, u)
    PROVE  Awaited(f)' /\ Covers(f)'
<1>1. \A u : Ahead(u) => Ahead(u)'
  BY DEF Ahead, SameWire
<1>. QED  BY <1>1 DEF Awaited, Covers, SameWire, IsOpen

LEMMA CallsPage == ASSUME Base, Calls, PageMoves, NEW f \in Flushes PROVE Awaited(f)' /\ Covers(f)'
<1>0. Awaited(f) /\ Covers(f) /\ flushes \in [Flushes -> Call] /\ wire.up \in Seq(Frame)
  BY DEF Calls, Base, Typed, Wire
<1>1. CASE Off
  <2>1. CASE ~IsOpen /\ SameCalls
    BY <1>0, <1>1, <2>1 DEF Off, SameCalls, Awaited, Covers
  <2>2. CASE flushes' = Settled("rejected")
    <3>1. /\ flushes'[f].epoch = flushes[f].epoch /\ flushes'[f].alone = flushes[f].alone
          /\ flushes'[f].covers = flushes[f].covers
          /\ flushes'[f].state = IF flushes[f].listed /\ flushes[f].state = "waiting"
                                 THEN "rejected" ELSE flushes[f].state
      BY <1>0, <2>2, SettledTyped
    <3>2. flushes'[f].state # "waiting" /\ (flushes'[f].state = "resolved" => flushes[f].state = "resolved")
      BY <1>0, <3>1 DEF Awaited
    <3>. QED  BY <1>0, <1>1, <3>1, <3>2 DEF Off, Awaited, Covers
  <2>. QED  BY <1>1, <2>1, <2>2 DEF Off
<1>2. CASE Quiet
  <2>1. CASE SameWire
    BY <1>0, <1>2, <2>1, AwaitedStill DEF Quiet, SameCalls, Behindhand
  <2>2. CASE wire.pc = "connecting"
    <3>1. flushes[f].state # "waiting"
      BY <1>0, <2>2 DEF Awaited, IsOpen
    <3>. QED  BY <1>0, <1>2, <3>1 DEF Quiet, SameCalls, Behindhand, Awaited, Covers
  <2>. QED  BY <1>2, <2>1, <2>2 DEF Quiet
<1>3. CASE Sends
  <2>1. PICK x \in Frame : wire'.up = Append(wire.up, x)
    BY <1>3 DEF Sends
  <2>2. \A u : Before(wire.up, u) => Before(wire'.up, u)
    BY <1>0, <2>1, UpdatesAppended
  <2>. QED  BY <1>0, <1>3, <2>2, AwaitedStill DEF Sends, SameCalls, Behindhand
<1>4. CASE Reads
  <2>1. CASE SameCalls
    BY <1>0, <1>4, <2>1, AwaitedStill DEF Reads, SameCalls, Behindhand
  <2>2. CASE Says(wire.down, "FLUSHED") /\ flushes' = Settled("resolved")
    <3>1. /\ flushes'[f].epoch = flushes[f].epoch /\ flushes'[f].alone = flushes[f].alone
          /\ flushes'[f].covers = flushes[f].covers
          /\ flushes'[f].state = IF flushes[f].listed /\ flushes[f].state = "waiting"
                                 THEN "resolved" ELSE flushes[f].state
      BY <1>0, <2>2, SettledTyped
    <3>2. /\ flushes'[f].state # "waiting"
          /\ flushes'[f].state = "resolved" => flushes[f].state \in {"waiting", "resolved"}
      BY <1>0, <3>1 DEF Awaited
    <3>3. flushes[f].state = "waiting" /\ flushes[f].alone =>
             Mine(flushes[f].covers) \subseteq server.durable[flushes[f].epoch]
      BY <1>0, <2>2 DEF Awaited, Ahead
    <3>4. server' = server
      BY <1>4 DEF Reads, Behindhand
    <3>. QED  BY <1>0, <3>1, <3>2, <3>3, <3>4 DEF Awaited, Covers
  <2>. QED  BY <1>4, <2>1, <2>2 DEF Reads
<1>. QED  BY <1>1, <1>2, <1>3, <1>4 DEF PageMoves

LEMMA CallsAsks ==
    ASSUME Base, Cover, Calls, NEW g \in Flushes, Asks(g), NEW f \in Flushes
    PROVE  Awaited(f)' /\ Covers(f)'
<1>0. Awaited(f) /\ Covers(f) /\ wire.up \in Seq(Frame) /\ wire.down \in Seq(Message)
  BY DEF Calls, Base, Typed, Wire
<1>1. UNCHANGED <<session, idb, server>> /\ SameWire /\ wire'.down = wire.down /\ wire'.count = wire.count
  BY DEF Asks, SameWire
<1>2. PICK x \in Frame : x = [type |-> "FLUSH"]
  BY FrameTypes
<1>3. /\ \A u : Before(wire.up, u) => Before(Append(wire.up, x), u)
      /\ \A u : ~Says(wire.up, "FLUSH") /\ (\E d \in Updates(wire.up) : u \in d.ups) => Before(Append(wire.up, x), u)
  BY <1>0, <1>2, UpdatesAppended
<1>4. CASE f # g
  <2>1. flushes'[f] = flushes[f] /\ (wire'.up = wire.up \/ wire'.up = Append(wire.up, x))
    BY <1>2, <1>4 DEF Asks
  <2>2. \A u : Before(wire.up, u) => Before(wire'.up, u)
    BY <1>3, <2>1
  <2>. QED  BY <1>0, <1>1, <2>1, <2>2, AwaitedStill
<1>5. CASE f = g /\ flushes'[f].state = "rejected"
  BY <1>5 DEF Awaited, Covers
<1>6. CASE f = g /\ flushes'[f].state # "rejected"
  <2>1. /\ IsOpen /\ Editing /\ wire'.up = Append(wire.up, x)
        /\ flushes'[f].state = "waiting" /\ flushes'[f].listed
        /\ flushes'[f].covers = session.doc /\ flushes'[f].epoch = session.epoch
        /\ flushes'[f].alone => NoFlushUnderWay /\ session.initial # None
    BY <1>2, <1>6 DEF Asks
  <2>2. ASSUME flushes'[f].alone
        PROVE  /\ session.epoch \in Epochs /\ session.epoch = wire.epoch
               /\ \A u \in Mine(session.doc) \ server.durable[session.epoch] : Ahead(u)'
    <3>1. session.initial # None /\ NoFlushUnderWay /\ Merging
      BY <2>1, <2>2 DEF Merging
    <3>2. session.metadata /\ session.epoch = wire.epoch
      BY <2>1, <3>1 DEF Base, Greeted
    <3>3. session.epoch \in Epochs
      BY <3>2 DEF Base, Typed, SoundSession, Shape, Session, Epochs
    <3>4. session.doc = idb[session.epoch]
      BY <2>1 DEF Base, Mirrored, Editing
    <3>5. ~Says(wire.up, "FLUSH") /\ ~Says(wire.down, "FLUSHED")
      <4>1. DOMAIN wire.up = 1 .. Len(wire.up) /\ DOMAIN wire.down = 1 .. Len(wire.down)
        BY <1>0, LenProperties
      <4>. QED  BY <3>1, <4>1 DEF NoFlushUnderWay, Says
    <3>6. ASSUME NEW u \in Mine(session.doc) \ server.durable[session.epoch] PROVE Ahead(u)'
      <4>1. Covered(u)
        BY <3>1, <3>4 DEF Cover, Unsaved
      <4>2. wire.pc = "open" => (\E d \in Updates(wire.up) : u \in d.ups) \/ \E b \in server.unsaved : u \in b.ups
        BY <4>1 DEF Covered, Carried, OfWire
      <4>3. wire.pc = "open" => Before(wire'.up, u) \/ \E b \in server.unsaved : u \in b.ups
        BY <1>3, <2>1, <3>5, <4>2
      <4>. QED  BY <1>1, <3>5, <4>3 DEF Ahead, SameWire
    <3>. QED  BY <3>2, <3>3, <3>6
  <2>3. IsOpen' /\ wire'.epoch = wire.epoch /\ server' = server
    BY <1>1, <2>1 DEF SameWire, IsOpen
  <2>4. flushes'[f].alone => \A u \in Mine(flushes'[f].covers) \ server'.durable[flushes'[f].epoch] : Ahead(u)'
    BY <2>1, <2>2, <2>3
  <2>5. flushes'[f].alone => flushes'[f].epoch \in Epochs /\ flushes'[f].epoch = wire'.epoch
    BY <2>1, <2>2, <2>3
  <2>. QED  BY <2>1, <2>3, <2>4, <2>5 DEF Awaited, Covers
<1>. QED  BY <1>4, <1>5, <1>6

\* Before(wire.up, u) and a flush at the head exclude each other.
LEMMA CallsServer ==
    ASSUME Base, Calls, ServerMoves, UNCHANGED <<session, page, flushes, idb>>, NEW f \in Flushes
    PROVE  Awaited(f)' /\ Covers(f)'
<1>0. Awaited(f) /\ Covers(f) /\ wire.up \in Seq(Frame) /\ wire.down \in Seq(Message) /\ flushes'[f] = flushes[f]
  BY DEF Calls, Base, Typed, Wire
<1>1. /\ wire'.epoch = wire.epoch
      /\ wire'.pc = wire.pc \/ (wire.pc = "open" /\ wire'.pc = "hungup")
      /\ wire.pc # "open" => wire'.up = wire.up /\ wire'.down = wire.down
  BY ServerTells DEF Base
<1>2. \A e \in Epochs : server.durable[e] \subseteq server'.durable[e]
  BY DurableGrows DEF Base
<1>3. Covers(f)'
  BY <1>0, <1>2 DEF Covers, Awaited
<1>4. ASSUME flushes[f].state = "waiting", flushes[f].alone,
             NEW u \in Mine(flushes[f].covers) \ server'.durable[flushes[f].epoch]
      PROVE  Ahead(u)'
  <2>1. /\ IsOpen /\ flushes[f].epoch \in Epochs /\ flushes[f].epoch = wire.epoch
        /\ u \notin server.durable[flushes[f].epoch] /\ Ahead(u)
    BY <1>0, <1>2, <1>4 DEF Awaited
  <2>2. wire.pc = "open" => wire.epoch = server.epoch
    BY DEF Base, Linked
  <2>3. CASE wire.pc # "open"
    BY <1>1, <2>1, <2>3 DEF Ahead
  <2>4. CASE wire.pc = "open"
    <3>1. ~Says(wire.down, "FLUSHED") /\ (Before(wire.up, u) \/ \E b \in server.unsaved : u \in b.ups)
      BY <2>1, <2>4 DEF Ahead
    <3>2. Before(wire.up, u) /\ wire.up # <<>> =>
             Head(wire.up).type # "FLUSH" /\ (u \in Head(wire.up).ups \/ Before(Tail(wire.up), u))
      BY <1>0, UpdatesTaken
    <3>3. ASSUME NEW m \in Seq(Message), ~Says(m, "FLUSHED") PROVE ~Says(wire.down \o m, "FLUSHED")
      BY <1>0, <3>1, <3>3, MessagesTold
    <3>4. CASE Stores
      <4>1. ~\E b \in server.unsaved : u \in b.ups
        <5>1. ASSUME NEW b \in server.unsaved PROVE b.ups \subseteq server'.durable[server.epoch]
          BY <3>4, KeptIs DEF Stores, Base
        <5>. QED  BY <1>4, <2>1, <2>2, <2>4, <5>1
      <4>2. Before(wire.up, u)
        BY <3>1, <4>1
      <4>3. ~Takes("FLUSH")
        BY <3>2, <4>2 DEF Takes
      <4>4. PICK m \in Seq(Message) : Told(m) /\ wire'.up = wire.up /\ ~Says(m, "FLUSHED")
        BY <3>4, <4>3 DEF Stores
      <4>5. ~Says(wire'.down, "FLUSHED")
        BY <2>4, <3>3, <4>4 DEF Told
      <4>. QED  BY <4>2, <4>4, <4>5 DEF Ahead
    <3>5. CASE Accepts
      <4>1. PICK b : /\ b = [seq |-> Head(wire.up).seq, ups |-> Head(wire.up).ups, from |-> wire.count]
                     /\ server' = [server EXCEPT !.unsaved = server.unsaved \cup {b}]
        BY <3>5 DEF Accepts
      <4>2. b.ups = Head(wire.up).ups /\ server'.unsaved = server.unsaved \cup {b}
        BY <4>1 DEF Base, Typed, Server
      <4>3. wire.up # <<>> /\ wire'.up = Tail(wire.up) /\ wire'.down = wire.down
        BY <3>5 DEF Accepts, Takes
      <4>4. Before(wire'.up, u) \/ \E d \in server'.unsaved : u \in d.ups
        BY <3>1, <3>2, <4>2, <4>3
      <4>. QED  BY <3>1, <4>3, <4>4 DEF Ahead
    <3>6. CASE Answers
      <4>1. ~Before(wire.up, u)
        BY <3>2, <3>6 DEF Answers, Takes
      <4>2. PICK t \in {"FLUSHED", "ERROR"} : Told(<<[type |-> t]>>) /\ (t = "FLUSHED" => server.unsaved = {})
        BY <3>6 DEF Answers
      <4>3. t = "ERROR"
        BY <3>1, <4>1, <4>2
      <4>4. PICK y \in Message : y = [type |-> "ERROR"]
        BY MessageTypes
      <4>5. <<y>> \in Seq(Message) /\ ~Says(<<y>>, "FLUSHED")
        BY <4>4, OneMessage
      <4>6. ~Says(wire'.down, "FLUSHED")
        BY <2>4, <3>3, <4>2, <4>3, <4>4, <4>5 DEF Told
      <4>. QED  BY <3>1, <3>6, <4>1, <4>6 DEF Answers, Ahead
    <3>7. CASE Hears
      <4>1. PICK v, b : /\ v \in Others /\ server' = [server EXCEPT !.unsaved = server.unsaved \cup {b}]
                        /\ Told(<<[type |-> "REMOTE_SOURCE_UPDATE", ups |-> {v}]>>)
        BY <3>7 DEF Hears
      <4>2. server'.unsaved = server.unsaved \cup {b}
        BY <4>1 DEF Base, Typed, Server
      <4>3. PICK y \in Message : y = [type |-> "REMOTE_SOURCE_UPDATE", ups |-> {v}]
        BY <4>1, MessageTypes
      <4>4. <<y>> \in Seq(Message) /\ ~Says(<<y>>, "FLUSHED")
        BY <4>3, OneMessage
      <4>5. ~Says(wire'.down, "FLUSHED")
        BY <2>4, <3>3, <4>1, <4>3, <4>4 DEF Told
      <4>. QED  BY <3>1, <3>7, <4>2, <4>5 DEF Hears, Ahead
    <3>8. CASE HangsUp
      <4>1. PICK t \in {"ERROR", "POLICY_CHANGED", "PAPER_EPOCH_CHANGED"} :
               wire'.pc = "hungup" /\ wire'.down = wire.down \o <<[type |-> t]>>
        BY <2>4, <3>8 DEF HangsUp
      <4>2. PICK y \in Message : y = [type |-> t]
        BY MessageTypes
      <4>3. <<y>> \in Seq(Message) /\ ~Says(<<y>>, "FLUSHED")
        BY <4>2, OneMessage
      <4>4. ~Says(wire'.down, "FLUSHED")
        BY <3>3, <4>1, <4>2, <4>3
      <4>. QED  BY <4>1, <4>4 DEF Ahead
    <3>. QED  BY <3>4, <3>5, <3>6, <3>7, <3>8 DEF ServerMoves
  <2>. QED  BY <2>3, <2>4
<1>5. IsOpen => IsOpen'
  BY <1>1 DEF IsOpen
<1>. QED  BY <1>0, <1>1, <1>3, <1>4, <1>5 DEF Awaited

LEMMA NextCalls == ASSUME Base, Cover, Calls, [Next]_vars PROVE Calls'
<1>1. CASE UNCHANGED vars
  BY <1>1 DEF vars, Calls, Awaited, Covers, Ahead, IsOpen
<1>2. ASSUME NEW f \in Flushes PROVE Calls' \/ (Awaited(f)' /\ Covers(f)')
  BY <1>1, NextMoves, CallsPage, CallsAsks, CallsServer
<1>. QED  BY <1>2 DEF Calls

-----------------------------------------------------------------------------
(* The theorems *)

Sound == Base /\ Numbers /\ Cover /\ SavedIsDurable /\ Calls

LEMMA SoundAlways == Spec => []Sound
<1>1. Init => Sound
  BY InitBase, InitNumbers, InitCover, InitSaved, InitCalls DEF Sound
<1>2. Sound /\ [Next]_vars => Sound'
  <2>. SUFFICES ASSUME Sound, [Next]_vars PROVE Sound'
    OBVIOUS
  <2>1. Base' /\ Numbers'
    BY NextBase, NextNumbers DEF Sound
  <2>2. Cover' /\ Calls'
    BY NextCover, NextCalls DEF Sound
  <2>3. SavedIsDurable'
    BY <2>1, <2>2, NextSaved DEF Sound
  <2>. QED  BY <2>1, <2>2, <2>3 DEF Sound
<1>. QED  BY <1>1, <1>2, PTL DEF Spec

\* "Saved" over an editor that may write is true, whichever message put it there and
\* however often the connection was lost before (receive and saveState in writer.js).
THEOREM SessionSavedIsDurable == Spec => []SavedIsDurable
<1>1. Sound => SavedIsDurable
  BY DEF Sound
<1>. QED  BY <1>1, SoundAlways, PTL

\* A flush that was alone resolves only when all its caller had typed is stored: the
\* frames of a connection are taken in their order, and those of a merge are sent first
\* (flush, initializeOrMerge and resolveFlushes in writer.js).
THEOREM SessionFlushCovers == Spec => []FlushCovers
<1>1. Sound => FlushCovers
  BY CallsCover DEF Sound
<1>. QED  BY <1>1, SoundAlways, PTL

-----------------------------------------------------------------------------
(* The end of an epoch *)

\* preserveOldEpoch keeps all that was on the screen, and so all that was not saved.
LEMMA PreservedIsOffered ==
    ASSUME Base, PreserveOldEpoch, session.mounted, ~session.destroyed
    PROVE  Unsaved(session.epoch) \subseteq page'.recovery /\ page'.reload
<1>1. session.doc = idb[session.epoch] /\ session.doc # None
  <2>1. Shape(session)
    BY DEF Base, Typed, SoundSession
  <2>. QED  BY <2>1 DEF Base, Mirrored, Shape
<1>2. page'.recovery = session.doc /\ page'.reload
  BY <1>1 DEF PreserveOldEpoch, Base, Typed, Page
<1>. QED  BY <1>1, <1>2 DEF Unsaved, Mine

LEMMA InitialKeepsEpoch ==
    ASSUME Base, InitialState
    PROVE  session.mounted /\ ~session.destroyed => ~session'.destroyed /\ session'.epoch = session.epoch
<1>0. IsOpen /\ wire.down # <<>>
  BY InitialIs
<1>1. PICK s \in SoundSession :
        /\ s.epoch = session.epoch /\ s.metadata /\ s.initial # None /\ s.doc = session.doc
        /\ s.loading = session.loading /\ s.mounted = session.mounted /\ s.destroyed = session.destroyed
        /\ s.seq = session.seq /\ s.pending = session.pending
        /\ \/ /\ session' = s \/ (s.doc = None /\ Ready(s) /\ session' = [s EXCEPT !.loading = TRUE, !.doc = {}])
              /\ Ready(s) => s.doc = None
              /\ wire' = [wire EXCEPT !.down = Tail(wire.down)] /\ UNCHANGED <<idb, page>>
           \/ /\ Ready(s) /\ s.doc # None /\ s.doc \cup s.initial \in SUBSET All
              /\ Announced(s, s.doc \cup s.initial, Tail(wire.down))
  BY InitialIs
<1>. SUFFICES ASSUME session.mounted, ~session.destroyed
     PROVE  ~session'.destroyed /\ session'.epoch = session.epoch
  OBVIOUS
<1>2. s.doc # None /\ s.epoch # 0
  <2>1. Shape(session)
    BY DEF Base, Typed, SoundSession
  <2>. QED  BY <1>1, <2>1 DEF Shape
<1>3. CASE session' = s
  BY <1>1, <1>3
<1>4. CASE s.doc \cup s.initial \in SUBSET All /\ Announced(s, s.doc \cup s.initial, Tail(wire.down))
  <2>1. Tail(wire.down) \in Seq(Message)
    BY <1>0, ReadTyped DEF Base
  <2>2. Same(session', s)
    BY <1>2, <1>4, <2>1, AnnouncedIs DEF Base
  <2>. QED  BY <1>1, <2>2 DEF Same
<1>. QED  BY <1>1, <1>2, <1>3, <1>4

\* Nothing but preserveOldEpoch and the notice of a lock ends an editor, and no handler
\* takes it to another epoch: a page that opens the file again has no editor yet.
LEMMA EditorKeepsEpoch ==
    ASSUME Base, [Next]_vars, session.mounted, ~session.destroyed, ~PreserveOldEpoch, ~PolicyChanged
    PROVE  ~session'.destroyed /\ (session'.mounted => session'.epoch = session.epoch)
<1>. DEFINE Goal == ~session'.destroyed /\ (session'.mounted => session'.epoch = session.epoch)
<1>0. session \in Session /\ Shape(session) /\ session.epoch # 0
  BY DEF Base, Typed, SoundSession, Shape
<1>1. ASSUME Connect \/ Open \/ Close PROVE Goal
  BY <1>0, <1>1 DEF Connect, Open, Close, Session
<1>2. ASSUME Reopen PROVE Goal
  BY <1>2 DEF Reopen, Constructed
<1>3. ASSUME Loaded PROVE Goal
  BY <1>3, LoadedIs DEF Base
<1>4. ASSUME JoinAccepted PROVE Goal
  BY <1>0, <1>4, JoinIs
<1>5. ASSUME InitialState PROVE Goal
  BY <1>5, InitialKeepsEpoch
<1>6. ASSUME DurableAck \/ RemoteDurable \/ Flushed \/ Error \/ RemoteSourceUpdate PROVE Goal
  BY <1>6, NoticeReads DEF Reads, Same
<1>7. ASSUME \E u \in Edits : Type(u) PROVE Goal
  BY <1>7, TypeIs DEF Base, Same
<1>8. ASSUME UNCHANGED session PROVE Goal
  BY <1>8
<1>9. ASSUME \E f \in Flushes : Flush(f) \/ FlushTimeout(f) PROVE Goal
  BY <1>8, <1>9 DEF Flush, FlushTimeout
<1>10. ASSUME ServerStep PROVE Goal
  BY <1>8, <1>10, ServerMovesOnly DEF Base
<1>11. ~PaperEpochChanged
  BY DEF PaperEpochChanged
<1>. QED
  BY <1>1, <1>2, <1>3, <1>4, <1>5, <1>6, <1>7, <1>8, <1>9, <1>10, <1>11 DEF Next, Receive, Writer, vars

\* After a restoration no text is lost without being offered: an editor of the old epoch
\* ends by preserveOldEpoch, whether a message or the next connection tells it, and what
\* was not saved is in the text that is kept aside (preserveOldEpoch in writer.js).
THEOREM SessionOldEpochOffered == Spec => OldEpochOffered
<1>. DEFINE Offers ==
        session.mounted /\ ~session.destroyed /\ session.epoch # server.epoch
            /\ (session'.destroyed \/ (session'.mounted /\ session'.epoch # session.epoch))
            /\ ~Got("POLICY_CHANGED")
        => Unsaved(session.epoch) \subseteq page'.recovery /\ page'.reload
<1>1. Base /\ [Next]_vars => [Offers]_vars
  BY PreservedIsOffered, EditorKeepsEpoch DEF PolicyChanged
<1>. QED  BY <1>1, BaseAlways, PTL DEF OldEpochOffered, Spec
=============================================================================
