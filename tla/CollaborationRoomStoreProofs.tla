------------------- MODULE CollaborationRoomStoreProofs -------------------
(***************************************************************************)
(* While the epoch lasts: what the log, the snapshots, the file and the     *)
(* acknowledgements promise, for any edits, clients, rooms and faults.      *)
(* A restoration may leave two actors for one epoch, and then none of it    *)
(* holds; the theorems are about instances with one epoch.                  *)
(***************************************************************************)
EXTENDS CollaborationRoomProofs

OneEpoch == MaxEpoch = 1

-----------------------------------------------------------------------------
(* What is known: the rows of a log L and the documents of snapshots S *)

Ups(p) == UNION {p[i].ups : i \in 1 .. Len(p)}
Docs(S) == UNION {s.doc : s \in S}
Known(L, S) == Ups(L) \cup Docs(S)

\* A later snapshot has what an earlier one has, and every row that it covers.
SnapsGood(L, S) ==
    /\ \A s, t \in S : s.through <= t.through => s.doc \subseteq t.doc
    /\ \A s \in S : \A i \in 1 .. s.through : L[i].ups \subseteq s.doc
StoreGood(f, L, S) == SnapsGood(L, S) /\ Ups(L) \subseteq f

\* A live actor has what is stored, and nothing that is neither stored nor pending.
Agrees(a, L, S) == a.epoch # 0 =>
    /\ a.durable = Len(L) /\ Known(L, S) \subseteq a.doc /\ Ups(a.pending) \subseteq a.doc
    /\ a.doc \subseteq Known(L, S) \cup Ups(a.pending)

LEMMA OneEpochIs ==
    ASSUME OneEpoch
    PROVE  /\ Epochs = {1}
           /\ \A L \in Seq(Row) : \A i \in 1 .. Len(L) : L[i].epoch = 1
           /\ \A s \in Snap : s.epoch = 1
<1>1. Epochs = {1}
  BY DEF OneEpoch, Epochs
<1>2. \A s \in Snap : s.epoch = 1
  BY <1>1 DEF Snap
<1>3. ASSUME NEW L \in Seq(Row), NEW i \in 1 .. Len(L)
      PROVE  L[i].epoch = 1
  <2>1. L[i] \in Row
    OBVIOUS
  <2>. QED  BY <1>1, <2>1 DEF Row
<1>. QED  BY <1>1, <1>2, <1>3

\* A restart finds exactly what is known.
LEMMA RecoveryKnows ==
    ASSUME OneEpoch, NEW L \in Seq(Row), NEW S \in SUBSET Snap, \A s \in S : s.through <= Len(L),
           SnapsGood(L, S)
    PROVE  RecoveryOf(L, S, 1).doc = Known(L, S)
<1>1. /\ \A i \in 1 .. Len(L) : L[i].epoch = 1
      /\ \A s \in S : s.epoch = 1
  BY OneEpochIs
<1>2. LoggedIn(L, 1) = Ups(L)
  BY <1>1 DEF LoggedIn, Ups
<1>3. CASE S = {}
  <2>1. RecoveryOf(L, S, 1).doc = LoggedIn(L, 1)
    BY <1>3, RecoveredRows
  <2>2. Docs(S) = {}
    BY <1>3 DEF Docs
  <2>. QED  BY <1>2, <2>1, <2>2 DEF Known
<1>4. CASE S # {}
  <2>1. PICK s : s = LatestOf(S, 1)
    OBVIOUS
  <2>2. \E t \in S : t.epoch = 1
    BY <1>1, <1>4
  <2>3. /\ s \in S /\ s.epoch = 1 /\ \A t \in S : t.epoch = 1 => t.through <= s.through
        /\ RecoveryOf(L, S, 1).doc = s.doc \cup LoggedAfter(L, 1, s.through)
    <3>1. PICK e : e = 1
      OBVIOUS
    <3>2. L \in Seq(Row) /\ S \in SUBSET Snap /\ (\A t \in S : t.through <= Len(L)) /\ \E t \in S : t.epoch = e
      BY <2>2, <3>1
    <3>3. LatestOf(S, e) \in S
      BY <3>2, RecoveredSnap
    <3>4. LatestOf(S, e).epoch = e
      BY <1>1, <3>1, <3>3
    <3>5. \A t \in S : t.epoch = e => t.through <= LatestOf(S, e).through
      BY <3>2, RecoveredSnap
    <3>6. RecoveryOf(L, S, e).doc = LatestOf(S, e).doc \cup LoggedAfter(L, e, LatestOf(S, e).through)
      BY <3>2, RecoveredSnap
    <3>. QED  BY <2>1, <3>1, <3>3, <3>4, <3>5, <3>6
  <2>4. Docs(S) = s.doc
    BY <1>1, <2>3 DEF Docs, SnapsGood
  <2>5. LoggedAfter(L, 1, s.through) \subseteq Ups(L)
    BY DEF LoggedAfter, TailOf, Ups
  <2>6. Ups(L) \subseteq s.doc \cup LoggedAfter(L, 1, s.through)
    <3>1. ASSUME NEW i \in 1 .. Len(L), NEW u \in L[i].ups
          PROVE  u \in s.doc \cup LoggedAfter(L, 1, s.through)
      <4>1. s.through \in Nat
        BY <2>3 DEF Snap
      <4>2. CASE i > s.through
        BY <1>1, <4>2 DEF LoggedAfter, TailOf
      <4>3. CASE ~(i > s.through)
        <5>1. i \in 1 .. s.through
          BY <4>1, <4>3
        <5>. QED  BY <2>3, <5>1 DEF SnapsGood
      <4>. QED  BY <4>2, <4>3
    <3>. QED  BY <3>1 DEF Ups
  <2>. QED  BY <2>3, <2>4, <2>5, <2>6 DEF Known
<1>. QED  BY <1>3, <1>4

LEMMA UpsOfConcat ==
    ASSUME NEW T, NEW p \in Seq(T), NEW q \in Seq(T)
    PROVE  Ups(p \o q) = Ups(p) \cup Ups(q)
<1>1. /\ p \o q \in Seq(T) /\ Len(p \o q) = Len(p) + Len(q) /\ Len(p) \in Nat /\ Len(q) \in Nat
      /\ \A i \in 1 .. Len(p) : (p \o q)[i] = p[i] /\ i \in 1 .. Len(p \o q)
      /\ \A i \in 1 .. Len(q) : (p \o q)[Len(p) + i] = q[i] /\ Len(p) + i \in 1 .. Len(p \o q)
  OBVIOUS
<1>2. \A i \in 1 .. Len(p \o q) : i \in 1 .. Len(p) \/ (i - Len(p) \in 1 .. Len(q) /\ i = Len(p) + (i - Len(p)))
  BY <1>1
<1>3. Ups(p \o q) \subseteq Ups(p) \cup Ups(q)
  BY <1>1, <1>2 DEF Ups
<1>4. Ups(p) \cup Ups(q) \subseteq Ups(p \o q)
  BY <1>1 DEF Ups
<1>. QED  BY <1>3, <1>4

LEMMA UpsOfAppend ==
    ASSUME NEW p \in Seq(Update), NEW u \in Update
    PROVE  Ups(Append(p, u)) = Ups(p) \cup u.ups
<1>1. /\ Len(Append(p, u)) = Len(p) + 1 /\ Len(p) \in Nat
      /\ \A i \in 1 .. Len(p) : Append(p, u)[i] = p[i]
      /\ Append(p, u)[Len(p) + 1] = u
  BY AppendProperties
<1>2. \A i \in 1 .. Len(p) + 1 : i \in 1 .. Len(p) \/ i = Len(p) + 1
  BY <1>1
<1>3. \A i \in 1 .. Len(p) : i \in 1 .. Len(p) + 1
  BY <1>1
<1>4. Len(p) + 1 \in 1 .. Len(p) + 1
  BY <1>1
<1>5. Ups(Append(p, u)) \subseteq Ups(p) \cup u.ups
  BY <1>1, <1>2 DEF Ups
<1>6. Ups(p) \cup u.ups \subseteq Ups(Append(p, u))
  BY <1>1, <1>3, <1>4 DEF Ups
<1>. QED  BY <1>5, <1>6

LEMMA UpsSame ==
    ASSUME NEW p, NEW q, Len(q) = Len(p), \A i \in 1 .. Len(p) : q[i].ups = p[i].ups
    PROVE  Ups(q) = Ups(p)
BY DEF Ups

LEMMA UpsOfNothing == Ups(<<>>) = {}
BY EmptySeq DEF Ups

-----------------------------------------------------------------------------
(* What an operation of a live actor keeps of it *)

\* K is what was known or pending before.
OneWorks(r, K) ==
    {w \in SoundWorks(r) :
        /\ w.room.epoch # 0 /\ Agrees(w.room, w.log, w.snaps) /\ StoreGood(w.file, w.log, w.snaps)
        /\ \A a \in w.acks : a.ups \subseteq Known(w.log, w.snaps)
        /\ K \subseteq Known(w.log, w.snaps) \cup Ups(w.room.pending)}

LEMMA OneWorkIs ==
    ASSUME NEW r, NEW K, NEW w \in OneWorks(r, K)
    PROVE  /\ w \in SoundWorks(r) /\ w \in Work /\ w.room \in Actor /\ w.log \in Seq(Row) /\ w.snaps \in SUBSET Snap
           /\ w.room.pending \in Seq(Update) /\ Len(w.log) \in Nat /\ w.room.epoch \in Epochs /\ w.room.epoch # 0
           /\ \A s \in w.snaps : s.through \in Nat /\ s.through <= Len(w.log)
           /\ w.room.durable = Len(w.log) /\ Known(w.log, w.snaps) \subseteq w.room.doc
           /\ Ups(w.room.pending) \subseteq w.room.doc
           /\ w.room.doc \subseteq Known(w.log, w.snaps) \cup Ups(w.room.pending)
           /\ SnapsGood(w.log, w.snaps) /\ Ups(w.log) \subseteq w.file
           /\ \A a \in w.acks : a.ups \subseteq Known(w.log, w.snaps)
           /\ K \subseteq Known(w.log, w.snaps) \cup Ups(w.room.pending)
<1>1. /\ w \in SoundWorks(r) /\ w \in Work /\ w.room \in Actor /\ w.log \in Seq(Row) /\ w.snaps \in SUBSET Snap
      /\ w.room.epoch # 0 /\ \A s \in w.snaps : s.through <= Len(w.log)
  BY DEF OneWorks, SoundWorks, Work
<1>2. w.room.epoch \in 0 .. MaxEpoch /\ w.room.pending \in Seq(Update)
  BY <1>1 DEF Actor
<1>3. w.room.epoch \in Epochs
  BY <1>1, <1>2 DEF Epochs
<1>4. \A s \in w.snaps : s.through \in Nat
  BY <1>1 DEF Snap
<1>. QED  BY <1>1, <1>2, <1>3, <1>4 DEF OneWorks, Agrees, StoreGood

LEMMA PersistedOne ==
    ASSUME OneEpoch, Typed, NEW r \in RoomIds, NEW K, NEW w \in OneWorks(r, K),
           w.room.pending # <<>>, w.room.epoch = epoch
    PROVE  Persisted(w) \in OneWorks(r, K)
<1>1. PICK v : v = Persisted(w)
  OBVIOUS
<1>2. PICK L, R, P : L = w.log /\ R = Rows(w) /\ P = w.room.pending
  OBVIOUS
<1>3. /\ w \in SoundWorks(r) /\ w \in Work /\ L \in Seq(Row) /\ Len(L) \in Nat /\ P \in Seq(Update)
      /\ w.room.epoch \in Epochs /\ SnapsGood(L, w.snaps) /\ Ups(P) \subseteq w.room.doc
      /\ Known(L, w.snaps) \subseteq w.room.doc /\ w.room.doc \subseteq Known(L, w.snaps) \cup Ups(P)
      /\ K \subseteq Known(L, w.snaps) \cup Ups(P) /\ w.room.epoch # 0
      /\ \A s \in w.snaps : s.through \in Nat /\ s.through <= Len(L)
  BY <1>2, OneWorkIs
<1>4. v \in SoundWorks(r)
  BY <1>1, <1>3, SoundClosed DEF Closed
<1>5. /\ v.file = w.room.doc /\ v.log = L \o R /\ v.snaps = w.snaps
      /\ v.acks = {P[i] : i \in 1 .. Len(P)}
      /\ v.room.epoch = w.room.epoch /\ v.room.doc = w.room.doc /\ v.room.pending = <<>>
      /\ v.room.durable = Len(L) + Len(P)
  <2>1. /\ v.file = w.room.doc /\ v.log = w.log \o Rows(w) /\ v.snaps = w.snaps
        /\ v.room.epoch = w.room.epoch /\ v.room.doc = w.room.doc /\ v.room.pending = <<>>
        /\ v.room.durable = Len(w.log) + Len(w.room.pending)
    BY <1>1, <1>3, PersistedFields
  <2>2. v.acks = {w.room.pending[i] : i \in 1 .. Len(w.room.pending)}
    BY <1>1, <1>3, PersistedFields
  <2>3. v.acks = {P[i] : i \in 1 .. Len(P)}
    BY <1>2, <2>2
  <2>. QED  BY <1>2, <2>1, <2>3
<1>6. /\ R \in Seq(Row) /\ Len(R) = Len(P) /\ Len(L \o R) = Len(L) + Len(P)
      /\ \A i \in 1 .. Len(R) : R[i] = [epoch |-> w.room.epoch, ups |-> P[i].ups]
  BY <1>2, <1>3, RowsTyped
<1>7. Ups(R) = Ups(P)
  <2>1. \A i \in 1 .. Len(P) : R[i].ups = P[i].ups
    <3>1. PICK n : n = Len(P)
      OBVIOUS
    <3>2. \A i \in 1 .. n : R[i] = [epoch |-> w.room.epoch, ups |-> P[i].ups]
      BY <1>6, <3>1
    <3>3. ASSUME NEW i \in 1 .. n
          PROVE  R[i].ups = P[i].ups
      <4>1. PICK e, u : e = w.room.epoch /\ u = P[i].ups
        OBVIOUS
      <4>2. R[i] = [epoch |-> e, ups |-> u]
        BY <3>2, <4>1
      <4>. QED  BY <4>1, <4>2
    <3>. QED  BY <3>1, <3>3
  <2>. QED  BY <1>6, <2>1, UpsSame
<1>8. Ups(L \o R) = Ups(L) \cup Ups(P)
  BY <1>3, <1>6, <1>7, UpsOfConcat
<1>9. Known(L \o R, w.snaps) = Known(L, w.snaps) \cup Ups(P)
  BY <1>8 DEF Known
<1>10. Agrees(v.room, v.log, v.snaps)
  <2>1. v.room.durable = Len(v.log)
    BY <1>5, <1>6
  <2>. QED  BY <1>3, <1>5, <1>9, <2>1, UpsOfNothing DEF Agrees
<1>11. SnapsGood(v.log, v.snaps)
  <2>1. ASSUME NEW s \in w.snaps, NEW i \in 1 .. s.through
        PROVE  (L \o R)[i] = L[i]
    <3>1. s.through \in Nat /\ s.through <= Len(L)
      BY <1>3
    <3>2. i \in 1 .. Len(L)
      BY <1>3, <3>1
    <3>. QED  BY <1>3, <1>6, <3>2, ConcatProperties
  <2>. QED  BY <1>3, <1>5, <2>1 DEF SnapsGood
<1>12. Ups(v.log) \subseteq v.file
  BY <1>3, <1>5, <1>8 DEF Known
<1>13. \A a \in v.acks : a.ups \subseteq Known(v.log, v.snaps)
  <2>1. \A i \in 1 .. Len(P) : P[i].ups \subseteq Ups(P)
    BY DEF Ups
  <2>. QED  BY <1>5, <1>9, <2>1
<1>14. K \subseteq Known(v.log, v.snaps) \cup Ups(v.room.pending)
  BY <1>3, <1>5, <1>9
<1>. QED  BY <1>1, <1>3, <1>4, <1>5, <1>10, <1>11, <1>12, <1>13, <1>14 DEF OneWorks, StoreGood

LEMMA KnownWith ==
    ASSUME NEW L, NEW S, NEW s
    PROVE  Known(L, S \cup {s}) = Known(L, S) \cup s.doc
BY DEF Known, Docs

LEMMA SnappedOne ==
    ASSUME OneEpoch, Typed, NEW r \in RoomIds, NEW K, NEW w \in OneWorks(r, K), w.room.durable > 0
    PROVE  Snapped(w) \in OneWorks(r, K)
<1>1. PICK v, L, S : v = Snapped(w) /\ L = w.log /\ S = w.snaps
  OBVIOUS
<1>2. PICK s : s = [epoch |-> w.room.epoch, through |-> w.room.durable, doc |-> w.room.doc]
  OBVIOUS
<1>3. /\ w \in SoundWorks(r) /\ w \in Work /\ L \in Seq(Row) /\ Len(L) \in Nat /\ S \in SUBSET Snap
      /\ w.room.epoch \in Epochs /\ SnapsGood(L, S) /\ Ups(w.room.pending) \subseteq w.room.doc
      /\ Known(L, S) \subseteq w.room.doc /\ w.room.doc \subseteq Known(L, S) \cup Ups(w.room.pending)
      /\ K \subseteq Known(L, S) \cup Ups(w.room.pending) /\ w.room.epoch # 0 /\ w.room.durable = Len(L)
      /\ \A x \in S : x.through \in Nat /\ x.through <= Len(L)
      /\ Ups(L) \subseteq w.file /\ \A a \in w.acks : a.ups \subseteq Known(L, S)
  BY <1>1, OneWorkIs
<1>4. v \in SoundWorks(r)
  BY <1>1, <1>3, SoundClosed DEF Closed
<1>5. /\ v.room = w.room /\ v.file = w.file /\ v.log = L /\ v.acks = w.acks /\ v.snaps = Saved(S, s)
  <2>1. PICK T : T = Saved(S, s)
    OBVIOUS
  <2>2. v = [room |-> w.room, file |-> w.file, log |-> w.log, acks |-> w.acks, snaps |-> T]
    BY <1>1, <1>2, <1>3, <2>1, SnappedIs
  <2>. QED  BY <1>1, <2>1, <2>2
<1>6. s.epoch = w.room.epoch /\ s.through = Len(L) /\ s.doc = w.room.doc
  BY <1>2, <1>3
<1>7. CASE v.snaps = S
  BY <1>1, <1>3, <1>4, <1>5, <1>7 DEF OneWorks, Agrees, StoreGood
<1>8. CASE v.snaps # S
  <2>1. v.snaps = S \cup {s} /\ \A x \in S : ~(x.epoch = s.epoch /\ x.through = s.through)
    BY <1>5, <1>8 DEF Saved
  <2>2. \A x \in S : x.epoch = s.epoch
    BY <1>3, <1>6, OneEpochIs
  <2>3. \A x \in S : ~(s.through <= x.through)
    <3>1. PICK n : n = Len(L)
      OBVIOUS
    <3>2. \A x \in S : x.through \in Nat /\ x.through <= n /\ x.through # n
      BY <1>3, <1>6, <2>1, <2>2, <3>1
    <3>. QED  BY <1>3, <1>6, <3>1, <3>2
  <2>4. Known(L, S \cup {s}) = Known(L, S) \cup w.room.doc
    BY <1>6, KnownWith
  <2>5. \A x \in S : x.doc \subseteq s.doc
    BY <1>3, <1>6 DEF Known, Docs
  <2>6. \A i \in 1 .. s.through : L[i].ups \subseteq s.doc
    BY <1>3, <1>6 DEF Known, Ups
  <2>7. SnapsGood(L, S \cup {s})
    BY <1>3, <2>3, <2>5, <2>6 DEF SnapsGood
  <2>8. Agrees(v.room, v.log, v.snaps)
    BY <1>3, <1>5, <2>1, <2>4 DEF Agrees
  <2>9. K \subseteq Known(v.log, v.snaps) \cup Ups(v.room.pending)
    BY <1>3, <1>5, <2>1, <2>4
  <2>10. \A a \in v.acks : a.ups \subseteq Known(v.log, v.snaps)
    BY <1>3, <1>5, <2>1, <2>4
  <2>. QED  BY <1>1, <1>3, <1>4, <1>5, <2>1, <2>7, <2>8, <2>9, <2>10 DEF OneWorks, StoreGood
<1>. QED  BY <1>7, <1>8

LEMMA OneClosed ==
    ASSUME OneEpoch, Typed, NEW r \in RoomIds, NEW K
    PROVE  Closed(OneWorks(r, K))
<1>1. ASSUME NEW w \in OneWorks(r, K)
      PROVE  Reset(w) \in OneWorks(r, K)
  <2>1. PICK v : v = Reset(w)
    OBVIOUS
  <2>2. w \in SoundWorks(r) /\ w \in Work
    BY OneWorkIs
  <2>3. v \in SoundWorks(r)
    BY <2>1, <2>2, SoundClosed DEF Closed
  <2>4. /\ v.room.epoch = w.room.epoch /\ v.room.doc = w.room.doc /\ v.room.durable = w.room.durable
        /\ v.room.pending = w.room.pending /\ v.file = w.file /\ v.log = w.log /\ v.snaps = w.snaps
        /\ v.acks = w.acks
    BY <2>1, <2>2, ResetIs
  <2>. QED  BY <2>1, <2>3, <2>4 DEF OneWorks, Agrees, StoreGood
<1>. QED  BY <1>1, PersistedOne, SnappedOne DEF Closed

-----------------------------------------------------------------------------
(* The invariant while the epoch lasts *)

AllKept == Known(log, snaps) \cup UNION {Ups(rooms[r].pending) : r \in RoomIds}

\* There is one actor and it is in the map; a room is opened only when there is none.
OneRoom ==
    /\ restore = NoRestore /\ epoch = 1
    /\ \A r \in RoomIds : r # hub.room => rooms[r] = Stopped
    /\ hub.room # NoRoom => rooms[hub.room].epoch # 0
    /\ \A c \in Clients : sock[c].pc = "open" =>
          hub.room = NoRoom /\ hub.opener = c /\ sock[c].got = RecoveryOf(log, snaps, 1)
OneKept ==
    /\ StoreGood(file, log, snaps)
    /\ \A r \in RoomIds : Agrees(rooms[r], log, snaps)
    /\ \A c \in Clients : sock[c].acks \subseteq AllKept
ToldIsBorn == \A c \in Clients : \A u \in synced[c] : born[u] # 0
One == OneRoom /\ OneKept /\ ToldIsBorn

LEMMA StoppedAgrees == Stopped.epoch = 0 /\ \A L, S : Agrees(Stopped, L, S)
BY StoppedTyped DEF Agrees

LEMMA LiveRoom ==
    ASSUME OneRoom, NEW r \in RoomIds, rooms[r].epoch # 0
    PROVE  /\ r = hub.room /\ hub.room # NoRoom /\ \A q \in RoomIds : q # r => rooms[q] = Stopped
           /\ \A c \in Clients : sock[c].pc # "open"
           /\ AllKept = Known(log, snaps) \cup Ups(rooms[r].pending)
<1>1. r = hub.room
  BY StoppedAgrees DEF OneRoom
<1>2. hub.room # NoRoom
  BY <1>1 DEF RoomIds, NoRoom
<1>3. \A q \in RoomIds : q # r => rooms[q] = Stopped
  BY <1>1 DEF OneRoom
<1>4. \A q \in RoomIds : q # r => Ups(rooms[q].pending) = {}
  BY <1>3, StoppedTyped, UpsOfNothing
<1>5. AllKept = Known(log, snaps) \cup Ups(rooms[r].pending)
  BY <1>4 DEF AllKept
<1>6. \A c \in Clients : sock[c].pc # "open"
  BY <1>2 DEF OneRoom
<1>. QED  BY <1>1, <1>2, <1>3, <1>5, <1>6

LEMMA NoLiveRoom ==
    ASSUME Typed, OneRoom, hub.room = NoRoom
    PROVE  /\ \A q \in RoomIds : rooms[q] = Stopped
           /\ AllKept = Known(log, snaps)
<1>1. \A q \in RoomIds : rooms[q] = Stopped
  BY DEF OneRoom, RoomIds, NoRoom
<1>2. \A q \in RoomIds : Ups(rooms[q].pending) = {}
  BY <1>1, StoppedTyped, UpsOfNothing
<1>. QED  BY <1>1, <1>2 DEF AllKept

\* A restart finds what is known, and the map's actor holds the rest.
LEMMA KeptIs1 ==
    ASSUME OneEpoch, Typed, One
    PROVE  Kept(1) = AllKept /\ Kept(epoch) = AllKept
<1>1. Recovery(1).doc = Known(log, snaps)
  <2>1. /\ log \in Seq(Row) /\ snaps \in SUBSET Snap /\ (\A s \in snaps : s.through <= Len(log))
        /\ SnapsGood(log, snaps)
    BY DEF Typed, StoreTyped, One, OneKept, StoreGood
  <2>. QED  BY <2>1, RecoveryKnows, RecoveryIs
<1>2. \A r \in RoomIds : rooms[r].epoch # 1 => Ups(rooms[r].pending) = {}
  <2>1. ASSUME NEW r \in RoomIds, rooms[r].epoch # 1
        PROVE  Ups(rooms[r].pending) = {}
    <3>1. rooms[r].epoch = 0
      BY <2>1, RoomAssumption DEF Typed, RoomsTyped, Actor, OneEpoch
    <3>2. rooms[r] = Stopped
      BY <3>1 DEF Typed, RoomsTyped
    <3>. QED  BY <3>2, StoppedTyped, UpsOfNothing
  <2>. QED  BY <2>1
<1>3. Kept(1) = Known(log, snaps) \cup UNION {Ups(rooms[r].pending) : r \in {r \in RoomIds : rooms[r].epoch = 1}}
  BY <1>1 DEF Kept, Ups
<1>4. UNION {Ups(rooms[r].pending) : r \in {r \in RoomIds : rooms[r].epoch = 1}}
      = UNION {Ups(rooms[r].pending) : r \in RoomIds}
  BY <1>2
<1>. QED  BY <1>3, <1>4 DEF AllKept, One, OneRoom

\* Whatever is kept was typed in this epoch.
LEMMA KeptIsBorn ==
    ASSUME OneEpoch, Typed, Fence, One
    PROVE  \A u \in AllKept : born[u] = 1
<1>1. \A u \in Ups(log) : born[u] = 1
  <2>1. \A i \in 1 .. Len(log) : log[i].epoch = 1
    BY OneEpochIs DEF Typed, StoreTyped
  <2>. QED  BY <2>1 DEF Ups, Fence, StoreFenced, FencedRow
<1>2. \A u \in Docs(snaps) : born[u] = 1
  <2>1. \A s \in snaps : s.epoch = 1
    BY OneEpochIs DEF Typed, StoreTyped
  <2>2. \A s \in snaps : \A u \in s.doc : born[u] = 1
    BY <2>1 DEF Fence, StoreFenced, FencedSnap, Fenced, One, OneRoom
  <2>. QED  BY <2>2 DEF Docs
<1>3. ASSUME NEW r \in RoomIds, NEW u \in Ups(rooms[r].pending)
      PROVE  born[u] = 1
  <2>1. CASE rooms[r].epoch = 0
    BY <1>3, <2>1, StoppedTyped, UpsOfNothing DEF Typed, RoomsTyped
  <2>2. CASE rooms[r].epoch # 0
    <3>1. rooms[r].epoch = 1
      BY <2>2, RoomAssumption DEF Typed, RoomsTyped, Actor, OneEpoch
    <3>2. PICK i \in 1 .. Len(rooms[r].pending) : u \in rooms[r].pending[i].ups
      BY DEF Ups
    <3>3. Fenced(rooms[r].pending[i].ups, 1, 1, born)
      BY <3>1 DEF Fence, RoomsFenced, FencedActor, One, OneRoom
    <3>. QED  BY <3>2, <3>3 DEF Fenced
  <2>. QED  BY <2>1, <2>2
<1>. QED  BY <1>1, <1>2, <1>3 DEF AllKept, Known

-----------------------------------------------------------------------------
(* Every step keeps it, and nothing kept is forgotten but by a crash *)

LEMMA OneWorkOf ==
    ASSUME Typed, One, NEW r \in RoomIds, NEW k \in SoundWorks(r), rooms[r].epoch # 0,
           k.log = log, k.snaps = snaps, k.file = file, k.acks = {}, Agrees(k.room, log, snaps),
           Ups(rooms[r].pending) \subseteq Ups(k.room.pending)
    PROVE  k \in OneWorks(r, AllKept)
<1>1. AllKept = Known(log, snaps) \cup Ups(rooms[r].pending)
  BY LiveRoom DEF One
<1>2. AllKept \subseteq Known(k.log, k.snaps) \cup Ups(k.room.pending)
  BY <1>1
<1>3. k.room.epoch # 0
  BY DEF SoundWorks
<1>. QED  BY <1>2, <1>3 DEF OneWorks, One, OneKept

LEMMA OneWork ==
    ASSUME Typed, One, NEW r \in RoomIds, rooms[r].epoch # 0
    PROVE  WorkOf(r) \in OneWorks(r, AllKept)
<1>1. /\ WorkOf(r) \in SoundWorks(r) /\ WorkOf(r).log = log /\ WorkOf(r).snaps = snaps /\ WorkOf(r).file = file
      /\ WorkOf(r).acks = {} /\ WorkOf(r).room = rooms[r]
  BY WorkSound DEF WorkOf
<1>. QED  BY <1>1, OneWorkOf DEF One, OneKept

LEMMA OneLeft ==
    ASSUME Typed, One, NEW c \in Clients, sock[c].room # NoRoom
    PROVE  LeftWork(c) \in OneWorks(sock[c].room, AllKept)
<1>1. PICK r, R, P : r = sock[c].room /\ R = rooms[r] /\ P = Orphaned(R.pending, c)
  OBVIOUS
<1>2. /\ r \in RoomIds /\ R \in Actor /\ R.pending \in Seq(Update) /\ rooms[r].epoch # 0
      /\ LeftWork(c) \in SoundWorks(r)
  BY <1>1, InRoom, LeftSound DEF Actor, Epochs
<1>3. LeftWork(c) = [room |-> [epoch |-> R.epoch, doc |-> R.doc, durable |-> R.durable,
                               pending |-> P, since |-> R.since],
                     file |-> file, log |-> log, snaps |-> snaps, acks |-> {}]
  BY <1>1, <1>2, LeftIs
<1>4. Ups(P) = Ups(R.pending)
  BY <1>1, <1>2, OrphanedIs, UpsSame
<1>5. Agrees(R, log, snaps)
  BY <1>1, <1>2 DEF One, OneKept
<1>6. PICK k : k = LeftWork(c)
  OBVIOUS
<1>7. /\ k.log = log /\ k.snaps = snaps /\ k.file = file /\ k.acks = {} /\ k.room.pending = P
      /\ k.room.epoch = R.epoch /\ k.room.doc = R.doc /\ k.room.durable = R.durable
  BY <1>3, <1>6
<1>8. Agrees(k.room, log, snaps)
  BY <1>4, <1>5, <1>7 DEF Agrees
<1>9. Ups(rooms[r].pending) \subseteq Ups(k.room.pending)
  BY <1>1, <1>4, <1>7
<1>. QED  BY <1>1, <1>2, <1>6, <1>7, <1>8, <1>9, OneWorkOf

LEMMA OneKeeps ==
    ASSUME Typed, One, NEW c \in Clients, sock[c].room # NoRoom, sock[c].hand # Nothing
    PROVE  KeptWork(c) \in OneWorks(sock[c].room, AllKept)
<1>1. PICK r, R, u, D, P : /\ r = sock[c].room /\ R = rooms[r] /\ u = [ups |-> sock[c].hand.ups, client |-> c]
                           /\ D = R.doc \cup sock[c].hand.ups /\ P = Append(R.pending, u)
  OBVIOUS
<1>2. /\ r \in RoomIds /\ R \in Actor /\ R.pending \in Seq(Update) /\ rooms[r].epoch # 0
      /\ KeptWork(c) \in SoundWorks(r)
  BY <1>1, InRoom, KeptSound DEF Actor, Epochs
<1>3. KeptWork(c) = [room |-> [epoch |-> R.epoch, doc |-> D, durable |-> R.durable,
                               pending |-> P, since |-> R.since],
                     file |-> file, log |-> log, snaps |-> snaps, acks |-> {}]
  BY <1>1, <1>2, KeptIs
<1>4. Ups(P) = Ups(R.pending) \cup sock[c].hand.ups
  <2>1. u \in Update /\ u.ups = sock[c].hand.ups
    BY <1>1, SocketIs DEF Update
  <2>. QED  BY <1>1, <1>2, <2>1, UpsOfAppend
<1>5. Agrees(R, log, snaps)
  BY <1>1, <1>2 DEF One, OneKept
<1>6. PICK k : k = KeptWork(c)
  OBVIOUS
<1>7. /\ k.log = log /\ k.snaps = snaps /\ k.file = file /\ k.acks = {} /\ k.room.pending = P
      /\ k.room.epoch = R.epoch /\ k.room.doc = D /\ k.room.durable = R.durable
  BY <1>3, <1>6
<1>8. Agrees(k.room, log, snaps)
  BY <1>1, <1>4, <1>5, <1>7 DEF Agrees
<1>9. Ups(rooms[r].pending) \subseteq Ups(k.room.pending)
  BY <1>1, <1>4, <1>7
<1>. QED  BY <1>1, <1>2, <1>6, <1>7, <1>8, <1>9, OneWorkOf

LEMMA CommittedOne ==
    ASSUME OneEpoch, Typed, One, NEW r \in RoomIds, rooms[r].epoch # 0, NEW k \in OneWorks(r, AllKept),
           NEW S, Follows(S), \A c \in Clients : S[c].acks \subseteq AllKept, Committed(r, k, S),
           UNCHANGED <<synced, born, restore>>
    PROVE  One' /\ AllKept \subseteq AllKept'
<1>1. PICK w : Outcome(k, w) /\ Commit(r, w, S)
  BY DEF Committed
<1>2. w \in OneWorks(r, AllKept)
  BY <1>1, OneClosed DEF Outcome
<1>3. /\ r = hub.room /\ hub.room # NoRoom /\ (\A q \in RoomIds : q # r => rooms[q] = Stopped)
      /\ \A c \in Clients : sock[c].pc # "open"
  BY LiveRoom DEF One
<1>4. /\ file' = w.file /\ log' = w.log /\ snaps' = w.snaps /\ epoch' = epoch /\ hub' = hub
      /\ sock' = Acked(S, w.acks) /\ rooms' = Held([rooms EXCEPT ![r] = w.room], hub.room, sock')
  BY <1>1 DEF Commit
<1>5. w \in SoundWorks(r) /\ w.acks \in SUBSET Update /\ w.room \in Actor
  BY <1>2, OneWorkIs DEF Work
<1>6. rooms'[r] = w.room /\ \A q \in RoomIds : q # r => rooms'[q] = Stopped
  <2>1. PICK R, h, T : R = [rooms EXCEPT ![r] = w.room] /\ h = hub.room /\ T = sock'
    OBVIOUS
  <2>2. rooms' = Held(R, h, T)
    BY <1>4, <2>1
  <2>3. R[r] = w.room /\ \A q \in RoomIds : q # r => R[q] = Stopped
    BY <1>3, <2>1 DEF Typed, RoomsTyped
  <2>4. \A q \in RoomIds : /\ Held(R, h, T)[q] = R[q] \/ Held(R, h, T)[q] = Stopped
                           /\ h = q => Held(R, h, T)[q] = R[q]
    BY HeldIs
  <2>. QED  BY <1>3, <2>1, <2>2, <2>3, <2>4
<1>7. Known(w.log, w.snaps) \cup Ups(w.room.pending) \subseteq AllKept'
  BY <1>4, <1>6 DEF AllKept
<1>8. AllKept \subseteq AllKept'
  BY <1>2, <1>7, OneWorkIs
<1>9. \A c \in Clients : sock'[c].acks \subseteq AllKept' /\ sock'[c].pc # "open"
  <2>1. ASSUME NEW c \in Clients
        PROVE  sock'[c].acks \subseteq AllKept' /\ sock'[c].pc # "open"
    <3>1. /\ sock'[c].acks = S[c].acks \cup UNION {a.ups : a \in {a \in w.acks : a.client = c}}
          /\ sock'[c].pc = S[c].pc
      BY <1>4, <1>5, AckedIs DEF Follows
    <3>2. \A a \in w.acks : a.ups \subseteq Known(w.log, w.snaps)
      BY <1>2, OneWorkIs
    <3>3. S[c].pc # "open"
      BY <1>3 DEF Follows
    <3>. QED  BY <1>7, <1>8, <3>1, <3>2, <3>3
  <2>. QED  BY <2>1
<1>10. OneRoom'
  BY <1>2, <1>3, <1>4, <1>6, <1>9 DEF One, OneRoom, OneWorks
<1>11. OneKept'
  <2>1. StoreGood(w.file, w.log, w.snaps) /\ Agrees(w.room, w.log, w.snaps)
    BY <1>2 DEF OneWorks
  <2>2. \A q \in RoomIds : Agrees(rooms'[q], w.log, w.snaps)
    BY <1>6, <2>1, StoppedAgrees
  <2>. QED  BY <1>4, <1>9, <2>1, <2>2 DEF OneKept
<1>12. ToldIsBorn'
  BY DEF One, ToldIsBorn
<1>. QED  BY <1>8, <1>10, <1>11, <1>12 DEF One

LEMMA LeaveOne ==
    ASSUME OneEpoch, Typed, One, NEW c \in Clients, sock[c].room # NoRoom, Leave(c),
           UNCHANGED <<synced, born, restore>>
    PROVE  One' /\ AllKept \subseteq AllKept'
<1>1. PICK S : S = [sock EXCEPT ![c] = Offline]
  OBVIOUS
<1>2. Committed(sock[c].room, LeftWork(c), S) /\ Follows(S)
  BY <1>1, LeaveCommits, FollowsLeft
<1>3. \A d \in Clients : S[d].acks \subseteq AllKept
  BY <1>1, OfflineTyped DEF Typed, SocketsTyped, One, OneKept
<1>4. sock[c].room \in RoomIds /\ rooms[sock[c].room].epoch # 0
  BY InRoom DEF Epochs
<1>. QED  BY <1>2, <1>3, <1>4, OneLeft, CommittedOne

\* A step of a connection that leaves the store, the map and the actors alone.
LEMMA SocketOne ==
    ASSUME Typed, One, NEW c \in Clients, NEW t, sock' = [sock EXCEPT ![c] = t],
           t.pc = "open" => sock[c].pc = "open" /\ t.got = sock[c].got, t.acks \subseteq AllKept,
           UNCHANGED <<epoch, file, log, snaps, hub, rooms, restore>>, ToldIsBorn'
    PROVE  One' /\ AllKept' = AllKept
<1>1. AllKept' = AllKept
  BY DEF AllKept
<1>2. sock'[c] = t /\ \A d \in Clients : d # c => sock'[d] = sock[d]
  BY DEF Typed, SocketsTyped
<1>3. OneRoom'
  BY <1>2 DEF One, OneRoom
<1>4. OneKept'
  BY <1>1, <1>2 DEF One, OneKept
<1>. QED  BY <1>1, <1>3, <1>4 DEF One

LEMMA SilentTold ==
    ASSUME One, UNCHANGED <<synced, born>>
    PROVE  ToldIsBorn'
BY DEF One, ToldIsBorn

LEMMA PlainOne ==
    ASSUME OneEpoch, Typed, One, NEW c \in Clients, Connect(c) \/ FindRoom(c)
    PROVE  One' /\ AllKept' = AllKept
<1>1. CASE Connect(c)
  <2>1. PICK t \in ShapedSocket : sock' = [sock EXCEPT ![c] = t] /\ t.pc = "access" /\ t.acks = {}
    BY <1>1, ConnectIs
  <2>. QED  BY <1>1, <2>1, SilentTold, SocketOne DEF Connect
<1>2. CASE FindRoom(c)
  <2>1. PICK t \in ShapedSocket : sock' = [sock EXCEPT ![c] = t] /\ SameRest(t, sock[c]) /\ t.pc = "room"
    BY <1>2, FindRoomIs
  <2>2. t.acks \subseteq AllKept
    BY <2>1 DEF SameRest, One, OneKept
  <2>. QED  BY <1>2, <2>1, <2>2, SilentTold, SocketOne DEF FindRoom
<1>. QED  BY <1>1, <1>2

LEMMA OpenOne ==
    ASSUME OneEpoch, Typed, One, NEW c \in Clients, OpenRoom(c)
    PROVE  One' /\ AllKept' = AllKept
<1>1. PICK t \in ShapedSocket :
        /\ sock' = [sock EXCEPT ![c] = t] /\ SameRest(t, sock[c]) /\ t.pc = "open"
        /\ t.got = RecoveryOf(log, snaps, sock[c].epoch) /\ sock[c].epoch \in Epochs
  BY OpenRoomIs
<1>2. sock[c].epoch = 1
  BY <1>1, OneEpochIs
<1>3. hub.room = NoRoom
  <2>1. hub.room # NoRoom => rooms[hub.room].epoch = 1
    <3>1. hub.room \in RoomIds \cup {NoRoom}
      BY DEF Typed, RestTyped
    <3>. QED  BY <3>1, RoomAssumption DEF Typed, RoomsTyped, Actor, OneEpoch, One, OneRoom
  <2>. QED  BY <1>2, <2>1 DEF OpenRoom, InMap
<1>4. \A q \in RoomIds : rooms[q] = Stopped
  BY <1>3, NoLiveRoom DEF One
<1>5. \A q \in RoomIds : rooms'[q] = Stopped
  <2>1. PICK T : T = sock'
    OBVIOUS
  <2>2. rooms' = Held(rooms, NoRoom, T)
    BY <2>1 DEF OpenRoom
  <2>. QED  BY <1>4, <2>2, HeldIs
<1>6. hub' = [room |-> NoRoom, opener |-> c] /\ UNCHANGED <<epoch, file, log, snaps, synced, born, restore>>
  BY DEF OpenRoom
<1>7. AllKept' = AllKept
  BY <1>4, <1>5, <1>6 DEF AllKept
<1>8. sock'[c] = t /\ \A d \in Clients : d # c => sock'[d] = sock[d] /\ sock[d].pc # "open"
  <2>1. hub.opener = None
    BY DEF OpenRoom
  <2>2. \A d \in Clients : sock[d].pc # "open"
    BY <2>1, RoomAssumption DEF One, OneRoom
  <2>. QED  BY <1>1, <2>2 DEF Typed, SocketsTyped
<1>9. OneRoom'
  BY <1>1, <1>2, <1>5, <1>6, <1>8 DEF One, OneRoom
<1>10. OneKept'
  BY <1>1, <1>5, <1>6, <1>7, <1>8, StoppedAgrees DEF One, OneKept, SameRest
<1>. QED  BY <1>6, <1>7, <1>9, <1>10, SilentTold DEF One

LEMMA OpenFailsOne ==
    ASSUME OneEpoch, Typed, One, NEW c \in Clients, OpenFails(c)
    PROVE  One' /\ AllKept' = AllKept
<1>1. hub.room = NoRoom /\ hub.opener = c
  BY DEF OpenFails, One, OneRoom
<1>2. /\ hub' = [room |-> NoRoom, opener |-> None] /\ sock' = [sock EXCEPT ![c] = Offline]
      /\ UNCHANGED <<epoch, file, log, snaps, rooms, synced, born, restore>>
  BY DEF OpenFails
<1>3. sock'[c] = Offline /\ \A d \in Clients : d # c => sock'[d] = sock[d] /\ sock[d].pc # "open"
  BY <1>1, <1>2 DEF Typed, SocketsTyped, One, OneRoom
<1>4. AllKept' = AllKept
  BY <1>2 DEF AllKept
<1>5. OneRoom'
  BY <1>1, <1>2, <1>3, OfflineTyped DEF One, OneRoom
<1>6. OneKept'
  BY <1>2, <1>3, <1>4, OfflineTyped DEF One, OneKept
<1>. QED  BY <1>2, <1>4, <1>5, <1>6, SilentTold DEF One

\* What recovery finds of the one epoch
LEMMA RecoveryOfOne ==
    ASSUME OneEpoch, Typed, One
    PROVE  /\ RecoveryOf(log, snaps, 1).doc = Known(log, snaps)
           /\ RecoveryOf(log, snaps, 1).durable = Len(log)
           /\ RecoveryOf(log, snaps, 1).fresh <=> snaps = {}
<1>1. /\ log \in Seq(Row) /\ snaps \in SUBSET Snap /\ (\A s \in snaps : s.through <= Len(log))
      /\ SnapsGood(log, snaps) /\ 1 \in Epochs
  BY OneEpochIs DEF Typed, StoreTyped, One, OneKept, StoreGood
<1>2. PICK g : g = RecoveryOf(log, snaps, 1)
  OBVIOUS
<1>3. g.doc = Known(log, snaps)
  BY <1>1, <1>2, RecoveryKnows
<1>4. /\ g \in Recovered /\ g.durable <= Len(log)
      /\ g.fresh <=> \A s \in snaps : s.epoch # 1
      /\ \A i \in 1 .. Len(log) : log[i].epoch = 1 => i <= g.durable
  BY <1>1, <1>2, RecoveryFinds
<1>5. \A i \in 1 .. Len(log) : i <= g.durable
  BY <1>1, <1>4, OneEpochIs
<1>6. g.durable = Len(log)
  <2>1. PICK n, m : n = Len(log) /\ m = g.durable
    OBVIOUS
  <2>2. n \in Nat /\ m \in Nat /\ m <= n /\ \A i \in 1 .. n : i <= m
    BY <1>1, <1>4, <1>5, <2>1 DEF Recovered
  <2>3. n = 0 \/ n \in 1 .. n
    BY <2>2
  <2>4. n <= m
    BY <2>2, <2>3
  <2>. QED  BY <2>1, <2>2, <2>4
<1>7. \A s \in snaps : s.epoch = 1
  BY <1>1, OneEpochIs
<1>. QED  BY <1>2, <1>3, <1>4, <1>6, <1>7

LEMMA KnownOfNone == \A L : Known(L, {}) = Ups(L)
BY DEF Known, Docs

\* The first room of the epoch saves the file as its first snapshot.
LEMMA OpenedOne ==
    ASSUME OneEpoch, Typed, One, NEW c \in Clients, Opened(c)
    PROVE  One' /\ AllKept \subseteq AllKept'
<1>1. PICK got, doc :
        got = sock[c].got /\ doc = IF got.fresh THEN file \cup got.doc ELSE got.doc
  OBVIOUS
<1>2. PICK r \in RoomIds :
        /\ rooms[r] = Stopped
        /\ rooms' = [rooms EXCEPT ![r] = [Stopped EXCEPT !.epoch = sock[c].epoch, !.doc = doc,
                                                         !.durable = got.durable]]
        /\ hub' = [room |-> r, opener |-> None]
        /\ sock' = [sock EXCEPT ![c].pc = "room", ![c].room = r, ![c].got = Nothing]
  BY <1>1 DEF Opened
<1>3. sock[c].pc = "open" /\ sock[c].epoch = 1
  BY SocketIs, OneEpochIs DEF Opened
<1>4. hub.room = NoRoom /\ hub.opener = c /\ got = RecoveryOf(log, snaps, 1)
  BY <1>1, <1>3 DEF One, OneRoom
<1>5. \A q \in RoomIds : rooms[q] = Stopped
  BY <1>4, NoLiveRoom DEF One
<1>6. AllKept = Known(log, snaps)
  BY <1>4, NoLiveRoom DEF One
<1>7. got.doc = Known(log, snaps) /\ got.durable = Len(log) /\ (got.fresh <=> snaps = {})
  BY <1>4, RecoveryOfOne
<1>8. PICK A : A = [Stopped EXCEPT !.epoch = sock[c].epoch, !.doc = doc, !.durable = got.durable]
  OBVIOUS
<1>9. A.epoch = 1 /\ A.doc = doc /\ A.durable = Len(log) /\ A.pending = <<>>
  BY <1>3, <1>7, <1>8 DEF Stopped
<1>10. rooms'[r] = A /\ \A q \in RoomIds : q # r => rooms'[q] = Stopped
  BY <1>2, <1>5, <1>8 DEF Typed, RoomsTyped
<1>11. UNCHANGED <<epoch, file, log, synced, born, restore>>
  BY DEF Opened
<1>12. StoreGood(file, log, snaps')
  <2>1. CASE got.fresh
    <3>1. PICK s : s = [epoch |-> 1, through |-> 0, doc |-> file]
      OBVIOUS
    <3>2. snaps' = {s}
      BY <1>1, <1>3, <1>7, <2>1, <3>1 DEF Opened, Saved
    <3>3. \A i \in 1 .. s.through : FALSE
      BY <3>1
    <3>. QED  BY <3>2, <3>3 DEF One, OneKept, StoreGood, SnapsGood
  <2>2. CASE ~got.fresh
    BY <1>1, <2>2 DEF Opened, One, OneKept
  <2>. QED  BY <2>1, <2>2
<1>13. doc = Known(log, snaps') /\ Known(log, snaps) \subseteq doc
  <2>1. CASE got.fresh
    <3>1. PICK s : s = [epoch |-> 1, through |-> 0, doc |-> file]
      OBVIOUS
    <3>2. snaps' = {s}
      BY <1>1, <1>3, <1>7, <2>1, <3>1 DEF Opened, Saved
    <3>3. Known(log, {s}) = Ups(log) \cup file
      BY <3>1 DEF Known, Docs
    <3>4. Known(log, snaps) = Ups(log)
      BY <1>7, <2>1, KnownOfNone
    <3>. QED  BY <1>1, <1>7, <2>1, <3>2, <3>3, <3>4
  <2>2. CASE ~got.fresh
    <3>1. snaps' = snaps
      BY <1>1, <2>2 DEF Opened
    <3>. QED  BY <1>1, <1>7, <2>2, <3>1
  <2>. QED  BY <2>1, <2>2
<1>14. Agrees(A, log, snaps')
  BY <1>9, <1>13, UpsOfNothing DEF Agrees
<1>15. AllKept \subseteq AllKept'
  BY <1>6, <1>11, <1>13 DEF AllKept
<1>16. PICK t \in ShapedSocket : sock' = [sock EXCEPT ![c] = t] /\ SameRest(t, sock[c]) /\ t.pc = "room"
  BY ZenonT(60), <1>2, <1>3, OpenedIs
<1>17. sock'[c] = t /\ \A d \in Clients : d # c => sock'[d] = sock[d] /\ sock[d].pc # "open"
  <2>1. \A d \in Clients : d # c => sock[d].pc # "open"
    BY <1>4 DEF One, OneRoom
  <2>. QED  BY <1>16, <2>1 DEF Typed, SocketsTyped
<1>18. OneRoom'
  <2>1. hub'.room = r
    BY <1>2
  <2>2. \A d \in Clients : sock'[d].pc # "open"
    BY <1>16, <1>17
  <2>3. rooms'[r].epoch = 1
    BY <1>9, <1>10
  <2>4. restore' = NoRestore /\ epoch' = 1
    BY <1>11 DEF One, OneRoom
  <2>. QED  BY <1>10, <2>1, <2>2, <2>3, <2>4 DEF OneRoom
<1>19. OneKept'
  <2>1. \A d \in Clients : sock'[d].acks = sock[d].acks
    BY <1>16, <1>17 DEF SameRest
  <2>2. \A q \in RoomIds : Agrees(rooms'[q], log, snaps')
    BY <1>10, <1>14, StoppedAgrees
  <2>. QED  BY <1>11, <1>12, <1>15, <2>1, <2>2 DEF One, OneKept
<1>. QED  BY <1>11, <1>15, <1>18, <1>19, SilentTold DEF One

LEMMA JoinOne ==
    ASSUME OneEpoch, Typed, One, NEW c \in Clients, Join(c)
    PROVE  One' /\ AllKept \subseteq AllKept'
<1>1. PICK S : S = [sock EXCEPT ![c].pc = "reply", ![c].initial = rooms[sock[c].room].doc]
  OBVIOUS
<1>2. sock[c].pc = "room" /\ sock[c].room # NoRoom
  BY SocketIs DEF Join, Shaped
<1>3. Committed(sock[c].room, WorkOf(sock[c].room), S)
  BY <1>1, JoinCommits
<1>4. Follows(S) /\ S[c].acks = sock[c].acks /\ \A d \in Clients : d # c => S[d] = sock[d]
  <2>1. Follows(S)
    BY <1>1, <1>2, JoinIs
  <2>2. S[c].acks = sock[c].acks
    BY <1>1, <1>2, JoinIs
  <2>3. \A d \in Clients : d # c => S[d] = sock[d]
    BY <1>1 DEF Typed, SocketsTyped
  <2>. QED  BY <2>1, <2>2, <2>3
<1>5. \A d \in Clients : S[d].acks \subseteq AllKept
  BY <1>4 DEF One, OneKept
<1>6. sock[c].room \in RoomIds /\ rooms[sock[c].room].epoch # 0
  BY <1>2, InRoom DEF Epochs
<1>7. UNCHANGED <<synced, born, restore>>
  BY DEF Join
<1>. QED  BY <1>3, <1>4, <1>5, <1>6, <1>7, OneWork, CommittedOne

LEMMA SubscribeOne ==
    ASSUME OneEpoch, Typed, One, NEW c \in Clients, Subscribe(c)
    PROVE  One' /\ AllKept \subseteq AllKept'
<1>1. sock[c].pc = "reply" /\ sock[c].room # NoRoom /\ UNCHANGED <<synced, born, restore>>
  BY SocketIs DEF Subscribe, Shaped
<1>2. CASE local[c].epoch \in {0, sock[c].epoch}
  <2>1. PICK doc : doc = local[c].docs[sock[c].epoch] \cup sock[c].initial
    OBVIOUS
  <2>2. doc \in SUBSET Edits
    BY <1>1, <2>1, SocketIs DEF Typed, RestTyped, Browser
  <2>3. /\ sock' = [sock EXCEPT ![c].pc = "joined", ![c].initial = {}, ![c].out = <<doc>>]
        /\ UNCHANGED <<epoch, file, log, snaps, hub, rooms>>
    BY <1>2, <2>1 DEF Subscribe
  <2>4. PICK t \in ShapedSocket : sock' = [sock EXCEPT ![c] = t] /\ SameRest(t, sock[c]) /\ t.pc = "joined"
    BY <1>1, <2>2, <2>3, SubscribeIs
  <2>5. t.acks \subseteq AllKept
    BY <2>4 DEF SameRest, One, OneKept
  <2>. QED  BY <1>1, <2>3, <2>4, <2>5, SilentTold, SocketOne
<1>3. CASE ~(local[c].epoch \in {0, sock[c].epoch})
  BY <1>1, <1>3, LeaveOne DEF Subscribe
<1>. QED  BY <1>2, <1>3

LEMMA TypeOne ==
    ASSUME OneEpoch, Typed, One, NEW c \in Clients, NEW u \in Edits, Type(c, u)
    PROVE  One' /\ AllKept' = AllKept
<1>1. PICK t \in ShapedSocket :
        sock' = [sock EXCEPT ![c] = t] /\ SameRest(t, sock[c]) /\ t.pc = sock[c].pc /\ t.got = sock[c].got
  BY TypeIs
<1>2. t.acks \subseteq AllKept
  BY <1>1 DEF SameRest, One, OneKept
<1>3. UNCHANGED <<epoch, file, log, snaps, hub, rooms, synced, restore>>
  BY DEF Type
<1>4. ToldIsBorn'
  BY <1>3 DEF Type, Typed, RestTyped, One, ToldIsBorn
<1>. QED  BY <1>1, <1>2, <1>3, <1>4, SocketOne

LEMMA AuthorizeOne ==
    ASSUME OneEpoch, Typed, One, NEW c \in Clients, Authorize(c)
    PROVE  One' /\ AllKept \subseteq AllKept'
<1>1. sock[c].pc = "joined" /\ sock[c].room # NoRoom /\ UNCHANGED <<synced, born, restore>>
  BY SocketIs DEF Authorize, Shaped
<1>2. CASE epoch = sock[c].epoch
  <2>1. PICK t \in ShapedSocket : sock' = [sock EXCEPT ![c] = t] /\ SameRest(t, sock[c]) /\ t.pc = "joined"
    BY <1>2, AuthorizeIs
  <2>2. t.acks \subseteq AllKept
    BY <2>1 DEF SameRest, One, OneKept
  <2>3. UNCHANGED <<epoch, file, log, snaps, hub, rooms>>
    BY <1>2 DEF Authorize
  <2>. QED  BY <1>1, <2>1, <2>2, <2>3, SilentTold, SocketOne
<1>3. CASE epoch # sock[c].epoch
  BY <1>1, <1>3, LeaveOne DEF Authorize
<1>. QED  BY <1>2, <1>3

\* A repeated update is acknowledged at once: what it repeats is stored or pending.
LEMMA ApplyOne ==
    ASSUME OneEpoch, Typed, One, NEW c \in Clients, Apply(c)
    PROVE  One' /\ AllKept \subseteq AllKept'
<1>1. sock[c].hand # Nothing /\ sock[c].room # NoRoom /\ sock[c].pc = "joined"
  BY SocketIs DEF Apply, Shaped
<1>2. PICK r : r = sock[c].room
  OBVIOUS
<1>3. r \in RoomIds /\ rooms[r].epoch # 0
  BY <1>1, <1>2, InRoom DEF Epochs
<1>4. UNCHANGED <<synced, born, restore>>
  BY DEF Apply
<1>5. CASE sock[c].hand.ups \subseteq rooms[sock[c].room].doc
  <2>1. PICK t \in ShapedSocket :
          /\ sock' = [sock EXCEPT ![c] = t] /\ t.pc = sock[c].pc /\ t.acks = sock[c].acks \cup sock[c].hand.ups
    BY <1>5, RepeatIs
  <2>2. rooms[r].doc \subseteq AllKept
    <3>1. rooms[r].doc \subseteq Known(log, snaps) \cup Ups(rooms[r].pending)
      BY <1>3 DEF One, OneKept, Agrees
    <3>. QED  BY <1>3, <3>1, LiveRoom DEF One
  <2>3. t.acks \subseteq AllKept
    BY <1>2, <1>5, <2>1, <2>2 DEF One, OneKept
  <2>4. UNCHANGED <<epoch, file, log, snaps, hub, rooms>>
    BY <1>5 DEF Apply
  <2>. QED  BY <1>1, <1>4, <2>1, <2>3, <2>4, SilentTold, SocketOne
<1>6. CASE ~(sock[c].hand.ups \subseteq rooms[sock[c].room].doc)
  <2>1. PICK S : S = ToldOf(c)
    OBVIOUS
  <2>2. Committed(r, KeptWork(c), S)
    BY <1>2, <1>6, <2>1, ApplyCommits
  <2>3. KeptWork(c) \in OneWorks(r, AllKept)
    BY <1>1, <1>2, OneKeeps
  <2>4. Follows(S)
    BY <1>1, <2>1, ToldIs
  <2>5. \A d \in Clients : S[d].acks = sock[d].acks
    BY <1>1, <2>1, ToldIs
  <2>6. \A d \in Clients : S[d].acks \subseteq AllKept
    BY <2>5 DEF One, OneKept
  <2>. QED  BY <1>3, <1>4, <2>2, <2>3, <2>4, <2>6, CommittedOne
<1>. QED  BY <1>5, <1>6

LEMMA DeliverOne ==
    ASSUME OneEpoch, Typed, Fence, One, NEW c \in Clients, Deliver(c)
    PROVE  One' /\ AllKept' = AllKept
<1>1. PICK t \in ShapedSocket : sock' = [sock EXCEPT ![c] = t] /\ t.pc = "joined" /\ t.acks = {}
  BY DeliverIs
<1>2. UNCHANGED <<epoch, file, log, snaps, hub, rooms, born, restore>>
  BY DEF Deliver
<1>3. \A u \in sock[c].acks : born[u] # 0
  BY KeptIsBorn DEF One, OneKept
<1>4. ToldIsBorn'
  <2>1. synced' = [synced EXCEPT ![c] = synced[c] \cup sock[c].acks]
    BY DEF Deliver
  <2>2. \A d \in Clients : synced'[d] \subseteq synced[d] \cup sock[c].acks /\ (d # c => synced'[d] = synced[d])
    BY <2>1 DEF Typed, RestTyped
  <2>3. ASSUME NEW d \in Clients, NEW u \in synced'[d]
        PROVE  born[u] # 0
    <3>1. u \in synced[d] \/ u \in sock[c].acks
      BY <2>2, <2>3
    <3>. QED  BY <1>3, <3>1 DEF One, ToldIsBorn
  <2>. QED  BY <1>2, <2>3 DEF ToldIsBorn
<1>. QED  BY <1>1, <1>2, <1>4, SocketOne

LEMMA GoneOne ==
    ASSUME OneEpoch, Typed, One, NEW c \in Clients, EpochNotice(c) \/ Drop(c)
    PROVE  One' /\ AllKept \subseteq AllKept'
<1>1. Leave(c) /\ UNCHANGED <<synced, born, restore>>
  BY DEF EpochNotice, Drop
<1>2. sock[c].room # NoRoom
  BY SocketIs DEF EpochNotice, Drop, Shaped
<1>. QED  BY <1>1, <1>2, LeaveOne

LEMMA TickOne ==
    ASSUME OneEpoch, Typed, One, NEW r \in RoomIds, Tick(r) \/ Flush(r)
    PROVE  One' /\ AllKept \subseteq AllKept'
<1>1. Committed(r, WorkOf(r), sock) /\ UNCHANGED <<synced, born, restore>>
  BY TickCommits DEF Tick, Flush
<1>2. rooms[r].epoch # 0
  <2>1. CASE Tick(r)
    BY <2>1, StoppedTyped DEF Tick, Typed, RoomsTyped
  <2>2. CASE Flush(r) /\ hub.room = r
    BY <2>2 DEF RoomIds, NoRoom, One, OneRoom
  <2>3. CASE Flush(r) /\ hub.room # r
    <3>1. PICK c \in Clients : sock[c].room = r
      BY <2>3 DEF Flush, Members
    <3>2. sock[c].room # NoRoom
      BY <3>1 DEF RoomIds, NoRoom
    <3>. QED  BY <3>1, <3>2, InRoom DEF Epochs
  <2>. QED  BY <2>1, <2>2, <2>3
<1>3. WorkOf(r) \in OneWorks(r, AllKept)
  BY <1>2, OneWork
<1>4. Follows(sock) /\ \A c \in Clients : sock[c].acks \subseteq AllKept
  BY FollowsSame DEF One, OneKept
<1>. QED  BY <1>1, <1>2, <1>3, <1>4, CommittedOne

LEMMA NoRestoration == OneEpoch /\ One => ~Restoration
<1>. SUFFICES ASSUME OneEpoch, One
     PROVE  ~Restoration
  OBVIOUS
<1>1. restore.pc = "idle" /\ epoch = 1 /\ ~(epoch < MaxEpoch)
  BY DEF One, OneRoom, NoRestore, OneEpoch
<1>. QED  BY <1>1 DEF Restoration, Barrier, CaptureExact, ApplyRestore, EpochChanged

LEMMA CrashOne ==
    ASSUME Typed, One, Crash
    PROVE  One'
<1>1. /\ UNCHANGED <<epoch, file, log, snaps, synced, born>> /\ hub'.room = NoRoom /\ restore' = NoRestore
      /\ (\A q \in RoomIds : rooms'[q] = Stopped) /\ \A c \in Clients : sock'[c] = Offline
  BY DEF Crash
<1>2. OneRoom'
  BY <1>1, OfflineTyped DEF One, OneRoom
<1>3. OneKept'
  BY <1>1, StoppedAgrees, OfflineTyped DEF One, OneKept
<1>. QED  BY <1>1, <1>2, <1>3, SilentTold DEF One

LEMMA NextOne ==
    ASSUME OneEpoch, Typed, Fence, One, [Next]_vars
    PROVE  One' /\ (~Crash => AllKept \subseteq AllKept')
<1>1. ASSUME NEW c \in Clients, Connect(c) \/ Serve(c) \/ OpenFails(c) \/ Drop(c)
      PROVE  One' /\ AllKept \subseteq AllKept'
  BY <1>1, PlainOne, OpenOne, OpenedOne, OpenFailsOne, JoinOne, SubscribeOne, AuthorizeOne, ApplyOne,
     DeliverOne, GoneOne DEF Serve
<1>2. ASSUME NEW c \in Clients, NEW u \in Edits, Type(c, u)
      PROVE  One' /\ AllKept \subseteq AllKept'
  BY <1>2, TypeOne
<1>3. ASSUME NEW r \in RoomIds, Tick(r) \/ Flush(r)
      PROVE  One' /\ AllKept \subseteq AllKept'
  BY <1>3, TickOne
<1>4. CASE Crash
  BY <1>4, CrashOne
<1>5. CASE UNCHANGED vars
  <2>1. AllKept' = AllKept
    BY <1>5 DEF vars, AllKept
  <2>. QED  BY <1>5, <2>1 DEF vars, One, OneRoom, OneKept, ToldIsBorn
<1>. QED  BY <1>1, <1>2, <1>3, <1>4, <1>5, NoRestoration DEF Next

LEMMA InitOne == Init => One
<1>. SUFFICES ASSUME Init
     PROVE  One
  OBVIOUS
<1>1. /\ restore = NoRestore /\ epoch = 1 /\ log = <<>> /\ snaps = {}
      /\ (\A q \in RoomIds : rooms[q] = Stopped) /\ (\A c \in Clients : sock[c] = Offline)
      /\ \A c \in Clients : synced[c] = {}
  BY DEF Init
<1>2. OneRoom
  BY <1>1, OfflineTyped DEF Init, OneRoom
<1>3. StoreGood(file, log, snaps)
  BY <1>1, UpsOfNothing DEF StoreGood, SnapsGood
<1>4. OneKept
  BY <1>1, <1>3, StoppedAgrees, OfflineTyped DEF OneKept
<1>. QED  BY <1>1, <1>2, <1>4 DEF One, ToldIsBorn

LEMMA OneAlways ==
    ASSUME OneEpoch
    PROVE  Spec => [](Typed /\ Fence /\ One)
<1>1. Init => One
  BY InitOne
<1>2. Typed /\ Fence /\ One /\ [Next]_vars => One'
  BY NextOne
<1>. QED  BY <1>1, <1>2, TypedAlways, FenceAlways, PTL DEF Spec

LEMMA LoggedIsKnown ==
    ASSUME OneEpoch, Typed
    PROVE  \A e : Logged(e) \subseteq Ups(log)
<1>1. \A e : LoggedIn(log, e) \subseteq Ups(log)
  BY DEF LoggedIn, Ups
<1>. QED  BY <1>1, RecoveryIs

\* While the epoch lasts, a restart finds every stored update, however often the server
\* crashed and the database refused a batch or a snapshot: a snapshot that covers a row
\* has its edits (SnapsGood), even one of a last leave whose flush failed.
THEOREM RoomLogRecovered ==
    ASSUME OneEpoch
    PROVE  Spec => []LogRecovered
<1>1. Typed /\ Fence /\ One => LogRecovered
  <2>. SUFFICES ASSUME Typed, One, NEW e \in Epochs
       PROVE  Logged(e) \subseteq Recovery(e).doc
    BY DEF LogRecovered
  <2>1. e = 1
    BY OneEpochIs
  <2>2. Recovery(1).doc = Known(log, snaps)
    BY RecoveryOfOne, RecoveryIs
  <2>. QED  BY <2>1, <2>2, LoggedIsKnown DEF Known
<1>. QED  BY <1>1, OneAlways, PTL

\* While the epoch lasts, the canonical file has every stored update: whoever writes it
\* does so with a document that has the whole log (Agrees).
THEOREM RoomFileHasTheLog ==
    ASSUME OneEpoch
    PROVE  Spec => []FileHasTheLog
<1>1. Typed /\ Fence /\ One => FileHasTheLog
  BY LoggedIsKnown DEF FileHasTheLog, One, OneKept, StoreGood
<1>. QED  BY <1>1, OneAlways, PTL

LEMMA Acknowledged ==
    ASSUME Next
    PROVE  synced' = synced \/ \E c \in Clients : synced' = [synced EXCEPT ![c] = synced[c] \cup sock[c].acks]
<1>1. ASSUME NEW c \in Clients, Connect(c) \/ Serve(c) \/ OpenFails(c) \/ Drop(c)
      PROVE  synced' = synced \/ synced' = [synced EXCEPT ![c] = synced[c] \cup sock[c].acks]
  BY <1>1 DEF Serve, Connect, OpenFails, Drop, FindRoom, OpenRoom, Opened, Join, Subscribe, Authorize, Apply,
              Deliver, EpochNotice
<1>2. ASSUME NEW c \in Clients, NEW u \in Edits, Type(c, u)
      PROVE  synced' = synced
  BY <1>2 DEF Type
<1>3. ASSUME NEW r \in RoomIds, Tick(r) \/ Flush(r)
      PROVE  synced' = synced
  BY <1>3 DEF Tick, Flush
<1>4. Restoration \/ Crash => synced' = synced
  BY DEF Restoration, Barrier, CaptureExact, ApplyRestore, EpochChanged, Crash
<1>. QED  BY <1>1, <1>2, <1>3, <1>4 DEF Next

LEMMA ToldOnlyAcks ==
    ASSUME Typed, [Next]_vars, NEW c \in Clients, NEW u \in synced'[c]
    PROVE  u \in synced[c] \/ u \in sock[c].acks
<1>1. synced \in [Clients -> SUBSET Edits]
  BY DEF Typed, RestTyped
<1>2. CASE UNCHANGED vars
  BY <1>2 DEF vars
<1>3. CASE Next
  BY <1>1, <1>3, Acknowledged
<1>. QED  BY <1>2, <1>3

\* While the epoch lasts, what a client was told is durable is stored or pending, and
\* stays so unless the process dies: the acknowledgement of a repeated update, which
\* does not wait, is of edits in the actor's document, and Agrees bounds that.
THEOREM RoomToldIsKept ==
    ASSUME OneEpoch
    PROVE  Spec => ToldIsKept
<1>. DEFINE Good == Typed /\ Fence /\ One
            Step == ~Crash /\ epoch' = epoch =>
                      \A u \in Told(epoch)' : u \in Kept(epoch)' \/ u \in Told(epoch) \ Kept(epoch)
            Same == Kept(epoch) = AllKept
<1>1. Good => Same
  BY KeptIs1
<1>2. Good /\ Same /\ Same' /\ [Next]_vars => [Step]_vars
  <2>. SUFFICES ASSUME Typed, Fence, One, Kept(epoch) = AllKept, Kept(epoch)' = AllKept', [Next]_vars,
                       ~Crash, epoch' = epoch, NEW u \in Told(epoch)'
       PROVE  u \in Kept(epoch)' \/ u \in Told(epoch) \ Kept(epoch)
    OBVIOUS
  <2>1. AllKept \subseteq AllKept'
    BY NextOne
  <2>2. PICK c \in Clients : u \in synced'[c]
    BY DEF Told
  <2>3. CASE u \in sock[c].acks
    BY <2>1, <2>3 DEF One, OneKept
  <2>4. CASE u \in synced[c]
    <3>1. CASE u \in AllKept
      BY <2>1, <3>1
    <3>2. CASE u \notin AllKept
      <4>1. born[u] # 0 /\ epoch = 1 /\ u \in Edits
        BY <2>4 DEF One, ToldIsBorn, OneRoom, Typed, RestTyped
      <4>2. born[u] = 1
        BY <4>1, RoomAssumption DEF Typed, RestTyped, OneEpoch
      <4>3. u \in Told(epoch)
        BY <2>4, <4>1, <4>2 DEF Told
      <4>. QED  BY <3>2, <4>3
    <3>. QED  BY <3>1, <3>2
  <2>. QED  BY <2>2, <2>3, <2>4, ToldOnlyAcks
<1>3. Spec => []Good
  BY OneAlways
<1>. QED  BY <1>1, <1>2, <1>3, PTL DEF Spec, ToldIsKept
=============================================================================
