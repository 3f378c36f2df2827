---------------------- MODULE CollaborationRoomProofs ----------------------
(***************************************************************************)
(* Proofs about the rooms of a file, for any edits, clients, rooms, epochs  *)
(* and faults: types, the fence between epochs and what a restoration       *)
(* replaces.                                                                *)
(***************************************************************************)
EXTENDS CollaborationRoomProperties, SequenceTheorems, WellFoundedInduction, TLAPS

-----------------------------------------------------------------------------
(* What is recovered, from any log L and snapshots S *)

LoggedIn(L, e) == UNION {L[i].ups : i \in {i \in 1 .. Len(L) : L[i].epoch = e}}
TailOf(L, e, k) == {i \in 1 .. Len(L) : L[i].epoch = e /\ i > k}
RecoveryOf(L, S, e) ==
    LET of   == {s \in S : s.epoch = e}
        base == IF of = {} THEN [through |-> 0, doc |-> {}] ELSE Latest(of)
        tail == TailOf(L, e, base.through)
    IN  [doc     |-> base.doc \cup UNION {L[i].ups : i \in tail},
         durable |-> IF tail = {} THEN base.through ELSE CHOOSE i \in tail : \A j \in tail : j <= i,
         fresh   |-> of = {}]

LEMMA RecoveryIs == \A e : Recovery(e) = RecoveryOf(log, snaps, e) /\ Logged(e) = LoggedIn(log, e)
BY DEF Recovery, RecoveryOf, TailOf, SnapsOf, Logged, LoggedIn

LEMMA SmallestIn ==
    ASSUME NEW T \in SUBSET Nat, T # {}
    PROVE  \E n \in T : \A m \in T : n <= m
<1>1. \A x, y \in Nat : <<y, x>> \in OpToRel(<, Nat) <=> y < x
  BY DEF OpToRel
<1>2. PICK n \in T : \A m \in T : ~(<<m, n>> \in OpToRel(<, Nat))
  BY NatLessThanWellFounded, WFMin
<1>3. \A m \in T : ~(m < n)
  BY <1>1, <1>2
<1>. QED  BY <1>3

\* A set of numbers up to k has a largest one.
LEMMA LargestIn ==
    ASSUME NEW k \in Nat, NEW T \in SUBSET (0 .. k), T # {}
    PROVE  \E n \in T : \A m \in T : m <= n
<1>. DEFINE U == {k - m : m \in T}
<1>1. U \in SUBSET Nat /\ U # {}
  <2>1. \A m \in T : k - m \in Nat
    OBVIOUS
  <2>. QED  BY <2>1
<1>2. PICK u \in U : \A v \in U : u <= v
  BY <1>1, SmallestIn
<1>3. PICK n \in T : u = k - n
  BY <1>2
<1>4. \A m \in T : k - n <= k - m
  BY <1>2, <1>3
<1>. QED  BY <1>4

LEMMA LatestIsThere ==
    ASSUME NEW k \in Nat, NEW S \in SUBSET Snap, S # {}, \A s \in S : s.through <= k
    PROVE  Latest(S) \in S /\ \A t \in S : t.through <= Latest(S).through
<1>1. {s.through : s \in S} \in SUBSET (0 .. k) /\ {s.through : s \in S} # {}
  BY DEF Snap
<1>2. PICK n \in {s.through : s \in S} : \A m \in {s.through : s \in S} : m <= n
  BY <1>1, LargestIn
<1>3. \E s \in S : \A t \in S : t.through <= s.through
  BY <1>2
<1>. QED  BY <1>3 DEF Latest

\* The latest snapshot of the epoch and the rows after it; all rows without one.
LEMMA RecoveryFinds ==
    ASSUME NEW L \in Seq(Row), NEW S \in SUBSET Snap, \A s \in S : s.through <= Len(L), NEW e \in Epochs
    PROVE  /\ RecoveryOf(L, S, e) \in Recovered /\ RecoveryOf(L, S, e).durable <= Len(L)
           /\ RecoveryOf(L, S, e).fresh <=> \A s \in S : s.epoch # e
           /\ \A i \in 1 .. Len(L) : L[i].epoch = e => i <= RecoveryOf(L, S, e).durable
<1>. DEFINE of == {s \in S : s.epoch = e}
            base == IF of = {} THEN [through |-> 0, doc |-> {}] ELSE Latest(of)
            tail == TailOf(L, e, base.through)
            top == IF tail = {} THEN base.through ELSE CHOOSE i \in tail : \A j \in tail : j <= i
            doc == base.doc \cup UNION {L[i].ups : i \in tail}
<1>1. /\ RecoveryOf(L, S, e).doc = doc /\ RecoveryOf(L, S, e).durable = top
      /\ RecoveryOf(L, S, e).fresh = (of = {}) /\ RecoveryOf(L, S, e) = [doc |-> doc, durable |-> top, fresh |-> of = {}]
  BY DEF RecoveryOf
<1>2. Len(L) \in Nat /\ \A i \in 1 .. Len(L) : L[i] \in Row
  OBVIOUS
<1>3. of # {} => base \in of /\ \A t \in of : t.through <= base.through
  BY <1>2, LatestIsThere
<1>4. base.through \in 0 .. Len(L) /\ base.doc \in SUBSET Edits
  <2>1. CASE of = {}
    BY <1>2, <2>1
  <2>2. CASE of # {}
    <3>1. base \in Snap /\ base.through <= Len(L)
      BY <1>3, <2>2
    <3>. HIDE DEF base
    <3>. QED  BY <1>2, <3>1 DEF Snap
  <2>. QED  BY <2>1, <2>2
<1>5. tail \in SUBSET (0 .. Len(L)) /\ \A i \in tail : i > base.through
  BY <1>2 DEF TailOf
<1>6. tail # {} => \E i \in tail : \A j \in tail : j <= i
  BY <1>2, <1>5, LargestIn
<1>7. top \in 0 .. Len(L) /\ \A j \in tail : j <= top
  BY <1>4, <1>5, <1>6
<1>8. doc \in SUBSET Edits
  BY <1>2, <1>4 DEF TailOf, Row
<1>9. \A i \in 1 .. Len(L) : L[i].epoch = e => i <= top
  <2>. SUFFICES ASSUME NEW i \in 1 .. Len(L), L[i].epoch = e
       PROVE  i <= top
    OBVIOUS
  <2>1. CASE i > base.through
    BY <1>7, <2>1 DEF TailOf
  <2>2. CASE ~(i > base.through)
    <3>1. top >= base.through
      <4>1. tail # {} => top \in tail
        BY <1>6
      <4>. HIDE DEF base, tail
      <4>2. tail = {} => top = base.through
        OBVIOUS
      <4>. HIDE DEF top
      <4>. QED  BY <1>4, <1>5, <1>7, <4>1, <4>2
    <3>. HIDE DEF base, top
    <3>. QED  BY <1>2, <1>4, <1>7, <2>2, <3>1
  <2>. QED  BY <2>1, <2>2
<1>. HIDE DEF doc, top
<1>11. RecoveryOf(L, S, e) \in Recovered
  BY <1>1, <1>7, <1>8 DEF Recovered
<1>13. top <= Len(L)
  BY <1>7
<1>14. (of = {}) <=> \A s \in S : s.epoch # e
  OBVIOUS
<1>. HIDE DEF tail, base, of
<1>. QED  BY <1>1, <1>9, <1>11, <1>13, <1>14

LoggedAfter(L, e, k) == UNION {L[i].ups : i \in TailOf(L, e, k)}
LatestOf(S, e) == Latest({s \in S : s.epoch = e})

LEMMA RecoveredRows ==
    ASSUME NEW L, NEW S, NEW e, \A s \in S : s.epoch # e
    PROVE  RecoveryOf(L, S, e).doc = LoggedIn(L, e)
<1>. DEFINE of == {s \in S : s.epoch = e}
            base == IF of = {} THEN [through |-> 0, doc |-> {}] ELSE Latest(of)
            tail == TailOf(L, e, base.through)
<1>1. RecoveryOf(L, S, e).doc = base.doc \cup UNION {L[i].ups : i \in tail}
  BY DEF RecoveryOf
<1>2. base.doc = {} /\ base.through = 0
  OBVIOUS
<1>3. tail = {i \in 1 .. Len(L) : L[i].epoch = e}
  BY <1>2 DEF TailOf
<1>. HIDE DEF base, tail
<1>. QED  BY <1>1, <1>2, <1>3 DEF LoggedIn

LEMMA RecoveredSnap ==
    ASSUME NEW L \in Seq(Row), NEW S \in SUBSET Snap, \A s \in S : s.through <= Len(L), NEW e,
           \E s \in S : s.epoch = e
    PROVE  /\ LatestOf(S, e) \in S /\ LatestOf(S, e).epoch = e
           /\ \A t \in S : t.epoch = e => t.through <= LatestOf(S, e).through
           /\ RecoveryOf(L, S, e).doc = LatestOf(S, e).doc \cup LoggedAfter(L, e, LatestOf(S, e).through)
<1>. DEFINE of == {s \in S : s.epoch = e}
<1>1. Latest(of) \in of /\ \A t \in of : t.through <= Latest(of).through
  <2>1. of \in SUBSET Snap /\ of # {} /\ \A s \in of : s.through <= Len(L) /\ Len(L) \in Nat
    OBVIOUS
  <2>. HIDE DEF of
  <2>2. Len(L) \in Nat
    OBVIOUS
  <2>. QED  BY <2>1, <2>2, LatestIsThere
<1>2. RecoveryOf(L, S, e).doc = Latest(of).doc \cup LoggedAfter(L, e, Latest(of).through)
  BY DEF RecoveryOf, LoggedAfter
<1>3. PICK s : s = Latest(of)
  OBVIOUS
<1>4. s \in S /\ s.epoch = e /\ \A t \in S : t.epoch = e => t.through <= s.through
  BY <1>1, <1>3
<1>5. s = LatestOf(S, e)
  BY <1>3 DEF LatestOf
<1>. QED  BY <1>2, <1>3, <1>4, <1>5

-----------------------------------------------------------------------------
(* What an operation of an actor may do *)

Work == [room : Actor, file : SUBSET Edits, log : Seq(Row), snaps : SUBSET Snap, acks : SUBSET Update]
Rows(w) == [i \in 1 .. Len(w.room.pending) |-> [epoch |-> w.room.epoch, ups |-> w.room.pending[i].ups]]

\* What holds of the work before an operation, and is kept by a batch, by a snapshot
\* and by the reset of the counter, holds after it.
Closed(G) ==
    \A w \in G : /\ w.room.pending # <<>> /\ w.room.epoch = epoch => Persisted(w) \in G
                 /\ w.room.durable > 0 => Snapped(w) \in G
                 /\ Reset(w) \in G
Outcome(k, w) == \A G : Closed(G) /\ k \in G => w \in G

LEMMA FlushedOutcome ==
    ASSUME NEW k, NEW w \in Flushed(k)
    PROVE  Outcome(k, w)
<1>1. w = k \/ (w = Persisted(k) /\ k.room.pending # <<>> /\ k.room.epoch = epoch)
  BY DEF Flushed
<1>. QED  BY <1>1 DEF Outcome, Closed

LEMMA SnappedOutcome ==
    ASSUME NEW k, k.room.durable > 0
    PROVE  Outcome(k, Reset(Snapped(k))) /\ Outcome(k, Reset(k))
<1>1. ASSUME NEW G, Closed(G), k \in G
      PROVE  Reset(Snapped(k)) \in G /\ Reset(k) \in G
  <2>1. Snapped(k) \in G
    BY <1>1 DEF Closed
  <2>. QED  BY <1>1, <2>1 DEF Closed
<1>. QED  BY <1>1 DEF Outcome

LEMMA CheckedOutcome ==
    ASSUME NEW k, NEW w \in Checked(k)
    PROVE  Outcome(k, w)
<1>1. w = k \/ (w = Reset(Snapped(k)) /\ k.room.durable > 0)
  BY DEF Checked
<1>2. Outcome(k, k)
  BY DEF Outcome
<1>. QED  BY <1>1, <1>2, SnappedOutcome

LEMMA OutcomeOfOutcome ==
    ASSUME NEW k, NEW v, NEW w, Outcome(k, v), Outcome(v, w)
    PROVE  Outcome(k, w)
BY DEF Outcome

\* The work w that room r began with, or an outcome of it, with the sockets S
Committed(r, k, S) == \E w : Outcome(k, w) /\ Commit(r, w, S)

LeftWork(c) == [WorkOf(sock[c].room) EXCEPT !.room.pending = Orphaned(rooms[sock[c].room].pending, c)]
KeptWork(c) ==
    [WorkOf(sock[c].room) EXCEPT
        !.room.doc = rooms[sock[c].room].doc \cup sock[c].hand.ups,
        !.room.pending = Append(rooms[sock[c].room].pending, [ups |-> sock[c].hand.ups, client |-> c])]
Idled(c) == [sock EXCEPT ![c].hand = Nothing]
ToldOf(c) ==
    [d \in Clients |-> IF d # c /\ sock[d].pc = "joined" /\ sock[d].room = sock[c].room
                       THEN [Idled(c)[d] EXCEPT !.events = sock[d].events \cup sock[c].hand.ups]
                       ELSE Idled(c)[d]]

LEMMA TickCommits == \A r \in RoomIds : Tick(r) \/ Flush(r) => Committed(r, WorkOf(r), sock)
<1>. SUFFICES ASSUME NEW r \in RoomIds, Tick(r) \/ Flush(r)
     PROVE  Committed(r, WorkOf(r), sock)
  OBVIOUS
<1>1. CASE Tick(r)
  BY <1>1, FlushedOutcome DEF Tick, Committed
<1>2. CASE Flush(r)
  <2>1. PICK w \in Flushed(WorkOf(r)) : \E v \in Checked(w) : Commit(r, v, sock)
    BY <1>2 DEF Flush
  <2>2. PICK v \in Checked(w) : Commit(r, v, sock)
    BY <2>1
  <2>3. Outcome(WorkOf(r), v)
    BY FlushedOutcome, CheckedOutcome, OutcomeOfOutcome
  <2>. QED  BY <2>2, <2>3 DEF Committed
<1>. QED  BY <1>1, <1>2

LEMMA LeaveCommits ==
    ASSUME NEW c \in Clients, Leave(c)
    PROVE  Committed(sock[c].room, LeftWork(c), [sock EXCEPT ![c] = Offline])
<1>. DEFINE r == sock[c].room
            rest == [sock EXCEPT ![c] = Offline]
            last == Members(r, rest) = {}
<1>1. PICK w \in IF last THEN Flushed(LeftWork(c)) ELSE {LeftWork(c)} :
      \E v \in IF last /\ w.room.durable > 0
               THEN {Reset(Snapped(w))} \cup {Reset(x) : x \in {y \in {w} : "database" \in Faults}}
               ELSE {w} :
      \E u \in Checked(v) : Commit(r, u, rest)
  BY DEF Leave, LeftWork
<1>2. PICK v \in IF last /\ w.room.durable > 0
                 THEN {Reset(Snapped(w))} \cup {Reset(x) : x \in {y \in {w} : "database" \in Faults}}
                 ELSE {w} :
      \E u \in Checked(v) : Commit(r, u, rest)
  BY <1>1
<1>3. PICK u \in Checked(v) : Commit(r, u, rest)
  BY <1>2
<1>4. Outcome(LeftWork(c), LeftWork(c)) /\ Outcome(w, w)
  BY DEF Outcome
<1>5. Outcome(LeftWork(c), w)
  BY <1>4, FlushedOutcome
<1>6. Outcome(w, v)
  <2>1. v = w \/ (w.room.durable > 0 /\ (v = Reset(Snapped(w)) \/ v = Reset(w)))
    OBVIOUS
  <2>. QED  BY <2>1, <1>4, SnappedOutcome
<1>7. Outcome(LeftWork(c), u)
  BY <1>5, <1>6, CheckedOutcome, OutcomeOfOutcome
<1>. QED  BY <1>3, <1>7 DEF Committed

LEMMA JoinCommits ==
    ASSUME NEW c \in Clients, Join(c)
    PROVE  Committed(sock[c].room, WorkOf(sock[c].room),
                     [sock EXCEPT ![c].pc = "reply", ![c].initial = rooms[sock[c].room].doc])
BY CheckedOutcome DEF Join, Committed

LEMMA ApplyCommits ==
    ASSUME NEW c \in Clients, Apply(c), ~(sock[c].hand.ups \subseteq rooms[sock[c].room].doc)
    PROVE  Committed(sock[c].room, KeptWork(c), ToldOf(c))
<1>1. PICK w \in {KeptWork(c)} \cup Flushed(KeptWork(c)) : \E v \in Checked(w) : Commit(sock[c].room, v, ToldOf(c))
  BY DEF Apply, KeptWork, ToldOf, Idled
<1>2. PICK v \in Checked(w) : Commit(sock[c].room, v, ToldOf(c))
  BY <1>1
<1>3. Outcome(KeptWork(c), w)
  BY FlushedOutcome DEF Outcome
<1>4. Outcome(KeptWork(c), v)
  BY <1>3, CheckedOutcome, OutcomeOfOutcome
<1>. QED  BY <1>2, <1>4 DEF Committed

LEMMA BarrierCommits ==
    ASSUME Barrier, hub.room # NoRoom
    PROVE  Committed(hub.room, WorkOf(hub.room), sock)
<1>1. PICK w \in Flushed(WorkOf(hub.room)) : \E v \in Checked(w) : Commit(hub.room, v, sock)
  BY DEF Barrier
<1>2. PICK v \in Checked(w) : Commit(hub.room, v, sock)
  BY <1>1
<1>3. Outcome(WorkOf(hub.room), v)
  BY FlushedOutcome, CheckedOutcome, OutcomeOfOutcome
<1>. QED  BY <1>2, <1>3 DEF Committed

-----------------------------------------------------------------------------
(* The fields of a work, after each kind of operation *)

LEMMA PersistedIs ==
    ASSUME NEW w \in Work
    PROVE  Persisted(w) =
             [room |-> [epoch |-> w.room.epoch, doc |-> w.room.doc,
                        durable |-> Len(w.log) + Len(w.room.pending), pending |-> <<>>,
                        since |-> IF w.room.since + Len(w.room.pending) > SnapshotEvery THEN SnapshotEvery
                                  ELSE w.room.since + Len(w.room.pending)],
              file |-> w.room.doc, log |-> w.log \o Rows(w), snaps |-> w.snaps,
              acks |-> {w.room.pending[i] : i \in 1 .. Len(w.room.pending)}]
<1>. DEFINE n == Len(w.room.pending)
            since == IF w.room.since + n > SnapshotEvery THEN SnapshotEvery ELSE w.room.since + n
<1>1. PICK R : R = w.room
  OBVIOUS
<1>2. R \in Actor
  BY <1>1 DEF Work
<1>3. PICK s : s = since
  OBVIOUS
<1>4. PICK d : d = Len(w.log) + n
  OBVIOUS
<1>5. PICK A : A = [R EXCEPT !.pending = <<>>, !.durable = d, !.since = s]
  OBVIOUS
<1>6. A = [epoch |-> R.epoch, doc |-> R.doc, durable |-> d, pending |-> <<>>, since |-> s]
  BY <1>2, <1>5 DEF Actor
<1>7. PICK acks : acks = {w.room.pending[i] : i \in 1 .. n}
  OBVIOUS
<1>8. PICK L : L = w.log \o Rows(w)
  OBVIOUS
<1>9. Persisted(w) = [w EXCEPT !.log = L, !.file = R.doc, !.acks = acks, !.room = A]
  BY <1>1, <1>3, <1>4, <1>5, <1>7, <1>8 DEF Persisted, Rows
<1>10. Persisted(w) = [room |-> A, file |-> R.doc, log |-> L, snaps |-> w.snaps, acks |-> acks]
  BY <1>9 DEF Work
<1>. QED  BY <1>1, <1>3, <1>4, <1>6, <1>7, <1>8, <1>10

LEMMA PersistedFields ==
    ASSUME NEW w \in Work, NEW v, v = Persisted(w)
    PROVE  /\ v.file = w.room.doc /\ v.log = w.log \o Rows(w) /\ v.snaps = w.snaps
           /\ v.acks = {w.room.pending[i] : i \in 1 .. Len(w.room.pending)}
           /\ v.room.epoch = w.room.epoch /\ v.room.doc = w.room.doc /\ v.room.pending = <<>>
           /\ v.room.durable = Len(w.log) + Len(w.room.pending)
<1>1. PICK m, n, L, acks :
        /\ m = Len(w.log) + Len(w.room.pending) /\ L = w.log \o Rows(w)
        /\ n = (IF w.room.since + Len(w.room.pending) > SnapshotEvery THEN SnapshotEvery
                ELSE w.room.since + Len(w.room.pending))
        /\ acks = {w.room.pending[i] : i \in 1 .. Len(w.room.pending)}
  OBVIOUS
<1>2. v = [room |-> [epoch |-> w.room.epoch, doc |-> w.room.doc, durable |-> m, pending |-> <<>>, since |-> n],
           file |-> w.room.doc, log |-> L, snaps |-> w.snaps, acks |-> acks]
  BY <1>1, PersistedIs
<1>3. /\ v.file = w.room.doc /\ v.log = L /\ v.snaps = w.snaps /\ v.acks = acks
      /\ v.room.epoch = w.room.epoch /\ v.room.doc = w.room.doc /\ v.room.pending = <<>>
      /\ v.room.durable = m
  BY <1>2
<1>. QED  BY <1>1, <1>3

LEMMA SnappedIs ==
    ASSUME NEW w \in Work
    PROVE  Snapped(w) =
             [room |-> w.room, file |-> w.file, log |-> w.log, acks |-> w.acks,
              snaps |-> Saved(w.snaps, [epoch |-> w.room.epoch, through |-> w.room.durable, doc |-> w.room.doc])]
BY DEF Snapped, Work

LEMMA ResetIs ==
    ASSUME NEW w \in Work
    PROVE  Reset(w) =
             [room |-> [epoch |-> w.room.epoch, doc |-> w.room.doc, durable |-> w.room.durable,
                        pending |-> w.room.pending, since |-> 0],
              file |-> w.file, log |-> w.log, snaps |-> w.snaps, acks |-> w.acks]
BY DEF Reset, Work, Actor

LEMMA WorkIs ==
    \A r \in RoomIds :
        WorkOf(r) = [room |-> rooms[r], file |-> file, log |-> log, snaps |-> snaps, acks |-> {}]
BY DEF WorkOf

LEMMA LeftIs ==
    ASSUME NEW c \in Clients, rooms[sock[c].room] \in Actor
    PROVE  LeftWork(c) =
             LET R == rooms[sock[c].room]
             IN  [room |-> [epoch |-> R.epoch, doc |-> R.doc, durable |-> R.durable,
                            pending |-> Orphaned(R.pending, c), since |-> R.since],
                  file |-> file, log |-> log, snaps |-> snaps, acks |-> {}]
<1>1. PICK R : R = rooms[sock[c].room]
  OBVIOUS
<1>2. PICK P : P = Orphaned(R.pending, c)
  OBVIOUS
<1>3. PICK k : k = [room |-> R, file |-> file, log |-> log, snaps |-> snaps, acks |-> {}]
  OBVIOUS
<1>4. LeftWork(c) = [k EXCEPT !.room = [R EXCEPT !.pending = P]]
  BY <1>1, <1>2, <1>3 DEF LeftWork, WorkOf
<1>5. [R EXCEPT !.pending = P] = [epoch |-> R.epoch, doc |-> R.doc, durable |-> R.durable,
                                  pending |-> P, since |-> R.since]
  BY <1>1 DEF Actor
<1>. QED  BY <1>1, <1>2, <1>3, <1>4, <1>5

LEMMA KeptIs ==
    ASSUME NEW c \in Clients, rooms[sock[c].room] \in Actor
    PROVE  KeptWork(c) =
             LET R == rooms[sock[c].room]
             IN  [room |-> [epoch |-> R.epoch, doc |-> R.doc \cup sock[c].hand.ups, durable |-> R.durable,
                            pending |-> Append(R.pending, [ups |-> sock[c].hand.ups, client |-> c]),
                            since |-> R.since],
                  file |-> file, log |-> log, snaps |-> snaps, acks |-> {}]
<1>1. PICK R : R = rooms[sock[c].room]
  OBVIOUS
<1>2. PICK P : P = Append(R.pending, [ups |-> sock[c].hand.ups, client |-> c])
  OBVIOUS
<1>3. PICK k : k = [room |-> R, file |-> file, log |-> log, snaps |-> snaps, acks |-> {}]
  OBVIOUS
<1>4. PICK D : D = R.doc \cup sock[c].hand.ups
  OBVIOUS
<1>5. KeptWork(c) = [k EXCEPT !.room.doc = D, !.room.pending = P]
  BY <1>1, <1>2, <1>3, <1>4 DEF KeptWork, WorkOf
<1>6. [k EXCEPT !.room.doc = D, !.room.pending = P] = [k EXCEPT !.room = [R EXCEPT !.doc = D, !.pending = P]]
  BY <1>1, <1>3
<1>7. [R EXCEPT !.doc = D, !.pending = P] = [epoch |-> R.epoch, doc |-> D, durable |-> R.durable,
                                  pending |-> P, since |-> R.since]
  <2>1. [R EXCEPT !.doc = D] = [epoch |-> R.epoch, doc |-> D, durable |-> R.durable,
                                pending |-> R.pending, since |-> R.since]
    BY <1>1 DEF Actor
  <2>2. PICK R1 : R1 = [R EXCEPT !.doc = D]
    OBVIOUS
  <2>3. [R EXCEPT !.doc = D, !.pending = P] = [R1 EXCEPT !.pending = P]
    BY <2>2
  <2>4. R1 = [epoch |-> R1.epoch, doc |-> D, durable |-> R1.durable, pending |-> R1.pending, since |-> R1.since]
        /\ R1.epoch = R.epoch /\ R1.durable = R.durable /\ R1.since = R.since
    BY <2>1, <2>2
  <2>5. [R1 EXCEPT !.pending = P] = [epoch |-> R1.epoch, doc |-> D, durable |-> R1.durable,
                                     pending |-> P, since |-> R1.since]
    BY <2>4
  <2>. QED  BY <2>3, <2>4, <2>5
<1>. QED  BY <1>1, <1>2, <1>3, <1>4, <1>5, <1>6, <1>7

-----------------------------------------------------------------------------
(* Types *)

\* A socket, by where its handler is
Shaped(s) ==
    /\ s.pc # "off" => s.epoch # 0
    /\ s.pc \in {"room", "reply", "joined"} <=> s.room # NoRoom
    /\ s.pc = "open" => s.got \in Recovered
    /\ s.hand # Nothing \/ s.stale => s.pc = "joined"
ShapedSocket == {s \in Socket : Shaped(s)}

StoreTyped ==
    /\ epoch \in Epochs /\ file \subseteq Edits /\ log \in Seq(Row) /\ snaps \subseteq Snap
    /\ \A s \in snaps : s.through <= Len(log)
RoomsTyped ==
    /\ rooms \in [RoomIds -> Actor]
    /\ \A r \in RoomIds : rooms[r].durable <= Len(log) /\ (rooms[r].epoch = 0 => rooms[r] = Stopped)
SocketsTyped ==
    /\ sock \in [Clients -> ShapedSocket]
    /\ \A c \in Clients : sock[c].pc = "open" => sock[c].got.durable <= Len(log)
\* A handle is of a room of the epoch that the socket's handler read.
HandlesTyped == \A c \in Clients : sock[c].room # NoRoom => rooms[sock[c].room].epoch = sock[c].epoch
RestTyped ==
    /\ hub \in [room : RoomIds \cup {NoRoom}, opener : Clients \cup {None}]
    /\ local \in [Clients -> Browser] /\ synced \in [Clients -> SUBSET Edits]
    /\ born \in [Edits -> 0 .. MaxEpoch]
    /\ restore \in [pc : {"idle", "flushed", "captured", "applied"}, head : Nat, text : SUBSET Edits]
Typed == StoreTyped /\ RoomsTyped /\ SocketsTyped /\ HandlesTyped /\ RestTyped

LEMMA TypedImplies == Typed => TypeOK
BY DEF Typed, StoreTyped, RoomsTyped, SocketsTyped, RestTyped, ShapedSocket, TypeOK

LEMMA StoppedTyped == Stopped \in Actor /\ Stopped.epoch = 0 /\ Stopped.durable = 0 /\ Stopped.doc = {} /\ Stopped.pending = <<>>
BY RoomAssumption, EmptySeq DEF Stopped, Actor

LEMMA OfflineTyped == Offline \in ShapedSocket /\ Offline.room = NoRoom /\ Offline.pc = "off" /\ Offline.acks = {}
<1>1. /\ Offline.pc = "off" /\ Offline.room = NoRoom /\ Offline.hand = Nothing /\ Offline.stale = FALSE
      /\ Offline.acks = {}
  BY DEF Offline
<1>2. <<>> \in Seq(SUBSET Edits) /\ 0 \in 0 .. MaxEpoch
  BY RoomAssumption, EmptySeq
<1>3. Offline \in Socket
  BY <1>2 DEF Offline, Socket
<1>4. Shaped(Offline)
  BY <1>1 DEF Shaped
<1>. QED  BY <1>1, <1>3, <1>4 DEF ShapedSocket

LEMMA InitTyped == Init => Typed
<1>. SUFFICES ASSUME Init
     PROVE  Typed
  OBVIOUS
<1>1. StoreTyped
  BY RoomAssumption, EmptySeq DEF Init, StoreTyped, Epochs
<1>2. RoomsTyped
  BY StoppedTyped, EmptySeq DEF Init, RoomsTyped
<1>3. SocketsTyped /\ HandlesTyped
  BY OfflineTyped DEF Init, SocketsTyped, HandlesTyped
<1>4. RestTyped
  BY RoomAssumption DEF Init, RestTyped, Browser, NoRestore, Epochs
<1>. QED  BY <1>1, <1>2, <1>3, <1>4 DEF Typed

\* What the operations of room r keep
SoundWorks(r) ==
    {w \in Work : /\ w.room.epoch = rooms[r].epoch /\ (w.room.epoch = 0 => w.room = Stopped)
                  /\ w.room.durable <= Len(w.log) /\ \A s \in w.snaps : s.through <= Len(w.log)
                  /\ Len(log) <= Len(w.log)}

LEMMA RowsTyped ==
    ASSUME NEW w \in Work, w.room.epoch \in Epochs
    PROVE  /\ Rows(w) \in Seq(Row) /\ Len(Rows(w)) = Len(w.room.pending)
           /\ \A i \in 1 .. Len(Rows(w)) : Rows(w)[i] = [epoch |-> w.room.epoch, ups |-> w.room.pending[i].ups]
           /\ w.log \o Rows(w) \in Seq(Row) /\ Len(w.log \o Rows(w)) = Len(w.log) + Len(w.room.pending)
<1>1. w.room.pending \in Seq(Update) /\ w.log \in Seq(Row) /\ Len(w.room.pending) \in Nat
  BY DEF Work, Actor
<1>2. \A i \in 1 .. Len(w.room.pending) : [epoch |-> w.room.epoch, ups |-> w.room.pending[i].ups] \in Row
  <2>1. \A i \in 1 .. Len(w.room.pending) : w.room.pending[i] \in Update
    BY <1>1, ElementOfSeq
  <2>. QED  BY <2>1 DEF Update, Row
<1>3. Rows(w) \in Seq(Row)
  BY SMTT(30), <1>1, <1>2, IsASeq DEF Rows
<1>4. Len(Rows(w)) = Len(w.room.pending)
  BY <1>1 DEF Rows
<1>5. \A i \in 1 .. Len(Rows(w)) : Rows(w)[i] = [epoch |-> w.room.epoch, ups |-> w.room.pending[i].ups]
  BY <1>4 DEF Rows
<1>6. PICK R : R = Rows(w)
  OBVIOUS
<1>7. PICK L : L = w.log
  OBVIOUS
<1>8. L \o R \in Seq(Row) /\ Len(L \o R) = Len(L) + Len(R)
  BY <1>1, <1>3, <1>6, <1>7, ConcatProperties
<1>9. w.log \o Rows(w) \in Seq(Row) /\ Len(w.log \o Rows(w)) = Len(w.log) + Len(w.room.pending)
  BY <1>4, <1>6, <1>7, <1>8
<1>. QED  BY <1>3, <1>4, <1>5, <1>9

LEMMA SavedIs ==
    ASSUME NEW S, NEW s
    PROVE  S \subseteq Saved(S, s) /\ Saved(S, s) \subseteq S \cup {s}
BY DEF Saved

LEMMA SoundClosed ==
    ASSUME Typed, NEW r \in RoomIds
    PROVE  Closed(SoundWorks(r))
<1>. SUFFICES ASSUME NEW w \in SoundWorks(r)
     PROVE  /\ w.room.pending # <<>> /\ w.room.epoch = epoch => Persisted(w) \in SoundWorks(r)
            /\ w.room.durable > 0 => Snapped(w) \in SoundWorks(r)
            /\ Reset(w) \in SoundWorks(r)
  BY DEF Closed
<1>0. /\ w \in Work /\ w.room \in Actor /\ w.log \in Seq(Row) /\ w.snaps \in SUBSET Snap
      /\ w.file \in SUBSET Edits /\ w.acks \in SUBSET Update /\ Len(w.log) \in Nat /\ Len(log) \in Nat
      /\ w.room.epoch = rooms[r].epoch /\ (w.room.epoch = 0 => w.room = Stopped)
      /\ w.room.durable <= Len(w.log) /\ \A s \in w.snaps : s.through <= Len(w.log)
      /\ Len(log) <= Len(w.log) /\ \A s \in w.snaps : s.through \in Nat
  BY DEF SoundWorks, Work, Typed, StoreTyped, Snap
<1>00. /\ w.room.epoch \in 0 .. MaxEpoch /\ w.room.doc \in SUBSET Edits /\ w.room.durable \in Nat
       /\ w.room.pending \in Seq(Update) /\ w.room.since \in 0 .. SnapshotEvery /\ Len(w.room.pending) \in Nat
  BY <1>0 DEF Actor
<1>1. ASSUME w.room.pending # <<>>, w.room.epoch = epoch
      PROVE  Persisted(w) \in SoundWorks(r)
  <2>1. w.room.epoch \in Epochs /\ w.room.epoch # 0
    BY <1>1 DEF Typed, StoreTyped, Epochs
  <2>2. PICK L : L = w.log \o Rows(w)
    OBVIOUS
  <2>3. L \in Seq(Row) /\ Len(L) = Len(w.log) + Len(w.room.pending)
    BY <1>0, <2>1, <2>2, RowsTyped
  <2>4. PICK n : n = (IF w.room.since + Len(w.room.pending) > SnapshotEvery THEN SnapshotEvery
                      ELSE w.room.since + Len(w.room.pending))
    OBVIOUS
  <2>5. n \in 0 .. SnapshotEvery
    BY <1>00, <2>4, RoomAssumption
  <2>6. PICK A : A = [epoch |-> w.room.epoch, doc |-> w.room.doc, durable |-> Len(w.log) + Len(w.room.pending),
                      pending |-> <<>>, since |-> n]
    OBVIOUS
  <2>60. PICK m : m = Len(w.log) + Len(w.room.pending)
    OBVIOUS
  <2>61. m \in Nat /\ m >= Len(w.log) /\ m = Len(L)
    <3>1. PICK a, b : a = Len(w.log) /\ b = Len(w.room.pending)
      OBVIOUS
    <3>2. a \in Nat /\ b \in Nat
      BY <1>0, <1>00, <3>1
    <3>3. m = a + b /\ Len(L) = a + b
      BY <2>3, <2>60, <3>1
    <3>4. m \in Nat /\ m >= a
      BY <3>2, <3>3
    <3>. QED  BY <3>1, <3>3, <3>4
  <2>62. A = [epoch |-> w.room.epoch, doc |-> w.room.doc, durable |-> m, pending |-> <<>>, since |-> n]
    BY <2>6, <2>60
  <2>63. <<>> \in Seq(Update)
    BY EmptySeq
  <2>7. A \in Actor
    BY <1>00, <2>5, <2>61, <2>62, <2>63 DEF Actor
  <2>8. PICK acks : acks = {w.room.pending[i] : i \in 1 .. Len(w.room.pending)}
    OBVIOUS
  <2>9. acks \in SUBSET Update
    BY <1>00, <2>8, ElementOfSeq
  <2>10. Persisted(w) = [room |-> A, file |-> w.room.doc, log |-> L, snaps |-> w.snaps, acks |-> acks]
    BY <1>0, <2>2, <2>4, <2>6, <2>8, PersistedIs
  <2>11. Persisted(w) \in Work
    BY <1>0, <1>00, <2>3, <2>7, <2>9, <2>10 DEF Work
  <2>12. A.epoch = rooms[r].epoch /\ A.epoch # 0 /\ A.durable <= Len(L) /\ Len(log) <= Len(L)
    <3>1. A.epoch = rooms[r].epoch /\ A.epoch # 0 /\ A.durable = m
      BY <1>0, <2>1, <2>62
    <3>2. Len(log) <= m
      BY <1>0, <2>61
    <3>. QED  BY <2>61, <3>1, <3>2
  <2>13. \A s \in w.snaps : s.through <= Len(L)
    <3>1. PICK k : k = Len(w.log)
      OBVIOUS
    <3>2. k \in Nat /\ m >= k
      BY <1>0, <2>61, <3>1
    <3>3. \A s \in w.snaps : s.through \in Nat /\ s.through <= k
      BY <1>0, <3>1
    <3>4. \A s \in w.snaps : s.through <= m
      BY <2>61, <3>2, <3>3
    <3>. QED  BY <2>61, <3>4
  <2>. QED  BY <2>10, <2>11, <2>12, <2>13 DEF SoundWorks
<1>2. ASSUME w.room.durable > 0
      PROVE  Snapped(w) \in SoundWorks(r)
  <2>1. w.room.epoch \in Epochs
    BY <1>0, <1>00, <1>2, StoppedTyped DEF Epochs
  <2>2. PICK s : s = [epoch |-> w.room.epoch, through |-> w.room.durable, doc |-> w.room.doc]
    OBVIOUS
  <2>3. s \in Snap /\ s.through <= Len(w.log)
    BY <1>0, <1>00, <2>1, <2>2 DEF Snap
  <2>4. PICK S : S = Saved(w.snaps, s)
    OBVIOUS
  <2>5. S \in SUBSET Snap /\ \A t \in S : t.through <= Len(w.log)
    BY <1>0, <2>3, <2>4, SavedIs
  <2>6. Snapped(w) = [room |-> w.room, file |-> w.file, log |-> w.log, acks |-> w.acks, snaps |-> S]
    BY <1>0, <2>2, <2>4, SnappedIs
  <2>7. Snapped(w) \in Work
    BY <1>0, <2>5, <2>6 DEF Work
  <2>. QED  BY <1>0, <2>5, <2>6, <2>7 DEF SoundWorks
<1>3. Reset(w) \in SoundWorks(r)
  <2>1. PICK A : A = [epoch |-> w.room.epoch, doc |-> w.room.doc, durable |-> w.room.durable,
                      pending |-> w.room.pending, since |-> 0]
    OBVIOUS
  <2>2. A \in Actor
    BY <1>00, <2>1, RoomAssumption DEF Actor
  <2>3. A.epoch = 0 => A = Stopped
    BY <1>0, <2>1 DEF Stopped
  <2>4. Reset(w) = [room |-> A, file |-> w.file, log |-> w.log, snaps |-> w.snaps, acks |-> w.acks]
    BY <1>0, <2>1, ResetIs
  <2>5. Reset(w) \in Work
    BY <1>0, <2>2, <2>4 DEF Work
  <2>6. A.epoch = rooms[r].epoch /\ A.durable <= Len(w.log)
    BY <1>0, <2>1
  <2>. QED  BY <1>0, <2>3, <2>4, <2>5, <2>6 DEF SoundWorks
<1>. QED  BY <1>1, <1>2, <1>3

LEMMA HeldIs ==
    ASSUME NEW R, NEW h, NEW S
    PROVE  \A r \in RoomIds : /\ Held(R, h, S)[r] = R[r] \/ Held(R, h, S)[r] = Stopped
                              /\ h = r => Held(R, h, S)[r] = R[r]
                              /\ \A c \in Clients : S[c].room = r => Held(R, h, S)[r] = R[r]
BY DEF Held

LEMMA HeldTyped ==
    ASSUME NEW R \in [RoomIds -> Actor], NEW h, NEW S
    PROVE  Held(R, h, S) \in [RoomIds -> Actor]
BY StoppedTyped DEF Held

LEMMA AckedIs ==
    ASSUME NEW S \in [Clients -> ShapedSocket], NEW acks \in SUBSET Update
    PROVE  /\ Acked(S, acks) \in [Clients -> ShapedSocket]
           /\ \A c \in Clients :
                /\ Acked(S, acks)[c].acks = S[c].acks \cup UNION {a.ups : a \in {a \in acks : a.client = c}}
                /\ Acked(S, acks)[c].pc = S[c].pc /\ Acked(S, acks)[c].epoch = S[c].epoch
                /\ Acked(S, acks)[c].room = S[c].room /\ Acked(S, acks)[c].got = S[c].got
                /\ Acked(S, acks)[c].initial = S[c].initial /\ Acked(S, acks)[c].out = S[c].out
                /\ Acked(S, acks)[c].hand = S[c].hand /\ Acked(S, acks)[c].events = S[c].events
                /\ Acked(S, acks)[c].stale = S[c].stale
<1>1. ASSUME NEW s \in ShapedSocket, NEW A \in SUBSET Edits
      PROVE  [s EXCEPT !.acks = A] \in ShapedSocket
  BY <1>1 DEF ShapedSocket, Socket, Shaped
<1>2. ASSUME NEW c \in Clients
      PROVE  S[c].acks \cup UNION {a.ups : a \in {a \in acks : a.client = c}} \in SUBSET Edits
  <2>1. S[c].acks \in SUBSET Edits
    BY DEF ShapedSocket, Socket
  <2>2. \A a \in acks : a.ups \in SUBSET Edits
    BY DEF Update
  <2>. QED  BY <2>1, <2>2
<1>3. ASSUME NEW s \in ShapedSocket, NEW A, NEW t, t = [s EXCEPT !.acks = A]
      PROVE  /\ t.acks = A /\ t.pc = s.pc /\ t.epoch = s.epoch /\ t.room = s.room /\ t.got = s.got
             /\ t.initial = s.initial /\ t.out = s.out /\ t.hand = s.hand /\ t.events = s.events
             /\ t.stale = s.stale
  BY <1>3 DEF ShapedSocket, Socket
<1>4. ASSUME NEW c \in Clients
      PROVE  Acked(S, acks)[c] =
               [S[c] EXCEPT !.acks = S[c].acks \cup UNION {a.ups : a \in {a \in acks : a.client = c}}]
  BY DEF Acked
<1>5. Acked(S, acks) \in [Clients -> ShapedSocket]
  BY <1>1, <1>2 DEF Acked
<1>6. ASSUME NEW c \in Clients
      PROVE  /\ Acked(S, acks)[c].acks = S[c].acks \cup UNION {a.ups : a \in {a \in acks : a.client = c}}
             /\ Acked(S, acks)[c].pc = S[c].pc /\ Acked(S, acks)[c].epoch = S[c].epoch
             /\ Acked(S, acks)[c].room = S[c].room /\ Acked(S, acks)[c].got = S[c].got
             /\ Acked(S, acks)[c].initial = S[c].initial /\ Acked(S, acks)[c].out = S[c].out
             /\ Acked(S, acks)[c].hand = S[c].hand /\ Acked(S, acks)[c].events = S[c].events
             /\ Acked(S, acks)[c].stale = S[c].stale
  <2>1. PICK s, t, A : /\ s = S[c] /\ t = Acked(S, acks)[c]
                       /\ A = S[c].acks \cup UNION {a.ups : a \in {a \in acks : a.client = c}}
    OBVIOUS
  <2>2. s \in ShapedSocket /\ t = [s EXCEPT !.acks = A]
    BY <1>4, <2>1
  <2>3. /\ t.acks = A /\ t.pc = s.pc /\ t.epoch = s.epoch /\ t.room = s.room /\ t.got = s.got
        /\ t.initial = s.initial /\ t.out = s.out /\ t.hand = s.hand /\ t.events = s.events
        /\ t.stale = s.stale
    BY <1>3, <2>2
  <2>. QED  BY <2>1, <2>3
<1>. QED  BY <1>5, <1>6

\* The sockets S when the actor has taken up a command: none has a new handle.
Follows(S) ==
    /\ S \in [Clients -> ShapedSocket]
    /\ \A c \in Clients : /\ S[c].room # NoRoom => S[c].room = sock[c].room /\ S[c].epoch = sock[c].epoch
                          /\ S[c].pc = "open" => S[c].got = sock[c].got /\ sock[c].pc = "open"

LEMMA CommitTyped ==
    ASSUME Typed, NEW r \in RoomIds, NEW w \in SoundWorks(r), NEW S, Follows(S), Commit(r, w, S)
    PROVE  StoreTyped' /\ RoomsTyped' /\ SocketsTyped' /\ HandlesTyped'
<1>0. /\ w \in Work /\ w.room \in Actor /\ w.log \in Seq(Row) /\ w.snaps \in SUBSET Snap
      /\ w.file \in SUBSET Edits /\ w.acks \in SUBSET Update /\ Len(w.log) \in Nat /\ Len(log) \in Nat
      /\ w.room.epoch = rooms[r].epoch /\ (w.room.epoch = 0 => w.room = Stopped)
      /\ w.room.durable <= Len(w.log) /\ \A s \in w.snaps : s.through <= Len(w.log)
      /\ Len(log) <= Len(w.log)
  BY DEF SoundWorks, Work, Typed, StoreTyped
<1>1. /\ file' = w.file /\ log' = w.log /\ snaps' = w.snaps /\ epoch' = epoch /\ hub' = hub
      /\ sock' = Acked(S, w.acks) /\ rooms' = Held([rooms EXCEPT ![r] = w.room], hub.room, sock')
  BY DEF Commit
<1>2. StoreTyped'
  BY <1>0, <1>1 DEF Typed, StoreTyped
<1>3. rooms \in [RoomIds -> Actor] /\ [rooms EXCEPT ![r] = w.room] \in [RoomIds -> Actor]
  BY <1>0 DEF Typed, RoomsTyped
<1>4. /\ rooms' \in [RoomIds -> Actor]
      /\ \A q \in RoomIds : rooms'[q] = [rooms EXCEPT ![r] = w.room][q] \/ rooms'[q] = Stopped
      /\ \A q \in RoomIds : \A c \in Clients : sock'[c].room = q => rooms'[q] = [rooms EXCEPT ![r] = w.room][q]
  <2>1. PICK R, h, T : R = [rooms EXCEPT ![r] = w.room] /\ h = hub.room /\ T = sock'
    OBVIOUS
  <2>2. rooms' = Held(R, h, T)
    BY <1>1, <2>1
  <2>3. /\ Held(R, h, T) \in [RoomIds -> Actor]
        /\ \A q \in RoomIds : Held(R, h, T)[q] = R[q] \/ Held(R, h, T)[q] = Stopped
        /\ \A q \in RoomIds : \A c \in Clients : T[c].room = q => Held(R, h, T)[q] = R[q]
    <3>1. R \in [RoomIds -> Actor]
      BY <1>3, <2>1
    <3>2. Held(R, h, T) \in [RoomIds -> Actor]
      BY <3>1, HeldTyped
    <3>3. \A q \in RoomIds : /\ Held(R, h, T)[q] = R[q] \/ Held(R, h, T)[q] = Stopped
                             /\ \A c \in Clients : T[c].room = q => Held(R, h, T)[q] = R[q]
      BY HeldIs
    <3>. QED  BY <3>2, <3>3
  <2>. QED  BY <2>1, <2>2, <2>3
<1>5. RoomsTyped'
  <2>1. ASSUME NEW q \in RoomIds
        PROVE  rooms'[q].durable <= Len(log') /\ (rooms'[q].epoch = 0 => rooms'[q] = Stopped)
    <3>1. CASE rooms'[q] = Stopped
      BY <1>0, <1>1, <3>1, StoppedTyped
    <3>2. CASE rooms'[q] = [rooms EXCEPT ![r] = w.room][q]
      <4>1. CASE q = r
        BY <1>0, <1>1, <1>3, <3>2, <4>1
      <4>2. CASE q # r
        <5>1. rooms'[q] = rooms[q]
          BY <1>3, <3>2, <4>2
        <5>2. rooms[q].durable <= Len(log) /\ rooms[q].durable \in Nat /\ (rooms[q].epoch = 0 => rooms[q] = Stopped)
          BY <1>3 DEF Typed, RoomsTyped, Actor
        <5>. QED  BY <1>0, <1>1, <5>1, <5>2
      <4>. QED  BY <4>1, <4>2
    <3>. QED  BY <1>4, <3>1, <3>2
  <2>. QED  BY <1>4, <2>1 DEF RoomsTyped
<1>6. /\ sock' \in [Clients -> ShapedSocket]
      /\ \A c \in Clients : /\ sock'[c].room = S[c].room /\ sock'[c].epoch = S[c].epoch
                            /\ sock'[c].pc = S[c].pc /\ sock'[c].got = S[c].got
  BY <1>0, <1>1, AckedIs DEF Follows
<1>7. SocketsTyped'
  <2>1. ASSUME NEW c \in Clients, sock'[c].pc = "open"
        PROVE  sock'[c].got.durable <= Len(log')
    <3>1. sock'[c].got = sock[c].got /\ sock[c].pc = "open"
      BY <1>6, <2>1 DEF Follows
    <3>2. sock[c].got.durable <= Len(log) /\ sock[c].got \in Recovered
      BY <3>1 DEF Typed, SocketsTyped, ShapedSocket, Shaped
    <3>3. sock[c].got.durable \in Nat
      BY <3>2 DEF Recovered
    <3>. QED  BY <1>0, <1>1, <3>1, <3>2, <3>3
  <2>. QED  BY <1>6, <2>1 DEF SocketsTyped
<1>8. HandlesTyped'
  <2>1. ASSUME NEW c \in Clients, sock'[c].room # NoRoom
        PROVE  rooms'[sock'[c].room].epoch = sock'[c].epoch
    <3>1. sock'[c].room = sock[c].room /\ sock'[c].epoch = sock[c].epoch /\ sock[c].room # NoRoom
      BY <1>6, <2>1 DEF Follows
    <3>2. sock'[c].room \in RoomIds
      BY <1>6, <2>1 DEF ShapedSocket, Socket
    <3>3. rooms'[sock'[c].room] = [rooms EXCEPT ![r] = w.room][sock'[c].room]
      BY <1>4, <3>2
    <3>4. rooms[sock[c].room].epoch = sock[c].epoch
      BY <3>1 DEF Typed, HandlesTyped
    <3>5. CASE sock[c].room = r
      BY <1>0, <1>3, <3>1, <3>3, <3>4, <3>5
    <3>6. CASE sock[c].room # r
      BY <1>3, <3>1, <3>2, <3>3, <3>4, <3>6
    <3>. QED  BY <3>5, <3>6
  <2>. QED  BY <2>1 DEF HandlesTyped
<1>. QED  BY <1>2, <1>5, <1>7, <1>8

LEMMA CommittedTyped ==
    ASSUME Typed, NEW r \in RoomIds, NEW k \in SoundWorks(r), NEW S, Follows(S), Committed(r, k, S)
    PROVE  StoreTyped' /\ RoomsTyped' /\ SocketsTyped' /\ HandlesTyped'
<1>1. PICK w : Outcome(k, w) /\ Commit(r, w, S)
  BY DEF Committed
<1>2. w \in SoundWorks(r)
  BY <1>1, SoundClosed DEF Outcome
<1>. QED  BY <1>1, <1>2, CommitTyped

LEMMA SocketIs ==
    ASSUME Typed, NEW c \in Clients
    PROVE  /\ sock[c] \in Socket /\ Shaped(sock[c]) /\ sock[c].epoch \in 0 .. MaxEpoch
           /\ sock[c].got \in {Nothing} \cup Recovered /\ sock[c].initial \in SUBSET Edits
           /\ sock[c].out \in Seq(SUBSET Edits) /\ sock[c].hand \in {Nothing} \cup [ups : SUBSET Edits]
           /\ sock[c].acks \in SUBSET Edits /\ sock[c].events \in SUBSET Edits
           /\ sock[c].pc # "off" => sock[c].epoch \in Epochs
<1>1. sock[c] \in Socket /\ Shaped(sock[c])
  BY DEF Typed, SocketsTyped, ShapedSocket
<1>2. sock[c].epoch \in 0 .. MaxEpoch /\ (sock[c].pc # "off" => sock[c].epoch # 0)
  BY <1>1 DEF Socket, Shaped
<1>. QED  BY <1>1, <1>2 DEF Socket, Epochs

LEMMA InRoom ==
    ASSUME Typed, NEW c \in Clients, sock[c].room # NoRoom
    PROVE  /\ sock[c].room \in RoomIds /\ rooms[sock[c].room] \in Actor
           /\ rooms[sock[c].room].epoch = sock[c].epoch /\ sock[c].epoch \in Epochs
<1>1. sock[c] \in Socket /\ Shaped(sock[c])
  BY SocketIs
<1>2. sock[c].room \in RoomIds
  BY <1>1 DEF Socket
<1>3. sock[c].pc # "off"
  BY <1>1 DEF Shaped
<1>. QED  BY <1>2, <1>3, SocketIs DEF Typed, RoomsTyped, HandlesTyped

LEMMA WorkSound ==
    ASSUME Typed, NEW r \in RoomIds
    PROVE  WorkOf(r) \in SoundWorks(r)
<1>1. rooms[r] \in Actor /\ rooms[r].durable <= Len(log) /\ (rooms[r].epoch = 0 => rooms[r] = Stopped)
  BY DEF Typed, RoomsTyped
<1>2. WorkOf(r) \in Work
  BY <1>1 DEF WorkOf, Work, Typed, StoreTyped
<1>. QED  BY <1>1, <1>2 DEF WorkOf, SoundWorks, Typed, StoreTyped

LEMMA OrphanedIs ==
    ASSUME NEW p \in Seq(Update), NEW c
    PROVE  /\ Orphaned(p, c) \in Seq(Update) /\ Len(Orphaned(p, c)) = Len(p)
           /\ \A i \in 1 .. Len(p) : Orphaned(p, c)[i].ups = p[i].ups
<1>1. \A i \in 1 .. Len(p) : p[i] \in Update
  BY ElementOfSeq
<1>2. ASSUME NEW u \in Update
      PROVE  [u EXCEPT !.client = None] \in Update /\ [u EXCEPT !.client = None].ups = u.ups
  BY <1>2 DEF Update
<1>. DEFINE G(i) == IF p[i].client = c THEN [p[i] EXCEPT !.client = None] ELSE p[i]
<1>3. \A i \in 1 .. Len(p) : G(i) \in Update /\ G(i).ups = p[i].ups
  BY <1>1, <1>2
<1>4. Orphaned(p, c) = [i \in 1 .. Len(p) |-> G(i)]
  BY DEF Orphaned
<1>. HIDE DEF G
<1>5. Len(p) \in Nat
  OBVIOUS
<1>6. Orphaned(p, c) \in Seq(Update)
  BY <1>3, <1>4, <1>5, IsASeq
<1>7. Len(Orphaned(p, c)) = Len(p)
  BY <1>4, <1>5
<1>. QED  BY <1>3, <1>4, <1>6, <1>7

LEMMA LeftSound ==
    ASSUME Typed, NEW c \in Clients, sock[c].room # NoRoom
    PROVE  LeftWork(c) \in SoundWorks(sock[c].room)
<1>1. PICK R, P : R = rooms[sock[c].room] /\ P = Orphaned(R.pending, c)
  OBVIOUS
<1>2. R \in Actor /\ R.epoch # 0 /\ R.durable <= Len(log) /\ R.pending \in Seq(Update)
  BY <1>1, InRoom DEF Typed, RoomsTyped, Epochs, Actor
<1>3. P \in Seq(Update)
  BY <1>1, <1>2, OrphanedIs
<1>4. PICK A : A = [epoch |-> R.epoch, doc |-> R.doc, durable |-> R.durable, pending |-> P, since |-> R.since]
  OBVIOUS
<1>5. A \in Actor
  BY <1>2, <1>3, <1>4 DEF Actor
<1>6. LeftWork(c) = [room |-> A, file |-> file, log |-> log, snaps |-> snaps, acks |-> {}]
  BY <1>1, <1>2, <1>4, LeftIs
<1>7. LeftWork(c) \in Work
  BY <1>5, <1>6 DEF Work, Typed, StoreTyped
<1>8. A.epoch = R.epoch /\ A.durable = R.durable
  BY <1>4
<1>. QED  BY <1>1, <1>2, <1>6, <1>7, <1>8 DEF SoundWorks, Typed, StoreTyped

LEMMA KeptSound ==
    ASSUME Typed, NEW c \in Clients, sock[c].room # NoRoom, sock[c].hand # Nothing
    PROVE  KeptWork(c) \in SoundWorks(sock[c].room)
<1>1. PICK R, u : R = rooms[sock[c].room] /\ u = [ups |-> sock[c].hand.ups, client |-> c]
  OBVIOUS
<1>2. R \in Actor /\ R.epoch # 0 /\ R.durable <= Len(log) /\ R.pending \in Seq(Update) /\ R.doc \in SUBSET Edits
  BY <1>1, InRoom DEF Typed, RoomsTyped, Epochs, Actor
<1>3. sock[c].hand.ups \in SUBSET Edits
  BY SocketIs
<1>4. u \in Update /\ R.doc \cup sock[c].hand.ups \in SUBSET Edits
  BY <1>1, <1>2, <1>3 DEF Update
<1>5. Append(R.pending, u) \in Seq(Update)
  BY <1>2, <1>4
<1>6. PICK A : A = [epoch |-> R.epoch, doc |-> R.doc \cup sock[c].hand.ups, durable |-> R.durable,
                    pending |-> Append(R.pending, u), since |-> R.since]
  OBVIOUS
<1>7. A \in Actor
  BY <1>2, <1>4, <1>5, <1>6 DEF Actor
<1>8. KeptWork(c) = [room |-> A, file |-> file, log |-> log, snaps |-> snaps, acks |-> {}]
  BY <1>1, <1>2, <1>6, KeptIs
<1>9. KeptWork(c) \in Work
  BY <1>7, <1>8 DEF Work, Typed, StoreTyped
<1>10. A.epoch = R.epoch /\ A.durable = R.durable
  BY <1>6
<1>. QED  BY <1>1, <1>2, <1>8, <1>9, <1>10 DEF SoundWorks, Typed, StoreTyped

LEMMA FollowsSame == Typed => Follows(sock)
BY DEF Typed, SocketsTyped, Follows

LEMMA FollowsLeft ==
    ASSUME Typed, NEW c \in Clients
    PROVE  Follows([sock EXCEPT ![c] = Offline])
BY OfflineTyped DEF Typed, SocketsTyped, Follows

LEMMA JoinIs ==
    ASSUME Typed, NEW c \in Clients, sock[c].pc = "room",
           NEW S, S = [sock EXCEPT ![c].pc = "reply", ![c].initial = rooms[sock[c].room].doc]
    PROVE  /\ Follows(S) /\ \A d \in Clients : d # c => S[d] = sock[d]
           /\ S[c].pc = "reply" /\ S[c].initial = rooms[sock[c].room].doc /\ S[c].hand = Nothing
           /\ S[c].room = sock[c].room /\ S[c].epoch = sock[c].epoch /\ S[c].out = sock[c].out
           /\ S[c].acks = sock[c].acks /\ S[c].events = sock[c].events /\ S[c].got = sock[c].got
           /\ S[c].stale = sock[c].stale
<1>1. PICK s, D : s = sock[c] /\ D = rooms[sock[c].room].doc
  OBVIOUS
<1>2. s \in Socket /\ Shaped(s) /\ s.room # NoRoom /\ s.hand = Nothing /\ ~s.stale
  BY <1>1, SocketIs DEF Shaped, Socket
<1>3. D \in SUBSET Edits
  BY <1>1, <1>2, InRoom DEF Actor
<1>4. PICK t : t = [s EXCEPT !.pc = "reply", !.initial = D]
  OBVIOUS
<1>5. t \in Socket
  BY <1>2, <1>3, <1>4 DEF Socket
<1>6. /\ t.pc = "reply" /\ t.initial = D /\ t.hand = s.hand /\ t.room = s.room /\ t.epoch = s.epoch
      /\ t.out = s.out /\ t.acks = s.acks /\ t.events = s.events /\ t.got = s.got /\ t.stale = s.stale
  BY <1>2, <1>4 DEF Socket
<1>7. Shaped(t)
  BY <1>1, <1>2, <1>6 DEF Shaped
<1>8. S = [sock EXCEPT ![c] = t]
  BY <1>1, <1>4 DEF Typed, SocketsTyped
<1>9. sock \in [Clients -> ShapedSocket] /\ t \in ShapedSocket
  BY <1>5, <1>7 DEF Typed, SocketsTyped, ShapedSocket
<1>10. S \in [Clients -> ShapedSocket] /\ S[c] = t /\ \A d \in Clients : d # c => S[d] = sock[d]
  BY <1>8, <1>9
<1>11. Follows(S)
  BY <1>1, <1>6, <1>10 DEF Follows
<1>. QED  BY <1>1, <1>2, <1>6, <1>10, <1>11

LEMMA ToldIs ==
    ASSUME Typed, NEW c \in Clients, sock[c].hand # Nothing, NEW S, S = ToldOf(c)
    PROVE  /\ Follows(S) /\ S[c].hand = Nothing /\ S[c].events = sock[c].events
           /\ \A d \in Clients :
                /\ d # c => /\ S[d].hand = sock[d].hand
                            /\ \/ S[d].events = sock[d].events
                               \/ /\ sock[d].pc = "joined" /\ sock[d].room = sock[c].room
                                  /\ S[d].events = sock[d].events \cup sock[c].hand.ups
                /\ S[d].pc = sock[d].pc /\ S[d].epoch = sock[d].epoch /\ S[d].room = sock[d].room
                /\ S[d].got = sock[d].got /\ S[d].initial = sock[d].initial /\ S[d].out = sock[d].out
                /\ S[d].acks = sock[d].acks /\ S[d].stale = sock[d].stale
<1>1. PICK u : u = sock[c].hand.ups
  OBVIOUS
<1>2. u \in SUBSET Edits /\ sock \in [Clients -> ShapedSocket]
  BY <1>1, SocketIs DEF Typed, SocketsTyped
<1>3. ASSUME NEW s \in ShapedSocket, NEW t, t = [s EXCEPT !.hand = Nothing]
      PROVE  /\ t \in ShapedSocket /\ t.hand = Nothing /\ t.events = s.events
             /\ t.pc = s.pc /\ t.epoch = s.epoch /\ t.room = s.room /\ t.got = s.got
             /\ t.initial = s.initial /\ t.out = s.out /\ t.acks = s.acks /\ t.stale = s.stale
  BY <1>3 DEF ShapedSocket, Socket, Shaped
<1>4. ASSUME NEW s \in ShapedSocket, NEW E \in SUBSET Edits, NEW t, t = [s EXCEPT !.events = E]
      PROVE  /\ t \in ShapedSocket /\ t.events = E /\ t.hand = s.hand
             /\ t.pc = s.pc /\ t.epoch = s.epoch /\ t.room = s.room /\ t.got = s.got
             /\ t.initial = s.initial /\ t.out = s.out /\ t.acks = s.acks /\ t.stale = s.stale
  BY <1>4 DEF ShapedSocket, Socket, Shaped
<1>5. /\ S[c] = [sock[c] EXCEPT !.hand = Nothing]
      /\ \A d \in Clients : d # c =>
            S[d] = IF sock[d].pc = "joined" /\ sock[d].room = sock[c].room
                   THEN [sock[d] EXCEPT !.events = sock[d].events \cup u] ELSE sock[d]
  <2>1. /\ Idled(c)[c] = [sock[c] EXCEPT !.hand = Nothing]
        /\ \A d \in Clients : d # c => Idled(c)[d] = sock[d]
    BY <1>2 DEF Idled
  <2>. QED  BY <1>1, <2>1 DEF ToldOf
<1>6. /\ S[c] \in ShapedSocket /\ S[c].hand = Nothing /\ S[c].events = sock[c].events
      /\ S[c].pc = sock[c].pc /\ S[c].epoch = sock[c].epoch /\ S[c].room = sock[c].room
      /\ S[c].got = sock[c].got /\ S[c].initial = sock[c].initial /\ S[c].out = sock[c].out
      /\ S[c].acks = sock[c].acks /\ S[c].stale = sock[c].stale
  <2>1. PICK s, t : s = sock[c] /\ t = S[c]
    OBVIOUS
  <2>2. s \in ShapedSocket /\ t = [s EXCEPT !.hand = Nothing]
    BY <1>2, <1>5, <2>1
  <2>. QED  BY <1>3, <2>1, <2>2
<1>7. ASSUME NEW d \in Clients, d # c
      PROVE  /\ S[d] \in ShapedSocket /\ S[d].hand = sock[d].hand
             /\ \/ S[d].events = sock[d].events
                \/ /\ sock[d].pc = "joined" /\ sock[d].room = sock[c].room
                   /\ S[d].events = sock[d].events \cup u
             /\ S[d].pc = sock[d].pc /\ S[d].epoch = sock[d].epoch /\ S[d].room = sock[d].room
             /\ S[d].got = sock[d].got /\ S[d].initial = sock[d].initial /\ S[d].out = sock[d].out
             /\ S[d].acks = sock[d].acks /\ S[d].stale = sock[d].stale
  <2>1. CASE S[d] = sock[d]
    BY <1>2, <2>1
  <2>2. CASE S[d] # sock[d]
    <3>1. PICK s, t, E : s = sock[d] /\ t = S[d] /\ E = sock[d].events \cup u
      OBVIOUS
    <3>2. E \in SUBSET Edits
      BY <1>2, <3>1, SocketIs
    <3>3. s \in ShapedSocket /\ t = [s EXCEPT !.events = E] /\ sock[d].pc = "joined" /\ sock[d].room = sock[c].room
      BY <1>2, <1>5, <1>7, <2>2, <3>1
    <3>. QED  BY <1>4, <3>1, <3>2, <3>3
  <2>. QED  BY <2>1, <2>2
<1>8. S \in [Clients -> ShapedSocket]
  <2>1. S = [d \in Clients |-> S[d]]
    BY DEF ToldOf
  <2>. QED  BY <1>6, <1>7, <2>1
<1>9. Follows(S)
  BY <1>6, <1>7, <1>8 DEF Follows
<1>. QED  BY <1>1, <1>6, <1>7, <1>9

LEMMA LeaveTyped ==
    ASSUME Typed, NEW c \in Clients, sock[c].room # NoRoom, Leave(c)
    PROVE  StoreTyped' /\ RoomsTyped' /\ SocketsTyped' /\ HandlesTyped' /\ epoch' = epoch /\ hub' = hub
<1>1. Committed(sock[c].room, LeftWork(c), [sock EXCEPT ![c] = Offline])
  BY LeaveCommits
<1>2. epoch' = epoch /\ hub' = hub
  BY <1>1 DEF Committed, Commit
<1>. QED  BY <1>1, <1>2, InRoom, LeftSound, FollowsLeft, CommittedTyped

LEMMA SocketStep ==
    ASSUME Typed, NEW c \in Clients, NEW t \in ShapedSocket, sock' = [sock EXCEPT ![c] = t],
           log' = log, rooms' = rooms, t.pc = "open" => t.got.durable <= Len(log),
           t.room # NoRoom => rooms[t.room].epoch = t.epoch
    PROVE  SocketsTyped' /\ HandlesTyped'
<1>1. /\ sock' \in [Clients -> ShapedSocket] /\ sock'[c] = t
      /\ \A d \in Clients : d # c => sock'[d] = sock[d]
  BY DEF Typed, SocketsTyped
<1>2. SocketsTyped'
  BY <1>1 DEF Typed, SocketsTyped
<1>3. HandlesTyped'
  BY <1>1 DEF Typed, HandlesTyped
<1>. QED  BY <1>2, <1>3

-----------------------------------------------------------------------------
(* The connection c after each step of its own *)

\* t differs from s in where its handler is, its room, what it read and was sent.
SameRest(t, s) == t.epoch = s.epoch /\ t.acks = s.acks /\ t.events = s.events /\ t.stale = s.stale

LEMMA ConnectIs ==
    ASSUME Typed, NEW c \in Clients, Connect(c)
    PROVE  \E t \in ShapedSocket :
             /\ sock' = [sock EXCEPT ![c] = t] /\ t.pc = "access" /\ t.epoch = epoch /\ t.room = NoRoom
             /\ t.initial = {} /\ t.out = <<>> /\ t.hand = Nothing /\ t.acks = {} /\ t.events = {}
<1>1. PICK t : t = [Offline EXCEPT !.pc = "access", !.epoch = epoch]
  OBVIOUS
<1>2. Offline \in Socket /\ epoch \in Epochs
  BY OfflineTyped DEF ShapedSocket, Typed, StoreTyped
<1>3. /\ t.pc = "access" /\ t.epoch = epoch /\ t.room = NoRoom /\ t.hand = Nothing /\ t.acks = {}
      /\ t.events = {} /\ t.initial = {} /\ t.out = <<>> /\ t.stale = FALSE
  BY <1>1 DEF Offline
<1>4. t \in Socket
  <2>1. epoch \in 0 .. MaxEpoch
    BY <1>2, RoomAssumption DEF Epochs
  <2>. QED  BY <1>1, <1>2, <2>1 DEF Socket
<1>5. t \in ShapedSocket
  BY <1>2, <1>3, <1>4 DEF ShapedSocket, Shaped, Epochs
<1>. QED  BY <1>1, <1>3, <1>5 DEF Connect

LEMMA FindRoomIs ==
    ASSUME Typed, NEW c \in Clients, FindRoom(c)
    PROVE  \E t \in ShapedSocket :
             /\ sock' = [sock EXCEPT ![c] = t] /\ SameRest(t, sock[c]) /\ t.pc = "room" /\ t.room = hub.room
             /\ t.initial = sock[c].initial /\ t.out = sock[c].out /\ t.hand = Nothing
             /\ rooms[hub.room].epoch = t.epoch
<1>1. PICK s, h : s = sock[c] /\ h = hub.room
  OBVIOUS
<1>2. s \in Socket /\ Shaped(s) /\ s.pc = "access" /\ h \in RoomIds /\ h # NoRoom
  BY <1>1, SocketIs DEF FindRoom, InMap, Typed, RestTyped
<1>3. PICK t : t = [s EXCEPT !.pc = "room", !.room = h]
  OBVIOUS
<1>4. /\ t.pc = "room" /\ t.room = h /\ t.hand = s.hand /\ t.initial = s.initial /\ t.out = s.out
      /\ SameRest(t, s)
  BY <1>2, <1>3 DEF Socket, SameRest
<1>5. t \in Socket
  BY <1>2, <1>3 DEF Socket
<1>6. t \in ShapedSocket /\ t.hand = Nothing
  BY <1>2, <1>4, <1>5 DEF ShapedSocket, Shaped, SameRest
<1>7. sock' = [sock EXCEPT ![c] = t]
  BY <1>1, <1>3 DEF FindRoom, Typed, SocketsTyped
<1>. QED  BY <1>1, <1>4, <1>6, <1>7 DEF FindRoom, InMap, SameRest

LEMMA OpenRoomIs ==
    ASSUME Typed, NEW c \in Clients, OpenRoom(c)
    PROVE  \E t \in ShapedSocket :
             /\ sock' = [sock EXCEPT ![c] = t] /\ SameRest(t, sock[c]) /\ t.pc = "open" /\ t.room = NoRoom
             /\ t.initial = sock[c].initial /\ t.out = sock[c].out /\ t.hand = Nothing
             /\ t.got = RecoveryOf(log, snaps, sock[c].epoch) /\ sock[c].epoch \in Epochs
<1>1. PICK s, g : s = sock[c] /\ g = RecoveryOf(log, snaps, sock[c].epoch)
  OBVIOUS
<1>2. s \in Socket /\ Shaped(s) /\ s.pc = "access" /\ s.epoch \in Epochs
  BY <1>1, SocketIs DEF OpenRoom
<1>3. g \in Recovered
  BY <1>1, <1>2, RecoveryFinds DEF Typed, StoreTyped
<1>4. PICK t : t = [s EXCEPT !.pc = "open", !.got = g]
  OBVIOUS
<1>5. /\ t.pc = "open" /\ t.got = g /\ t.room = s.room /\ t.hand = s.hand /\ t.initial = s.initial
      /\ t.out = s.out /\ SameRest(t, s)
  BY <1>2, <1>4 DEF Socket, SameRest
<1>6. t \in Socket
  BY <1>2, <1>3, <1>4 DEF Socket
<1>7. t \in ShapedSocket /\ t.hand = Nothing /\ t.room = NoRoom
  BY <1>2, <1>3, <1>5, <1>6 DEF ShapedSocket, Shaped, SameRest
<1>8. sock' = [sock EXCEPT ![c] = t]
  BY <1>1, <1>4, RecoveryIs DEF OpenRoom, Typed, SocketsTyped
<1>. QED  BY <1>1, <1>2, <1>5, <1>7, <1>8

LEMMA OpenedIs ==
    ASSUME Typed, NEW c \in Clients, NEW r \in RoomIds, sock[c].pc = "open",
           sock' = [sock EXCEPT ![c].pc = "room", ![c].room = r, ![c].got = Nothing]
    PROVE  \E t \in ShapedSocket :
             /\ sock' = [sock EXCEPT ![c] = t] /\ SameRest(t, sock[c]) /\ t.pc = "room" /\ t.room = r
             /\ t.initial = sock[c].initial /\ t.out = sock[c].out /\ t.hand = Nothing
<1>1. PICK s : s = sock[c]
  OBVIOUS
<1>2. s \in Socket /\ Shaped(s) /\ r # NoRoom
  BY <1>1, SocketIs DEF RoomIds, NoRoom
<1>3. PICK t1 : t1 = [s EXCEPT !.pc = "room", !.room = r]
  OBVIOUS
<1>4. /\ t1 \in Socket /\ t1.pc = "room" /\ t1.room = r /\ t1.hand = s.hand /\ t1.initial = s.initial
      /\ t1.out = s.out /\ SameRest(t1, s)
  BY <1>2, <1>3 DEF Socket, SameRest
<1>5. PICK t : t = [t1 EXCEPT !.got = Nothing]
  OBVIOUS
<1>6. /\ t \in Socket /\ t.pc = "room" /\ t.room = r /\ t.hand = t1.hand /\ t.initial = t1.initial
      /\ t.out = t1.out /\ SameRest(t, t1)
  BY <1>4, <1>5 DEF Socket, SameRest
<1>7. t \in ShapedSocket /\ t.hand = Nothing
  BY <1>1, <1>2, <1>4, <1>6 DEF ShapedSocket, Shaped, SameRest
<1>8. sock' = [sock EXCEPT ![c] = t]
  <2>1. sock' = [sock EXCEPT ![c] = [s EXCEPT !.pc = "room", !.room = r, !.got = Nothing]]
    BY <1>1 DEF Typed, SocketsTyped
  <2>. QED  BY <1>3, <1>5, <2>1
<1>9. SameRest(t, s)
  BY <1>4, <1>6 DEF SameRest
<1>. QED  BY <1>1, <1>4, <1>6, <1>7, <1>8, <1>9

LEMMA SubscribeIs ==
    ASSUME Typed, NEW c \in Clients, sock[c].pc = "reply", NEW doc \in SUBSET Edits,
           sock' = [sock EXCEPT ![c].pc = "joined", ![c].initial = {}, ![c].out = <<doc>>]
    PROVE  \E t \in ShapedSocket :
             /\ sock' = [sock EXCEPT ![c] = t] /\ SameRest(t, sock[c]) /\ t.pc = "joined"
             /\ t.room = sock[c].room /\ t.initial = {} /\ t.out = <<doc>> /\ t.hand = sock[c].hand
<1>1. PICK s : s = sock[c]
  OBVIOUS
<1>2. s \in Socket /\ Shaped(s)
  BY <1>1, SocketIs
<1>3. PICK t1 : t1 = [s EXCEPT !.pc = "joined", !.initial = {}]
  OBVIOUS
<1>4. /\ t1 \in Socket /\ t1.pc = "joined" /\ t1.room = s.room /\ t1.hand = s.hand /\ t1.initial = {}
      /\ SameRest(t1, s)
  BY <1>2, <1>3 DEF Socket, SameRest
<1>5. PICK t, o : o = <<doc>> /\ t = [t1 EXCEPT !.out = o]
  OBVIOUS
<1>6. o \in Seq(SUBSET Edits)
  BY <1>5
<1>7. /\ t \in Socket /\ t.pc = "joined" /\ t.room = s.room /\ t.hand = s.hand /\ t.initial = {}
      /\ t.out = o /\ SameRest(t, t1)
  BY <1>4, <1>5, <1>6 DEF Socket, SameRest
<1>8. t \in ShapedSocket
  BY <1>1, <1>2, <1>4, <1>7 DEF ShapedSocket, Shaped, SameRest
<1>9. sock' = [sock EXCEPT ![c] = t]
  <2>1. sock' = [sock EXCEPT ![c] = [s EXCEPT !.pc = "joined", !.initial = {}, !.out = o]]
    BY <1>1, <1>5 DEF Typed, SocketsTyped
  <2>. QED  BY <1>3, <1>5, <2>1
<1>10. SameRest(t, s)
  BY <1>4, <1>7 DEF SameRest
<1>. QED  BY <1>1, <1>5, <1>7, <1>8, <1>9, <1>10

LEMMA TypeIs ==
    ASSUME Typed, NEW c \in Clients, NEW u \in Edits, Type(c, u)
    PROVE  \E t \in ShapedSocket :
             /\ sock' = [sock EXCEPT ![c] = t] /\ SameRest(t, sock[c]) /\ t.pc = sock[c].pc
             /\ t.room = sock[c].room /\ t.initial = sock[c].initial /\ t.hand = sock[c].hand
             /\ t.got = sock[c].got
             /\ t.out = sock[c].out \/ (t.out = Append(sock[c].out, {u}) /\ sock[c].pc = "joined")
<1>1. PICK s, o : s = sock[c] /\ o = Append(sock[c].out, {u})
  OBVIOUS
<1>2. s \in Socket /\ Shaped(s) /\ o \in Seq(SUBSET Edits)
  BY <1>1, SocketIs
<1>3. PICK t : t = [s EXCEPT !.out = o]
  OBVIOUS
<1>4. /\ t \in Socket /\ t.pc = s.pc /\ t.room = s.room /\ t.hand = s.hand /\ t.initial = s.initial
      /\ t.out = o /\ t.got = s.got /\ SameRest(t, s)
  BY <1>2, <1>3 DEF Socket, SameRest
<1>5. t \in ShapedSocket /\ s \in ShapedSocket
  BY <1>2, <1>4 DEF ShapedSocket, Shaped, SameRest
<1>6. CASE sock[c].pc = "joined"
  <2>1. sock' = [sock EXCEPT ![c] = t]
    BY <1>1, <1>3, <1>6 DEF Type, Typed, SocketsTyped
  <2>. QED  BY <1>1, <1>4, <1>5, <1>6, <2>1
<1>7. CASE sock[c].pc # "joined"
  <2>1. sock' = [sock EXCEPT ![c] = s]
    BY <1>1, <1>7 DEF Type, Typed, SocketsTyped
  <2>. QED  BY <1>1, <1>5, <2>1 DEF SameRest
<1>. QED  BY <1>6, <1>7

LEMMA AuthorizeIs ==
    ASSUME Typed, NEW c \in Clients, Authorize(c), epoch = sock[c].epoch
    PROVE  \E t \in ShapedSocket :
             /\ sock' = [sock EXCEPT ![c] = t] /\ SameRest(t, sock[c]) /\ t.pc = "joined"
             /\ t.room = sock[c].room /\ t.initial = sock[c].initial /\ t.hand = [ups |-> Head(sock[c].out)]
             /\ t.out = Tail(sock[c].out)
<1>1. PICK s, h, o : s = sock[c] /\ h = [ups |-> Head(sock[c].out)] /\ o = Tail(sock[c].out)
  OBVIOUS
<1>2. s \in Socket /\ Shaped(s) /\ s.pc = "joined" /\ s.out \in Seq(SUBSET Edits) /\ s.out # <<>>
  BY <1>1, SocketIs DEF Authorize
<1>3. h \in [ups : SUBSET Edits] /\ o \in Seq(SUBSET Edits)
  BY <1>1, <1>2
<1>4. PICK t : t = [s EXCEPT !.hand = h, !.out = o]
  OBVIOUS
<1>5. /\ t \in Socket /\ t.pc = "joined" /\ t.room = s.room /\ t.hand = h /\ t.initial = s.initial
      /\ t.out = o /\ SameRest(t, s)
  BY <1>2, <1>3, <1>4 DEF Socket, SameRest
<1>6. t \in ShapedSocket
  BY <1>2, <1>5 DEF ShapedSocket, Shaped, SameRest
<1>7. sock' = [sock EXCEPT ![c] = t]
  BY <1>1, <1>4 DEF Authorize, Typed, SocketsTyped
<1>. QED  BY <1>1, <1>5, <1>6, <1>7

LEMMA RepeatIs ==
    ASSUME Typed, NEW c \in Clients, Apply(c), sock[c].hand.ups \subseteq rooms[sock[c].room].doc
    PROVE  \E t \in ShapedSocket :
             /\ sock' = [sock EXCEPT ![c] = t] /\ t.pc = sock[c].pc /\ t.epoch = sock[c].epoch
             /\ t.room = sock[c].room /\ t.initial = sock[c].initial /\ t.hand = Nothing
             /\ t.out = sock[c].out /\ t.events = sock[c].events /\ t.got = sock[c].got
             /\ t.acks = sock[c].acks \cup sock[c].hand.ups /\ t.stale = sock[c].stale
<1>1. PICK s, A : s = sock[c] /\ A = sock[c].acks \cup sock[c].hand.ups
  OBVIOUS
<1>2. s \in Socket /\ Shaped(s) /\ A \in SUBSET Edits
  BY <1>1, SocketIs DEF Apply
<1>3. PICK t1 : t1 = [s EXCEPT !.hand = Nothing]
  OBVIOUS
<1>4. /\ t1 \in Socket /\ t1.pc = s.pc /\ t1.room = s.room /\ t1.hand = Nothing /\ t1.initial = s.initial
      /\ t1.out = s.out /\ t1.got = s.got /\ t1.epoch = s.epoch /\ t1.events = s.events /\ t1.stale = s.stale
  BY <1>2, <1>3 DEF Socket
<1>5. PICK t : t = [t1 EXCEPT !.acks = A]
  OBVIOUS
<1>6. /\ t \in Socket /\ t.pc = t1.pc /\ t.room = t1.room /\ t.hand = Nothing /\ t.initial = t1.initial
      /\ t.out = t1.out /\ t.got = t1.got /\ t.epoch = t1.epoch /\ t.events = t1.events /\ t.stale = t1.stale
      /\ t.acks = A
  BY <1>2, <1>4, <1>5 DEF Socket
<1>7. t \in ShapedSocket
  BY <1>2, <1>4, <1>6 DEF ShapedSocket, Shaped
<1>8. sock' = [sock EXCEPT ![c] = t]
  <2>1. sock' = [Idled(c) EXCEPT ![c].acks = A]
    BY <1>1 DEF Apply, Idled
  <2>2. Idled(c) = [sock EXCEPT ![c] = t1]
    BY <1>1, <1>3 DEF Idled, Typed, SocketsTyped
  <2>. QED  BY <1>5, <2>1, <2>2 DEF Typed, SocketsTyped
<1>. QED  BY <1>1, <1>4, <1>6, <1>7, <1>8

LEMMA DeliverIs ==
    ASSUME Typed, NEW c \in Clients, Deliver(c)
    PROVE  \E t \in ShapedSocket :
             /\ sock' = [sock EXCEPT ![c] = t] /\ t.pc = "joined" /\ t.epoch = sock[c].epoch
             /\ t.room = sock[c].room /\ t.initial = sock[c].initial /\ t.hand = sock[c].hand
             /\ t.out = sock[c].out /\ t.events = {} /\ t.acks = {} /\ t.stale = sock[c].stale
<1>1. PICK s : s = sock[c]
  OBVIOUS
<1>2. s \in Socket /\ Shaped(s) /\ s.pc = "joined"
  BY <1>1, SocketIs DEF Deliver
<1>3. PICK t : t = [s EXCEPT !.acks = {}, !.events = {}]
  OBVIOUS
<1>4. /\ t \in Socket /\ t.pc = "joined" /\ t.room = s.room /\ t.hand = s.hand /\ t.initial = s.initial
      /\ t.out = s.out /\ t.epoch = s.epoch /\ t.events = {} /\ t.stale = s.stale
      /\ t.acks = {}
  BY <1>2, <1>3 DEF Socket
<1>5. t \in ShapedSocket
  BY <1>2, <1>4 DEF ShapedSocket, Shaped
<1>6. sock' = [sock EXCEPT ![c] = t]
  BY <1>1, <1>3 DEF Deliver, Typed, SocketsTyped
<1>. QED  BY <1>1, <1>4, <1>5, <1>6

LEMMA NoticedIs ==
    ASSUME Typed, EpochChanged, NEW c \in Clients
    PROVE  /\ sock'[c] \in ShapedSocket /\ sock'[c].pc = sock[c].pc /\ sock'[c].epoch = sock[c].epoch
           /\ sock'[c].room = sock[c].room /\ sock'[c].initial = sock[c].initial
           /\ sock'[c].hand = sock[c].hand /\ sock'[c].out = sock[c].out /\ sock'[c].got = sock[c].got
           /\ sock'[c].acks = sock[c].acks /\ sock'[c].events = sock[c].events
<1>1. PICK s, t : s = sock[c] /\ t = sock'[c]
  OBVIOUS
<1>2. s \in ShapedSocket /\ s \in Socket /\ Shaped(s)
  BY <1>1, SocketIs DEF Typed, SocketsTyped
<1>3. t = s \/ (t = [s EXCEPT !.stale = TRUE] /\ s.pc = "joined")
  BY <1>1 DEF EpochChanged
<1>4. CASE t = [s EXCEPT !.stale = TRUE] /\ s.pc = "joined"
  <2>1. /\ t \in Socket /\ t.pc = s.pc /\ t.room = s.room /\ t.hand = s.hand /\ t.initial = s.initial
        /\ t.out = s.out /\ t.got = s.got /\ t.epoch = s.epoch /\ t.events = s.events /\ t.acks = s.acks
    BY <1>2, <1>4 DEF Socket
  <2>2. t \in ShapedSocket
    BY <1>2, <1>4, <2>1 DEF ShapedSocket, Shaped
  <2>. QED  BY <1>1, <2>1, <2>2
<1>. QED  BY <1>1, <1>2, <1>3, <1>4

-----------------------------------------------------------------------------
(* Every step keeps the types *)

LEMMA BrowserKept ==
    ASSUME Typed, NEW c \in Clients, NEW e \in Epochs, NEW D \in SUBSET Edits, NEW f \in 0 .. MaxEpoch
    PROVE  /\ [local EXCEPT ![c].docs[e] = D] \in [Clients -> Browser]
           /\ [local EXCEPT ![c].epoch = f] \in [Clients -> Browser]
           /\ [local EXCEPT ![c].epoch = f, ![c].docs[e] = D] \in [Clients -> Browser]
<1>1. local \in [Clients -> Browser]
  BY DEF Typed, RestTyped
<1>2. ASSUME NEW b \in Browser
      PROVE  [b EXCEPT !.docs[e] = D] \in Browser /\ [b EXCEPT !.epoch = f] \in Browser
  BY <1>2 DEF Browser
<1>3. [local EXCEPT ![c].epoch = f] \in [Clients -> Browser]
  BY <1>1, <1>2
<1>. QED  BY <1>1, <1>2, <1>3

LEMMA OpenKeepsLog == Typed => Len(log) \in Nat
BY DEF Typed, StoreTyped

LEMMA StaysTyped ==
    ASSUME Typed, UNCHANGED <<epoch, file, log, snaps, rooms>>
    PROVE  StoreTyped' /\ RoomsTyped'
BY DEF Typed, StoreTyped, RoomsTyped

LEMMA OpenTyped ==
    ASSUME Typed, NEW c \in Clients, OpenRoom(c)
    PROVE  Typed'
<1>1. PICK t \in ShapedSocket :
        /\ sock' = [sock EXCEPT ![c] = t] /\ SameRest(t, sock[c]) /\ t.pc = "open" /\ t.room = NoRoom
        /\ t.got = RecoveryOf(log, snaps, sock[c].epoch) /\ sock[c].epoch \in Epochs
  BY OpenRoomIs
<1>2. t.got.durable <= Len(log)
  <2>1. log \in Seq(Row) /\ snaps \in SUBSET Snap /\ \A s \in snaps : s.through <= Len(log)
    BY DEF Typed, StoreTyped
  <2>2. RecoveryOf(log, snaps, sock[c].epoch).durable <= Len(log)
    BY <1>1, <2>1, RecoveryFinds
  <2>. QED  BY <1>1, <2>2
<1>3. /\ sock' \in [Clients -> ShapedSocket] /\ sock'[c] = t
      /\ \A d \in Clients : d # c => sock'[d] = sock[d]
  BY <1>1 DEF Typed, SocketsTyped
<1>4. rooms' = Held(rooms, NoRoom, sock') /\ rooms \in [RoomIds -> Actor]
  BY DEF OpenRoom, Typed, RoomsTyped
<1>5. /\ rooms' \in [RoomIds -> Actor] /\ \A r \in RoomIds : rooms'[r] = rooms[r] \/ rooms'[r] = Stopped
      /\ \A d \in Clients : \A r \in RoomIds : sock'[d].room = r => rooms'[r] = rooms[r]
  BY <1>4, HeldIs, HeldTyped
<1>6. RoomsTyped'
  <2>1. log' = log /\ 0 <= Len(log)
    BY OpenKeepsLog DEF OpenRoom
  <2>2. \A r \in RoomIds : /\ rooms[r].durable <= Len(log) /\ (rooms[r].epoch = 0 => rooms[r] = Stopped)
                            /\ Stopped.durable <= Len(log)
    BY <2>1, StoppedTyped DEF Typed, RoomsTyped
  <2>. QED  BY <1>5, <2>1, <2>2 DEF RoomsTyped
<1>7. StoreTyped'
  BY DEF Typed, StoreTyped, OpenRoom
<1>8. SocketsTyped'
  BY <1>1, <1>2, <1>3 DEF Typed, SocketsTyped, OpenRoom
<1>9. HandlesTyped'
  BY <1>1, <1>3, <1>5, InRoom DEF HandlesTyped
<1>10. RestTyped'
  BY DEF OpenRoom, Typed, RestTyped
<1>. QED  BY <1>6, <1>7, <1>8, <1>9, <1>10 DEF Typed

LEMMA FirstSnapshot ==
    ASSUME Typed, NEW c \in Clients, sock[c].pc = "open"
    PROVE  /\ Saved(snaps, [epoch |-> sock[c].epoch, through |-> 0, doc |-> file]) \in SUBSET Snap
           /\ \A s \in Saved(snaps, [epoch |-> sock[c].epoch, through |-> 0, doc |-> file]) : s.through <= Len(log)
<1>1. PICK s : s = [epoch |-> sock[c].epoch, through |-> 0, doc |-> file]
  OBVIOUS
<1>2. s \in Snap /\ s.through = 0
  BY <1>1, SocketIs DEF Snap, Typed, StoreTyped
<1>3. PICK S : S = Saved(snaps, s)
  OBVIOUS
<1>4. S \subseteq snaps \cup {s}
  BY <1>3, SavedIs
<1>5. 0 <= Len(log)
  BY OpenKeepsLog
<1>6. S \in SUBSET Snap /\ \A x \in S : x.through <= Len(log)
  BY <1>2, <1>4, <1>5 DEF Typed, StoreTyped
<1>. QED  BY <1>1, <1>3, <1>6

LEMMA OpenedTyped ==
    ASSUME Typed, NEW c \in Clients, Opened(c)
    PROVE  Typed'
<1>1. PICK got, doc :
        got = sock[c].got /\ doc = IF got.fresh THEN file \cup got.doc ELSE got.doc
  OBVIOUS
<1>2. PICK r \in RoomIds :
        /\ rooms[r] = Stopped
        /\ rooms' = [rooms EXCEPT ![r] = [Stopped EXCEPT !.epoch = sock[c].epoch, !.doc = doc,
                                                         !.durable = got.durable]]
        /\ hub' = [room |-> r, opener |-> None]
        /\ sock' = [sock EXCEPT ![c].pc = "room", ![c].room = r, ![c].got = Nothing]
  BY <1>1 DEF Opened
<1>3. sock[c].pc = "open" /\ sock[c].epoch \in Epochs
  BY SocketIs DEF Opened
<1>4. got \in Recovered /\ got.durable <= Len(log)
  BY <1>1, <1>3, SocketIs DEF Shaped, Typed, SocketsTyped
<1>5. doc \in SUBSET Edits /\ got.durable \in Nat
  BY <1>1, <1>4 DEF Recovered, Typed, StoreTyped
<1>6. PICK A : A = [Stopped EXCEPT !.epoch = sock[c].epoch, !.doc = doc, !.durable = got.durable]
  OBVIOUS
<1>7. A = [epoch |-> sock[c].epoch, doc |-> doc, durable |-> got.durable, pending |-> <<>>, since |-> 0]
  BY <1>6 DEF Stopped
<1>8. A \in Actor /\ A.epoch = sock[c].epoch /\ A.epoch # 0 /\ A.durable = got.durable
  <2>1. sock[c].epoch \in 0 .. MaxEpoch /\ sock[c].epoch # 0 /\ 0 \in 0 .. SnapshotEvery
    BY <1>3, RoomAssumption DEF Epochs
  <2>2. <<>> \in Seq(Update)
    BY EmptySeq
  <2>. QED  BY <1>5, <1>7, <2>1, <2>2 DEF Actor
<1>9. PICK t \in ShapedSocket :
        /\ sock' = [sock EXCEPT ![c] = t] /\ SameRest(t, sock[c]) /\ t.pc = "room" /\ t.room = r
  <2>1. \E t \in ShapedSocket :
             /\ sock' = [sock EXCEPT ![c] = t] /\ SameRest(t, sock[c]) /\ t.pc = "room" /\ t.room = r
             /\ t.initial = sock[c].initial /\ t.out = sock[c].out /\ t.hand = Nothing
    BY <1>2, <1>3, OpenedIs
  <2>. QED  BY <2>1
<1>10. /\ sock' \in [Clients -> ShapedSocket] /\ sock'[c] = t
       /\ \A d \in Clients : d # c => sock'[d] = sock[d]
  BY <1>9 DEF Typed, SocketsTyped
<1>11. /\ rooms' \in [RoomIds -> Actor] /\ rooms'[r] = A /\ \A q \in RoomIds : q # r => rooms'[q] = rooms[q]
  BY <1>2, <1>6, <1>8 DEF Typed, RoomsTyped
<1>12. StoreTyped'
  <2>1. snaps' \in SUBSET Snap /\ \A s \in snaps' : s.through <= Len(log)
    <3>1. snaps' = Saved(snaps, [epoch |-> sock[c].epoch, through |-> 0, doc |-> file]) \/ snaps' = snaps
      BY DEF Opened
    <3>. QED  BY <1>3, <3>1, FirstSnapshot DEF Typed, StoreTyped
  <2>. QED  BY <2>1 DEF Opened, Typed, StoreTyped
<1>13. RoomsTyped'
  BY <1>4, <1>8, <1>11 DEF RoomsTyped, Typed, Opened
<1>14. SocketsTyped'
  BY <1>9, <1>10 DEF Typed, SocketsTyped, Opened
<1>15. HandlesTyped'
  <2>1. ASSUME NEW d \in Clients, sock'[d].room # NoRoom
        PROVE  rooms'[sock'[d].room].epoch = sock'[d].epoch
    <3>1. CASE d = c
      BY <1>8, <1>9, <1>10, <1>11, <3>1 DEF SameRest
    <3>2. CASE d # c
      <4>1. sock'[d] = sock[d] /\ sock[d].room \in RoomIds /\ rooms[sock[d].room].epoch # 0
            /\ rooms[sock[d].room].epoch = sock[d].epoch
        BY <1>10, <2>1, <3>2, InRoom DEF Epochs
      <4>2. sock[d].room # r
        BY <1>2, <4>1, StoppedTyped
      <4>. QED  BY <1>11, <4>1, <4>2
    <3>. QED  BY <3>1, <3>2
  <2>. QED  BY <2>1 DEF HandlesTyped
<1>16. RestTyped'
  BY <1>2 DEF Opened, Typed, RestTyped
<1>. QED  BY <1>12, <1>13, <1>14, <1>15, <1>16 DEF Typed

LEMMA RoomStepTyped ==
    ASSUME Typed, NEW r \in RoomIds, Tick(r) \/ Flush(r)
    PROVE  Typed'
<1>1. Committed(r, WorkOf(r), sock)
  BY TickCommits
<1>2. StoreTyped' /\ RoomsTyped' /\ SocketsTyped' /\ HandlesTyped'
  BY <1>1, WorkSound, FollowsSame, CommittedTyped
<1>3. hub' = hub
  BY <1>1 DEF Committed, Commit
<1>4. RestTyped'
  BY <1>3 DEF Tick, Flush, Typed, RestTyped
<1>. QED  BY <1>2, <1>4 DEF Typed

LEMMA JoinTyped ==
    ASSUME Typed, NEW c \in Clients, Join(c)
    PROVE  Typed'
<1>1. PICK S : S = [sock EXCEPT ![c].pc = "reply", ![c].initial = rooms[sock[c].room].doc]
  OBVIOUS
<1>2. Committed(sock[c].room, WorkOf(sock[c].room), S)
  BY <1>1, JoinCommits
<1>3. sock[c].pc = "room" /\ sock[c].room # NoRoom
  BY SocketIs DEF Join, Shaped
<1>4. sock[c].room \in RoomIds
  BY <1>3, InRoom
<1>5. Follows(S)
  BY <1>1, <1>3, JoinIs
<1>6. StoreTyped' /\ RoomsTyped' /\ SocketsTyped' /\ HandlesTyped'
  BY <1>2, <1>4, <1>5, WorkSound, CommittedTyped
<1>7. hub' = hub
  BY <1>2 DEF Committed, Commit
<1>8. RestTyped'
  BY <1>7 DEF Join, Typed, RestTyped
<1>. QED  BY <1>6, <1>8 DEF Typed

LEMMA SubscribeTyped ==
    ASSUME Typed, NEW c \in Clients, Subscribe(c)
    PROVE  Typed'
<1>1. sock[c].pc = "reply" /\ sock[c].room # NoRoom /\ sock[c].epoch \in Epochs
  BY SocketIs DEF Subscribe, Shaped
<1>2. CASE local[c].epoch \in {0, sock[c].epoch}
  <2>1. PICK e, doc : e = sock[c].epoch /\ doc = local[c].docs[e] \cup sock[c].initial
    OBVIOUS
  <2>2. /\ local' = [local EXCEPT ![c].epoch = e, ![c].docs[e] = doc]
        /\ sock' = [sock EXCEPT ![c].pc = "joined", ![c].initial = {}, ![c].out = <<doc>>]
        /\ UNCHANGED <<epoch, file, log, snaps, hub, rooms>>
    BY <1>2, <2>1 DEF Subscribe
  <2>3. doc \in SUBSET Edits /\ e \in Epochs /\ e \in 0 .. MaxEpoch
    BY <1>1, <2>1, SocketIs DEF Typed, RestTyped, Browser
  <2>4. PICK t \in ShapedSocket :
           /\ sock' = [sock EXCEPT ![c] = t] /\ SameRest(t, sock[c]) /\ t.pc = "joined"
           /\ t.room = sock[c].room /\ t.initial = {} /\ t.out = <<doc>> /\ t.hand = sock[c].hand
    BY ZenonT(60), <1>1, <2>2, <2>3, SubscribeIs
  <2>5. SocketsTyped' /\ HandlesTyped'
    BY ZenonT(60), <1>1, <2>2, <2>4, InRoom, SocketStep DEF SameRest
  <2>6. StoreTyped' /\ RoomsTyped'
    BY <2>2, StaysTyped
  <2>7. RestTyped'
    BY <2>2, <2>3, BrowserKept DEF Subscribe, Typed, RestTyped
  <2>. QED  BY <2>5, <2>6, <2>7 DEF Typed
<1>3. CASE local[c].epoch \notin {0, sock[c].epoch}
  <2>1. local' = [local EXCEPT ![c].epoch = 0] /\ Leave(c) /\ UNCHANGED <<synced, born, restore>>
    BY <1>3 DEF Subscribe
  <2>2. StoreTyped' /\ RoomsTyped' /\ SocketsTyped' /\ HandlesTyped' /\ epoch' = epoch /\ hub' = hub
    BY <1>1, <2>1, LeaveTyped
  <2>3. 0 \in 0 .. MaxEpoch /\ sock[c].epoch \in Epochs
    BY <1>1, RoomAssumption
  <2>4. local' \in [Clients -> Browser]
    BY <2>1, <2>3, BrowserKept
  <2>5. RestTyped'
    BY <2>1, <2>2, <2>4 DEF Typed, RestTyped
  <2>. QED  BY <2>2, <2>5 DEF Typed
<1>. QED  BY <1>2, <1>3

LEMMA TypeTyped ==
    ASSUME Typed, NEW c \in Clients, NEW u \in Edits, Type(c, u)
    PROVE  Typed'
<1>1. PICK t \in ShapedSocket :
        /\ sock' = [sock EXCEPT ![c] = t] /\ SameRest(t, sock[c]) /\ t.pc = sock[c].pc
        /\ t.room = sock[c].room /\ t.initial = sock[c].initial /\ t.hand = sock[c].hand
        /\ t.got = sock[c].got
        /\ t.out = sock[c].out \/ (t.out = Append(sock[c].out, {u}) /\ sock[c].pc = "joined")
  BY TypeIs
<1>2. SocketsTyped' /\ HandlesTyped'
  <2>1. log' = log /\ rooms' = rooms
    BY DEF Type
  <2>2. t.pc = "open" => t.got.durable <= Len(log)
    BY <1>1 DEF Typed, SocketsTyped
  <2>3. t.room # NoRoom => rooms[t.room].epoch = t.epoch
    BY <1>1, InRoom DEF SameRest
  <2>. QED  BY <1>1, <2>1, <2>2, <2>3, SocketStep
<1>3. StoreTyped' /\ RoomsTyped'
  BY StaysTyped DEF Type
<1>4. PICK e, doc : e = local[c].epoch /\ doc = local[c].docs[local[c].epoch] \cup {u}
  OBVIOUS
<1>5. e \in 0 .. MaxEpoch /\ e \in Epochs /\ local[c] \in Browser
  BY <1>4 DEF Type, Typed, RestTyped, Browser, Epochs
<1>6. doc \in SUBSET Edits
  BY <1>4, <1>5 DEF Browser
<1>7. local' \in [Clients -> Browser]
  BY <1>4, <1>5, <1>6, BrowserKept DEF Type
<1>8. RestTyped'
  BY <1>4, <1>5, <1>7 DEF Type, Typed, RestTyped
<1>. QED  BY <1>2, <1>3, <1>8 DEF Typed

LEMMA AuthorizeTyped ==
    ASSUME Typed, NEW c \in Clients, Authorize(c)
    PROVE  Typed'
<1>1. sock[c].pc = "joined" /\ sock[c].room # NoRoom
  BY SocketIs DEF Authorize, Shaped
<1>2. CASE epoch = sock[c].epoch
  <2>1. PICK t \in ShapedSocket :
          /\ sock' = [sock EXCEPT ![c] = t] /\ SameRest(t, sock[c]) /\ t.pc = "joined"
          /\ t.room = sock[c].room /\ t.initial = sock[c].initial /\ t.hand = [ups |-> Head(sock[c].out)]
          /\ t.out = Tail(sock[c].out)
    BY <1>2, AuthorizeIs
  <2>2. UNCHANGED <<epoch, file, log, snaps, hub, rooms, local, synced, born, restore>>
    BY <1>2 DEF Authorize
  <2>3. SocketsTyped' /\ HandlesTyped'
    BY <1>1, <2>1, <2>2, InRoom, SocketStep DEF SameRest
  <2>4. StoreTyped' /\ RoomsTyped'
    BY <2>2, StaysTyped
  <2>5. RestTyped'
    BY <2>2 DEF Typed, RestTyped
  <2>. QED  BY <2>3, <2>4, <2>5 DEF Typed
<1>3. CASE epoch # sock[c].epoch
  <2>1. Leave(c) /\ UNCHANGED <<local, synced, born, restore>>
    BY <1>3 DEF Authorize
  <2>2. StoreTyped' /\ RoomsTyped' /\ SocketsTyped' /\ HandlesTyped' /\ epoch' = epoch /\ hub' = hub
    BY <1>1, <2>1, LeaveTyped
  <2>3. RestTyped'
    BY <2>1, <2>2 DEF Typed, RestTyped
  <2>. QED  BY <2>2, <2>3 DEF Typed
<1>. QED  BY <1>2, <1>3

LEMMA ApplyTyped ==
    ASSUME Typed, NEW c \in Clients, Apply(c)
    PROVE  Typed'
<1>1. sock[c].hand # Nothing /\ sock[c].pc = "joined" /\ sock[c].room # NoRoom
  BY SocketIs DEF Apply, Shaped
<1>2. UNCHANGED <<local, synced, born, restore>>
  BY DEF Apply
<1>3. CASE sock[c].hand.ups \subseteq rooms[sock[c].room].doc
  <2>1. PICK t \in ShapedSocket :
          /\ sock' = [sock EXCEPT ![c] = t] /\ t.pc = sock[c].pc /\ t.epoch = sock[c].epoch
          /\ t.room = sock[c].room /\ t.initial = sock[c].initial /\ t.hand = Nothing
          /\ t.out = sock[c].out /\ t.events = sock[c].events /\ t.got = sock[c].got
          /\ t.acks = sock[c].acks \cup sock[c].hand.ups /\ t.stale = sock[c].stale
    BY <1>3, RepeatIs
  <2>2. UNCHANGED <<epoch, file, log, snaps, hub, rooms>>
    BY <1>3 DEF Apply
  <2>3. SocketsTyped' /\ HandlesTyped'
    BY <1>1, <2>1, <2>2, InRoom, SocketStep
  <2>4. StoreTyped' /\ RoomsTyped'
    BY <2>2, StaysTyped
  <2>5. RestTyped'
    BY <1>2, <2>2 DEF Typed, RestTyped
  <2>. QED  BY <2>3, <2>4, <2>5 DEF Typed
<1>4. CASE ~(sock[c].hand.ups \subseteq rooms[sock[c].room].doc)
  <2>1. PICK S : S = ToldOf(c)
    OBVIOUS
  <2>2. Committed(sock[c].room, KeptWork(c), S) /\ Follows(S)
    BY <1>1, <1>4, <2>1, ApplyCommits, ToldIs
  <2>3. sock[c].room \in RoomIds /\ KeptWork(c) \in SoundWorks(sock[c].room)
    BY <1>1, InRoom, KeptSound
  <2>4. StoreTyped' /\ RoomsTyped' /\ SocketsTyped' /\ HandlesTyped'
    BY <2>2, <2>3, CommittedTyped
  <2>5. hub' = hub
    BY <2>2 DEF Committed, Commit
  <2>6. RestTyped'
    BY <1>2, <2>5 DEF Typed, RestTyped
  <2>. QED  BY <2>4, <2>6 DEF Typed
<1>. QED  BY <1>3, <1>4

LEMMA DeliverTyped ==
    ASSUME Typed, NEW c \in Clients, Deliver(c)
    PROVE  Typed'
<1>1. PICK t \in ShapedSocket :
        /\ sock' = [sock EXCEPT ![c] = t] /\ t.pc = "joined" /\ t.epoch = sock[c].epoch
        /\ t.room = sock[c].room /\ t.initial = sock[c].initial /\ t.hand = sock[c].hand
        /\ t.out = sock[c].out /\ t.events = {} /\ t.acks = {} /\ t.stale = sock[c].stale
  BY DeliverIs
<1>2. SocketsTyped' /\ HandlesTyped'
  <2>1. log' = log /\ rooms' = rooms
    BY DEF Deliver
  <2>2. t.room # NoRoom => rooms[t.room].epoch = t.epoch
    BY <1>1, InRoom
  <2>. QED  BY <1>1, <2>1, <2>2, SocketStep
<1>3. StoreTyped' /\ RoomsTyped'
  BY StaysTyped DEF Deliver
<1>4. PICK e, doc : e = sock[c].epoch /\ doc = local[c].docs[sock[c].epoch] \cup sock[c].events
  OBVIOUS
<1>5. e \in Epochs /\ doc \in SUBSET Edits /\ 0 \in 0 .. MaxEpoch
  BY <1>4, SocketIs, RoomAssumption DEF Deliver, Typed, RestTyped, Browser
<1>6. local' \in [Clients -> Browser]
  BY <1>4, <1>5, BrowserKept DEF Deliver
<1>7. synced' \in [Clients -> SUBSET Edits]
  BY SocketIs DEF Deliver, Typed, RestTyped
<1>8. RestTyped'
  BY <1>6, <1>7 DEF Deliver, Typed, RestTyped
<1>. QED  BY <1>2, <1>3, <1>8 DEF Typed

LEMMA GoneTyped ==
    ASSUME Typed, NEW c \in Clients, EpochNotice(c) \/ Drop(c)
    PROVE  Typed'
<1>1. sock[c].room # NoRoom
  BY SocketIs DEF EpochNotice, Drop, Shaped
<1>2. Leave(c) /\ UNCHANGED <<synced, born, restore>>
  BY DEF EpochNotice, Drop
<1>3. StoreTyped' /\ RoomsTyped' /\ SocketsTyped' /\ HandlesTyped' /\ epoch' = epoch /\ hub' = hub
  BY <1>1, <1>2, LeaveTyped
<1>4. local' \in [Clients -> Browser]
  <2>1. 0 \in 0 .. MaxEpoch /\ sock[c].epoch \in Epochs
    BY <1>1, InRoom, RoomAssumption
  <2>2. [local EXCEPT ![c].epoch = 0] \in [Clients -> Browser]
    BY <2>1, BrowserKept
  <2>3. local' = [local EXCEPT ![c].epoch = 0] \/ local' = local
    BY DEF EpochNotice, Drop
  <2>. QED  BY <2>2, <2>3 DEF Typed, RestTyped
<1>5. RestTyped'
  BY <1>2, <1>3, <1>4 DEF Typed, RestTyped
<1>. QED  BY <1>3, <1>5 DEF Typed

LEMMA BarrierTyped ==
    ASSUME Typed, Barrier
    PROVE  Typed'
<1>1. StoreTyped' /\ RoomsTyped' /\ SocketsTyped' /\ HandlesTyped' /\ hub' = hub
  <2>1. CASE hub.room = NoRoom
    BY <2>1 DEF Barrier, Typed, StoreTyped, RoomsTyped, SocketsTyped, HandlesTyped
  <2>2. CASE hub.room # NoRoom
    <3>1. Committed(hub.room, WorkOf(hub.room), sock)
      BY <2>2, BarrierCommits
    <3>2. hub.room \in RoomIds
      BY <2>2 DEF Typed, RestTyped
    <3>3. hub' = hub
      BY <3>1 DEF Committed, Commit
    <3>. QED  BY <3>1, <3>2, <3>3, WorkSound, FollowsSame, CommittedTyped
  <2>. QED  BY <2>1, <2>2
<1>2. restore' \in [pc : {"idle", "flushed", "captured", "applied"}, head : Nat, text : SUBSET Edits]
  BY DEF Barrier, Typed, RestTyped
<1>3. RestTyped'
  BY <1>1, <1>2 DEF Barrier, Typed, RestTyped
<1>. QED  BY <1>1, <1>3 DEF Typed

LEMMA EpochChangedTyped ==
    ASSUME Typed, EpochChanged
    PROVE  Typed'
<1>1. \A c \in Clients :
        /\ sock'[c] \in ShapedSocket /\ sock'[c].pc = sock[c].pc /\ sock'[c].epoch = sock[c].epoch
        /\ sock'[c].room = sock[c].room /\ sock'[c].got = sock[c].got
  BY NoticedIs
<1>2. sock' \in [Clients -> ShapedSocket]
  <2>1. sock' = [c \in Clients |-> sock'[c]]
    BY DEF EpochChanged
  <2>. QED  BY <1>1, <2>1
<1>3. rooms' = Held(rooms, NoRoom, sock') /\ rooms \in [RoomIds -> Actor]
  BY DEF EpochChanged, Typed, RoomsTyped
<1>4. /\ rooms' \in [RoomIds -> Actor] /\ \A r \in RoomIds : rooms'[r] = rooms[r] \/ rooms'[r] = Stopped
      /\ \A d \in Clients : \A r \in RoomIds : sock'[d].room = r => rooms'[r] = rooms[r]
  BY <1>3, HeldIs, HeldTyped
<1>5. RoomsTyped'
  <2>1. log' = log /\ 0 <= Len(log)
    BY OpenKeepsLog DEF EpochChanged
  <2>2. \A r \in RoomIds : /\ rooms[r].durable <= Len(log) /\ (rooms[r].epoch = 0 => rooms[r] = Stopped)
                            /\ Stopped.durable <= Len(log)
    BY <2>1, StoppedTyped DEF Typed, RoomsTyped
  <2>. QED  BY <1>4, <2>1, <2>2 DEF RoomsTyped
<1>6. StoreTyped'
  BY DEF EpochChanged, Typed, StoreTyped
<1>7. SocketsTyped'
  <2>1. log' = log
    BY DEF EpochChanged
  <2>. QED  BY <1>1, <1>2, <2>1 DEF Typed, SocketsTyped
<1>8. HandlesTyped'
  BY <1>1, <1>4, InRoom DEF HandlesTyped
<1>9. RestTyped'
  <2>1. NoRestore \in [pc : {"idle", "flushed", "captured", "applied"}, head : Nat, text : SUBSET Edits]
    BY DEF NoRestore
  <2>2. hub' \in [room : RoomIds \cup {NoRoom}, opener : Clients \cup {None}]
    BY DEF EpochChanged, Typed, RestTyped
  <2>. QED  BY <2>1, <2>2 DEF EpochChanged, Typed, RestTyped
<1>. QED  BY <1>5, <1>6, <1>7, <1>8, <1>9 DEF Typed

LEMMA CrashTyped ==
    ASSUME Typed, Crash
    PROVE  Typed'
<1>1. StoreTyped'
  BY DEF Crash, Typed, StoreTyped
<1>2. RoomsTyped'
  BY StoppedTyped, OpenKeepsLog DEF Crash, RoomsTyped
<1>3. SocketsTyped' /\ HandlesTyped'
  BY OfflineTyped DEF Crash, SocketsTyped, HandlesTyped
<1>4. RestTyped'
  BY DEF Crash, Typed, RestTyped, NoRestore
<1>. QED  BY <1>1, <1>2, <1>3, <1>4 DEF Typed

\* A restoration that may still be applied has an epoch to open.
OneMore == restore.pc \in {"flushed", "captured"} => epoch < MaxEpoch

LEMMA LeaveSteady ==
    ASSUME NEW c \in Clients, Leave(c)
    PROVE  epoch' = epoch /\ hub' = hub
BY LeaveCommits DEF Committed, Commit

LEMMA EpochSteady ==
    ASSUME Next, ~Restoration, ~Crash
    PROVE  epoch' = epoch /\ restore' = restore
<1>1. ASSUME NEW c \in Clients, Connect(c) \/ Serve(c) \/ OpenFails(c) \/ Drop(c)
      PROVE  epoch' = epoch /\ restore' = restore
  <2>1. CASE Connect(c) \/ OpenFails(c)
    BY <2>1 DEF Connect, OpenFails
  <2>2. CASE FindRoom(c) \/ OpenRoom(c) \/ Opened(c)
    BY <2>2 DEF FindRoom, OpenRoom, Opened
  <2>3. CASE Join(c)
    BY <2>3 DEF Join, Commit
  <2>4. CASE Subscribe(c)
    BY <2>4, LeaveSteady DEF Subscribe
  <2>5. CASE Authorize(c)
    BY <2>5, LeaveSteady DEF Authorize
  <2>6. CASE Apply(c)
    BY <2>6 DEF Apply, Commit
  <2>7. CASE Deliver(c)
    BY <2>7 DEF Deliver
  <2>8. CASE EpochNotice(c) \/ Drop(c)
    BY <2>8, LeaveSteady DEF EpochNotice, Drop
  <2>. QED  BY <1>1, <2>1, <2>2, <2>3, <2>4, <2>5, <2>6, <2>7, <2>8 DEF Serve
<1>2. ASSUME NEW c \in Clients, NEW u \in Edits, Type(c, u)
      PROVE  epoch' = epoch /\ restore' = restore
  BY <1>2 DEF Type
<1>3. ASSUME NEW r \in RoomIds, Tick(r) \/ Flush(r)
      PROVE  epoch' = epoch /\ restore' = restore
  BY <1>3 DEF Tick, Flush, Commit
<1>. QED  BY <1>1, <1>2, <1>3 DEF Next

LEMMA InitOneMore == Init => OneMore
BY DEF Init, OneMore, NoRestore

LEMMA NextOneMore == Typed /\ OneMore /\ [Next]_vars => OneMore'
<1>. SUFFICES ASSUME Typed, OneMore, [Next]_vars
     PROVE  OneMore'
  OBVIOUS
<1>1. CASE Barrier
  <2>1. epoch' = epoch
    BY <1>1, BarrierCommits DEF Barrier, Committed, Commit
  <2>2. epoch < MaxEpoch
    BY <1>1 DEF Barrier
  <2>. QED  BY <2>1, <2>2 DEF OneMore
<1>2. CASE CaptureExact \/ ApplyRestore
  BY <1>2 DEF CaptureExact, ApplyRestore, OneMore, NoRestore, Typed, RestTyped
<1>3. CASE EpochChanged \/ Crash
  BY <1>3 DEF EpochChanged, Crash, OneMore, NoRestore
<1>4. CASE UNCHANGED vars
  BY <1>4 DEF vars, OneMore
<1>5. CASE Next /\ ~Restoration /\ ~Crash
  BY <1>5, EpochSteady DEF OneMore
<1>. QED  BY <1>1, <1>2, <1>3, <1>4, <1>5 DEF Restoration

LEMMA RestoreTyped ==
    ASSUME Typed, OneMore, CaptureExact \/ ApplyRestore
    PROVE  Typed'
<1>1. UNCHANGED <<log, snaps, hub, rooms, sock, local, synced, born>>
  BY DEF CaptureExact, ApplyRestore
<1>2. RoomsTyped' /\ SocketsTyped' /\ HandlesTyped'
  BY <1>1 DEF Typed, RoomsTyped, SocketsTyped, HandlesTyped
<1>3. NoRestore \in [pc : {"idle", "flushed", "captured", "applied"}, head : Nat, text : SUBSET Edits]
  BY DEF NoRestore
<1>4. CASE CaptureExact
  <2>1. StoreTyped'
    BY <1>4 DEF CaptureExact, Typed, StoreTyped
  <2>2. restore' \in [pc : {"idle", "flushed", "captured", "applied"}, head : Nat, text : SUBSET Edits]
    BY <1>4, OpenKeepsLog DEF CaptureExact, Typed, StoreTyped
  <2>. QED  BY <1>1, <1>2, <2>1, <2>2 DEF Typed, RestTyped
<1>5. CASE ApplyRestore
  <2>0. epoch' \in Epochs /\ file' \subseteq Edits
    BY <1>5, RoomAssumption DEF ApplyRestore, OneMore, Typed, StoreTyped, Epochs
  <2>1. StoreTyped'
    BY <1>1, <2>0 DEF Typed, StoreTyped
  <2>2. restore' \in [pc : {"idle", "flushed", "captured", "applied"}, head : Nat, text : SUBSET Edits]
    BY <1>3, <1>5 DEF ApplyRestore, Typed, RestTyped
  <2>. QED  BY <1>1, <1>2, <2>1, <2>2 DEF Typed, RestTyped
<1>. QED  BY <1>4, <1>5

LEMMA PlainTyped ==
    ASSUME Typed, NEW c \in Clients, Connect(c) \/ FindRoom(c) \/ OpenFails(c)
    PROVE  Typed'
<1>1. UNCHANGED <<epoch, file, log, snaps, rooms, local, synced, born, restore>>
  BY DEF Connect, FindRoom, OpenFails
<1>2. StoreTyped' /\ RoomsTyped'
  BY <1>1, StaysTyped
<1>3. RestTyped'
  BY <1>1 DEF Connect, FindRoom, OpenFails, Typed, RestTyped
<1>4. CASE Connect(c)
  <2>1. PICK t \in ShapedSocket :
          /\ sock' = [sock EXCEPT ![c] = t] /\ t.pc = "access" /\ t.epoch = epoch /\ t.room = NoRoom
          /\ t.initial = {} /\ t.out = <<>> /\ t.hand = Nothing /\ t.acks = {} /\ t.events = {}
    BY <1>4, ConnectIs
  <2>2. SocketsTyped' /\ HandlesTyped'
    BY <1>1, <2>1, SocketStep
  <2>. QED  BY <1>2, <1>3, <2>2 DEF Typed
<1>5. CASE FindRoom(c)
  <2>1. PICK t \in ShapedSocket :
          /\ sock' = [sock EXCEPT ![c] = t] /\ SameRest(t, sock[c]) /\ t.pc = "room" /\ t.room = hub.room
          /\ t.initial = sock[c].initial /\ t.out = sock[c].out /\ t.hand = Nothing
          /\ rooms[hub.room].epoch = t.epoch
    BY <1>5, FindRoomIs
  <2>2. SocketsTyped' /\ HandlesTyped'
    BY <1>1, <2>1, SocketStep
  <2>. QED  BY <1>2, <1>3, <2>2 DEF Typed
<1>6. CASE OpenFails(c)
  <2>1. sock' = [sock EXCEPT ![c] = Offline]
    BY <1>6 DEF OpenFails
  <2>2. SocketsTyped' /\ HandlesTyped'
    BY <1>1, <2>1, OfflineTyped, SocketStep
  <2>. QED  BY <1>2, <1>3, <2>2 DEF Typed
<1>. QED  BY <1>4, <1>5, <1>6

LEMMA NextTyped == Typed /\ OneMore /\ [Next]_vars => Typed'
<1>. SUFFICES ASSUME Typed, OneMore, [Next]_vars
     PROVE  Typed'
  OBVIOUS
<1>1. ASSUME NEW c \in Clients, Connect(c) \/ Serve(c) \/ OpenFails(c) \/ Drop(c)
      PROVE  Typed'
  BY <1>1, PlainTyped, OpenTyped, OpenedTyped, JoinTyped, SubscribeTyped, AuthorizeTyped, ApplyTyped,
     DeliverTyped, GoneTyped DEF Serve
<1>2. ASSUME NEW c \in Clients, NEW u \in Edits, Type(c, u)
      PROVE  Typed'
  BY <1>2, TypeTyped
<1>3. ASSUME NEW r \in RoomIds, Tick(r) \/ Flush(r)
      PROVE  Typed'
  BY <1>3, RoomStepTyped
<1>4. CASE Restoration
  BY <1>4, BarrierTyped, RestoreTyped, EpochChangedTyped DEF Restoration
<1>5. CASE Crash
  BY <1>5, CrashTyped
<1>6. CASE UNCHANGED vars
  BY <1>6 DEF vars, Typed, StoreTyped, RoomsTyped, SocketsTyped, HandlesTyped, RestTyped
<1>. QED  BY <1>1, <1>2, <1>3, <1>4, <1>5, <1>6 DEF Next

LEMMA TypedAlways == Spec => [](Typed /\ OneMore)
<1>1. Init => Typed /\ OneMore
  BY InitTyped, InitOneMore
<1>2. Typed /\ OneMore /\ [Next]_vars => Typed' /\ OneMore'
  BY NextTyped, NextOneMore
<1>. QED  BY <1>1, <1>2, PTL DEF Spec

\* The state keeps its types, and with them what its readers rely on: a handle is of
\* a live room of the epoch that its socket read, and no room or snapshot claims rows
\* that the log does not have (Typed).
THEOREM RoomTypeCorrect == Spec => []TypeOK
<1>1. Typed => TypeOK
  BY TypedImplies
<1>. QED  BY <1>1, TypedAlways, PTL

-----------------------------------------------------------------------------
(* The fence between epochs.  It speaks of the current epoch only: a room of *)
(* an earlier one may have been opened over the file of a later one.         *)

Fenced(S, e, now, b) == e = now => \A u \in S : b[u] = e
FencedRow(l, b) == \A u \in l.ups : b[u] = l.epoch
FencedSnap(s, now, b) == s.epoch <= now /\ Fenced(s.doc, s.epoch, now, b)
FencedActor(a, now, b) ==
    /\ a.epoch <= now /\ Fenced(a.doc, a.epoch, now, b)
    /\ \A i \in 1 .. Len(a.pending) : Fenced(a.pending[i].ups, a.epoch, now, b)
FencedSocket(s, now, b) ==
    /\ s.epoch <= now /\ Fenced(s.initial, s.epoch, now, b) /\ Fenced(s.events, s.epoch, now, b)
    /\ \A i \in 1 .. Len(s.out) : Fenced(s.out[i], s.epoch, now, b)
    /\ s.hand # Nothing => Fenced(s.hand.ups, s.epoch, now, b)
    /\ s.pc = "open" => Fenced(s.got.doc, s.epoch, now, b)
FencedBrowser(d, now, b) ==
    /\ d.epoch <= now
    /\ \A e \in Epochs : Fenced(d.docs[e], e, now, b) /\ (e > now => d.docs[e] = {})

StoreFenced ==
    /\ Fenced(file, epoch, epoch, born)
    /\ \A i \in 1 .. Len(log) : FencedRow(log[i], born)
    /\ \A s \in snaps : FencedSnap(s, epoch, born)
RoomsFenced == \A r \in RoomIds : FencedActor(rooms[r], epoch, born)
SocketsFenced == \A c \in Clients : FencedSocket(sock[c], epoch, born)
BrowsersFenced == \A c \in Clients : FencedBrowser(local[c], epoch, born)
\* What is typed on a joined page is sent to a room of the page's epoch.
PagesJoined == \A c \in Clients : sock[c].pc = "joined" => local[c].epoch = sock[c].epoch
Fence == StoreFenced /\ RoomsFenced /\ SocketsFenced /\ BrowsersFenced /\ PagesJoined

\* Whatever was fenced at epoch now stays so at now2.
Carries(now, b, now2, b2) ==
    /\ now \in Nat /\ now2 \in Nat /\ now <= now2
    /\ \A S \in SUBSET Edits : \A e \in 0 .. MaxEpoch :
          e <= now /\ Fenced(S, e, now, b) => Fenced(S, e, now2, b2)

LEMMA NextEpochCarries ==
    ASSUME NEW now \in Nat, NEW b
    PROVE  Carries(now, b, now + 1, b)
BY DEF Carries, Fenced

LEMMA TypingCarries ==
    ASSUME NEW now \in Epochs, NEW b \in [Edits -> 0 .. MaxEpoch], NEW u \in Edits, b[u] = 0, NEW e0
    PROVE  Carries(now, b, now, [b EXCEPT ![u] = e0])
<1>1. now \in Nat /\ now # 0
  BY DEF Epochs
<1>2. ASSUME NEW S \in SUBSET Edits, NEW e, Fenced(S, e, now, b)
      PROVE  Fenced(S, e, now, [b EXCEPT ![u] = e0])
  BY <1>1, <1>2 DEF Fenced
<1>3. PICK b2 : b2 = [b EXCEPT ![u] = e0]
  OBVIOUS
<1>4. \A S \in SUBSET Edits : \A e \in 0 .. MaxEpoch : Fenced(S, e, now, b) => Fenced(S, e, now, b2)
  BY <1>2, <1>3
<1>5. now <= now
  BY <1>1
<1>6. Carries(now, b, now, b2)
  BY <1>1, <1>4, <1>5 DEF Carries
<1>. QED  BY <1>3, <1>6

LEMMA CarriedActor ==
    ASSUME NEW now, NEW b, NEW now2, NEW b2, Carries(now, b, now2, b2), NEW a \in Actor, FencedActor(a, now, b)
    PROVE  FencedActor(a, now2, b2)
<1>1. /\ a.doc \in SUBSET Edits /\ a.epoch \in 0 .. MaxEpoch /\ a.pending \in Seq(Update) /\ a.epoch \in Nat
      /\ now \in Nat /\ now2 \in Nat /\ now <= now2 /\ a.epoch <= now
  BY DEF Actor, Carries, FencedActor
<1>2. \A i \in 1 .. Len(a.pending) : a.pending[i].ups \in SUBSET Edits
  <2>1. \A i \in 1 .. Len(a.pending) : a.pending[i] \in Update
    BY <1>1, ElementOfSeq
  <2>. QED  BY <2>1 DEF Update
<1>3. a.epoch <= now2
  BY <1>1
<1>. QED  BY <1>1, <1>2, <1>3 DEF FencedActor, Carries

LEMMA CarriedSnap ==
    ASSUME NEW now, NEW b, NEW now2, NEW b2, Carries(now, b, now2, b2), NEW s \in Snap, FencedSnap(s, now, b)
    PROVE  FencedSnap(s, now2, b2)
<1>1. /\ s.doc \in SUBSET Edits /\ s.epoch \in 0 .. MaxEpoch /\ s.epoch \in Nat
      /\ now \in Nat /\ now2 \in Nat /\ now <= now2 /\ s.epoch <= now
  BY RoomAssumption DEF Snap, Carries, FencedSnap, Epochs
<1>2. s.epoch <= now2
  BY <1>1
<1>. QED  BY <1>1, <1>2 DEF FencedSnap, Carries

LEMMA CarriedSocket ==
    ASSUME NEW now, NEW b, NEW now2, NEW b2, Carries(now, b, now2, b2),
           NEW s \in ShapedSocket, FencedSocket(s, now, b)
    PROVE  FencedSocket(s, now2, b2)
<1>1. /\ s.initial \in SUBSET Edits /\ s.events \in SUBSET Edits /\ s.epoch \in 0 .. MaxEpoch
      /\ s.epoch \in Nat /\ s.out \in Seq(SUBSET Edits)
      /\ now \in Nat /\ now2 \in Nat /\ now <= now2 /\ s.epoch <= now
  BY DEF ShapedSocket, Socket, Carries, FencedSocket
<1>2. \A i \in 1 .. Len(s.out) : s.out[i] \in SUBSET Edits
  BY <1>1, ElementOfSeq
<1>3. s.hand # Nothing => s.hand.ups \in SUBSET Edits
  BY DEF ShapedSocket, Socket
<1>4. s.pc = "open" => s.got.doc \in SUBSET Edits
  BY DEF ShapedSocket, Shaped, Recovered
<1>5. s.epoch <= now2
  BY <1>1
<1>. QED  BY <1>1, <1>2, <1>3, <1>4, <1>5 DEF FencedSocket, Carries

LEMMA CarriedBrowser ==
    ASSUME NEW now, NEW b, NEW now2, NEW b2, Carries(now, b, now2, b2),
           NEW d \in Browser, FencedBrowser(d, now, b)
    PROVE  FencedBrowser(d, now2, b2)
<1>1. /\ d.epoch \in Nat /\ now \in Nat /\ now2 \in Nat /\ now <= now2 /\ d.epoch <= now
      /\ \A e \in Epochs : d.docs[e] \in SUBSET Edits
  BY DEF Browser, Carries, FencedBrowser
<1>2. d.epoch <= now2
  BY <1>1
<1>3. ASSUME NEW e \in Epochs
      PROVE  Fenced(d.docs[e], e, now2, b2) /\ (e > now2 => d.docs[e] = {})
  <2>1. e \in 0 .. MaxEpoch /\ e \in Nat
    BY RoomAssumption DEF Epochs
  <2>2. CASE e <= now
    <3>1. ~(e > now2)
      BY <1>1, <2>1, <2>2
    <3>. QED  BY <1>1, <2>1, <2>2, <3>1 DEF FencedBrowser, Carries
  <2>3. CASE ~(e <= now)
    <3>1. d.docs[e] = {}
      BY <1>1, <2>1, <2>3 DEF FencedBrowser
    <3>. QED  BY <3>1 DEF Fenced
  <2>. QED  BY <2>2, <2>3
<1>. QED  BY <1>2, <1>3 DEF FencedBrowser

\* What the operations of room r keep of it
FencedWorks(r) ==
    {w \in SoundWorks(r) :
        /\ Fenced(w.file, epoch, epoch, born) /\ FencedActor(w.room, epoch, born)
        /\ \A i \in 1 .. Len(w.log) : FencedRow(w.log[i], born)
        /\ \A s \in w.snaps : FencedSnap(s, epoch, born)}

LEMMA FencedClosed ==
    ASSUME Typed, NEW r \in RoomIds
    PROVE  Closed(FencedWorks(r))
<1>. SUFFICES ASSUME NEW w \in FencedWorks(r)
     PROVE  /\ w.room.pending # <<>> /\ w.room.epoch = epoch => Persisted(w) \in FencedWorks(r)
            /\ w.room.durable > 0 => Snapped(w) \in FencedWorks(r)
            /\ Reset(w) \in FencedWorks(r)
  BY DEF Closed
<1>0. /\ w \in SoundWorks(r) /\ w \in Work /\ w.room \in Actor
      /\ Fenced(w.file, epoch, epoch, born) /\ FencedActor(w.room, epoch, born)
      /\ \A i \in 1 .. Len(w.log) : FencedRow(w.log[i], born)
      /\ \A s \in w.snaps : FencedSnap(s, epoch, born)
  BY DEF FencedWorks, SoundWorks, Work
<1>1. ASSUME w.room.pending # <<>>, w.room.epoch = epoch
      PROVE  Persisted(w) \in FencedWorks(r)
  <2>1. PICK v : v = Persisted(w)
    OBVIOUS
  <2>2. v \in SoundWorks(r)
    BY <1>0, <1>1, <2>1, SoundClosed DEF Closed
  <2>3. /\ v.file = w.room.doc /\ v.log = w.log \o Rows(w) /\ v.snaps = w.snaps
        /\ v.room.epoch = w.room.epoch /\ v.room.doc = w.room.doc /\ v.room.pending = <<>>
    BY <1>0, <2>1, PersistedFields
  <2>4. Fenced(v.file, epoch, epoch, born) /\ FencedActor(v.room, epoch, born)
    BY <1>0, <1>1, <2>3 DEF FencedActor
  <2>5. \A i \in 1 .. Len(v.log) : FencedRow(v.log[i], born)
    <3>1. PICK L, R : L = w.log /\ R = Rows(w)
      OBVIOUS
    <3>2. w.room.epoch \in Epochs
      BY <1>1 DEF Typed, StoreTyped
    <3>3. /\ R \in Seq(Row) /\ Len(R) = Len(w.room.pending) /\ L \in Seq(Row)
          /\ \A i \in 1 .. Len(R) : R[i] = [epoch |-> w.room.epoch, ups |-> w.room.pending[i].ups]
      BY <1>0, <3>1, <3>2, RowsTyped DEF Work
    <3>4. \A i \in 1 .. Len(R) : FencedRow(R[i], born)
      <4>1. \A i \in 1 .. Len(R) : R[i].epoch = epoch /\ R[i].ups = w.room.pending[i].ups
        <5>1. \A i \in 1 .. Len(R) : R[i] = [epoch |-> w.room.epoch, ups |-> w.room.pending[i].ups]
          BY <3>3
        <5>2. ASSUME NEW i \in 1 .. Len(R)
              PROVE  R[i].epoch = epoch /\ R[i].ups = w.room.pending[i].ups
          <6>1. PICK x, y : x = w.room.epoch /\ y = w.room.pending[i].ups
            OBVIOUS
          <6>2. R[i] = [epoch |-> x, ups |-> y]
            BY <5>1, <6>1
          <6>. QED  BY <1>1, <6>1, <6>2
        <5>. QED  BY <5>2
      <4>2. \A i \in 1 .. Len(w.room.pending) : \A u \in w.room.pending[i].ups : born[u] = epoch
        BY <1>0, <1>1 DEF FencedActor, Fenced
      <4>. QED  BY <3>3, <4>1, <4>2 DEF FencedRow
    <3>5. \A i \in 1 .. Len(L \o R) : (i <= Len(L) /\ (L \o R)[i] = L[i])
                                     \/ (i - Len(L) \in 1 .. Len(R) /\ (L \o R)[i] = R[i - Len(L)])
      BY <3>3, ConcatProperties
    <3>6. \A i \in 1 .. Len(L) : FencedRow(L[i], born)
      BY <1>0, <3>1
    <3>. QED  BY <2>3, <3>1, <3>3, <3>4, <3>5, <3>6
  <2>. QED  BY <1>0, <2>1, <2>2, <2>3, <2>4, <2>5 DEF FencedWorks
<1>2. ASSUME w.room.durable > 0
      PROVE  Snapped(w) \in FencedWorks(r)
  <2>1. PICK v, s : v = Snapped(w) /\ s = [epoch |-> w.room.epoch, through |-> w.room.durable, doc |-> w.room.doc]
    OBVIOUS
  <2>2. v \in SoundWorks(r)
    BY <1>0, <1>2, <2>1, SoundClosed DEF Closed
  <2>3. v.file = w.file /\ v.log = w.log /\ v.room = w.room /\ v.snaps = Saved(w.snaps, s)
    BY <1>0, <2>1, SnappedIs
  <2>4. FencedSnap(s, epoch, born)
    BY <1>0, <2>1 DEF FencedSnap, FencedActor
  <2>5. \A t \in v.snaps : FencedSnap(t, epoch, born)
    BY <1>0, <2>3, <2>4, SavedIs
  <2>. QED  BY <1>0, <2>1, <2>2, <2>3, <2>5 DEF FencedWorks
<1>3. Reset(w) \in FencedWorks(r)
  <2>1. PICK v : v = Reset(w)
    OBVIOUS
  <2>2. v \in SoundWorks(r)
    BY <1>0, <2>1, SoundClosed DEF Closed
  <2>3. /\ v.file = w.file /\ v.log = w.log /\ v.snaps = w.snaps /\ v.room.epoch = w.room.epoch
        /\ v.room.doc = w.room.doc /\ v.room.pending = w.room.pending
    BY <1>0, <2>1, ResetIs
  <2>4. FencedActor(v.room, epoch, born)
    BY <1>0, <2>3 DEF FencedActor
  <2>. QED  BY <1>0, <2>1, <2>2, <2>3, <2>4 DEF FencedWorks
<1>. QED  BY <1>1, <1>2, <1>3

LEMMA FencedWork ==
    ASSUME Typed, Fence, NEW r \in RoomIds
    PROVE  WorkOf(r) \in FencedWorks(r)
<1>1. WorkOf(r) \in SoundWorks(r)
  BY WorkSound
<1>. QED  BY <1>1 DEF WorkOf, FencedWorks, Fence, StoreFenced, RoomsFenced

LEMMA FencedLeft ==
    ASSUME Typed, Fence, NEW c \in Clients, sock[c].room # NoRoom
    PROVE  LeftWork(c) \in FencedWorks(sock[c].room)
<1>1. PICK R, k, P : R = rooms[sock[c].room] /\ k = LeftWork(c) /\ P = Orphaned(R.pending, c)
  OBVIOUS
<1>2. k \in SoundWorks(sock[c].room) /\ R \in Actor /\ R.pending \in Seq(Update)
  BY <1>1, LeftSound, InRoom DEF Actor
<1>3. /\ k.file = file /\ k.log = log /\ k.snaps = snaps /\ k.room.epoch = R.epoch
      /\ k.room.doc = R.doc /\ k.room.pending = P
  <2>1. k = [room |-> [epoch |-> R.epoch, doc |-> R.doc, durable |-> R.durable, pending |-> P,
                       since |-> R.since],
             file |-> file, log |-> log, snaps |-> snaps, acks |-> {}]
    BY <1>1, <1>2, LeftIs
  <2>. QED  BY <2>1
<1>4. Len(P) = Len(R.pending) /\ \A i \in 1 .. Len(P) : P[i].ups = R.pending[i].ups
  BY <1>1, <1>2, OrphanedIs
<1>5. FencedActor(R, epoch, born)
  BY <1>1, InRoom DEF Fence, RoomsFenced
<1>6. FencedActor(k.room, epoch, born)
  BY <1>3, <1>4, <1>5 DEF FencedActor
<1>. QED  BY <1>1, <1>2, <1>3, <1>6 DEF FencedWorks, Fence, StoreFenced

LEMMA FencedKept ==
    ASSUME Typed, Fence, NEW c \in Clients, sock[c].room # NoRoom, sock[c].hand # Nothing
    PROVE  KeptWork(c) \in FencedWorks(sock[c].room)
<1>1. PICK R, k, u : R = rooms[sock[c].room] /\ k = KeptWork(c) /\ u = [ups |-> sock[c].hand.ups, client |-> c]
  OBVIOUS
<1>2. k \in SoundWorks(sock[c].room) /\ R \in Actor /\ R.pending \in Seq(Update) /\ R.epoch = sock[c].epoch
  BY <1>1, KeptSound, InRoom DEF Actor
<1>3. PICK D, P : D = R.doc \cup sock[c].hand.ups /\ P = Append(R.pending, u)
  OBVIOUS
<1>4. /\ k.file = file /\ k.log = log /\ k.snaps = snaps /\ k.room.epoch = R.epoch
      /\ k.room.doc = D /\ k.room.pending = P
  <2>1. k = [room |-> [epoch |-> R.epoch, doc |-> D, durable |-> R.durable, pending |-> P,
                       since |-> R.since],
             file |-> file, log |-> log, snaps |-> snaps, acks |-> {}]
    BY <1>1, <1>2, <1>3, KeptIs
  <2>. QED  BY <2>1
<1>5. FencedActor(R, epoch, born) /\ Fenced(sock[c].hand.ups, R.epoch, epoch, born)
  BY <1>1, <1>2, InRoom DEF Fence, RoomsFenced, SocketsFenced, FencedSocket
<1>6. u \in Update /\ u.ups = sock[c].hand.ups
  BY <1>1, SocketIs DEF Update
<1>7. \A i \in 1 .. Len(P) : Fenced(P[i].ups, R.epoch, epoch, born)
  <2>1. \A i \in 1 .. Len(P) : (i \in 1 .. Len(R.pending) /\ P[i] = R.pending[i]) \/ P[i] = u
    BY <1>2, <1>3, <1>6, AppendProperties
  <2>. QED  BY <1>5, <1>6, <2>1 DEF FencedActor
<1>8. Fenced(D, R.epoch, epoch, born)
  BY <1>3, <1>5 DEF FencedActor, Fenced
<1>9. FencedActor(k.room, epoch, born)
  BY <1>4, <1>5, <1>7, <1>8 DEF FencedActor
<1>. QED  BY <1>1, <1>2, <1>4, <1>9 DEF FencedWorks, Fence, StoreFenced

LEMMA StoppedFenced == \A now \in Nat : \A b : FencedActor(Stopped, now, b)
BY DEF FencedActor, Fenced, Stopped

LEMMA OfflineFenced == \A now \in Nat : \A b : FencedSocket(Offline, now, b)
BY DEF FencedSocket, Fenced, Offline

\* An operation of room r keeps the fence around the store, the rooms and sockets.
LEMMA CommittedFenced ==
    ASSUME Typed, Fence, NEW r \in RoomIds, NEW k \in FencedWorks(r), NEW S, Follows(S), Committed(r, k, S),
           \A c \in Clients : FencedSocket(S[c], epoch, born), born' = born
    PROVE  StoreFenced' /\ RoomsFenced' /\ SocketsFenced' /\ epoch' = epoch
<1>1. PICK w : Outcome(k, w) /\ Commit(r, w, S)
  BY DEF Committed
<1>2. w \in FencedWorks(r)
  BY <1>1, FencedClosed DEF Outcome
<1>3. /\ Fenced(w.file, epoch, epoch, born) /\ FencedActor(w.room, epoch, born)
      /\ \A i \in 1 .. Len(w.log) : FencedRow(w.log[i], born)
      /\ \A s \in w.snaps : FencedSnap(s, epoch, born)
      /\ w.acks \in SUBSET Update /\ w.room \in Actor
  BY <1>2 DEF FencedWorks, SoundWorks, Work
<1>4. /\ file' = w.file /\ log' = w.log /\ snaps' = w.snaps /\ epoch' = epoch
      /\ sock' = Acked(S, w.acks) /\ rooms' = Held([rooms EXCEPT ![r] = w.room], hub.room, sock')
  BY <1>1 DEF Commit
<1>5. StoreFenced'
  BY <1>3, <1>4 DEF StoreFenced
<1>6. RoomsFenced'
  <2>1. PICK R, h, T : R = [rooms EXCEPT ![r] = w.room] /\ h = hub.room /\ T = sock'
    OBVIOUS
  <2>2. \A q \in RoomIds : rooms'[q] = R[q] \/ rooms'[q] = Stopped
    <3>1. rooms' = Held(R, h, T)
      BY <1>4, <2>1
    <3>2. \A q \in RoomIds : Held(R, h, T)[q] = R[q] \/ Held(R, h, T)[q] = Stopped
      BY HeldIs
    <3>. QED  BY <3>1, <3>2
  <2>3. \A q \in RoomIds : FencedActor(R[q], epoch, born)
    BY <1>3, <2>1 DEF Typed, RoomsTyped, Fence, RoomsFenced
  <2>4. FencedActor(Stopped, epoch, born)
    BY StoppedFenced DEF Typed, StoreTyped, Epochs
  <2>. QED  BY <1>4, <2>2, <2>3, <2>4 DEF RoomsFenced
<1>7. SocketsFenced'
  <2>1. ASSUME NEW c \in Clients
        PROVE  FencedSocket(sock'[c], epoch, born)
    <3>1. PICK s, t : s = S[c] /\ t = sock'[c]
      OBVIOUS
    <3>2. /\ t.pc = s.pc /\ t.epoch = s.epoch /\ t.got = s.got /\ t.initial = s.initial
          /\ t.out = s.out /\ t.hand = s.hand /\ t.events = s.events
      BY <1>3, <1>4, <3>1, AckedIs DEF Follows
    <3>3. FencedSocket(s, epoch, born)
      BY <3>1
    <3>. QED  BY <3>1, <3>2, <3>3 DEF FencedSocket
  <2>. QED  BY <1>4, <2>1 DEF SocketsFenced
<1>. QED  BY <1>4, <1>5, <1>6, <1>7

\* The pages joined stay joined by the same epoch.
LEMMA CommittedPages ==
    ASSUME Typed, Fence, NEW r \in RoomIds, NEW k \in SoundWorks(r), NEW S, Follows(S), Committed(r, k, S),
           \A c \in Clients : S[c].pc = "joined" => sock[c].pc = "joined" /\ local'[c].epoch = local[c].epoch
    PROVE  PagesJoined'
<1>1. PICK w : Outcome(k, w) /\ Commit(r, w, S)
  BY DEF Committed
<1>2. w \in SoundWorks(r)
  BY <1>1, SoundClosed DEF Outcome
<1>3. w.acks \in SUBSET Update /\ sock' = Acked(S, w.acks)
  BY <1>1, <1>2 DEF SoundWorks, Work, Commit
<1>4. \A c \in Clients : sock'[c].pc = S[c].pc /\ sock'[c].epoch = S[c].epoch /\ sock'[c].room = S[c].room
  BY <1>3, AckedIs DEF Follows
<1>5. \A c \in Clients : S[c].pc = "joined" => S[c].room # NoRoom
  BY DEF Follows, ShapedSocket, Shaped
<1>. QED  BY <1>4, <1>5 DEF Follows, Fence, PagesJoined

LEMMA BrowsersStay ==
    ASSUME Fence, UNCHANGED <<epoch, born>>,
           \A c \in Clients : local'[c] = local[c] \/ FencedBrowser(local'[c], epoch, born)
    PROVE  BrowsersFenced'
BY DEF Fence, BrowsersFenced

LEMMA SocketsStay ==
    ASSUME Typed, Fence, NEW c \in Clients, NEW t, sock' = [sock EXCEPT ![c] = t],
           UNCHANGED <<epoch, born>>, FencedSocket(t, epoch, born)
    PROVE  SocketsFenced'
BY DEF Typed, SocketsTyped, Fence, SocketsFenced

LEMMA RoomsStay ==
    ASSUME Typed, Fence, UNCHANGED <<epoch, born>>, \A r \in RoomIds : rooms'[r] = rooms[r] \/ rooms'[r] = Stopped
    PROVE  RoomsFenced'
<1>1. FencedActor(Stopped, epoch, born)
  BY StoppedFenced DEF Typed, StoreTyped, Epochs
<1>. QED  BY <1>1 DEF Fence, RoomsFenced

LEMMA StoreStays ==
    ASSUME Fence, UNCHANGED <<epoch, born, file, log, snaps>>
    PROVE  StoreFenced'
BY DEF Fence, StoreFenced

LEMMA PageLeft ==
    ASSUME Typed, Fence, NEW c \in Clients, local' = [local EXCEPT ![c].epoch = 0] \/ local' = local,
           UNCHANGED <<epoch, born>>
    PROVE  BrowsersFenced' /\ \A d \in Clients : d # c => local'[d].epoch = local[d].epoch
<1>1. ASSUME NEW b \in Browser, FencedBrowser(b, epoch, born)
      PROVE  FencedBrowser([b EXCEPT !.epoch = 0], epoch, born)
  <2>1. PICK d : d = [b EXCEPT !.epoch = 0]
    OBVIOUS
  <2>2. d.epoch = 0 /\ d.docs = b.docs
    BY <2>1 DEF Browser
  <2>3. 0 <= epoch
    BY DEF Typed, StoreTyped, Epochs
  <2>. QED  BY <1>1, <2>1, <2>2, <2>3 DEF FencedBrowser
<1>2. local \in [Clients -> Browser] /\ \A d \in Clients : FencedBrowser(local[d], epoch, born)
  BY DEF Typed, RestTyped, Fence, BrowsersFenced
<1>3. CASE local' = local
  BY <1>2, <1>3, BrowsersStay
<1>4. CASE local' = [local EXCEPT ![c].epoch = 0]
  <2>1. /\ local'[c] = [local[c] EXCEPT !.epoch = 0]
        /\ \A d \in Clients : d # c => local'[d] = local[d]
    BY <1>2, <1>4
  <2>2. FencedBrowser(local'[c], epoch, born)
    BY <1>1, <1>2, <2>1
  <2>3. BrowsersFenced'
    BY <2>1, <2>2, BrowsersStay
  <2>. QED  BY <2>1, <2>3
<1>. QED  BY <1>3, <1>4

LEMMA LeaveFenced ==
    ASSUME Typed, Fence, NEW c \in Clients, sock[c].room # NoRoom, Leave(c), born' = born,
           local' = [local EXCEPT ![c].epoch = 0] \/ local' = local
    PROVE  Fence'
<1>1. PICK S : S = [sock EXCEPT ![c] = Offline]
  OBVIOUS
<1>2. Committed(sock[c].room, LeftWork(c), S) /\ Follows(S) /\ sock[c].room \in RoomIds
  BY <1>1, LeaveCommits, FollowsLeft, InRoom
<1>3. epoch \in Nat
  BY DEF Typed, StoreTyped, Epochs
<1>4. S[c] = Offline /\ \A d \in Clients : d # c => S[d] = sock[d]
  BY <1>1 DEF Typed, SocketsTyped
<1>5. \A d \in Clients : FencedSocket(S[d], epoch, born)
  BY <1>3, <1>4, OfflineFenced DEF Fence, SocketsFenced
<1>6. LeftWork(c) \in FencedWorks(sock[c].room) /\ LeftWork(c) \in SoundWorks(sock[c].room)
  BY FencedLeft, LeftSound
<1>7. StoreFenced' /\ RoomsFenced' /\ SocketsFenced' /\ epoch' = epoch
  BY <1>2, <1>5, <1>6, CommittedFenced
<1>8. BrowsersFenced' /\ \A d \in Clients : d # c => local'[d].epoch = local[d].epoch
  BY <1>7, PageLeft
<1>9. \A d \in Clients : S[d].pc = "joined" => sock[d].pc = "joined" /\ local'[d].epoch = local[d].epoch
  BY <1>4, <1>8, OfflineTyped
<1>10. PagesJoined'
  BY <1>2, <1>6, <1>9, CommittedPages
<1>. QED  BY <1>7, <1>8, <1>10 DEF Fence

LEMMA RecoveryFenced ==
    ASSUME Typed, Fence, NEW e \in Epochs
    PROVE  Fenced(RecoveryOf(log, snaps, e).doc, e, epoch, born)
<1>. SUFFICES ASSUME e = epoch, NEW u \in RecoveryOf(log, snaps, e).doc
     PROVE  born[u] = e
  BY DEF Fenced
<1>1. /\ log \in Seq(Row) /\ snaps \in SUBSET Snap /\ \A s \in snaps : s.through <= Len(log)
  BY DEF Typed, StoreTyped
<1>3. \A i \in 1 .. Len(log) : log[i].epoch = e => \A x \in log[i].ups : born[x] = e
  BY DEF Fence, StoreFenced, FencedRow
<1>4. \A s \in snaps : s.epoch = e => \A x \in s.doc : born[x] = e
  BY DEF Fence, StoreFenced, FencedSnap, Fenced
<1>5. (\E i \in 1 .. Len(log) : log[i].epoch = e /\ u \in log[i].ups) \/ (\E s \in snaps : s.epoch = e /\ u \in s.doc)
  <2>1. CASE \A s \in snaps : s.epoch # e
    BY <2>1, RecoveredRows DEF LoggedIn
  <2>2. CASE \E s \in snaps : s.epoch = e
    <3>1. PICK s : s = LatestOf(snaps, e)
      OBVIOUS
    <3>2. /\ s \in snaps /\ s.epoch = e
          /\ RecoveryOf(log, snaps, e).doc = s.doc \cup LoggedAfter(log, e, s.through)
      BY <1>1, <2>2, <3>1, RecoveredSnap
    <3>. QED  BY <3>2 DEF LoggedAfter, TailOf
  <2>. QED  BY <2>1, <2>2
<1>. QED  BY <1>3, <1>4, <1>5

LEMMA SentFenced ==
    ASSUME NEW s, NEW t, NEW now, NEW b, FencedSocket(s, now, b), SameRest(t, s), t.pc # "open",
           t.initial = s.initial \/ t.initial = {}, t.out = s.out, t.hand = s.hand \/ t.hand = Nothing
    PROVE  FencedSocket(t, now, b)
BY DEF FencedSocket, SameRest, Fenced

LEMMA InitFenced == Init => Fence
<1>. SUFFICES ASSUME Init
     PROVE  Fence
  OBVIOUS
<1>1. StoreFenced
  BY DEF Init, StoreFenced, Fenced
<1>2. RoomsFenced
  BY StoppedFenced DEF Init, RoomsFenced
<1>3. SocketsFenced /\ PagesJoined
  BY OfflineFenced, OfflineTyped DEF Init, SocketsFenced, PagesJoined
<1>4. BrowsersFenced
  BY DEF Init, BrowsersFenced, FencedBrowser, Fenced
<1>. QED  BY <1>1, <1>2, <1>3, <1>4 DEF Fence

LEMMA PlainFenced ==
    ASSUME Typed, Fence, NEW c \in Clients, Connect(c) \/ FindRoom(c) \/ OpenFails(c)
    PROVE  Fence'
<1>1. UNCHANGED <<epoch, file, log, snaps, rooms, local, synced, born, restore>> /\ epoch \in Nat
  BY DEF Connect, FindRoom, OpenFails, Typed, StoreTyped, Epochs
<1>2. StoreFenced' /\ RoomsFenced' /\ BrowsersFenced'
  BY <1>1, StoreStays, RoomsStay, BrowsersStay
<1>3. \E t : sock' = [sock EXCEPT ![c] = t] /\ FencedSocket(t, epoch, born) /\ t.pc # "joined"
  <2>1. CASE Connect(c)
    <3>1. PICK t \in ShapedSocket :
            /\ sock' = [sock EXCEPT ![c] = t] /\ t.pc = "access" /\ t.epoch = epoch /\ t.room = NoRoom
            /\ t.initial = {} /\ t.out = <<>> /\ t.hand = Nothing /\ t.acks = {} /\ t.events = {}
      BY <2>1, ConnectIs
    <3>2. FencedSocket(t, epoch, born)
      BY <1>1, <3>1 DEF FencedSocket, Fenced
    <3>. QED  BY <3>1, <3>2
  <2>2. CASE FindRoom(c)
    <3>1. PICK t \in ShapedSocket :
            /\ sock' = [sock EXCEPT ![c] = t] /\ SameRest(t, sock[c]) /\ t.pc = "room" /\ t.room = hub.room
            /\ t.initial = sock[c].initial /\ t.out = sock[c].out /\ t.hand = Nothing
            /\ rooms[hub.room].epoch = t.epoch
      BY <2>2, FindRoomIs
    <3>2. FencedSocket(sock[c], epoch, born)
      BY DEF Fence, SocketsFenced
    <3>3. FencedSocket(t, epoch, born)
      BY <3>1, <3>2, SentFenced
    <3>. QED  BY <3>1, <3>3
  <2>3. CASE OpenFails(c)
    BY <1>1, <2>3, OfflineFenced, OfflineTyped DEF OpenFails
  <2>. QED  BY <2>1, <2>2, <2>3
<1>4. SocketsFenced' /\ PagesJoined'
  BY <1>1, <1>3, SocketsStay DEF Fence, PagesJoined, Typed, SocketsTyped
<1>. QED  BY <1>2, <1>4 DEF Fence

LEMMA OpenFenced ==
    ASSUME Typed, Fence, NEW c \in Clients, OpenRoom(c)
    PROVE  Fence'
<1>1. PICK t \in ShapedSocket :
        /\ sock' = [sock EXCEPT ![c] = t] /\ SameRest(t, sock[c]) /\ t.pc = "open" /\ t.room = NoRoom
        /\ t.initial = sock[c].initial /\ t.out = sock[c].out /\ t.hand = Nothing
        /\ t.got = RecoveryOf(log, snaps, sock[c].epoch) /\ sock[c].epoch \in Epochs
  BY OpenRoomIs
<1>2. UNCHANGED <<epoch, file, log, snaps, local, synced, born, restore>>
  BY DEF OpenRoom
<1>3. Fenced(t.got.doc, t.epoch, epoch, born) /\ FencedSocket(sock[c], epoch, born)
  BY <1>1, RecoveryFenced DEF SameRest, Fence, SocketsFenced
<1>4. FencedSocket(t, epoch, born)
  BY <1>1, <1>3 DEF FencedSocket, SameRest
<1>5. SocketsFenced' /\ PagesJoined'
  BY <1>1, <1>2, <1>4, SocketsStay DEF Fence, PagesJoined, Typed, SocketsTyped
<1>6. \A r \in RoomIds : rooms'[r] = rooms[r] \/ rooms'[r] = Stopped
  BY HeldIs DEF OpenRoom
<1>7. StoreFenced' /\ RoomsFenced' /\ BrowsersFenced'
  BY <1>2, <1>6, StoreStays, RoomsStay, BrowsersStay
<1>. QED  BY <1>5, <1>7 DEF Fence

LEMMA OpenedFenced ==
    ASSUME Typed, Fence, NEW c \in Clients, Opened(c)
    PROVE  Fence'
<1>1. PICK got, doc :
        got = sock[c].got /\ doc = IF got.fresh THEN file \cup got.doc ELSE got.doc
  OBVIOUS
<1>2. PICK r \in RoomIds :
        /\ rooms' = [rooms EXCEPT ![r] = [Stopped EXCEPT !.epoch = sock[c].epoch, !.doc = doc,
                                                         !.durable = got.durable]]
        /\ sock' = [sock EXCEPT ![c].pc = "room", ![c].room = r, ![c].got = Nothing]
  BY <1>1 DEF Opened
<1>3. sock[c].pc = "open" /\ UNCHANGED <<epoch, file, log, local, synced, born, restore>>
  BY DEF Opened
<1>4. FencedSocket(sock[c], epoch, born) /\ Fenced(got.doc, sock[c].epoch, epoch, born)
      /\ Fenced(file, epoch, epoch, born) /\ sock[c].epoch <= epoch
  BY <1>1, <1>3 DEF Fence, SocketsFenced, FencedSocket, StoreFenced
<1>5. Fenced(doc, sock[c].epoch, epoch, born) /\ Fenced(file, sock[c].epoch, epoch, born)
  BY <1>1, <1>4 DEF Fenced
<1>6. PICK A : A = [Stopped EXCEPT !.epoch = sock[c].epoch, !.doc = doc, !.durable = got.durable]
  OBVIOUS
<1>7. A = [epoch |-> sock[c].epoch, doc |-> doc, durable |-> got.durable, pending |-> <<>>, since |-> 0]
  BY <1>6 DEF Stopped
<1>8. FencedActor(A, epoch, born)
  BY <1>4, <1>5, <1>7 DEF FencedActor
<1>9. RoomsFenced'
  <2>1. rooms' = [rooms EXCEPT ![r] = A]
    BY <1>2, <1>6
  <2>. QED  BY <1>3, <1>8, <2>1 DEF RoomsFenced, Fence, Typed, RoomsTyped
<1>10. StoreFenced'
  <2>1. PICK s : s = [epoch |-> sock[c].epoch, through |-> 0, doc |-> file]
    OBVIOUS
  <2>2. FencedSnap(s, epoch, born)
    BY <1>4, <1>5, <2>1 DEF FencedSnap
  <2>3. snaps' \subseteq snaps \cup {s}
    BY <2>1, SavedIs DEF Opened
  <2>. QED  BY <1>3, <2>2, <2>3 DEF StoreFenced, Fence
<1>11. \E t \in ShapedSocket :
         /\ sock' = [sock EXCEPT ![c] = t] /\ SameRest(t, sock[c]) /\ t.pc = "room" /\ t.room = r
         /\ t.initial = sock[c].initial /\ t.out = sock[c].out /\ t.hand = Nothing
  BY <1>2, <1>3, OpenedIs
<1>12. PICK t \in ShapedSocket :
         /\ sock' = [sock EXCEPT ![c] = t] /\ SameRest(t, sock[c]) /\ t.pc = "room"
         /\ t.initial = sock[c].initial /\ t.out = sock[c].out /\ t.hand = Nothing
  BY <1>11
<1>13. FencedSocket(t, epoch, born)
  BY <1>4, <1>12, SentFenced
<1>14. SocketsFenced' /\ PagesJoined'
  BY <1>3, <1>12, <1>13, SocketsStay DEF Fence, PagesJoined, Typed, SocketsTyped
<1>15. BrowsersFenced'
  BY <1>3, BrowsersStay
<1>. QED  BY <1>9, <1>10, <1>14, <1>15 DEF Fence

LEMMA RoomStepFenced ==
    ASSUME Typed, Fence, NEW r \in RoomIds, Committed(r, WorkOf(r), sock), UNCHANGED <<local, born>>
    PROVE  Fence'
<1>1. WorkOf(r) \in FencedWorks(r) /\ WorkOf(r) \in SoundWorks(r) /\ Follows(sock)
  BY FencedWork, WorkSound, FollowsSame
<1>2. \A c \in Clients : FencedSocket(sock[c], epoch, born)
  BY DEF Fence, SocketsFenced
<1>3. StoreFenced' /\ RoomsFenced' /\ SocketsFenced' /\ epoch' = epoch
  BY <1>1, <1>2, CommittedFenced
<1>4. PagesJoined'
  BY <1>1, CommittedPages
<1>5. BrowsersFenced'
  BY <1>3, BrowsersStay
<1>. QED  BY <1>3, <1>4, <1>5 DEF Fence

LEMMA JoinFenced ==
    ASSUME Typed, Fence, NEW c \in Clients, Join(c)
    PROVE  Fence'
<1>1. PICK S : S = [sock EXCEPT ![c].pc = "reply", ![c].initial = rooms[sock[c].room].doc]
  OBVIOUS
<1>2. sock[c].pc = "room" /\ sock[c].room # NoRoom
  BY SocketIs DEF Join, Shaped
<1>3. PICK r : r = sock[c].room
  OBVIOUS
<1>4. r \in RoomIds /\ rooms[r].epoch = sock[c].epoch /\ Committed(r, WorkOf(r), S)
  BY <1>1, <1>2, <1>3, InRoom, JoinCommits
<1>5. /\ Follows(S) /\ \A d \in Clients : d # c => S[d] = sock[d]
      /\ S[c].pc = "reply" /\ S[c].initial = rooms[r].doc /\ S[c].hand = Nothing
      /\ S[c].epoch = sock[c].epoch /\ S[c].out = sock[c].out /\ S[c].events = sock[c].events
  <2>1. /\ Follows(S) /\ S[c].pc = "reply" /\ S[c].initial = rooms[sock[c].room].doc /\ S[c].hand = Nothing
        /\ S[c].epoch = sock[c].epoch /\ S[c].out = sock[c].out /\ S[c].events = sock[c].events
    BY ZenonT(60), <1>1, <1>2, JoinIs
  <2>2. \A d \in Clients : d # c => S[d] = sock[d]
    BY <1>1 DEF Typed, SocketsTyped
  <2>. QED  BY <1>3, <2>1, <2>2
<1>6. FencedActor(rooms[r], epoch, born) /\ \A d \in Clients : FencedSocket(sock[d], epoch, born)
  BY <1>4 DEF Fence, RoomsFenced, SocketsFenced
<1>7. FencedSocket(S[c], epoch, born)
  BY <1>4, <1>5, <1>6 DEF FencedActor, FencedSocket
<1>8. WorkOf(r) \in FencedWorks(r) /\ WorkOf(r) \in SoundWorks(r) /\ UNCHANGED <<local, born>>
  BY <1>4, FencedWork, WorkSound DEF Join
<1>9. \A d \in Clients : FencedSocket(S[d], epoch, born)
  BY <1>5, <1>6, <1>7
<1>10. StoreFenced' /\ RoomsFenced' /\ SocketsFenced' /\ epoch' = epoch
  BY <1>4, <1>5, <1>8, <1>9, CommittedFenced
<1>11. PagesJoined'
  BY <1>4, <1>5, <1>8, CommittedPages
<1>12. BrowsersFenced'
  BY <1>8, <1>10, BrowsersStay
<1>. QED  BY <1>10, <1>11, <1>12 DEF Fence

LEMMA PageKeeps ==
    ASSUME NEW b \in Browser, NEW now \in Nat, NEW bn, FencedBrowser(b, now, bn),
           NEW e \in Epochs, e <= now, NEW D, Fenced(D, e, now, bn),
           NEW d, d.docs = [b.docs EXCEPT ![e] = D], d.epoch <= now
    PROVE  FencedBrowser(d, now, bn)
<1>1. \A f \in Epochs : IF f = e THEN d.docs[f] = D ELSE d.docs[f] = b.docs[f]
  BY DEF Browser
<1>2. ~(e > now)
  BY DEF Epochs
<1>. QED  BY <1>1, <1>2 DEF FencedBrowser

LEMMA SubscribeFenced ==
    ASSUME Typed, Fence, NEW c \in Clients, Subscribe(c)
    PROVE  Fence'
<1>1. sock[c].pc = "reply" /\ sock[c].room # NoRoom /\ sock[c].epoch \in Epochs /\ sock[c].hand = Nothing
  BY SocketIs DEF Subscribe, Shaped
<1>2. CASE local[c].epoch \in {0, sock[c].epoch}
  <2>1. PICK e, doc : e = sock[c].epoch /\ doc = local[c].docs[e] \cup sock[c].initial
    OBVIOUS
  <2>2. /\ local' = [local EXCEPT ![c].epoch = e, ![c].docs[e] = doc]
        /\ sock' = [sock EXCEPT ![c].pc = "joined", ![c].initial = {}, ![c].out = <<doc>>]
        /\ UNCHANGED <<epoch, file, log, snaps, hub, rooms, born>>
    BY <1>2, <2>1 DEF Subscribe
  <2>3. doc \in SUBSET Edits /\ e \in Epochs /\ local[c] \in Browser /\ local \in [Clients -> Browser]
    BY <1>1, <2>1, SocketIs DEF Typed, RestTyped, Browser
  <2>4. PICK t \in ShapedSocket :
           /\ sock' = [sock EXCEPT ![c] = t] /\ SameRest(t, sock[c]) /\ t.pc = "joined"
           /\ t.room = sock[c].room /\ t.initial = {} /\ t.out = <<doc>> /\ t.hand = sock[c].hand
    BY <1>1, <2>2, <2>3, SubscribeIs
  <2>5. FencedSocket(sock[c], epoch, born) /\ FencedBrowser(local[c], epoch, born) /\ epoch \in Nat
    BY DEF Fence, SocketsFenced, BrowsersFenced, Typed, StoreTyped, Epochs
  <2>6. Fenced(doc, e, epoch, born) /\ e <= epoch
    BY <2>1, <2>3, <2>5 DEF FencedSocket, FencedBrowser, Fenced
  <2>7. FencedSocket(t, epoch, born)
    <3>1. \A i \in 1 .. Len(t.out) : t.out[i] = doc
      BY <2>4
    <3>2. Fenced({}, t.epoch, epoch, born)
      BY DEF Fenced
    <3>. QED  BY <1>1, <2>1, <2>4, <2>5, <2>6, <3>1, <3>2 DEF FencedSocket, SameRest
  <2>8. PICK d : d = local'[c]
    OBVIOUS
  <2>9. d.epoch = e /\ d.docs = [local[c].docs EXCEPT ![e] = doc] /\ \A x \in Clients : x # c => local'[x] = local[x]
    BY <2>2, <2>3, <2>8 DEF Browser
  <2>10. FencedBrowser(d, epoch, born)
    BY <2>3, <2>5, <2>6, <2>9, PageKeeps
  <2>11. BrowsersFenced'
    <3>1. \A x \in Clients : local'[x] = local[x] \/ FencedBrowser(local'[x], epoch, born)
      BY <2>8, <2>9, <2>10
    <3>. QED  BY <2>2, <3>1, BrowsersStay
  <2>12. SocketsFenced'
    BY <2>2, <2>4, <2>7, SocketsStay
  <2>13. PagesJoined'
    BY <2>1, <2>4, <2>8, <2>9 DEF SameRest, Fence, PagesJoined, Typed, SocketsTyped
  <2>14. StoreFenced' /\ RoomsFenced'
    BY <2>2, StoreStays, RoomsStay
  <2>. QED  BY <2>11, <2>12, <2>13, <2>14 DEF Fence
<1>3. CASE local[c].epoch \notin {0, sock[c].epoch}
  BY <1>1, <1>3, LeaveFenced DEF Subscribe
<1>. QED  BY <1>2, <1>3

LEMMA TypeFenced ==
    ASSUME Typed, Fence, NEW c \in Clients, NEW u \in Edits, Type(c, u)
    PROVE  Fence'
<1>1. PICK e, b2 : e = local[c].epoch /\ b2 = born'
  OBVIOUS
<1>2. /\ born[u] = 0 /\ e # 0 /\ b2 = [born EXCEPT ![u] = e] /\ born \in [Edits -> 0 .. MaxEpoch]
      /\ UNCHANGED <<epoch, file, log, snaps, hub, rooms, synced, restore>>
  BY <1>1 DEF Type, Typed, RestTyped
<1>3. epoch \in Epochs /\ epoch \in Nat /\ local[c] \in Browser /\ local \in [Clients -> Browser]
  BY DEF Typed, RestTyped, StoreTyped, Epochs
<1>4. e \in Epochs /\ e <= epoch
  BY <1>1, <1>2, <1>3 DEF Browser, Epochs, Fence, BrowsersFenced, FencedBrowser
<1>5. Carries(epoch, born, epoch, b2) /\ b2[u] = e
  BY <1>2, <1>3, TypingCarries
<1>6. StoreFenced'
  <2>1. Fenced(file, epoch, epoch, b2)
    <3>1. epoch \in 0 .. MaxEpoch /\ epoch <= epoch /\ file \in SUBSET Edits
      BY <1>3, RoomAssumption DEF Epochs, Typed, StoreTyped
    <3>. QED  BY <1>5, <3>1 DEF Carries, Fence, StoreFenced
  <2>2. \A s \in snaps : FencedSnap(s, epoch, b2)
    BY <1>5, CarriedSnap DEF Fence, StoreFenced, Typed, StoreTyped
  <2>3. ASSUME NEW i \in 1 .. Len(log)
        PROVE  FencedRow(log[i], b2)
    <3>1. log[i] \in Row /\ FencedRow(log[i], born)
      BY DEF Typed, StoreTyped, Fence, StoreFenced
    <3>2. log[i].epoch # 0
      BY <3>1 DEF Row, Epochs
    <3>. QED  BY <1>2, <3>1, <3>2 DEF FencedRow, Row
  <2>. QED  BY <1>1, <1>2, <2>1, <2>2, <2>3 DEF StoreFenced
<1>7. RoomsFenced'
  <2>1. \A r \in RoomIds : FencedActor(rooms[r], epoch, b2)
    BY <1>5, CarriedActor DEF Fence, RoomsFenced, Typed, RoomsTyped
  <2>. QED  BY <1>1, <1>2, <2>1 DEF RoomsFenced
<1>8. PICK t \in ShapedSocket :
        /\ sock' = [sock EXCEPT ![c] = t] /\ SameRest(t, sock[c]) /\ t.pc = sock[c].pc
        /\ t.room = sock[c].room /\ t.initial = sock[c].initial /\ t.hand = sock[c].hand
        /\ t.got = sock[c].got
        /\ t.out = sock[c].out \/ (t.out = Append(sock[c].out, {u}) /\ sock[c].pc = "joined")
  BY TypeIs
<1>9. \A d \in Clients : FencedSocket(sock[d], epoch, b2)
  BY <1>5, CarriedSocket DEF Fence, SocketsFenced, Typed, SocketsTyped
<1>10. FencedSocket(t, epoch, b2)
  <2>1. PICK o : o = sock[c].out
    OBVIOUS
  <2>2. o \in Seq(SUBSET Edits)
    BY <2>1, SocketIs
  <2>3. \A i \in 1 .. Len(t.out) : Fenced(t.out[i], t.epoch, epoch, b2)
    <3>1. CASE t.out = o
      BY <1>8, <1>9, <2>1, <3>1 DEF FencedSocket, SameRest
    <3>2. CASE t.out = Append(o, {u}) /\ sock[c].pc = "joined"
      <4>1. t.epoch = e
        BY <1>1, <1>8, <3>2 DEF SameRest, Fence, PagesJoined
      <4>2. Fenced({u}, e, epoch, b2)
        BY <1>5 DEF Fenced
      <4>3. {u} \in SUBSET Edits
        OBVIOUS
      <4>4. \A i \in 1 .. Len(t.out) : (i \in 1 .. Len(o) /\ t.out[i] = o[i]) \/ t.out[i] = {u}
        BY <2>2, <3>2, <4>3, AppendProperties
      <4>. QED  BY <1>8, <1>9, <2>1, <4>1, <4>2, <4>4 DEF FencedSocket, SameRest
    <3>. QED  BY <1>8, <2>1, <3>1, <3>2
  <2>. QED  BY <1>8, <1>9, <2>3 DEF FencedSocket, SameRest
<1>11. SocketsFenced'
  <2>1. \A d \in Clients : FencedSocket(sock'[d], epoch, b2)
    BY <1>8, <1>9, <1>10 DEF Typed, SocketsTyped
  <2>. QED  BY <1>1, <1>2, <2>1 DEF SocketsFenced
<1>12. PICK doc : doc = local[c].docs[e] \cup {u}
  OBVIOUS
<1>13. /\ local'[c].epoch = e /\ local'[c].docs = [local[c].docs EXCEPT ![e] = doc]
       /\ \A x \in Clients : x # c => local'[x] = local[x]
  BY <1>1, <1>3, <1>12 DEF Type, Browser
<1>14. \A d \in Clients : FencedBrowser(local[d], epoch, b2)
  BY <1>3, <1>5, CarriedBrowser DEF Fence, BrowsersFenced
<1>15. Fenced(doc, e, epoch, b2)
  BY <1>4, <1>5, <1>12, <1>14 DEF Fenced, FencedBrowser
<1>16. BrowsersFenced'
  <2>1. PICK d : d = local'[c]
    OBVIOUS
  <2>2. FencedBrowser(d, epoch, b2)
    BY <1>3, <1>4, <1>13, <1>14, <1>15, <2>1, PageKeeps
  <2>3. \A x \in Clients : FencedBrowser(local'[x], epoch, b2)
    BY <1>13, <1>14, <2>1, <2>2
  <2>. QED  BY <1>1, <1>2, <2>3 DEF BrowsersFenced
<1>17. PagesJoined'
  BY <1>1, <1>8, <1>13 DEF SameRest, Fence, PagesJoined, Typed, SocketsTyped
<1>. QED  BY <1>6, <1>7, <1>11, <1>16, <1>17 DEF Fence

LEMMA AuthorizeFenced ==
    ASSUME Typed, Fence, NEW c \in Clients, Authorize(c)
    PROVE  Fence'
<1>1. sock[c].room # NoRoom /\ sock[c].out \in Seq(SUBSET Edits) /\ sock[c].out # <<>>
      /\ UNCHANGED <<local, synced, born, restore>>
  BY SocketIs DEF Authorize, Shaped
<1>2. CASE epoch = sock[c].epoch
  <2>1. PICK t \in ShapedSocket :
          /\ sock' = [sock EXCEPT ![c] = t] /\ SameRest(t, sock[c]) /\ t.pc = "joined"
          /\ t.room = sock[c].room /\ t.initial = sock[c].initial /\ t.hand = [ups |-> Head(sock[c].out)]
          /\ t.out = Tail(sock[c].out)
    BY <1>2, AuthorizeIs
  <2>2. UNCHANGED <<epoch, file, log, snaps, hub, rooms, local, synced, born, restore>> /\ sock[c].pc = "joined"
    BY <1>2 DEF Authorize
  <2>3. PICK o : o = sock[c].out
    OBVIOUS
  <2>4. FencedSocket(sock[c], epoch, born) /\ o \in Seq(SUBSET Edits) /\ o # <<>>
    BY <1>1, <2>3 DEF Fence, SocketsFenced
  <2>5. Head(o) = o[1] /\ 1 \in 1 .. Len(o)
    BY <2>4
  <2>6. Len(Tail(o)) = Len(o) - 1 /\ \A i \in 1 .. Len(Tail(o)) : Tail(o)[i] = o[i + 1] /\ i + 1 \in 1 .. Len(o)
    BY <2>4
  <2>7. \A i \in 1 .. Len(o) : Fenced(o[i], t.epoch, epoch, born)
    BY <2>1, <2>3, <2>4 DEF FencedSocket, SameRest
  <2>8. Fenced(t.hand.ups, t.epoch, epoch, born)
    BY <2>1, <2>3, <2>5, <2>7
  <2>9. \A i \in 1 .. Len(t.out) : Fenced(t.out[i], t.epoch, epoch, born)
    BY <2>1, <2>3, <2>6, <2>7
  <2>10. FencedSocket(t, epoch, born)
    BY <2>1, <2>4, <2>8, <2>9 DEF FencedSocket, SameRest
  <2>11. SocketsFenced' /\ PagesJoined'
    BY <2>1, <2>2, <2>10, SocketsStay DEF SameRest, Fence, PagesJoined, Typed, SocketsTyped
  <2>12. StoreFenced' /\ RoomsFenced' /\ BrowsersFenced'
    BY <2>2, StoreStays, RoomsStay, BrowsersStay
  <2>. QED  BY <2>11, <2>12 DEF Fence
<1>3. CASE epoch # sock[c].epoch
  BY <1>1, <1>3, LeaveFenced DEF Authorize
<1>. QED  BY <1>2, <1>3

LEMMA ApplyFenced ==
    ASSUME Typed, Fence, NEW c \in Clients, Apply(c)
    PROVE  Fence'
<1>1. /\ sock[c].hand # Nothing /\ sock[c].pc = "joined" /\ sock[c].room # NoRoom
      /\ UNCHANGED <<local, synced, born, restore>>
  BY SocketIs DEF Apply, Shaped
<1>2. CASE sock[c].hand.ups \subseteq rooms[sock[c].room].doc
  <2>1. PICK t \in ShapedSocket :
          /\ sock' = [sock EXCEPT ![c] = t] /\ t.pc = sock[c].pc /\ t.epoch = sock[c].epoch
          /\ t.room = sock[c].room /\ t.initial = sock[c].initial /\ t.hand = Nothing
          /\ t.out = sock[c].out /\ t.events = sock[c].events /\ t.got = sock[c].got
          /\ t.acks = sock[c].acks \cup sock[c].hand.ups /\ t.stale = sock[c].stale
    BY <1>2, RepeatIs
  <2>2. UNCHANGED <<epoch, file, log, snaps, hub, rooms>>
    BY <1>2 DEF Apply
  <2>3. FencedSocket(t, epoch, born)
    BY <2>1 DEF Fence, SocketsFenced, FencedSocket
  <2>4. SocketsFenced' /\ PagesJoined'
    BY <1>1, <2>1, <2>2, <2>3, SocketsStay DEF Fence, PagesJoined, Typed, SocketsTyped
  <2>5. StoreFenced' /\ RoomsFenced' /\ BrowsersFenced'
    BY <1>1, <2>2, StoreStays, RoomsStay, BrowsersStay
  <2>. QED  BY <2>4, <2>5 DEF Fence
<1>3. CASE ~(sock[c].hand.ups \subseteq rooms[sock[c].room].doc)
  <2>1. PICK S, r : S = ToldOf(c) /\ r = sock[c].room
    OBVIOUS
  <2>2. Committed(r, KeptWork(c), S) /\ r \in RoomIds /\ rooms[r].epoch = sock[c].epoch
    BY <1>1, <1>3, <2>1, ApplyCommits, InRoom
  <2>3. KeptWork(c) \in FencedWorks(r) /\ KeptWork(c) \in SoundWorks(r)
    BY <1>1, <2>1, FencedKept, KeptSound
  <2>4. Follows(S) /\ \A d \in Clients : S[d].pc = sock[d].pc
    BY <1>1, <2>1, ToldIs
  <2>5. \A d \in Clients : FencedSocket(S[d], epoch, born)
    <3>1. ASSUME NEW d \in Clients
          PROVE  FencedSocket(S[d], epoch, born)
      <4>1. /\ S[c].hand = Nothing /\ S[c].events = sock[c].events
            /\ d # c => /\ S[d].hand = sock[d].hand
                        /\ \/ S[d].events = sock[d].events
                           \/ /\ sock[d].pc = "joined" /\ sock[d].room = sock[c].room
                              /\ S[d].events = sock[d].events \cup sock[c].hand.ups
            /\ S[d].pc = sock[d].pc /\ S[d].epoch = sock[d].epoch
            /\ S[d].got = sock[d].got /\ S[d].initial = sock[d].initial /\ S[d].out = sock[d].out
        BY <1>1, <2>1, ToldIs
      <4>2. FencedSocket(sock[d], epoch, born) /\ FencedSocket(sock[c], epoch, born)
        BY DEF Fence, SocketsFenced
      <4>3. Fenced(S[d].events, S[d].epoch, epoch, born)
        <5>1. CASE S[d].events = sock[d].events
          BY <4>1, <4>2, <5>1 DEF FencedSocket
        <5>2. CASE S[d].events # sock[d].events
          <6>1. sock[d].room = sock[c].room /\ S[d].events = sock[d].events \cup sock[c].hand.ups
            BY <4>1, <5>2
          <6>2. sock[d].epoch = sock[c].epoch
            BY <1>1, <6>1, InRoom
          <6>. QED  BY <1>1, <4>1, <4>2, <6>1, <6>2 DEF FencedSocket, Fenced
        <5>. QED  BY <5>1, <5>2
      <4>. QED  BY <4>1, <4>2, <4>3 DEF FencedSocket
    <3>. QED  BY <3>1
  <2>6. StoreFenced' /\ RoomsFenced' /\ SocketsFenced' /\ epoch' = epoch
    BY <1>1, <2>2, <2>3, <2>4, <2>5, CommittedFenced
  <2>7. PagesJoined'
    BY <1>1, <2>2, <2>3, <2>4, CommittedPages
  <2>8. BrowsersFenced'
    BY <1>1, <2>6, BrowsersStay
  <2>. QED  BY <2>6, <2>7, <2>8 DEF Fence
<1>. QED  BY <1>2, <1>3

LEMMA DeliverFenced ==
    ASSUME Typed, Fence, NEW c \in Clients, Deliver(c)
    PROVE  Fence'
<1>1. PICK t \in ShapedSocket :
        /\ sock' = [sock EXCEPT ![c] = t] /\ t.pc = "joined" /\ t.epoch = sock[c].epoch
        /\ t.room = sock[c].room /\ t.initial = sock[c].initial /\ t.hand = sock[c].hand
        /\ t.out = sock[c].out /\ t.events = {} /\ t.acks = {} /\ t.stale = sock[c].stale
  BY DeliverIs
<1>2. UNCHANGED <<epoch, file, log, snaps, hub, rooms, born, restore>> /\ sock[c].pc = "joined"
  BY DEF Deliver
<1>3. PICK e, doc : e = sock[c].epoch /\ doc = local[c].docs[sock[c].epoch] \cup sock[c].events
  OBVIOUS
<1>4. FencedSocket(sock[c], epoch, born) /\ FencedBrowser(local[c], epoch, born) /\ epoch \in Nat
      /\ e \in Epochs /\ local[c] \in Browser /\ local \in [Clients -> Browser]
  BY <1>2, <1>3, SocketIs DEF Fence, SocketsFenced, BrowsersFenced, Typed, RestTyped, StoreTyped, Epochs
<1>5. Fenced(doc, e, epoch, born) /\ e <= epoch
  BY <1>3, <1>4 DEF FencedSocket, FencedBrowser, Fenced
<1>6. FencedSocket(t, epoch, born)
  BY <1>1, <1>4 DEF FencedSocket, Fenced
<1>7. /\ local'[c].epoch = local[c].epoch /\ local'[c].docs = [local[c].docs EXCEPT ![e] = doc]
      /\ \A x \in Clients : x # c => local'[x] = local[x]
  BY <1>3, <1>4 DEF Deliver, Browser
<1>8. BrowsersFenced'
  <2>1. PICK d : d = local'[c]
    OBVIOUS
  <2>2. d.epoch <= epoch
    BY <1>4, <1>7, <2>1 DEF FencedBrowser
  <2>3. FencedBrowser(d, epoch, born)
    BY <1>4, <1>5, <1>7, <2>1, <2>2, PageKeeps
  <2>4. \A x \in Clients : local'[x] = local[x] \/ FencedBrowser(local'[x], epoch, born)
    BY <1>7, <2>1, <2>3
  <2>. QED  BY <1>2, <2>4, BrowsersStay
<1>9. SocketsFenced'
  BY <1>1, <1>2, <1>6, SocketsStay
<1>10. PagesJoined'
  BY <1>1, <1>2, <1>7 DEF Fence, PagesJoined, Typed, SocketsTyped
<1>11. StoreFenced' /\ RoomsFenced'
  BY <1>2, StoreStays, RoomsStay
<1>. QED  BY <1>8, <1>9, <1>10, <1>11 DEF Fence

LEMMA GoneFenced ==
    ASSUME Typed, Fence, NEW c \in Clients, EpochNotice(c) \/ Drop(c)
    PROVE  Fence'
<1>1. sock[c].room # NoRoom
  BY SocketIs DEF EpochNotice, Drop, Shaped
<1>2. Leave(c) /\ born' = born /\ (local' = [local EXCEPT ![c].epoch = 0] \/ local' = local)
  BY DEF EpochNotice, Drop
<1>. QED  BY <1>1, <1>2, LeaveFenced

\* The new file is empty, and nobody has written in the new epoch yet.
LEMMA ApplyRestoreFenced ==
    ASSUME Typed, Fence, ApplyRestore
    PROVE  Fence'
<1>1. UNCHANGED <<log, snaps, hub, rooms, sock, local, synced, born>>
  BY DEF ApplyRestore
<1>2. PagesJoined'
  BY <1>1 DEF Fence, PagesJoined
<1>3. CASE restore.head = Len(log)
  <2>1. PICK now : now = epoch + 1
    OBVIOUS
  <2>2. epoch' = now /\ file' = {}
    BY <1>3, <2>1 DEF ApplyRestore
  <2>3. Carries(epoch, born, now, born)
    BY <2>1, NextEpochCarries DEF Typed, StoreTyped, Epochs
  <2>4. StoreFenced'
    <3>1. Fenced({}, now, now, born)
      BY DEF Fenced
    <3>2. \A s \in snaps : FencedSnap(s, now, born)
      BY <2>3, CarriedSnap DEF Typed, StoreTyped, Fence, StoreFenced
    <3>. QED  BY <1>1, <2>2, <3>1, <3>2 DEF Fence, StoreFenced
  <2>5. RoomsFenced'
    <3>1. \A r \in RoomIds : FencedActor(rooms[r], now, born)
      BY <2>3, CarriedActor DEF Fence, RoomsFenced, Typed, RoomsTyped
    <3>. QED  BY <1>1, <2>2, <3>1 DEF RoomsFenced
  <2>6. SocketsFenced'
    <3>1. \A d \in Clients : FencedSocket(sock[d], now, born)
      BY <2>3, CarriedSocket DEF Fence, SocketsFenced, Typed, SocketsTyped
    <3>. QED  BY <1>1, <2>2, <3>1 DEF SocketsFenced
  <2>7. BrowsersFenced'
    <3>1. \A d \in Clients : FencedBrowser(local[d], now, born)
      BY <2>3, CarriedBrowser DEF Fence, BrowsersFenced, Typed, RestTyped
    <3>. QED  BY <1>1, <2>2, <3>1 DEF BrowsersFenced
  <2>. QED  BY <1>2, <2>4, <2>5, <2>6, <2>7 DEF Fence
<1>4. CASE restore.head # Len(log)
  <2>1. UNCHANGED <<epoch, file>>
    BY <1>4 DEF ApplyRestore
  <2>. QED  BY <1>1, <1>2, <2>1 DEF Fence, StoreFenced, RoomsFenced, SocketsFenced, BrowsersFenced
<1>. QED  BY <1>3, <1>4

LEMMA RestorationFenced ==
    ASSUME Typed, Fence, Restoration
    PROVE  Fence'
<1>1. CASE Barrier
  <2>1. CASE hub.room = NoRoom
    BY <1>1, <2>1 DEF Barrier, Fence, StoreFenced, RoomsFenced, SocketsFenced, BrowsersFenced, PagesJoined
  <2>2. CASE hub.room # NoRoom
    <3>1. Committed(hub.room, WorkOf(hub.room), sock) /\ hub.room \in RoomIds /\ UNCHANGED <<local, born>>
      BY <1>1, <2>2, BarrierCommits DEF Barrier, Typed, RestTyped
    <3>. QED  BY <3>1, RoomStepFenced
  <2>. QED  BY <2>1, <2>2
<1>2. CASE CaptureExact
  BY <1>2 DEF CaptureExact, Fence, StoreFenced, RoomsFenced, SocketsFenced, BrowsersFenced, PagesJoined
<1>3. CASE ApplyRestore
  BY <1>3, ApplyRestoreFenced
<1>4. CASE EpochChanged
  <2>1. UNCHANGED <<epoch, file, log, snaps, local, synced, born>>
    BY <1>4 DEF EpochChanged
  <2>2. \A r \in RoomIds : rooms'[r] = rooms[r] \/ rooms'[r] = Stopped
    BY <1>4, HeldIs DEF EpochChanged
  <2>3. StoreFenced' /\ RoomsFenced' /\ BrowsersFenced'
    BY <2>1, <2>2, StoreStays, RoomsStay, BrowsersStay
  <2>4. \A c \in Clients :
          /\ sock'[c].pc = sock[c].pc /\ sock'[c].epoch = sock[c].epoch
          /\ sock'[c].initial = sock[c].initial /\ sock'[c].hand = sock[c].hand
          /\ sock'[c].out = sock[c].out /\ sock'[c].got = sock[c].got /\ sock'[c].events = sock[c].events
    BY <1>4, NoticedIs
  <2>5. SocketsFenced' /\ PagesJoined'
    BY <2>1, <2>4 DEF Fence, SocketsFenced, FencedSocket, PagesJoined
  <2>. QED  BY <2>3, <2>5 DEF Fence
<1>. QED  BY <1>1, <1>2, <1>3, <1>4 DEF Restoration

LEMMA CrashFenced ==
    ASSUME Typed, Fence, Crash
    PROVE  Fence'
<1>1. UNCHANGED <<epoch, file, log, snaps, local, synced, born>> /\ epoch \in Nat
  BY DEF Crash, Typed, StoreTyped, Epochs
<1>2. \A r \in RoomIds : rooms'[r] = Stopped
  BY DEF Crash
<1>3. StoreFenced' /\ RoomsFenced' /\ BrowsersFenced'
  BY <1>1, <1>2, StoreStays, RoomsStay, BrowsersStay
<1>4. SocketsFenced' /\ PagesJoined'
  BY <1>1, OfflineFenced, OfflineTyped DEF Crash, SocketsFenced, PagesJoined
<1>. QED  BY <1>3, <1>4 DEF Fence

LEMMA NextFenced == Typed /\ Fence /\ [Next]_vars => Fence'
<1>. SUFFICES ASSUME Typed, Fence, [Next]_vars
     PROVE  Fence'
  OBVIOUS
<1>1. ASSUME NEW c \in Clients, Connect(c) \/ Serve(c) \/ OpenFails(c) \/ Drop(c)
      PROVE  Fence'
  BY <1>1, PlainFenced, OpenFenced, OpenedFenced, JoinFenced, SubscribeFenced, AuthorizeFenced, ApplyFenced,
     DeliverFenced, GoneFenced DEF Serve
<1>2. ASSUME NEW c \in Clients, NEW u \in Edits, Type(c, u)
      PROVE  Fence'
  BY <1>2, TypeFenced
<1>3. ASSUME NEW r \in RoomIds, Tick(r) \/ Flush(r)
      PROVE  Fence'
  <2>1. Committed(r, WorkOf(r), sock) /\ UNCHANGED <<local, born>>
    BY <1>3, TickCommits DEF Tick, Flush
  <2>. QED  BY <2>1, RoomStepFenced
<1>4. CASE Restoration
  BY <1>4, RestorationFenced
<1>5. CASE Crash
  BY <1>5, CrashFenced
<1>6. CASE UNCHANGED vars
  BY <1>6 DEF vars, Fence, StoreFenced, RoomsFenced, SocketsFenced, BrowsersFenced, PagesJoined
<1>. QED  BY <1>1, <1>2, <1>3, <1>4, <1>5, <1>6 DEF Next

LEMMA FenceAlways == Spec => []Fence
<1>1. Init => Fence
  BY InitFenced
<1>2. Typed /\ OneMore /\ Fence /\ [Next]_vars => Fence'
  BY NextFenced
<1>. QED  BY <1>1, <1>2, TypedAlways, PTL DEF Spec

\* No edit of another epoch reaches the file or is stored as one of this epoch, for
\* any number of restorations: the check of persist_collaboration_batch is enough,
\* because whatever can still be stored in this epoch was written in it (Fence).
THEOREM RoomEpochFence == Spec => []EpochFence
<1>1. Fence => EpochFence
  BY DEF Fence, StoreFenced, Fenced, FencedRow, EpochFence
<1>. QED  BY <1>1, FenceAlways, PTL

-----------------------------------------------------------------------------
(* What a restoration replaces *)

\* The file changes only with the log.
Grown(L, f) == Len(log) <= Len(L) /\ (Len(L) = Len(log) => f = file)
GrownWorks(r) == {w \in SoundWorks(r) : Grown(w.log, w.file)}

LEMMA GrownClosed ==
    ASSUME Typed, NEW r \in RoomIds
    PROVE  Closed(GrownWorks(r))
<1>. SUFFICES ASSUME NEW w \in GrownWorks(r)
     PROVE  /\ w.room.pending # <<>> /\ w.room.epoch = epoch => Persisted(w) \in GrownWorks(r)
            /\ w.room.durable > 0 => Snapped(w) \in GrownWorks(r)
            /\ Reset(w) \in GrownWorks(r)
  BY DEF Closed
<1>0. /\ w \in SoundWorks(r) /\ w \in Work /\ w.room.pending \in Seq(Update) /\ w.log \in Seq(Row)
      /\ log \in Seq(Row) /\ Grown(w.log, w.file)
  BY DEF GrownWorks, SoundWorks, Work, Actor, Typed, StoreTyped
<1>1. ASSUME w.room.pending # <<>>, w.room.epoch = epoch
      PROVE  Persisted(w) \in GrownWorks(r)
  <2>1. PICK v, L : v = Persisted(w) /\ L = w.log \o Rows(w)
    OBVIOUS
  <2>2. v \in SoundWorks(r) /\ v.log = L
    BY <1>0, <1>1, <2>1, SoundClosed, PersistedFields DEF Closed
  <2>3. w.room.epoch \in Epochs
    BY <1>1 DEF Typed, StoreTyped
  <2>4. Len(L) = Len(w.log) + Len(w.room.pending)
    BY <1>0, <2>1, <2>3, RowsTyped
  <2>5. PICK a, b, n : a = Len(w.log) /\ b = Len(w.room.pending) /\ n = Len(log)
    OBVIOUS
  <2>6. a \in Nat /\ b \in Nat /\ b # 0 /\ n \in Nat /\ n <= a /\ Len(L) = a + b
    BY <1>0, <1>1, <2>4, <2>5, EmptySeq DEF Grown
  <2>7. n <= Len(L) /\ Len(L) # n
    BY <2>6
  <2>8. Grown(v.log, v.file)
    BY <2>2, <2>5, <2>7 DEF Grown
  <2>. QED  BY <2>1, <2>2, <2>8 DEF GrownWorks
<1>2. ASSUME w.room.durable > 0
      PROVE  Snapped(w) \in GrownWorks(r)
  <2>1. PICK v : v = Snapped(w)
    OBVIOUS
  <2>2. v \in SoundWorks(r)
    BY <1>0, <1>2, <2>1, SoundClosed DEF Closed
  <2>3. v.log = w.log /\ v.file = w.file
    BY <1>0, <2>1 DEF Snapped, Work
  <2>. QED  BY <1>0, <2>1, <2>2, <2>3 DEF GrownWorks
<1>3. Reset(w) \in GrownWorks(r)
  <2>1. PICK v : v = Reset(w)
    OBVIOUS
  <2>2. v \in SoundWorks(r) /\ v.log = w.log /\ v.file = w.file
    BY <1>0, <2>1, SoundClosed, ResetIs DEF Closed
  <2>. QED  BY <1>0, <2>1, <2>2 DEF GrownWorks
<1>. QED  BY <1>1, <1>2, <1>3

LEMMA CommittedGrows ==
    ASSUME Typed, NEW r \in RoomIds, NEW k \in SoundWorks(r), k.log = log, k.file = file,
           NEW S, Committed(r, k, S)
    PROVE  Grown(log', file')
<1>1. PICK w : Outcome(k, w) /\ Commit(r, w, S)
  BY DEF Committed
<1>2. Len(log) \in Nat
  BY OpenKeepsLog
<1>3. k \in GrownWorks(r)
  BY <1>2 DEF GrownWorks, Grown
<1>4. w \in GrownWorks(r)
  BY <1>1, <1>3, GrownClosed DEF Outcome
<1>. QED  BY <1>1, <1>4 DEF GrownWorks, Commit

LEMMA WorkGrows ==
    ASSUME Typed, NEW r \in RoomIds, NEW S, Committed(r, WorkOf(r), S)
    PROVE  Grown(log', file')
<1>1. WorkOf(r) \in SoundWorks(r) /\ WorkOf(r).log = log /\ WorkOf(r).file = file
  BY WorkSound DEF WorkOf
<1>. QED  BY <1>1, CommittedGrows

LEMMA LeaveGrows ==
    ASSUME Typed, NEW c \in Clients, sock[c].room # NoRoom, Leave(c)
    PROVE  Grown(log', file')
<1>1. LeftWork(c) \in SoundWorks(sock[c].room) /\ sock[c].room \in RoomIds
      /\ Committed(sock[c].room, LeftWork(c), [sock EXCEPT ![c] = Offline])
  BY LeftSound, InRoom, LeaveCommits
<1>2. LeftWork(c).log = log /\ LeftWork(c).file = file
  <2>1. PICK R, P : R = rooms[sock[c].room] /\ P = Orphaned(R.pending, c)
    OBVIOUS
  <2>2. LeftWork(c) = [room |-> [epoch |-> R.epoch, doc |-> R.doc, durable |-> R.durable, pending |-> P,
                                 since |-> R.since],
                       file |-> file, log |-> log, snaps |-> snaps, acks |-> {}]
    BY <2>1, InRoom, LeftIs
  <2>. QED  BY <2>2
<1>. QED  BY <1>1, <1>2, CommittedGrows

LEMMA ApplyGrows ==
    ASSUME Typed, NEW c \in Clients, Apply(c)
    PROVE  Grown(log', file')
<1>1. sock[c].hand # Nothing /\ sock[c].pc = "joined" /\ sock[c].room # NoRoom
  BY SocketIs DEF Apply, Shaped
<1>2. CASE sock[c].hand.ups \subseteq rooms[sock[c].room].doc
  BY <1>2, OpenKeepsLog DEF Apply, Grown
<1>3. CASE ~(sock[c].hand.ups \subseteq rooms[sock[c].room].doc)
  <2>1. /\ KeptWork(c) \in SoundWorks(sock[c].room) /\ sock[c].room \in RoomIds
        /\ Committed(sock[c].room, KeptWork(c), ToldOf(c))
    BY <1>1, <1>3, KeptSound, InRoom, ApplyCommits
  <2>2. KeptWork(c).log = log /\ KeptWork(c).file = file
    <3>1. PICK R, D, P : /\ R = rooms[sock[c].room] /\ D = R.doc \cup sock[c].hand.ups
                         /\ P = Append(R.pending, [ups |-> sock[c].hand.ups, client |-> c])
      OBVIOUS
    <3>2. KeptWork(c) = [room |-> [epoch |-> R.epoch, doc |-> D, durable |-> R.durable, pending |-> P,
                                   since |-> R.since],
                         file |-> file, log |-> log, snaps |-> snaps, acks |-> {}]
      BY <1>1, <3>1, InRoom, KeptIs
    <3>. QED  BY <3>2
  <2>. QED  BY <2>1, <2>2, CommittedGrows
<1>. QED  BY <1>2, <1>3

LEMMA FileFollowsLog ==
    ASSUME Typed, [Next]_vars, ~ApplyRestore
    PROVE  Grown(log', file')
<1>0. Grown(log, file)
  BY OpenKeepsLog DEF Grown
<1>1. ASSUME NEW c \in Clients, Connect(c) \/ Serve(c) \/ OpenFails(c) \/ Drop(c)
      PROVE  Grown(log', file')
  <2>1. CASE Connect(c) \/ OpenFails(c) \/ FindRoom(c) \/ OpenRoom(c) \/ Opened(c) \/ Deliver(c)
    BY <1>0, <2>1 DEF Connect, OpenFails, FindRoom, OpenRoom, Opened, Deliver
  <2>2. CASE Join(c)
    <3>1. sock[c].room # NoRoom
      BY <2>2, SocketIs DEF Join, Shaped
    <3>2. sock[c].room \in RoomIds
      BY <3>1, InRoom
    <3>3. PICK S : Committed(sock[c].room, WorkOf(sock[c].room), S)
      BY <2>2, JoinCommits
    <3>. QED  BY <3>2, <3>3, WorkGrows
  <2>3. CASE Subscribe(c)
    <3>1. sock[c].room # NoRoom
      BY <2>3, SocketIs DEF Subscribe, Shaped
    <3>2. Leave(c) \/ UNCHANGED <<file, log>>
      BY <2>3 DEF Subscribe
    <3>. QED  BY <1>0, <3>1, <3>2, LeaveGrows
  <2>4. CASE Authorize(c)
    <3>1. sock[c].room # NoRoom
      BY <2>4, SocketIs DEF Authorize, Shaped
    <3>2. Leave(c) \/ UNCHANGED <<file, log>>
      BY <2>4 DEF Authorize
    <3>. QED  BY <1>0, <3>1, <3>2, LeaveGrows
  <2>5. CASE Apply(c)
    BY <2>5, ApplyGrows
  <2>6. CASE EpochNotice(c) \/ Drop(c)
    <3>1. sock[c].room # NoRoom /\ Leave(c)
      BY <2>6, SocketIs DEF EpochNotice, Drop, Shaped
    <3>. QED  BY <3>1, LeaveGrows
  <2>. QED  BY <1>1, <2>1, <2>2, <2>3, <2>4, <2>5, <2>6 DEF Serve
<1>2. ASSUME NEW c \in Clients, NEW u \in Edits, Type(c, u)
      PROVE  Grown(log', file')
  BY <1>0, <1>2 DEF Type
<1>3. ASSUME NEW r \in RoomIds, Tick(r) \/ Flush(r)
      PROVE  Grown(log', file')
  BY <1>3, TickCommits, WorkGrows
<1>4. CASE Barrier
  <2>1. CASE hub.room = NoRoom
    BY <1>0, <1>4, <2>1 DEF Barrier
  <2>2. CASE hub.room # NoRoom
    <3>1. Committed(hub.room, WorkOf(hub.room), sock) /\ hub.room \in RoomIds
      BY <1>4, <2>2, BarrierCommits DEF Typed, RestTyped
    <3>. QED  BY <3>1, WorkGrows
  <2>. QED  BY <2>1, <2>2
<1>5. CASE CaptureExact \/ EpochChanged \/ Crash
  BY <1>0, <1>5 DEF CaptureExact, EpochChanged, Crash
<1>6. CASE UNCHANGED vars
  BY <1>0, <1>6 DEF vars
<1>. QED  BY <1>1, <1>2, <1>3, <1>4, <1>5, <1>6 DEF Next, Restoration

\* Until the log grows, the file is the one that was captured.
Capture == restore.pc = "captured" =>
    restore.head <= Len(log) /\ (restore.head = Len(log) => restore.text = file)

LEMMA CaptureKept == Typed /\ OneMore /\ Capture /\ [Next]_vars => Capture'
<1>. SUFFICES ASSUME Typed, OneMore, Capture, [Next]_vars, restore'.pc = "captured"
     PROVE  restore'.head <= Len(log') /\ (restore'.head = Len(log') => restore'.text = file')
  BY DEF Capture
<1>1. restore \in [pc : {"idle", "flushed", "captured", "applied"}, head : Nat, text : SUBSET Edits]
      /\ Len(log) \in Nat
  BY OpenKeepsLog DEF Typed, RestTyped
<1>2. CASE CaptureExact
  BY <1>1, <1>2 DEF CaptureExact
<1>3. CASE ~CaptureExact
  <2>1. restore' = restore /\ ~ApplyRestore
    <3>1. ~Barrier /\ ~ApplyRestore /\ ~EpochChanged /\ ~Crash
      BY <1>1 DEF Barrier, ApplyRestore, EpochChanged, Crash, NoRestore
    <3>. QED  BY <1>3, <3>1, EpochSteady DEF Restoration, vars
  <2>2. Grown(log', file')
    BY <2>1, FileFollowsLog
  <2>3. Len(log') \in Nat
    BY NextTyped, OpenKeepsLog DEF Typed, StoreTyped
  <2>4. restore.head \in Nat /\ restore.head <= Len(log) /\ (restore.head = Len(log) => restore.text = file)
    BY <1>1, <2>1 DEF Capture
  <2>5. PICK h, m, n : h = restore.head /\ m = Len(log) /\ n = Len(log')
    OBVIOUS
  <2>6. h \in Nat /\ m \in Nat /\ n \in Nat /\ h <= m /\ m <= n
    BY <1>1, <2>2, <2>3, <2>4, <2>5 DEF Grown
  <2>7. h <= n /\ (h = n => h = m /\ n = m)
    BY <2>6
  <2>. QED  BY <2>1, <2>2, <2>4, <2>5, <2>7 DEF Grown
<1>. QED  BY <1>2, <1>3

\* A restoration replaces exactly the content that its safety version holds, even
\* when the room of the file stores edits between the capture and the exchange.
THEOREM RoomNothingReplacedUnsaved == Spec => NothingReplacedUnsaved
<1>1. Init => Capture
  BY DEF Init, Capture, NoRestore
<1>2. Typed /\ OneMore /\ Capture /\ [Next]_vars => Capture'
  BY CaptureKept
<1>3. Typed /\ Capture /\ [Next]_vars => [epoch' # epoch => restore.text = file]_vars
  <2>. SUFFICES ASSUME Typed, Capture, Next, epoch' # epoch
       PROVE  restore.text = file
    BY DEF vars
  <2>1. CASE Barrier
    BY <2>1, BarrierCommits DEF Barrier, Committed, Commit
  <2>2. CASE CaptureExact \/ EpochChanged \/ Crash
    BY <2>2 DEF CaptureExact, EpochChanged, Crash
  <2>3. CASE ApplyRestore
    BY <2>3 DEF ApplyRestore, Capture
  <2>4. CASE ~Restoration /\ ~Crash
    BY <2>4, EpochSteady
  <2>. QED  BY <2>1, <2>2, <2>3, <2>4 DEF Restoration
<1>4. Spec => [](Typed /\ OneMore /\ Capture)
  BY <1>1, <1>2, TypedAlways, PTL DEF Spec
<1>5. Spec => [][epoch' # epoch => restore.text = file]_vars
  BY <1>3, <1>4, PTL DEF Spec
<1>. QED  BY <1>5 DEF NothingReplacedUnsaved
=============================================================================
