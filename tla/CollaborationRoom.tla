------------------------- MODULE CollaborationRoom -------------------------
(***************************************************************************)
(* Realtime editing of one file: the hub with its map of rooms, the room    *)
(* actors, the sockets (services/server/src/collaboration.rs) and what they *)
(* persist: the update log, the snapshots, the epoch and the canonical file *)
(* (crates/persistence/src/v2.rs).  Restorations change the epoch under it. *)
(*                                                                         *)
(* The documents are CRDTs: a document is the set of edits it holds, an     *)
(* update carries a set of edits, and applying one is a union.  A socket    *)
(* does one thing at a time, and so does an actor; what a socket hands to   *)
(* an actor is taken up at once, but only after the socket's own checks.    *)
(* All the clients are writers.                                             *)
(***************************************************************************)
EXTENDS Integers, Sequences, FiniteSets

CONSTANTS
    Edits, Clients, None,
    Faults,         \* what goes wrong, of AllFaults
    SnapshotEvery,  \* updates between two snapshots
    MaxEpoch,       \* bound: restorations, plus one
    MaxRooms        \* bound: actors alive at a time

AllFaults == {"crash", "database", "drop"}

ASSUME RoomAssumption ==
    /\ None \notin Clients
    /\ Faults \subseteq AllFaults
    /\ SnapshotEvery \in Nat \ {0} /\ MaxEpoch \in Nat \ {0} /\ MaxRooms \in Nat \ {0}

VARIABLES
    epoch,      \* paper_collaboration_state.document_epoch
    file,       \* the canonical content of the file in the workspace
    log,        \* collaboration_updates, by id
    snaps,      \* collaboration_snapshots
    hub,        \* the room in the map, the opener that holds the map's lock
    rooms,      \* the actors
    sock,       \* each client's connection
    local,      \* each client's page, and its browser's documents, one per epoch
    synced,     \* the edits each client was told are durable
    born,       \* the epoch each edit was written in, 0 before that
    restore     \* the restoration in progress

vars == <<epoch, file, log, snaps, hub, rooms, sock, local, synced, born, restore>>

Epochs == 1 .. MaxEpoch
RoomIds == 1 .. MaxRooms
NoRoom == 0
Nothing == [nothing |-> TRUE]

Row == [epoch : Epochs, ups : SUBSET Edits]
Snap == [epoch : Epochs, through : Nat, doc : SUBSET Edits]
Update == [ups : SUBSET Edits, client : Clients \cup {None}]
Actor == [epoch : 0 .. MaxEpoch, doc : SUBSET Edits, durable : Nat,
          pending : Seq(Update), since : 0 .. SnapshotEvery]
Stopped == [epoch |-> 0, doc |-> {}, durable |-> 0, pending |-> <<>>, since |-> 0]

Recovered == [doc : SUBSET Edits, durable : Nat, fresh : BOOLEAN]

\* access: the handler read the epoch; open: it holds the hub's lock; room: it
\* has a handle; reply: the actor counted it; joined: it serves events.
Socket == [pc : {"off", "access", "open", "room", "reply", "joined"},
           epoch : 0 .. MaxEpoch, room : RoomIds \cup {NoRoom},
           got : {Nothing} \cup Recovered,         \* read while opening
           initial : SUBSET Edits,                 \* the actor's reply to a join
           out : Seq(SUBSET Edits),                \* frames the server has not read
           hand : {Nothing} \cup [ups : SUBSET Edits],   \* authorized, not applied yet
           acks : SUBSET Edits, events : SUBSET Edits,   \* not delivered yet
           stale : BOOLEAN]                        \* EpochChanged was broadcast to it
Offline == [pc |-> "off", epoch |-> 0, room |-> NoRoom, got |-> Nothing, initial |-> {},
            out |-> <<>>, hand |-> Nothing, acks |-> {}, events |-> {}, stale |-> FALSE]
Browser == [epoch : 0 .. MaxEpoch, docs : [Epochs -> SUBSET Edits]]
NoRestore == [pc |-> "idle", head |-> 0, text |-> {}]

TypeOK ==
    /\ epoch \in Epochs /\ file \subseteq Edits
    /\ log \in Seq(Row) /\ snaps \subseteq Snap
    /\ hub \in [room : RoomIds \cup {NoRoom}, opener : Clients \cup {None}]
    /\ rooms \in [RoomIds -> Actor]
    /\ sock \in [Clients -> Socket]
    /\ local \in [Clients -> Browser]
    /\ synced \in [Clients -> SUBSET Edits]
    /\ born \in [Edits -> 0 .. MaxEpoch]
    /\ restore \in [pc : {"idle", "flushed", "captured", "applied"}, head : Nat, text : SUBSET Edits]

-----------------------------------------------------------------------------
(* What is stored *)

Logged(e) == UNION {log[i].ups : i \in {i \in 1 .. Len(log) : log[i].epoch = e}}
SnapsOf(e) == {s \in snaps : s.epoch = e}
Latest(S) == CHOOSE s \in S : \A t \in S : t.through <= s.through

\* Wrong on purpose: the first row after the snapshot is taken for covered.
RecoverySkipping(e) ==
    LET base == IF SnapsOf(e) = {} THEN [through |-> 0, doc |-> {}] ELSE Latest(SnapsOf(e))
        tail == {i \in 1 .. Len(log) : log[i].epoch = e /\ i > base.through + 1}
    IN  [doc     |-> base.doc \cup UNION {log[i].ups : i \in tail},
         durable |-> Len(log),
         fresh   |-> SnapsOf(e) = {}]

\* Wrong on purpose: a room without rows starts one before its snapshot.
RecoveryBehind(e) ==
    LET base == IF SnapsOf(e) = {} THEN [through |-> 0, doc |-> {}] ELSE Latest(SnapsOf(e))
    IN  [doc |-> base.doc \cup Logged(e), durable |-> base.through - 1,
         fresh |-> SnapsOf(e) = {}]

\* collaboration_recovery: the latest snapshot and the rows after it; without a
\* snapshot the canonical file is still to be read.
Recovery(e) ==
    LET base == IF SnapsOf(e) = {} THEN [through |-> 0, doc |-> {}] ELSE Latest(SnapsOf(e))
        tail == {i \in 1 .. Len(log) : log[i].epoch = e /\ i > base.through}
    IN  [doc     |-> base.doc \cup UNION {log[i].ups : i \in tail},
         durable |-> IF tail = {} THEN base.through ELSE CHOOSE i \in tail : \A j \in tail : j <= i,
         fresh   |-> SnapsOf(e) = {}]

\* save_collaboration_snapshot: ON CONFLICT DO NOTHING
Saved(S, s) ==
    IF \E t \in S : t.epoch = s.epoch /\ t.through = s.through THEN S ELSE S \cup {s}

-----------------------------------------------------------------------------
(* The actor.  An operation of the actor takes what it may change, a Work, *)
(* to one of several outcomes.                                              *)

WorkOf(r) == [room |-> rooms[r], file |-> file, log |-> log, snaps |-> snaps, acks |-> {}]

\* Wrong on purpose: the update rows are written, the file is not.
PersistedUnmaterialized(w) ==
    [w EXCEPT !.log = w.log \o [i \in 1 .. Len(w.room.pending) |->
                                  [epoch |-> w.room.epoch, ups |-> w.room.pending[i].ups]],
              !.acks = {w.room.pending[i] : i \in 1 .. Len(w.room.pending)},
              !.room = [w.room EXCEPT !.pending = <<>>,
                                      !.durable = Len(w.log) + Len(w.room.pending)]]

\* persist_collaboration_batch, then the acknowledgements: one transaction
\* writes the rows and the file as the room's document has it.
Persisted(w) ==
    LET n == Len(w.room.pending)
        count == w.room.since + n
    IN  [w EXCEPT !.log = w.log \o [i \in 1 .. n |->
                                      [epoch |-> w.room.epoch, ups |-> w.room.pending[i].ups]],
                  !.file = w.room.doc,
                  !.acks = {w.room.pending[i] : i \in 1 .. n},
                  !.room = [w.room EXCEPT !.pending = <<>>, !.durable = Len(w.log) + n,
                              !.since = IF count > SnapshotEvery THEN SnapshotEvery ELSE count]]

\* Wrong on purpose: a failed batch is given up.
FlushedOnce(w) ==
    IF w.room.pending = <<>> THEN {w}
    ELSE {v \in {Persisted(w)} : w.room.epoch = epoch}
         \cup {v \in {[w EXCEPT !.room.pending = <<>>]} :
                  w.room.epoch # epoch \/ "database" \in Faults}

\* Wrong on purpose: the batch of a room of another epoch is accepted.
FlushedAnyEpoch(w) == IF w.room.pending = <<>> THEN {w} ELSE {Persisted(w)}

\* flush_batch: refused outside the room's epoch; what is refused stays pending.
Flushed(w) ==
    IF w.room.pending = <<>> THEN {w}
    ELSE {v \in {Persisted(w)} : w.room.epoch = epoch}
         \cup {v \in {w} : w.room.epoch # epoch \/ "database" \in Faults}

\* save_snapshot of the room's document, the pending edits included.
Snapped(w) ==
    [w EXCEPT !.snaps = Saved(w.snaps, [epoch |-> w.room.epoch, through |-> w.room.durable,
                                        doc |-> w.room.doc])]
Reset(w) == [w EXCEPT !.room.since = 0]

\* The check at the end of every command.
Checked(w) ==
    IF w.room.durable > 0 /\ w.room.since >= SnapshotEvery
    THEN {Reset(Snapped(w))} \cup {v \in {w} : "database" \in Faults}
    ELSE {w}

\* A room lives as long as the hub or a socket holds it.
Held(R, h, S) == [r \in RoomIds |->
    IF h = r \/ \E c \in Clients : S[c].room = r THEN R[r] ELSE Stopped]

\* The acknowledgements of a batch, to the connections that are still there.
Acked(S, acks) == [c \in Clients |->
    [S[c] EXCEPT !.acks = S[c].acks \cup UNION {a.ups : a \in {a \in acks : a.client = c}}]]

\* The outcome w of an operation of room r, with the sockets S.
Commit(r, w, S) ==
    /\ file' = w.file /\ log' = w.log /\ snaps' = w.snaps
    /\ sock' = Acked(S, w.acks)
    /\ rooms' = Held([rooms EXCEPT ![r] = w.room], hub.room, sock')
    /\ UNCHANGED <<epoch, hub>>

Members(r, S) == {c \in Clients : S[c].room = r /\ S[c].pc \in {"reply", "joined"}}

\* Wrong on purpose: the timer waits for a second update.
TickLate(r) ==
    /\ Len(rooms[r].pending) > 1
    /\ \E w \in Flushed(WorkOf(r)) : Commit(r, w, sock)
    /\ UNCHANGED <<local, synced, born, restore>>

\* timer.tick
Tick(r) ==
    /\ rooms[r].pending # <<>>
    /\ \E w \in Flushed(WorkOf(r)) : Commit(r, w, sock)
    /\ UNCHANGED <<local, synced, born, restore>>

\* RoomCommand::Flush, from flush_workspace or a client
Flush(r) ==
    /\ hub.room = r \/ Members(r, sock) # {}
    /\ \E w \in Flushed(WorkOf(r)) : \E v \in Checked(w) : Commit(r, v, sock)
    /\ UNCHANGED <<local, synced, born, restore>>

-----------------------------------------------------------------------------
(* The sockets *)

\* v2_collaboration_socket: collaboration_access, before the upgrade.
Connect(c) ==
    /\ sock[c].pc = "off"
    /\ sock' = [sock EXCEPT ![c] = [Offline EXCEPT !.pc = "access", !.epoch = epoch]]
    /\ UNCHANGED <<epoch, file, log, snaps, hub, rooms, local, synced, born, restore>>

InMap(e) == hub.room # NoRoom /\ rooms[hub.room].epoch = e

\* CollaborationHub::room takes the lock: the room in the map is of the epoch
\* the handler read, or it is dropped and another one is opened.
FindRoom(c) ==
    /\ sock[c].pc = "access" /\ hub.opener = None
    /\ InMap(sock[c].epoch)
    /\ sock' = [sock EXCEPT ![c].pc = "room", ![c].room = hub.room]
    /\ UNCHANGED <<epoch, file, log, snaps, hub, rooms, local, synced, born, restore>>

OpenRoom(c) ==
    /\ sock[c].pc = "access" /\ hub.opener = None
    /\ ~InMap(sock[c].epoch)
    /\ sock' = [sock EXCEPT ![c].pc = "open", ![c].got = Recovery(sock[c].epoch)]
    /\ hub' = [room |-> NoRoom, opener |-> c]
    /\ rooms' = Held(rooms, NoRoom, sock')
    /\ UNCHANGED <<epoch, file, log, snaps, local, synced, born, restore>>

\* The file is read and the first snapshot saved only now, still under the lock.
Opened(c) ==
    LET got == sock[c].got
        doc == IF got.fresh THEN file \cup got.doc ELSE got.doc
    IN  /\ sock[c].pc = "open"
        /\ \E r \in RoomIds :
              /\ rooms[r] = Stopped
              /\ rooms' = [rooms EXCEPT ![r] = [Stopped EXCEPT !.epoch = sock[c].epoch, !.doc = doc,
                                                               !.durable = got.durable]]
              /\ hub' = [room |-> r, opener |-> None]
              /\ sock' = [sock EXCEPT ![c].pc = "room", ![c].room = r, ![c].got = Nothing]
        /\ snaps' = IF got.fresh
                    THEN Saved(snaps, [epoch |-> sock[c].epoch, through |-> 0, doc |-> file])
                    ELSE snaps
        /\ UNCHANGED <<epoch, file, log, local, synced, born, restore>>

OpenFails(c) ==
    /\ "database" \in Faults
    /\ sock[c].pc = "open"
    /\ hub' = [room |-> NoRoom, opener |-> None]
    /\ sock' = [sock EXCEPT ![c] = Offline]
    /\ UNCHANGED <<epoch, file, log, snaps, rooms, local, synced, born, restore>>

\* RoomCommand::Join
Join(c) ==
    /\ sock[c].pc = "room"
    /\ \E w \in Checked(WorkOf(sock[c].room)) :
          Commit(sock[c].room, w, [sock EXCEPT ![c].pc = "reply",
                                               ![c].initial = rooms[sock[c].room].doc])
    /\ UNCHANGED <<local, synced, born, restore>>

\* What happens to the pending acknowledgements of a connection that is gone.
Orphaned(pending, c) == [i \in 1 .. Len(pending) |->
    IF pending[i].client = c THEN [pending[i] EXCEPT !.client = None] ELSE pending[i]]

\* The end of serve_socket, and RoomCommand::Leave: the last one out flushes and
\* saves a snapshot, whether or not the flush succeeded.
Leave(c) ==
    LET r == sock[c].room
        rest == [sock EXCEPT ![c] = Offline]
        left == [WorkOf(r) EXCEPT !.room.pending = Orphaned(rooms[r].pending, c)]
        last == Members(r, rest) = {}
    IN  \E w \in IF last THEN Flushed(left) ELSE {left} :
        \E v \in IF last /\ w.room.durable > 0
                 THEN {Reset(Snapped(w))} \cup {Reset(x) : x \in {y \in {w} : "database" \in Faults}}
                 ELSE {w} :
        \E u \in Checked(v) : Commit(r, u, rest)

\* Subscribing and sending JOIN_ACCEPTED and INITIAL_STATE.  The client merges the
\* state into the document it kept for this epoch and answers with all it has;
\* a page that finds another epoch is closed, and the paper opened anew.
Subscribe(c) ==
    /\ sock[c].pc = "reply"
    /\ IF local[c].epoch \in {0, sock[c].epoch}
       THEN LET doc == local[c].docs[sock[c].epoch] \cup sock[c].initial
            IN  /\ local' = [local EXCEPT ![c].epoch = sock[c].epoch,
                                          ![c].docs[sock[c].epoch] = doc]
                /\ sock' = [sock EXCEPT ![c].pc = "joined", ![c].initial = {}, ![c].out = <<doc>>]
                /\ UNCHANGED <<epoch, file, log, snaps, hub, rooms>>
       ELSE /\ local' = [local EXCEPT ![c].epoch = 0]
            /\ Leave(c)
    /\ UNCHANGED <<synced, born, restore>>

\* Typing: at once on the wire when there is a connection, kept for the next
\* connection otherwise.
Type(c, u) ==
    /\ born[u] = 0 /\ local[c].epoch # 0
    /\ born' = [born EXCEPT ![u] = local[c].epoch]
    /\ local' = [local EXCEPT ![c].docs[local[c].epoch] = local[c].docs[local[c].epoch] \cup {u}]
    /\ sock' = IF sock[c].pc = "joined"
               THEN [sock EXCEPT ![c].out = Append(sock[c].out, {u})] ELSE sock
    /\ UNCHANGED <<epoch, file, log, snaps, hub, rooms, synced, restore>>

\* SOURCE_UPDATE: the authority, its epoch included, is read again.
Authorize(c) ==
    /\ sock[c].pc = "joined" /\ sock[c].hand = Nothing /\ sock[c].out # <<>>
    /\ IF epoch = sock[c].epoch
       THEN /\ sock' = [sock EXCEPT ![c].hand = [ups |-> Head(sock[c].out)],
                                    ![c].out = Tail(sock[c].out)]
            /\ UNCHANGED <<epoch, file, log, snaps, hub, rooms>>
       ELSE Leave(c)
    /\ UNCHANGED <<local, synced, born, restore>>

\* RoomCommand::Apply: an update that adds nothing is acknowledged on the spot;
\* another is kept for the next batch and broadcast, and the batch may be full.
Apply(c) ==
    LET r == sock[c].room
        ups == sock[c].hand.ups
        idle == [sock EXCEPT ![c].hand = Nothing]
        told == [d \in Clients |-> IF d # c /\ sock[d].pc = "joined" /\ sock[d].room = r
                                   THEN [idle[d] EXCEPT !.events = sock[d].events \cup ups]
                                   ELSE idle[d]]
        kept == [WorkOf(r) EXCEPT !.room.doc = rooms[r].doc \cup ups,
                                  !.room.pending = Append(rooms[r].pending,
                                                          [ups |-> ups, client |-> c])]
    IN  /\ sock[c].hand # Nothing
        /\ IF ups \subseteq rooms[r].doc
           THEN /\ sock' = [idle EXCEPT ![c].acks = sock[c].acks \cup ups]
                /\ UNCHANGED <<epoch, file, log, snaps, hub, rooms>>
           ELSE \E w \in {kept} \cup Flushed(kept) : \E v \in Checked(w) : Commit(r, v, told)
        /\ UNCHANGED <<local, synced, born, restore>>

\* DURABLE_ACK and REMOTE_SOURCE_UPDATE reach the client.
Deliver(c) ==
    /\ sock[c].pc = "joined" /\ sock[c].acks \cup sock[c].events # {}
    /\ synced' = [synced EXCEPT ![c] = synced[c] \cup sock[c].acks]
    /\ local' = [local EXCEPT ![c].docs[sock[c].epoch] = local[c].docs[sock[c].epoch] \cup sock[c].events]
    /\ sock' = [sock EXCEPT ![c].acks = {}, ![c].events = {}]
    /\ UNCHANGED <<epoch, file, log, snaps, hub, rooms, born, restore>>

\* PAPER_EPOCH_CHANGED
EpochNotice(c) ==
    /\ sock[c].stale /\ sock[c].hand = Nothing
    /\ local' = [local EXCEPT ![c].epoch = 0]
    /\ Leave(c)
    /\ UNCHANGED <<synced, born, restore>>

\* A closed or broken connection, or a client that fell behind the broadcast.
Drop(c) ==
    /\ "drop" \in Faults
    /\ sock[c].pc \in {"reply", "joined"} /\ sock[c].hand = Nothing
    /\ Leave(c)
    /\ UNCHANGED <<local, synced, born, restore>>

-----------------------------------------------------------------------------
(* Restoration, as far as it concerns the rooms *)

\* flush_workspace, the first step of capture_exact_v2_state: the room of the map
\* answers when its batch is stored; an error ends the restoration.
Barrier ==
    /\ restore.pc = "idle" /\ epoch < MaxEpoch /\ hub.opener = None
    /\ restore' = [restore EXCEPT !.pc = "flushed"]
    /\ IF hub.room = NoRoom
       THEN UNCHANGED <<epoch, file, log, snaps, hub, rooms, sock>>
       ELSE \E w \in Flushed(WorkOf(hub.room)) : \E v \in Checked(w) :
               w.room.pending = <<>> /\ Commit(hub.room, v, sock)
    /\ UNCHANGED <<local, synced, born>>

\* The rest of it: the head and the content there become the safety version.
CaptureExact ==
    /\ restore.pc = "flushed"
    /\ restore' = [pc |-> "captured", head |-> Len(log), text |-> file]
    /\ UNCHANGED <<epoch, file, log, snaps, hub, rooms, sock, local, synced, born>>

\* Wrong on purpose: the head is not compared with the captured one.
ApplyRestoreBlindly ==
    /\ restore.pc = "captured"
    /\ epoch' = epoch + 1 /\ file' = {}
    /\ restore' = [restore EXCEPT !.pc = "applied"]
    /\ UNCHANGED <<log, snaps, hub, rooms, sock, local, synced, born>>

\* apply_restore: refused when the head has moved.  The restored content stands
\* for the initial text of the new epoch.
ApplyRestore ==
    /\ restore.pc = "captured"
    /\ IF restore.head = Len(log)
       THEN /\ epoch' = epoch + 1 /\ file' = {}
            /\ restore' = [restore EXCEPT !.pc = "applied"]
       ELSE restore' = NoRestore /\ UNCHANGED <<epoch, file>>
    /\ UNCHANGED <<log, snaps, hub, rooms, sock, local, synced, born>>

\* epoch_changed: the room leaves the map, whoever is subscribed is told.
EpochChanged ==
    /\ restore.pc = "applied" /\ hub.opener = None
    /\ restore' = NoRestore
    /\ hub' = [hub EXCEPT !.room = NoRoom]
    /\ sock' = [c \in Clients |->
                  IF hub.room # NoRoom /\ sock[c].room = hub.room /\ sock[c].pc = "joined"
                  THEN [sock[c] EXCEPT !.stale = TRUE] ELSE sock[c]]
    /\ rooms' = Held(rooms, NoRoom, sock')
    /\ UNCHANGED <<epoch, file, log, snaps, local, synced, born>>

\* The server process dies; the browsers keep their documents.
Crash ==
    /\ "crash" \in Faults
    /\ hub' = [room |-> NoRoom, opener |-> None]
    /\ rooms' = [r \in RoomIds |-> Stopped]
    /\ sock' = [c \in Clients |-> Offline]
    /\ restore' = NoRestore
    /\ UNCHANGED <<epoch, file, log, snaps, local, synced, born>>

-----------------------------------------------------------------------------
Init ==
    /\ epoch = 1 /\ file = {} /\ log = <<>> /\ snaps = {}
    /\ hub = [room |-> NoRoom, opener |-> None]
    /\ rooms = [r \in RoomIds |-> Stopped]
    /\ sock = [c \in Clients |-> Offline]
    /\ local = [c \in Clients |-> [epoch |-> 0, docs |-> [e \in Epochs |-> {}]]]
    /\ synced = [c \in Clients |-> {}]
    /\ born = [u \in Edits |-> 0]
    /\ restore = NoRestore

Serve(c) ==
    \/ FindRoom(c) \/ OpenRoom(c) \/ Opened(c) \/ Join(c) \/ Subscribe(c)
    \/ Authorize(c) \/ Apply(c) \/ Deliver(c) \/ EpochNotice(c)

Restoration == Barrier \/ CaptureExact \/ ApplyRestore \/ EpochChanged

Next ==
    \/ \E c \in Clients : Connect(c) \/ Serve(c) \/ OpenFails(c) \/ Drop(c)
    \/ \E c \in Clients, u \in Edits : Type(c, u)
    \/ \E r \in RoomIds : Tick(r) \/ Flush(r)
    \/ Restoration
    \/ Crash

Spec == Init /\ [][Next]_vars

\* The server's tasks run, the timer ticks and browsers reconnect; nobody has to
\* type, and nobody has to restore.
FairSpec ==
    /\ Spec
    /\ \A c \in Clients : WF_vars(Connect(c)) /\ WF_vars(Serve(c))
    /\ \A r \in RoomIds : WF_vars(Tick(r))
=============================================================================
