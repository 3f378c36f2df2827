--------------------- MODULE CollaborationRoomProperties ---------------------
(***************************************************************************)
(* What realtime editing promises.                                          *)
(***************************************************************************)
EXTENDS CollaborationRoom

\* What a restart would find, and what is about to be stored
Kept(e) == Recovery(e).doc \cup UNION {UNION {rooms[r].pending[i].ups : i \in 1 .. Len(rooms[r].pending)} :
                                   r \in {r \in RoomIds : rooms[r].epoch = e}}
\* Told durable, and written in epoch e.
Told(e) == {u \in UNION {synced[c] : c \in Clients} : born[u] = e}

\* A restart finds every stored update: none is hidden behind a snapshot that
\* claims to cover it, whatever failed before (collaboration_recovery).
LogRecovered == \A e \in Epochs : Logged(e) \subseteq Recovery(e).doc

\* The canonical file, which compilations and versions read, has every stored
\* update of the epoch, even after a crash (persist_collaboration_batch).
FileHasTheLog == Logged(epoch) \subseteq file

\* The canonical file, which compilations and versions read, has every stored
\* update of the epoch, and nothing that a restart of the room would not find
\* (persist_collaboration_batch commits both or neither).
FileIsTheLog == file = Logged(epoch)

\* An edit a client was told is durable would be found after a restart, or is on its
\* way: a failed batch is retried and never forgotten (flush_batch).  Only a crash may
\* lose one, because the acknowledgement of a repeated update does not wait.
ToldIsKept ==
    [][~Crash /\ epoch' = epoch =>
         \A u \in Told(epoch)' : u \in Kept(epoch)' \/ u \in Told(epoch) \ Kept(epoch)]_vars

\* No edit of another epoch reaches the file or is stored as one of this epoch,
\* although sockets, rooms and browsers of the old epoch live on after a
\* restoration (the epoch check of persist_collaboration_batch).
EpochFence ==
    /\ \A u \in file : born[u] = epoch
    /\ \A i \in 1 .. Len(log) : \A u \in log[i].ups : born[u] = log[i].epoch

\* A restoration replaces exactly the content its safety version holds: an edit
\* stored after the capture makes it fail (apply_restore's head comparison).
NothingReplacedUnsaved == [][epoch' # epoch => restore.text = file]_vars

\* An edit of the current epoch made in a browser that can reach the server is
\* stored in the end, unless a restoration comes first (reconnects resend all).
EditIsStored == \A u \in Edits :
    (born[u] = epoch) ~> (u \in Logged(epoch) \/ born[u] # epoch)

\* S3_REALTIME_COLLABORATION.md:20: DURABLE_ACK means that the update and one
\* materialization are committed (the duplicate branch of RoomCommand::Apply).
AckIsDurable == Told(epoch) \subseteq Logged(epoch)

\* S3_REALTIME_COLLABORATION.md:20, 35: once every client has submitted its merged state and it was acknowledged,
\* what was acknowledged is in the canonical file.
Settled ==
    /\ \A r \in RoomIds : rooms[r].pending = <<>>
    /\ \A c \in Clients : /\ sock[c].pc = "joined" /\ sock[c].out = <<>>
                           /\ sock[c].hand = Nothing /\ sock[c].acks = {}
SettledIsStored == Settled => Told(epoch) \subseteq file

\* ADR-002:34: source updates may not be dropped.  What has reached a room is in the
\* document of every client that is joined to it, or on the way there.
EditIsSeen == \A c \in Clients : sock[c].pc = "joined" =>
    rooms[sock[c].room].doc \subseteq local[c].docs[sock[c].epoch] \cup sock[c].events

\* ADR-002:11: each active text file is owned by one room actor (epoch_changed).
OneActor == \A r, q \in RoomIds :
    rooms[r].epoch = epoch /\ rooms[q].epoch = epoch => r = q
=============================================================================
