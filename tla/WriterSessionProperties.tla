----------------------- MODULE WriterSessionProperties ----------------------
(***************************************************************************)
(* What a Writer may rely on while the page edits one file.                  *)
(***************************************************************************)
EXTENDS WriterSession

Mine(doc) == doc \cap Edits
Unsaved(e) == Mine(idb[e]) \ server.durable[e]

\* "Saved" over an editor that may write means it: every edit typed here, the ones
\* of an earlier session and of a lost connection included, is stored by the
\* server, whichever of the three messages put the label there.
SavedIsDurable ==
    page.label = "synced" /\ session.mounted /\ ~session.destroyed
        /\ session.access = "read_write"
    => Unsaved(session.epoch) = {}

\* A flush that was the only one on its way, asked when the connection's state had
\* been merged, resolves only when all its caller had typed is stored: what the
\* structural operations, builds and suggestions of the page rest on.
FlushCovers ==
    \A f \in Flushes :
        flushes[f].state = "resolved" /\ flushes[f].alone
            => Mine(flushes[f].covers) \subseteq server.durable[flushes[f].epoch]

Exhausted == wire.count = MaxConnections /\ wire.pc = "none"

\* Through lost connections, refused frames and pages left and opened again, an edit
\* reaches the server, unless the file was locked, a restoration began another
\* epoch, or the model has no more sockets.
EditStored ==
    \A u \in Edits : \A e \in Epochs :
        (made[u] = e) ~> (u \in server.durable[e] \/ server.epoch # e \/ server.frozen \/ Exhausted)

\* When an editor of an epoch that is over ends or joins the next one, the edits it had
\* not saved are kept aside and offered to the Writer (preserveOldEpoch); a lock of the
\* file or the Writer may close it before.
OldEpochOffered ==
    [][session.mounted /\ ~session.destroyed /\ session.epoch # server.epoch
           /\ (session'.destroyed \/ (session'.mounted /\ session'.epoch # session.epoch))
           /\ ~Got("POLICY_CHANGED")
       => Unsaved(session.epoch) \subseteq page'.recovery /\ page'.reload]_vars

\* An editor of an epoch that is over is closed, and nothing it holds is lost unoffered.
OldEpochPreserved ==
    /\ \A e \in Epochs :
         (session.mounted /\ session.epoch = e /\ server.epoch # e) ~>
             (session.destroyed \/ session.epoch # e \/ Exhausted)
    /\ OldEpochOffered

\* V2_WEBSOCKET_PROTOCOL.md:40, "A client displays 'Synced' only for durably
\* acknowledged state."
SyncedOnlyForDurable ==
    page.label = "synced" /\ session.epoch # 0 => Unsaved(session.epoch) = {}
=============================================================================
