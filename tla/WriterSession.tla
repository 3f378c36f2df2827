--------------------------- MODULE WriterSession ---------------------------
(***************************************************************************)
(* The page's end of collaborative editing: CollaborationSession of         *)
(* services/server/frontend/writer.js, which joins the editor, the browser's *)
(* database (one document per epoch) and the socket, reconnects, and tells   *)
(* the Writer whether the text is saved.                                     *)
(*                                                                         *)
(* A document is the set of edits it holds.  A message is handled at once;   *)
(* what interleaves with the handlers is the wait for the browser's database, *)
(* the timers, the Writer and the network.  The server is external: it joins, *)
(* stores and acknowledges as services/server/src/collaboration.rs does, with *)
(* its two outgoing channels in either order.                                *)
(***************************************************************************)
EXTENDS Integers, Sequences, FiniteSets

CONSTANTS
    Edits,          \* the edits typed into this page
    Others,         \* the edits that arrive from other Writers
    Flushes,        \* calls of flush
    None,
    Faults,         \* what happens around the page, of AllFaults
    MaxEpoch,       \* bound: restorations, plus one
    MaxConnections  \* bound: sockets opened

All == Edits \cup Others
AllFaults == {"drop", "freeze", "restore", "leave", "error"}

ASSUME SessionAssumption ==
    /\ Edits \cap Others = {} /\ \A S \in SUBSET All : S # None
    /\ Faults \subseteq AllFaults
    /\ MaxEpoch \in Nat \ {0} /\ MaxConnections \in Nat \ {0}

VARIABLES
    session,    \* the fields of the CollaborationSession
    page,       \* model.conflict, model.recoveryText, saveStatus and the timer of a reload
    flushes,    \* the calls of flush and what they told their callers
    idb,        \* the browser's documents, one per epoch
    wire,       \* the socket, with the frames under way
    server,     \* the epoch, the policy, the stored documents, what is not stored yet
    made        \* the epoch each edit was typed in, 0 before that

vars == <<session, page, flushes, idb, wire, server, made>>

Epochs == 1 .. MaxEpoch
Labels == {"local", "syncing", "synced", "offline", "reconnecting", "conflict"}
Modes == {"read_only", "read_write"}

Frame == [type : {"SOURCE_UPDATE"}, seq : Nat, ups : SUBSET All] \cup [type : {"FLUSH"}]
Message ==
    [type : {"JOIN_ACCEPTED"}, epoch : Epochs, access : Modes]
    \cup [type : {"INITIAL_STATE"}, ups : SUBSET All] \cup [type : {"REMOTE_SOURCE_UPDATE"}, ups : SUBSET Others]
    \cup [type : {"DURABLE_ACK"}, seq : Nat]
    \cup [type : {"FLUSHED", "REMOTE_DURABLE", "POLICY_CHANGED", "PAPER_EPOCH_CHANGED", "ERROR"}]

Session == [destroyed : BOOLEAN, connected : BOOLEAN, access : Modes, epoch : 0 .. MaxEpoch,
            metadata : BOOLEAN, initial : {None} \cup SUBSET All, loading : BOOLEAN,
            doc : {None} \cup SUBSET All, mounted : BOOLEAN, editable : BOOLEAN, buffered : SUBSET All,
            seq : Nat, pending : SUBSET Nat, timer : BOOLEAN]
Page == [label : Labels, conflict : BOOLEAN, recovery : SUBSET All, reload : BOOLEAN]
\* covers: what the caller had typed; alone: it is the only flush on its way, and
\* the state of this connection had been merged.
Call == [state : {"none", "waiting", "resolved", "rejected"}, listed : BOOLEAN,
         covers : SUBSET All, epoch : 0 .. MaxEpoch, alone : BOOLEAN]
Wire == [pc : {"none", "connecting", "open", "hungup"}, count : 0 .. MaxConnections,
         epoch : 0 .. MaxEpoch, up : Seq(Frame), down : Seq(Message)]
Server == [epoch : Epochs, frozen : BOOLEAN, durable : [Epochs -> SUBSET All],
           unsaved : SUBSET [seq : Nat, ups : SUBSET All, from : 0 .. MaxConnections]]

TypeOK ==
    /\ session \in Session /\ session.pending \subseteq 1 .. session.seq /\ page \in Page /\ flushes \in [Flushes -> Call]
    /\ idb \in [Epochs -> SUBSET All] /\ wire \in Wire /\ server \in Server
    /\ made \in [All -> 0 .. MaxEpoch]

-----------------------------------------------------------------------------
Constructed == [destroyed |-> FALSE, connected |-> FALSE, access |-> "read_only", epoch |-> 0,
                metadata |-> FALSE, initial |-> None, loading |-> FALSE, doc |-> None,
                mounted |-> FALSE, editable |-> FALSE, buffered |-> {}, seq |-> 0, pending |-> {}, timer |-> TRUE]
NoCall == [state |-> "none", listed |-> FALSE, covers |-> {}, epoch |-> 0, alone |-> FALSE]
Closed(w) == [w EXCEPT !.pc = "none", !.up = <<>>, !.down = <<>>]

\* saveState
Label(p, l) == [p EXCEPT !.label = l]

\* resolveFlushes and rejectFlushes; a waiter that timed out is still listed.
Settled(how) == [f \in Flushes |->
    [flushes[f] EXCEPT !.listed = FALSE,
                       !.state = IF flushes[f].listed /\ flushes[f].state = "waiting"
                                 THEN how ELSE flushes[f].state]]

\* destroy; the persistence and the Yjs document go with the session.
Destroyed(s) == [s EXCEPT !.destroyed = TRUE, !.timer = FALSE, !.doc = None]

\* Wrong on purpose: the number kept is not the one sent.
SentAhead(s, ups) == [s EXCEPT !.seq = s.seq + 1, !.pending = s.pending \cup {s.seq + 2}]

\* sendUpdate, if the socket is open: the frame for the edits ups, numbered and kept
\* in mind until it is acknowledged.
Sent(s, ups) == [s EXCEPT !.seq = s.seq + 1, !.pending = s.pending \cup {s.seq + 1}]
UpdateFrame(s, ups) == [type |-> "SOURCE_UPDATE", seq |-> s.seq + 1, ups |-> ups]
\* readyState; what the server has hung up on looks open until its last message.
IsOpen == wire.pc \in {"open", "hungup"}

-----------------------------------------------------------------------------
(* The connection *)

\* connect, from start or from the timer of the close handler
Connect ==
    /\ session.timer /\ wire.count < MaxConnections
    /\ session' = [session EXCEPT !.timer = FALSE, !.metadata = FALSE, !.initial = None]
    /\ page' = Label(page, IF session.doc = None THEN "local" ELSE "reconnecting")
    /\ wire' = [Closed(wire) EXCEPT !.pc = "connecting", !.count = wire.count + 1]
    /\ UNCHANGED <<flushes, idb, server, made>>

\* 'open'; what the server sends first is on its way.
Open ==
    /\ wire.pc = "connecting"
    /\ session' = [session EXCEPT !.connected = TRUE]
    /\ page' = Label(page, "syncing")
    /\ wire' = [wire EXCEPT !.pc = "open", !.epoch = server.epoch,
                  !.down = <<[type |-> "JOIN_ACCEPTED", epoch |-> server.epoch,
                              access |-> IF server.frozen THEN "read_only" ELSE "read_write"],
                             [type |-> "INITIAL_STATE",
                              ups |-> server.durable[server.epoch]
                                      \cup UNION {b.ups : b \in server.unsaved}]>>]
    /\ UNCHANGED <<flushes, idb, server, made>>

\* 'close' of the session's own socket (that of a destroyed one is ignored), and
\* the 'error' before it, which matters only while connecting.
Close ==
    /\ \/ wire.pc = "hungup" /\ wire.down = <<>>
       \/ "drop" \in Faults /\ wire.pc # "none" /\ wire.count < MaxConnections
    /\ session' = [session EXCEPT !.connected = FALSE, !.pending = {}, !.timer = TRUE]
    /\ flushes' = Settled("rejected")
    /\ page' = Label(page, "reconnecting")
    /\ wire' = Closed(wire)
    /\ UNCHANGED <<idb, server, made>>

-----------------------------------------------------------------------------
(* initializeOrMerge *)

Ready(s) == s.metadata /\ s.initial # None /\ ~s.loading

\* Wrong on purpose: a reconnection takes over what the server has and sends nothing.
MergedQuietly(s) ==
    /\ session' = [s EXCEPT !.doc = s.doc \cup s.initial]
    /\ idb' = [idb EXCEPT ![s.epoch] = idb[s.epoch] \cup s.initial]
    /\ wire' = [wire EXCEPT !.down = Tail(wire.down)]
    /\ page' = Label(page, "synced")

\* The session has the document doc: a Writer sends all of it.
Announced(s, doc, down) ==
    /\ idb' = [idb EXCEPT ![s.epoch] = doc]
    /\ IF s.access = "read_write"
       THEN IF IsOpen
            THEN /\ session' = Sent([s EXCEPT !.doc = doc], doc)
                 /\ wire' = [wire EXCEPT !.up = Append(wire.up, UpdateFrame(s, doc)), !.down = down]
                 /\ page' = Label(page, "syncing")
            ELSE /\ session' = [s EXCEPT !.doc = doc] /\ wire' = [wire EXCEPT !.down = down]
                 /\ page' = Label(page, "offline")
       ELSE /\ session' = [s EXCEPT !.doc = doc] /\ wire' = [wire EXCEPT !.down = down]
            /\ page' = Label(page, "synced")

\* A later connection merges into the document there is.
Merged(s) == Announced(s, s.doc \cup s.initial, Tail(wire.down))

\* A message has set metadata or the initial state: the first connection goes on
\* to wait for the browser's database.
InitializeOrMerge(s) ==
    IF ~Ready(s) THEN /\ session' = s /\ wire' = [wire EXCEPT !.down = Tail(wire.down)]
                      /\ UNCHANGED <<idb, page>>
    ELSE IF s.doc = None
    THEN /\ session' = [s EXCEPT !.loading = TRUE, !.doc = {}]
         /\ wire' = [wire EXCEPT !.down = Tail(wire.down)]
         /\ UNCHANGED <<idb, page>>
    ELSE Merged(s)

\* persistence 'synced', which a closed database never says: the document, the initial state and what was buffered.
\* A connection lost meanwhile has taken the initial state away: the handler
\* throws, and the editor is never mounted.
Loaded ==
    /\ session.loading /\ ~session.destroyed
    /\ LET s == [session EXCEPT !.loading = FALSE]
           doc == session.doc \cup idb[session.epoch]
       IN  IF session.initial = None
           THEN /\ session' = [s EXCEPT !.doc = doc]
                /\ UNCHANGED <<idb, wire, page>>
           ELSE Announced([s EXCEPT !.mounted = TRUE, !.editable = (s.access = "read_write"), !.buffered = {}],
                          doc \cup session.initial \cup session.buffered, wire.down)
    /\ UNCHANGED <<flushes, server, made>>

-----------------------------------------------------------------------------
(* receive *)

Got(type) == IsOpen /\ wire.down # <<>> /\ Head(wire.down).type = type
Read == wire' = [wire EXCEPT !.down = Tail(wire.down)]

\* preserveOldEpoch: the text is kept aside, the session ends, the page reloads.
PreserveOldEpoch ==
    /\ page' = [page EXCEPT !.label = "conflict", !.conflict = TRUE, !.reload = TRUE,
                            !.recovery = IF session.doc = None THEN {} ELSE session.doc]
    /\ session' = Destroyed(session)
    /\ flushes' = Settled("rejected")
    /\ wire' = Closed(wire)
    /\ UNCHANGED idb

\* Wrong on purpose: a session goes on in whatever epoch it finds.
JoinAnyEpoch ==
    /\ Got("JOIN_ACCEPTED")
    /\ InitializeOrMerge([session EXCEPT !.epoch = Head(wire.down).epoch, !.metadata = TRUE,
                                         !.access = Head(wire.down).access])
    /\ UNCHANGED <<flushes, server, made>>

JoinAccepted ==
    /\ Got("JOIN_ACCEPTED")
    /\ LET joined == Head(wire.down)
       IN  IF session.epoch \notin {0, joined.epoch} THEN PreserveOldEpoch
           ELSE /\ InitializeOrMerge([session EXCEPT !.epoch = joined.epoch, !.metadata = TRUE,
                                                     !.access = joined.access])
                /\ UNCHANGED flushes
    /\ UNCHANGED <<server, made>>

InitialState ==
    /\ Got("INITIAL_STATE")
    /\ InitializeOrMerge([session EXCEPT !.initial = Head(wire.down).ups])
    /\ UNCHANGED <<flushes, server, made>>

\* Wrong on purpose: any acknowledgement counts as the last one.
AckIsLast ==
    /\ Got("DURABLE_ACK")
    /\ session' = [session EXCEPT !.pending = session.pending \ {Head(wire.down).seq}]
    /\ page' = Label(page, "synced")
    /\ Read /\ UNCHANGED <<flushes, idb, server, made>>

\* What the label becomes when the server has stored something.
Stored(pending) == IF pending = {} THEN Label(page, "synced") ELSE page

DurableAck ==
    /\ Got("DURABLE_ACK")
    /\ LET pending == session.pending \ {Head(wire.down).seq}
       IN  session' = [session EXCEPT !.pending = pending] /\ page' = Stored(pending)
    /\ Read /\ UNCHANGED <<flushes, idb, server, made>>

RemoteDurable ==
    /\ Got("REMOTE_DURABLE")
    /\ page' = Stored(session.pending)
    /\ Read /\ UNCHANGED <<session, flushes, idb, server, made>>

\* FLUSHED names no call: it resolves all of them.
Flushed ==
    /\ Got("FLUSHED")
    /\ flushes' = Settled("resolved")
    /\ page' = Stored(session.pending)
    /\ Read /\ UNCHANGED <<session, idb, server, made>>

RemoteSourceUpdate ==
    /\ Got("REMOTE_SOURCE_UPDATE")
    /\ LET ups == Head(wire.down).ups
       IN  IF session.doc = None
           THEN session' = [session EXCEPT !.buffered = session.buffered \cup ups] /\ UNCHANGED idb
           ELSE /\ session' = [session EXCEPT !.doc = session.doc \cup ups]
                /\ idb' = [idb EXCEPT ![session.epoch] = idb[session.epoch] \cup ups]
    /\ page' = Label(page, "syncing")
    /\ Read /\ UNCHANGED <<flushes, server, made>>

\* POLICY_CHANGED and RELOAD_REQUIRED end the session, ERROR does not.
PolicyChanged ==
    /\ Got("POLICY_CHANGED")
    /\ page' = [page EXCEPT !.label = "conflict", !.conflict = TRUE]
    /\ session' = Destroyed(session) /\ flushes' = Settled("rejected") /\ wire' = Closed(wire)
    /\ UNCHANGED <<idb, server, made>>

Error ==
    /\ Got("ERROR")
    /\ page' = [page EXCEPT !.label = "conflict", !.conflict = TRUE]
    /\ Read /\ UNCHANGED <<session, flushes, idb, server, made>>

PaperEpochChanged == Got("PAPER_EPOCH_CHANGED") /\ PreserveOldEpoch /\ UNCHANGED <<server, made>>

Receive ==
    \/ JoinAccepted \/ InitialState \/ DurableAck \/ RemoteDurable \/ Flushed
    \/ RemoteSourceUpdate \/ PolicyChanged \/ Error \/ PaperEpochChanged

-----------------------------------------------------------------------------
(* The Writer and the page around the session *)

\* A keystroke, and the update handler: at once on the wire when connected.  An editor
\* stays as it was mounted, whatever access a later connection has.
Type(u) ==
    /\ session.editable /\ ~session.destroyed /\ made[u] = 0
    /\ made' = [made EXCEPT ![u] = session.epoch]
    /\ idb' = [idb EXCEPT ![session.epoch] = idb[session.epoch] \cup {u}]
    /\ LET s == [session EXCEPT !.doc = session.doc \cup {u}]
       IN  IF session.connected /\ session.access = "read_write" /\ IsOpen
           THEN /\ session' = Sent(s, {u})
                /\ wire' = [wire EXCEPT !.up = Append(wire.up, UpdateFrame(s, {u}))]
                /\ page' = Label(page, "syncing")
           ELSE /\ session' = s /\ page' = Label(page, "offline") /\ UNCHANGED wire
    /\ UNCHANGED <<flushes, server>>

NoFlushUnderWay ==
    /\ \A i \in DOMAIN wire.up : wire.up[i].type # "FLUSH"
    /\ \A i \in DOMAIN wire.down : wire.down[i].type # "FLUSHED"

\* flush: nothing to wait for without write access; an error without a socket.
Flush(f) ==
    /\ flushes[f].state = "none" /\ session.mounted /\ ~session.destroyed
    /\ session.access = "read_write"
    /\ LET call == [NoCall EXCEPT !.covers = session.doc, !.epoch = session.epoch]
       IN  IF ~IsOpen
           THEN /\ flushes' = [flushes EXCEPT ![f] = [call EXCEPT !.state = "rejected"]]
                /\ page' = Label(page, "offline") /\ UNCHANGED wire
           ELSE /\ flushes' = [flushes EXCEPT ![f] =
                      [call EXCEPT !.state = "waiting", !.listed = TRUE,
                                   !.alone = NoFlushUnderWay /\ session.initial # None]]
                /\ wire' = [wire EXCEPT !.up = Append(wire.up, [type |-> "FLUSH"])]
                /\ page' = Label(page, "syncing")
    /\ UNCHANGED <<session, idb, server, made>>

\* Ten seconds without an answer: the caller is told, the waiter stays listed.
FlushTimeout(f) ==
    /\ flushes[f].state = "waiting"
    /\ flushes' = [flushes EXCEPT ![f].state = "rejected"]
    /\ UNCHANGED <<session, page, idb, wire, server, made>>

\* openPaper and openFile: the session, if it still lives, is closed, and another one
\* starts; after an epoch change the page does this by itself.
Reopen ==
    /\ page.reload \/ "leave" \in Faults
    /\ wire.count < MaxConnections
    /\ session' = Constructed
    /\ page' = [page EXCEPT !.label = "local", !.conflict = FALSE, !.reload = FALSE]
    /\ flushes' = Settled("rejected")
    /\ wire' = Closed(wire)
    /\ UNCHANGED <<idb, server, made>>

-----------------------------------------------------------------------------
(* The server *)

Tell(w, msgs) == IF w.pc = "open" THEN [w EXCEPT !.down = w.down \o msgs] ELSE w
HangUp(w, msg) == IF w.pc = "open" THEN [w EXCEPT !.pc = "hungup", !.up = <<>>,
                                                  !.down = Append(w.down, [type |-> msg])] ELSE w

\* The acknowledgements of the connection that stands, and the notice to all; they
\* take two ways, and either may come first.
AcksOf(w, sv) == {b.seq : b \in {b \in sv.unsaved : b.from = w.count}}
Orders(S) == {q \in [1 .. Cardinality(S) -> S] : \A i, j \in DOMAIN q : q[i] = q[j] => i = j}
Notices(w, sv) ==
    LET durable == <<[type |-> "REMOTE_DURABLE"]>>
    IN  UNION {{[i \in DOMAIN q |-> [type |-> "DURABLE_ACK", seq |-> q[i]]] \o durable,
                durable \o [i \in DOMAIN q |-> [type |-> "DURABLE_ACK", seq |-> q[i]]]} :
               q \in Orders(AcksOf(w, sv))}
Kept(sv) == [sv EXCEPT !.unsaved = {},
               !.durable[sv.epoch] = sv.durable[sv.epoch] \cup UNION {b.ups : b \in sv.unsaved}]

Persist ==
    /\ server.unsaved # {}
    /\ server' = Kept(server)
    /\ \E notices \in Notices(wire, server) : wire' = Tell(wire, notices)
    /\ UNCHANGED <<session, page, flushes, idb, made>>

\* A flush with nothing to store is answered at once; one that fails stores nothing.
Take ==
    /\ wire.pc = "open" /\ wire.up # <<>>
    /\ LET frame == Head(wire.up)
           w == [wire EXCEPT !.up = Tail(wire.up)]
       IN  \/ /\ frame.type = "SOURCE_UPDATE"
              /\ IF wire.epoch = server.epoch /\ ~server.frozen
                 THEN /\ server' = [server EXCEPT !.unsaved = server.unsaved \cup
                                      {[seq |-> frame.seq, ups |-> frame.ups, from |-> wire.count]}]
                      /\ wire' = w
                 ELSE wire' = HangUp(w, "ERROR") /\ UNCHANGED server
           \/ /\ frame.type = "FLUSH"
              /\ \/ /\ server.unsaved = {}
                    /\ wire' = Tell(w, <<[type |-> "FLUSHED"]>>) /\ UNCHANGED server
                 \/ /\ server.unsaved # {} /\ server' = Kept(server)
                    /\ \E notices \in Notices(wire, server) :
                          \/ wire' = Tell(w, Append(notices, [type |-> "FLUSHED"]))
                          \/ wire' = Tell(w, <<[type |-> "FLUSHED"]>> \o notices)
                 \/ /\ "error" \in Faults /\ server.unsaved # {}
                    /\ wire' = Tell(w, <<[type |-> "ERROR"]>>) /\ UNCHANGED server
    /\ UNCHANGED <<session, page, flushes, idb, made>>

\* Another Writer's edit
Remote(u) ==
    /\ made[u] = 0 /\ ~server.frozen
    /\ made' = [made EXCEPT ![u] = server.epoch]
    /\ server' = [server EXCEPT !.unsaved = server.unsaved \cup {[seq |-> 0, ups |-> {u}, from |-> 0]}]
    /\ wire' = Tell(wire, <<[type |-> "REMOTE_SOURCE_UPDATE", ups |-> {u}]>>)
    /\ UNCHANGED <<session, page, flushes, idb>>

\* A restoration: what was not stored is stored first.
Restore ==
    /\ "restore" \in Faults /\ server.epoch < MaxEpoch
    /\ server' = [Kept(server) EXCEPT !.epoch = server.epoch + 1]
    /\ wire' = HangUp(wire, "PAPER_EPOCH_CHANGED")
    /\ UNCHANGED <<session, page, flushes, idb, made>>

\* An Admin locks the file; that the last of the MaxEpoch epochs has no lock is a bound.
Freeze ==
    /\ "freeze" \in Faults /\ ~server.frozen /\ server.epoch < MaxEpoch
    /\ server' = [server EXCEPT !.frozen = TRUE]
    /\ wire' = HangUp(wire, "POLICY_CHANGED")
    /\ UNCHANGED <<session, page, flushes, idb, made>>

-----------------------------------------------------------------------------
Init ==
    /\ session = Constructed
    /\ page = [label |-> "local", conflict |-> FALSE, recovery |-> {}, reload |-> FALSE]
    /\ flushes = [f \in Flushes |-> NoCall]
    /\ idb = [e \in Epochs |-> {}]
    /\ wire = [pc |-> "none", count |-> 0, epoch |-> 0, up |-> <<>>, down |-> <<>>]
    /\ server = [epoch |-> 1, frozen |-> FALSE, durable |-> [e \in Epochs |-> {}], unsaved |-> {}]
    /\ made = [u \in All |-> 0]

Writer == (\E u \in Edits : Type(u)) \/ (\E f \in Flushes : Flush(f) \/ FlushTimeout(f))
ServerStep == Persist \/ Take \/ Restore \/ Freeze \/ \E u \in Others : Remote(u)

Next == Connect \/ Open \/ Close \/ Receive \/ Loaded \/ Reopen \/ Writer \/ ServerStep

Spec == Init /\ [][Next]_vars

\* Timers fire, the network delivers, the database answers, the server works;
\* nobody has to type, and nothing has to fail.
FairSpec ==
    /\ Spec
    /\ WF_vars(Connect) /\ WF_vars(Open) /\ WF_vars(Receive) /\ WF_vars(Loaded)
    /\ WF_vars(wire.pc = "hungup" /\ Close) /\ WF_vars(page.reload /\ Reopen)
    /\ WF_vars(Persist) /\ WF_vars(Take)
=============================================================================
