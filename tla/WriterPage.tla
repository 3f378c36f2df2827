----------------------------- MODULE WriterPage -----------------------------
(***************************************************************************)
(* The Writer's page around the editing sessions: papers and files opened,   *)
(* commands pressed, panels refreshed, builds requested while idle           *)
(* (services/server/frontend/writer.js, auto-build.mjs, writer-pdf.mjs).      *)
(*                                                                         *)
(* A handler runs to its next await, and all of them share one model object:  *)
(* a call under way is a record of what was asked and of what its             *)
(* continuation still holds; everything else it reads, it reads when the       *)
(* answer is there.  Sessions are those of WriterSession, reduced to what the  *)
(* page sees of them.  The server is external.                                *)
(***************************************************************************)
EXTENDS Integers, FiniteSets

CONSTANTS
    Papers, Names,  \* a file is a paper and a name
    Edits, None,
    Panels,         \* the panels beside the editor, of AllPanels
    Kinds,          \* the commands pressed, of AllKinds
    Faults,         \* of AllFaults
    MaxSessions,    \* bound: sessions at a time
    MaxChanges,     \* bound: changes of a paper's structure, and restorations
    MaxBuilds       \* bound: builds finished

VARIABLES
    page,       \* the model object, the frame of the PDF and the two timers
    sessions,   \* the CollaborationSessions that may still be alive
    calls,      \* the requests and promises awaited
    edits,      \* where each edit was typed, and whether the server has it
    server      \* what the server has of each paper

vars == <<page, sessions, calls, edits, server>>

Files == [paper : Papers, name : Names]
Slots == 1 .. MaxSessions

\* A command, by its handler.  flush: what it waits for first; versioned: the model's
\* version is sent; after: how it goes on when the command took effect.
Command(flush, versioned, after) == [flush |-> flush, versioned |-> versioned, after |-> after]

Create == Command("no", TRUE, "file")
Rename == Command("require", TRUE, "file")
Delete == Command("require", TRUE, "paper")
SetMain == Command("require", TRUE, "file")
Upload == Command("require", TRUE, "file")
Structural == Command("sync", FALSE, "paper")
Details == Command("sync", FALSE, "paper")
Revert == Command("no", FALSE, "paper")
Checkpoint == Command("sync", FALSE, "history")
SendReview == Command("sync", FALSE, "rounds")
EndReview == Command("no", FALSE, "rounds")
Annotate == Command("no", FALSE, "reviews")
Save == Command("sync", FALSE, "nothing")
Manual == Command("sync", FALSE, "build")
AcceptSuggestion == Command("sync", FALSE, "reviews")

How == [create |-> Create, rename |-> Rename, delete |-> Delete, setMain |-> SetMain, upload |-> Upload,
        structural |-> Structural, details |-> Details, revert |-> Revert, checkpoint |-> Checkpoint,
        sendReview |-> SendReview, endReview |-> EndReview, annotate |-> Annotate, save |-> Save,
        manual |-> Manual, accept |-> AcceptSuggestion]
AllKinds == DOMAIN How
AllPanels == {"history", "reviews", "rounds"}
AllFaults == {"overlap", "notice", "flush", "restore", "others"}

ASSUME PageAssumption ==
    /\ Kinds \subseteq AllKinds /\ Panels \subseteq AllPanels /\ Faults \subseteq AllFaults
    /\ None \notin Papers
    /\ MaxSessions \in Nat \ {0} /\ MaxChanges \in Nat /\ MaxBuilds \in Nat

Steps == {"detail", "files", "file", "reload", "reloadDetail", "reloadFiles", "ready", "flush",
          "recheck", "command", "done", "build", "status"} \cup AllPanels

\* What was open, and typed but not stored, when the Writer pressed the button.
Press == [paper : Papers, file : {None} \cup Files, typed : SUBSET Edits]
\* step: what is awaited; for: what its handler is after; slot: whose flush.
Call == [step : Steps, for : {"open", "nav", "poll", "auto"} \cup AllKinds,
         paper : Papers, file : {None} \cup Files, version : Nat, slot : 0 .. MaxSessions,
         press : {None} \cup Press]

Page == [paper : {None} \cup Papers, detail : {None} \cup Papers, version : Nat,
         files : SUBSET Files, file : {None} \cup Files, conflict : BOOLEAN,
         collab : 0 .. MaxSessions, view : 0 .. MaxSessions,
         panel : [Panels -> {None} \cup Papers],
         build : {None} \cup [paper : Papers, id : 1 .. MaxBuilds],
         shown : BOOLEAN, timer : {None} \cup Papers]
Session == [alive : BOOLEAN, ready : BOOLEAN, stale : BOOLEAN, file : {None} \cup Files]
Edit == [file : {None} \cup Files, slot : 0 .. MaxSessions, durable : BOOLEAN]
Served == [version : 1 .. MaxChanges + 1, epoch : 1 .. MaxChanges + 1, files : SUBSET Names,
           built : 0 .. MaxBuilds]

TypeOK ==
    /\ page \in Page /\ sessions \in [Slots -> Session] /\ calls \subseteq Call
    /\ edits \in [Edits -> Edit] /\ server \in [Papers -> Served]

-----------------------------------------------------------------------------
(* Sessions and edits *)

Gone == [alive |-> FALSE, ready |-> FALSE, stale |-> FALSE, file |-> None]
Untyped == [file |-> None, slot |-> 0, durable |-> FALSE]

\* destroy: whoever waits for its flush is told that it failed; the edits it had not
\* sent stay in the browser, for the file's next session.
Ended(S, i) == [j \in Slots |-> IF j = i THEN Gone ELSE S[j]]
Kept(E, i) == [u \in Edits |-> IF E[u].slot = i /\ i # 0 THEN [E[u] EXCEPT !.slot = 0] ELSE E[u]]
Rejected(C, i) == {c \in C : c.step # "flush" \/ c.slot # i}
Flushed(E, i) == [u \in Edits |-> IF E[u].slot = i THEN [E[u] EXCEPT !.durable = TRUE] ELSE E[u]]
Adopted(E, i, f) == [u \in Edits |->
    IF E[u].file = f /\ E[u].slot = 0 /\ ~E[u].durable THEN [E[u] EXCEPT !.slot = i] ELSE E[u]]

\* closeEditor, which knows one session only
ClosedPage(m) == [m EXCEPT !.collab = 0, !.view = 0]
CloseEditor ==
    /\ sessions' = Ended(sessions, page.collab)
    /\ edits' = Kept(edits, page.collab)

UnsavedIn(i) == {u \in Edits : i # 0 /\ edits[u].slot = i /\ ~edits[u].durable}
Pressed == [paper |-> page.paper, file |-> page.file, typed |-> UnsavedIn(page.view)]

-----------------------------------------------------------------------------
(* Requests *)

Ask(step, for) == [step |-> step, for |-> for, paper |-> page.paper, file |-> None,
                   version |-> 0, slot |-> 0, press |-> None]
\* Wrong on purpose: a paper is opened without its panels.
RefreshesPdf(for) == {Ask("status", "poll")}

\* How openPaper ends; a build follows the document details.
Refreshes(for) == {Ask(s, for) : s \in Panels} \cup {Ask("status", "poll")}
                    \cup {Ask("build", "auto") : k \in {"details"} \cap {for}}

\* The Writer waits until what was asked for is there, unless Faults has "overlap".
Idle == "overlap" \in Faults \/ \A c \in calls : c.for \in {"poll", "auto"}

\* What openPaper does before its first await.
\* Wrong on purpose: the build of the paper that is left stays scheduled.
OpeningLate(p, for, rest) ==
    /\ CloseEditor
    /\ page' = [ClosedPage(page) EXCEPT !.build = None, !.shown = FALSE, !.paper = p, !.file = None]
    /\ calls' = Rejected(rest, page.collab) \cup {[Ask("detail", for) EXCEPT !.paper = p]}

\* Wrong on purpose: the session of the file that is left is forgotten.
OpeningOver(p, for, rest) ==
    /\ page' = [page EXCEPT !.timer = None, !.build = None, !.shown = FALSE, !.paper = p, !.file = None]
    /\ calls' = Rejected(rest, page.collab) \cup {[Ask("detail", for) EXCEPT !.paper = p]}
    /\ UNCHANGED <<sessions, edits>>

Opening(p, for, rest) ==
    /\ CloseEditor
    /\ page' = [ClosedPage(page) EXCEPT !.timer = None, !.build = None, !.shown = FALSE,
                                        !.paper = p, !.file = None]
    /\ calls' = Rejected(rest, page.collab) \cup {[Ask("detail", for) EXCEPT !.paper = p]}

OpenPaper(p) ==
    /\ Idle
    /\ Opening(p, "open", calls)
    /\ UNCHANGED <<server>>

\* openFile, from the tree, Quick Open, a search result, the outline or a problem; the
\* file that is open may be opened again.
OpenFile(f) ==
    /\ Idle /\ f \in page.files
    /\ CloseEditor
    /\ page' = ClosedPage(page)
    /\ calls' = Rejected(calls, page.collab) \cup {[Ask("file", "nav") EXCEPT !.file = f]}
    /\ UNCHANGED <<server>>

-----------------------------------------------------------------------------
(* Answers: what a handler does with one, up to its next await *)

FilesOn(p) == {[paper |-> p, name |-> n] : n \in server[p].files}
Answered(c, more) == calls' = (calls \ {c}) \cup more

GotDetail(c) ==
    /\ c.step = "detail"
    /\ page' = [page EXCEPT !.detail = c.paper, !.version = server[c.paper].version]
    /\ Answered(c, {[c EXCEPT !.step = "files"]})
    /\ UNCHANGED <<sessions, edits, server>>

\* The main file is opened, or the first one there is.
GotFiles(c) ==
    /\ c.step = "files"
    /\ page' = [page EXCEPT !.files = FilesOn(c.paper)]
    /\ IF FilesOn(c.paper) = {} THEN Answered(c, Refreshes(c.for))
       ELSE \E f \in FilesOn(c.paper) :
              Answered(c, {[c EXCEPT !.step = "file", !.paper = page.paper, !.file = f]})
    /\ UNCHANGED <<sessions, edits, server>>

\* openFile's session, the model's from now on; a file that is not of the paper
\* cannot be opened.  openPaper refreshes its panels in either case.
GotFile(c) ==
    LET more == CASE c.for \in {"open", "details"} -> Refreshes(c.for)
                  [] c.for = "accept" -> {[c EXCEPT !.step = "ready"]}
                  [] OTHER -> {}
    IN  /\ c.step = "file"
        /\ Answered(c, more)
        /\ IF c.file \in FilesOn(c.paper)
           THEN \E i \in Slots :
                  /\ ~sessions[i].alive
                  /\ \A j \in 1 .. i - 1 : sessions[j].alive
                  /\ sessions' = [sessions EXCEPT ![i] = [Gone EXCEPT !.alive = TRUE, !.file = c.file]]
                  /\ page' = [page EXCEPT !.file = c.file, !.version = server[c.paper].version,
                                          !.conflict = FALSE, !.collab = i]
           ELSE UNCHANGED <<page, sessions>>
        /\ UNCHANGED <<edits, server>>

\* mountEditor takes the place of the editor there was.
Mount(i) ==
    /\ sessions[i].alive /\ ~sessions[i].ready
    /\ sessions' = [sessions EXCEPT ![i].ready = TRUE]
    /\ page' = [page EXCEPT !.view = i]
    /\ edits' = Adopted(edits, i, sessions[i].file)
    /\ UNCHANGED <<calls, server>>

\* refreshHistory, refreshReviews, refreshReviewRounds: the
\* answer is shown whatever paper is open by now.
GotPanel(c) ==
    /\ c.step \in Panels
    /\ page' = [page EXCEPT !.panel[c.step] = c.paper]
    /\ Answered(c, {})
    /\ UNCHANGED <<sessions, edits, server>>

\* Wrong on purpose: the frame stays when the paper has no PDF.
StatusKeeps(c) ==
    LET id == server[c.paper].built
    IN  IF id = 0 THEN page ELSE [page EXCEPT !.build = [paper |-> c.paper, id |-> id], !.shown = TRUE]

\* Wrong on purpose: the frame is filled when there is no build, too.
StatusBlindly(c) ==
    [page EXCEPT !.build = [paper |-> c.paper, id |-> server[c.paper].built], !.shown = TRUE]

\* refreshBuildStatus: another build is loaded into the frame, which hides when the
\* paper has none.
Status(c) ==
    LET id == server[c.paper].built
    IN  IF id = 0 THEN [page EXCEPT !.shown = FALSE]
        ELSE [page EXCEPT !.build = [paper |-> c.paper, id |-> id], !.shown = TRUE]

GotStatus(c) ==
    /\ c.step = "status"
    /\ page' = Status(c)
    /\ Answered(c, {})
    /\ UNCHANGED <<sessions, edits, server>>

\* requestBuild
GotBuild(c) ==
    /\ c.step = "build"
    /\ Answered(c, {Ask("status", "poll")} \cup {Ask(s, "poll") : s \in Panels \cap {"history"}})
    /\ UNCHANGED <<page, sessions, edits, server>>

-----------------------------------------------------------------------------
(* Commands *)

Send(c) == [c EXCEPT !.step = "command", !.paper = page.paper, !.file = page.file, !.version = page.version]

\* Wrong on purpose: the command goes out without waiting for the flush.
FirstStepNow(k) == Send([Ask("flush", k) EXCEPT !.press = Pressed])

FirstStep(k) ==
    LET c == [Ask("flush", k) EXCEPT !.press = Pressed, !.slot = page.collab]
    IN  IF How[k].flush = "no" \/ page.collab = 0 THEN Send(c) ELSE c

\* Whether the handler gets past its guards: syncCurrent needs a session that is not
\* in conflict, which what works on the paper alone asks for only if there is one.
Passes(k) ==
    CASE How[k].flush = "no" -> TRUE
      [] k \in {"structural", "details", "upload"} -> page.collab # 0 => ~page.conflict
      [] OTHER -> page.collab # 0 /\ ~page.conflict

\* A click on a command of the open paper; manualCompile cancels the build that was
\* scheduled before it looks for a session.
Click(k) ==
    /\ Idle /\ k \in Kinds \ {"accept"}
    /\ page.paper # None /\ page.detail # None
    /\ Passes(k) \/ k = "manual"
    /\ calls' = calls \cup {c \in {FirstStep(k)} : Passes(k)}
    /\ page' = IF k = "manual" THEN [page EXCEPT !.timer = None] ELSE page
    /\ UNCHANGED <<sessions, edits, server>>

\* flush resolves when the session has everything stored.
GotFlush(c) ==
    /\ c.step = "flush"
    /\ edits' = Flushed(edits, c.slot)
    /\ Answered(c, CASE How[c.for].flush = "require" -> {[c EXCEPT !.step = "recheck", !.paper = page.paper]}
                     [] c.for = "manual" -> {Ask("build", "manual")}
                     [] c.for = "save"   -> {}
                     [] OTHER            -> {Send(c)})
    /\ UNCHANGED <<page, sessions, server>>

\* Offline, or ten seconds without an answer
FlushFails(c) ==
    /\ "flush" \in Faults
    /\ c.step = "flush"
    /\ Answered(c, {})
    /\ UNCHANGED <<page, sessions, edits, server>>

\* requireDurableFlush, second half; a file that was closed meanwhile ends it, but
\* for an upload.
Rechecked(c) ==
    /\ c.step = "recheck"
    /\ page' = [page EXCEPT !.detail = c.paper, !.version = server[c.paper].version]
    /\ Answered(c, {d \in {[Send(c) EXCEPT !.version = server[c.paper].version]} : d.file # None \/ c.for = "upload"})
    /\ UNCHANGED <<sessions, edits, server>>

\* The bound on what happens to the papers
Changeable == \A p \in Papers : server[p].version + server[p].epoch < MaxChanges + 2

\* The commands that change the paper's files or its text
Changing == {"create", "rename", "delete", "setMain", "upload", "structural", "details", "revert"}

\* Whether the server takes the command.
Accepts(c) ==
    /\ How[c.for].versioned => c.version = server[c.paper].version
    /\ c.for \in {"rename", "delete", "setMain"} => c.file \in FilesOn(c.paper)
    /\ c.for \in Changing => Changeable
    /\ c.for \in {"create", "upload"} => server[c.paper].files # Names
    /\ c.for = "accept" => \E u \in Edits : edits[u].file = c.file /\ edits[u].durable

\* What the server may make of the paper, and the file it answers with
Outcomes(c) ==
    LET s == server[c.paper]
        next == IF c.for \in Changing THEN [s EXCEPT !.version = s.version + 1] ELSE s
    IN  CASE c.for \in {"create", "upload"} ->
               {<<[next EXCEPT !.files = s.files \cup {n}], [paper |-> c.paper, name |-> n]>> :
                  n \in Names \ s.files}
          [] c.for = "delete" -> {<<[next EXCEPT !.files = s.files \ {c.file.name}], None>>}
          [] c.for = "revert" -> {<<[next EXCEPT !.epoch = s.epoch + 1], None>>}
          [] OTHER -> {<<next, c.file>>}

\* The sessions that will hear of a restoration.
Stale(p) == [i \in Slots |-> IF sessions[i].alive /\ sessions[i].file.paper = p
                             THEN [sessions[i] EXCEPT !.stale = TRUE] ELSE sessions[i]]

\* The command takes effect; the answer is still on its way.
Execute(c) ==
    /\ c.step = "command" /\ Accepts(c)
    /\ \E o \in Outcomes(c) :
         /\ server' = [server EXCEPT ![c.paper] = o[1]]
         /\ Answered(c, {[c EXCEPT !.step = "done", !.version = o[1].version, !.file = o[2]]})
    /\ sessions' = IF c.for = "revert" THEN Stale(c.paper) ELSE sessions
    /\ UNCHANGED <<page, edits>>

Refuse(c) ==
    /\ c.step = "command" /\ ~Accepts(c)
    /\ Answered(c, {})
    /\ UNCHANGED <<page, sessions, edits, server>>

\* What each handler does when its command took effect: reloadPaperAndFile, openPaper
\* or a refresh.  Set Main reopens whatever file is open by now.
Succeeded(c) ==
    LET file == IF c.for = "setMain" THEN page.file ELSE c.file
    IN  /\ c.step = "done"
        /\ CASE How[c.for].after = "paper" ->
                  Opening(page.paper, IF c.for = "details" THEN c.for ELSE "open", calls \ {c})
             [] How[c.for].after = "file" /\ file # None ->
                  /\ CloseEditor /\ page' = [ClosedPage(page) EXCEPT !.version = c.version]
                  /\ calls' = Rejected(calls \ {c}, page.collab)
                                \cup {[Ask("reloadDetail", "nav") EXCEPT !.file = file]}
             [] OTHER ->
                  /\ Answered(c, {Ask(i, c.for) : i \in Panels \cap {How[c.for].after}})
                  /\ UNCHANGED <<page, sessions, edits>>
        /\ UNCHANGED <<server>>

\* The rest of reloadPaperAndFile
ReloadedDetail(c) ==
    /\ c.step = "reloadDetail"
    /\ page' = [page EXCEPT !.detail = c.paper, !.version = server[c.paper].version]
    /\ Answered(c, {[c EXCEPT !.step = "reloadFiles", !.paper = page.paper]})
    /\ UNCHANGED <<sessions, edits, server>>

ReloadedFiles(c) ==
    /\ c.step = "reloadFiles"
    /\ page' = [page EXCEPT !.files = FilesOn(c.paper)]
    /\ Answered(c, {[c EXCEPT !.step = "file", !.paper = page.paper] : f \in {c.file} \cap FilesOn(c.paper)})
    /\ UNCHANGED <<sessions, edits, server>>

\* writerAcceptSuggestion: the file of the suggestion, its session, the edit, its
\* flush, and only then the record.
Accept(f) ==
    /\ Idle /\ "accept" \in Kinds
    /\ f \in page.files
    /\ LET c == [Ask("file", "accept") EXCEPT !.file = f, !.press = [Pressed EXCEPT !.file = f, !.typed = {}]]
       IN  IF f = page.file
           THEN calls' = calls \cup {[c EXCEPT !.step = "ready"]} /\ UNCHANGED <<page, sessions, edits>>
           ELSE /\ CloseEditor /\ page' = ClosedPage(page)
                /\ calls' = Rejected(calls, page.collab) \cup {c}
    /\ UNCHANGED <<server>>

GotReady(c) ==
    /\ c.step = "ready"
    /\ page.collab # 0 => sessions[page.collab].ready
    /\ IF page.collab = 0 THEN Answered(c, {}) /\ UNCHANGED edits
       ELSE \E u \in {u \in Edits : edits[u] = Untyped} :
              /\ edits' = [edits EXCEPT ![u] = [Untyped EXCEPT !.file = page.file, !.slot = page.collab]]
              /\ Answered(c, {[c EXCEPT !.step = "flush", !.slot = page.collab, !.press.typed = {u}]})
    /\ UNCHANGED <<page, sessions, server>>

-----------------------------------------------------------------------------
(* Typing, timers and events *)

Type(u) ==
    /\ edits[u] = Untyped /\ page.view # 0 /\ sessions[page.view].alive
    /\ edits' = [edits EXCEPT ![u] = [Untyped EXCEPT !.file = sessions[page.view].file, !.slot = page.view]]
    /\ UNCHANGED <<page, sessions, calls, server>>

\* DURABLE_ACK and REMOTE_DURABLE: the text is durable,
\* and a build is scheduled anew, two seconds from now.
Durable(i) ==
    /\ sessions[i].alive /\ sessions[i].ready
    /\ edits' = Flushed(edits, i)
    /\ page' = [page EXCEPT !.timer = sessions[i].file.paper]
    /\ UNCHANGED <<sessions, calls, server>>

AutoBuild ==
    /\ page.timer # None
    /\ page' = [page EXCEPT !.timer = None]
    /\ calls' = calls \cup {Ask("build", "auto")}
    /\ UNCHANGED <<sessions, edits, server>>

\* setInterval, every 1.5 s
Poll ==
    /\ page.paper # None
    /\ calls' = calls \cup {Ask(i, "poll") : i \in {"status"} \cup (Panels \cap {"reviews"})}
    /\ UNCHANGED <<page, sessions, edits, server>>

\* PAPER_EPOCH_CHANGED: the session ends, a timer opens the paper again.
EpochChanged(i) ==
    /\ sessions[i].alive /\ sessions[i].stale
    /\ Idle \/ "notice" \in Faults
    /\ sessions' = Ended(sessions, i) /\ edits' = Kept(edits, i)
    /\ page' = [page EXCEPT !.conflict = TRUE]
    /\ calls' = Rejected(calls, i) \cup {Ask("reload", "open")}
    /\ UNCHANGED <<server>>

Reload(c) ==
    /\ c.step = "reload"
    /\ Opening(page.paper, "open", calls \ {c})
    /\ UNCHANGED <<server>>

\* RELOAD_REQUIRED and POLICY_CHANGED: the session ends.
Revoked(i) ==
    /\ "others" \in Faults
    /\ sessions[i].alive
    /\ sessions' = Ended(sessions, i) /\ edits' = Kept(edits, i)
    /\ page' = [page EXCEPT !.conflict = TRUE]
    /\ calls' = Rejected(calls, i)
    /\ UNCHANGED server

-----------------------------------------------------------------------------
(* The server, and the other Writers: what they do to a paper that is not open  *)
(* shows when it is opened, and is left out.                                  *)

Built(p) ==
    /\ \A r \in Papers : server[r].built < MaxBuilds
    /\ server' = [server EXCEPT ![p].built = server[p].built + 1]
    /\ UNCHANGED <<page, sessions, calls, edits>>

Restore(p) ==
    /\ "restore" \in Faults /\ p = page.paper /\ Changeable
    /\ server' = [server EXCEPT ![p].epoch = server[p].epoch + 1]
    /\ sessions' = Stale(p)
    /\ UNCHANGED <<page, calls, edits>>

Restructure(p) ==
    /\ "others" \in Faults /\ p = page.paper /\ Changeable
    /\ server' = [server EXCEPT ![p].version = server[p].version + 1]
    /\ UNCHANGED <<page, sessions, calls, edits>>

-----------------------------------------------------------------------------
Init ==
    /\ page = [paper |-> None, detail |-> None, version |-> 0, files |-> {}, file |-> None,
               conflict |-> FALSE, collab |-> 0, view |-> 0, panel |-> [s \in Panels |-> None],
               build |-> None, shown |-> FALSE, timer |-> None]
    /\ sessions = [i \in Slots |-> Gone]
    /\ calls = {}
    /\ edits = [u \in Edits |-> Untyped]
    /\ server \in [Papers -> {[version |-> 1, epoch |-> 1, files |-> F, built |-> 0]  :
                                F \in SUBSET Names \ {{}}}]

Answer(c) ==
    \/ GotDetail(c) \/ GotFiles(c) \/ GotFile(c) \/ GotPanel(c) \/ GotStatus(c) \/ GotBuild(c)
    \/ GotFlush(c) \/ FlushFails(c) \/ Rechecked(c) \/ Execute(c) \/ Refuse(c) \/ Succeeded(c)
    \/ ReloadedDetail(c) \/ ReloadedFiles(c) \/ GotReady(c) \/ Reload(c)

User ==
    \/ \E p \in Papers : OpenPaper(p)
    \/ \E f \in Files : OpenFile(f) \/ Accept(f)
    \/ \E k \in Kinds : Click(k)
    \/ \E u \in Edits : Type(u)

Next ==
    \/ User \/ \E c \in calls : Answer(c)
    \/ \E i \in Slots : Mount(i) \/ Durable(i) \/ EpochChanged(i) \/ Revoked(i)
    \/ AutoBuild \/ Poll
    \/ \E p \in Papers : Built(p) \/ Restore(p) \/ Restructure(p)

Spec == Init /\ [][Next]_vars

\* The interval fires and the server answers; the Writer need not do anything.
FairSpec ==
    /\ Spec
    /\ WF_vars(Poll) /\ WF_vars(\E c \in calls : c.for = "poll" /\ Answer(c))
    /\ \A p \in Papers : WF_vars(\E c \in calls : c.paper = p /\ c.step = "status" /\ GotStatus(c))
=============================================================================
