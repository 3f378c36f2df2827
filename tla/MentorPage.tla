----------------------------- MODULE MentorPage -----------------------------
(***************************************************************************)
(* The Mentor's page: a read-only session on one file of a Team Paper, the   *)
(* PDF beside it, a selection in either, and the annotation made from it      *)
(* (services/server/frontend/review.js).                                     *)
(*                                                                         *)
(* As in WriterPage, a handler runs to its next await and a call under way is *)
(* a record of what its continuation still holds.  Unlike the Writer's        *)
(* sessions these never reconnect, and an epoch or policy change opens the     *)
(* paper again at once.  The server is external.                              *)
(***************************************************************************)
EXTENDS Naturals, FiniteSets

CONSTANTS
    Papers, Files, None,
    PaperOf,        \* the paper of each file
    Faults,         \* of AllFaults
    MaxSessions,    \* bound: sessions at a time
    MaxBehind,      \* bound: calls that the Mentor does not wait for, at a time
    MaxBuilds       \* bound: builds finished per paper

VARIABLES
    page,       \* the model object and the popover
    sessions,   \* the ReadOnlySessions that may still be alive
    calls,      \* the requests and promises awaited
    server      \* what the server has of each paper

vars == <<page, sessions, calls, server>>

Slots == 1 .. MaxSessions
Builds == [paper : Papers, id : 1 .. MaxBuilds]
AllFaults == {"overlap", "notice", "drop"}

\* What is selected: a range of the source file, in the text the positions were
\* taken from, or a region of the PDF, or both; paper: where the Mentor saw it.
Anchor == [paper : Papers, file : {None} \cup Files, text : {None} \cup Files, pdf : BOOLEAN]

ASSUME MentorAssumption ==
    /\ PaperOf \in [Files -> Papers] /\ \A p \in Papers : \E f \in Files : PaperOf[f] = p
    /\ None \notin Papers \cup Files \cup Anchor /\ Faults \subseteq AllFaults
    /\ MaxSessions \in Nat \ {0} /\ MaxBehind \in Nat /\ MaxBuilds \in Nat

Steps == {"both", "file", "ready", "opened", "reviews", "status", "pdf",
          "forward", "inverse", "create"}
Call == [step : Steps, for : {"open", "nav", "anchor", "focus", "poll"}, paper : {None} \cup Papers,
         file : {None} \cup Files, slot : 0 .. MaxSessions, id : 0 .. MaxBuilds,
         anchor : {None} \cup Anchor]

Page == [paper : {None} \cup Papers, files : {None} \cup Papers, file : {None} \cup Files,
         reviews : {None} \cup Papers, open : BOOLEAN, collab : 0 .. MaxSessions,
         view : {None} \cup Files, anchor : {None} \cup Anchor,
         pdf : {None} \cup Builds, pdfId : {None} \cup Builds]
Session == [alive : BOOLEAN, paper : {None} \cup Papers, file : {None} \cup Files, ready : BOOLEAN]

TypeOK ==
    /\ page \in Page /\ sessions \in [Slots -> Session] /\ calls \subseteq Call
    /\ server \in [Papers -> [open : BOOLEAN, built : 0 .. MaxBuilds]]

-----------------------------------------------------------------------------
Gone == [alive |-> FALSE, paper |-> None, file |-> None, ready |-> FALSE]
Ask(step, for) == [step |-> step, for |-> for, paper |-> page.paper, file |-> None, slot |-> 0,
                   id |-> 0, anchor |-> None]
Answered(c, more) == calls' = (calls \ {c}) \cup more

\* The Mentor waits for what was asked, but not for what goes on behind.
Idle == "overlap" \in Faults \/ \A c \in calls : c.for = "poll"

\* The bound on what goes on behind
Quiet == Cardinality({c \in calls : c.for = "poll"}) < MaxBehind

\* disposeSource: whoever waits for the session waits for ever.
Disposed(S) == [i \in Slots |-> IF i = page.collab THEN Gone ELSE S[i]]
Waiting(C) == {c \in C : c.step # "ready" \/ c.slot # page.collab}
Sourceless(m) == [m EXCEPT !.collab = 0, !.view = None]

\* Wrong on purpose: what was selected in the last paper stays selected.
OpeningKeeping(p, rest) ==
    /\ sessions' = Disposed(sessions)
    /\ page' = [Sourceless(page) EXCEPT !.paper = p, !.file = None, !.pdf = None]
    /\ calls' = Waiting(rest) \cup {[Ask("both", "open") EXCEPT !.paper = p]}

\* What openPaper does before its first await; the identity of the last PDF stays.
Opening(p, rest) ==
    /\ sessions' = Disposed(sessions)
    /\ page' = [Sourceless(page) EXCEPT !.paper = p, !.file = None, !.anchor = None, !.pdf = None]
    /\ calls' = Waiting(rest) \cup {[Ask("both", "open") EXCEPT !.paper = p]}

OpenPaper(p) ==
    /\ Idle
    /\ Opening(p, calls)
    /\ UNCHANGED server

\* Wrong on purpose: a file is opened beside the one there is.
OpeningFileBeside(f, for, rest) ==
    /\ calls' = rest \cup {[Ask("file", for) EXCEPT !.file = f]}
    /\ UNCHANGED <<page, sessions>>

\* openFile, up to its first await
OpeningFile(f, for, rest) ==
    /\ sessions' = Disposed(sessions)
    /\ page' = Sourceless(page)
    /\ calls' = Waiting(rest) \cup {[Ask("file", for) EXCEPT !.file = f]}

OpenFile(f) ==
    /\ Idle /\ PaperOf[f] = page.files
    /\ OpeningFile(f, "nav", calls)
    /\ UNCHANGED server

\* The detail and the files of openPaper: the main file is opened.
GotBoth(c) ==
    /\ c.step = "both"
    /\ \E f \in Files :
         /\ PaperOf[f] = c.paper
         /\ sessions' = Disposed(sessions)
         /\ page' = [Sourceless(page) EXCEPT !.files = c.paper]
         /\ calls' = Waiting(calls \ {c}) \cup {[Ask("file", "open") EXCEPT !.file = f]}
    /\ UNCHANGED server

\* A file of another paper is not found; the session is of the paper of the detail.
GotFile(c) ==
    /\ c.step = "file"
    /\ IF PaperOf[c.file] # c.paper THEN Answered(c, {}) /\ UNCHANGED <<page, sessions>>
       ELSE \E i \in Slots :
              /\ sessions[i] = Gone /\ \A j \in 1 .. i - 1 : sessions[j] # Gone
              /\ sessions' = [sessions EXCEPT ![i] =
                                [Gone EXCEPT !.alive = TRUE, !.paper = page.files, !.file = c.file]]
              /\ page' = [page EXCEPT !.file = c.file, !.collab = i]
              /\ Answered(c, {[c EXCEPT !.step = "ready", !.slot = i]})
    /\ UNCHANGED server

\* initialize and mountReadOnlyEditor, once the server has accepted the join
Mount(i) ==
    /\ sessions[i].alive /\ ~sessions[i].ready /\ sessions[i].paper = PaperOf[sessions[i].file]
    /\ sessions' = [sessions EXCEPT ![i].ready = TRUE]
    /\ page' = [page EXCEPT !.view = sessions[i].file]
    /\ calls' = {IF c.step = "ready" /\ c.slot = i THEN [c EXCEPT !.step = "opened"] ELSE c : c \in calls}
    /\ UNCHANGED server

\* 'close': the session is not started again.  One that is ready goes on showing its
\* text and only hears of nothing more, which is a server that tells it nothing.
Dropped(i) ==
    /\ "drop" \in Faults /\ sessions[i].alive /\ ~sessions[i].ready
    /\ sessions' = [sessions EXCEPT ![i].alive = FALSE]
    /\ UNCHANGED <<page, calls, server>>

\* PAPER_EPOCH_CHANGED and POLICY_CHANGED, after a restoration or another policy for
\* a file at any time, open the paper again.
EpochChanged(i) ==
    /\ sessions[i].alive
    /\ "notice" \in Faults \/ \A c \in calls : c.for \notin {"anchor", "focus"}
    /\ Opening(page.paper, calls)
    /\ UNCHANGED server

-----------------------------------------------------------------------------
(* Panels and the PDF *)

\* Wrong on purpose: only the build is refreshed.
OpenedForBuild(c) ==
    /\ c.step = "opened" /\ c.for \in {"open", "nav"}
    /\ Answered(c, IF c.for = "nav" THEN {} ELSE {Ask("status", "poll")})
    /\ UNCHANGED <<page, sessions, server>>

\* What follows once the file is there: openPaper refreshes threads, rounds and build.
Opened(c) ==
    /\ c.step = "opened" /\ c.for \in {"open", "nav"}
    /\ Answered(c, IF c.for = "nav" THEN {}
                   ELSE {Ask("reviews", "open"), Ask("status", "poll")})
    /\ UNCHANGED <<page, sessions, server>>

\* hideComposer, which the end of a review calls
Hidden(m) == [m EXCEPT !.anchor = None]

\* refreshThreads and refreshRounds, which are always asked for together
GotReviews(c) ==
    /\ c.step = "reviews"
    /\ LET m == [page EXCEPT !.reviews = c.paper, !.open = server[c.paper].open]
       IN  page' = IF m.open THEN m ELSE Hidden(m)
    /\ Answered(c, {}) /\ UNCHANGED <<sessions, server>>

\* Wrong on purpose: a paper without a build is not told apart.
GotStatusOfAny(c) ==
    /\ c.step = "status"
    /\ LET b == [paper |-> c.paper, id |-> server[c.paper].built]
       IN  IF b = page.pdfId THEN Answered(c, {}) /\ UNCHANGED page
           ELSE /\ page' = [page EXCEPT !.pdf = None, !.pdfId = b]
                /\ Answered(c, {[c EXCEPT !.step = "pdf", !.id = b.id]})
    /\ UNCHANGED <<sessions, server>>

\* refreshBuild: a build that is not the last one loaded is loaded.
GotStatus(c) ==
    /\ c.step = "status"
    /\ LET b == [paper |-> c.paper, id |-> server[c.paper].built]
       IN  IF b.id = 0 \/ b = page.pdfId THEN Answered(c, {}) /\ UNCHANGED page
           ELSE /\ page' = [page EXCEPT !.pdf = None, !.pdfId = b]
                /\ Answered(c, {[c EXCEPT !.step = "pdf", !.id = b.id]})
    /\ UNCHANGED <<sessions, server>>

\* loadPdf, second half: the document is shown whatever is open by now.
GotPdf(c) ==
    /\ c.step = "pdf"
    /\ page' = [page EXCEPT !.pdf = [paper |-> c.paper, id |-> c.id]]
    /\ Answered(c, {}) /\ UNCHANGED <<sessions, server>>

\* setInterval, every 2 s; and the button that builds
Poll ==
    /\ page.paper # None /\ Quiet
    /\ calls' = calls \cup {Ask("status", "poll")}
    /\ UNCHANGED <<page, sessions, server>>

-----------------------------------------------------------------------------
(* Selections *)

\* The source anchor of a range in the editor: positions are taken in the text of the
\* session, the quotation from the editor.
Ranged == [paper |-> page.paper, file |-> page.file, text |-> sessions[page.collab].file, pdf |-> FALSE]
Selectable == page.collab # 0 /\ page.view # None /\ sessions[page.collab].ready

\* sourceSelected
Select ==
    /\ Selectable /\ page.open /\ Quiet
    /\ page' = [page EXCEPT !.anchor = Ranged]
    /\ calls' = calls \cup {[Ask("forward", "poll") EXCEPT !.anchor = Ranged]}
    /\ UNCHANGED <<sessions, server>>

\* The projection joins the selection it was asked for, if that is still there.
GotForward(c) ==
    /\ c.step = "forward"
    /\ page' = IF page.anchor = c.anchor /\ page.pdf # None
               THEN [page EXCEPT !.anchor.pdf = TRUE] ELSE page
    /\ Answered(c, {}) /\ UNCHANGED <<sessions, server>>

\* pointerup on the PDF
Drag ==
    /\ Idle /\ page.pdf # None /\ page.open
    /\ calls' = calls \cup {Ask("inverse", "anchor")}
    /\ UNCHANGED <<page, sessions, server>>

Region(paper) == [paper |-> paper, file |-> None, text |-> None, pdf |-> TRUE]

\* Wrong on purpose: the mapped line is anchored in the file that is open.
GotInverseAsItIs(c) ==
    /\ c.step = "inverse"
    /\ \/ /\ page' = [page EXCEPT !.anchor = Region(c.paper)]
          /\ Answered(c, {})
       \/ \E f \in Files :
            /\ PaperOf[f] = c.paper /\ PaperOf[f] = page.files
            /\ Answered(c, {[c EXCEPT !.anchor = Region(c.paper), !.file = f, !.step = "opened"]})
            /\ UNCHANGED page
    /\ UNCHANGED <<sessions, server>>

\* SyncTeX finds no line, or a line of a file; anchorMappedLine opens it if need be.
GotInverse(c) ==
    /\ c.step = "inverse"
    /\ \/ /\ page' = [page EXCEPT !.anchor = Region(c.paper)]
          /\ Answered(c, {}) /\ UNCHANGED sessions
       \/ \E f \in Files :
            /\ PaperOf[f] = c.paper /\ PaperOf[f] = page.files
            /\ LET seen == [c EXCEPT !.anchor = Region(c.paper), !.file = f]
               IN  IF f = page.file
                   THEN Answered(c, {[seen EXCEPT !.step = "opened"]}) /\ UNCHANGED <<page, sessions>>
                   ELSE /\ sessions' = Disposed(sessions) /\ page' = Sourceless(page)
                        /\ calls' = Waiting(calls \ {c}) \cup {[seen EXCEPT !.step = "file", !.paper = page.paper]}
    /\ UNCHANGED server

\* The mapped line becomes the source anchor; without an editor the handler throws.
Mapped(c) ==
    /\ c.step = "opened" /\ c.for = "anchor"
    /\ page' = IF Selectable
               THEN [page EXCEPT !.anchor = [c.anchor EXCEPT !.file = c.file,
                                                             !.text = sessions[page.collab].file]]
               ELSE page
    /\ Answered(c, {}) /\ UNCHANGED <<sessions, server>>

\* focusThread: the file of the thread is opened, and its projection becomes the
\* pending selection.
Focus(f) ==
    /\ Idle /\ page.reviews = page.paper /\ PaperOf[f] = page.files /\ PaperOf[f] = page.paper
    /\ IF f = page.file
       THEN /\ calls' = calls \cup {[Ask("opened", "focus") EXCEPT !.file = f]}
            /\ UNCHANGED <<page, sessions>>
       ELSE OpeningFile(f, "focus", calls)
    /\ UNCHANGED server

Focused(c) ==
    /\ c.step = "opened" /\ c.for = "focus"
    /\ page' = IF Selectable /\ page.pdf # None THEN [page EXCEPT !.anchor = Region(page.paper)] ELSE page
    /\ Answered(c, {}) /\ UNCHANGED <<sessions, server>>

-----------------------------------------------------------------------------
(* Annotations *)

\* createAnnotation, from the popover that is there while something is selected: what
\* is selected by now is sent for the paper open by now.
Create ==
    /\ page.open /\ page.anchor # None
    /\ \A c \in calls : c.step # "create"
    /\ calls' = calls \cup {[Ask("create", "nav") EXCEPT !.anchor = page.anchor]}
    /\ UNCHANGED <<page, sessions, server>>

\* validate_thread and create_review_thread: during a review, one anchor, of a file
\* of the paper or of its PDF.
Valid(a) == (a.file = None) = a.pdf
Taken(c) ==
    /\ server[c.paper].open
    /\ c.anchor # None
    /\ Valid(c.anchor)
    /\ c.anchor.file # None => PaperOf[c.anchor.file] = c.paper

\* The page goes on at once: what the Mentor might do before the answer is left out.
Take(c) ==
    /\ c.step = "create" /\ Taken(c)
    /\ page' = Hidden(page)
    /\ Answered(c, {Ask("reviews", "nav")}) /\ UNCHANGED <<sessions, server>>

Refuse(c) ==
    /\ c.step = "create" /\ ~Taken(c)
    /\ Answered(c, {})
    /\ UNCHANGED <<page, sessions, server>>

\* reply and transition: the button names a thread shown, the request the paper open.
Transition ==
    /\ Idle /\ page.paper # None /\ page.reviews = page.paper
    /\ calls' = calls \cup {Ask("reviews", "nav")}
    /\ UNCHANGED <<page, sessions, server>>

-----------------------------------------------------------------------------
(* The server, and the Team: what they do to a paper that is not open shows when  *)
(* it is opened, and is left out.                                             *)

\* The Leader sends the paper for review, which needs a PDF, or ends it.
Gate(p) ==
    /\ p = page.paper /\ (server[p].open \/ server[p].built > 0)
    /\ server' = [server EXCEPT ![p].open = ~server[p].open]
    /\ UNCHANGED <<page, sessions, calls>>

Built(p) ==
    /\ p = page.paper /\ server[p].built < MaxBuilds
    /\ server' = [server EXCEPT ![p].built = server[p].built + 1]
    /\ UNCHANGED <<page, sessions, calls>>

-----------------------------------------------------------------------------
Init ==
    /\ page = [paper |-> None, files |-> None, file |-> None, reviews |-> None,
               open |-> FALSE, collab |-> 0, view |-> None, anchor |-> None,
               pdf |-> None, pdfId |-> None]
    /\ sessions = [i \in Slots |-> Gone]
    /\ calls = {}
    /\ server = [p \in Papers |-> [open |-> FALSE, built |-> 0]]

Answer(c) ==
    \/ GotBoth(c) \/ GotFile(c) \/ Opened(c) \/ GotReviews(c) \/ GotStatus(c)
    \/ GotPdf(c) \/ GotForward(c) \/ GotInverse(c) \/ Mapped(c) \/ Focused(c)
    \/ Take(c) \/ Refuse(c)

Mentor ==
    \/ \E p \in Papers : OpenPaper(p)
    \/ \E f \in Files : OpenFile(f) \/ Focus(f)
    \/ Select \/ Drag  \/ Create \/ Transition

Next ==
    \/ Mentor \/ \E c \in calls : Answer(c)
    \/ \E i \in Slots : Mount(i) \/ Dropped(i) \/ EpochChanged(i)
    \/ Poll
    \/ \E p \in Papers : Gate(p) \/ Built(p)

Spec == Init /\ [][Next]_vars
=============================================================================
