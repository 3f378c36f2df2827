------------------------ MODULE WriterPageProperties ------------------------
(***************************************************************************)
(* What a Writer who waits for the page may rely on while its polls, timers, *)
(* sessions and the other Writers go on.                                     *)
(***************************************************************************)
EXTENDS WriterPage

\* One editor, of the file the page names, and no forgotten session behind it:
\* what is typed goes where commands, builds and the label look for it.
OneEditor ==
    /\ \A i \in Slots : sessions[i].alive => i = page.collab
    /\ page.view # 0 => page.view = page.collab
    /\ page.view # 0 /\ sessions[page.view].alive => sessions[page.view].file = page.file

\* A build scheduled while a paper was idle is requested for that paper, although
\* the request names whatever paper is open when the timer fires.
BuildOfItsPaper == page.timer # None => page.timer = page.paper

\* "The Writer flushes the current room before Rename, Delete, or Set Main",
\* S3_REALTIME_COLLABORATION.md:43: what took effect met the file that was open
\* when the Writer pressed the button, and had all that was typed by then; a
\* suggestion is recorded as accepted when its edit is stored.
AsPressed ==
    [][\A c \in calls : Execute(c) =>
            /\ c.paper = c.press.paper
            /\ c.for \in {"rename", "delete", "setMain", "accept"} => c.file = c.press.file
            /\ How[c.for].flush # "no" => \A u \in c.press.typed : edits[u].durable]_vars

\* A page that has all its answers shows one paper: the detail that says whether it
\* may be edited, the files and the review rounds of the open paper.  (Not so the
\* history, which an automatic build of the paper that was left may bring back.)
SettledPage ==
    calls = {} /\ page.paper # None =>
        /\ page.detail = page.paper
        /\ \A f \in page.files : f.paper = page.paper
        /\ "rounds" \in Panels => page.panel["rounds"] = page.paper

\* Answers about the paper that was left may come late; the polls put the frame
\* right, so that a Writer who stays with a paper sees its last PDF in the end.
PdfSettles ==
    \A p \in Papers :
        <>[](page.paper = p)
        => <>[](page.shown => page.build = [paper |-> p, id |-> server[p].built])

\* V2_1_WORKFLOW.md:7, "Save durably flushes the current CRDT state."
SaveStoresAll ==
    [][\A c \in calls : c.for = "save" /\ GotFlush(c) => \A u \in c.press.typed : edits'[u].durable]_vars
=============================================================================
