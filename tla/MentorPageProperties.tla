------------------------ MODULE MentorPageProperties ------------------------
(***************************************************************************)
(* What a Mentor who waits for the page may rely on, and what the documents  *)
(* say that the code does not keep.                                         *)
(***************************************************************************)
EXTENDS MentorPage

Foreground == {c \in calls : c.for # "poll"}

\* One source session, whose text the editor shows: positions are taken in the text
\* that the Mentor reads (openFile, disposeSource, anchorMappedLine).
OneSource ==
    /\ \A i \in Slots : sessions[i].alive => i = page.collab
    /\ page.view # None => page.collab # 0 /\ page.view = sessions[page.collab].file
                           /\ page.view = page.file

\* A source anchor holds positions of the text of the file it names, in the paper it
\* was selected in, although files and papers are opened between the selection, the
\* answers of SyncTeX and the annotation.
AnchorOfItsText ==
    page.anchor # None /\ page.anchor.file # None =>
        /\ page.anchor.text = page.anchor.file
        /\ PaperOf[page.anchor.file] = page.anchor.paper

\* What is recorded, PDF regions included, which the server cannot tell apart, is
\* recorded on the paper in which the Mentor selected it.
RecordedWhereSelected ==
    [][\A c \in calls : Take(c) => c.paper = c.anchor.paper]_vars

\* The threads and the gate of a page that has its answers are of the open paper.
SettledPage ==
    Foreground = {} /\ page.paper # None => page.reviews = page.paper

\* ADR-007-MENTOR-REVIEW.md:13, "Mentors may attach feedback to CRDT-relative source
\* ranges, PDF regions, or both": while a review is open, what the page sends for a
\* selection in the open paper is taken.
AnchoredIsTaken ==
    [][\A c \in calls :
          Refuse(c) /\ c.anchor # None /\ c.anchor.paper = c.paper => ~server[c.paper].open]_vars

\* MENTOR_GUIDE.md:8, "The PDF.js viewer shows the current or last-good PDF": a page
\* that has all its answers, the last one newer than the build, shows it.
PdfIsShown ==
    calls = {} /\ page.pdfId # None /\ page.pdfId.paper = page.paper => page.pdf = page.pdfId
=============================================================================
