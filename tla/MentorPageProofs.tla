-------------------------- MODULE MentorPageProofs --------------------------
(***************************************************************************)
(* Proofs about the Mentor's page, for any papers and files, any number of   *)
(* sessions, polls and builds.  Types hold whatever the Mentor does; the rest  *)
(* is about a Mentor who waits for what was asked, as MentorPageProperties says. *)
(***************************************************************************)
EXTENDS MentorPageProperties, TLAPS

\* No navigation overlaps another one, the notices of the server included.
Waits == Faults \cap {"overlap", "notice"} = {}

-----------------------------------------------------------------------------
(* Types *)

\* What a call holds, by what it awaits
Shaped(c) ==
    /\ c.paper \in Papers
    /\ c.for = "poll" <=> c.step \in {"status", "pdf", "forward"}
    /\ c.for = "anchor" => c.step \in {"inverse", "file", "ready", "opened"}
    /\ c.for = "focus" => c.step \in {"file", "ready", "opened"}
    /\ c.step = "both" => c.for = "open"
    /\ c.step = "inverse" => c.for = "anchor"
    /\ c.step = "create" => c.for = "nav"
    /\ c.step = "reviews" => c.for \in {"open", "nav"}
    /\ c.step \in {"file", "ready"} \/ (c.step = "opened" /\ c.for = "anchor") => c.file \in Files
    /\ c.step = "ready" => c.slot \in Slots
    /\ c.step = "pdf" => c.id # 0
    /\ c.step \in {"forward", "create"} \/ (c.for = "anchor" /\ c.step # "inverse") => c.anchor \in Anchor

ShapedCalls == {c \in Call : Shaped(c)}

\* Before a paper is opened there is nothing to answer, to show or to hear.
Blank ==
    /\ calls = {} /\ page.pdf = None /\ page.files = None /\ ~page.open
    /\ \A i \in Slots : ~sessions[i].alive

Typed ==
    /\ page \in Page /\ sessions \in [Slots -> Session] /\ calls \subseteq ShapedCalls
    /\ server \in [Papers -> [open : BOOLEAN, built : 0 .. MaxBuilds]]
    /\ page.paper = None => Blank

LEMMA TypedImplies == Typed => TypeOK
BY DEF Typed, TypeOK, ShapedCalls

LEMMA InitTyped == Init => Typed
BY MentorAssumption DEF Init, Typed, Page, Session, Gone, Blank, Slots, Builds

\* Writing to one field of the model object keeps its type.
LEMMA PageUpdates ==
    \A m \in Page :
        /\ \A x \in {None} \cup Papers : /\ [m EXCEPT !.paper = x] \in Page /\ [m EXCEPT !.files = x] \in Page
                                      /\ [m EXCEPT !.reviews = x] \in Page
        /\ \A x \in {None} \cup Files : [m EXCEPT !.file = x] \in Page /\ [m EXCEPT !.view = x] \in Page
        /\ \A x \in {None} \cup Builds : [m EXCEPT !.pdf = x] \in Page /\ [m EXCEPT !.pdfId = x] \in Page
        /\ \A x \in {None} \cup Anchor : [m EXCEPT !.anchor = x] \in Page
        /\ \A x \in 0 .. MaxSessions : [m EXCEPT !.collab = x] \in Page
        /\ \A x \in BOOLEAN : [m EXCEPT !.open = x] \in Page
<1>. TAKE m \in Page
<1>1. \A x \in {None} \cup Papers : /\ [m EXCEPT !.paper = x] \in Page /\ [m EXCEPT !.files = x] \in Page
                                  /\ [m EXCEPT !.reviews = x] \in Page
  BY DEF Page
<1>2. \A x \in {None} \cup Files : [m EXCEPT !.file = x] \in Page /\ [m EXCEPT !.view = x] \in Page
  BY DEF Page
<1>3. \A x \in {None} \cup Builds : [m EXCEPT !.pdf = x] \in Page /\ [m EXCEPT !.pdfId = x] \in Page
  BY DEF Page
<1>4. \A x \in {None} \cup Anchor : [m EXCEPT !.anchor = x] \in Page
  BY DEF Page
<1>5. \A x \in 0 .. MaxSessions : [m EXCEPT !.collab = x] \in Page
  BY DEF Page
<1>6. \A x \in BOOLEAN : [m EXCEPT !.open = x] \in Page
  BY DEF Page
<1>. QED  BY <1>1, <1>2, <1>3, <1>4, <1>5, <1>6

\* Without a source, and then with another paper
LEMMA SourcelessPage ==
    \A m \in Page :
        LET s == Sourceless(m)
        IN  /\ s \in Page /\ s.collab = 0 /\ s.view = None /\ s.paper = m.paper /\ s.file = m.file
            /\ s.files = m.files /\ s.anchor = m.anchor /\ s.pdf = m.pdf /\ s.reviews = m.reviews
<1>. SUFFICES ASSUME NEW m \in Page
     PROVE  /\ Sourceless(m) \in Page
            /\ LET s == Sourceless(m)
               IN  /\ s.collab = 0 /\ s.view = None /\ s.paper = m.paper /\ s.file = m.file
                   /\ s.files = m.files /\ s.anchor = m.anchor /\ s.pdf = m.pdf /\ s.reviews = m.reviews
  OBVIOUS
<1>1. Sourceless(m) = [[m EXCEPT !.collab = 0] EXCEPT !.view = None]
  BY DEF Sourceless
<1>2. [m EXCEPT !.collab = 0] \in Page
  BY PageUpdates, MentorAssumption
<1>3. Sourceless(m) \in Page
  BY <1>1, <1>2, PageUpdates
<1>. QED  BY <1>3 DEF Sourceless, Page

LEMMA OpenedPage ==
    \A m \in Page, p \in Papers :
        LET n == [Sourceless(m) EXCEPT !.paper = p, !.file = None, !.anchor = None, !.pdf = None]
        IN  /\ n \in Page /\ n.collab = 0 /\ n.view = None /\ n.paper = p /\ n.file = None
            /\ n.files = m.files /\ n.anchor = None /\ n.pdf = None /\ n.reviews = m.reviews
<1>. SUFFICES ASSUME NEW m \in Page, NEW p \in Papers
     PROVE  LET n == [Sourceless(m) EXCEPT !.paper = p, !.file = None, !.anchor = None, !.pdf = None]
            IN  /\ n \in Page /\ n.collab = 0 /\ n.view = None /\ n.paper = p /\ n.file = None
                /\ n.files = m.files /\ n.anchor = None /\ n.pdf = None /\ n.reviews = m.reviews
  OBVIOUS
<1>. DEFINE s == Sourceless(m)
            a == [s EXCEPT !.paper = p]
            b == [a EXCEPT !.file = None]
            c == [b EXCEPT !.anchor = None]
            n == [c EXCEPT !.pdf = None]
<1>1. s \in Page
  BY SourcelessPage
<1>2. n = [s EXCEPT !.paper = p, !.file = None, !.anchor = None, !.pdf = None]
  BY <1>1 DEF Page
<1>3. n \in Page
  <2>1. a \in Page  BY <1>1, PageUpdates
  <2>2. b \in Page  BY <2>1, PageUpdates
  <2>3. c \in Page  BY <2>2, PageUpdates
  <2>. QED  BY <2>3, PageUpdates
<1>4. /\ n.collab = 0 /\ n.view = None /\ n.paper = p /\ n.file = None
      /\ n.files = m.files /\ n.anchor = None /\ n.pdf = None /\ n.reviews = m.reviews
  BY <1>2, MentorAssumption DEF Sourceless, Page
<1>. QED  BY <1>2, <1>3, <1>4

\* disposeSource ends one session and leaves the others.
LEMMA DisposedTyped ==
    ASSUME Typed
    PROVE  /\ Disposed(sessions) \in [Slots -> Session]
           /\ \A i \in Slots : Disposed(sessions)[i].alive => sessions[i].alive
<1>1. Gone \in Session /\ ~Gone.alive
  BY DEF Gone, Session
<1>. QED  BY <1>1 DEF Disposed, Typed

\* The calls that a handler may send for the paper that is open
LEMMA AskedShaped ==
    ASSUME Typed, page.paper \in Papers
    PROVE  /\ \A p \in Papers : [Ask("both", "open") EXCEPT !.paper = p] \in ShapedCalls
           /\ \A f \in Files, for \in {"open", "nav", "focus"} :
                 [Ask("file", for) EXCEPT !.file = f] \in ShapedCalls
           /\ {Ask("status", "poll"), Ask("reviews", "open"), Ask("reviews", "nav"), Ask("inverse", "anchor")}
                 \subseteq ShapedCalls
           /\ \A f \in Files : [Ask("opened", "focus") EXCEPT !.file = f] \in ShapedCalls
           /\ \A a \in Anchor : [Ask("forward", "poll") EXCEPT !.anchor = a] \in ShapedCalls
                                /\ [Ask("create", "nav") EXCEPT !.anchor = a] \in ShapedCalls
<1>. USE MentorAssumption DEF Ask, ShapedCalls, Shaped, Call, Steps
<1>1. \A p \in Papers : [Ask("both", "open") EXCEPT !.paper = p] \in ShapedCalls
  OBVIOUS
<1>2. \A f \in Files, for \in {"open", "nav", "focus"} : [Ask("file", for) EXCEPT !.file = f] \in ShapedCalls
  OBVIOUS
<1>3. {Ask("status", "poll"), Ask("reviews", "open"), Ask("reviews", "nav"), Ask("inverse", "anchor")}
                 \subseteq ShapedCalls
  OBVIOUS
<1>4. \A f \in Files : [Ask("opened", "focus") EXCEPT !.file = f] \in ShapedCalls
  OBVIOUS
<1>5. \A a \in Anchor : [Ask("forward", "poll") EXCEPT !.anchor = a] \in ShapedCalls
                                /\ [Ask("create", "nav") EXCEPT !.anchor = a] \in ShapedCalls
  OBVIOUS
<1>. QED  BY <1>1, <1>2, <1>3, <1>4, <1>5

\* A paper can be opened at any time, the first one as well.
LEMMA OpeningTyped ==
    ASSUME Typed, NEW p \in Papers, Opening(p, calls), UNCHANGED server
    PROVE  Typed'
<1>1. [Ask("both", "open") EXCEPT !.paper = p] \in ShapedCalls
  BY MentorAssumption DEF Ask, ShapedCalls, Shaped, Call, Steps
<1>2. calls' \subseteq ShapedCalls
  BY <1>1 DEF Opening, Waiting, Typed
<1>3. sessions' \in [Slots -> Session]
  BY DisposedTyped DEF Opening
<1>4. page' \in Page /\ page'.paper = p
  BY OpenedPage DEF Opening, Typed
<1>. QED  BY <1>2, <1>3, <1>4, MentorAssumption DEF Typed, Opening

\* A file is opened only beside a paper.
LEMMA OpeningFileTyped ==
    ASSUME Typed, page.paper \in Papers, NEW f \in Files, NEW for \in {"open", "nav", "focus"},
           OpeningFile(f, for, calls), UNCHANGED server
    PROVE  Typed'
<1>1. [Ask("file", for) EXCEPT !.file = f] \in ShapedCalls
  BY AskedShaped
<1>2. calls' \subseteq ShapedCalls
  BY <1>1 DEF OpeningFile, Waiting, Typed
<1>3. sessions' \in [Slots -> Session] /\ page' \in Page /\ page'.paper = page.paper
  BY DisposedTyped, SourcelessPage DEF OpeningFile, Typed
<1>. QED  BY <1>2, <1>3, MentorAssumption DEF Typed, OpeningFile

\* Writing to a number of a call keeps its type.
LEMMA CallUpdates ==
    \A c \in Call : /\ \A i \in 0 .. MaxSessions : [c EXCEPT !.slot = i] \in Call
                    /\ \A n \in 0 .. MaxBuilds : [c EXCEPT !.id = n] \in Call
<1>1. \A c \in Call : \A i \in 0 .. MaxSessions : [c EXCEPT !.slot = i] \in Call
  BY DEF Call
<1>2. \A c \in Call : \A n \in 0 .. MaxBuilds : [c EXCEPT !.id = n] \in Call
  BY DEF Call
<1>. QED  BY <1>1, <1>2

\* What becomes of a call keeps its shape.
LEMMA CallMoves ==
    ASSUME NEW c \in ShapedCalls
    PROVE  /\ c.step = "file" => \A i \in Slots : [c EXCEPT !.step = "ready", !.slot = i] \in ShapedCalls
           /\ c.step = "ready" => [c EXCEPT !.step = "opened"] \in ShapedCalls
           /\ c.step = "status" => \A n \in 1 .. MaxBuilds : [c EXCEPT !.step = "pdf", !.id = n] \in ShapedCalls
           /\ c.step = "inverse" => \A a \in Anchor, f \in Files :
                  [[c EXCEPT !.anchor = a, !.file = f] EXCEPT !.step = "opened"] \in ShapedCalls
           /\ c.step = "inverse" => \A a \in Anchor, f \in Files, p \in Papers :
                  [[c EXCEPT !.anchor = a, !.file = f] EXCEPT !.step = "file", !.paper = p] \in ShapedCalls
<1>. USE MentorAssumption DEF ShapedCalls, Shaped, Call, Steps, Slots
<1>1. ASSUME c.step = "file", NEW i \in Slots
      PROVE  [c EXCEPT !.step = "ready", !.slot = i] \in ShapedCalls
  <2>1. [c EXCEPT !.step = "ready"] \in Call
    OBVIOUS
  <2>2. [[c EXCEPT !.step = "ready"] EXCEPT !.slot = i] \in Call
    <3>1. i \in 0 .. MaxSessions
      OBVIOUS
    <3>. DEFINE d == [c EXCEPT !.step = "ready"]
    <3>2. d \in Call
      BY <2>1
    <3>3. [d EXCEPT !.slot = i] \in Call
      <4>. HIDE DEF Call, Shaped, ShapedCalls, Steps, d
      <4>. QED  BY <3>1, <3>2, CallUpdates
    <3>. QED  BY <3>3
  <2>3. [c EXCEPT !.step = "ready", !.slot = i] = [[c EXCEPT !.step = "ready"] EXCEPT !.slot = i]
    OBVIOUS
  <2>4. Shaped([c EXCEPT !.step = "ready", !.slot = i])
    BY <1>1
  <2>. HIDE DEF Call, Shaped
  <2>. QED  BY <2>2, <2>3, <2>4
<1>2. c.step = "ready" => [c EXCEPT !.step = "opened"] \in ShapedCalls
  OBVIOUS
<1>3. ASSUME c.step = "status", NEW n \in 1 .. MaxBuilds
      PROVE  [c EXCEPT !.step = "pdf", !.id = n] \in ShapedCalls
  <2>1. [c EXCEPT !.step = "pdf"] \in Call
    OBVIOUS
  <2>2. [[c EXCEPT !.step = "pdf"] EXCEPT !.id = n] \in Call
    <3>1. n \in 0 .. MaxBuilds
      OBVIOUS
    <3>. DEFINE d == [c EXCEPT !.step = "pdf"]
    <3>2. d \in Call
      BY <2>1
    <3>3. [d EXCEPT !.id = n] \in Call
      <4>. HIDE DEF Call, Shaped, ShapedCalls, Steps, d
      <4>. QED  BY <3>1, <3>2, CallUpdates
    <3>. QED  BY <3>3
  <2>3. [c EXCEPT !.step = "pdf", !.id = n] = [[c EXCEPT !.step = "pdf"] EXCEPT !.id = n]
    OBVIOUS
  <2>4. Shaped([c EXCEPT !.step = "pdf", !.id = n])
    BY <1>3
  <2>. HIDE DEF Call, Shaped
  <2>. QED  BY <2>2, <2>3, <2>4
<1>4. ASSUME c.step = "inverse", NEW a \in Anchor, NEW f \in Files
      PROVE  [[c EXCEPT !.anchor = a, !.file = f] EXCEPT !.step = "opened"] \in ShapedCalls
  BY <1>4
<1>5. ASSUME c.step = "inverse", NEW a \in Anchor, NEW f \in Files, NEW p \in Papers
      PROVE  [[c EXCEPT !.anchor = a, !.file = f] EXCEPT !.step = "file", !.paper = p] \in ShapedCalls
  BY <1>5
<1>. QED  BY <1>1, <1>2, <1>3, <1>4, <1>5

\* Whoever has a call, a session or a PDF has a paper.
LEMMA PaperIsOpen ==
    ASSUME Typed, page.paper # None
    PROVE  page.paper \in Papers
BY DEF Typed, Page

LEMMA RegionTyped == \A p \in Papers : Region(p) \in Anchor /\ Region(p).paper = p /\ Region(p).file = None
BY DEF Region, Anchor

\* Source positions are of a session that is there.
LEMMA RangedTyped ==
    ASSUME Typed, page.paper \in Papers, Selectable
    PROVE  Ranged \in Anchor /\ sessions[page.collab] \in Session
<1>1. page.collab \in Slots
  BY MentorAssumption DEF Selectable, Typed, Page, Slots
<1>. QED  BY <1>1 DEF Typed, Page, Session, Ranged, Anchor

\* A step that leaves the paper open keeps the types when its parts do.
LEMMA StaysTyped ==
    ASSUME Typed, page.paper \in Papers,
           page' \in Page, page'.paper = page.paper,
           sessions' \in [Slots -> Session], calls' \subseteq ShapedCalls,
           server' \in [Papers -> [open : BOOLEAN, built : 0 .. MaxBuilds]]
    PROVE  Typed'
BY MentorAssumption DEF Typed

\* The answers, one step per handler
LEMMA AnswersTyped ==
    ASSUME Typed, NEW c \in calls, Answer(c)
    PROVE  Typed'
<1>0. c \in ShapedCalls /\ page \in Page /\ page.paper \in Papers /\ calls \subseteq ShapedCalls
  BY MentorAssumption DEF Typed, Blank, Page
<1>01. c \in Call /\ Shaped(c) /\ c.paper \in Papers
  BY <1>0 DEF ShapedCalls, Shaped
<1>1. CASE GotBoth(c)
  <2>1. PICK f \in Files : /\ sessions' = Disposed(sessions)
                           /\ page' = [Sourceless(page) EXCEPT !.files = c.paper]
                           /\ calls' = Waiting(calls \ {c}) \cup {[Ask("file", "open") EXCEPT !.file = f]}
    BY <1>1 DEF GotBoth
  <2>2. page' \in Page /\ page'.paper = page.paper
    BY <2>1, <1>0, <1>01, SourcelessPage, PageUpdates DEF Page
  <2>3. calls' \subseteq ShapedCalls
    BY <2>1, <1>0, AskedShaped DEF Waiting
  <2>4. server' = server
    BY <1>1 DEF GotBoth
  <2>. QED  BY <1>0, <2>1, <2>2, <2>3, <2>4, DisposedTyped, StaysTyped DEF Typed
<1>2. CASE GotFile(c)
  <2>0. server' = server /\ c.step = "file" /\ c.file \in Files
    BY <1>2, <1>01 DEF GotFile, Shaped
  <2>1. CASE PaperOf[c.file] # c.paper
    BY <1>2, <2>0, <2>1, <1>0, StaysTyped DEF GotFile, Answered, Typed
  <2>2. CASE PaperOf[c.file] = c.paper
    <3>1. PICK i \in Slots :
             /\ sessions' = [sessions EXCEPT ![i] = [Gone EXCEPT !.alive = TRUE, !.paper = page.files, !.file = c.file]]
             /\ page' = [page EXCEPT !.file = c.file, !.collab = i]
             /\ Answered(c, {[c EXCEPT !.step = "ready", !.slot = i]})
      BY <1>2, <2>2 DEF GotFile
    <3>2. [Gone EXCEPT !.alive = TRUE, !.paper = page.files, !.file = c.file] \in Session
      BY <1>0, <2>0 DEF Gone, Session, Page
    <3>3. page' \in Page /\ page'.paper = page.paper
      <4>1. page' = [[page EXCEPT !.file = c.file] EXCEPT !.collab = i]
        BY <3>1, <1>0 DEF Page
      <4>2. [page EXCEPT !.file = c.file] \in Page
        BY <1>0, <2>0, PageUpdates
      <4>3. i \in 0 .. MaxSessions
        BY DEF Slots
      <4>4. page'.paper = page.paper
        BY <3>1, <1>0 DEF Page
      <4>. QED  BY <4>1, <4>2, <4>3, <4>4, PageUpdates
    <3>4. calls' \subseteq ShapedCalls
      BY <3>1, <1>0, <2>0, CallMoves DEF Answered
    <3>. QED  BY <3>1, <3>2, <3>3, <3>4, <2>0, <1>0, StaysTyped DEF Typed
  <2>. QED  BY <2>1, <2>2
<1>3. CASE Opened(c)
  <2>1. calls' \subseteq ShapedCalls
    BY <1>3, <1>0, AskedShaped DEF Opened, Answered
  <2>. QED  BY <1>3, <2>1, <1>0, StaysTyped DEF Opened, Typed
<1>4. CASE GotReviews(c)
  <2>. DEFINE m == [[page EXCEPT !.reviews = c.paper] EXCEPT !.open = server[c.paper].open]
  <2>1. m \in Page /\ m.paper = page.paper
    <3>1. [page EXCEPT !.reviews = c.paper] \in Page
      BY <1>0, <1>01, PageUpdates
    <3>2. server[c.paper].open \in BOOLEAN
      BY <1>01 DEF Typed
    <3>3. m.paper = page.paper
      BY <1>0 DEF Page
    <3>. QED  BY <3>1, <3>2, <3>3, PageUpdates
  <2>2. page' = m \/ page' = [m EXCEPT !.anchor = None]
    <3>1. m = [page EXCEPT !.reviews = c.paper, !.open = server[c.paper].open]
      BY <1>0 DEF Page
    <3>. QED  BY <1>4, <3>1 DEF GotReviews, Hidden
  <2>3. page' \in Page /\ page'.paper = page.paper
    <3>1. [m EXCEPT !.anchor = None] \in Page
      BY <2>1, PageUpdates
    <3>2. [m EXCEPT !.anchor = None].paper = m.paper
      BY <2>1 DEF Page
    <3>. HIDE DEF m
    <3>. QED  BY <2>1, <2>2, <3>1, <3>2
  <2>. QED  BY <1>4, <2>3, <1>0, StaysTyped DEF GotReviews, Answered, Typed
<1>5. CASE GotStatus(c)
  <2>. DEFINE b == [paper |-> c.paper, id |-> server[c.paper].built]
  <2>0. c.step = "status" /\ UNCHANGED <<sessions, server>> /\ server[c.paper].built \in 0 .. MaxBuilds
    BY <1>5, <1>01 DEF GotStatus, Typed
  <2>1. CASE page' = page /\ Answered(c, {})
    BY <2>0, <2>1, <1>0, StaysTyped DEF Answered, Typed
  <2>2. CASE /\ b.id # 0 /\ page' = [page EXCEPT !.pdf = None, !.pdfId = b]
             /\ Answered(c, {[c EXCEPT !.step = "pdf", !.id = b.id]})
    <3>1. b \in Builds /\ b.id \in 1 .. MaxBuilds
      BY <2>0, <2>2, <1>01, MentorAssumption DEF Builds
    <3>2. page' = [[page EXCEPT !.pdf = None] EXCEPT !.pdfId = b]
      BY <2>2, <1>0 DEF Page
    <3>3. [page EXCEPT !.pdf = None] \in Page
      BY <1>0, PageUpdates
    <3>4. page' \in Page
      BY <3>1, <3>2, <3>3, PageUpdates
    <3>5. page'.paper = page.paper
      BY <3>2, <1>0 DEF Page
    <3>6. calls' \subseteq ShapedCalls
      BY <2>0, <2>2, <3>1, <1>0, CallMoves DEF Answered
    <3>. QED  BY <2>0, <3>4, <3>5, <3>6, <1>0, StaysTyped DEF Typed
  <2>. QED  BY <1>5, <2>1, <2>2 DEF GotStatus
<1>6. CASE GotPdf(c)
  <2>1. [paper |-> c.paper, id |-> c.id] \in Builds
    BY <1>6, <1>01, MentorAssumption DEF GotPdf, Shaped, Builds, Call
  <2>2. page' \in Page /\ page'.paper = page.paper
    BY <1>6, <2>1, <1>0, PageUpdates DEF GotPdf, Page
  <2>. QED  BY <1>6, <2>2, <1>0, StaysTyped DEF GotPdf, Answered, Typed
<1>7. CASE GotForward(c)
  <2>1. page' \in Page /\ page'.paper = page.paper
    <3>1. CASE page.anchor = c.anchor /\ page.pdf # None
      <4>1. page.anchor \in Anchor
        BY <1>7, <3>1, <1>01 DEF GotForward, Shaped
      <4>2. [page.anchor EXCEPT !.pdf = TRUE] \in Anchor
        BY <4>1 DEF Anchor
      <4>3. page' = [page EXCEPT !.anchor = [page.anchor EXCEPT !.pdf = TRUE]]
        BY <1>7, <3>1 DEF GotForward
      <4>. QED  BY <4>2, <4>3, <1>0, PageUpdates DEF Page
    <3>2. CASE ~(page.anchor = c.anchor /\ page.pdf # None)
      BY <1>7, <3>2, <1>0 DEF GotForward
    <3>. QED  BY <3>1, <3>2
  <2>. QED  BY <1>7, <2>1, <1>0, StaysTyped DEF GotForward, Answered, Typed
<1>8. CASE GotInverse(c)
  <2>0. c.step = "inverse" /\ server' = server /\ Region(c.paper) \in Anchor
    BY <1>8, <1>01, RegionTyped DEF GotInverse
  <2>1. CASE /\ page' = [page EXCEPT !.anchor = Region(c.paper)]
             /\ Answered(c, {}) /\ UNCHANGED sessions
    <3>1. page' \in Page /\ page'.paper = page.paper
      BY <2>0, <2>1, <1>0, PageUpdates DEF Page
    <3>. QED  BY <3>1, <2>0, <2>1, <1>0, StaysTyped DEF Answered, Typed
  <2>2. ASSUME NEW f \in Files,
               Answered(c, {[[c EXCEPT !.anchor = Region(c.paper), !.file = f] EXCEPT !.step = "opened"]}),
               UNCHANGED <<page, sessions>>
        PROVE  Typed'
    <3>0. [[c EXCEPT !.anchor = Region(c.paper), !.file = f] EXCEPT !.step = "opened"] \in ShapedCalls
      BY <2>0, <1>0, CallMoves
    <3>1. calls' \subseteq ShapedCalls
      BY <2>2, <3>0, <1>0 DEF Answered
    <3>. QED  BY <2>0, <2>2, <3>1, <1>0, StaysTyped DEF Typed
  <2>3. ASSUME NEW f \in Files,
               sessions' = Disposed(sessions), page' = Sourceless(page),
               calls' = Waiting(calls \ {c}) \cup
                   {[[c EXCEPT !.anchor = Region(c.paper), !.file = f] EXCEPT !.step = "file", !.paper = page.paper]}
        PROVE  Typed'
    <3>0. [[c EXCEPT !.anchor = Region(c.paper), !.file = f] EXCEPT !.step = "file", !.paper = page.paper]
              \in ShapedCalls
      BY <2>0, <1>0, CallMoves
    <3>1. calls' \subseteq ShapedCalls
      BY <2>3, <3>0, <1>0 DEF Waiting
    <3>2. page' \in Page /\ page'.paper = page.paper
      BY <2>3, <1>0, SourcelessPage
    <3>. QED  BY <2>0, <2>3, <3>1, <3>2, <1>0, DisposedTyped, StaysTyped DEF Typed
  <2>. QED  BY <1>8, <2>1, <2>2, <2>3 DEF GotInverse
<1>9. CASE Mapped(c)
  <2>1. page' \in Page /\ page'.paper = page.paper
    <3>1. CASE Selectable
      <4>1. sessions[page.collab].file \in {None} \cup Files
        BY <3>1, <1>0, RangedTyped DEF Session
      <4>2. c.anchor \in Anchor /\ c.file \in Files
        BY <1>9, <1>01 DEF Mapped, Shaped
      <4>3. [c.anchor EXCEPT !.file = c.file, !.text = sessions[page.collab].file] \in Anchor
        BY <4>1, <4>2 DEF Anchor
      <4>. QED  BY <1>9, <3>1, <4>3, <1>0, PageUpdates DEF Mapped, Page
    <3>2. CASE ~Selectable
      BY <1>9, <3>2, <1>0 DEF Mapped
    <3>. QED  BY <3>1, <3>2
  <2>. QED  BY <1>9, <2>1, <1>0, StaysTyped DEF Mapped, Answered, Typed
<1>10. CASE Focused(c)
  <2>1. page' = page \/ page' = [page EXCEPT !.anchor = Region(page.paper)]
    BY <1>10 DEF Focused
  <2>2. page' \in Page /\ page'.paper = page.paper
    BY <2>1, <1>0, RegionTyped, PageUpdates DEF Page
  <2>. QED  BY <1>10, <2>2, <1>0, StaysTyped DEF Focused, Answered, Typed
<1>11. CASE Take(c)
  <2>1. page' \in Page /\ page'.paper = page.paper
    BY <1>11, <1>0, PageUpdates DEF Take, Hidden, Page
  <2>2. calls' \subseteq ShapedCalls
    BY <1>11, <1>0, AskedShaped DEF Take, Answered
  <2>. QED  BY <1>11, <2>1, <2>2, <1>0, StaysTyped DEF Take, Typed
<1>12. CASE Refuse(c)
  BY <1>12, <1>0, StaysTyped DEF Refuse, Answered, Typed
<1>. QED  BY <1>1, <1>2, <1>3, <1>4, <1>5, <1>6, <1>7, <1>8, <1>9, <1>10, <1>11, <1>12 DEF Answer

LEMMA NextTyped ==
    ASSUME Typed, [Next]_vars
    PROVE  Typed'
<1>. USE MentorAssumption
<1>0. page \in Page /\ calls \subseteq ShapedCalls /\ sessions \in [Slots -> Session]
  BY DEF Typed
<1>1. ASSUME NEW c \in calls, Answer(c)
      PROVE  Typed'
  BY <1>1, AnswersTyped
<1>2. ASSUME NEW p \in Papers, OpenPaper(p)
      PROVE  Typed'
  BY <1>2, OpeningTyped DEF OpenPaper
<1>3. ASSUME NEW f \in Files, OpenFile(f)
      PROVE  Typed'
  <2>1. page.paper \in Papers
    BY <1>3, <1>0 DEF OpenFile, Typed, Blank, Page
  <2>. QED  BY <1>3, <2>1, OpeningFileTyped DEF OpenFile
<1>4. ASSUME NEW f \in Files, Focus(f)
      PROVE  Typed'
  <2>1. page.paper \in Papers /\ server' = server
    BY <1>4 DEF Focus
  <2>2. CASE f = page.file
    <3>1. calls' = calls \cup {[Ask("opened", "focus") EXCEPT !.file = f]} /\ UNCHANGED <<page, sessions>>
      BY <1>4, <2>2 DEF Focus
    <3>2. calls' \subseteq ShapedCalls
      BY <3>1, <2>1, <1>0, AskedShaped
    <3>. QED  BY <2>1, <3>1, <3>2, StaysTyped DEF Typed
  <2>3. CASE f # page.file
    <3>1. OpeningFile(f, "focus", calls)
      BY <1>4, <2>3 DEF Focus
    <3>. QED  BY <2>1, <3>1, OpeningFileTyped
  <2>. QED  BY <2>2, <2>3
<1>5. ASSUME Select
      PROVE  Typed'
  <2>1. page.paper \in Papers /\ UNCHANGED <<sessions, server>>
    BY <1>5, <1>0 DEF Select, Typed, Blank, Page
  <2>2. Ranged \in Anchor
    BY <1>5, <2>1, RangedTyped DEF Select
  <2>3. page' \in Page /\ page'.paper = page.paper
    BY <1>5, <2>2, <1>0, PageUpdates DEF Select, Page
  <2>4. [Ask("forward", "poll") EXCEPT !.anchor = Ranged] \in ShapedCalls
    BY <2>1, <2>2, AskedShaped
  <2>5. calls' \subseteq ShapedCalls
    BY <1>5, <2>4, <1>0 DEF Select
  <2>. QED  BY <2>1, <2>3, <2>5, StaysTyped DEF Typed
<1>6. ASSUME Drag
      PROVE  Typed'
  <2>1. page.paper \in Papers /\ UNCHANGED <<page, sessions, server>>
    BY <1>6, <1>0 DEF Drag, Typed, Blank, Page
  <2>2. calls' \subseteq ShapedCalls
    BY <1>6, <2>1, <1>0, AskedShaped DEF Drag
  <2>. QED  BY <2>1, <2>2, StaysTyped DEF Typed
<1>7. ASSUME Create
      PROVE  Typed'
  <2>1. page.paper \in Papers /\ UNCHANGED <<page, sessions, server>> /\ page.anchor \in Anchor
    BY <1>7, <1>0 DEF Create, Typed, Blank, Page
  <2>2. [Ask("create", "nav") EXCEPT !.anchor = page.anchor] \in ShapedCalls
    BY <2>1, AskedShaped
  <2>3. calls' \subseteq ShapedCalls
    BY <1>7, <2>2, <1>0 DEF Create
  <2>. QED  BY <2>1, <2>3, StaysTyped DEF Typed
<1>8. ASSUME Transition \/ Poll
      PROVE  Typed'
  <2>1. page.paper \in Papers /\ UNCHANGED <<page, sessions, server>>
    BY <1>8, <1>0 DEF Transition, Poll, Page
  <2>2. calls' \subseteq ShapedCalls
    BY <1>8, <2>1, <1>0, AskedShaped DEF Transition, Poll
  <2>. QED  BY <2>1, <2>2, StaysTyped DEF Typed
<1>9. ASSUME NEW i \in Slots, Mount(i)
      PROVE  Typed'
  <2>1. page.paper \in Papers /\ server' = server
    BY <1>9, <1>0 DEF Mount, Typed, Blank, Page
  <2>2. sessions' \in [Slots -> Session]
    BY ZenonT(60), <1>9, <1>0 DEF Mount, Session
  <2>3. sessions[i].file \in {None} \cup Files
    BY <1>0 DEF Session
  <2>4. page' \in Page /\ page'.paper = page.paper
    BY <1>9, <2>3, <1>0, PageUpdates DEF Mount, Page
  <2>5. calls' \subseteq ShapedCalls
    <3>. DEFINE Moved(c) == IF c.step = "ready" /\ c.slot = i THEN [c EXCEPT !.step = "opened"] ELSE c
    <3>1. \A c \in calls : Moved(c) \in ShapedCalls
      BY <1>0, CallMoves
    <3>2. calls' = {Moved(c) : c \in calls}
      BY <1>9 DEF Mount
    <3>. HIDE DEF Moved
    <3>. QED  BY <3>1, <3>2
  <2>. QED  BY <2>1, <2>2, <2>4, <2>5, StaysTyped DEF Typed
<1>10. ASSUME NEW i \in Slots, Dropped(i)
       PROVE  Typed'
  <2>1. page.paper \in Papers /\ UNCHANGED <<page, calls, server>>
    BY <1>10, <1>0 DEF Dropped, Typed, Blank, Page
  <2>2. sessions' \in [Slots -> Session]
    BY ZenonT(60), <1>10, <1>0 DEF Dropped, Session
  <2>. QED  BY <2>1, <2>2, StaysTyped DEF Typed
<1>11. ASSUME NEW i \in Slots, EpochChanged(i)
       PROVE  Typed'
  <2>1. page.paper \in Papers
    BY <1>11, <1>0 DEF EpochChanged, Typed, Blank, Page
  <2>. QED  BY <1>11, <2>1, OpeningTyped DEF EpochChanged
<1>12. ASSUME NEW p \in Papers, Gate(p) \/ Built(p)
       PROVE  Typed'
  <2>1. page.paper \in Papers /\ UNCHANGED <<page, sessions, calls>>
    BY <1>12 DEF Gate, Built
  <2>2. server' \in [Papers -> [open : BOOLEAN, built : 0 .. MaxBuilds]]
    <3>1. server[p] \in [open : BOOLEAN, built : 0 .. MaxBuilds]
      BY DEF Typed
    <3>2. [server[p] EXCEPT !.open = ~server[p].open] \in [open : BOOLEAN, built : 0 .. MaxBuilds]
      BY <3>1
    <3>3. server[p].built < MaxBuilds =>
             [server[p] EXCEPT !.built = server[p].built + 1] \in [open : BOOLEAN, built : 0 .. MaxBuilds]
      BY <3>1
    <3>. QED  BY <1>12, <3>2, <3>3 DEF Gate, Built, Typed
  <2>. QED  BY <2>1, <2>2, StaysTyped DEF Typed
<1>13. CASE UNCHANGED vars
  BY <1>13 DEF vars, Typed, Blank
<1>. QED
  BY <1>1, <1>2, <1>3, <1>4, <1>5, <1>6, <1>7, <1>8, <1>9, <1>10, <1>11, <1>12, <1>13 DEF Next, Mentor

\* The model object, the sessions and the calls keep their types for any papers,
\* whatever answers, notices and clicks overlap.
THEOREM MentorTypeCorrect == Spec => []TypeOK
<1>1. Typed /\ [Next]_vars => Typed'
  BY NextTyped
<1>. QED  BY <1>1, InitTyped, TypedImplies, PTL DEF Spec

-----------------------------------------------------------------------------
(* One navigation at a time *)

\* The calls that will change the source, or that hold a place in it
Navigating(c) ==
    \/ c.step \in {"both", "file", "ready", "inverse"}
    \/ c.step = "opened" /\ c.for \in {"anchor", "focus"}

\* What the Mentor waits for is about the open paper, and about the source that is
\* there or is to come.
Located(c) ==
    /\ c.for # "poll" => c.paper = page.paper
    /\ c.step \in {"both", "file"} => page.collab = 0
    /\ c.step = "ready" => c.slot = page.collab /\ ~sessions[c.slot].ready
    /\ c.step = "ready" \/ (c.step = "opened" /\ c.for = "anchor") => c.file = page.file
    /\ c.step = "create" => c.anchor.paper = c.paper
    /\ c.step # "inverse" /\ c.for = "anchor" => c.anchor.paper = c.paper /\ PaperOf[c.file] = c.paper
    /\ c.step = "file" /\ c.for = "open" => PaperOf[c.file] = c.paper

OneNavigation == \A c, d \in calls : Navigating(c) /\ Navigating(d) => c = d
CallsLocated == \A c \in calls : Located(c)

SourceKnown ==
    /\ \A i \in Slots : i # page.collab => sessions[i] = Gone
    /\ page.collab # 0 => /\ page.file \in Files /\ sessions[page.collab].file = page.file
                          /\ PaperOf[page.file] = page.paper
    /\ page.view # None => page.collab # 0 /\ page.view = page.file

AnchorPlaced ==
    page.anchor # None =>
        /\ page.anchor.paper = page.paper
        /\ page.anchor.file # None => /\ page.anchor.text = page.anchor.file
                                      /\ PaperOf[page.anchor.file] = page.anchor.paper

\* The threads are of the open paper, or a call under way ends with asking for them.
Refreshing(c) == c.step = "reviews" \/ (c.for = "open" /\ c.step \in {"both", "file", "ready", "opened"})
ReviewsComing == page.paper # None => page.reviews = page.paper \/ \E c \in calls : Refreshing(c)

PageInv == OneNavigation /\ CallsLocated /\ SourceKnown /\ AnchorPlaced /\ ReviewsComing

LEMMA InitPage == Init => PageInv
BY MentorAssumption DEF Init, PageInv, OneNavigation, CallsLocated, SourceKnown, AnchorPlaced, ReviewsComing, Slots

\* While the source stays, only the calls and the selection need a look.
LEMMA SourceStays ==
    ASSUME PageInv,
           UNCHANGED <<sessions, page.paper, page.file, page.collab, page.view>>,
           \A d \in calls' : d \in calls \/ Located(d),
           OneNavigation', AnchorPlaced', ReviewsComing'
    PROVE  PageInv'
<1>1. CallsLocated'
  BY DEF PageInv, CallsLocated, Located
<1>2. SourceKnown'
  BY DEF PageInv, SourceKnown
<1>. QED  BY <1>1, <1>2 DEF PageInv

\* openPaper: whatever else is under way is about the same paper and navigates nowhere.
LEMMA PaperOpens ==
    ASSUME Typed, PageInv, NEW p \in Papers, Opening(p, calls),
           \A c \in calls : c.for # "poll" => c.paper = p /\ (Navigating(c) => c.step = "ready")
    PROVE  PageInv'
<1>0. PICK n : n = [Ask("both", "open") EXCEPT !.paper = p]
  OBVIOUS
<1>1. /\ page'.collab = 0 /\ page'.view = None /\ page'.paper = p /\ page'.anchor = None
  BY ZenonT(60), OpenedPage DEF Opening, Typed
<1>2. n.step = "both" /\ n.for = "open" /\ n.paper = p
  BY <1>0 DEF Ask
<1>3. calls' = Waiting(calls) \cup {n}
  BY <1>0 DEF Opening
<1>4. \A c \in Waiting(calls) : c \in calls /\ c.step # "ready" /\ Shaped(c) /\ ~Navigating(c) /\ Located(c)
  BY DEF Waiting, Typed, ShapedCalls, Shaped, PageInv, CallsLocated, Located, Navigating
<1>5. OneNavigation'
  BY <1>3, <1>4 DEF OneNavigation, Navigating
<1>6. CallsLocated'
  <2>1. Located(n)'
    BY <1>1, <1>2 DEF Located
  <2>2. \A c \in Waiting(calls) : Located(c)'
    BY <1>1, <1>4 DEF Located, Navigating, Shaped
  <2>. QED  BY <1>3, <2>1, <2>2 DEF CallsLocated
<1>7. SourceKnown'
  <2>1. \A i \in Slots : sessions'[i] = Gone
    BY DEF Opening, Disposed, PageInv, SourceKnown
  <2>. QED  BY <1>1, <2>1 DEF SourceKnown
<1>8. AnchorPlaced' /\ ReviewsComing'
  BY <1>1, <1>2, <1>3 DEF AnchorPlaced, ReviewsComing, Refreshing
<1>. QED  BY <1>5, <1>6, <1>7, <1>8 DEF PageInv

\* openFile: the session of the last file ends, and its place is awaited.
LEMMA FileOpens ==
    ASSUME Typed, PageInv, NEW rest \in SUBSET calls, NEW d,
           \A c \in rest : ~Navigating(c),
           d.step = "file", d.paper = page.paper,
           d.for = "anchor" => d.anchor.paper = d.paper /\ PaperOf[d.file] = d.paper,
           d.for = "open" => PaperOf[d.file] = d.paper,
           sessions' = Disposed(sessions), calls' = Waiting(rest) \cup {d},
           page'.collab = 0, page'.view = None,
           UNCHANGED <<page.paper, page.file, page.anchor, page.reviews>>,
           \A c \in calls : Refreshing(c) => c \in rest \/ Refreshing(d)
    PROVE  PageInv'
<1>1. Waiting(rest) = rest
  BY DEF Waiting, Navigating
<1>2. calls' = rest \cup {d}
  BY <1>1
<1>3. OneNavigation'
  BY <1>2 DEF OneNavigation, Navigating
<1>4. CallsLocated'
  <2>1. Located(d)'
    BY DEF Located
  <2>2. \A c \in rest : Located(c)'
    BY DEF PageInv, CallsLocated, Located, Navigating
  <2>. QED  BY <1>2, <2>1, <2>2 DEF CallsLocated
<1>5. SourceKnown'
  <2>1. \A i \in Slots : sessions'[i] = Gone
    BY DEF Disposed, PageInv, SourceKnown
  <2>. QED  BY <2>1 DEF SourceKnown
<1>6. AnchorPlaced'
  BY DEF AnchorPlaced, PageInv
<1>7. ReviewsComing'
  BY <1>2 DEF ReviewsComing, PageInv, Refreshing
<1>. QED  BY <1>3, <1>4, <1>5, <1>6, <1>7 DEF PageInv

\* A call that goes, and what navigates nowhere, overlaps nothing.
LEMMA FewerNavigate ==
    ASSUME PageInv, \A d \in calls' : d \in calls \/ ~Navigating(d)
    PROVE  OneNavigation'
BY DEF PageInv, OneNavigation, Navigating

LEMMA AnswersKeepPage ==
    ASSUME Typed, PageInv, NEW c \in calls, Answer(c)
    PROVE  PageInv'
<1>. USE MentorAssumption
<1>0. /\ c \in Call /\ Shaped(c) /\ Located(c) /\ page \in Page
      /\ page.paper \in Papers
      /\ c.for # "poll" => c.paper = page.paper
  BY DEF Typed, ShapedCalls, Blank, Page, PageInv, CallsLocated, Located
<1>1. CASE GotBoth(c)
  <2>1. PICK f \in Files : /\ PaperOf[f] = c.paper /\ sessions' = Disposed(sessions)
                           /\ page' = [Sourceless(page) EXCEPT !.files = c.paper]
                           /\ calls' = Waiting(calls \ {c}) \cup {[Ask("file", "open") EXCEPT !.file = f]}
    BY <1>1 DEF GotBoth
  <2>2. PICK d : d = [Ask("file", "open") EXCEPT !.file = f]
    OBVIOUS
  <2>3. d.step = "file" /\ d.for = "open" /\ d.paper = page.paper /\ d.file = f /\ Refreshing(d)
    BY <2>2 DEF Ask, Refreshing
  <2>4. /\ page'.collab = 0 /\ page'.view = None
        /\ UNCHANGED <<page.paper, page.file, page.anchor, page.reviews>>
    BY <2>1, <1>0, SourcelessPage DEF Page
  <2>5. c.step = "both" /\ c.for = "open" /\ Navigating(c)
    BY <1>1, <1>0 DEF GotBoth, Shaped, Navigating
  <2>6. \A e \in calls \ {c} : ~Navigating(e)
    BY <2>5 DEF PageInv, OneNavigation
  <2>7. calls' = Waiting(calls \ {c}) \cup {d} /\ PaperOf[d.file] = d.paper
    BY <2>1, <2>2, <2>3, <2>5, <1>0
  <2>. QED  BY <2>1, <2>3, <2>4, <2>6, <2>7, FileOpens
<1>2. CASE GotFile(c)
  <2>0. c.step = "file" /\ c.file \in Files /\ Navigating(c) /\ c.for # "poll" /\ page.collab = 0
    BY <1>2, <1>0 DEF GotFile, Shaped, Navigating, Located
  <2>00. \A e \in calls \ {c} : ~Navigating(e)
    BY <2>0 DEF PageInv, OneNavigation
  <2>1. CASE PaperOf[c.file] # c.paper
    <3>1. calls' = calls \ {c} /\ UNCHANGED <<page, sessions>>
      BY <1>2, <2>1 DEF GotFile, Answered
    <3>2. ~Refreshing(c)
      BY <2>0, <2>1, <1>0 DEF Refreshing, Located
    <3>3. ReviewsComing'
      BY <3>1, <3>2 DEF PageInv, ReviewsComing, Refreshing
    <3>4. AnchorPlaced' /\ OneNavigation'
      BY <3>1 DEF PageInv, AnchorPlaced, OneNavigation, Navigating
    <3>. QED  BY <3>1, <3>3, <3>4, SourceStays
  <2>2. CASE PaperOf[c.file] = c.paper
    <3>1. PICK i \in Slots :
             /\ sessions' = [sessions EXCEPT ![i] = [Gone EXCEPT !.alive = TRUE, !.paper = page.files, !.file = c.file]]
             /\ page' = [page EXCEPT !.file = c.file, !.collab = i]
             /\ Answered(c, {[c EXCEPT !.step = "ready", !.slot = i]})
      BY <1>2, <2>2 DEF GotFile
    <3>2. PICK d : d = [c EXCEPT !.step = "ready", !.slot = i]
      OBVIOUS
    <3>3. /\ d.step = "ready" /\ d.slot = i /\ d.for = c.for /\ d.paper = c.paper /\ d.file = c.file
          /\ d.anchor = c.anchor
      BY <3>2, <1>0 DEF Call
    <3>4. calls' = (calls \ {c}) \cup {d}
      BY <3>1, <3>2 DEF Answered
    <3>5. /\ page'.file = c.file /\ page'.collab = i
          /\ UNCHANGED <<page.paper, page.view, page.anchor, page.reviews>>
      BY <3>1, <1>0 DEF Page
    <3>6. i # 0 /\ page.view = None
      BY <2>0 DEF PageInv, SourceKnown, Slots
    <3>7. /\ sessions'[i].file = c.file /\ ~sessions'[i].ready
          /\ \A j \in Slots \ {i} : sessions'[j] = Gone
      <4>1. sessions'[i] = [Gone EXCEPT !.alive = TRUE, !.paper = page.files, !.file = c.file]
        BY <3>1 DEF Typed
      <4>2. \A j \in Slots \ {i} : sessions'[j] = Gone
        BY <3>1, <2>0 DEF PageInv, SourceKnown, Slots, Typed
      <4>. QED  BY <4>1, <4>2 DEF Gone
    <3>8. OneNavigation'
      BY <3>4, <2>00 DEF OneNavigation, Navigating
    <3>9. CallsLocated'
      <4>1. Located(d)'
        BY <3>3, <3>5, <3>7, <2>0, <2>2, <1>0 DEF Located
      <4>2. \A e \in calls \ {c} : Located(e)'
        BY <3>5, <2>00 DEF PageInv, CallsLocated, Located, Navigating
      <4>. QED  BY <3>4, <4>1, <4>2 DEF CallsLocated
    <3>10. SourceKnown'
      BY <3>5, <3>6, <3>7, <2>0, <2>2, <1>0 DEF SourceKnown
    <3>11. AnchorPlaced'
      BY <3>5 DEF AnchorPlaced, PageInv
    <3>12. Refreshing(c) => Refreshing(d)
      BY <3>3, <2>0 DEF Refreshing
    <3>13. ReviewsComing'
      BY <3>4, <3>5, <3>12 DEF PageInv, ReviewsComing, Refreshing
    <3>. QED  BY <3>8, <3>9, <3>10, <3>11, <3>13 DEF PageInv
  <2>. QED  BY <2>1, <2>2
<1>3. CASE Opened(c)
  <2>1. UNCHANGED <<page, sessions>> /\ c.step = "opened" /\ c.for \in {"open", "nav"}
    BY <1>3 DEF Opened
  <2>2. /\ calls' \subseteq calls \cup {Ask("reviews", "open"), Ask("status", "poll")}
        /\ calls \ {c} \subseteq calls'
        /\ c.for = "open" => Ask("reviews", "open") \in calls'
    BY <1>3 DEF Opened, Answered
  <2>3. /\ Located(Ask("reviews", "open")) /\ Located(Ask("status", "poll"))
        /\ ~Navigating(Ask("reviews", "open")) /\ ~Navigating(Ask("status", "poll"))
        /\ Refreshing(Ask("reviews", "open"))
    BY DEF Ask, Located, Navigating, Refreshing
  <2>4. ReviewsComing'
    <3>1. Refreshing(c) => c.for = "open"
      BY <2>1 DEF Refreshing
    <3>. QED  BY <2>1, <2>2, <2>3, <3>1 DEF PageInv, ReviewsComing, Refreshing
  <2>5. OneNavigation' /\ AnchorPlaced'
    BY <2>1, <2>2, <2>3, FewerNavigate DEF PageInv, AnchorPlaced
  <2>. QED  BY <2>1, <2>2, <2>3, <2>4, <2>5, SourceStays
<1>4. CASE GotReviews(c)
  <2>1. /\ UNCHANGED <<sessions, page.paper, page.file, page.collab, page.view>>
        /\ page'.reviews = c.paper /\ page'.anchor \in {None, page.anchor}
    BY <1>4, <1>0 DEF GotReviews, Hidden, Page
  <2>2. c.paper = page.paper /\ calls' \subseteq calls
    BY <1>4, <1>0 DEF GotReviews, Shaped, Answered
  <2>3. OneNavigation' /\ AnchorPlaced' /\ ReviewsComing'
    BY <2>1, <2>2 DEF PageInv, OneNavigation, Navigating, AnchorPlaced, ReviewsComing
  <2>. QED  BY <2>1, <2>2, <2>3, SourceStays
<1>5. CASE GotStatus(c) \/ GotPdf(c)
  <2>1. UNCHANGED <<sessions, page.paper, page.file, page.collab, page.view, page.anchor, page.reviews>>
    <3>1. \/ page' = page \/ \E x, y : page' = [page EXCEPT !.pdf = x, !.pdfId = y]
          \/ \E x : page' = [page EXCEPT !.pdf = x]
      BY <1>5 DEF GotStatus, GotPdf
    <3>. QED  BY ZenonT(60), <1>5, <3>1, <1>0 DEF GotStatus, GotPdf, Page
  <2>2. PICK d : d = [c EXCEPT !.step = "pdf", !.id = server[c.paper].built]
    OBVIOUS
  <2>3. c.for = "poll" /\ d.for = "poll" /\ d.step = "pdf" /\ calls \ {c} \subseteq calls'
        /\ calls' \subseteq calls \cup {d} /\ c.step \in {"status", "pdf"}
    <3>1. c.step \in {"status", "pdf"} /\ c.for = "poll"
      BY <1>5, <1>0 DEF GotStatus, GotPdf, Shaped
    <3>2. d.for = c.for /\ d.step = "pdf"
      BY <2>2, <1>0 DEF Call
    <3>. QED  BY <1>5, <2>2, <3>1, <3>2 DEF GotStatus, GotPdf, Answered
  <2>4. Located(d) /\ ~Navigating(d) /\ ~Refreshing(c)
    BY <2>3 DEF Located, Navigating, Refreshing
  <2>5. OneNavigation' /\ AnchorPlaced'
    BY <2>1, <2>3, <2>4, FewerNavigate DEF PageInv, AnchorPlaced
  <2>6. ReviewsComing'
    BY <2>1, <2>3, <2>4 DEF PageInv, ReviewsComing, Refreshing
  <2>. QED  BY <2>1, <2>3, <2>4, <2>5, <2>6, SourceStays
<1>6. CASE GotForward(c)
  <2>1. /\ UNCHANGED <<sessions, page.paper, page.file, page.collab, page.view, page.reviews>>
        /\ calls' = calls \ {c} /\ c.step = "forward" /\ c.for = "poll"
    BY <1>6, <1>0 DEF GotForward, Page, Answered, Shaped
  <2>2. page'.anchor = page.anchor
        \/ (page.anchor \in Anchor /\ page'.anchor = [page.anchor EXCEPT !.pdf = TRUE])
    BY <1>6, <1>0 DEF GotForward, Shaped, Page
  <2>3. AnchorPlaced'
    <3>1. CASE page'.anchor = page.anchor
      BY <2>1, <3>1 DEF PageInv, AnchorPlaced
    <3>2. ASSUME page.anchor \in Anchor, page'.anchor = [page.anchor EXCEPT !.pdf = TRUE]
          PROVE  AnchorPlaced'
      <4>1. PICK a : a = page.anchor
        OBVIOUS
      <4>2. PICK b : b = [a EXCEPT !.pdf = TRUE]
        OBVIOUS
      <4>3. a # None => /\ a.paper = page.paper
                        /\ a.file # None => a.text = a.file /\ PaperOf[a.file] = a.paper
        BY <4>1 DEF PageInv, AnchorPlaced
      <4>4. a # None => b.paper = a.paper /\ b.file = a.file /\ b.text = a.text
        BY <3>2, <4>1, <4>2 DEF Anchor
      <4>5. page'.anchor = b
        BY <3>2, <4>1, <4>2
      <4>6. a # None
        BY <3>2, <4>1
      <4>. QED  BY <2>1, <4>3, <4>4, <4>5, <4>6 DEF AnchorPlaced
    <3>. QED  BY <2>2, <3>1, <3>2
  <2>4. OneNavigation' /\ ReviewsComing'
    BY <2>1 DEF PageInv, OneNavigation, Navigating, ReviewsComing, Refreshing
  <2>. QED  BY <2>1, <2>3, <2>4, SourceStays
<1>7. CASE GotInverse(c)
  <2>0. /\ c.step = "inverse" /\ c.for = "anchor" /\ c.paper = page.paper /\ Navigating(c) /\ ~Refreshing(c)
        /\ Region(c.paper) \in Anchor /\ Region(c.paper).paper = c.paper /\ Region(c.paper).file = None
    BY <1>7, <1>0, RegionTyped DEF GotInverse, Shaped, Navigating, Refreshing
  <2>00. \A e \in calls \ {c} : ~Navigating(e)
    BY <2>0 DEF PageInv, OneNavigation
  <2>1. CASE /\ page' = [page EXCEPT !.anchor = Region(c.paper)]
             /\ Answered(c, {}) /\ UNCHANGED sessions
    <3>1. /\ UNCHANGED <<page.paper, page.file, page.collab, page.view, page.reviews>>
          /\ page'.anchor = Region(c.paper) /\ calls' = calls \ {c}
      BY <2>1, <1>0 DEF Page, Answered
    <3>2. OneNavigation' /\ AnchorPlaced' /\ ReviewsComing'
      BY <3>1, <2>0 DEF PageInv, OneNavigation, Navigating, AnchorPlaced, ReviewsComing, Refreshing
    <3>. QED  BY <2>1, <3>1, <3>2, SourceStays
  <2>2. ASSUME NEW f \in Files, PaperOf[f] = c.paper, f = page.file,
               Answered(c, {[[c EXCEPT !.anchor = Region(c.paper), !.file = f] EXCEPT !.step = "opened"]}),
               UNCHANGED <<page, sessions>>
        PROVE  PageInv'
    <3>1. PICK d : d = [[c EXCEPT !.anchor = Region(c.paper), !.file = f] EXCEPT !.step = "opened"]
      OBVIOUS
    <3>2. /\ d.step = "opened" /\ d.for = "anchor" /\ d.paper = c.paper /\ d.file = f
          /\ d.anchor = Region(c.paper)
      BY <3>1, <2>0, <1>0 DEF Call
    <3>3. calls' = (calls \ {c}) \cup {d}
      BY <2>2, <3>1 DEF Answered
    <3>4. Located(d)
      BY <2>0, <2>2, <3>2 DEF Located
    <3>5. OneNavigation'
      BY <3>3, <2>00 DEF OneNavigation, Navigating
    <3>6. AnchorPlaced' /\ ReviewsComing'
      BY <2>2, <3>3, <2>0 DEF PageInv, AnchorPlaced, ReviewsComing, Refreshing
    <3>. QED  BY <2>2, <3>3, <3>4, <3>5, <3>6, SourceStays
  <2>3. ASSUME NEW f \in Files, PaperOf[f] = c.paper,
               sessions' = Disposed(sessions), page' = Sourceless(page),
               calls' = Waiting(calls \ {c}) \cup
                   {[[c EXCEPT !.anchor = Region(c.paper), !.file = f] EXCEPT !.step = "file", !.paper = page.paper]}
        PROVE  PageInv'
    <3>1. PICK d : d = [[c EXCEPT !.anchor = Region(c.paper), !.file = f] EXCEPT !.step = "file", !.paper = page.paper]
      OBVIOUS
    <3>2. /\ d.step = "file" /\ d.for = "anchor" /\ d.paper = page.paper /\ d.file = f
          /\ d.anchor = Region(c.paper)
      BY <3>1, <2>0, <1>0 DEF Call
    <3>3. /\ page'.collab = 0 /\ page'.view = None
          /\ UNCHANGED <<page.paper, page.file, page.anchor, page.reviews>>
      BY <2>3, <1>0, SourcelessPage
    <3>4. calls' = Waiting(calls \ {c}) \cup {d}
      BY <2>3, <3>1
    <3>5. /\ calls \ {c} \in SUBSET calls /\ d.anchor.paper = d.paper /\ PaperOf[d.file] = d.paper
          /\ \A e \in calls : Refreshing(e) => e \in calls \ {c} \/ Refreshing(d)
      BY <2>0, <2>3, <3>2
    <3>6. d.for # "open"
      BY <3>2
    <3>. QED  BY <2>00, <2>3, <3>2, <3>3, <3>4, <3>5, <3>6, FileOpens
  <2>. QED  BY <1>7, <2>1, <2>2, <2>3 DEF GotInverse
<1>8. CASE Mapped(c) \/ Focused(c)
  <2>1. /\ UNCHANGED <<sessions, page.paper, page.file, page.collab, page.view, page.reviews>>
        /\ calls' = calls \ {c} /\ c.step = "opened" /\ c.for \in {"anchor", "focus"}
    BY <1>8, <1>0 DEF Mapped, Focused, Page, Answered
  <2>2. AnchorPlaced'
    <3>1. CASE page' = page
      BY <3>1 DEF PageInv, AnchorPlaced
    <3>2. CASE page' # page /\ Mapped(c)
      <4>1. /\ Selectable
            /\ page' = [page EXCEPT !.anchor = [c.anchor EXCEPT !.file = c.file, !.text = sessions[page.collab].file]]
        BY <3>2 DEF Mapped
      <4>2. /\ c.anchor \in Anchor /\ c.anchor.paper = c.paper /\ c.paper = page.paper
            /\ c.file = page.file /\ PaperOf[c.file] = c.paper
        BY <3>2, <1>0 DEF Mapped, Shaped, Located
      <4>3. sessions[page.collab].file = page.file
        BY <4>1 DEF Selectable, PageInv, SourceKnown
      <4>4. PICK a : a = [c.anchor EXCEPT !.file = c.file, !.text = sessions[page.collab].file]
        OBVIOUS
      <4>5. a.paper = page.paper /\ a.file = page.file /\ a.text = page.file
        BY <4>2, <4>3, <4>4 DEF Anchor
      <4>6. page'.anchor = a
        BY <4>1, <4>4, <1>0 DEF Page
      <4>. QED  BY <2>1, <4>2, <4>5, <4>6 DEF AnchorPlaced
    <3>3. CASE page' # page /\ Focused(c)
      <4>1. page'.anchor = Region(page.paper)
        BY <3>3, <1>0 DEF Focused, Page
      <4>. QED  BY <2>1, <4>1, <1>0, RegionTyped DEF AnchorPlaced
    <3>. QED  BY <1>8, <3>1, <3>2, <3>3
  <2>3. OneNavigation' /\ ReviewsComing'
    BY <2>1 DEF PageInv, OneNavigation, Navigating, ReviewsComing, Refreshing
  <2>. QED  BY <2>1, <2>2, <2>3, SourceStays
<1>9. CASE Take(c) \/ Refuse(c)
  <2>1. /\ UNCHANGED <<sessions, page.paper, page.file, page.collab, page.view, page.reviews>>
        /\ page'.anchor \in {None, page.anchor} /\ c.step = "create"
        /\ calls \ {c} \subseteq calls' /\ calls' \subseteq calls \cup {Ask("reviews", "nav")}
    BY <1>9, <1>0 DEF Take, Refuse, Hidden, Page, Answered
  <2>2. Located(Ask("reviews", "nav")) /\ ~Navigating(Ask("reviews", "nav"))
    BY DEF Ask, Located, Navigating
  <2>3. OneNavigation'
    BY <2>1, <2>2, FewerNavigate
  <2>4. AnchorPlaced'
    BY <2>1 DEF PageInv, AnchorPlaced
  <2>5. ReviewsComing'
    <3>1. ~Refreshing(c)
      BY <2>1, <1>0 DEF Refreshing, Shaped
    <3>. QED  BY <2>1, <3>1 DEF PageInv, ReviewsComing, Refreshing
  <2>. QED  BY <2>1, <2>2, <2>3, <2>4, <2>5, SourceStays
<1>. QED  BY <1>1, <1>2, <1>3, <1>4, <1>5, <1>6, <1>7, <1>8, <1>9 DEF Answer

\* While the Mentor waits for what was asked, what goes on behind navigates nowhere.
LEMMA IdleIsBehind ==
    ASSUME Typed, Waits, Idle, NEW c \in calls
    PROVE  c.for = "poll" /\ ~Navigating(c)
BY DEF Typed, Waits, Idle, ShapedCalls, Shaped, Navigating

\* openFile by the Mentor
LEMMA IdleFileOpens ==
    ASSUME Typed, PageInv, Waits, Idle, NEW f \in Files, NEW for \in {"nav", "focus"},
           OpeningFile(f, for, calls)
    PROVE  PageInv'
<1>1. PICK d : d = [Ask("file", for) EXCEPT !.file = f]
  OBVIOUS
<1>2. d.step = "file" /\ d.for = for /\ d.paper = page.paper
  BY <1>1 DEF Ask
<1>3. /\ page'.collab = 0 /\ page'.view = None
      /\ UNCHANGED <<page.paper, page.file, page.anchor, page.reviews>>
  BY SourcelessPage DEF OpeningFile, Typed
<1>4. sessions' = Disposed(sessions) /\ calls' = Waiting(calls) \cup {d}
  BY <1>1 DEF OpeningFile
<1>5. calls \in SUBSET calls /\ \A c \in calls : ~Navigating(c)
  BY IdleIsBehind
<1>. QED  BY <1>2, <1>3, <1>4, <1>5, FileOpens

\* A call that is added, and navigates nowhere if another one does
LEMMA Asks ==
    ASSUME PageInv, NEW d, UNCHANGED <<page, sessions>>, calls' = calls \cup {d}, Located(d),
           Navigating(d) => \A c \in calls : ~Navigating(c)
    PROVE  PageInv'
<1>1. OneNavigation'
  BY DEF PageInv, OneNavigation, Navigating
<1>2. AnchorPlaced'
  BY DEF PageInv, AnchorPlaced
<1>3. ReviewsComing'
  BY DEF PageInv, ReviewsComing, Refreshing
<1>. QED  BY <1>1, <1>2, <1>3, SourceStays

\* initialize and mountReadOnlyEditor: the promise of the session is kept.
LEMMA MountKeepsPage ==
    ASSUME Typed, PageInv, NEW i \in Slots, Mount(i)
    PROVE  PageInv'
<1>. USE MentorAssumption
<1>. DEFINE Moved(c) == IF c.step = "ready" /\ c.slot = i THEN [c EXCEPT !.step = "opened"] ELSE c
<1>1. /\ i = page.collab /\ i # 0 /\ page \in Page /\ sessions[i] \in Session
      /\ sessions[i].file = page.file /\ page.file \in Files /\ PaperOf[page.file] = page.paper
  BY DEF Mount, Typed, PageInv, SourceKnown, Gone, Slots
<1>2. /\ page'.view = page.file
      /\ UNCHANGED <<page.paper, page.file, page.collab, page.anchor, page.reviews>>
  BY <1>1 DEF Mount, Page
<1>3. calls' = {Moved(c) : c \in calls}
  BY DEF Mount
<1>4. /\ \A j \in Slots \ {i} : sessions'[j] = sessions[j]
      /\ sessions'[i].file = sessions[i].file
  BY <1>1 DEF Mount, Typed, Session
<1>5. \A c \in calls : /\ Moved(c).for = c.for /\ Moved(c).paper = c.paper /\ Moved(c).file = c.file
                       /\ Moved(c).slot = c.slot /\ Moved(c).anchor = c.anchor
                       /\ Moved(c).step = IF c.step = "ready" THEN "opened" ELSE c.step
  <2>. SUFFICES ASSUME NEW c \in calls
       PROVE  /\ Moved(c).for = c.for /\ Moved(c).paper = c.paper /\ Moved(c).file = c.file
              /\ Moved(c).slot = c.slot /\ Moved(c).anchor = c.anchor
              /\ Moved(c).step = IF c.step = "ready" THEN "opened" ELSE c.step
    OBVIOUS
  <2>1. c \in Call /\ (c.step = "ready" => c.slot = i)
    BY <1>1 DEF Typed, ShapedCalls, PageInv, CallsLocated, Located
  <2>2. CASE c.step = "ready"
    <3>1. Moved(c) = [c EXCEPT !.step = "opened"]
      BY <2>1, <2>2
    <3>. HIDE DEF Moved
    <3>. QED  BY <2>1, <2>2, <3>1 DEF Call
  <2>3. CASE c.step # "ready"
    BY <2>3
  <2>. QED  BY <2>2, <2>3
<1>. HIDE DEF Moved
<1>6. OneNavigation'
  <2>1. \A c \in calls : Navigating(Moved(c)) => Navigating(c)
    BY <1>5 DEF Navigating
  <2>2. \A x \in calls' : Navigating(x)' <=> Navigating(x)
    BY DEF Navigating
  <2>3. \A c, d \in calls : Navigating(Moved(c)) /\ Navigating(Moved(d)) => Moved(c) = Moved(d)
    BY <2>1 DEF PageInv, OneNavigation
  <2>. QED  BY <1>3, <2>2, <2>3 DEF OneNavigation
<1>7. CallsLocated'
  <2>1. \A c \in calls : Located(Moved(c))'
    <3>. SUFFICES ASSUME NEW c \in calls
         PROVE  Located(Moved(c))'
      OBVIOUS
    <3>1. Located(c)
      BY DEF PageInv, CallsLocated
    <3>2. PICK d : d = Moved(c)
      OBVIOUS
    <3>3. /\ d.for = c.for /\ d.paper = c.paper /\ d.file = c.file /\ d.anchor = c.anchor
          /\ d.step = IF c.step = "ready" THEN "opened" ELSE c.step
      BY <3>2, <1>5
    <3>4. Located(d)'
      BY <1>2, <3>1, <3>3 DEF Located
    <3>. QED  BY <3>2, <3>4
  <2>. QED  BY <1>3, <2>1 DEF CallsLocated
<1>8. SourceKnown'
  BY <1>1, <1>2, <1>4 DEF PageInv, SourceKnown
<1>9. AnchorPlaced'
  BY <1>2 DEF PageInv, AnchorPlaced
<1>10. ReviewsComing'
  <2>1. \A c \in calls : Refreshing(c) => Refreshing(Moved(c)) /\ Moved(c) \in calls'
    BY <1>3, <1>5 DEF Refreshing
  <2>. QED  BY <1>2, <2>1 DEF PageInv, ReviewsComing, Refreshing
<1>. QED  BY <1>6, <1>7, <1>8, <1>9, <1>10 DEF PageInv

\* Every step of the Mentor who waits, every answer and every notice of the server
LEMMA NextKeepsPage ==
    ASSUME Typed, PageInv, Waits, [Next]_vars
    PROVE  PageInv'
<1>. USE MentorAssumption
<1>0. page \in Page /\ calls \subseteq ShapedCalls /\ page.anchor \in {None} \cup Anchor
  BY DEF Typed, Page
<1>1. ASSUME NEW p \in Papers, OpenPaper(p)
      PROVE  PageInv'
  <2>1. \A c \in calls : c.for = "poll"
    BY <1>1, IdleIsBehind DEF OpenPaper
  <2>. QED  BY <1>1, <2>1, PaperOpens DEF OpenPaper
<1>2. ASSUME NEW f \in Files, OpenFile(f)
      PROVE  PageInv'
  BY <1>2, IdleFileOpens DEF OpenFile
<1>3. ASSUME NEW f \in Files, Focus(f)
      PROVE  PageInv'
  <2>1. CASE f # page.file
    BY <1>3, <2>1, IdleFileOpens DEF Focus
  <2>2. CASE f = page.file
    <3>1. PICK d : d = [Ask("opened", "focus") EXCEPT !.file = f]
      OBVIOUS
    <3>2. Located(d)
      BY <3>1 DEF Ask, Located
    <3>3. \A c \in calls : ~Navigating(c)
      BY <1>3, IdleIsBehind DEF Focus
    <3>4. calls' = calls \cup {d} /\ UNCHANGED <<page, sessions>>
      BY <1>3, <2>2, <3>1 DEF Focus
    <3>. QED  BY <3>2, <3>3, <3>4, Asks
  <2>. QED  BY <2>1, <2>2
<1>4. CASE Select
  <2>1. PICK d : d = [Ask("forward", "poll") EXCEPT !.anchor = Ranged]
    OBVIOUS
  <2>2. Located(d) /\ ~Navigating(d)
    BY <2>1 DEF Ask, Located, Navigating
  <2>3. calls' = calls \cup {d} /\ UNCHANGED sessions
    BY <1>4, <2>1 DEF Select
  <2>4. /\ UNCHANGED <<page.paper, page.file, page.collab, page.view, page.reviews>>
        /\ page'.anchor = Ranged
    BY <1>4, <1>0 DEF Select, Page
  <2>5. /\ page.file \in Files /\ sessions[page.collab].file = page.file /\ PaperOf[page.file] = page.paper
    BY <1>4 DEF Select, Selectable, PageInv, SourceKnown
  <2>6. Ranged.paper = page.paper /\ Ranged.file = page.file /\ Ranged.text = page.file
    BY <2>5 DEF Ranged
  <2>7. AnchorPlaced'
    BY <2>4, <2>5, <2>6 DEF AnchorPlaced
  <2>8. ReviewsComing'
    BY <2>3, <2>4 DEF PageInv, ReviewsComing, Refreshing
  <2>9. OneNavigation'
    BY <2>2, <2>3, FewerNavigate
  <2>. QED  BY <2>2, <2>3, <2>4, <2>7, <2>8, <2>9, SourceStays
<1>5. CASE Drag
  <2>1. PICK d : d = Ask("inverse", "anchor")
    OBVIOUS
  <2>2. Located(d)
    BY <2>1 DEF Ask, Located
  <2>. QED  BY <1>5, <2>1, <2>2, IdleIsBehind, Asks DEF Drag
<1>6. CASE Create
  <2>1. PICK d : d = [Ask("create", "nav") EXCEPT !.anchor = page.anchor]
    OBVIOUS
  <2>2. Located(d) /\ ~Navigating(d)
    BY <1>6, <2>1 DEF Create, Ask, Located, Navigating, PageInv, AnchorPlaced
  <2>. QED  BY <1>6, <2>1, <2>2, Asks DEF Create
<1>7. CASE Transition \/ Poll
  <2>1. PICK d : /\ d = Ask("reviews", "nav") \/ d = Ask("status", "poll")
                 /\ calls' = calls \cup {d} /\ UNCHANGED <<page, sessions>>
    BY <1>7 DEF Transition, Poll
  <2>2. Located(d) /\ ~Navigating(d)
    BY <2>1 DEF Ask, Located, Navigating
  <2>. QED  BY <2>1, <2>2, Asks
<1>8. ASSUME NEW i \in Slots, EpochChanged(i)
      PROVE  PageInv'
  <2>1. page.collab # 0 /\ page.paper \in Papers
    BY <1>8 DEF EpochChanged, PageInv, SourceKnown, Gone, Slots, Typed, Blank, Page
  <2>2. \A c \in calls : c.for \notin {"anchor", "focus"}
    BY <1>8 DEF EpochChanged, Waits
  <2>3. \A c \in calls : c.for # "poll" => c.paper = page.paper /\ (Navigating(c) => c.step = "ready")
    <3>. SUFFICES ASSUME NEW c \in calls, c.for # "poll"
         PROVE  c.paper = page.paper /\ (Navigating(c) => c.step = "ready")
      OBVIOUS
    <3>1. Located(c) /\ Shaped(c)
      BY <1>0 DEF PageInv, CallsLocated, ShapedCalls
    <3>. QED  BY <2>1, <2>2, <3>1 DEF Located, Shaped, Navigating
  <2>. QED  BY <1>8, <2>1, <2>3, PaperOpens DEF EpochChanged
<1>9. ASSUME NEW i \in Slots, Dropped(i)
      PROVE  PageInv'
  <2>1. i = page.collab /\ UNCHANGED <<page, calls>>
    BY <1>9 DEF Dropped, PageInv, SourceKnown, Gone
  <2>2. /\ \A j \in Slots \ {i} : sessions'[j] = sessions[j]
        /\ sessions'[i].file = sessions[i].file /\ sessions'[i].ready = sessions[i].ready
    BY <1>9 DEF Dropped, Typed, Session
  <2>3. CallsLocated'
    BY <2>1, <2>2 DEF PageInv, CallsLocated, Located
  <2>4. SourceKnown'
    BY <2>1, <2>2 DEF PageInv, SourceKnown
  <2>5. OneNavigation' /\ AnchorPlaced' /\ ReviewsComing'
    BY <2>1 DEF PageInv, OneNavigation, Navigating, AnchorPlaced, ReviewsComing, Refreshing
  <2>. QED  BY <2>3, <2>4, <2>5 DEF PageInv
<1>10. ASSUME UNCHANGED <<page, sessions, calls>>
       PROVE  PageInv'
  BY <1>10 DEF PageInv, OneNavigation, Navigating, CallsLocated, Located, SourceKnown, AnchorPlaced,
               ReviewsComing, Refreshing
<1>11. CASE UNCHANGED vars \/ \E p \in Papers : Gate(p) \/ Built(p)
  BY <1>10, <1>11 DEF vars, Gate, Built
<1>. QED
  BY <1>1, <1>2, <1>3, <1>4, <1>5, <1>6, <1>7, <1>8, <1>9, <1>11, AnswersKeepPage, MountKeepsPage
  DEF Next, Mentor

LEMMA PageImplies == Typed /\ PageInv => OneSource /\ AnchorOfItsText /\ SettledPage
<1>. SUFFICES ASSUME Typed, PageInv
     PROVE  OneSource /\ AnchorOfItsText /\ SettledPage
  OBVIOUS
<1>1. OneSource
  BY DEF PageInv, SourceKnown, OneSource, Gone
<1>2. AnchorOfItsText
  BY DEF PageInv, AnchorPlaced, AnchorOfItsText
<1>3. SettledPage
  <2>1. \A c \in calls : Refreshing(c) => c.for # "poll"
    BY DEF Typed, ShapedCalls, Shaped, Refreshing
  <2>. QED  BY <2>1 DEF PageInv, ReviewsComing, SettledPage, Foreground
<1>. QED  BY <1>1, <1>2, <1>3

LEMMA PageHolds == ASSUME Waits PROVE Spec => [](Typed /\ PageInv)
<1>1. Init => Typed /\ PageInv
  BY InitTyped, InitPage
<1>2. Typed /\ PageInv /\ [Next]_vars => (Typed /\ PageInv)'
  BY NextTyped, NextKeepsPage
<1>. QED  BY <1>1, <1>2, PTL DEF Spec

\* One session is alive, the one whose text the editor shows: openFile ends the last
\* one before it joins the next (disposeSource), for any number of sessions.
THEOREM MentorOneSource == ASSUME Waits PROVE Spec => []OneSource
BY PageHolds, PageImplies, PTL

\* What is selected keeps its positions, its file and its paper together, whatever is
\* opened and whatever SyncTeX answers in between (anchorMappedLine, focusThread).
THEOREM MentorAnchorOfItsText == ASSUME Waits PROVE Spec => []AnchorOfItsText
BY PageHolds, PageImplies, PTL

\* When nothing is awaited the threads and the gate are of the open paper
\* (refreshThreads and refreshRounds at the end of openPaper).
THEOREM MentorSettledPage == ASSUME Waits PROVE Spec => []SettledPage
BY PageHolds, PageImplies, PTL

\* What createAnnotation records, it records on the paper where it was selected.
THEOREM MentorRecordedWhereSelected == ASSUME Waits PROVE Spec => RecordedWhereSelected
<1>1. Typed /\ PageInv => \A c \in calls : Take(c) => c.paper = c.anchor.paper
  BY DEF PageInv, CallsLocated, Located, Take
<1>2. Typed /\ PageInv /\ [Next]_vars => [\A c \in calls : Take(c) => c.paper = c.anchor.paper]_vars
  BY <1>1
<1>. QED  BY <1>2, PageHolds, PTL DEF RecordedWhereSelected, Spec
=============================================================================
