-------------------------- MODULE WriterPageProofs --------------------------
(***************************************************************************)
(* Proofs about the Writer's page, for any papers, files, edits and panels,  *)
(* every command and any number of sessions and changes.  Types hold whatever  *)
(* the Writer does; the rest is about a Writer who waits for what was asked.   *)
(***************************************************************************)
EXTENDS WriterPageProperties, TLAPS

\* No navigation or command overlaps another one, the notices of the server included.
Waits == Faults \cap {"overlap", "notice"} = {}

\* What the Writer waits for, and what goes on behind
Front(c) == c.for \notin {"poll", "auto"}
\* Panels are refreshed side by side; anything else is awaited alone.
Panel(c) == c.step \in AllPanels

LEMMA KindsAre ==
    AllKinds = {"create", "rename", "delete", "setMain", "upload", "structural", "details", "revert",
                "checkpoint", "sendReview", "endReview", "annotate", "save", "manual", "accept"}
BY DEF AllKinds, How

-----------------------------------------------------------------------------
(* Types *)

\* What a call holds, by what it awaits
Shaped(c) ==
    /\ ~Front(c) => c.step \in {"status", "build", "history", "reviews"}
    /\ Panel(c) => c.step \in Panels
    /\ c.step \in {"detail", "files"} => c.for \in {"open", "details"}
    /\ c.step = "file" => c.for \in {"open", "details", "nav", "accept"} /\ c.file \in Files
    /\ c.step \in {"reloadDetail", "reloadFiles"} => c.for = "nav" /\ c.file \in Files
    /\ c.step = "reload" => c.for = "open"
    /\ c.step = "ready" => c.for = "accept"
    /\ c.step = "status" => c.for = "poll"
    /\ c.step = "build" => c.for \in {"auto", "manual"}
    /\ c.step \in {"flush", "recheck", "command", "done"} => c.for \in AllKinds
    /\ c.step \in {"flush", "recheck", "command", "done", "ready"} \/ (c.step = "file" /\ c.for = "accept")
          => c.press \in Press

ShapedCalls == {c \in Call : Shaped(c)}
SoundSession == {s \in Session : s.alive => s.file \in Files}

\* Before a paper is opened there is nothing to answer, to type in or to build.
Blank ==
    /\ calls = {} /\ page.files = {} /\ page.timer = None /\ page.collab = 0
    /\ \A i \in Slots : ~sessions[i].alive

Typed ==
    /\ page \in Page /\ sessions \in [Slots -> SoundSession] /\ calls \subseteq ShapedCalls
    /\ edits \in [Edits -> Edit] /\ server \in [Papers -> Served]
    /\ page.paper = None => Blank

LEMMA TypedImplies == Typed => TypeOK
BY DEF Typed, TypeOK, ShapedCalls, SoundSession

LEMMA InitTyped == Init => Typed
<1>. SUFFICES ASSUME Init PROVE Typed
  OBVIOUS
<1>. USE PageAssumption
<1>1. page \in Page
  BY DEF Init, Page
<1>2. sessions \in [Slots -> SoundSession]
  BY DEF Init, SoundSession, Session, Gone
<1>3. edits \in [Edits -> Edit]
  BY DEF Init, Edit, Untyped
<1>4. server \in [Papers -> Served]
  <2>1. \A F \in SUBSET Names : [version |-> 1, epoch |-> 1, files |-> F, built |-> 0] \in Served
    BY DEF Served
  <2>. QED  BY <2>1 DEF Init
<1>5. calls = {} /\ Blank
  BY DEF Init, Blank, Gone, Slots
<1>. QED  BY <1>1, <1>2, <1>3, <1>4, <1>5 DEF Typed

\* Writing to one field of the model object keeps its type.
LEMMA PageUpdates ==
    \A m \in Page :
        /\ \A x \in {None} \cup Papers : /\ [m EXCEPT !.paper = x] \in Page /\ [m EXCEPT !.detail = x] \in Page
                                      /\ [m EXCEPT !.timer = x] \in Page
        /\ \A x \in Nat : [m EXCEPT !.version = x] \in Page
        /\ \A x \in SUBSET Files : [m EXCEPT !.files = x] \in Page
        /\ \A x \in {None} \cup Files : [m EXCEPT !.file = x] \in Page
        /\ \A x \in BOOLEAN : [m EXCEPT !.conflict = x] \in Page /\ [m EXCEPT !.shown = x] \in Page
        /\ \A x \in 0 .. MaxSessions : [m EXCEPT !.collab = x] \in Page /\ [m EXCEPT !.view = x] \in Page
        /\ \A x \in [Panels -> {None} \cup Papers] : [m EXCEPT !.panel = x] \in Page
        /\ \A x \in {None} \cup [paper : Papers, id : 1 .. MaxBuilds] : [m EXCEPT !.build = x] \in Page
<1>. TAKE m \in Page
<1>1. \A x \in {None} \cup Papers : [m EXCEPT !.paper = x] \in Page
  BY DEF Page
<1>2. \A x \in {None} \cup Papers : [m EXCEPT !.detail = x] \in Page
  BY DEF Page
<1>3. \A x \in {None} \cup Papers : [m EXCEPT !.timer = x] \in Page
  BY DEF Page
<1>4. \A x \in Nat : [m EXCEPT !.version = x] \in Page
  BY DEF Page
<1>5. \A x \in SUBSET Files : [m EXCEPT !.files = x] \in Page
  BY DEF Page
<1>6. \A x \in {None} \cup Files : [m EXCEPT !.file = x] \in Page
  BY DEF Page
<1>7. \A x \in BOOLEAN : [m EXCEPT !.conflict = x] \in Page
  BY DEF Page
<1>8. \A x \in BOOLEAN : [m EXCEPT !.shown = x] \in Page
  BY DEF Page
<1>9. \A x \in 0 .. MaxSessions : [m EXCEPT !.collab = x] \in Page
  BY DEF Page
<1>10. \A x \in 0 .. MaxSessions : [m EXCEPT !.view = x] \in Page
  BY DEF Page
<1>11. \A x \in [Panels -> {None} \cup Papers] : [m EXCEPT !.panel = x] \in Page
  BY DEF Page
<1>12. \A x \in {None} \cup [paper : Papers, id : 1 .. MaxBuilds] : [m EXCEPT !.build = x] \in Page
  BY DEF Page
<1>. QED  BY <1>1, <1>2, <1>3, <1>4, <1>5, <1>6, <1>7, <1>8, <1>9, <1>10, <1>11, <1>12

\* A write that leaves the open paper as it is
LEMMA PaperStays ==
    ASSUME NEW m \in Page
    PROVE  /\ \A x \in {None} \cup Papers : [m EXCEPT !.timer = x] \in Page /\ [m EXCEPT !.timer = x].paper = m.paper
           /\ \A x \in SUBSET Files : [m EXCEPT !.files = x] \in Page /\ [m EXCEPT !.files = x].paper = m.paper
           /\ \A x \in Nat : [m EXCEPT !.version = x] \in Page /\ [m EXCEPT !.version = x].paper = m.paper
           /\ \A x \in [Panels -> {None} \cup Papers] :
                 [m EXCEPT !.panel = x] \in Page /\ [m EXCEPT !.panel = x].paper = m.paper
<1>1. \A x : /\ [m EXCEPT !.timer = x].paper = m.paper /\ [m EXCEPT !.files = x].paper = m.paper
             /\ [m EXCEPT !.version = x].paper = m.paper /\ [m EXCEPT !.panel = x].paper = m.paper
  BY DEF Page
<1>2. /\ \A x \in {None} \cup Papers : [m EXCEPT !.timer = x] \in Page
      /\ \A x \in SUBSET Files : [m EXCEPT !.files = x] \in Page
      /\ \A x \in Nat : [m EXCEPT !.version = x] \in Page
      /\ \A x \in [Panels -> {None} \cup Papers] : [m EXCEPT !.panel = x] \in Page
  BY PageUpdates
<1>. QED  BY <1>1, <1>2

\* Writing to one field of a call keeps its type.
LEMMA CallUpdates ==
    \A c \in Call :
        /\ \A x \in Steps : [c EXCEPT !.step = x] \in Call
        /\ \A x \in Papers : [c EXCEPT !.paper = x] \in Call
        /\ \A x \in {None} \cup Files : [c EXCEPT !.file = x] \in Call
        /\ \A x \in Nat : [c EXCEPT !.version = x] \in Call
        /\ \A x \in 0 .. MaxSessions : [c EXCEPT !.slot = x] \in Call
        /\ \A x \in {None} \cup Press : [c EXCEPT !.press = x] \in Call
<1>. TAKE c \in Call
<1>1. \A x \in Steps : [c EXCEPT !.step = x] \in Call
  BY DEF Call
<1>2. \A x \in Papers : [c EXCEPT !.paper = x] \in Call
  BY DEF Call
<1>3. \A x \in {None} \cup Files : [c EXCEPT !.file = x] \in Call
  BY DEF Call
<1>4. \A x \in Nat : [c EXCEPT !.version = x] \in Call
  BY DEF Call
<1>5. \A x \in 0 .. MaxSessions : [c EXCEPT !.slot = x] \in Call
  BY DEF Call
<1>6. \A x \in {None} \cup Press : [c EXCEPT !.press = x] \in Call
  BY DEF Call
<1>. QED  BY <1>1, <1>2, <1>3, <1>4, <1>5, <1>6

\* Ends, flushes and adoptions keep the types of sessions and edits.
LEMMA SessionsEnd ==
    ASSUME Typed, NEW i
    PROVE  /\ Ended(sessions, i) \in [Slots -> SoundSession]
           /\ \A j \in Slots : Ended(sessions, i)[j].alive => j # i /\ Ended(sessions, i)[j] = sessions[j]
<1>1. Gone \in SoundSession /\ ~Gone.alive
  BY DEF Gone, SoundSession, Session
<1>. QED  BY <1>1 DEF Ended, Typed

LEMMA EditsMove ==
    ASSUME Typed, NEW i \in 0 .. MaxSessions
    PROVE  /\ Kept(edits, i) \in [Edits -> Edit] /\ Flushed(edits, i) \in [Edits -> Edit]
           /\ \A f : Adopted(edits, i, f) \in [Edits -> Edit]
           /\ \A u \in Edits :
                 /\ Kept(edits, i)[u].durable = edits[u].durable
                 /\ edits[u].slot # i => Kept(edits, i)[u] = edits[u]
                 /\ Flushed(edits, i)[u].slot = edits[u].slot
                 /\ edits[u].durable \/ edits[u].slot = i => Flushed(edits, i)[u].durable
                 /\ \A f : edits[u].durable \/ edits[u].slot # 0 => Adopted(edits, i, f)[u] = edits[u]
<1>1. \A u \in Edits : edits[u] \in Edit
  BY DEF Typed
<1>2. \A e \in Edit : [e EXCEPT !.slot = 0] \in Edit /\ [e EXCEPT !.slot = i] \in Edit
                       /\ [e EXCEPT !.durable = TRUE] \in Edit
  <2>. TAKE e \in Edit
  <2>1. \A x \in 0 .. MaxSessions : [e EXCEPT !.slot = x] \in Edit
    BY DEF Edit
  <2>2. [e EXCEPT !.durable = TRUE] \in Edit
    BY DEF Edit
  <2>3. 0 \in 0 .. MaxSessions
    BY PageAssumption
  <2>. QED  BY <2>1, <2>2, <2>3
<1>3. Kept(edits, i) \in [Edits -> Edit] /\ Flushed(edits, i) \in [Edits -> Edit]
      /\ \A f : Adopted(edits, i, f) \in [Edits -> Edit]
  BY <1>1, <1>2 DEF Kept, Flushed, Adopted
<1>4. \A u \in Edits :
                 /\ Kept(edits, i)[u].durable = edits[u].durable
                 /\ edits[u].slot # i => Kept(edits, i)[u] = edits[u]
                 /\ Flushed(edits, i)[u].slot = edits[u].slot
                 /\ edits[u].durable \/ edits[u].slot = i => Flushed(edits, i)[u].durable
                 /\ \A f : edits[u].durable \/ edits[u].slot # 0 => Adopted(edits, i, f)[u] = edits[u]
  BY <1>1 DEF Kept, Flushed, Adopted, Edit
<1>. QED  BY <1>3, <1>4

\* The calls that a handler may send for the paper that is open
LEMMA AskedShaped ==
    ASSUME Typed, page.paper \in Papers
    PROVE  /\ \A f \in Files : /\ [Ask("file", "nav") EXCEPT !.file = f] \in ShapedCalls
                               /\ [Ask("reloadDetail", "nav") EXCEPT !.file = f] \in ShapedCalls
           /\ {Ask("status", "poll"), Ask("build", "auto"), Ask("build", "manual"), Ask("reload", "open")}
                 \subseteq ShapedCalls
           /\ \A s \in Panels, k \in {"open"} \cup AllKinds : Ask(s, k) \in ShapedCalls
           /\ \A s \in Panels \cap {"history", "reviews"} : Ask(s, "poll") \in ShapedCalls
<1>. USE PageAssumption, KindsAre DEF Ask, ShapedCalls, Shaped, Front, Panel, AllPanels, Steps
<1>1. \A f \in Files : [Ask("file", "nav") EXCEPT !.file = f] \in ShapedCalls
  BY DEF Call
<1>2. \A f \in Files : [Ask("reloadDetail", "nav") EXCEPT !.file = f] \in ShapedCalls
  BY DEF Call
<1>3. {Ask("status", "poll"), Ask("build", "auto"), Ask("build", "manual"), Ask("reload", "open")}
                 \subseteq ShapedCalls
  BY DEF Call
<1>4. \A s \in Panels, k \in {"open"} \cup AllKinds : Ask(s, k) \in ShapedCalls
  BY DEF Call
<1>5. \A s \in Panels \cap {"history", "reviews"} : Ask(s, "poll") \in ShapedCalls
  BY DEF Call
<1>. HIDE DEF Ask, ShapedCalls
<1>. QED  BY <1>1, <1>2, <1>3, <1>4, <1>5
\* Two fields written at once are written one after the other.
LEMMA CallRewrites ==
    \A c \in Call, st \in Steps :
        /\ \A p \in Papers : /\ [c EXCEPT !.step = st, !.paper = p] \in Call
                             /\ \A f \in {None} \cup Files, v \in Nat :
                                   [c EXCEPT !.step = st, !.paper = p, !.file = f, !.version = v] \in Call
        /\ \A p \in Papers, f \in Files : [c EXCEPT !.step = st, !.paper = p, !.file = f] \in Call
        /\ \A v \in Nat, f \in {None} \cup Files : [c EXCEPT !.step = st, !.version = v, !.file = f] \in Call
<1>. TAKE c \in Call, st \in Steps
<1>. DEFINE d == [c EXCEPT !.step = st]
<1>1. d \in Call
  BY CallUpdates
<1>4. ASSUME NEW p \in Papers, NEW f \in {None} \cup Files, NEW v \in Nat
      PROVE  /\ [c EXCEPT !.step = st, !.paper = p] \in Call
             /\ [c EXCEPT !.step = st, !.paper = p, !.file = f] \in Call
             /\ [c EXCEPT !.step = st, !.version = v, !.file = f] \in Call
             /\ [c EXCEPT !.step = st, !.paper = p, !.file = f, !.version = v] \in Call
  <2>. DEFINE x1 == [c EXCEPT !.step = st, !.paper = p]
              x2 == [c EXCEPT !.step = st, !.paper = p, !.file = f]
              x3 == [c EXCEPT !.step = st, !.version = v, !.file = f]
              x4 == [c EXCEPT !.step = st, !.paper = p, !.file = f, !.version = v]
              y1 == [d EXCEPT !.paper = p]
              z3 == [d EXCEPT !.version = v]
              y2 == [y1 EXCEPT !.file = f]
              y3 == [z3 EXCEPT !.file = f]
              y4 == [y2 EXCEPT !.version = v]
  <2>1. x1 = y1 /\ x2 = y2 /\ x3 = y3 /\ x4 = y4
    BY DEF Call
  <2>. HIDE DEF d, x1, x2, x3, x4
  <2>2. y1 \in Call
    BY <1>1, CallUpdates
  <2>3. z3 \in Call
    BY <1>1, CallUpdates
  <2>. HIDE DEF y1, z3
  <2>4. y2 \in Call
    BY <2>2, CallUpdates
  <2>5. y3 \in Call
    BY <2>3, CallUpdates
  <2>. HIDE DEF y2, y3
  <2>6. y4 \in Call
    BY <2>4, CallUpdates
  <2>. HIDE DEF y4
  <2>7. x1 \in Call /\ x2 \in Call /\ x3 \in Call /\ x4 \in Call
    BY <2>1, <2>2, <2>4, <2>5, <2>6
  <2>. QED  BY <2>7 DEF x1, x2, x3, x4
<1>5. \A p \in Papers, f \in {None} \cup Files, v \in Nat :
             /\ [c EXCEPT !.step = st, !.paper = p] \in Call
             /\ [c EXCEPT !.step = st, !.paper = p, !.file = f] \in Call
             /\ [c EXCEPT !.step = st, !.version = v, !.file = f] \in Call
             /\ [c EXCEPT !.step = st, !.paper = p, !.file = f, !.version = v] \in Call
  BY <1>4
<1>6. \A p \in Papers : [c EXCEPT !.step = st, !.paper = p] \in Call
  <2>1. None \in {None} \cup Files /\ 0 \in Nat
    OBVIOUS
  <2>. QED  BY <1>5, <2>1
<1>7. \A p \in Papers, f \in Files : [c EXCEPT !.step = st, !.paper = p, !.file = f] \in Call
  <2>1. 0 \in Nat
    OBVIOUS
  <2>. QED  BY <1>5, <2>1
<1>8. \A v \in Nat, f \in {None} \cup Files : [c EXCEPT !.step = st, !.version = v, !.file = f] \in Call
  <2>1. c.paper \in Papers
    BY DEF Call
  <2>. QED  BY <1>5, <2>1
<1>. QED  BY <1>5, <1>6, <1>7, <1>8

\* A command as it goes out, to the paper and the file that are open
LEMMA CallSent ==
    ASSUME page \in Page, page.paper \in Papers, NEW c \in Call, c.for \in AllKinds, c.press \in Press
    PROVE  /\ Send(c) \in ShapedCalls /\ Send(c).step = "command" /\ Send(c).for = c.for
           /\ Send(c).paper = page.paper /\ Send(c).file = page.file /\ Send(c).press = c.press
           /\ Send(c).slot = c.slot
<1>1. Send(c) \in Call
  <2>1. "command" \in Steps /\ page.file \in {None} \cup Files /\ page.version \in Nat
    BY DEF Steps, Page
  <2>. QED  BY <2>1, CallRewrites DEF Send
<1>2. /\ Send(c).step = "command" /\ Send(c).for = c.for /\ Send(c).press = c.press
      /\ Send(c).paper = page.paper /\ Send(c).file = page.file /\ Send(c).slot = c.slot
  BY DEF Send, Call
<1>3. Shaped(Send(c))
  BY <1>2, KindsAre DEF Shaped, Front, Panel, AllPanels
<1>. QED  BY <1>1, <1>2, <1>3 DEF ShapedCalls

LEMMA PressedTyped ==
    ASSUME Typed, page.paper \in Papers
    PROVE  Pressed \in Press /\ Pressed.paper = page.paper /\ Pressed.file = page.file
           /\ Pressed.typed = UnsavedIn(page.view) /\ UnsavedIn(page.view) \subseteq Edits
BY DEF Typed, Page, Pressed, Press, UnsavedIn

\* A command when the button is pressed: it waits for the flush, or goes out at once.
LEMMA FirstStepShaped ==
    ASSUME Typed, page.paper \in Papers, NEW k \in AllKinds
    PROVE  LET d == FirstStep(k)
           IN  /\ d \in ShapedCalls /\ d.for = k /\ d.paper = page.paper /\ d.press = Pressed
               /\ \/ d.step = "command" /\ d.file = page.file /\ (How[k].flush = "no" \/ page.collab = 0)
                  \/ d.step = "flush" /\ d.slot = page.collab /\ page.collab # 0 /\ How[k].flush # "no"
<1>. DEFINE c == [Ask("flush", k) EXCEPT !.press = Pressed, !.slot = page.collab]
<1>1. page \in Page /\ page.collab \in 0 .. MaxSessions /\ Pressed \in Press
  BY PressedTyped DEF Typed, Page
<1>2. Ask("flush", k) \in Call
  BY <1>1, PageAssumption DEF Ask, Call, Steps
<1>3. c \in Call /\ c.for = k /\ c.paper = page.paper /\ c.press = Pressed /\ c.step = "flush" /\ c.slot = page.collab
  <2>. DEFINE a == [Ask("flush", k) EXCEPT !.press = Pressed]
  <2>1. a \in Call
    BY <1>1, <1>2, CallUpdates
  <2>2. [a EXCEPT !.slot = page.collab] \in Call
    <3>. HIDE DEF a
    <3>. QED  BY <1>1, <2>1, CallUpdates
  <2>3. c = [a EXCEPT !.slot = page.collab]
    BY <1>2 DEF Call
  <2>4. c.for = k /\ c.paper = page.paper /\ c.press = Pressed /\ c.step = "flush" /\ c.slot = page.collab
    BY DEF Ask
  <2>. QED  BY <2>2, <2>3, <2>4, Zenon
<1>4. c \in ShapedCalls
  <2>. HIDE DEF c
  <2>. QED  BY <1>1, <1>3, KindsAre DEF ShapedCalls, Shaped, Front, Panel, AllPanels
<1>5. FirstStep(k) = IF How[k].flush = "no" \/ page.collab = 0 THEN Send(c) ELSE c
  BY DEF FirstStep
<1>. HIDE DEF c
<1>. QED  BY <1>1, <1>3, <1>4, <1>5, CallSent
\* openPaper's request, while no paper is open as well
LEMMA DetailAsked ==
    ASSUME NEW p \in Papers, NEW for \in {"open", "details"}
    PROVE  LET d == [Ask("detail", for) EXCEPT !.paper = p]
           IN  d \in ShapedCalls /\ d.step = "detail" /\ d.for = for /\ d.paper = p
<1>. DEFINE d == [Ask("detail", for) EXCEPT !.paper = p]
<1>1. d = [step |-> "detail", for |-> for, paper |-> p, file |-> None, version |-> 0, slot |-> 0, press |-> None]
  BY DEF Ask
<1>2. d \in Call
  BY <1>1, KindsAre, PageAssumption DEF Call, Steps
<1>3. d.step = "detail" /\ d.for = for /\ d.paper = p
  BY <1>1
<1>. HIDE DEF d
<1>4. Shaped(d)
  BY <1>3 DEF Shaped, Front, Panel, AllPanels
<1>. QED  BY <1>2, <1>3, <1>4 DEF ShapedCalls, d

\* writerAcceptSuggestion's request for the file of the suggestion
LEMMA AcceptAsked ==
    ASSUME Typed, page.paper \in Papers, NEW f \in Files
    PROVE  LET d == [Ask("file", "accept") EXCEPT !.file = f, !.press = [Pressed EXCEPT !.file = f, !.typed = {}]]
           IN  /\ d \in ShapedCalls /\ d.step = "file" /\ d.for = "accept" /\ d.paper = page.paper /\ d.file = f
               /\ d.press.file = f /\ d.press.typed = {} /\ d.press.paper = page.paper
<1>. DEFINE q == [Pressed EXCEPT !.file = f, !.typed = {}]
            d == [Ask("file", "accept") EXCEPT !.file = f, !.press = q]
<1>1. q \in Press /\ q.paper = page.paper /\ q.file = f /\ q.typed = {}
  BY DEF Pressed, Press
<1>. HIDE DEF q
<1>2. Ask("file", "accept") \in Call
  BY KindsAre, PageAssumption DEF Ask, Call, Steps
<1>3. d \in Call
  <2>. DEFINE x == [Ask("file", "accept") EXCEPT !.file = f]
  <2>1. x \in Call
    BY <1>2, CallUpdates
  <2>2. [x EXCEPT !.press = q] \in Call
    <3>. HIDE DEF x
    <3>. QED  BY <1>1, <2>1, CallUpdates
  <2>3. d = [x EXCEPT !.press = q]
    BY <1>2 DEF Call
  <2>. HIDE DEF x, d
  <2>. QED  BY <2>2, <2>3
<1>4. d.step = "file" /\ d.for = "accept" /\ d.paper = page.paper /\ d.file = f /\ d.press = q
  BY DEF Ask
<1>. HIDE DEF d
<1>5. Shaped(d)
  BY <1>1, <1>4 DEF Shaped, Front, Panel, AllPanels
<1>6. d \in ShapedCalls
  BY <1>3, <1>5 DEF ShapedCalls
<1>. QED  BY <1>1, <1>4, <1>6 DEF d, q

\* What becomes of a call, handler by handler
Became(c, d, step, p, f) ==
    /\ d \in ShapedCalls /\ d.step = step /\ d.for = c.for /\ d.paper = p /\ d.file = f /\ d.press = c.press

LEMMA CallMoves ==
    ASSUME Typed, page.paper \in Papers, NEW c \in ShapedCalls
    PROVE  /\ \A d : c.step = "detail" /\ d = [c EXCEPT !.step = "files"]
                 => Became(c, d, "files", c.paper, c.file)
           /\ \A f \in Files : \A d : c.step = "files" /\ d = [c EXCEPT !.step = "file", !.paper = page.paper, !.file = f]
                 => Became(c, d, "file", page.paper, f)
           /\ \A d : c.step = "file" /\ c.for = "accept" /\ d = [c EXCEPT !.step = "ready"]
                 => Became(c, d, "ready", c.paper, c.file)
           /\ \A d : c.step = "flush" /\ d = [c EXCEPT !.step = "recheck", !.paper = page.paper]
                 => Became(c, d, "recheck", page.paper, c.file)
           /\ \A v \in Nat : \A d : c.step = "recheck" /\ d = [Send(c) EXCEPT !.version = v]
                 => Became(c, d, "command", page.paper, page.file)
           /\ \A v \in Nat, f \in {None} \cup Files : \A d : c.step = "command" /\ d = [c EXCEPT !.step = "done", !.version = v, !.file = f]
                 => Became(c, d, "done", c.paper, f)
           /\ \A d : c.step = "reloadDetail" /\ d = [c EXCEPT !.step = "reloadFiles", !.paper = page.paper]
                 => Became(c, d, "reloadFiles", page.paper, c.file)
           /\ \A d : c.step = "reloadFiles" /\ d = [c EXCEPT !.step = "file", !.paper = page.paper]
                 => Became(c, d, "file", page.paper, c.file)
<1>0. c \in Call /\ Shaped(c) /\ {"files", "file", "ready", "recheck", "done", "reloadFiles"} \subseteq Steps
  BY DEF ShapedCalls, Steps
<1>1. \A d : c.step = "detail" /\ d = [c EXCEPT !.step = "files"]
          => Became(c, d, "files", c.paper, c.file)
  <2>. TAKE d
  <2>. HAVE c.step = "detail" /\ d = [c EXCEPT !.step = "files"]
  <2>1. d \in Call
    BY <1>0, CallUpdates
  <2>2. d.step = "files" /\ d.for = c.for /\ d.paper = c.paper /\ d.file = c.file /\ d.press = c.press
    BY <1>0 DEF Call
  <2>3. Shaped(d)
    BY <1>0, <2>2, KindsAre DEF Shaped, Front, Panel, AllPanels
  <2>. QED  BY <2>1, <2>2, <2>3 DEF Became, ShapedCalls
<1>2. \A f \in Files : \A d : c.step = "files" /\ d = [c EXCEPT !.step = "file", !.paper = page.paper, !.file = f]
          => Became(c, d, "file", page.paper, f)
  <2>. TAKE f \in Files
  <2>. TAKE d
  <2>. HAVE c.step = "files" /\ d = [c EXCEPT !.step = "file", !.paper = page.paper, !.file = f]
  <2>1. d \in Call
    BY <1>0, CallRewrites
  <2>2. d.step = "file" /\ d.for = c.for /\ d.paper = page.paper /\ d.file = f /\ d.press = c.press
    BY <1>0 DEF Call
  <2>3. Shaped(d)
    BY <1>0, <2>2, KindsAre DEF Shaped, Front, Panel, AllPanels
  <2>. QED  BY <2>1, <2>2, <2>3 DEF Became, ShapedCalls
<1>3. \A d : c.step = "file" /\ c.for = "accept" /\ d = [c EXCEPT !.step = "ready"]
          => Became(c, d, "ready", c.paper, c.file)
  <2>. TAKE d
  <2>. HAVE c.step = "file" /\ c.for = "accept" /\ d = [c EXCEPT !.step = "ready"]
  <2>1. d \in Call
    BY <1>0, CallUpdates
  <2>2. d.step = "ready" /\ d.for = c.for /\ d.paper = c.paper /\ d.file = c.file /\ d.press = c.press
    BY <1>0 DEF Call
  <2>3. Shaped(d)
    BY <1>0, <2>2, KindsAre DEF Shaped, Front, Panel, AllPanels
  <2>. QED  BY <2>1, <2>2, <2>3 DEF Became, ShapedCalls
<1>4. \A d : c.step = "flush" /\ d = [c EXCEPT !.step = "recheck", !.paper = page.paper]
          => Became(c, d, "recheck", page.paper, c.file)
  <2>. TAKE d
  <2>. HAVE c.step = "flush" /\ d = [c EXCEPT !.step = "recheck", !.paper = page.paper]
  <2>1. d \in Call
    BY <1>0, CallRewrites
  <2>2. d.step = "recheck" /\ d.for = c.for /\ d.paper = page.paper /\ d.file = c.file /\ d.press = c.press
    BY <1>0 DEF Call
  <2>3. Shaped(d)
    BY <1>0, <2>2, KindsAre DEF Shaped, Front, Panel, AllPanels
  <2>. QED  BY <2>1, <2>2, <2>3 DEF Became, ShapedCalls
<1>5. \A v \in Nat : \A d : c.step = "recheck" /\ d = [Send(c) EXCEPT !.version = v]
          => Became(c, d, "command", page.paper, page.file)
  <2>. TAKE v \in Nat
  <2>. TAKE d
  <2>. HAVE c.step = "recheck" /\ d = [Send(c) EXCEPT !.version = v]
  <2>1. c.for \in AllKinds /\ c.press \in Press /\ page \in Page
    BY <1>0 DEF Shaped, Typed
  <2>2. PICK e : e = Send(c)
    OBVIOUS
  <2>3. e \in Call /\ e.step = "command" /\ e.for = c.for /\ e.paper = page.paper /\ e.file = page.file /\ e.press = c.press
    BY <1>0, <2>1, <2>2, CallSent DEF ShapedCalls
  <2>4. d \in Call
    BY <2>2, <2>3, CallUpdates
  <2>5. d.step = "command" /\ d.for = c.for /\ d.paper = page.paper /\ d.file = page.file /\ d.press = c.press
    BY <2>2, <2>3 DEF Call
  <2>6. Shaped(d)
    BY <2>1, <2>5, KindsAre DEF Shaped, Front, Panel, AllPanels
  <2>. QED  BY <2>4, <2>5, <2>6 DEF Became, ShapedCalls
<1>6. \A v \in Nat, f \in {None} \cup Files : \A d : c.step = "command" /\ d = [c EXCEPT !.step = "done", !.version = v, !.file = f]
          => Became(c, d, "done", c.paper, f)
  <2>. TAKE v \in Nat, f \in {None} \cup Files
  <2>. TAKE d
  <2>. HAVE c.step = "command" /\ d = [c EXCEPT !.step = "done", !.version = v, !.file = f]
  <2>1. d \in Call
    BY <1>0, CallRewrites
  <2>2. d.step = "done" /\ d.for = c.for /\ d.paper = c.paper /\ d.file = f /\ d.press = c.press
    BY <1>0 DEF Call
  <2>3. Shaped(d)
    BY <1>0, <2>2, KindsAre DEF Shaped, Front, Panel, AllPanels
  <2>. QED  BY <2>1, <2>2, <2>3 DEF Became, ShapedCalls
<1>7. \A d : c.step = "reloadDetail" /\ d = [c EXCEPT !.step = "reloadFiles", !.paper = page.paper]
          => Became(c, d, "reloadFiles", page.paper, c.file)
  <2>. TAKE d
  <2>. HAVE c.step = "reloadDetail" /\ d = [c EXCEPT !.step = "reloadFiles", !.paper = page.paper]
  <2>1. d \in Call
    BY <1>0, CallRewrites
  <2>2. d.step = "reloadFiles" /\ d.for = c.for /\ d.paper = page.paper /\ d.file = c.file /\ d.press = c.press
    BY <1>0 DEF Call
  <2>3. Shaped(d)
    BY <1>0, <2>2, KindsAre DEF Shaped, Front, Panel, AllPanels
  <2>. QED  BY <2>1, <2>2, <2>3 DEF Became, ShapedCalls
<1>8. \A d : c.step = "reloadFiles" /\ d = [c EXCEPT !.step = "file", !.paper = page.paper]
          => Became(c, d, "file", page.paper, c.file)
  <2>. TAKE d
  <2>. HAVE c.step = "reloadFiles" /\ d = [c EXCEPT !.step = "file", !.paper = page.paper]
  <2>1. d \in Call
    BY <1>0, CallRewrites
  <2>2. d.step = "file" /\ d.for = c.for /\ d.paper = page.paper /\ d.file = c.file /\ d.press = c.press
    BY <1>0 DEF Call
  <2>3. Shaped(d)
    BY <1>0, <2>2, KindsAre DEF Shaped, Front, Panel, AllPanels
  <2>. QED  BY <2>1, <2>2, <2>3 DEF Became, ShapedCalls
<1>. QED  BY <1>1, <1>2, <1>3, <1>4, <1>5, <1>6, <1>7, <1>8

\* writerAcceptSuggestion's edit, whose flush it waits for
LEMMA EditFlushed ==
    ASSUME Typed, page.paper \in Papers, NEW c \in ShapedCalls, c.step = "ready", NEW u \in Edits
    PROVE  LET d == [c EXCEPT !.step = "flush", !.slot = page.collab, !.press.typed = {u}]
           IN  /\ d \in ShapedCalls /\ d.step = "flush" /\ d.for = "accept" /\ d.paper = c.paper /\ d.slot = page.collab
               /\ d.press.typed = {u} /\ d.press.file = c.press.file /\ d.press.paper = c.press.paper
<1>. DEFINE q == [c.press EXCEPT !.typed = {u}]
            x == [c EXCEPT !.step = "flush"]
            y == [x EXCEPT !.slot = page.collab]
            z == [y EXCEPT !.press = q]
            d == [c EXCEPT !.step = "flush", !.slot = page.collab, !.press.typed = {u}]
<1>0. c \in Call /\ Shaped(c) /\ c.for = "accept" /\ c.press \in Press /\ "flush" \in Steps
      /\ page.collab \in 0 .. MaxSessions
  BY DEF ShapedCalls, Shaped, Steps, Typed, Page
<1>1. q \in Press /\ q.typed = {u} /\ q.file = c.press.file /\ q.paper = c.press.paper
  BY <1>0 DEF Press
<1>2. d = z
  BY <1>0 DEF Call
<1>3. d.step = "flush" /\ d.for = "accept" /\ d.paper = c.paper /\ d.slot = page.collab /\ d.press = q
  BY <1>0 DEF Call
<1>. HIDE DEF q, d
<1>4. z \in Call
  <2>1. x \in Call
    BY <1>0, CallUpdates
  <2>. HIDE DEF x
  <2>2. y \in Call
    BY <1>0, <2>1, CallUpdates
  <2>. HIDE DEF y
  <2>. QED  BY <1>1, <2>2, CallUpdates
<1>. HIDE DEF z
<1>5. Shaped(d)
  BY <1>1, <1>3, KindsAre DEF Shaped, Front, Panel, AllPanels
<1>6. d \in ShapedCalls
  BY <1>2, <1>4, <1>5 DEF ShapedCalls
<1>7. /\ d \in ShapedCalls /\ d.step = "flush" /\ d.for = "accept" /\ d.paper = c.paper /\ d.slot = page.collab
      /\ d.press.typed = {u} /\ d.press.file = c.press.file /\ d.press.paper = c.press.paper
  BY <1>1, <1>3, <1>6
<1>. QED  BY <1>7, Zenon DEF d
\* The model object when the editor closes, and when a paper opens
LEMMA ClosedPageIs ==
    \A m \in Page :
        LET n == ClosedPage(m)
        IN  /\ n \in Page /\ n.collab = 0 /\ n.view = 0 /\ n.paper = m.paper /\ n.file = m.file
            /\ n.files = m.files /\ n.detail = m.detail /\ n.panel = m.panel /\ n.timer = m.timer
<1>. SUFFICES ASSUME NEW m \in Page, NEW n, n = ClosedPage(m)
     PROVE  /\ n \in Page /\ n.collab = 0 /\ n.view = 0 /\ n.paper = m.paper /\ n.file = m.file
            /\ n.files = m.files /\ n.detail = m.detail /\ n.panel = m.panel /\ n.timer = m.timer
  OBVIOUS
<1>. DEFINE a == [m EXCEPT !.collab = 0]
<1>1. n = [a EXCEPT !.view = 0]
  BY DEF ClosedPage
<1>2. 0 \in 0 .. MaxSessions
  BY PageAssumption
<1>3. a \in Page
  BY <1>2, PageUpdates
<1>4. n \in Page
  <2>. HIDE DEF a
  <2>. QED  BY <1>1, <1>2, <1>3, PageUpdates
<1>. QED  BY <1>4 DEF ClosedPage, Page

LEMMA OpenedPageIs ==
    \A m \in Page, p \in Papers :
        LET n == [ClosedPage(m) EXCEPT !.timer = None, !.build = None, !.shown = FALSE, !.paper = p, !.file = None]
        IN  /\ n \in Page /\ n.collab = 0 /\ n.view = 0 /\ n.paper = p /\ n.file = None
            /\ n.files = m.files /\ n.detail = m.detail /\ n.panel = m.panel /\ n.timer = None
<1>. TAKE m \in Page, p \in Papers
<1>1. PICK s : s = ClosedPage(m)
  OBVIOUS
<1>2. /\ s \in Page /\ s.collab = 0 /\ s.view = 0
      /\ s.files = m.files /\ s.detail = m.detail /\ s.panel = m.panel
  BY <1>1, ClosedPageIs
<1>. DEFINE a == [s EXCEPT !.timer = None]
            b == [a EXCEPT !.build = None]
            c == [b EXCEPT !.shown = FALSE]
            d == [c EXCEPT !.paper = p]
            e == [d EXCEPT !.file = None]
            n == [s EXCEPT !.timer = None, !.build = None, !.shown = FALSE, !.paper = p, !.file = None]
<1>3. n = e
  BY <1>2 DEF Page
<1>4. e \in Page
  <2>1. a \in Page  BY <1>2, PageUpdates
  <2>. HIDE DEF a
  <2>2. b \in Page  BY <2>1, PageUpdates
  <2>. HIDE DEF b
  <2>3. c \in Page  BY <2>2, PageUpdates
  <2>. HIDE DEF c
  <2>4. d \in Page  BY <2>3, PageUpdates
  <2>. HIDE DEF d
  <2>. QED  BY <2>4, PageUpdates
<1>5. /\ n.collab = 0 /\ n.view = 0 /\ n.paper = p /\ n.file = None
      /\ n.files = m.files /\ n.detail = m.detail /\ n.panel = m.panel /\ n.timer = None
  BY <1>2 DEF Page
<1>. HIDE DEF e, n
<1>6. /\ n \in Page /\ n.collab = 0 /\ n.view = 0 /\ n.paper = p /\ n.file = None
      /\ n.files = m.files /\ n.detail = m.detail /\ n.panel = m.panel /\ n.timer = None
  BY <1>3, <1>4, <1>5
<1>. QED  BY <1>1, <1>6 DEF n

\* The numbers that the page reads from the server
LEMMA ServedIs ==
    ASSUME Typed, NEW p \in Papers
    PROVE  /\ server[p].version \in Nat /\ server[p].built \in 0 .. MaxBuilds
           /\ FilesOn(p) \subseteq Files /\ \A f \in FilesOn(p) : f.paper = p
<1>1. server[p] \in Served
  BY DEF Typed
<1>. QED  BY <1>1, PageAssumption DEF Served, FilesOn, Files

\* A step that leaves a paper open keeps the types when its parts do.
LEMMA StaysTyped ==
    ASSUME page' \in Page, page'.paper # None,
           sessions' \in [Slots -> SoundSession], calls' \subseteq ShapedCalls,
           edits' \in [Edits -> Edit], server' \in [Papers -> Served]
    PROVE  Typed'
<1>. QED  BY DEF Typed

\* Whoever has a call, a file, a timer or a session has a paper.
LEMMA PaperIsOpen ==
    ASSUME Typed, calls # {} \/ page.files # {} \/ page.timer # None \/ page.collab # 0
                  \/ \E i \in Slots : sessions[i].alive
    PROVE  page.paper \in Papers /\ page.paper # None
BY PageAssumption DEF Typed, Blank, Page

\* A paper can be opened at any time, the first one as well.
LEMMA OpeningTyped ==
    ASSUME Typed, NEW p \in Papers, NEW for \in {"open", "details"}, NEW rest \in SUBSET calls,
           Opening(p, for, rest), UNCHANGED server
    PROVE  Typed'
<1>1. [Ask("detail", for) EXCEPT !.paper = p] \in ShapedCalls
  BY DetailAsked
<1>2. calls' \subseteq ShapedCalls
  BY <1>1 DEF Opening, Rejected, Typed
<1>3. page.collab \in 0 .. MaxSessions /\ page \in Page
  BY DEF Typed, Page
<1>4. sessions' \in [Slots -> SoundSession] /\ edits' \in [Edits -> Edit]
  BY <1>3, SessionsEnd, EditsMove DEF Opening, CloseEditor
<1>5. page' \in Page /\ page'.paper = p
  BY <1>3, OpenedPageIs DEF Opening
<1>. QED  BY <1>2, <1>4, <1>5, StaysTyped, PageAssumption DEF Typed

\* The editor closes, and a call goes out for the file that comes next.
LEMMA ClosingTyped ==
    ASSUME Typed, page.paper \in Papers, NEW d \in ShapedCalls, NEW rest \in SUBSET calls,
           CloseEditor, page' \in Page, page'.paper = page.paper,
           calls' = Rejected(rest, page.collab) \cup {d}, UNCHANGED server
    PROVE  Typed'
<1>1. calls' \subseteq ShapedCalls
  BY DEF Rejected, Typed
<1>2. page.collab \in 0 .. MaxSessions
  BY DEF Typed, Page
<1>3. sessions' \in [Slots -> SoundSession] /\ edits' \in [Edits -> Edit]
  BY <1>2, SessionsEnd, EditsMove DEF CloseEditor
<1>. QED  BY <1>1, <1>3, StaysTyped, PageAssumption DEF Typed

LEMMA RefreshesShaped ==
    ASSUME Typed, page.paper \in Papers, NEW for \in {"open", "details"}
    PROVE  Refreshes(for) \subseteq ShapedCalls
BY AskedShaped, KindsAre DEF Refreshes
\* The model object after refreshPaperDetail, openFile and refreshBuildStatus
Detailed(m, p, v) == [m EXCEPT !.detail = p, !.version = v]
Filed(m, f, v, i) == [m EXCEPT !.file = f, !.version = v, !.conflict = FALSE, !.collab = i]

LEMMA DetailPageIs ==
    \A m \in Page, p \in Papers, v \in Nat :
        LET n == Detailed(m, p, v)
        IN  /\ n \in Page /\ n.collab = m.collab /\ n.view = m.view /\ n.paper = m.paper /\ n.file = m.file
            /\ n.files = m.files /\ n.detail = p /\ n.panel = m.panel /\ n.timer = m.timer
<1>. TAKE m \in Page, p \in Papers, v \in Nat
<1>. DEFINE a == [m EXCEPT !.detail = p]
            n == Detailed(m, p, v)
<1>1. n = [a EXCEPT !.version = v]
  BY DEF Page, Detailed
<1>2. a \in Page
  BY PageUpdates
<1>3. n \in Page
  <2>. HIDE DEF a
  <2>. QED  BY <1>1, <1>2, PageUpdates
<1>. QED  BY <1>3 DEF Page, Detailed

LEMMA FilePageIs ==
    \A m \in Page, f \in Files, v \in Nat, i \in 0 .. MaxSessions :
        LET n == Filed(m, f, v, i)
        IN  /\ n \in Page /\ n.collab = i /\ n.view = m.view /\ n.paper = m.paper /\ n.file = f
            /\ n.files = m.files /\ n.detail = m.detail /\ n.panel = m.panel /\ n.timer = m.timer
<1>. TAKE m \in Page, f \in Files, v \in Nat, i \in 0 .. MaxSessions
<1>. DEFINE a == [m EXCEPT !.file = f]
            b == [a EXCEPT !.version = v]
            c == [b EXCEPT !.conflict = FALSE]
            d == [c EXCEPT !.collab = i]
            n == Filed(m, f, v, i)
<1>1. n = d
  BY DEF Page, Filed
<1>2. d \in Page
  <2>1. a \in Page  BY PageUpdates
  <2>. HIDE DEF a
  <2>2. b \in Page  BY <2>1, PageUpdates
  <2>. HIDE DEF b
  <2>3. c \in Page  BY <2>2, PageUpdates
  <2>. HIDE DEF c
  <2>. QED  BY <2>3, PageUpdates
<1>3. /\ n.collab = i /\ n.view = m.view /\ n.paper = m.paper /\ n.file = f
      /\ n.files = m.files /\ n.detail = m.detail /\ n.panel = m.panel /\ n.timer = m.timer
  BY DEF Page, Filed
<1>. HIDE DEF d
<1>. QED  BY <1>1, <1>2, <1>3

LEMMA StatusPageIs ==
    ASSUME Typed, NEW c \in Call
    PROVE  LET n == Status(c)
           IN  /\ n \in Page /\ n.collab = page.collab /\ n.view = page.view /\ n.paper = page.paper /\ n.file = page.file
               /\ n.files = page.files /\ n.detail = page.detail /\ n.panel = page.panel /\ n.timer = page.timer
<1>. DEFINE id == server[c.paper].built
            b == [paper |-> c.paper, id |-> id]
            m == [page EXCEPT !.build = b]
<1>1. page \in Page /\ c.paper \in Papers /\ id \in 0 .. MaxBuilds
  BY ServedIs DEF Typed, Call
<1>2. CASE id = 0
  <2>1. Status(c) = [page EXCEPT !.shown = FALSE]
    BY <1>2 DEF Status
  <2>2. [page EXCEPT !.shown = FALSE] \in Page
    BY <1>1, PageUpdates
  <2>. QED  BY <1>1, <2>1, <2>2 DEF Page
<1>3. CASE id # 0
  <2>1. b \in [paper : Papers, id : 1 .. MaxBuilds]
    BY <1>1, <1>3, PageAssumption
  <2>2. Status(c) = [page EXCEPT !.build = b, !.shown = TRUE]
    BY <1>3 DEF Status
  <2>. HIDE DEF b
  <2>3. m \in Page
    BY <1>1, <2>1, PageUpdates
  <2>4. Status(c) = [m EXCEPT !.shown = TRUE]
    BY <1>1, <2>2 DEF Page
  <2>5. /\ m.collab = page.collab /\ m.view = page.view /\ m.paper = page.paper /\ m.file = page.file
        /\ m.files = page.files /\ m.detail = page.detail /\ m.panel = page.panel /\ m.timer = page.timer
    BY <1>1 DEF Page
  <2>. HIDE DEF m
  <2>6. [m EXCEPT !.shown = TRUE] \in Page
    BY <2>3, PageUpdates
  <2>. QED  BY <2>3, <2>4, <2>5, <2>6 DEF Page
<1>. QED  BY <1>2, <1>3

\* What a command makes of a paper is a paper of the server.
LEMMA OutcomesTyped ==
    ASSUME Typed, NEW c \in ShapedCalls, c.step = "command", Accepts(c), NEW o \in Outcomes(c)
    PROVE  o[1] \in Served /\ o[1].version \in Nat /\ o[2] \in {None} \cup Files
<1>. DEFINE s == server[c.paper]
            next == IF c.for \in Changing THEN [s EXCEPT !.version = s.version + 1] ELSE s
<1>1. c.paper \in Papers /\ s \in Served /\ c.file \in {None} \cup Files /\ c.for \in AllKinds
  BY DEF ShapedCalls, Shaped, Call, Typed
<1>2. c.for \in Changing => s.version + 1 \in 1 .. MaxChanges + 1 /\ s.epoch + 1 \in 1 .. MaxChanges + 1
  <2>. SUFFICES ASSUME c.for \in Changing
       PROVE  s.version + 1 \in 1 .. MaxChanges + 1 /\ s.epoch + 1 \in 1 .. MaxChanges + 1
    OBVIOUS
  <2>1. s.version + s.epoch < MaxChanges + 2
    BY <1>1 DEF Accepts, Changeable
  <2>2. s.version \in 1 .. MaxChanges + 1 /\ s.epoch \in 1 .. MaxChanges + 1
    BY <1>1 DEF Served
  <2>. HIDE DEF s
  <2>. QED  BY <2>1, <2>2, PageAssumption
<1>3. /\ \A v \in 1 .. MaxChanges + 1, t \in Served :
            [t EXCEPT !.version = v] \in Served /\ [t EXCEPT !.epoch = v] \in Served
      /\ \A F \in SUBSET Names, t \in Served : [t EXCEPT !.files = F] \in Served
      /\ \A t \in Served : t.version \in Nat /\ t.files \in SUBSET Names
  <2>1. \A v \in 1 .. MaxChanges + 1, t \in Served : [t EXCEPT !.version = v] \in Served
    BY DEF Served
  <2>2. \A v \in 1 .. MaxChanges + 1, t \in Served : [t EXCEPT !.epoch = v] \in Served
    BY DEF Served
  <2>3. \A F \in SUBSET Names, t \in Served : [t EXCEPT !.files = F] \in Served
    BY DEF Served
  <2>4. \A t \in Served : t.version \in Nat /\ t.files \in SUBSET Names
    BY PageAssumption DEF Served
  <2>. QED  BY <2>1, <2>2, <2>3, <2>4
<1>. HIDE DEF s
<1>4. next \in Served
  BY <1>1, <1>2, <1>3
<1>. HIDE DEF next
<1>5. CASE c.for \in {"create", "upload"}
  <2>1. PICK n \in Names \ s.files : o = <<[next EXCEPT !.files = s.files \cup {n}], [paper |-> c.paper, name |-> n]>>
    BY <1>5 DEF Outcomes, s, next
  <2>2. s.files \cup {n} \in SUBSET Names
    BY <1>1, <1>3
  <2>3. [next EXCEPT !.files = s.files \cup {n}] \in Served
    BY <1>3, <1>4, <2>2
  <2>4. [paper |-> c.paper, name |-> n] \in Files
    BY <1>1 DEF Files
  <2>5. o[1] = [next EXCEPT !.files = s.files \cup {n}] /\ o[2] = [paper |-> c.paper, name |-> n]
    BY <2>1
  <2>. QED  BY <1>3, <2>3, <2>4, <2>5
<1>6. CASE c.for = "delete"
  <2>1. o = <<[next EXCEPT !.files = s.files \ {c.file.name}], None>>
    BY <1>6 DEF Outcomes, s, next
  <2>2. s.files \ {c.file.name} \in SUBSET Names
    BY <1>1, <1>3
  <2>3. [next EXCEPT !.files = s.files \ {c.file.name}] \in Served
    BY <1>3, <1>4, <2>2
  <2>4. o[1] = [next EXCEPT !.files = s.files \ {c.file.name}] /\ o[2] = None
    BY <2>1
  <2>. QED  BY <1>3, <2>3, <2>4
<1>7. CASE c.for = "revert"
  <2>1. o = <<[next EXCEPT !.epoch = s.epoch + 1], None>>
    BY <1>7 DEF Outcomes, s, next
  <2>2. [next EXCEPT !.epoch = s.epoch + 1] \in Served
    BY <1>2, <1>3, <1>4, <1>7 DEF Changing
  <2>3. o[1] = [next EXCEPT !.epoch = s.epoch + 1] /\ o[2] = None
    BY <2>1
  <2>. QED  BY <1>3, <2>2, <2>3
<1>8. CASE c.for \notin {"create", "upload", "delete", "revert"}
  <2>1. o = <<next, c.file>>
    BY <1>8 DEF Outcomes, s, next
  <2>. QED  BY <1>1, <1>3, <1>4, <2>1
<1>. QED  BY <1>5, <1>6, <1>7, <1>8

\* A restoration marks sessions, and ends none.
LEMMA StaleIs ==
    ASSUME Typed, NEW p
    PROVE  /\ Stale(p) \in [Slots -> SoundSession]
           /\ \A i \in Slots : Stale(p)[i].alive = sessions[i].alive /\ Stale(p)[i].file = sessions[i].file
<1>1. \A i \in Slots : sessions[i] \in SoundSession
  BY DEF Typed
<1>2. \A s \in SoundSession : LET t == [s EXCEPT !.stale = TRUE]
                              IN  t \in SoundSession /\ t.alive = s.alive /\ t.file = s.file
  BY DEF SoundSession, Session
<1>. QED  BY <1>1, <1>2 DEF Stale
\* The answers, one step per handler
LEMMA AnswersTyped ==
    ASSUME Typed, NEW c \in calls, Answer(c)
    PROVE  Typed'
<1>0. /\ c \in ShapedCalls /\ c \in Call /\ Shaped(c) /\ calls \subseteq ShapedCalls /\ page \in Page
      /\ page.paper \in Papers /\ page.paper # None /\ c.paper \in Papers
      /\ sessions \in [Slots -> SoundSession] /\ edits \in [Edits -> Edit] /\ server \in [Papers -> Served]
  BY PaperIsOpen DEF Typed, ShapedCalls, Call
<1>1. CASE GotDetail(c)
  <2>1. page' \in Page /\ page'.paper = page.paper
    <3>1. PICK v \in Nat : page' = Detailed(page, c.paper, v)
      BY <1>0, <1>1, ServedIs DEF GotDetail, Detailed
    <3>. QED  BY <1>0, <3>1, DetailPageIs
  <2>2. PICK d : d = [c EXCEPT !.step = "files"]
    OBVIOUS
  <2>3. d \in ShapedCalls
    BY <1>0, <1>1, <2>2, CallMoves DEF GotDetail, Became
  <2>4. calls' = (calls \ {c}) \cup {d} /\ UNCHANGED <<sessions, edits, server>>
    BY <1>1, <2>2 DEF GotDetail, Answered
  <2>. QED  BY <1>0, <2>1, <2>3, <2>4, StaysTyped
<1>2. CASE GotFiles(c)
  <2>1. page' \in Page /\ page'.paper = page.paper
    <3>1. FilesOn(c.paper) \in SUBSET Files
      BY <1>0, ServedIs
    <3>2. page' = [page EXCEPT !.files = FilesOn(c.paper)]
      BY <1>2 DEF GotFiles
    <3>3. page \in Page
      BY <1>0
    <3>. QED  BY <3>1, <3>2, <3>3, PaperStays
  <2>2. c.step = "files" /\ c.for \in {"open", "details"}
    BY <1>0, <1>2 DEF GotFiles, Shaped
  <2>3. calls' \subseteq ShapedCalls
    <3>1. CASE FilesOn(c.paper) = {}
      BY <1>0, <1>2, <2>2, <3>1, RefreshesShaped DEF GotFiles, Answered
    <3>2. CASE FilesOn(c.paper) # {}
      <4>1. PICK f \in FilesOn(c.paper) : Answered(c, {[c EXCEPT !.step = "file", !.paper = page.paper, !.file = f]})
        BY <1>2, <3>2 DEF GotFiles
      <4>2. PICK d : d = [c EXCEPT !.step = "file", !.paper = page.paper, !.file = f]
        OBVIOUS
      <4>3. f \in Files
        BY <1>0, ServedIs
      <4>4. d \in ShapedCalls
        BY <1>0, <2>2, <4>2, <4>3, CallMoves DEF Became
      <4>. QED  BY <1>0, <4>1, <4>2, <4>4 DEF Answered
    <3>. QED  BY <3>1, <3>2
  <2>. QED  BY <1>0, <1>2, <2>1, <2>3, StaysTyped DEF GotFiles
<1>3. CASE GotFile(c)
  <2>0. c.step = "file" /\ c.for \in {"open", "details", "nav", "accept"} /\ c.file \in Files
    BY <1>0, <1>3 DEF GotFile, Shaped
  <2>1. calls' \subseteq ShapedCalls
    <3>1. CASE c.for \in {"open", "details"}
      <4>1. Answered(c, Refreshes(c.for))
        BY <1>3, <3>1 DEF GotFile
      <4>. QED  BY <1>0, <3>1, <4>1, RefreshesShaped DEF Answered
    <3>2. CASE c.for = "accept"
      <4>1. PICK d : d = [c EXCEPT !.step = "ready"]
        OBVIOUS
      <4>2. Answered(c, {d})
        BY <1>3, <3>2, <4>1 DEF GotFile
      <4>3. d \in ShapedCalls
        BY <1>0, <2>0, <3>2, <4>1, CallMoves DEF Became
      <4>. QED  BY <1>0, <4>2, <4>3 DEF Answered
    <3>3. CASE c.for = "nav"
      <4>1. Answered(c, {})
        BY <1>3, <3>3 DEF GotFile
      <4>. QED  BY <1>0, <4>1 DEF Answered
    <3>. QED  BY <2>0, <3>1, <3>2, <3>3
  <2>2. CASE UNCHANGED <<page, sessions>>
    BY <1>0, <1>3, <2>1, <2>2, StaysTyped DEF GotFile
  <2>3. ASSUME NEW i \in Slots,
               sessions' = [sessions EXCEPT ![i] = [Gone EXCEPT !.alive = TRUE, !.file = c.file]],
               page' = [page EXCEPT !.file = c.file, !.version = server[c.paper].version,
                                    !.conflict = FALSE, !.collab = i]
        PROVE  Typed'
    <3>1. [Gone EXCEPT !.alive = TRUE, !.file = c.file] \in SoundSession
      BY <2>0 DEF Gone, SoundSession, Session
    <3>2. sessions' \in [Slots -> SoundSession]
      BY <1>0, <2>3, <3>1
    <3>3. i \in 0 .. MaxSessions
      BY DEF Slots
    <3>4. page' \in Page /\ page'.paper = page.paper
      <4>1. PICK v \in Nat : page' = Filed(page, c.file, v, i)
        BY <1>0, <2>3, ServedIs DEF Filed
      <4>. QED  BY <1>0, <2>0, <3>3, <4>1, FilePageIs
    <3>. QED  BY <1>0, <1>3, <2>1, <3>2, <3>4, StaysTyped DEF GotFile
  <2>. QED  BY <1>3, <2>2, <2>3 DEF GotFile
<1>4. CASE GotPanel(c)
  <2>1. [page.panel EXCEPT ![c.step] = c.paper] \in [Panels -> {None} \cup Papers]
    BY <1>0 DEF Page
  <2>2. page' = [page EXCEPT !.panel = [page.panel EXCEPT ![c.step] = c.paper]]
    BY <1>4 DEF GotPanel
  <2>3. page' \in Page /\ page'.paper = page.paper
    <3>1. page \in Page
      BY <1>0
    <3>. QED  BY <2>1, <2>2, <3>1, PaperStays
  <2>. QED  BY <1>0, <1>4, <2>3, StaysTyped DEF GotPanel, Answered
<1>5. CASE GotStatus(c)
  <2>1. page' \in Page /\ page'.paper = page.paper
    BY <1>0, <1>5, StatusPageIs DEF GotStatus
  <2>. QED  BY <1>0, <1>5, <2>1, StaysTyped DEF GotStatus, Answered
<1>6. CASE GotBuild(c)
  <2>1. {Ask("status", "poll")} \cup {Ask(s, "poll") : s \in Panels \cap {"history"}} \subseteq ShapedCalls
    BY <1>0, AskedShaped
  <2>2. calls' \subseteq ShapedCalls
    BY <1>0, <1>6, <2>1 DEF GotBuild, Answered
  <2>. QED  BY <1>0, <1>6, <2>2, StaysTyped DEF GotBuild
<1>7. CASE GotFlush(c)
  <2>0. c.step = "flush" /\ c.for \in AllKinds /\ c.press \in Press /\ UNCHANGED <<page, sessions, server>>
    BY <1>0, <1>7 DEF GotFlush, Shaped
  <2>1. PICK d, e : d = [c EXCEPT !.step = "recheck", !.paper = page.paper] /\ e = Send(c)
    OBVIOUS
  <2>2. d \in ShapedCalls /\ e \in ShapedCalls /\ Ask("build", "manual") \in ShapedCalls
    BY <1>0, <2>0, <2>1, CallMoves, CallSent, AskedShaped DEF Became
  <2>3. \/ Answered(c, {d}) \/ Answered(c, {e}) \/ Answered(c, {}) \/ Answered(c, {Ask("build", "manual")})
    BY <1>7, <2>1 DEF GotFlush
  <2>4. calls' \subseteq ShapedCalls
    BY <1>0, <2>2, <2>3 DEF Answered
  <2>5. edits' \in [Edits -> Edit]
    BY <1>0, <1>7, EditsMove DEF GotFlush, Call
  <2>. QED  BY <1>0, <2>0, <2>4, <2>5, StaysTyped
<1>8. CASE FlushFails(c) \/ Refuse(c)
  BY <1>0, <1>8, StaysTyped DEF FlushFails, Refuse, Answered
<1>9. CASE Rechecked(c)
  <2>1. page' \in Page /\ page'.paper = page.paper
    <3>1. PICK v \in Nat : page' = Detailed(page, c.paper, v)
      BY <1>0, <1>9, ServedIs DEF Rechecked, Detailed
    <3>. QED  BY <1>0, <3>1, DetailPageIs
  <2>2. PICK d : d = [Send(c) EXCEPT !.version = server[c.paper].version]
    OBVIOUS
  <2>3. d \in ShapedCalls
    BY <1>0, <1>9, <2>2, CallMoves, ServedIs DEF Rechecked, Became
  <2>4. calls' \subseteq calls \cup {d}
    BY <1>9, <2>2 DEF Rechecked, Answered
  <2>. QED  BY <1>0, <1>9, <2>1, <2>3, <2>4, StaysTyped DEF Rechecked
<1>10. CASE Execute(c)
  <2>1. PICK o \in Outcomes(c) : /\ server' = [server EXCEPT ![c.paper] = o[1]]
                                 /\ Answered(c, {[c EXCEPT !.step = "done", !.version = o[1].version, !.file = o[2]]})
    BY <1>10 DEF Execute
  <2>2. o[1] \in Served /\ o[1].version \in Nat /\ o[2] \in {None} \cup Files
    BY <1>0, <1>10, OutcomesTyped DEF Execute
  <2>3. PICK d : d = [c EXCEPT !.step = "done", !.version = o[1].version, !.file = o[2]]
    OBVIOUS
  <2>4. d \in ShapedCalls
    BY <1>0, <1>10, <2>2, <2>3, CallMoves DEF Execute, Became
  <2>5. calls' \subseteq ShapedCalls
    BY <1>0, <2>1, <2>3, <2>4 DEF Answered
  <2>6. server' \in [Papers -> Served]
    BY <1>0, <2>1, <2>2
  <2>7. sessions' \in [Slots -> SoundSession]
    BY <1>0, <1>10, StaleIs DEF Execute
  <2>. QED  BY <1>0, <1>10, <2>5, <2>6, <2>7, StaysTyped DEF Execute
<1>11. CASE Succeeded(c)
  <2>. DEFINE file == IF c.for = "setMain" THEN page.file ELSE c.file
  <2>0. /\ c.for \in AllKinds /\ file \in {None} \cup Files /\ server' = server /\ calls \ {c} \in SUBSET calls
    BY <1>0, <1>11 DEF Succeeded, Shaped, Call, Page
  <2>1. ASSUME NEW for \in {"open", "details"}, Opening(page.paper, for, calls \ {c})
        PROVE  Typed'
    BY <1>0, <2>0, <2>1, OpeningTyped
  <2>2. ASSUME file # None, CloseEditor, page' = [ClosedPage(page) EXCEPT !.version = c.version],
               calls' = Rejected(calls \ {c}, page.collab) \cup {[Ask("reloadDetail", "nav") EXCEPT !.file = file]}
        PROVE  Typed'
    <3>1. page' \in Page /\ page'.paper = page.paper
      <4>1. PICK n : n = ClosedPage(page)
        OBVIOUS
      <4>2. n \in Page /\ n.paper = page.paper /\ c.version \in Nat
        BY <1>0, <4>1, ClosedPageIs DEF Call
      <4>3. page' = [n EXCEPT !.version = c.version]
        BY <2>2, <4>1
      <4>. QED  BY <4>2, <4>3, PaperStays
    <3>2. PICK d : d = [Ask("reloadDetail", "nav") EXCEPT !.file = file]
      OBVIOUS
    <3>3. d \in ShapedCalls
      BY <1>0, <2>0, <2>2, <3>2, AskedShaped
    <3>. QED  BY <1>0, <2>0, <2>2, <3>1, <3>2, <3>3, ClosingTyped
  <2>3. ASSUME Answered(c, {Ask(i, c.for) : i \in Panels \cap {How[c.for].after}}), UNCHANGED <<page, sessions, edits>>
        PROVE  Typed'
    <3>1. calls' \subseteq ShapedCalls
      BY <1>0, <2>0, <2>3, AskedShaped DEF Answered
    <3>. QED  BY <1>0, <2>0, <2>3, <3>1, StaysTyped
  <2>4. CASE How[c.for].after = "paper"
    BY <1>11, <2>1, <2>4 DEF Succeeded
  <2>5. CASE How[c.for].after = "file" /\ file # None
    BY <1>11, <2>2, <2>5 DEF Succeeded
  <2>6. CASE ~(How[c.for].after = "paper") /\ ~(How[c.for].after = "file" /\ file # None)
    BY <1>11, <2>3, <2>6 DEF Succeeded
  <2>. QED  BY <2>4, <2>5, <2>6
<1>12. CASE ReloadedDetail(c)
  <2>1. page' \in Page /\ page'.paper = page.paper
    <3>1. PICK v \in Nat : page' = Detailed(page, c.paper, v)
      BY <1>0, <1>12, ServedIs DEF ReloadedDetail, Detailed
    <3>. QED  BY <1>0, <3>1, DetailPageIs
  <2>2. PICK d : d = [c EXCEPT !.step = "reloadFiles", !.paper = page.paper]
    OBVIOUS
  <2>3. d \in ShapedCalls
    BY <1>0, <1>12, <2>2, CallMoves DEF ReloadedDetail, Became
  <2>4. calls' = (calls \ {c}) \cup {d} /\ UNCHANGED <<sessions, edits, server>>
    BY <1>12, <2>2 DEF ReloadedDetail, Answered
  <2>. QED  BY <1>0, <2>1, <2>3, <2>4, StaysTyped
<1>13. CASE ReloadedFiles(c)
  <2>1. page' \in Page /\ page'.paper = page.paper
    <3>1. FilesOn(c.paper) \in SUBSET Files
      BY <1>0, ServedIs
    <3>2. page' = [page EXCEPT !.files = FilesOn(c.paper)]
      BY <1>13 DEF ReloadedFiles
    <3>3. page \in Page
      BY <1>0
    <3>. QED  BY <3>1, <3>2, <3>3, PaperStays
  <2>2. PICK d : d = [c EXCEPT !.step = "file", !.paper = page.paper]
    OBVIOUS
  <2>3. d \in ShapedCalls
    BY <1>0, <1>13, <2>2, CallMoves DEF ReloadedFiles, Became
  <2>4. calls' \subseteq calls \cup {d} /\ UNCHANGED <<sessions, edits, server>>
    BY <1>13, <2>2 DEF ReloadedFiles, Answered
  <2>. QED  BY <1>0, <2>1, <2>3, <2>4, StaysTyped
<1>14. CASE GotReady(c)
  <2>0. c.step = "ready" /\ UNCHANGED <<page, sessions, server>> /\ page.collab \in 0 .. MaxSessions
        /\ page.file \in {None} \cup Files
    BY <1>0, <1>14 DEF GotReady, Page
  <2>1. CASE page.collab = 0
    BY <1>0, <1>14, <2>0, <2>1, StaysTyped DEF GotReady, Answered
  <2>2. CASE page.collab # 0
    <3>1. PICK u \in Edits :
             /\ edits' = [edits EXCEPT ![u] = [Untyped EXCEPT !.file = page.file, !.slot = page.collab]]
             /\ Answered(c, {[c EXCEPT !.step = "flush", !.slot = page.collab, !.press.typed = {u}]})
      BY <1>14, <2>2 DEF GotReady
    <3>2. PICK d : d = [c EXCEPT !.step = "flush", !.slot = page.collab, !.press.typed = {u}]
      OBVIOUS
    <3>3. d \in ShapedCalls
      BY <1>0, <2>0, <3>2, EditFlushed
    <3>4. [Untyped EXCEPT !.file = page.file, !.slot = page.collab] \in Edit
      BY <2>0 DEF Untyped, Edit
    <3>5. calls' \subseteq ShapedCalls /\ edits' \in [Edits -> Edit]
      BY <1>0, <3>1, <3>2, <3>3, <3>4 DEF Answered
    <3>. QED  BY <1>0, <2>0, <3>5, StaysTyped
  <2>. QED  BY <2>1, <2>2
<1>15. CASE Reload(c)
  BY <1>0, <1>15, OpeningTyped DEF Reload
<1>. QED
  BY <1>1, <1>2, <1>3, <1>4, <1>5, <1>6, <1>7, <1>8, <1>9, <1>10, <1>11, <1>12, <1>13, <1>14, <1>15 DEF Answer
LEMMA NextTyped ==
    ASSUME Typed, [Next]_vars
    PROVE  Typed'
<1>0. /\ calls \subseteq ShapedCalls /\ page \in Page /\ page.collab \in 0 .. MaxSessions
      /\ sessions \in [Slots -> SoundSession] /\ edits \in [Edits -> Edit] /\ server \in [Papers -> Served]
  BY DEF Typed, Page
<1>1. ASSUME NEW c \in calls, Answer(c)
      PROVE  Typed'
  BY <1>1, AnswersTyped
<1>2. ASSUME NEW p \in Papers, OpenPaper(p)
      PROVE  Typed'
  BY <1>2, OpeningTyped DEF OpenPaper
<1>3. ASSUME NEW f \in Files, OpenFile(f)
      PROVE  Typed'
  <2>1. page.paper \in Papers
    BY <1>3, PaperIsOpen DEF OpenFile
  <2>2. PICK d : d = [Ask("file", "nav") EXCEPT !.file = f]
    OBVIOUS
  <2>3. d \in ShapedCalls
    BY <2>1, <2>2, AskedShaped
  <2>4. page' \in Page /\ page'.paper = page.paper
    BY <1>0, <1>3, ClosedPageIs DEF OpenFile
  <2>. QED  BY <1>3, <2>1, <2>2, <2>3, <2>4, ClosingTyped DEF OpenFile
<1>4. ASSUME NEW f \in Files, Accept(f)
      PROVE  Typed'
  <2>1. page.paper \in Papers /\ page.paper # None
    BY <1>4, PaperIsOpen DEF Accept
  <2>2. PICK d, e : /\ d = [Ask("file", "accept") EXCEPT !.file = f, !.press = [Pressed EXCEPT !.file = f, !.typed = {}]]
                    /\ e = [d EXCEPT !.step = "ready"]
    OBVIOUS
  <2>3. d \in ShapedCalls /\ d.step = "file" /\ d.for = "accept"
    BY <2>1, <2>2, AcceptAsked
  <2>4. e \in ShapedCalls
    BY <2>1, <2>2, <2>3, CallMoves DEF Became
  <2>5. CASE f = page.file
    <3>1. calls' = calls \cup {e} /\ UNCHANGED <<page, sessions, edits, server>>
      BY <1>4, <2>2, <2>5 DEF Accept
    <3>. QED  BY <1>0, <2>1, <2>4, <3>1, StaysTyped
  <2>6. CASE f # page.file
    <3>1. CloseEditor /\ page' = ClosedPage(page) /\ calls' = Rejected(calls, page.collab) \cup {d} /\ UNCHANGED server
      BY <1>4, <2>2, <2>6 DEF Accept
    <3>2. page' \in Page /\ page'.paper = page.paper
      BY <1>0, <3>1, ClosedPageIs
    <3>. QED  BY <2>1, <2>3, <3>1, <3>2, ClosingTyped
  <2>. QED  BY <2>5, <2>6
<1>5. ASSUME NEW k \in Kinds, Click(k)
      PROVE  Typed'
  <2>1. page.paper \in Papers /\ page.paper # None /\ k \in AllKinds
    BY <1>0, <1>5, PageAssumption DEF Click, Page
  <2>2. FirstStep(k) \in ShapedCalls
    BY <2>1, FirstStepShaped
  <2>3. calls' \subseteq ShapedCalls /\ UNCHANGED <<sessions, edits, server>>
    BY <1>0, <1>5, <2>2 DEF Click
  <2>4. page' \in Page /\ page'.paper = page.paper
    <3>1. page' = page \/ page' = [page EXCEPT !.timer = None]
      BY <1>5 DEF Click
    <3>2. page \in Page
      BY <1>0
    <3>3. [page EXCEPT !.timer = None] \in Page /\ [page EXCEPT !.timer = None].paper = page.paper
      <4>1. None \in {None} \cup Papers
        OBVIOUS
      <4>. QED  BY <3>2, <4>1, PaperStays
    <3>4. CASE page' = page
      BY <3>2, <3>4
    <3>5. CASE page' = [page EXCEPT !.timer = None]
      BY <3>3, <3>5
    <3>. QED  BY <3>1, <3>4, <3>5
  <2>. QED  BY <1>0, <2>1, <2>3, <2>4, StaysTyped
<1>6. ASSUME NEW u \in Edits, Type(u)
      PROVE  Typed'
  <2>1. page.view \in Slots /\ sessions[page.view] \in SoundSession /\ page.view \in 0 .. MaxSessions
    BY <1>0, <1>6 DEF Type, Page, Slots
  <2>2. page.paper \in Papers /\ page.paper # None
    BY <1>6, <2>1, PaperIsOpen DEF Type
  <2>3. [Untyped EXCEPT !.file = sessions[page.view].file, !.slot = page.view] \in Edit
    BY <2>1 DEF Untyped, Edit, SoundSession, Session
  <2>4. edits' \in [Edits -> Edit]
    BY <1>0, <1>6, <2>3 DEF Type
  <2>. QED  BY <1>0, <1>6, <2>2, <2>4, StaysTyped DEF Type
<1>7. ASSUME NEW i \in Slots
      PROVE  /\ i \in 0 .. MaxSessions /\ sessions[i] \in SoundSession
             /\ sessions[i].alive => page.paper \in Papers /\ page.paper # None /\ sessions[i].file \in Files
             /\ \A b \in BOOLEAN : [page EXCEPT !.conflict = b] \in Page /\ [page EXCEPT !.conflict = b].paper = page.paper
             /\ [page EXCEPT !.view = i] \in Page /\ [page EXCEPT !.view = i].paper = page.paper
  <2>1. i \in 0 .. MaxSessions /\ sessions[i] \in SoundSession
    BY <1>0 DEF Slots
  <2>2. sessions[i].alive => page.paper \in Papers /\ page.paper # None /\ sessions[i].file \in Files
    BY <2>1, PaperIsOpen DEF SoundSession
  <2>3. [page EXCEPT !.view = i].paper = page.paper /\ \A b \in BOOLEAN : [page EXCEPT !.conflict = b].paper = page.paper
    BY <1>0 DEF Page
  <2>. QED  BY <1>0, <2>1, <2>2, <2>3, PageUpdates
<1>8. ASSUME NEW i \in Slots, Mount(i)
      PROVE  Typed'
  <2>1. [sessions[i] EXCEPT !.ready = TRUE] \in SoundSession
    BY <1>7 DEF SoundSession, Session
  <2>2. sessions' \in [Slots -> SoundSession]
    BY <1>0, <1>8, <2>1 DEF Mount
  <2>3. edits' \in [Edits -> Edit]
    BY <1>7, <1>8, EditsMove DEF Mount
  <2>. QED  BY <1>0, <1>7, <1>8, <2>2, <2>3, StaysTyped DEF Mount
<1>9. ASSUME NEW i \in Slots, Durable(i)
      PROVE  Typed'
  <2>1. page' \in Page /\ page'.paper = page.paper
    <3>1. sessions[i].file.paper \in Papers
      BY <1>7, <1>9 DEF Durable, Files
    <3>2. page' = [page EXCEPT !.timer = sessions[i].file.paper]
      BY <1>9 DEF Durable
    <3>3. page \in Page
      BY <1>0
    <3>. QED  BY <3>1, <3>2, <3>3, PaperStays
  <2>2. edits' \in [Edits -> Edit]
    BY <1>7, <1>9, EditsMove DEF Durable
  <2>. QED  BY <1>0, <1>7, <1>9, <2>1, <2>2, StaysTyped DEF Durable
<1>10. ASSUME NEW i \in Slots, EpochChanged(i) \/ Revoked(i)
       PROVE  Typed'
  <2>1. sessions[i].alive /\ page.paper \in Papers /\ page.paper # None
    BY <1>7, <1>10 DEF EpochChanged, Revoked
  <2>2. sessions' \in [Slots -> SoundSession] /\ edits' \in [Edits -> Edit]
    <3>1. sessions' = Ended(sessions, i) /\ edits' = Kept(edits, i)
      BY <1>10 DEF EpochChanged, Revoked
    <3>. QED  BY <1>7, <3>1, SessionsEnd, EditsMove
  <2>3. calls' \subseteq ShapedCalls
    BY <1>0, <1>10, <2>1, AskedShaped DEF EpochChanged, Revoked, Rejected
  <2>4. page' \in Page /\ page'.paper = page.paper /\ UNCHANGED server
    BY <1>7, <1>10 DEF EpochChanged, Revoked
  <2>. QED  BY <1>0, <2>1, <2>2, <2>3, <2>4, StaysTyped
<1>11. CASE AutoBuild
  <2>1. page.paper \in Papers /\ page.paper # None
    BY <1>11, PaperIsOpen DEF AutoBuild
  <2>2. calls' \subseteq ShapedCalls
    BY <1>0, <1>11, <2>1, AskedShaped DEF AutoBuild
  <2>3. page' \in Page /\ page'.paper = page.paper
    <3>1. page' = [page EXCEPT !.timer = None] /\ page \in Page
      BY <1>0, <1>11 DEF AutoBuild
    <3>. QED  BY <3>1, PaperStays
  <2>. QED  BY <1>0, <1>11, <2>1, <2>2, <2>3, StaysTyped DEF AutoBuild
<1>12. CASE Poll
  <2>1. page.paper \in Papers /\ page.paper # None
    BY <1>0, <1>12 DEF Poll, Page
  <2>2. {Ask(i, "poll") : i \in {"status"} \cup (Panels \cap {"reviews"})} \subseteq ShapedCalls
    BY <2>1, AskedShaped
  <2>3. calls' \subseteq ShapedCalls
    BY <1>0, <1>12, <2>2 DEF Poll
  <2>. QED  BY <1>0, <1>12, <2>1, <2>3, StaysTyped DEF Poll
<1>13. ASSUME NEW p \in Papers, Built(p)
       PROVE  Typed'
  <2>1. server[p] \in Served /\ server[p].built < MaxBuilds
    BY <1>0, <1>13 DEF Built
  <2>2. server[p].built + 1 \in 0 .. MaxBuilds
    <3>1. server[p].built \in 0 .. MaxBuilds
      BY <2>1 DEF Served
    <3>. QED  BY <2>1, <3>1, PageAssumption
  <2>3. [server[p] EXCEPT !.built = server[p].built + 1] \in Served
    BY <2>1, <2>2 DEF Served
  <2>4. server' \in [Papers -> Served]
    BY <1>0, <1>13, <2>3 DEF Built
  <2>5. UNCHANGED <<page, sessions, calls, edits>>
    BY <1>13 DEF Built
  <2>. QED  BY <2>4, <2>5 DEF Typed, Blank
<1>14. ASSUME NEW p \in Papers, Restore(p) \/ Restructure(p)
       PROVE  Typed'
  <2>1. page.paper = p /\ page.paper # None /\ UNCHANGED <<page, calls, edits>>
    BY <1>14, PageAssumption DEF Restore, Restructure
  <2>2. server[p] \in Served /\ server[p].version + server[p].epoch < MaxChanges + 2
    BY <1>0, <1>14 DEF Restore, Restructure, Changeable
  <2>3. server[p].version + 1 \in 1 .. MaxChanges + 1 /\ server[p].epoch + 1 \in 1 .. MaxChanges + 1
    <3>1. server[p].version \in 1 .. MaxChanges + 1 /\ server[p].epoch \in 1 .. MaxChanges + 1
      BY <2>2 DEF Served
    <3>. QED  BY <2>2, <3>1, PageAssumption
  <2>4. /\ [server[p] EXCEPT !.epoch = server[p].epoch + 1] \in Served
        /\ [server[p] EXCEPT !.version = server[p].version + 1] \in Served
    <3>1. [server[p] EXCEPT !.epoch = server[p].epoch + 1] \in Served
      BY <2>2, <2>3 DEF Served
    <3>2. [server[p] EXCEPT !.version = server[p].version + 1] \in Served
      BY <2>2, <2>3 DEF Served
    <3>. QED  BY <3>1, <3>2
  <2>5. server' \in [Papers -> Served]
    <3>1. \/ server' = [server EXCEPT ![p] = [server[p] EXCEPT !.epoch = server[p].epoch + 1]]
          \/ server' = [server EXCEPT ![p] = [server[p] EXCEPT !.version = server[p].version + 1]]
      BY <1>14 DEF Restore, Restructure
    <3>. QED  BY <1>0, <2>4, <3>1
  <2>6. sessions' \in [Slots -> SoundSession]
    BY <1>0, <1>14, StaleIs DEF Restore, Restructure
  <2>. QED  BY <1>0, <2>1, <2>5, <2>6, StaysTyped
<1>15. CASE UNCHANGED vars
  BY <1>15 DEF vars, Typed, Blank
<1>. QED
  BY <1>1, <1>2, <1>3, <1>4, <1>5, <1>6, <1>8, <1>9, <1>10, <1>11, <1>12, <1>13, <1>14, <1>15 DEF Next, User

\* The types of TypeOK, for any number of papers, edits and sessions, whatever overlaps
THEOREM WriterTypeCorrect == Spec => []TypeOK
<1>1. Spec => []Typed
  BY InitTyped, NextTyped, PTL DEF Spec
<1>. QED  BY <1>1, TypedImplies, PTL
-----------------------------------------------------------------------------
(* What every call that is awaited still fits *)

Navigations == {"detail", "files", "file", "reloadDetail", "reloadFiles"}
OfFile == {"rename", "delete", "setMain", "accept"}

OneFront == \A c, d \in calls : Front(c) /\ Front(d) /\ ~Panel(c) => c = d

Stored(c) == \A u \in c.press.typed : edits[u].durable

\* A call is of the paper that is open; while one is under way that opens a file,
\* none is open; a command keeps to what was open when it was pressed, and what was
\* typed by then is in the session that it flushes, or is stored.
Fits(c) ==
    /\ Front(c) => c.paper = page.paper
    /\ c.step \in Navigations => page.collab = 0 /\ page.view = 0
    /\ c.step \in {"flush", "recheck", "command", "ready"} \/ (c.step = "file" /\ c.for = "accept")
          => c.press.paper = page.paper
    /\ c.for \in OfFile =>
          /\ c.step \in {"flush", "recheck"} => c.press.file = page.file
          /\ c.step = "command" \/ (c.step = "file" /\ c.for = "accept") => c.file = c.press.file
    /\ c.step = "ready" => (page.collab # 0 => c.press.file = page.file)
    /\ c.step = "flush" => c.slot # 0 /\ \A u \in c.press.typed : edits[u].durable \/ edits[u].slot = c.slot
    /\ c.step \in {"recheck", "command"} /\ How[c.for].flush # "no" => Stored(c)
CallsFit == \A c \in calls : Fits(c)

\* The session that is alive is the one of the model, of its file and paper.
Editor ==
    /\ \A i \in Slots : sessions[i].alive =>
          i = page.collab /\ sessions[i].file = page.file /\ sessions[i].file.paper = page.paper
    /\ page.view # 0 => page.view = page.collab

\* What the page shows is of the open paper, or on its way.
DetailComing == page.detail = page.paper \/ \E c \in calls : c.step = "detail"
FilesComing == (\A f \in page.files : f.paper = page.paper) \/ \E c \in calls : c.step \in {"detail", "files"}
BringsRounds(c) == c.step \in {"detail", "files", "rounds"} \/ (c.step = "file" /\ c.for \in {"open", "details"})
RoundsComing == "rounds" \in Panels => page.panel["rounds"] = page.paper \/ \E c \in calls : BringsRounds(c)
Coming == page.paper # None => DetailComing /\ FilesComing /\ RoundsComing

PageInv == OneFront /\ CallsFit /\ Editor /\ BuildOfItsPaper /\ Coming

LEMMA InitPage == Init => PageInv
BY DEF Init, PageInv, OneFront, CallsFit, Editor, BuildOfItsPaper, Coming, Gone

LEMMA IdleIsBehind ==
    ASSUME Waits, Idle
    PROVE  \A c \in calls : ~Front(c)
BY DEF Waits, Idle, Front

\* What goes on behind fits whatever is open.
LEMMA BehindFits ==
    ASSUME NEW c \in ShapedCalls, c.step \in {"status", "build"} \cup AllPanels, Front(c) => c.paper = page'.paper
    PROVE  Fits(c)'
BY DEF ShapedCalls, Shaped, Fits, Front, Navigations, OfFile, AllPanels

\* One handler moves on while nothing else is in front.
LEMMA FrontMoves ==
    ASSUME Typed, NEW rest \in SUBSET calls, NEW M, \A c \in rest : ~Front(c), calls' \subseteq rest \cup M,
           \A c \in M : Fits(c)', \A c, d \in M : Front(c) /\ Front(d) /\ ~Panel(c) => c = d
    PROVE  OneFront' /\ CallsFit'
<1>1. OneFront'
  <2>1. \A c : Front(c)' <=> Front(c)
    BY DEF Front
  <2>2. \A c : Panel(c)' <=> Panel(c)
    BY DEF Panel
  <2>. QED  BY <2>1, <2>2 DEF OneFront
<1>2. \A c \in rest : Fits(c)'
  BY DEF Typed, ShapedCalls, Shaped, Fits, Front, Navigations, OfFile
<1>. QED  BY <1>1, <1>2 DEF CallsFit

\* A step that leaves the editor where it is, and what was typed where it went
LEMMA FitsStay ==
    ASSUME Typed, NEW c \in calls, Fits(c), UNCHANGED <<page.paper, page.file, page.collab>>,
           page'.view = page.view \/ page.collab # 0,
           \A u \in Edits : /\ edits[u].durable => edits'[u].durable
                            /\ c.step = "flush" /\ c.slot # 0 /\ edits[u].slot = c.slot
                                  => edits'[u].durable \/ edits'[u].slot = c.slot
    PROVE  Fits(c)'
<1>1. c.step \in {"flush", "recheck", "command"} => c.press.typed \subseteq Edits
  BY DEF Typed, ShapedCalls, Shaped, Press
<1>2. /\ (Front(c) => c.paper = page.paper)'
      /\ (c.step \in Navigations => page.collab = 0 /\ page.view = 0)'
      /\ (c.step \in {"flush", "recheck", "command", "ready"} \/ (c.step = "file" /\ c.for = "accept")
            => c.press.paper = page.paper)'
      /\ (c.for \in OfFile =>
            /\ c.step \in {"flush", "recheck"} => c.press.file = page.file
            /\ c.step = "command" \/ (c.step = "file" /\ c.for = "accept") => c.file = c.press.file)'
      /\ (c.step = "ready" => (page.collab # 0 => c.press.file = page.file))'
  BY DEF Fits, Front, Navigations, OfFile
<1>3. (c.step = "flush" => c.slot # 0 /\ \A u \in c.press.typed : edits[u].durable \/ edits[u].slot = c.slot)'
  BY <1>1 DEF Fits
<1>4. (c.step \in {"recheck", "command"} /\ How[c.for].flush # "no" => Stored(c))'
  BY <1>1 DEF Fits, Stored
<1>. QED  BY <1>2, <1>3, <1>4 DEF Fits

LEMMA FewerInFront ==
    ASSUME OneFront, \A c \in calls' : Front(c) => c \in calls
    PROVE  OneFront'
<1>1. \A c : (Front(c)' <=> Front(c)) /\ (Panel(c)' <=> Panel(c))
  BY DEF Front, Panel
<1>. QED  BY <1>1 DEF OneFront

LEMMA EditorStays ==
    ASSUME Editor, UNCHANGED <<page.paper, page.file, page.collab, page.view>>,
           \A i \in Slots : sessions'[i].alive => sessions[i].alive /\ sessions'[i].file = sessions[i].file
    PROVE  Editor'
BY DEF Editor

\* closeEditor knows one session, the only one there is.
LEMMA EditorCloses ==
    ASSUME Typed, Editor, CloseEditor, page'.collab = 0, page'.view = 0
    PROVE  Editor'
BY SessionsEnd DEF Editor, CloseEditor

\* What the page shows stays, and what brings the rest is still on its way.
LEMMA ComingStays ==
    ASSUME Coming, UNCHANGED <<page.paper, page.detail, page.files>>,
           "rounds" \in Panels => page'.panel["rounds"] = page.panel["rounds"] \/ page'.panel["rounds"] = page.paper,
           \A c \in calls : c.step = "detail" \/ c.step = "files" \/ BringsRounds(c) => c \in calls'
    PROVE  Coming'
<1>1. DetailComing => DetailComing'
  BY DEF DetailComing
<1>2. FilesComing => FilesComing'
  BY DEF FilesComing
<1>3. RoundsComing => RoundsComing'
  BY DEF RoundsComing, BringsRounds
<1>. QED  BY <1>1, <1>2, <1>3 DEF Coming

\* With nothing else in front, the page shows its paper, but for what c still brings.
LEMMA Arrived ==
    ASSUME Typed, Coming, page.paper # None, NEW c, \A d \in calls \ {c} : ~Front(d)
    PROVE  /\ page.detail = page.paper \/ (c \in calls /\ c.step = "detail")
           /\ (\A f \in page.files : f.paper = page.paper) \/ (c \in calls /\ c.step \in {"detail", "files"})
           /\ "rounds" \in Panels => page.panel["rounds"] = page.paper \/ (c \in calls /\ BringsRounds(c))
<1>1. \A d \in calls : d.step = "detail" \/ d.step = "files" \/ BringsRounds(d) => d = c
  <2>. SUFFICES ASSUME NEW d \in calls, d.step = "detail" \/ d.step = "files" \/ BringsRounds(d)
       PROVE  Front(d)
    OBVIOUS
  <2>. QED  BY DEF Typed, ShapedCalls, Shaped, Front, BringsRounds
<1>. QED  BY <1>1 DEF Coming, DetailComing, FilesComing, RoundsComing

\* Then it goes on showing it.
LEMMA StillShown ==
    ASSUME Typed, Coming, page.paper # None, NEW c, \A d \in calls \ {c} : ~Front(d),
           ~(c \in calls /\ (c.step \in {"detail", "files"} \/ BringsRounds(c))),
           page'.paper = page.paper, page'.detail = page.paper, page'.panel = page.panel,
           \A f \in page'.files : f.paper = page.paper
    PROVE  Coming'
<1>1. "rounds" \in Panels => page.panel["rounds"] = page.paper
  BY Arrived
<1>. QED  BY <1>1 DEF Coming, DetailComing, FilesComing, RoundsComing
-----------------------------------------------------------------------------
(* The steps that close the editor *)

LEMMA EditorGivesWay ==
    ASSUME Typed, Editor, NEW rest \in SUBSET calls, \A c \in rest : ~Front(c), NEW d, Fits(d)',
           CloseEditor, page'.collab = 0, page'.view = 0, calls' = Rejected(rest, page.collab) \cup {d}
    PROVE  OneFront' /\ CallsFit' /\ Editor'
<1>. DEFINE M == {d}
<1>1. calls' \subseteq rest \cup M
  BY DEF Rejected
<1>2. \A c \in M : Fits(c)'
  OBVIOUS
<1>3. \A c, e \in M : c = e
  OBVIOUS
<1>4. OneFront' /\ CallsFit'
  <2>. HIDE DEF M
  <2>. QED  BY <1>1, <1>2, <1>3, FrontMoves
<1>. QED  BY <1>4, EditorCloses

\* openPaper, with nothing else in front
LEMMA PaperOpens ==
    ASSUME Typed, PageInv, NEW p \in Papers, NEW for \in {"open", "details"},
           NEW rest \in SUBSET calls, \A c \in rest : ~Front(c), Opening(p, for, rest)
    PROVE  PageInv'
<1>1. PICK d : d = [Ask("detail", for) EXCEPT !.paper = p]
  OBVIOUS
<1>2. d.step = "detail" /\ d.for = for /\ d.paper = p
  <2>1. d = [step |-> "detail", for |-> for, paper |-> p, file |-> None, version |-> 0, slot |-> 0, press |-> None]
    BY <1>1 DEF Ask
  <2>. QED  BY <2>1
<1>3. page \in Page
  BY DEF Typed
<1>4. page'.collab = 0 /\ page'.view = 0 /\ page'.paper = p /\ page'.timer = None
  BY <1>3, OpenedPageIs DEF Opening
<1>5. CloseEditor /\ calls' = Rejected(rest, page.collab) \cup {d}
  BY <1>1 DEF Opening
<1>6. Fits(d)'
  BY <1>2, <1>4 DEF Fits, Front, Navigations, OfFile
<1>7. OneFront' /\ CallsFit' /\ Editor'
  BY <1>4, <1>5, <1>6, EditorGivesWay DEF PageInv
<1>8. Coming'
  BY <1>2, <1>5 DEF Coming, DetailComing, FilesComing, RoundsComing, BringsRounds
<1>. QED  BY <1>4, <1>7, <1>8 DEF PageInv, BuildOfItsPaper

\* The editor closes for a file of the paper, with nothing but c in front.
LEMMA FileGivesWay ==
    ASSUME Typed, PageInv, page.paper # None, NEW c, \A e \in calls \ {c} : ~Front(e),
           ~(c \in calls /\ (c.step \in {"detail", "files"} \/ BringsRounds(c))),
           NEW rest \in SUBSET calls, \A e \in rest : ~Front(e), NEW d, Fits(d)',
           CloseEditor, calls' = Rejected(rest, page.collab) \cup {d}, page'.collab = 0, page'.view = 0,
           UNCHANGED <<page.paper, page.detail, page.files, page.panel, page.timer>>
    PROVE  PageInv'
<1>1. OneFront' /\ CallsFit' /\ Editor'
  BY EditorGivesWay DEF PageInv
<1>2. page.detail = page.paper /\ \A f \in page.files : f.paper = page.paper
  BY Arrived DEF PageInv
<1>3. Coming'
  BY <1>2, StillShown DEF PageInv
<1>. QED  BY <1>1, <1>3 DEF PageInv, BuildOfItsPaper

-----------------------------------------------------------------------------
(* The answers *)

\* A handler moves on, and the editor stays.
LEMMA HandlerMoves ==
    ASSUME Typed, PageInv, NEW rest \in SUBSET calls, \A e \in rest : ~Front(e),
           NEW d, Fits(d)', calls' \subseteq rest \cup {d},
           \A i \in Slots : sessions'[i].alive => sessions[i].alive /\ sessions'[i].file = sessions[i].file,
           UNCHANGED <<page.paper, page.file, page.collab, page.view>>,
           page'.timer \in {None, page.timer}, Coming'
    PROVE  PageInv'
<1>. DEFINE M == {d}
<1>1. \A e \in M : Fits(e)'
  OBVIOUS
<1>2. \A e, f \in M : e = f
  OBVIOUS
<1>3. OneFront' /\ CallsFit'
  <2>1. calls' \subseteq rest \cup M
    OBVIOUS
  <2>. HIDE DEF M
  <2>. QED  BY <1>1, <1>2, <2>1, FrontMoves
<1>4. Editor'
  BY EditorStays DEF PageInv
<1>. QED  BY <1>3, <1>4 DEF PageInv, BuildOfItsPaper

\* A handler ends, and at most panels are refreshed.
LEMMA HandlerEnds ==
    ASSUME Typed, PageInv, NEW rest \in SUBSET calls, \A e \in rest : ~Front(e),
           NEW M \in SUBSET ShapedCalls, \A d \in M : d.step \in {"status", "build"} \cup AllPanels /\ (Front(d) => d.paper = page.paper),
           \A d \in M : Front(d) => Panel(d), calls' \subseteq rest \cup M,
           \A i \in Slots : sessions'[i].alive => sessions[i].alive /\ sessions'[i].file = sessions[i].file,
           UNCHANGED <<page.paper, page.file, page.collab, page.view>>,
           page'.timer \in {None, page.timer}, Coming'
    PROVE  PageInv'
<1>1. \A d \in M : Fits(d)'
  BY BehindFits
<1>2. OneFront' /\ CallsFit'
  BY <1>1, FrontMoves
<1>3. Editor'
  BY EditorStays DEF PageInv
<1>. QED  BY <1>2, <1>3 DEF PageInv, BuildOfItsPaper

\* While a call other than a panel's is awaited in front, it is alone there.
LEMMA AloneInFront ==
    ASSUME PageInv, NEW c \in calls, Front(c), ~Panel(c)
    PROVE  \A d \in calls \ {c} : ~Front(d)
BY DEF PageInv, OneFront
LEMMA RefreshesAre ==
    ASSUME Typed, page.paper \in Papers, NEW for \in {"open", "details"}
    PROVE  \A d \in Refreshes(for) : /\ d.step \in {"status", "build"} \cup AllPanels /\ d.paper = page.paper
                                     /\ Front(d) => Panel(d)
BY PageAssumption, KindsAre DEF Refreshes, Ask, Front, Panel, AllPanels

\* refreshPaperDetail, and what openPaper and reloadPaperAndFile do next
LEMMA DetailKeepsPage ==
    ASSUME Typed, PageInv, NEW c \in calls, GotDetail(c) \/ GotFiles(c) \/ ReloadedDetail(c) \/ ReloadedFiles(c) \/ Rechecked(c)
    PROVE  PageInv'
<1>0. /\ c \in ShapedCalls /\ Shaped(c) /\ Fits(c) /\ page \in Page /\ page.paper \in Papers /\ page.paper # None
      /\ c.paper \in Papers
  BY PaperIsOpen DEF Typed, ShapedCalls, PageInv, CallsFit, Call
<1>1. Front(c) /\ ~Panel(c) /\ c.paper = page.paper
  BY <1>0, KindsAre DEF GotDetail, GotFiles, ReloadedDetail, ReloadedFiles, Rechecked, Shaped, Fits, Front, Panel, AllPanels
<1>2. PICK rest \in SUBSET calls : rest = calls \ {c} /\ \A e \in rest : ~Front(e)
  BY <1>1, AloneInFront
<1>3. CASE GotDetail(c)
  <2>1. PICK v \in Nat : page' = Detailed(page, c.paper, v)
    BY <1>0, <1>3, ServedIs DEF GotDetail, Detailed
  <2>2. /\ UNCHANGED <<page.paper, page.file, page.collab, page.view, page.timer, page.panel, page.files, sessions>>
        /\ page'.detail = page.paper
    BY <1>0, <1>1, <1>3, <2>1, DetailPageIs DEF GotDetail
  <2>3. PICK d : d = [c EXCEPT !.step = "files"]
    OBVIOUS
  <2>4. Became(c, d, "files", c.paper, c.file) /\ c.for \in {"open", "details"}
    BY <1>0, <1>3, <2>3, CallMoves DEF GotDetail, Shaped
  <2>5. calls' = rest \cup {d}
    BY <1>2, <1>3, <2>3 DEF GotDetail, Answered
  <2>6. Fits(d)'
    BY <1>0, <1>1, <1>3, <2>2, <2>4 DEF GotDetail, Became, Fits, Navigations, OfFile
  <2>7. Coming'
    BY <2>2, <2>4, <2>5 DEF Became, Coming, DetailComing, FilesComing, RoundsComing, BringsRounds
  <2>. QED  BY <1>2, <2>2, <2>5, <2>6, <2>7, HandlerMoves
<1>4. CASE GotFiles(c)
  <2>1. FilesOn(c.paper) \in SUBSET Files /\ \A f \in FilesOn(c.paper) : f.paper = page.paper
    BY <1>0, <1>1, ServedIs
  <2>2. /\ UNCHANGED <<page.paper, page.file, page.collab, page.view, page.timer, page.panel, page.detail, sessions>>
        /\ \A f \in page'.files : f.paper = page.paper
    BY <1>0, <1>4, <2>1 DEF GotFiles, Page
  <2>3. page.detail = page.paper
    BY <1>0, <1>2, <1>4, Arrived DEF GotFiles, PageInv
  <2>4. c.step = "files" /\ c.for \in {"open", "details"}
    BY <1>0, <1>4 DEF GotFiles, Shaped
  <2>5. CASE FilesOn(c.paper) = {}
    <3>1. calls' = rest \cup Refreshes(c.for)
      BY <1>2, <1>4, <2>5 DEF GotFiles, Answered
    <3>2. Coming'
      <4>1. "rounds" \in Panels => \E d \in calls' : BringsRounds(d)
        <5>1. ASSUME "rounds" \in Panels
              PROVE  Ask("rounds", c.for) \in calls' /\ BringsRounds(Ask("rounds", c.for))
          BY <3>1, <5>1 DEF Refreshes, Ask, BringsRounds
        <5>. QED  BY <5>1
      <4>. QED  BY <2>2, <2>3, <4>1 DEF Coming, DetailComing, FilesComing, RoundsComing, BringsRounds
    <3>. QED  BY <1>0, <1>2, <2>2, <2>4, <3>1, <3>2, RefreshesShaped, RefreshesAre, HandlerEnds
  <2>6. CASE FilesOn(c.paper) # {}
    <3>1. PICK f \in FilesOn(c.paper) : Answered(c, {[c EXCEPT !.step = "file", !.paper = page.paper, !.file = f]})
      BY <1>4, <2>6 DEF GotFiles
    <3>2. PICK d : d = [c EXCEPT !.step = "file", !.paper = page.paper, !.file = f]
      OBVIOUS
    <3>3. Became(c, d, "file", page.paper, f)
      BY <1>0, <2>1, <2>4, <3>2, CallMoves
    <3>4. calls' = rest \cup {d}
      BY <1>2, <3>1, <3>2 DEF Answered
    <3>5. Fits(d)'
      BY <1>0, <2>2, <2>4, <3>3 DEF Became, Fits, Navigations, OfFile
    <3>6. Coming'
      BY <2>2, <2>3, <2>4, <3>3, <3>4 DEF Became, Coming, DetailComing, FilesComing, RoundsComing, BringsRounds
    <3>. QED  BY <1>2, <2>2, <3>4, <3>5, <3>6, HandlerMoves
  <2>. QED  BY <2>5, <2>6
<1>5. CASE ReloadedDetail(c)
  <2>1. PICK v \in Nat : page' = Detailed(page, c.paper, v)
    BY <1>0, <1>5, ServedIs DEF ReloadedDetail, Detailed
  <2>2. /\ UNCHANGED <<page.paper, page.file, page.collab, page.view, page.timer, page.panel, page.files, sessions>>
        /\ page'.detail = page.paper /\ c.step = "reloadDetail"
    BY <1>0, <1>1, <1>5, <2>1, DetailPageIs DEF ReloadedDetail
  <2>3. PICK d : d = [c EXCEPT !.step = "reloadFiles", !.paper = page.paper]
    OBVIOUS
  <2>4. Became(c, d, "reloadFiles", page.paper, c.file) /\ c.for = "nav"
    BY <1>0, <2>2, <2>3, CallMoves DEF Shaped
  <2>5. calls' = rest \cup {d}
    BY <1>2, <1>5, <2>3 DEF ReloadedDetail, Answered
  <2>6. Fits(d)'
    BY <1>0, <2>2, <2>4 DEF Became, Fits, Navigations, OfFile
  <2>7. ~(c.step \in {"detail", "files"} \/ BringsRounds(c))
    BY <2>2 DEF BringsRounds
  <2>8. \A f \in page.files : f.paper = page.paper
    BY <1>0, <1>2, <2>7, Arrived DEF PageInv
  <2>9. Coming'
    BY <1>0, <1>2, <2>2, <2>7, <2>8, StillShown DEF PageInv
  <2>. QED  BY <1>2, <2>2, <2>5, <2>6, <2>9, HandlerMoves
<1>6. CASE ReloadedFiles(c)
  <2>1. FilesOn(c.paper) \in SUBSET Files /\ \A f \in FilesOn(c.paper) : f.paper = page.paper
    BY <1>0, <1>1, ServedIs
  <2>2. /\ UNCHANGED <<page.paper, page.file, page.collab, page.view, page.timer, page.panel, page.detail, sessions>>
        /\ \A f \in page'.files : f.paper = page.paper
        /\ c.step = "reloadFiles"
    BY <1>0, <1>6, <2>1 DEF ReloadedFiles, Page
  <2>3. PICK d : d = [c EXCEPT !.step = "file", !.paper = page.paper]
    OBVIOUS
  <2>4. Became(c, d, "file", page.paper, c.file) /\ c.for = "nav"
    BY <1>0, <2>2, <2>3, CallMoves DEF Shaped
  <2>5. calls' \subseteq rest \cup {d}
    BY <1>2, <1>6, <2>3 DEF ReloadedFiles, Answered
  <2>6. Fits(d)'
    BY <1>0, <2>2, <2>4 DEF Became, Fits, Navigations, OfFile
  <2>7. ~(c.step \in {"detail", "files"} \/ BringsRounds(c))
    BY <2>2 DEF BringsRounds
  <2>8. page.detail = page.paper
    BY <1>0, <1>2, <2>7, Arrived DEF PageInv
  <2>9. Coming'
    BY <1>0, <1>2, <2>2, <2>7, <2>8, StillShown DEF PageInv
  <2>. QED  BY <1>2, <2>2, <2>5, <2>6, <2>9, HandlerMoves
<1>7. CASE Rechecked(c)
  <2>1. PICK v \in Nat : page' = Detailed(page, c.paper, v)
    BY <1>0, <1>7, ServedIs DEF Rechecked, Detailed
  <2>2. /\ UNCHANGED <<page.paper, page.file, page.collab, page.view, page.timer, page.panel, page.files, sessions, edits>>
        /\ page'.detail = page.paper /\ c.step = "recheck"
    BY <1>0, <1>1, <1>7, <2>1, DetailPageIs DEF Rechecked
  <2>3. PICK d : d = [Send(c) EXCEPT !.version = server[c.paper].version]
    OBVIOUS
  <2>4. Became(c, d, "command", page.paper, page.file)
    BY <1>0, <2>2, <2>3, CallMoves, ServedIs
  <2>5. calls' \subseteq rest \cup {d}
    BY <1>2, <1>7, <2>3 DEF Rechecked, Answered
  <2>6. Fits(d)'
    BY <1>0, <2>2, <2>4 DEF Became, Fits, Navigations, OfFile, Stored
  <2>7. ~(c.step \in {"detail", "files"} \/ BringsRounds(c))
    BY <2>2 DEF BringsRounds
  <2>8. \A f \in page.files : f.paper = page.paper
    BY <1>0, <1>2, <2>7, Arrived DEF PageInv
  <2>9. Coming'
    BY <1>0, <1>2, <2>2, <2>7, <2>8, StillShown DEF PageInv
  <2>. QED  BY <1>2, <2>2, <2>5, <2>6, <2>9, HandlerMoves
<1>. QED  BY <1>3, <1>4, <1>5, <1>6, <1>7
\* openFile's session takes the place of the one that ended before.
LEMMA FileKeepsPage ==
    ASSUME Typed, PageInv, NEW c \in calls, GotFile(c)
    PROVE  PageInv'
<1>0. /\ c \in ShapedCalls /\ Shaped(c) /\ Fits(c) /\ page \in Page /\ page.paper \in Papers /\ page.paper # None
      /\ c.paper \in Papers /\ c.step = "file" /\ c.for \in {"open", "details", "nav", "accept"} /\ c.file \in Files
  BY PaperIsOpen DEF Typed, ShapedCalls, Shaped, PageInv, CallsFit, Call, GotFile
<1>1. /\ Front(c) /\ ~Panel(c) /\ c.paper = page.paper /\ page.collab = 0 /\ page.view = 0
      /\ \A i \in Slots : ~sessions[i].alive
  BY <1>0 DEF Fits, Front, Panel, AllPanels, Navigations, PageInv, Editor, Slots
<1>2. PICK rest \in SUBSET calls : rest = calls \ {c} /\ \A e \in rest : ~Front(e)
  BY <1>1, AloneInFront
<1>3. /\ UNCHANGED <<page.paper, page.view, page.files, page.detail, page.panel, page.timer, edits>>
      /\ page'.collab # 0 => page'.file = c.file
      /\ Editor'
  <2>1. CASE UNCHANGED <<page, sessions>>
    BY <1>1, <2>1 DEF PageInv, Editor, GotFile
  <2>2. ASSUME c.file \in FilesOn(c.paper), NEW i \in Slots,
               sessions' = [sessions EXCEPT ![i] = [Gone EXCEPT !.alive = TRUE, !.file = c.file]],
               page' = [page EXCEPT !.file = c.file, !.version = server[c.paper].version,
                                    !.conflict = FALSE, !.collab = i]
        PROVE  /\ UNCHANGED <<page.paper, page.view, page.files, page.detail, page.panel, page.timer, edits>>
               /\ page'.collab # 0 => page'.file = c.file
               /\ Editor'
    <3>1. c.file.paper = page.paper
      BY <1>0, <1>1, <2>2, ServedIs
    <3>2. PICK v \in Nat : page' = Filed(page, c.file, v, i)
      BY <1>0, <2>2, ServedIs DEF Filed
    <3>3. i \in 0 .. MaxSessions
      BY DEF Slots
    <3>4. /\ UNCHANGED <<page.paper, page.view, page.files, page.detail, page.panel, page.timer>>
          /\ page'.collab = i /\ page'.file = c.file
      BY <1>0, <3>2, <3>3, FilePageIs
    <3>5. \A j \in Slots : sessions'[j].alive => j = i
      BY <1>1, <2>2 DEF Typed
    <3>6. sessions'[i].file = c.file
      BY <2>2 DEF Typed, Gone
    <3>7. Editor'
      BY <1>1, <3>1, <3>4, <3>5, <3>6 DEF Editor
    <3>. QED  BY <3>4, <3>7 DEF GotFile
  <2>. QED  BY <2>1, <2>2 DEF GotFile
<1>4. page.detail = page.paper /\ \A f \in page.files : f.paper = page.paper
  BY <1>0, <1>2, Arrived DEF PageInv
<1>5. CASE c.for \in {"open", "details"}
  <2>1. PICK M : M = Refreshes(c.for)
    OBVIOUS
  <2>2. calls' = rest \cup M
    BY <1>2, <1>5, <2>1 DEF GotFile, Answered
  <2>3. M \subseteq ShapedCalls /\ \A d \in M : /\ d.step \in {"status", "build"} \cup AllPanels /\ d.paper = page.paper
                                                /\ Front(d) => Panel(d)
    BY <1>0, <1>5, <2>1, RefreshesShaped, RefreshesAre
  <2>4. \A d \in M : Fits(d)'
    BY <1>3, <2>3, BehindFits
  <2>5. OneFront' /\ CallsFit'
    BY <1>2, <2>2, <2>3, <2>4, FrontMoves
  <2>6. Coming'
    <3>1. ASSUME "rounds" \in Panels
          PROVE  Ask("rounds", c.for) \in calls' /\ BringsRounds(Ask("rounds", c.for))
      BY <2>1, <2>2, <3>1 DEF Refreshes, Ask, BringsRounds
    <3>2. RoundsComing'
      BY <3>1 DEF RoundsComing, BringsRounds
    <3>. QED  BY <1>3, <1>4, <3>2 DEF Coming, DetailComing, FilesComing
  <2>. QED  BY <1>3, <2>5, <2>6 DEF PageInv, BuildOfItsPaper
<1>6. CASE c.for \in {"nav", "accept"}
  <2>1. PICK d : d = [c EXCEPT !.step = "ready"]
    OBVIOUS
  <2>2. calls' \subseteq rest \cup IF c.for = "accept" THEN {d} ELSE {}
    BY <1>2, <1>6, <2>1 DEF GotFile, Answered
  <2>3. c.for = "accept" => Fits(d)'
    <3>. SUFFICES ASSUME c.for = "accept"
         PROVE  Fits(d)'
      OBVIOUS
    <3>1. Became(c, d, "ready", c.paper, c.file)
      BY <1>0, <2>1, CallMoves
    <3>. QED  BY <1>0, <1>1, <1>3, <3>1 DEF Became, Fits, Navigations, OfFile
  <2>4. OneFront' /\ CallsFit'
    <3>. DEFINE M == IF c.for = "accept" THEN {d} ELSE {}
    <3>1. calls' \subseteq rest \cup M /\ (\A e \in M : Fits(e)') /\ \A e, f \in M : e = f
      BY <2>2, <2>3
    <3>. HIDE DEF M
    <3>. QED  BY <1>2, <3>1, FrontMoves
  <2>5. ~(c \in calls /\ (c.step \in {"detail", "files"} \/ BringsRounds(c)))
    BY <1>0, <1>6 DEF BringsRounds
  <2>6. Coming'
    BY <1>0, <1>2, <1>3, <1>4, <2>5, StillShown DEF PageInv
  <2>. QED  BY <1>3, <2>4, <2>6 DEF PageInv, BuildOfItsPaper
<1>. QED  BY <1>0, <1>5, <1>6

\* What goes on behind, and the refreshes at the end of openPaper
LEMMA PanelKeepsPage ==
    ASSUME Typed, PageInv, NEW c \in calls, GotPanel(c) \/ GotStatus(c)
    PROVE  PageInv'
<1>0. /\ c \in ShapedCalls /\ c \in Call /\ Shaped(c) /\ Fits(c) /\ page \in Page /\ page.paper \in Papers
      /\ calls' = calls \ {c} /\ UNCHANGED <<sessions, edits>>
  BY PaperIsOpen DEF Typed, ShapedCalls, PageInv, CallsFit, GotPanel, GotStatus, Answered
<1>1. CASE GotPanel(c)
  <2>1. UNCHANGED <<page.paper, page.file, page.collab, page.view, page.timer, page.detail, page.files>>
    BY <1>0, <1>1 DEF GotPanel, Page
  <2>2. page'.panel = [page.panel EXCEPT ![c.step] = c.paper] /\ page.panel \in [Panels -> {None} \cup Papers]
    BY <1>0, <1>1 DEF GotPanel, Page
  <2>3. c.step = "rounds" => page'.panel["rounds"] = page.paper
    BY <1>0, <1>1, <2>2 DEF GotPanel, Shaped, Fits
  <2>4. c.step # "rounds" => ("rounds" \in Panels => page'.panel["rounds"] = page.panel["rounds"])
    BY <1>1, <2>2 DEF GotPanel
  <2>5. c.step \in AllPanels
    BY <1>1, PageAssumption DEF GotPanel
  <2>6. Coming'
    <3>1. DetailComing => DetailComing'
      BY <1>0, <2>1, <2>5 DEF DetailComing, AllPanels
    <3>2. FilesComing => FilesComing'
      BY <1>0, <2>1, <2>5 DEF FilesComing, AllPanels
    <3>3. c.step # "rounds" => ~BringsRounds(c)
      BY <2>5 DEF BringsRounds, AllPanels
    <3>4. RoundsComing => RoundsComing'
      BY <1>0, <2>1, <2>3, <2>4, <3>3 DEF RoundsComing, BringsRounds
    <3>. QED  BY <2>1, <3>1, <3>2, <3>4 DEF PageInv, Coming
  <2>7. CallsFit'
    BY <1>0, <2>1, FitsStay DEF PageInv, CallsFit
  <2>8. OneFront' /\ Editor'
    BY <1>0, <2>1, FewerInFront, EditorStays DEF PageInv
  <2>. QED  BY <2>1, <2>6, <2>7, <2>8 DEF PageInv, BuildOfItsPaper
<1>2. CASE GotStatus(c)
  <2>1. UNCHANGED <<page.paper, page.file, page.collab, page.view, page.timer, page.detail, page.files, page.panel>>
    BY <1>0, <1>2, StatusPageIs DEF GotStatus
  <2>2. ~(c.step = "detail" \/ c.step = "files" \/ BringsRounds(c))
    BY <1>2 DEF GotStatus, BringsRounds
  <2>3. Coming'
    BY <1>0, <2>1, <2>2, ComingStays DEF PageInv
  <2>4. CallsFit'
    BY <1>0, <2>1, FitsStay DEF PageInv, CallsFit
  <2>5. OneFront' /\ Editor'
    BY <1>0, <2>1, FewerInFront, EditorStays DEF PageInv
  <2>. QED  BY <2>1, <2>3, <2>4, <2>5 DEF PageInv, BuildOfItsPaper
<1>. QED  BY <1>1, <1>2

\* Calls of the background come and go, and leave the page as it is.
LEMMA BehindKeepsPage ==
    ASSUME Typed, PageInv, NEW M \in SUBSET ShapedCalls, \A d \in M : ~Front(d) /\ d.step \in {"status", "build"} \cup AllPanels,
           NEW c, c \in calls => c.step \in {"status", "build"}, calls \ {c} \subseteq calls', calls' \subseteq calls \cup M,
           UNCHANGED <<page.paper, page.file, page.collab, page.view, page.detail, page.files, page.panel, edits>>,
           page'.timer \in {None, page.timer},
           \A i \in Slots : sessions'[i].alive => sessions[i].alive /\ sessions'[i].file = sessions[i].file
    PROVE  PageInv'
<1>1. \A d \in M : Fits(d)'
  BY BehindFits
<1>2. \A d \in calls : Fits(d)'
  BY FitsStay DEF PageInv, CallsFit
<1>3. OneFront' /\ Editor'
  BY FewerInFront, EditorStays DEF PageInv
<1>4. Coming'
  <2>1. c \in calls => ~(c.step = "detail" \/ c.step = "files" \/ BringsRounds(c))
    BY DEF BringsRounds
  <2>. QED  BY <2>1, ComingStays DEF PageInv
<1>. QED  BY <1>1, <1>2, <1>3, <1>4 DEF PageInv, CallsFit, BuildOfItsPaper
LEMMA ShowsTheSame ==
    ASSUME Typed, PageInv, page.paper # None, NEW c, \A d \in calls \ {c} : ~Front(d),
           ~(c \in calls /\ (c.step \in {"detail", "files"} \/ BringsRounds(c))),
           UNCHANGED <<page.paper, page.detail, page.files, page.panel>>
    PROVE  Coming'
<1>1. page.detail = page.paper /\ \A f \in page.files : f.paper = page.paper
  BY Arrived DEF PageInv
<1>. QED  BY <1>1, StillShown DEF PageInv

\* A command: its flush, its request, and how it ends
LEMMA CommandKeepsPage ==
    ASSUME Typed, PageInv, NEW c \in calls,
           GotFlush(c) \/ FlushFails(c) \/ Execute(c) \/ Refuse(c) \/ Succeeded(c) \/ GotReady(c) \/ Reload(c)
    PROVE  PageInv'
<1>0. /\ c \in ShapedCalls /\ c \in Call /\ Shaped(c) /\ Fits(c) /\ page \in Page /\ page.paper \in Papers /\ page.paper # None
      /\ c.step \in {"flush", "command", "done", "ready", "reload"}
  BY PaperIsOpen DEF Typed, ShapedCalls, PageInv, CallsFit, GotFlush, FlushFails, Execute, Refuse, Succeeded, GotReady, Reload
<1>1. Front(c) /\ ~Panel(c) /\ c.paper = page.paper /\ ~(c.step \in {"detail", "files"} \/ BringsRounds(c))
  BY <1>0, KindsAre DEF Shaped, Fits, Front, Panel, AllPanels, BringsRounds
<1>2. PICK rest \in SUBSET calls : rest = calls \ {c} /\ \A e \in calls \ {c} : ~Front(e)
  BY <1>1, AloneInFront
<1>3. UNCHANGED page => Coming'
  BY <1>0, <1>1, <1>2, ShowsTheSame
<1>4. ASSUME UNCHANGED <<page, sessions>>, NEW M \in SUBSET ShapedCalls, calls' \subseteq rest \cup M,
             \A d \in M : d.step \in {"status", "build"} \cup AllPanels /\ d.paper = page.paper,
             \A d \in M : Front(d) => Panel(d)
      PROVE  PageInv'
  BY <1>2, <1>3, <1>4, HandlerEnds
<1>5. ASSUME UNCHANGED page, NEW d, calls' = rest \cup {d}, Fits(d)',
             \A i \in Slots : sessions'[i].alive => sessions[i].alive /\ sessions'[i].file = sessions[i].file
      PROVE  PageInv'
  BY <1>2, <1>3, <1>5, HandlerMoves
<1>51. ASSUME UNCHANGED <<page, sessions>>, calls' \subseteq rest
       PROVE  PageInv'
  <2>1. PICK M : M = {}
    OBVIOUS
  <2>2. M \in SUBSET ShapedCalls /\ calls' \subseteq rest \cup M /\ \A d \in M : FALSE
    BY <1>51, <2>1
  <2>. QED  BY <1>4, <1>51, <2>2
<1>6. CASE GotFlush(c)
  <2>0. c.step = "flush" /\ c.for \in AllKinds /\ c.press \in Press /\ UNCHANGED <<page, sessions>>
        /\ edits' = Flushed(edits, c.slot) /\ c.slot \in 0 .. MaxSessions
    BY <1>0, <1>6 DEF GotFlush, Shaped, Call
  <2>1. \A u \in c.press.typed : edits'[u].durable
    BY <1>0, <2>0, EditsMove DEF Fits, Press
  <2>2. PICK d, e, b : d = [c EXCEPT !.step = "recheck", !.paper = page.paper] /\ e = Send(c) /\ b = Ask("build", "manual")
    OBVIOUS
  <2>3. Became(c, d, "recheck", page.paper, c.file)
    BY <1>0, <2>0, <2>2, CallMoves
  <2>4. e.step = "command" /\ e.for = c.for /\ e.paper = page.paper /\ e.file = page.file /\ e.press = c.press
    BY <1>0, <2>0, <2>2, CallSent
  <2>5. b.step = "build" /\ b.for = "manual" /\ b.paper = page.paper
    BY <2>2 DEF Ask
  <2>6. Fits(d)'
    BY <1>0, <2>0, <2>1, <2>3 DEF Became, Fits, Navigations, OfFile, Stored
  <2>7. Fits(e)'
    BY <1>0, <2>0, <2>1, <2>4 DEF Fits, Navigations, OfFile, Stored
  <2>8. Fits(b)'
    BY <2>0, <2>5 DEF Fits, Navigations, OfFile
  <2>9. \/ calls' = rest \cup {d} \/ calls' = rest \cup {e} \/ calls' = rest \cup {b} \/ calls' = rest
    BY <1>2, <1>6, <2>2 DEF GotFlush, Answered
  <2>. QED  BY <1>5, <1>51, <2>0, <2>6, <2>7, <2>8, <2>9
<1>7. CASE FlushFails(c) \/ Refuse(c)
  <2>1. UNCHANGED <<page, sessions>> /\ calls' \subseteq rest
    BY <1>2, <1>7 DEF FlushFails, Refuse, Answered
  <2>. QED  BY <1>51, <2>1
<1>8. CASE Execute(c)
  <2>1. PICK o \in Outcomes(c) : Answered(c, {[c EXCEPT !.step = "done", !.version = o[1].version, !.file = o[2]]})
    BY <1>8 DEF Execute
  <2>2. PICK d : d = [c EXCEPT !.step = "done", !.version = o[1].version, !.file = o[2]]
    OBVIOUS
  <2>3. o[1].version \in Nat /\ o[2] \in {None} \cup Files /\ c.step = "command"
    BY <1>0, <1>8, OutcomesTyped DEF Execute
  <2>4. Became(c, d, "done", c.paper, o[2])
    BY <1>0, <2>2, <2>3, CallMoves
  <2>5. page' = page /\ Fits(d)'
    BY <1>1, <1>8, <2>4 DEF Execute, Became, Fits, Navigations, OfFile
  <2>6. calls' = rest \cup {d}
    BY <1>2, <2>1, <2>2 DEF Answered
  <2>7. \A i \in Slots : sessions'[i].alive => sessions[i].alive /\ sessions'[i].file = sessions[i].file
    BY <1>8, StaleIs DEF Execute
  <2>. QED  BY <1>5, <2>5, <2>6, <2>7
<1>9. CASE Succeeded(c)
  <2>. DEFINE file == IF c.for = "setMain" THEN page.file ELSE c.file
  <2>0. c.for \in AllKinds /\ file \in {None} \cup Files
    BY <1>0, <1>9 DEF Succeeded, Shaped, Call, Page
  <2>1. ASSUME NEW for \in {"open", "details"}, Opening(page.paper, for, calls \ {c})
        PROVE  PageInv'
    BY <1>0, <1>2, <2>1, PaperOpens
  <2>2. ASSUME file # None, CloseEditor, page' = [ClosedPage(page) EXCEPT !.version = c.version],
               calls' = Rejected(calls \ {c}, page.collab) \cup {[Ask("reloadDetail", "nav") EXCEPT !.file = file]}
        PROVE  PageInv'
    <3>1. PICK n : n = ClosedPage(page)
      OBVIOUS
    <3>2. page' = [n EXCEPT !.version = c.version]
      BY <2>2, <3>1
    <3>3. /\ n \in Page /\ n.collab = 0 /\ n.view = 0 /\ n.paper = page.paper /\ n.file = page.file
          /\ n.files = page.files /\ n.detail = page.detail /\ n.panel = page.panel /\ n.timer = page.timer
      BY <1>0, <3>1, ClosedPageIs
    <3>4. /\ page'.collab = 0 /\ page'.view = 0
          /\ UNCHANGED <<page.paper, page.detail, page.files, page.panel, page.timer>>
      BY <3>2, <3>3 DEF Page
    <3>5. PICK d : d = [Ask("reloadDetail", "nav") EXCEPT !.file = file]
      OBVIOUS
    <3>6. d.step = "reloadDetail" /\ d.for = "nav" /\ d.paper = page.paper
      BY <3>5 DEF Ask
    <3>7. Fits(d)'
      BY <3>4, <3>6 DEF Fits, Navigations, OfFile
    <3>8. calls' = Rejected(rest, page.collab) \cup {d}
      BY <1>2, <2>2, <3>5
    <3>. QED  BY <1>0, <1>1, <1>2, <2>2, <3>4, <3>7, <3>8, FileGivesWay
  <2>3. ASSUME Answered(c, {Ask(i, c.for) : i \in Panels \cap {How[c.for].after}}), UNCHANGED <<page, sessions>>
        PROVE  PageInv'
    <3>1. PICK M : M = {Ask(i, c.for) : i \in Panels \cap {How[c.for].after}}
      OBVIOUS
    <3>2. M \in SUBSET ShapedCalls
      BY <1>0, <2>0, <3>1, AskedShaped
    <3>3. \A d \in M : d.step \in AllPanels /\ d.paper = page.paper
      BY <3>1, PageAssumption DEF Ask
    <3>4. calls' \subseteq rest \cup M
      BY <1>2, <2>3, <3>1 DEF Answered
    <3>5. \A d \in M : Panel(d) /\ d.step \in {"status", "build"} \cup AllPanels /\ d.paper = page.paper
      BY <3>3 DEF Panel
    <3>. QED  BY <1>4, <2>3, <3>2, <3>4, <3>5
  <2>4. CASE How[c.for].after = "paper"
    BY <1>9, <2>1, <2>4 DEF Succeeded
  <2>5. CASE How[c.for].after = "file" /\ file # None
    BY <1>9, <2>2, <2>5 DEF Succeeded
  <2>6. CASE ~(How[c.for].after = "paper") /\ ~(How[c.for].after = "file" /\ file # None)
    BY <1>9, <2>3, <2>6 DEF Succeeded
  <2>. QED  BY <2>4, <2>5, <2>6
<1>10. CASE GotReady(c)
  <2>0. c.step = "ready" /\ c.for = "accept" /\ UNCHANGED <<page, sessions>>
    BY <1>0, <1>10 DEF GotReady, Shaped
  <2>1. CASE page.collab = 0
    <3>1. calls' \subseteq rest
      BY <1>2, <1>10, <2>1 DEF GotReady, Answered
    <3>. QED  BY <1>51, <2>0, <3>1
  <2>2. CASE page.collab # 0
    <3>1. PICK u \in Edits :
             /\ edits' = [edits EXCEPT ![u] = [Untyped EXCEPT !.file = page.file, !.slot = page.collab]]
             /\ Answered(c, {[c EXCEPT !.step = "flush", !.slot = page.collab, !.press.typed = {u}]})
      BY <1>10, <2>2 DEF GotReady
    <3>2. PICK d : d = [c EXCEPT !.step = "flush", !.slot = page.collab, !.press.typed = {u}]
      OBVIOUS
    <3>3. /\ d \in ShapedCalls /\ d.step = "flush" /\ d.for = "accept" /\ d.paper = c.paper /\ d.slot = page.collab
          /\ d.press.typed = {u} /\ d.press.file = c.press.file /\ d.press.paper = c.press.paper
      BY <1>0, <2>0, <3>2, EditFlushed
    <3>4. edits'[u].slot = page.collab
      BY <3>1 DEF Typed, Untyped
    <3>5. Fits(d)'
      BY <1>0, <1>1, <2>0, <2>2, <3>3, <3>4 DEF Fits, Navigations, OfFile
    <3>6. calls' = rest \cup {d}
      BY <1>2, <3>1, <3>2 DEF Answered
    <3>. QED  BY <1>5, <2>0, <3>5, <3>6
  <2>. QED  BY <2>1, <2>2
<1>11. CASE Reload(c)
  <2>1. calls \ {c} \in SUBSET calls
    OBVIOUS
  <2>. QED  BY <1>0, <1>2, <1>11, <2>1, PaperOpens DEF Reload
<1>. QED  BY <1>6, <1>7, <1>8, <1>9, <1>10, <1>11
-----------------------------------------------------------------------------
(* The Writer, the sessions, the timers and the others *)

\* Panels are refreshed for a paper that was opened, and the rest is in front.
LEMMA NothingComes ==
    ASSUME Typed, PageInv, page.paper # None, \A c \in calls : ~Front(c)
    PROVE  /\ \A c \in calls : ~(c.step \in {"detail", "files"} \/ BringsRounds(c))
           /\ UNCHANGED <<page.paper, page.detail, page.files, page.panel>> => Coming'
<1>1. \A c \in calls : ~(c.step \in {"detail", "files"} \/ BringsRounds(c))
  BY DEF Typed, ShapedCalls, Shaped, Front, BringsRounds
<1>2. PICK c : c = None
  OBVIOUS
<1>3. ~(c \in calls /\ (c.step \in {"detail", "files"} \/ BringsRounds(c))) /\ \A d \in calls \ {c} : ~Front(d)
  BY <1>1
<1>. QED  BY <1>1, <1>3, ShowsTheSame

\* openFile, and writerAcceptSuggestion for another file
LEMMA IdleGivesWay ==
    ASSUME Typed, PageInv, Waits, Idle, page.paper # None, NEW d, Fits(d)',
           CloseEditor, page' = ClosedPage(page), calls' = Rejected(calls, page.collab) \cup {d}
    PROVE  PageInv'
<1>1. /\ page'.collab = 0 /\ page'.view = 0
      /\ UNCHANGED <<page.paper, page.detail, page.files, page.panel, page.timer>>
  BY ClosedPageIs DEF Typed
<1>2. \A c \in calls : ~Front(c)
  BY IdleIsBehind
<1>3. OneFront' /\ CallsFit' /\ Editor'
  <2>1. calls \in SUBSET calls
    OBVIOUS
  <2>. QED  BY <1>1, <1>2, <2>1, EditorGivesWay DEF PageInv
<1>4. Coming'
  BY <1>1, <1>2, NothingComes
<1>. QED  BY <1>1, <1>3, <1>4 DEF PageInv, BuildOfItsPaper

LEMMA ClickKeepsPage ==
    ASSUME Typed, PageInv, Waits, NEW k \in Kinds, Click(k)
    PROVE  PageInv'
<1>1. page \in Page /\ page.paper \in Papers /\ page.paper # None /\ k \in AllKinds /\ UNCHANGED <<sessions, edits>>
  BY PageAssumption DEF Click, Typed, Page
<1>2. \A c \in calls : ~Front(c)
  BY IdleIsBehind DEF Click
<1>3. /\ UNCHANGED <<page.paper, page.file, page.collab, page.view, page.detail, page.files, page.panel>>
      /\ page'.timer \in {None, page.timer}
  BY <1>1 DEF Click, Page
<1>4. PICK d : d = FirstStep(k)
  OBVIOUS
<1>5. /\ d.for = k /\ d.paper = page.paper /\ d.press = Pressed
      /\ \/ d.step = "command" /\ d.file = page.file /\ (How[k].flush = "no" \/ page.collab = 0)
         \/ d.step = "flush" /\ d.slot = page.collab /\ page.collab # 0 /\ How[k].flush # "no"
  BY <1>1, <1>4, FirstStepShaped
<1>6. Pressed.paper = page.paper /\ Pressed.file = page.file /\ Pressed.typed = UnsavedIn(page.view)
  BY <1>1, PressedTyped
<1>7. \A u \in d.press.typed : page.collab # 0 /\ edits[u].slot = page.collab
  BY <1>5, <1>6 DEF UnsavedIn, PageInv, Editor
<1>8. Fits(d)'
  BY <1>1, <1>3, <1>5, <1>6, <1>7 DEF Fits, Navigations, OfFile, Stored
<1>9. calls' \subseteq calls \cup {d} /\ calls \in SUBSET calls
  BY <1>4 DEF Click
<1>10. Coming'
  BY <1>1, <1>2, <1>3, NothingComes
<1>. QED  BY <1>1, <1>2, <1>3, <1>8, <1>9, <1>10, HandlerMoves

LEMMA AcceptKeepsPage ==
    ASSUME Typed, PageInv, Waits, NEW f \in Files, Accept(f)
    PROVE  PageInv'
<1>1. page \in Page /\ page.paper \in Papers /\ page.paper # None
  BY PaperIsOpen DEF Accept, Typed
<1>2. Idle /\ \A c \in calls : ~Front(c)
  BY IdleIsBehind DEF Accept
<1>3. PICK d, e : /\ d = [Ask("file", "accept") EXCEPT !.file = f, !.press = [Pressed EXCEPT !.file = f, !.typed = {}]]
                  /\ e = [d EXCEPT !.step = "ready"]
  OBVIOUS
<1>4. /\ d \in ShapedCalls /\ d.step = "file" /\ d.for = "accept" /\ d.paper = page.paper /\ d.file = f
      /\ d.press.file = f /\ d.press.typed = {} /\ d.press.paper = page.paper
  BY <1>1, <1>3, AcceptAsked
<1>5. Became(d, e, "ready", page.paper, f)
  BY <1>1, <1>3, <1>4, CallMoves
<1>6. CASE f = page.file
  <2>1. calls' = calls \cup {e} /\ calls \in SUBSET calls /\ UNCHANGED <<page, sessions>>
    BY <1>3, <1>6 DEF Accept
  <2>2. Fits(e)'
    BY <1>4, <1>5, <1>6, <2>1 DEF Became, Fits, Navigations, OfFile
  <2>3. Coming'
    BY <1>1, <1>2, <2>1, NothingComes
  <2>. QED  BY <1>2, <2>1, <2>2, <2>3, HandlerMoves
<1>7. CASE f # page.file
  <2>1. CloseEditor /\ page' = ClosedPage(page) /\ calls' = Rejected(calls, page.collab) \cup {d}
    BY <1>3, <1>7 DEF Accept
  <2>2. page'.collab = 0 /\ page'.view = 0 /\ page'.paper = page.paper
    BY <1>1, <2>1, ClosedPageIs
  <2>3. Fits(d)'
    BY <1>4, <2>2 DEF Fits, Navigations, OfFile
  <2>. QED  BY <1>1, <1>2, <2>1, <2>3, IdleGivesWay
<1>. QED  BY <1>6, <1>7

LEMMA SessionKeepsPage ==
    ASSUME Typed, PageInv, Waits, NEW i \in Slots, Mount(i) \/ Durable(i) \/ EpochChanged(i) \/ Revoked(i)
    PROVE  PageInv'
<1>1. /\ page \in Page /\ page.paper \in Papers /\ page.paper # None /\ i \in 0 .. MaxSessions /\ sessions[i].alive
      /\ i = page.collab /\ i # 0 /\ sessions[i].file.paper = page.paper /\ sessions[i].file = page.file
  <2>1. sessions[i].alive /\ i \in 0 .. MaxSessions /\ i # 0
    BY DEF Mount, Durable, EpochChanged, Revoked, Slots
  <2>. QED  BY <2>1, PaperIsOpen DEF PageInv, Editor, Typed
<1>2. ASSUME Mount(i) \/ Durable(i)
      PROVE  PageInv'
  <2>1. /\ UNCHANGED <<page.paper, page.file, page.collab, page.detail, page.files, page.panel, calls>>
        /\ page'.timer \in {page.timer, page.paper} /\ page'.view \in {page.view, page.collab}
    BY <1>1, <1>2 DEF Mount, Durable, Page
  <2>2. \A j \in Slots : sessions'[j].alive => sessions[j].alive /\ sessions'[j].file = sessions[j].file
    BY <1>1, <1>2 DEF Mount, Durable, Typed, SoundSession, Session
  <2>3. edits' = Adopted(edits, i, sessions[i].file) \/ edits' = Flushed(edits, i)
    BY <1>2 DEF Mount, Durable
  <2>4. \A u \in Edits : /\ edits[u].durable => edits'[u].durable
                         /\ edits[u].slot # 0 => edits'[u].slot = edits[u].slot
    BY <1>1, <2>3, EditsMove
  <2>5. CallsFit'
    BY <1>1, <2>1, <2>4, FitsStay DEF PageInv, CallsFit
  <2>6. Editor'
    BY <1>1, <2>1, <2>2 DEF PageInv, Editor
  <2>7. OneFront' /\ Coming'
    BY <2>1, FewerInFront, ComingStays DEF PageInv
  <2>. QED  BY <2>1, <2>5, <2>6, <2>7 DEF PageInv, BuildOfItsPaper
<1>3. ASSUME EpochChanged(i) \/ Revoked(i)
      PROVE  /\ UNCHANGED <<page.paper, page.file, page.collab, page.view, page.detail, page.files, page.panel, page.timer>>
             /\ sessions' = Ended(sessions, i) /\ edits' = Kept(edits, i)
             /\ \A j \in Slots : sessions'[j].alive => sessions[j].alive /\ sessions'[j].file = sessions[j].file
  <2>1. sessions' = Ended(sessions, i) /\ edits' = Kept(edits, i) /\ page' = [page EXCEPT !.conflict = TRUE]
    BY <1>3 DEF EpochChanged, Revoked
  <2>2. \A j \in Slots : sessions'[j].alive => sessions[j].alive /\ sessions'[j].file = sessions[j].file
    BY <2>1, SessionsEnd
  <2>. QED  BY <1>1, <2>1, <2>2 DEF Page
<1>4. CASE EpochChanged(i)
  <2>1. \A c \in calls : ~Front(c)
    BY <1>4, IdleIsBehind DEF EpochChanged, Waits
  <2>2. PICK d : d = Ask("reload", "open")
    OBVIOUS
  <2>3. d.step = "reload" /\ d.for = "open" /\ d.paper = page.paper
    BY <2>2 DEF Ask
  <2>4. Fits(d)'
    BY <1>3, <1>4, <2>3 DEF Fits, Navigations, OfFile
  <2>5. calls' \subseteq calls \cup {d} /\ calls \in SUBSET calls
    BY <1>4, <2>2 DEF EpochChanged, Rejected
  <2>6. Coming'
    BY <1>1, <1>3, <1>4, <2>1, NothingComes
  <2>. QED  BY <1>3, <1>4, <2>1, <2>4, <2>5, <2>6, HandlerMoves
<1>5. CASE Revoked(i)
  <2>1. calls' = {c \in calls : c.step # "flush" \/ c.slot # i}
    BY <1>5 DEF Revoked, Rejected
  <2>2. CallsFit'
    <3>1. \A c \in calls', u \in Edits :
             /\ edits[u].durable => edits'[u].durable
             /\ c.step = "flush" /\ c.slot # 0 /\ edits[u].slot = c.slot => edits'[u].slot = c.slot
      BY <1>1, <1>3, <1>5, <2>1, EditsMove
    <3>. QED  BY <1>3, <1>5, <2>1, <3>1, FitsStay DEF PageInv, CallsFit
  <2>3. Coming'
    BY <1>3, <1>5, <2>1, ComingStays DEF PageInv, BringsRounds
  <2>4. OneFront' /\ Editor'
    BY <1>3, <1>5, <2>1, FewerInFront, EditorStays DEF PageInv
  <2>. QED  BY <1>3, <1>5, <2>2, <2>3, <2>4 DEF PageInv, BuildOfItsPaper
<1>. QED  BY <1>2, <1>4, <1>5

\* Every step of the Writer who waits, every answer, timer and notice
LEMMA NextKeepsPage ==
    ASSUME Typed, PageInv, Waits, [Next]_vars
    PROVE  PageInv'
<1>0. page \in Page /\ calls \subseteq ShapedCalls /\ edits \in [Edits -> Edit]
  BY DEF Typed
<1>1. ASSUME NEW p \in Papers, OpenPaper(p)
      PROVE  PageInv'
  <2>1. calls \in SUBSET calls /\ \A c \in calls : ~Front(c)
    BY <1>1, IdleIsBehind DEF OpenPaper
  <2>. QED  BY <1>1, <2>1, PaperOpens DEF OpenPaper
<1>2. ASSUME NEW f \in Files, OpenFile(f)
      PROVE  PageInv'
  <2>1. page.paper # None
    BY <1>2, PaperIsOpen DEF OpenFile
  <2>2. PICK d : d = [Ask("file", "nav") EXCEPT !.file = f]
    OBVIOUS
  <2>3. d.step = "file" /\ d.for = "nav" /\ d.paper = page.paper
    BY <2>2 DEF Ask
  <2>4. CloseEditor /\ page' = ClosedPage(page) /\ calls' = Rejected(calls, page.collab) \cup {d} /\ Idle
    BY <1>2, <2>2 DEF OpenFile
  <2>5. page'.collab = 0 /\ page'.view = 0 /\ page'.paper = page.paper
    BY <1>0, <2>4, ClosedPageIs
  <2>6. Fits(d)'
    BY <2>3, <2>5 DEF Fits, Navigations, OfFile
  <2>. QED  BY <2>1, <2>4, <2>6, IdleGivesWay
<1>3. ASSUME NEW u \in Edits, Type(u)
      PROVE  PageInv'
  <2>1. UNCHANGED <<page, sessions, calls>> /\ edits[u].slot = 0 /\ edits[u].durable = FALSE
        /\ \A v \in Edits \ {u} : edits'[v] = edits[v]
    BY <1>0, <1>3 DEF Type, Untyped
  <2>2. CallsFit'
    BY <2>1, FitsStay DEF PageInv, CallsFit
  <2>3. OneFront' /\ Editor' /\ Coming'
    BY <2>1, FewerInFront, EditorStays, ComingStays DEF PageInv
  <2>. QED  BY <2>1, <2>2, <2>3 DEF PageInv, BuildOfItsPaper
<1>4. ASSUME NEW c \in calls, GotBuild(c)
      PROVE  PageInv'
  <2>1. PICK M : M = {Ask("status", "poll")} \cup {Ask(s, "poll") : s \in Panels \cap {"history"}}
    OBVIOUS
  <2>2. page.paper \in Papers
    BY <1>4, PaperIsOpen
  <2>3. M \in SUBSET ShapedCalls
    BY <2>1, <2>2, AskedShaped
  <2>4. \A d \in M : ~Front(d) /\ d.step \in {"status", "build"} \cup AllPanels
    BY <2>1 DEF Ask, Front, AllPanels
  <2>5. c.step = "build" /\ calls' = (calls \ {c}) \cup M /\ UNCHANGED <<page, sessions, edits>>
    BY <1>4, <2>1 DEF GotBuild, Answered
  <2>. QED  BY <2>3, <2>4, <2>5, BehindKeepsPage
<1>5. CASE AutoBuild
  <2>1. PICK d : d = Ask("build", "auto")
    OBVIOUS
  <2>2. page.paper \in Papers
    BY <1>5, PaperIsOpen DEF AutoBuild
  <2>3. PICK M : M = {d}
    OBVIOUS
  <2>4. M \in SUBSET ShapedCalls
    BY <2>1, <2>2, <2>3, AskedShaped
  <2>5. d.step = "build" /\ \A e \in M : ~Front(e) /\ e.step \in {"status", "build"} \cup AllPanels
    BY <2>1, <2>3 DEF Ask, Front
  <2>6. calls' = calls \cup M /\ UNCHANGED <<sessions, edits>>
    BY <1>5, <2>1, <2>3 DEF AutoBuild
  <2>7. /\ UNCHANGED <<page.paper, page.file, page.collab, page.view, page.detail, page.files, page.panel>>
        /\ page'.timer \in {None, page.timer}
    BY <1>0, <1>5 DEF AutoBuild, Page
  <2>8. calls \ {d} \subseteq calls' /\ calls' \subseteq calls \cup M /\ (d \in calls => d.step \in {"status", "build"})
    BY <2>5, <2>6
  <2>. QED  BY <2>4, <2>5, <2>6, <2>7, <2>8, BehindKeepsPage
<1>6. CASE Poll
  <2>1. PICK M, d : M = {Ask(i, "poll") : i \in {"status"} \cup (Panels \cap {"reviews"})} /\ d = Ask("status", "poll")
    OBVIOUS
  <2>2. page.paper \in Papers
    BY <1>0, <1>6 DEF Poll, Page
  <2>3. M \in SUBSET ShapedCalls
    BY <2>1, <2>2, AskedShaped
  <2>4. d.step = "status" /\ \A e \in M : ~Front(e) /\ e.step \in {"status", "build"} \cup AllPanels
    BY <2>1 DEF Ask, Front, AllPanels
  <2>5. calls' = calls \cup M /\ UNCHANGED <<page, sessions, edits>>
    BY <1>6, <2>1 DEF Poll
  <2>6. calls \ {d} \subseteq calls' /\ calls' \subseteq calls \cup M /\ (d \in calls => d.step \in {"status", "build"})
    BY <2>4, <2>5
  <2>. QED  BY <2>3, <2>4, <2>5, <2>6, BehindKeepsPage
<1>7. ASSUME UNCHANGED <<page, calls, edits>>,
             \A i \in Slots : sessions'[i].alive => sessions[i].alive /\ sessions'[i].file = sessions[i].file
      PROVE  PageInv'
  <2>1. CallsFit'
    BY <1>7, FitsStay DEF PageInv, CallsFit
  <2>2. OneFront' /\ Editor' /\ Coming'
    BY <1>7, FewerInFront, EditorStays, ComingStays DEF PageInv
  <2>. QED  BY <1>7, <2>1, <2>2 DEF PageInv, BuildOfItsPaper
<1>8. ASSUME UNCHANGED vars \/ \E p \in Papers : Built(p) \/ Restore(p) \/ Restructure(p)
      PROVE  PageInv'
  <2>1. UNCHANGED <<page, calls, edits>>
    BY <1>8 DEF vars, Built, Restore, Restructure
  <2>2. \A i \in Slots : sessions'[i].alive => sessions[i].alive /\ sessions'[i].file = sessions[i].file
    BY <1>8, StaleIs DEF vars, Built, Restore, Restructure
  <2>. QED  BY <1>7, <2>1, <2>2
<1>9. ASSUME NEW c \in calls, Answer(c)
      PROVE  PageInv'
  BY <1>4, <1>9, DetailKeepsPage, FileKeepsPage, PanelKeepsPage, CommandKeepsPage DEF Answer
<1>. QED
  BY <1>1, <1>2, <1>3, <1>5, <1>6, <1>8, <1>9, AcceptKeepsPage, ClickKeepsPage, SessionKeepsPage DEF Next, User

LEMMA PageImplies == Typed /\ PageInv => OneEditor /\ BuildOfItsPaper /\ SettledPage
<1>. SUFFICES ASSUME Typed, PageInv PROVE OneEditor /\ BuildOfItsPaper /\ SettledPage
  OBVIOUS
<1>1. OneEditor
  <2>1. page.view # 0 => page.view \in Slots
    BY PageAssumption DEF Typed, Page, Slots
  <2>. QED  BY <2>1 DEF PageInv, Editor, OneEditor
<1>2. BuildOfItsPaper
  BY DEF PageInv
<1>3. SettledPage
  BY DEF PageInv, Coming, DetailComing, FilesComing, RoundsComing, SettledPage
<1>. QED  BY <1>1, <1>2, <1>3

LEMMA PageHolds == ASSUME Waits PROVE Spec => [](Typed /\ PageInv)
<1>1. Init => Typed /\ PageInv
  BY InitTyped, InitPage
<1>2. Typed /\ PageInv /\ [Next]_vars => (Typed /\ PageInv)'
  BY NextTyped, NextKeepsPage
<1>. QED  BY <1>1, <1>2, PTL DEF Spec

\* The editor shows the one session there is, of the file and the paper that the page
\* names: closeEditor ends it before openFile joins the next one.
THEOREM WriterOneEditor == ASSUME Waits PROVE Spec => []OneEditor
BY PageHolds, PageImplies, PTL

\* An automatic build is requested for the paper that was idle (openPaper cancels
\* the scheduler of the paper that is left).
THEOREM WriterBuildOfItsPaper == ASSUME Waits PROVE Spec => []BuildOfItsPaper
BY PageHolds, PageImplies, PTL

\* When nothing is awaited, the detail, the files and the review rounds are of the
\* open paper, whatever was refreshed on the way.
THEOREM WriterSettledPage == ASSUME Waits PROVE Spec => []SettledPage
BY PageHolds, PageImplies, PTL

\* What a command changes is the paper and the file it was pressed for, with all that
\* was typed by then stored (syncCurrent, requireDurableFlush).
THEOREM WriterAsPressed == ASSUME Waits PROVE Spec => AsPressed
<1>. DEFINE Kept1 == \A c \in calls : Execute(c) =>
                        /\ c.paper = c.press.paper
                        /\ c.for \in {"rename", "delete", "setMain", "accept"} => c.file = c.press.file
                        /\ How[c.for].flush # "no" => \A u \in c.press.typed : edits[u].durable
<1>1. Typed /\ PageInv => Kept1
  <2>. SUFFICES ASSUME Typed, PageInv, NEW c \in calls, Execute(c)
       PROVE  /\ c.paper = c.press.paper
              /\ c.for \in {"rename", "delete", "setMain", "accept"} => c.file = c.press.file
              /\ How[c.for].flush # "no" => \A u \in c.press.typed : edits[u].durable
    OBVIOUS
  <2>1. c.step = "command" /\ Fits(c) /\ Front(c)
    BY KindsAre DEF Execute, PageInv, CallsFit, Typed, ShapedCalls, Shaped, Front
  <2>. QED  BY <2>1 DEF Fits, OfFile, Stored
<1>2. Typed /\ PageInv /\ [Next]_vars => [Kept1]_vars
  BY <1>1
<1>. QED  BY <1>2, PageHolds, PTL DEF AsPressed, Spec
=============================================================================
