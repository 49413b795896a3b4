------------------------ MODULE ProtocolSettingsProofs ------------------------
(***************************************************************************)
(* Theorems about the Protocol Settings window: that it is a faithful      *)
(* mirror, for any number of fields and of things a user does, and that it *)
(* opens where it was left, on any display.                                *)
(*                                                                         *)
(* Both proofs about messages on their way are by a chain: a value for     *)
(* each message, each following from the one before by what the message    *)
(* does.  A step of the system adds a link at the end or takes one away    *)
(* at the beginning, so that no recursion is needed.                       *)
(***************************************************************************)
EXTENDS ProtocolSettings, SequenceTheorems, WellFoundedInduction, TLAPS

-----------------------------------------------------------------------------
(* Documents and descriptions                                              *)

Controls == {Control(f) : f \in Fields}
Rows == {Row(f) : f \in Fields}
What == [value : Values, off : BOOLEAN]

LEMMA NodeFacts ==
    /\ Nodes = Controls \cup Rows \cup {Button}
    /\ \A f, g \in Fields : (Control(f) = Control(g) => f = g) /\ (Row(f) = Row(g) => f = g)
    /\ \A f, g \in Fields : Control(f) # Row(g) /\ Control(f) # Button /\ Row(f) # Button
    /\ \A f \in Fields : /\ Control(f)[1] = "control" /\ Control(f)[2] = f
                         /\ Row(f)[1] = "row" /\ Row(f)[2] = f
    /\ Button[1] = "button"
    BY DEF Nodes, Controls, Rows, Control, Row, Button, Revert

LEMMA DocumentFacts ==
    /\ \A doc \in Documents : /\ DOMAIN doc \subseteq Nodes
                              /\ doc \in [DOMAIN doc -> What]
    /\ \A D \in SUBSET Nodes : [D -> What] \subseteq Documents
<1>1. ASSUME NEW doc \in Documents
      PROVE  DOMAIN doc \subseteq Nodes /\ doc \in [DOMAIN doc -> What]
  <2>1. PICK D \in SUBSET Nodes : doc \in [D -> What]
      BY <1>1 DEF Documents, What
  <2> QED BY <2>1
<1>2. \A D \in SUBSET Nodes : [D -> What] \subseteq Documents
    BY DEF Documents, What
<1> QED BY <1>1, <1>2

LEMMA EntryFacts ==
    \A v, off : /\ Entry(v, off).value = v /\ Entry(v, off).off = off
                /\ v \in Values /\ off \in BOOLEAN => Entry(v, off) \in What
    BY DEF Entry, What

\* What the mirror describes of the owner's document.
LEMMA DescriptionFacts ==
    ASSUME setting \in [Fields -> Values], snapshot \in [Fields -> Values], locked \in BOOLEAN
    PROVE  /\ Signature(setting) \in SUBSET Rows
           /\ DOMAIN Description = Controls \cup {Button} \cup Signature(setting)
           /\ Description \in Documents
<1>1. Signature(setting) \in SUBSET Rows
    BY DEF Signature, Rows
<1>2. DOMAIN Description = Controls \cup {Button} \cup Signature(setting)
    BY DEF Description, Controls
<1>3. \A f \in Fields : Description[Control(f)] = Entry(setting[f], locked)
    BY <1>2, NodeFacts DEF Description, Controls
<1>4. \A f \in Fields : Row(f) \in Signature(setting) =>
          Description[Row(f)] = Entry(setting[f], FALSE)
    BY <1>2, NodeFacts DEF Description
<1> DEFINE off == locked \/ ~Changed(setting, snapshot)
<1>5. Description[Button] = Entry(Default, off)
    BY <1>2, NodeFacts DEF Description
<1>6. \A n \in DOMAIN Description : Description[n] \in What
  <2>1. off \in BOOLEAN
      BY DEF Changed
  <2>2. Description[Button] \in What
    <3> HIDE DEF off
    <3> QED BY <1>5, <2>1, EntryFacts, DefaultAssumption
  <2>3. \A f \in Fields : Description[Control(f)] \in What
      BY <1>3, EntryFacts
  <2>4. \A f \in Fields : Row(f) \in Signature(setting) => Description[Row(f)] \in What
    <3>1. \A v \in Values : Entry(v, FALSE) \in What
        BY DEF Entry, What
    <3> QED BY <1>4, <3>1
  <2> QED BY <1>1, <1>2, <2>2, <2>3, <2>4 DEF Controls, Rows
<1>7. Description \in [DOMAIN Description -> What]
  <2> DEFINE nodes == {Control(f) : f \in Fields} \cup {Button} \cup Signature(setting)
             node(n) == CASE n = Button -> Entry(Default, off)
                          [] n[1] = "row" -> Entry(setting[n[2]], FALSE)
                          [] OTHER -> Entry(setting[n[2]], locked)
  <2>1. Description = [n \in nodes |-> node(n)]
      BY DEF Description
  <2> HIDE DEF nodes, node
  <2> QED BY <1>6, <2>1
<1>8. DOMAIN Description \in SUBSET Nodes
    BY <1>1, <1>2, NodeFacts
<1> QED BY <1>1, <1>2, <1>6, <1>7, <1>8, DocumentFacts

-----------------------------------------------------------------------------
(* States, and what replaying one makes of a document                      *)

State == [patched : SUBSET Nodes, markup : Documents, entries : Documents, ack : {0}]

\* A patch does not take a control away: it brings it back.
Complete(s) == Controls \cap s.patched \subseteq DOMAIN s.markup

States == {s \in State : Complete(s)}

LEMMA ReplayedDocument ==
    ASSUME NEW doc \in Documents, NEW s \in States
    PROVE  /\ Replayed(doc, s) \in Documents
           /\ DOMAIN Replayed(doc, s) = (DOMAIN doc \ s.patched) \cup DOMAIN s.markup
           /\ \A n \in DOMAIN Replayed(doc, s) :
                  Replayed(doc, s)[n] = IF n \in DOMAIN s.entries THEN s.entries[n]
                                        ELSE IF n \in DOMAIN s.markup THEN s.markup[n]
                                        ELSE doc[n]
<1> DEFINE r == Replayed(doc, s)
<1>1. s.patched \in SUBSET Nodes /\ s.markup \in Documents /\ s.entries \in Documents
    BY DEF States, State
<1> DEFINE now == (DOMAIN doc \ s.patched) \cup DOMAIN s.markup
           node(n) == IF n \in DOMAIN s.entries THEN s.entries[n]
                      ELSE IF n \in DOMAIN s.markup THEN s.markup[n] ELSE doc[n]
<1>2. /\ r = [n \in now |-> node(n)] /\ DOMAIN r = now
      /\ \A n \in DOMAIN r : r[n] = node(n)
    BY DEF Replayed
<1>3. r \in [now -> What]
  <2>1. \A n \in now : node(n) \in What
      BY <1>1, DocumentFacts
  <2> HIDE DEF node, now, r
  <2> QED BY <1>2, <2>1
<1> HIDE DEF r
<1>4. DOMAIN r \in SUBSET Nodes
    BY <1>1, <1>2, DocumentFacts
<1>5. r \in Documents
    BY <1>2, <1>3, <1>4, DocumentFacts
<1> QED BY <1>2, <1>5 DEF r

\* What flush() keeps of what it sent, as long as the signature stands.
SentInv == signature # NoSignature =>
    /\ signature \in SUBSET Rows
    /\ DOMAIN sent = Controls \cup {Button} \cup signature

OwnerTypes ==
    /\ setting \in [Fields -> Values] /\ snapshot \in [Fields -> Values]
    /\ locked \in BOOLEAN
    /\ sent \in Documents
    /\ ackRevision = 0

LEMMA CaptureFacts ==
    ASSUME OwnerTypes, SentInv
    PROVE  /\ Capture \in States
           /\ signature = NoSignature =>
                  \A doc \in Documents : Replayed(doc, Capture) = Description
           /\ signature # NoSignature => Replayed(sent, Capture) = Description
           /\ Signature(setting) # NoSignature
<1> DEFINE D == Description
<1>1. /\ Signature(setting) \in SUBSET Rows
      /\ DOMAIN D = Controls \cup {Button} \cup Signature(setting)
      /\ D \in Documents
    BY DescriptionFacts DEF OwnerTypes
<1>2. Patched \in SUBSET Nodes
    BY NodeFacts DEF Patched, Rows
<1>3. \A n \in DOMAIN D : D[n] \in What
  <2>1. D \in [DOMAIN D -> What]
      BY <1>1, DocumentFacts
  <2> QED BY <2>1
<1>4. /\ DOMAIN Markup = DOMAIN D
      /\ \A n \in DOMAIN D : Markup[n] \in What
  <2>1. DOMAIN Markup = DOMAIN D
      BY DEF Markup
  <2>2. \A n \in DOMAIN D : D[n].off \in BOOLEAN
      BY <1>3 DEF What
  <2> HIDE DEF D
  <2>3. \A n \in DOMAIN D : Markup[n] = IF n[1] = "control" THEN Entry(Default, D[n].off) ELSE D[n]
      BY DEF Markup, D
  <2> QED BY <1>3, <2>1, <2>2, <2>3, EntryFacts, DefaultAssumption
<1>5. /\ Capture.patched = Patched /\ Capture.ack = 0
      /\ Capture.markup = [n \in DOMAIN D \cap Patched |-> Markup[n]]
      /\ Capture.entries = [n \in {m \in DOMAIN D : ~(m \in Known /\ sent[m] = D[m])} |-> D[n]]
      /\ Capture = [patched |-> Capture.patched, markup |-> Capture.markup,
                    entries |-> Capture.entries, ack |-> Capture.ack]
    BY DEF Capture, OwnerTypes
<1> HIDE DEF D
<1>6. Capture.markup \in Documents
  <2>1. DOMAIN D \cap Patched \in SUBSET Nodes
      BY <1>2
  <2>2. Capture.markup \in [DOMAIN D \cap Patched -> What]
      BY <1>4, <1>5
  <2> QED BY <2>1, <2>2, DocumentFacts
<1>7. Capture.entries \in Documents
  <2> DEFINE changed == {m \in DOMAIN D : ~(m \in Known /\ sent[m] = D[m])}
  <2>1. changed \in SUBSET Nodes /\ changed \subseteq DOMAIN D
      BY <1>1, DocumentFacts
  <2>2. Capture.entries = [n \in changed |-> D[n]]
      BY <1>5
  <2> HIDE DEF changed
  <2>3. Capture.entries \in [changed -> What]
      BY <1>3, <2>1, <2>2
  <2> QED BY <2>1, <2>3, DocumentFacts
<1>8. Capture \in States
  <2>1. Capture \in State
      BY <1>2, <1>5, <1>6, <1>7 DEF State
  <2>2. Complete(Capture)
      BY <1>1, <1>5 DEF Complete
  <2> QED BY <2>1, <2>2 DEF States
<1>9. ASSUME NEW doc \in Documents
      PROVE
          /\ DOMAIN Replayed(doc, Capture) = (DOMAIN doc \ Patched) \cup (DOMAIN D \cap Patched)
          /\ \A n \in DOMAIN Replayed(doc, Capture) :
                 Replayed(doc, Capture)[n] =
                     IF n \in DOMAIN D /\ ~(n \in Known /\ sent[n] = D[n]) THEN D[n]
                     ELSE IF n \in DOMAIN D \cap Patched THEN Markup[n] ELSE doc[n]
          /\ Replayed(doc, Capture) \in Documents
          /\ Replayed(doc, Capture) \in [DOMAIN Replayed(doc, Capture) -> What]
  <2>1. /\ DOMAIN Capture.markup = DOMAIN D \cap Patched
        /\ \A n \in DOMAIN D \cap Patched : Capture.markup[n] = Markup[n]
        /\ \A n : n \in DOMAIN Capture.entries <=> n \in DOMAIN D /\ ~(n \in Known /\ sent[n] = D[n])
        /\ \A n \in DOMAIN Capture.entries : Capture.entries[n] = D[n]
        /\ Capture.patched = Patched
      BY <1>5
  <2>2. /\ DOMAIN Replayed(doc, Capture) = (DOMAIN doc \ Capture.patched) \cup DOMAIN Capture.markup
        /\ \A n \in DOMAIN Replayed(doc, Capture) :
               Replayed(doc, Capture)[n] =
                   IF n \in DOMAIN Capture.entries THEN Capture.entries[n]
                   ELSE IF n \in DOMAIN Capture.markup THEN Capture.markup[n] ELSE doc[n]
        /\ Replayed(doc, Capture) \in Documents
      BY <1>8, ReplayedDocument
  <2>3. Replayed(doc, Capture) \in [DOMAIN Replayed(doc, Capture) -> What]
      BY <2>2, DocumentFacts
  <2> QED BY <2>1, <2>2, <2>3
<1>0. D \in [DOMAIN D -> What]
    BY <1>1, DocumentFacts
<1>10. ASSUME signature = NoSignature, NEW doc \in Documents
       PROVE  Replayed(doc, Capture) = D
  <2>1. Patched = Nodes
      BY <1>10 DEF Patched
  <2>2. DOMAIN Replayed(doc, Capture) = DOMAIN D
      BY <1>1, <1>9, <2>1, DocumentFacts
  <2>3. Known = {}
      BY <2>1, DocumentFacts DEF Known, OwnerTypes
  <2>4. \A n \in DOMAIN D : Replayed(doc, Capture)[n] = D[n]
      BY <1>9, <2>2, <2>3
  <2>5. Replayed(doc, Capture) \in [DOMAIN Replayed(doc, Capture) -> What]
      BY <1>9
  <2> DEFINE r == Replayed(doc, Capture)
  <2> HIDE DEF r
  <2> QED BY <1>0, <2>2, <2>4, <2>5 DEF r
<1>11. ASSUME signature # NoSignature
       PROVE  Replayed(sent, Capture) = D
  <2>0. sent \in Documents /\ DOMAIN sent = Controls \cup {Button} \cup signature /\ signature \in SUBSET Rows
      BY <1>11 DEF SentInv, OwnerTypes
  <2>1. DOMAIN Replayed(sent, Capture) = DOMAIN D
    <3>1. CASE signature = Signature(setting)
      <4>1. Patched = {}
          BY <1>11, <3>1 DEF Patched
      <4> QED BY <1>1, <1>9, <2>0, <3>1, <4>1
    <3>2. CASE signature # Signature(setting)
      <4>1. Patched = Rows
          BY <1>11, <3>2 DEF Patched, Rows
      <4>2. Rows \cap (Controls \cup {Button}) = {}
          BY NodeFacts DEF Controls, Rows
      <4> QED BY <1>1, <1>9, <2>0, <4>1, <4>2
    <3> QED BY <3>1, <3>2
  <2>2. ASSUME NEW n \in DOMAIN D
        PROVE  Replayed(sent, Capture)[n] = D[n]
    <3>1. CASE n \in Known /\ sent[n] = D[n]
      <4>1. n \notin Patched
          BY <3>1 DEF Known
      <4> QED BY <1>9, <2>0, <2>1, <3>1, <4>1
    <3>2. CASE ~(n \in Known /\ sent[n] = D[n])
        BY <1>9, <2>0, <2>1, <3>2
    <3> QED BY <3>1, <3>2
  <2>3. Replayed(sent, Capture) \in [DOMAIN Replayed(sent, Capture) -> What]
      BY <1>9, <2>0
  <2> QED BY <1>0, <2>1, <2>2, <2>3
<1>12. Signature(setting) # NoSignature
  <2>1. <<"none">> \notin Rows
      BY DEF Rows, Row
  <2> QED BY <1>1, <2>1 DEF NoSignature
<1> QED BY <1>8, <1>10, <1>11, <1>12 DEF D

-----------------------------------------------------------------------------
(* Types                                                                   *)

Pair == Fields \X Values
Edit == [type : {"edit"}, field : Fields, value : Values, revision : {0}]
Word == [type : {"ready", "click", "close"}] \cup Edit
News == Word \cup [type : {"closed"}]
Order == [type : {"open", "close"}] \cup [type : {"sync"}, state : States]
Visible == {"shown", "closing"}

MirrorTypes ==
    /\ OwnerTypes
    /\ isOpen \in BOOLEAN /\ isReady \in BOOLEAN /\ syncQueued \in BOOLEAN
    /\ frames \in Nat
    /\ window \in {"none", "loading", "loaded", "shown", "closing"}
    /\ toMain \in Seq(Order) /\ toWindow \in Seq(States)
    /\ fromWindow \in Seq(Word) /\ toRenderer \in Seq(News)
    /\ shown \in Documents
    /\ acts \in 0 .. MaxActs
    /\ editRevision \in 0 .. acts
    /\ pending \in [Fields -> 0 .. editRevision]
    /\ made \in Seq(Pair) /\ applied \in Seq(Pair)

LEMMA MessageFacts ==
    /\ Word \subseteq News
    /\ \A m \in News : m.type \in {"ready", "click", "close", "edit", "closed"}
    /\ \A m \in Word : m.type \in {"ready", "click", "close", "edit"}
    /\ \A m \in News : m.type = "edit" => m.field \in Fields /\ m.value \in Values /\ m.revision = 0
    /\ \A type \in {"ready", "click", "close"} : [type |-> type] \in Word
    /\ [type |-> "closed"] \in News
    /\ \A f \in Fields, v \in Values, r \in Nat : Emitted(f, v, r) \in Edit /\ Emitted(f, v, r) \in Word
    /\ \A m \in Order : m.type \in {"open", "close", "sync"}
    /\ \A m \in Order : m.type = "sync" => m.state \in States
    /\ [type |-> "open"] \in Order /\ [type |-> "close"] \in Order
    /\ \A s \in States : [type |-> "sync", state |-> s] \in Order
    BY DEF News, Word, Edit, Order, Emitted

\* A document with nothing in it.
LEMMA BlankDocument == Blank \in Documents /\ DOMAIN Blank = {}
<1>1. Blank \in [{} -> What] /\ {} \in SUBSET Nodes
    BY DEF Blank
<1> QED BY <1>1, DocumentFacts DEF Blank

-----------------------------------------------------------------------------
(* What a window does with a state, and with an edit                       *)

\* The user's own value stands in this control.
Typed(n) == \E f \in Fields : n = Control(f) /\ pending[f] > 0

LEMMA ApplyFacts ==
    ASSUME MirrorTypes, ApplyState
    PROVE  LET s == Head(toWindow)
               doc == Replayed(shown, s)
           IN  /\ s \in States /\ toWindow # <<>> /\ toWindow' = Tail(toWindow)
               /\ pending' = pending
               /\ shown' \in Documents /\ DOMAIN shown' = DOMAIN doc
               /\ \A n \in DOMAIN doc :
                      /\ shown'[n].off = doc[n].off
                      /\ Typed(n) /\ n \in DOMAIN shown => shown'[n].value = shown[n].value
                      /\ ~ Typed(n) => shown'[n] = doc[n]
<1> DEFINE s == Head(toWindow)
           doc == Replayed(shown, s)
           still == [f \in Fields |-> IF pending[f] <= s.ack THEN 0 ELSE pending[f]]
           node(n) == IF n[1] = "control" /\ n \in DOMAIN shown /\ still[n[2]] > 0
                      THEN [doc[n] EXCEPT !.value = shown[n].value] ELSE doc[n]
<1>1. /\ pending' = still /\ shown' = [n \in DOMAIN doc |-> node(n)]
      /\ toWindow # <<>> /\ toWindow' = Tail(toWindow)
    BY DEF ApplyState
<1>2. s \in States
    BY <1>1 DEF MirrorTypes
<1>3. s.ack = 0
    BY <1>2 DEF States, State
<1>4. pending' = pending
  <2>1. \A f \in Fields : pending[f] \in Nat
      BY DEF MirrorTypes
  <2>2. \A f \in Fields : still[f] = pending[f]
      BY <1>3, <2>1
  <2>3. pending \in [Fields -> 0 .. editRevision]
      BY DEF MirrorTypes
  <2> HIDE DEF s
  <2> QED BY <1>1, <2>2, <2>3
<1>5. doc \in Documents /\ shown \in Documents
    BY <1>2, ReplayedDocument DEF MirrorTypes
<1> HIDE DEF s, doc, still
<1>6. DOMAIN doc \in SUBSET Nodes
      /\ (\A n \in DOMAIN doc : doc[n] \in What) /\ \A n \in DOMAIN shown : shown[n] \in What
    BY <1>5, DocumentFacts
<1>7. ASSUME NEW n \in DOMAIN doc
      PROVE  /\ n[1] = "control" /\ still[n[2]] > 0 <=> Typed(n)
  <2>1. CASE n \in Controls
    <3>1. PICK f \in Fields : n = Control(f)
        BY <2>1 DEF Controls
    <3>2. n[1] = "control" /\ n[2] = f
        BY <3>1, NodeFacts
    <3>3. Typed(n) <=> pending[f] > 0
        BY <3>1, NodeFacts DEF Typed
    <3> QED BY <1>1, <1>4, <3>2, <3>3
  <2>2. CASE n \notin Controls
    <3>1. ~ Typed(n)
        BY <2>2 DEF Typed, Controls
    <3>2. n \in Rows \/ n = Button
        BY <1>6, <2>2, NodeFacts
    <3>3. n[1] # "control"
        BY <3>2, NodeFacts DEF Rows
    <3> QED BY <3>1, <3>3
  <2> QED BY <2>1, <2>2
<1>8. ASSUME NEW n \in DOMAIN doc
      PROVE  /\ node(n) \in What
             /\ node(n).off = doc[n].off
             /\ Typed(n) /\ n \in DOMAIN shown => node(n).value = shown[n].value
             /\ ~ Typed(n) => node(n) = doc[n]
  <2>1. doc[n] \in What
      BY <1>6
  <2>2. CASE Typed(n) /\ n \in DOMAIN shown
    <3>1. node(n) = [doc[n] EXCEPT !.value = shown[n].value]
        BY <1>7, <2>2
    <3>2. shown[n] \in What
        BY <1>6, <2>2
    <3> HIDE DEF node
    <3> QED BY <2>1, <2>2, <3>1, <3>2 DEF What
  <2>3. CASE ~(Typed(n) /\ n \in DOMAIN shown)
    <3>1. node(n) = doc[n]
        BY <1>7, <2>3
    <3> HIDE DEF node
    <3> QED BY <2>1, <2>3, <3>1 DEF What
  <2> QED BY <2>2, <2>3
<1> HIDE DEF node
<1>9. shown' \in [DOMAIN doc -> What]
    BY <1>1, <1>8
<1>10. shown' \in Documents /\ DOMAIN shown' = DOMAIN doc
    BY <1>6, <1>9, DocumentFacts
<1> QED BY <1>1, <1>2, <1>4, <1>8, <1>10 DEF s, doc

LEMMA EditFacts ==
    ASSUME MirrorTypes, NEW f \in Fields, NEW v \in Values, UserEdits(f, v)
    PROVE  /\ shown' \in Documents /\ DOMAIN shown' = DOMAIN shown
           /\ Control(f) \in DOMAIN shown
           /\ shown'[Control(f)].value = v
           /\ shown'[Control(f)].off = shown[Control(f)].off
           /\ \A n \in DOMAIN shown : n # Control(f) => shown'[n] = shown[n]
           /\ pending' = [pending EXCEPT ![f] = editRevision + 1]
           /\ editRevision' = editRevision + 1
<1>1. /\ Control(f) \in DOMAIN shown
      /\ shown' = [shown EXCEPT ![Control(f)].value = v]
      /\ pending' = [pending EXCEPT ![f] = editRevision + 1]
      /\ editRevision' = editRevision + 1
    BY DEF UserEdits
<1>2. DOMAIN shown \in SUBSET Nodes /\ shown \in [DOMAIN shown -> What]
    BY DocumentFacts DEF MirrorTypes
<1>3. shown[Control(f)] \in What
    BY <1>1, <1>2
<1>4. /\ [shown[Control(f)] EXCEPT !.value = v] \in What
      /\ [shown[Control(f)] EXCEPT !.value = v].value = v
      /\ [shown[Control(f)] EXCEPT !.value = v].off = shown[Control(f)].off
    BY <1>3 DEF What
<1>5. shown' = [shown EXCEPT ![Control(f)] = [shown[Control(f)] EXCEPT !.value = v]]
    BY <1>1
<1>6. shown' \in [DOMAIN shown -> What]
    BY <1>1, <1>2, <1>4, <1>5
<1>7. shown' \in Documents /\ DOMAIN shown' = DOMAIN shown
    BY <1>2, <1>6, DocumentFacts
<1> QED BY <1>1, <1>2, <1>4, <1>5, <1>7

\* Asking for a frame touches two of the renderer's fields.
LEMMA ScheduleFacts ==
    ASSUME MirrorTypes, isOpen' \in BOOLEAN, isReady' \in BOOLEAN, ScheduleSync
    PROVE  /\ syncQueued' \in BOOLEAN /\ frames' \in Nat
           /\ syncQueued' => frames' > 0 \/ (syncQueued /\ frames' = frames)
           /\ isOpen' /\ isReady' => syncQueued'
<1>1. syncQueued \in BOOLEAN /\ frames \in Nat
    BY DEF MirrorTypes
<1>2. CASE isOpen' /\ isReady' /\ ~syncQueued
  <2>1. syncQueued' = TRUE /\ frames' = frames + 1
      BY <1>2 DEF ScheduleSync
  <2> QED BY <1>1, <2>1
<1>3. CASE ~(isOpen' /\ isReady' /\ ~syncQueued)
  <2>1. syncQueued' = syncQueued /\ frames' = frames
      BY <1>3 DEF ScheduleSync
  <2> QED BY <1>1, <1>3, <2>1
<1> QED BY <1>2, <1>3

-----------------------------------------------------------------------------
(* The invariant                                                           *)

\* No 'closed' is on its way to the renderer from message i on.
Unclosed(i) == \A j \in DOMAIN toRenderer : j >= i => toRenderer[j].type # "closed"

\* A page announces itself when it is there, and its closing is told behind that.
WindowInv ==
    /\ fromWindow # <<>> => window \in Visible \cup {"loaded"}
    /\ \A i \in DOMAIN toRenderer :
           toRenderer[i].type = "ready" /\ Unclosed(i + 1) => window \in Visible
    /\ isOpen /\ isReady /\ Unclosed(1) => window \in Visible

\* Either a frame is due or what was sent last is what there is.
SyncInv ==
    /\ syncQueued => frames > 0
    /\ isOpen /\ isReady /\ ~syncQueued =>
           sent = Description /\ signature = Signature(setting)

\* What is pending is in the control, and was the last that was typed into it.
TypingInv ==
    \A f \in Fields : pending[f] > 0 =>
        /\ Control(f) \in DOMAIN shown
        /\ \E i \in 1 .. Len(made) :
               /\ made[i] = <<f, shown[Control(f)].value>>
               /\ \A j \in (i + 1) .. Len(made) : made[j][1] # f

\* The window shows the document, but for the values the user has typed.
Shows(doc) ==
    /\ DOMAIN shown = DOMAIN doc
    /\ \A n \in DOMAIN doc : /\ shown[n].off = doc[n].off
                             /\ ~ Typed(n) => shown[n] = doc[n]

\* The messages on their way to the window, those that have left main first.
Coming == Len(toWindow) + Len(toMain)
Message(k) == IF k <= Len(toWindow) THEN [type |-> "sync", state |-> toWindow[k]]
              ELSE toMain[k - Len(toWindow)]

Follows(m, before, after) ==
    after = IF m.type = "sync" THEN Replayed(before, m.state) ELSE before

\* From the message i on, chain is what the window will have been told; the message i
\* itself tells it everything.
IsView(i, chain) ==
    /\ i \in 0 .. Coming
    /\ chain \in [0 .. Coming -> Documents]
    /\ i = 0 => Shows(chain[0])
    /\ i > 0 => /\ Message(i).type = "sync"
                /\ \A doc \in Documents : Follows(Message(i), doc, chain[i])
    /\ \A k \in (i + 1) .. Coming : Follows(Message(k), chain[k - 1], chain[k])
    /\ chain[Coming] = sent

ViewInv == isOpen /\ isReady /\ signature # NoSignature /\ Unclosed(1) =>
               \E i, chain : IsView(i, chain)

\* The messages on their way to the renderer, and what will have been carried out.
Told(k) == IF k <= Len(toRenderer) THEN toRenderer[k] ELSE fromWindow[k - Len(toRenderer)]
Telling == Len(toRenderer) + Len(fromWindow)

CarriesOut(m, before, after) ==
    after = IF m.type = "edit" THEN Append(before, <<m.field, m.value>>) ELSE before

IsRecord(chain) ==
    /\ chain[0] = applied
    /\ \A k \in 1 .. Telling : CarriesOut(Told(k), chain[k - 1], chain[k])
    /\ chain[Telling] = made

EditsInv == \E chain : IsRecord(chain)

MirrorInv == MirrorTypes /\ SentInv /\ WindowInv /\ SyncInv /\ TypingInv /\ ViewInv /\ EditsInv

LEMMA MirrorInvInit == MirrorInit => MirrorInv
<1> SUFFICES ASSUME MirrorInit PROVE MirrorInv
    OBVIOUS
<1> USE DEF MirrorInit
<1>1. MirrorTypes
  <2>1. OwnerTypes
      BY BlankDocument, DefaultAssumption DEF OwnerTypes
  <2>2. /\ acts \in 0 .. MaxActs /\ editRevision \in 0 .. acts
        /\ pending \in [Fields -> 0 .. editRevision]
      BY DefaultAssumption
  <2>3. shown \in Documents /\ frames \in Nat
      BY BlankDocument
  <2>4. /\ toMain \in Seq(Order) /\ toWindow \in Seq(States) /\ fromWindow \in Seq(Word)
        /\ toRenderer \in Seq(News) /\ made \in Seq(Pair) /\ applied \in Seq(Pair)
      OBVIOUS
  <2>5. isOpen \in BOOLEAN /\ isReady \in BOOLEAN /\ syncQueued \in BOOLEAN
      OBVIOUS
  <2>6. window \in {"none", "loading", "loaded", "shown", "closing"}
      OBVIOUS
  <2> QED BY <2>1, <2>2, <2>3, <2>4, <2>5, <2>6 DEF MirrorTypes
<1>2. SentInv /\ WindowInv /\ SyncInv /\ TypingInv /\ ViewInv
    BY DEF SentInv, WindowInv, SyncInv, TypingInv, ViewInv
<1>3. EditsInv
  <2>1. IsRecord([k \in {0} |-> <<>>])
      BY DEF IsRecord, Telling
  <2> QED BY <2>1 DEF EditsInv
<1> QED BY <1>1, <1>2, <1>3 DEF MirrorInv

LEMMA TypesKept ==
    ASSUME MirrorTypes, SentInv, MirrorNext
    PROVE  MirrorTypes' /\ SentInv'
<1> USE DEF view, counted
<1>0. acts' \in 0 .. MaxActs /\ acts' >= acts /\ acts \in Nat /\ acts' \in Nat
  <2>1. acts \in 0 .. MaxActs
      BY DEF MirrorTypes
  <2>2. acts' = acts \/ (acts < MaxActs /\ acts' = acts + 1)
      BY DEF MirrorNext
  <2> QED BY <2>1, <2>2, DefaultAssumption
<1>1. /\ editRevision' = editRevision /\ pending' = pending =>
             editRevision' \in 0 .. acts' /\ pending' \in [Fields -> 0 .. editRevision']
    BY <1>0 DEF MirrorTypes
<1>2. UNCHANGED <<setting, snapshot, locked, sent, ackRevision>> => OwnerTypes'
    BY DEF MirrorTypes, OwnerTypes
<1>3. UNCHANGED <<signature, sent>> => SentInv'
    BY DEF SentInv
<1>4. SourceReset => SentInv' /\ sent' \in Documents
    BY BlankDocument DEF SourceReset, SentInv
<1>5. CASE Flush
  <2>0. /\ editRevision' = editRevision /\ pending' = pending /\ frames' \in Nat /\ syncQueued' \in BOOLEAN
        /\ UNCHANGED <<isOpen, isReady, window, toWindow, fromWindow, toRenderer, shown, made, applied>>
    <3>1. frames \in Nat
        BY DEF MirrorTypes
    <3>2. frames > 0 /\ frames' = frames - 1 /\ syncQueued' = FALSE
        BY <1>5 DEF Flush
    <3>3. UNCHANGED <<isOpen, isReady, window, toWindow, fromWindow, toRenderer, shown, made, applied>>
        BY <1>5 DEF Flush
    <3>4. UNCHANGED <<editRevision, pending>>
        BY <1>5 DEF Flush
    <3>5. frames' \in Nat
        BY <3>1, <3>2
    <3> QED BY <3>2, <3>3, <3>4, <3>5
  <2>1. CASE isOpen /\ isReady
    <3>1. /\ toMain' = Append(toMain, [type |-> "sync", state |-> Capture])
          /\ signature' = Signature(setting) /\ sent' = Description
          /\ UNCHANGED <<setting, snapshot, locked, ackRevision>>
        BY <1>5, <2>1 DEF Flush
    <3>2. Capture \in States
        BY CaptureFacts DEF MirrorTypes
    <3>3. toMain' \in Seq(Order)
        BY <3>1, <3>2, MessageFacts DEF MirrorTypes
    <3>4. /\ Signature(setting) \in SUBSET Rows
          /\ DOMAIN Description = Controls \cup {Button} \cup Signature(setting)
          /\ Description \in Documents
        BY DescriptionFacts DEF MirrorTypes, OwnerTypes
    <3>5. SentInv' /\ OwnerTypes'
        BY <3>1, <3>4 DEF SentInv, OwnerTypes, MirrorTypes
    <3> QED BY <1>0, <1>1, <2>0, <3>3, <3>5 DEF MirrorTypes
  <2>2. CASE ~(isOpen /\ isReady)
    <3>1. UNCHANGED <<setting, snapshot, locked, ackRevision, signature, sent, toMain>>
        BY <1>5, <2>2 DEF Flush
    <3> QED BY <1>0, <1>1, <1>2, <1>3, <2>0, <3>1 DEF MirrorTypes
  <2> QED BY <2>1, <2>2
<1>6. CASE RendererHears
  <2> DEFINE m == Head(toRenderer)
  <2>1. /\ toRenderer # <<>> /\ toRenderer' = Tail(toRenderer)
        /\ UNCHANGED <<locked, window, fromWindow, toWindow, shown, pending, editRevision, made>>
        /\ m \in News /\ toRenderer' \in Seq(News)
      BY <1>6 DEF RendererHears, MirrorTypes
  <2> HIDE DEF m
  <2>2. SUFFICES /\ OwnerTypes' /\ SentInv' /\ isOpen' \in BOOLEAN /\ isReady' \in BOOLEAN
                 /\ syncQueued' \in BOOLEAN /\ frames' \in Nat
                 /\ toMain' \in Seq(Order) /\ applied' \in Seq(Pair)
      BY <1>0, <1>1, <2>1 DEF MirrorTypes
  <2> USE DEF MirrorTypes
  <2>3. CASE m.type = "ready" /\ HearReady
      BY <1>4, <2>1, <2>3, ScheduleFacts DEF HearReady, OwnerTypes
  <2>4. CASE m.type = "closed" /\ HearClosed
      BY <1>3, <1>4, <2>1, <2>4 DEF HearClosed, Forgotten, OwnerTypes
  <2>5. CASE m.type = "edit" /\ HearEdit(m)
    <3>1. m.field \in Fields /\ m.value \in Values /\ m.revision = 0
        BY <2>1, <2>5, MessageFacts
    <3>2. ackRevision' = 0
      <4>1. ackRevision' = Max({ackRevision, m.revision}) /\ ackRevision = 0
          BY <2>5 DEF HearEdit, OwnerTypes
      <4>2. Max({0, 0}) = 0
          BY DEF Max
      <4> QED BY <3>1, <4>1, <4>2
    <3>3. setting' \in [Fields -> Values] /\ applied' \in Seq(Pair)
        BY <2>5, <3>1 DEF HearEdit, OwnerTypes, Pair
    <3> QED BY <1>3, <2>1, <2>5, <3>2, <3>3, ScheduleFacts DEF HearEdit, OwnerTypes
  <2>6. CASE m.type = "click" /\ HearRevert
      BY <1>3, <2>1, <2>6, ScheduleFacts DEF HearRevert, OwnerTypes
  <2>7. CASE m.type = "close" /\ HearCloseRequest
    <3>1. [type |-> "close"] \in Order
        BY MessageFacts
    <3>2. CASE isOpen
      <4>1. /\ isOpen' = FALSE /\ isReady' = FALSE /\ syncQueued' = FALSE /\ SourceReset
            /\ toMain' = Append(toMain, [type |-> "close"])
            /\ UNCHANGED <<setting, snapshot, ackRevision, frames, applied>>
          BY <2>7, <3>2 DEF HearCloseRequest, Forgotten
      <4>2. toMain' \in Seq(Order)
          BY <3>1, <4>1
      <4> QED BY <1>4, <2>1, <4>1, <4>2 DEF OwnerTypes
    <3>3. CASE ~isOpen
        BY <1>3, <2>1, <2>7, <3>3 DEF HearCloseRequest, OwnerTypes
    <3> QED BY <3>2, <3>3
  <2> QED BY <1>6, <2>3, <2>4, <2>5, <2>6, <2>7 DEF RendererHears, m
<1>7. CASE MainHearsRenderer
  <2> DEFINE m == Head(toMain)
  <2>1. /\ toMain # <<>> /\ toMain' = Tail(toMain) /\ m \in Order
        /\ UNCHANGED <<renderer, toRenderer, fromWindow, view, counted>>
      BY <1>7 DEF MainHearsRenderer, MirrorTypes
  <2>2. toMain' \in Seq(Order)
      BY <2>1 DEF MirrorTypes
  <2> HIDE DEF m
  <2>3. toWindow' \in Seq(States) /\ window' \in {"none", "loading", "loaded", "shown", "closing"}
    <3>1. m.type = "sync" => m.state \in States
        BY <2>1, MessageFacts
    <3>2. /\ m.type = "sync" => m.state \in States
          /\ toWindow \in Seq(States)
          /\ window \in {"none", "loading", "loaded", "shown", "closing"}
        BY <3>1 DEF MirrorTypes
    <3>3. toWindow' = toWindow \/ (m.type = "sync" /\ toWindow' = Append(toWindow, m.state))
        BY <1>7 DEF MainHearsRenderer, m
    <3>4. window' = window \/ window' \in {"loading", "none", "closing"}
        BY <1>7 DEF MainHearsRenderer
    <3> QED BY <3>2, <3>3, <3>4
  <2> QED BY <1>0, <1>1, <1>2, <1>3, <2>1, <2>2, <2>3 DEF MirrorTypes, renderer
<1>8. CASE MainHearsWindow
  <2>1. Head(fromWindow) \in News /\ fromWindow' \in Seq(Word) /\ toRenderer' \in Seq(News)
      BY <1>8, MessageFacts DEF MainHearsWindow, MirrorTypes
  <2> QED BY <1>0, <1>1, <1>2, <1>3, <1>8, <2>1 DEF MainHearsWindow, MirrorTypes, renderer
<1>9. CASE WindowLoads
  <2>1. fromWindow' \in Seq(Word)
      BY <1>9, MessageFacts DEF WindowLoads, MirrorTypes
  <2> QED BY <1>0, <1>1, <1>2, <1>3, <1>9, <2>1 DEF WindowLoads, MirrorTypes, renderer
<1>10. CASE WindowClosed
  <2>1. toRenderer' \in Seq(News)
      BY <1>10, MessageFacts DEF WindowClosed, MirrorTypes
  <2>2. editRevision' \in 0 .. acts' /\ pending' \in [Fields -> 0 .. editRevision']
      BY <1>0, <1>10 DEF WindowClosed
  <2> QED BY <1>0, <1>2, <1>3, <1>10, <2>1, <2>2, BlankDocument DEF WindowClosed, MirrorTypes, renderer
<1>11. CASE ApplyState
  <2>1. shown' \in Documents /\ pending' = pending /\ toWindow # <<>> /\ toWindow' = Tail(toWindow)
      BY <1>11, ApplyFacts
  <2>2. toWindow' \in Seq(States)
      BY <2>1 DEF MirrorTypes
  <2> QED BY <1>0, <1>1, <1>2, <1>3, <1>11, <2>1, <2>2 DEF ApplyState, MirrorTypes, renderer
<1>12. CASE OpenSettings
  <2>0. toMain' \in Seq(Order)
      BY <1>12, MessageFacts DEF OpenSettings, MirrorTypes
  <2>1. toMain' \in Seq(Order) /\ OwnerTypes' /\ SentInv' /\ isOpen' \in BOOLEAN /\ isReady' \in BOOLEAN
    <3>1. CASE isOpen
        BY <1>3, <1>12, <2>0, <3>1 DEF OpenSettings, MirrorTypes, OwnerTypes
    <3>2. CASE ~isOpen
        BY <1>4, <1>12, <2>0, <3>2 DEF OpenSettings, MirrorTypes, OwnerTypes
    <3> QED BY <3>1, <3>2
  <2> QED BY <1>0, <1>1, <1>12, <2>1, ScheduleFacts DEF OpenSettings, MirrorTypes
<1>13. CASE CloseSettings
  <2>1. toMain' \in Seq(Order) /\ OwnerTypes' /\ SentInv'
      BY <1>4, <1>13, MessageFacts DEF CloseSettings, Forgotten, MirrorTypes, OwnerTypes
  <2> QED BY <1>0, <1>1, <1>13, <2>1 DEF CloseSettings, Forgotten, MirrorTypes
<1>14. ASSUME NEW f \in Fields, NEW v \in Values, OwnerChanges(f, v)
       PROVE  MirrorTypes' /\ SentInv'
  <2>1. OwnerTypes' /\ SentInv'
      BY <1>3, <1>14 DEF OwnerChanges, MirrorTypes, OwnerTypes
  <2> QED BY <1>0, <1>1, <1>14, <2>1, ScheduleFacts DEF OwnerChanges, MirrorTypes
<1>15. ASSUME NEW on \in BOOLEAN, Lock(on)
       PROVE  MirrorTypes' /\ SentInv'
  <2>1. OwnerTypes' /\ SentInv'
      BY <1>3, <1>15 DEF Lock, MirrorTypes, OwnerTypes
  <2> QED BY <1>0, <1>1, <1>15, <2>1, ScheduleFacts DEF Lock, MirrorTypes
<1>16. ASSUME NEW f \in Fields, NEW v \in Values, UserEdits(f, v), acts' = acts + 1
       PROVE  MirrorTypes' /\ SentInv'
  <2>1. fromWindow' \in Seq(Word)
    <3>1. editRevision + 1 \in Nat
        BY DEF MirrorTypes
    <3> QED BY <1>16, <3>1, MessageFacts DEF UserEdits, MirrorTypes
  <2>2. made' \in Seq(Pair)
      BY <1>16 DEF UserEdits, MirrorTypes, Pair
  <2>3. /\ shown' \in Documents /\ pending' = [pending EXCEPT ![f] = editRevision + 1]
        /\ editRevision' = editRevision + 1
      BY <1>16, EditFacts
  <2>4. editRevision' \in 0 .. acts' /\ pending' \in [Fields -> 0 .. editRevision']
      BY <1>0, <1>16, <2>3 DEF MirrorTypes
  <2> QED BY <1>0, <1>2, <1>3, <1>16, <2>1, <2>2, <2>3, <2>4 DEF UserEdits, MirrorTypes, renderer
<1>17. CASE UserReverts \/ UserAsksToClose \/ UserCloses
  <2>1. fromWindow' \in Seq(Word) /\ window' \in {"none", "loading", "loaded", "shown", "closing"}
    <3>1. [type |-> "click"] \in Word /\ [type |-> "close"] \in Word
        BY MessageFacts
    <3>2. /\ fromWindow \in Seq(Word)
          /\ window \in {"none", "loading", "loaded", "shown", "closing"}
        BY DEF MirrorTypes
    <3> QED BY <1>17, <3>1, <3>2 DEF UserReverts, UserAsksToClose, UserCloses
  <2> QED BY <1>0, <1>1, <1>2, <1>3, <1>17, <2>1
          DEF UserReverts, UserAsksToClose, UserCloses, MirrorTypes, renderer
<1> QED BY <1>5, <1>6, <1>7, <1>8, <1>9, <1>10, <1>11, <1>12, <1>13, <1>14, <1>15, <1>16, <1>17
        DEF MirrorNext, Carry, Acts
-----------------------------------------------------------------------------
(* When the window is there                                                *)

LEMMA TailUnclosed ==
    ASSUME MirrorTypes, toRenderer # <<>>, toRenderer' = Tail(toRenderer)
    PROVE  /\ Len(toRenderer') = Len(toRenderer) - 1 /\ Len(toRenderer) \in Nat
           /\ \A i \in DOMAIN toRenderer' : i + 1 \in DOMAIN toRenderer /\ toRenderer'[i] = toRenderer[i + 1]
           /\ \A i \in Nat \ {0} : Unclosed(i)' => Unclosed(i + 1)
<1>1. toRenderer \in Seq(News)
    BY DEF MirrorTypes
<1>2. /\ Len(toRenderer') = Len(toRenderer) - 1 /\ Len(toRenderer) \in Nat
      /\ DOMAIN toRenderer' = 1 .. Len(toRenderer') /\ DOMAIN toRenderer = 1 .. Len(toRenderer)
      /\ \A i \in 1 .. Len(toRenderer') : toRenderer'[i] = toRenderer[i + 1]
    BY <1>1
<1>3. ASSUME NEW i \in Nat \ {0}, Unclosed(i)', NEW j \in DOMAIN toRenderer, j >= i + 1
      PROVE  toRenderer[j].type # "closed"
  <2>1. j - 1 \in DOMAIN toRenderer' /\ j - 1 >= i /\ (j - 1) + 1 = j
      BY <1>2, <1>3
  <2>2. toRenderer'[j - 1].type # "closed"
      BY <1>3, <2>1 DEF Unclosed
  <2> QED BY <1>2, <2>1, <2>2
<1> QED BY <1>2, <1>3 DEF Unclosed

LEMMA AppendUnclosed ==
    ASSUME MirrorTypes, NEW m \in News, toRenderer' = Append(toRenderer, m)
    PROVE  /\ Len(toRenderer') = Len(toRenderer) + 1 /\ Len(toRenderer) \in Nat
           /\ DOMAIN toRenderer' = DOMAIN toRenderer \cup {Len(toRenderer) + 1}
           /\ \A i \in DOMAIN toRenderer : i <= Len(toRenderer) /\ toRenderer'[i] = toRenderer[i]
           /\ toRenderer'[Len(toRenderer) + 1] = m
           /\ \A i \in Nat : Unclosed(i)' => Unclosed(i) /\ (i <= Len(toRenderer) + 1 => m.type # "closed")
<1>1. toRenderer \in Seq(News)
    BY DEF MirrorTypes
<1>2. /\ Len(toRenderer') = Len(toRenderer) + 1 /\ Len(toRenderer) \in Nat
      /\ DOMAIN toRenderer' = 1 .. Len(toRenderer) + 1 /\ DOMAIN toRenderer = 1 .. Len(toRenderer)
      /\ \A i \in 1 .. Len(toRenderer) : toRenderer'[i] = toRenderer[i]
      /\ toRenderer'[Len(toRenderer) + 1] = m
    BY <1>1
<1> QED BY <1>2 DEF Unclosed

LEMMA WindowKept ==
    ASSUME MirrorTypes, WindowInv, MirrorNext
    PROVE  WindowInv'
<1> USE DEF view, counted
<1>1. /\ UNCHANGED <<toRenderer, fromWindow, window>>
      /\ isOpen' /\ isReady' => isOpen /\ isReady
      => WindowInv'
    BY DEF WindowInv, Unclosed
<1>2. \A m \in Word : window \in Visible /\ UNCHANGED <<toRenderer, isOpen, isReady>>
          /\ fromWindow' = Append(fromWindow, m) /\ window' = window => WindowInv'
    BY DEF WindowInv, Unclosed
<1>3. CASE Flush \/ CloseSettings \/ OpenSettings \/ ApplyState
    BY <1>1, <1>3 DEF Flush, CloseSettings, Forgotten, OpenSettings, ApplyState, renderer
<1>4. ASSUME NEW f \in Fields, NEW v \in Values, OwnerChanges(f, v) PROVE WindowInv'
    BY <1>1, <1>4 DEF OwnerChanges
<1>5. ASSUME NEW on \in BOOLEAN, Lock(on) PROVE WindowInv'
    BY <1>1, <1>5 DEF Lock
<1>6. ASSUME NEW f \in Fields, NEW v \in Values, UserEdits(f, v) PROVE WindowInv'
  <2>1. editRevision + 1 \in Nat
      BY DEF MirrorTypes
  <2>2. Emitted(f, v, editRevision + 1) \in Word
      BY <2>1, MessageFacts
  <2> QED BY <1>2, <1>6, <2>2 DEF UserEdits, renderer, Visible
<1>7. CASE UserReverts
  <2>1. [type |-> "click"] \in Word
      BY MessageFacts
  <2> QED BY <1>2, <1>7, <2>1 DEF UserReverts, renderer, Visible
<1>8. CASE UserAsksToClose
  <2>1. [type |-> "close"] \in Word
      BY MessageFacts
  <2> QED BY <1>2, <1>8, <2>1 DEF UserAsksToClose, renderer, Visible
<1>9. CASE UserCloses
    BY <1>9 DEF UserCloses, WindowInv, Unclosed, renderer, Visible
<1>10. CASE RendererHears
  <2> DEFINE m == Head(toRenderer)
  <2>1. toRenderer # <<>> /\ toRenderer' = Tail(toRenderer) /\ UNCHANGED <<window, fromWindow>>
      BY <1>10 DEF RendererHears
  <2>2. m = toRenderer[1] /\ 1 \in DOMAIN toRenderer
      BY <2>1 DEF MirrorTypes
  <2>3. fromWindow' # <<>> => window' \in Visible \cup {"loaded"}
      BY <2>1 DEF WindowInv
  <2>4. ASSUME NEW i \in DOMAIN toRenderer', toRenderer'[i].type = "ready", Unclosed(i + 1)'
        PROVE  window' \in Visible
    <3>1. i \in Nat \ {0} /\ i + 1 \in Nat \ {0}
        BY <2>1, TailUnclosed DEF MirrorTypes
    <3>2. i + 1 \in DOMAIN toRenderer /\ toRenderer[i + 1].type = "ready" /\ Unclosed((i + 1) + 1)
        BY <2>1, <2>4, <3>1, TailUnclosed
    <3> QED BY <2>1, <3>2 DEF WindowInv
  <2>5. ASSUME isOpen', isReady', Unclosed(1)'
        PROVE  window' \in Visible
    <3>1. Unclosed(1 + 1)
        BY <2>1, <2>5, TailUnclosed
    <3> HIDE DEF m
    <3>2. CASE m.type = "ready"
        BY <2>1, <2>2, <3>1, <3>2 DEF WindowInv
    <3>3. CASE m.type # "ready"
      <4>1. isOpen /\ isReady /\ m.type # "closed"
          BY <1>10, <2>5, <3>3 DEF RendererHears, HearClosed, HearEdit, HearRevert, HearCloseRequest,
                                   Forgotten, m
      <4>2. Unclosed(1)
          BY <2>2, <3>1, <4>1 DEF Unclosed, MirrorTypes
      <4> QED BY <2>1, <4>1, <4>2 DEF WindowInv
    <3> QED BY <3>2, <3>3
  <2> QED BY <2>3, <2>4, <2>5 DEF WindowInv
<1>11. CASE MainHearsRenderer
  <2>1. UNCHANGED <<toRenderer, fromWindow, isOpen, isReady>>
      BY <1>11 DEF MainHearsRenderer, renderer
  <2>2. /\ window \in Visible => window' \in Visible
        /\ window \in Visible \cup {"loaded"} => window' \in Visible \cup {"loaded"}
      BY <1>11 DEF MainHearsRenderer, Visible
  <2> QED BY <2>1, <2>2 DEF WindowInv, Unclosed
<1>12. CASE MainHearsWindow
  <2> DEFINE m == Head(fromWindow)
  <2>1. /\ fromWindow # <<>> /\ fromWindow' = Tail(fromWindow) /\ toRenderer' = Append(toRenderer, m)
        /\ window' = IF m.type = "ready" /\ window = "loaded" THEN "shown" ELSE window
        /\ UNCHANGED <<isOpen, isReady>>
      BY <1>12 DEF MainHearsWindow, renderer
  <2>2. m \in Word /\ m \in News /\ m.type # "closed"
    <3>1. m \in Word
        BY <2>1 DEF MirrorTypes
    <3> QED BY <3>1, MessageFacts
  <2>3. window \in Visible \cup {"loaded"}
      BY <2>1 DEF WindowInv
  <2>4. /\ window' \in Visible \cup {"loaded"}
        /\ m.type = "ready" \/ window \in Visible => window' \in Visible
      BY <2>1, <2>3 DEF Visible
  <2> HIDE DEF m
  <2>5. ASSUME NEW i \in DOMAIN toRenderer', toRenderer'[i].type = "ready", Unclosed(i + 1)'
        PROVE  window' \in Visible
    <3>1. CASE i = Len(toRenderer) + 1
        BY <2>1, <2>2, <2>4, <2>5, <3>1, AppendUnclosed
    <3>2. CASE i # Len(toRenderer) + 1
      <4>1. i \in DOMAIN toRenderer /\ toRenderer[i].type = "ready"
          BY <2>1, <2>2, <2>5, <3>2, AppendUnclosed
      <4>2. i + 1 \in Nat
          BY <4>1 DEF MirrorTypes
      <4>3. Unclosed(i + 1)
          BY <2>1, <2>2, <2>5, <4>2, AppendUnclosed
      <4> QED BY <2>4, <4>1, <4>3 DEF WindowInv
    <3> QED BY <3>1, <3>2
  <2>6. ASSUME isOpen', isReady', Unclosed(1)'
        PROVE  window' \in Visible
    <3>1. Unclosed(1)
        BY <2>1, <2>2, <2>6, AppendUnclosed
    <3> QED BY <2>1, <2>4, <2>6, <3>1 DEF WindowInv
  <2> QED BY <2>4, <2>5, <2>6 DEF WindowInv
<1>13. CASE WindowLoads
  <2>1. /\ window = "loading" /\ window' = "loaded" /\ UNCHANGED <<toRenderer, isOpen, isReady>>
      BY <1>13 DEF WindowLoads, renderer
  <2> QED BY <2>1 DEF WindowInv, Unclosed, Visible
<1>14. CASE WindowClosed
  <2> DEFINE m == [type |-> "closed"]
  <2>1. fromWindow' = <<>> /\ toRenderer' = Append(toRenderer, m) /\ m \in News /\ m.type = "closed"
      BY <1>14, MessageFacts DEF WindowClosed
  <2> HIDE DEF m
  <2>2. \A i \in DOMAIN toRenderer' : toRenderer'[i].type = "ready" => ~ Unclosed(i + 1)'
    <3> SUFFICES ASSUME NEW i \in DOMAIN toRenderer', toRenderer'[i].type = "ready", Unclosed(i + 1)'
                 PROVE  FALSE
        OBVIOUS
    <3>1. i # Len(toRenderer) + 1
        BY <2>1, AppendUnclosed
    <3>2. i \in DOMAIN toRenderer /\ i <= Len(toRenderer) /\ Len(toRenderer) \in Nat
        BY <2>1, <3>1, AppendUnclosed
    <3>3. i + 1 \in Nat /\ i + 1 <= Len(toRenderer) + 1
        BY <3>2 DEF MirrorTypes
    <3> QED BY <2>1, <3>3, AppendUnclosed
  <2>3. ~ Unclosed(1)'
      BY <2>1, AppendUnclosed
  <2> QED BY <2>1, <2>2, <2>3 DEF WindowInv
<1> QED BY <1>3, <1>4, <1>5, <1>6, <1>7, <1>8, <1>9, <1>10, <1>11, <1>12, <1>13, <1>14
        DEF MirrorNext, Carry, Acts

-----------------------------------------------------------------------------
(* What was sent last                                                      *)

LEMMA SyncKept ==
    ASSUME MirrorTypes, SentInv, SyncInv, MirrorNext
    PROVE  SyncInv'
<1> USE DEF view, counted
<1>1. /\ isOpen' \in BOOLEAN /\ isReady' \in BOOLEAN /\ ScheduleSync => SyncInv'
  <2> SUFFICES ASSUME isOpen' \in BOOLEAN, isReady' \in BOOLEAN, ScheduleSync PROVE SyncInv'
      OBVIOUS
  <2>1. /\ syncQueued' => frames' > 0 \/ (syncQueued /\ frames' = frames)
        /\ isOpen' /\ isReady' => syncQueued'
      BY ScheduleFacts
  <2> QED BY <2>1 DEF SyncInv
<1>2. UNCHANGED renderer => SyncInv'
  <2> SUFFICES ASSUME UNCHANGED renderer PROVE SyncInv'
      OBVIOUS
  <2>1. /\ UNCHANGED <<setting, locked, snapshot>>
        /\ UNCHANGED <<signature, sent, isOpen, isReady, syncQueued, frames>>
      BY DEF renderer
  <2>2. Description' = Description /\ Signature(setting)' = Signature(setting)
      BY <2>1 DEF Description, Signature, Changed
  <2> QED BY <2>1, <2>2 DEF SyncInv
<1>3. isOpen' = FALSE /\ syncQueued' = FALSE => SyncInv'
    BY DEF SyncInv
<1>4. ~isOpen /\ isOpen' = isOpen /\ UNCHANGED <<syncQueued, frames>> => SyncInv'
    BY DEF SyncInv
<1>5. isOpen \in BOOLEAN /\ isReady \in BOOLEAN
    BY DEF MirrorTypes
<1>6. CASE Flush
  <2>1. /\ syncQueued' = FALSE /\ UNCHANGED <<isOpen, isReady, setting, snapshot, locked>>
        /\ isOpen /\ isReady => sent' = Description /\ signature' = Signature(setting)
      BY <1>6 DEF Flush
  <2>2. Description' = Description /\ Signature(setting)' = Signature(setting)
      BY <2>1 DEF Description, Signature, Changed
  <2> QED BY <2>1, <2>2 DEF SyncInv
<1>7. CASE RendererHears
  <2> DEFINE m == Head(toRenderer)
  <2>1. CASE HearReady
      BY <1>1, <1>5, <2>1 DEF HearReady
  <2>2. CASE HearClosed
      BY <1>3, <1>4, <1>5, <2>2 DEF HearClosed, Forgotten
  <2>3. CASE HearEdit(m)
      BY <1>1, <1>5, <2>3 DEF HearEdit
  <2>4. CASE HearRevert
      BY <1>1, <1>5, <2>4 DEF HearRevert
  <2>5. CASE HearCloseRequest
      BY <1>3, <1>4, <1>5, <2>5 DEF HearCloseRequest, Forgotten
  <2> QED BY <1>7, <2>1, <2>2, <2>3, <2>4, <2>5 DEF RendererHears
<1>8. CASE MainHearsRenderer \/ MainHearsWindow \/ WindowLoads \/ WindowClosed \/ ApplyState
    BY <1>2, <1>8 DEF MainHearsRenderer, MainHearsWindow, WindowLoads, WindowClosed, ApplyState
<1>9. CASE OpenSettings
    BY <1>1, <1>5, <1>9 DEF OpenSettings
<1>10. CASE CloseSettings
    BY <1>3, <1>10 DEF CloseSettings, Forgotten
<1>11. ASSUME NEW f \in Fields, NEW v \in Values, OwnerChanges(f, v) PROVE SyncInv'
    BY <1>1, <1>5, <1>11 DEF OwnerChanges
<1>12. ASSUME NEW on \in BOOLEAN, Lock(on) PROVE SyncInv'
    BY <1>1, <1>5, <1>12 DEF Lock
<1>13. ASSUME NEW f \in Fields, NEW v \in Values, UserEdits(f, v) PROVE SyncInv'
    BY <1>2, <1>13 DEF UserEdits
<1>14. CASE UserReverts \/ UserAsksToClose \/ UserCloses
    BY <1>2, <1>14 DEF UserReverts, UserAsksToClose, UserCloses
<1> QED BY <1>6, <1>7, <1>8, <1>9, <1>10, <1>11, <1>12, <1>13, <1>14 DEF MirrorNext, Carry, Acts

-----------------------------------------------------------------------------
(* What the user typed                                                     *)

LEMMA TypingKept ==
    ASSUME MirrorTypes, TypingInv, MirrorNext
    PROVE  TypingInv'
<1> USE DEF view, counted
<1>1. UNCHANGED <<shown, pending, made>> => TypingInv'
    BY DEF TypingInv
<1>2. CASE ApplyState
  <2> DEFINE s == Head(toWindow)
             doc == Replayed(shown, s)
  <2>1. /\ s \in States /\ pending' = pending /\ DOMAIN shown' = DOMAIN doc /\ made' = made
        /\ \A n \in DOMAIN doc : Typed(n) /\ n \in DOMAIN shown => shown'[n].value = shown[n].value
      BY <1>2, ApplyFacts DEF ApplyState
  <2>2. DOMAIN doc = (DOMAIN shown \ s.patched) \cup DOMAIN s.markup
      BY <2>1, ReplayedDocument DEF MirrorTypes
  <2>3. Controls \cap s.patched \subseteq DOMAIN s.markup
      BY <2>1 DEF States, Complete
  <2> HIDE DEF s, doc
  <2>4. ASSUME NEW f \in Fields, pending[f] > 0
        PROVE  Control(f) \in DOMAIN shown' /\ shown'[Control(f)].value = shown[Control(f)].value
    <3>1. Control(f) \in DOMAIN shown /\ Control(f) \in Controls /\ Typed(Control(f))
        BY <2>4 DEF TypingInv, Controls, Typed
    <3> QED BY <2>1, <2>2, <2>3, <3>1
  <2> QED BY <2>1, <2>4 DEF TypingInv
<1>3. CASE WindowClosed
  <2>1. \A f \in Fields : pending'[f] = 0
      BY <1>3 DEF WindowClosed
  <2> QED BY <2>1 DEF TypingInv
<1>4. ASSUME NEW f \in Fields, NEW v \in Values, UserEdits(f, v) PROVE TypingInv'
  <2>1. /\ made' = Append(made, <<f, v>>) /\ made \in Seq(Pair) /\ <<f, v>> \in Pair
      BY <1>4 DEF UserEdits, MirrorTypes, Pair
  <2>2. /\ Len(made) \in Nat /\ Len(made') = Len(made) + 1
        /\ \A i \in 1 .. Len(made) : made'[i] = made[i]
        /\ made'[Len(made) + 1] = <<f, v>>
      BY <2>1
  <2>3. /\ DOMAIN shown' = DOMAIN shown /\ Control(f) \in DOMAIN shown /\ shown'[Control(f)].value = v
        /\ \A n \in DOMAIN shown : n # Control(f) => shown'[n] = shown[n]
        /\ pending' = [pending EXCEPT ![f] = editRevision + 1]
      BY <1>4, EditFacts
  <2>4. ASSUME NEW g \in Fields, pending'[g] > 0
        PROVE  /\ Control(g) \in DOMAIN shown'
               /\ \E i \in 1 .. Len(made') :
                      /\ made'[i] = <<g, shown'[Control(g)].value>>
                      /\ \A j \in (i + 1) .. Len(made') : made'[j][1] # g
    <3>1. CASE g = f
      <4>1. Len(made') \in 1 .. Len(made') /\ (Len(made') + 1) .. Len(made') = {}
          BY <2>2
      <4> QED BY <2>2, <2>3, <3>1, <4>1
    <3>2. CASE g # f
      <4>1. pending[g] > 0 /\ Control(g) # Control(f)
          BY <2>3, <2>4, <3>2, NodeFacts DEF MirrorTypes
      <4>2. Control(g) \in DOMAIN shown
          BY <4>1 DEF TypingInv
      <4>3. PICK i \in 1 .. Len(made) :
                /\ made[i] = <<g, shown[Control(g)].value>>
                /\ \A j \in (i + 1) .. Len(made) : made[j][1] # g
          BY <4>1 DEF TypingInv
      <4>4. shown'[Control(g)] = shown[Control(g)]
          BY <2>3, <4>1, <4>2
      <4>5. i \in 1 .. Len(made') /\ made'[i] = made[i]
          BY <2>2, <4>3
      <4>6. ASSUME NEW j \in (i + 1) .. Len(made')
            PROVE  made'[j][1] # g
        <5>1. CASE j = Len(made) + 1
            BY <2>2, <3>2, <5>1
        <5>2. CASE j # Len(made) + 1
          <6>1. j \in (i + 1) .. Len(made) /\ j \in 1 .. Len(made)
              BY <2>2, <4>3, <4>6, <5>2
          <6> QED BY <2>2, <4>3, <6>1
        <5> QED BY <5>1, <5>2
      <4> QED BY <2>3, <4>2, <4>3, <4>4, <4>5, <4>6
    <3> QED BY <3>1, <3>2
  <2> QED BY <2>4 DEF TypingInv
<1>5. CASE Flush \/ MainHearsRenderer \/ MainHearsWindow \/ WindowLoads
    BY <1>1, <1>5 DEF Flush, MainHearsRenderer, MainHearsWindow, WindowLoads
<1>6. CASE RendererHears
    BY <1>1, <1>6 DEF RendererHears
<1>7. CASE OpenSettings \/ CloseSettings \/ UserCloses \/ UserReverts \/ UserAsksToClose
    BY <1>1, <1>7 DEF OpenSettings, CloseSettings, UserCloses, UserReverts, UserAsksToClose
<1>8. ASSUME NEW f \in Fields, NEW v \in Values, OwnerChanges(f, v) PROVE TypingInv'
    BY <1>1, <1>8 DEF OwnerChanges
<1>9. ASSUME NEW on \in BOOLEAN, Lock(on) PROVE TypingInv'
    BY <1>1, <1>9 DEF Lock
<1> QED BY <1>2, <1>3, <1>4, <1>5, <1>6, <1>7, <1>8, <1>9 DEF MirrorNext, Carry, Acts

-----------------------------------------------------------------------------
(* What is on its way to the window                                        *)

LEMMA ComingFacts ==
    ASSUME MirrorTypes
    PROVE  /\ Len(toWindow) \in Nat /\ Len(toMain) \in Nat
           /\ Coming \in Nat /\ Coming = Len(toWindow) + Len(toMain)
           /\ \A k \in 1 .. Coming : Message(k).type = "sync" => Message(k).state \in States
<1>1. /\ Len(toWindow) \in Nat /\ Len(toMain) \in Nat
      /\ Coming \in Nat /\ Coming = Len(toWindow) + Len(toMain)
    BY DEF MirrorTypes, Coming
<1>2. ASSUME NEW k \in 1 .. Coming, Message(k).type = "sync"
      PROVE  Message(k).state \in States
  <2>1. CASE k <= Len(toWindow)
    <3>1. toWindow[k] \in States
        BY <1>1, <2>1 DEF MirrorTypes
    <3> QED BY <2>1, <3>1 DEF Message
  <2>2. CASE ~(k <= Len(toWindow))
    <3>1. toMain[k - Len(toWindow)] \in Order
        BY <1>1, <2>2 DEF MirrorTypes
    <3> QED BY <1>2, <2>2, <3>1, MessageFacts DEF Message
  <2> QED BY <2>1, <2>2
<1> QED BY <1>1, <1>2

\* Nothing has left or come, and what the window showed it shows.
LEMMA ViewStands ==
    ASSUME MirrorTypes, ViewInv,
           isOpen' /\ isReady' => isOpen /\ isReady, signature' = signature, sent' = sent,
           Unclosed(1)' => Unclosed(1),
           Coming' = Coming, \A k \in 1 .. Coming : Message(k)' = Message(k),
           \A doc \in Documents : Shows(doc) => Shows(doc)'
    PROVE  ViewInv'
<1> SUFFICES ASSUME isOpen /\ isReady, signature # NoSignature, Unclosed(1)
             PROVE  \E i, chain : IsView(i, chain)'
    BY DEF ViewInv
<1>1. PICK i, chain : IsView(i, chain)
    BY DEF ViewInv
<1>2. Coming \in Nat
    BY ComingFacts
<1>3. i \in 0 .. Coming /\ chain \in [0 .. Coming -> Documents]
    BY <1>1 DEF IsView
<1>4. i = 0 => Shows(chain[0])'
    BY <1>1, <1>2, <1>3 DEF IsView
<1>5. i > 0 => Message(i)' = Message(i)
    BY <1>2, <1>3
<1>6. \A k \in (i + 1) .. Coming : Message(k)' = Message(k)
    BY <1>2, <1>3
<1>7. IsView(i, chain)'
    BY <1>1, <1>3, <1>4, <1>5, <1>6 DEF IsView, Follows
<1> QED BY <1>7

\* One more message has left, and it makes of what was sent what now is.
LEMMA ViewGrows ==
    ASSUME MirrorTypes, ViewInv,
           isOpen /\ isReady, signature # NoSignature, Unclosed(1),
           sent' \in Documents, NEW m, Follows(m, sent, sent'),
           Coming' = Coming + 1, \A k \in 1 .. Coming : Message(k)' = Message(k),
           \A k \in Nat : k = Coming + 1 => Message(k)' = m, UNCHANGED <<shown, pending>>
    PROVE  ViewInv'
<1>1. PICK i, chain : IsView(i, chain)
    BY DEF ViewInv
<1>2. PICK n, d : n = Coming /\ d = sent'
    OBVIOUS
<1>3. n \in Nat
    BY <1>2, ComingFacts
<1> DEFINE longer == [k \in 0 .. n + 1 |-> IF k <= n THEN chain[k] ELSE d]
<1>4. i \in 0 .. n /\ chain \in [0 .. n -> Documents] /\ chain[n] = sent
    BY <1>1, <1>2 DEF IsView
<1>5. longer \in [0 .. n + 1 -> Documents] /\ i \in 0 .. n + 1 /\ longer[n + 1] = d
    BY <1>2, <1>3, <1>4
<1>6. \A k \in 0 .. n : longer[k] = chain[k]
    BY <1>3
<1>7. i = 0 => Shows(longer[0])'
    BY <1>1, <1>3, <1>6 DEF IsView, Shows, Typed
<1>8. i > 0 => /\ Message(i)'.type = "sync"
               /\ \A doc \in Documents : Follows(Message(i), doc, longer[i])'
  <2>1. i > 0 => Message(i)' = Message(i) /\ longer[i] = chain[i]
      BY <1>2, <1>4, <1>6
  <2> QED BY <1>1, <2>1 DEF IsView, Follows
<1>9. ASSUME NEW k \in (i + 1) .. n + 1
      PROVE  Follows(Message(k), longer[k - 1], longer[k])'
  <2>1. CASE k = n + 1
    <3>1. k - 1 = n /\ n \in 0 .. n /\ k \in Nat /\ k = Coming + 1
        BY <1>2, <1>3, <2>1
    <3>2. longer[k - 1] = sent /\ longer[k] = sent' /\ Message(k)' = m
        BY <1>2, <1>4, <1>5, <1>6, <2>1, <3>1
    <3> QED BY <3>2 DEF Follows
  <2>2. CASE k # n + 1
    <3>1. k \in (i + 1) .. n /\ k \in 1 .. n /\ k - 1 \in 0 .. n
        BY <1>3, <1>4, <1>9, <2>2
    <3>2. longer[k - 1] = chain[k - 1] /\ longer[k] = chain[k] /\ Message(k)' = Message(k)
        BY <1>2, <1>6, <3>1
    <3>3. Follows(Message(k), chain[k - 1], chain[k])
        BY <1>1, <1>2, <3>1 DEF IsView
    <3> QED BY <3>2, <3>3 DEF Follows
  <2> QED BY <2>1, <2>2
<1>10. Coming' = n + 1 /\ sent' = d
    BY <1>2
<1> HIDE DEF longer
<1>11. IsView(i, longer)'
    BY <1>5, <1>7, <1>8, <1>9, <1>10 DEF IsView
<1> QED BY <1>11 DEF ViewInv

\* Main has heard a message that tells the window nothing, and it is gone.
LEMMA ViewSkips ==
    ASSUME MirrorTypes, ViewInv,
           isOpen /\ isReady, signature # NoSignature, Unclosed(1), sent' = sent,
           NEW p, p \in 1 .. Coming, Message(p).type # "sync",
           Coming' = Coming - 1, \A k \in 1 .. p - 1 : Message(k)' = Message(k),
           \A k \in p .. Coming - 1 : Message(k)' = Message(k + 1), UNCHANGED <<shown, pending>>
    PROVE  ViewInv'
<1>1. PICK i, chain : IsView(i, chain)
    BY DEF ViewInv
<1>2. PICK n : n = Coming
    OBVIOUS
<1>3. n \in Nat /\ p \in 1 .. n
    BY <1>2, ComingFacts
<1>4. i \in 0 .. n /\ chain \in [0 .. n -> Documents] /\ i # p
    BY <1>1, <1>2 DEF IsView
<1> DEFINE shorter == [k \in 0 .. n - 1 |-> IF k < p THEN chain[k] ELSE chain[k + 1]]
           j == IF i < p THEN i ELSE i - 1
<1>5. /\ \A k \in 0 .. n - 1 : k < p => shorter[k] = chain[k]
      /\ \A k \in 0 .. n - 1 : k >= p => shorter[k] = chain[k + 1]
      /\ shorter \in [0 .. n - 1 -> Documents]
    BY <1>3, <1>4
<1>6. i < p => chain[p] = chain[p - 1]
  <2>1. i < p => p \in (i + 1) .. Coming
      BY <1>2, <1>3, <1>4
  <2> QED BY <1>1, <2>1 DEF IsView, Follows
<1>7. j \in 0 .. n - 1
    BY <1>3, <1>4
<1> HIDE DEF shorter
<1>8. j = 0 => Shows(shorter[0])'
  <2>1. j = 0 => i = 0 /\ shorter[0] = chain[0]
      BY <1>3, <1>4, <1>5
  <2> QED BY <1>1, <2>1 DEF IsView, Shows, Typed
<1>9. ASSUME j > 0
      PROVE  Message(j)' = Message(i) /\ shorter[j] = chain[i]
  <2>1. CASE i < p
    <3>1. j = i /\ i \in 1 .. p - 1 /\ i \in 0 .. n - 1
        BY <1>3, <1>4, <1>9, <2>1
    <3> QED BY <1>5, <2>1, <3>1
  <2>2. CASE ~(i < p)
    <3>1. j = i - 1 /\ j \in p .. n - 1 /\ j + 1 = i /\ j \in 0 .. n - 1 /\ j >= p
        BY <1>3, <1>4, <1>9, <2>2
    <3> QED BY <1>2, <1>5, <3>1
  <2> QED BY <2>1, <2>2
<1>10. j > 0 => /\ Message(j)'.type = "sync"
                /\ \A doc \in Documents : Follows(Message(j)', doc, shorter[j])
  <2>1. j > 0 => i > 0
      BY <1>3, <1>4
  <2> QED BY <1>1, <1>9, <2>1 DEF IsView
<1>11. ASSUME NEW k \in (j + 1) .. n - 1
       PROVE  Follows(Message(k)', shorter[k - 1], shorter[k])
  <2>0. k \in Nat /\ k \in 0 .. n - 1 /\ k - 1 \in 0 .. n - 1 /\ k > j /\ k >= 1
      BY <1>3, <1>7
  <2>1. CASE k < p
    <3>1. k \in (i + 1) .. n /\ k \in 1 .. p - 1
        BY <1>3, <1>4, <2>0, <2>1
    <3>2. shorter[k] = chain[k] /\ shorter[k - 1] = chain[k - 1] /\ Message(k)' = Message(k)
        BY <1>5, <2>0, <2>1, <3>1
    <3> QED BY <1>1, <1>2, <3>1, <3>2 DEF IsView
  <2>2. CASE k = p
    <3>1. p + 1 \in (i + 1) .. n /\ k \in p .. n - 1 /\ i < p
        BY <1>3, <1>4, <2>0, <2>2
    <3>2. shorter[k] = chain[p + 1] /\ shorter[k - 1] = chain[p] /\ Message(k)' = Message(p + 1)
        BY <1>2, <1>5, <1>6, <2>0, <2>2, <3>1
    <3>3. Follows(Message(p + 1), chain[(p + 1) - 1], chain[p + 1]) /\ (p + 1) - 1 = p
        BY <1>1, <1>2, <1>3, <3>1 DEF IsView
    <3> QED BY <3>2, <3>3
  <2>3. CASE k > p
    <3>1. k + 1 \in (i + 1) .. n /\ k \in p .. n - 1 /\ k - 1 >= p /\ (k - 1) + 1 = k /\ (k + 1) - 1 = k
        BY <1>3, <1>4, <2>0, <2>3
    <3>2. shorter[k] = chain[k + 1] /\ shorter[k - 1] = chain[k] /\ Message(k)' = Message(k + 1)
        BY <1>2, <1>5, <2>0, <2>3, <3>1
    <3>3. Follows(Message(k + 1), chain[(k + 1) - 1], chain[k + 1])
        BY <1>1, <1>2, <3>1 DEF IsView
    <3> QED BY <3>1, <3>2, <3>3
  <2> QED BY <1>3, <2>0, <2>1, <2>2, <2>3
<1>12. shorter[n - 1] = chain[n]
  <2>1. CASE p = n
    <3>1. n - 1 \in 0 .. n - 1 /\ n - 1 < p /\ i < p
        BY <1>3, <1>4, <2>1
    <3> QED BY <1>5, <1>6, <2>1, <3>1
  <2>2. CASE p # n
    <3>1. n - 1 \in 0 .. n - 1 /\ n - 1 >= p /\ (n - 1) + 1 = n
        BY <1>3, <2>2
    <3> QED BY <1>5, <3>1
  <2> QED BY <2>1, <2>2
<1>13. Coming' = n - 1 /\ shorter[n - 1] = sent'
    BY <1>1, <1>2, <1>12 DEF IsView
<1> HIDE DEF j
<1>14. IsView(j, shorter)'
    BY <1>5, <1>7, <1>8, <1>10, <1>11, <1>13 DEF IsView, Follows
<1> QED BY <1>14 DEF ViewInv

\* The window has applied the first state.
LEMMA ViewApplied ==
    ASSUME MirrorTypes, ViewInv, ApplyState,
           isOpen /\ isReady, signature # NoSignature, Unclosed(1)
    PROVE  ViewInv'
<1> DEFINE s == Head(toWindow)
           now == Replayed(shown, s)
<1>1. PICK i, chain : IsView(i, chain)
    BY DEF ViewInv
<1>2. PICK n : n = Coming
    OBVIOUS
<1>3. /\ s \in States /\ toWindow # <<>> /\ toWindow' = Tail(toWindow) /\ pending' = pending
      /\ DOMAIN shown' = DOMAIN now
      /\ \A x \in DOMAIN now : /\ shown'[x].off = now[x].off
                               /\ ~ Typed(x) => shown'[x] = now[x]
      /\ UNCHANGED <<toMain, sent>>
    BY ApplyFacts DEF ApplyState, renderer
<1>4. /\ toWindow \in Seq(States) /\ Len(toWindow) \in Nat \ {0} /\ Len(toWindow') = Len(toWindow) - 1
      /\ s = toWindow[1] /\ \A k \in 1 .. Len(toWindow) - 1 : toWindow'[k] = toWindow[k + 1]
    BY <1>3 DEF MirrorTypes
<1>5. n \in Nat \ {0} /\ n = Len(toWindow) + Len(toMain) /\ Coming' = n - 1 /\ Len(toMain) \in Nat
    BY <1>2, <1>3, <1>4, ComingFacts DEF Coming
<1>6. \A k \in 1 .. n - 1 : Message(k)' = Message(k + 1)
  <2> SUFFICES ASSUME NEW k \in 1 .. n - 1
               PROVE  Message(k)' = Message(k + 1)
      OBVIOUS
  <2>1. CASE k <= Len(toWindow) - 1
    <3>1. k <= Len(toWindow') /\ k + 1 <= Len(toWindow) /\ toWindow'[k] = toWindow[k + 1]
        BY <1>4, <2>1
    <3> QED BY <3>1 DEF Message
  <2>2. CASE ~(k <= Len(toWindow) - 1)
    <3>1. ~(k <= Len(toWindow')) /\ ~(k + 1 <= Len(toWindow)) /\ k - Len(toWindow') = (k + 1) - Len(toWindow)
        BY <1>4, <2>2
    <3> QED BY <1>3, <3>1 DEF Message
  <2> QED BY <2>1, <2>2
<1>7. Message(1).type = "sync" /\ Message(1).state = s
    BY <1>4 DEF Message
<1> HIDE DEF s
<1>8. i \in 0 .. n /\ chain \in [0 .. n -> Documents]
    BY <1>1, <1>2 DEF IsView
<1> DEFINE shorter == [k \in 0 .. n - 1 |-> chain[k + 1]]
           j == IF i = 0 THEN 0 ELSE i - 1
<1>9. /\ \A k \in 0 .. n - 1 : shorter[k] = chain[k + 1]
      /\ shorter \in [0 .. n - 1 -> Documents] /\ j \in 0 .. n - 1
    BY <1>5, <1>8
<1> HIDE DEF shorter
<1>10. j = 0 => Shows(shorter[0])'
  <2>1. shorter[0] = chain[1]
      BY <1>5, <1>9
  <2>2. \A x : Typed(x)' <=> Typed(x)
      BY <1>3 DEF Typed
  <2>3. CASE i = 0
    <3>1. chain[1] = Replayed(chain[0], s)
      <4>1. 1 \in (i + 1) .. Coming
          BY <1>2, <1>5, <2>3
      <4>2. Follows(Message(1), chain[1 - 1], chain[1])
          BY <1>1, <4>1 DEF IsView
      <4> QED BY <1>7, <4>2 DEF Follows
    <3>2. Shows(chain[0]) /\ chain[0] \in Documents /\ shown \in Documents
        BY <1>1, <1>5, <1>8, <2>3 DEF IsView, MirrorTypes
    <3>3. PICK c, d : c = chain[0] /\ d = chain[1]
        OBVIOUS
    <3>4. s \in States /\ Shows(c) /\ c \in Documents /\ d = Replayed(c, s)
        BY <1>3, <3>1, <3>2, <3>3
    <3>5. /\ DOMAIN now = (DOMAIN shown \ s.patched) \cup DOMAIN s.markup
          /\ \A x \in DOMAIN now : now[x] = IF x \in DOMAIN s.entries THEN s.entries[x]
                                             ELSE IF x \in DOMAIN s.markup THEN s.markup[x] ELSE shown[x]
        BY <3>2, <3>4, ReplayedDocument
    <3>6. /\ DOMAIN d = (DOMAIN c \ s.patched) \cup DOMAIN s.markup
          /\ \A x \in DOMAIN d : d[x] = IF x \in DOMAIN s.entries THEN s.entries[x]
                                         ELSE IF x \in DOMAIN s.markup THEN s.markup[x] ELSE c[x]
      <4>1. /\ DOMAIN Replayed(c, s) = (DOMAIN c \ s.patched) \cup DOMAIN s.markup
            /\ \A x \in DOMAIN Replayed(c, s) :
                   Replayed(c, s)[x] = IF x \in DOMAIN s.entries THEN s.entries[x]
                                       ELSE IF x \in DOMAIN s.markup THEN s.markup[x] ELSE c[x]
          BY <3>4, ReplayedDocument
      <4> QED BY <3>4, <4>1
    <3> HIDE DEF now
    <3>7. /\ DOMAIN shown = DOMAIN c
          /\ \A x \in DOMAIN c : /\ shown[x].off = c[x].off
                                 /\ ~ Typed(x) => shown[x] = c[x]
        BY <3>4 DEF Shows
    <3>8. /\ DOMAIN now = DOMAIN d
          /\ \A x \in DOMAIN now : /\ now[x].off = d[x].off
                                   /\ ~ Typed(x) => now[x] = d[x]
        BY <3>5, <3>6, <3>7
    <3>9. Shows(d)'
        BY <1>3, <2>2, <3>8 DEF Shows
    <3> QED BY <2>1, <3>3, <3>9
  <2>4. CASE i = 1
    <3>1. now = chain[1]
      <4>1. Follows(Message(1), shown, chain[1])
          BY <1>1, <2>4 DEF IsView, MirrorTypes
      <4> QED BY <1>7, <4>1 DEF Follows
    <3> QED BY <1>3, <2>1, <2>2, <3>1 DEF Shows
  <2> QED BY <1>8, <2>3, <2>4
<1>11. j > 0 => /\ Message(j)'.type = "sync"
                /\ \A doc \in Documents : Follows(Message(j)', doc, shorter[j])
  <2>1. j > 0 => i > 0 /\ j \in 1 .. n - 1 /\ j + 1 = i
      BY <1>5, <1>8
  <2>2. j > 0 => Message(j)' = Message(i) /\ shorter[j] = chain[i]
      BY <1>6, <1>9, <2>1
  <2> QED BY <1>1, <2>1, <2>2 DEF IsView
<1>12. ASSUME NEW k \in (j + 1) .. n - 1
       PROVE  Follows(Message(k)', shorter[k - 1], shorter[k])
  <2>1. k + 1 \in (i + 1) .. n /\ k \in 1 .. n - 1 /\ (k + 1) - 1 = k /\ (k - 1) + 1 = k /\ k - 1 \in 0 .. n - 1
        /\ k \in 0 .. n - 1
      BY <1>5, <1>8
  <2>2. shorter[k] = chain[k + 1] /\ shorter[k - 1] = chain[k] /\ Message(k)' = Message(k + 1)
      BY <1>6, <1>9, <2>1
  <2>3. Follows(Message(k + 1), chain[(k + 1) - 1], chain[k + 1])
      BY <1>1, <1>2, <2>1 DEF IsView
  <2> QED BY <2>1, <2>2, <2>3
<1>13. Coming' = n - 1 /\ shorter[n - 1] = sent'
  <2>1. n - 1 \in 0 .. n - 1 /\ (n - 1) + 1 = n
      BY <1>5
  <2> QED BY <1>1, <1>2, <1>3, <1>5, <1>9, <2>1 DEF IsView
<1> HIDE DEF j
<1>14. IsView(j, shorter)'
    BY <1>9, <1>10, <1>11, <1>12, <1>13 DEF IsView, Follows
<1> QED BY <1>14 DEF ViewInv

LEMMA ViewKept ==
    ASSUME MirrorTypes, SentInv, WindowInv, SyncInv, ViewInv, MirrorNext
    PROVE  ViewInv'
<1> USE DEF view, counted
<1> SUFFICES ASSUME isOpen', isReady', signature' # NoSignature, Unclosed(1)'
             PROVE  ViewInv'
    BY DEF ViewInv
<1>1. ASSUME UNCHANGED <<toWindow, toMain, shown, pending, sent, signature>>,
             isOpen /\ isReady, Unclosed(1)
      PROVE  ViewInv'
  <2>1. Coming' = Coming /\ \A k \in 1 .. Coming : Message(k)' = Message(k)
      BY <1>1 DEF Coming, Message
  <2>2. \A doc \in Documents : Shows(doc) => Shows(doc)'
      BY <1>1 DEF Shows, Typed
  <2> QED BY <1>1, <2>1, <2>2, ViewStands
<1>2. ASSUME NEW m, toMain' = Append(toMain, m), UNCHANGED <<toWindow>>
      PROVE  /\ Coming' = Coming + 1 /\ \A k \in 1 .. Coming : Message(k)' = Message(k)
             /\ \A k \in Nat : k = Coming + 1 => Message(k)' = m
  <2>1. /\ Len(toWindow) \in Nat /\ Len(toMain) \in Nat /\ Coming = Len(toWindow) + Len(toMain)
        /\ Len(toMain') = Len(toMain) + 1 /\ toMain'[Len(toMain) + 1] = m
        /\ \A k \in 1 .. Len(toMain) : toMain'[k] = toMain[k]
      BY <1>2, ComingFacts DEF MirrorTypes
  <2>2. Coming' = Coming + 1
      BY <1>2, <2>1 DEF Coming
  <2>3. \A k \in 1 .. Coming : Message(k)' = Message(k)
      BY <1>2, <2>1 DEF Message
  <2>4. \A k \in Nat : k = Coming + 1 => Message(k)' = m
      BY <1>2, <2>1 DEF Message
  <2> QED BY <2>2, <2>3, <2>4
<1>3. CASE Flush
  <2>1. /\ isOpen /\ isReady /\ UNCHANGED <<toWindow, toRenderer, shown, pending>>
        /\ toMain' = Append(toMain, [type |-> "sync", state |-> Capture])
        /\ sent' = Description
      BY <1>3 DEF Flush
  <2>2. Unclosed(1)
      BY <2>1 DEF Unclosed
  <2>3. /\ signature = NoSignature => \A doc \in Documents : Replayed(doc, Capture) = Description
        /\ signature # NoSignature => Replayed(sent, Capture) = Description
      BY CaptureFacts DEF MirrorTypes
  <2>4. PICK m, d : m = [type |-> "sync", state |-> Capture] /\ d = Description
      OBVIOUS
  <2>5. m.type = "sync" /\ m.state = Capture
      BY <2>4
  <2>6. d \in Documents /\ sent' = d
      BY <2>1, <2>4, DescriptionFacts DEF MirrorTypes, OwnerTypes
  <2>7. /\ Coming' = Coming + 1 /\ \A k \in 1 .. Coming : Message(k)' = Message(k)
        /\ \A k \in Nat : k = Coming + 1 => Message(k)' = m
      BY <1>2, <2>1, <2>4
  <2>8. CASE signature # NoSignature
    <3>1. Follows(m, sent, sent')
        BY <2>1, <2>3, <2>5, <2>8 DEF Follows
    <3> QED BY <2>1, <2>2, <2>6, <2>7, <2>8, <3>1, ViewGrows
  <2>9. CASE signature = NoSignature
    <3>1. PICK n : n = Coming
        OBVIOUS
    <3>2. n \in Nat
        BY <3>1, ComingFacts
    <3> DEFINE chain == [k \in 0 .. n + 1 |-> d]
    <3>3. n + 1 \in 0 .. Coming' /\ chain \in [0 .. Coming' -> Documents] /\ chain[n + 1] = d
          /\ n + 1 > 0 /\ Coming' = n + 1 /\ (n + 1) + 1 .. n + 1 = {}
        BY <2>6, <2>7, <3>1, <3>2
    <3>4. n + 1 \in Nat /\ n + 1 = Coming + 1
        BY <3>1, <3>2
    <3>5. PICK i : i = n + 1
        OBVIOUS
    <3>6. Message(i)' = m
        BY <2>7, <3>4, <3>5
    <3>7. \A doc \in Documents : Follows(m, doc, d)
        BY <2>3, <2>4, <2>5, <2>9 DEF Follows
    <3> HIDE DEF chain
    <3>8. IsView(i, chain)'
        BY <2>5, <2>6, <3>3, <3>5, <3>6, <3>7 DEF IsView, Follows
    <3> QED BY <3>8 DEF ViewInv
  <2> QED BY <2>8, <2>9
<1>4. CASE OpenSettings
  <2>1. /\ isOpen /\ isReady /\ UNCHANGED <<sent, signature, toRenderer, toWindow, shown, pending>>
        /\ toMain' = Append(toMain, [type |-> "open"])
      BY <1>4 DEF OpenSettings
  <2>2. Unclosed(1)
      BY <2>1 DEF Unclosed
  <2>3. PICK m : m = [type |-> "open"]
      OBVIOUS
  <2>4. Follows(m, sent, sent') /\ sent' \in Documents
      BY <2>1, <2>3 DEF Follows, MirrorTypes, OwnerTypes
  <2>5. /\ Coming' = Coming + 1 /\ \A k \in 1 .. Coming : Message(k)' = Message(k)
        /\ \A k \in Nat : k = Coming + 1 => Message(k)' = m
      BY <1>2, <2>1, <2>3
  <2> QED BY <2>1, <2>2, <2>4, <2>5, ViewGrows
<1>5. CASE CloseSettings
    BY <1>5 DEF CloseSettings, Forgotten
<1>6. ASSUME NEW f \in Fields, NEW v \in Values, OwnerChanges(f, v)
      PROVE  ViewInv'
  <2>1. UNCHANGED <<toWindow, toMain, shown, pending, sent, signature, isOpen, isReady, toRenderer>>
      BY <1>6 DEF OwnerChanges
  <2>2. isOpen /\ isReady /\ Unclosed(1)
      BY <2>1 DEF Unclosed
  <2> QED BY <1>1, <2>1, <2>2
<1>7. ASSUME NEW on \in BOOLEAN, Lock(on)
      PROVE  ViewInv'
  <2>1. UNCHANGED <<toWindow, toMain, shown, pending, sent, signature, isOpen, isReady, toRenderer>>
      BY <1>7 DEF Lock
  <2>2. isOpen /\ isReady /\ Unclosed(1)
      BY <2>1 DEF Unclosed
  <2> QED BY <1>1, <2>1, <2>2
<1>8. CASE UserCloses \/ UserReverts \/ UserAsksToClose \/ WindowLoads
  <2>1. UNCHANGED <<toWindow, toMain, shown, pending, sent, signature, isOpen, isReady, toRenderer>>
      BY <1>8 DEF UserCloses, UserReverts, UserAsksToClose, WindowLoads, renderer
  <2>2. isOpen /\ isReady /\ Unclosed(1)
      BY <2>1 DEF Unclosed
  <2> QED BY <1>1, <2>1, <2>2
<1>9. CASE MainHearsWindow
  <2> DEFINE m == Head(fromWindow)
  <2>1. /\ UNCHANGED <<toWindow, toMain, shown, pending, sent, signature, isOpen, isReady>>
        /\ toRenderer' = Append(toRenderer, m) /\ fromWindow # <<>>
      BY <1>9 DEF MainHearsWindow, renderer
  <2>2. m \in News
    <3>1. m \in Word
        BY <2>1 DEF MirrorTypes
    <3> QED BY <3>1, MessageFacts
  <2> HIDE DEF m
  <2>3. Unclosed(1)
      BY <2>1, <2>2, AppendUnclosed
  <2> QED BY <1>1, <2>1, <2>3
<1>10. CASE RendererHears
  <2> DEFINE m == Head(toRenderer)
  <2>1. toRenderer # <<>> /\ toRenderer' = Tail(toRenderer) /\ UNCHANGED <<toWindow, shown, pending>>
      BY <1>10 DEF RendererHears
  <2>2. m = toRenderer[1] /\ DOMAIN toRenderer = 1 .. Len(toRenderer) /\ Len(toRenderer) \in Nat
      BY <2>1 DEF MirrorTypes
  <2>3. Unclosed(1 + 1)
      BY <2>1, TailUnclosed
  <2> HIDE DEF m
  <2>4. /\ m.type # "closed" /\ isOpen /\ isReady
        /\ UNCHANGED <<toMain, sent, signature>>
      BY <1>10 DEF RendererHears, HearReady, HearClosed, HearEdit, HearRevert, HearCloseRequest,
                   Forgotten, SourceReset, m
  <2>5. Unclosed(1)
      BY <2>2, <2>3, <2>4 DEF Unclosed
  <2> QED BY <1>1, <2>1, <2>4, <2>5
<1>11. CASE WindowClosed
  <2> DEFINE m == [type |-> "closed"]
  <2>1. toRenderer' = Append(toRenderer, m) /\ m \in News /\ m.type = "closed"
      BY <1>11, MessageFacts DEF WindowClosed
  <2> HIDE DEF m
  <2> QED BY <2>1, AppendUnclosed
<1>12. CASE ApplyState
  <2>1. UNCHANGED <<isOpen, isReady, signature, toRenderer>>
      BY <1>12 DEF ApplyState, renderer
  <2>2. isOpen /\ isReady /\ signature # NoSignature /\ Unclosed(1)
      BY <2>1 DEF Unclosed
  <2> QED BY <1>12, <2>2, ViewApplied
<1>13. ASSUME NEW f \in Fields, NEW v \in Values, UserEdits(f, v)
       PROVE  ViewInv'
  <2>1. UNCHANGED <<toWindow, toMain, sent, signature, isOpen, isReady, toRenderer>>
      BY <1>13 DEF UserEdits, renderer
  <2>2. isOpen /\ isReady /\ Unclosed(1)
      BY <2>1 DEF Unclosed
  <2>3. Coming' = Coming /\ \A k \in 1 .. Coming : Message(k)' = Message(k)
      BY <2>1 DEF Coming, Message
  <2>4. /\ DOMAIN shown' = DOMAIN shown /\ Control(f) \in DOMAIN shown
        /\ shown'[Control(f)].off = shown[Control(f)].off
        /\ \A n \in DOMAIN shown : n # Control(f) => shown'[n] = shown[n]
        /\ pending' = [pending EXCEPT ![f] = editRevision + 1]
      BY <1>13, EditFacts
  <2>5. pending \in [Fields -> Nat] /\ editRevision \in Nat
      BY DEF MirrorTypes
  <2>6. Typed(Control(f))'
    <3>1. pending'[f] > 0
        BY <2>4, <2>5
    <3> QED BY <3>1 DEF Typed, Control
  <2>7. \A n : Typed(n) => Typed(n)'
    <3>1. \A g \in Fields : pending[g] > 0 => pending'[g] > 0
        BY <2>4, <2>5
    <3> QED BY <3>1 DEF Typed
  <2>8. ASSUME NEW doc \in Documents, Shows(doc)
        PROVE  Shows(doc)'
    <3>1. /\ DOMAIN shown = DOMAIN doc
          /\ \A n \in DOMAIN doc : /\ shown[n].off = doc[n].off
                                   /\ ~ Typed(n) => shown[n] = doc[n]
        BY <2>8 DEF Shows
    <3>2. PICK c : c = Control(f)
        OBVIOUS
    <3>3. Typed(c)'
        BY <2>6, <3>2 DEF Control
    <3>4. ASSUME NEW n \in DOMAIN doc
          PROVE  shown'[n].off = doc[n].off /\ (~ Typed(n)' => shown'[n] = doc[n])
        BY <2>4, <2>7, <3>1, <3>2, <3>3, <3>4
    <3> QED BY <2>4, <3>1, <3>4 DEF Shows
  <2> QED BY <2>1, <2>2, <2>3, <2>8, ViewStands
<1>14. CASE MainHearsRenderer
  <2> DEFINE m == Head(toMain)
  <2>0. /\ toMain # <<>> /\ toMain' = Tail(toMain)
        /\ UNCHANGED <<shown, pending, sent, signature, isOpen, isReady, toRenderer>>
      BY <1>14 DEF MainHearsRenderer, renderer
  <2>1. /\ toMain # <<>> /\ toMain' = Tail(toMain) /\ m = toMain[1]
        /\ UNCHANGED <<shown, pending, sent, signature, isOpen, isReady, toRenderer>>
    <3>1. m = toMain[1]
        BY <2>0 DEF MirrorTypes
    <3> HIDE DEF m
    <3> QED BY <2>0, <3>1
  <2>2. isOpen /\ isReady /\ Unclosed(1)
      BY <2>1 DEF Unclosed
  <2>3. /\ Len(toWindow) \in Nat /\ Len(toMain) \in Nat \ {0} /\ Coming = Len(toWindow) + Len(toMain)
        /\ Len(toMain') = Len(toMain) - 1
        /\ \A k \in 1 .. Len(toMain) - 1 : toMain'[k] = toMain[k + 1]
      BY <2>1, ComingFacts DEF MirrorTypes
  <2> HIDE DEF m
  <2>4. CASE m.type = "sync"
    <3>1. window \in Visible
        BY <2>2 DEF WindowInv
    <3>2. toWindow' = Append(toWindow, m.state)
        BY <1>14, <2>4, <3>1 DEF MainHearsRenderer, Visible, m
    <3>3. m = [type |-> "sync", state |-> m.state]
      <4>1. m \in Order
          BY <2>1 DEF MirrorTypes
      <4> QED BY <2>4, <4>1 DEF Order
    <3>4. /\ Len(toWindow') = Len(toWindow) + 1 /\ toWindow'[Len(toWindow) + 1] = m.state
          /\ \A k \in 1 .. Len(toWindow) : toWindow'[k] = toWindow[k]
        BY <3>2 DEF MirrorTypes
    <3>5. Coming' = Coming
        BY <2>3, <3>4 DEF Coming
    <3>6. ASSUME NEW k \in 1 .. Coming
          PROVE  Message(k)' = Message(k)
      <4>1. CASE k <= Len(toWindow)
          BY <2>3, <3>4, <4>1 DEF Message
      <4>2. CASE k = Len(toWindow) + 1
          BY <2>1, <2>3, <3>3, <3>4, <4>2 DEF Message
      <4>3. CASE k > Len(toWindow) + 1
        <5>1. k - Len(toWindow') \in 1 .. Len(toMain) - 1 /\ (k - Len(toWindow')) + 1 = k - Len(toWindow)
            BY <2>3, <3>4, <4>3
        <5> QED BY <2>3, <3>4, <4>3, <5>1 DEF Message
      <4> QED BY <2>3, <4>1, <4>2, <4>3
    <3>7. \A doc \in Documents : Shows(doc) => Shows(doc)'
        BY <2>1 DEF Shows, Typed
    <3> QED BY <2>1, <2>2, <3>5, <3>6, <3>7, ViewStands
  <2>5. CASE m.type # "sync"
    <3>1. UNCHANGED toWindow
        BY <1>14, <2>5 DEF MainHearsRenderer, m
    <3>2. PICK p : p = Len(toWindow) + 1
        OBVIOUS
    <3>3. p \in 1 .. Coming /\ Coming' = Coming - 1
        BY <2>3, <3>1, <3>2 DEF Coming
    <3>4. Message(p) = m
        BY <2>1, <2>3, <3>2 DEF Message
    <3>5. \A k \in 1 .. p - 1 : Message(k)' = Message(k)
        BY <2>3, <3>1, <3>2 DEF Message
    <3>6. ASSUME NEW k \in p .. Coming - 1
          PROVE  Message(k)' = Message(k + 1)
      <4>1. /\ k - Len(toWindow) \in 1 .. Len(toMain) - 1 /\ (k - Len(toWindow)) + 1 = (k + 1) - Len(toWindow)
            /\ ~(k <= Len(toWindow)) /\ ~(k + 1 <= Len(toWindow))
          BY <2>3, <3>2
      <4> QED BY <2>3, <3>1, <4>1 DEF Message
    <3> QED BY <2>1, <2>2, <2>5, <3>3, <3>4, <3>5, <3>6, ViewSkips
  <2> QED BY <2>4, <2>5
<1> QED BY <1>3, <1>4, <1>5, <1>6, <1>7, <1>8, <1>9, <1>10, <1>11, <1>12, <1>13, <1>14
        DEF MirrorNext, Carry, Acts

-----------------------------------------------------------------------------
(* What is on its way to the renderer                                      *)

LEMMA TellingFacts ==
    ASSUME MirrorTypes
    PROVE  /\ Len(toRenderer) \in Nat /\ Len(fromWindow) \in Nat
           /\ Telling \in Nat /\ Telling = Len(toRenderer) + Len(fromWindow)
    BY DEF MirrorTypes, Telling

\* One more message has left the window.
LEMMA RecordGrows ==
    ASSUME MirrorTypes, EditsInv, NEW m, CarriesOut(m, made, made'), applied' = applied,
           Telling' = Telling + 1, \A k \in 1 .. Telling : Told(k)' = Told(k),
           \A k \in Nat : k = Telling + 1 => Told(k)' = m
    PROVE  EditsInv'
<1>1. PICK chain : IsRecord(chain)
    BY DEF EditsInv
<1>2. PICK n, d : n = Telling /\ d = made'
    OBVIOUS
<1>3. n \in Nat
    BY <1>2, TellingFacts
<1> DEFINE longer == [k \in 0 .. n + 1 |-> IF k <= n THEN chain[k] ELSE d]
<1>4. (\A k \in 0 .. n : longer[k] = chain[k]) /\ longer[n + 1] = d
    BY <1>3
<1> HIDE DEF longer
<1>5. longer[0] = applied'
    BY <1>1, <1>3, <1>4 DEF IsRecord
<1>6. ASSUME NEW k \in 1 .. n + 1
      PROVE  CarriesOut(Told(k)', longer[k - 1], longer[k])
  <2>1. CASE k = n + 1
    <3>1. k - 1 = n /\ n \in 0 .. n /\ k \in Nat /\ k = Telling + 1
        BY <1>2, <1>3, <2>1
    <3>2. longer[k - 1] = made /\ longer[k] = made' /\ Told(k)' = m
        BY <1>1, <1>2, <1>4, <2>1, <3>1 DEF IsRecord
    <3> QED BY <3>2
  <2>2. CASE k # n + 1
    <3>1. k \in 1 .. n /\ k \in 0 .. n /\ k - 1 \in 0 .. n
        BY <1>3, <1>6, <2>2
    <3>2. longer[k - 1] = chain[k - 1] /\ longer[k] = chain[k] /\ Told(k)' = Told(k)
        BY <1>2, <1>4, <3>1
    <3> QED BY <1>1, <1>2, <3>1, <3>2 DEF IsRecord
  <2> QED BY <2>1, <2>2
<1>7. Telling' = n + 1 /\ longer[n + 1] = made'
    BY <1>2, <1>4
<1>8. IsRecord(longer)'
    BY <1>5, <1>6, <1>7 DEF IsRecord, CarriesOut
<1> QED BY <1>8 DEF EditsInv

\* The renderer has heard the first message.
LEMMA RecordHeard ==
    ASSUME MirrorTypes, EditsInv, Telling > 0, CarriesOut(Told(1), applied, applied'), made' = made,
           Telling' = Telling - 1, \A k \in 1 .. Telling - 1 : Told(k)' = Told(k + 1)
    PROVE  EditsInv'
<1>1. PICK chain : IsRecord(chain)
    BY DEF EditsInv
<1>2. PICK n : n = Telling
    OBVIOUS
<1>3. n \in Nat \ {0}
    BY <1>2, TellingFacts
<1> DEFINE shorter == [k \in 0 .. n - 1 |-> chain[k + 1]]
<1>4. \A k \in 0 .. n - 1 : shorter[k] = chain[k + 1]
    BY <1>3
<1> HIDE DEF shorter
<1>5. shorter[0] = applied'
  <2>1. 1 \in 1 .. Telling /\ 1 - 1 = 0 /\ shorter[0] = chain[1]
      BY <1>2, <1>3, <1>4
  <2>2. CarriesOut(Told(1), chain[1 - 1], chain[1])
      BY <1>1, <2>1 DEF IsRecord
  <2> QED BY <1>1, <2>1, <2>2 DEF IsRecord, CarriesOut
<1>6. ASSUME NEW k \in 1 .. n - 1
      PROVE  CarriesOut(Told(k)', shorter[k - 1], shorter[k])
  <2>1. k + 1 \in 1 .. n /\ k \in 0 .. n - 1 /\ k - 1 \in 0 .. n - 1 /\ (k - 1) + 1 = k /\ (k + 1) - 1 = k
      BY <1>3
  <2>2. shorter[k - 1] = chain[k] /\ shorter[k] = chain[k + 1] /\ Told(k)' = Told(k + 1)
      BY <1>2, <1>4, <2>1
  <2>3. CarriesOut(Told(k + 1), chain[(k + 1) - 1], chain[k + 1])
      BY <1>1, <1>2, <2>1 DEF IsRecord
  <2> QED BY <2>1, <2>2, <2>3
<1>7. Telling' = n - 1 /\ shorter[n - 1] = made'
  <2>1. n - 1 \in 0 .. n - 1 /\ (n - 1) + 1 = n
      BY <1>3
  <2> QED BY <1>1, <1>2, <1>4, <2>1 DEF IsRecord
<1>8. IsRecord(shorter)'
    BY <1>5, <1>6, <1>7 DEF IsRecord, CarriesOut
<1> QED BY <1>8 DEF EditsInv

LEMMA EditsKept ==
    ASSUME MirrorTypes, EditsInv, MirrorNext
    PROVE  EditsInv'
<1> USE DEF view, counted
<1>1. UNCHANGED <<toRenderer, fromWindow, made, applied>> => EditsInv'
    BY DEF EditsInv, IsRecord, Telling, Told
<1>2. ASSUME NEW m \in Word, fromWindow' = Append(fromWindow, m), UNCHANGED <<toRenderer, applied>>,
             CarriesOut(m, made, made')
      PROVE  EditsInv'
  <2>1. /\ Len(toRenderer) \in Nat /\ Len(fromWindow) \in Nat /\ Telling = Len(toRenderer) + Len(fromWindow)
        /\ Len(fromWindow') = Len(fromWindow) + 1 /\ fromWindow'[Len(fromWindow) + 1] = m
        /\ \A k \in 1 .. Len(fromWindow) : fromWindow'[k] = fromWindow[k]
      BY <1>2, TellingFacts DEF MirrorTypes
  <2>2. Telling' = Telling + 1
      BY <1>2, <2>1 DEF Telling
  <2>3. \A k \in 1 .. Telling : Told(k)' = Told(k)
      BY <1>2, <2>1 DEF Told
  <2>4. \A k \in Nat : k = Telling + 1 => Told(k)' = m
      BY <1>2, <2>1 DEF Told
  <2> QED BY <1>2, <2>2, <2>3, <2>4, RecordGrows
<1>3. CASE Flush \/ OpenSettings \/ CloseSettings \/ UserCloses \/ MainHearsRenderer \/ ApplyState
    BY <1>1, <1>3 DEF Flush, OpenSettings, CloseSettings, UserCloses, MainHearsRenderer, ApplyState
<1>4. ASSUME NEW f \in Fields, NEW v \in Values, OwnerChanges(f, v) PROVE EditsInv'
    BY <1>1, <1>4 DEF OwnerChanges
<1>5. ASSUME NEW on \in BOOLEAN, Lock(on) PROVE EditsInv'
    BY <1>1, <1>5 DEF Lock
<1>6. ASSUME NEW f \in Fields, NEW v \in Values, UserEdits(f, v) PROVE EditsInv'
  <2>1. editRevision + 1 \in Nat
      BY DEF MirrorTypes
  <2>2. PICK m : m = Emitted(f, v, editRevision + 1)
      OBVIOUS
  <2>3. m \in Word /\ m.type = "edit" /\ m.field = f /\ m.value = v
      BY <2>1, <2>2, MessageFacts DEF Emitted
  <2>4. fromWindow' = Append(fromWindow, m) /\ made' = Append(made, <<f, v>>) /\ UNCHANGED <<toRenderer, applied>>
      BY <1>6, <2>2 DEF UserEdits
  <2> QED BY <1>2, <2>3, <2>4 DEF CarriesOut
<1>7. CASE UserReverts \/ UserAsksToClose \/ WindowLoads
  <2>1. \A t \in {"click", "close", "ready"} : [type |-> t] \in Word /\ [type |-> t].type # "edit"
      BY MessageFacts
  <2>2. PICK m \in Word : fromWindow' = Append(fromWindow, m) /\ m.type # "edit"
      BY <1>7, <2>1 DEF UserReverts, UserAsksToClose, WindowLoads
  <2>3. UNCHANGED <<toRenderer, applied, made>>
      BY <1>7 DEF UserReverts, UserAsksToClose, WindowLoads
  <2> QED BY <1>2, <2>2, <2>3 DEF CarriesOut
<1>8. CASE WindowClosed
  <2>1. PICK m : m = [type |-> "closed"]
      OBVIOUS
  <2>2. /\ fromWindow = <<>> /\ fromWindow' = <<>> /\ toRenderer' = Append(toRenderer, m)
        /\ UNCHANGED <<made, applied>> /\ m \in News /\ m.type # "edit"
      BY <1>8, <2>1, MessageFacts DEF WindowClosed
  <2>3. /\ Len(toRenderer') = Len(toRenderer) + 1 /\ Len(toRenderer) \in Nat
        /\ \A k \in 1 .. Len(toRenderer) : toRenderer'[k] = toRenderer[k]
        /\ toRenderer'[Len(toRenderer) + 1] = m
      BY <2>2 DEF MirrorTypes
  <2>4. Len(fromWindow) = 0 /\ Len(fromWindow') = 0
      BY <2>2
  <2>5. Telling = Len(toRenderer) /\ Telling' = Telling + 1
      BY <2>3, <2>4 DEF Telling
  <2>6. \A k \in 1 .. Telling : Told(k)' = Told(k)
      BY <2>3, <2>5 DEF Told
  <2>7. \A k \in Nat : k = Telling + 1 => Told(k)' = m
      BY <2>3, <2>5 DEF Told
  <2>8. CarriesOut(m, made, made')
      BY <2>2 DEF CarriesOut
  <2> QED BY <2>2, <2>5, <2>6, <2>7, <2>8, RecordGrows
<1>9. CASE MainHearsWindow
  <2>1. /\ fromWindow # <<>> /\ fromWindow' = Tail(fromWindow)
        /\ toRenderer' = Append(toRenderer, Head(fromWindow)) /\ UNCHANGED <<made, applied>>
      BY <1>9 DEF MainHearsWindow
  <2>2. /\ Len(fromWindow) \in Nat \ {0} /\ Len(fromWindow') = Len(fromWindow) - 1
        /\ Head(fromWindow) = fromWindow[1]
        /\ \A k \in 1 .. Len(fromWindow) - 1 : fromWindow'[k] = fromWindow[k + 1]
      BY <2>1 DEF MirrorTypes
  <2>3. /\ Len(toRenderer') = Len(toRenderer) + 1 /\ Len(toRenderer) \in Nat
        /\ \A k \in 1 .. Len(toRenderer) : toRenderer'[k] = toRenderer[k]
        /\ toRenderer'[Len(toRenderer) + 1] = fromWindow[1]
    <3>1. Head(fromWindow) \in News
      <4>1. Head(fromWindow) \in Word
          BY <2>1 DEF MirrorTypes
      <4> QED BY <4>1, MessageFacts
    <3> QED BY <2>1, <2>2, <3>1 DEF MirrorTypes
  <2>4. Telling' = Telling
      BY <2>2, <2>3 DEF Telling
  <2>5. ASSUME NEW k \in 1 .. Telling
        PROVE  Told(k)' = Told(k)
    <3>1. Telling = Len(toRenderer) + Len(fromWindow)
        BY DEF Telling
    <3>2. CASE k <= Len(toRenderer)
        BY <2>3, <3>2 DEF Told
    <3>3. CASE k = Len(toRenderer) + 1
        BY <2>2, <2>3, <3>3 DEF Told
    <3>4. CASE k > Len(toRenderer) + 1
      <4>1. k - Len(toRenderer') \in 1 .. Len(fromWindow) - 1 /\ (k - Len(toRenderer')) + 1 = k - Len(toRenderer)
          BY <2>2, <2>3, <3>1, <3>4
      <4> QED BY <2>2, <2>3, <3>4, <4>1 DEF Told
    <3> QED BY <2>3, <3>2, <3>3, <3>4
  <2> QED BY <2>1, <2>4, <2>5 DEF EditsInv, IsRecord
<1>10. CASE RendererHears
  <2> DEFINE m == Head(toRenderer)
  <2>1. /\ toRenderer # <<>> /\ toRenderer' = Tail(toRenderer) /\ UNCHANGED <<fromWindow, made>>
      BY <1>10 DEF RendererHears
  <2>2. m = toRenderer[1]
      BY <2>1 DEF MirrorTypes
  <2>3. /\ Len(toRenderer) \in Nat \ {0} /\ Len(toRenderer') = Len(toRenderer) - 1
        /\ \A k \in 1 .. Len(toRenderer) - 1 : toRenderer'[k] = toRenderer[k + 1]
      BY <2>1 DEF MirrorTypes
  <2> HIDE DEF m
  <2>4. Telling > 0 /\ Telling = Len(toRenderer) + Len(fromWindow) /\ Telling' = Telling - 1
        /\ Len(fromWindow) \in Nat
      BY <2>1, <2>3, TellingFacts DEF Telling
  <2>5. Told(1) = m
      BY <2>2, <2>3 DEF Told
  <2>6. CarriesOut(m, applied, applied')
      BY <1>10 DEF RendererHears, HearReady, HearClosed, HearEdit, HearRevert, HearCloseRequest, CarriesOut, m
  <2>7. ASSUME NEW k \in 1 .. Telling - 1
        PROVE  Told(k)' = Told(k + 1)
    <3>1. CASE k <= Len(toRenderer) - 1
        BY <2>3, <3>1 DEF Told
    <3>2. CASE k > Len(toRenderer) - 1
      <4>1. ~(k <= Len(toRenderer')) /\ ~(k + 1 <= Len(toRenderer)) /\ k - Len(toRenderer') = (k + 1) - Len(toRenderer)
          BY <2>3, <3>2
      <4> QED BY <2>1, <4>1 DEF Told
    <3> QED BY <2>3, <3>1, <3>2
  <2> QED BY <2>1, <2>4, <2>5, <2>6, <2>7, RecordHeard
<1> QED BY <1>3, <1>4, <1>5, <1>6, <1>7, <1>8, <1>9, <1>10 DEF MirrorNext, Carry, Acts

LEMMA MirrorInvKept == MirrorInv /\ [MirrorNext]_mirrorVars => MirrorInv'
<1>1. ASSUME MirrorInv, MirrorNext PROVE MirrorInv'
  <2>1. MirrorTypes /\ SentInv /\ WindowInv /\ SyncInv /\ TypingInv /\ ViewInv /\ EditsInv
      BY <1>1 DEF MirrorInv
  <2> QED BY <1>1, <2>1, TypesKept, WindowKept, SyncKept, TypingKept, ViewKept, EditsKept DEF MirrorInv
<1>2. ASSUME MirrorInv, UNCHANGED mirrorVars PROVE MirrorInv'
  <2>1. /\ UNCHANGED <<setting, locked, snapshot, signature, sent, isOpen, isReady, syncQueued, frames, ackRevision>>
        /\ UNCHANGED <<window, toMain, toRenderer, fromWindow, toWindow, shown, pending, editRevision>>
        /\ UNCHANGED <<made, applied, acts>>
      BY <1>2 DEF mirrorVars, renderer, view, counted
  <2>2. Description' = Description /\ Signature(setting)' = Signature(setting)
      BY <2>1 DEF Description, Signature, Changed
  <2>3. MirrorTypes' /\ SentInv' /\ SyncInv' /\ TypingInv'
      BY <1>2, <2>1, <2>2 DEF MirrorInv, MirrorTypes, OwnerTypes, SentInv, SyncInv, TypingInv
  <2>4. WindowInv'
      BY <1>2, <2>1 DEF MirrorInv, WindowInv, Unclosed
  <2>5. EditsInv'
      BY <1>2, <2>1 DEF MirrorInv, EditsInv, IsRecord, Telling, Told
  <2>6. ViewInv'
    <3>1. Coming' = Coming /\ \A k \in 1 .. Coming : Message(k)' = Message(k)
        BY <2>1 DEF Coming, Message
    <3>2. \A doc \in Documents : Shows(doc) => Shows(doc)'
        BY <2>1 DEF Shows, Typed
    <3>3. Unclosed(1)' => Unclosed(1)
        BY <2>1 DEF Unclosed
    <3> QED BY <1>2, <2>1, <3>1, <3>2, <3>3, ViewStands DEF MirrorInv
  <2> QED BY <2>3, <2>4, <2>5, <2>6 DEF MirrorInv
<1> QED BY <1>1, <1>2

-----------------------------------------------------------------------------
(* What is carried out of what is on its way                               *)

LEMMA Induction ==
    ASSUME NEW S, 0 \in S, \A n \in Nat : n \in S => n + 1 \in S
    PROVE  Nat \subseteq S
<1> DEFINE Less == OpToRel(<, Nat)
           Rest == {n \in Nat : n \notin S}
<1>1. IsWellFoundedOn(Less, Nat)
    BY NatLessThanWellFounded
<1>2. \A m, n \in Nat : m < n => <<m, n>> \in Less
    BY DEF OpToRel
<1>3. SUFFICES ASSUME Rest # {} PROVE FALSE
    OBVIOUS
<1>4. PICK n \in Rest : \A m \in Rest : <<m, n>> \notin Less
    <2> HIDE DEF Less
    <2> QED BY <1>1, <1>3, WFMin
<1> HIDE DEF Less
<1>5. n \in Nat /\ n \notin S /\ n # 0
    BY <1>4
<1>6. n - 1 \in Nat /\ n - 1 < n
    BY <1>5
<1>7. n - 1 \notin Rest
    BY <1>2, <1>4, <1>5, <1>6
<1>8. (n - 1) + 1 = n
    BY <1>5
<1> QED BY <1>5, <1>6, <1>7, <1>8

\* The function of EditsArriveInOrder.
Done ==
    CHOOSE done : done = [k \in 0 .. Len(OnTheWay) |->
        IF k = 0 THEN applied
        ELSE LET m == OnTheWay[k] IN
             IF m.type = "edit" THEN Append(done[k - 1], <<m.field, m.value>>) ELSE done[k - 1]]

LEMMA DoneIsMade ==
    ASSUME MirrorTypes, EditsInv
    PROVE  EditsArriveInOrder
<1>1. SUFFICES Done[Len(OnTheWay)] = made
    BY DEF EditsArriveInOrder, Done
<1> DEFINE link(k, before) == IF OnTheWay[k].type = "edit"
                              THEN Append(before, <<OnTheWay[k].field, OnTheWay[k].value>>) ELSE before
           F(f) == [k \in 0 .. Len(OnTheWay) |-> IF k = 0 THEN applied ELSE link(k, f[k - 1])]
<1>2. /\ Len(OnTheWay) = Telling /\ Telling \in Nat
      /\ \A k \in 1 .. Telling : OnTheWay[k] = Told(k)
  <2>1. toRenderer \in Seq(News) /\ fromWindow \in Seq(News)
    <3>1. \A i \in 1 .. Len(fromWindow) : fromWindow[i] \in News
        BY MessageFacts DEF MirrorTypes
    <3> QED BY <3>1 DEF MirrorTypes
  <2>2. /\ Len(OnTheWay) = Len(toRenderer) + Len(fromWindow)
        /\ \A k \in 1 .. Len(toRenderer) + Len(fromWindow) :
               OnTheWay[k] = IF k <= Len(toRenderer) THEN toRenderer[k] ELSE fromWindow[k - Len(toRenderer)]
      BY <2>1, ConcatProperties DEF OnTheWay
  <2> QED BY <2>2, TellingFacts DEF Told
<1>3. PICK n : n = Telling
    OBVIOUS
<1>4. n \in Nat /\ n = Len(OnTheWay)
    BY <1>2, <1>3
<1>5. PICK chain : IsRecord(chain)
    BY DEF EditsInv
<1>6. chain[0] = applied /\ chain[n] = made /\ \A k \in 1 .. n : chain[k] = link(k, chain[k - 1])
    BY <1>2, <1>3, <1>5 DEF IsRecord, CarriesOut
<1> HIDE DEF link
<1> DEFINE g == [k \in 0 .. n |-> chain[k]]
<1>7. g = F(g)
  <2>1. ASSUME NEW k \in 0 .. n
        PROVE  g[k] = F(g)[k]
    <3>1. CASE k = 0
        BY <1>4, <1>6, <3>1
    <3>2. CASE k # 0
      <4>1. k \in 1 .. n /\ k - 1 \in 0 .. n
          BY <1>4, <3>2
      <4>2. g[k] = chain[k] /\ g[k - 1] = chain[k - 1]
          BY <4>1
      <4> HIDE DEF g
      <4> QED BY <1>4, <1>6, <3>2, <4>1, <4>2
    <3> QED BY <3>1, <3>2
  <2> QED BY <1>4, <2>1
<1>8. Done = F(Done)
  <2>1. \E f : f = F(f)
    <3> HIDE DEF g
    <3> QED BY <1>7
  <2> QED BY <2>1 DEF Done, link
<1> HIDE DEF g
<1>9. Done[0] = applied /\ \A k \in 1 .. n : Done[k] = link(k, Done[k - 1])
  <2> DEFINE u == Done
  <2>1. \A k \in 0 .. n : u[k] = IF k = 0 THEN applied ELSE link(k, u[k - 1])
      BY <1>4, <1>8
  <2> HIDE DEF u
  <2>2. 0 \in 0 .. n /\ \A k \in 1 .. n : k \in 0 .. n /\ k # 0
      BY <1>4
  <2>3. u[0] = applied /\ \A k \in 1 .. n : u[k] = link(k, u[k - 1])
      BY <2>1, <2>2
  <2> QED BY <2>3 DEF u
<1> DEFINE S == {k \in Nat : k <= n => Done[k] = chain[k]}
<1>10. 0 \in S
    BY <1>6, <1>9
<1>11. ASSUME NEW k \in Nat, k \in S
       PROVE  k + 1 \in S
  <2>1. CASE k + 1 <= n
    <3>1. k + 1 \in 1 .. n /\ (k + 1) - 1 = k /\ k <= n
        BY <1>4, <2>1
    <3>2. Done[k] = chain[k]
        BY <1>11, <3>1
    <3>3. Done[k + 1] = chain[k + 1]
        BY <1>6, <1>9, <3>1, <3>2
    <3> QED BY <3>3
  <2>2. CASE ~(k + 1 <= n)
      BY <2>2
  <2> QED BY <2>1, <2>2
<1> HIDE DEF S
<1>12. n \in S
    BY <1>4, <1>10, <1>11, Induction
<1> QED BY <1>4, <1>6, <1>12 DEF S

-----------------------------------------------------------------------------
(* Where the window stands                                                 *)

Interval == [at : Int, size : Nat \ {0}]

\* resolveWindowBounds answers bounds inside the work area it is given, and leaves
\* bounds that fit alone.
LEMMA ResolveFits ==
  ASSUME NEW b \in Interval \cup {NoBounds}, NEW a \in Interval
  PROVE  /\ Resolve(b, a) \in Interval
         /\ Within(Resolve(b, a), a)
         /\ b # NoBounds /\ Within(b, a) /\ b.size >= Smaller(MinSize, a.size) => Resolve(b, a) = b
<1> DEFINE requested == IF b = NoBounds THEN DefaultSize ELSE b.size
           size == Clamp(requested, Smaller(MinSize, a.size), a.size)
           wanted == IF b = NoBounds THEN Parent.at + HalfRounded(Parent.size - size) ELSE b.at
           at == Clamp(wanted, a.at, a.at + a.size - size)
<1>1. Resolve(b, a) = [at |-> at, size |-> size]
  BY DEF Resolve
<1>2. a.at \in Int /\ a.size \in Nat \ {0} /\ MinSize \in Nat \ {0} /\ requested \in Nat \ {0}
  BY SizesAssumption DEF Interval
<1>3. size \in Nat \ {0} /\ size <= a.size
  <2> HIDE DEF requested
  <2> QED BY <1>2 DEF Clamp, Smaller, Larger
<1>4. wanted \in Int
  <2>1. Parent.at \in Int /\ Parent.size \in Int /\ (b # NoBounds => b.at \in Int)
    BY SizesAssumption DEF Interval
  <2> HIDE DEF size
  <2> QED BY <1>3, <2>1 DEF HalfRounded
<1>5. at \in Int /\ a.at <= at /\ at + size <= a.at + a.size
  <2> HIDE DEF size, wanted
  <2> QED BY <1>2, <1>3, <1>4 DEF Clamp, Smaller, Larger
<1>6. ASSUME b # NoBounds, Within(b, a), b.size >= Smaller(MinSize, a.size)
      PROVE  at = b.at /\ size = b.size
  <2>1. b \in Interval /\ requested = b.size /\ wanted = b.at /\ b.at \in Int /\ b.size \in Nat
    BY <1>6 DEF Interval
  <2>2. a.at <= b.at /\ b.at + b.size <= a.at + a.size
    BY <1>6 DEF Within
  <2>3. size = b.size
    <3> HIDE DEF requested
    <3> QED BY <1>2, <1>6, <2>1, <2>2 DEF Clamp, Smaller, Larger
  <2>4. at = b.at
    <3> HIDE DEF size, wanted
    <3> QED BY <1>2, <2>1, <2>2, <2>3 DEF Clamp, Smaller, Larger
  <2> QED BY <2>3, <2>4
<1>7. ASSUME b # NoBounds PROVE b = [at |-> b.at, size |-> b.size]
  BY <1>7 DEF Interval
<1> HIDE DEF at, size
<1> QED BY <1>1, <1>3, <1>5, <1>6, <1>7 DEF Interval, Within

\* What is saved of a closed window is where it was left.
BoundsInv ==
    /\ area \in Interval
    /\ {placed, saved, left.bounds} \subseteq Interval \cup {NoBounds}
    /\ timer \in BOOLEAN
    /\ placed = NoBounds /\ left.bounds # NoBounds => saved = left.bounds

LEMMA BoundsInvKept == BoundsInv /\ [BoundsNext]_boundsVars => BoundsInv'
<1> SUFFICES ASSUME BoundsInv, [BoundsNext]_boundsVars PROVE BoundsInv'
    OBVIOUS
<1>0. NoBounds \notin Interval
    BY DEF NoBounds, Interval
<1>1. CASE PlaceWindow
  <2>1. placed' \in Interval
      BY <1>1, ResolveFits DEF PlaceWindow, BoundsInv
  <2> QED BY <1>0, <1>1, <2>1 DEF PlaceWindow, BoundsInv
<1>2. ASSUME NEW at \in Positions, NEW size \in Sizes, MoveWindow(at, size) PROVE BoundsInv'
  <2>1. placed' \in Interval
      BY <1>2, SizesAssumption DEF MoveWindow, Interval
  <2> QED BY <1>0, <1>2, <2>1 DEF MoveWindow, BoundsInv
<1>3. CASE PersistBounds
    BY <1>3 DEF PersistBounds, BoundsInv
<1>4. CASE LeaveWindow
    BY <1>4 DEF LeaveWindow, BoundsInv
<1>5. ASSUME NEW a \in Areas, ChangeDisplay(a) PROVE BoundsInv'
    BY <1>5, SizesAssumption DEF ChangeDisplay, BoundsInv, Interval
<1>6. CASE UNCHANGED boundsVars
    BY <1>6 DEF boundsVars, BoundsInv
<1> QED BY <1>1, <1>2, <1>3, <1>4, <1>5, <1>6 DEF BoundsNext

-----------------------------------------------------------------------------
(* The window as a whole                                                   *)

Inv == MirrorInv /\ BoundsInv

LEMMA Invariance == Spec => []Inv
<1>1. Init => Inv
  <2>1. ASSUME BoundsInit PROVE BoundsInv
    <3>1. area \in Interval
        BY <2>1, SizesAssumption DEF BoundsInit, Interval
    <3>2. {placed, saved, left.bounds} = {NoBounds} /\ timer = FALSE
        BY <2>1 DEF BoundsInit
    <3> QED BY <3>1, <3>2 DEF BoundsInv
  <2> QED BY <2>1, MirrorInvInit DEF Init, Inv
<1>2. Inv /\ [Next]_vars => Inv'
    BY MirrorInvKept, BoundsInvKept DEF Next, vars, Inv
<1> QED BY <1>1, <1>2, PTL DEF Spec

\* The window is a faithful mirror (protocol-settings-mirror.js, the relays of
\* protocol-settings-window-manager.js, and both ends of them): for every number of
\* fields and values, however often it is opened, closed, edited and reverted on
\* either side while messages are on their way.
THEOREM MirrorKeepsFaith == Spec => []MirrorIsFaithful
<1>1. Inv => MirrorIsFaithful
  <2> SUFFICES ASSUME Inv PROVE MirrorIsFaithful
      OBVIOUS
  <2>0. MirrorTypes /\ SentInv /\ WindowInv /\ SyncInv /\ TypingInv /\ ViewInv /\ EditsInv /\ BoundsInv
      BY DEF Inv, MirrorInv
  <2>1. TypeOK
    <3>1. placed \in [at : Int, size : Nat] /\ saved \in [at : Int, size : Nat] /\ timer \in BOOLEAN
      <4>1. Interval \cup {NoBounds} \subseteq [at : Int, size : Nat]
          BY DEF Interval, NoBounds
      <4> QED BY <2>0, <4>1 DEF BoundsInv
    <3>2. editRevision \in 0 .. MaxActs /\ pending \in [Fields -> 0 .. MaxActs]
      <4>1. acts \in 0 .. MaxActs /\ editRevision \in 0 .. acts /\ pending \in [Fields -> 0 .. editRevision]
          BY <2>0 DEF MirrorTypes
      <4>2. editRevision \in 0 .. MaxActs /\ 0 .. editRevision \subseteq 0 .. MaxActs
          BY <4>1, DefaultAssumption
      <4> QED BY <4>1, <4>2
    <3>3. {isOpen, isReady, syncQueued, timer} \subseteq BOOLEAN
        BY <2>0, <3>1 DEF MirrorTypes
    <3> QED BY <2>0, <3>1, <3>2, <3>3 DEF TypeOK, MirrorTypes, OwnerTypes
  <2>2. UneditedIsCurrent
    <3> SUFFICES ASSUME Quiet, Served
                 PROVE  /\ DOMAIN shown = DOMAIN Description
                        /\ \A n \in DOMAIN Description :
                               /\ shown[n].off = Description[n].off
                               /\ (n[1] # "control" \/ pending[n[2]] = 0) => shown[n] = Description[n]
        BY DEF UneditedIsCurrent
    <3>1. isOpen /\ isReady /\ frames = 0 /\ toRenderer = <<>> /\ toMain = <<>> /\ toWindow = <<>>
        BY DEF Quiet, Served
    <3>2. sent = Description /\ signature = Signature(setting)
        BY <2>0, <3>1 DEF SyncInv, MirrorTypes
    <3>3. signature # NoSignature
        BY <2>0, <3>2, CaptureFacts DEF MirrorTypes
    <3>4. Unclosed(1)
        BY <3>1 DEF Unclosed
    <3>5. PICK i, chain : IsView(i, chain)
        BY <2>0, <3>1, <3>3, <3>4 DEF ViewInv
    <3>6. Coming = 0
        BY <3>1 DEF Coming
    <3>7. Shows(Description)
        BY <3>2, <3>5, <3>6 DEF IsView
    <3>8. \A n : Typed(n) => n[1] = "control" /\ pending[n[2]] # 0
        BY NodeFacts DEF Typed
    <3> QED BY <3>7, <3>8 DEF Shows
  <2>3. TypingIsKept
      BY <2>0 DEF TypingInv, TypingIsKept, ValueShown
  <2>4. EditsArriveInOrder
      BY <2>0, DoneIsMade
  <2> QED BY <2>1, <2>2, <2>3, <2>4 DEF MirrorIsFaithful
<1> QED BY <1>1, Invariance, PTL

\* The window opens inside the work area, and where it was left when it fits there
\* (resolveWindowBounds, persistBounds and the 'close' handler): for every display,
\* every bounds and every moment the window is closed at.
THEOREM OpensInPlace == Spec => OpensWhereItWasLeft
<1> DEFINE Opening == (placed = NoBounds /\ placed' # NoBounds) =>
             /\ Within(placed', area)
             /\ (left.bounds # NoBounds /\ Within(left.bounds, area)
                 /\ left.bounds.size >= Smaller(MinSize, area.size)) => placed' = left.bounds
<1>1. Inv /\ [Next]_vars => [Opening]_boundsVars
  <2> SUFFICES ASSUME Inv, [Next]_vars, placed = NoBounds, placed' # NoBounds
               PROVE  Opening
      OBVIOUS
  <2>1. PlaceWindow
      BY DEF Next, vars, BoundsNext, MoveWindow, PersistBounds, LeaveWindow, ChangeDisplay, boundsVars
  <2>2. BoundsInv /\ (left.bounds # NoBounds => saved = left.bounds)
      BY DEF Inv, BoundsInv
  <2> QED BY <2>1, <2>2, ResolveFits DEF PlaceWindow, BoundsInv
<1> QED BY <1>1, Invariance, PTL DEF OpensWhereItWasLeft, Spec
=============================================================================
