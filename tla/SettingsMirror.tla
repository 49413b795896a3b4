--------------------------- MODULE SettingsMirror ---------------------------
(***************************************************************************)
(* The detached Protocol Settings window: the main renderer owns every     *)
(* field (src/src/renderer.js), protocol-settings-mirror.js describes the  *)
(* document and replays the description, protocol-settings-window.js shows *)
(* it and reports what the user does, protocol-settings-window-manager.js  *)
(* carries both ways in the main process.  The two documents are joined by *)
(* four first-in first-out channels, so each can be acting on a state the  *)
(* other has already left.                                                 *)
(*                                                                         *)
(* A document is a function from its nodes to what the mirror describes of *)
(* them: one node per field, one for the Revert button, and one summary    *)
(* row per field that is not at its default (rows come and go, which is    *)
(* what a structural patch is for).                                        *)
(***************************************************************************)
EXTENDS Integers, Sequences, FiniteSets, SequencesExt, FiniteSetsExt

CONSTANTS
  Fields,       \* the editable controls of the dialog
  Values,       \* what a control can hold
  Default,      \* what the page's own markup holds
  MaxActs       \* bound: what the user does, in either document

ASSUME DefaultAssumption == Default \in Values /\ MaxActs \in Nat

VARIABLES
  setting, locked,               \* the authoritative document
  snapshot,                      \* protocolSettingsOpenSnapshot
  signature, sent,               \* the mirror source's two caches
  isOpen, isReady, syncQueued,   \* the renderer's idea of the window
  frames,                        \* animation frames asked for and not yet run
  ackRevision,                   \* protocolSettingsAcknowledgedRevision
  window,                        \* settingsWindow of the main process
  toMain, toRenderer,            \* renderer -> main, main -> renderer
  fromWindow, toWindow,          \* window -> main, main -> window
  shown, pending, editRevision,  \* the window's document and its own edits
  made, applied,                 \* history: edits typed, edits carried out
  acts                           \* what MaxActs counts

renderer == <<setting, locked, snapshot, signature, sent, isOpen, isReady, syncQueued, frames, ackRevision>>
view     == <<shown, pending, editRevision>>
counted  == <<made, applied>>
mirrorVars == <<renderer, window, toMain, toRenderer, fromWindow, toWindow, view, counted, acts>>

----------------------------------------------------------------------------
(* The document and its description.                                       *)

Revert == "revert"

\* A row is a node of its own, beside the control it summarises.
Row(f) == <<"row", f>>

Control(f) == <<"control", f>>

Button == <<"button", Revert>>

Nodes == {Control(f) : f \in Fields} \cup {Row(f) : f \in Fields} \cup {Button}

Blank == [n \in {} |-> n]

NoSignature == {<<"none">>}

Entry(value, off) == [value |-> value, off |-> off]

\* hasProtocolSettingsChanges.
Changed(values, before) == \E f \in Fields : values[f] # before[f]

\* buildSignature looks at the shape only: here, which rows there are.
Signature(values) == {Row(f) : f \in {g \in Fields : values[g] # Default}}

\* serializeTree over the authoritative document, serializeElement per node.
Description ==
  [n \in {Control(f) : f \in Fields} \cup {Button} \cup Signature(setting) |->
     CASE n = Button -> Entry(Default, locked \/ ~Changed(setting, snapshot))
       [] n[1] = "row" -> Entry(setting[n[2]], FALSE)
       [] OTHER -> Entry(setting[n[2]], locked)]

\* The markup a patch carries: it has the rows and their text, and of a control
\* only what the page gave it, because a value typed is not an attribute.
Markup == [n \in DOMAIN Description |-> IF n[1] = "control" THEN Entry(Default, Description[n].off) ELSE Description[n]]

\* createProtocolSettingsSource().capture: the patches, then every entry the
\* window does not have. The first patch replaces all there is in the window, a
\* later one the rows; what was sent of the nodes it replaces is sent again.
Patched == IF signature = NoSignature THEN Nodes
           ELSE IF signature # Signature(setting) THEN {Row(f) : f \in Fields}
           ELSE {}

Known == {n \in DOMAIN sent : n \notin Patched}

Capture ==
  [patched |-> Patched,
   markup  |-> [n \in DOMAIN Description \cap Patched |-> Markup[n]],
   entries |-> [n \in {m \in DOMAIN Description : ~(m \in Known /\ sent[m] = Description[m])} |-> Description[n]],
   ack     |-> ackRevision]

\* protocolSettingsSource.reset
SourceReset == signature' = NoSignature /\ sent' = Blank

----------------------------------------------------------------------------
(* The renderer.                                                           *)

\* scheduleProtocolSettingsSync, asked with the renderer's flags as they become.
ScheduleSync ==
  IF isOpen' /\ isReady' /\ ~syncQueued
  THEN syncQueued' = TRUE /\ frames' = frames + 1
  ELSE UNCHANGED <<syncQueued, frames>>

\* The frame runs: flush clears the flag first and then asks whether the window
\* is still there, so a frame left over from an earlier window does no harm.
Flush ==
  /\ frames > 0
  /\ frames' = frames - 1
  /\ syncQueued' = FALSE
  /\ IF isOpen /\ isReady
     THEN /\ toMain' = Append(toMain, [type |-> "sync", state |-> Capture])
          /\ signature' = Signature(setting)
          /\ sent' = Description
     ELSE UNCHANGED <<toMain, signature, sent>>
  /\ UNCHANGED <<setting, locked, snapshot, isOpen, isReady, ackRevision, window, toRenderer,
                 fromWindow, toWindow, view, counted>>

\* openProtocolSettings: the first open takes the snapshot and forgets what an
\* earlier window was sent; main is asked to open or focus either way.
OpenSettings ==
  /\ toMain' = Append(toMain, [type |-> "open"])
  /\ IF isOpen THEN UNCHANGED <<snapshot, isOpen, isReady, signature, sent>>
     ELSE /\ snapshot' = setting
          /\ isOpen' = TRUE
          /\ isReady' = FALSE
          /\ SourceReset
  /\ ScheduleSync
  /\ UNCHANGED <<setting, locked, ackRevision, window, toRenderer, fromWindow, toWindow, view, counted>>

\* What closing leaves of the renderer's idea of the window.
Forgotten ==
  /\ isOpen' = FALSE
  /\ isReady' = FALSE
  /\ syncQueued' = FALSE
  /\ SourceReset

\* closeProtocolSettings from the footer or the shortcut of the main document.
CloseSettings ==
  /\ isOpen
  /\ Forgotten
  /\ toMain' = Append(toMain, [type |-> "close"])
  /\ UNCHANGED <<setting, locked, snapshot, frames, ackRevision, window, toRenderer, fromWindow,
                 toWindow, view, counted>>

\* A preset, or an edit of the inline controls, changes a field in the owner's
\* document; the observers schedule a sync.
OwnerChanges(f, v) ==
  /\ ~locked
  /\ setting[f] # v
  /\ setting' = [setting EXCEPT ![f] = v]
  /\ UNCHANGED <<isOpen, isReady>>
  /\ ScheduleSync
  /\ UNCHANGED <<locked, snapshot, signature, sent, ackRevision, window, toMain, toRenderer, fromWindow,
                 toWindow, view, counted>>

\* updateProtocolSettingsMode: every control is disabled from the moment a
\* connection is attempted until it has ended.
Lock(on) ==
  /\ locked # on
  /\ locked' = on
  /\ UNCHANGED <<isOpen, isReady>>
  /\ ScheduleSync
  /\ UNCHANGED <<setting, snapshot, signature, sent, ackRevision, window, toMain, toRenderer, fromWindow,
                 toWindow, view, counted>>

HearReadyUnscheduled ==
  /\ isReady' = TRUE
  /\ SourceReset
  /\ UNCHANGED <<isOpen, setting, snapshot, ackRevision, toMain, applied, syncQueued, frames>>

\* protocolSettingsHost.onReady
HearReady ==
  /\ isReady' = TRUE
  /\ SourceReset
  /\ UNCHANGED <<isOpen, setting, snapshot, ackRevision, toMain, applied>>
  /\ ScheduleSync

\* protocolSettingsHost.onClosed
HearClosed ==
  /\ IF isOpen THEN Forgotten ELSE UNCHANGED <<isOpen, isReady, syncQueued, signature, sent>>
  /\ UNCHANGED <<setting, snapshot, ackRevision, toMain, frames, applied>>

HearEditIfOpen(m) ==
  /\ setting' = IF isOpen THEN [setting EXCEPT ![m.field] = m.value] ELSE setting
  /\ ackRevision' = Max({ackRevision, m.revision})
  /\ applied' = IF isOpen THEN Append(applied, <<m.field, m.value>>) ELSE applied
  /\ UNCHANGED <<isOpen, isReady, snapshot, signature, sent, toMain>>
  /\ ScheduleSync

\* handleProtocolSettingsWindowEvent, an edit: it is acknowledged and replayed
\* on the control, whether or not the window is still open.
HearEdit(m) ==
  /\ setting' = [setting EXCEPT ![m.field] = m.value]
  /\ ackRevision' = Max({ackRevision, m.revision})
  /\ applied' = Append(applied, <<m.field, m.value>>)
  /\ UNCHANGED <<isOpen, isReady, snapshot, signature, sent, toMain>>
  /\ ScheduleSync

\* A press of Revert changes: revertProtocolSettings through restoreProtocolSettings,
\* unless the button is disabled here by now.
HearRevert ==
  /\ setting' = IF locked \/ ~Changed(setting, snapshot) THEN setting ELSE snapshot
  /\ UNCHANGED <<isOpen, isReady, snapshot, ackRevision, signature, sent, toMain, applied>>
  /\ ScheduleSync

\* A close asked for by the window itself (Escape, Done).
HearCloseRequest ==
  /\ IF isOpen THEN Forgotten /\ toMain' = Append(toMain, [type |-> "close"])
     ELSE UNCHANGED <<isOpen, isReady, syncQueued, signature, sent, toMain>>
  /\ UNCHANGED <<setting, snapshot, ackRevision, frames, applied>>

RendererHears ==
  /\ toRenderer # <<>>
  /\ toRenderer' = Tail(toRenderer)
  /\ LET m == Head(toRenderer) IN
       \/ m.type = "ready"  /\ HearReady
       \/ m.type = "closed" /\ HearClosed
       \/ m.type = "edit"   /\ HearEdit(m)
       \/ m.type = "click"  /\ HearRevert
       \/ m.type = "close"  /\ HearCloseRequest
  /\ UNCHANGED <<locked, window, fromWindow, toWindow, view, made>>

----------------------------------------------------------------------------
(* The main process: createProtocolSettingsWindowManager.                  *)

\* The handlers of the renderer's three channels. A window that is closing is
\* still there, so a new open only focuses it; a state sent to a page that has
\* not run its script yet finds no listener.
MainHearsRenderer ==
  /\ toMain # <<>>
  /\ toMain' = Tail(toMain)
  /\ LET m == Head(toMain) IN
       \/ /\ m.type = "open"
          /\ window' = IF window = "none" THEN "loading" ELSE window
          /\ UNCHANGED toWindow
       \/ /\ m.type = "close"
          /\ window' = IF window = "none" THEN "none" ELSE "closing"
          /\ UNCHANGED toWindow
       \/ /\ m.type = "sync"
          /\ toWindow' = IF window \in {"none", "loading"} THEN toWindow ELSE Append(toWindow, m.state)
          /\ UNCHANGED window
  /\ UNCHANGED <<renderer, toRenderer, fromWindow, view, counted>>

\* The handlers of the window's three channels: ready shows the window, the
\* rest is passed on.
MainHearsWindow ==
  /\ fromWindow # <<>>
  /\ fromWindow' = Tail(fromWindow)
  /\ toRenderer' = Append(toRenderer, Head(fromWindow))
  /\ window' = IF Head(fromWindow).type = "ready" /\ window = "loaded" THEN "shown" ELSE window
  /\ UNCHANGED <<renderer, toMain, toWindow, view, counted>>

\* The page has run its script, which ends by announcing itself.
WindowLoads ==
  /\ window = "loading"
  /\ window' = "loaded"
  /\ fromWindow' = Append(fromWindow, [type |-> "ready"])
  /\ UNCHANGED <<renderer, toMain, toRenderer, toWindow, view, counted>>

\* The user closes the window by its title bar.
UserCloses ==
  /\ window = "shown"
  /\ window' = "closing"
  /\ UNCHANGED <<renderer, toMain, toRenderer, fromWindow, toWindow, view, counted>>

\* 'closed': the window is gone with what was on its way to it; what it had
\* sent was received before its page was unloaded.
WindowClosed ==
  /\ window = "closing"
  /\ fromWindow = <<>>
  /\ window' = "none"
  /\ toRenderer' = Append(toRenderer, [type |-> "closed"])
  /\ toWindow' = <<>>
  /\ shown' = Blank
  /\ pending' = [f \in Fields |-> 0]
  /\ editRevision' = 0
  /\ UNCHANGED <<renderer, toMain, fromWindow, counted>>

----------------------------------------------------------------------------
(* The window.                                                             *)

\* applyProtocolSettingsPayload: the patches replace nodes, then the entries
\* are applied to the nodes there are.
Replayed(doc, state) ==
  LET kept == {n \in DOMAIN doc : n \notin state.patched}
      now  == kept \cup DOMAIN state.markup IN
    [n \in now |->
       IF n \in DOMAIN state.entries THEN state.entries[n]
       ELSE IF n \in DOMAIN state.markup THEN state.markup[n] ELSE doc[n]]

\* applyState: what is not acknowledged keeps the value the user gave it.
ApplyState ==
  /\ toWindow # <<>>
  /\ window # "none"
  /\ LET state == Head(toWindow)
         still == [f \in Fields |-> IF pending[f] <= state.ack THEN 0 ELSE pending[f]]
         doc   == Replayed(shown, state) IN
       /\ pending' = still
       /\ shown' = [n \in DOMAIN doc |->
                      IF n[1] = "control" /\ n \in DOMAIN shown /\ still[n[2]] > 0
                      THEN [doc[n] EXCEPT !.value = shown[n].value] ELSE doc[n]]
  /\ toWindow' = Tail(toWindow)
  /\ UNCHANGED <<renderer, window, toMain, toRenderer, fromWindow, editRevision, counted>>

\* The preload's emit copies the fields it knows; the revision is not one.
Emitted(f, v, revision) == [type |-> "edit", field |-> f, value |-> v, revision |-> 0]

\* reportValue: the edit is remembered as pending and reported.
UserEdits(f, v) ==
  /\ window \in {"shown", "closing"}
  /\ Control(f) \in DOMAIN shown
  /\ ~shown[Control(f)].off
  /\ shown[Control(f)].value # v
  /\ shown' = [shown EXCEPT ![Control(f)].value = v]
  /\ editRevision' = editRevision + 1
  /\ pending' = [pending EXCEPT ![f] = editRevision + 1]
  /\ fromWindow' = Append(fromWindow, Emitted(f, v, editRevision + 1))
  /\ made' = Append(made, <<f, v>>)
  /\ UNCHANGED <<renderer, window, toMain, toRenderer, toWindow, applied>>

\* The click listener: only a button that is not disabled in the window.
UserReverts ==
  /\ window \in {"shown", "closing"}
  /\ Button \in DOMAIN shown
  /\ ~shown[Button].off
  /\ fromWindow' = Append(fromWindow, [type |-> "click"])
  /\ UNCHANGED <<renderer, window, toMain, toRenderer, toWindow, view, counted>>

\* Escape: requestClose.
UserAsksToClose ==
  /\ window = "shown"
  /\ fromWindow' = Append(fromWindow, [type |-> "close"])
  /\ UNCHANGED <<renderer, window, toMain, toRenderer, toWindow, view, counted>>

----------------------------------------------------------------------------
MirrorInit ==
  /\ setting = [f \in Fields |-> Default]
  /\ locked = FALSE
  /\ snapshot = setting
  /\ signature = NoSignature
  /\ sent = Blank
  /\ isOpen = FALSE
  /\ isReady = FALSE
  /\ syncQueued = FALSE
  /\ frames = 0
  /\ ackRevision = 0
  /\ window = "none"
  /\ toMain = <<>>
  /\ toRenderer = <<>>
  /\ fromWindow = <<>>
  /\ toWindow = <<>>
  /\ shown = Blank
  /\ pending = [f \in Fields |-> 0]
  /\ editRevision = 0
  /\ made = <<>>
  /\ applied = <<>>
  /\ acts = 0

\* What the program and the channels do without being asked.
Carry == Flush \/ RendererHears \/ MainHearsRenderer \/ MainHearsWindow \/ WindowLoads \/ WindowClosed \/ ApplyState

\* What the user does.
Acts ==
  \/ OpenSettings
  \/ CloseSettings
  \/ \E f \in Fields, v \in Values : OwnerChanges(f, v)
  \/ \E on \in BOOLEAN : Lock(on)
  \/ UserCloses
  \/ \E f \in Fields, v \in Values : UserEdits(f, v)
  \/ UserReverts
  \/ UserAsksToClose

MirrorNext ==
  \/ Carry /\ UNCHANGED acts
  \/ acts < MaxActs /\ Acts /\ acts' = acts + 1

\* A frame runs, a message is delivered, a page loads and a closing window goes.
MirrorFairness ==
  /\ WF_mirrorVars(Flush /\ UNCHANGED acts)
  /\ WF_mirrorVars(RendererHears /\ UNCHANGED acts)
  /\ WF_mirrorVars(MainHearsRenderer /\ UNCHANGED acts)
  /\ WF_mirrorVars(MainHearsWindow /\ UNCHANGED acts)
  /\ WF_mirrorVars(WindowLoads /\ UNCHANGED acts)
  /\ WF_mirrorVars(WindowClosed /\ UNCHANGED acts)
  /\ WF_mirrorVars(ApplyState /\ UNCHANGED acts)
=============================================================================
