-------------------------- MODULE ProtocolSettings --------------------------
(***************************************************************************)
(* The detached Protocol Settings window as a whole: the mirroring of the  *)
(* document, and where the window stands - resolveWindowBounds of          *)
(* src/src/protocol-settings-window-manager.js and the bounds it saves in  *)
(* the application configuration.  The two share no variable, so a         *)
(* behaviour is of one or of the other, chosen when it starts.             *)
(*                                                                         *)
(* The two axes are treated alike, so one is modelled: a window is its     *)
(* position and its size on that axis, a display the origin and the size   *)
(* of its work area.                                                       *)
(***************************************************************************)
EXTENDS SettingsMirror

CONSTANTS
  Areas,          \* the work areas a display may offer: [at, size]
  Positions,      \* where the user may drag the window to
  Sizes,          \* what the user may resize it to
  MinSize,        \* MIN_WIDTH
  DefaultSize,    \* DEFAULT_WIDTH
  Parent,         \* the main window: [at, size]
  MaxMoves        \* bound: times the user moves or resizes the window

ASSUME SizesAssumption ==
  /\ MinSize \in Nat \ {0}
  /\ DefaultSize \in Nat \ {0}
  /\ Sizes \subseteq Nat \ {0}
  /\ Positions \subseteq Int
  /\ Areas \subseteq [at : Int, size : Nat \ {0}]
  /\ Parent \in [at : Int, size : Nat \ {0}]

VARIABLES
  area,      \* the work area of the display
  placed,    \* the bounds of the open window, or NoBounds
  saved,     \* appConfig.dialogSizes.protocolSettings, or NoBounds
  timer,     \* boundsSaveTimer
  left,      \* history: the bounds and the area the window last closed with
  moves      \* what MaxMoves counts

boundsVars == <<area, placed, saved, timer, left, moves>>

NoBounds == [at |-> 0, size |-> 0]

\* clamp: an upper limit below the lower one counts as the lower one.
Smaller(a, b) == IF a < b THEN a ELSE b

Larger(a, b) == IF a > b THEN a ELSE b

Clamp(value, minimum, maximum) == Smaller(Larger(value, minimum), Larger(minimum, maximum))

\* Math.round(n / 2): halves are rounded up.
HalfRounded(n) == (n + 1) \div 2

\* resolveWindowBounds: the saved bounds where there are any, the centre of the
\* main window otherwise, brought inside the work area.
Resolve(bounds, within) ==
  LET requested == IF bounds = NoBounds THEN DefaultSize ELSE bounds.size
      size      == Clamp(requested, Smaller(MinSize, within.size), within.size)
      centred   == Parent.at + HalfRounded(Parent.size - size)
      wanted    == IF bounds = NoBounds THEN centred ELSE bounds.at IN
    [at |-> Clamp(wanted, within.at, within.at + within.size - size), size |-> size]

\* open
PlaceWindow ==
  /\ placed = NoBounds
  /\ placed' = Resolve(saved, area)
  /\ UNCHANGED <<area, saved, timer, left, moves>>

\* 'resize' and 'move': the window keeps between its own limits, and a save is
\* put off by BOUNDS_SAVE_DELAY_MS.
MoveWindow(at, size) ==
  /\ placed # NoBounds
  /\ moves < MaxMoves
  /\ Smaller(MinSize, area.size) <= size
  /\ size <= area.size
  /\ placed' = [at |-> at, size |-> size]
  /\ timer' = TRUE
  /\ moves' = moves + 1
  /\ UNCHANGED <<area, saved, left>>

\* persistBounds on its timer.
PersistBounds ==
  /\ timer
  /\ timer' = FALSE
  /\ saved' = IF placed = NoBounds THEN saved ELSE placed
  /\ UNCHANGED <<area, placed, left, moves>>

LeaveUnsaved ==
  /\ placed # NoBounds
  /\ timer' = FALSE
  /\ placed' = NoBounds
  /\ left' = [bounds |-> placed, area |-> area]
  /\ UNCHANGED <<area, saved, moves>>

\* 'close' saves what a pending timer has not saved yet, 'closed' lets go.
LeaveWindow ==
  /\ placed # NoBounds
  /\ saved' = placed
  /\ timer' = FALSE
  /\ placed' = NoBounds
  /\ left' = [bounds |-> placed, area |-> area]
  /\ UNCHANGED <<area, moves>>

\* The display changes, or the application is started on another one, while the
\* window is closed.
ChangeDisplay(a) ==
  /\ placed = NoBounds
  /\ area # a
  /\ area' = a
  /\ UNCHANGED <<placed, saved, timer, left, moves>>

BoundsInit ==
  /\ area \in Areas
  /\ placed = NoBounds
  /\ saved = NoBounds
  /\ timer = FALSE
  /\ left = [bounds |-> NoBounds, area |-> area]
  /\ moves = 0

BoundsNext ==
  \/ PlaceWindow
  \/ \E at \in Positions, size \in Sizes : MoveWindow(at, size)
  \/ PersistBounds
  \/ LeaveWindow
  \/ \E a \in Areas : ChangeDisplay(a)

----------------------------------------------------------------------------
VARIABLE part   \* "mirror" or "bounds"

vars == <<part, mirrorVars, boundsVars>>

Init ==
  /\ part \in {"mirror", "bounds"}
  /\ MirrorInit
  /\ BoundsInit

Next ==
  \/ part = "mirror" /\ MirrorNext /\ UNCHANGED <<part, boundsVars>>
  \/ part = "bounds" /\ BoundsNext /\ UNCHANGED <<part, mirrorVars>>

Spec == Init /\ [][Next]_vars /\ MirrorFairness

----------------------------------------------------------------------------
Documents == UNION {[D -> [value : Values, off : BOOLEAN]] : D \in SUBSET Nodes}

TypeOK ==
  /\ setting \in [Fields -> Values]
  /\ snapshot \in [Fields -> Values]
  /\ locked \in BOOLEAN
  /\ sent \in Documents
  /\ shown \in Documents
  /\ {isOpen, isReady, syncQueued, timer} \subseteq BOOLEAN
  /\ frames \in Nat
  /\ ackRevision \in Nat
  /\ window \in {"none", "loading", "loaded", "shown", "closing"}
  /\ pending \in [Fields -> 0..MaxActs]
  /\ editRevision \in 0..MaxActs
  /\ placed \in [at : Int, size : Nat]
  /\ saved \in [at : Int, size : Nat]

\* Nothing is on its way between the two documents and no frame is due.
Quiet == toMain = <<>> /\ toRenderer = <<>> /\ fromWindow = <<>> /\ toWindow = <<>> /\ frames = 0

\* The window is on the screen, and the renderer knows that it is.
Served == isOpen /\ isReady /\ window = "shown"

ValueShown(f) == shown[Control(f)].value

\* Whenever everything has been delivered, a served window shows the authoritative
\* document: the same nodes, the same rows, the same controls enabled, and the same
\* value in every control the user has not typed into.
UneditedIsCurrent ==
  (Quiet /\ Served) =>
    /\ DOMAIN shown = DOMAIN Description
    /\ \A n \in DOMAIN Description :
         /\ shown[n].off = Description[n].off
         /\ (n[1] # "control" \/ pending[n[2]] = 0) => shown[n] = Description[n]

\* A state that left the renderer before an edit reached it never overwrites
\* what the user has typed.
TypingIsKept ==
  \A f \in Fields : pending[f] > 0 =>
    \E i \in 1..Len(made) :
      /\ made[i] = <<f, ValueShown(f)>>
      /\ \A j \in (i + 1)..Len(made) : made[j][1] # f

\* Every edit typed into the window is carried out once and in the order typed,
\* whoever closes or re-opens the window meanwhile: what has been carried out
\* and what is on its way make up what was typed.
OnTheWay == toRenderer \o fromWindow

EditsArriveInOrder ==
  LET done[k \in 0..Len(OnTheWay)] ==
        IF k = 0 THEN applied
        ELSE LET m == OnTheWay[k] IN
             IF m.type = "edit" THEN Append(done[k - 1], <<m.field, m.value>>) ELSE done[k - 1]
  IN  done[Len(OnTheWay)] = made

\* The window shows what is, keeps what is typed and loses nothing of it.
MirrorIsFaithful == TypeOK /\ UneditedIsCurrent /\ TypingIsKept /\ EditsArriveInOrder

Within(bounds, a) == a.at <= bounds.at /\ bounds.at + bounds.size <= a.at + a.size

\* A window opens entirely on its display, and on a display that still has room
\* for where it was left it opens exactly there, at the size it had - also when
\* it was closed before the delayed save of its last move.
OpensWhereItWasLeft ==
  [][(placed = NoBounds /\ placed' # NoBounds) =>
       /\ Within(placed', area)
       /\ (left.bounds # NoBounds /\ Within(left.bounds, area) /\ left.bounds.size >= Smaller(MinSize, area.size)) =>
            placed' = left.bounds]_boundsVars

\* A window the renderer serves is not left empty: it is given the document, or
\* it is closed.
WindowIsFilled == Served ~> (DOMAIN shown # {} \/ ~Served)

\* The window is a mirror and nothing more: what it shows, once everything has
\* been delivered, is what the application uses.
WindowIsAMirror ==
  (Quiet /\ Served /\ DOMAIN shown # {}) => \A f \in Fields : ValueShown(f) = setting[f]

----------------------------------------------------------------------------
(* The constants of the runs: a large display and one narrower than the    *)
(* smallest window, and where the window may be dragged to.                *)

MCAreas == {[at |-> 0, size |-> 12], [at |-> 2, size |-> 3]}

MCParent == [at |-> 1, size |-> 9]

MCPositions == {-2, 1, 5, 11}

MCSizes == {3, 4, 6}
=============================================================================
