------------------------------- MODULE Playback -------------------------------
(***************************************************************************)
(* The simulator's window, src/src/renderer.js: its buttons, the playback  *)
(* of the loaded file, and what it makes of the connection states that the *)
(* main process tells it.                                                  *)
(*                                                                         *)
(* The fields and the enabled buttons are the record `win'; the handlers   *)
(* are functions of it, since one clicks another's button.  click() on a   *)
(* disabled button does nothing.                                           *)
(***************************************************************************)
EXTENDS Naturals, Sequences

CONSTANTS
    Mixes,       \* the sets of transport kinds a user may choose from
    MaxLines,    \* bound: records of a file
    MaxRequests  \* bound: requests on their way at a time

\* The stream kinds are the transport objects of gRPC, HTTP and WebSocket; the WebSocket
\* client is set apart because nothing ends its attempt but the server.
Kind == {"tcp client", "tcp server", "udp", "stream", "ws client", "xmpp"}

ASSUME PlaybackAssumption ==
    /\ Mixes \subseteq SUBSET Kind
    /\ MaxLines \in Nat
    /\ MaxRequests \in Nat

VARIABLES
    mix,       \* the kinds of transport this user chooses from
    hasty,     \* this user may connect again before the last attempt was heard of in full
    win,       \* the renderer's fields
    file,      \* the file loaded, and the cursor in it
    toMain,    \* requests on their way to the main process
    toWindow   \* what the main process tells the window, on its way

user == <<mix, hasty>>
windowVars == <<user, win, file>>
playbackVars == <<windowVars, toMain, toWindow>>

PlaybackInit ==
    /\ mix \in Mixes
    /\ hasty \in BOOLEAN
    /\ win = [status |-> "disconnected", isSending |-> FALSE, isPaused |-> FALSE,
              interval |-> FALSE, lostInterval |-> FALSE, valid |-> TRUE,
              canConnect |-> FALSE, canPlay |-> FALSE, canStep |-> FALSE]
    /\ file = [lines |-> 0, currentLineIndex |-> 0, loading |-> FALSE]
    /\ toMain = <<>>
    /\ toWindow = <<>>

-----------------------------------------------------------------------------
(* Playback                                                                *)

ClearInterval(w) == [w EXCEPT !.interval = FALSE]

\* setInterval() on top of a running interval loses the handle of that one.
StartSending(w) ==
    IF ~ w.valid THEN w
    ELSE [w EXCEPT !.interval = TRUE, !.lostInterval = w.interval]

\* The handler of the play button: start, pause or resume.
PlayPause(w) ==
    IF ~ w.isSending THEN StartSending([w EXCEPT !.isSending = TRUE, !.isPaused = FALSE])
    ELSE IF w.isPaused THEN StartSending([w EXCEPT !.isPaused = FALSE])
    ELSE ClearInterval([w EXCEPT !.isPaused = TRUE])

ClickPlay(w) == IF w.canPlay THEN PlayPause(w) ELSE w

AtEnd == file.currentLineIndex >= file.lines

\* sendLines(): up to n records.  At the end of the file it wraps, or, when the loop
\* option is off at the moment, toggles playback.
SendLines(n) ==
    \/ /\ AtEnd
       /\ win' = IF win.isSending THEN ClickPlay(win) ELSE win
       /\ UNCHANGED file
    \/ LET from == IF AtEnd THEN 0 ELSE file.currentLineIndex
           left == file.lines - from
       IN  /\ file' = [file EXCEPT !.currentLineIndex = from + (IF n < left THEN n ELSE left)]
           /\ UNCHANGED win

Tick ==
    /\ win.interval \/ win.lostInterval
    /\ \E n \in 1 .. MaxLines + 1 : SendLines(n)
    /\ UNCHANGED <<user, toMain, toWindow>>

PressPlay ==
    /\ win.canPlay
    /\ win' = PlayPause(win)
    /\ UNCHANGED <<user, file, toMain, toWindow>>

PressStep ==
    /\ win.canStep
    /\ win.status = "connected"
    /\ win.valid
    /\ \E n \in 1 .. MaxLines + 1 : SendLines(n)
    /\ UNCHANGED <<user, toMain, toWindow>>

Seek ==
    /\ \E i \in 0 .. (file.lines - 1) : file' = [file EXCEPT !.currentLineIndex = i]
    /\ UNCHANGED <<user, win, toMain, toWindow>>

\* handleSendingParamChange(): the rate or the lines per interval become valid or not.
MutantRestart(w) == StartSending(w)
Restart(w) == StartSending(ClearInterval(w))

ChangeRate ==
    /\ \E v \in BOOLEAN :
           LET w == [win EXCEPT !.valid = v]
           IN  win' = IF win.isSending /\ ~ win.isPaused THEN Restart(w) ELSE w
    /\ UNCHANGED <<user, file, toMain, toWindow>>

-----------------------------------------------------------------------------
(* loadFile(): a later call makes the answer of an earlier one void.       *)

LoadFile ==
    /\ win' = [win EXCEPT !.canConnect = FALSE]
    /\ file' = [file EXCEPT !.loading = TRUE]
    /\ UNCHANGED <<user, toMain, toWindow>>

FileLoaded ==
    /\ file.loading
    /\ \/ \E n \in 1 .. MaxLines :
              /\ file' = [lines |-> n, currentLineIndex |-> 0, loading |-> FALSE]
              /\ win' = [win EXCEPT !.canConnect = TRUE, !.canStep = FALSE]
       \/ /\ file' = [file EXCEPT !.lines = 0, !.loading = FALSE]
          /\ win' = [win EXCEPT !.canConnect = FALSE]
    /\ UNCHANGED <<user, toMain, toWindow>>

-----------------------------------------------------------------------------
(* The connection                                                          *)

\* handleConnectionStatusChange()
Connected(w) == [w EXCEPT !.status = "connected", !.canConnect = FALSE,
                          !.canPlay = file.lines > 0, !.canStep = file.lines > 0]
Connecting(w) == [w EXCEPT !.status = "connecting", !.canConnect = FALSE]
Disconnected(w) ==
    ClearInterval([w EXCEPT !.status = "disconnected", !.isSending = FALSE, !.isPaused = FALSE,
                            !.canConnect = file.lines > 0, !.canPlay = FALSE, !.canStep = FALSE])

StatusChange(w, status) == IF status = "connected" THEN Connected(w)
                           ELSE IF status = "connecting" THEN Connecting(w) ELSE Disconnected(w)

PressConnect ==
    /\ win.canConnect
    /\ win.status = "disconnected"
    /\ win' = Connecting(win)
    /\ \E k \in mix : toMain' = Append(toMain, k)
    /\ UNCHANGED <<user, file, toWindow>>

\* "If data is being sent, pause it before disconnecting": by its button.
PressDisconnect ==
    /\ win.status # "disconnected"
    /\ Len(toMain) < MaxRequests
    /\ win' = IF win.isSending THEN ClickPlay(win) ELSE win
    /\ toMain' = Append(toMain, "disconnect")
    /\ UNCHANGED <<user, file, toWindow>>

\* A status arrives, or the answer that a connection could not be started.
MutantReceive ==
    /\ toWindow # <<>>
    /\ toWindow' = Tail(toWindow)
    /\ win' = IF Head(toWindow) = "refused" THEN win ELSE StatusChange(win, Head(toWindow))
    /\ UNCHANGED <<user, file, toMain>>
Receive ==
    /\ toWindow # <<>>
    /\ toWindow' = Tail(toWindow)
    /\ win' = StatusChange(win, IF Head(toWindow) = "refused" THEN "disconnected"
                                ELSE Head(toWindow))
    /\ UNCHANGED <<user, file, toMain>>

WindowStep ==
    \/ Tick
    \/ PressPlay
    \/ PressStep
    \/ Seek
    \/ ChangeRate
    \/ LoadFile
    \/ FileLoaded
    \/ PressConnect
    \/ PressDisconnect
    \/ Receive
=============================================================================
