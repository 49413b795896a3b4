------------------------- MODULE UserInterfaceProofs -------------------------
(***************************************************************************)
(* Theorems about the window and the main process for every file, every    *)
(* choice of transports and any number of attempts and requests.           *)
(***************************************************************************)
EXTENDS UserInterface, SequenceTheorems, TLAPS

-----------------------------------------------------------------------------
(* Playback does what the window shows.                                    *)

FileType == [lines : 0 .. MaxLines, currentLineIndex : 0 .. MaxLines, loading : BOOLEAN]
Told == Statuses \cup {"refused"}

\* A button to play is enabled only while there is or was a connection.
WindowInv ==
    /\ hasty \in BOOLEAN
    /\ win \in WindowType
    /\ file \in FileType
    /\ toWindow \in Seq(Told)
    /\ PlaysWhatItShows
    /\ win.canPlay => win.status # "disconnected"

\* What is true of the fields whatever is done to them.
Honest(w) ==
    /\ w \in WindowType
    /\ ~ w.lostInterval
    /\ w.interval <=> w.isSending /\ ~ w.isPaused /\ w.valid
    /\ w.isSending => w.status # "disconnected"
    /\ w.canPlay => w.status # "disconnected"

LEMMA PlayPauseHonest ==
    ASSUME NEW w, Honest(w), w.status # "disconnected"
    PROVE  Honest(PlayPause(w))
    BY DEF Honest, WindowType, PlayPause, StartSending, ClearInterval

LEMMA ClickPlayHonest ==
    ASSUME NEW w, Honest(w)
    PROVE  Honest(ClickPlay(w))
    BY PlayPauseHonest DEF ClickPlay, Honest

LEMMA RestartHonest ==
    ASSUME NEW w, Honest(w), NEW v \in BOOLEAN
    PROVE  LET u == [w EXCEPT !.valid = v]
           IN  Honest(IF w.isSending /\ ~ w.isPaused THEN Restart(u) ELSE u)
    BY DEF Honest, WindowType, Restart, StartSending, ClearInterval

LEMMA StatusChangeHonest ==
    ASSUME NEW w, Honest(w), file.lines \in Nat
    PROVE  /\ Honest(Connected(w))
           /\ Honest(Connecting(w))
           /\ Honest(Disconnected(w))
           /\ \A s : Honest(StatusChange(w, s))
<1>1. (file.lines > 0) \in BOOLEAN
    OBVIOUS
<1>2. Honest(Connected(w))
    BY <1>1 DEF Honest, WindowType, Connected, Statuses
<1>3. Honest(Connecting(w))
    BY DEF Honest, WindowType, Connecting, Statuses
<1>4. Honest(Disconnected(w))
    BY <1>1 DEF Honest, WindowType, Disconnected, ClearInterval, Statuses
<1> QED BY <1>2, <1>3, <1>4 DEF StatusChange

LEMMA SendLinesHonest ==
    ASSUME Honest(win), file \in FileType, NEW n \in Nat, SendLines(n)
    PROVE  Honest(win') /\ file' \in FileType
<1>1. CASE /\ win' = IF win.isSending THEN ClickPlay(win) ELSE win
           /\ UNCHANGED file
    BY <1>1, ClickPlayHonest
<1>2. CASE /\ file' = [file EXCEPT !.currentLineIndex =
                  LET from == IF AtEnd THEN 0 ELSE file.currentLineIndex
                      left == file.lines - from
                  IN  from + (IF n < left THEN n ELSE left)]
           /\ UNCHANGED win
  <2> DEFINE from == IF AtEnd THEN 0 ELSE file.currentLineIndex
             left == file.lines - from
             next == from + (IF n < left THEN n ELSE left)
  <2>1. from \in 0 .. MaxLines /\ next \in 0 .. MaxLines
      BY PlaybackAssumption DEF FileType, AtEnd
  <2>2. file' = [file EXCEPT !.currentLineIndex = next]
      BY <1>2
  <2> HIDE DEF next
  <2>3. file' \in FileType
      BY <2>1, <2>2 DEF FileType
  <2> QED BY <1>2, <2>3
<1> QED BY <1>1, <1>2 DEF SendLines

LEMMA WindowStepHonest ==
    ASSUME Honest(win), file \in FileType, toWindow \in Seq(Told), WindowStep
    PROVE  Honest(win') /\ file' \in FileType /\ toWindow' \in Seq(Told)
<1> USE PlaybackAssumption
<1>1. CASE Tick
    BY <1>1, SendLinesHonest DEF Tick
<1>2. CASE PressPlay
    BY <1>2, PlayPauseHonest DEF PressPlay, Honest
<1>3. CASE PressStep
    BY <1>3, SendLinesHonest DEF PressStep
<1>4. CASE Seek
  <2>1. PICK i \in 0 .. (file.lines - 1) : file' = [file EXCEPT !.currentLineIndex = i]
      BY <1>4 DEF Seek
  <2>2. i \in Nat
      BY DEF FileType
  <2> QED BY <1>4, <2>1, <2>2 DEF Seek, FileType
<1>5. CASE ChangeRate
    BY <1>5, RestartHonest DEF ChangeRate
<1>6. CASE LoadFile
    BY <1>6 DEF LoadFile, Honest, WindowType, FileType
<1>7. CASE FileLoaded
  <2>1. \A b, c \in BOOLEAN : /\ Honest([win EXCEPT !.canConnect = b, !.canStep = c])
                              /\ Honest([win EXCEPT !.canConnect = b])
      BY DEF Honest, WindowType
  <2>2. \A n \in 1 .. MaxLines : [lines |-> n, currentLineIndex |-> 0, loading |-> FALSE] \in FileType
      BY DEF FileType
  <2>3. [file EXCEPT !.lines = 0, !.loading = FALSE] \in FileType
    <3>1. 0 \in 0 .. MaxLines
        OBVIOUS
    <3> QED BY <3>1 DEF FileType
  <2>4. CASE /\ file' = [file EXCEPT !.lines = 0, !.loading = FALSE]
             /\ win' = [win EXCEPT !.canConnect = FALSE]
      BY <1>7, <2>1, <2>3, <2>4 DEF FileLoaded
  <2>5. ASSUME NEW n \in 1 .. MaxLines,
               file' = [lines |-> n, currentLineIndex |-> 0, loading |-> FALSE],
               win' = [win EXCEPT !.canConnect = TRUE, !.canStep = FALSE]
        PROVE  Honest(win') /\ file' \in FileType
      BY <2>1, <2>2, <2>5
  <2> QED BY <1>7, <2>4, <2>5 DEF FileLoaded
<1>8. CASE PressConnect
    BY <1>8, StatusChangeHonest DEF PressConnect, FileType
<1>9. CASE PressDisconnect
    BY <1>9, ClickPlayHonest DEF PressDisconnect
<1>10. CASE Receive
  <2>1. Honest(win')
      BY <1>10, StatusChangeHonest DEF Receive, FileType
  <2>2. toWindow' \in Seq(Told)
      BY <1>10 DEF Receive
  <2> QED BY <1>10, <2>1, <2>2 DEF Receive
<1> QED BY <1>1, <1>2, <1>3, <1>4, <1>5, <1>6, <1>7, <1>8, <1>9, <1>10 DEF WindowStep

\* Whoever uses the window remains the same.
LEMMA UserStays == WindowStep => UNCHANGED <<mix, hasty>>
    BY DEF user, WindowStep, Tick, PressPlay, PressStep, Seek, ChangeRate, LoadFile, FileLoaded,
           PressConnect, PressDisconnect, Receive

\* The main process leaves the window alone and tells it nothing but states.
LEMMA MainStepSpeaks ==
    ASSUME toWindow \in Seq(Told), MainStep
    PROVE  UNCHANGED windowVars /\ toWindow' \in Seq(Told)
<1>1. \A s \in Told : Append(toWindow, s) \in Seq(Told)
    OBVIOUS
<1>2. toWindow \o <<"disconnected", "refused">> \in Seq(Told)
    BY DEF Told, Statuses
<1>3. CASE HandleDisconnect
    BY <1>1, <1>3 DEF HandleDisconnect, LetGo, Emit, Told, Statuses
<1>4. ASSUME NEW a \in Attempts, HandleConnect(a)
      PROVE  UNCHANGED windowVars /\ toWindow' \in Seq(Told)
    BY <1>1, <1>2, <1>4 DEF HandleConnect, Begin, Caught, Told, Statuses
<1>5. ASSUME NEW a \in Attempts, Settles(a)
      PROVE  UNCHANGED windowVars /\ toWindow' \in Seq(Told)
    BY <1>1, <1>2, <1>5 DEF Settles, Resolves, Opens, OpenFails, Cleaned, RejectsLate, Closes,
                            Caught, Emit, Told, Statuses
<1>6. ASSUME NEW a \in Attempts, Ends(a) \/ XmppReconnects(a) \/ ReadyLate(a)
      PROVE  UNCHANGED windowVars /\ toWindow' \in Seq(Told)
    BY <1>1, <1>6 DEF Ends, XmppReconnects, ReadyLate, Emit, Told, Statuses
<1> QED BY <1>3, <1>4, <1>5, <1>6 DEF MainStep, Handles

\* With every step of window and main process the window stays honest.
LEMMA WindowInvInductive == WindowInv /\ [Next]_vars => WindowInv'
<1> SUFFICES ASSUME WindowInv, [Next]_vars
             PROVE  WindowInv'
    OBVIOUS
<1>1. Honest(win) /\ file \in FileType /\ toWindow \in Seq(Told)
    BY DEF WindowInv, Honest, PlaysWhatItShows, FileType, Told
<1>2. CASE WindowStep
    BY <1>1, <1>2, WindowStepHonest, UserStays DEF WindowInv, Honest, PlaysWhatItShows, FileType, Told
<1>3. CASE MainStep
  <2>1. UNCHANGED windowVars /\ toWindow' \in Seq(Told)
      BY <1>1, <1>3, MainStepSpeaks
  <2> QED BY <2>1 DEF WindowInv, windowVars, user, PlaysWhatItShows, Told
<1>4. CASE UNCHANGED vars
    BY <1>4 DEF vars, playbackVars, windowVars, user, WindowInv, PlaysWhatItShows
<1> QED BY <1>2, <1>3, <1>4 DEF Next, WindowSteps

\* The button tells what happens: records are sent by an interval exactly while the
\* window shows that it plays, and never by two, whatever the user, the file and the
\* main process do (renderer.js, the play button, startSending and
\* handleConnectionStatusChange).
THEOREM PlaybackIsHonest == Spec => []PlaysWhatItShows
<1>1. Init => WindowInv
    BY PlaybackAssumption
    DEF Init, PlaybackInit, WindowInv, WindowType, Statuses, PlaysWhatItShows, FileType, Told
<1>2. WindowInv => PlaysWhatItShows
    BY DEF WindowInv
<1> QED BY <1>1, <1>2, WindowInvInductive, PTL DEF Spec

-----------------------------------------------------------------------------
(* The state of the main process.                                          *)

MainType ==
    /\ mix \in Mixes
    /\ toMain \in Seq(mix \cup {"disconnect"})
    /\ link \in [Attempts -> LinkStates]
    /\ kind \in [Attempts -> Kind]
    /\ aborted \subseteq Attempts
    /\ unsettled \subseteq Attempts
    /\ returning \subseteq Attempts
    /\ connection \in Attempts \cup {None}
    /\ object \in Attempts \cup {None}
    /\ xmpp \in Attempts \cup {None}
    /\ controller \in Attempts \cup {None}
    /\ busy \in BOOLEAN
    /\ faults \in 0 .. MaxFaults

\* Steps of the window ask for what the user may choose, and for nothing else.
LEMMA WindowAsks ==
    ASSUME MainType, WindowSteps
    PROVE  mix' = mix /\ UNCHANGED mainVars /\ toMain' \in Seq(mix \cup {"disconnect"})
<1>1. mix' = mix /\ UNCHANGED mainVars
    BY UserStays DEF WindowSteps
<1>2. toMain \in Seq(mix \cup {"disconnect"})
    BY DEF MainType
<1>3. toMain' \in Seq(mix \cup {"disconnect"})
    BY <1>2 DEF WindowSteps, WindowStep, Tick, SendLines, PressPlay, PressStep, Seek, ChangeRate,
                LoadFile, FileLoaded, PressConnect, PressDisconnect, Receive
<1> QED BY <1>1, <1>3

LEMMA HandlesType ==
    ASSUME MainType, Handles
    PROVE  MainType'
<1> USE DEF Emit
<1>1. mix' = mix /\ toMain' \in Seq(mix \cup {"disconnect"}) /\ faults' = faults
    BY DEF MainType, Handles, HandleDisconnect, HandleConnect, windowVars, user
<1>2. CASE HandleDisconnect
  <2>1. link' \in [Attempts -> LinkStates]
    <3>1. PICK S : Destroy(S)
        BY <1>2 DEF HandleDisconnect, LetGo
    <3> QED BY <3>1 DEF Destroy, MainType, LinkStates
  <2>2. /\ aborted' \subseteq Attempts /\ unsettled' \subseteq Attempts
        /\ returning' \subseteq Attempts /\ kind' = kind /\ controller' = None
      BY <1>2 DEF HandleDisconnect, Returning, MainType
  <2>3. /\ connection' \in Attempts \cup {None} /\ object' \in {object, None}
        /\ xmpp' \in {xmpp, None} /\ busy' \in BOOLEAN
      BY <1>2 DEF HandleDisconnect, LetGo, MainType
  <2> QED BY <1>1, <2>1, <2>2, <2>3 DEF MainType
<1>3. ASSUME NEW a \in Attempts, HandleConnect(a)
      PROVE  MainType'
  <2>1. Head(toMain) \in Kind
    <3>1. Head(toMain) \in mix
        BY <1>3 DEF MainType, HandleConnect
    <3> QED BY <3>1, PlaybackAssumption DEF MainType
  <2>2. CASE UNCHANGED <<linkVars, connection, object, xmpp, controller, busy>>
      BY <1>1, <2>2 DEF MainType, linkVars
  <2>3. CASE Caught /\ UNCHANGED <<linkVars, object, controller>>
      BY <1>1, <2>3 DEF MainType, Caught, linkVars
  <2>4. CASE Begin(a, Head(toMain))
    <3>1. link' \in [Attempts -> LinkStates] /\ kind' \in [Attempts -> Kind]
        BY <2>1, <2>4 DEF Begin, Goes, MainType, LinkStates
    <3> QED BY <1>1, <2>4, <3>1 DEF MainType, Begin
  <2> QED BY <1>3, <2>2, <2>3, <2>4 DEF HandleConnect
<1> QED BY <1>2, <1>3 DEF Handles

LEMMA AttemptsType ==
    ASSUME MainType, NEW a \in Attempts,
           Settles(a) \/ Ends(a) \/ XmppReconnects(a) \/ ReadyLate(a)
    PROVE  MainType'
<1> USE DEF Emit, windowVars, user
<1>1. \A state \in LinkStates : [link EXCEPT ![a] = state] \in [Attempts -> LinkStates]
    BY DEF MainType
<1>2. CASE Resolves(a)
  <2>1. link' \in [Attempts -> LinkStates]
      BY <1>1, <1>2 DEF Resolves, Goes, MainType, LinkStates
  <2> QED BY <1>2, <2>1 DEF Resolves, Caught, MainType
<1>3. CASE Opens(a)
    BY <1>1, <1>3 DEF Opens, Goes, MainType, LinkStates
<1>4. CASE OpenFails(a)
  <2>1. link' \in [Attempts -> LinkStates]
      BY <1>1, <1>4 DEF OpenFails, Goes, LinkStates
  <2>2. returning' \subseteq Attempts
      BY <1>4 DEF OpenFails, Returning, MainType
  <2> QED BY <1>4, <2>1, <2>2 DEF OpenFails, MainType
<1>5. CASE Cleaned(a) \/ Closes(a)
    BY <1>1, <1>5 DEF Cleaned, Closes, Goes, MainType, LinkStates
<1>6. CASE RejectsLate(a) \/ ReadyLate(a)
    BY <1>6 DEF RejectsLate, ReadyLate, MainType
<1>7. CASE Ends(a)
  <2>1. link' \in [Attempts -> LinkStates] /\ connection' \in {connection, None} /\ busy' \in BOOLEAN
      BY <1>1, <1>7 DEF Ends, Goes, MainType, LinkStates
  <2>2. faults' \in 0 .. MaxFaults
    <3>1. faults \in 0 .. MaxFaults /\ faults < MaxFaults /\ faults' = faults + 1
        BY <1>7 DEF Ends, MainType
    <3> QED BY <3>1, MainAssumption
  <2> QED BY <1>7, <2>1, <2>2 DEF Ends, MainType
<1>8. CASE XmppReconnects(a)
    BY <1>1, <1>8 DEF XmppReconnects, Goes, MainType, LinkStates
<1> QED BY <1>2, <1>3, <1>4, <1>5, <1>6, <1>7, <1>8 DEF Settles

LEMMA MainTypeInductive == MainType /\ [Next]_vars => MainType'
<1> SUFFICES ASSUME MainType, [Next]_vars
             PROVE  MainType'
    OBVIOUS
<1>1. CASE WindowSteps
    BY <1>1, WindowAsks DEF MainType, mainVars, linkVars
<1>2. CASE UNCHANGED vars
    BY <1>2 DEF vars, playbackVars, windowVars, user, MainType, mainVars, linkVars
<1> QED BY <1>1, <1>2, HandlesType, AttemptsType DEF Next, MainStep

LEMMA MainTypeInit ==
    ASSUME Init
    PROVE  MainType /\ \A a \in Attempts : link[a] = "none" /\ kind[a] = "udp"
<1> USE DEF Attempts, None
<1>1. link = [a \in Attempts |-> "none"] /\ kind = [a \in Attempts |-> "udp"]
    BY DEF Init, MainInit
<1>2. link \in [Attempts -> LinkStates] /\ kind \in [Attempts -> Kind]
    BY <1>1 DEF LinkStates, Kind
<1>3. mix \in Mixes /\ toMain \in Seq(mix \cup {"disconnect"})
    BY DEF Init, PlaybackInit
<1>4. faults \in 0 .. MaxFaults
    BY MainAssumption DEF Init, MainInit
<1> QED BY <1>1, <1>2, <1>3, <1>4 DEF Init, MainInit, MainType

\* The state of the window and of the main process stays what the code keeps in it, for
\* every user, late outcomes included.
THEOREM UserInterfaceTypeCorrect == Spec => []TypeOK
<1>1. WindowInv /\ MainType => TypeOK
  <2> SUFFICES ASSUME WindowInv, MainType
               PROVE  TypeOK
      OBVIOUS
  <2>1. mix \subseteq Kind
      BY PlaybackAssumption DEF MainType
  <2>2. toMain \in Seq(Kind \cup {"disconnect"})
      BY <2>1 DEF MainType
  <2> QED BY <2>2 DEF WindowInv, MainType, TypeOK, FileType, Told
<1>2. Init => WindowInv
    BY PlaybackAssumption
    DEF Init, PlaybackInit, WindowInv, WindowType, Statuses, PlaysWhatItShows, FileType, Told
<1> QED BY <1>1, <1>2, WindowInvInductive, MainTypeInit, MainTypeInductive, PTL DEF Spec

-----------------------------------------------------------------------------
(* What was reported disconnected is torn down.                            *)

TcpKinds == {"tcp client", "tcp server"}

\* A user does not go from TCP to another kind of transport or back: a controller that a
\* lost TCP connection left behind would be taken for that of the later attempt.
TcpApart == \A m \in Mixes : m \subseteq TcpKinds \/ m \cap TcpKinds = {}

\* Without TCP, and without a cancelled attempt, what was reported is over.
Plain == mix \cap TcpKinds = {} /\ aborted = {}

\* The users whose attempts come one after the other.
Orderly == (~ Late /\ TcpApart) \/ Plain

\* Something of attempt a is still to come.
UnderWay(a) == link[a] \notin {"none", "closed"} \/ a \in unsettled

OneAtATime == \A a, b \in Attempts : UnderWay(a) /\ UnderWay(b) => a = b

FromMix == \A a \in Attempts : link[a] # "none" => kind[a] \in mix

\* The connection is the attempt that is up, or the TCP socket that is closing.
ConnectionIsUp ==
    /\ connection # None => \/ link[connection] \in {"up", "lost"}
                            \/ link[connection] = "closing" /\ Tcp(connection)
    /\ \A a \in Attempts : link[a] \in {"up", "lost"} => connection = a

\* Each kind of attempt is registered where disconnect will look for it.
Registered ==
    /\ \A a \in Attempts : Object(kind[a]) /\ link[a] \in {"resolving", "opening"} =>
            object = a
    /\ xmpp # None => kind[xmpp] = "xmpp" /\ link[xmpp] \in Awaited \cup {"up", "lost"}
    /\ controller # None => Tcp(controller) /\ link[controller] # "none"
    /\ \A a \in Attempts : Tcp(a) /\ link[a] \in {"resolving", "opening"} =>
            controller = a \/ (link[a] = "resolving" /\ a \in aborted)
    /\ \A a \in unsettled : kind[a] = "xmpp" /\ link[a] \in {"closing", "closed"}
    /\ \A a \in Attempts : link[a] \in {"cleaning", "adrift", "returned"} => kind[a] = "xmpp"

ObjectIsLive == object # None => Object(kind[object]) /\ link[object] \in {"opening", "up"}

\* Once `disconnected' was reported nothing can come up any more.
QuietOnceTold ==
    ~ busy => /\ connection = None
              /\ \A a \in Attempts : \/ link[a] \in {"none", "closed", "closing"}
                                     \/ link[a] = "resolving" /\ a \in aborted

\* And without TCP and cancelled attempts nothing is even closing.
ClosedOnceTold ==
    Plain => /\ unsettled = {}
             /\ controller = None
             /\ ~ busy => \A a \in Attempts : link[a] \in {"none", "closed"}

NothingIsLate == ~ Late => returning = {}

MainInv == /\ MainType /\ OneAtATime /\ FromMix /\ ConnectionIsUp /\ Registered /\ ObjectIsLive
           /\ QuietOnceTold /\ ClosedOnceTold /\ NothingIsLate

\* Something of this can be lost, and nothing won, while the attempts are made.
LEMMA OrderlyBefore ==
    ASSUME MainType, mix' = mix, aborted \subseteq aborted'
    PROVE  /\ Late' = Late
           /\ Plain' => Plain
           /\ Orderly' => Orderly
    BY DEF Late, Plain, Orderly, TcpApart

\* While attempt a is under way, nothing of another one is.
LEMMA OthersAreOver ==
    ASSUME MainInv, NEW a \in Attempts, UnderWay(a)
    PROVE  \A b \in Attempts : b # a => link[b] \in {"none", "closed"} /\ b \notin unsettled
    BY DEF MainInv, OneAtATime, UnderWay

LEMMA OpensKeeps ==
    ASSUME MainInv, MainType', NEW a \in Attempts, Opens(a)
    PROVE  MainInv'
<1> USE DEF Attempts, None, Object
<1>1. \A b \in Attempts : b # a => link[b] \in {"none", "closed"} /\ b \notin unsettled
    BY OthersAreOver DEF Opens, UnderWay
<1>2. MainType /\ link[a] = "opening" /\ link' = [link EXCEPT ![a] = "up"]
    BY DEF MainInv, Opens, Goes
<1>3. connection' = a
    BY DEF MainInv, Registered, Opens
<1>4. UNCHANGED <<mix, kind, aborted, unsettled, returning, object, xmpp, controller>> /\ busy' = TRUE
    BY DEF Opens, Emit, windowVars, user
<1>5. OneAtATime'
    BY <1>1, <1>2, <1>4 DEF MainType, OneAtATime, UnderWay
<1>6. FromMix'
    BY <1>2, <1>4 DEF MainType, MainInv, FromMix
<1>7. ConnectionIsUp'
    BY <1>1, <1>2, <1>3, <1>4 DEF MainType, ConnectionIsUp, Tcp
<1>8. Registered' /\ ObjectIsLive'
    BY <1>1, <1>2, <1>4 DEF MainType, MainInv, Registered, ObjectIsLive, Tcp, Awaited
<1>9. QuietOnceTold' /\ ClosedOnceTold' /\ NothingIsLate'
    BY <1>4 DEF MainInv, QuietOnceTold, ClosedOnceTold, NothingIsLate, Plain, Late
<1> QED BY <1>5, <1>6, <1>7, <1>8, <1>9 DEF MainInv

\* A lookup that ends moves its own attempt only: nothing else is under way, so that the
\* catch clause finds nothing to forget.
LEMMA ResolvedLinks ==
    ASSUME MainInv, NEW a \in Attempts, Resolves(a)
    PROVE  /\ xmpp = None /\ connection = None
           /\ \/ /\ a \notin aborted
                 /\ link' = [link EXCEPT ![a] = "opening"]
                 /\ UNCHANGED <<busy, toWindow>>
              \/ /\ link' = [link EXCEPT ![a] = "closed"]
                 /\ busy' = FALSE
                 /\ toWindow' = toWindow \o <<"disconnected", "refused">>
           /\ UNCHANGED <<windowVars, toMain, kind, aborted, unsettled, returning, connection,
                          object, xmpp, controller, faults>>
<1> USE DEF Attempts, None
<1>1. \A b \in Attempts : b # a => link[b] \in {"none", "closed"} /\ b \notin unsettled
    BY OthersAreOver DEF Resolves, UnderWay
<1>2. MainType /\ link[a] = "resolving"
    BY DEF MainInv, Resolves
<1>3. xmpp = None /\ connection = None
    BY <1>1, <1>2 DEF MainInv, MainType, Registered, ConnectionIsUp, Awaited
<1>4. \/ /\ a \notin aborted
          /\ link' = [link EXCEPT ![a] = "opening"]
          /\ UNCHANGED <<busy, toWindow>>
       \/ /\ link' = [link EXCEPT ![a] = "closed"]
          /\ busy' = FALSE
          /\ toWindow' = toWindow \o <<"disconnected", "refused">>
  <2>1. [b \in Attempts |-> IF b \in {a, xmpp} THEN "closed" ELSE link[b]]
            = [link EXCEPT ![a] = "closed"]
    <3>1. \A b \in Attempts : b \in {a, xmpp} <=> b = a
        BY <1>3
    <3>2. [link EXCEPT ![a] = "closed"] = [b \in Attempts |-> IF b = a THEN "closed" ELSE link[b]]
        BY <1>2 DEF MainType
    <3> QED BY <3>1, <3>2
  <2> QED BY <1>2, <2>1 DEF Resolves, Goes, Caught
<1>5. UNCHANGED <<windowVars, toMain, kind, aborted, unsettled, returning, connection, object,
                  xmpp, controller, faults>>
  <2>1. {b \in Attempts : b = xmpp /\ link[b] \in Awaited} = {}
      BY <1>3
  <2> QED BY <1>3, <2>1 DEF Resolves, Caught
<1> QED BY <1>3, <1>4, <1>5

LEMMA ResolvesKeeps ==
    ASSUME MainInv, MainType', NEW a \in Attempts, Resolves(a)
    PROVE  MainInv'
<1> USE DEF Attempts, None
<1>1. \A b \in Attempts : b # a => link[b] \in {"none", "closed"} /\ b \notin unsettled
    BY OthersAreOver DEF Resolves, UnderWay
<1>2. MainType /\ link[a] = "resolving"
    BY DEF MainInv, Resolves
<1>3. xmpp = None /\ connection = None
    BY ResolvedLinks
<1>4. \/ /\ a \notin aborted
          /\ link' = [link EXCEPT ![a] = "opening"]
          /\ UNCHANGED busy
       \/ /\ link' = [link EXCEPT ![a] = "closed"]
          /\ busy' = FALSE
    BY ResolvedLinks
<1>5. UNCHANGED <<mix, kind, aborted, unsettled, returning, connection, object, xmpp, controller>>
    BY ResolvedLinks DEF windowVars, user
<1> HIDE DEF None
<1>6. OneAtATime'
    BY <1>1, <1>2, <1>4, <1>5 DEF MainType, OneAtATime, UnderWay
<1>7. FromMix'
    BY <1>2, <1>4, <1>5 DEF MainInv, MainType, FromMix
<1>8. ConnectionIsUp'
    BY <1>2, <1>3, <1>4, <1>5 DEF MainInv, MainType, ConnectionIsUp, Tcp
<1>9. Registered'
  <2>1. \A b \in Attempts : b # a => link'[b] = link[b]
      BY <1>2, <1>4 DEF MainType
  <2>2. (link'[a] = "opening" /\ a \notin aborted) \/ link'[a] = "closed"
      BY <1>2, <1>4 DEF MainType
  <2>3. \A b \in Attempts : Object(kind'[b]) /\ link'[b] \in {"resolving", "opening"} => object' = b
      BY <1>2, <1>5, <2>1, <2>2 DEF MainInv, Registered
  <2>4. controller' # None => Tcp(controller)' /\ link'[controller'] # "none"
      BY <1>5, <2>1, <2>2 DEF MainInv, MainType, Registered, Tcp
  <2>5. \A b \in Attempts : Tcp(b)' /\ link'[b] \in {"resolving", "opening"} =>
            controller' = b \/ (link'[b] = "resolving" /\ b \in aborted')
      BY <1>2, <1>5, <2>1, <2>2 DEF MainInv, Registered, Tcp
  <2>6. \A b \in unsettled' : kind'[b] = "xmpp" /\ link'[b] \in {"closing", "closed"}
      BY <1>2, <1>5, <2>1 DEF MainInv, MainType, Registered
  <2>7. \A b \in Attempts : link'[b] \in {"cleaning", "adrift", "returned"} => kind'[b] = "xmpp"
      BY <1>5, <2>1, <2>2 DEF MainInv, Registered
  <2> QED BY <1>3, <1>5, <2>3, <2>4, <2>5, <2>6, <2>7 DEF Registered
<1>10. ObjectIsLive'
  <2>1. object = None
      BY <1>1, <1>2 DEF MainInv, MainType, ObjectIsLive
  <2> QED BY <1>5, <2>1 DEF ObjectIsLive
<1>11. QuietOnceTold' /\ ClosedOnceTold' /\ NothingIsLate'
    BY <1>1, <1>2, <1>3, <1>4, <1>5
    DEF MainInv, MainType, QuietOnceTold, ClosedOnceTold, NothingIsLate, Plain, Late
<1> QED BY <1>6, <1>7, <1>8, <1>9, <1>10, <1>11 DEF MainInv

LEMMA OpenFailsKeeps ==
    ASSUME MainInv, MainType', NEW a \in Attempts, OpenFails(a)
    PROVE  MainInv'
<1> USE DEF Attempts, None
<1>1. \A b \in Attempts : b # a => link[b] \in {"none", "closed"} /\ b \notin unsettled
    BY OthersAreOver DEF OpenFails, UnderWay, Awaited
<1>2. MainType /\ link[a] \in Awaited
    BY DEF MainInv, OpenFails, Awaited
<1>3. connection = None
    BY <1>1, <1>2 DEF MainInv, MainType, ConnectionIsUp, Awaited
<1>4. busy
    BY <1>2 DEF MainInv, MainType, QuietOnceTold, Awaited
<1>5. connection' = None
    BY <1>3 DEF OpenFails
<1>6. a \notin unsettled
    BY <1>2 DEF MainInv, Registered, Awaited
<1>7. PICK state \in {"closing", "closed", "cleaning"} :
          /\ link' = [link EXCEPT ![a] = state]
          /\ state = "closing" => kind[a] = "tcp client"
          /\ state = "cleaning" => busy' = busy /\ kind[a] = "xmpp"
          /\ xmpp' = None \/ (xmpp' = xmpp /\ kind[a] # "xmpp")
          /\ object' = None \/ (object' = object /\ ~ Object(kind[a]))
    BY DEF OpenFails, Goes, Object
<1>8. UNCHANGED <<mix, kind, aborted, unsettled, controller>>
    BY DEF OpenFails, windowVars, user
<1>9. xmpp' = None
    BY <1>1, <1>2, <1>7 DEF MainInv, MainType, Registered, Awaited
<1>10. object' = None
    BY <1>1, <1>7 DEF MainInv, MainType, ObjectIsLive
<1> HIDE DEF None
<1>11. OneAtATime'
    BY <1>1, <1>2, <1>7, <1>8 DEF MainType, OneAtATime, UnderWay
<1>12. FromMix'
    BY <1>2, <1>7, <1>8 DEF MainInv, MainType, FromMix, Awaited
<1>13. ConnectionIsUp'
    BY <1>1, <1>2, <1>5, <1>7 DEF MainType, ConnectionIsUp
<1>14. Registered' /\ ObjectIsLive'
    BY <1>1, <1>2, <1>6, <1>7, <1>8, <1>9, <1>10
    DEF MainInv, MainType, Registered, ObjectIsLive, Tcp, Awaited
<1>15. QuietOnceTold'
    BY <1>1, <1>2, <1>4, <1>5, <1>7 DEF MainType, QuietOnceTold
<1>16. ClosedOnceTold'
  <2>1. Plain => kind[a] # "tcp client"
      BY <1>2 DEF MainInv, FromMix, Plain, TcpKinds, Awaited
  <2> QED BY <1>1, <1>2, <1>4, <1>7, <1>8, <2>1 DEF MainInv, MainType, ClosedOnceTold, Plain
<1>17. NothingIsLate'
    BY <1>8 DEF MainInv, NothingIsLate, OpenFails, Returning, Late
<1> QED BY <1>11, <1>12, <1>13, <1>14, <1>15, <1>16, <1>17 DEF MainInv

\* The reports that end a teardown: nothing is left that could come up.
LEMMA CleanedKeeps ==
    ASSUME MainInv, MainType', NEW a \in Attempts, Cleaned(a)
    PROVE  MainInv'
<1> USE DEF Attempts, None
<1>1. \A b \in Attempts : b # a => link[b] \in {"none", "closed"} /\ b \notin unsettled
    BY OthersAreOver DEF Cleaned, UnderWay
<1>2. MainType /\ link[a] = "cleaning" /\ link' = [link EXCEPT ![a] = "closed"]
    BY DEF MainInv, Cleaned, Goes
<1>3. connection = None /\ xmpp = None /\ object = None
    BY <1>1, <1>2 DEF MainInv, MainType, ConnectionIsUp, Registered, ObjectIsLive, Awaited
<1>4. UNCHANGED <<mix, kind, aborted, unsettled, returning, connection, object, xmpp, controller>>
    BY DEF Cleaned, windowVars, user
<1> HIDE DEF None
<1>5. OneAtATime' /\ FromMix' /\ ConnectionIsUp'
    BY <1>1, <1>2, <1>3, <1>4 DEF MainInv, MainType, OneAtATime, UnderWay, FromMix, ConnectionIsUp
<1>6. Registered' /\ ObjectIsLive'
    BY <1>1, <1>2, <1>3, <1>4 DEF MainInv, MainType, Registered, ObjectIsLive, Tcp
<1>7. QuietOnceTold' /\ ClosedOnceTold' /\ NothingIsLate'
    BY <1>1, <1>2, <1>3, <1>4
    DEF MainInv, MainType, QuietOnceTold, ClosedOnceTold, NothingIsLate, Plain, Late
<1> QED BY <1>5, <1>6, <1>7 DEF MainInv

LEMMA RejectsLateKeeps ==
    ASSUME MainInv, MainType', NEW a \in Attempts, RejectsLate(a)
    PROVE  MainInv'
<1> USE DEF Attempts, None
<1>1. \A b \in Attempts : b # a => link[b] \in {"none", "closed"} /\ b \notin unsettled
    BY OthersAreOver DEF RejectsLate, UnderWay
<1>2. MainType /\ kind[a] = "xmpp" /\ link[a] \in {"closing", "closed"} /\ a \in unsettled
    BY DEF MainInv, RejectsLate, Registered
<1>3. connection = None
    BY <1>1, <1>2 DEF MainInv, MainType, ConnectionIsUp, Tcp
<1>4. UNCHANGED <<mix, link, kind, aborted, returning, connection, object, xmpp, controller>>
    BY DEF RejectsLate, windowVars, user
<1>5. unsettled' = unsettled \ {a}
    BY DEF RejectsLate
<1> HIDE DEF None
<1>6. OneAtATime' /\ FromMix' /\ ConnectionIsUp'
    BY <1>1, <1>2, <1>3, <1>4, <1>5
    DEF MainInv, MainType, OneAtATime, UnderWay, FromMix, ConnectionIsUp, Tcp
<1>7. Registered' /\ ObjectIsLive'
    BY <1>4, <1>5 DEF MainInv, Registered, ObjectIsLive, Tcp
<1>8. QuietOnceTold'
    BY <1>1, <1>2, <1>3, <1>4 DEF QuietOnceTold
<1>9. ClosedOnceTold' /\ NothingIsLate'
    BY <1>2, <1>4 DEF MainInv, ClosedOnceTold, NothingIsLate, Plain, Late
<1> QED BY <1>6, <1>7, <1>8, <1>9 DEF MainInv

LEMMA ClosesKeeps ==
    ASSUME MainInv, MainType', NEW a \in Attempts, Closes(a)
    PROVE  MainInv'
<1> USE DEF Attempts, None
<1>1. \A b \in Attempts : b # a => link[b] \in {"none", "closed"} /\ b \notin unsettled
    BY OthersAreOver DEF Closes, UnderWay
<1>2. MainType /\ link[a] = "closing" /\ link' = [link EXCEPT ![a] = "closed"]
    BY DEF MainInv, Closes, Goes
<1>3. connection' = None
    BY <1>1, <1>2 DEF MainInv, MainType, ConnectionIsUp, Tcp, Closes
<1>4. xmpp = None /\ object = None
    BY <1>1, <1>2 DEF MainInv, MainType, Registered, ObjectIsLive, Awaited
<1>5. UNCHANGED <<mix, kind, aborted, unsettled, returning, object, xmpp, controller>>
    BY DEF Closes, windowVars, user
<1> HIDE DEF None
<1>6. OneAtATime' /\ FromMix' /\ ConnectionIsUp'
    BY <1>1, <1>2, <1>3, <1>5 DEF MainInv, MainType, OneAtATime, UnderWay, FromMix, ConnectionIsUp
<1>7. Registered' /\ ObjectIsLive'
    BY <1>1, <1>2, <1>4, <1>5 DEF MainInv, MainType, Registered, ObjectIsLive, Tcp
<1>8. QuietOnceTold' /\ ClosedOnceTold' /\ NothingIsLate'
    BY <1>1, <1>2, <1>3, <1>5
    DEF MainInv, MainType, QuietOnceTold, ClosedOnceTold, NothingIsLate, Plain, Late
<1> QED BY <1>6, <1>7, <1>8 DEF MainInv

LEMMA EndsKeeps ==
    ASSUME MainInv, MainType', NEW a \in Attempts, Ends(a)
    PROVE  MainInv'
<1> USE DEF Attempts, None
<1>1. \A b \in Attempts : b # a => link[b] \in {"none", "closed"} /\ b \notin unsettled
    BY OthersAreOver DEF Ends, UnderWay
<1>2. MainType /\ link[a] \in {"up", "opening", "returned"} /\ (link[a] = "up" => connection = a)
    BY DEF MainInv, ConnectionIsUp, Ends
<1>3. busy /\ a \notin unsettled /\ (link[a] # "up" => connection = None)
    BY <1>1, <1>2 DEF MainInv, MainType, QuietOnceTold, Registered, ConnectionIsUp
<1>4. /\ xmpp # None => xmpp = a /\ kind[a] = "xmpp"
      /\ object # None => object = a /\ Object(kind[a])
    BY <1>1, <1>2 DEF MainInv, MainType, Registered, ObjectIsLive, Awaited
<1>5. UNCHANGED <<mix, kind, aborted, unsettled, returning, object, xmpp, controller>>
    BY DEF Ends, windowVars, user
<1>6. \/ /\ kind[a] = "tcp client" /\ link[a] = "up"
          /\ link' = [link EXCEPT ![a] = "closing"]
          /\ UNCHANGED <<connection, busy>>
       \/ /\ kind[a] = "udp" /\ link[a] = "up"
          /\ link' = [link EXCEPT ![a] = "closed"]
          /\ connection' = None
          /\ busy' = FALSE
       \/ /\ kind[a] = "xmpp"
          /\ link' = [link EXCEPT ![a] = IF link[a] = "up" THEN "lost" ELSE "adrift"]
          /\ UNCHANGED connection
          /\ busy' = TRUE
    BY DEF Ends, Goes, Emit
<1> HIDE DEF None
<1>7. OneAtATime'
    BY <1>1, <1>2, <1>5, <1>6 DEF MainType, OneAtATime, UnderWay
<1>8. FromMix'
    BY <1>2, <1>5, <1>6 DEF MainInv, MainType, FromMix
<1>9. ConnectionIsUp'
    BY <1>1, <1>2, <1>3, <1>5, <1>6 DEF MainType, ConnectionIsUp, Tcp
<1>10. Registered'
    BY <1>1, <1>2, <1>3, <1>4, <1>5, <1>6 DEF MainInv, MainType, Registered, Tcp, Awaited
<1>11. ObjectIsLive'
  <2>1. object = None
      BY <1>4, <1>6 DEF Object
  <2> QED BY <1>5, <2>1 DEF ObjectIsLive
<1>12. QuietOnceTold' /\ ClosedOnceTold' /\ NothingIsLate'
    BY <1>1, <1>2, <1>3, <1>5, <1>6
    DEF MainInv, MainType, QuietOnceTold, ClosedOnceTold, NothingIsLate, Plain, Late
<1> QED BY <1>7, <1>8, <1>9, <1>10, <1>11, <1>12 DEF MainInv

LEMMA XmppReconnectsKeeps ==
    ASSUME MainInv, MainType', NEW a \in Attempts, XmppReconnects(a)
    PROVE  MainInv'
<1> USE DEF Attempts, None
<1>1. \A b \in Attempts : b # a => link[b] \in {"none", "closed"} /\ b \notin unsettled
    BY OthersAreOver DEF XmppReconnects, UnderWay
<1>2. /\ MainType /\ link[a] \in {"lost", "adrift"}
      /\ link[a] = "lost" => connection = a
      /\ link[a] = "adrift" => connection = None
    BY <1>1 DEF MainInv, MainType, ConnectionIsUp, XmppReconnects
<1>3. link' = [link EXCEPT ![a] = IF link[a] = "lost" THEN "up" ELSE "returned"] /\ busy' = TRUE
    BY DEF XmppReconnects, Goes, Emit
<1>4. UNCHANGED <<mix, kind, aborted, unsettled, returning, connection, object, xmpp, controller>>
    BY DEF XmppReconnects, windowVars, user
<1> HIDE DEF None
<1>5. OneAtATime'
    BY <1>1, <1>2, <1>3, <1>4 DEF MainType, OneAtATime, UnderWay
<1>6. FromMix'
    BY <1>2, <1>3, <1>4 DEF MainInv, MainType, FromMix
<1>7. ConnectionIsUp'
    BY <1>1, <1>2, <1>3, <1>4 DEF MainType, ConnectionIsUp, Tcp
<1>8. Registered' /\ ObjectIsLive'
    BY <1>1, <1>2, <1>3, <1>4 DEF MainInv, MainType, Registered, ObjectIsLive, Tcp, Awaited
<1>9. QuietOnceTold' /\ ClosedOnceTold' /\ NothingIsLate'
    BY <1>3, <1>4 DEF MainInv, QuietOnceTold, ClosedOnceTold, NothingIsLate, Plain, Late
<1> QED BY <1>5, <1>6, <1>7, <1>8, <1>9 DEF MainInv

\* A late `ready' moves nothing but the busy flag.
LEMMA ReadyLateKeeps ==
    ASSUME MainInv, MainType', NEW a \in Attempts, ReadyLate(a)
    PROVE  MainInv' /\ Late
<1>1. Late /\ Late'
    BY DEF MainInv, NothingIsLate, ReadyLate, Late, windowVars, user
<1>2. UNCHANGED <<mix, link, kind, aborted, unsettled, connection, object, xmpp, controller>>
      /\ busy' = TRUE
    BY DEF ReadyLate, Emit, windowVars, user
<1> QED BY <1>1, <1>2
        DEF MainInv, OneAtATime, UnderWay, FromMix, ConnectionIsUp, Registered, ObjectIsLive,
            QuietOnceTold, ClosedOnceTold, NothingIsLate, Plain, Tcp

\* Steps that change nothing but the messages to the main process.
LEMMA MessagesKeep ==
    ASSUME MainInv, MainType', mix' = mix, UNCHANGED mainVars
    PROVE  MainInv'
BY DEF MainInv, OneAtATime, UnderWay, FromMix, ConnectionIsUp, Registered, ObjectIsLive,
       QuietOnceTold, ClosedOnceTold, NothingIsLate, Plain, Late, Tcp, mainVars, linkVars

LEMMA HandleConnectKeeps ==
    ASSUME Orderly, MainInv, MainType', NEW a \in Attempts, HandleConnect(a)
    PROVE  MainInv'
<1> USE DEF Attempts, None
<1>1. MainType /\ link[a] = "none" /\ mix' = mix /\ faults' = faults
    BY DEF MainInv, HandleConnect, windowVars, user
<1>2. Head(toMain) \in mix
    BY <1>1 DEF MainType, HandleConnect
<1>3. mix \subseteq Kind
    BY <1>1, PlaybackAssumption DEF MainType
<1>4. CASE UNCHANGED <<linkVars, connection, object, xmpp, controller, busy>>
    BY <1>1, <1>4, MessagesKeep DEF mainVars
<1>5. CASE ~ Active /\ Caught /\ UNCHANGED <<linkVars, object, controller>>
  <2>1. UNCHANGED <<connection, xmpp, busy>>
      BY <1>1, <1>5 DEF Active, Caught, MainType
  <2> QED BY <1>1, <1>5, <2>1, MessagesKeep DEF mainVars
<1>6. CASE ~ Active /\ Begin(a, Head(toMain))
  <2> DEFINE k == Head(toMain)
             opening == Object(k) \/ k = "xmpp"
  <2>1. connection = None /\ object = None /\ xmpp = None /\ ~ busy
      BY <1>6 DEF Active
  <2>2. \A b \in Attempts : link[b] \in {"none", "closed"} /\ b \notin unsettled
    <3>1. CASE ~ Late
        BY <2>1, <3>1 DEF MainInv, QuietOnceTold, HandleConnect, Ready
    <3>2. CASE Plain
        BY <2>1, <3>2 DEF MainInv, ClosedOnceTold
    <3> QED BY <3>1, <3>2 DEF Orderly
  <2>3. kind' = [kind EXCEPT ![a] = k] /\ busy' = TRUE
      BY <1>6 DEF Begin
  <2>4. link' = [link EXCEPT ![a] = IF opening THEN "opening" ELSE "resolving"]
      BY <1>6 DEF Begin, Goes
  <2>5. /\ object' = IF Object(k) THEN a ELSE None
        /\ xmpp' = IF k = "xmpp" THEN a ELSE None
        /\ controller' = IF k \in {"tcp client", "tcp server"} THEN a ELSE controller
      BY <1>6, <2>1 DEF Begin
  <2>6. UNCHANGED <<aborted, unsettled, returning, connection>>
      BY <1>6 DEF Begin
  <2> HIDE DEF k, None
  <2>7. k \in mix /\ k \in Kind
      BY <1>2, <1>3 DEF k
  <2>8. OneAtATime'
      BY <1>1, <2>2, <2>4, <2>6 DEF MainType, OneAtATime, UnderWay
  <2>9. FromMix'
      BY <1>1, <2>3, <2>4, <2>7 DEF MainInv, MainType, FromMix
  <2>10. ConnectionIsUp'
      BY <1>1, <2>1, <2>2, <2>4, <2>6 DEF MainType, ConnectionIsUp
  <2>11. Registered' /\ ObjectIsLive'
    <3>1. \A b \in Attempts : b # a => kind'[b] = kind[b] /\ link'[b] \in {"none", "closed"}
        BY <1>1, <2>2, <2>3, <2>4 DEF MainType
    <3>2. kind'[a] = k /\ link'[a] = IF opening THEN "opening" ELSE "resolving"
        BY <1>1, <2>3, <2>4 DEF MainType
    <3>3. unsettled' = {}
        BY <1>1, <2>2, <2>6 DEF MainType
    <3>4. controller' # None => Tcp(controller)' /\ link'[controller'] # "none"
      <4>1. CASE k \in {"tcp client", "tcp server"}
          BY <2>5, <3>2, <4>1 DEF Tcp
      <4>2. CASE k \notin {"tcp client", "tcp server"} /\ controller # None
        <5>1. controller' = controller /\ controller \in Attempts
            BY <1>1, <2>5, <4>2 DEF MainType
        <5>2. Tcp(controller) /\ link[controller] # "none"
            BY <4>2 DEF MainInv, Registered
        <5>3. controller # a
            BY <1>1, <5>2
        <5> QED BY <1>1, <2>3, <2>4, <5>1, <5>2, <5>3 DEF Tcp, MainType
      <4> QED BY <2>5, <4>1, <4>2
    <3>5. xmpp' # None => kind'[xmpp'] = "xmpp" /\ link'[xmpp'] \in Awaited
        BY <2>5, <3>2 DEF Awaited
    <3>6. \A b \in Attempts : Object(kind'[b]) /\ link'[b] \in {"resolving", "opening"} =>
              object' = b
        BY <2>5, <3>1, <3>2
    <3>7. \A b \in Attempts : Tcp(b)' /\ link'[b] \in {"resolving", "opening"} => controller' = b
        BY <2>5, <3>1, <3>2 DEF Tcp
    <3>8. \A b \in Attempts : link'[b] \notin {"cleaning", "adrift", "returned"}
        BY <3>1, <3>2
    <3>9. object' # None => Object(kind'[object']) /\ link'[object'] = "opening"
        BY <2>5, <3>2
    <3> QED BY <3>3, <3>4, <3>5, <3>6, <3>7, <3>8, <3>9 DEF Registered, ObjectIsLive
  <2>12. QuietOnceTold' /\ ClosedOnceTold' /\ NothingIsLate'
    <3>1. Plain' => Plain /\ controller' = controller
        BY <1>1, <2>5, <2>6, <2>7 DEF Plain, TcpKinds
    <3> QED BY <1>1, <2>3, <2>6, <3>1
            DEF MainInv, QuietOnceTold, ClosedOnceTold, NothingIsLate, Late
  <2> QED BY <2>8, <2>9, <2>10, <2>11, <2>12 DEF MainInv
<1> QED BY <1>4, <1>5, <1>6 DEF HandleConnect

\* A disconnect cancels at most the XMPP attempt whose connect() is pending.
LEMMA Cancelled ==
    ASSUME MainInv, HandleDisconnect
    PROVE  LET cancelled == {b \in Attempts : b = xmpp /\ link[b] \in Awaited}
           IN  /\ unsettled' = unsettled \cup cancelled
               /\ aborted' = aborted \cup cancelled \cup ({controller} \ {None})
               /\ controller' = None
               /\ NothingIsLate'
               /\ Plain' => unsettled' = {}
               /\ UNCHANGED <<mix, kind, faults>>
<1>1. UNCHANGED <<mix, kind, faults>>
    BY DEF HandleDisconnect, windowVars, user
<1>2. NothingIsLate'
    BY <1>1 DEF MainInv, NothingIsLate, HandleDisconnect, Returning, Late
<1>3. Plain' => unsettled' = {}
    BY <1>1 DEF MainInv, ClosedOnceTold, Plain, HandleDisconnect
<1> QED BY <1>1, <1>2, <1>3 DEF HandleDisconnect

\* Disconnecting while nothing is connected.  That a controller is left means that TCP is
\* what the user uses, so that nothing but TCP can be under way.
LEMMA DisconnectsNothing ==
    ASSUME Orderly, MainInv, MainType', HandleDisconnect,
           connection = None, xmpp = None, Destroy({}),
           IF controller # None THEN Emit("disconnected") ELSE UNCHANGED <<busy, toWindow>>,
           UNCHANGED <<connection, object, xmpp>>
    PROVE  MainInv'
<1> USE DEF Attempts, None
<1>1. MainType
    BY DEF MainInv
<1>2. {b \in Attempts : b = xmpp /\ link[b] \in Awaited} = {}
    OBVIOUS
<1>3. /\ UNCHANGED <<mix, kind, unsettled>>
      /\ controller' = None /\ aborted' = aborted \cup ({controller} \ {None})
    BY <1>2, Cancelled
<1>4. link' = [b \in Attempts |-> IF Pending(b) THEN "closing" ELSE link[b]]
    BY DEF Destroy
<1>5. \A b \in Attempts : ~ Binding(b)
  <2>1. CASE Plain
      BY <2>1 DEF MainInv, FromMix, Plain, TcpKinds, Binding
  <2> QED BY <2>1 DEF HandleDisconnect, Orderly
<1>6. busy' = IF controller # None THEN FALSE ELSE busy
    BY DEF Emit
<1> HIDE DEF None
<1>7. \A b \in Attempts : Tcp(b) => link'[b] # "opening"
    BY <1>1, <1>4, <1>5 DEF Tcp, Pending, Binding
<1>8. OneAtATime' /\ FromMix'
    BY <1>1, <1>3, <1>4 DEF MainInv, OneAtATime, UnderWay, FromMix, Pending
<1>9. ConnectionIsUp'
    BY <1>1, <1>4 DEF MainInv, ConnectionIsUp, Pending
<1>10. ObjectIsLive'
    BY <1>1, <1>3, <1>4 DEF MainInv, MainType, ObjectIsLive, Object, Pending
<1>11. \A b \in Attempts : Tcp(b) /\ link'[b] = "resolving" => b \in aborted'
  <2>1. \A b \in Attempts : link'[b] = "resolving" => link[b] = "resolving"
      BY <1>4
  <2>2. \A b \in Attempts : b # None
      BY DEF None
  <2> QED BY <1>3, <2>1, <2>2 DEF MainInv, Registered
<1>12. Registered'
  <2>1. \A b \in Attempts : link'[b] \in {link[b], "closing"}
      BY <1>4
  <2>2. \A b \in unsettled' : kind'[b] = "xmpp" /\ link'[b] \in {"closing", "closed"}
      BY <1>1, <1>3, <2>1 DEF MainInv, MainType, Registered
  <2>3. \A b \in Attempts : Tcp(b)' /\ link'[b] \in {"resolving", "opening"} =>
            link'[b] = "resolving" /\ b \in aborted'
      BY <1>3, <1>7, <1>11 DEF Tcp
  <2>4. \A b \in Attempts : Object(kind'[b]) /\ link'[b] \in {"resolving", "opening"} =>
            object' = b
      BY <1>1, <1>3, <2>1 DEF MainInv, MainType, Registered
  <2>5. \A b \in Attempts : link'[b] \in {"cleaning", "adrift", "returned"} => kind'[b] = "xmpp"
      BY <1>1, <1>3, <2>1 DEF MainInv, MainType, Registered
  <2> QED BY <1>3, <2>2, <2>3, <2>4, <2>5 DEF Registered
<1>13. QuietOnceTold' /\ ClosedOnceTold'
  <2>1. CASE controller = None
    <3>1. busy' = busy /\ aborted' = aborted
        BY <1>3, <1>6, <2>1
    <3>2. QuietOnceTold'
        BY <1>1, <1>4, <3>1 DEF MainInv, MainType, QuietOnceTold, Pending
    <3>3. ClosedOnceTold'
        BY <1>1, <1>3, <1>4, <2>1, <3>1 DEF MainInv, MainType, ClosedOnceTold, Plain, Pending
    <3> QED BY <3>2, <3>3
  <2>2. CASE controller # None
    <3>1. ~ Plain
        BY <2>2 DEF MainInv, ClosedOnceTold
    <3>2. ~ Late /\ TcpApart
        BY <3>1 DEF Orderly
    <3>3. controller \in Attempts /\ kind[controller] \in mix \cap TcpKinds
        BY <1>1, <2>2 DEF MainInv, MainType, Registered, FromMix, Tcp, TcpKinds
    <3>4. mix \subseteq TcpKinds
        BY <1>1, <3>2, <3>3 DEF TcpApart, MainType
    <3>5. \A b \in Attempts : link[b] # "none" => Tcp(b)
        BY <3>4 DEF MainInv, FromMix, Tcp, TcpKinds
    <3>6. \A b \in Attempts : link[b] \notin {"up", "lost"}
        BY <1>1 DEF MainInv, ConnectionIsUp, None, Attempts
    <3>7. \A b \in Attempts : link[b] \notin {"cleaning", "adrift", "returned"}
        BY <3>5 DEF MainInv, Registered, Tcp
    <3>8. \A b \in Attempts : link[b] \in LinkStates
        BY <1>1 DEF MainType
    <3>9. \A b \in Attempts : \/ link'[b] \in {"none", "closed", "closing"}
                              \/ link'[b] = "resolving" /\ b \in aborted'
        BY <1>4, <1>7, <1>11, <3>5, <3>6, <3>7, <3>8 DEF LinkStates
    <3>10. ~ Plain'
        BY <1>3, <3>3 DEF Plain
    <3> QED BY <3>9, <3>10 DEF QuietOnceTold, ClosedOnceTold
  <2> QED BY <2>1, <2>2
<1>14. NothingIsLate'
    BY Cancelled
<1> QED BY <1>8, <1>9, <1>10, <1>12, <1>13, <1>14 DEF MainInv

\* What is let go of closes, and nothing else is under way.
LEMMA LetGoLinks ==
    ASSUME MainInv, NEW c \in Attempts, LetGo(c), xmpp = c \/ (xmpp = None /\ connection = c)
    PROVE  /\ UnderWay(c) /\ link[c] # "none"
           /\ \/ xmpp = c /\ kind[c] = "xmpp" /\ link[c] \in Awaited \cup {"up", "lost"}
              \/ connection = c /\ link[c] \in {"up", "lost"}
              \/ connection = c /\ link[c] = "closing" /\ Tcp(c)
           /\ link' = [link EXCEPT ![c] = "closing"]
<1> USE DEF Attempts, None
<1>1. MainType
    BY DEF MainInv
<1>2. \/ xmpp = c /\ kind[c] = "xmpp" /\ link[c] \in Awaited \cup {"up", "lost"}
      \/ connection = c /\ link[c] \in {"up", "lost"}
      \/ connection = c /\ link[c] = "closing" /\ Tcp(c)
    BY DEF MainInv, Registered, ConnectionIsUp
<1>3. UnderWay(c) /\ link[c] # "none"
    BY <1>2 DEF UnderWay, Awaited
<1>4. \A b \in Attempts : b # c => link[b] \in {"none", "closed"} /\ b \notin unsettled
    BY <1>3, OthersAreOver
<1>5. link' = [link EXCEPT ![c] = "closing"]
  <2>1. link' = [b \in Attempts |-> IF b = c THEN "closing" ELSE link[b]]
    <3>1. \A b \in Attempts : b # c => ~ Pending(b)
        BY <1>4 DEF Pending
    <3> QED BY <3>1 DEF LetGo, Destroy
  <2> QED BY <1>1, <2>1 DEF MainType
<1> QED BY <1>2, <1>3, <1>5

\* Disconnecting what is connected, or an XMPP transport that still connects.
LEMMA LetGoKeeps ==
    ASSUME Orderly, MainInv, MainType', HandleDisconnect, NEW c \in Attempts, LetGo(c),
           xmpp = c \/ (xmpp = None /\ connection = c)
    PROVE  MainInv'
<1> USE DEF Attempts, None
<1>1. MainType
    BY DEF MainInv
<1>2. /\ UNCHANGED <<mix, kind>>
      /\ unsettled' = unsettled \cup {b \in Attempts : b = xmpp /\ link[b] \in Awaited}
      /\ controller' = None /\ aborted \subseteq aborted'
      /\ Plain' => unsettled' = {}
    BY Cancelled
<1>3. \/ xmpp = c /\ kind[c] = "xmpp" /\ link[c] \in Awaited \cup {"up", "lost"}
      \/ connection = c /\ link[c] \in {"up", "lost"}
      \/ connection = c /\ link[c] = "closing" /\ Tcp(c)
    BY LetGoLinks
<1>4. UnderWay(c) /\ link[c] # "none"
    BY LetGoLinks
<1>5. \A b \in Attempts : b # c => link[b] \in {"none", "closed"} /\ b \notin unsettled
    BY <1>4, OthersAreOver
<1>6. link' = [link EXCEPT ![c] = "closing"]
    BY LetGoLinks
<1>7. busy
  <2> SUFFICES ASSUME ~ busy
               PROVE  FALSE
      OBVIOUS
  <2>1. connection = None /\ link[c] \notin Awaited \cup {"up", "lost"}
      BY DEF MainInv, QuietOnceTold, Awaited
  <2> QED BY <1>3, <2>1
<1>8. /\ connection' = IF kind[c] = "tcp server" THEN c ELSE None
      /\ kind[c] # "tcp client" => busy' = busy
    BY DEF LetGo
<1>9. xmpp' = None
  <2>1. xmpp # None => kind[c] = "xmpp"
      BY DEF MainInv, Registered
  <2> QED BY <2>1 DEF LetGo
<1>10. object' = None
  <2>1. object # None => object = c /\ Object(kind[c])
      BY <1>1, <1>5 DEF MainInv, MainType, ObjectIsLive
  <2> QED BY <2>1 DEF LetGo
<1>11. unsettled' \subseteq {c} \cup unsettled /\ (c \in unsettled' => kind[c] = "xmpp")
  <2>1. {b \in Attempts : b = xmpp /\ link[b] \in Awaited} \subseteq {c}
      OBVIOUS
  <2> QED BY <1>2, <2>1 DEF MainInv, Registered
<1> HIDE DEF None
<1>12. OneAtATime'
    BY <1>1, <1>5, <1>6, <1>11 DEF MainType, OneAtATime, UnderWay
<1>13. FromMix'
    BY <1>1, <1>2, <1>4, <1>6 DEF MainInv, MainType, FromMix
<1>14. ConnectionIsUp'
    BY <1>1, <1>2, <1>5, <1>6, <1>8 DEF MainType, ConnectionIsUp, Tcp
<1>15. Registered' /\ ObjectIsLive'
    BY <1>1, <1>2, <1>5, <1>6, <1>9, <1>10, <1>11 DEF MainType, Registered, ObjectIsLive, Tcp
<1>16. QuietOnceTold'
    BY <1>1, <1>5, <1>6, <1>7, <1>8 DEF MainType, QuietOnceTold
<1>17. ClosedOnceTold'
  <2>1. Plain' => kind[c] # "tcp client"
      BY <1>2, <1>4 DEF MainInv, FromMix, Plain, TcpKinds
  <2> QED BY <1>2, <1>7, <1>8, <2>1 DEF ClosedOnceTold
<1>18. NothingIsLate'
    BY Cancelled
<1> QED BY <1>12, <1>13, <1>14, <1>15, <1>16, <1>17, <1>18 DEF MainInv

LEMMA HandleDisconnectKeeps ==
    ASSUME Orderly, MainInv, MainType', HandleDisconnect
    PROVE  MainInv'
<1>1. xmpp \in Attempts \cup {None} /\ connection \in Attempts \cup {None}
    BY DEF MainInv, MainType
<1> QED BY <1>1, DisconnectsNothing, LetGoKeeps DEF HandleDisconnect

\* Nothing is ever taken out of `aborted', and the user stays the same.
LEMMA AbortedGrows ==
    ASSUME MainType, [Next]_vars
    PROVE  mix' = mix /\ aborted \subseteq aborted'
<1>1. CASE WindowSteps
    BY <1>1, UserStays DEF WindowSteps, mainVars, linkVars
<1>2. CASE Handles
    BY <1>2 DEF Handles, HandleDisconnect, HandleConnect, Begin, linkVars, windowVars, user
<1>3. ASSUME NEW a \in Attempts, Settles(a) \/ Ends(a) \/ XmppReconnects(a) \/ ReadyLate(a)
      PROVE  mix' = mix /\ aborted \subseteq aborted'
    BY <1>3 DEF Settles, Resolves, Opens, OpenFails, Cleaned, RejectsLate, Closes, Ends,
                XmppReconnects, ReadyLate, windowVars, user
<1>4. CASE UNCHANGED vars
    BY <1>4 DEF vars, playbackVars, windowVars, user, mainVars, linkVars
<1> QED BY <1>1, <1>2, <1>3, <1>4 DEF Next, MainStep

OrderlyInv == MainType /\ (Orderly => MainInv)

LEMMA MainInvInductive == OrderlyInv /\ [Next]_vars => OrderlyInv'
<1> SUFFICES ASSUME OrderlyInv, [Next]_vars, Orderly'
             PROVE  MainInv'
    BY MainTypeInductive DEF OrderlyInv
<1>1. MainType'
    BY MainTypeInductive DEF OrderlyInv
<1>2. Orderly /\ MainInv
    BY AbortedGrows, OrderlyBefore DEF OrderlyInv
<1>3. CASE WindowSteps
    BY <1>1, <1>2, <1>3, WindowAsks, MessagesKeep DEF OrderlyInv
<1>4. CASE HandleDisconnect
    BY <1>1, <1>2, <1>4, HandleDisconnectKeeps
<1>5. ASSUME NEW a \in Attempts, HandleConnect(a)
      PROVE  MainInv'
    BY <1>1, <1>2, <1>5, HandleConnectKeeps
<1>6. ASSUME NEW a \in Attempts, Settles(a)
      PROVE  MainInv'
    BY <1>1, <1>2, <1>6, ResolvesKeeps, OpensKeeps, OpenFailsKeeps, CleanedKeeps,
       RejectsLateKeeps, ClosesKeeps DEF Settles
<1>7. ASSUME NEW a \in Attempts, Ends(a) \/ XmppReconnects(a) \/ ReadyLate(a)
      PROVE  MainInv'
    BY <1>1, <1>2, <1>7, EndsKeeps, XmppReconnectsKeeps, ReadyLateKeeps
<1>8. CASE UNCHANGED vars
  <2>1. mix' = mix /\ UNCHANGED mainVars
      BY <1>8 DEF vars, playbackVars, windowVars, user
  <2> QED BY <1>1, <1>2, <2>1, MessagesKeep
<1> QED BY <1>3, <1>4, <1>5, <1>6, <1>7, <1>8 DEF Next, MainStep, Handles

LEMMA MainInvInit == Init => MainInv
<1> USE DEF Attempts, None
<1>1. Init => OneAtATime /\ FromMix /\ ConnectionIsUp /\ Registered /\ ObjectIsLive
    BY MainTypeInit DEF Init, MainInit, OneAtATime, UnderWay, FromMix, ConnectionIsUp, Registered,
                ObjectIsLive, Tcp
<1>2. Init => QuietOnceTold /\ ClosedOnceTold /\ NothingIsLate
    BY MainTypeInit DEF Init, MainInit, QuietOnceTold, ClosedOnceTold, NothingIsLate
<1> QED BY <1>1, <1>2, MainTypeInit DEF MainInv

\* For any number of attempts, and whatever comes late: what a user of the object transports
\* and of UDP was told is disconnected is closed and forgotten, as long as no attempt was
\* cancelled (main.js, emitConnectionStatus and the disconnect handler).
THEOREM TornDownWhenTold == Spec => []DisconnectedMeansTornDown
<1>1. OrderlyInv => DisconnectedMeansTornDown
  <2> SUFFICES ASSUME OrderlyInv, mix \cap {"tcp client", "tcp server"} = {}, aborted = {}, ~ busy
               PROVE  /\ connection = None /\ object = None /\ xmpp = None
                      /\ \A a \in Attempts : link[a] \in {"none", "closed"}
      BY DEF DisconnectedMeansTornDown
  <2>1. Plain /\ MainInv
      BY DEF OrderlyInv, Orderly, Plain, TcpKinds
  <2>2. connection = None /\ \A a \in Attempts : link[a] \in {"none", "closed"}
      BY <2>1 DEF MainInv, QuietOnceTold, ClosedOnceTold
  <2>3. object = None /\ xmpp = None
      BY <2>1, <2>2 DEF MainInv, MainType, ObjectIsLive, Registered, Awaited
  <2> QED BY <2>2, <2>3
<1>2. Init => OrderlyInv
    BY MainInvInit, MainTypeInit DEF OrderlyInv
<1> QED BY <1>1, <1>2, MainInvInductive, PTL DEF Spec

-----------------------------------------------------------------------------
(* What the window shows when all is quiet.                                *)

Shown(s) == IF s = "refused" THEN "disconnected" ELSE s

\* The status the window will show when all that it was told has arrived.
Heard == IF toWindow = <<>> THEN win.status ELSE Shown(toWindow[Len(toWindow)])

\* A request to connect is on its way.
Asked == \E i \in DOMAIN toMain : toMain[i] # "disconnect"

\* A request is alone and finds nothing that would refuse it; only requests to disconnect
\* may follow it.
AskedWhenQuiet ==
    Asked => /\ Head(toMain) # "disconnect"
             /\ \A i \in 2 .. Len(toMain) : toMain[i] = "disconnect"
             /\ toWindow = <<>>
             /\ win.status = "connecting"
             /\ \A a \in Attempts : link[a] \in {"none", "closed"} /\ a \notin unsettled
             /\ connection = None /\ object = None /\ xmpp = None /\ ~ busy

\* The states of an attempt for which the window shows so, once it has heard all.
ShownConnected == {"up", "returned", "closing", "cleaning"}
ShownConnecting == {"resolving", "opening", "adrift", "lost", "closing", "cleaning"}

\* Otherwise what was told last is the busy flag, and there is an attempt to show for it.
ToldWhatIs ==
    ~ Asked => /\ busy <=> Heard # "disconnected"
               /\ Heard = "connected" => \E a \in Attempts : link[a] \in ShownConnected
               /\ Heard = "connecting" => \E a \in Attempts : link[a] \in ShownConnecting

LinkIsTold == \A a \in Attempts : /\ link[a] = "up" => Heard = "connected"
                                  /\ link[a] = "lost" => Heard = "connecting"

Agreement == AskedWhenQuiet /\ ToldWhatIs /\ LinkIsTold

LEMMA HeardLast ==
    ASSUME toWindow \in Seq(Told)
    PROVE  /\ \A s \in Told : toWindow' = Append(toWindow, s) => Heard' = Shown(s)
           /\ toWindow' = toWindow \o <<"disconnected", "refused">> => Heard' = "disconnected"
           /\ UNCHANGED <<toWindow, win>> => Heard' = Heard
           /\ UNCHANGED toWindow /\ win'.status = win.status => Heard' = Heard
<1>1. \A s \in Told : toWindow' = Append(toWindow, s) => Heard' = Shown(s)
    BY DEF Heard
<1>2. ASSUME toWindow' = toWindow \o <<"disconnected", "refused">>
      PROVE  Heard' = "disconnected"
  <2>1. Len(toWindow') = Len(toWindow) + 2 /\ toWindow'[Len(toWindow) + 2] = "refused"
      BY <1>2
  <2> QED BY <2>1 DEF Heard, Shown
<1> QED BY <1>1, <1>2 DEF Heard

\* An attempt that is under way moves, and the window is told accordingly.
LEMMA OneMoves ==
    ASSUME MainInv, Agreement, NEW a \in Attempts, UnderWay(a), NEW state,
           UNCHANGED <<toMain, kind>>, link' = [link EXCEPT ![a] = state],
           busy' <=> Heard' # "disconnected",
           Heard' = "connected" => state \in ShownConnected,
           Heard' = "connecting" => state \in ShownConnecting,
           state = "up" => Heard' = "connected",
           state = "lost" => Heard' = "connecting"
    PROVE  Agreement' /\ ~ Asked
<1>1. \A b \in Attempts : b # a => link[b] \in {"none", "closed"} /\ b \notin unsettled
    BY OthersAreOver
<1>2. ~ Asked /\ ~ Asked'
    BY DEF Agreement, AskedWhenQuiet, Asked, UnderWay
<1>3. link'[a] = state /\ \A b \in Attempts : b # a => link'[b] = link[b]
    BY DEF MainInv, MainType
<1>4. LinkIsTold'
    BY <1>1, <1>3 DEF LinkIsTold
<1>5. ToldWhatIs'
    BY <1>3 DEF ToldWhatIs
<1> QED BY <1>2, <1>4, <1>5 DEF Agreement, AskedWhenQuiet

\* The busy flag and what the window was told last go together while something is under way.
LEMMA BusyIsHeard ==
    ASSUME Agreement, NEW a \in Attempts, UnderWay(a)
    PROVE  ~ Asked /\ (busy <=> Heard # "disconnected")
    BY DEF Agreement, AskedWhenQuiet, ToldWhatIs, UnderWay

LEMMA SettlesAgrees ==
    ASSUME MainInv, Agreement, toWindow \in Seq(Told), NEW a \in Attempts, Settles(a)
    PROVE  Agreement'
<1> USE HeardLast DEF Told, Statuses, Shown, ShownConnected, ShownConnecting
<1>1. MainType
    BY DEF MainInv
<1>2. UnderWay(a)
    BY DEF Settles, Resolves, Opens, OpenFails, Cleaned, RejectsLate, Closes, UnderWay, Awaited
<1>3. ~ Asked /\ (busy <=> Heard # "disconnected")
    BY <1>2, BusyIsHeard
<1>4. CASE Resolves(a)
  <2>1. link[a] = "resolving"
      BY <1>4 DEF Resolves
  <2>2. UNCHANGED <<toMain, kind, win>>
      BY <1>4, ResolvedLinks DEF windowVars
  <2>3. CASE link' = [link EXCEPT ![a] = "opening"] /\ UNCHANGED <<busy, toWindow>>
    <3>1. Heard' = Heard
        BY <2>2, <2>3
    <3>2. Heard # "connected"
        BY <1>2, <1>3, <2>1, OthersAreOver DEF Agreement, ToldWhatIs
    <3> QED BY <1>2, <1>3, <2>2, <2>3, <3>1, <3>2, OneMoves
  <2>4. CASE /\ link' = [link EXCEPT ![a] = "closed"]
             /\ busy' = FALSE
             /\ toWindow' = toWindow \o <<"disconnected", "refused">>
      BY <1>2, <2>2, <2>4, OneMoves
  <2> QED BY <1>4, <2>3, <2>4, ResolvedLinks
<1>5. CASE Opens(a)
  <2>1. link' = [link EXCEPT ![a] = "up"] /\ busy' = TRUE /\ Heard' = "connected"
      BY <1>5 DEF Opens, Goes, Emit
  <2>2. UNCHANGED <<toMain, kind>>
      BY <1>5 DEF Opens
  <2> QED BY <1>2, <2>1, <2>2, OneMoves
<1>6. CASE OpenFails(a)
  <2>1. UNCHANGED <<toMain, kind, win>>
      BY <1>6 DEF OpenFails, windowVars
  <2>2. CASE Emit("disconnected") /\ \E state \in {"closing", "closed"} : Goes(a, state)
    <3>1. busy' = FALSE /\ Heard' = "disconnected"
        BY <2>2 DEF Emit
    <3> QED BY <1>2, <2>1, <2>2, <3>1, OneMoves DEF Goes
  <2>3. CASE Goes(a, "cleaning") /\ UNCHANGED <<busy, toWindow>>
    <3>1. Heard' = Heard
        BY <2>1, <2>3
    <3> QED BY <1>2, <1>3, <2>1, <2>3, <3>1, OneMoves DEF Goes
  <2> QED BY <1>6, <2>2, <2>3 DEF OpenFails
<1>7. CASE Cleaned(a) \/ RejectsLate(a) \/ Closes(a)
  <2>1. /\ busy' = FALSE /\ Heard' = "disconnected"
        /\ UNCHANGED <<toMain, kind>>
      BY <1>7 DEF Cleaned, RejectsLate, Closes, Emit
  <2>2. \E state \in {link[a], "closed"} :
            link' = [link EXCEPT ![a] = state] /\ state \notin {"up", "lost"}
      BY <1>1, <1>7 DEF MainInv, MainType, Registered, Cleaned, RejectsLate, Closes, Goes
  <2> QED BY <1>2, <2>1, <2>2, OneMoves
<1> QED BY <1>4, <1>5, <1>6, <1>7 DEF Settles

LEMMA EndsAgrees ==
    ASSUME MainInv, Agreement, toWindow \in Seq(Told), NEW a \in Attempts,
           Ends(a) \/ XmppReconnects(a)
    PROVE  Agreement'
<1> USE HeardLast DEF Told, Statuses, Shown, ShownConnected, ShownConnecting
<1>1. UnderWay(a)
    BY DEF Ends, XmppReconnects, UnderWay
<1>2. ~ Asked /\ (busy <=> Heard # "disconnected")
    BY <1>1, BusyIsHeard
<1>3. UNCHANGED <<toMain, kind, win>>
    BY DEF Ends, XmppReconnects, windowVars
<1>4. CASE Ends(a) /\ link[a] = "up" /\ Goes(a, "closing") /\ UNCHANGED <<busy, toWindow>>
  <2>1. Heard = "connected" /\ Heard' = Heard
      BY <1>3, <1>4 DEF Agreement, LinkIsTold
  <2> QED BY <1>1, <1>2, <1>3, <1>4, <2>1, OneMoves DEF Goes
<1>5. CASE Ends(a) /\ Goes(a, "closed") /\ Emit("disconnected")
  <2>1. Heard' = "disconnected" /\ busy' = FALSE
      BY <1>5 DEF Emit
  <2> QED BY <1>1, <1>3, <1>5, <2>1, OneMoves DEF Goes
<1>6. CASE Ends(a) /\ Emit("connecting") /\ \E state \in {"lost", "adrift"} : Goes(a, state)
  <2>1. Heard' = "connecting" /\ busy' = TRUE
      BY <1>6 DEF Emit
  <2> QED BY <1>1, <1>3, <1>6, <2>1, OneMoves DEF Goes
<1>7. CASE XmppReconnects(a)
  <2>1. Heard' = "connected" /\ busy' = TRUE
      BY <1>7 DEF XmppReconnects, Emit
  <2>2. \E state \in {"up", "returned"} : link' = [link EXCEPT ![a] = state]
      BY <1>7 DEF XmppReconnects, Goes
  <2> QED BY <1>1, <1>3, <2>1, <2>2, OneMoves
<1> QED BY <1>4, <1>5, <1>6, <1>7 DEF Ends

\* Only a request to disconnect is taken while no attempt was asked for.
LEMMA NothingAsked ==
    ASSUME MainInv, AskedWhenQuiet, HandleDisconnect
    PROVE  ~ Asked /\ ~ Asked'
<1>1. toMain \in Seq(mix \cup {"disconnect"})
    BY DEF MainInv, MainType
<1>2. ~ Asked
    BY DEF AskedWhenQuiet, HandleDisconnect
<1>3. \A i \in 1 .. Len(toMain) : toMain[i] = "disconnect"
    BY <1>1, <1>2 DEF Asked
<1>4. toMain' = Tail(toMain) /\ toMain # <<>>
    BY DEF HandleDisconnect
<1> QED BY <1>1, <1>2, <1>3, <1>4 DEF Asked

LEMMA HandleDisconnectAgrees ==
    ASSUME MainInv, Agreement, toWindow \in Seq(Told), HandleDisconnect
    PROVE  Agreement'
<1> USE HeardLast DEF Told, Statuses, Shown, ShownConnected, ShownConnecting
<1>1. ~ Asked /\ ~ Asked'
    BY NothingAsked DEF Agreement
<1>2. MainType /\ UNCHANGED <<kind, win>>
    BY DEF MainInv, HandleDisconnect, windowVars
<1>3. busy <=> Heard # "disconnected"
    BY <1>1 DEF Agreement, ToldWhatIs
<1>4. ASSUME connection = None, Destroy({}),
             IF controller # None THEN Emit("disconnected") ELSE UNCHANGED <<busy, toWindow>>
      PROVE  Agreement'
  <2>1. \A a \in Attempts : link'[a] = IF Pending(a) THEN "closing" ELSE link[a]
      BY <1>4 DEF Destroy
  <2>2. \A a \in Attempts : link[a] \notin {"up", "lost"}
      BY <1>4 DEF MainInv, ConnectionIsUp, None, Attempts
  <2>3. Heard' \in {Heard, "disconnected"} /\ (busy' <=> Heard' # "disconnected")
      BY <1>2, <1>3, <1>4 DEF Emit
  <2>4. LinkIsTold'
      BY <2>1, <2>2 DEF LinkIsTold
  <2>5. ToldWhatIs'
    <3>1. Heard' = "connected" => \E a \in Attempts : link'[a] \in ShownConnected
        BY <1>1, <2>1, <2>3 DEF Agreement, ToldWhatIs
    <3>2. Heard' = "connecting" => \E a \in Attempts : link'[a] \in ShownConnecting
        BY <1>1, <2>1, <2>3 DEF Agreement, ToldWhatIs
    <3> QED BY <2>3, <3>1, <3>2 DEF ToldWhatIs
  <2> QED BY <1>1, <2>4, <2>5 DEF Agreement, AskedWhenQuiet
<1>5. ASSUME NEW c \in Attempts, LetGo(c), xmpp = c \/ (xmpp = None /\ connection = c)
      PROVE  Agreement'
  <2>1. /\ UnderWay(c)
        /\ link' = [link EXCEPT ![c] = "closing"]
      BY <1>5, LetGoLinks
  <2>2. \A b \in Attempts : b # c => link[b] \in {"none", "closed"}
      BY <2>1, OthersAreOver
  <2>3. \A b \in Attempts : link'[b] = IF b = c THEN "closing" ELSE link[b]
      BY <1>2, <2>1 DEF MainType
  <2>4. Heard' \in {Heard, "disconnected"} /\ (busy' <=> Heard' # "disconnected")
      BY <1>2, <1>3, <1>5 DEF LetGo, Emit
  <2>5. LinkIsTold'
      BY <2>2, <2>3 DEF LinkIsTold
  <2>6. ToldWhatIs'
      BY <2>3, <2>4 DEF ToldWhatIs
  <2> QED BY <1>1, <2>5, <2>6 DEF Agreement, AskedWhenQuiet
<1>6. xmpp \in Attempts \cup {None} /\ connection \in Attempts \cup {None}
    BY <1>2 DEF MainType
<1> QED BY <1>4, <1>5, <1>6 DEF HandleDisconnect

LEMMA HandleConnectAgrees ==
    ASSUME MainInv, Agreement, toWindow \in Seq(Told), NEW a \in Attempts, HandleConnect(a)
    PROVE  Agreement'
<1> USE HeardLast DEF Told, Statuses, Shown, ShownConnected, ShownConnecting
<1>1. MainType /\ UNCHANGED win /\ toMain # <<>> /\ toMain' = Tail(toMain) /\ link[a] = "none"
    BY DEF MainInv, HandleConnect, windowVars
<1>2. Asked
  <2>1. 1 \in DOMAIN toMain /\ toMain[1] # "disconnect"
      BY <1>1 DEF MainType, HandleConnect
  <2> QED BY <2>1 DEF Asked
<1>3. /\ \A i \in 2 .. Len(toMain) : toMain[i] = "disconnect"
      /\ toWindow = <<>> /\ win.status = "connecting"
      /\ \A b \in Attempts : link[b] \in {"none", "closed"} /\ b \notin unsettled
      /\ connection = None /\ object = None /\ xmpp = None /\ ~ busy
    BY <1>2 DEF Agreement, AskedWhenQuiet
<1>4. ~ Asked'
    BY <1>1, <1>3 DEF Asked, MainType
<1>5. ASSUME Heard' = "disconnected", ~ busy', UNCHANGED link
      PROVE  Agreement'
    BY <1>3, <1>4, <1>5 DEF Agreement, AskedWhenQuiet, ToldWhatIs, LinkIsTold
<1>6. CASE toWindow' = Append(toWindow, "refused") /\ UNCHANGED <<linkVars, busy>>
    BY <1>3, <1>5, <1>6 DEF linkVars
<1>7. CASE Caught /\ UNCHANGED linkVars
    BY <1>5, <1>7 DEF Caught, linkVars
<1>8. CASE Begin(a, Head(toMain))
  <2> DEFINE k == Head(toMain)
             state == IF Object(k) \/ k = "xmpp" THEN "opening" ELSE "resolving"
  <2>1. /\ link' = [link EXCEPT ![a] = state]
        /\ busy' = TRUE /\ UNCHANGED toWindow
      BY <1>8 DEF Begin, Goes
  <2>2. Heard' = "connecting"
      BY <1>1, <1>3, <2>1 DEF Heard
  <2>3. link'[a] = state /\ \A b \in Attempts : b # a => link'[b] = link[b]
      BY <1>1, <2>1 DEF MainType
  <2>4. ToldWhatIs'
      BY <2>1, <2>2, <2>3 DEF ToldWhatIs
  <2>5. LinkIsTold'
      BY <1>3, <2>3 DEF LinkIsTold
  <2> QED BY <1>4, <2>4, <2>5 DEF Agreement, AskedWhenQuiet
<1> QED BY <1>6, <1>7, <1>8 DEF HandleConnect

\* Whatever is done to playback leaves the status alone.
LEMMA StatusStays ==
    ASSUME win \in WindowType,
           \/ Tick \/ PressPlay \/ PressStep \/ Seek \/ ChangeRate \/ LoadFile \/ FileLoaded
    PROVE  win'.status = win.status /\ UNCHANGED <<toMain, toWindow>>
<1>1. ASSUME NEW w \in WindowType
      PROVE  /\ PlayPause(w).status = w.status /\ ClickPlay(w).status = w.status
             /\ Restart(w).status = w.status
    BY DEF WindowType, PlayPause, ClickPlay, Restart, StartSending, ClearInterval
<1>2. CASE Tick \/ PressStep
    BY <1>1, <1>2 DEF Tick, PressStep, SendLines
<1>3. CASE PressPlay \/ Seek
    BY <1>1, <1>3 DEF PressPlay, Seek
<1>4. CASE ChangeRate
  <2>1. PICK v \in BOOLEAN :
            win' = LET w == [win EXCEPT !.valid = v]
                   IN  IF win.isSending /\ ~ win.isPaused THEN Restart(w) ELSE w
      BY <1>4 DEF ChangeRate
  <2>2. [win EXCEPT !.valid = v] \in WindowType /\ [win EXCEPT !.valid = v].status = win.status
      BY DEF WindowType
  <2> QED BY <1>1, <1>4, <2>1, <2>2 DEF ChangeRate
<1>5. CASE LoadFile \/ FileLoaded
    BY <1>5 DEF LoadFile, FileLoaded, WindowType
<1> QED BY <1>2, <1>3, <1>4, <1>5

\* The messages between the two change, but not what will have been heard nor what is asked.
LEMMA AgreementStays ==
    ASSUME Agreement, UNCHANGED mainVars, Asked' <=> Asked,
           Asked => AskedWhenQuiet', ~ Asked => Heard' = Heard
    PROVE  Agreement'
<1> USE DEF mainVars, linkVars
<1>1. AskedWhenQuiet' /\ ToldWhatIs'
    BY DEF Agreement, AskedWhenQuiet, ToldWhatIs
<1>2. LinkIsTold'
    BY DEF Agreement, AskedWhenQuiet, LinkIsTold
<1> QED BY <1>1, <1>2 DEF Agreement

LEMMA WindowAgreement ==
    ASSUME WindowInv, MainInv, ~ hasty, Agreement, WindowSteps
    PROVE  Agreement'
<1> USE HeardLast
<1>1. toWindow \in Seq(Told) /\ win \in WindowType /\ UNCHANGED mainVars
    BY DEF WindowInv, WindowSteps
<1>2. toMain \in Seq(mix \cup {"disconnect"}) /\ mix \subseteq Kind
    BY PlaybackAssumption DEF MainInv, MainType
<1>3. CASE Tick \/ PressPlay \/ PressStep \/ Seek \/ ChangeRate \/ LoadFile \/ FileLoaded
  <2>1. win'.status = win.status /\ UNCHANGED <<toMain, toWindow>>
      BY <1>1, <1>3, StatusStays
  <2>2. Heard' = Heard
      BY <1>1, <2>1
  <2>3. Asked => AskedWhenQuiet'
      BY <1>1, <2>1 DEF Agreement, AskedWhenQuiet, mainVars, linkVars
  <2> QED BY <1>1, <2>1, <2>2, <2>3, AgreementStays DEF Asked
<1>4. CASE PressConnect
  <2>1. Quiet /\ win.status = "disconnected"
      BY <1>4 DEF WindowSteps, PressConnect
  <2>2. PICK k \in mix : toMain' = Append(toMain, k)
      BY <1>4 DEF PressConnect
  <2>3. UNCHANGED toWindow /\ win'.status = "connecting"
      BY <1>1, <1>4 DEF PressConnect, Connecting, WindowType, Statuses
  <2>4. Len(toMain') = 1 /\ toMain'[1] = k /\ k # "disconnect"
    <3>1. k # "disconnect"
        BY <1>2 DEF Kind
    <3>2. Len(toMain') = Len(toMain) + 1 /\ toMain'[Len(toMain) + 1] = k
        BY <1>2, <2>2
    <3> QED BY <2>1, <3>1, <3>2 DEF Quiet
  <2>5. ~ Asked /\ Heard = "disconnected"
      BY <1>2, <2>1 DEF Quiet, Asked, Heard
  <2>6. \A a \in Attempts : link[a] \in {"none", "closed"} /\ a \notin unsettled
      BY <2>1, <2>5 DEF Quiet, Agreement, LinkIsTold
  <2>7. ~ busy
      BY <2>5 DEF Agreement, ToldWhatIs
  <2>8. connection = None /\ xmpp = None /\ object = None
      BY <2>6, <2>7 DEF MainInv, MainType, QuietOnceTold, Registered, ObjectIsLive, Awaited
  <2>9. Asked' /\ AskedWhenQuiet'
    <3>1. Asked' /\ Head(toMain') # "disconnect" /\ Len(toMain') = 1
      <4>1. toMain' \in Seq(mix \cup {"disconnect"})
          BY <1>2, <2>2
      <4>2. 1 \in DOMAIN toMain' /\ Head(toMain') = k
          BY <2>4, <4>1
      <4> QED BY <2>4, <4>2 DEF Asked
    <3>2. toWindow = <<>>
        BY <2>1 DEF Quiet
    <3> QED BY <1>1, <2>3, <2>6, <2>7, <2>8, <3>1, <3>2 DEF AskedWhenQuiet, mainVars, linkVars
  <2>10. LinkIsTold'
      BY <1>1, <2>6 DEF LinkIsTold, mainVars, linkVars
  <2> QED BY <2>9, <2>10 DEF Agreement, ToldWhatIs
<1>5. CASE PressDisconnect
  <2>1. toMain' = Append(toMain, "disconnect") /\ UNCHANGED toWindow
      BY <1>5 DEF PressDisconnect
  <2>2. win'.status = win.status
      BY <1>1, <1>5 DEF PressDisconnect, WindowType, PlayPause, ClickPlay, StartSending, ClearInterval
  <2>3. Heard' = Heard
      BY <1>1, <2>1, <2>2
  <2>4. Asked' <=> Asked
    <3>1. /\ DOMAIN toMain' = DOMAIN toMain \cup {Len(toMain) + 1}
          /\ \A i \in DOMAIN toMain : toMain'[i] = toMain[i]
          /\ toMain'[Len(toMain) + 1] = "disconnect"
        BY <1>2, <2>1
    <3> QED BY <3>1 DEF Asked
  <2>5. Asked => AskedWhenQuiet'
    <3> SUFFICES ASSUME Asked
                 PROVE  AskedWhenQuiet'
        OBVIOUS
    <3>1. toMain # <<>> /\ Head(toMain) # "disconnect"
          /\ \A i \in 2 .. Len(toMain) : toMain[i] = "disconnect"
        BY DEF Agreement, AskedWhenQuiet, Asked
    <3>2. Head(toMain') # "disconnect" /\ \A i \in 2 .. Len(toMain') : toMain'[i] = "disconnect"
        BY <1>2, <2>1, <3>1
    <3> QED BY <1>1, <2>1, <2>2, <3>2 DEF Agreement, AskedWhenQuiet, mainVars, linkVars
  <2> QED BY <1>1, <2>3, <2>4, <2>5, AgreementStays
<1>6. CASE Receive
  <2>1. toMain' = toMain /\ toWindow # <<>> /\ toWindow' = Tail(toWindow)
      BY <1>6 DEF Receive
  <2>2. ~ Asked /\ ~ Asked'
      BY <2>1 DEF Agreement, AskedWhenQuiet, Asked
  <2>3. win'.status = Shown(Head(toWindow))
    <3>1. \A s \in Statuses : StatusChange(win, s).status = s
        BY <1>1 DEF StatusChange, Connected, Connecting, Disconnected, ClearInterval, WindowType,
               Statuses
    <3>2. Shown(Head(toWindow)) \in Statuses
        BY <1>1, <2>1 DEF Told, Statuses, Shown
    <3>3. win' = StatusChange(win, Shown(Head(toWindow)))
        BY <1>6 DEF Receive, Shown
    <3> QED BY <3>1, <3>2, <3>3
  <2>4. Heard' = Heard
    <3>1. CASE Len(toWindow) = 1
        BY <1>1, <2>1, <2>3, <3>1 DEF Heard
    <3>2. CASE Len(toWindow) # 1
      <4>1. Len(toWindow') = Len(toWindow) - 1 /\ Len(toWindow) \in Nat \ {0, 1}
          BY <1>1, <2>1, <3>2
      <4>2. \A i \in 1 .. Len(toWindow) - 1 : toWindow'[i] = toWindow[i + 1]
          BY <1>1, <2>1
      <4>3. toWindow'[Len(toWindow')] = toWindow[Len(toWindow)] /\ toWindow' # <<>>
          BY <4>1, <4>2
      <4> QED BY <2>1, <4>3 DEF Heard
    <3> QED BY <3>1, <3>2
  <2> QED BY <1>1, <2>2, <2>4, AgreementStays
<1> QED BY <1>3, <1>4, <1>5, <1>6 DEF WindowSteps, WindowStep

\* All of it: what a user who waits is told is what there is.
UserInv == WindowInv /\ MainInv /\ (~ hasty => Agreement)

LEMMA UserInvInductive ==
    ASSUME ~ Late, TcpApart, UserInv, [Next]_vars
    PROVE  UserInv'
<1>1. WindowInv' /\ toWindow \in Seq(Told)
    BY WindowInvInductive DEF UserInv, WindowInv
<1>2. MainInv'
  <2>1. MainType' /\ mix' = mix
      BY MainTypeInductive, AbortedGrows DEF UserInv, MainInv
  <2>2. OrderlyInv /\ Orderly'
      BY <2>1 DEF UserInv, MainInv, OrderlyInv, Orderly, Late
  <2> QED BY <2>2, MainInvInductive DEF OrderlyInv
<1>3. CASE WindowSteps
    BY <1>1, <1>2, <1>3, WindowAgreement, UserStays DEF UserInv, WindowSteps
<1>4. CASE MainStep
  <2>1. hasty' = hasty
      BY <1>1, <1>4, MainStepSpeaks DEF windowVars, user
  <2>2. \A a \in Attempts : ~ ReadyLate(a)
      BY DEF UserInv, MainInv, NothingIsLate, ReadyLate
  <2> QED BY <1>1, <1>2, <1>4, <2>1, <2>2, SettlesAgrees, EndsAgrees, HandleConnectAgrees,
             HandleDisconnectAgrees
          DEF UserInv, MainStep, Handles
<1>5. CASE UNCHANGED vars
  <2>1. UNCHANGED <<hasty, toMain, toWindow, win, mainVars>>
      BY <1>5 DEF vars, playbackVars, windowVars, user
  <2>2. Asked' = Asked /\ Heard' = Heard
      BY <2>1 DEF Asked, Heard
  <2>3. Agreement => (Asked => AskedWhenQuiet')
      BY <2>1 DEF Agreement, AskedWhenQuiet, mainVars, linkVars
  <2> QED BY <1>1, <1>2, <2>1, <2>2, <2>3, AgreementStays DEF UserInv
<1> QED BY <1>3, <1>4, <1>5 DEF Next

LEMMA UserInvInit == Init => UserInv
<1> SUFFICES ASSUME Init
             PROVE  UserInv
    OBVIOUS
<1>1. WindowInv
    BY PlaybackAssumption
    DEF Init, PlaybackInit, WindowInv, WindowType, Statuses, PlaysWhatItShows, FileType, Told
<1>2. toMain = <<>> /\ toWindow = <<>> /\ win.status = "disconnected"
    BY DEF Init, PlaybackInit
<1>3. (\A a \in Attempts : link[a] = "none") /\ ~ busy
    BY DEF Init, MainInit
<1>4. ~ Asked /\ Heard = "disconnected"
    BY <1>2 DEF Asked, Heard
<1>5. Agreement
    BY <1>3, <1>4 DEF Agreement, AskedWhenQuiet, ToldWhatIs, LinkIsTold
<1> QED BY <1>1, <1>5, MainInvInit DEF UserInv

\* For any number of attempts, refusals, losses and requests that cross them, provided that
\* the user waits for the news of one attempt before the next, and that nothing comes later
\* than that: once all is quiet the window shows the connection there is, and when it shows
\* none, none is in the way of a new one (main.js, connect and disconnect; renderer.js,
\* handleConnectionStatusChange).
THEOREM WindowShowsWhatIs ==
    ASSUME TcpApart
    PROVE  Spec => []WindowAgrees
<1> DEFINE Inv == MainType /\ (~ Late => UserInv)
<1>1. Inv => WindowAgrees
  <2> SUFFICES ASSUME Inv, ~ hasty, ~ Late, Quiet
               PROVE  WindowAgrees!2
      BY DEF WindowAgrees
  <2>1. ~ Asked /\ Heard = win.status
      BY DEF Quiet, Asked, Heard
  <2>2. MainInv /\ Agreement
      BY DEF UserInv
  <2>3. \A a \in Attempts : link[a] = "up" => connection = a
      BY <2>2 DEF MainInv, ConnectionIsUp
  <2>4. win.status = "connected" <=> \E a \in Attempts : link[a] = "up" /\ connection = a
      BY <2>1, <2>2, <2>3 DEF Quiet, Agreement, ToldWhatIs, LinkIsTold, ShownConnected
  <2>5. win.status = "connecting" <=> \E a \in Attempts : link[a] = "lost"
      BY <2>1, <2>2 DEF Quiet, Agreement, ToldWhatIs, LinkIsTold, ShownConnecting
  <2>6. win.status = "disconnected" => ~ Active
    <3> SUFFICES ASSUME win.status = "disconnected"
                 PROVE  ~ Active
        OBVIOUS
    <3>1. ~ busy /\ connection = None
        BY <2>1, <2>2 DEF Agreement, ToldWhatIs, MainInv, QuietOnceTold
    <3>2. \A a \in Attempts : link[a] \in {"none", "closed"}
        BY <2>1, <2>2 DEF Quiet, Agreement, LinkIsTold
    <3>3. object = None /\ xmpp = None
        BY <2>2, <3>2 DEF MainInv, MainType, ObjectIsLive, Registered, Awaited
    <3> QED BY <3>1, <3>3 DEF Active
  <2> QED BY <2>4, <2>5, <2>6
<1>2. Init => Inv
    BY UserInvInit, MainTypeInit
<1>3. Inv /\ [Next]_vars => Inv'
  <2> SUFFICES ASSUME Inv, [Next]_vars
               PROVE  Inv'
      OBVIOUS
  <2>1. Late' = Late
      BY AbortedGrows DEF Late
  <2> QED BY <2>1, MainTypeInductive, UserInvInductive
<1> HIDE DEF Inv
<1> QED BY <1>1, <1>2, <1>3, PTL DEF Spec
=============================================================================
