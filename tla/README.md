# A verification project for ArcGIS Velocity Simulator

The simulator replays the records of a CSV file, a few per interval, over TCP, UDP, HTTP,
WebSocket, gRPC or XMPP, as a client or as a server. It runs with a window (Electron: a
renderer and a main process) or headless, from the command line.

This directory holds TLA+ modules for the parts whose correctness depends on the order in
which timers, sockets, messages, processes and users act, and for the decoders and option
rules that several parts must agree on; TLC configurations that check them on small
instances; and proofs, checked by TLAPS, of the theorems that matter most for every value
of the constants. `PROJECT.json` says which lines of the source each definition stands
for. Source paths below are relative to the repository; those without a directory are in
`src/`.

    tlc -workers 2 -config SimulationEngine.cfg MCSimulationEngine
    tlapm SimulationEngineProofs.tla

## The system

| Part | State it keeps | Operations | Hard behaviour |
|---|---|---|---|
| Replay engine, `simulation-engine.js` | cursor, count, `isSending`, the interval, `tickInFlight`, the promise of `run()` | `run`, interval callback, `processTick`, `pause`, `stop` | a tick awaits sends and reconnects while the timer goes on; errors that retry, skip, pause or end |
| Launch and headless session, `cli-options.js`, `headless-runner.js`, `main.js` 1218-1233 | options, the summary, the done file, the exit code | parsing and validating, `runHeadlessSession`, its catch clause | two validators of the same options; two failure paths, one inside the other; teardown under late sends |
| Transport manager, `transport-manager.js` | the connection, pending and ready sockets, waiters, an abort controller | `connect`, `disconnect`, `send`, `waitForRecipients`, socket callbacks | retry loops with a deadline, cancellation, greetings, clients that come and go |
| HTTP, WebSocket, gRPC, XMPP transport objects, `*-transport.js` | streams, client sets, retry timers, the joined room | `connect`, `disconnect`, callbacks of their peers | streams that drop and come back, forced closes, `disconnect` inside `connect` |
| Payload formats and receivers, `payload-format-utils.js`, `socket-payload-receiver.js` | the bytes and the text carried between chunks | loading a file, chunk, end of stream, datagram | chunks cut anywhere; records at the limit; recovery from malformed ones |
| Built-in XMPP server, `xmpp-server-core.js`, `xmpp-muc.js`, `xmpp-sasl-server.js` | streams, bound resources, rooms, the limiter | STARTTLS, SASL, bind, join, rename, leave, messages, close | conflicts of resources, streams that are told to go and are still there |
| Renderer playback, `renderer.js` | `isSending`, `isPaused`, the interval, the file and cursor, connection state, enabled buttons | buttons, rate changes, file loads, `handleConnectionStatusChange` | one handler clicks another's button; stale intervals |
| Main-process connections, `main.js` 2450-2860 | `connection`, one variable per kind of transport, the TCP controller, `velocityConnectionBusy` | the `connect` and `disconnect` handlers, events of what they made | answers of an earlier attempt; requests crossing statuses |
| Velocity tokens, `velocity-rest-client.js` | token, expiry, refresh timer, the promise of a refresh, a generation | sign in, refresh, retry, sign out | answers that come after a sign-out; a refresh its callers share |
| Velocity session and catalog, `velocity-session.js`, `velocity-catalog.js` | servers with their validated contexts, the selection, counters of sign-ins, changes, detections and lists, the listed feeds | login, detect, change of endpoint, selection, list, details | every operation awaits several answers while the others go on |
| Sign-in dialog and badge, `velocity-endpoint-ui.js`, `velocity-login-renderer.js`, `renderer.js`, handlers of `main.js` | the session shown, busy, drafts, the list; token sending, the sign-in applied, that of the connection | the buttons, edits, close; toggling, applying, swapping tokens | late answers to a dialog that was edited or closed; a connection that begins while a feed is fetched |
| Protocol settings window, `protocol-settings-*.js`, `renderer.js` | the document and its copy, revisions of edits, the saved bounds | edit, apply state, open, close, move | documents and edits that cross; a window closed before its bounds are saved |
| Signing lock and builds, `scripts/sign-lock.js`, `external-sign.js`, `timed-*-build.js` | a lock directory, the artifacts, an exit code | take, look, remove, release; start, pack, sign | several processes, any of which may die or be interrupted |
| Presets, summaries, logs, number formats, TLS helpers, secondary windows, gestures, voice, Velocity formats | none shared | text, DOM | none a model would reach |

How they interact. Headless: `main.js` parses the command line and calls
`runHeadlessSession`, which creates the engine; the engine calls the transport manager and
awaits it; the manager's sockets and transport objects call back into it. With a window: the
renderer sends requests to the main process and receives statuses, both over ordered channels
(`preload.js`); the main process creates sockets and transport objects of its own (it does not
use the transport manager) and is called back by them. The settings window is a third
process: it talks to the renderer through the main process. Builds share nothing but the
lock directory and `dist/`.

What makes each correct:

- engine: every record of the window is disposed of once, in order; ticks never overlap;
  `run()` settles once and with the right outcome; with `waitForClient` or
  `connectWaitForServer` nothing is lost;
- launch and headless session: what is refused in one place is refused in the other; exit
  code, done file and outcome agree; the process ends;
- transports: nothing outlives `disconnect()`; a greeting comes before the records; a call is
  answered, unless it waits for a WebSocket upgrade; what dropped comes back;
- payloads: records do not depend on how a stream is cut; what was published is received;
- XMPP server: registries, rooms and what each occupant was told agree; the limiter charges
  failures only; a message reaches whom it is addressed to;
- window and main process: the button tells what happens; what was reported disconnected
  is torn down; the window ends up agreeing with the main process;
- sign-in: no answer of an earlier sign-in, endpoint change or list is used; a connection
  keeps to the sign-in it was made under; the dialog does not stay busy;
- settings window: it shows what is, keeps what is typed, and loses no edit;
- builds: one process signs at a time; exit 0 means signed; the build ends.

`PROJECT.json` lists the hazards line by line, with the properties that cover them or why
none does.

## Modules

    ReplayOptions            the options of a headless session, normalised
      Replay                 what a replay promises (abstract)
      SimulationEngine       the engine; refines Replay
        HeadlessRunner       the process around it
    CommandLine              arguments and configuration file to options
      XmppSettings           what the XMPP transport makes of them and hands to clients
        Startup              a launch, to its end (with HeadlessRunner)
          SimulationEngineProofs   (of the engine, and of the launch around it)
    TransportContract        what the engine relies on (abstract)
    TransportManager         fields, entry of connect(), waiters, disconnect()
      SocketTransports       TCP and UDP, client and server
      ObjectTransports       HTTP, WebSocket, gRPC and XMPP behind the manager
        Transports           all of them, send(), the network; refines TransportContract
          TransportsProofs
    TransportPromise         what the manager relies on (abstract)
    TransportObject          the shape of a transport object
      HttpTransport, WsTransport, GrpcTransport, XmppTransport
        StreamTransports     each of the eight; refines TransportPromise
          StreamTransportsProofs
    PayloadFormats           a file becomes payloads
      RecordFraming          a stream or datagrams become records again
    XmppAuth                 mechanisms and limiter
      XmppServer             the streams and rooms of the built-in server
        XmppServerProofs
    Playback                 the window
      MainConnection         the main process
        UserInterface        both, and the channels between them
          UserInterfaceProofs
    VelocitySession          the Portal token; servers, endpoint changes, the catalog
      VelocityLogin          the dialog, the main process's handlers, the badge
        VelocityLoginProofs
    SettingsMirror           the settings window and the document it mirrors
      ProtocolSettings       and where the window is placed
        ProtocolSettingsProofs
    SignLock                 the lock and the signing process
      PackageBuild           the builds that use it
        PackageBuildProofs
    MC*                      the instances TLC checks

**SimulationEngine.** JavaScript runs to completion between two awaits, so an action is the
code from one real suspension (file load, connect, wait for recipients, send, reconnect) to
the next. The engine's fields are the record `eng`, and methods (`Pause`, `Stop`, `MoveOn`,
`Settle`, ...) are functions on it, because one callback calls several of them before it
yields. A tick is a slot in `ticks`; there are two slots so that an overlap, if the code
allowed one, would be a reachable state. The file is its number of records. `transport` is
the pair `isConnected()`, `hasRecipients()`; the environment changes it at any time, and a
send may reach the peer although its promise rejects. `history` and `received` are ghosts:
each record disposed of with its fate, and what recipients saw.

**Replay** has no transport, no scheduler and no clock: `Dispose` takes the next record of
the window, and settles the session when nothing is left. `Window` is defined from the
documented meaning of the options, not from the engine's index arithmetic; that both agree
at every boundary is part of the refinement.

**HeadlessRunner** adds `runHeadlessSession`: the two teardown paths, the done file, the
exit code. `unwritable` sessions are those whose done file cannot always be written.

**CommandLine, XmppSettings, Startup.** A setting is a text; what a parser makes of a text
(`trim`, `toLowerCase`, `parseInt`, a JID split at its `@`) is a function given as a
constant, so that the modules hold the rules and not the characters. `ParseCommandLine` is
one expression from arguments and configuration file to help, errors, a window's presets or a
session's options; errors are a set of what they are about. `UiSocketErrors` is the second
validator, of the window. `ClientSettings` is what a running XMPP server puts on the
clipboard. `Startup` runs a session with exactly the options its launch resolves to.

**TransportManager, SocketTransports, ObjectTransports, Transports.** A `connect()` is a
call `n` with its controller and deadline; what it creates is a handle `h`, one per
attempt. `pending` and `ready` are the code's socket sets. A record is a write to each
recipient (`Send`, then `Written` or `WriteFails` per recipient). Transport objects are
modelled here as the manager sees them. The `close` event of a socket is a step of its own,
which may come after the next `connect()` has begun or succeeded; a handler that does not ask
whose event it is acts on that one (`LateClose` of `TransportContract`).

**TransportObject, HttpTransport, WsTransport, GrpcTransport, XmppTransport,
StreamTransports.** The same objects from the inside. `opening` and `closing` are what became
of `connect()` and `disconnect()`; `announced` says that the last step called
`onClientConnected`. HTTP: the event-stream request, its retry timer, a post under way, the
connections of a server. WebSocket: the client's socket, a server's accepted sockets and the
three bounded stages of its close. gRPC: channel and stream, watch calls, the two stages of a
shutdown. XMPP: `connect()` as the chain of awaits it is (`step`), the stream of xmpp.js
(`entity`), which drops and comes back by itself, the join being written on it (`rejoining`) and
the one asked for (`request`), what the transport (`joined`) and its core (`joinedRooms`)
believe, and how the stream was
authenticated: by the first mechanism of the server's offer that the TLS policy allows
(`Usable`).

**PayloadFormats, RecordFraming.** A text is a sequence of tokens: a quote, a delimiter, the
two line-break characters, a blank, a backslash, characters of one, two and three bytes. The
parser, the conversion to the four formats, the UTF-8 decoder with its carry and the two
framers are recursive operators over them, each written as the scan in the code is. The
strict decoder, which the repository exports beside the receiver, is run on the same chunks.

**XmppAuth, XmppServer.** A stream goes from `absent` over its elements to `gone`;
`ending` is the last write whose callback closes it, during which it is told to go and still
there. A refused `<starttls/>` closes a stream at once, and what follows it in the same chunk is
handled all the same: `JoinBehind`, `BindBehind` and `MessageBehind` are the refusal with one
element behind it. Who joined or bound in that way is a `stray`, closed and yet in a registry,
from which nothing takes it. `bound` keeps the order of the code's Map, which decides who a bare
address means; `earlier` and `took` of its entries are ghosts, for what was bound before and
whether the resource was taken over.
`roster` is a ghost: who each client believes is in a room, from the presences it was sent.
`attempts` is the limiter's bucket, `won` the charges of exchanges that succeeded. What a
client sends is one element; a mechanism's message is malformed, wrong or right. `Picked`
keeps the elements of a sequence at given positions: what `Array.filter` and deleting from a
Map do, written as a recursive function on the length so that it can be reasoned about.

**Playback** keeps the renderer's fields and the enabled buttons in one record `win`, because
`click()` on another button is a call in the same turn and does nothing when the button is
disabled. `lostInterval` says that a running interval's handle was overwritten. `hasty` is
a user who may ask for a connection before all the news of the last attempt has come;
`WindowAgrees` is about the patient ones (see below what happens to a hasty one). `Kind` keeps
apart what the main process treats differently; a WebSocket client is a kind of its own
because nothing ends its attempt but its server, and `stream` is every other gRPC, HTTP or
WebSocket transport. `SendLines`
chooses freely whether the loop option is on, since a user may toggle it at any time.

**MainConnection** follows one attempt `a` per request to connect: `link[a]` is what became
of its socket, server or object; `connection`, `object`, `xmpp`, `controller` and `busy` are
the module variables of `main.js`. `Caught` is the catch clause of `connect`, which does not
ask whose attempt failed. `connect` and `disconnect` are awaited by Electron's handlers one
message at a time only as far as their first await, so a `Closes` or `Opens` may come
between a request and the status that answers it. While `connect()` of an XMPP client awaits the
join of its room, its stream may drop (`adrift`) and come back (`returned`), and the window is
told so; `returning` are the attempts that were disconnected while their stream, or the room on
it, was coming back, and whose 'ready' may still come (`ReadyLate`).

**VelocitySession, VelocityLogin.** A request to the Portal is a member of
`requests`, with the sign-in it was sent for; an operation that awaits answers is a record in
`calls`, with what it remembered when it began (`of` for the generation, `change`,
`revision`), which its last step compares with the present. `latest` stands for the counters
of detections and lists: it becomes false when they move on. `heard` stands for the dialog's
`generation`: an edit, a new request or closing makes the dialog deaf to the answers under
way, which the main process acts upon all the same. An expired token is refreshed before a
request, by all who need it together (`Refresh`, `Resume`). Both classes count sign-ins and
sign-outs in the same steps, so `generation` is both counts. A server's address is the
endpoint change that validated it. A request of the dialog is handled when it is made and its
answer taken when it is given; what the code does in several turns without waiting for the
Portal (choosing a server, refusals, storing preferences) is one step or none.

**SettingsMirror, ProtocolSettings.** A document is a function from its nodes
(a control and a summary row per field, the Revert button) to what the mirror describes of
them; rows come and go with values, so that both a full state and a patch are sent. Four
first-in first-out channels join renderer, main process and window. `pending`,
`editRevision` and `ackRevision` are the code's revisions. `made` and `applied` are ghosts:
edits typed and edits carried out. `ProtocolSettings` adds where the window stands, treats the
two axes alike and models one.

**SignLock, PackageBuild.** Every file operation of the lock (`mkdir`, writing the owner,
looking, `rm`) is a step, and a process may be killed or interrupted between any two. A
builder packs, runs the signing hook (up to two times) and makes artifacts; the script waits
for its steps, in parallel or one after the other. `faults` counts deaths, interruptions and
locks that outlive their twelve hours.

## Runs

| Run | Question | Properties | Bounds |
|---|---|---|---|
| `engine` | Does the engine keep its promise, for every combination of the steering options and of the window's boundaries, while connections, recipients and sends fail? | `TypeOK`, `QuietWhenNotSending`, `RecordsAreKept`, `ImplementsReplay`, `RunSettles` | 3 records for steering, 2 for boundaries, 2 faults, history 4 |
| `engine_control` | The same ticks with `stop()` and `pause()` called at any moment | `SingleTick` | 1 fault, history 3 |
| `headless` | Does a launch end as its arguments, its file and its replay say? | `ExitIsHonest`, `DoneIsFinal`, `LaunchEnds`, `RulesAgree`, `CopiedSettingsConnect` | the launches of `MCStartup`; 2 records, 2 faults, history 3 |
| `transports` | Seventeen kinds of connection behind the manager | `NothingSurvivesDisconnect`, `GreetingFirst`, `ImplementsContract`, `ConnectKeepsItsWord`, `CallsSettle` | 2 connects, 2 attempts, 2 peers, 2 waiters, 1 fault |
| `streams` | Do the eight transport objects keep what the manager relies on? | `ObjectsInvariant`, `ImplementsPromise`, `RecipientsAreAnnounced`, `NobodyWaits` | 2 peers of each kind, 2 drops |
| `framing` | Do records depend on chunks; does what was published arrive? | `RecordsIgnoreChunking`, `PublishedIsReceived`, `StreamsAreKept` | files of two rows and scraps of up to 4 tokens, all streams of 4 tokens over six alphabets (4 behind a prefix of 2 in two of them), chunks of up to 3, 2 datagrams |
| `xmpp_server` | Do everyone's pictures of the server agree, whoever breaks off where? | `EveryoneAgrees`, `OnlyFailuresAreCharged`, `DeliversToTheAddressed` | seven plans, below |
| `ui` | Do window and main process agree, whatever a user presses while answers are under way? | `PlaysWhatItShows`, `DisconnectedMeansTornDown`, `WindowAgrees`, `AttemptsEnd` | 1 line, 2 requests under way, 2 attempts, 1 fault |
| `velocity` | Operations of the sign-in dialog that overlap in any order | `TokensKeepTheirSignIn`, `ServersAreCurrent`, `SettingsAreApplied`, `NewestChangeWins`, `DialogIsAnswered` | five plans, below |
| `settings` | Is the settings window a faithful mirror, and does it open where it was left? | `MirrorIsFaithful`, `WindowIsFilled`, `OpensWhereItWasLeft` | 2 fields, 2 values, 5 acts, 3 moves |
| `settings_copy` (violated) | Does the window show what is used, once all is delivered? | `WindowIsAMirror` | as above |
| `build` | Does one process sign at a time, and does a build end? | `SignedByOneHolder`, `EveryBuildEnds` | a Windows and a macOS step beside another Windows build, 2 faults |

A property with an "and" in its comment is a conjunction of named parts, so that what failed
can be read off by checking the parts.

Why the bounds are enough. *Engine*: with three records there is a first, a middle and a
last; `linesPerInterval` 1 and 2 end a tick inside and at the end of the window; a limit of
2 ends it inside; two faults let a retry fail again. `MaxHistory` bounds only sessions that
loop, and exceeds the longest window and limit. *Headless*: four families of launches.
`MCEndings` varies what decides how a session ends, an empty window (`startLine` past the
end) among them; `MCSockets` splits socket settings between the sections of the file and the
arguments, valid and not; `MCXmpp` varies roles, accounts, rooms, TLS files; `MCOthers` has
help, unknown arguments and files that cannot be read. `EveryLaunchIsRun` asserts that no launch
resolves to options the engine is not run with. *Transports*: two calls and two handles are
one connection and its successor, or one retry; two peers are needed for a write that fails
beside one that succeeds; two waiters are one who asked
for an earlier connection and one who asks for this one. *Streams*: a
peer that leaves beside one that stays; a second drop after the first return. *Framing*: the
longest construct a chunk boundary can split is a three-byte character or an escaped quote,
so that chunks of one to three bytes cut all of them everywhere; the limit is the longest
payload itself. *XMPP server*: one bound for everything would be too large, so a behaviour follows
one plan. Three sign in under each TLS policy, with every mechanism and every kind of answer;
two of them allow the two faults it takes to reach the limit of failures, and `preferred`, which
takes the path of either, one;
two have two streams in an open room (take-over of resources) and in one with a password
(conflicts rejected); two have three streams and messages to every kind of address, which is
what it takes to tell the last of the Map from the last to bind. Every plan that allows a fault
has elements behind a refused `<starttls/>`. *User
interface*: two attempts are one and the next; two requests under way let a second disconnect
cross the first one's answer; one line makes every send reach the end of the file, which is
where buttons click buttons; the mixes are TCP clients, TCP servers, transport objects with XMPP,
UDP with WebSocket clients, and XMPP alone with its late outcomes. *Velocity*: five plans (`MCPlans`), each generous where the
others are tight. `Sending`: two sign-ins with three tokens, so that a refresh of the first
is answered under the second, toggles and client connections. `Changing`: three changes, two
of them sign-ins, and two operations under way, so that one of each is overtaken by another.
`Choosing`: two servers. `Expiring`: tokens that expire under every operation. `Connecting`:
connections of every kind while a feed is applied. *Settings*: an edit, an edit of the same field
in the other document, a close, an open and a Revert are five acts; the smaller display is
narrower than the smallest window. *Build*: the lock needs two contenders, and a third
builder that does not sign; with two faults a holder dies and one who waits is interrupted.
Every passing run is complete: TLC explores all reachable states.

`CHECK_DEADLOCK FALSE` stands in every configuration because every system really stops: a
settled session, a process that exited, attempts used up, a transport that was disconnected,
a stream of bytes that ended, a build that is over.

### Fairness

- Engine: `run()` and suspended ticks go on (promises settle), the interval fires, and
  recipients come back. The last is an assumption about the world, without which
  `waitForClient` waits for ever as documented; faults are bounded, so it is not met by
  constant churn. `stop()` and `pause()` have no fairness.
- Headless: the same, the runner's own steps, and the launch's one step.
- Transports: lookups, attempts, pauses and writes settle and closed sockets deliver their
  close. Attempts of the other protocols end by a timeout of the system or of the transport;
  the upgrade of a WebSocket client has none, so nothing is assumed of it (`UpgradePends`) and
  `CallsSettle` does not promise an answer to it. Peers, callers and servers owe nothing.
- Streams: a timer fires; a post, a start or a join is answered or fails; a forced close
  takes (each stage of a server's close is bounded by a timeout in the code); a stream of xmpp.js
  that dropped returns, since its reconnect has no limit of attempts and the server is taken to
  come back; drops are bounded. Nothing is assumed of a WebSocket upgrade or of the answer to an
  event-stream request. Peers and callers owe nothing.
- Window: messages arrive, requests are handled and attempts settle, but for the upgrade of a
  WebSocket client. The user, the peers, a server that does not answer the upgrade and an XMPP
  server that is to come back owe nothing.
- Velocity: a request of the current sign-in is answered or times out (30 seconds in the
  code), operations the dialog waits for go on, and the dialog lists the feeds of a session
  it accepted. The user and the clock of the token owe nothing.
- Settings: a frame runs, a message is delivered, a page loads, a closing window closes.
- Build: every process runs, a signing process ends (a watchdog kills it), and a lock that
  nobody releases grows old.

Framing and the XMPP server are checked for safety only.

### Assumptions of the models

- Callers of the transport manager await `connect()` and `disconnect()`, except for the
  options marked `anyTime`, where `disconnect()` comes at any moment; those are left out of
  `NothingSurvivesDisconnect`, of the cancellation part of `ConnectKeepsItsWord` and of
  `ConnectSettles`.
- UDP destinations are numeric when the socket sends.
- `DisconnectedMeansTornDown` is about UDP and the transport objects, as the comment it quotes
  is (`main.js:2774-2778`). TCP is left out: a client is reported before its socket has closed,
  and the late outcome of a cancelled attempt is applied to the next one (below). So are
  behaviours in which an XMPP attempt was cancelled (`aborted`): its rejected `connect()` is
  reported too, maybe before the teardown has ended (`RejectsLate`).
- `LateMixes` of the `ui` run: for XMPP alone, an attempt that failed or was cancelled may have
  its outcomes after the next one has begun, and a stream that was coming back when it was
  disconnected may say so afterwards. For the other mixes a cancelled attempt settles
  before the next begins, and a server binds before a disconnect is handled. `WindowAgrees` and
  `AttemptsEnd` are about those (below for what late outcomes do to the window);
  `DisconnectedMeansTornDown` and `PlaysWhatItShows` are checked and proved for all. A hasty user
  waits for the answer of a refused request, which is sent right behind its status; a patient
  one until all is quiet.
- The `ui` run keeps TCP clients and servers apart from the other kinds and from each other
  (`Mixes`): from the others as a controller left behind by a lost TCP connection is taken for
  that of the later attempt, from each other only for the size of the run.
- A listening socket's error (failed accepts) and a gRPC channel left open by a failed
  `connect()` are excepted by name in `NothingSurvivesDisconnect`; a server that lost its
  own listener, in `RunSettles` and `ProcessExits`; a done file that cannot be written, in
  `ProcessExits`.
- A WebSocket client is excepted in `ConnectSettles` of `StreamTransports` and, while its
  upgrade is pending, of `Transports` and in `ConnectingEnds`: no timeout ends the upgrade, and a
  `connect()` that is disconnected meanwhile is never answered.
- An event stream that was cut off is excepted in `AsksAgain`: it is not asked for again.
- The XMPP client's `joined` is excepted in `NothingIsLeft`: a rejoin under way sets it after
  `disconnect()`. That nobody can be sent to is part of the property.
- A client of the XMPP server sends at most one element behind a refused `<starttls/>` in the
  same chunk, and no `<auth/>` (which would be charged like any other); a server's own start is
  one step.
- Room names of the command line have no `/`, and the files its options name are there.
- About texts (`TextAssumption`, `OptionNamesAreTexts`): `null` and `unset` are no texts; `trim()`
  and `toLowerCase()` leave alone what they returned, and `toLowerCase()` adds no blanks; the
  words of the program itself have no blanks around them and no capitals. What a number is
  written as is read as that number (`NumbersAreWritten`); a list of JIDs in its normal form stays
  as it is (`JidListsAreNormalised`); the parts of a name have no `@`, blanks or capitals, and an
  empty name is none (`NamesAreNormalised`). The parsers are given as tables, so the addresses a
  server puts together from such parts must be in them (`AddressesAreKnown`). All hold of
  JavaScript's own functions, and TLC evaluates them on the tables of `MCStartup`.
- While `faults > 0` two processes may sign together; see below.

## Finding with a run

`settings_copy`, `protocol-settings-preload.js:50`. The settings window numbers its edits and
keeps what was typed until a document acknowledges that number
(`protocol-settings-window.js:86-89`), but `emit()` of its preload builds the message anew
without `revision`, so the renderer (`renderer.js:1247-1251`) never acknowledges any. A
control edited in the window keeps its typed value for good, also when Revert, a preset or an
edit in the main document has given the setting another one: "The window is a mirror and
nothing more" does not hold of it.

## Seen while modelling, without a run of their own

Engine and headless:

- `simulation-engine.js:274`: `stop()` while `run()` awaits `connect()` or
  `waitForRecipients()` settles the run; `run()` then starts the scheduler of the stopped
  session, which nothing stops any more (`:321`: "Stops the scheduler and finalizes the run").
- `simulation-engine.js:395`: a send that every gRPC recipient refused (`{delivered: false}`
  without a reason) counts as sent, although `waitForClient` is set.
- `simulation-engine.js:370`: with `onError=continue` a reconnect that fails skips the line,
  although nothing was attempted.
- `simulation-engine.js:349`: a server whose listener failed has no recipients for ever; with
  `waitForClient` its session never settles.
- `headless-runner.js:153`: a done file that cannot be written in the failure path keeps the
  process from exiting.

Command line:

- `cli-options.js:1866`, `2632-2635`: `intervalMs` of the file beats `rateMs` of the command
  line, although "CLI values always override values loaded from the headless launch-config
  file" (`docs/configuration.md:223`).
- `cli-options.js:2638`: only `runMode` is looked at, so that the alias `silent=true` of the
  comment at 1857 has no effect; `:2609` refuses the positional values that the comment at
  1886 calls supported.
- Names of rooms, domains and accounts that are malformed, and nicknames that are too long, pass
  the command line and fail in the transport (`NameRefused`): exit code 2 and not 1
  (`docs/developer-guide.md:252`).
- `xmpp-transport.js:903`, `957-959`: the block copied from a server that publishes into a room
  names the nickname the server itself has there (`791`) and leaves the room's password out. A
  client that takes the block as it is signs in and is then refused by the room (`conflict`,
  `xmpp-muc.js:158`; `not-authorized`, `:154`), although the block holds "the settings a receiver
  needs" (`:870`). `CopiedSettingsConnect` ends where the room is entered.

Transports:

- `transport-manager.js:570-575`: the `close` event of a TCP server rejects the waiters, whoever
  they wait for: that of an earlier server, which comes after its `disconnect()`, tells those
  who wait for a later connection that theirs is gone.
- `transport-manager.js:578`: with the address family `auto` a host name is looked up inside
  `server.listen()`; a server that is disconnected meanwhile listens afterwards and becomes the
  connection.
- `transport-manager.js:363`: a WebSocket client retries in a loop `disconnect()` does not
  cancel; an attempt made after it becomes the connection.
- `transport-manager.js:564`: an error of a server that listens leaves it open without an owner.
- `transport-manager.js:674`: "or any pre-connect error" is five error codes; a host without
  a route ends the wait.
- `transport-manager.js:478`: a gRPC client whose `connect()` fails leaves its channel open.
- `http-transport.js:206`: an event stream that is aborted (not ended) emits neither `end` nor a
  request error: the subscription is never renewed, although "an established stream that
  dropped is reconnected" (207-208; likewise 156). In the model it is a state of its own,
  `aborted`.
- `ws-transport.js:224`, `transport-manager.js:361-383`: the upgrade of a WebSocket client has no
  timeout, and the deadline is compared only after an attempt has failed. A server that accepts
  the connection and never answers leaves `connect()` pending for ever, although
  `connectTimeoutMs` is the "timeout for connect/bind operations" (`docs/headless.md:88`).
- `xmpp-client-core.js:225-229`, `xmpp-transport.js:361-392`: `disconnect()` does not call off a
  reconnect under way. The join being written may still succeed; then, or at once in a direct
  conversation, `roomsRejoined` sets `joined` and says 'ready' of a transport that is closed,
  because its handler does not ask, as the one of 'offline' does, whether its core is still
  the one in use.
- `ws-transport.js:400`: a client accepted while `disconnect()` awaits the close of the others is
  left to the close of the HTTP server. `grpc-transport.js:597`: a stream that errors and is
  cancelled is counted down twice; nothing reads the count.
- `xmpp-client-core.js:227`: a join that is refused after a reconnect is not noticed; the
  transport announces that it rejoined its rooms.
- `docs/headless.md:89`: `connectWaitForServer` is not honoured for HTTP and gRPC clients.

Payloads:

- Bytes that are no UTF-8 reset the text under way: the beginning of a good record before them
  is delivered with the warning, and the rest of it is read as a record.
- An unmatched quote in a JSON document takes the documents behind it with it, up to the limit.
- The strict decoder is exported and tested, and no code of `src/` uses it.
- A UDP payload of exactly 65507 bytes loads, and is refused when it is sent with a line feed.

XMPP server:

- `xmpp-server-core.js:666`, `735-747`: "A bare destination routes to the most recently bound
  resource" (`docs/xmpp.md:112`), but the code takes the last of a Map in which a resource that
  is taken over keeps its place. When `a` and then `b` are bound and another stream takes `a`
  over, a bare address still means `b`. `DeliversToTheAddressed` says exactly this much: nobody
  was bound after the receiver but by taking over.
- `xmpp-server-core.js:497-501`: what is sent behind a refused `<starttls/>` in one chunk is
  handled after the connection was closed and cleaned up. A join leaves an occupant, and a bind
  a holder of its resource, that nothing removes (`close()` included); messages to that resource
  are dropped without an error to their sender.
- A stream that is bound may authenticate again.

Window and main process:

- `main.js:2768`: the catch clause of a cancelled attempt drops, and reports disconnected, the
  next connection, which stays open.
- `renderer.js:2420`, `main.js:2461`: a connect request that a user presses while the outcome of
  the first is on its way is refused after `connected` was sent, and the refusal is shown as
  disconnected, though the connection is there.
- `renderer.js:2620`: disconnecting while paused resumes playback: the pause button is clicked
  whenever sending has begun ("pause it before disconnecting").
- `main.js:2785-2790`: a disconnect while a gRPC, HTTP, WebSocket or UDP attempt is under way is
  refused. For a WebSocket client whose server never answers the upgrade (`main.js:2677`) nothing
  else ends it either: the window stays in its connecting state, with its controls locked.
- `main.js:2725-2728`: 'ready' of an XMPP stream that came back after `disconnect()` (see
  Transports) tells the window `connected` and marks the main process busy, without a connection.
  A disconnect is then answered "No active connection", which `renderer.js` only logs, and a
  connect is refused.
- `main.js:2721-2728`: while `connect()` awaits the join, a stream that drops and returns is
  reported `connecting` and `connected`, though there is no connection yet; that `connect()` can
  only fail, since the join it waits for was asked on the old stream.
- `main.js:2743-2758`: an XMPP attempt that is cancelled is reported disconnected twice, the
  first time maybe before its teardown has ended.
- `main.js`, `cleanupConnections`: gRPC, HTTP and WebSocket transports are not torn down on quit.

Sign-in:

- `main.js:3177`: turning sending on while connected shows Token On for ever, but the
  connections made afterwards send no token (`renderer.js:1991`,
  `docs/velocity-login.md:84`).
- `velocity-rest-client.js:316`: a refresh asked for by an operation disarms the background
  retry, and its failure arms none.
- `main.js:3102`: a sign-in refused because of the Portal's address turns sending off and
  forgets the sign-in applied, without a word to the badge, and the next refresh takes the
  token from the connection.
- `main.js:3126`: after a sign-in whose discovery failed, Detect fills the servers of the main
  process and not those of the dialog; Apply URL then sends "all", and is refused for want
  of a selection the dialog does not offer.
- `velocity-endpoint-ui.js:452`: closing the dialog while a feed's details are fetched does
  not keep the feed from being applied.

Settings window: one that is closed and opened again before the renderer hears of the close is
never served; an edit on its way when a connection starts is applied to a control that is
locked by then.

Builds: two who wait see the same dead owner, and the second one's `rm` takes the lock the
first has made since (`sign-lock.js:111`); a signal releases the lock before the signing process
has ended; a lock that is older than twelve hours is taken from an owner that still signs; a
sign script that vanishes leaves the artifacts unsigned, with exit code 0;
`cleanTargetArtifacts` removes the `.zip` of the other platform's build
(`artifact-version-utils.js:38-54`).

## Proofs

### The engine and its process (`SimulationEngineProofs`)

For every set of normalised options, file length, fault bound and history bound:

- `TypeCorrect`: `Spec => []TypeOK`.
- `OneTickInFlight`: `Spec => []SingleTick`, also under `stop()` and `pause()` at any time.
- `QuietSession`, `EngineImplementsReplay`: `QuietWhenNotSending` and `Spec => Promise!Spec`,
  assuming `~ ExternalControl` (nobody calls `stop()` or `pause()` from outside; with it they
  are false, as said above).

`SingleTick` is not inductive: it holds because the callback tests `tickInFlight`, so
`TickInv` adds that the flag is accurate (it is set exactly while a tick is suspended) and
that nothing is scheduled before `run()` returns. For the refinement, `SessionInv` adds what
each stage of `run()` knows, and, once it has returned, that the run is either over with
every tick idle, or going: count, cursor and history fit together (`Following`: the cursor
is the record after the last one disposed of, cyclically) and a suspended tick holds the
line under the cursor. `WindowFacts` proves that the promise's window is the one computed by
`initialize()`; then each engine step disposes of at most one record or stutters.

`RecordsSurvive`: `Spec => []RecordsAreKept`, assuming `~ ExternalControl` and
`~ UnwrittenSends` (a transport that accepted a record writes it; a gRPC server that found no
recipient willing is the exception noted above). `RecordsInv` adds to the property that what
was received lies behind the cursor (`ReceivedBehind`): the line at the cursor was received
only by a client that is about to send it again, or in a session that is over. It is that
which makes a retry harmless, and the records arrive in order.

`ExitsAreHonest`: `StartupSpec => []ExitIsHonest`, for all launches, whatever the parsers make
of their texts, under the same two assumptions. `Progress` relates the outcome of `run()` to
the records disposed of: a run that is pending has more of the window before it, a completed
one has reached the limit or the end, a ready one was told not to send. It is proved from the
promise alone, which the engine keeps. That a run is never `stopped` (the promise allows it) and
that a record said to be delivered was received are proved of the code's steps (`Unstopped`,
`FatesAreTrue`). `ProcessInv` then says for each place where `runHeadlessSession()` is
suspended what it knows of the outcome, the transport and the done file. Its heart is
`SettledStaysSettled`: a settled run takes no step of its own, so a transport that was torn down
stays down and the summary that is being written stays true, which is `TheSummaryIsFinal`
(`StartupSpec => DoneIsFinal`; it needs `~ ExternalControl` only).

Of the command line, for every set of launches and whatever the parsers make of their texts,
under the assumptions about texts above:

- `RulesHold`: `StartupSpec => []RulesAgree`.
- `CopiedBlockConnects`: `StartupSpec => []CopiedSettingsConnect`.

Both are about what is decided before anything runs. `ParsedOnce` says that `cliOptions` is what
the launch was parsed to and that neither ever changes; no stronger invariant is needed, and all
the work is in lemmas about the operators. The tables of settings hold different keys
(`SettingsSplit`, `DefaultsSplit`), so that what is used of a setting can be told from its own
table (`UsedValues`). `SameVerdict` compares the two copies of the socket rules: it goes through
the kinds of setting the window reads, shows that what it takes is never `unset`, and that the
rules for fields, formats and greetings agree also where a setting is left out, because the window's
stand-ins are the defaults (`FieldDefaults`, `FormatDefaults`, `HandshakeDefaults`). `TransportTakesIt`
goes from the rules an accepted XMPP launch has passed (`AcceptedXmpp`), over what is put right
with a warning (`HeadlessKeeps`), to each reason a transport has to refuse.

The copied block makes a round trip: options, values printed, arguments, texts, options. `ServerSays`
collects what must be true of the options of an accepted server. `SettingsArePlain`: everything the
block prints is text that reading leaves as it is. `PastedLines`: the lines say each setting once,
so that each counts (`PairValues`). `PastedIsRead` reads them word by word (`TakesText`, `TakesPort`
and their like), `PastedIsAccepted` goes through every rule, and `PastedMeets` compares the client
with the server. Three facts about the code carry it: the account is printed in the form in which
the server compares names (the mutant prints it as typed), a room is printed with its domain, and
every setting whose default differs between the roles is printed.

### The transport manager (`TransportsProofs`)

For every set of options, any number of `connect()` calls, handles, peers, waiters and faults;
of the constants only that a greeting is an option of TCP:

- `Invariance`: `Spec => []Inv`, the inductive invariant the others follow from. It says which
  handle is whose: an attempt has its own (`Attempts`); one `connect()` goes on at a time and
  has the controller (`OneAtATime`); what an attempt of TCP or of an object is while it goes on
  (`TcpHandles`, `OtherHandles`); who may be pending or ready (`PeersFit`), waiting
  (`WaitersWait`) or published to (`Greeted`); and, outside the options whose `disconnect()`
  comes at any time and gRPC, that a cancelled attempt is a socket being destroyed
  (`CancelledIsClosing`), that nothing is connected while a connect goes on
  (`ConnectionIsBusys`), and that what lives has an owner (`LiveIsOwned`, `PeersAreServed`).
- `SocketsAreOwned`: `Spec => []NothingSurvivesDisconnect`. It is not inductive, as an attempt that
  succeeds becomes the connection of whoever is busy then: hence the parts on attempts.
- `GreetingComesFirst`: `Spec => []GreetingFirst`, from `Greeted`: `published` and `ready` are
  among the greeted.
- `ConnectIsTrue`: `Spec => ConnectKeepsItsWord`, from `CancelledIsClosing`.
- `TransportsImplementContract`: `Spec => ImplementsContract`, the refinement of
  `TransportContract`. Every action is a step of the contract or a stutter; the one that needed
  a step of its own in the contract is the late `close`.

### The transport objects (`StreamTransportsProofs`)

For any number of watchers, clients, streams, resources and drops (`DropsAssumption`: their
bound is a number). An object uses the variables of its kind and leaves the others as they were
made (`Unused`), so the invariant has a part for each kind, and one lemma for its steps:

- `Invariance`: `Spec => []Inv`; `ObjectsAreSafe`: `Spec => []ObjectsInvariant`, whose parts on
  the HTTP client's subscription, on peers that are there, on rooms and on the XMPP client's
  password become inductive with what each part says of `opening` and `closing`. In the XMPP
  client the facts that hold only until `disconnect()` are said so (`closing = "none" => ...`).
- `ObjectsKeepThePromise`: `Spec => ImplementsPromise`, the refinement of `TransportPromise`, and
  `FirstRecipientsAreAnnounced`: `Spec => RecipientsAreAnnounced`.

### The XMPP server (`XmppServerProofs`)

For any streams, rooms, nicknames, resources, plans and limits:

- `FailuresAreWhatIsCharged`: `Spec => []OnlyFailuresAreCharged`. `Limited` says of the
  limiter's entries that they are different attempts, none of them won, and that those within
  the window are at most as many as it allows; `Spent` that an attempt on record was counted by
  its stream, so that the next one is new. Each operation of the limiter (prune, charge, refund)
  has its lemma; the count is carried by the set of tokens (`FS_Surjection`), not by the
  sequence.
- `OnePictureOfWhoIsThere`: `Spec => []EveryoneAgrees`. `RegistryInv`: a resource is bound once,
  by a stream that has it as its own and is live or a stray (`HoldersAreThere`); a live stream
  with a resource holds it, unless it was told to go; who is neither live nor a stray is in no
  room; and `RoomAgrees`: who sits in a room, who knows to sit there and who is seen there by
  each live occupant are the same. That a stream told to go still sits where it sat is why
  departures are lemmas of their own; that a stray sits where no departure will take it from is
  why joining behind a `<starttls/>` is one too (`JoinBehindKeepsRooms`).
- `MessagesReachTheAddressed`: `Spec => DeliversToTheAddressed`. `HoldersAreInOrder` adds what a
  bare address needs: of two entries of `bound` the earlier in the Map was bound before the later
  one, or took its resource over (`RecipientFacts`).

Neither has an assumption beyond the constants'.

`Picked`, the sequence left when elements are deleted, is a recursive function of the length.
What it keeps is proved by induction over the length, which `Induction` derives from the least
element of a set's complement, as the library's own induction rule cannot be instantiated.

### Window and main process (`UserInterfaceProofs`)

For any number of lines, requests and attempts:

- `PlaybackIsHonest`: `Spec => []PlaysWhatItShows`, with no further assumption: also with
  late outcomes and any mixture of transports. The invariant `WindowInv` adds that the play
  button is enabled only while there is, or may come to be, a connection: clicking it is
  then harmless in every handler. `Honest` states it of the record, so that each handler
  is a lemma on a function.
- `UserInterfaceTypeCorrect`: `Spec => []TypeOK`, and `TornDownWhenTold`:
  `Spec => []DisconnectedMeansTornDown`, both with no further assumption either. `MainInv` is for
  users whose attempts come one after the other (`Orderly`): those without late outcomes who keep
  TCP apart, and those without TCP as long as no attempt was cancelled (`Plain`). It says: at most
  one attempt is under way; the connection is the attempt that is up, or a TCP socket that
  closes; each attempt under way is registered where disconnect will look for it; once
  `disconnected` was reported nothing can come up any more (`QuietOnceTold`), and for `Plain`
  users nothing is even closing (`ClosedOnceTold`). A late 'ready' opens nothing; it only makes
  the main process busy again. Each of the main process's actions has its lemma;
  `OthersAreOver` is the fact they share.
- `WindowShowsWhatIs`: `Spec => []WindowAgrees`, assuming `TcpApart`: no mix has TCP together
  with something else. What the window shows when all is quiet is what it was told last, so
  `Agreement` speaks of `Heard`, the status it will show when everything under way has arrived,
  and of `Asked`, whether a request to connect is still on its way: then nothing else is, and
  nothing refuses it; otherwise the busy flag is what was told last, and there is an attempt to
  show for it.

### Sign-in (`VelocityLoginProofs`)

For every Portal and any number of sign-ins, changes, tokens and operations under way:

- `TokensOfTheirSignIn`: `Spec => []TokensKeepTheirSignIn`, from two invariants. That the token
  in use is of this sign-in (`TokenOfThisSignIn`) becomes inductive with `RequestsAreOlder`:
  no request is of a later sign-in than the present one, and after quitting all are of earlier
  ones, so that `Fresh` refuses them. That a connection sends a token of the sign-in its
  settings were applied under (`TransportOfItsSignIn`): it gets its token when it is made or by
  a swap; both ask `TokenForConnection`, which answers only while the sign-in applied is the
  current one (`TokenOfApplied`), and the swap only touches a connection of that sign-in or
  takes its token away (`HotSwapKeeps`).
- `ServersOfThisSignIn`: `Spec => []ServersAreCurrent`: the address of every server was
  validated under this sign-in, and the one selected is registered. `SessionInv` adds
  `PendingInv`: an operation under way is of this sign-in or of an earlier one; while a sign-in
  is under way no other operation is current, there are no servers, and the dialog shows none,
  which is why nothing that could be current begins meanwhile. So whatever answers late either
  is not current, or changes servers that no other operation is about to replace.
- `LaterChangeWins`: `Spec => NewestChangeWins`. `ContextsInv` adds that no address is of a
  change later than the last one counted; what gives a server another address is of
  the last one (`ServersChange`).

- `SettingsReachTheConnection`: `Spec => SettingsAreApplied`. Its parts follow from an invariant
  in three. `SwapInv`: a client that sends a token of this sign-in was given it by the settings
  applied, unless a refused sign-in has turned sending off; so the token that the Portal issues
  is handed on to it in the same step (`NewestTokenNext`). `FeedsInv`: details that were asked
  for at the revision that counts are of a list of that revision, because whatever clears the
  list supersedes them; so what fills the fields is of the endpoint in use (`CallsEnd`).
  `CountsInv` is what the bounds of `TypeOK` need: a change increases the revision when it
  begins and once more when it is answered, by the one operation that may answer it (`Sole`).
  `From` says of the operations left by a step that they are those there were, at other stages
  or superseded; each step of the session is such a step, with a new operation or without.

None needs an assumption on the bounds in `Plans`.

### Builds (`PackageBuildProofs`)

`OneHolderSigns`: `Spec => []SignedByOneHolder`, for any builders, any finite set of planned
steps and any bound on faults. `BuildInv` has four parts. `LockOfOne`, while nothing has gone
wrong: at most one process is between `mkdir` and `rm` (`Has`), the directory exists then,
the owner on file is that process or nobody, nobody is about to remove the lock of another,
and a signing process runs only under a holder who signs. That nobody comes to `remove` follows
from the owner on file being alive, which is why the name must be part of the invariant.
`DistInv`: every artifact is from an earlier build or from a step that has made it; a step
that has begun has removed the earlier ones of its target; what a process made is signed by
the script once it has passed the hook that signs (while the script stays usable); and exit
code 0 is reached only when every step is done. `TypeOK` and `StepsInv` (the steps are planned
ones) carry the types.

### The settings window (`ProtocolSettingsProofs`)

`MirrorKeepsFaith`: `Spec => []MirrorIsFaithful`, for any fields, values and number of acts.
Messages on their way make this hard: what the window shows is right only once they have
arrived, and they are of several kinds, in four channels. Both parts of the invariant that are
about them are a *chain*: a value for each message, each following from the one before by what
the message does. A step adds a link at the end, takes one away at the beginning, or passes a
message from one channel to the next and leaves the chain alone; no recursion is needed.

- `ViewInv`: while the renderer thinks the window ready and has sent it something, there is a
  chain of documents from what the window shows to what was sent last - or, when a full state
  is still on its way, from that state on. `CaptureFacts` is the heart of it: replaying a
  capture on what was sent before, or the first capture on any document, gives the description.
- `SyncInv`: what was sent last is what there is, unless a frame is due.
- `WindowInv`: the renderer thinks the window ready only while it is there, or while a `closed`
  is on its way; without it a state could be lost without anyone sending it again.
- `EditsInv`: a chain from what has been carried out, over what is on its way, to what was typed.
  `DoneIsMade` shows that the recursive function of `EditsArriveInOrder` is that chain.
- `TypingInv`: what is pending is in the control and was typed last; `Complete` states keep it
  there, because a patch that takes a control away brings it back.

The proof asked for a correction of the model: the first state of a window replaces all its
nodes, not only those the new state has (`Patched`). The earlier form left a row in a window
that had heard a state meant for its predecessor, after six acts; the bound of the run is five.
The theorem has no bound. It also holds without the condition the property once had, that the
window has been given a document: a served window that nothing is on its way to has one.

`OpensInPlace`: `Spec => OpensWhereItWasLeft`, for every display, main window, position and
size. `ResolveFits` is the arithmetic: what `resolveWindowBounds` answers lies in the work area,
and bounds that fit are left alone. `BoundsInv` says that while the window is closed what is
saved is where it was left: also when the timer of its last move had not fired, because `close`
saves.

### Model-checked only

Liveness (`RunSettles`, `LaunchEnds`, `CallsSettle`, `AttemptsEnd`, `NobodyWaits`,
`WindowIsFilled`, `DialogIsAnswered`, `EveryBuildEnds`): fairness and ENABLED are beyond the
prover. Framing and payload formats (`RecordsIgnoreChunking`, `PublishedIsReceived`,
`StreamsAreKept`): the scans of the code are RECURSIVE operators, for which the prover loses
its arithmetic.

## Not modelled, and why

- Presets, summaries, previews, help text, suggestions, logs, wording: text without state
  that anything else depends on.
- Conversion of received payloads to features, geometry, Velocity's addresses and preferences:
  pure functions of their input, with unit tests.
- TLS and SCRAM cryptography, XML parsing: libraries, or checks a message passes or not.
- The engine's clock: intervals are "later"; nothing depends on their length.
- In `MainConnection`: `send-data` (fire and forget), the accepted sockets of a server
  (`SocketTransports` has them), cleanup on quit.
- Protocol panels of the renderer, secondary windows, gestures, voice, menus: DOM code that ends
  in the same calls as the buttons.
- Velocity: which addresses are probed, saved profiles and preferences, the addresses shown
  as detected, details of a feed that is only looked at.
- Scripts that look at the machine and print (`check-*`, `install-*`, `start-helper`).

## What could come next

The composition of `StreamTransports` with `Transports`: today the two meet in
`TransportPromise`, which the one implements and the other takes as given.
