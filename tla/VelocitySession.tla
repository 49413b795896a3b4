---------------------------- MODULE VelocitySession --------------------------
(***************************************************************************)
(* The Portal token, src/src/velocity-rest-client.js (class TokenManager): *)
(* issued at sign-in, refreshed by a timer at 80 % of its lifetime or by a *)
(* caller that finds it expired, and dropped at sign-out.  And the         *)
(* Velocity servers of a signed-in Portal and the feeds they list,         *)
(* src/src/velocity-session.js and src/src/velocity-catalog.js.            *)
(*                                                                         *)
(* TokenManager and VelocitySession each count sign-ins and sign-outs, and *)
(* always in the same step: generation is both counts.                     *)
(*                                                                         *)
(* Every operation awaits answers, and the session may be signed out or    *)
(* changed meanwhile.  An operation under way is a record of calls, with   *)
(* what it remembers from its beginning.  `latest' stands for the counters *)
(* _detectGeneration and the catalog's generation: it is FALSE once they   *)
(* have been increased past the value the operation remembers.             *)
(***************************************************************************)
EXTENDS Naturals, Integers, FiniteSets

CONSTANTS
    Retries  \* background attempts after the first one (5 in the code)

ASSUME TokenAssumption == Retries \in Nat

VARIABLES
    generation,   \* _generation
    token,        \* _token, _expires and _credentials: the sign-in it was issued for, its number
    lapsed,       \* now() is past _expires
    timer,        \* _refreshTimer: the attempt it will make
    requests,     \* requests to the Portal that are not answered yet
    issued        \* tokens issued so far

tokenVars == <<generation, token, lapsed, timer, requests, issued>>

NoToken == [of |-> 0, number |-> 0]
NoTimer == -1
Foreground == -1   \* the `attempt' of a refresh that no timer asked for

TokenInit ==
    /\ generation = 0
    /\ token = NoToken
    /\ lapsed = FALSE
    /\ timer = NoTimer
    /\ requests = {}
    /\ issued = 0

\* isAuthenticated
Authenticated == token # NoToken /\ ~ lapsed

\* _refreshPromise: a refresh is under way, and everybody shares it.  logout() forgets the
\* promise, not the request behind it.
Refreshing == \E r \in requests : r.kind = "refresh" /\ r.of = generation

\* logout(), with the counts of both classes
SignedOut ==
    /\ generation' = generation + 1
    /\ token' = NoToken
    /\ lapsed' = FALSE
    /\ timer' = NoTimer

\* _login(), up to its await
AsksForToken ==
    /\ SignedOut
    /\ requests' = requests \cup {[kind |-> "login", of |-> generation', attempt |-> Foreground]}

\* refresh(): a new request disarms the timer.
Refresh(attempt) ==
    IF Refreshing
    THEN UNCHANGED <<requests, timer>>
    ELSE /\ requests' = requests \cup
                {[kind |-> "refresh", of |-> generation, attempt |-> attempt]}
         /\ timer' = NoTimer

MutantFresh(r) == TRUE

\* _assertGeneration()
Fresh(r) == r.of = generation

\* The Portal issues a token: _setToken() and _scheduleRefresh().
Issues(r) ==
    /\ Fresh(r)
    /\ token' = [of |-> r.of, number |-> issued + 1]
    /\ issued' = issued + 1
    /\ lapsed' = FALSE
    /\ timer' = 0
    /\ requests' = requests \ {r}
    /\ UNCHANGED generation

RetriesAfter(r) == r.kind = "refresh" /\ Fresh(r) /\ r.attempt \in 0 .. Retries - 1

\* The last attempt has failed: the manager emits 'error'.
GivesUp(r) == r.kind = "refresh" /\ Fresh(r) /\ r.attempt = Retries

\* The request fails, or its sign-in is over: only the background refresh tries again.
Denies(r) ==
    /\ timer' = IF RetriesAfter(r) THEN r.attempt + 1 ELSE timer
    /\ requests' = requests \ {r}
    /\ UNCHANGED <<generation, token, lapsed, issued>>

\* _backgroundRefresh()
TimerFires ==
    /\ timer # NoTimer
    /\ Refresh(timer)
    /\ UNCHANGED <<generation, token, lapsed, issued>>

\* The token expires.
Lapses ==
    /\ Authenticated
    /\ lapsed' = TRUE
    /\ UNCHANGED <<generation, token, timer, requests, issued>>

-----------------------------------------------------------------------------
(* The servers                                                             *)

CONSTANTS
    Registered,  \* the servers a Portal may have registered
    Custom,      \* the server that stands for an address the user typed
    All          \* selectedServerId when none is selected

ASSUME SessionAssumption ==
    /\ Custom \notin Registered
    /\ All \notin Registered \cup {Custom}

VARIABLES
    portal,    \* the servers this Portal has registered
    change,    \* _endpointGeneration
    revision,  \* _revision
    servers,   \* _servers: of each server, the change that validated its context
    selected,  \* _selectedServerId
    items,     \* the catalog's items: the servers listed, and under which revision
    calls      \* operations under way

sessionVars == <<change, revision, servers, selected, items, calls>>

Ids == Registered \cup {Custom}
Directory == (SUBSET portal) \ {{}}   \* what the Portal may answer
Unvalidated == [of |-> 0, change |-> 0]
NoServers == [s \in {} |-> Unvalidated]
NoItems == [revision |-> 0, servers |-> {}]
Validated == {s \in DOMAIN servers : servers[s] # Unvalidated}

SessionInit ==
    /\ change = 0
    /\ revision = 0
    /\ servers = NoServers
    /\ selected = All
    /\ items = NoItems
    /\ calls = {}

-----------------------------------------------------------------------------
(* An operation's awaits                                                   *)

\* The operation that begins, with what all of them have; those that compare the revision or
\* the change remember it.
Call(op, targets) ==
    [op |-> op, of |-> generation, change |-> 0, revision |-> 0, targets |-> targets,
     replace |-> FALSE, latest |-> TRUE, heard |-> TRUE, stage |-> "answer"]

\* _currentToken(): an expired token is refreshed first.
Awaits(others, call) ==
    /\ token # NoToken
    /\ calls' = others \cup {[call EXCEPT !.stage = IF lapsed THEN "refresh" ELSE "answer"]}
    /\ IF lapsed THEN Refresh(Foreground) ELSE UNCHANGED <<requests, timer>>

Waits(c, r) ==
    /\ c.of = r.of
    /\ \/ c.stage = "sign-in" /\ r.kind = "login"
       \/ c.stage = "refresh" /\ r.kind = "refresh"

\* The operations that wait for a token resume together.
Resume(r, ok) ==
    calls' = {IF Waits(c, r)
              THEN [c EXCEPT !.stage = IF ok THEN "answer"
                                       ELSE IF c.stage = "sign-in" THEN "no token" ELSE "denied"]
              ELSE c : c \in calls}

\* _sessionRequest(): between two requests the token has expired.
RefreshesFirst(c) ==
    /\ c.stage = "answer"
    /\ c.of = generation
    /\ lapsed
    /\ Awaits(calls \ {c}, c)

\* _assertCurrent() of the operations that do not look at the revision
Current(c) == c.of = generation

\* An operation that may succeed; what its requests answer is open.
Answered(c) == c.stage = "answer" /\ Current(c)

\* clear() of the catalog, and the counter of detections
Superseded(ops, cs) == {IF c.op \in ops THEN [c EXCEPT !.latest = FALSE] ELSE c : c \in cs}
Browsing == {"list", "apply"}

-----------------------------------------------------------------------------
(* login                                                                   *)

MutantReset ==
    /\ revision' = revision + 1
    /\ change' = change + 1
    /\ selected' = All
    /\ UNCHANGED servers

\* _reset(), with every count increased
Reset ==
    /\ revision' = revision + 1
    /\ change' = change + 1
    /\ servers' = NoServers
    /\ selected' = All

BeginLogin(cs) ==
    /\ Reset
    /\ items' = NoItems
    /\ calls' = Superseded({"detect"} \cup Browsing, cs) \cup
           {[Call("login", {}) EXCEPT !.of = generation', !.change = change',
                                      !.stage = "sign-in"]}

\* Servers were found, and those of ready have answered.
LoginFinds(c) ==
    /\ Answered(c)
    /\ c.change = change
    /\ \E found \in Directory \cup {{Custom}} : \E ready \in SUBSET found :
          /\ servers' = [s \in found |-> IF s \in ready THEN [of |-> c.of, change |-> c.change]
                                         ELSE Unvalidated]
          /\ selected' \in found \cup {All}
    /\ revision' = revision + 1

\* A custom address was asked for all servers: they are registered, and none is validated.
LoginRefusesAll(c) ==
    /\ Answered(c)
    /\ c.change = change
    /\ \E found \in Directory :
          /\ Cardinality(found) > 1
          /\ servers' = [s \in found |-> Unvalidated]
    /\ UNCHANGED <<selected, revision>>

-----------------------------------------------------------------------------
(* detect                                                                  *)

BeginDetect == Awaits(Superseded({"detect"}, calls), Call("detect", {}))

DetectFinds(c) ==
    /\ Answered(c)
    /\ c.latest
    /\ IF servers = NoServers
       THEN \E found \in Directory : servers' = [s \in found |-> Unvalidated]
       ELSE UNCHANGED servers

-----------------------------------------------------------------------------
(* setEndpoint                                                             *)

\* What is validated, and whether it replaces everything; NoTargets is refused.
NoTargets == [targets |-> {}, replace |-> FALSE]

Targets(id, mode) ==
    IF mode = "custom"
    THEN [targets |-> IF servers = NoServers /\ id \in {All, Custom} THEN {Custom}
                      ELSE {id} \cap (DOMAIN servers \cup {Custom}),
          replace |-> FALSE]
    ELSE IF id = Custom \/ (id = All /\ servers = NoServers)
         THEN [targets |-> {}, replace |-> TRUE]
         ELSE [targets |-> IF id = All THEN DOMAIN servers ELSE {id} \cap DOMAIN servers,
               replace |-> FALSE]

\* The catalog has been cleared by the handler; cs are the calls it leaves.
BeginEndpoint(id, mode, cs) ==
    LET t == Targets(id, mode)
    IN  /\ t # NoTargets
        /\ change' = change + 1
        /\ Awaits(cs, [Call("endpoint", t.targets) EXCEPT !.change = change',
                                                          !.replace = t.replace])

\* It throws after it has counted the change.
RefusesEndpoint(id, mode) ==
    /\ Targets(id, mode) = NoTargets
    /\ change' = change + 1
    /\ UNCHANGED <<requests, timer>>

MutantAnyChange(c) ==
    /\ Answered(c)
    /\ ~ c.replace
    /\ revision' = revision + 1
    /\ servers' = [s \in DOMAIN servers \cup c.targets |->
                      IF s \in c.targets THEN [of |-> c.of, change |-> c.change] ELSE servers[s]]
    /\ UNCHANGED selected

\* All were validated: a failure of one rejects the whole change.
EndpointApplies(c) ==
    LET validated == [of |-> c.of, change |-> c.change]
    IN  /\ Answered(c)
        /\ c.change = change
        /\ revision' = revision + 1
        /\ IF c.replace
           THEN /\ \E found \in Directory :
                      servers' = [s \in found |-> validated]
                /\ selected' = All
           ELSE /\ servers' = [s \in DOMAIN servers \cup c.targets |->
                                  IF s \in c.targets THEN validated ELSE servers[s]]
                /\ UNCHANGED selected

-----------------------------------------------------------------------------
(* The catalog                                                             *)

\* list(), after assertRevision() and clear()
BeginList(id, others) ==
    LET asked == IF id = All THEN DOMAIN servers ELSE {id} \cap DOMAIN servers
    IN  /\ asked # {}
        /\ items' = NoItems
        /\ Awaits(Superseded(Browsing, others), [Call("list", asked) EXCEPT !.revision = revision])

\* A server without a context, or one that fails, is reported and left out.
ListArrives(c) ==
    /\ Answered(c)
    /\ c.revision = revision
    /\ c.latest
    /\ \E got \in SUBSET (c.targets \cap Validated) :
          items' = [revision |-> c.revision, servers |-> got]

\* details(), up to its await
BeginDetails(rev, s) ==
    /\ rev = revision
    /\ s \in items.servers \cap Validated
    /\ Awaits(calls, [Call("apply", {s}) EXCEPT !.revision = revision])

DetailsArrive(c) ==
    /\ Answered(c)
    /\ c.revision = revision
    /\ c.latest
=============================================================================
