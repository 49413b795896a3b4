---------------------------- MODULE HttpTransport ----------------------------
(***************************************************************************)
(* src/src/http-transport.js.  The client posts lines and keeps one event  *)
(* stream from the server open, with a back-off timer between two          *)
(* attempts; the server answers posts and keeps the event streams of its   *)
(* watchers.                                                               *)
(***************************************************************************)
EXTENDS TransportObject

CONSTANT Watchers   \* connections other programs open to the server

VARIABLES
    sseSupported,   \* _sseSupported
    sse,            \* the subscription request: none, asked, streaming, or aborted
    sseRetryTimer,  \* _sseRetryTimer is running
    post,           \* one send() of the client
    http,           \* what each connection to the server is doing
    watching,       \* _watcherResponses
    latestPayload   \* _latestPayload is kept for polling clients

clientVars == <<sseSupported, sse, sseRetryTimer, post>>
serverVars == <<http, watching, latestPayload>>
httpVars == <<sseSupported, sse, sseRetryTimer, post, http, watching, latestPayload>>

HttpInit ==
    /\ sseSupported = TRUE
    /\ sse = "none"
    /\ sseRetryTimer = FALSE
    /\ post = "none"
    /\ http = [w \in Watchers |-> "away"]
    /\ watching = {}
    /\ latestPayload = FALSE

HttpHasRecipients == watching # {}
-----------------------------------------------------------------------------
\* connect() only prepares an agent and subscribes; unreadable certificates reject it.
HttpClientConnects ==
    /\ opening = "none" /\ closing = "none"
    /\ opening' \in {"resolved", "rejected"}
    /\ connected' = (opening' = "resolved")
    /\ sse' = IF connected' THEN "asked" ELSE "none"
    /\ UNCHANGED <<closing, sseSupported, sseRetryTimer, post, serverVars>>

\* A definitive answer that is not an event stream ends the subscription for good.
EndpointRefuses ==
    /\ sse = "asked" /\ connected
    /\ sseSupported' = FALSE
    /\ sse' = "none"
    /\ UNCHANGED <<lifecycle, sseRetryTimer, post, serverVars>>

EndpointStreams ==
    /\ sse = "asked" /\ connected
    /\ sse' = "streaming"
    /\ UNCHANGED <<lifecycle, sseSupported, sseRetryTimer, post, serverVars>>

\* Mutant of SubscriptionEnds: the timer starts whatever the state.
MutantSubscriptionEnds ==
    /\ sse \in {"asked", "streaming"}
    /\ sse' = "none"
    /\ sseRetryTimer' = TRUE
    /\ UNCHANGED <<lifecycle, sseSupported, post, serverVars>>

\* 'end' of an established stream, or 'error' of a request, which may come after
\* disconnect() destroyed it; _scheduleSseRetry then starts nothing.
SubscriptionEnds ==
    /\ sse \in {"asked", "streaming"}
    /\ sse' = "none"
    /\ sseRetryTimer' = (connected /\ sseSupported)
    /\ UNCHANGED <<lifecycle, sseSupported, post, serverVars>>

\* The connection is cut in the middle of the stream: the response is aborted, which is
\* neither its 'end' nor an 'error' of the request, and nothing listens for it.  The
\* subscription is not asked for again, although the comments of the code say so
\* (http-transport.js:156, 205).
SubscriptionAborts ==
    /\ sse = "streaming" /\ connected
    /\ sse' = "aborted"
    /\ UNCHANGED <<lifecycle, sseSupported, sseRetryTimer, post, serverVars>>

SubscriptionRetries ==
    /\ sseRetryTimer
    /\ sseRetryTimer' = FALSE
    /\ sse' = IF connected /\ sseSupported THEN "asked" ELSE sse
    /\ UNCHANGED <<lifecycle, sseSupported, post, serverVars>>

Posts ==
    /\ connected
    /\ post # "pending"
    /\ post' = "pending"
    /\ UNCHANGED <<lifecycle, sseSupported, sse, sseRetryTimer, serverVars>>

\* A refused or failed request is that request's failure, not a disconnect.
PostAnswered ==
    /\ post = "pending"
    /\ post' \in (IF connected THEN {"delivered", "rejected"} ELSE {"rejected"})
    /\ UNCHANGED <<lifecycle, sseSupported, sse, sseRetryTimer, serverVars>>

\* disconnect() destroys the request and the agent, and waits for nothing.  A request
\* that was not answered still reports an error; a response does not.
HttpClientDisconnects ==
    /\ opening # "none" /\ closing = "none"
    /\ closing' = "done"
    /\ connected' = FALSE
    /\ sseRetryTimer' = FALSE
    /\ sse' = IF sse = "asked" THEN "asked" ELSE "none"
    /\ UNCHANGED <<opening, sseSupported, post, serverVars>>

HttpClientNext ==
    /\ kind = "http client"
    /\ Quietly
    /\ \/ HttpClientConnects
       \/ EndpointRefuses
       \/ EndpointStreams
       \/ SubscriptionEnds
       \/ SubscriptionAborts
       \/ SubscriptionRetries
       \/ Posts
       \/ PostAnswered
       \/ HttpClientDisconnects
-----------------------------------------------------------------------------
HttpServerListens ==
    /\ opening = "none" /\ closing = "none"
    /\ opening' \in {"resolved", "rejected"}
    /\ connected' = (opening' = "resolved")
    /\ UNCHANGED <<closing, httpVars>>

HttpAccepts(w) ==
    /\ Established
    /\ http[w] = "away"
    /\ http' = [http EXCEPT ![w] = "idle"]
    /\ UNCHANGED <<lifecycle, clientVars, watching, latestPayload>>

\* A kept-alive connection may still ask for the stream while the server closes.
StartsWatching(w) ==
    /\ http[w] = "idle"
    /\ http' = [http EXCEPT ![w] = "watching"]
    /\ watching' = watching \cup {w}
    /\ UNCHANGED <<lifecycle, clientVars, latestPayload>>

StartsPosting(w) ==
    /\ http[w] = "idle"
    /\ http' = [http EXCEPT ![w] = "posting"]
    /\ UNCHANGED <<lifecycle, clientVars, watching, latestPayload>>

\* The body is handed on and broadcast to the watchers.
PostEnds(w) ==
    /\ http[w] = "posting"
    /\ http' = [http EXCEPT ![w] = "idle"]
    /\ UNCHANGED <<lifecycle, clientVars, watching, latestPayload>>

HttpPeerGoes(w) ==
    /\ http[w] \in {"idle", "posting", "watching"}
    /\ http' = [http EXCEPT ![w] = "gone"]
    /\ watching' = watching \ {w}
    /\ UNCHANGED <<lifecycle, clientVars, latestPayload>>

PollingPayload ==
    /\ Established
    /\ latestPayload' = TRUE
    /\ UNCHANGED <<lifecycle, clientVars, http, watching>>

\* The streams are ended and idle connections closed; the others are waited for.
HttpServerDisconnects ==
    /\ StartsClosing(connected)
    /\ http' = [w \in Watchers |-> CASE http[w] = "watching" -> "idle"
                                     [] http[w] = "idle" -> "gone"
                                     [] OTHER -> http[w]]
    /\ watching' = {}
    /\ latestPayload' = FALSE
    /\ UNCHANGED clientVars

\* Mutant of ForcesClose: only idle connections are closed.
MutantForcesClose ==
    /\ closing = "pending"
    /\ http' = [w \in Watchers |-> IF http[w] = "idle" THEN "gone" ELSE http[w]]
    /\ UNCHANGED <<lifecycle, clientVars, watching, latestPayload>>

\* Two seconds later every connection that is left is closed.
ForcesClose ==
    /\ closing = "pending"
    /\ http' = [w \in Watchers |-> IF http[w] = "away" THEN "away" ELSE "gone"]
    /\ watching' = {}
    /\ UNCHANGED <<lifecycle, clientVars, latestPayload>>

HttpServerCloses ==
    /\ EndsClosing
    /\ \A w \in Watchers : http[w] \in {"away", "gone"}
    /\ UNCHANGED httpVars

HttpServerNext ==
    /\ kind = "http server"
    /\ \/ /\ Quietly
          /\ \/ HttpServerListens
             \/ PollingPayload
             \/ HttpServerDisconnects
             \/ ForcesClose
             \/ HttpServerCloses
             \/ \E w \in Watchers : HttpAccepts(w) \/ StartsPosting(w) \/ PostEnds(w)
                                    \/ HttpPeerGoes(w)
       \/ Announced /\ \E w \in Watchers : StartsWatching(w)

HttpFairness ==
    /\ WF_httpVars(kind = "http client" /\ Quietly /\ SubscriptionRetries)
    /\ WF_httpVars(kind = "http client" /\ Quietly /\ closing = "done" /\ PostAnswered)
    /\ WF_httpVars(kind = "http server" /\ Quietly /\ ForcesClose)
    /\ WF_<<httpVars, lifecycle>>(kind = "http server" /\ Quietly /\ HttpServerCloses)
=============================================================================
