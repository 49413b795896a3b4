---------------------------- MODULE GrpcTransport ----------------------------
(***************************************************************************)
(* src/src/grpc-transport.js.  The protobuf and the internal serialization *)
(* have classes of their own around one machine: a client with a channel   *)
(* and, optionally, one long-lived stream; a server with a set of watch    *)
(* calls.  The server also keeps _clientCount, which nothing reads.        *)
(***************************************************************************)
EXTENDS TransportObject

CONSTANT Calls   \* watch calls other programs make to the server

VARIABLES
    channel,       \* the client's channel
    stream,        \* its stream
    teardown,      \* where teardownGrpcClient is
    watchCalls,    \* the server's _watcherCalls
    rpc,           \* what each call is doing
    shutdown       \* where disconnect() of the server is

grpcClientVars == <<channel, stream, teardown>>
grpcServerVars == <<watchCalls, rpc, shutdown>>
grpcVars == <<channel, stream, teardown, watchCalls, rpc, shutdown>>

GrpcInit ==
    /\ channel = "none"
    /\ stream = "none"
    /\ teardown = "none"
    /\ watchCalls = {}
    /\ rpc = [c \in Calls |-> "away"]
    /\ shutdown = "none"

GrpcHasRecipients == watchCalls # {}
-----------------------------------------------------------------------------
GrpcClientConnects ==
    /\ StartsOpening
    /\ channel' = "open"
    /\ UNCHANGED <<stream, teardown, grpcServerVars>>

\* waitForReady succeeded; with useStreaming the stream is opened in the same step.
ChannelReady ==
    /\ kind = "grpc client"
    /\ opening = "pending"
    /\ opening' = "resolved"
    /\ connected' = TRUE
    /\ stream' \in {"none", "open"}
    /\ UNCHANGED <<closing, channel, teardown, grpcServerVars>>

\* Ten seconds have passed.  The channel stays open, and nobody disconnects the object.
ChannelNotReady ==
    /\ kind = "grpc client"
    /\ opening = "pending"
    /\ opening' = "rejected"
    /\ UNCHANGED <<closing, connected, grpcVars>>

\* An error that is not a cancellation.
StreamBreaks ==
    /\ stream \in {"open", "ended"}
    /\ stream' = "failed"
    /\ connected' = FALSE
    /\ UNCHANGED <<opening, closing, channel, teardown, grpcServerVars>>

\* Only a client that was connected is registered, and so disconnected.
GrpcClientDisconnects ==
    /\ opening = "resolved" /\ closing = "none"
    /\ IF stream = "none"
       THEN /\ closing' = "done" /\ connected' = FALSE
            /\ channel' = "closed"
            /\ UNCHANGED teardown
       ELSE /\ closing' = "pending"
            /\ teardown' = "ending"
            /\ UNCHANGED <<connected, channel>>
    /\ UNCHANGED <<opening, stream, grpcServerVars>>

\* endGrpcStream is answered, or given up after a second.
StreamEnded ==
    /\ teardown = "ending"
    /\ teardown' = "completing"
    /\ stream' = IF stream = "open" THEN "ended" ELSE stream
    /\ UNCHANGED <<lifecycle, channel, grpcServerVars>>

\* The call completes, fails, or is given up after five seconds; the channel is closed
\* in every case.
StreamCompleted ==
    /\ teardown = "completing"
    /\ EndsClosing
    /\ teardown' = "done"
    /\ channel' = "closed"
    /\ stream' = "none"
    /\ UNCHANGED grpcServerVars

GrpcClientNext ==
    /\ kind = "grpc client"
    /\ Quietly
    /\ GrpcClientConnects \/ ChannelReady \/ ChannelNotReady \/ StreamBreaks
       \/ GrpcClientDisconnects \/ StreamEnded \/ StreamCompleted
-----------------------------------------------------------------------------
GrpcServerBinds ==
    /\ StartsOpening
    /\ UNCHANGED grpcVars

GrpcServerBound ==
    /\ kind = "grpc server"
    /\ opening = "pending"
    /\ opening' \in {"resolved", "rejected"}
    /\ connected' = (opening' = "resolved")
    /\ UNCHANGED <<closing, grpcVars>>

\* Watch calls are served until tryShutdown(), also after disconnect() cleared the set.
WatchCall(c) ==
    /\ opening = "resolved"
    /\ shutdown \in {"none", "streams"}
    /\ rpc[c] = "away"
    /\ rpc' = [rpc EXCEPT ![c] = "watching"]
    /\ watchCalls' = watchCalls \cup {c}
    /\ UNCHANGED <<lifecycle, grpcClientVars, shutdown>>

\* 'cancelled', 'error' or 'close'.
WatchEnds(c) ==
    /\ rpc[c] \in {"watching", "ending"}
    /\ rpc' = [rpc EXCEPT ![c] = "over"]
    /\ watchCalls' = watchCalls \ {c}
    /\ UNCHANGED <<lifecycle, grpcClientVars, shutdown>>

\* send() drops the calls it could not write to.
WatchWriteFails(c) ==
    /\ Established
    /\ c \in watchCalls
    /\ watchCalls' = watchCalls \ {c}
    /\ UNCHANGED <<lifecycle, grpcClientVars, rpc, shutdown>>

GrpcServerDisconnects ==
    /\ opening = "resolved"
    /\ StartsClosing(connected)
    /\ rpc' = [c \in Calls |-> IF c \in watchCalls THEN "ending" ELSE rpc[c]]
    /\ watchCalls' = {}
    /\ shutdown' = "streams"
    /\ UNCHANGED grpcClientVars

\* Every call that was told to end has, or was given a second to.
GrpcStreamsEnded ==
    /\ shutdown = "streams"
    /\ shutdown' = "server"
    /\ UNCHANGED <<lifecycle, grpcClientVars, watchCalls, rpc>>

\* tryShutdown() waits for the calls that are left; after five seconds they are cut.
GrpcShutdown ==
    /\ shutdown = "server"
    /\ EndsClosing
    /\ shutdown' = "done"
    /\ UNCHANGED <<grpcClientVars, watchCalls, rpc>>

GrpcServerNext ==
    /\ kind = "grpc server"
    /\ \/ /\ Quietly
          /\ \/ GrpcServerBinds
             \/ GrpcServerBound
             \/ GrpcServerDisconnects
             \/ GrpcStreamsEnded
             \/ GrpcShutdown
             \/ \E c \in Calls : WatchEnds(c) \/ WatchWriteFails(c)
       \/ Announced /\ \E c \in Calls : WatchCall(c)

GrpcFairness ==
    /\ WF_<<grpcVars, lifecycle>>(kind = "grpc client" /\ Quietly
                                  /\ (ChannelReady \/ ChannelNotReady))
    /\ WF_<<grpcVars, lifecycle>>(kind = "grpc client" /\ Quietly
                                  /\ (StreamEnded \/ StreamCompleted))
    /\ WF_<<grpcVars, lifecycle>>(kind = "grpc server" /\ Quietly /\ GrpcServerBound)
    /\ WF_<<grpcVars, lifecycle>>(kind = "grpc server" /\ Quietly
                                  /\ (GrpcStreamsEnded \/ GrpcShutdown))
    /\ WF_grpcVars(kind = "grpc server" /\ Quietly /\ shutdown = "done"
                   /\ \E c \in Calls : WatchEnds(c))
=============================================================================
