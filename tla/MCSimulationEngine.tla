------------------------- MODULE MCSimulationEngine -------------------------
(***************************************************************************)
(* Instances of SimulationEngine for TLC.                                  *)
(***************************************************************************)
EXTENDS SimulationEngine

\* Three records; every combination of the options that steer run() and the tick.
MCSteering ==
    {o \in [available : {3}, startLine : {1}, endLine : {0}, maxLines : {0, 2},
            linesPerInterval : {1, 2}, loop : {FALSE}, autoConnect : {TRUE},
            autoStart : {TRUE}, waitForClient : BOOLEAN,
            connectWaitForServer : BOOLEAN, mode : {"client", "server"},
            onError : {"continue", "pause", "exit"}] : Normalised(o)}

\* Windows at their boundaries: an empty file, a start beyond it, an end beyond
\* it, a window of one record, a limit of one, and looping.
MCWindows ==
    {o \in [available : {0, 2}, startLine : {1, 2, 3}, endLine : {0, 1, 2, 4},
            maxLines : {0, 1, 3}, linesPerInterval : {2}, loop : BOOLEAN,
            autoConnect : BOOLEAN, autoStart : BOOLEAN, waitForClient : {FALSE},
            connectWaitForServer : {FALSE}, mode : {"server"},
            onError : {"continue", "exit"}] : Normalised(o)}

MCOptions == MCSteering \cup MCWindows
=============================================================================
