---------------------------- MODULE ReplayOptions ----------------------------
(***************************************************************************)
(* The options of a replay session that its behaviour depends on.          *)
(* `available' is the number of records the input file holds.  0 stands    *)
(* for the code's null in endLine and maxLines: both are tested for being  *)
(* set before they are used, and are at least 1 when set.                  *)
(***************************************************************************)
EXTENDS Integers, Sequences

OptionType ==
    [available : Nat, startLine : Nat \ {0}, endLine : Nat, maxLines : Nat,
     linesPerInterval : Nat \ {0}, loop : BOOLEAN, autoConnect : BOOLEAN,
     autoStart : BOOLEAN, waitForClient : BOOLEAN,
     connectWaitForServer : BOOLEAN, mode : {"client", "server"},
     onError : {"continue", "pause", "exit"}]

\* What the command line turns off: waiting for clients in client mode, and for
\* a server in server mode.
Normalised(o) == /\ o.waitForClient => o.mode = "server"
                 /\ o.connectWaitForServer => o.mode = "client"

LimitReached(o, n) == o.maxLines > 0 /\ n >= o.maxLines

\* What can become of a record: handed to a recipient, counted although there
\* was nobody, counted although nobody accepted it, or passed over on an error.
Fates == {"delivered", "nobody", "unwritten", "skipped"}

Settled == {"ready", "completed", "stopped", "failed"}
=============================================================================
