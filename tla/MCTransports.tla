----------------------------- MODULE MCTransports -----------------------------
(***************************************************************************)
(* Transports with the kinds of connection that behave differently.        *)
(***************************************************************************)
EXTENDS Transports

Plain == [protocol |-> "tcp", mode |-> "client", greeting |-> FALSE, direct |-> FALSE,
          waitForServer |-> FALSE, deadline |-> FALSE, noRoute |-> FALSE, anyTime |-> FALSE]

MCTcp ==
    { [Plain EXCEPT !.greeting = TRUE],
      [Plain EXCEPT !.waitForServer = TRUE, !.greeting = TRUE],
      [Plain EXCEPT !.waitForServer = TRUE, !.deadline = TRUE, !.noRoute = TRUE],
      [Plain EXCEPT !.mode = "server"],
      [Plain EXCEPT !.mode = "server", !.greeting = TRUE],
      [Plain EXCEPT !.mode = "server", !.anyTime = TRUE] }

MCUdp == { [Plain EXCEPT !.protocol = "udp"],
           [Plain EXCEPT !.protocol = "udp", !.mode = "server"],
           [Plain EXCEPT !.protocol = "udp", !.mode = "server", !.direct = TRUE] }

MCObjects ==
    { [Plain EXCEPT !.protocol = "http"],
      [Plain EXCEPT !.protocol = "ws", !.waitForServer = TRUE],
      [Plain EXCEPT !.protocol = "ws", !.waitForServer = TRUE, !.deadline = TRUE],
      [Plain EXCEPT !.protocol = "ws", !.anyTime = TRUE],
      [Plain EXCEPT !.protocol = "xmpp"],
      [Plain EXCEPT !.protocol = "ws", !.mode = "server"],
      [Plain EXCEPT !.protocol = "grpc", !.mode = "server", !.anyTime = TRUE],
      [Plain EXCEPT !.protocol = "grpc"] }

MCOptions == MCTcp \cup MCUdp \cup MCObjects
=============================================================================
