------------------------------- MODULE XmppAuth -------------------------------
(***************************************************************************)
(* What a stream of the XMPP server is signed in with: the mechanisms of   *)
(* src/src/xmpp-sasl-server.js over the two accounts of xmpp-accounts.js,  *)
(* and the limiter of src/src/xmpp-utils.js that every attempt is charged  *)
(* to.                                                                     *)
(***************************************************************************)
EXTENDS Integers, Sequences

CONSTANTS
    WindowMs,     \* authWindowMs, in steps of the model's clock
    MaxFailures   \* authAttempts

ASSUME AuthAssumption == WindowMs \in Nat \ {0} /\ MaxFailures \in Nat \ {0}

-----------------------------------------------------------------------------
(* The mechanisms.  What an <auth/> or <response/> carries is one of        *)
(*   undecodable  not base64                                                *)
(*   malformed    a message the mechanism does not accept                   *)
(*   wrong        another account, authzid, nonce, channel binding or proof *)
(*   right        the credentials of an account                             *)

Payloads == {"undecodable", "malformed", "wrong", "right"}
Mechanisms == {"PLAIN", "SCRAM-SHA-1", "other"}
Exchange == [mechanism : {"PLAIN", "SCRAM-SHA-1"}, stage : {"initial", "final"},
             known : BOOLEAN]   \* accountExists
NoExchange == [mechanism |-> "none", stage |-> "none", known |-> FALSE]

PlainStart(payload) == IF payload = "right" THEN "success" ELSE "failure"

\* The challenge does not tell whether the account exists.
ScramStart(payload) == IF payload = "malformed" THEN "failure" ELSE "challenge"

ScramNext(exchange, payload) ==
    IF exchange.stage = "final" /\ exchange.known /\ payload = "right"
    THEN "success" ELSE "failure"

SaslStart(mechanism, payload) ==
    IF mechanism = "PLAIN" THEN PlainStart(payload) ELSE ScramStart(payload)

\* PLAIN does not accept a response step.
SaslNext(exchange, payload) ==
    IF exchange.mechanism = "PLAIN" THEN "failure" ELSE ScramNext(exchange, payload)

-----------------------------------------------------------------------------
(* The limiter: the attempts charged to one remote address, oldest first.   *)

NoToken == <<>>

\* The elements of s at the positions in I, in their order (a SelectSeq that the
\* prover can expand).
Picked(s, I) ==
    LET upTo[n \in 0 .. Len(s)] ==
            IF n = 0 THEN <<>>
            ELSE IF n \in I THEN Append(upTo[n - 1], s[n]) ELSE upTo[n - 1]
    IN  upTo[Len(s)]

Pruned(entries, now) ==
    Picked(entries, {i \in DOMAIN entries : now - entries[i].at < WindowMs})

MayCharge(entries, now) == Len(Pruned(entries, now)) < MaxFailures

Charged(entries, now, token) == Append(Pruned(entries, now), [at |-> now, token |-> token])

WithFailure(entries, now) == Charged(entries, now, NoToken)

\* Removes the one attempt the token was given for, if it is still remembered.
MutantRefunded(entries, now, token) == Pruned(entries, now)
Refunded(entries, now, token) ==
    LET kept == Pruned(entries, now)
    IN  Picked(kept, {i \in DOMAIN kept : token = NoToken \/ kept[i].token # token})
=============================================================================
