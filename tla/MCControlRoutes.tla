-------------------------- MODULE MCControlRoutes --------------------------
(* Messages for small instances of ControlRoutes.                          *)
EXTENDS ControlRoutes, TLC

CONSTANTS k1, d1, d2

Sent(transport, op, credential, target, known, digest) ==
    [op |-> op, transport |-> transport, credential |-> credential, target |-> target,
     known |-> known, key |-> k1, digest |-> digest]
Fit(op, credential, target, known, digest) ==
    Sent("fit", op, credential, target, known, digest)

MCKeys == {k1}
MCDigests == {d1, d2}

(* Every message that differs in a check of the handlers; the transport    *)
(* failures once each.  Only a message with full authority carries d1.     *)
AllMessages ==
    {Fit(op, credential, target, known, IF credential /\ target /\ known THEN d1 ELSE d2) :
        op \in {"surface", "read", "apply"}, credential \in BOOLEAN,
        target \in BOOLEAN, known \in BOOLEAN}
    \cup {Sent(t, "apply", FALSE, FALSE, FALSE, d1) :
             t \in {"invalid", "too_large", "no_bearer"}}

(* Two intents under one key, and nothing else.                            *)
Retries == {Fit("apply", TRUE, TRUE, TRUE, d1), Fit("apply", TRUE, TRUE, TRUE, d2)}

Symmetric == Permutations(Clients) \cup Permutations(Workers)
=============================================================================
