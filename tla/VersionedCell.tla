---------------------------- MODULE VersionedCell ----------------------------
(***************************************************************************)
(* What decision 0007 promises of a control-plane variable: one value with *)
(* one version, and commands that take effect in a single instant.  A      *)
(* caller asks, is told once, and leaves.                                  *)
(***************************************************************************)
EXTENDS Integers

CONSTANTS Callers, States, MaxVersion

VARIABLES value, version, client

Quiet          == [at |-> "quiet"]
Asking(v, s)   == [at |-> "asking", expected |-> v, state |-> s]
Told(what, v)  == [at |-> "told", what |-> what, version |-> v]
Shown(v, s)    == [at |-> "shown", version |-> v, state |-> s]

Init ==
    /\ value \in States
    /\ version \in 0..MaxVersion
    /\ client = [c \in Callers |-> Quiet]

Becomes(c, how) == client' = [client EXCEPT ![c] = how]
NoEffect == UNCHANGED <<value, version>>

Ask(c) ==
    /\ client[c] = Quiet /\ NoEffect
    /\ \E v \in 0..MaxVersion, s \in States : Becomes(c, Asking(v, s))

Malformed(c) ==
    /\ client[c] = Quiet /\ NoEffect
    /\ Becomes(c, Told("invalid", 0)) \/ Becomes(c, Told("failed", 0))

Observe(c) ==
    /\ client[c] = Quiet /\ NoEffect
    /\ Becomes(c, Shown(version, value))

Change(c) ==
    /\ client[c].at = "asking"
    /\ client[c].expected = version
    /\ client[c].state # value
    /\ version < MaxVersion
    /\ value' = client[c].state
    /\ version' = version + 1
    /\ Becomes(c, Told("applied", version + 1))

Keep(c) ==
    /\ client[c] = Asking(version, value) /\ NoEffect
    /\ Becomes(c, Told("no_change", version))

Stale(c) ==
    /\ client[c].at = "asking" /\ NoEffect
    /\ client[c].expected # version
    /\ Becomes(c, Told("precondition", 0))

(* A command that fails has had no effect.                                 *)
Fail(c) ==
    /\ client[c].at = "asking" /\ NoEffect
    /\ Becomes(c, Told("failed", 0))

Leave(c) ==
    /\ client[c].at \in {"told", "shown"} /\ NoEffect
    /\ Becomes(c, Quiet)

Next ==
    \E c \in Callers :
        \/ Ask(c) \/ Malformed(c) \/ Observe(c)
        \/ Change(c) \/ Keep(c) \/ Stale(c) \/ Fail(c)
        \/ Leave(c)

Spec == Init /\ [][Next]_<<value, version, client>>
=============================================================================
