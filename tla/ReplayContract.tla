--------------------------- MODULE ReplayContract ---------------------------
(***************************************************************************)
(* What decision 0011 promises of the coordinator, without clocks, locks   *)
(* or waiting: a bounded table of idempotency keys.  A call either joins   *)
(* the outcome filed under its key, or runs and files one.  Clocks decide  *)
(* WHEN a finished outcome is forgotten; here it may be forgotten whenever *)
(* a call is answered or started, and at no other moment.                  *)
(***************************************************************************)
EXTENDS Integers, FiniteSets

CONSTANTS Callers, Keys, Digests, Bytes, Capacity

VARIABLES
    table,   \* what is filed under each key
    call     \* what each caller is doing

Free              == [kind |-> "free"]
Running(d, c)     == [kind |-> "running", digest |-> d, by |-> c]
Done(d, bytes)    == [kind |-> "done", digest |-> d, bytes |-> bytes]

Quiet             == [kind |-> "quiet"]
Asking(k, d)      == [kind |-> "asking", key |-> k, digest |-> d]
Serving(k, d)     == [kind |-> "serving", key |-> k, digest |-> d]
Refused(why)      == [kind |-> "refused", why |-> why]
Answered(k, d, b) == [kind |-> "answered", key |-> k, digest |-> d, bytes |-> b]

Init ==
    /\ table = [k \in Keys |-> Free]
    /\ call = [c \in Callers |-> Quiet]

Becomes(c, how) == call' = [call EXCEPT ![c] = how]

DoneKeys == {k \in Keys : table[k].kind = "done"}
Without(forgotten) == [k \in Keys |-> IF k \in forgotten THEN Free ELSE table[k]]
Used(t) == {k \in Keys : t[k].kind # "free"}

Ask(c, k, d) ==
    /\ call[c] = Quiet
    /\ Becomes(c, Asking(k, d))
    /\ UNCHANGED table

(* A malformed call is refused before anything is looked up.               *)
Reject(c) ==
    /\ call[c] = Quiet
    /\ Becomes(c, Refused("contract"))
    /\ UNCHANGED table

(* One look at the table, after forgetting some finished outcomes.         *)
Look(c, k, d, t) ==
    \/ /\ t[k].kind = "free" /\ Cardinality(Used(t)) < Capacity
       /\ table' = [t EXCEPT ![k] = Running(d, c)]
       /\ Becomes(c, Serving(k, d))
    \/ /\ table' = t
       /\ \/ /\ t[k].kind = "free" /\ Cardinality(Used(t)) = Capacity
             /\ Becomes(c, Refused("capacity"))
          \/ /\ t[k].kind # "free" /\ t[k].digest # d
             /\ Becomes(c, Refused("conflict"))
          \/ /\ t[k].kind = "done" /\ t[k].digest = d
             /\ Becomes(c, Answered(k, d, t[k].bytes))
          \/ /\ t[k].kind = "running" /\ t[k].digest = d
             /\ t[k].by # c
             /\ Becomes(c, Refused("reentry")) \/ UNCHANGED call

Consult(c) ==
    /\ call[c].kind = "asking"
    /\ \E forgotten \in SUBSET DoneKeys :
          Look(c, call[c].key, call[c].digest, Without(forgotten))

(* The one caller that runs files the outcome and is told the same thing,  *)
(* or is interrupted by process control after filing it.                   *)
File(c, bytes) ==
    /\ call[c].kind = "serving"
    /\ table[call[c].key] = Running(call[c].digest, c)
    /\ table' = [table EXCEPT ![call[c].key] = Done(call[c].digest, bytes)]
    /\ \/ Becomes(c, Answered(call[c].key, call[c].digest, bytes))
       \/ Becomes(c, Refused("control"))

Leave(c) ==
    /\ call[c].kind \in {"refused", "answered"}
    /\ Becomes(c, Quiet)
    /\ UNCHANGED table

Next ==
    \E c \in Callers :
        \/ \E k \in Keys, d \in Digests : Ask(c, k, d)
        \/ Reject(c)
        \/ Consult(c)
        \/ \E bytes \in Bytes : File(c, bytes)
        \/ Leave(c)

Spec == Init /\ [][Next]_<<table, call>>
=============================================================================
