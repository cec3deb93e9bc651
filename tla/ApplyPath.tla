----------------------------- MODULE ApplyPath -----------------------------
(***************************************************************************)
(* The APPLY path of one installed variable: _interpret hands              *)
(* replay.execute a dispatch callback that calls variable.apply with the   *)
(* admitted request (_fastapi_variable_routes.py:197-204).  A replay frame *)
(* at "dispatch" is the caller of the atomic variable; the variable's      *)
(* answer is the outcome the coordinator normalises and files.             *)
(*                                                                         *)
(* Every installation makes a coordinator of its own, and handlers under   *)
(* way keep the one they were built with.  After removal and installation  *)
(* anew, or when two applications install one variable, another            *)
(* coordinator that knows nothing of this one carries the same intents to  *)
(* the same variable.  Its calls are the Strangers: whatever it replays or *)
(* forgets, here it applies any intent at any time.                        *)
(***************************************************************************)
EXTENDS Integers, FiniteSets

CONSTANTS
    Threads, Keys, Capacity, Retention, MaxClock, Faults,   \* see Replay
    Strangers,   \* calls of the variable by way of other coordinators
    States, Hostile, MaxVersion, Ids,                       \* see AtomicVariable
    Digests,
    CommandOf    \* the precondition and state each digest stands for

VARIABLES
    entries, clock, pc, req, initial, draft, answer, born,
    cell, at, command, captured, prepared, result,
    effects,     \* history: how often each intent changed the variable
    carried,     \* history: intents that did so through this coordinator
    expired      \* history: intents a terminal of which has been pruned

MaxDepth == 1
Frames   == Threads \X (1..MaxDepth)

Outcomes == [what : {"precondition", "failed", "no_change", "applied"},
             version : 0..MaxVersion]
Closed   == [what |-> "failed", version |-> 0]

R == INSTANCE Replay WITH
        Values <- Outcomes, Failed <- Closed, Unusable <- [what |-> "unusable"]

V == INSTANCE AtomicVariable WITH Callers <- Frames \cup Strangers

ASSUME ThreadsAssumption   == IsFiniteSet(Threads)
ASSUME KeysAssumption      == IsFiniteSet(Keys) /\ Keys # {} /\ Digests # {}
ASSUME CapacityAssumption  == Capacity \in 1..R!MaxCapacity
ASSUME ClockAssumption     == Retention \in Nat \ {0} /\ MaxClock \in Nat
ASSUME FaultsAssumption    == Faults \subseteq {"clock", "backward", "control"}
ASSUME StatesAssumption    == States # {} /\ Hostile \subseteq States
ASSUME VersionAssumption   == MaxVersion \in Nat
ASSUME IdsAssumption       == "none" \notin Ids
ASSUME StrangersAssumption == Strangers \cap Frames = {}
ASSUME CommandsAssumption  == CommandOf \in [Digests -> V!Commands]

rvars == <<entries, clock, pc, req, initial, draft, answer, born>>
vvars == <<cell, at, command, captured, prepared, result>>
hvars == <<effects, carried, expired>>
vars  == <<rvars, vvars, hvars>>

Init ==
    /\ R!Init
    /\ V!Init
    /\ effects = [d \in Digests |-> 0]
    /\ carried = {} /\ expired = {}

(* dispatch: lambda: variable.apply(request, context)                      *)
StartApply(f) ==
    /\ pc[f] = "dispatch"
    /\ V!Apply(f, CommandOf[req[f].digest])
    /\ UNCHANGED <<rvars, hvars>>

Effect(digest) == [effects EXCEPT ![digest] = @ + 1]

Applying(f) ==
    /\ V!Steps(f)
    /\ IF cell' = cell THEN UNCHANGED <<effects, carried>>
       ELSE effects' = Effect(req[f].digest) /\ carried' = carried \cup {req[f].digest}
    /\ UNCHANGED <<rvars, expired>>

(* The callback returns and its locals are gone.                           *)
FinishApply(f) ==
    /\ at[f] = "returned"
    /\ R!Dispatch(f, [intent |-> req[f].digest, value |-> result[f]])
    /\ V!Return(f)
    /\ UNCHANGED hvars

Replaying(f) ==
    /\ R!Call(f) \/ R!Enter(f) \/ R!Wake(f) \/ R!Completes(f) \/ R!Publish(f) \/ R!Return(f)
    /\ expired' = expired \cup {entries[k].digest : k \in {j \in Keys :
                     entries[j].kind = "terminal" /\ entries'[j].kind # "terminal"}}
    /\ UNCHANGED <<vvars, effects, carried>>

(* The same call of the variable, through another coordinator.             *)
StrangerApplies(s) ==
    \/ /\ \E d \in Digests : V!Apply(s, CommandOf[d])
       /\ UNCHANGED <<rvars, hvars>>
    \/ /\ V!Steps(s)
       /\ IF cell' = cell THEN UNCHANGED effects
          ELSE \E d \in Digests : CommandOf[d] = command[s] /\ effects' = Effect(d)
       /\ UNCHANGED <<rvars, carried, expired>>
    \/ V!Return(s) /\ UNCHANGED <<rvars, hvars>>

Tick == R!Tick /\ UNCHANGED <<vvars, hvars>>

Next ==
    \/ \E f \in Frames : StartApply(f) \/ Applying(f) \/ FinishApply(f) \/ Replaying(f)
    \/ \E s \in Strangers : StrangerApplies(s)
    \/ Tick

Spec == Init /\ [][Next]_vars

-----------------------------------------------------------------------------
(* Properties *)

(* An intent changes the variable at most once in the life of the process: *)
(* inside its window because the terminal is replayed, after it and        *)
(* through another coordinator because the version precondition it carries *)
(* is spent.                                                               *)
AppliedAtMostOnce == \A d \in Digests : effects[d] <= 1

(* Nobody is told APPLIED, at once or from the table, unless the intent    *)
(* did change the variable, and to the version the answer names.           *)
AppliedIsTrue ==
    \A f \in Frames :
        answer[f].kind = "result" /\ answer[f].bytes.value.what = "applied" =>
            /\ effects[req[f].digest] = 1
            /\ answer[f].bytes.value.version = CommandOf[req[f].digest].expected + 1
            /\ answer[f].bytes.value.version <= cell.version

(* No effect goes unrecorded: an intent that this coordinator carried to   *)
(* the variable, and that changed it, is still being carried out, or the   *)
(* table holds its APPLIED result, or the closed failure of an uncertain   *)
(* completion, which stays for good; until a terminal of it has expired.   *)
EffectIsRecorded ==
    \A d \in carried \ expired :
        \/ \E f \in Frames : R!Owns(f) /\ req[f].digest = d
        \/ \E k \in Keys :
              /\ entries[k].kind = "terminal" /\ entries[k].digest = d
              /\ \/ entries[k].bytes.value.what = "applied"
                 \/ entries[k].floor = R!NoTime /\ entries[k].anchor = R!NoTime

(* The callback of a frame runs only while the frame owns its reservation, *)
(* so the variable is never entered twice for one intent at a time under   *)
(* one key.                                                                *)
VariableRunsUnderReservation ==
    \A f \in Frames : at[f] # "idle" =>
        /\ pc[f] = "dispatch"
        /\ entries[req[f].key] = R!InFlight(req[f].digest, R!ThreadOf(f))
=============================================================================
