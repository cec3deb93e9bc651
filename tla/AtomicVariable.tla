--------------------------- MODULE AtomicVariable ---------------------------
(***************************************************************************)
(* AtomicControlPlaneVariable of atomic.py: an immutable snapshot behind a *)
(* lock.  `apply` captures the snapshot under the lock, compares states    *)
(* and prepares a successor outside it (equality may be workload code),    *)
(* and publishes under the lock if the snapshot is still the same OBJECT.  *)
(* Objects have identities; an identity may be used again as soon as       *)
(* nothing refers to its object, as CPython reuses addresses.              *)
(* A definition named Name_Fault is a faulty variation of Name that no     *)
(* action uses (see Replay).                                               *)
(***************************************************************************)
EXTENDS Integers

CONSTANTS
    Callers,      \* concurrent calls of read and apply
    States,       \* control states of the descriptor's codec
    Hostile,      \* states whose comparison may raise
    MaxVersion,   \* _MAX_SAFE_VERSION
    Ids           \* object identities

ASSUME StatesAssumption  == States # {} /\ Hostile \subseteq States
ASSUME VersionAssumption == MaxVersion \in Nat
ASSUME IdsAssumption     == "none" \notin Ids

VARIABLES
    cell,       \* _snapshot
    at,         \* where each call stands
    command,    \* precondition and candidate state of an apply
    captured,   \* captured_snapshot
    prepared,   \* next_snapshot, NoSnapshot for None
    result      \* what the call returned, or will return if not overtaken

vvars == <<cell, at, command, captured, prepared, result>>

Versions   == 0..MaxVersion
Snapshots  == [state : States, version : Versions, id : Ids]
NoSnapshot == [id |-> "none"]
Commands   == [expected : Versions, state : States]
NoCommand  == CHOOSE c \in Commands : c.expected = 0

Outcome(what, version) == [what |-> what, version |-> version]
Observed(s) == [what |-> "state", version |-> s.version, state |-> s.state]
NoResult == Outcome("none", 0)
Whats    == {"none", "invalid", "precondition", "failed", "no_change", "applied"}
Results  == [what : Whats, version : Versions]
            \cup [what : {"state"}, version : Versions, state : States]

Init ==
    /\ cell \in Snapshots
    /\ at = [c \in Callers |-> "idle"]
    /\ command = [c \in Callers |-> NoCommand]
    /\ captured = [c \in Callers |-> NoSnapshot]
    /\ prepared = [c \in Callers |-> NoSnapshot]
    /\ result = [c \in Callers |-> NoResult]

Referenced_CellOnly == {cell.id}

Referenced ==
    {cell.id} \cup {captured[c].id : c \in Callers} \cup {prepared[c].id : c \in Callers}

Answer(c, how) ==
    /\ at' = [at EXCEPT ![c] = "returned"]
    /\ result' = [result EXCEPT ![c] = how]

-----------------------------------------------------------------------------
(* read *)

Read(c) ==
    /\ at[c] = "idle"
    /\ Answer(c, Observed(cell))
    /\ UNCHANGED <<cell, command, captured, prepared>>

(* Another operation, or another variable's request.                       *)
ReadFails(c) ==
    /\ at[c] = "idle"
    /\ Answer(c, Outcome("failed", 0))
    /\ UNCHANGED <<cell, command, captured, prepared>>

-----------------------------------------------------------------------------
(* apply *)

(* A command that is not the admitted request object, or does not match    *)
(* the variable, its codec or its state type, never reaches the lock.      *)
RejectInvalid(c) ==
    /\ at[c] = "idle"
    /\ Answer(c, Outcome("invalid", 0))
    /\ UNCHANGED <<cell, command, captured, prepared>>

Apply(c, cmd) ==
    /\ at[c] = "idle"
    /\ at' = [at EXCEPT ![c] = "capture"]
    /\ command' = [command EXCEPT ![c] = cmd]
    /\ UNCHANGED <<cell, captured, prepared, result>>

PrepareNothing_AtOnce(c) ==
    /\ at[c] = "compare"
    /\ command[c].state = captured[c].state
    /\ Answer(c, Outcome("no_change", captured[c].version))
    /\ UNCHANGED <<cell, command, captured, prepared>>

PrepareNext_Unbounded(c) ==
    /\ at[c] = "compare"
    /\ command[c].state # captured[c].state
    /\ at' = [at EXCEPT ![c] = "commit"]
    /\ \E id \in Ids \ Referenced :
          prepared' = [prepared EXCEPT ![c] =
              [state |-> command[c].state, version |-> captured[c].version + 1, id |-> id]]
    /\ result' = [result EXCEPT ![c] = Outcome("applied", captured[c].version + 1)]
    /\ UNCHANGED <<cell, command, captured>>

Commit_Blind(c) ==
    /\ at[c] = "commit"
    /\ Answer(c, result[c])
    /\ cell' = IF prepared[c] = NoSnapshot THEN cell ELSE prepared[c]
    /\ UNCHANGED <<command, captured, prepared>>

Commit_Unpublished(c) ==
    /\ at[c] = "commit"
    /\ Answer(c, result[c])
    /\ UNCHANGED <<cell, command, captured, prepared>>

(* First critical section.                                                 *)
Capture(c) ==
    /\ at[c] = "capture"
    /\ captured' = [captured EXCEPT ![c] = cell]
    /\ IF command[c].expected # cell.version
       THEN Answer(c, Outcome("precondition", 0))
       ELSE at' = [at EXCEPT ![c] = "compare"] /\ UNCHANGED result
    /\ UNCHANGED <<cell, command, prepared>>

CompareRaises(c) ==
    /\ at[c] = "compare"
    /\ {command[c].state, captured[c].state} \cap Hostile # {}
    /\ Answer(c, Outcome("failed", 0))
    /\ UNCHANGED <<cell, command, captured, prepared>>

PrepareNothing_LimitFirst(c) ==
    /\ at[c] = "compare"
    /\ at' = [at EXCEPT ![c] = "commit"]
    /\ \/ /\ captured[c].version = MaxVersion
          /\ result' = [result EXCEPT ![c] = Outcome("failed", 0)]
       \/ /\ captured[c].version # MaxVersion
          /\ command[c].state = captured[c].state
          /\ result' = [result EXCEPT ![c] = Outcome("no_change", captured[c].version)]
    /\ UNCHANGED <<cell, command, captured, prepared>>

(* No successor: an equal state, or a version that cannot grow.  The       *)
(* result still waits for the second critical section.                     *)
PrepareNothing(c) ==
    /\ at[c] = "compare"
    /\ at' = [at EXCEPT ![c] = "commit"]
    /\ \/ /\ command[c].state = captured[c].state
          /\ result' = [result EXCEPT ![c] = Outcome("no_change", captured[c].version)]
       \/ /\ command[c].state # captured[c].state
          /\ captured[c].version = MaxVersion
          /\ result' = [result EXCEPT ![c] = Outcome("failed", 0)]
    /\ UNCHANGED <<cell, command, captured, prepared>>

PrepareNext(c) ==
    /\ at[c] = "compare"
    /\ command[c].state # captured[c].state
    /\ captured[c].version # MaxVersion
    /\ at' = [at EXCEPT ![c] = "commit"]
    /\ \E id \in Ids \ Referenced :
          prepared' = [prepared EXCEPT ![c] =
              [state |-> command[c].state, version |-> captured[c].version + 1, id |-> id]]
    /\ result' = [result EXCEPT ![c] = Outcome("applied", captured[c].version + 1)]
    /\ UNCHANGED <<cell, command, captured>>

Overtaken(c) == cell.id # captured[c].id

(* Second critical section.                                                *)
Commit(c) ==
    /\ at[c] = "commit"
    /\ IF Overtaken(c)
       THEN Answer(c, Outcome("precondition", 0)) /\ UNCHANGED cell
       ELSE /\ Answer(c, result[c])
            /\ cell' = IF prepared[c] = NoSnapshot THEN cell ELSE prepared[c]
    /\ UNCHANGED <<command, captured, prepared>>

(* The caller takes the result; the call's references are gone.            *)
Return(c) ==
    /\ at[c] = "returned"
    /\ at' = [at EXCEPT ![c] = "idle"]
    /\ command' = [command EXCEPT ![c] = NoCommand]
    /\ captured' = [captured EXCEPT ![c] = NoSnapshot]
    /\ prepared' = [prepared EXCEPT ![c] = NoSnapshot]
    /\ result' = [result EXCEPT ![c] = NoResult]
    /\ UNCHANGED cell

Compares(c) == CompareRaises(c) \/ PrepareNothing(c) \/ PrepareNext(c)
Steps(c)    == Capture(c) \/ Compares(c) \/ Commit(c)

Next ==
    \E c \in Callers :
        \/ Read(c) \/ ReadFails(c) \/ RejectInvalid(c)
        \/ \E cmd \in Commands : Apply(c, cmd)
        \/ Steps(c)
        \/ Return(c)

Spec == Init /\ [][Next]_vvars

-----------------------------------------------------------------------------
(* Properties *)

(* Types of the variable and of every call's locals; the version stays     *)
(* within the bound at which it must stop growing.                         *)
TypeOK ==
    /\ cell \in Snapshots
    /\ at \in [Callers -> {"idle", "capture", "compare", "commit", "returned"}]
    /\ command \in [Callers -> Commands]
    /\ captured \in [Callers -> Snapshots \cup {NoSnapshot}]
    /\ prepared \in [Callers -> Snapshots \cup {NoSnapshot}]
    /\ result \in [Callers -> Results]

(* The identity test is a version test: between capture and commit the     *)
(* variable holds the captured object exactly when it holds the captured   *)
(* version and state, so neither a reused identity (ABA) nor an equal      *)
(* state written by somebody else can let a stale writer pass.             *)
IdentityIsVersion ==
    \A c \in Callers : at[c] \in {"compare", "commit"} =>
        /\ captured[c].version = command[c].expected
        /\ captured[c].version <= cell.version
        /\ captured[c].id = cell.id <=> captured[c].version = cell.version
        /\ captured[c].id = cell.id => captured[c] = cell

(* A command on a snapshot fails only because its states would not compare *)
(* or because the version can grow no further; an equal state needs no     *)
(* version and is NO_CHANGE even at the largest one (decision 0007).       *)
FailsOnlyAtTheLimit ==
    \A c \in Callers : result[c].what = "failed" /\ captured[c] # NoSnapshot =>
        \/ {command[c].state, captured[c].state} \cap Hostile # {}
        \/ captured[c].version = MaxVersion /\ command[c].state # captured[c].state

(* No lost update: the variable changes only to a different state, by one  *)
(* version at a time, for a call whose precondition names the version it   *)
(* replaces.                                                               *)
VersionCountsChanges ==
    [][cell' # cell =>
          /\ cell'.version = cell.version + 1
          /\ cell'.state # cell.state
          /\ \E c \in Callers :
                /\ at[c] = "commit" /\ at'[c] = "returned"
                /\ command[c] = [expected |-> cell.version, state |-> cell'.state]]_vvars
=============================================================================
