--------------------------- MODULE CellRefinement ---------------------------
(***************************************************************************)
(* The view of the atomic variable under which it implements VersionedCell *)
(* (decision 0007): the snapshot is the value and its version; a call asks *)
(* from its start to the step that settles its answer.                     *)
(***************************************************************************)
EXTENDS AtomicVariable

ClientView(c) ==
    CASE at[c] = "idle" -> [at |-> "quiet"]
      [] at[c] \in {"capture", "compare", "commit"} ->
            [at |-> "asking", expected |-> command[c].expected, state |-> command[c].state]
      [] at[c] = "returned" ->
            IF result[c].what = "state"
            THEN [at |-> "shown", version |-> result[c].version, state |-> result[c].state]
            ELSE [at |-> "told", what |-> result[c].what, version |-> result[c].version]

Cell ==
    INSTANCE VersionedCell WITH
        value   <- cell.state,
        version <- cell.version,
        client  <- [c \in Callers |-> ClientView(c)]

(* Linearizability, decision 0007: every apply and read takes effect in    *)
(* one instant between its call and its return, a rejected or failed       *)
(* command has no effect, and NO_CHANGE is told only while it is true.     *)
ImplementsCell == Cell!Spec
=============================================================================
