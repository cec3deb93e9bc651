------------------------- MODULE ContractRefinement -------------------------
(***************************************************************************)
(* The view of the coordinator under which it implements ReplayContract    *)
(* (decision 0011): an in-flight entry is filed under the call that owns   *)
(* it, and a call asks until it owns a reservation or has its answer.      *)
(***************************************************************************)
EXTENDS Replay

(* The caller behind an in-flight entry.                                   *)
OwnerOf(k) == CHOOSE f \in Frames : Owns(f) /\ req[f].key = k

EntryView(k) ==
    CASE entries[k].kind = "none"     -> [kind |-> "free"]
      [] entries[k].kind = "inflight" ->
            [kind |-> "running", digest |-> entries[k].digest, by |-> OwnerOf(k)]
      [] entries[k].kind = "terminal" ->
            [kind |-> "done", digest |-> entries[k].digest, bytes |-> entries[k].bytes]

CallView(f) ==
    CASE pc[f] = "idle" -> [kind |-> "quiet"]
      [] pc[f] \in {"enter", "waiting", "woken"} ->
            [kind |-> "asking", key |-> req[f].key, digest |-> req[f].digest]
      [] Owns(f) -> [kind |-> "serving", key |-> req[f].key, digest |-> req[f].digest]
      [] pc[f] = "returned" ->
            IF answer[f].kind = "result"
            THEN [kind |-> "answered", key |-> req[f].key,
                  digest |-> req[f].digest, bytes |-> answer[f].bytes]
            ELSE [kind |-> "refused", why |-> answer[f].kind]

Contract ==
    INSTANCE ReplayContract WITH
        Callers <- Frames,
        table   <- [k \in Keys |-> EntryView(k)],
        call    <- [f \in Frames |-> CallView(f)]

(* The coordinator keeps the promise of decision 0011: for every key one   *)
(* caller runs at a time, every other caller of the same intent is told    *)
(* what that one filed, and an outcome is forgotten only in the step of a  *)
(* caller that looks the table up.                                         *)
ImplementsContract == Contract!Spec
=============================================================================
