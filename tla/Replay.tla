------------------------------- MODULE Replay -------------------------------
(***************************************************************************)
(* The process-local replay coordinator of _replay.py: a bounded table of  *)
(* idempotency keys, guarded by one condition variable, that lets the      *)
(* first caller of a key dispatch and every other caller of the same       *)
(* intent wait for, and copy, the terminal result it publishes.            *)
(*                                                                         *)
(* A call of `execute` is a frame <<thread, depth>>.  Depth 2 is a call    *)
(* made by the dispatch callback of the depth 1 call of the same thread.   *)
(* A critical section of the condition is one step; everything between two *)
(* critical sections (clock reads, dispatch) is a step of its own.         *)
(*                                                                         *)
(* A definition whose name has the form Name_Fault is a faulty variation   *)
(* of Name.  No action uses it; put in the place of Name, it shows that a  *)
(* property can fail.                                                      *)
(***************************************************************************)
EXTENDS Integers, FiniteSets

CONSTANTS
    Threads,     \* worker threads that call execute
    MaxDepth,    \* how deep dispatch callbacks may call execute again
    Keys,        \* idempotency keys
    Digests,     \* canonical request digests, the identity of an intent
    Values,      \* what a terminal result says
    Failed,      \* the value of the closed NodeControlFailed result
    Unusable,    \* any dispatch outcome that cannot be normalised
    Capacity,    \* _capacity
    Retention,   \* _RETENTION_NS
    MaxClock,    \* _MAX_CLOCK_NS, the largest reading the clock may return
    Faults       \* the faults this instance admits

MaxCapacity == 4096

ASSUME ThreadsAssumption  == IsFiniteSet(Threads)
ASSUME DepthAssumption    == MaxDepth \in Nat \ {0}
ASSUME KeysAssumption     == IsFiniteSet(Keys) /\ Keys # {} /\ Digests # {}
ASSUME ValuesAssumption   == Failed \in Values /\ Unusable \notin [intent : Digests, value : Values]
ASSUME CapacityAssumption == Capacity \in 1..MaxCapacity
ASSUME ClockAssumption    == Retention \in Nat \ {0} /\ MaxClock \in Nat
ASSUME FaultsAssumption   == Faults \subseteq {"clock", "backward", "control"}

VARIABLES
    entries,   \* _entries
    clock,     \* the reading clock_ns would return now
    pc,        \* where each frame stands in execute
    req,       \* the request a frame executes
    initial,   \* initial_ns of a frame
    draft,     \* publish_bytes, completion floor and control_exception of a frame
    answer,    \* what execute returned or raised in a frame
    born       \* history: completion sample and publication time of a terminal

vars == <<entries, clock, pc, req, initial, draft, answer, born>>

Frames   == Threads \X (1..MaxDepth)
Requests == [key : Keys, digest : Digests]

(* The serialized result of one request.  The request_id inside the bytes  *)
(* is covered by the canonical digest, so `intent` stands for it.          *)
Bytes == [intent : Digests, value : Values]

NoTime == -1
Times  == 0..MaxClock

NoEntry == [kind |-> "none"]
InFlight(digest, owner) ==
    [kind |-> "inflight", digest |-> digest, owner |-> owner]
(* retention_anchor_pending is `floor # NoTime`: the code writes both      *)
(* together when it publishes and clears both when it anchors.             *)
Terminal(digest, bytes, floor, anchor) ==
    [kind |-> "terminal", digest |-> digest, bytes |-> bytes,
     floor |-> floor, anchor |-> anchor]

Entries ==
    {NoEntry}
    \cup [kind : {"inflight"}, digest : Digests, owner : Threads]
    \cup [kind : {"terminal"}, digest : Digests, bytes : Bytes,
          floor : Times \cup {NoTime}, anchor : Times \cup {NoTime}]

Fallback(digest) == [intent |-> digest, value |-> Failed]

Normalized_AnyIntent(outcome, digest) ==
    IF outcome \in Bytes THEN outcome ELSE Fallback(digest)

(* _normalize_terminal inside the owner's try: an outcome that raises, is  *)
(* no result, cannot be encoded or answers another request is replaced.    *)
Normalized(outcome, digest) ==
    IF outcome \in Bytes /\ outcome.intent = digest
    THEN outcome ELSE Fallback(digest)

(* _decode_or_fallback: stored bytes answer only the request they name.    *)
Decoded(bytes, digest) ==
    IF bytes.intent = digest THEN bytes ELSE Fallback(digest)

NoAnswer      == [kind |-> "none"]
Refused(why)  == [kind |-> why]
Result(bytes) == [kind |-> "result", bytes |-> bytes]
Refusals      == {"contract", "conflict", "capacity", "reentry", "control", "lost"}
Answers       == {NoAnswer} \cup [kind : Refusals] \cup [kind : {"result"}, bytes : Bytes]

AnyRequest == CHOOSE r \in Requests : TRUE
NoDraft    == [bytes |-> Fallback(AnyRequest.digest), floor |-> NoTime, control |-> FALSE]
NotBorn    == [sampled |-> NoTime, published |-> NoTime]

Init ==
    /\ entries = [k \in Keys |-> NoEntry]
    /\ clock = 0
    /\ pc = [f \in Frames |-> "idle"]
    /\ req = [f \in Frames |-> AnyRequest]
    /\ initial = [f \in Frames |-> NoTime]
    /\ draft = [f \in Frames |-> NoDraft]
    /\ answer = [f \in Frames |-> NoAnswer]
    /\ born = [k \in Keys |-> NotBorn]

-----------------------------------------------------------------------------
(* Frames of one thread form a stack.                                      *)

ThreadOf(f) == f[1]
Inner(f)    == <<f[1], f[2] + 1>>
Outer(f)    == <<f[1], f[2] - 1>>

CanCall(f) ==
    /\ pc[f] = "idle"
    /\ f[2] > 1 => pc[Outer(f)] = "dispatch"

OnTop(f) == f[2] < MaxDepth => pc[Inner(f)] = "idle"

-----------------------------------------------------------------------------
(* The table under the lock.                                               *)

Occupied(table) == {k \in Keys : table[k].kind # "none"}

PrunedEntry_InFlight(e, now) == IF e.kind = "inflight" THEN NoEntry ELSE e

Anchored(e, anchor) == Terminal(e.digest, e.bytes, NoTime, anchor)

PrunedEntry_Deadline(e, now) ==
    IF e.kind = "terminal" /\ e.floor # NoTime THEN Anchored(e, now + Retention) ELSE e

PrunedEntry_NoFloor(e, now) ==
    IF e.kind # "terminal" THEN e
    ELSE IF e.floor # NoTime THEN Anchored(e, now)
    ELSE IF e.anchor # NoTime /\ now - e.anchor >= Retention THEN NoEntry ELSE e

PrunedEntry_AtOnce(e, now) ==
    IF e.kind # "terminal" THEN e
    ELSE IF e.floor # NoTime THEN Anchored(e, now) ELSE NoEntry

(* _prune: what one entry becomes when a caller that observed `now` enters *)
PrunedEntry(e, now) ==
    IF e.kind # "terminal" THEN e
    ELSE IF e.floor # NoTime
         THEN Terminal(e.digest, e.bytes, NoTime,
                       IF e.floor > now THEN e.floor ELSE now)
    ELSE IF e.anchor # NoTime /\ now >= e.anchor /\ now - e.anchor >= Retention
         THEN NoEntry
    ELSE e

Pruned(now) == [k \in Keys |-> PrunedEntry(entries[k], now)]

HoldsReservation(f) ==
    LET e == entries[req[f].key]
    IN  e.kind = "inflight" /\ e.digest = req[f].digest /\ e.owner = ThreadOf(f)

-----------------------------------------------------------------------------
(* execute *)

Invoke(f, r) ==
    /\ CanCall(f)
    /\ pc' = [pc EXCEPT ![f] = "enter"]
    /\ req' = [req EXCEPT ![f] = r]
    /\ initial' = [initial EXCEPT ![f] = clock]
    /\ UNCHANGED <<entries, clock, draft, answer, born>>

(* A malformed call or an unreadable clock touches nothing.                *)
RefuseCall(f) ==
    /\ CanCall(f)
    /\ pc' = [pc EXCEPT ![f] = "returned"]
    /\ answer' = [answer EXCEPT ![f] = Refused("contract")]
    /\ UNCHANGED <<entries, clock, req, initial, draft, born>>

(* The outcomes of one pass of the lookup loop over `table`.               *)
Table(table) ==
    /\ entries' = table
    /\ born' = [k \in Keys |-> IF table[k].kind = "terminal" THEN born[k] ELSE NotBorn]
    /\ UNCHANGED <<clock, req, initial, draft>>

Finish(f, how) ==
    /\ pc' = [pc EXCEPT ![f] = "returned"]
    /\ answer' = [answer EXCEPT ![f] = how]

RefuseCapacity(f, table) ==
    /\ table[req[f].key].kind = "none"
    /\ Cardinality(Occupied(table)) = Capacity
    /\ Finish(f, Refused("capacity"))
    /\ Table(table)

Reserve_OneTooMany(f, table) ==
    /\ table[req[f].key].kind = "none"
    /\ Cardinality(Occupied(table)) # Capacity + 1
    /\ pc' = [pc EXCEPT ![f] = "dispatch"]
    /\ Table([table EXCEPT ![req[f].key] = InFlight(req[f].digest, ThreadOf(f))])
    /\ UNCHANGED answer

Reserve(f, table) ==
    /\ table[req[f].key].kind = "none"
    /\ Cardinality(Occupied(table)) # Capacity
    /\ pc' = [pc EXCEPT ![f] = "dispatch"]
    /\ Table([table EXCEPT ![req[f].key] = InFlight(req[f].digest, ThreadOf(f))])
    /\ UNCHANGED answer

RefuseConflict(f, table) ==
    /\ table[req[f].key].kind # "none"
    /\ table[req[f].key].digest # req[f].digest
    /\ Finish(f, Refused("conflict"))
    /\ Table(table)

ReplayTerminal_AnyIntent(f, table) ==
    /\ table[req[f].key].kind = "terminal"
    /\ Finish(f, Result(Decoded(table[req[f].key].bytes, req[f].digest)))
    /\ Table(table)

ReplayTerminal(f, table) ==
    /\ table[req[f].key].kind = "terminal"
    /\ table[req[f].key].digest = req[f].digest
    /\ Finish(f, Result(Decoded(table[req[f].key].bytes, req[f].digest)))
    /\ Table(table)

RefuseReentry_Dispatches(f, table) ==
    /\ table[req[f].key] = InFlight(req[f].digest, ThreadOf(f))
    /\ pc' = [pc EXCEPT ![f] = "dispatch"]
    /\ Table(table)
    /\ UNCHANGED answer

RefuseReentry(f, table) ==
    /\ table[req[f].key] = InFlight(req[f].digest, ThreadOf(f))
    /\ Finish(f, Refused("reentry"))
    /\ Table(table)

Wait_OnOneself(f, table) ==
    /\ table[req[f].key].kind = "inflight"
    /\ table[req[f].key].digest = req[f].digest
    /\ pc' = [pc EXCEPT ![f] = "waiting"]
    /\ Table(table)
    /\ UNCHANGED answer

Wait_OnTerminal(f, table) ==
    /\ table[req[f].key].kind # "none"
    /\ table[req[f].key].digest = req[f].digest
    /\ pc' = [pc EXCEPT ![f] = "waiting"]
    /\ Table(table)
    /\ UNCHANGED answer

Wait(f, table) ==
    /\ table[req[f].key].kind = "inflight"
    /\ table[req[f].key].digest = req[f].digest
    /\ table[req[f].key].owner # ThreadOf(f)
    /\ pc' = [pc EXCEPT ![f] = "waiting"]
    /\ Table(table)
    /\ UNCHANGED answer

Lookup(f, table) ==
    \/ RefuseCapacity(f, table)
    \/ Reserve(f, table)
    \/ RefuseConflict(f, table)
    \/ ReplayTerminal(f, table)
    \/ RefuseReentry(f, table)
    \/ Wait(f, table)

(* The first pass prunes with the reading taken before the lock; a pass    *)
(* after condition.wait does not prune again.                              *)
Enter(f) == pc[f] = "enter" /\ Lookup(f, Pruned(initial[f]))
Wake(f)  == pc[f] = "woken" /\ Lookup(f, entries)

Drafted(f, next, bytes, floor, control) ==
    /\ pc' = [pc EXCEPT ![f] = next]
    /\ draft' = [draft EXCEPT ![f] =
                    [bytes |-> bytes, floor |-> floor, control |-> control]]
    /\ UNCHANGED <<entries, clock, req, initial, answer, born>>

Dispatch(f, outcome) ==
    /\ pc[f] = "dispatch" /\ OnTop(f)
    /\ Drafted(f, "complete", Normalized(outcome, req[f].digest), NoTime, FALSE)

DispatchControl_Unpublished(f) ==
    /\ "control" \in Faults
    /\ pc[f] = "dispatch" /\ OnTop(f)
    /\ Finish(f, Refused("control"))
    /\ UNCHANGED <<entries, clock, req, initial, draft, born>>

(* KeyboardInterrupt and its kind skip the completion clock.               *)
DispatchControl(f) ==
    /\ "control" \in Faults
    /\ pc[f] = "dispatch" /\ OnTop(f)
    /\ Drafted(f, "publish", Fallback(req[f].digest), NoTime, TRUE)

CompleteInTime(f) ==
    /\ pc[f] = "complete"
    /\ initial[f] <= clock
    /\ Drafted(f, "publish", draft[f].bytes, clock, FALSE)

CompleteUncertain_WithFloor(f) ==
    /\ pc[f] = "complete"
    /\ clock < initial[f] \/ "clock" \in Faults
    /\ Drafted(f, "publish", Fallback(req[f].digest), clock, FALSE)

(* No reading, or one before initial_ns: the result is given up and the    *)
(* terminal is published without a floor.                                  *)
CompleteUncertain(f) ==
    /\ pc[f] = "complete"
    /\ clock < initial[f] \/ "clock" \in Faults
    /\ Drafted(f, "publish", Fallback(req[f].digest), NoTime, FALSE)

CompleteControl(f) ==
    /\ "control" \in Faults
    /\ pc[f] = "complete"
    /\ Drafted(f, "publish", Fallback(req[f].digest), NoTime, TRUE)

Settle_Silent(f) ==
    /\ entries' = [entries EXCEPT ![req[f].key] =
                      Terminal(req[f].digest, draft[f].bytes, draft[f].floor, NoTime)]
    /\ born' = [born EXCEPT ![req[f].key] =
                   [sampled |-> draft[f].floor, published |-> clock]]
    /\ Finish(f, Result(draft[f].bytes))

Settle_NotifyOne(f) ==
    /\ entries' = [entries EXCEPT ![req[f].key] =
                      Terminal(req[f].digest, draft[f].bytes, draft[f].floor, NoTime)]
    /\ born' = [born EXCEPT ![req[f].key] =
                   [sampled |-> draft[f].floor, published |-> clock]]
    /\ LET sleeping == {g \in Frames : pc[g] = "waiting"}
       IN  IF sleeping = {} THEN pc' = [pc EXCEPT ![f] = "returned"]
           ELSE \E g \in sleeping : pc' = [pc EXCEPT ![f] = "returned", ![g] = "woken"]
    /\ answer' = [answer EXCEPT ![f] = Result(draft[f].bytes)]

(* The second critical section: settle the entry and notify_all.           *)
Settle(f) ==
    /\ entries' = [entries EXCEPT ![req[f].key] =
                      Terminal(req[f].digest, draft[f].bytes, draft[f].floor, NoTime)]
    /\ born' = [born EXCEPT ![req[f].key] =
                   [sampled |-> draft[f].floor, published |-> clock]]
    /\ pc' = [g \in Frames |-> IF g = f THEN "returned"
                               ELSE IF pc[g] = "waiting" THEN "woken" ELSE pc[g]]
    /\ answer' = [answer EXCEPT ![f] =
                     IF draft[f].control THEN Refused("control")
                     ELSE Result(Decoded(draft[f].bytes, req[f].digest))]

LoseReservation(f) ==
    /\ Finish(f, Refused("lost"))
    /\ UNCHANGED <<entries, born>>

Publish(f) ==
    /\ pc[f] = "publish"
    /\ IF HoldsReservation(f) THEN Settle(f) ELSE LoseReservation(f)
    /\ UNCHANGED <<clock, req, initial, draft>>

Return(f) ==
    /\ pc[f] = "returned"
    /\ pc' = [pc EXCEPT ![f] = "idle"]
    /\ req' = [req EXCEPT ![f] = AnyRequest]
    /\ initial' = [initial EXCEPT ![f] = NoTime]
    /\ draft' = [draft EXCEPT ![f] = NoDraft]
    /\ answer' = [answer EXCEPT ![f] = NoAnswer]
    /\ UNCHANGED <<entries, clock, born>>

(* Time passes; a clock with the "backward" fault may also step back.      *)
Tick ==
    /\ \/ clock' = clock + 1
       \/ "backward" \in Faults /\ clock' = clock - 1
    /\ clock' \in Times
    /\ UNCHANGED <<entries, pc, req, initial, draft, answer, born>>

Finishes(f) == (\E outcome \in Bytes \cup {Unusable} : Dispatch(f, outcome)) \/ DispatchControl(f)
Completes(f) == CompleteInTime(f) \/ CompleteUncertain(f) \/ CompleteControl(f)
Call(f) == (\E r \in Requests : Invoke(f, r)) \/ RefuseCall(f)

Next ==
    \/ \E f \in Frames :
          Call(f) \/ Enter(f) \/ Wake(f) \/ Finishes(f) \/ Completes(f) \/ Publish(f) \/ Return(f)
    \/ Tick

Spec == Init /\ [][Next]_vars

(* Worker threads keep running and every dispatch callback comes back;     *)
(* nothing obliges a thread to make a call, nor the clock to move.         *)
Runs(f) == Enter(f) \/ Wake(f) \/ Finishes(f) \/ Completes(f) \/ Publish(f) \/ Return(f)

FairSpec == Spec /\ \A f \in Frames : WF_vars(Runs(f))

-----------------------------------------------------------------------------
(* Properties *)

Stages == {"idle", "enter", "waiting", "woken", "dispatch", "complete", "publish", "returned"}

(* Every variable keeps its type, and every entry, draft and answer is one *)
(* the code's dataclasses allow.                                           *)
TypeOK ==
    /\ entries \in [Keys -> Entries]
    /\ clock \in Times
    /\ pc \in [Frames -> Stages]
    /\ req \in [Frames -> Requests]
    /\ initial \in [Frames -> Times \cup {NoTime}]
    /\ draft \in [Frames -> [bytes : Bytes, floor : Times \cup {NoTime}, control : BOOLEAN]]
    /\ answer \in [Frames -> Answers]
    /\ born \in [Keys -> [sampled : Times \cup {NoTime}, published : Times \cup {NoTime}]]

Owns(f) == pc[f] \in {"dispatch", "complete", "publish"}

(* An owner finds its own reservation when it comes back from dispatch     *)
(* (_replay.py:245-250 raises "reservation was lost" otherwise), whatever  *)
(* pruning, nested calls and other owners did while no lock was held.      *)
ReservationNeverLost ==
    \A f \in Frames : answer[f].kind # "lost"

(* A reservation is never orphaned and never shared: behind every          *)
(* in-flight entry exactly one call is between reserving and publishing,   *)
(* on the owning thread and for the same intent.                           *)
OneOwnerPerReservation ==
    \A k \in Keys : entries[k].kind = "inflight" =>
        \E f \in Frames :
            /\ Owns(f) /\ req[f].key = k
            /\ entries[k] = InFlight(req[f].digest, ThreadOf(f))
            /\ \A g \in Frames : Owns(g) /\ req[g].key = k => g = f

(* No lost wakeup and no self-wait: a call sleeps on the condition only    *)
(* while its key is in flight for its own intent on another thread, so the *)
(* notify_all of that publication is still to come.                        *)
WaitersHaveALiveOwner ==
    \A f \in Frames : pc[f] = "waiting" =>
        LET e == entries[req[f].key]
        IN  e.kind = "inflight" /\ e.digest = req[f].digest /\ e.owner # ThreadOf(f)

(* The table never exceeds its capacity although the code only compares    *)
(* for equality (_replay.py:189).                                          *)
CapacityBounded == Cardinality(Occupied(entries)) <= Capacity

(* A result handed to a caller, by its own dispatch or from the table,     *)
(* answers that caller's request, and every stored terminal does decode    *)
(* for the intent it is filed under.                                       *)
AnswersMatchIntent ==
    /\ \A f \in Frames : answer[f].kind = "result" => answer[f].bytes.intent = req[f].digest
    /\ \A k \in Keys : entries[k].kind = "terminal" => entries[k].bytes.intent = entries[k].digest

Keeps(k) ==
    /\ entries'[k].kind = "terminal"
    /\ entries'[k].digest = entries[k].digest
    /\ entries'[k].bytes = entries[k].bytes

Expires(k) ==
    /\ born[k].sampled # NoTime
    /\ \E f \in Frames :
          /\ pc[f] = "enter" /\ pc'[f] # "enter"
          /\ initial[f] >= born[k].sampled + Retention

(* The replay guarantee: a terminal keeps its intent and its bytes, so     *)
(* that every caller of the window is told the same thing, until a caller  *)
(* prunes it that observed at least one window after the owner's           *)
(* completion sample.  A terminal whose completion was uncertain has no    *)
(* sample and never leaves.                                                *)
TerminalsOutliveTheirWindow ==
    [][\A k \in Keys : entries[k].kind = "terminal" => Keeps(k) \/ Expires(k)]_vars

(* Every call that enters the coordinator returns or raises, waiters       *)
(* included, when callbacks do not call back (MaxDepth = 1).               *)
EveryCallReturns ==
    \A f \in Frames : pc[f] = "enter" ~> pc[f] = "returned"

(* Decision 0011, line 16: "Terminal retention cannot begin before         *)
(* publication".  The code anchors with a reading taken before the lock,   *)
(* so a caller that read its clock before the publication and entered      *)
(* after it starts the window too early.                                   *)
RetentionBeginsAfterPublication ==
    \A k \in Keys : entries[k].kind = "terminal" /\ entries[k].anchor # NoTime =>
        entries[k].anchor >= born[k].published
=============================================================================
