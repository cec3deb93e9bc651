---------------------------- MODULE ReplayProofs ----------------------------
(***************************************************************************)
(* Proofs about Replay, for every set of threads, keys and digests, every  *)
(* capacity, retention and nesting depth.                                  *)
(***************************************************************************)
EXTENDS ContractRefinement, FiniteSetTheorems, TLAPS

-----------------------------------------------------------------------------
(* What a look at the table may make of it before acting on it: pruning    *)
(* removes terminals or anchors them, and touches nothing else.            *)

Thinned(table) ==
    /\ table \in [Keys -> Entries]
    /\ \A k \in Keys :
          \/ table[k] = entries[k]
          \/ entries[k].kind = "terminal" /\ table[k] = NoEntry
          \/ /\ entries[k].kind = "terminal" /\ table[k].kind = "terminal"
             /\ table[k].digest = entries[k].digest
             /\ table[k].bytes = entries[k].bytes

LEMMA TimesType == Times \subseteq Int /\ NoTime \in Int /\ NoTime \notin Times /\ 0 \in Times
  BY ClockAssumption DEF Times, NoTime

LEMMA RequestExists == AnyRequest \in Requests
  <1>1. PICK k \in Keys, d \in Digests : TRUE
    BY KeysAssumption
  <1>2. [key |-> k, digest |-> d] \in Requests
    BY <1>1 DEF Requests
  <1> QED BY <1>2 DEF AnyRequest

LEMMA FallbackType == \A d \in Digests : Fallback(d) \in Bytes /\ Fallback(d).intent = d
  BY ValuesAssumption DEF Fallback, Bytes

LEMMA NormalizedType ==
    ASSUME NEW outcome, NEW d \in Digests
    PROVE  Normalized(outcome, d) \in Bytes /\ Normalized(outcome, d).intent = d
  BY FallbackType DEF Normalized

LEMMA DecodedType ==
    ASSUME NEW b \in Bytes, NEW d \in Digests
    PROVE  Decoded(b, d) \in Bytes /\ Decoded(b, d).intent = d
  BY FallbackType DEF Decoded

LEMMA EntryKinds ==
    ASSUME NEW e \in Entries
    PROVE  /\ e.kind \in {"none", "inflight", "terminal"}
           /\ e.kind = "none" => e = NoEntry
           /\ e.kind = "inflight" => /\ e.digest \in Digests /\ e.owner \in Threads
                                     /\ e = InFlight(e.digest, e.owner)
           /\ e.kind = "terminal" => /\ e.digest \in Digests /\ e.bytes \in Bytes
                                     /\ e.floor \in Times \cup {NoTime}
                                     /\ e.anchor \in Times \cup {NoTime}
  BY DEF Entries, NoEntry, InFlight

LEMMA NoEntryType == NoEntry \in Entries /\ NoEntry.kind = "none"
  BY DEF Entries, NoEntry

LEMMA InFlightType ==
    ASSUME NEW d \in Digests, NEW t \in Threads
    PROVE  /\ InFlight(d, t) \in Entries /\ InFlight(d, t).kind = "inflight"
           /\ InFlight(d, t).digest = d /\ InFlight(d, t).owner = t
  BY DEF Entries, InFlight

LEMMA PrunedEntryCases ==
    ASSUME NEW e \in Entries, NEW now \in Times \cup {NoTime}
    PROVE  /\ PrunedEntry(e, now) \in Entries
           /\ \/ PrunedEntry(e, now) = e
              \/ e.kind = "terminal" /\ PrunedEntry(e, now) = NoEntry
              \/ /\ e.kind = "terminal" /\ PrunedEntry(e, now).kind = "terminal"
                 /\ PrunedEntry(e, now).digest = e.digest
                 /\ PrunedEntry(e, now).bytes = e.bytes
  <1>1. CASE e.kind = "terminal" /\ e.floor # NoTime
    <2>1. PICK a \in Times \cup {NoTime} : a = IF e.floor > now THEN e.floor ELSE now
      BY <1>1, EntryKinds
    <2>2. PrunedEntry(e, now) = Terminal(e.digest, e.bytes, NoTime, a)
      BY <1>1, <2>1 DEF PrunedEntry
    <2>3. e.digest \in Digests /\ e.bytes \in Bytes /\ NoTime \in Times \cup {NoTime}
      BY <1>1, EntryKinds
    <2>4. /\ Terminal(e.digest, e.bytes, NoTime, a) \in Entries
          /\ Terminal(e.digest, e.bytes, NoTime, a).kind = "terminal"
          /\ Terminal(e.digest, e.bytes, NoTime, a).digest = e.digest
          /\ Terminal(e.digest, e.bytes, NoTime, a).bytes = e.bytes
      BY <2>1, <2>3 DEF Entries, Terminal
    <2> QED BY <1>1, <2>2, <2>4
  <1>2. CASE ~(e.kind = "terminal" /\ e.floor # NoTime)
    BY <1>2, NoEntryType DEF PrunedEntry
  <1> QED BY <1>1, <1>2

LEMMA PruningThins ==
    ASSUME TypeOK, NEW now \in Times \cup {NoTime}
    PROVE  Thinned(Pruned(now))
  BY PrunedEntryCases DEF TypeOK, Thinned, Pruned

(* In particular it leaves every reservation as it was, and makes none.    *)
LEMMA ThinningKeepsInFlight ==
    ASSUME NEW table, Thinned(table), NEW k \in Keys
    PROVE  \/ entries[k].kind = "inflight" /\ table[k] = entries[k]
           \/ entries[k].kind # "inflight" /\ table[k].kind # "inflight"
  <1>1. CASE table[k] = entries[k]
    BY <1>1
  <1>2. CASE entries[k].kind = "terminal" /\ table[k] = NoEntry
    BY <1>2, NoEntryType
  <1>3. CASE entries[k].kind = "terminal" /\ table[k].kind = "terminal"
    BY <1>3
  <1> QED BY <1>1, <1>2, <1>3 DEF Thinned

LEMMA StayingThins == TypeOK => Thinned(entries)
  BY DEF Thinned, TypeOK

(* Everything Enter and Wake do, with the table they looked at.            *)
LEMMA LookupCases ==
    ASSUME TypeOK, NEW f \in Frames, Enter(f) \/ Wake(f)
    PROVE  \E table : /\ Thinned(table) /\ Lookup(f, table)
                      /\ pc[f] \in {"enter", "woken"}
  <1>1. CASE Enter(f)
    <2>1. initial[f] \in Times \cup {NoTime}
      BY DEF TypeOK
    <2> QED BY <1>1, <2>1, PruningThins DEF Enter
  <1>2. CASE Wake(f)
    BY <1>2, StayingThins DEF Wake
  <1> QED BY <1>1, <1>2

-----------------------------------------------------------------------------
(* Type correctness.                                                       *)

LEMMA InitTypeOK == Init => TypeOK
  BY TimesType, RequestExists, FallbackType, NoEntryType
     DEF Init, TypeOK, Stages, NoDraft, NoAnswer, Answers, NotBorn, Requests

(* The table and the answer a look at the table leaves behind.             *)
LEMMA LookupTypeOK ==
    ASSUME TypeOK, NEW f \in Frames, NEW table, Thinned(table), Lookup(f, table)
    PROVE  TypeOK'
  <1> USE DEF Table, Finish
  <1>0. /\ req[f] \in Requests /\ req[f].key \in Keys /\ req[f].digest \in Digests
        /\ ThreadOf(f) \in Threads
        /\ table \in [Keys -> Entries]
    BY DEF TypeOK, Requests, Frames, ThreadOf, Thinned
  <1>1. ASSUME NEW t \in [Keys -> Entries], Table(t)
        PROVE  /\ entries' \in [Keys -> Entries] /\ clock' \in Times
               /\ req' \in [Frames -> Requests]
               /\ initial' \in [Frames -> Times \cup {NoTime}]
               /\ draft' \in [Frames -> [bytes : Bytes, floor : Times \cup {NoTime}, control : BOOLEAN]]
               /\ born' \in [Keys -> [sampled : Times \cup {NoTime}, published : Times \cup {NoTime}]]
    BY <1>1 DEF TypeOK, NotBorn
  <1>2. ASSUME NEW how \in Answers, Finish(f, how)
        PROVE  pc' \in [Frames -> Stages] /\ answer' \in [Frames -> Answers]
    BY <1>2 DEF TypeOK, Stages
  <1>3. CASE RefuseCapacity(f, table)
    <2>1. Refused("capacity") \in Answers
      BY DEF Refused, Answers, Refusals
    <2> QED BY <1>0, <1>1, <1>2, <1>3, <2>1 DEF RefuseCapacity, TypeOK
  <1>4. CASE Reserve(f, table)
    <2>1. [table EXCEPT ![req[f].key] = InFlight(req[f].digest, ThreadOf(f))] \in [Keys -> Entries]
      BY <1>0, InFlightType
    <2>2. pc' \in [Frames -> Stages] /\ answer' \in [Frames -> Answers]
      BY <1>4 DEF Reserve, TypeOK, Stages
    <2> QED BY <1>1, <1>4, <2>1, <2>2 DEF Reserve, TypeOK
  <1>5. CASE RefuseConflict(f, table)
    <2>1. Refused("conflict") \in Answers
      BY DEF Refused, Answers, Refusals
    <2> QED BY <1>0, <1>1, <1>2, <1>5, <2>1 DEF RefuseConflict, TypeOK
  <1>6. CASE ReplayTerminal(f, table)
    <2>1. table[req[f].key].bytes \in Bytes
      BY <1>0, <1>6, EntryKinds DEF ReplayTerminal
    <2>2. Result(Decoded(table[req[f].key].bytes, req[f].digest)) \in Answers
      BY <1>0, <2>1, DecodedType DEF Result, Answers
    <2> QED BY <1>0, <1>1, <1>2, <1>6, <2>2 DEF ReplayTerminal, TypeOK
  <1>7. CASE RefuseReentry(f, table)
    <2>1. Refused("reentry") \in Answers
      BY DEF Refused, Answers, Refusals
    <2> QED BY <1>0, <1>1, <1>2, <1>7, <2>1 DEF RefuseReentry, TypeOK
  <1>8. CASE Wait(f, table)
    <2>1. pc' \in [Frames -> Stages] /\ answer' \in [Frames -> Answers]
      BY <1>8 DEF Wait, TypeOK, Stages
    <2> QED BY <1>0, <1>1, <1>8, <2>1 DEF Wait, TypeOK
  <1> QED BY <1>3, <1>4, <1>5, <1>6, <1>7, <1>8 DEF Lookup

LEMMA DraftedTypeOK ==
    ASSUME TypeOK, NEW f \in Frames, NEW next \in Stages, NEW bytes \in Bytes,
           NEW floor \in Times \cup {NoTime}, NEW control \in BOOLEAN,
           Drafted(f, next, bytes, floor, control)
    PROVE  TypeOK'
  BY DEF TypeOK, Drafted

LEMMA PublishTypeOK ==
    ASSUME TypeOK, NEW f \in Frames, Publish(f)
    PROVE  TypeOK'
  <1>0. /\ req[f].key \in Keys /\ req[f].digest \in Digests
        /\ draft[f].bytes \in Bytes /\ draft[f].floor \in Times \cup {NoTime}
    BY DEF TypeOK, Requests
  <1>1. CASE HoldsReservation(f)
    <2>1. Terminal(req[f].digest, draft[f].bytes, draft[f].floor, NoTime) \in Entries
      BY <1>0 DEF Terminal, Entries
    <2>2. Refused("control") \in Answers /\ Result(Decoded(draft[f].bytes, req[f].digest)) \in Answers
      BY <1>0, DecodedType DEF Refused, Result, Answers, Refusals
    <2>3. Settle(f)
      BY <1>1 DEF Publish
    <2>4. entries' \in [Keys -> Entries]
      BY <2>1, <2>3 DEF Settle, TypeOK
    <2>5. pc' \in [Frames -> Stages]
      BY <2>3 DEF Settle, TypeOK, Stages
    <2>6. answer' \in [Frames -> Answers]
      BY <2>2, <2>3 DEF Settle, TypeOK
    <2>7. born' \in [Keys -> [sampled : Times \cup {NoTime}, published : Times \cup {NoTime}]]
      BY <1>0, <2>3 DEF Settle, TypeOK
    <2> QED BY <2>4, <2>5, <2>6, <2>7 DEF Publish, TypeOK
  <1>2. CASE ~HoldsReservation(f)
    BY <1>2 DEF Publish, LoseReservation, Finish, TypeOK, Stages, Refused, Answers, Refusals
  <1> QED BY <1>1, <1>2

LEMMA StepTypeOK == TypeOK /\ [Next]_vars => TypeOK'
  <1> SUFFICES ASSUME TypeOK, [Next]_vars
               PROVE  TypeOK'
    OBVIOUS
  <1>1. ASSUME NEW f \in Frames, NEW r \in Requests, Invoke(f, r)
        PROVE  TypeOK'
    BY <1>1 DEF Invoke, TypeOK, Stages
  <1>2. ASSUME NEW f \in Frames, RefuseCall(f)
        PROVE  TypeOK'
    BY <1>2 DEF RefuseCall, TypeOK, Stages, Refused, Answers, Refusals
  <1>3. ASSUME NEW f \in Frames, Enter(f) \/ Wake(f)
        PROVE  TypeOK'
    BY <1>3, LookupCases, LookupTypeOK
  <1>4. ASSUME NEW f \in Frames, Finishes(f)
        PROVE  TypeOK'
    <2>1. req[f].digest \in Digests /\ {"complete", "publish"} \subseteq Stages
      BY DEF TypeOK, Requests, Stages
    <2>2. ASSUME NEW outcome, Dispatch(f, outcome)
          PROVE  TypeOK'
      BY <2>1, <2>2, NormalizedType, DraftedTypeOK DEF Dispatch
    <2>3. CASE DispatchControl(f)
      BY <2>1, <2>3, FallbackType, DraftedTypeOK DEF DispatchControl
    <2> QED BY <1>4, <2>2, <2>3 DEF Finishes
  <1>5. ASSUME NEW f \in Frames, Completes(f)
        PROVE  TypeOK'
    <2>1. /\ req[f].digest \in Digests /\ {"complete", "publish"} \subseteq Stages
          /\ draft[f].bytes \in Bytes /\ clock \in Times
      BY DEF TypeOK, Requests, Stages
    <2>2. CASE CompleteInTime(f)
      BY <2>1, <2>2, DraftedTypeOK DEF CompleteInTime
    <2>3. CASE CompleteUncertain(f)
      BY <2>1, <2>3, FallbackType, DraftedTypeOK DEF CompleteUncertain
    <2>4. CASE CompleteControl(f)
      BY <2>1, <2>4, FallbackType, DraftedTypeOK DEF CompleteControl
    <2> QED BY <1>5, <2>2, <2>3, <2>4 DEF Completes
  <1>6. ASSUME NEW f \in Frames, Return(f)
        PROVE  TypeOK'
    <2>1. /\ AnyRequest \in Requests /\ NoAnswer \in Answers
          /\ NoDraft \in [bytes : Bytes, floor : Times \cup {NoTime}, control : BOOLEAN]
      BY RequestExists, FallbackType DEF NoDraft, NoAnswer, Answers, Requests
    <2> QED BY <1>6, <2>1 DEF Return, TypeOK, Stages
  <1>7. CASE Tick
    BY <1>7 DEF Tick, TypeOK
  <1>8. CASE UNCHANGED vars
    BY <1>8 DEF vars, TypeOK
  <1> QED BY <1>1, <1>2, <1>3, <1>4, <1>5, <1>6, <1>7, <1>8, PublishTypeOK
          DEF Next, Call

(* Every variable of the coordinator keeps its type in every behaviour.    *)
THEOREM TypeCorrect == Spec => []TypeOK
  BY InitTypeOK, StepTypeOK, PTL DEF Spec

-----------------------------------------------------------------------------
(* Ownership.  ReservationNeverLost and WaitersHaveALiveOwner are not      *)
(* inductive alone: what makes them so is that every owner's entry is in   *)
(* place while it works without the lock, that no two owners share a key,  *)
(* and that no entry is in flight without an owner.                        *)

OwnersHold == \A f \in Frames : Owns(f) => HoldsReservation(f)

OwnersDiffer ==
    \A f \in Frames, g \in Frames : Owns(f) /\ Owns(g) /\ req[f].key = req[g].key => f = g

NoOrphan ==
    \A k \in Keys : entries[k].kind = "inflight" =>
        \E f \in Frames : Owns(f) /\ req[f].key = k

Ownership ==
    /\ OwnersHold /\ OwnersDiffer /\ NoOrphan
    /\ WaitersHaveALiveOwner /\ ReservationNeverLost

LEMMA InitOwnership == Init => Ownership
  BY DEF Init, Ownership, OwnersHold, OwnersDiffer, NoOrphan, WaitersHaveALiveOwner,
         ReservationNeverLost, Owns, NoEntry, NoAnswer

(* Steps that take no lock and neither gain nor give up a reservation.     *)
LEMMA UnlockedStep ==
    ASSUME Ownership, entries' = entries,
           \A g \in Frames :
              /\ Owns(g)' <=> Owns(g)
              /\ pc'[g] = "waiting" <=> pc[g] = "waiting"
              /\ Owns(g) \/ pc[g] = "waiting" => req'[g] = req[g]
              /\ answer'[g].kind = "lost" => answer[g].kind = "lost"
    PROVE  Ownership'
  <1>1. OwnersHold'
    BY DEF Ownership, OwnersHold, HoldsReservation
  <1>2. OwnersDiffer'
    BY DEF Ownership, OwnersDiffer
  <1>3. NoOrphan'
    BY DEF Ownership, NoOrphan
  <1>4. WaitersHaveALiveOwner'
    BY DEF Ownership, WaitersHaveALiveOwner
  <1>5. ReservationNeverLost'
    BY DEF Ownership, ReservationNeverLost
  <1> QED BY <1>1, <1>2, <1>3, <1>4, <1>5 DEF Ownership

(* A look at the table that ends without a reservation.                    *)
LEMMA LookWithoutReserving ==
    ASSUME TypeOK, Ownership, NEW f \in Frames, NEW table, Thinned(table),
           entries' = table, req' = req, pc[f] \in {"enter", "woken"},
           NEW how \in {"returned", "waiting"},
           pc' = [pc EXCEPT ![f] = how],
           how = "waiting" => /\ table[req[f].key].kind = "inflight"
                              /\ table[req[f].key].digest = req[f].digest
                              /\ table[req[f].key].owner # ThreadOf(f),
           \A g \in Frames : answer'[g].kind = "lost" => answer[g].kind = "lost"
    PROVE  Ownership'
  <1>0. \A g \in Frames : req[g].key \in Keys
    BY DEF TypeOK, Requests
  <1>1. \A k \in Keys : \/ entries[k].kind = "inflight" /\ table[k] = entries[k]
                        \/ entries[k].kind # "inflight" /\ table[k].kind # "inflight"
    BY ThinningKeepsInFlight
  <1>2. \A g \in Frames : Owns(g)' <=> Owns(g)
    BY DEF TypeOK, Owns
  <1>3. OwnersHold'
    BY <1>0, <1>1, <1>2 DEF Ownership, OwnersHold, HoldsReservation
  <1>4. OwnersDiffer'
    BY <1>2 DEF Ownership, OwnersDiffer
  <1>5. NoOrphan'
    BY <1>1, <1>2 DEF Ownership, NoOrphan
  <1>6. WaitersHaveALiveOwner'
    <2>1. \A g \in Frames \ {f} : pc'[g] = pc[g]
      BY DEF TypeOK
    <2>2. pc'[f] = how
      BY DEF TypeOK
    <2> QED BY <1>0, <1>1, <2>1, <2>2 DEF Ownership, WaitersHaveALiveOwner
  <1>7. ReservationNeverLost'
    BY DEF Ownership, ReservationNeverLost
  <1> QED BY <1>3, <1>4, <1>5, <1>6, <1>7 DEF Ownership

LEMMA ReserveOwnership ==
    ASSUME TypeOK, Ownership, NEW f \in Frames, NEW table, Thinned(table),
           pc[f] \in {"enter", "woken"}, Reserve(f, table)
    PROVE  Ownership'
  <1> DEFINE k == req[f].key
  <1>0. /\ \A g \in Frames : req[g].key \in Keys
        /\ req[f].digest \in Digests /\ ThreadOf(f) \in Threads
        /\ table \in [Keys -> Entries]
        /\ k \in Keys
    BY DEF TypeOK, Requests, Frames, ThreadOf, Thinned
  <1>1. /\ entries' = [table EXCEPT ![k] = InFlight(req[f].digest, ThreadOf(f))]
        /\ req' = req /\ answer' = answer /\ pc' = [pc EXCEPT ![f] = "dispatch"]
    BY DEF Reserve, Table
  <1>2. /\ entries'[k] = InFlight(req[f].digest, ThreadOf(f))
        /\ \A j \in Keys \ {k} : entries'[j] = table[j]
    BY <1>0, <1>1
  <1>3. \A j \in Keys : \/ entries[j].kind = "inflight" /\ table[j] = entries[j]
                        \/ entries[j].kind # "inflight" /\ table[j].kind # "inflight"
    BY ThinningKeepsInFlight
  <1>4. entries[k].kind # "inflight"
    BY <1>0, <1>3 DEF Reserve
  <1>5. \A g \in Frames : pc'[g] = IF g = f THEN "dispatch" ELSE pc[g]
    BY <1>1 DEF TypeOK
  <1>6. \A g \in Frames : Owns(g) \/ pc[g] = "waiting" => g # f /\ req[g].key # k
    BY <1>4 DEF Ownership, OwnersHold, HoldsReservation, WaitersHaveALiveOwner, Owns
  <1>7. Owns(f)' /\ \A g \in Frames \ {f} : Owns(g)' <=> Owns(g)
    BY <1>5 DEF Owns
  <1>8. OwnersHold'
    <2>1. HoldsReservation(f)'
      BY <1>0, <1>1, <1>2, InFlightType DEF HoldsReservation, ThreadOf
    <2>2. ASSUME NEW g \in Frames \ {f}, Owns(g)
          PROVE  HoldsReservation(g)'
      <3>1. HoldsReservation(g) /\ req[g].key \in Keys \ {k}
        BY <1>0, <1>6, <2>2 DEF Ownership, OwnersHold
      <3>2. entries'[req[g].key] = entries[req[g].key]
        BY <1>2, <1>3, <3>1 DEF HoldsReservation
      <3> QED BY <1>1, <3>1, <3>2 DEF HoldsReservation
    <2> QED BY <1>7, <2>1, <2>2 DEF OwnersHold
  <1>9. OwnersDiffer'
    BY <1>1, <1>6, <1>7 DEF Ownership, OwnersDiffer
  <1>10. NoOrphan'
    BY <1>0, <1>1, <1>2, <1>3, <1>7, <1>6 DEF Ownership, NoOrphan
  <1>11. WaitersHaveALiveOwner'
    <2>1. ASSUME NEW g \in Frames, pc'[g] = "waiting"
          PROVE  g # f /\ pc[g] = "waiting" /\ entries'[req[g].key] = entries[req[g].key]
      <3>1. g # f /\ pc[g] = "waiting"
        BY <1>5, <2>1
      <3>2. req[g].key \in Keys \ {k} /\ entries[req[g].key].kind = "inflight"
        BY <1>0, <1>6, <3>1 DEF Ownership, WaitersHaveALiveOwner
      <3> QED BY <1>2, <1>3, <3>1, <3>2
    <2> QED BY <1>1, <2>1 DEF Ownership, WaitersHaveALiveOwner
  <1>12. ReservationNeverLost'
    BY <1>1 DEF Ownership, ReservationNeverLost
  <1> QED BY <1>8, <1>9, <1>10, <1>11, <1>12 DEF Ownership

LEMMA PublishOwnership ==
    ASSUME TypeOK, Ownership, NEW f \in Frames, Publish(f)
    PROVE  Ownership'
  <1> DEFINE k == req[f].key
  <1>0. \A g \in Frames : req[g].key \in Keys
    BY DEF TypeOK, Requests
  <1>1. Owns(f) /\ HoldsReservation(f) /\ Settle(f) /\ req' = req
    BY DEF Publish, Owns, Ownership, OwnersHold
  <1>2. entries'[k].kind = "terminal" /\ \A j \in Keys \ {k} : entries'[j] = entries[j]
    BY <1>0, <1>1 DEF Settle, TypeOK, Terminal
  <1>3. \A g \in Frames : /\ pc'[g] # "waiting"
                          /\ Owns(g)' <=> Owns(g) /\ g # f
    BY <1>1 DEF Settle, Owns
  <1>4. \A g \in Frames \ {f} : Owns(g) => req[g].key \in Keys \ {k}
    BY <1>0, <1>1 DEF Ownership, OwnersDiffer
  <1>5. OwnersHold'
    <2>1. ASSUME NEW g \in Frames, Owns(g)'
          PROVE  HoldsReservation(g)'
      <3>1. g # f /\ Owns(g) /\ req[g].key \in Keys \ {k} /\ HoldsReservation(g)
        BY <1>3, <1>4, <2>1 DEF Ownership, OwnersHold
      <3> QED BY <1>1, <1>2, <3>1 DEF HoldsReservation
    <2> QED BY <2>1 DEF OwnersHold
  <1>6. OwnersDiffer'
    <2>1. \A g \in Frames : Owns(g)' => Owns(g)
      BY <1>3
    <2> QED BY <1>1, <2>1 DEF Ownership, OwnersDiffer
  <1>7. NoOrphan'
    BY <1>0, <1>1, <1>2, <1>3 DEF Ownership, NoOrphan
  <1>8. WaitersHaveALiveOwner'
    BY <1>3 DEF WaitersHaveALiveOwner
  <1>9. ReservationNeverLost'
    <2>1. \A g \in Frames \ {f} : answer'[g] = answer[g]
      BY <1>1 DEF Settle, TypeOK
    <2>2. answer'[f].kind # "lost"
      BY <1>1 DEF Settle, TypeOK, Refused, Result
    <2> QED BY <2>1, <2>2 DEF Ownership, ReservationNeverLost
  <1> QED BY <1>5, <1>6, <1>7, <1>8, <1>9 DEF Ownership

LEMMA LookupOwnership ==
    ASSUME TypeOK, Ownership, NEW f \in Frames, NEW table, Thinned(table),
           pc[f] \in {"enter", "woken"}, Lookup(f, table)
    PROVE  Ownership'
  <1>1. ASSUME NEW how, how.kind # "lost", Finish(f, how), Table(table)
        PROVE  Ownership'
    <2>1. /\ entries' = table /\ req' = req
          /\ pc' = [pc EXCEPT ![f] = "returned"]
          /\ \A g \in Frames : answer'[g].kind = "lost" => answer[g].kind = "lost"
      BY <1>1 DEF Finish, Table, TypeOK
    <2> QED BY <2>1, LookWithoutReserving
  <1>2. CASE RefuseCapacity(f, table)
    BY <1>1, <1>2 DEF RefuseCapacity, Refused
  <1>3. CASE Reserve(f, table)
    BY <1>3, ReserveOwnership
  <1>4. CASE RefuseConflict(f, table)
    BY <1>1, <1>4 DEF RefuseConflict, Refused
  <1>5. CASE ReplayTerminal(f, table)
    BY <1>1, <1>5 DEF ReplayTerminal, Result
  <1>6. CASE RefuseReentry(f, table)
    BY <1>1, <1>6 DEF RefuseReentry, Refused
  <1>7. CASE Wait(f, table)
    <2>1. /\ entries' = table /\ req' = req /\ answer' = answer
          /\ pc' = [pc EXCEPT ![f] = "waiting"]
      BY <1>7 DEF Wait, Table
    <2> QED BY <1>7, <2>1, LookWithoutReserving DEF Wait
  <1> QED BY <1>2, <1>3, <1>4, <1>5, <1>6, <1>7 DEF Lookup

LEMMA StepOwnership == TypeOK /\ Ownership /\ [Next]_vars => Ownership'
  <1> SUFFICES ASSUME TypeOK, Ownership, [Next]_vars
               PROVE  Ownership'
    OBVIOUS
  <1>1. ASSUME NEW f \in Frames, Call(f)
        PROVE  Ownership'
    BY <1>1, UnlockedStep DEF Call, Invoke, RefuseCall, CanCall, Owns, TypeOK, Refused
  <1>2. ASSUME NEW f \in Frames, Enter(f) \/ Wake(f)
        PROVE  Ownership'
    BY <1>2, LookupCases, LookupOwnership
  <1>3. ASSUME NEW f \in Frames, Finishes(f) \/ Completes(f)
        PROVE  Ownership'
    <2>1. PICK next \in {"complete", "publish"} :
             \E bytes, floor, control : Drafted(f, next, bytes, floor, control)
      BY <1>3 DEF Finishes, Completes, Dispatch, DispatchControl,
                  CompleteInTime, CompleteUncertain, CompleteControl
    <2>2. pc[f] \in {"dispatch", "complete"}
      BY <1>3 DEF Finishes, Completes, Dispatch, DispatchControl,
                  CompleteInTime, CompleteUncertain, CompleteControl
    <2> QED BY <2>1, <2>2, UnlockedStep DEF Drafted, Owns, TypeOK
  <1>4. ASSUME NEW f \in Frames, Return(f)
        PROVE  Ownership'
    BY <1>4, UnlockedStep DEF Return, Owns, TypeOK, NoAnswer
  <1>5. CASE Tick \/ UNCHANGED vars
    BY <1>5, UnlockedStep DEF Tick, vars, Owns
  <1> QED BY <1>1, <1>2, <1>3, <1>4, <1>5, PublishOwnership DEF Next

(* The inductive invariant of the coordinator's synchronisation.           *)
THEOREM OwnershipHolds == Spec => []Ownership
  BY InitTypeOK, StepTypeOK, InitOwnership, StepOwnership, PTL DEF Spec

(* No owner ever comes back from its dispatch to find its reservation      *)
(* gone (_replay.py:245-250 is unreachable).                               *)
THEOREM NoReservationIsLost == Spec => []ReservationNeverLost
  <1>1. Ownership => ReservationNeverLost
    BY DEF Ownership
  <1> QED BY <1>1, OwnershipHolds, PTL

(* Behind every in-flight entry there is exactly one call at work, on the  *)
(* thread and for the intent the entry names.                              *)
THEOREM ReservationsAreOwned == Spec => []OneOwnerPerReservation
  <1>1. TypeOK /\ Ownership => OneOwnerPerReservation
    <2> SUFFICES ASSUME TypeOK, Ownership, NEW k \in Keys, entries[k].kind = "inflight"
                 PROVE  \E f \in Frames :
                           /\ Owns(f) /\ req[f].key = k
                           /\ entries[k] = InFlight(req[f].digest, ThreadOf(f))
                           /\ \A g \in Frames : Owns(g) /\ req[g].key = k => g = f
      BY DEF OneOwnerPerReservation
    <2>1. PICK f \in Frames : Owns(f) /\ req[f].key = k
      BY DEF Ownership, NoOrphan
    <2>2. entries[k].digest = req[f].digest /\ entries[k].owner = ThreadOf(f)
      BY <2>1 DEF Ownership, OwnersHold, HoldsReservation
    <2>3. entries[k] = InFlight(req[f].digest, ThreadOf(f))
      BY <2>2, EntryKinds DEF TypeOK
    <2> QED BY <2>1, <2>3 DEF Ownership, OwnersDiffer
  <1> QED BY <1>1, TypeCorrect, OwnershipHolds, PTL

(* A call never sleeps on an entry whose publication has already happened, *)
(* nor on its own thread's reservation.                                    *)
THEOREM NoWakeupIsLost == Spec => []WaitersHaveALiveOwner
  <1>1. Ownership => WaitersHaveALiveOwner
    BY DEF Ownership
  <1> QED BY <1>1, OwnershipHolds, PTL

-----------------------------------------------------------------------------
(* Capacity.  The code refuses only at equality, so the bound needs itself *)
(* as hypothesis, and needs that a publication replaces an entry.          *)

LEMMA CapacityType == Capacity \in Nat /\ Capacity >= 1
  BY CapacityAssumption DEF MaxCapacity

LEMMA OccupiedFinite ==
    ASSUME NEW table
    PROVE  IsFiniteSet(Occupied(table)) /\ Cardinality(Occupied(table)) \in Nat
  <1>1. Occupied(table) \subseteq Keys
    BY DEF Occupied
  <1> QED BY <1>1, KeysAssumption, FS_Subset, FS_CardinalityType

LEMMA ThinningFrees ==
    ASSUME NEW table, Thinned(table), CapacityBounded
    PROVE  Cardinality(Occupied(table)) <= Capacity
  <1>1. Occupied(table) \subseteq Occupied(entries)
    <2>1. ASSUME NEW k \in Keys, table[k].kind # "none"
          PROVE  entries[k].kind # "none"
      BY <2>1, NoEntryType DEF Thinned
    <2> QED BY <2>1 DEF Occupied
  <1>2. Cardinality(Occupied(table)) <= Cardinality(Occupied(entries))
    BY <1>1, OccupiedFinite, FS_Subset
  <1> QED BY <1>2, OccupiedFinite, CapacityType DEF CapacityBounded

LEMMA ReserveCapacity ==
    ASSUME TypeOK, CapacityBounded, NEW f \in Frames, NEW table, Thinned(table), Reserve(f, table)
    PROVE  CapacityBounded'
  <1> DEFINE k == req[f].key
  <1>1. k \in Keys /\ table \in [Keys -> Entries]
    BY DEF TypeOK, Requests, Thinned
  <1>2. entries' = [table EXCEPT ![k] = InFlight(req[f].digest, ThreadOf(f))]
    BY DEF Reserve, Table
  <1>3. Occupied(entries') = Occupied(table) \cup {k} /\ k \notin Occupied(table)
    BY <1>1, <1>2 DEF Occupied, InFlight, Reserve
  <1>4. Cardinality(Occupied(entries')) = Cardinality(Occupied(table)) + 1
    BY <1>3, OccupiedFinite, FS_AddElement
  <1>5. Cardinality(Occupied(table)) # Capacity
    BY DEF Reserve
  <1> QED BY <1>4, <1>5, OccupiedFinite, CapacityType, ThinningFrees DEF CapacityBounded, Occupied

LEMMA StepCapacity == TypeOK /\ Ownership /\ CapacityBounded /\ [Next]_vars => CapacityBounded'
  <1> SUFFICES ASSUME TypeOK, Ownership, CapacityBounded, [Next]_vars
               PROVE  CapacityBounded'
    OBVIOUS
  <1>1. ASSUME NEW f \in Frames, Enter(f) \/ Wake(f)
        PROVE  CapacityBounded'
    <2>1. PICK table : Thinned(table) /\ Lookup(f, table)
      BY <1>1, LookupCases
    <2>2. CASE Reserve(f, table)
      BY <2>1, <2>2, ReserveCapacity
    <2>3. CASE entries' = table
      <3>1. Cardinality(Occupied(entries')) <= Capacity
        BY <2>1, <2>3, ThinningFrees
      <3> QED BY <3>1 DEF CapacityBounded, Occupied
    <2> QED BY <2>1, <2>2, <2>3 DEF Lookup, RefuseCapacity, RefuseConflict, ReplayTerminal,
                                   RefuseReentry, Wait, Table
  <1>2. ASSUME NEW f \in Frames, Publish(f)
        PROVE  CapacityBounded'
    <2>1. HoldsReservation(f) /\ Settle(f) /\ req[f].key \in Keys
      BY <1>2 DEF Publish, Ownership, OwnersHold, Owns, TypeOK, Requests
    <2>2. \A k \in Keys : entries'[k].kind # "none" <=> entries[k].kind # "none"
      BY <2>1 DEF Settle, HoldsReservation, Terminal, TypeOK
    <2>3. Occupied(entries') = Occupied(entries)
      BY <2>2 DEF Occupied
    <2> QED BY <2>3 DEF CapacityBounded, Occupied
  <1>3. CASE entries' = entries
    BY <1>3 DEF CapacityBounded, Occupied
  <1>4. ASSUME NEW f \in Frames, Call(f) \/ Finishes(f) \/ Completes(f) \/ Return(f)
        PROVE  entries' = entries
    BY <1>4 DEF Call, Invoke, RefuseCall, Finishes, Completes, Dispatch, DispatchControl,
                CompleteInTime, CompleteUncertain, CompleteControl, Drafted, Return
  <1> QED BY <1>1, <1>2, <1>3, <1>4 DEF Next, Tick, vars

(* The table never holds more entries than the coordinator's capacity.     *)
THEOREM CapacityIsNeverExceeded == Spec => []CapacityBounded
  <1>1. Init => CapacityBounded
    <2>1. Init => Occupied(entries) = {}
      BY DEF Init, Occupied, NoEntry
    <2> QED BY <2>1, FS_EmptySet, CapacityType DEF CapacityBounded
  <1> QED BY <1>1, TypeCorrect, OwnershipHolds, StepCapacity, PTL DEF Spec

-----------------------------------------------------------------------------
(* Answers.  A result is drafted, filed and handed out for one intent.     *)

Integrity ==
    /\ AnswersMatchIntent
    /\ \A f \in Frames : pc[f] # "returned" => answer[f] = NoAnswer
    /\ \A f \in Frames : pc[f] \in {"complete", "publish"} =>
                          draft[f].bytes.intent = req[f].digest

LEMMA InitIntegrity == Init => Integrity
  BY DEF Init, Integrity, AnswersMatchIntent, NoAnswer, NoEntry

LEMMA LookupIntegrity ==
    ASSUME TypeOK, Integrity, NEW f \in Frames, NEW table, Thinned(table),
           pc[f] \in {"enter", "woken"}, Lookup(f, table)
    PROVE  Integrity'
  <1>0. /\ req[f].key \in Keys /\ req[f].digest \in Digests
        /\ table \in [Keys -> Entries]
    BY DEF TypeOK, Requests, Thinned
  <1>1. \A k \in Keys : table[k].kind = "terminal" => table[k].bytes.intent = table[k].digest
    <2>1. ASSUME NEW k \in Keys, table[k].kind = "terminal"
          PROVE  /\ entries[k].kind = "terminal"
                 /\ table[k].bytes = entries[k].bytes /\ table[k].digest = entries[k].digest
      BY <2>1, NoEntryType DEF Thinned
    <2> QED BY <2>1 DEF Integrity, AnswersMatchIntent
  <1>2. ASSUME NEW how, Finish(f, how), Table(table),
               how.kind = "result" => how.bytes.intent = req[f].digest
        PROVE  Integrity'
    BY <1>1, <1>2 DEF Finish, Table, Integrity, AnswersMatchIntent, TypeOK
  <1>3. CASE RefuseCapacity(f, table)
    BY <1>2, <1>3 DEF RefuseCapacity, Refused
  <1>4. CASE Reserve(f, table)
    <2>1. /\ \A g \in Frames : pc'[g] = IF g = f THEN "dispatch" ELSE pc[g]
          /\ req' = req /\ draft' = draft /\ answer' = answer
      BY <1>4 DEF Reserve, Table, TypeOK
    <2>2. \A k \in Keys : entries'[k] = table[k] \/ entries'[k].kind = "inflight"
      BY <1>0, <1>4 DEF Reserve, Table, InFlight
    <2> QED BY <1>1, <2>1, <2>2 DEF Integrity, AnswersMatchIntent
  <1>5. CASE RefuseConflict(f, table)
    BY <1>2, <1>5 DEF RefuseConflict, Refused
  <1>6. CASE ReplayTerminal(f, table)
    <2>1. table[req[f].key].bytes \in Bytes
      BY <1>0, <1>6, EntryKinds DEF ReplayTerminal
    <2>2. Decoded(table[req[f].key].bytes, req[f].digest).intent = req[f].digest
      BY <1>0, <2>1, DecodedType
    <2> QED BY <1>2, <1>6, <2>2 DEF ReplayTerminal, Result
  <1>7. CASE RefuseReentry(f, table)
    BY <1>2, <1>7 DEF RefuseReentry, Refused
  <1>8. CASE Wait(f, table)
    <2>1. /\ \A g \in Frames : pc'[g] = IF g = f THEN "waiting" ELSE pc[g]
          /\ entries' = table /\ req' = req /\ draft' = draft /\ answer' = answer
      BY <1>8 DEF Wait, Table, TypeOK
    <2> QED BY <1>1, <2>1 DEF Integrity, AnswersMatchIntent
  <1> QED BY <1>3, <1>4, <1>5, <1>6, <1>7, <1>8 DEF Lookup

LEMMA DraftedIntegrity ==
    ASSUME TypeOK, Integrity, NEW f \in Frames, pc[f] \in {"dispatch", "complete"},
           entries' = entries, req' = req, answer' = answer,
           NEW next \in {"complete", "publish"}, pc' = [pc EXCEPT ![f] = next],
           draft' = [draft EXCEPT ![f] = draft'[f]],
           draft'[f].bytes.intent = req[f].digest
    PROVE  Integrity'
  <1>1. \A g \in Frames : pc'[g] = IF g = f THEN next ELSE pc[g]
    BY DEF TypeOK
  <1>2. \A g \in Frames \ {f} : draft'[g] = draft[g]
    BY DEF TypeOK
  <1> QED BY <1>1, <1>2 DEF Integrity, AnswersMatchIntent

LEMMA PublishIntegrity ==
    ASSUME TypeOK, Ownership, Integrity, NEW f \in Frames, Publish(f)
    PROVE  Integrity'
  <1>1. /\ Settle(f) /\ req' = req /\ draft' = draft
        /\ req[f].key \in Keys /\ req[f].digest \in Digests
        /\ draft[f].bytes \in Bytes /\ draft[f].bytes.intent = req[f].digest
    BY DEF Publish, Ownership, OwnersHold, Owns, TypeOK, Requests, Integrity
  <1>2. \A k \in Keys : entries'[k].kind = "terminal" => entries'[k].bytes.intent = entries'[k].digest
    BY <1>1 DEF Settle, Terminal, TypeOK, Integrity, AnswersMatchIntent
  <1>3. Decoded(draft[f].bytes, req[f].digest).intent = req[f].digest
    BY <1>1, DecodedType
  <1>4. \A g \in Frames : answer'[g].kind = "result" => answer'[g].bytes.intent = req[g].digest
    BY <1>1, <1>3 DEF Settle, Result, Refused, TypeOK, Integrity, AnswersMatchIntent
  <1>5. \A g \in Frames \ {f} :
           /\ answer'[g] = answer[g]
           /\ \/ pc'[g] = pc[g]
              \/ pc[g] = "waiting" /\ pc'[g] = "woken"
    BY <1>1 DEF Settle, TypeOK
  <1>6. pc'[f] = "returned"
    BY <1>1 DEF Settle
  <1>7. \A g \in Frames : pc'[g] # "returned" => answer'[g] = NoAnswer
    BY <1>5, <1>6 DEF Integrity
  <1>8. \A g \in Frames : pc'[g] \in {"complete", "publish"} => draft[g].bytes.intent = req[g].digest
    BY <1>5, <1>6 DEF Integrity
  <1> QED BY <1>1, <1>2, <1>4, <1>7, <1>8 DEF Integrity, AnswersMatchIntent

LEMMA StepIntegrity == TypeOK /\ Ownership /\ Integrity /\ [Next]_vars => Integrity'
  <1> SUFFICES ASSUME TypeOK, Ownership, Integrity, [Next]_vars
               PROVE  Integrity'
    OBVIOUS
  <1>1. ASSUME NEW f \in Frames, NEW r \in Requests, Invoke(f, r)
        PROVE  Integrity'
    BY <1>1 DEF Invoke, CanCall, Integrity, AnswersMatchIntent, NoAnswer, TypeOK
  <1>2. ASSUME NEW f \in Frames, RefuseCall(f)
        PROVE  Integrity'
    BY <1>2 DEF RefuseCall, CanCall, Integrity, AnswersMatchIntent, Refused, TypeOK
  <1>3. ASSUME NEW f \in Frames, Enter(f) \/ Wake(f)
        PROVE  Integrity'
    BY <1>3, LookupCases, LookupIntegrity
  <1>4. ASSUME NEW f \in Frames, Finishes(f)
        PROVE  Integrity'
    <2>1. req[f].digest \in Digests
      BY DEF TypeOK, Requests
    <2>2. ASSUME NEW outcome, Dispatch(f, outcome)
          PROVE  Integrity'
      <3>1. Normalized(outcome, req[f].digest).intent = req[f].digest
        BY <2>1, NormalizedType
      <3>2. draft'[f].bytes = Normalized(outcome, req[f].digest)
        BY <2>2 DEF Dispatch, Drafted, TypeOK
      <3> QED BY <2>2, <3>1, <3>2, DraftedIntegrity DEF Dispatch, Drafted, TypeOK
    <2>3. CASE DispatchControl(f)
      <3>1. draft'[f].bytes = Fallback(req[f].digest)
        BY <2>3 DEF DispatchControl, Drafted, TypeOK
      <3> QED BY <2>1, <2>3, <3>1, FallbackType, DraftedIntegrity
              DEF DispatchControl, Drafted, TypeOK
    <2> QED BY <1>4, <2>2, <2>3 DEF Finishes
  <1>5. ASSUME NEW f \in Frames, Completes(f)
        PROVE  Integrity'
    <2>1. req[f].digest \in Digests /\ pc[f] = "complete"
      BY <1>5 DEF TypeOK, Requests, Completes, CompleteInTime, CompleteUncertain, CompleteControl
    <2>2. draft'[f].bytes = draft[f].bytes \/ draft'[f].bytes = Fallback(req[f].digest)
      BY <1>5 DEF Completes, CompleteInTime, CompleteUncertain, CompleteControl, Drafted, TypeOK
    <2>3. draft'[f].bytes.intent = req[f].digest
      BY <2>1, <2>2, FallbackType DEF Integrity
    <2>4. /\ entries' = entries /\ req' = req /\ answer' = answer
          /\ pc' = [pc EXCEPT ![f] = "publish"]
          /\ draft' = [draft EXCEPT ![f] = draft'[f]]
      BY <1>5 DEF Completes, CompleteInTime, CompleteUncertain, CompleteControl, Drafted, TypeOK
    <2> QED BY <2>1, <2>3, <2>4, DraftedIntegrity
  <1>6. ASSUME NEW f \in Frames, Return(f)
        PROVE  Integrity'
    BY <1>6 DEF Return, Integrity, AnswersMatchIntent, NoAnswer, TypeOK
  <1>7. CASE Tick \/ UNCHANGED vars
    BY <1>7 DEF Tick, vars, Integrity, AnswersMatchIntent
  <1> QED BY <1>1, <1>2, <1>3, <1>4, <1>5, <1>6, <1>7, PublishIntegrity DEF Next, Call

(* No caller is ever handed a result that answers another intent, and the  *)
(* table never files one under the wrong intent.                           *)
THEOREM AnswersAreTheCallersOwn == Spec => []AnswersMatchIntent
  <1>1. Integrity => AnswersMatchIntent
    BY DEF Integrity
  <1> QED BY <1>1, InitIntegrity, StepIntegrity, TypeCorrect, OwnershipHolds, PTL DEF Spec

-----------------------------------------------------------------------------
(* Retention.  A pending terminal still holds the sample it was published  *)
(* with, and an anchor never lies before that sample.                      *)

Dated(e, b) ==
    e.kind = "terminal" =>
        /\ e.floor # NoTime => b.sampled = e.floor
        /\ e.anchor # NoTime => b.sampled # NoTime /\ e.anchor >= b.sampled

AnchorsFollowSamples == \A k \in Keys : Dated(entries[k], born[k])

LEMMA SampleType ==
    TypeOK => \A k \in Keys : born[k].sampled \in Times \cup {NoTime}
  BY DEF TypeOK

(* Pruning keeps an entry dated, and drops it only after its window.       *)
LEMMA PruningRespectsTheWindow ==
    ASSUME NEW e \in Entries, NEW now \in Times \cup {NoTime},
           NEW b, b.sampled \in Times \cup {NoTime}, Dated(e, b)
    PROVE  /\ Dated(PrunedEntry(e, now), b)
           /\ e.kind = "terminal" /\ PrunedEntry(e, now) = NoEntry =>
                 b.sampled # NoTime /\ now >= b.sampled + Retention
  <1>0. /\ Times \subseteq Int /\ NoTime \in Int /\ NoTime \notin Times
        /\ now \in Int /\ b.sampled \in Int /\ Retention \in Int
    BY TimesType, ClockAssumption DEF Times, NoTime
  <1>1. CASE e.kind # "terminal"
    BY <1>1 DEF PrunedEntry
  <1>2. CASE e.kind = "terminal" /\ e.floor # NoTime
    <2>1. PICK a \in Times \cup {NoTime} : a = IF e.floor > now THEN e.floor ELSE now
      BY <1>2, EntryKinds
    <2>2. PrunedEntry(e, now) = Terminal(e.digest, e.bytes, NoTime, a)
      BY <1>2, <2>1 DEF PrunedEntry
    <2>3. a >= e.floor /\ b.sampled = e.floor
      BY <1>0, <1>2, <2>1, EntryKinds DEF Dated
    <2>4. Dated(PrunedEntry(e, now), b)
      BY <1>0, <1>2, <2>2, <2>3 DEF Dated, Terminal
    <2>5. PrunedEntry(e, now).kind = "terminal"
      BY <2>2 DEF Terminal
    <2> QED BY <2>4, <2>5, NoEntryType
  <1>3. CASE e.kind = "terminal" /\ e.floor = NoTime
    <2>1. e.anchor \in Int
      BY <1>0, <1>3, EntryKinds
    <2>2. CASE e.anchor # NoTime /\ now >= e.anchor /\ now - e.anchor >= Retention
      <3>1. PrunedEntry(e, now) = NoEntry
        BY <1>3, <2>2 DEF PrunedEntry
      <3>2. b.sampled # NoTime /\ e.anchor >= b.sampled
        BY <1>3, <2>2 DEF Dated
      <3>3. now >= b.sampled + Retention
        BY <1>0, <2>1, <2>2, <3>2
      <3> QED BY <3>1, <3>2, <3>3, NoEntryType DEF Dated
    <2>3. CASE ~(e.anchor # NoTime /\ now >= e.anchor /\ now - e.anchor >= Retention)
      <3>1. PrunedEntry(e, now) = e
        BY <1>3, <2>3 DEF PrunedEntry
      <3> QED BY <1>3, <3>1, NoEntryType
    <2> QED BY <2>2, <2>3
  <1> QED BY <1>1, <1>2, <1>3

(* What a look at the table leaves of each entry.                          *)
LEMMA LookupLeaves ==
    ASSUME TypeOK, NEW f \in Frames, NEW table, Thinned(table), Lookup(f, table)
    PROVE  /\ \A k \in Keys :
                 \/ entries'[k] = table[k]
                 \/ table[k].kind = "none" /\ entries'[k].kind = "inflight"
           /\ \A k \in Keys : entries'[k].kind = "terminal" => born'[k] = born[k]
           /\ pc'[f] # "enter"
  <1>1. req[f].key \in Keys /\ table \in [Keys -> Entries] /\ pc \in [Frames -> Stages]
    BY DEF TypeOK, Requests, Thinned
  <1>2. CASE Reserve(f, table)
    BY <1>1, <1>2 DEF Reserve, Table, InFlight
  <1>3. CASE Table(table)
    BY <1>1, <1>3 DEF Table, Lookup, Reserve, RefuseCapacity, RefuseConflict,
                      ReplayTerminal, RefuseReentry, Wait, Finish
  <1> QED BY <1>2, <1>3 DEF Lookup, RefuseCapacity, RefuseConflict,
                             ReplayTerminal, RefuseReentry, Wait

LEMMA LookupDates ==
    ASSUME TypeOK, AnchorsFollowSamples, NEW f \in Frames,
           NEW table, Thinned(table), Lookup(f, table),
           \A k \in Keys : Dated(table[k], born[k])
    PROVE  AnchorsFollowSamples'
  <1>1. ASSUME NEW k \in Keys
        PROVE  Dated(entries'[k], born'[k])
    <2>1. CASE entries'[k].kind = "terminal"
      <3>1. entries'[k] = table[k] /\ born'[k] = born[k]
        BY <2>1, LookupLeaves
      <3> QED BY <3>1
    <2>2. CASE entries'[k].kind # "terminal"
      BY <2>2 DEF Dated
    <2> QED BY <2>1, <2>2
  <1> QED BY <1>1 DEF AnchorsFollowSamples

LEMMA StepDates ==
    TypeOK /\ Ownership /\ AnchorsFollowSamples /\ [Next]_vars => AnchorsFollowSamples'
  <1> SUFFICES ASSUME TypeOK, Ownership, AnchorsFollowSamples, [Next]_vars
               PROVE  AnchorsFollowSamples'
    OBVIOUS
  <1>1. ASSUME NEW f \in Frames, Enter(f)
        PROVE  AnchorsFollowSamples'
    <2>1. initial[f] \in Times \cup {NoTime} /\ Thinned(Pruned(initial[f]))
      BY PruningThins DEF TypeOK
    <2>2. \A k \in Keys : Dated(Pruned(initial[f])[k], born[k])
      BY <2>1, SampleType, PruningRespectsTheWindow DEF AnchorsFollowSamples, Pruned, TypeOK
    <2> QED BY <1>1, <2>1, <2>2, LookupDates DEF Enter
  <1>2. ASSUME NEW f \in Frames, Wake(f)
        PROVE  AnchorsFollowSamples'
    BY <1>2, StayingThins, LookupDates DEF Wake, AnchorsFollowSamples
  <1>3. ASSUME NEW f \in Frames, Publish(f)
        PROVE  AnchorsFollowSamples'
    <2>1. Settle(f) /\ req[f].key \in Keys
      BY <1>3 DEF Publish, Ownership, OwnersHold, Owns, TypeOK, Requests
    <2>2. ASSUME NEW k \in Keys
          PROVE  Dated(entries'[k], born'[k])
      <3>1. CASE k = req[f].key
        BY <2>1, <3>1 DEF Settle, Terminal, Dated, TypeOK
      <3>2. CASE k # req[f].key
        BY <2>1, <3>2 DEF Settle, TypeOK, AnchorsFollowSamples
      <3> QED BY <3>1, <3>2
    <2> QED BY <2>2 DEF AnchorsFollowSamples
  <1>4. CASE entries' = entries /\ born' = born
    BY <1>4 DEF AnchorsFollowSamples
  <1>5. ASSUME NEW f \in Frames, Call(f) \/ Finishes(f) \/ Completes(f) \/ Return(f)
        PROVE  entries' = entries /\ born' = born
    BY <1>5 DEF Call, Invoke, RefuseCall, Finishes, Completes, Dispatch, DispatchControl,
                CompleteInTime, CompleteUncertain, CompleteControl, Drafted, Return
  <1> QED BY <1>1, <1>2, <1>3, <1>4, <1>5 DEF Next, Tick, vars

LEMMA StepKeepsTerminals ==
    ASSUME TypeOK, Ownership, AnchorsFollowSamples, [Next]_vars,
           NEW k \in Keys, entries[k].kind = "terminal"
    PROVE  Keeps(k) \/ Expires(k)
  <1>0. entries[k] \in Entries
    BY DEF TypeOK
  <1>1. ASSUME NEW f \in Frames, Enter(f)
        PROVE  Keeps(k) \/ Expires(k)
    <2> DEFINE now == initial[f]
    <2>1. now \in Times \cup {NoTime} /\ Thinned(Pruned(now)) /\ Lookup(f, Pruned(now))
      BY <1>1, PruningThins DEF TypeOK, Enter
    <2>2. Pruned(now)[k] = PrunedEntry(entries[k], now)
      BY DEF Pruned
    <2>3. /\ \/ entries'[k] = Pruned(now)[k]
             \/ Pruned(now)[k].kind = "none" /\ entries'[k].kind = "inflight"
          /\ pc'[f] # "enter"
      BY <2>1, LookupLeaves
    <2>4. CASE PrunedEntry(entries[k], now) = NoEntry
      <3>1. born[k].sampled # NoTime /\ now >= born[k].sampled + Retention
        BY <1>0, <2>1, <2>4, SampleType, PruningRespectsTheWindow DEF AnchorsFollowSamples
      <3> QED BY <1>1, <2>3, <3>1 DEF Expires, Enter
    <2>5. CASE PrunedEntry(entries[k], now) # NoEntry
      <3>1. /\ PrunedEntry(entries[k], now).kind = "terminal"
            /\ PrunedEntry(entries[k], now).digest = entries[k].digest
            /\ PrunedEntry(entries[k], now).bytes = entries[k].bytes
        BY <1>0, <2>1, <2>5, PrunedEntryCases
      <3> QED BY <2>2, <2>3, <3>1 DEF Keeps
    <2> QED BY <2>4, <2>5
  <1>2. ASSUME NEW f \in Frames, Wake(f)
        PROVE  Keeps(k)
    BY <1>2, StayingThins, LookupLeaves DEF Wake, Keeps
  <1>3. ASSUME NEW f \in Frames, Publish(f)
        PROVE  Keeps(k)
    <2>1. Settle(f) /\ HoldsReservation(f)
      BY <1>3 DEF Publish, Ownership, OwnersHold, Owns
    <2>2. k # req[f].key
      BY <2>1 DEF HoldsReservation
    <2> QED BY <2>1, <2>2 DEF Settle, TypeOK, Keeps
  <1>4. CASE entries' = entries
    BY <1>4 DEF Keeps
  <1>5. ASSUME NEW f \in Frames, Call(f) \/ Finishes(f) \/ Completes(f) \/ Return(f)
        PROVE  entries' = entries
    BY <1>5 DEF Call, Invoke, RefuseCall, Finishes, Completes, Dispatch, DispatchControl,
                CompleteInTime, CompleteUncertain, CompleteControl, Drafted, Return
  <1> QED BY <1>1, <1>2, <1>3, <1>4, <1>5 DEF Next, Tick, vars

(* A published terminal answers unchanged until a caller enters that       *)
(* observed one whole window after the owner's completion sample; an       *)
(* uncertain terminal answers forever.                                     *)
THEOREM ReplayGuarantee == Spec => TerminalsOutliveTheirWindow
  <1>1. Init => AnchorsFollowSamples
    BY DEF Init, AnchorsFollowSamples, Dated, NoEntry
  <1>2. TypeOK /\ Ownership /\ AnchorsFollowSamples /\ [Next]_vars =>
           [\A k \in Keys : entries[k].kind = "terminal" => Keeps(k) \/ Expires(k)]_vars
    BY StepKeepsTerminals
  <1>3. Spec => [][\A k \in Keys : entries[k].kind = "terminal" => Keeps(k) \/ Expires(k)]_vars
    BY <1>1, <1>2, StepDates, TypeCorrect, OwnershipHolds, PTL DEF Spec
  <1> QED BY <1>3, PTL DEF TerminalsOutliveTheirWindow
-----------------------------------------------------------------------------
(* What a step means for those who share the table; the proofs about the   *)
(* modules that run a coordinator rest on these.                           *)

(* A frame's step is none of the other frames' but to wake them.           *)
LEMMA OthersStay ==
    ASSUME TypeOK, NEW f \in Frames,
           \/ Call(f) \/ Enter(f) \/ Wake(f) \/ Finishes(f)
           \/ Completes(f) \/ Publish(f) \/ Return(f)
    PROVE  \A g \in Frames \ {f} :
              /\ pc'[g] = pc[g] \/ (pc[g] = "waiting" /\ pc'[g] = "woken")
              /\ req'[g] = req[g] /\ draft'[g] = draft[g] /\ answer'[g] = answer[g]
  <1>0. /\ pc \in [Frames -> Stages] /\ answer \in [Frames -> Answers]
        /\ req = [g \in Frames |-> req[g]] /\ draft = [g \in Frames |-> draft[g]]
    BY DEF TypeOK
  <1>1. ASSUME NEW table, Lookup(f, table)
        PROVE  \A g \in Frames \ {f} :
                  /\ pc'[g] = pc[g]
                  /\ req'[g] = req[g] /\ draft'[g] = draft[g] /\ answer'[g] = answer[g]
    BY <1>0, <1>1 DEF Lookup, RefuseCapacity, Reserve, RefuseConflict, ReplayTerminal,
          RefuseReentry, Wait, Table, Finish
  <1>2. CASE Enter(f) \/ Wake(f)
    BY <1>1, <1>2 DEF Enter, Wake
  <1>3. CASE Call(f) \/ Return(f)
    BY <1>0, <1>3 DEF Call, Invoke, RefuseCall, CanCall, Return
  <1>4. CASE Finishes(f) \/ Completes(f)
    BY <1>0, <1>4 DEF Finishes, Completes, Dispatch, DispatchControl, Drafted,
          CompleteInTime, CompleteUncertain, CompleteControl
  <1>5. CASE Publish(f)
    BY <1>0, <1>5 DEF Publish, Settle, LoseReservation, Finish
  <1> QED BY <1>2, <1>3, <1>4, <1>5

(* Only the two critical sections write the table.                         *)
LEMMA CriticalSectionsWrite ==
    ASSUME [Next]_vars
    PROVE  \/ \E f \in Frames : Enter(f) \/ Wake(f) \/ Publish(f)
           \/ entries' = entries
  BY DEF Next, vars, Call, Invoke, RefuseCall, Finishes, Completes, Dispatch, DispatchControl,
         CompleteInTime, CompleteUncertain, CompleteControl, Drafted, Return, Tick

(* Only a look at the table by a caller of its own key puts an entry where *)
(* none was.                                                               *)
LEMMA WhereEntriesComeFrom ==
    ASSUME TypeOK, Ownership, NEW f \in Frames, Enter(f) \/ Wake(f) \/ Publish(f),
           NEW k \in Keys, entries'[k].kind # "none"
    PROVE  \/ entries[k].kind # "none" /\ entries'[k].digest = entries[k].digest
           \/ /\ k = req[f].key /\ entries'[k].digest = req[f].digest
              /\ pc[f] \in {"enter", "woken"}
  <1>0. req[f].key \in Keys
    BY DEF TypeOK, Requests
  <1>1. CASE Enter(f) \/ Wake(f)
    <2>1. PICK table : /\ Thinned(table) /\ Lookup(f, table)
                       /\ pc[f] \in {"enter", "woken"}
      BY <1>1, LookupCases
    <2>2. table[k].kind # "none" => entries[k].kind # "none" /\ table[k].digest = entries[k].digest
      BY <2>1 DEF Thinned, NoEntry
    <2>3. CASE entries' = table
      BY <2>2, <2>3
    <2>4. CASE Reserve(f, table)
      BY <1>0, <2>1, <2>2, <2>4 DEF Reserve, Table, InFlight, Thinned
    <2> QED BY <2>1, <2>3, <2>4 DEF Lookup, RefuseCapacity, RefuseConflict, ReplayTerminal,
                                   RefuseReentry, Wait, Table
  <1>2. CASE Publish(f)
    <2>1. HoldsReservation(f) /\ Settle(f)
      BY <1>2 DEF Publish, Ownership, OwnersHold, Owns
    <2> QED BY <1>0, <2>1 DEF HoldsReservation, Settle, Terminal, TypeOK
  <1> QED BY <1>1, <1>2

(* A terminal was there before, or is the one its owner has just filed.    *)
LEMMA WhereTerminalsComeFrom ==
    ASSUME TypeOK, Ownership, [Next]_vars, NEW k \in Keys, entries'[k].kind = "terminal"
    PROVE  \/ /\ entries[k].kind = "terminal"
              /\ entries'[k].digest = entries[k].digest /\ entries'[k].bytes = entries[k].bytes
           \/ \E f \in Frames :
                 /\ Publish(f) /\ req[f].key = k
                 /\ entries'[k] = Terminal(req[f].digest, draft[f].bytes, draft[f].floor, NoTime)
  <1>1. ASSUME NEW f \in Frames, Enter(f) \/ Wake(f)
        PROVE  /\ entries[k].kind = "terminal"
               /\ entries'[k].digest = entries[k].digest /\ entries'[k].bytes = entries[k].bytes
    <2>1. PICK table : Thinned(table) /\ Lookup(f, table)
      BY <1>1, LookupCases
    <2>2. entries'[k] = table[k]
      BY <2>1, LookupLeaves
    <2> QED BY <2>1, <2>2 DEF Thinned, NoEntry
  <1>2. ASSUME NEW f \in Frames, Publish(f)
        PROVE  \/ entries'[k] = entries[k]
               \/ /\ req[f].key = k
                  /\ entries'[k] = Terminal(req[f].digest, draft[f].bytes, draft[f].floor, NoTime)
    <2>1. Settle(f)
      BY <1>2 DEF Publish, Ownership, OwnersHold, Owns
    <2> QED BY <2>1 DEF Settle, TypeOK
  <1> QED BY <1>1, <1>2, CriticalSectionsWrite

(* A terminal is dropped or keeps what it says; one whose completion was   *)
(* uncertain is not even touched.                                          *)
LEMMA TerminalsStayOrGo ==
    ASSUME TypeOK, Ownership, [Next]_vars, NEW k \in Keys, entries[k].kind = "terminal"
    PROVE  \/ entries'[k].kind # "terminal"
           \/ /\ Keeps(k)
              /\ entries[k].floor = NoTime /\ entries[k].anchor = NoTime => entries'[k] = entries[k]
  <1>0. entries[k] \in Entries
    BY DEF TypeOK
  <1>1. ASSUME NEW f \in Frames, Enter(f)
        PROVE  \/ entries'[k].kind # "terminal"
               \/ /\ Keeps(k)
                  /\ entries[k].floor = NoTime /\ entries[k].anchor = NoTime => entries'[k] = entries[k]
    <2> DEFINE now == initial[f]
    <2>1. now \in Times \cup {NoTime} /\ Thinned(Pruned(now)) /\ Lookup(f, Pruned(now))
      BY <1>1, PruningThins DEF TypeOK, Enter
    <2>2. Pruned(now)[k] = PrunedEntry(entries[k], now)
      BY DEF Pruned
    <2>3. entries'[k] = PrunedEntry(entries[k], now) \/ entries'[k].kind = "inflight"
      BY <2>1, <2>2, LookupLeaves
    <2>4. CASE entries'[k] = PrunedEntry(entries[k], now) /\ entries'[k].kind = "terminal"
      <3>1. Keeps(k)
        BY <1>0, <2>1, <2>4, PrunedEntryCases, NoEntryType DEF Keeps
      <3>2. entries[k].floor = NoTime /\ entries[k].anchor = NoTime => entries'[k] = entries[k]
        BY <2>4 DEF PrunedEntry
      <3> QED BY <3>1, <3>2
    <2> QED BY <2>3, <2>4
  <1>2. ASSUME NEW f \in Frames, Wake(f)
        PROVE  entries'[k] = entries[k]
    BY <1>2, StayingThins, LookupLeaves DEF Wake
  <1>3. ASSUME NEW f \in Frames, Publish(f)
        PROVE  entries'[k] = entries[k]
    <2>1. Settle(f) /\ HoldsReservation(f)
      BY <1>3 DEF Publish, Ownership, OwnersHold, Owns
    <2>2. k # req[f].key
      BY <2>1 DEF HoldsReservation
    <2> QED BY <2>1, <2>2 DEF Settle, TypeOK
  <1>4. entries'[k] = entries[k] => Keeps(k)
    BY DEF Keeps
  <1> QED BY <1>1, <1>2, <1>3, <1>4, CriticalSectionsWrite

(* A caller gets its result from the table, or files it there.             *)
Filed(table, key, bytes) == table[key].kind = "terminal" /\ table[key].bytes = bytes

LEMMA ResultsAreFiled ==
    ASSUME TypeOK, Ownership, Integrity, [Next]_vars, NEW g \in Frames, answer'[g].kind = "result"
    PROVE  \/ answer'[g] = answer[g] /\ req'[g] = req[g]
           \/ Filed(entries', req'[g].key, answer'[g].bytes)
  <1>0. /\ answer \in [Frames -> Answers] /\ req \in [Frames -> Requests]
        /\ \A f \in Frames : req[f].key \in Keys
    BY DEF TypeOK, Requests
  <1>1. CASE UNCHANGED <<answer, req>>
    BY <1>1
  <1>2. ASSUME NEW f \in Frames, Call(f) \/ Enter(f) \/ Wake(f) \/ Finishes(f)
                                 \/ Completes(f) \/ Publish(f) \/ Return(f), g # f
        PROVE  answer'[g] = answer[g] /\ req'[g] = req[g]
    BY <1>2, OthersStay
  <1>3. CASE Enter(g) \/ Wake(g)
    <2>1. PICK table : Thinned(table) /\ Lookup(g, table)
      BY <1>3, LookupCases
    <2>2. CASE ReplayTerminal(g, table)
      <3>1. /\ table[req[g].key].kind = "terminal" /\ table[req[g].key].digest = req[g].digest
            /\ entries' = table /\ req' = req
            /\ answer'[g] = Result(Decoded(table[req[g].key].bytes, req[g].digest))
        BY <1>0, <2>2 DEF ReplayTerminal, Finish, Table
      <3>2. table[req[g].key].bytes.intent = req[g].digest
        BY <1>0, <2>1, <3>1 DEF Thinned, NoEntry, Integrity, AnswersMatchIntent
      <3>3. Decoded(table[req[g].key].bytes, req[g].digest) = table[req[g].key].bytes
        BY <3>2 DEF Decoded
      <3> QED BY <3>1, <3>3 DEF Result, Filed
    <2> QED BY <1>0, <2>1, <2>2 DEF Lookup, RefuseCapacity, Reserve, RefuseConflict, RefuseReentry,
                                   Wait, Table, Finish, Refused
  <1>4. CASE Finishes(g) \/ Completes(g)
    BY <1>4 DEF Finishes, Completes, Dispatch, DispatchControl, Drafted,
          CompleteInTime, CompleteUncertain, CompleteControl
  <1>5. CASE Publish(g)
    <2>1. Settle(g) /\ req' = req /\ draft[g].bytes.intent = req[g].digest
      BY <1>5 DEF Publish, Ownership, OwnersHold, Owns, Integrity
    <2>2. Filed(entries', req[g].key, draft[g].bytes)
      BY <1>0, <2>1 DEF Settle, Terminal, TypeOK, Filed
    <2>3. Decoded(draft[g].bytes, req[g].digest) = draft[g].bytes
      BY <2>1 DEF Decoded
    <2> QED BY <1>0, <2>1, <2>2, <2>3 DEF Settle, Result, Refused
  <1>6. CASE Call(g)
    <2>1. answer[g] = NoAnswer
      BY <1>6 DEF Call, Invoke, RefuseCall, CanCall, Integrity
    <2> QED BY <1>0, <1>6, <2>1 DEF Call, Invoke, RefuseCall, Refused, NoAnswer
  <1>7. CASE Return(g)
    BY <1>0, <1>7 DEF Return, NoAnswer
  <1> QED BY <1>1, <1>2, <1>3, <1>4, <1>5, <1>6, <1>7 DEF Next, Tick, vars

-----------------------------------------------------------------------------
(* The refinement.  Publish files an outcome; a look at the table that     *)
(* reserves, refuses or answers is a consultation, after forgetting what   *)
(* pruning removed; dispatching and reading clocks are stutters.           *)

tview == [k \in Keys |-> EntryView(k)]
cview == [f \in Frames |-> CallView(f)]

(* The table as a caller sees it that forgot what `table` lacks.           *)
LookView(table) ==
    [k \in Keys |-> IF table[k].kind = "none" THEN Contract!Free ELSE EntryView(k)]

LEMMA OwnerIs ==
    /\ Ownership => \A f \in Frames : Owns(f) => OwnerOf(req[f].key) = f
    /\ Ownership' => \A f \in Frames : Owns(f)' => OwnerOf(req[f].key)' = f
  BY DEF Ownership, OwnersDiffer, OwnerOf

LEMMA EntryViewKept ==
    ASSUME Ownership, Ownership', NEW k \in Keys, entries'[k] = entries[k],
           \A g \in Frames : Owns(g) /\ req[g].key = k => Owns(g)' /\ req'[g] = req[g]
    PROVE  EntryView(k)' = EntryView(k)
  <1>1. CASE entries[k].kind = "inflight"
    <2>1. PICK g \in Frames : Owns(g) /\ req[g].key = k
      BY <1>1 DEF Ownership, NoOrphan
    <2>2. Owns(g)' /\ req'[g].key = k
      BY <2>1
    <2>3. OwnerOf(k) = g /\ OwnerOf(k)' = g
      BY <2>1, <2>2, OwnerIs
    <2> QED BY <1>1, <2>3 DEF EntryView
  <1>2. CASE entries[k].kind # "inflight"
    BY <1>2 DEF EntryView
  <1> QED BY <1>1, <1>2

LEMMA OneCallMoves ==
    ASSUME NEW f \in Frames,
           \A g \in Frames \ {f} :
               /\ pc'[g] = pc[g] \/ (pc[g] = "waiting" /\ pc'[g] = "woken")
               /\ req'[g] = req[g] /\ answer'[g] = answer[g]
    PROVE  cview' = [cview EXCEPT ![f] = CallView(f)']
  <1>1. ASSUME NEW g \in Frames \ {f}
        PROVE  CallView(g)' = CallView(g)
    <2>1. CASE pc'[g] = pc[g]
      BY <2>1 DEF CallView, Owns
    <2>2. CASE pc[g] = "waiting" /\ pc'[g] = "woken"
      BY <2>2 DEF CallView, Owns
    <2> QED BY <2>1, <2>2
  <1> QED BY <1>1 DEF cview

LEMMA ContractViews ==
    ASSUME TypeOK, NEW f \in Frames
    PROVE  /\ pc[f] = "idle" => CallView(f) = Contract!Quiet
           /\ pc[f] \in {"enter", "waiting", "woken"} =>
                 CallView(f) = Contract!Asking(req[f].key, req[f].digest)
           /\ Owns(f) => CallView(f) = Contract!Serving(req[f].key, req[f].digest)
           /\ pc[f] = "returned" /\ answer[f].kind = "result" =>
                 CallView(f) = Contract!Answered(req[f].key, req[f].digest, answer[f].bytes)
           /\ pc[f] = "returned" /\ answer[f].kind # "result" =>
                 CallView(f) = Contract!Refused(answer[f].kind)
  BY DEF CallView, Owns, Contract!Quiet, Contract!Asking, Contract!Serving,
         Contract!Answered, Contract!Refused

LEMMA EntryViews ==
    ASSUME TypeOK, NEW k \in Keys
    PROVE  /\ entries[k].kind = "none" => EntryView(k) = Contract!Free
           /\ entries[k].kind = "inflight" =>
                 EntryView(k) = Contract!Running(entries[k].digest, OwnerOf(k))
           /\ entries[k].kind = "terminal" =>
                 EntryView(k) = Contract!Done(entries[k].digest, entries[k].bytes)
           /\ EntryView(k).kind = "free" <=> entries[k].kind = "none"
           /\ EntryView(k).kind = "done" <=> entries[k].kind = "terminal"
  <1>1. entries[k].kind \in {"none", "inflight", "terminal"}
    BY EntryKinds DEF TypeOK
  <1> QED BY <1>1 DEF EntryView, Contract!Free, Contract!Running, Contract!Done

LEMMA PruningForgets ==
    ASSUME TypeOK, NEW table, Thinned(table)
    PROVE  \E forgotten \in SUBSET Contract!DoneKeys : LookView(table) = Contract!Without(forgotten)
  <1> DEFINE forgotten == {k \in Keys : entries[k].kind = "terminal" /\ table[k].kind = "none"}
  <1>1. forgotten \in SUBSET Contract!DoneKeys
    BY EntryViews DEF Contract!DoneKeys
  <1>2. ASSUME NEW k \in Keys
        PROVE  LookView(table)[k] = Contract!Without(forgotten)[k]
    <2>1. CASE entries[k].kind = "terminal"
      BY <2>1 DEF LookView, Contract!Without
    <2>2. CASE entries[k].kind # "terminal"
      BY <2>2, EntryViews DEF LookView, Contract!Without, Thinned
    <2> QED BY <2>1, <2>2
  <1>3. LookView(table) = Contract!Without(forgotten)
    BY <1>2 DEF LookView, Contract!Without
  <1> QED BY <1>1, <1>3

(* What a caller sees under one key.                                       *)
LEMMA Seen ==
    ASSUME TypeOK, Ownership, NEW table, Thinned(table), NEW k \in Keys
    PROVE  /\ table[k].kind = "none" => LookView(table)[k] = Contract!Free
           /\ table[k].kind = "inflight" =>
                 /\ table[k] = entries[k]
                 /\ LookView(table)[k] = Contract!Running(table[k].digest, OwnerOf(k))
           /\ table[k].kind = "terminal" =>
                 LookView(table)[k] = Contract!Done(table[k].digest, table[k].bytes)
           /\ LookView(table)[k].kind = "free" <=> table[k].kind = "none"
  <1>1. table[k].kind \in {"none", "inflight", "terminal"}
    BY EntryKinds DEF Thinned
  <1>2. CASE table[k].kind = "none"
    BY <1>2 DEF LookView, Contract!Free
  <1>3. CASE table[k].kind = "inflight"
    <2>1. table[k] = entries[k]
      BY <1>3, NoEntryType DEF Thinned
    <2> QED BY <1>3, <2>1, EntryViews DEF LookView, Contract!Running
  <1>4. CASE table[k].kind = "terminal"
    <2>1. /\ entries[k].kind = "terminal"
          /\ table[k].digest = entries[k].digest /\ table[k].bytes = entries[k].bytes
      BY <1>4, NoEntryType DEF Thinned
    <2> QED BY <1>4, <2>1, EntryViews DEF LookView, Contract!Done
  <1> QED BY <1>1, <1>2, <1>3, <1>4

LEMMA SameOccupancy ==
    ASSUME TypeOK, Ownership, NEW table, Thinned(table)
    PROVE  Contract!Cardinality(Contract!Used(LookView(table))) = Cardinality(Occupied(table))
  <1>1. Contract!Used(LookView(table)) = Occupied(table)
    BY Seen DEF Contract!Used, Occupied
  <1> QED BY <1>1 DEF Contract!Cardinality, Cardinality
LEMMA LookingShows ==
    ASSUME TypeOK, Ownership, Ownership', NEW table, Thinned(table), entries' = table, req' = req,
           \A g \in Frames : Owns(g) => Owns(g)'
    PROVE  tview' = LookView(table)
  <1>1. ASSUME NEW k \in Keys
        PROVE  EntryView(k)' = LookView(table)[k]
    <2>1. table[k].kind \in {"none", "inflight", "terminal"}
      BY EntryKinds DEF Thinned
    <2>2. CASE table[k].kind = "inflight"
      <3>1. entries'[k] = entries[k] /\ LookView(table)[k] = EntryView(k)
        BY <2>2, Seen DEF LookView
      <3> QED BY <3>1, EntryViewKept
    <2>3. CASE table[k].kind = "terminal"
      BY <2>3, Seen DEF EntryView, Contract!Done
    <2>4. CASE table[k].kind = "none"
      BY <2>4, Seen DEF EntryView, Contract!Free
    <2> QED BY <2>1, <2>2, <2>3, <2>4
  <1> QED BY <1>1 DEF tview, LookView

LEMMA ReservingRuns ==
    ASSUME TypeOK, Ownership, Ownership', NEW f \in Frames, NEW table, Thinned(table),
           pc[f] \in {"enter", "woken"}, Reserve(f, table)
    PROVE  /\ tview' = [LookView(table) EXCEPT ![req[f].key] = Contract!Running(req[f].digest, f)]
           /\ CallView(f)' = Contract!Serving(req[f].key, req[f].digest)
  <1>0. PICK k \in Keys : k = req[f].key
    BY DEF TypeOK, Requests
  <1>1. /\ table \in [Keys -> Entries] /\ table[k].kind = "none"
        /\ entries' = [table EXCEPT ![k] = InFlight(req[f].digest, ThreadOf(f))]
        /\ req' = req /\ pc'[f] = "dispatch" /\ \A g \in Frames \ {f} : pc'[g] = pc[g]
    BY <1>0 DEF Reserve, Table, TypeOK, Thinned
  <1>2. Owns(f)' /\ \A g \in Frames : Owns(g) => Owns(g)'
    BY <1>1 DEF Owns
  <1>3. EntryView(k)' = Contract!Running(req[f].digest, f)
    <2>1. OwnerOf(k)' = f
      BY <1>0, <1>1, <1>2, OwnerIs
    <2>2. entries'[k].kind = "inflight" /\ entries'[k].digest = req[f].digest
      BY <1>1 DEF InFlight
    <2> QED BY <2>1, <2>2 DEF EntryView, Contract!Running
  <1>4. ASSUME NEW j \in Keys \ {k}
        PROVE  EntryView(j)' = LookView(table)[j]
    <2>0. entries'[j] = table[j]
      BY <1>1
    <2>1. table[j].kind \in {"none", "inflight", "terminal"}
      BY EntryKinds DEF Thinned
    <2>2. CASE table[j].kind = "inflight"
      <3>1. entries'[j] = entries[j] /\ LookView(table)[j] = EntryView(j)
        BY <2>0, <2>2, Seen DEF LookView
      <3> QED BY <1>1, <1>2, <3>1, EntryViewKept
    <2>3. CASE table[j].kind = "terminal"
      BY <2>0, <2>3, Seen DEF EntryView, Contract!Done
    <2>4. CASE table[j].kind = "none"
      BY <2>0, <2>4, Seen DEF EntryView, Contract!Free
    <2> QED BY <2>1, <2>2, <2>3, <2>4
  <1>5. CallView(f)' = Contract!Serving(k, req[f].digest)
    BY <1>0, <1>1, <1>2 DEF CallView, Owns, Contract!Serving
  <1>6. tview' = [LookView(table) EXCEPT ![k] = Contract!Running(req[f].digest, f)]
    BY <1>1, <1>3, <1>4 DEF tview, LookView
  <1> QED BY <1>0, <1>5, <1>6

LEMMA LookupConsults ==
    ASSUME TypeOK, Ownership, Ownership', Integrity, CapacityBounded,
           NEW f \in Frames, NEW table, Thinned(table),
           pc[f] \in {"enter", "woken"}, Lookup(f, table)
    PROVE  Contract!Next
  <1> DEFINE k == req[f].key
             d == req[f].digest
             t == LookView(table)
  <1>0. /\ k \in Keys /\ d \in Digests /\ table \in [Keys -> Entries]
        /\ pc \in [Frames -> Stages] /\ answer \in [Frames -> Answers]
    BY DEF TypeOK, Requests, Thinned
  <1>1. cview[f] = Contract!Asking(k, d)
    BY ContractViews DEF cview
  <1>2. ASSUME Contract!Look(f, k, d, t)
        PROVE  Contract!Next
    <2>1. Contract!Consult(f)
      BY <1>1, <1>2, PruningForgets DEF Contract!Consult, Contract!Asking, cview
    <2> QED BY <2>1 DEF Contract!Next
  <1>3. ASSUME NEW how, Finish(f, how), Table(table)
        PROVE  /\ tview' = t
               /\ cview' = [cview EXCEPT ![f] = CallView(f)']
               /\ req'[f] = req[f] /\ pc'[f] = "returned" /\ answer'[f] = how
    <2>1. /\ entries' = table /\ req' = req /\ pc'[f] = "returned" /\ answer'[f] = how
          /\ \A g \in Frames \ {f} : pc'[g] = pc[g] /\ answer'[g] = answer[g]
      BY <1>0, <1>3 DEF Finish, Table
    <2>2. \A g \in Frames : Owns(g) => Owns(g)'
      BY <2>1 DEF Owns
    <2> QED BY <2>1, <2>2, LookingShows, OneCallMoves
  <1>4. ASSUME NEW why, Finish(f, Refused(why)), Table(table), why # "result"
        PROVE  tview' = t /\ cview' = [cview EXCEPT ![f] = Contract!Refused(why)]
    <2>1. /\ tview' = t /\ cview' = [cview EXCEPT ![f] = CallView(f)']
          /\ req'[f] = req[f] /\ pc'[f] = "returned" /\ answer'[f] = Refused(why)
      BY <1>3, <1>4
    <2>2. CallView(f)' = Contract!Refused(why)
      BY <1>4, <2>1 DEF CallView, Owns, Refused, Contract!Refused
    <2> QED BY <2>1, <2>2
  <1>5. CASE RefuseCapacity(f, table)
    <2>1. t[k].kind = "free" /\ Contract!Cardinality(Contract!Used(t)) = Capacity
      BY <1>0, <1>5, Seen, SameOccupancy DEF RefuseCapacity
    <2>2. tview' = t /\ cview' = [cview EXCEPT ![f] = Contract!Refused("capacity")]
      BY <1>4, <1>5 DEF RefuseCapacity
    <2> QED BY <1>2, <2>1, <2>2 DEF Contract!Look, Contract!Becomes, tview, cview
  <1>6. CASE Reserve(f, table)
    <2>1. t[k].kind = "free"
      BY <1>0, <1>6, Seen DEF Reserve
    <2>2. Contract!Cardinality(Contract!Used(t)) < Capacity
      BY <1>6, SameOccupancy, ThinningFrees, OccupiedFinite, CapacityType DEF Reserve
    <2>3. /\ tview' = [t EXCEPT ![k] = Contract!Running(d, f)]
          /\ CallView(f)' = Contract!Serving(k, d)
      BY <1>6, ReservingRuns
    <2>4. cview' = [cview EXCEPT ![f] = CallView(f)']
      BY <1>0, <1>6, OneCallMoves DEF Reserve, Table
    <2> QED BY <1>2, <2>1, <2>2, <2>3, <2>4 DEF Contract!Look, Contract!Becomes, tview, cview
  <1>7. CASE RefuseConflict(f, table)
    <2>1. t[k].kind # "free" /\ t[k].digest # d
      <3>1. table[k].kind \in {"inflight", "terminal"} /\ table[k].digest # d
        BY <1>0, <1>7, EntryKinds DEF RefuseConflict
      <3>2. CASE table[k].kind = "inflight"
        <4>1. t[k] = Contract!Running(table[k].digest, OwnerOf(k))
          BY <1>0, <3>2, Seen
        <4> QED BY <3>1, <4>1 DEF Contract!Running
      <3>3. CASE table[k].kind = "terminal"
        <4>1. t[k] = Contract!Done(table[k].digest, table[k].bytes)
          BY <1>0, <3>3, Seen
        <4> QED BY <3>1, <4>1 DEF Contract!Done
      <3> QED BY <3>1, <3>2, <3>3
    <2>2. tview' = t /\ cview' = [cview EXCEPT ![f] = Contract!Refused("conflict")]
      BY <1>4, <1>7 DEF RefuseConflict
    <2> QED BY <1>2, <2>1, <2>2 DEF Contract!Look, Contract!Becomes, tview, cview
  <1>8. CASE ReplayTerminal(f, table)
    <2>1. /\ t[k] = Contract!Done(d, table[k].bytes)
          /\ Decoded(table[k].bytes, d) = table[k].bytes
      <3>1. table[k].kind = "terminal" /\ table[k].digest = d
        BY <1>8 DEF ReplayTerminal
      <3>2. table[k].bytes.intent = d
        BY <1>0, <3>1, NoEntryType DEF Thinned, Integrity, AnswersMatchIntent
      <3> QED BY <1>0, <3>1, <3>2, Seen DEF Decoded
    <2>2. /\ tview' = t /\ cview' = [cview EXCEPT ![f] = CallView(f)']
          /\ req'[f] = req[f] /\ pc'[f] = "returned" /\ answer'[f] = Result(table[k].bytes)
      BY <1>3, <1>8, <2>1 DEF ReplayTerminal
    <2>3. CallView(f)' = Contract!Answered(k, d, table[k].bytes)
      BY <2>2 DEF CallView, Owns, Result, Contract!Answered
    <2>4. t[k].kind = "done" /\ t[k].digest = d /\ t[k].bytes = table[k].bytes
      BY <2>1 DEF Contract!Done
    <2> QED BY <1>2, <2>2, <2>3, <2>4 DEF Contract!Look, Contract!Becomes, tview, cview
  <1>9. ASSUME table[k].kind = "inflight", table[k].digest = d
        PROVE  t[k].kind = "running" /\ t[k].digest = d /\ t[k].by # f
    <2>1. entries[k].kind = "inflight" /\ t[k] = Contract!Running(d, OwnerOf(k))
      BY <1>0, <1>9, Seen
    <2>2. PICK g \in Frames : Owns(g) /\ req[g].key = k
      BY <1>0, <2>1 DEF Ownership, NoOrphan
    <2>3. OwnerOf(k) = g /\ g # f
      BY <2>2, OwnerIs DEF Owns
    <2> QED BY <2>1, <2>3 DEF Contract!Running
  <1>10. CASE RefuseReentry(f, table)
    <2>1. table[k].kind = "inflight" /\ table[k].digest = d
      BY <1>10 DEF RefuseReentry, InFlight
    <2>2. tview' = t /\ cview' = [cview EXCEPT ![f] = Contract!Refused("reentry")]
      BY <1>4, <1>10 DEF RefuseReentry
    <2> QED BY <1>2, <1>9, <2>1, <2>2 DEF Contract!Look, Contract!Becomes, tview, cview
  <1>11. CASE Wait(f, table)
    <2>1. /\ entries' = table /\ req' = req /\ answer' = answer /\ pc'[f] = "waiting"
          /\ \A g \in Frames \ {f} : pc'[g] = pc[g]
      BY <1>0, <1>11 DEF Wait, Table
    <2>2. \A g \in Frames : Owns(g) => Owns(g)'
      BY <2>1 DEF Owns
    <2>3. tview' = t
      BY <2>1, <2>2, LookingShows
    <2>4. \A g \in Frames : CallView(g)' = CallView(g)
      BY <2>1 DEF CallView, Owns
    <2>5. cview' = cview
      BY <2>4 DEF cview
    <2> QED BY <1>2, <1>9, <1>11, <2>3, <2>5 DEF Wait, Contract!Look, tview, cview
  <1> QED BY <1>5, <1>6, <1>7, <1>8, <1>10, <1>11 DEF Lookup
LEMMA PublishFiles ==
    ASSUME TypeOK, Ownership, Ownership', Integrity, NEW f \in Frames, Publish(f)
    PROVE  Contract!Next
  <1>0. PICK k \in Keys, d \in Digests, b \in Bytes :
           k = req[f].key /\ d = req[f].digest /\ b = draft[f].bytes
    BY DEF TypeOK, Requests
  <1>1. /\ Owns(f) /\ HoldsReservation(f) /\ Settle(f) /\ req' = req
        /\ b.intent = d
    BY <1>0 DEF Publish, Owns, Ownership, OwnersHold, Integrity
  <1>2. cview[f] = Contract!Serving(k, d)
    BY <1>0, <1>1, ContractViews DEF cview
  <1>3. tview[k] = Contract!Running(d, f)
    <2>1. OwnerOf(k) = f /\ entries[k].kind = "inflight" /\ entries[k].digest = d
      BY <1>0, <1>1, OwnerIs DEF HoldsReservation
    <2> QED BY <2>1, EntryViews DEF tview
  <1>4. /\ entries'[k].kind = "terminal" /\ entries'[k].digest = d /\ entries'[k].bytes = b
        /\ \A j \in Keys \ {k} : entries'[j] = entries[j]
    BY <1>0, <1>1 DEF Settle, Terminal, TypeOK
  <1>5. \A g \in Frames \ {f} : /\ pc'[g] = pc[g] \/ (pc[g] = "waiting" /\ pc'[g] = "woken")
                                /\ Owns(g) => Owns(g)'
                                /\ req'[g] = req[g] /\ answer'[g] = answer[g]
    BY <1>1 DEF Settle, TypeOK, Owns
  <1>6. tview' = [tview EXCEPT ![k] = Contract!Done(d, b)]
    <2>1. EntryView(k)' = Contract!Done(d, b)
      BY <1>4 DEF EntryView, Contract!Done
    <2>2. ASSUME NEW j \in Keys \ {k}
          PROVE  EntryView(j)' = EntryView(j)
      <3>1. \A g \in Frames : req[g].key = j => g # f
        BY <1>0
      <3> QED BY <1>4, <1>5, <3>1, EntryViewKept
    <2> QED BY <2>1, <2>2 DEF tview
  <1>7. cview' = [cview EXCEPT ![f] = CallView(f)']
    BY <1>5, OneCallMoves
  <1>8. CallView(f)' \in {Contract!Answered(k, d, b), Contract!Refused("control")}
    <2>1. pc'[f] = "returned" /\ req'[f].key = k /\ req'[f].digest = d
          /\ answer'[f] = IF draft[f].control THEN Refused("control") ELSE Result(b)
      BY <1>0, <1>1 DEF Settle, TypeOK, Decoded
    <2>2. CASE draft[f].control
      BY <2>1, <2>2 DEF CallView, Owns, Refused, Contract!Refused
    <2>3. CASE ~draft[f].control
      BY <2>1, <2>3 DEF CallView, Owns, Result, Contract!Answered
    <2> QED BY <2>2, <2>3
  <1>9. /\ cview[f].kind = "serving" /\ cview[f].key = k /\ cview[f].digest = d
    BY <1>2 DEF Contract!Serving
  <1>10. \/ cview' = [cview EXCEPT ![f] = Contract!Answered(k, d, b)]
         \/ cview' = [cview EXCEPT ![f] = Contract!Refused("control")]
    BY <1>7, <1>8
  <1>11. Contract!File(f, b)
    BY <1>3, <1>6, <1>9, <1>10 DEF Contract!File, Contract!Becomes, tview, cview
  <1> QED BY <1>11 DEF Contract!Next

(* A call arrives or leaves; the table is not looked at.                   *)
LEMMA ComingAndGoing ==
    ASSUME TypeOK, Ownership, Ownership', NEW f \in Frames, Call(f) \/ Return(f)
    PROVE  Contract!Next
  <1>1. /\ entries' = entries /\ ~Owns(f)
        /\ \A g \in Frames \ {f} : /\ pc'[g] = pc[g] /\ req'[g] = req[g]
                                   /\ answer'[g] = answer[g]
    BY DEF Call, Invoke, RefuseCall, CanCall, Return, TypeOK, Owns
  <1>2. tview' = tview
    <2>1. \A g \in Frames : Owns(g) => Owns(g)' /\ req'[g] = req[g]
      BY <1>1 DEF Owns
    <2>2. \A k \in Keys : EntryView(k)' = EntryView(k)
      BY <1>1, <2>1, EntryViewKept
    <2> QED BY <2>2 DEF tview
  <1>3. cview' = [cview EXCEPT ![f] = CallView(f)']
    BY <1>1, OneCallMoves
  <1>4. ASSUME NEW r \in Requests, Invoke(f, r)
        PROVE  Contract!Next
    <2>1. pc'[f] = "enter" /\ req'[f] = r /\ cview[f] = Contract!Quiet
      BY <1>4, ContractViews DEF Invoke, CanCall, TypeOK, cview
    <2>2. CallView(f)' = Contract!Asking(r.key, r.digest)
      BY <2>1 DEF CallView, Owns, Contract!Asking
    <2>3. Contract!Ask(f, r.key, r.digest)
      BY <1>2, <1>3, <2>1, <2>2 DEF Contract!Ask, Contract!Becomes, tview, cview
    <2> QED BY <2>3 DEF Contract!Next, Requests
  <1>5. CASE RefuseCall(f)
    <2>1. pc'[f] = "returned" /\ answer'[f] = Refused("contract") /\ cview[f] = Contract!Quiet
      BY <1>5, ContractViews DEF RefuseCall, CanCall, TypeOK, cview
    <2>2. CallView(f)' = Contract!Refused("contract")
      BY <2>1 DEF CallView, Owns, Refused, Contract!Refused
    <2>3. Contract!Reject(f)
      BY <1>2, <1>3, <2>1, <2>2 DEF Contract!Reject, Contract!Becomes, tview, cview
    <2> QED BY <2>3 DEF Contract!Next
  <1>6. CASE Return(f)
    <2>1. pc[f] = "returned" /\ pc'[f] = "idle"
      BY <1>6 DEF Return, TypeOK
    <2>2. CallView(f)' = Contract!Quiet
      BY <2>1 DEF CallView, Owns, Contract!Quiet
    <2>3. CallView(f).kind \in {"answered", "refused"}
      BY <2>1, ContractViews DEF Contract!Answered, Contract!Refused
    <2>4. Contract!Leave(f)
      BY <1>2, <1>3, <2>2, <2>3 DEF Contract!Leave, Contract!Becomes, tview, cview
    <2> QED BY <2>4 DEF Contract!Next
  <1> QED BY <1>4, <1>5, <1>6 DEF Call

(* While an owner dispatches and reads clocks, nobody sees a difference.   *)
LEMMA OwnersWorkUnseen ==
    ASSUME TypeOK, Ownership, Ownership', NEW f \in Frames, Finishes(f) \/ Completes(f)
    PROVE  tview' = tview /\ cview' = cview
  <1>1. /\ entries' = entries /\ req' = req /\ answer' = answer
        /\ Owns(f) /\ Owns(f)' /\ \A g \in Frames \ {f} : pc'[g] = pc[g]
    BY DEF Finishes, Completes, Dispatch, DispatchControl, CompleteInTime, CompleteUncertain,
           CompleteControl, Drafted, TypeOK, Owns
  <1>2. \A g \in Frames : Owns(g) => Owns(g)'
    BY <1>1 DEF Owns
  <1>3. \A k \in Keys : EntryView(k)' = EntryView(k)
    BY <1>1, <1>2, EntryViewKept
  <1>4. ASSUME NEW g \in Frames
        PROVE  CallView(g)' = CallView(g)
    BY <1>1 DEF CallView, Owns
  <1> QED BY <1>3, <1>4 DEF tview, cview

LEMMA StepConforms ==
    TypeOK /\ Ownership /\ Ownership' /\ Integrity /\ CapacityBounded /\ [Next]_vars =>
        Contract!Next \/ UNCHANGED <<tview, cview>>
  <1> SUFFICES ASSUME TypeOK, Ownership, Ownership', Integrity, CapacityBounded, [Next]_vars
               PROVE  Contract!Next \/ UNCHANGED <<tview, cview>>
    OBVIOUS
  <1>1. ASSUME NEW f \in Frames, Enter(f) \/ Wake(f)
        PROVE  Contract!Next
    BY <1>1, LookupCases, LookupConsults
  <1>2. CASE Tick \/ UNCHANGED vars
    <2>1. /\ entries' = entries /\ req' = req /\ answer' = answer /\ pc' = pc
      BY <1>2 DEF Tick, vars
    <2>2. \A g \in Frames : CallView(g)' = CallView(g) /\ Owns(g)' = Owns(g)
      BY <2>1 DEF CallView, Owns
    <2>3. \A k \in Keys : EntryView(k)' = EntryView(k)
      BY <2>1, <2>2, EntryViewKept
    <2> QED BY <2>2, <2>3 DEF tview, cview
  <1> QED BY <1>1, <1>2, PublishFiles, ComingAndGoing, OwnersWorkUnseen DEF Next

(* The coordinator keeps the promise of decision 0011, for any number of   *)
(* threads, keys and intents, any capacity and any behaviour of the clock. *)
THEOREM CoordinatorConforms == Spec => ImplementsContract
  <1>1. Init => Contract!Init
    <2> SUFFICES ASSUME Init
                 PROVE  Contract!Init
      OBVIOUS
    <2>1. \A k \in Keys : EntryView(k) = Contract!Free
      BY DEF Init, NoEntry, EntryView, Contract!Free
    <2>2. \A f \in Frames : CallView(f) = Contract!Quiet
      BY DEF Init, CallView, Owns, Contract!Quiet
    <2> QED BY <2>1, <2>2 DEF Contract!Init
  <1>2. TypeOK /\ Ownership /\ Ownership' /\ Integrity /\ CapacityBounded /\ [Next]_vars =>
           [Contract!Next]_<<[k \in Keys |-> EntryView(k)], [f \in Frames |-> CallView(f)]>>
    BY StepConforms DEF tview, cview
  <1> QED BY <1>1, <1>2, InitIntegrity, StepIntegrity, TypeCorrect, OwnershipHolds,
             CapacityIsNeverExceeded, PTL DEF Spec, ImplementsContract, Contract!Spec
=============================================================================
