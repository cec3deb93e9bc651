---------------------------- MODULE ControlRoutes ----------------------------
(***************************************************************************)
(* The HTTP side of the SDK: the coroutines _handle and                    *)
(* _handle_surface_read run on the event loop, hand one synchronous        *)
(* interpretation to the thread pool, and answer when it comes back.  A    *)
(* worker interprets one message at a time: signed admission, exact        *)
(* target, registry, and then a read or replay.execute, where it may have  *)
(* to wait on the replay condition while it occupies its pool thread.      *)
(* A client may give up at any time; the worker does not notice.           *)
(* A definition named Name_Fault is a faulty variation of Name that no     *)
(* action uses (see Replay).                                               *)
(***************************************************************************)
EXTENDS Integers, FiniteSets

CONSTANTS
    Clients,     \* connections, one message at a time each
    Workers,     \* threads of the pool run_in_threadpool uses
    Messages,    \* what clients may send
    Keys, Digests, Values, Failed, Unusable,
    Capacity, Retention, MaxClock, Faults,     \* see Replay
    None

VARIABLES
    entries, clock, pc, req, initial, draft, answer, born,   \* see Replay
    client,    \* what each connection waits for
    work,      \* the message and connection a worker interprets
    told       \* history: results sent with status 200, by key and digest

MaxDepth == 1
R == INSTANCE Replay WITH Threads <- Workers

rvars == <<entries, clock, pc, req, initial, draft, answer, born>>
vars  == <<rvars, client, work, told>>

(* A message as the checks of the handlers tell it apart.  `transport`     *)
(* stands for the bounds on path, query, headers and body; the credential  *)
(* is the verdict of the verifier (Admission); `known` says whether the    *)
(* variable is registered, or, for a surface read, whether the declaration *)
(* identity matches.                                                       *)
MessageType ==
    [op        : {"surface", "read", "apply"},
     transport : {"fit", "invalid", "too_large", "no_bearer"},
     credential : BOOLEAN, target : BOOLEAN, known : BOOLEAN,
     key : Keys, digest : Digests]

ASSUME MessagesAssumption == Messages \subseteq MessageType
ASSUME NoneAssumption     == None \notin Clients
ASSUME PoolAssumption     == IsFiniteSet(Workers)
ASSUME KeysAssumption     == IsFiniteSet(Keys) /\ Keys # {} /\ Digests # {}
ASSUME ValuesAssumption   == Failed \in Values /\ Unusable \notin [intent : Digests, value : Values]
ASSUME CapacityAssumption == Capacity \in 1..R!MaxCapacity
ASSUME ClockAssumption    == Retention \in Nat \ {0} /\ MaxClock \in Nat
ASSUME FaultsAssumption   == Faults \subseteq {"clock", "backward", "control"}

Away               == [at |-> "away"]
OnLoop(m)          == [at |-> "loop", message |-> m]
Queued(m)          == [at |-> "queued", message |-> m]
InPool(m)          == [at |-> "pool", message |-> m]
Answered(m, status) == [at |-> "answered", message |-> m, status |-> status]

Frame(w) == <<w, 1>>
Idle == [by |-> None]

Init ==
    /\ R!Init
    /\ client = [c \in Clients |-> Away]
    /\ work = [w \in Workers |-> Idle]
    /\ told = {}

Becomes(c, how) == client' = [client EXCEPT ![c] = how]

-----------------------------------------------------------------------------
(* The event loop.                                                         *)

Send(c, m) ==
    /\ client[c] = Away
    /\ Becomes(c, OnLoop(m))
    /\ UNCHANGED <<rvars, work, told>>

(* Path, query, headers and streamed body, in the order of the handlers;   *)
(* a stream that breaks off is an invalid request.                         *)
TransportStatus(m) ==
    CASE m.transport = "invalid"   -> 400
      [] m.transport = "too_large" -> 413
      [] m.transport = "no_bearer" -> 401

RejectTransport(c) ==
    /\ client[c].at = "loop"
    /\ client[c].message.transport # "fit"
    /\ Becomes(c, Answered(client[c].message, TransportStatus(client[c].message)))
    /\ UNCHANGED <<rvars, work, told>>

HandOff(c) ==
    /\ client[c].at = "loop"
    /\ client[c].message.transport = "fit"
    /\ Becomes(c, Queued(client[c].message))
    /\ UNCHANGED <<rvars, work, told>>

StartWork(c, w) ==
    /\ client[c].at = "queued"
    /\ work[w] = Idle
    /\ work' = [work EXCEPT ![w] = [by |-> c, message |-> client[c].message]]
    /\ Becomes(c, InPool(client[c].message))
    /\ UNCHANGED <<rvars, told>>

(* A client may hang up while its message is streamed, or once a worker    *)
(* has it: nobody tells the worker, which runs to its end and whose answer *)
(* goes nowhere.  Queued work is not withdrawn either: it starts first.    *)
HangUp(c) ==
    /\ client[c].at \in {"loop", "pool"}
    /\ Becomes(c, Away)
    /\ work' = [w \in Workers |-> IF work[w].by = c
                                  THEN [by |-> None, message |-> work[w].message]
                                  ELSE work[w]]
    /\ UNCHANGED <<rvars, told>>

Receive(c) ==
    /\ client[c].at = "answered"
    /\ Becomes(c, Away)
    /\ UNCHANGED <<rvars, work, told>>

-----------------------------------------------------------------------------
(* A pool thread.                                                          *)

Busy(w) == work[w] # Idle
Message(w) == work[w].message

Reply(w, status) ==
    /\ work' = [work EXCEPT ![w] = Idle]
    /\ client' = [c \in Clients |-> IF work[w].by = c THEN Answered(Message(w), status)
                                    ELSE client[c]]

Admitted_AnyTarget(m) == m.credential /\ m.known

RefusalStatus_RegistryFirst(m) ==
    CASE ~m.credential -> 401
      [] m.credential /\ ~m.known -> 404
      [] m.credential /\ m.known /\ ~m.target -> 403

Admitted(m) == m.credential /\ m.target /\ m.known

RefusalStatus(m) ==
    CASE ~m.credential -> 401
      [] m.credential /\ ~m.target -> 403
      [] m.credential /\ m.target /\ ~m.known -> IF m.op = "surface" THEN 403 ELSE 404

Refuse(w) ==
    /\ Busy(w) /\ pc[Frame(w)] = "idle"
    /\ ~Admitted(Message(w))
    /\ Reply(w, RefusalStatus(Message(w)))
    /\ UNCHANGED <<rvars, told>>

(* A read, or a capability or status projection, answers or raises.        *)
AnswerRead(w) ==
    /\ Busy(w) /\ Admitted(Message(w)) /\ Message(w).op # "apply"
    /\ Reply(w, 200) \/ Reply(w, 500)
    /\ UNCHANGED <<rvars, told>>

StartApply(w) ==
    /\ Busy(w) /\ Admitted(Message(w)) /\ Message(w).op = "apply"
    /\ \/ R!Invoke(Frame(w), [key |-> Message(w).key, digest |-> Message(w).digest])
       \/ "clock" \in Faults /\ R!RefuseCall(Frame(w))
    /\ UNCHANGED <<client, work, told>>

Replaying(w) ==
    /\ LET f == Frame(w)
       IN  R!Enter(f) \/ R!Wake(f) \/ R!Finishes(f) \/ R!Completes(f) \/ R!Publish(f)
    /\ UNCHANGED <<client, work, told>>

ApplyStatus(how) ==
    CASE how.kind = "result"   -> 200
      [] how.kind = "conflict" -> 409
      [] how.kind = "capacity" -> 503
      [] how.kind \in {"contract", "reentry", "lost"} -> 500

FinishApply(w) ==
    /\ pc[Frame(w)] = "returned"
    /\ Reply(w, ApplyStatus(answer[Frame(w)]))
    /\ told' = IF answer[Frame(w)].kind = "result"
               THEN told \cup {[key |-> Message(w).key, bytes |-> answer[Frame(w)].bytes]}
               ELSE told
    /\ R!Return(Frame(w))

Tick == R!Tick /\ UNCHANGED <<client, work, told>>

-----------------------------------------------------------------------------
Loop(c)   == RejectTransport(c) \/ HandOff(c) \/ \E w \in Workers : StartWork(c, w)
Worker(w) == Refuse(w) \/ AnswerRead(w) \/ StartApply(w) \/ Replaying(w) \/ FinishApply(w)

Next ==
    \/ \E c \in Clients : (\E m \in Messages : Send(c, m)) \/ Loop(c) \/ HangUp(c) \/ Receive(c)
    \/ \E w \in Workers : Worker(w)
    \/ Tick

Spec == Init /\ [][Next]_vars

(* The event loop and every pool thread keep running, dispatch callbacks   *)
(* come back, and the pool serves its queue in order of arrival, so that a *)
(* message is not overtaken forever.                                       *)
FairSpec ==
    /\ Spec
    /\ \A c \in Clients :
          /\ WF_vars(RejectTransport(c) \/ HandOff(c))
          /\ SF_vars(\E w \in Workers : StartWork(c, w))
    /\ \A w \in Workers : WF_vars(Worker(w))

-----------------------------------------------------------------------------
(* Properties *)

TypeOK ==
    /\ R!TypeOK
    /\ \A c \in Clients : client[c].at # "away" => client[c].message \in MessageType
    /\ \A w \in Workers : work[w] # Idle =>
          work[w].by \in Clients \cup {None} /\ work[w].message \in MessageType
    /\ told \subseteq [key : Keys, bytes : R!Bytes]

(* Nothing is disclosed without authority (decisions 0013 and 0014): an    *)
(* answer that depends on the registry, the replay table or a variable is  *)
(* only ever given to an admitted message for this exact target.           *)
DisclosureNeedsAuthority ==
    \A c \in Clients :
        client[c].at = "answered" /\ client[c].status \in {200, 404, 409, 500, 503} =>
            client[c].message.credential /\ client[c].message.target

(* No effect without authority: every pool thread inside the coordinator   *)
(* interprets an APPLY that was admitted for this target and variable, and *)
(* every intent in the replay table is one such a message carries.         *)
Authorised(m) == m.op = "apply" /\ m.credential /\ m.target /\ m.known

EffectsNeedAuthority ==
    /\ \A w \in Workers : pc[Frame(w)] # "idle" => Busy(w) /\ Authorised(Message(w))
    /\ \A k \in Keys : entries[k].kind # "none" =>
          \E m \in Messages :
             Authorised(m) /\ m.key = k /\ m.digest = entries[k].digest

(* The pool cannot be filled by waiters alone: when every thread of it is  *)
(* blocked on the replay condition, nobody would be left to publish.       *)
PoolKeepsAnOwner ==
    Workers # {} => \E w \in Workers : pc[Frame(w)] # "waiting"

(* Retries agree: within a window, every 200 for one key and intent        *)
(* carries the same result, whoever dispatched it and however often the    *)
(* client hung up and asked again.                                         *)
RetriesAgree ==
    \A a \in told, b \in told :
        a.key = b.key /\ a.bytes.intent = b.bytes.intent => a = b

(* Every message is answered unless its client hangs up, whatever the size *)
(* of the pool and however many of its threads wait for one owner.         *)
EveryMessageIsAnswered ==
    \A c \in Clients :
        client[c].at = "queued" ~> client[c].at \in {"answered", "away"}
=============================================================================
