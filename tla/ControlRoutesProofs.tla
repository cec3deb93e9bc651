------------------------ MODULE ControlRoutesProofs ------------------------
(***************************************************************************)
(* Proofs about ControlRoutes, for any clients, messages and pool.  The    *)
(* routes take no step on the coordinator that Replay does not have, so    *)
(* that what ReplayProofs shows of a coordinator holds of theirs.          *)
(***************************************************************************)
EXTENDS ControlRoutes, TLAPS

RP == INSTANCE ReplayProofs WITH Threads <- Workers

-----------------------------------------------------------------------------
(* The coordinator the routes run and the one the theorems are about have  *)
(* the same actions.                                                       *)

LEMMA SameFiniteSets == \A S : RP!IsFiniteSet(S) <=> IsFiniteSet(S)
  BY DEF RP!IsFiniteSet, IsFiniteSet

LEMMA ReplayAssumptions ==
    /\ RP!IsFiniteSet(Workers)
    /\ MaxDepth \in Nat \ {0}
    /\ RP!IsFiniteSet(Keys) /\ Keys # {} /\ Digests # {}
    /\ Failed \in Values /\ Unusable \notin [intent : Digests, value : Values]
    /\ Capacity \in 1..RP!MaxCapacity
    /\ Retention \in Nat \ {0} /\ MaxClock \in Nat
    /\ Faults \subseteq {"clock", "backward", "control"}
  BY SameFiniteSets, PoolAssumption, KeysAssumption, ValuesAssumption, CapacityAssumption,
     ClockAssumption, FaultsAssumption DEF MaxDepth, RP!MaxCapacity, R!MaxCapacity

LEMMA SameData ==
    /\ R!NoTime = RP!NoTime /\ R!NoEntry = RP!NoEntry /\ R!NotBorn = RP!NotBorn
    /\ R!Requests = RP!Requests /\ R!AnyRequest = RP!AnyRequest
    /\ R!NoDraft = RP!NoDraft /\ R!NoAnswer = RP!NoAnswer
    /\ R!Bytes = RP!Bytes /\ R!Frames = RP!Frames
  BY DEF R!NoTime, RP!NoTime, R!NoEntry, RP!NoEntry, R!NotBorn, RP!NotBorn,
         R!Requests, RP!Requests, R!AnyRequest, RP!AnyRequest, R!NoDraft, RP!NoDraft,
         R!Fallback, RP!Fallback, R!NoAnswer, RP!NoAnswer, R!Bytes, RP!Bytes, R!Frames, RP!Frames

LEMMA SameOperators ==
    ASSUME NEW f, NEW a, NEW b
    PROVE  /\ R!Refused(a) = RP!Refused(a) /\ R!Result(a) = RP!Result(a)
           /\ R!Decoded(a, b) = RP!Decoded(a, b) /\ R!Normalized(a, b) = RP!Normalized(a, b)
           /\ R!Fallback(a) = RP!Fallback(a) /\ R!InFlight(a, b) = RP!InFlight(a, b)
           /\ R!ThreadOf(f) = RP!ThreadOf(f) /\ R!OnTop(f) = RP!OnTop(f)
           /\ R!CanCall(f) = RP!CanCall(f)
           /\ R!HoldsReservation(f) = RP!HoldsReservation(f)
           /\ R!Cardinality(R!Occupied(a)) = RP!Cardinality(RP!Occupied(a))
  BY DEF R!Refused, RP!Refused, R!Result, RP!Result, R!Decoded, RP!Decoded,
         R!Normalized, RP!Normalized, R!Bytes, RP!Bytes, R!Fallback, RP!Fallback,
         R!InFlight, RP!InFlight, R!ThreadOf, RP!ThreadOf, R!OnTop, RP!OnTop,
         R!CanCall, RP!CanCall, R!Inner, RP!Inner, R!Outer, RP!Outer,
         R!HoldsReservation, RP!HoldsReservation, R!Cardinality, RP!Cardinality,
         R!Occupied, RP!Occupied

LEMMA SameLookup ==
    ASSUME NEW f, NEW table
    PROVE  R!Lookup(f, table) <=> RP!Lookup(f, table)
  <1> USE SameData, SameOperators
      DEF R!Table, RP!Table, R!Finish, RP!Finish
  <1>1. R!RefuseCapacity(f, table) <=> RP!RefuseCapacity(f, table)
    BY DEF R!RefuseCapacity, RP!RefuseCapacity
  <1>2. R!Reserve(f, table) <=> RP!Reserve(f, table)
    BY DEF R!Reserve, RP!Reserve
  <1>3. R!RefuseConflict(f, table) <=> RP!RefuseConflict(f, table)
    BY DEF R!RefuseConflict, RP!RefuseConflict
  <1>4. R!ReplayTerminal(f, table) <=> RP!ReplayTerminal(f, table)
    BY DEF R!ReplayTerminal, RP!ReplayTerminal
  <1>5. R!RefuseReentry(f, table) <=> RP!RefuseReentry(f, table)
    BY DEF R!RefuseReentry, RP!RefuseReentry
  <1>6. R!Wait(f, table) <=> RP!Wait(f, table)
    BY DEF R!Wait, RP!Wait
  <1> HIDE SameData, SameOperators
           DEF R!Table, RP!Table, R!Finish, RP!Finish
  <1> QED BY <1>1, <1>2, <1>3, <1>4, <1>5, <1>6 DEF R!Lookup, RP!Lookup

LEMMA SameActions ==
    ASSUME NEW f
    PROVE  /\ R!Call(f) <=> RP!Call(f)
           /\ R!Enter(f) <=> RP!Enter(f)
           /\ R!Wake(f) <=> RP!Wake(f)
           /\ R!Finishes(f) <=> RP!Finishes(f)
           /\ R!Completes(f) <=> RP!Completes(f)
           /\ R!Publish(f) <=> RP!Publish(f)
           /\ R!Return(f) <=> RP!Return(f)
  <1>1. R!Call(f) <=> RP!Call(f)
    BY SameData, SameOperators DEF R!Call, RP!Call, R!Invoke, RP!Invoke, R!RefuseCall, RP!RefuseCall
  <1>2. (R!Enter(f) <=> RP!Enter(f)) /\ (R!Wake(f) <=> RP!Wake(f))
    BY SameLookup DEF R!Enter, RP!Enter, R!Wake, RP!Wake, R!Pruned, RP!Pruned,
                      R!PrunedEntry, RP!PrunedEntry, R!Terminal, RP!Terminal,
                      R!NoTime, RP!NoTime, R!NoEntry, RP!NoEntry
  <1>3. R!Finishes(f) <=> RP!Finishes(f)
    BY SameData, SameOperators DEF R!Finishes, RP!Finishes, R!Dispatch, RP!Dispatch,
          R!DispatchControl, RP!DispatchControl, R!Drafted, RP!Drafted
  <1>4. R!Completes(f) <=> RP!Completes(f)
    BY SameData, SameOperators DEF R!Completes, RP!Completes, R!CompleteInTime, RP!CompleteInTime,
          R!CompleteUncertain, RP!CompleteUncertain, R!CompleteControl, RP!CompleteControl,
          R!Drafted, RP!Drafted
  <1>5. R!Publish(f) <=> RP!Publish(f)
    BY SameData, SameOperators DEF R!Publish, RP!Publish, R!Settle, RP!Settle,
          R!LoseReservation, RP!LoseReservation, R!Finish, RP!Finish, R!Terminal, RP!Terminal
  <1>6. R!Return(f) <=> RP!Return(f)
    BY SameData DEF R!Return, RP!Return
  <1> QED BY <1>1, <1>2, <1>3, <1>4, <1>5, <1>6

LEMMA SameInit == R!Init <=> RP!Init
  BY SameData DEF R!Init, RP!Init

LEMMA SameTick == R!Tick <=> RP!Tick
  BY DEF R!Tick, RP!Tick, R!Times, RP!Times

LEMMA SameTypes == R!TypeOK <=> RP!TypeOK
  BY SameData DEF R!TypeOK, RP!TypeOK, R!Entries, RP!Entries, R!Times, RP!Times,
                  R!Stages, RP!Stages, R!Answers, RP!Answers, R!Refusals, RP!Refusals

-----------------------------------------------------------------------------
(* The routes' own part: messages are handed on as they were sent, and a   *)
(* worker inside the coordinator interprets an admitted APPLY and executes *)
(* the request of its message.                                             *)

RequestOf(m) == [key |-> m.key, digest |-> m.digest]

Carried ==
    /\ client = [c \in Clients |-> client[c]]
    /\ work = [w \in Workers |-> work[w]]
    /\ \A c \in Clients : client[c].at # "away" => client[c].message \in Messages
    /\ \A w \in Workers : Busy(w) =>
          work[w].by \in Clients \cup {None} /\ Message(w) \in Messages

(* A call refused before it had a request, on its way back.               *)
Malformed(f) == pc[f] = "returned" /\ answer[f].kind = "contract"

Serving ==
    \A w \in Workers : pc[Frame(w)] # "idle" =>
        /\ Busy(w) /\ Authorised(Message(w))
        /\ ~Malformed(Frame(w)) => req[Frame(w)] = RequestOf(Message(w))

Wiring == Carried /\ Serving

LEMMA FrameType == \A w \in Workers : Frame(w) \in RP!Frames
  BY DEF Frame, RP!Frames, MaxDepth

LEMMA FramesAreWorkers == \A f \in RP!Frames : \E w \in Workers : f = Frame(w)
  BY DEF Frame, RP!Frames, MaxDepth

LEMMA FramesDiffer == \A v, w \in Workers : Frame(v) = Frame(w) => v = w
  BY DEF Frame

(* The coordinator takes its own steps only.                               *)
LEMMA StepOfReplay == Carried /\ [Next]_vars => [RP!Next]_(RP!vars)
  <1> SUFFICES ASSUME Carried, Next
               PROVE  RP!Next \/ UNCHANGED RP!vars
    BY DEF vars, rvars, RP!vars
  <1>1. ASSUME NEW w \in Workers, StartApply(w)
        PROVE  RP!Next
    <2>1. RequestOf(Message(w)) \in R!Requests
      BY <1>1, MessagesAssumption DEF StartApply, Carried, RequestOf, R!Requests, MessageType
    <2>2. RP!Call(Frame(w))
      BY <1>1, <2>1, SameActions DEF StartApply, R!Call, RequestOf
    <2> QED BY <2>2, FrameType DEF RP!Next
  <1>2. ASSUME NEW w \in Workers, Replaying(w) \/ FinishApply(w)
        PROVE  RP!Next
    BY <1>2, SameActions, FrameType DEF Replaying, FinishApply, RP!Next
  <1>3. CASE Tick
    BY <1>3, SameTick DEF Tick, RP!Next
  <1>4. CASE UNCHANGED rvars
    BY <1>4 DEF rvars, RP!vars
  <1> QED BY <1>1, <1>2, <1>3, <1>4
          DEF Next, Loop, Worker, Send, RejectTransport, HandOff, StartWork, HangUp, Receive,
              Refuse, AnswerRead

(* Between call and return a frame keeps its request, and no step of one   *)
(* frame makes another one enter or leave the coordinator.                 *)
LEMMA ReplayingKeeps ==
    ASSUME RP!TypeOK, NEW f \in RP!Frames,
           RP!Enter(f) \/ RP!Wake(f) \/ RP!Finishes(f) \/ RP!Completes(f) \/ RP!Publish(f)
    PROVE  /\ req' = req
           /\ \A g \in RP!Frames : /\ pc'[g] = "idle" <=> pc[g] = "idle"
                                   /\ Malformed(g) => Malformed(g)'
  <1>0. pc \in [RP!Frames -> RP!Stages] /\ answer \in [RP!Frames -> RP!Answers]
    BY DEF RP!TypeOK
  <1>1. ASSUME NEW table, RP!Lookup(f, table), pc[f] \in {"enter", "woken"}
        PROVE  /\ req' = req
               /\ \A g \in RP!Frames : /\ pc'[g] = "idle" <=> pc[g] = "idle"
                                       /\ Malformed(g) => Malformed(g)'
    BY <1>0, <1>1 DEF Malformed, RP!Lookup, RP!RefuseCapacity, RP!Reserve, RP!RefuseConflict, RP!ReplayTerminal,
          RP!RefuseReentry, RP!Wait, RP!Table, RP!Finish, RP!Refused, RP!Result
  <1>2. CASE RP!Enter(f) \/ RP!Wake(f)
    BY <1>1, <1>2 DEF RP!Enter, RP!Wake
  <1>3. CASE RP!Finishes(f) \/ RP!Completes(f)
    BY <1>0, <1>3 DEF Malformed, RP!Finishes, RP!Completes, RP!Dispatch, RP!DispatchControl, RP!Drafted,
          RP!CompleteInTime, RP!CompleteUncertain, RP!CompleteControl
  <1>4. CASE RP!Publish(f)
    BY <1>0, <1>4 DEF Malformed, RP!Publish, RP!Settle, RP!LoseReservation, RP!Finish, RP!Refused, RP!Result
  <1> QED BY <1>2, <1>3, <1>4

LEMMA InitWiring == Init => Wiring
  BY SameInit, FrameType DEF Init, Wiring, Carried, Serving, Away, Idle, Busy, RP!Init

(* A worker that is done with its message, outside the coordinator.        *)
LEMMA ReplyKeepsWiring ==
    ASSUME Wiring, NEW w \in Workers, Busy(w), NEW status, Reply(w, status),
           pc'[Frame(w)] = "idle",
           \A v \in Workers \ {w} : /\ pc'[Frame(v)] = pc[Frame(v)]
                                    /\ answer'[Frame(v)] = answer[Frame(v)]
                                    /\ req'[Frame(v)] = req[Frame(v)]
    PROVE  Wiring'
  <1>1. Carried'
    BY DEF Wiring, Carried, Reply, Busy, Message, Answered, Idle
  <1>2. \A v \in Workers \ {w} : work'[v] = work[v]
    BY DEF Reply, Wiring, Carried
  <1>3. Serving'
    BY <1>2 DEF Wiring, Serving, Malformed, Busy, Message
  <1> QED BY <1>1, <1>3 DEF Wiring

LEMMA StepWiring == RP!TypeOK /\ Wiring /\ [Next]_vars => Wiring'
  <1> SUFFICES ASSUME RP!TypeOK, Wiring, [Next]_vars
               PROVE  Wiring'
    OBVIOUS
  <1> USE DEF Wiring
  <1>0. /\ pc \in [RP!Frames -> RP!Stages] /\ answer \in [RP!Frames -> RP!Answers]
        /\ req \in [RP!Frames -> RP!Requests]
    BY DEF RP!TypeOK
  <1>1. ASSUME UNCHANGED rvars, work' = work, Carried'
        PROVE  Wiring'
    BY <1>1 DEF Serving, Malformed, rvars, Busy, Message
  <1>2. ASSUME NEW c \in Clients, NEW m \in Messages, Send(c, m)
        PROVE  Wiring'
    <2>1. Carried'
      BY <1>2 DEF Carried, Send, Becomes, OnLoop, Busy, Message
    <2> QED BY <1>1, <1>2, <2>1 DEF Send
  <1>3. ASSUME NEW c \in Clients, RejectTransport(c) \/ HandOff(c) \/ Receive(c)
        PROVE  Wiring'
    <2>1. Carried'
      BY <1>3 DEF Carried, RejectTransport, HandOff, Receive, Becomes, Answered, Queued, Away,
                  Busy, Message
    <2> QED BY <1>1, <1>3, <2>1 DEF RejectTransport, HandOff, Receive
  <1>4. ASSUME NEW c \in Clients, NEW w \in Workers, StartWork(c, w)
        PROVE  Wiring'
    <2>1. Carried'
      BY <1>4 DEF Carried, StartWork, Becomes, InPool, Busy, Message, Idle
    <2>2. pc[Frame(w)] = "idle" /\ UNCHANGED rvars
          /\ \A v \in Workers \ {w} : work'[v] = work[v]
      BY <1>4 DEF StartWork, Serving, Busy, Carried
    <2> QED BY <2>1, <2>2 DEF Serving, Malformed, rvars, Busy, Message
  <1>5. ASSUME NEW c \in Clients, HangUp(c)
        PROVE  Wiring'
    <2>0. Idle.by # c /\ \A m : [by |-> None, message |-> m] # Idle
      BY NoneAssumption DEF Idle
    <2>1. ASSUME NEW v \in Workers
          PROVE  /\ Busy(v)' <=> Busy(v)
                 /\ Busy(v) => Message(v)' = Message(v)
                 /\ Busy(v) => work'[v].by \in {work[v].by, None}
      <3>1. CASE work[v].by = c
        <4>1. work'[v] = [by |-> None, message |-> work[v].message]
          BY <1>5, <3>1 DEF HangUp
        <4> QED BY <2>0, <3>1, <4>1 DEF Busy, Message
      <3>2. CASE work[v].by # c
        BY <1>5, <3>2 DEF HangUp, Busy, Message
      <3> QED BY <3>1, <3>2
    <2>2. \A d \in Clients : client'[d].at # "away" => client'[d] = client[d]
      BY <1>5 DEF Carried, HangUp, Becomes, Away
    <2>3. client' = [d \in Clients |-> client'[d]] /\ work' = [v \in Workers |-> work'[v]]
      BY <1>5 DEF Carried, HangUp, Becomes
    <2>4. Carried'
      BY <2>1, <2>2, <2>3 DEF Carried
    <2> QED BY <1>5, <2>1, <2>4 DEF HangUp, Serving, Malformed, rvars
  <1>6. ASSUME NEW w \in Workers, Refuse(w) \/ AnswerRead(w)
        PROVE  Wiring'
    <2>1. Busy(w) /\ pc[Frame(w)] = "idle" /\ UNCHANGED rvars
      BY <1>6 DEF Refuse, AnswerRead, Serving, Authorised
    <2> QED BY <1>6, <2>1, ReplyKeepsWiring DEF Refuse, AnswerRead, rvars
  <1>7. ASSUME NEW w \in Workers, StartApply(w)
        PROVE  Wiring'
    <2>1. /\ Busy(w) /\ Authorised(Message(w)) /\ UNCHANGED <<client, work>>
      BY <1>7 DEF StartApply, Authorised, Admitted
    <2>2. Carried'
      BY <2>1 DEF Carried, Busy, Message
    <2>3. \A v \in Workers \ {w} : /\ pc'[Frame(v)] = pc[Frame(v)]
                                   /\ answer'[Frame(v)] = answer[Frame(v)]
                                   /\ req'[Frame(v)] = req[Frame(v)]
      BY <1>0, <1>7, FrameType, FramesDiffer DEF StartApply, R!Invoke, R!RefuseCall
    <2>4. Malformed(Frame(w))' \/ req'[Frame(w)] = RequestOf(Message(w))
      BY <1>0, <1>7, FrameType DEF StartApply, R!Invoke, R!RefuseCall, R!Refused, RequestOf, Malformed
    <2> QED BY <2>1, <2>2, <2>3, <2>4 DEF Serving, Malformed, Busy, Message
  <1>8. ASSUME NEW w \in Workers, Replaying(w)
        PROVE  Wiring'
    <2>1. UNCHANGED <<client, work>>
      BY <1>8 DEF Replaying
    <2>2. /\ req' = req
          /\ \A g \in RP!Frames : /\ pc'[g] = "idle" <=> pc[g] = "idle"
                                  /\ Malformed(g) => Malformed(g)'
      BY <1>8, FrameType, SameActions, ReplayingKeeps DEF Replaying
    <2>3. Carried'
      BY <2>1 DEF Carried, Busy, Message
    <2>4. ASSUME NEW v \in Workers, pc'[Frame(v)] # "idle"
          PROVE  /\ Busy(v)' /\ Authorised(Message(v)')
                 /\ ~Malformed(Frame(v))' => req'[Frame(v)] = RequestOf(Message(v)')
      <3>1. pc[Frame(v)] # "idle" /\ (Malformed(Frame(v)) => Malformed(Frame(v))')
        BY <2>2, <2>4, FrameType
      <3>2. work'[v] = work[v] /\ req' = req
        BY <2>1, <2>2
      <3> QED BY <3>1, <3>2 DEF Serving, Busy, Message
    <2> QED BY <2>3, <2>4 DEF Serving
  <1>9. ASSUME NEW w \in Workers, FinishApply(w)
        PROVE  Wiring'
    <2>1. Busy(w)
      BY <1>9 DEF FinishApply, Serving
    <2>2. /\ pc'[Frame(w)] = "idle"
          /\ \A v \in Workers \ {w} : /\ pc'[Frame(v)] = pc[Frame(v)]
                                      /\ answer'[Frame(v)] = answer[Frame(v)]
                                      /\ req'[Frame(v)] = req[Frame(v)]
      BY <1>0, <1>9, FrameType, FramesDiffer DEF FinishApply, R!Return
    <2> QED BY <1>9, <2>1, <2>2, ReplyKeepsWiring DEF FinishApply
  <1>10. CASE Tick \/ UNCHANGED vars
    BY <1>10 DEF Tick, R!Tick, vars, rvars, Carried, Serving, Malformed, Busy, Message
  <1> HIDE DEF Wiring
  <1> QED BY <1>2, <1>3, <1>4, <1>5, <1>6, <1>7, <1>8, <1>9, <1>10 DEF Next, Loop, Worker

(* The routes implement the coordinator: what they do to its variables is  *)
(* a behaviour of Replay, whatever messages arrive and however they meet.  *)
THEOREM RoutesRunTheCoordinator == Spec => RP!Spec /\ []Wiring
  <1>1. Init => RP!Init /\ RP!TypeOK
    BY SameInit, RP!InitTypeOK, ReplayAssumptions DEF Init
  <1>2. RP!TypeOK /\ [RP!Next]_(RP!vars) => RP!TypeOK'
    BY RP!StepTypeOK, ReplayAssumptions
  <1>3. Wiring => Carried
    BY DEF Wiring
  <1> QED BY <1>1, <1>2, <1>3, InitWiring, StepWiring, StepOfReplay, PTL DEF Spec, RP!Spec

(* What the theorems about every coordinator say of this one.              *)
LEMMA CoordinatorHolds ==
    Spec => /\ []Wiring /\ []RP!TypeOK /\ []RP!Ownership
            /\ []RP!Integrity /\ []RP!AnchorsFollowSamples /\ [][RP!Next]_(RP!vars)
  <1>1. RP!Spec => []RP!TypeOK
    BY RP!TypeCorrect, ReplayAssumptions
  <1>2. RP!Spec => []RP!Ownership
    BY RP!OwnershipHolds, ReplayAssumptions
  <1>3. RP!Init => RP!Integrity
    BY RP!InitIntegrity, ReplayAssumptions
  <1>4. RP!TypeOK /\ RP!Ownership /\ RP!Integrity /\ [RP!Next]_(RP!vars) => RP!Integrity'
    BY RP!StepIntegrity, ReplayAssumptions
  <1>5. RP!Init => RP!AnchorsFollowSamples
    BY DEF RP!Init, RP!AnchorsFollowSamples, RP!Dated, RP!NoEntry
  <1>6. RP!TypeOK /\ RP!Ownership /\ RP!AnchorsFollowSamples /\ [RP!Next]_(RP!vars) =>
           RP!AnchorsFollowSamples'
    BY RP!StepDates, ReplayAssumptions
  <1> QED BY <1>1, <1>2, <1>3, <1>4, <1>5, <1>6, RoutesRunTheCoordinator, PTL DEF RP!Spec

-----------------------------------------------------------------------------
(* Type correctness.                                                       *)

ToldType == told \subseteq [key : Keys, bytes : RP!Bytes]

LEMMA StepToldType ==
    RP!TypeOK /\ Wiring /\ ToldType /\ [Next]_vars => ToldType'
  <1> SUFFICES ASSUME RP!TypeOK, Wiring, ToldType, [Next]_vars
               PROVE  ToldType'
    OBVIOUS
  <1>1. ASSUME NEW w \in Workers, FinishApply(w)
        PROVE  ToldType'
    <2>1. answer[Frame(w)] \in RP!Answers
      BY FrameType DEF RP!TypeOK
    <2>2. answer[Frame(w)].kind = "result" => answer[Frame(w)].bytes \in RP!Bytes
      BY <2>1 DEF RP!Answers, RP!NoAnswer, RP!Refusals
    <2>3. Message(w).key \in Keys
      BY <1>1, MessagesAssumption DEF FinishApply, Wiring, Serving, Carried, MessageType
    <2> QED BY <1>1, <2>2, <2>3 DEF FinishApply, ToldType
  <1>2. CASE UNCHANGED told
    BY <1>2 DEF ToldType
  <1> QED BY <1>1, <1>2
          DEF Next, Loop, Worker, Send, RejectTransport, HandOff, StartWork, HangUp, Receive,
              Refuse, AnswerRead, StartApply, Replaying, Tick, vars

(* Every message a connection or a worker holds is one a client may send,  *)
(* and the replay table has the type of Replay.                            *)
THEOREM RoutesTypeCorrect == Spec => []TypeOK
  <1>1. RP!TypeOK /\ Wiring /\ ToldType => TypeOK
    <2> SUFFICES ASSUME RP!TypeOK, Wiring, ToldType
                 PROVE  TypeOK
      OBVIOUS
    <2>1. R!TypeOK /\ told \subseteq [key : Keys, bytes : R!Bytes]
      BY SameTypes, SameData DEF ToldType
    <2>2. \A c \in Clients : client[c].at # "away" => client[c].message \in MessageType
      BY MessagesAssumption DEF Wiring, Carried
    <2>3. \A w \in Workers : work[w] # Idle =>
             work[w].by \in Clients \cup {None} /\ work[w].message \in MessageType
      BY MessagesAssumption DEF Wiring, Carried, Busy, Message
    <2> QED BY <2>1, <2>2, <2>3 DEF TypeOK
  <1>2. Init => ToldType
    BY DEF Init, ToldType
  <1> QED BY <1>1, <1>2, StepToldType, CoordinatorHolds, PTL DEF Spec

-----------------------------------------------------------------------------
(* Authority.                                                              *)

Disclosing == {200, 404, 409, 500, 503}

LEMMA ReplyKeepsAuthority ==
    ASSUME Wiring, DisclosureNeedsAuthority, NEW w \in Workers, NEW status, Reply(w, status),
           status \in Disclosing => Message(w).credential /\ Message(w).target
    PROVE  DisclosureNeedsAuthority'
  <1> SUFFICES ASSUME NEW c \in Clients, client'[c].at = "answered",
                      client'[c].status \in Disclosing
               PROVE  client'[c].message.credential /\ client'[c].message.target
    BY DEF DisclosureNeedsAuthority, Disclosing
  <1>1. CASE work[w].by = c
    <2>1. client'[c] = Answered(Message(w), status)
      BY <1>1 DEF Reply
    <2> QED BY <2>1 DEF Answered
  <1>2. CASE work[w].by # c
    BY <1>2 DEF Reply, DisclosureNeedsAuthority, Disclosing
  <1> QED BY <1>1, <1>2

LEMMA RefusalsDiscloseToTheAdmitted ==
    ASSUME NEW m \in MessageType, ~Admitted(m), RefusalStatus(m) \in Disclosing
    PROVE  m.credential /\ m.target
  <1>0. m.credential \in BOOLEAN /\ m.target \in BOOLEAN /\ m.known \in BOOLEAN
    BY DEF MessageType
  <1>1. CASE ~m.credential
    <2>1. RefusalStatus(m) = 401
      BY <1>1 DEF RefusalStatus
    <2> QED BY <2>1 DEF Disclosing
  <1>2. CASE m.credential /\ ~m.target
    <2>1. RefusalStatus(m) = 403
      BY <1>2 DEF RefusalStatus
    <2> QED BY <2>1 DEF Disclosing
  <1> QED BY <1>1, <1>2

LEMMA StepDisclosure ==
    Wiring /\ DisclosureNeedsAuthority /\ [Next]_vars => DisclosureNeedsAuthority'
  <1> SUFFICES ASSUME Wiring, DisclosureNeedsAuthority, [Next]_vars
               PROVE  DisclosureNeedsAuthority'
    OBVIOUS
  <1>1. ASSUME NEW c \in Clients, NEW how, Becomes(c, how),
               how.at = "answered" => how.status \notin Disclosing
        PROVE  DisclosureNeedsAuthority'
    BY <1>1 DEF Becomes, Wiring, Carried, DisclosureNeedsAuthority, Disclosing
  <1>2. ASSUME NEW c \in Clients, NEW m \in Messages, Send(c, m)
        PROVE  DisclosureNeedsAuthority'
    BY <1>1, <1>2 DEF Send, OnLoop
  <1>3. ASSUME NEW c \in Clients, RejectTransport(c)
        PROVE  DisclosureNeedsAuthority'
    <2> DEFINE m == client[c].message
    <2>1. m \in MessageType /\ m.transport # "fit"
      BY <1>3, MessagesAssumption DEF RejectTransport, Wiring, Carried
    <2>2. m.transport \in {"invalid", "too_large", "no_bearer"}
      BY <2>1 DEF MessageType
    <2>3. TransportStatus(m) \in {400, 413, 401}
      BY <2>2 DEF TransportStatus
    <2>4. Becomes(c, Answered(m, TransportStatus(m)))
      BY <1>3 DEF RejectTransport
    <2>5. Answered(m, TransportStatus(m)).status \notin Disclosing
      BY <2>3 DEF Answered, Disclosing
    <2> QED BY <1>1, <2>4, <2>5
  <1>4. ASSUME NEW c \in Clients, HandOff(c) \/ HangUp(c) \/ Receive(c)
        PROVE  DisclosureNeedsAuthority'
    BY <1>1, <1>4 DEF HandOff, HangUp, Receive, Queued, Away
  <1>5. ASSUME NEW c \in Clients, NEW w \in Workers, StartWork(c, w)
        PROVE  DisclosureNeedsAuthority'
    BY <1>1, <1>5 DEF StartWork, InPool
  <1>6. ASSUME NEW w \in Workers, Refuse(w)
        PROVE  DisclosureNeedsAuthority'
    <2>1. Message(w) \in MessageType
      BY <1>6, MessagesAssumption DEF Refuse, Wiring, Carried
    <2> QED BY <1>6, <2>1, RefusalsDiscloseToTheAdmitted, ReplyKeepsAuthority DEF Refuse
  <1>7. ASSUME NEW w \in Workers, AnswerRead(w)
        PROVE  DisclosureNeedsAuthority'
    BY <1>7, ReplyKeepsAuthority DEF AnswerRead, Admitted
  <1>8. ASSUME NEW w \in Workers, FinishApply(w)
        PROVE  DisclosureNeedsAuthority'
    BY <1>8, ReplyKeepsAuthority DEF FinishApply, Wiring, Serving, Authorised
  <1>9. CASE UNCHANGED client
    BY <1>9 DEF DisclosureNeedsAuthority
  <1> QED BY <1>2, <1>3, <1>4, <1>5, <1>6, <1>7, <1>8, <1>9
          DEF Next, Loop, Worker, StartApply, Replaying, Tick, vars

(* Only an admitted message for this exact target is ever told anything    *)
(* that depends on the registry, the replay table or a variable.           *)
THEOREM NothingIsDisclosedUnasked == Spec => []DisclosureNeedsAuthority
  <1>1. Init => DisclosureNeedsAuthority
    BY DEF Init, DisclosureNeedsAuthority, Away
  <1> QED BY <1>1, StepDisclosure, CoordinatorHolds, PTL DEF Spec

EntriesAuthorised ==
    \A k \in Keys : entries[k].kind # "none" =>
        \E m \in Messages : Authorised(m) /\ m.key = k /\ m.digest = entries[k].digest

LEMMA StepEntriesAuthorised ==
    RP!TypeOK /\ RP!Ownership /\ Wiring /\ EntriesAuthorised /\ [RP!Next]_(RP!vars)
    => EntriesAuthorised'
  <1> SUFFICES ASSUME RP!TypeOK, RP!Ownership, Wiring, EntriesAuthorised, [RP!Next]_(RP!vars)
               PROVE  EntriesAuthorised'
    OBVIOUS
  <1>1. ASSUME NEW w \in Workers, NEW k \in Keys, entries'[k].kind # "none",
               RP!Enter(Frame(w)) \/ RP!Wake(Frame(w)) \/ RP!Publish(Frame(w))
        PROVE  \E m \in Messages : Authorised(m) /\ m.key = k /\ m.digest = entries'[k].digest
    <2>1. CASE entries[k].kind # "none" /\ entries'[k].digest = entries[k].digest
      BY <2>1 DEF EntriesAuthorised
    <2>2. CASE /\ k = req[Frame(w)].key /\ entries'[k].digest = req[Frame(w)].digest
               /\ pc[Frame(w)] \in {"enter", "woken"}
      <3>1. /\ Message(w) \in Messages /\ Authorised(Message(w))
            /\ req[Frame(w)] = RequestOf(Message(w))
        BY <2>2 DEF Wiring, Serving, Carried, Malformed
      <3>2. Message(w).key = k /\ Message(w).digest = entries'[k].digest
        BY <2>2, <3>1 DEF RequestOf
      <3> QED BY <3>1, <3>2
    <2> QED BY <1>1, <2>1, <2>2, FrameType, RP!WhereEntriesComeFrom, ReplayAssumptions
  <1>2. CASE entries' = entries
    BY <1>2 DEF EntriesAuthorised
  <1>3. \/ \E w \in Workers : RP!Enter(Frame(w)) \/ RP!Wake(Frame(w)) \/ RP!Publish(Frame(w))
        \/ entries' = entries
    BY FramesAreWorkers, RP!CriticalSectionsWrite, ReplayAssumptions
  <1> QED BY <1>1, <1>2, <1>3 DEF EntriesAuthorised

(* Behind every call in the coordinator, and behind every entry of the     *)
(* replay table, stands an APPLY that was admitted for this target and     *)
(* this variable, for the very intent executed or filed.                   *)
THEOREM NoEffectWithoutAuthority == Spec => []EffectsNeedAuthority
  <1>1. Wiring /\ EntriesAuthorised => EffectsNeedAuthority
    BY DEF Wiring, Serving, EntriesAuthorised, EffectsNeedAuthority
  <1>2. Init => EntriesAuthorised
    BY SameInit DEF Init, EntriesAuthorised, RP!Init, RP!NoEntry
  <1> QED BY <1>1, <1>2, StepEntriesAuthorised, CoordinatorHolds, PTL DEF Spec

-----------------------------------------------------------------------------
(* The pool.                                                               *)

(* However small the pool, its threads are never all asleep: the owner     *)
(* the others wait for has a thread of the same pool.                      *)
THEOREM ThePoolIsNeverAsleep == Spec => []PoolKeepsAnOwner
  <1>1. RP!TypeOK /\ RP!Ownership => PoolKeepsAnOwner
    <2> SUFFICES ASSUME RP!TypeOK, RP!Ownership, NEW w \in Workers, pc[Frame(w)] = "waiting"
                 PROVE  \E v \in Workers : pc[Frame(v)] # "waiting"
      BY DEF PoolKeepsAnOwner
    <2>1. req[Frame(w)].key \in Keys /\ entries[req[Frame(w)].key].kind = "inflight"
      BY FrameType DEF RP!Ownership, RP!WaitersHaveALiveOwner, RP!TypeOK, RP!Requests
    <2>2. PICK g \in RP!Frames : RP!Owns(g)
      BY <2>1 DEF RP!Ownership, RP!NoOrphan
    <2> QED BY <2>2, FramesAreWorkers DEF RP!Owns
  <1> QED BY <1>1, CoordinatorHolds, PTL

-----------------------------------------------------------------------------
(* Retries.  What was told, and what a worker is about to tell, is what    *)
(* the table still holds, until a caller that observed a full window       *)
(* prunes it (Expires).                                                    *)

TellsWhatIsFiled ==
    /\ \A f \in RP!Frames : answer[f].kind = "result" => RP!Filed(entries, req[f].key, answer[f].bytes)
    /\ \A a \in told : RP!Filed(entries, a.key, a.bytes)

NothingExpires == \A k \in Keys : entries[k].kind = "terminal" => ~R!Expires(k)

LEMMA FiledStays ==
    ASSUME RP!TypeOK, RP!Ownership, RP!AnchorsFollowSamples, [RP!Next]_(RP!vars), NothingExpires,
           NEW k \in Keys, NEW bytes, RP!Filed(entries, k, bytes)
    PROVE  RP!Filed(entries', k, bytes)
  <1>1. RP!Keeps(k) \/ RP!Expires(k)
    BY RP!StepKeepsTerminals, ReplayAssumptions DEF RP!Filed
  <1>2. ~RP!Expires(k)
    BY SameData DEF NothingExpires, RP!Filed, R!Expires, RP!Expires
  <1> QED BY <1>1, <1>2 DEF RP!Filed, RP!Keeps

LEMMA StepTellsWhatIsFiled ==
    /\ RP!TypeOK /\ RP!Ownership /\ RP!Integrity /\ RP!AnchorsFollowSamples
    /\ Wiring /\ ToldType /\ [RP!Next]_(RP!vars) /\ TellsWhatIsFiled /\ [Next]_vars
    /\ NothingExpires
    => TellsWhatIsFiled'
  <1> SUFFICES ASSUME RP!TypeOK, RP!Ownership, RP!Integrity, RP!AnchorsFollowSamples,
                      Wiring, ToldType, [RP!Next]_(RP!vars), TellsWhatIsFiled, [Next]_vars,
                      NothingExpires
               PROVE  TellsWhatIsFiled'
    OBVIOUS
  <1>0. /\ answer \in [RP!Frames -> RP!Answers] /\ req \in [RP!Frames -> RP!Requests]
        /\ \A f \in RP!Frames : req[f].key \in Keys
    BY DEF RP!TypeOK, RP!Requests
  <1>1. ASSUME NEW f \in RP!Frames, answer[f].kind = "result",
               req'[f] = req[f], answer'[f] = answer[f]
        PROVE  RP!Filed(entries', req'[f].key, answer'[f].bytes)
    <2>1. RP!Filed(entries, req[f].key, answer[f].bytes)
      BY <1>1 DEF TellsWhatIsFiled
    <2> QED BY <1>0, <1>1, <2>1, FiledStays
  <1>2. \A a \in told : RP!Filed(entries', a.key, a.bytes)
    BY FiledStays DEF TellsWhatIsFiled, ToldType
  <1>3. \A f \in RP!Frames : answer'[f].kind = "result" => RP!Filed(entries', req'[f].key, answer'[f].bytes)
    BY <1>1, RP!ResultsAreFiled, ReplayAssumptions
  <1>4. \A a \in told' : RP!Filed(entries', a.key, a.bytes)
    <2>1. ASSUME NEW w \in Workers, FinishApply(w), answer[Frame(w)].kind = "result"
          PROVE  RP!Filed(entries', Message(w).key, answer[Frame(w)].bytes)
      <3>1. pc[Frame(w)] # "idle" /\ ~Malformed(Frame(w))
        BY <2>1 DEF FinishApply, Malformed
      <3>2. req[Frame(w)].key = Message(w).key
        <4>1. req[Frame(w)] = RequestOf(Message(w))
          BY <3>1 DEF Wiring, Serving
        <4> QED BY <4>1 DEF RequestOf
      <3>3. RP!Filed(entries, Message(w).key, answer[Frame(w)].bytes)
        BY <2>1, <3>2, FrameType DEF TellsWhatIsFiled
      <3>4. Message(w).key \in Keys
        BY <1>0, <3>2, FrameType
      <3>5. entries' = entries
        BY <2>1 DEF FinishApply, R!Return
      <3> QED BY <3>3, <3>5 DEF RP!Filed
    <2>2. CASE \E w \in Workers : FinishApply(w)
      BY <1>2, <2>1, <2>2 DEF FinishApply
    <2>3. CASE UNCHANGED told
      BY <1>2, <2>3
    <2> QED BY <2>2, <2>3
            DEF Next, Loop, Worker, Send, RejectTransport, HandOff, StartWork, HangUp, Receive,
                Refuse, AnswerRead, StartApply, Replaying, Tick, vars
  <1> QED BY <1>3, <1>4 DEF TellsWhatIsFiled

LEMMA FiledBytesAgree == TellsWhatIsFiled /\ ToldType => RetriesAgree
  <1> SUFFICES ASSUME TellsWhatIsFiled, ToldType, NEW a \in told, NEW b \in told, a.key = b.key
               PROVE  a = b
    BY DEF RetriesAgree
  <1>1. a.bytes = b.bytes
    BY DEF TellsWhatIsFiled, RP!Filed
  <1> QED BY <1>1 DEF ToldType

LEMMA InitTellsWhatIsFiled == Init => TellsWhatIsFiled /\ ToldType
  BY SameInit DEF Init, RP!Init, RP!NoAnswer, TellsWhatIsFiled, ToldType

(* As long as no entry is pruned after its window, every 200 for one key   *)
(* and intent carries the same result.                                     *)
THEOREM RetriesAgreeWithinTheWindow == Spec /\ [][NothingExpires]_vars => []RetriesAgree
  <1>1. /\ RP!TypeOK /\ RP!Ownership /\ RP!Integrity /\ RP!AnchorsFollowSamples
        /\ Wiring /\ ToldType /\ [RP!Next]_(RP!vars) /\ TellsWhatIsFiled /\ [Next]_vars
        /\ [NothingExpires]_vars
        => TellsWhatIsFiled'
    <2>1. UNCHANGED vars /\ TellsWhatIsFiled => TellsWhatIsFiled'
      BY DEF vars, rvars, TellsWhatIsFiled, RP!Filed
    <2> QED BY <2>1, StepTellsWhatIsFiled
  <1> QED BY <1>1, FiledBytesAgree, InitTellsWhatIsFiled, StepToldType, CoordinatorHolds, PTL
          DEF Spec

(* In particular while the clock has not run for one window, which is how  *)
(* the run bounds it.                                                      *)
THEOREM RetriesAgreeOnAShortClock ==
    ASSUME MaxClock < Retention
    PROVE  Spec => []RetriesAgree
  <1>1. RP!TypeOK => NothingExpires
    <2> SUFFICES ASSUME RP!TypeOK, NEW k \in Keys, R!Expires(k)
                 PROVE  FALSE
      BY DEF NothingExpires
    <2>1. PICK f \in RP!Frames : initial[f] >= born[k].sampled + Retention
      BY SameData DEF R!Expires
    <2>2. /\ born[k].sampled # -1
          /\ initial[f] \in 0..MaxClock \cup {-1} /\ born[k].sampled \in 0..MaxClock \cup {-1}
      BY DEF RP!TypeOK, RP!Times, RP!NoTime, R!Expires, R!NoTime
    <2> QED BY <2>1, <2>2, ClockAssumption
  <1>2. Spec => []RP!TypeOK
    BY CoordinatorHolds
  <1>3. RP!TypeOK => [NothingExpires]_vars
    BY <1>1
  <1> QED BY <1>2, <1>3, RetriesAgreeWithinTheWindow, PTL
=============================================================================
