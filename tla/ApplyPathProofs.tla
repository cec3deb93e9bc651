--------------------------- MODULE ApplyPathProofs ---------------------------
(***************************************************************************)
(* Proofs about ApplyPath, for any threads, keys, intents and strangers.   *)
(* What ReplayProofs shows of a coordinator and AtomicVariableProofs of a  *)
(* variable holds of the two this path joins.                              *)
(***************************************************************************)
EXTENDS ApplyPath, TLAPS

RP == INSTANCE ReplayProofs WITH
         Values <- Outcomes, Failed <- Closed, Unusable <- [what |-> "unusable"]

VP == INSTANCE AtomicVariableProofs WITH Callers <- Frames \cup Strangers

-----------------------------------------------------------------------------
(* The coordinator and the variable of the path have the actions the       *)
(* theorems are about.                                                     *)

LEMMA ReplayAssumptions ==
    /\ RP!IsFiniteSet(Threads)
    /\ MaxDepth \in Nat \ {0}
    /\ RP!IsFiniteSet(Keys) /\ Keys # {} /\ Digests # {}
    /\ Closed \in Outcomes
    /\ [what |-> "unusable"] \notin [intent : Digests, value : Outcomes]
    /\ Capacity \in 1..RP!MaxCapacity
    /\ Retention \in Nat \ {0} /\ MaxClock \in Nat
    /\ Faults \subseteq {"clock", "backward", "control"}
  <1>1. \A S : RP!IsFiniteSet(S) <=> IsFiniteSet(S)
    BY DEF RP!IsFiniteSet, IsFiniteSet
  <1>2. Closed \in Outcomes
    BY VersionAssumption DEF Closed, Outcomes
  <1>3. [what |-> "unusable"] \notin [intent : Digests, value : Outcomes]
    OBVIOUS
  <1> QED BY <1>1, <1>2, <1>3, ThreadsAssumption, KeysAssumption, CapacityAssumption,
             ClockAssumption, FaultsAssumption DEF MaxDepth, RP!MaxCapacity, R!MaxCapacity

LEMMA VariableAssumptions ==
    /\ States # {} /\ Hostile \subseteq States
    /\ MaxVersion \in Nat
    /\ "none" \notin Ids
  BY StatesAssumption, VersionAssumption, IdsAssumption

LEMMA SameData ==
    /\ R!NoTime = RP!NoTime /\ R!NoEntry = RP!NoEntry /\ R!NotBorn = RP!NotBorn
    /\ R!Requests = RP!Requests /\ R!AnyRequest = RP!AnyRequest
    /\ R!NoDraft = RP!NoDraft /\ R!NoAnswer = RP!NoAnswer
    /\ R!Bytes = RP!Bytes /\ R!Frames = RP!Frames
  BY DEF R!NoTime, RP!NoTime, R!NoEntry, RP!NoEntry, R!NotBorn, RP!NotBorn,
         R!Requests, RP!Requests, R!AnyRequest, RP!AnyRequest, R!NoDraft, RP!NoDraft,
         R!Fallback, RP!Fallback, R!NoAnswer, RP!NoAnswer, R!Bytes, RP!Bytes, R!Frames, RP!Frames

LEMMA SameOperators ==
    ASSUME NEW f, NEW a, NEW b
    PROVE  /\ R!Refused(a) = RP!Refused(a) /\ R!Result(a) = RP!Result(a)
           /\ R!Decoded(a, b) = RP!Decoded(a, b) /\ R!Normalized(a, b) = RP!Normalized(a, b)
           /\ R!Fallback(a) = RP!Fallback(a) /\ R!InFlight(a, b) = RP!InFlight(a, b)
           /\ R!ThreadOf(f) = RP!ThreadOf(f) /\ R!OnTop(f) = RP!OnTop(f)
           /\ R!CanCall(f) = RP!CanCall(f)
           /\ R!HoldsReservation(f) = RP!HoldsReservation(f)
           /\ R!Cardinality(R!Occupied(a)) = RP!Cardinality(RP!Occupied(a))
  BY DEF R!Refused, RP!Refused, R!Result, RP!Result, R!Decoded, RP!Decoded,
         R!Normalized, RP!Normalized, R!Bytes, RP!Bytes, R!Fallback, RP!Fallback,
         R!InFlight, RP!InFlight, R!ThreadOf, RP!ThreadOf, R!OnTop, RP!OnTop,
         R!CanCall, RP!CanCall, R!Inner, RP!Inner, R!Outer, RP!Outer,
         R!HoldsReservation, RP!HoldsReservation, R!Cardinality, RP!Cardinality,
         R!Occupied, RP!Occupied

LEMMA SameLookup ==
    ASSUME NEW f, NEW table
    PROVE  R!Lookup(f, table) <=> RP!Lookup(f, table)
  <1> USE SameData, SameOperators
      DEF R!Table, RP!Table, R!Finish, RP!Finish
  <1>1. R!RefuseCapacity(f, table) <=> RP!RefuseCapacity(f, table)
    BY DEF R!RefuseCapacity, RP!RefuseCapacity
  <1>2. R!Reserve(f, table) <=> RP!Reserve(f, table)
    BY DEF R!Reserve, RP!Reserve
  <1>3. R!RefuseConflict(f, table) <=> RP!RefuseConflict(f, table)
    BY DEF R!RefuseConflict, RP!RefuseConflict
  <1>4. R!ReplayTerminal(f, table) <=> RP!ReplayTerminal(f, table)
    BY DEF R!ReplayTerminal, RP!ReplayTerminal
  <1>5. R!RefuseReentry(f, table) <=> RP!RefuseReentry(f, table)
    BY DEF R!RefuseReentry, RP!RefuseReentry
  <1>6. R!Wait(f, table) <=> RP!Wait(f, table)
    BY DEF R!Wait, RP!Wait
  <1> HIDE SameData, SameOperators
           DEF R!Table, RP!Table, R!Finish, RP!Finish
  <1> QED BY <1>1, <1>2, <1>3, <1>4, <1>5, <1>6 DEF R!Lookup, RP!Lookup

LEMMA SameActions ==
    ASSUME NEW f
    PROVE  /\ R!Call(f) <=> RP!Call(f)
           /\ R!Enter(f) <=> RP!Enter(f)
           /\ R!Wake(f) <=> RP!Wake(f)
           /\ R!Finishes(f) <=> RP!Finishes(f)
           /\ R!Completes(f) <=> RP!Completes(f)
           /\ R!Publish(f) <=> RP!Publish(f)
           /\ R!Return(f) <=> RP!Return(f)
  <1>1. R!Call(f) <=> RP!Call(f)
    BY SameData, SameOperators DEF R!Call, RP!Call, R!Invoke, RP!Invoke, R!RefuseCall, RP!RefuseCall
  <1>2. (R!Enter(f) <=> RP!Enter(f)) /\ (R!Wake(f) <=> RP!Wake(f))
    BY SameLookup DEF R!Enter, RP!Enter, R!Wake, RP!Wake, R!Pruned, RP!Pruned,
                      R!PrunedEntry, RP!PrunedEntry, R!Terminal, RP!Terminal,
                      R!NoTime, RP!NoTime, R!NoEntry, RP!NoEntry
  <1>3. R!Finishes(f) <=> RP!Finishes(f)
    BY SameData, SameOperators DEF R!Finishes, RP!Finishes, R!Dispatch, RP!Dispatch,
          R!DispatchControl, RP!DispatchControl, R!Drafted, RP!Drafted
  <1>4. R!Completes(f) <=> RP!Completes(f)
    BY SameData, SameOperators DEF R!Completes, RP!Completes, R!CompleteInTime, RP!CompleteInTime,
          R!CompleteUncertain, RP!CompleteUncertain, R!CompleteControl, RP!CompleteControl,
          R!Drafted, RP!Drafted
  <1>5. R!Publish(f) <=> RP!Publish(f)
    BY SameData, SameOperators DEF R!Publish, RP!Publish, R!Settle, RP!Settle,
          R!LoseReservation, RP!LoseReservation, R!Finish, RP!Finish, R!Terminal, RP!Terminal
  <1>6. R!Return(f) <=> RP!Return(f)
    BY SameData DEF R!Return, RP!Return
  <1> QED BY <1>1, <1>2, <1>3, <1>4, <1>5, <1>6

LEMMA SameInit == R!Init <=> RP!Init
  BY SameData DEF R!Init, RP!Init

LEMMA SameTick == R!Tick <=> RP!Tick
  BY DEF R!Tick, RP!Tick, R!Times, RP!Times

LEMMA SameVariable ==
    /\ V!Init <=> VP!Init
    /\ V!Commands = VP!Commands
    /\ \A c : /\ V!Steps(c) <=> VP!Steps(c)
              /\ V!Return(c) <=> VP!Return(c)
              /\ \A cmd : V!Apply(c, cmd) <=> VP!Apply(c, cmd)
  <1>0. V!NoCommand = VP!NoCommand /\ V!NoSnapshot = VP!NoSnapshot /\ V!NoResult = VP!NoResult
    BY DEF V!NoCommand, VP!NoCommand, V!Commands, VP!Commands, V!Versions, VP!Versions,
           V!NoSnapshot, VP!NoSnapshot, V!NoResult, VP!NoResult, V!Outcome, VP!Outcome
  <1>1. V!Init <=> VP!Init
    BY <1>0 DEF V!Init, VP!Init, V!Snapshots, VP!Snapshots, V!Versions, VP!Versions
  <1>2. V!Commands = VP!Commands
    BY DEF V!Commands, VP!Commands, V!Versions, VP!Versions
  <1>3. ASSUME NEW c
        PROVE  V!Steps(c) <=> VP!Steps(c)
    <2>1. V!Capture(c) <=> VP!Capture(c)
      BY DEF V!Capture, VP!Capture, V!Answer, VP!Answer, V!Outcome, VP!Outcome
    <2>2. V!CompareRaises(c) <=> VP!CompareRaises(c)
      BY DEF V!CompareRaises, VP!CompareRaises, V!Answer, VP!Answer, V!Outcome, VP!Outcome
    <2>3. V!PrepareNothing(c) <=> VP!PrepareNothing(c)
      BY DEF V!PrepareNothing, VP!PrepareNothing, V!Outcome, VP!Outcome
    <2>4. V!PrepareNext(c) <=> VP!PrepareNext(c)
      BY DEF V!PrepareNext, VP!PrepareNext, V!Outcome, VP!Outcome, V!Referenced, VP!Referenced
    <2>5. V!Commit(c) <=> VP!Commit(c)
      BY <1>0 DEF V!Commit, VP!Commit, V!Overtaken, VP!Overtaken, V!Answer, VP!Answer,
             V!Outcome, VP!Outcome
    <2> QED BY <2>1, <2>2, <2>3, <2>4, <2>5 DEF V!Steps, VP!Steps, V!Compares, VP!Compares
  <1>4. ASSUME NEW c
        PROVE  V!Return(c) <=> VP!Return(c)
    BY <1>0 DEF V!Return, VP!Return
  <1>5. ASSUME NEW c, NEW cmd
        PROVE  V!Apply(c, cmd) <=> VP!Apply(c, cmd)
    BY DEF V!Apply, VP!Apply
  <1> QED BY <1>1, <1>2, <1>3, <1>4, <1>5
-----------------------------------------------------------------------------
(* How the two are joined: a frame is inside the variable only while it    *)
(* dispatches, with the command its digest stands for, and comes out with  *)
(* an outcome the coordinator can file.                                    *)

Link ==
    \A f \in Frames :
        /\ at[f] # "idle" => pc[f] = "dispatch" /\ command[f] = CommandOf[req[f].digest]
        /\ at[f] = "returned" => result[f] \in Outcomes

Calls == Frames \cup Strangers

LEMMA SameFrames == Frames = RP!Frames
  BY DEF Frames, RP!Frames

LEMMA CommandOfFrame == RP!TypeOK => \A f \in Frames : CommandOf[req[f].digest] \in VP!Commands
  BY SameFrames, SameVariable, CommandsAssumption DEF RP!TypeOK, RP!Requests

(* A step of one frame in the coordinator, dispatch aside, is none of the  *)
(* other frames' but to wake them, and finds the frame outside dispatch.   *)
LEMMA ReplayingLeavesOthers ==
    ASSUME RP!TypeOK, NEW f \in Frames,
           \/ RP!Call(f) \/ RP!Enter(f) \/ RP!Wake(f)
           \/ RP!Completes(f) \/ RP!Publish(f) \/ RP!Return(f)
    PROVE  /\ pc[f] # "dispatch"
           /\ \A g \in Frames \ {f} :
                 /\ pc'[g] = pc[g] \/ (pc[g] = "waiting" /\ pc'[g] = "woken")
                 /\ req'[g] = req[g] /\ draft'[g] = draft[g] /\ answer'[g] = answer[g]
  <1>1. pc[f] # "dispatch"
    BY DEF RP!Call, RP!Invoke, RP!RefuseCall, RP!CanCall, RP!Enter, RP!Wake, RP!Completes,
           RP!CompleteInTime, RP!CompleteUncertain, RP!CompleteControl, RP!Publish, RP!Return
  <1> QED BY <1>1, RP!OthersStay, SameFrames, ReplayAssumptions

LEMMA CallingLeavesOthers ==
    ASSUME VP!TypeOK, NEW c \in Calls,
           VP!Steps(c) \/ VP!Return(c) \/ (\E cmd : VP!Apply(c, cmd))
    PROVE  /\ \A d \in Calls \ {c} : /\ at'[d] = at[d] /\ result'[d] = result[d]
                                     /\ command'[d] = command[d]
           /\ VP!Steps(c) => command' = command /\ at[c] \notin {"idle", "returned"}
           /\ ~VP!Steps(c) => cell' = cell
  BY DEF Calls, VP!TypeOK, VP!Steps, VP!Compares, VP!Capture, VP!CompareRaises, VP!PrepareNothing,
         VP!PrepareNext, VP!Commit, VP!Answer, VP!Return, VP!Apply

LEMMA AnswersAreOutcomes ==
    ASSUME VP!IInv, NEW c \in Calls, VP!Steps(c), at'[c] = "returned"
    PROVE  result'[c] \in Outcomes
  <1>0. MaxVersion \in Nat /\ VP!TypeOK /\ VP!CallOK(c)
    BY VersionAssumption DEF VP!IInv, Calls
  <1>1. \A what \in {"precondition", "failed"} : VP!Outcome(what, 0) \in Outcomes
    BY <1>0 DEF VP!Outcome, Outcomes
  <1>2. CASE VP!Commit(c)
    <2>1. VP!Captured(c) /\ VP!Prepared(c) /\ VP!Decided(c)
      BY <1>0, <1>2 DEF VP!Commit, VP!CallOK
    <2>2. result[c] \in Outcomes
      BY <1>0, <2>1 DEF VP!Captured, VP!Prepared, VP!Decided, VP!Snapshots, VP!Versions,
            VP!Outcome, Outcomes
    <2> QED BY <1>0, <1>1, <1>2, <2>2 DEF VP!Commit, VP!Answer, VP!TypeOK, Calls
  <1>3. CASE VP!Capture(c) \/ VP!CompareRaises(c)
    BY <1>0, <1>1, <1>3 DEF VP!Capture, VP!CompareRaises, VP!Answer, VP!TypeOK, Calls
  <1>4. CASE VP!PrepareNothing(c) \/ VP!PrepareNext(c)
    BY <1>0, <1>4 DEF VP!PrepareNothing, VP!PrepareNext, VP!TypeOK, Calls
  <1> QED BY <1>2, <1>3, <1>4 DEF VP!Steps, VP!Compares

(* Each part takes its own steps only.                                     *)
LEMMA StepOfParts ==
    RP!TypeOK /\ VP!IInv /\ Link /\ [Next]_vars => [RP!Next]_(RP!vars) /\ [VP!Next]_(VP!vvars)
  <1> SUFFICES ASSUME RP!TypeOK, VP!IInv, Link, Next
               PROVE  [RP!Next]_(RP!vars) /\ [VP!Next]_(VP!vvars)
    BY DEF vars, rvars, vvars, RP!vars, VP!vvars
  <1>1. ASSUME NEW f \in Frames, StartApply(f)
        PROVE  VP!Next /\ UNCHANGED RP!vars
    <2>1. VP!Apply(f, CommandOf[req[f].digest]) /\ CommandOf[req[f].digest] \in VP!Commands
      BY <1>1, SameVariable, CommandOfFrame DEF StartApply
    <2> QED BY <1>1, <2>1 DEF VP!Next, StartApply, rvars, RP!vars
  <1>2. ASSUME NEW f \in Frames, Applying(f)
        PROVE  VP!Next /\ UNCHANGED RP!vars
    BY <1>2, SameVariable DEF Applying, VP!Next, rvars, RP!vars
  <1>3. ASSUME NEW f \in Frames, FinishApply(f)
        PROVE  VP!Next /\ RP!Next
    <2>1. req[f].digest \in Digests
      BY SameFrames DEF RP!TypeOK, RP!Requests
    <2>2. [intent |-> req[f].digest, value |-> result[f]] \in R!Bytes
      BY <1>3, <2>1 DEF FinishApply, Link, R!Bytes
    <2>3. R!Finishes(f)
      BY <1>3, <2>2 DEF FinishApply, R!Finishes
    <2> QED BY <1>3, <2>3, SameFrames, SameActions, SameVariable DEF FinishApply, RP!Next, VP!Next
  <1>4. ASSUME NEW f \in Frames, Replaying(f)
        PROVE  RP!Next /\ UNCHANGED VP!vvars
    BY <1>4, SameFrames, SameActions DEF Replaying, RP!Next, vvars, VP!vvars
  <1>5. ASSUME NEW s \in Strangers, StrangerApplies(s)
        PROVE  VP!Next /\ UNCHANGED RP!vars
    <2>1. \/ \E d \in Digests : V!Apply(s, CommandOf[d])
          \/ V!Steps(s) \/ V!Return(s)
      BY <1>5 DEF StrangerApplies
    <2>2. \A d \in Digests : CommandOf[d] \in VP!Commands
      BY SameVariable, CommandsAssumption
    <2> QED BY <1>5, <2>1, <2>2, SameVariable DEF StrangerApplies, VP!Next, rvars, RP!vars
  <1>6. CASE Tick
    BY <1>6, SameTick DEF Tick, RP!Next, vvars, VP!vvars
  <1> QED BY <1>1, <1>2, <1>3, <1>4, <1>5, <1>6 DEF Next

LEMMA StepLink == RP!TypeOK /\ VP!IInv /\ Link /\ [Next]_vars => Link'
  <1> SUFFICES ASSUME RP!TypeOK, VP!IInv, Link, [Next]_vars
               PROVE  Link'
    OBVIOUS
  <1>0. /\ VP!TypeOK /\ pc \in [Frames -> RP!Stages]
        /\ at = [c \in Calls |-> at[c]] /\ command = [c \in Calls |-> command[c]]
        /\ Frames \subseteq Calls /\ Strangers \subseteq Calls \ Frames
    BY SameFrames, StrangersAssumption DEF VP!IInv, VP!TypeOK, RP!TypeOK, Calls
  <1>1. ASSUME NEW f \in Frames, StartApply(f)
        PROVE  Link'
    <2>1. VP!Apply(f, CommandOf[req[f].digest]) /\ UNCHANGED rvars /\ pc[f] = "dispatch"
      BY <1>1, SameVariable DEF StartApply
    <2>2. at'[f] = "capture" /\ command'[f] = CommandOf[req[f].digest]
      BY <1>0, <2>1 DEF VP!Apply
    <2> QED BY <1>0, <2>1, <2>2, CallingLeavesOthers DEF Link, rvars
  <1>2. ASSUME NEW f \in Frames, Applying(f)
        PROVE  Link'
    <2>1. VP!Steps(f) /\ UNCHANGED rvars
      BY <1>2, SameVariable DEF Applying
    <2>2. command' = command /\ at[f] # "idle"
          /\ \A g \in Frames \ {f} : at'[g] = at[g] /\ result'[g] = result[g]
      BY <1>0, <2>1, CallingLeavesOthers
    <2>3. at'[f] = "returned" => result'[f] \in Outcomes
      BY <1>0, <2>1, AnswersAreOutcomes
    <2> QED BY <2>1, <2>2, <2>3 DEF Link, rvars
  <1>3. ASSUME NEW f \in Frames, FinishApply(f)
        PROVE  Link'
    <2>0. VP!Return(f)
      BY <1>3, SameVariable DEF FinishApply
    <2>1. VP!Return(f) /\ at'[f] = "idle"
      BY <1>0, <2>0 DEF VP!Return
    <2>2. req' = req /\ \A g \in Frames \ {f} : pc'[g] = pc[g]
      BY <1>0, <1>3 DEF FinishApply, R!Dispatch, R!Drafted
    <2> QED BY <1>0, <2>1, <2>2, CallingLeavesOthers DEF Link
  <1>4. ASSUME NEW f \in Frames, Replaying(f)
        PROVE  Link'
    <2>1. /\ pc[f] # "dispatch" /\ UNCHANGED vvars
          /\ \A g \in Frames \ {f} : /\ pc[g] = "dispatch" => pc'[g] = "dispatch"
                                     /\ req'[g] = req[g]
      BY <1>4, SameActions, ReplayingLeavesOthers DEF Replaying
    <2>2. at[f] = "idle"
      BY <2>1 DEF Link
    <2> QED BY <2>1, <2>2 DEF Link, vvars
  <1>5. ASSUME NEW s \in Strangers, StrangerApplies(s)
        PROVE  Link'
    <2>1. VP!Steps(s) \/ VP!Return(s) \/ (\E cmd : VP!Apply(s, cmd))
      BY <1>5, SameVariable DEF StrangerApplies
    <2>2. UNCHANGED rvars
      BY <1>5 DEF StrangerApplies
    <2> QED BY <1>0, <2>1, <2>2, CallingLeavesOthers DEF Link, rvars
  <1>6. CASE Tick \/ UNCHANGED vars
    BY <1>6 DEF Tick, R!Tick, vars, rvars, vvars, Link
  <1> QED BY <1>1, <1>2, <1>3, <1>4, <1>5, <1>6 DEF Next

(* The path implements both of its parts: what it does to the coordinator  *)
(* is a behaviour of Replay, and what it and the strangers do to the       *)
(* variable is one of AtomicVariable.                                      *)
THEOREM PathRunsBothParts == Spec => RP!Spec /\ VP!Spec /\ []Link
  <1>1. Init => RP!Init /\ RP!TypeOK
    BY SameInit, RP!InitTypeOK, ReplayAssumptions DEF Init
  <1>2. Init => VP!Init /\ VP!IInv
    BY SameVariable, VP!InitOK, VariableAssumptions DEF Init
  <1>3. Init => Link
    <2>1. VP!Init => \A f \in Frames : at[f] = "idle"
      BY DEF VP!Init
    <2> QED BY <1>2, <2>1 DEF Link
  <1>4. RP!TypeOK /\ [RP!Next]_(RP!vars) => RP!TypeOK'
    BY RP!StepTypeOK, ReplayAssumptions
  <1>5. VP!IInv /\ [VP!Next]_(VP!vvars) => VP!IInv'
    BY VP!StepOK, VariableAssumptions
  <1> QED BY <1>1, <1>2, <1>3, <1>4, <1>5, StepOfParts, StepLink, PTL
          DEF Spec, RP!Spec, VP!Spec

-----------------------------------------------------------------------------
(* What the two parts guarantee holds along the path.                      *)

PathOK == RP!TypeOK /\ RP!Ownership /\ RP!Integrity /\ VP!IInv /\ Link

LEMMA PathHolds == Spec => []PathOK
  <1>1. RP!Init => RP!Integrity
    BY RP!InitIntegrity, ReplayAssumptions
  <1>2. RP!TypeOK /\ RP!Ownership /\ RP!Integrity /\ [RP!Next]_(RP!vars) => RP!Integrity'
    BY RP!StepIntegrity, ReplayAssumptions
  <1>3. RP!Spec => []RP!TypeOK /\ []RP!Ownership
    BY RP!TypeCorrect, RP!OwnershipHolds, ReplayAssumptions
  <1>4. VP!Spec => []VP!IInv
    BY VP!AtomicInvariant, VariableAssumptions
  <1> QED BY <1>1, <1>2, <1>3, <1>4, PathRunsBothParts, PTL DEF PathOK, RP!Spec

LEMMA PathSteps == PathOK /\ [Next]_vars => [RP!Next]_(RP!vars) /\ [VP!Next]_(VP!vvars)
  BY StepOfParts DEF PathOK

LEMMA PathTypes ==
    ASSUME PathOK
    PROVE  /\ req \in [Frames -> RP!Requests] /\ pc \in [Frames -> RP!Stages]
           /\ answer \in [Frames -> RP!Answers]
           /\ draft \in [Frames -> [bytes : RP!Bytes, floor : RP!Times \cup {RP!NoTime},
                                    control : BOOLEAN]]
           /\ entries \in [Keys -> RP!Entries]
           /\ \A f \in Frames : req[f].key \in Keys /\ req[f].digest \in Digests
           /\ at = [c \in Calls |-> at[c]] /\ result = [c \in Calls |-> result[c]]
           /\ Frames \subseteq Calls /\ Strangers \subseteq Calls \ Frames
           /\ cell.version \in 0..MaxVersion /\ MaxVersion \in Nat
           /\ CommandOf \in [Digests -> VP!Commands]
           /\ \A d \in Digests : CommandOf[d].expected \in 0..MaxVersion
  <1>1. CommandOf \in [Digests -> VP!Commands]
    BY SameVariable, CommandsAssumption
  <1> QED BY <1>1, SameFrames, StrangersAssumption, VersionAssumption
          DEF PathOK, RP!TypeOK, RP!Requests, VP!IInv, VP!TypeOK, VP!Snapshots, VP!Versions,
              VP!Commands, Calls

(* The callback of a frame runs only while the frame owns its reservation. *)
THEOREM NoUnreservedEffect == Spec => []VariableRunsUnderReservation
  <1>1. PathOK => VariableRunsUnderReservation
    <2> SUFFICES ASSUME PathOK, NEW f \in Frames, at[f] # "idle"
                 PROVE  /\ pc[f] = "dispatch"
                        /\ entries[req[f].key] = R!InFlight(req[f].digest, R!ThreadOf(f))
      BY DEF VariableRunsUnderReservation
    <2>1. pc[f] = "dispatch"
      BY DEF PathOK, Link
    <2>2. RP!HoldsReservation(f)
      BY <2>1, SameFrames DEF PathOK, RP!Ownership, RP!OwnersHold, RP!Owns
    <2>3. entries[req[f].key] \in RP!Entries
      BY PathTypes
    <2>4. entries[req[f].key] = RP!InFlight(req[f].digest, RP!ThreadOf(f))
      BY <2>2, <2>3, RP!EntryKinds, ReplayAssumptions DEF RP!HoldsReservation
    <2> QED BY <2>1, <2>4, SameOperators
  <1> QED BY <1>1, PathHolds, PTL

-----------------------------------------------------------------------------
(* An intent that changed the variable has spent its precondition: the     *)
(* version it named is gone for good.                                      *)

SpentOnce ==
    /\ effects \in [Digests -> {0, 1}]
    /\ \A d \in Digests : effects[d] = 1 => cell.version > CommandOf[d].expected

(* Effects are counted exactly when the variable changes, for the intent   *)
(* of the call that changes it.                                            *)
LEMMA EffectsFollowChanges ==
    ASSUME PathOK, [Next]_vars
    PROVE  \/ cell' = cell /\ effects' = effects /\ carried' = carried
           \/ /\ cell' # cell /\ UNCHANGED <<rvars, expired>>
              /\ \E c \in Calls, d \in Digests :
                    /\ VP!Steps(c) /\ command[c] = CommandOf[d] /\ effects' = Effect(d)
                    /\ \/ c \in Frames /\ req[c].digest = d /\ carried' = carried \cup {d}
                       \/ c \in Strangers /\ carried' = carried
  <1>1. CASE \E f \in Frames : StartApply(f) \/ FinishApply(f) \/ Replaying(f)
    BY <1>1 DEF StartApply, V!Apply, FinishApply, V!Return, Replaying, hvars, vvars
  <1>2. ASSUME NEW f \in Frames, Applying(f)
        PROVE  \/ cell' = cell /\ effects' = effects /\ carried' = carried
               \/ /\ cell' # cell /\ UNCHANGED <<rvars, expired>>
                  /\ VP!Steps(f) /\ command[f] = CommandOf[req[f].digest]
                  /\ effects' = Effect(req[f].digest)
                  /\ carried' = carried \cup {req[f].digest}
    <2>1. VP!Steps(f)
      BY <1>2, SameVariable DEF Applying
    <2>2. at[f] # "idle"
      BY <2>1, PathTypes, CallingLeavesOthers DEF PathOK, VP!IInv
    <2> QED BY <1>2, <2>1, <2>2 DEF Applying, PathOK, Link
  <1>3. ASSUME NEW s \in Strangers, StrangerApplies(s)
        PROVE  \/ cell' = cell /\ effects' = effects /\ carried' = carried
               \/ /\ cell' # cell /\ UNCHANGED <<rvars, expired>>
                  /\ VP!Steps(s) /\ carried' = carried
                  /\ \E d \in Digests : command[s] = CommandOf[d] /\ effects' = Effect(d)
    BY <1>3, SameVariable DEF StrangerApplies, V!Apply, V!Return, hvars
  <1>4. CASE Tick \/ UNCHANGED vars
    BY <1>4 DEF Tick, vars, vvars, hvars
  <1> QED BY <1>1, <1>2, <1>3, <1>4, PathTypes DEF Next

LEMMA StepSpentOnce == PathOK /\ SpentOnce /\ [Next]_vars => SpentOnce'
  <1> SUFFICES ASSUME PathOK, SpentOnce, [Next]_vars
               PROVE  SpentOnce'
    OBVIOUS
  <1>1. CASE cell' = cell /\ effects' = effects
    BY <1>1 DEF SpentOnce
  <1>2. ASSUME NEW c \in Calls, NEW d \in Digests, cell' # cell,
               VP!Steps(c), command[c] = CommandOf[d], effects' = Effect(d)
        PROVE  SpentOnce'
    <2>1. cell'.version = cell.version + 1 /\ CommandOf[d].expected = cell.version
      <3>1. /\ cell'.version = cell.version + 1
            /\ command[c] = [expected |-> cell.version, state |-> cell'.state]
        BY <1>2, VP!ChangesAreApplied, VariableAssumptions DEF PathOK, Calls
      <3> QED BY <1>2, <3>1
    <2>2. effects[d] = 0
      BY <2>1, PathTypes DEF SpentOnce
    <2>3. effects' = [effects EXCEPT ![d] = 1]
      BY <1>2, <2>2 DEF Effect
    <2> QED BY <2>1, <2>3, PathTypes DEF SpentOnce
  <1> QED BY <1>1, <1>2, EffectsFollowChanges

LEMMA SpentOnceHolds == Spec => []SpentOnce
  <1>1. Init => SpentOnce
    BY DEF Init, SpentOnce
  <1> QED BY <1>1, PathHolds, StepSpentOnce, PTL DEF Spec

(* An intent changes the variable at most once in the life of the process, *)
(* whatever the table forgets and whatever other coordinators carry.       *)
THEOREM NoIntentActsTwice == Spec => []AppliedAtMostOnce
  <1>1. SpentOnce => AppliedAtMostOnce
    BY DEF SpentOnce, AppliedAtMostOnce
  <1> QED BY <1>1, SpentOnceHolds, PTL

-----------------------------------------------------------------------------
(* Whoever says APPLIED, on the way out of the variable, in the draft, in  *)
(* the table or to a caller, says so of an intent that did act.            *)

Holds(eff, c, d, value) ==
    value.what = "applied" =>
        /\ eff[d] = 1
        /\ value.version = CommandOf[d].expected + 1
        /\ value.version <= c.version

True(d, value) == Holds(effects, cell, d, value)

TrueInCall(f) == at[f] = "returned" => True(req[f].digest, result[f])
TrueInDraft(f) == pc[f] \in {"complete", "publish"} => True(req[f].digest, draft[f].bytes.value)
TrueInTable(k) ==
    entries[k].kind = "terminal" => True(entries[k].digest, entries[k].bytes.value)
TrueAsTold(f) == answer[f].kind = "result" => True(req[f].digest, answer[f].bytes.value)

TellsTruth ==
    /\ \A f \in Frames : TrueInCall(f) /\ TrueInDraft(f) /\ TrueAsTold(f)
    /\ \A k \in Keys : TrueInTable(k)

(* What was true of an outcome stays true: effects are not undone.         *)
LEMMA TruthLasts ==
    ASSUME PathOK, SpentOnce, SpentOnce', [Next]_vars, NEW d \in Digests, NEW v \in Outcomes,
           True(d, v)
    PROVE  Holds(effects', cell', d, v)
  <1>1. CASE cell' = cell /\ effects' = effects
    BY <1>1 DEF True
  <1>2. ASSUME NEW c \in Calls, NEW e \in Digests, cell' # cell, VP!Steps(c),
               effects' = Effect(e)
        PROVE  Holds(effects', cell', d, v)
    <2>1. cell'.version = cell.version + 1
      BY <1>2, VP!ChangesAreApplied, VariableAssumptions DEF PathOK, Calls
    <2>2. effects[d] = 1 => effects'[d] = 1
      BY <1>2 DEF SpentOnce, Effect
    <2>3. v.version \in Int /\ cell.version \in Int
      BY PathTypes DEF Outcomes
    <2> QED BY <2>1, <2>2, <2>3 DEF True, Holds
  <1> QED BY <1>1, <1>2, EffectsFollowChanges

LEMMA OutcomesEverywhere ==
    ASSUME PathOK
    PROVE  /\ \A f \in Frames : /\ at[f] = "returned" => result[f] \in Outcomes
                                /\ draft[f].bytes.value \in Outcomes
                                /\ answer[f].kind = "result" => answer[f].bytes.value \in Outcomes
           /\ \A k \in Keys : entries[k].kind = "terminal" => entries[k].bytes.value \in Outcomes
  <1>1. \A b \in RP!Bytes : b.value \in Outcomes
    BY DEF RP!Bytes
  <1>2. \A f \in Frames : answer[f].kind = "result" => answer[f].bytes \in RP!Bytes
    BY PathTypes DEF RP!Answers, RP!Refusals, RP!NoAnswer
  <1>3. \A k \in Keys : entries[k].kind = "terminal" => entries[k].bytes \in RP!Bytes
    BY PathTypes, RP!EntryKinds, ReplayAssumptions
  <1> QED BY <1>1, <1>2, <1>3, PathTypes DEF PathOK, Link

(* The step that answers APPLIED counts the effect it speaks of.           *)
LEMMA CallsTellTruth ==
    ASSUME PathOK, SpentOnce, SpentOnce', NEW f \in Frames, Applying(f), at'[f] = "returned"
    PROVE  Holds(effects', cell', req[f].digest, result'[f])
  <1> SUFFICES ASSUME result'[f].what = "applied"
               PROVE  Holds(effects', cell', req[f].digest, result'[f])
    BY DEF Holds
  <1>1. VP!Steps(f) /\ f \in Calls
    BY SameVariable DEF Applying, Calls
  <1>2. cell' # cell
    BY <1>1, VP!AppliedIsAChange, VariableAssumptions DEF PathOK, Calls
  <1>3. /\ cell'.version = cell.version + 1
        /\ command[f] = [expected |-> cell.version, state |-> cell'.state]
        /\ result'[f] = VP!Outcome("applied", cell'.version)
    BY <1>1, <1>2, VP!ChangesAreApplied, VariableAssumptions DEF PathOK, Calls
  <1>4. command[f] = CommandOf[req[f].digest]
    BY <1>1, PathTypes, CallingLeavesOthers DEF PathOK, VP!IInv, Link
  <1>5. effects'[req[f].digest] = 1
    BY <1>2, PathTypes DEF Applying, SpentOnce, Effect
  <1>6. CommandOf[req[f].digest].expected = cell.version
    BY <1>3, <1>4
  <1> QED BY <1>3, <1>5, <1>6, PathTypes DEF Holds, VP!Outcome

LEMMA StepTellsTruth ==
    PathOK /\ PathOK' /\ SpentOnce /\ SpentOnce' /\ TellsTruth /\ [Next]_vars => TellsTruth'
  <1> SUFFICES ASSUME PathOK, PathOK', SpentOnce, SpentOnce', TellsTruth, [Next]_vars
               PROVE  TellsTruth'
    OBVIOUS
  <1>0. \A f \in Frames : req[f].digest \in Digests
    BY PathTypes
  <1>1. ASSUME NEW f \in Frames, at[f] = "returned", at'[f] = "returned",
               req'[f] = req[f], result'[f] = result[f]
        PROVE  TrueInCall(f)'
    <2>1. True(req[f].digest, result[f]) /\ result[f] \in Outcomes
      BY <1>1, OutcomesEverywhere DEF TellsTruth, TrueInCall
    <2>2. Holds(effects', cell', req[f].digest, result[f])
      BY <1>0, <2>1, TruthLasts
    <2> QED BY <1>1, <2>2 DEF TrueInCall, True
  <1>2. ASSUME NEW f \in Frames, pc[f] \in {"complete", "publish"},
               req'[f] = req[f], draft'[f] = draft[f]
        PROVE  TrueInDraft(f)'
    <2>1. True(req[f].digest, draft[f].bytes.value) /\ draft[f].bytes.value \in Outcomes
      BY <1>2, OutcomesEverywhere DEF TellsTruth, TrueInDraft
    <2>2. Holds(effects', cell', req[f].digest, draft[f].bytes.value)
      BY <1>0, <2>1, TruthLasts
    <2> QED BY <1>2, <2>2 DEF TrueInDraft, True
  <1>3. ASSUME NEW f \in Frames, req'[f] = req[f], answer'[f] = answer[f]
        PROVE  TrueAsTold(f)'
    <2> SUFFICES ASSUME answer[f].kind = "result"
                 PROVE  Holds(effects', cell', req[f].digest, answer[f].bytes.value)
      BY <1>3 DEF TrueAsTold, True
    <2>1. True(req[f].digest, answer[f].bytes.value) /\ answer[f].bytes.value \in Outcomes
      BY OutcomesEverywhere DEF TellsTruth, TrueAsTold
    <2> QED BY <1>0, <2>1, TruthLasts
  <1>4. ASSUME NEW k \in Keys, entries[k].kind = "terminal",
               entries'[k].digest = entries[k].digest, entries'[k].bytes = entries[k].bytes
        PROVE  TrueInTable(k)'
    <2>1. entries[k].digest \in Digests
      BY <1>4, PathTypes, RP!EntryKinds, ReplayAssumptions
    <2> QED BY <1>4, <2>1, TruthLasts, OutcomesEverywhere DEF TellsTruth, TrueInTable, True
  <1>5. ASSUME NEW f \in Frames, StartApply(f) \/ Applying(f)
        PROVE  TellsTruth'
    <2>1. /\ UNCHANGED rvars
          /\ \A g \in Frames \ {f} : at'[g] = at[g] /\ result'[g] = result[g]
      BY <1>5, PathTypes, CallingLeavesOthers, SameVariable
         DEF StartApply, Applying, PathOK, VP!IInv
    <2>2. TrueInCall(f)'
      <3>1. CASE Applying(f)
        BY <2>1, <3>1, CallsTellTruth DEF TrueInCall, True, rvars
      <3>2. CASE StartApply(f)
        BY <3>2, PathTypes DEF StartApply, V!Apply, TrueInCall
      <3> QED BY <1>5, <3>1, <3>2
    <2>3. \A g \in Frames \ {f} : TrueInCall(g)'
      BY <1>1, <2>1 DEF rvars, TrueInCall
    <2>4. \A g \in Frames : TrueInDraft(g)' /\ TrueAsTold(g)'
      BY <1>2, <1>3, <2>1 DEF rvars, TrueInDraft
    <2>5. \A k \in Keys : TrueInTable(k)'
      BY <1>4, <2>1 DEF rvars, TrueInTable
    <2> QED BY <2>2, <2>3, <2>4, <2>5 DEF TellsTruth
  <1>6. ASSUME NEW f \in Frames, FinishApply(f)
        PROVE  TellsTruth'
    <2>1. /\ at[f] = "returned" /\ VP!Return(f) /\ UNCHANGED <<entries, req, answer, cell, effects>>
          /\ pc'[f] = "complete"
          /\ draft'[f].bytes = R!Normalized([intent |-> req[f].digest, value |-> result[f]],
                                            req[f].digest)
          /\ \A g \in Frames \ {f} : pc'[g] = pc[g] /\ draft'[g] = draft[g]
      BY <1>6, PathTypes, SameVariable DEF FinishApply, R!Dispatch, R!Drafted, V!Return, hvars
    <2>2. \A g \in Frames \ {f} : at'[g] = at[g] /\ result'[g] = result[g]
      BY <2>1, PathTypes, CallingLeavesOthers DEF PathOK, VP!IInv
    <2>3. at'[f] = "idle"
      BY <2>1, PathTypes DEF VP!Return
    <2>4. draft'[f].bytes.value = result[f]
      <3>1. [intent |-> req[f].digest, value |-> result[f]] \in R!Bytes
        <4>1. req[f].digest \in Digests /\ result[f] \in Outcomes
          BY <1>0, <2>1, OutcomesEverywhere
        <4> QED BY <4>1 DEF R!Bytes
      <3> QED BY <2>1, <3>1 DEF R!Normalized
    <2>5. TrueInDraft(f)'
      BY <2>1, <2>4 DEF TellsTruth, TrueInCall, TrueInDraft, True
    <2>6. \A g \in Frames : TrueInCall(g)' /\ TrueAsTold(g)'
      BY <1>1, <1>3, <2>1, <2>2, <2>3 DEF TrueInCall
    <2>7. \A g \in Frames \ {f} : TrueInDraft(g)'
      BY <1>2, <2>1 DEF TrueInDraft
    <2>8. \A k \in Keys : TrueInTable(k)'
      BY <1>4, <2>1 DEF TrueInTable
    <2> QED BY <2>5, <2>6, <2>7, <2>8 DEF TellsTruth
  <1>7. ASSUME NEW f \in Frames, Replaying(f)
        PROVE  TellsTruth'
    <2>1. /\ UNCHANGED vvars /\ effects' = effects
          /\ \/ RP!Call(f) \/ RP!Enter(f) \/ RP!Wake(f)
             \/ RP!Completes(f) \/ RP!Publish(f) \/ RP!Return(f)
      BY <1>7, SameActions DEF Replaying
    <2>2. /\ pc[f] # "dispatch"
          /\ \A g \in Frames \ {f} :
                /\ pc'[g] = pc[g] \/ (pc[g] = "waiting" /\ pc'[g] = "woken")
                /\ req'[g] = req[g] /\ draft'[g] = draft[g] /\ answer'[g] = answer[g]
      BY <2>1, ReplayingLeavesOthers DEF PathOK
    <2>3. \A g \in Frames : TrueInCall(g)'
      <3>1. \A g \in Frames : at[g] = "returned" => g # f
        BY <2>2 DEF PathOK, Link
      <3> QED BY <1>1, <2>1, <2>2, <3>1 DEF vvars, TrueInCall
    <2>4. TrueInDraft(f)'
      <3>1. CASE RP!Completes(f)
        <4>1. /\ pc[f] = "complete" /\ req' = req
              /\ draft'[f].bytes \in {draft[f].bytes, RP!Fallback(req[f].digest)}
          BY <3>1, PathTypes DEF RP!Completes, RP!CompleteInTime, RP!CompleteUncertain,
             RP!CompleteControl, RP!Drafted
        <4>2. RP!Fallback(req[f].digest).value.what = "failed"
          BY DEF RP!Fallback, Closed
        <4>3. CASE draft'[f].bytes = draft[f].bytes
          BY <2>1, <4>1, <4>3 DEF TellsTruth, TrueInDraft, True, vvars
        <4>4. CASE draft'[f].bytes = RP!Fallback(req[f].digest)
          BY <4>2, <4>4 DEF TrueInDraft, True, Holds
        <4> QED BY <4>1, <4>3, <4>4
      <3>2. CASE ~RP!Completes(f)
        <4>1. pc'[f] \notin {"complete", "publish"}
          <5>1. ASSUME NEW table, RP!Lookup(f, table)
                PROVE  pc'[f] \notin {"complete", "publish"}
            BY <5>1, PathTypes DEF RP!Lookup, RP!RefuseCapacity, RP!Reserve, RP!RefuseConflict,
               RP!ReplayTerminal, RP!RefuseReentry, RP!Wait, RP!Finish
          <5>2. CASE RP!Enter(f) \/ RP!Wake(f)
            BY <5>1, <5>2 DEF RP!Enter, RP!Wake
          <5>3. CASE RP!Call(f) \/ RP!Return(f)
            BY <5>3, PathTypes DEF RP!Call, RP!Invoke, RP!RefuseCall, RP!Return
          <5>4. CASE RP!Publish(f)
            BY <5>4, PathTypes, SameFrames DEF RP!Publish, RP!Settle, RP!LoseReservation, RP!Finish
          <5> QED BY <2>1, <3>2, <5>2, <5>3, <5>4
        <4> QED BY <4>1 DEF TrueInDraft
      <3> QED BY <3>1, <3>2
    <2>5. \A g \in Frames \ {f} : TrueInDraft(g)'
      BY <1>2, <2>2 DEF TrueInDraft
    <2>6. ASSUME NEW k \in Keys, entries'[k].kind = "terminal"
          PROVE  TrueInTable(k)'
      <3>1. CASE /\ entries[k].kind = "terminal"
                 /\ entries'[k].digest = entries[k].digest /\ entries'[k].bytes = entries[k].bytes
        BY <1>4, <3>1
      <3>2. ASSUME NEW g \in Frames, RP!Publish(g),
                   entries'[k] = RP!Terminal(req[g].digest, draft[g].bytes, draft[g].floor, RP!NoTime)
            PROVE  TrueInTable(k)'
        BY <2>1, <3>2 DEF RP!Publish, RP!Terminal, TellsTruth, TrueInDraft, TrueInTable, True, vvars
      <3> QED BY <2>6, <3>1, <3>2, PathSteps, RP!WhereTerminalsComeFrom, ReplayAssumptions,
                 SameFrames DEF PathOK
    <2>7. ASSUME NEW g \in Frames, answer'[g].kind = "result"
          PROVE  TrueAsTold(g)'
      <3>1. CASE answer'[g] = answer[g] /\ req'[g] = req[g]
        BY <1>3, <3>1
      <3>2. CASE RP!Filed(entries', req'[g].key, answer'[g].bytes)
        <4>1. PICK k \in Keys : k = req'[g].key
          BY PathTypes DEF PathOK, RP!TypeOK, RP!Requests, SameFrames
        <4>2. entries'[k].kind = "terminal" /\ entries'[k].bytes = answer'[g].bytes
          BY <3>2, <4>1 DEF RP!Filed
        <4>3. entries'[k].digest = req'[g].digest
          BY <2>7, <4>2, SameFrames DEF PathOK, RP!Integrity, RP!AnswersMatchIntent
        <4> QED BY <2>6, <4>2, <4>3 DEF TrueInTable, TrueAsTold
      <3> QED BY <2>7, <3>1, <3>2, PathSteps, RP!ResultsAreFiled, ReplayAssumptions,
                 SameFrames DEF PathOK
    <2> QED BY <2>3, <2>4, <2>5, <2>6, <2>7 DEF TellsTruth, TrueInTable, TrueAsTold
  <1>8. CASE \/ Tick \/ UNCHANGED vars
             \/ \E s \in Strangers : StrangerApplies(s)
    <2>1. /\ UNCHANGED <<entries, pc, req, draft, answer>>
          /\ \A f \in Frames : at'[f] = at[f] /\ result'[f] = result[f]
      <3>1. CASE Tick \/ UNCHANGED vars
        BY <3>1 DEF Tick, R!Tick, vars, rvars, vvars
      <3>2. ASSUME NEW s \in Strangers, StrangerApplies(s)
            PROVE  UNCHANGED rvars /\ \A f \in Frames : at'[f] = at[f] /\ result'[f] = result[f]
        BY <3>2, PathTypes, CallingLeavesOthers, SameVariable DEF StrangerApplies, PathOK, VP!IInv
      <3> QED BY <1>8, <3>1, <3>2 DEF rvars
    <2>2. \A f \in Frames : TrueInCall(f)' /\ TrueInDraft(f)' /\ TrueAsTold(f)'
      BY <1>1, <1>2, <1>3, <2>1 DEF TrueInCall, TrueInDraft
    <2>3. \A k \in Keys : TrueInTable(k)'
      BY <1>4, <2>1 DEF TrueInTable
    <2> QED BY <2>2, <2>3 DEF TellsTruth
  <1> QED BY <1>5, <1>6, <1>7, <1>8 DEF Next

(* Nobody is told APPLIED, at once or from the table, unless the intent    *)
(* did change the variable, to the version the answer names.               *)
THEOREM AppliedIsNeverInvented == Spec => []AppliedIsTrue
  <1>1. Init => TellsTruth
    <2> SUFFICES ASSUME Init
                 PROVE  TellsTruth
      OBVIOUS
    <2>1. \A f \in Frames : at[f] = "idle" /\ pc[f] = "idle" /\ answer[f].kind = "none"
      BY SameFrames DEF Init, R!Init, V!Init, R!NoAnswer, R!Frames, Frames
    <2>2. \A k \in Keys : entries[k].kind = "none"
      BY DEF Init, R!Init, R!NoEntry
    <2> QED BY <2>1, <2>2 DEF TellsTruth, TrueInCall, TrueInDraft, TrueAsTold, TrueInTable
  <1>2. TellsTruth => AppliedIsTrue
    BY DEF TellsTruth, TrueAsTold, True, Holds, AppliedIsTrue
  <1> QED BY <1>1, <1>2, StepTellsTruth, PathHolds, SpentOnceHolds, PTL DEF Spec

-----------------------------------------------------------------------------
(* An effect is on record: its frame still holds the APPLIED outcome, or   *)
(* gave it up for a failure without a floor, or the table holds the one or *)
(* the other.                                                              *)

CarriesOn(f) ==
    \/ pc[f] = "dispatch" /\ at[f] = "returned" /\ result[f].what = "applied"
    \/ pc[f] = "complete" /\ draft[f].bytes.value.what = "applied"
    \/ pc[f] = "publish" /\ (draft[f].bytes.value.what = "applied" \/ draft[f].floor = R!NoTime)

Stands(k) ==
    /\ entries[k].kind = "terminal"
    /\ \/ entries[k].bytes.value.what = "applied"
       \/ entries[k].floor = R!NoTime /\ entries[k].anchor = R!NoTime

OnRecord(d) ==
    \/ \E f \in Frames : req[f].digest = d /\ CarriesOn(f)
    \/ \E k \in Keys : Stands(k) /\ entries[k].digest = d

Recorded == carried \subseteq Digests /\ \A d \in carried \ expired : OnRecord(d)

LEMMA StandsOrExpires ==
    ASSUME PathOK, [Next]_vars, NEW k \in Keys, Stands(k)
    PROVE  \/ Stands(k)' /\ entries'[k].digest = entries[k].digest
           \/ entries[k].digest \in expired'
  <1>1. \/ entries'[k].kind # "terminal"
        \/ /\ RP!Keeps(k)
           /\ entries[k].floor = R!NoTime /\ entries[k].anchor = R!NoTime => entries'[k] = entries[k]
    BY PathSteps, RP!TerminalsStayOrGo, ReplayAssumptions, SameData DEF PathOK, Stands
  <1>2. CASE entries'[k].kind # "terminal"
    <2>1. PICK f \in Frames : Replaying(f)
      BY <1>2 DEF Next, Stands, StartApply, Applying, FinishApply, R!Dispatch, R!Drafted,
         StrangerApplies, Tick, R!Tick, vars, rvars
    <2> QED BY <1>2, <2>1 DEF Replaying, Stands
  <1>3. CASE entries'[k].kind = "terminal"
    BY <1>1, <1>3 DEF RP!Keeps, Stands, R!NoTime
  <1> QED BY <1>2, <1>3

(* The frame that moves carries on, or files what it carries.              *)
LEMMA MoverFiles ==
    ASSUME PathOK, NEW f \in Frames, CarriesOn(f),
           StartApply(f) \/ Applying(f) \/ FinishApply(f) \/ Replaying(f)
    PROVE  \/ CarriesOn(f)' /\ req'[f] = req[f]
           \/ \E k \in Keys : Stands(k)' /\ entries'[k].digest = req[f].digest
  <1>0. pc[f] \in {"dispatch", "complete", "publish"}
    BY DEF CarriesOn
  <1>1. ~StartApply(f) /\ ~Applying(f)
    <2>1. ~StartApply(f)
      BY DEF StartApply, V!Apply, CarriesOn
    <2>2. ~Applying(f)
      <3> SUFFICES ASSUME Applying(f) PROVE FALSE
        OBVIOUS
      <3>1. VP!Steps(f)
        BY SameVariable DEF Applying
      <3>2. at[f] \notin {"idle", "returned"}
        BY <3>1, PathTypes, CallingLeavesOthers DEF PathOK, VP!IInv
      <3> QED BY <3>2 DEF CarriesOn, PathOK, Link
    <2> QED BY <2>1, <2>2
  <1>2. CASE FinishApply(f)
    <2>1. /\ at[f] = "returned" /\ pc[f] = "dispatch" /\ pc'[f] = "complete" /\ req' = req
          /\ draft'[f].bytes = R!Normalized([intent |-> req[f].digest, value |-> result[f]],
                                            req[f].digest)
      BY <1>2, PathTypes DEF FinishApply, R!Dispatch, R!Drafted
    <2>2. req[f].digest \in Digests /\ result[f] \in Outcomes
      BY <2>1, PathTypes, OutcomesEverywhere
    <2>3. [intent |-> req[f].digest, value |-> result[f]] \in R!Bytes
      BY <2>2 DEF R!Bytes
    <2>4. draft'[f].bytes.value = result[f]
      BY <2>1, <2>3 DEF R!Normalized
    <2> QED BY <2>1, <2>4 DEF CarriesOn
  <1>3. CASE Replaying(f)
    <2>1. RP!Completes(f) \/ RP!Publish(f)
      <3>1. \/ RP!Call(f) \/ RP!Enter(f) \/ RP!Wake(f)
            \/ RP!Completes(f) \/ RP!Publish(f) \/ RP!Return(f)
        BY <1>3, SameActions DEF Replaying
      <3>2. ~RP!Call(f) /\ ~RP!Enter(f) /\ ~RP!Wake(f) /\ ~RP!Return(f)
        BY <1>0 DEF RP!Call, RP!Invoke, RP!RefuseCall, RP!CanCall, RP!Enter, RP!Wake, RP!Return
      <3> QED BY <3>1, <3>2
    <2>2. CASE RP!Completes(f)
      <3>1. /\ pc[f] = "complete" /\ pc'[f] = "publish" /\ req' = req
            /\ draft'[f].bytes = draft[f].bytes \/ draft'[f].floor = RP!NoTime
        BY <2>2, PathTypes DEF RP!Completes, RP!CompleteInTime, RP!CompleteUncertain,
           RP!CompleteControl, RP!Drafted
      <3> QED BY <3>1, SameData DEF CarriesOn, R!NoTime
    <2>3. CASE RP!Publish(f)
      <3>1. pc[f] = "publish" /\ RP!Settle(f)
        BY <2>3, SameFrames DEF RP!Publish, PathOK, RP!Ownership, RP!OwnersHold, RP!Owns
      <3>2. PICK k \in Keys : k = req[f].key
        BY PathTypes
      <3>3. entries'[k] = RP!Terminal(req[f].digest, draft[f].bytes, draft[f].floor, RP!NoTime)
        BY <3>1, <3>2, PathTypes DEF RP!Settle
      <3>4. /\ entries'[k].kind = "terminal" /\ entries'[k].digest = req[f].digest
            /\ entries'[k].bytes = draft[f].bytes /\ entries'[k].floor = draft[f].floor
            /\ entries'[k].anchor = R!NoTime
        BY <3>3, SameData DEF RP!Terminal
      <3>5. draft[f].bytes.value.what = "applied" \/ draft[f].floor = R!NoTime
        BY <3>1 DEF CarriesOn
      <3>6. Stands(k)'
        BY <3>4, <3>5 DEF Stands, R!NoTime
      <3> QED BY <3>4, <3>6
    <2> QED BY <2>1, <2>2, <2>3
  <1> QED BY <1>1, <1>2, <1>3

LEMMA OthersCarryOn ==
    ASSUME PathOK, NEW g \in Frames, CarriesOn(g),
           \/ \E f \in Frames \ {g} : StartApply(f) \/ Applying(f) \/ FinishApply(f) \/ Replaying(f)
           \/ \E s \in Strangers : StrangerApplies(s)
           \/ Tick \/ UNCHANGED vars
    PROVE  CarriesOn(g)' /\ req'[g] = req[g]
  <1>0. pc[g] \in {"dispatch", "complete", "publish"}
    BY DEF CarriesOn
  <1>1. /\ pc'[g] = pc[g] /\ req'[g] = req[g] /\ draft'[g] = draft[g]
        /\ at'[g] = at[g] /\ result'[g] = result[g]
    <2>1. ASSUME NEW f \in Frames \ {g}, StartApply(f) \/ Applying(f)
          PROVE  UNCHANGED rvars /\ at'[g] = at[g] /\ result'[g] = result[g]
      BY <2>1, PathTypes, CallingLeavesOthers, SameVariable
         DEF StartApply, Applying, PathOK, VP!IInv
    <2>2. ASSUME NEW f \in Frames \ {g}, FinishApply(f)
          PROVE  /\ pc'[g] = pc[g] /\ req'[g] = req[g] /\ draft'[g] = draft[g]
                 /\ at'[g] = at[g] /\ result'[g] = result[g]
      <3>1. at'[g] = at[g] /\ result'[g] = result[g]
        BY <2>2, PathTypes, CallingLeavesOthers, SameVariable DEF FinishApply, PathOK, VP!IInv
      <3> QED BY <2>2, <3>1, PathTypes DEF FinishApply, R!Dispatch, R!Drafted
    <2>3. ASSUME NEW f \in Frames \ {g}, Replaying(f)
          PROVE  /\ pc'[g] = pc[g] /\ req'[g] = req[g] /\ draft'[g] = draft[g]
                 /\ at'[g] = at[g] /\ result'[g] = result[g]
      <3>1. \/ RP!Call(f) \/ RP!Enter(f) \/ RP!Wake(f)
            \/ RP!Completes(f) \/ RP!Publish(f) \/ RP!Return(f)
        BY <2>3, SameActions DEF Replaying
      <3> QED BY <1>0, <2>3, <3>1, ReplayingLeavesOthers DEF Replaying, vvars, PathOK
    <2>4. ASSUME NEW s \in Strangers, StrangerApplies(s)
          PROVE  UNCHANGED rvars /\ at'[g] = at[g] /\ result'[g] = result[g]
      BY <2>4, PathTypes, CallingLeavesOthers, SameVariable DEF StrangerApplies, PathOK, VP!IInv
    <2>5. CASE Tick \/ UNCHANGED vars
      BY <2>5 DEF Tick, R!Tick, vars, rvars, vvars
    <2> QED BY <2>1, <2>2, <2>3, <2>4, <2>5 DEF rvars
  <1> QED BY <1>1 DEF CarriesOn, R!NoTime

LEMMA StepRecorded == PathOK /\ Recorded /\ [Next]_vars => Recorded'
  <1> SUFFICES ASSUME PathOK, Recorded, [Next]_vars
               PROVE  Recorded'
    OBVIOUS
  <1>1. expired \subseteq expired'
    BY DEF Next, StartApply, Applying, FinishApply, Replaying, StrangerApplies, Tick, vars, hvars
  <1>2. ASSUME NEW d, OnRecord(d), d \notin expired'
        PROVE  OnRecord(d)'
    <2>1. ASSUME NEW k \in Keys, Stands(k), entries[k].digest = d
          PROVE  OnRecord(d)'
      BY <1>2, <2>1, StandsOrExpires DEF OnRecord
    <2>2. ASSUME NEW f \in Frames, CarriesOn(f), req[f].digest = d
          PROVE  OnRecord(d)'
      <3>1. CASE StartApply(f) \/ Applying(f) \/ FinishApply(f) \/ Replaying(f)
        BY <2>2, <3>1, MoverFiles DEF OnRecord
      <3>2. CASE \/ \E g \in Frames \ {f} :
                       StartApply(g) \/ Applying(g) \/ FinishApply(g) \/ Replaying(g)
                 \/ \E s \in Strangers : StrangerApplies(s)
                 \/ Tick \/ UNCHANGED vars
        BY <2>2, <3>2, OthersCarryOn DEF OnRecord
      <3> QED BY <3>1, <3>2 DEF Next
    <2> QED BY <1>2, <2>1, <2>2 DEF OnRecord
  <1>3. CASE carried' = carried
    BY <1>1, <1>2, <1>3 DEF Recorded
  <1>4. ASSUME NEW f \in Calls, NEW d \in Digests, f \in Frames, cell' # cell, VP!Steps(f),
               UNCHANGED rvars, req[f].digest = d, carried' = carried \cup {d}
        PROVE  Recorded'
    <2>1. at'[f] = "returned" /\ result'[f] = VP!Outcome("applied", cell'.version)
      BY <1>4, VP!ChangesAreApplied, VariableAssumptions DEF PathOK, Calls
    <2>2. pc[f] = "dispatch"
      BY <1>4, PathTypes, CallingLeavesOthers DEF PathOK, VP!IInv, Link
    <2>3. CarriesOn(f)'
      BY <1>4, <2>1, <2>2 DEF CarriesOn, rvars, VP!Outcome
    <2>4. OnRecord(d)'
      BY <1>4, <2>3 DEF OnRecord, rvars
    <2> QED BY <1>1, <1>2, <1>4, <2>4 DEF Recorded
  <1> QED BY <1>3, <1>4, EffectsFollowChanges

(* No effect goes unrecorded until a terminal of its intent has expired.   *)
THEOREM NoEffectIsForgotten == Spec => []EffectIsRecorded
  <1>1. Init => Recorded
    BY DEF Init, Recorded
  <1>2. Recorded => EffectIsRecorded
    BY DEF Recorded, OnRecord, CarriesOn, Stands, EffectIsRecorded, R!Owns
  <1> QED BY <1>1, <1>2, StepRecorded, PathHolds, PTL DEF Spec
=============================================================================
