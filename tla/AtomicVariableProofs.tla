------------------------ MODULE AtomicVariableProofs ------------------------
(* What AtomicVariable guarantees for any number of concurrent calls, any  *)
(* states, any version bound and any reuse of object identities.           *)
EXTENDS CellRefinement, TLAPS

(* A successor waiting for the second critical section replaces exactly    *)
(* the captured snapshot, and its identity is nobody else's.               *)
Prepared(c) ==
    prepared[c] # NoSnapshot =>
        /\ prepared[c] \in Snapshots
        /\ prepared[c].version = captured[c].version + 1
        /\ prepared[c].state = command[c].state
        /\ prepared[c].state # captured[c].state
        /\ prepared[c].id # cell.id
        /\ \A d \in Callers : prepared[c].id # captured[d].id
        /\ \A d \in Callers \ {c} : prepared[c].id # prepared[d].id

Captured(c) ==
    /\ captured[c] \in Snapshots
    /\ captured[c].version = command[c].expected
    /\ captured[c].version <= cell.version
    /\ captured[c].id = cell.id <=> captured[c].version = cell.version
    /\ captured[c].id = cell.id => captured[c] = cell

(* What the call will say if it is not overtaken.                          *)
Decided(c) ==
    \/ /\ prepared[c] # NoSnapshot
       /\ result[c] = Outcome("applied", captured[c].version + 1)
    \/ /\ prepared[c] = NoSnapshot /\ command[c].state = captured[c].state
       /\ result[c] = Outcome("no_change", captured[c].version)
    \/ prepared[c] = NoSnapshot /\ result[c] = Outcome("failed", 0)

CallOK(c) ==
    /\ at[c] \in {"compare", "commit"} => Captured(c)
    /\ at[c] = "commit" => Prepared(c) /\ Decided(c)
    /\ at[c] \in {"idle", "capture", "compare"} => prepared[c] = NoSnapshot

IInv == TypeOK /\ \A c \in Callers : CallOK(c)

LEMMA IdsAreNotNone == \A s \in Snapshots : s # NoSnapshot /\ s.id # NoSnapshot.id
BY IdsAssumption DEF Snapshots, NoSnapshot

LEMMA NoCommandIsTyped == NoCommand \in Commands
<1>1. \E c \in Commands : c.expected = 0
  <2>1. PICK s \in States : TRUE
    BY StatesAssumption
  <2>2. [expected |-> 0, state |-> s] \in Commands
    BY VersionAssumption DEF Commands, Versions
  <2> QED BY <2>2
<1> QED BY <1>1 DEF NoCommand

LEMMA InitOK == Init => IInv
<1> SUFFICES ASSUME Init PROVE IInv
  OBVIOUS
<1>1. TypeOK
  BY NoCommandIsTyped, VersionAssumption
     DEF Init, TypeOK, NoResult, Outcome, Results, Whats, Versions
<1>2. \A c \in Callers : CallOK(c)
  BY DEF Init, CallOK
<1> QED BY <1>1, <1>2 DEF IInv

(* A step of c that leaves the variable alone and prepares nothing.        *)
LEMMA OthersKeep ==
    ASSUME IInv, NEW c \in Callers, NEW d \in Callers \ {c},
           cell' = cell,
           at'[d] = at[d], command'[d] = command[d], captured'[d] = captured[d],
           prepared'[d] = prepared[d], result'[d] = result[d],
           prepared'[c].id \notin Ids \/ prepared'[c] = prepared[c],
           captured'[c].id \notin Ids \/ captured'[c].id = cell.id \/ captured'[c] = captured[c],
           \A e \in Callers \ {c} : captured'[e] = captured[e] /\ prepared'[e] = prepared[e]
    PROVE  CallOK(d)'
<1>1. CallOK(d)
  BY DEF IInv
<1>2. Captured(d) => Captured(d)'
  BY DEF Captured
<1>3. Prepared(d) => Prepared(d)'
  <2> SUFFICES ASSUME Prepared(d), prepared[d] # NoSnapshot
               PROVE /\ \A e \in Callers : prepared[d].id # captured'[e].id
                     /\ \A e \in Callers \ {d} : prepared[d].id # prepared'[e].id
    BY DEF Prepared
  <2>1. prepared[d].id \in Ids
    BY DEF Prepared, Snapshots
  <2> QED BY <2>1 DEF Prepared
<1>4. Decided(d) => Decided(d)'
  BY DEF Decided
<1> QED BY <1>1, <1>2, <1>3, <1>4 DEF CallOK

USE DEF IInv

LEMMA AnswerTyped ==
    ASSUME TypeOK, NEW c \in Callers, NEW how \in Results, Answer(c, how)
    PROVE  /\ at' \in [Callers -> {"idle", "capture", "compare", "commit", "returned"}]
           /\ result' \in [Callers -> Results]
           /\ at'[c] = "returned"
           /\ \A d \in Callers \ {c} : at'[d] = at[d] /\ result'[d] = result[d]
BY DEF Answer, TypeOK

(* Reads, malformed commands and raising comparisons touch nothing.        *)
LEMMA HarmlessStep ==
    ASSUME IInv, NEW c \in Callers,
           Read(c) \/ ReadFails(c) \/ RejectInvalid(c) \/ CompareRaises(c)
    PROVE  IInv'
<1>1. PICK how \in Results : Answer(c, how)
  BY VersionAssumption DEF Read, ReadFails, RejectInvalid, CompareRaises, Observed, Outcome,
     Results, Whats, Versions, TypeOK, Snapshots
<1>2. UNCHANGED <<cell, command, captured, prepared>>
  BY DEF Read, ReadFails, RejectInvalid, CompareRaises
<1>3. TypeOK'
  BY <1>1, <1>2, AnswerTyped DEF TypeOK
<1>4. ASSUME NEW d \in Callers \ {c} PROVE CallOK(d)'
  BY <1>1, <1>2, AnswerTyped, OthersKeep
<1>5. CallOK(c)'
  BY <1>1, AnswerTyped DEF CallOK
<1> QED BY <1>3, <1>4, <1>5

LEMMA ApplyStep ==
    ASSUME IInv, NEW c \in Callers, NEW cmd \in Commands, Apply(c, cmd)
    PROVE  IInv'
<1>1. TypeOK'
  BY DEF Apply, TypeOK
<1>2. ASSUME NEW d \in Callers \ {c} PROVE CallOK(d)'
  BY OthersKeep DEF Apply, TypeOK
<1>3. CallOK(c)'
  BY DEF Apply, TypeOK, CallOK
<1> QED BY <1>1, <1>2, <1>3

LEMMA CaptureStep ==
    ASSUME IInv, NEW c \in Callers, Capture(c)
    PROVE  IInv'
<1>1. TypeOK'
  BY VersionAssumption DEF Capture, TypeOK, Answer, Outcome, Results, Whats, Versions
<1>2. captured'[c] = cell /\ UNCHANGED <<cell, command, prepared>>
      /\ \A d \in Callers \ {c} : /\ captured'[d] = captured[d] /\ at'[d] = at[d]
                                  /\ result'[d] = result[d]
  BY DEF Capture, TypeOK, Answer
<1>3. ASSUME NEW d \in Callers \ {c} PROVE CallOK(d)'
  BY <1>2, OthersKeep
<1>4. CallOK(c)'
  <2>1. /\ at[c] = "capture" /\ prepared[c] = NoSnapshot
        /\ at'[c] = "returned" \/ (at'[c] = "compare" /\ command[c].expected = cell.version)
    BY DEF Capture, TypeOK, Answer, CallOK
  <2>2. cell \in Snapshots /\ cell.version <= cell.version
    BY DEF TypeOK, Snapshots, Versions
  <2> QED BY <1>2, <2>1, <2>2 DEF CallOK, Captured
<1> QED BY <1>1, <1>3, <1>4

LEMMA PrepareNothingStep ==
    ASSUME IInv, NEW c \in Callers, PrepareNothing(c)
    PROVE  IInv'
<1>0. captured[c] \in Snapshots
  BY DEF PrepareNothing, CallOK, Captured
<1>1. TypeOK'
  BY <1>0, VersionAssumption
     DEF PrepareNothing, TypeOK, Outcome, Results, Whats, Versions, Snapshots
<1>2. ASSUME NEW d \in Callers \ {c} PROVE CallOK(d)'
  BY OthersKeep DEF PrepareNothing, TypeOK
<1>3. CallOK(c)'
  <2>1. Captured(c)' /\ Prepared(c)' /\ at'[c] = "commit"
    BY DEF PrepareNothing, TypeOK, CallOK, Captured, Prepared
  <2>2. Decided(c)'
    BY DEF PrepareNothing, TypeOK, CallOK, Decided
  <2> QED BY <2>1, <2>2 DEF CallOK
<1> QED BY <1>1, <1>2, <1>3

LEMMA PrepareNextStep ==
    ASSUME IInv, NEW c \in Callers, PrepareNext(c)
    PROVE  IInv'
<1>0. Captured(c) /\ at[c] = "compare" /\ prepared[c] = NoSnapshot
  BY DEF PrepareNext, CallOK
<1>1. PICK id \in Ids \ Referenced :
          prepared' = [prepared EXCEPT ![c] =
              [state |-> command[c].state, version |-> captured[c].version + 1, id |-> id]]
  BY DEF PrepareNext
<1>2. captured[c].version + 1 \in Versions
  BY <1>0, VersionAssumption DEF PrepareNext, Captured, Snapshots, Versions
<1>3. /\ prepared'[c] \in Snapshots /\ prepared'[c].id = id
      /\ prepared'[c].version = captured[c].version + 1
      /\ prepared'[c].state = command[c].state
      /\ \A d \in Callers \ {c} : prepared'[d] = prepared[d]
  BY <1>1, <1>2 DEF TypeOK, Snapshots, Commands
<1>4. /\ id # cell.id
      /\ \A d \in Callers : id # captured[d].id /\ id # prepared[d].id
  BY DEF Referenced
<1>5. UNCHANGED <<cell, command, captured>> /\ at'[c] = "commit"
      /\ result'[c] = Outcome("applied", captured[c].version + 1)
      /\ \A d \in Callers \ {c} : at'[d] = at[d] /\ result'[d] = result[d]
  BY DEF PrepareNext, TypeOK
<1>6. TypeOK'
  BY <1>1, <1>2 DEF PrepareNext, TypeOK, Outcome, Results, Whats, Snapshots, Commands
<1>7. ASSUME NEW d \in Callers \ {c} PROVE CallOK(d)'
  <2>1. Captured(d) => Captured(d)'
    BY <1>5 DEF Captured
  <2>2. Prepared(d) => Prepared(d)'
    BY <1>3, <1>4, <1>5 DEF Prepared
  <2>3. Decided(d) => Decided(d)'
    BY <1>3, <1>5 DEF Decided
  <2> QED BY <1>3, <1>5, <2>1, <2>2, <2>3 DEF CallOK
<1>8. CallOK(c)'
  <2>1. Captured(c)'
    BY <1>0, <1>5 DEF Captured
  <2>2. command[c].state # captured[c].state
    BY DEF PrepareNext
  <2>3. Prepared(c)'
    BY <1>3, <1>4, <1>5, <2>2 DEF Prepared
  <2>4. Decided(c)'
    BY <1>3, <1>5, IdsAreNotNone DEF Decided
  <2> QED BY <1>5, <2>1, <2>3, <2>4 DEF CallOK
<1> QED BY <1>6, <1>7, <1>8

(* The only step that changes the variable.                                *)
LEMMA CommitStep ==
    ASSUME IInv, NEW c \in Callers, Commit(c)
    PROVE  IInv'
<1>1. at[c] = "commit" /\ UNCHANGED <<command, captured, prepared>>
      /\ \E how \in Results : Answer(c, how)
  BY VersionAssumption DEF Commit, TypeOK, Outcome, Results, Whats, Versions
<1>2. at'[c] = "returned" /\ \A d \in Callers \ {c} : at'[d] = at[d] /\ result'[d] = result[d]
  BY <1>1, AnswerTyped
<1>3. CallOK(c)'
  BY <1>2 DEF CallOK
<1>4. CASE cell' = cell
  <2>1. TypeOK'
    BY <1>1, <1>4, AnswerTyped DEF TypeOK
  <2>2. ASSUME NEW d \in Callers \ {c} PROVE CallOK(d)'
    BY <1>1, <1>2, <1>4, OthersKeep
  <2> QED BY <1>3, <2>1, <2>2
<1>5. CASE cell' # cell
  <2>1. /\ cell' = prepared[c] /\ prepared[c] # NoSnapshot
        /\ captured[c].id = cell.id
    BY <1>5 DEF Commit, Overtaken
  <2>2. Captured(c) /\ Prepared(c) /\ captured[c] = cell
    BY <1>1, <2>1 DEF CallOK, Captured
  <2>3. cell' \in Snapshots /\ cell'.version = cell.version + 1 /\ cell.version \in Nat
    BY <2>1, <2>2 DEF Prepared, TypeOK, Snapshots, Versions
  <2>4. TypeOK'
    BY <1>1, <2>3, AnswerTyped DEF TypeOK
  <2>5. ASSUME NEW d \in Callers \ {c} PROVE CallOK(d)'
    <3>1. Captured(d) => Captured(d)'
      <4> SUFFICES ASSUME Captured(d) PROVE Captured(d)'
        OBVIOUS
      <4>1. captured[d].version \in Nat /\ captured[d].version < cell'.version
        BY <2>3 DEF Captured, Snapshots, Versions
      <4>2. captured[d].id # cell'.id
        BY <2>1, <2>2 DEF Prepared
      <4> QED BY <1>1, <2>3, <4>1, <4>2 DEF Captured
    <3>2. ASSUME Prepared(d) PROVE Prepared(d)'
      <4>1. prepared[d] # NoSnapshot => prepared[d].id # cell'.id
        BY <2>1, <3>2 DEF Prepared
      <4> QED BY <1>1, <3>2, <4>1 DEF Prepared
    <3>3. Decided(d) => Decided(d)'
      BY <1>1, <1>2 DEF Decided
    <3> QED BY <1>1, <1>2, <3>1, <3>2, <3>3 DEF CallOK
  <2> QED BY <1>3, <2>4, <2>5
<1> QED BY <1>4, <1>5

LEMMA ReturnStep ==
    ASSUME IInv, NEW c \in Callers, Return(c)
    PROVE  IInv'
<1>1. TypeOK'
  BY NoCommandIsTyped, VersionAssumption
     DEF Return, TypeOK, NoResult, Outcome, Results, Whats, Versions
<1>2. captured'[c].id \notin Ids /\ prepared'[c].id \notin Ids
  BY IdsAssumption DEF Return, TypeOK, NoSnapshot
<1>3. ASSUME NEW d \in Callers \ {c} PROVE CallOK(d)'
  BY <1>2, OthersKeep DEF Return, TypeOK
<1>4. CallOK(c)'
  BY DEF Return, TypeOK, CallOK
<1> QED BY <1>1, <1>3, <1>4

LEMMA StepOK == IInv /\ [Next]_vvars => IInv'
<1> SUFFICES ASSUME IInv, [Next]_vvars PROVE IInv'
  OBVIOUS
<1>1. CASE Next
  BY <1>1, HarmlessStep, ApplyStep, CaptureStep, PrepareNothingStep, PrepareNextStep,
     CommitStep, ReturnStep DEF Next, Steps, Compares
<1>2. CASE UNCHANGED vvars
  BY <1>2 DEF vvars, TypeOK, CallOK, Captured, Prepared, Decided
<1> QED BY <1>1, <1>2

THEOREM AtomicInvariant == Spec => []IInv
BY InitOK, StepOK, PTL DEF Spec

(* Type correctness; in particular the version never outgrows the bound.   *)
THEOREM AtomicTypeCorrect == Spec => []TypeOK
<1>1. IInv => TypeOK
  OBVIOUS
<1> QED BY <1>1, AtomicInvariant, PTL

(* The identity test of the second critical section is a version test.     *)
THEOREM NoStaleWriterPasses == Spec => []IdentityIsVersion
<1>1. IInv => IdentityIsVersion
  BY DEF IdentityIsVersion, CallOK, Captured
<1> QED BY <1>1, AtomicInvariant, PTL

(* Nothing is answered before the first critical section, and a failure    *)
(* after it has its reason.                                                *)
Excused(c) ==
    /\ at[c] \in {"idle", "capture"} => captured[c] = NoSnapshot
    /\ at[c] \in {"idle", "capture", "compare"} => result[c] = NoResult
    /\ result[c].what = "failed" /\ captured[c] # NoSnapshot =>
          \/ {command[c].state, captured[c].state} \cap Hostile # {}
          \/ captured[c].version = MaxVersion /\ command[c].state # captured[c].state

Excuses == \A c \in Callers : Excused(c)

LEMMA OwnStepExcused ==
    ASSUME IInv, NEW c \in Callers, Excused(c),
           \/ Read(c) \/ ReadFails(c) \/ RejectInvalid(c) \/ Steps(c) \/ Return(c)
           \/ \E cmd \in Commands : Apply(c, cmd)
    PROVE  Excused(c)'
<1> USE DEF Excused, TypeOK, Answer, NoResult, Outcome
<1>1. CASE Read(c) \/ ReadFails(c) \/ RejectInvalid(c)
  BY <1>1 DEF Read, ReadFails, RejectInvalid, Observed
<1>2. CASE \E cmd \in Commands : Apply(c, cmd)
  BY <1>2 DEF Apply
<1>3. CASE Capture(c)
  BY <1>3 DEF Capture
<1>4. CASE CompareRaises(c)
  BY <1>4 DEF CompareRaises
<1>5. CASE PrepareNothing(c)
  BY <1>5 DEF PrepareNothing
<1>6. CASE PrepareNext(c)
  BY <1>6 DEF PrepareNext
<1>7. CASE Commit(c)
  BY <1>7 DEF Commit
<1>8. CASE Return(c)
  BY <1>8 DEF Return
<1> QED BY <1>1, <1>2, <1>3, <1>4, <1>5, <1>6, <1>7, <1>8 DEF Steps, Compares

LEMMA OthersUntouched ==
    ASSUME IInv, NEW c \in Callers, NEW d \in Callers \ {c},
           \/ Read(c) \/ ReadFails(c) \/ RejectInvalid(c) \/ Steps(c) \/ Return(c)
           \/ \E cmd \in Commands : Apply(c, cmd)
    PROVE  /\ at'[d] = at[d] /\ command'[d] = command[d]
           /\ captured'[d] = captured[d] /\ result'[d] = result[d]
BY DEF TypeOK, Answer, Read, ReadFails, RejectInvalid, Apply, Steps, Compares, Capture,
       CompareRaises, PrepareNothing, PrepareNext, Commit, Return

(* A command fails for one of the two reasons decision 0007 gives.         *)
THEOREM FailuresHaveAReason == Spec => []FailsOnlyAtTheLimit
<1>1. Init => Excuses
  BY DEF Init, Excuses, Excused, NoResult, Outcome
<1>2. IInv /\ Excuses /\ [Next]_vvars => Excuses'
  <2> SUFFICES ASSUME IInv, Excuses, [Next]_vvars, NEW d \in Callers
               PROVE  Excused(d)'
    BY DEF Excuses
  <2>0. Excused(d)
    BY DEF Excuses
  <2>1. ASSUME NEW c \in Callers,
               \/ Read(c) \/ ReadFails(c) \/ RejectInvalid(c) \/ Steps(c) \/ Return(c)
               \/ \E cmd \in Commands : Apply(c, cmd)
        PROVE  Excused(d)'
    <3>1. CASE d = c
      BY <2>0, <2>1, <3>1, OwnStepExcused
    <3>2. CASE d # c
      BY <2>0, <2>1, <3>2, OthersUntouched DEF Excused
    <3> QED BY <3>1, <3>2
  <2>2. CASE UNCHANGED vvars
    BY <2>0, <2>2 DEF vvars, Excused
  <2> QED BY <2>1, <2>2 DEF Next
<1>3. Excuses => FailsOnlyAtTheLimit
  BY DEF Excuses, Excused, FailsOnlyAtTheLimit
<1> QED BY <1>1, <1>2, <1>3, AtomicInvariant, PTL DEF Spec

(* The step that changes the variable, and what its caller is told.        *)
LEMMA ChangesAreApplied ==
    ASSUME IInv, NEW c \in Callers, Steps(c), cell' # cell
    PROVE  /\ cell'.version = cell.version + 1
           /\ cell'.state # cell.state
           /\ at[c] = "commit" /\ at'[c] = "returned"
           /\ command[c] = [expected |-> cell.version, state |-> cell'.state]
           /\ result'[c] = Outcome("applied", cell'.version)
<1>1. Commit(c)
  BY DEF Steps, Compares, Capture, CompareRaises, PrepareNothing, PrepareNext
<1>2. /\ at[c] = "commit" /\ at'[c] = "returned" /\ result'[c] = result[c]
      /\ cell' = prepared[c] /\ prepared[c] # NoSnapshot /\ captured[c].id = cell.id
  BY <1>1 DEF Commit, Answer, Overtaken, TypeOK
<1>3. Captured(c) /\ Prepared(c) /\ Decided(c) /\ captured[c] = cell
  BY <1>2 DEF CallOK, Captured
<1>4. command[c] = [expected |-> cell.version, state |-> cell'.state]
  BY <1>2, <1>3 DEF Captured, Prepared, TypeOK, Commands
<1>5. cell'.version = cell.version + 1 /\ cell'.state # cell.state
  BY <1>2, <1>3 DEF Prepared
<1>6. result'[c] = Outcome("applied", cell'.version)
  BY <1>2, <1>3, <1>5 DEF Decided
<1> QED BY <1>2, <1>4, <1>5, <1>6

(* A caller is told APPLIED by the step that changes the variable.         *)
LEMMA AppliedIsAChange ==
    ASSUME IInv, NEW c \in Callers, Steps(c), at'[c] = "returned", result'[c].what = "applied"
    PROVE  cell' # cell
<1>1. Commit(c) /\ ~Overtaken(c)
  BY DEF Steps, Compares, Capture, CompareRaises, PrepareNothing, PrepareNext, Commit, Answer,
         Outcome, TypeOK
<1>2. at[c] = "commit" /\ captured[c].id = cell.id /\ result[c].what = "applied"
  BY <1>1 DEF Commit, Overtaken, Answer, TypeOK
<1>3. Prepared(c) /\ prepared[c] # NoSnapshot /\ captured[c] = cell
  <2>1. Captured(c) /\ Prepared(c) /\ Decided(c)
    BY <1>2 DEF CallOK
  <2>2. \A n : Outcome("no_change", n).what # "applied" /\ Outcome("failed", n).what # "applied"
    BY DEF Outcome
  <2>3. prepared[c] # NoSnapshot
    BY <1>2, <2>1, <2>2 DEF Decided
  <2> QED BY <1>2, <2>1, <2>3 DEF Captured
<1> QED BY <1>1, <1>3 DEF Commit, Prepared

(* No update is lost: versions count the changes, each made by a call that *)
(* named the version it replaced.                                          *)
THEOREM NoLostUpdate == Spec => VersionCountsChanges
<1>1. IInv /\ [Next]_vvars =>
        [cell' # cell =>
          /\ cell'.version = cell.version + 1
          /\ cell'.state # cell.state
          /\ \E c \in Callers :
                /\ at[c] = "commit" /\ at'[c] = "returned"
                /\ command[c] = [expected |-> cell.version, state |-> cell'.state]]_vvars
  <2> SUFFICES ASSUME IInv, Next, cell' # cell
               PROVE  /\ cell'.version = cell.version + 1
                      /\ cell'.state # cell.state
                      /\ \E c \in Callers :
                            /\ at[c] = "commit" /\ at'[c] = "returned"
                            /\ command[c] = [expected |-> cell.version, state |-> cell'.state]
    OBVIOUS
  <2>1. PICK c \in Callers : Steps(c)
    BY DEF Next, Read, ReadFails, RejectInvalid, Apply, Return
  <2> QED BY <2>1, ChangesAreApplied
<1> QED BY <1>1, AtomicInvariant, PTL DEF Spec, VersionCountsChanges

-----------------------------------------------------------------------------
(* The refinement.  The abstract steps of a command happen when its answer *)
(* is settled: at Capture when the version does not match, at Commit       *)
(* otherwise; everything before is a stutter.                              *)

view == [c \in Callers |-> ClientView(c)]

(* The other clients see nothing of a step of c.                           *)
LEMMA OneClientMoves ==
    ASSUME NEW c \in Callers,
           \A d \in Callers \ {c} : at'[d] = at[d] /\ command'[d] = command[d] /\ result'[d] = result[d]
    PROVE  view' = [view EXCEPT ![c] = ClientView(c)']
<1>1. \A d \in Callers \ {c} : ClientView(d)' = ClientView(d)
  BY DEF ClientView
<1> QED BY <1>1 DEF view

LEMMA AnswerView ==
    ASSUME TypeOK, NEW c \in Callers, NEW what, NEW version, Answer(c, Outcome(what, version)),
           command' = command, what # "state"
    PROVE  view' = [view EXCEPT ![c] = Cell!Told(what, version)]
<1>1. at'[c] = "returned" /\ result'[c] = Outcome(what, version)
  BY DEF Answer, TypeOK
<1>2. ClientView(c)' = Cell!Told(what, version)
  BY <1>1 DEF ClientView, Outcome, Cell!Told
<1>3. \A d \in Callers \ {c} : at'[d] = at[d] /\ result'[d] = result[d]
  BY DEF Answer, TypeOK
<1> QED BY <1>2, <1>3, OneClientMoves
LEMMA CellTypes ==
    ASSUME IInv
    PROVE  /\ cell.version \in 0..MaxVersion /\ MaxVersion \in Nat
           /\ \A c \in Callers : command[c].expected \in 0..MaxVersion /\ command[c].state \in States
BY VersionAssumption DEF TypeOK, Snapshots, Commands, Versions

(* A call that is refused, fails or leaves something unchanged.            *)
LEMMA UnaffectedSteps ==
    ASSUME IInv, NEW c \in Callers,
           Read(c) \/ ReadFails(c) \/ RejectInvalid(c) \/ CompareRaises(c) \/ Return(c)
    PROVE  Cell!Next
<1> USE DEF Cell!NoEffect, Cell!Becomes
<1>1. CASE Read(c)
  <2>1. at'[c] = "returned" /\ result'[c] = Observed(cell) /\ cell' = cell
        /\ \A d \in Callers \ {c} : /\ at'[d] = at[d] /\ result'[d] = result[d]
                                    /\ command'[d] = command[d]
    BY <1>1 DEF Read, Answer, TypeOK
  <2>2. ClientView(c) = Cell!Quiet /\ ClientView(c)' = Cell!Shown(cell.version, cell.state)
    BY <1>1, <2>1 DEF Read, ClientView, Observed, Cell!Quiet, Cell!Shown
  <2>3. view' = [view EXCEPT ![c] = Cell!Shown(cell.version, cell.state)]
    BY <2>1, <2>2, OneClientMoves
  <2>4. Cell!Observe(c)
    BY <2>1, <2>2, <2>3 DEF Cell!Observe, view
  <2> QED BY <2>4 DEF Cell!Next
<1>2. CASE ReadFails(c) \/ RejectInvalid(c)
  <2>1. PICK what \in {"failed", "invalid"} : Answer(c, Outcome(what, 0))
    BY <1>2 DEF ReadFails, RejectInvalid
  <2>2. view' = [view EXCEPT ![c] = Cell!Told(what, 0)]
    BY <1>2, <2>1, AnswerView DEF ReadFails, RejectInvalid
  <2>3. ClientView(c) = Cell!Quiet /\ cell' = cell
    BY <1>2 DEF ReadFails, RejectInvalid, ClientView, Cell!Quiet
  <2>4. Cell!Malformed(c)
    BY <2>2, <2>3 DEF Cell!Malformed, view
  <2> QED BY <2>4 DEF Cell!Next
<1>3. CASE CompareRaises(c)
  <2>1. view' = [view EXCEPT ![c] = Cell!Told("failed", 0)]
    BY <1>3, AnswerView DEF CompareRaises
  <2>2. ClientView(c).at = "asking" /\ cell' = cell
    BY <1>3 DEF CompareRaises, ClientView
  <2>3. Cell!Fail(c)
    BY <2>1, <2>2 DEF Cell!Fail, view
  <2> QED BY <2>3 DEF Cell!Next
<1>4. CASE Return(c)
  <2>1. cell' = cell /\ at'[c] = "idle"
        /\ \A d \in Callers \ {c} : /\ at'[d] = at[d] /\ result'[d] = result[d]
                                    /\ command'[d] = command[d]
    BY <1>4 DEF Return, TypeOK
  <2>2. ClientView(c).at \in {"told", "shown"} /\ ClientView(c)' = Cell!Quiet
    BY <1>4, <2>1 DEF Return, ClientView, Cell!Quiet
  <2>3. view' = [view EXCEPT ![c] = Cell!Quiet]
    BY <2>1, <2>2, OneClientMoves
  <2>4. Cell!Leave(c)
    BY <2>1, <2>2, <2>3 DEF Cell!Leave, view
  <2> QED BY <2>4 DEF Cell!Next
<1> QED BY <1>1, <1>2, <1>3, <1>4

LEMMA ApplyAsks ==
    ASSUME IInv, NEW c \in Callers, NEW cmd \in Commands, Apply(c, cmd)
    PROVE  Cell!Next
<1>1. cell' = cell /\ at'[c] = "capture" /\ command'[c] = cmd
      /\ \A d \in Callers \ {c} : /\ at'[d] = at[d] /\ result'[d] = result[d]
                                  /\ command'[d] = command[d]
  BY DEF Apply, TypeOK
<1>2. ClientView(c) = Cell!Quiet /\ ClientView(c)' = Cell!Asking(cmd.expected, cmd.state)
  BY <1>1 DEF Apply, ClientView, Cell!Quiet, Cell!Asking
<1>3. view' = [view EXCEPT ![c] = Cell!Asking(cmd.expected, cmd.state)]
  BY <1>1, <1>2, OneClientMoves
<1>4. cmd.expected \in 0..MaxVersion /\ cmd.state \in States
  BY DEF Commands, Versions
<1>5. Cell!Ask(c)
  BY <1>1, <1>2, <1>3, <1>4 DEF Cell!Ask, Cell!NoEffect, Cell!Becomes, view
<1> QED BY <1>5 DEF Cell!Next

(* A command whose version is not, or no longer, the variable's.           *)
LEMMA StaleIsTold ==
    ASSUME IInv, NEW c \in Callers, at[c] \in {"capture", "commit"},
           command[c].expected # cell.version, Answer(c, Outcome("precondition", 0)),
           UNCHANGED <<cell, command>>
    PROVE  Cell!Next
<1>1. view' = [view EXCEPT ![c] = Cell!Told("precondition", 0)]
  BY AnswerView
<1>2. ClientView(c).at = "asking" /\ ClientView(c).expected = command[c].expected
  BY DEF ClientView
<1>3. Cell!Stale(c)
  BY <1>1, <1>2 DEF Cell!Stale, Cell!NoEffect, Cell!Becomes, view
<1> QED BY <1>3 DEF Cell!Next

LEMMA CommitTakesEffect ==
    ASSUME IInv, NEW c \in Callers, Commit(c)
    PROVE  Cell!Next
<1>0. /\ at[c] = "commit" /\ command' = command
      /\ Captured(c) /\ Prepared(c) /\ Decided(c)
  BY DEF Commit, CallOK
<1>1. ClientView(c) = Cell!Asking(command[c].expected, command[c].state)
  BY <1>0 DEF ClientView, Cell!Asking
<1>2. CASE Overtaken(c)
  <2>1. command[c].expected # cell.version
    BY <1>0, <1>2 DEF Overtaken, Captured
  <2> QED BY <1>0, <1>2, <2>1, StaleIsTold DEF Commit
<1>3. CASE ~Overtaken(c)
  <2>0. /\ Answer(c, result[c])
        /\ cell' = IF prepared[c] = NoSnapshot THEN cell ELSE prepared[c]
        /\ captured[c] = cell /\ command[c].expected = cell.version
    BY <1>0, <1>3 DEF Commit, Overtaken, Captured
  <2>1. CASE prepared[c] # NoSnapshot
    <3>1. /\ prepared[c] \in Snapshots /\ prepared[c].version = cell.version + 1
          /\ prepared[c].state = command[c].state /\ command[c].state # cell.state
          /\ result[c] = Outcome("applied", cell.version + 1)
      BY <1>0, <2>0, <2>1 DEF Prepared, Decided
    <3>2. cell'.version = cell.version + 1 /\ cell'.state = command[c].state
      BY <2>0, <2>1, <3>1
    <3>3. cell.version < MaxVersion
      BY <3>1, CellTypes DEF Snapshots, Versions
    <3>4. view' = [view EXCEPT ![c] = Cell!Told("applied", cell.version + 1)]
      BY <1>0, <2>0, <3>1, AnswerView
    <3>5. Cell!Change(c)
      BY <1>1, <2>0, <3>1, <3>2, <3>3, <3>4 DEF Cell!Change, Cell!Becomes, Cell!Asking, view
    <3> QED BY <3>5 DEF Cell!Next
  <2>2. CASE prepared[c] = NoSnapshot /\ result[c] = Outcome("failed", 0)
    <3>1. view' = [view EXCEPT ![c] = Cell!Told("failed", 0)]
      BY <1>0, <2>0, <2>2, AnswerView
    <3>2. Cell!Fail(c)
      BY <1>1, <2>0, <2>2, <3>1 DEF Cell!Fail, Cell!NoEffect, Cell!Becomes, Cell!Asking, view
    <3> QED BY <3>2 DEF Cell!Next
  <2>3. CASE /\ prepared[c] = NoSnapshot /\ command[c].state = captured[c].state
             /\ result[c] = Outcome("no_change", captured[c].version)
    <3>1. view' = [view EXCEPT ![c] = Cell!Told("no_change", cell.version)]
      BY <1>0, <2>0, <2>3, AnswerView
    <3>2. Cell!Keep(c)
      BY <1>1, <2>0, <2>3, <3>1 DEF Cell!Keep, Cell!NoEffect, Cell!Becomes, view
    <3> QED BY <3>2 DEF Cell!Next
  <2> QED BY <1>0, <2>1, <2>2, <2>3 DEF Decided
<1> QED BY <1>2, <1>3

(* Until the answer is settled, nothing happens to the cell.               *)
LEMMA PreparationIsSilent ==
    ASSUME IInv, NEW c \in Callers, Capture(c) \/ PrepareNothing(c) \/ PrepareNext(c),
           at'[c] # "returned"
    PROVE  cell' = cell /\ view' = view
<1>1. /\ cell' = cell /\ command' = command
      /\ at[c] \in {"capture", "compare"} /\ at'[c] \in {"compare", "commit"}
      /\ \A d \in Callers \ {c} : at'[d] = at[d] /\ result'[d] = result[d]
  BY DEF Capture, PrepareNothing, PrepareNext, Answer, TypeOK
<1>2. ClientView(c)' = ClientView(c)
  BY <1>1 DEF ClientView
<1>3. \A d \in Callers \ {c} : ClientView(d)' = ClientView(d)
  BY <1>1 DEF ClientView
<1> QED BY <1>1, <1>2, <1>3 DEF view

LEMMA StepRefines ==
    IInv /\ [Next]_vvars => Cell!Next \/ UNCHANGED <<cell.state, cell.version, view>>
<1> SUFFICES ASSUME IInv, [Next]_vvars
             PROVE  Cell!Next \/ UNCHANGED <<cell.state, cell.version, view>>
  OBVIOUS
<1>1. ASSUME NEW c \in Callers, Capture(c), at'[c] = "returned"
      PROVE  Cell!Next
  <2>1. command[c].expected # cell.version
    BY <1>1 DEF Capture, TypeOK
  <2> QED BY <1>1, <2>1, StaleIsTold DEF Capture
<1>2. ASSUME NEW c \in Callers, PrepareNothing(c) \/ PrepareNext(c)
      PROVE  at'[c] # "returned"
  BY <1>2 DEF PrepareNothing, PrepareNext, TypeOK
<1>3. CASE UNCHANGED vvars
  BY <1>3 DEF vvars, view, ClientView
<1> QED BY <1>1, <1>2, <1>3, UnaffectedSteps, ApplyAsks, CommitTakesEffect, PreparationIsSilent
        DEF Next, Steps, Compares

(* Every read and command takes effect in one instant between its call and *)
(* its return (decision 0007).                                             *)
THEOREM VariableIsLinearizable == Spec => ImplementsCell
<1>1. Init => Cell!Init
  <2> SUFFICES ASSUME Init
               PROVE  Cell!Init
    OBVIOUS
  <2>1. cell.state \in States /\ cell.version \in 0..MaxVersion
    BY DEF Init, Snapshots, Versions
  <2>2. \A c \in Callers : ClientView(c) = Cell!Quiet
    BY DEF Init, ClientView, Cell!Quiet
  <2> QED BY <2>1, <2>2 DEF Cell!Init
<1>2. IInv /\ [Next]_vvars =>
         [Cell!Next]_<<cell.state, cell.version, [c \in Callers |-> ClientView(c)]>>
  BY StepRefines DEF view
<1> QED BY <1>1, <1>2, AtomicInvariant, PTL DEF Spec, ImplementsCell, Cell!Spec
=============================================================================
