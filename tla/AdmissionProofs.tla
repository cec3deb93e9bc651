--------------------------- MODULE AdmissionProofs ---------------------------
(* What Admission guarantees for any number of concurrent calls, any key   *)
(* sets, any credentials and any rotation schedule.                        *)
EXTENDS Admission, TLAPS

InProgress == {"inspected", "selected", "authentic", "timed", "bound"}

(* What one call has established at each stage, and what survives of it in *)
(* an admission.                                                           *)
Established(c) ==
    /\ began[c] <= clock \/ at[c] = "idle"
    /\ at[c] # "returned" => verdict[c] = NoVerdict
    /\ at[c] \in InProgress =>
          Structural(asked[c]) /\ holder[asked[c].family] \in current[c]
    /\ at[c] \in InProgress \ {"inspected"} => snapshot[c] \in current[c]
    /\ at[c] \in {"authentic", "timed", "bound"} => Authentic(c)
    /\ at[c] \in {"timed", "bound"} => began[c] <= now[c] /\ now[c] <= clock
    /\ at[c] = "bound" =>
          RouteBound(c) /\ (asked[c].family = "command" => InWindow(Grant(c), now[c]))

Justified(c) ==
    Admitted(c) =>
        /\ Structural(asked[c])
        /\ Credential(c).congruent
        /\ \E ks \in current[c] : SignedUnder(c, ks)
        /\ \E t \in began[c]..clock : InWindow(Grant(c), t)
        /\ RouteBound(c)
        /\ verdict[c].request = Grant(c).request

IInv == TypeOK /\ \A c \in Calls : Established(c) /\ Justified(c)

USE DEF Families, AllOperations

LEMMA AskIsWellTyped ==
    ASSUME NEW a \in Asks
    PROVE  /\ a \in AskType
           /\ a.credential \in CredentialType /\ a.credential.grant.request \in Requests
           /\ a.family \in Families
BY AsksAssumption DEF AskType, CredentialType, Grants

(* A call keeps what it established while others move.                     *)
LEMMA OthersKeep ==
    ASSUME IInv, NEW d \in Calls,
           at'[d] = at[d], asked'[d] = asked[d], snapshot'[d] = snapshot[d],
           now'[d] = now[d], verdict'[d] = verdict[d], began'[d] = began[d],
           current[d] \subseteq current'[d], clock' \in Times, clock <= clock',
           at[d] # "idle" =>
              holder'[asked[d].family] \in current'[d] \/ holder'[asked[d].family] = holder[asked[d].family]
    PROVE  Established(d)' /\ Justified(d)'
<1> USE DEF IInv
<1>0. clock \in Times /\ began[d] \in Times /\ now[d] \in Times
  BY DEF TypeOK
<1>1. Established(d)'
  BY <1>0 DEF Established, InProgress, Structural, Authentic, RouteBound, InWindow, Credential, Grant,
            Times, NoVerdict
<1>2. ASSUME Admitted(d)' PROVE (\E t \in began[d]..clock : InWindow(Grant(d), t))'
  BY <1>0, <1>2 DEF Justified, Admitted, InWindow, Grant, Credential, Times
<1>3. Justified(d)'
  BY <1>2 DEF Justified, Admitted, Structural, SignedUnder, RouteBound, Credential, Grant
<1> QED BY <1>1, <1>3

LEMMA InitEstablishes == Init => IInv
<1> SUFFICES ASSUME Init PROVE IInv
  OBVIOUS
<1>1. TypeOK
  BY AsksAssumption, ClockAssumption DEF Init, TypeOK, AnyAsk, Times, Verdicts, NoVerdict
<1>2. ASSUME NEW c \in Calls PROVE Established(c) /\ Justified(c)
  BY DEF Init, Established, Justified, Admitted, NoVerdict, InProgress
<1> QED BY <1>1, <1>2 DEF IInv

LEMMA StepTyped == IInv /\ [Next]_vars => TypeOK'
<1> SUFFICES ASSUME IInv, [Next]_vars PROVE TypeOK'
  OBVIOUS
<1> USE DEF IInv
<1>1. ASSUME NEW c \in Calls, NEW a \in Asks, Admit(c, a) PROVE TypeOK'
  BY <1>1, AskIsWellTyped DEF Admit, TypeOK, Proceed, Conclude, Verdicts, Rejected
<1>2. ASSUME NEW c \in Calls, TakeSnapshot(c) PROVE TypeOK'
  BY <1>2, AskIsWellTyped DEF TakeSnapshot, TypeOK, Proceed
<1>3. ASSUME NEW c \in Calls, Authenticate(c) PROVE TypeOK'
  BY <1>3 DEF Authenticate, TypeOK, Proceed, Conclude, Verdicts, Rejected
<1>4. ASSUME NEW c \in Calls, ReadClock(c) PROVE TypeOK'
  BY <1>4 DEF ReadClock, TypeOK, Proceed
<1>5. ASSUME NEW c \in Calls, ClockFails(c) PROVE TypeOK'
  BY <1>5 DEF ClockFails, TypeOK, Conclude, Verdicts, Rejected
<1>6. ASSUME NEW c \in Calls, Bind(c) PROVE TypeOK'
  BY <1>6 DEF Bind, TypeOK, Proceed, Conclude, Verdicts, Rejected
<1>7. ASSUME NEW c \in Calls, Decide(c) PROVE TypeOK'
  <2>1. CandidateFits(c) => Reconstructed(c) \in Requests
    BY AskIsWellTyped DEF CandidateFits, Reconstructed, Grant, Credential, TypeOK
  <2> QED BY <1>7, <2>1 DEF Decide, TypeOK, Conclude, Verdicts, Rejected, Accepted
<1>8. ASSUME NEW c \in Calls, Return(c) PROVE TypeOK'
  BY <1>8, AsksAssumption, ClockAssumption
     DEF Return, TypeOK, AnyAsk, Times, Verdicts, NoVerdict
<1>9. ASSUME NEW family \in Families, NEW ks \in Supplied, Replace(family, ks) PROVE TypeOK'
  BY <1>9 DEF Replace, TypeOK
<1>10. ASSUME Tick PROVE TypeOK'
  BY <1>10, ClockAssumption DEF Tick, TypeOK, Times
<1>11. ASSUME UNCHANGED vars PROVE TypeOK'
  BY <1>11 DEF vars, TypeOK
<1> QED BY <1>1, <1>2, <1>3, <1>4, <1>5, <1>6, <1>7, <1>8, <1>9, <1>10, <1>11 DEF Next, Steps

(* One step of one call, for that call and for the others.                 *)
LEMMA CallStep ==
    ASSUME IInv, NEW c \in Calls, NEW d \in Calls, TypeOK',
           (\E a \in Asks : Admit(c, a)) \/ Steps(c) \/ Return(c)
    PROVE  Established(d)' /\ Justified(d)'
<1> USE DEF IInv
<1>0. clock' = clock /\ holder' = holder /\ clock \in Times
  BY DEF Admit, Steps, TakeSnapshot, Authenticate, ReadClock, ClockFails, Bind, Decide, Return, TypeOK
<1>1. CASE d # c
  <2>1. /\ at'[d] = at[d] /\ asked'[d] = asked[d] /\ snapshot'[d] = snapshot[d]
        /\ now'[d] = now[d] /\ verdict'[d] = verdict[d] /\ began'[d] = began[d]
        /\ current'[d] = current[d]
    BY <1>1 DEF TypeOK, Admit, Steps, TakeSnapshot, Authenticate, ReadClock, ClockFails,
                Bind, Decide, Return, Proceed, Conclude
  <2>2. clock <= clock'
    BY <1>0 DEF Times
  <2> QED BY <1>0, <2>1, <2>2, OthersKeep
<1>2. CASE d = c
  <2>0. Established(c) /\ Justified(c) /\ at[c] \in InProgress \cup {"idle", "returned"}
    BY DEF TypeOK, InProgress
  <2>1. ASSUME NEW a \in Asks, Admit(c, a) PROVE Established(c)' /\ Justified(c)'
    <3>1. /\ asked'[c] = a /\ began'[c] = clock /\ current'[c] = {holder[a.family]}
          /\ \/ at'[c] = "inspected" /\ verdict'[c] = verdict[c] /\ Structural(a)
             \/ at'[c] = "returned" /\ verdict'[c] = Rejected
          /\ at[c] = "idle"
      BY <2>1 DEF Admit, TypeOK, Proceed, Conclude
    <3> QED BY <3>1, <2>0, <1>0 DEF Established, Justified, Admitted, InProgress, NoVerdict, Rejected, Times
  <2>2. ASSUME TakeSnapshot(c) PROVE Established(c)' /\ Justified(c)'
    BY <2>0, <2>2, <1>0 DEF TakeSnapshot, TypeOK, Proceed, Established, Justified, Admitted,
       InProgress, NoVerdict, Structural
  <2>3. ASSUME Authenticate(c) PROVE Established(c)' /\ Justified(c)'
    BY <2>0, <2>3, <1>0 DEF Authenticate, TypeOK, Proceed, Conclude, Established, Justified,
       Admitted, InProgress, NoVerdict, Rejected, Structural, Authentic, Credential
  <2>4. ASSUME ReadClock(c) PROVE Established(c)' /\ Justified(c)'
    BY <2>0, <2>4, <1>0 DEF ReadClock, TypeOK, Proceed, Established, Justified, Admitted,
       InProgress, NoVerdict, Structural, Authentic, Credential, Times
  <2>5. ASSUME ClockFails(c) PROVE Established(c)' /\ Justified(c)'
    BY <2>0, <2>5, <1>0 DEF ClockFails, TypeOK, Conclude, Established, Justified, Admitted,
       InProgress, Rejected
  <2>6. ASSUME Bind(c) PROVE Established(c)' /\ Justified(c)'
    BY <2>0, <2>6, <1>0 DEF Bind, TypeOK, Proceed, Conclude, Established, Justified, Admitted,
       InProgress, NoVerdict, Rejected, Structural, Authentic, Credential, Grant, RouteBound,
       InWindow
  <2>7. ASSUME Decide(c) PROVE Established(c)' /\ Justified(c)'
    <3>1. /\ at'[c] = "returned" /\ began' = began /\ asked' = asked /\ current' = current
          /\ verdict'[c] = Rejected \/ (verdict'[c] = Accepted(Reconstructed(c)) /\ CoreVerified(c))
      BY <2>7 DEF Decide, TypeOK, Conclude
    <3>2. /\ at[c] = "bound" /\ Structural(asked[c]) /\ Authentic(c) /\ RouteBound(c)
          /\ snapshot[c] \in current[c]
          /\ now[c] \in began[c]..clock
      BY <2>0, <2>7 DEF Decide, Established, InProgress, TypeOK, Times
    <3>3. Established(c)'
      BY <3>1, <3>2, <2>0, <1>0 DEF Established, InProgress
    <3>4. ASSUME Admitted(c)' PROVE CoreVerified(c) /\ (verdict[c].request)' = Grant(c).request
      BY <3>1, <3>4 DEF Admitted, Rejected, Accepted, CoreVerified
    <3>5. SignedUnder(c, snapshot[c]) /\ Credential(c).congruent
      BY <3>2 DEF SignedUnder, Authentic
    <3>6. Justified(c)'
      BY <3>1, <3>2, <3>4, <3>5, <1>0 DEF Justified, Structural, RouteBound, Grant, Credential,
         SignedUnder, InWindow, CoreVerified
    <3> QED BY <3>3, <3>6
  <2>8. ASSUME Return(c) PROVE Established(c)' /\ Justified(c)'
    <3>1. at'[c] = "idle" /\ verdict'[c] = NoVerdict
      BY <2>8 DEF Return, TypeOK
    <3> QED BY <3>1 DEF Established, Justified, Admitted, InProgress, NoVerdict
  <2> QED BY <1>2, <2>1, <2>2, <2>3, <2>4, <2>5, <2>6, <2>7, <2>8 DEF Steps
<1> QED BY <1>1, <1>2

LEMMA StepPreserves == IInv /\ [Next]_vars => IInv'
<1> SUFFICES ASSUME IInv, [Next]_vars PROVE IInv'
  OBVIOUS
<1>0. TypeOK'
  BY StepTyped
<1> SUFFICES ASSUME NEW d \in Calls PROVE Established(d)' /\ Justified(d)'
  BY <1>0 DEF IInv
<1>1. ASSUME NEW c \in Calls, (\E a \in Asks : Admit(c, a)) \/ Steps(c) \/ Return(c)
      PROVE Established(d)' /\ Justified(d)'
  BY <1>0, <1>1, CallStep
<1>2. ASSUME NEW family \in Families, NEW ks \in Supplied, Replace(family, ks)
      PROVE Established(d)' /\ Justified(d)'
  <2>1. /\ current[d] \subseteq current'[d] /\ clock' = clock /\ clock \in Times /\ clock <= clock
        /\ asked[d].family \in Families
    BY <1>2, AskIsWellTyped DEF Replace, IInv, TypeOK, Times
  <2>2. at[d] # "idle" =>
           holder'[asked[d].family] \in current'[d] \/ holder'[asked[d].family] = holder[asked[d].family]
    BY <1>2, <2>1 DEF Replace, IInv, TypeOK
  <2>3. /\ at'[d] = at[d] /\ asked'[d] = asked[d] /\ snapshot'[d] = snapshot[d]
        /\ now'[d] = now[d] /\ verdict'[d] = verdict[d] /\ began'[d] = began[d]
    BY <1>2 DEF Replace
  <2> QED BY <2>1, <2>2, <2>3, OthersKeep
<1>3. ASSUME Tick PROVE Established(d)' /\ Justified(d)'
  <2>1. clock' \in Times /\ clock <= clock'
    BY <1>0, <1>3 DEF Tick, IInv, TypeOK, Times
  <2> QED BY <1>3, <2>1, OthersKeep DEF Tick
<1>4. ASSUME UNCHANGED vars PROVE Established(d)' /\ Justified(d)'
  <2>1. clock' \in Times /\ clock <= clock'
    BY <1>4 DEF vars, IInv, TypeOK, Times
  <2> QED BY <1>4, <2>1, OthersKeep DEF vars
<1> QED BY <1>1, <1>2, <1>3, <1>4 DEF Next

THEOREM AdmissionInvariant == Spec => []IInv
BY InitEstablishes, StepPreserves, PTL DEF Spec

(* Type correctness of the admission model.                                *)
THEOREM AdmissionTypeCorrect == Spec => []TypeOK
<1>1. IInv => TypeOK
  BY DEF IInv
<1> QED BY <1>1, AdmissionInvariant, PTL

(* No credential is trusted that no key set of this family, current during *)
(* the call, vouches for: a revoked key admits no call that begins later.  *)
(* Nor is a command's candidate decoded on a foreign route or out of time. *)
THEOREM RevokedKeysAdmitNothing == Spec => []AuthenticBeforeTrusted
<1>1. IInv => AuthenticBeforeTrusted
  <2> SUFFICES ASSUME IInv, NEW c \in Calls, at[c] = "bound" \/ Admitted(c)
               PROVE /\ Credential(c).family = asked[c].family /\ Credential(c).congruent
                     /\ \E ks \in current[c] : SignedUnder(c, ks)
                     /\ RouteBound(c)
                     /\ asked[c].family = "command" =>
                           \E t \in began[c]..clock : InWindow(Grant(c), t)
    BY DEF AuthenticBeforeTrusted, RouteBound, InWindow
  <2>1. CASE at[c] = "bound"
    <3>1. now[c] \in began[c]..clock
      BY <2>1 DEF IInv, Established, TypeOK, Times
    <3> QED BY <2>1, <3>1 DEF IInv, Established, InProgress, Structural, Authentic, SignedUnder,
            Credential
  <2>2. CASE Admitted(c)
    BY <2>2 DEF IInv, Justified, Structural, Credential
  <2> QED BY <2>1, <2>2
<1> QED BY <1>1, AdmissionInvariant, PTL

(* The half-open interval is enforced for both families.                   *)
THEOREM NothingExpiredIsAdmitted == Spec => []AdmittedWithinWindow
<1>1. IInv => AdmittedWithinWindow
  BY DEF IInv, Justified, AdmittedWithinWindow, InWindow
<1> QED BY <1>1, AdmissionInvariant, PTL

(* The admitted request is the signed one, on the route it was signed for. *)
THEOREM AdmissionIsExact == Spec => []AdmittedIsWhatWasSigned
<1>1. IInv => AdmittedIsWhatWasSigned
  BY DEF IInv, Justified, AdmittedIsWhatWasSigned, Structural, RouteBound
<1> QED BY <1>1, AdmissionInvariant, PTL
=============================================================================
