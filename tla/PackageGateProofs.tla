-------------------------- MODULE PackageGateProofs --------------------------
(***************************************************************************)
(* Proofs about PackageGate, for any number of invocations and process     *)
(* ids, any packages, any edits, failures and kills.                       *)
(***************************************************************************)
EXTENDS PackageGate, FiniteSetTheorems, SequenceTheorems, TLAPS

-----------------------------------------------------------------------------
(* The policy: no finding means what decision 0004 asks for, and nothing   *)
(* in order is found fault with.                                           *)

LEMMA DecoratorKinds ==
    ASSUME NEW d \in Decorators
    PROVE  d.kind \in {"skip", "conditional", "other"} /\ d.literal \in BOOLEAN
  BY DEF Decorators

(* The judgement that approves, and those that do not.                     *)
LEMMA WhatIsApproved ==
    ASSUME NEW p, NEW c, NEW d \in Decorators
    PROVE  /\ Judgement(p, c, d) = "approved" =>
                 /\ d.kind # "skip" /\ ~d.literal
                 /\ \E a \in Approvals(p) : a.identity = c.identity /\ a.reason = d.reason
           /\ /\ d.kind # "skip" /\ ~d.literal
              /\ \E a \in Approvals(p) : a.identity = c.identity /\ a.reason = d.reason
              => Judgement(p, c, d) = "approved"
  <1>1. CASE d.kind = "skip"
    BY <1>1 DEF Judgement
  <1>2. CASE d.kind # "skip" /\ d.literal
    BY <1>2 DEF Judgement
  <1>3. CASE d.kind # "skip" /\ ~d.literal
    <2>1. Judgement(p, c, d) =
             IF \A a \in Approvals(p) : a.identity # c.identity THEN "unapproved-skip"
             ELSE IF \A a \in Approvals(p) : a.identity = c.identity => a.reason # d.reason
                  THEN "skip-reason-mismatch" ELSE "approved"
      BY <1>3 DEF Judgement
    <2> QED BY <1>3, <2>1
  <1> QED BY <1>1, <1>2, <1>3

LEMMA WhatIsAccepted ==
    ASSUME NEW p, PackageType(p), p.readable
    PROVE  /\ Approvals(p) \subseteq ToSet(p.approvals)
           /\ ApprovalFindings(p) = {} <=>
                 /\ \A i \in DOMAIN p.approvals : WellFormed(p.approvals[i])
                 /\ \A i, j \in DOMAIN p.approvals :
                       p.approvals[i].identity = p.approvals[j].identity => i = j
           /\ ApprovalFindings(p) = {} => Approvals(p) = ToSet(p.approvals)
  <1>0. DOMAIN p.approvals = 1..Len(p.approvals) /\ Len(p.approvals) \in Nat
    BY DEF PackageType
  <1>1. Approvals(p) = {p.approvals[i] : i \in Accepted(p.approvals)}
    BY DEF Approvals
  <1>2. Accepted(p.approvals) \subseteq DOMAIN p.approvals
    BY DEF Accepted
  <1>3. ToSet(p.approvals) = {p.approvals[i] : i \in DOMAIN p.approvals}
    BY DEF ToSet
  <1>4. ApprovalFindings(p) = {} <=> DOMAIN p.approvals \subseteq Accepted(p.approvals)
    BY <1>2 DEF ApprovalFindings
  <1>5. DOMAIN p.approvals \subseteq Accepted(p.approvals) <=>
           /\ \A i \in DOMAIN p.approvals : WellFormed(p.approvals[i])
           /\ \A i, j \in DOMAIN p.approvals :
                 p.approvals[i].identity = p.approvals[j].identity => i = j
    <2>1. ASSUME DOMAIN p.approvals \subseteq Accepted(p.approvals)
          PROVE  /\ \A i \in DOMAIN p.approvals : WellFormed(p.approvals[i])
                 /\ \A i, j \in DOMAIN p.approvals :
                       p.approvals[i].identity = p.approvals[j].identity => i = j
      <3>1. \A i \in DOMAIN p.approvals :
               /\ WellFormed(p.approvals[i])
               /\ \A j \in 1..(i - 1) : WellFormed(p.approvals[j]) =>
                     p.approvals[j].identity # p.approvals[i].identity
        BY <2>1 DEF Accepted
      <3>2. ASSUME NEW i \in DOMAIN p.approvals, NEW j \in DOMAIN p.approvals, i < j
            PROVE  p.approvals[i].identity # p.approvals[j].identity
        <4>1. i \in 1..(j - 1)
          BY <1>0, <3>2
        <4> QED BY <3>1, <4>1
      <3>3. \A i, j \in DOMAIN p.approvals : i < j \/ j < i \/ i = j
        BY <1>0
      <3> QED BY <3>1, <3>2, <3>3
    <2>2. ASSUME /\ \A i \in DOMAIN p.approvals : WellFormed(p.approvals[i])
                 /\ \A i, j \in DOMAIN p.approvals :
                       p.approvals[i].identity = p.approvals[j].identity => i = j
          PROVE  DOMAIN p.approvals \subseteq Accepted(p.approvals)
      <3>1. ASSUME NEW i \in DOMAIN p.approvals, NEW j \in 1..(i - 1)
            PROVE  j \in DOMAIN p.approvals /\ j # i
        BY <1>0, <3>1
      <3> QED BY <2>2, <3>1 DEF Accepted
    <2> QED BY <2>1, <2>2
  <1> QED BY <1>1, <1>2, <1>3, <1>4, <1>5

(* Findings, one kind at a time.                                           *)
LEMMA NoFindings ==
    ASSUME NEW p
    PROVE  Findings(p) = {} <=>
             /\ ApprovalFindings(p) = {}
             /\ \A c \in Inspected(p) : Judgements(p, c) \subseteq {"approved"}
             /\ \A c \in p.candidates : IsTestCase(c) => c.place # "nested"
             /\ \A c \in Inspected(p) : ~HiddenFile(c) /\ ~c.placeholder
             /\ \A a \in Approvals(p) : a.identity \in Encountered(p)
             /\ Offences(p) = {}
  <1>1. (UNION {Judgements(p, c) : c \in Inspected(p)}) \ {"approved"} = {} <=>
           \A c \in Inspected(p) : Judgements(p, c) \subseteq {"approved"}
    OBVIOUS
  <1>2. {"hidden-test-class" : c \in {c \in p.candidates : IsTestCase(c) /\ c.place = "nested"}} = {}
           <=> \A c \in p.candidates : IsTestCase(c) => c.place # "nested"
    OBVIOUS
  <1>3. {"hidden-test-file" : c \in {c \in Inspected(p) : HiddenFile(c)}} = {}
           <=> \A c \in Inspected(p) : ~HiddenFile(c)
    OBVIOUS
  <1>4. {"placeholder-test" : c \in {c \in Inspected(p) : c.placeholder}} = {}
           <=> \A c \in Inspected(p) : ~c.placeholder
    OBVIOUS
  <1>5. {"stale-skip-approval" : a \in {a \in Approvals(p) : a.identity \notin Encountered(p)}} = {}
           <=> \A a \in Approvals(p) : a.identity \in Encountered(p)
    OBVIOUS
  <1> QED BY <1>1, <1>2, <1>3, <1>4, <1>5 DEF Findings

(* A package in which nothing forbidden is said, and one that is not       *)
(* reproached with a statement, are the same.                              *)
LEMMA NoOffences ==
    ASSUME NEW p, PackageType(p)
    PROVE  Offences(p) = {} <=> NothingForbidden(p)
  <1>1. \A s \in p.statements : s.in_test_root \in BOOLEAN
    BY DEF PackageType, Statements
  <1> QED BY <1>1 DEF Offences, NothingForbidden

LEMMA CandidateKinds ==
    ASSUME NEW p, PackageType(p), Recognised(p), NEW c \in p.candidates
    PROVE  /\ c.place \in {"collected", "helper", "nested"} /\ c.placeholder \in BOOLEAN
           /\ ~c.skips_itself
           /\ c \in Inspected(p) <=> c.place # "nested"
           /\ \A d \in c.decorators : d \in Decorators /\ (Skips(d) <=> IsSkip(d))
  <1>1. c \in Candidates
    BY DEF PackageType
  <1>2. /\ c.place \in Placings /\ c.placeholder \in BOOLEAN
        /\ c.decorators \subseteq Decorators
    BY <1>1 DEF Candidates
  <1>3. /\ IsTestCase(c) /\ c.place \notin {"source", "unreached"} /\ ~c.skips_itself
        /\ \A d \in c.decorators : Skips(d) <=> IsSkip(d)
    BY DEF Recognised, Skips, IsSkip
  <1> QED BY <1>2, <1>3 DEF Inspected, Placings

LEMMA NoFindingsMeansClean ==
    ASSUME NEW p, PackageType(p), Recognised(p), Findings(p) = {}
    PROVE  Clean(p)
  <1>0. /\ ApprovalFindings(p) = {} /\ p.readable
        /\ \A c \in p.candidates : c \in Inspected(p) /\ c.place = "collected" /\ ~c.placeholder
        /\ \A c \in p.candidates : Judgements(p, c) \subseteq {"approved"}
        /\ \A a \in Approvals(p) : a.identity \in Encountered(p)
        /\ NothingForbidden(p)
    <2>1. p.readable
      BY NoFindings DEF ApprovalFindings, PackageType
    <2> QED BY <2>1, NoFindings, NoOffences, CandidateKinds DEF Recognised, HiddenFile
  <1>1. /\ \A i \in DOMAIN p.approvals : WellFormed(p.approvals[i])
        /\ \A i, j \in DOMAIN p.approvals :
              p.approvals[i].identity = p.approvals[j].identity => i = j
        /\ Approvals(p) = ToSet(p.approvals)
    BY <1>0, WhatIsAccepted
  <1>2. ASSUME NEW c \in p.candidates, NEW d \in c.decorators, Skips(d)
        PROVE  /\ d.kind = "conditional" /\ ~d.literal
               /\ \E e \in ToSet(p.approvals) : e.identity = c.identity /\ e.reason = d.reason
    <2>1. d \in Decorators /\ IsSkip(d)
      BY <1>2, CandidateKinds
    <2>2. Judgement(p, c, d) = "approved"
      BY <1>0, <2>1 DEF Judgements
    <2> QED BY <1>1, <2>1, <2>2, <1>2, WhatIsApproved, DecoratorKinds DEF Skips
  <1>3. ASSUME NEW e \in ToSet(p.approvals)
        PROVE  \E c \in p.candidates : \E d \in c.decorators :
                  Skips(d) /\ c.identity = e.identity /\ d.reason = e.reason
    <2>1. PICK c \in p.candidates : c.identity = e.identity /\ "approved" \in Judgements(p, c)
      BY <1>0, <1>1 DEF Encountered, Inspected
    <2>2. PICK d \in c.decorators : IsSkip(d) /\ Judgement(p, c, d) = "approved"
      BY <2>1 DEF Judgements
    <2>3. PICK a \in Approvals(p) : a.identity = c.identity /\ a.reason = d.reason
      BY <2>2, WhatIsApproved, CandidateKinds
    <2>4. a = e
      BY <1>1, <2>1, <2>3 DEF ToSet
    <2> QED BY <2>1, <2>2, <2>3, <2>4, CandidateKinds
  <1>4. \A e \in ToSet(p.approvals) : WellFormed(e)
    BY <1>1 DEF ToSet
  <1>5. SkipsAreApproved(p)
    BY <1>2, CandidateKinds DEF SkipsAreApproved
  <1>6. TestsAreCollected(p)
    BY <1>0 DEF TestsAreCollected
  <1>7. ApprovalsAreUsed(p)
    BY <1>0, <1>1, <1>3, <1>4 DEF ApprovalsAreUsed
  <1> QED BY <1>0, <1>5, <1>6, <1>7 DEF Clean

LEMMA CleanMeansNoFindings ==
    ASSUME NEW p, PackageType(p), Recognised(p), Clean(p)
    PROVE  Findings(p) = {}
  <1>1. /\ p.readable /\ Offences(p) = {}
        /\ \A c \in p.candidates : c \in Inspected(p) /\ c.place = "collected" /\ ~c.placeholder
    BY CandidateKinds, NoOffences DEF Clean, ApprovalsAreUsed, TestsAreCollected
  <1>2. /\ \A i \in DOMAIN p.approvals : WellFormed(p.approvals[i])
        /\ \A i, j \in DOMAIN p.approvals :
              p.approvals[i].identity = p.approvals[j].identity => i = j
    BY DEF Clean, ApprovalsAreUsed, ToSet
  <1>3. ApprovalFindings(p) = {} /\ Approvals(p) = ToSet(p.approvals)
    BY <1>1, <1>2, WhatIsAccepted
  <1>4. ASSUME NEW c \in p.candidates, NEW d \in c.decorators, Skips(d)
        PROVE  IsSkip(d) /\ Judgement(p, c, d) = "approved"
    <2>1. d \in Decorators /\ IsSkip(d)
      BY <1>4, CandidateKinds
    <2>2. /\ d.kind = "conditional" /\ ~d.literal
          /\ \E e \in Approvals(p) : e.identity = c.identity /\ e.reason = d.reason
      BY <1>3, <1>4 DEF Clean, SkipsAreApproved
    <2> QED BY <2>1, <2>2, WhatIsApproved
  <1>5. \A c \in p.candidates : Judgements(p, c) \subseteq {"approved"}
    BY <1>4, CandidateKinds DEF Judgements
  <1>6. ASSUME NEW a \in Approvals(p)
        PROVE  a.identity \in Encountered(p)
    <2>1. PICK c \in p.candidates : c.identity = a.identity /\ \E d \in c.decorators : Skips(d)
      BY <1>3 DEF Clean, ApprovalsAreUsed
    <2>2. "approved" \in Judgements(p, c)
      BY <1>4, <2>1 DEF Judgements
    <2> QED BY <1>1, <2>1, <2>2 DEF Encountered
  <1>7. Inspected(p) \subseteq p.candidates
    BY DEF Inspected
  <1> QED BY <1>1, <1>3, <1>5, <1>6, <1>7, NoFindings DEF HiddenFile

(* The policy decides exactly what decision 0004 asks for, of packages     *)
(* whose tests stand under tests/ in a package, name TestCase and are      *)
(* skipped, if at all, by a decorator called with positional arguments.  It*)
(* overlooks the others (see the run gate_unseen).                         *)
THEOREM ThePolicyDecides ==
    ASSUME NEW p, PackageType(p), Recognised(p)
    PROVE  Findings(p) = {} <=> Clean(p)
  BY NoFindingsMeansClean, CleanMeansNoFindings

-----------------------------------------------------------------------------
(* The phases, by name.                                                    *)

Early   == {"policy-self-tests", "package-integrity", "dependency-preflight",
            "dependency-mode", "package-build"}
Running == {"base", "verification", "fastapi"}
Places  == {"idle", "cleanup"} \cup Early \cup Running \cup Over

LEMMA FiveAndThree ==
    ASSUME NEW S, NEW s \in Seq(S), NEW t \in Seq(S), Len(s) = 5, Len(t) = 3
    PROVE  /\ DOMAIN (s \o t) = 1..8
           /\ \A n \in 1..8 : (s \o t)[n] = IF n <= 5 THEN s[n] ELSE t[n - 5]
  <1>1. s \o t \in Seq(S) /\ Len(s \o t) = Len(s) + Len(t)
    BY ConcatProperties
  <1>2. Len(s \o t) = 8
    <2>1. 5 + 3 = 8
      OBVIOUS
    <2> QED BY <1>1, <2>1
  <1>3. DOMAIN (s \o t) = 1..Len(s \o t)
    BY <1>1
  <1>4. ASSUME NEW n \in 1..8
        PROVE  (s \o t)[n] = IF n <= 5 THEN s[n] ELSE t[n - 5]
    <2>1. n \in 1..Len(s) + Len(t)
      BY <1>1, <1>2, Zenon
    <2>2. (s \o t)[n] = IF n <= Len(s) THEN s[n] ELSE t[n - Len(s)]
      BY <2>1, ConcatProperties
    <2> QED BY <2>2
  <1> QED BY <1>2, <1>3, <1>4

LEMMA PhasesInOrder ==
    /\ DOMAIN Phases = 1..8
    /\ Phases[1] = "policy-self-tests" /\ Phases[2] = "package-integrity"
    /\ Phases[3] = "dependency-preflight" /\ Phases[4] = "dependency-mode"
    /\ Phases[5] = "package-build"
    /\ Phases[6] = "base" /\ Phases[7] = "verification" /\ Phases[8] = "fastapi"
  <1> DEFINE checks == <<"policy-self-tests", "package-integrity", "dependency-preflight",
                         "dependency-mode", "package-build">>
  <1>1. checks \in Seq(Early \cup Running) /\ Len(checks) = 5
    BY DEF Early
  <1>2. Installs \in Seq(Early \cup Running) /\ Len(Installs) = 3
    BY DEF Installs, Running
  <1>3. /\ checks[1] = "policy-self-tests" /\ checks[2] = "package-integrity"
        /\ checks[3] = "dependency-preflight" /\ checks[4] = "dependency-mode"
        /\ checks[5] = "package-build"
        /\ Installs[1] = "base" /\ Installs[2] = "verification" /\ Installs[3] = "fastapi"
    BY DEF Installs
  <1>4. Phases = checks \o Installs
    BY DEF Phases
  <1> HIDE DEF checks
  <1>5. /\ DOMAIN Phases = 1..8
        /\ \A n \in 1..8 : Phases[n] = IF n <= 5 THEN checks[n] ELSE Installs[n - 5]
    BY <1>1, <1>2, <1>4, FiveAndThree
  <1> QED BY <1>3, <1>5

LEMMA PhaseNames == ToSet(Installs) = Running /\ ToSet(Phases) = Early \cup Running
  <1>1. ToSet(Installs) = Running
    BY DEF ToSet, Installs, Running
  <1>2. ToSet(Phases) = Early \cup Running
    BY PhasesInOrder DEF ToSet, Early, Running
  <1> QED BY <1>1, <1>2

LEMMA ThreeAndOne ==
    ASSUME NEW S, NEW s \in Seq(S), NEW e \in S
    PROVE  Len(s) = 3 =>
              /\ Len(Append(s, e)) = 4 /\ Append(s, e)[4] = e /\ DOMAIN Append(s, e) = 1..4
              /\ \A n \in 1..3 : Append(s, e)[n] = s[n]
  <1>1. Append(s, e) \in Seq(S)
    OBVIOUS
  <1>2. Len(Append(s, e)) = Len(s) + 1
    OBVIOUS
  <1>3. Append(s, e)[Len(s) + 1] = e
    OBVIOUS
  <1>4. \A n \in 1..Len(s) : Append(s, e)[n] = s[n]
    OBVIOUS
  <1>5. DOMAIN Append(s, e) = 1..Len(Append(s, e))
    BY <1>1
  <1>6. 3 + 1 = 4
    OBVIOUS
  <1> QED BY <1>2, <1>3, <1>4, <1>5, <1>6, Zenon

LEMMA TrapInOrder ==
    /\ Len(Trap) = 4 /\ ToSet(Trap) = Running \cup {"image"}
    /\ Trap[1] = "base" /\ Trap[2] = "verification" /\ Trap[3] = "fastapi" /\ Trap[4] = "image"
  <1>1. Installs \in Seq(Running \cup {"image"}) /\ Len(Installs) = 3
    BY DEF Installs, Running
  <1>2. Installs[1] = "base" /\ Installs[2] = "verification" /\ Installs[3] = "fastapi"
    BY DEF Installs
  <1>3. /\ Len(Trap) = 4 /\ Trap[4] = "image" /\ DOMAIN Trap = 1..4
        /\ Trap[1] = Installs[1] /\ Trap[2] = Installs[2] /\ Trap[3] = Installs[3]
    <2>1. "image" \in Running \cup {"image"}
      OBVIOUS
    <2>2. /\ Len(Append(Installs, "image")) = 4 /\ Append(Installs, "image")[4] = "image"
          /\ DOMAIN Append(Installs, "image") = 1..4
          /\ \A n \in 1..3 : Append(Installs, "image")[n] = Installs[n]
      BY <1>1, <2>1, ThreeAndOne
    <2> QED BY <2>2 DEF Trap
  <1>4. ToSet(Trap) = Running \cup {"image"}
    BY <1>2, <1>3 DEF ToSet, Running
  <1> QED BY <1>2, <1>3, <1>4

LEMMA PhaseOrder ==
    /\ After("policy-self-tests") = "package-integrity"
    /\ After("package-integrity") = "dependency-preflight"
    /\ After("dependency-preflight") = "dependency-mode"
    /\ After("dependency-mode") = "package-build"
    /\ After("package-build") = "base"
    /\ After("base") = "verification"
    /\ After("verification") = "fastapi"
    /\ After("fastapi") = "cleanup"
  <1>1. Phases[8] = "fastapi" /\ \A n \in 1..7 : n \in DOMAIN Phases /\ Phases[n] # "fastapi"
    BY PhasesInOrder
  <1>2. ASSUME NEW n \in 1..7
        PROVE  \A m \in DOMAIN Phases : Phases[m] = Phases[n] => m = n
    BY PhasesInOrder
  <1>3. ASSUME NEW n \in 1..7
        PROVE  After(Phases[n]) = Phases[1 + n]
    <2>1. (CHOOSE m \in DOMAIN Phases : Phases[m] = Phases[n]) = n
      BY <1>1, <1>2, <1>3
    <2> QED BY <1>1, <2>1 DEF After
  <1>4. \A n \in 1..7 : After(Phases[n]) = Phases[1 + n]
    BY <1>3
  <1>5. After("fastapi") = "cleanup"
    BY DEF After
  <1> QED BY <1>4, <1>5, PhasesInOrder

-----------------------------------------------------------------------------
(* The inductive invariant.                                                *)

Images  == [by : Invocations, tree : Trees]
Clear   == {"idle"} \cup Early

GateTyped ==
    /\ tree \in Trees /\ edits \in 0..MaxEdits
    /\ at \in [Invocations -> Places]
    /\ pid \in [Invocations -> Pids \cup {None}] /\ env \in [Invocations -> Environments]
    /\ failing \in [Invocations -> BOOLEAN] /\ edited \in [Invocations -> BOOLEAN]
    /\ images \in [Pids -> Images \cup {None}]
    /\ containers \in [Pids -> [Running -> Invocations \cup {None}]]
    /\ tested \in [Invocations -> SUBSET Images]
    /\ removing \in [Invocations -> 0..4]
    /\ stuck \in [Invocations -> SUBSET (Running \cup {"image"})]

(* Every live shell has an id, and no other live shell has the same.       *)
IdsDiffer ==
    /\ \A i \in Invocations : at[i] # "idle" => pid[i] \in Pids
    /\ \A i, j \in Invocations : Begun(i) /\ Begun(j) /\ pid[i] = pid[j] => i = j

(* What stands under a name was put there by a shell that has that id, and *)
(* that is, or was when it ended, past its build.                          *)
Named ==
    \A p \in Pids :
        /\ images[p] # None => pid[images[p].by] = p /\ at[images[p].by] \notin Clear
        /\ \A k \in Running : containers[p][k] # None =>
              pid[containers[p][k]] = p /\ at[containers[p][k]] \notin Clear

(* From its build on an invocation finds its own image under its name, and *)
(* has run nothing else.                                                   *)
OwnImage(i) ==
    /\ at[i] \in Early \cup {"idle"} => tested[i] = {}
    /\ at[i] \in Running => /\ images[pid[i]] # None /\ images[pid[i]].by = i
                            /\ tested[i] \subseteq {images[pid[i]]}
    /\ \A a, b \in tested[i] : a.by = i /\ a = b

(* While nobody edits and nothing fails, the tree is the one the phases    *)
(* behind an invocation have passed.                                       *)
Evidence(i) ==
    ~edited[i] /\ ~failing[i] =>
        /\ at[i] \in {"dependency-preflight", "dependency-mode", "package-build"} \cup Running =>
              Findings(tree) = {}
        /\ at[i] \in {"dependency-mode", "package-build"} \cup Running => tree.dependencies
        /\ at[i] \in {"package-build", "cleanup", "passed"} \cup Running => ModeAccepted(env[i])
        /\ at[i] \in Running => images[pid[i]].tree = tree
        /\ at[i] \in {"verification", "fastapi", "cleanup", "passed"} => tested[i] # {}
        /\ \A image \in tested[i] : Findings(image.tree) = {} /\ image.tree.dependencies

GateInv ==
    /\ GateTyped /\ IdsDiffer /\ Named
    /\ \A i \in Invocations : /\ OwnImage(i) /\ Evidence(i)
                              /\ at[i] = "passed" => ~failing[i]

LEMMA NoneIsNothing == None \notin Invocations /\ None \notin Pids /\ None \notin Images
  BY NoneAssumption DEF Images

LEMMA InitGate == Init => GateInv
  <1> SUFFICES ASSUME Init PROVE GateInv
    OBVIOUS
  <1>1. GateTyped
    BY PhaseNames, EditsAssumption DEF Init, GateTyped, Places, Running
  <1>2. IdsDiffer /\ Named
    BY PhaseNames DEF Init, IdsDiffer, Named, Begun
  <1>3. \A i \in Invocations : OwnImage(i) /\ Evidence(i) /\ at[i] # "passed"
    BY DEF Init, OwnImage, Evidence, Running
  <1> QED BY <1>1, <1>2, <1>3 DEF GateInv

(* An invocation goes through a phase that leaves images and containers    *)
(* alone, or is killed.                                                    *)
Moves(i) ==
    \/ SelfTests(i) \/ Integrity(i) \/ Preflight(i) \/ Mode(i) \/ CommandFails(i) \/ Kill(i)

LEMMA MovesHow ==
    ASSUME GateTyped, NEW i \in Invocations, Moves(i)
    PROVE  /\ UNCHANGED <<tree, edits, pid, env, images, containers, edited, tested>>
           /\ \A j \in Invocations \ {i} : /\ at'[j] = at[j] /\ failing'[j] = failing[j]
                                           /\ removing'[j] = removing[j] /\ stuck'[j] = stuck[j]
           /\ at'[i] # "killed" => removing' = removing
           /\ removing' \in [Invocations -> 0..4]
           /\ stuck' \in [Invocations -> SUBSET (Running \cup {"image"})]
           /\ at' \in [Invocations -> Places] /\ failing' \in [Invocations -> BOOLEAN]
           /\ Begun(i) /\ at[i] # "idle"
           /\ \/ at'[i] = "killed" /\ failing' = failing
              \/ at[i] # "cleanup" /\ at'[i] = "cleanup" /\ failing'[i]
              \/ failing'[i] = failing[i] /\ at[i] = "policy-self-tests" /\ at'[i] = "package-integrity"
              \/ /\ failing'[i] = failing[i] /\ at[i] = "package-integrity"
                 /\ at'[i] = "dependency-preflight" /\ Findings(tree) = {}
              \/ /\ failing'[i] = failing[i] /\ at[i] = "dependency-preflight"
                 /\ at'[i] = "dependency-mode" /\ tree.dependencies
              \/ /\ failing'[i] = failing[i] /\ at[i] = "dependency-mode"
                 /\ at'[i] = "package-build" /\ ModeAccepted(env[i])
  <1> USE DEF GateTyped, Check, Passes, Fails, docker, trap, Begun, Over, Places, Early, Running
  <1>1. CASE SelfTests(i)
    BY <1>1, PhaseOrder DEF SelfTests
  <1>2. CASE Integrity(i)
    <2>1. CASE Findings(tree) = {}
      BY <1>2, <2>1, PhaseOrder DEF Integrity
    <2>2. CASE Findings(tree) # {}
      BY <1>2, <2>2, PhaseOrder DEF Integrity
    <2> QED BY <2>1, <2>2
  <1>3. CASE Preflight(i)
    <2>1. CASE tree.dependencies
      BY <1>3, <2>1, PhaseOrder DEF Preflight
    <2>2. CASE ~tree.dependencies
      BY <1>3, <2>2, PhaseOrder DEF Preflight
    <2> QED BY <2>1, <2>2
  <1>4. CASE Mode(i)
    <2>1. CASE ModeAccepted(env[i])
      BY <1>4, <2>1, PhaseOrder DEF Mode
    <2>2. CASE ~ModeAccepted(env[i])
      BY <1>4, <2>2, PhaseOrder DEF Mode
    <2> QED BY <2>1, <2>2
  <1>5. CASE CommandFails(i)
    <2>1. at[i] \in (Early \cup Running) \ {"dependency-mode"} /\ Fails(i)
      BY <1>5, PhaseNames DEF CommandFails
    <2>2. at[i] # "cleanup" /\ at'[i] = "cleanup" /\ failing'[i]
      BY <2>1
    <2> QED BY <1>5, <2>1, <2>2 DEF CommandFails
  <1>6. CASE Kill(i)
    BY <1>6 DEF Kill
  <1> QED BY <1>1, <1>2, <1>3, <1>4, <1>5, <1>6 DEF Moves

LEMMA MovesGate ==
    ASSUME GateInv, NEW i \in Invocations, Moves(i)
    PROVE  GateInv'
  <1>0. GateTyped /\ IdsDiffer /\ Named
    BY DEF GateInv
  <1>1. GateTyped'
    BY <1>0, MovesHow DEF GateTyped
  <1>2. IdsDiffer'
    <2>1. \A j \in Invocations : /\ at'[j] # "idle" => at[j] # "idle"
                                 /\ Begun(j)' => Begun(j)
      BY <1>0, MovesHow DEF Begun
    <2> QED BY <1>0, <2>1, MovesHow DEF IdsDiffer
  <1>3. Named'
    <2>1. \A j \in Invocations : at[j] \notin Clear => at'[j] \notin Clear
      BY <1>0, MovesHow DEF Clear, Early
    <2>2. \A p \in Pids : /\ images[p] # None => images[p].by \in Invocations
                          /\ \A k \in Running : containers[p][k] # None =>
                                containers[p][k] \in Invocations
      BY <1>0 DEF GateTyped, Images
    <2> QED BY <1>0, <2>1, <2>2, MovesHow DEF Named
  <1>4. ASSUME NEW j \in Invocations
        PROVE  OwnImage(j)' /\ Evidence(j)' /\ (at'[j] = "passed" => ~failing'[j])
    <2>0. OwnImage(j) /\ Evidence(j) /\ (at[j] = "passed" => ~failing[j])
      BY DEF GateInv
    <2>1. CASE j # i
      BY <1>0, <2>0, <2>1, MovesHow DEF OwnImage, Evidence
    <2>2. CASE j = i
      <3>1. OwnImage(j)'
        BY <1>0, <2>0, <2>2, MovesHow DEF OwnImage, Early, Running
      <3>2. Evidence(j)'
        <4>1. CASE (at'[i] = "killed" /\ failing' = failing) \/ (at'[i] = "cleanup" /\ failing'[i])
          <5>1. failing'[i] \/ failing'[i] = failing[i]
            BY <1>0, <4>1, MovesHow
          <5> QED BY <1>0, <2>0, <2>2, <4>1, <5>1, MovesHow DEF Evidence, Running
        <4>2. CASE ~((at'[i] = "killed" /\ failing' = failing) \/ (at'[i] = "cleanup" /\ failing'[i]))
          <5>1. /\ failing'[i] = failing[i]
                /\ UNCHANGED <<tree, pid, env, images, edited, tested>>
                /\ at[i] \in Early /\ tested[i] = {}
                /\ \/ at'[i] = "package-integrity"
                   \/ at[i] = "package-integrity" /\ at'[i] = "dependency-preflight" /\ Findings(tree) = {}
                   \/ at[i] = "dependency-preflight" /\ at'[i] = "dependency-mode" /\ tree.dependencies
                   \/ at[i] = "dependency-mode" /\ at'[i] = "package-build" /\ ModeAccepted(env[i])
            BY <1>0, <2>0, <2>2, <4>2, MovesHow DEF OwnImage, Early
          <5> QED BY <2>0, <2>2, <5>1 DEF Evidence, Running
        <4> QED BY <4>1, <4>2
      <3> QED BY <1>0, <2>2, <3>1, <3>2, MovesHow
    <2> QED BY <2>1, <2>2
  <1> QED BY <1>1, <1>2, <1>3, <1>4 DEF GateInv

LEMMA GateTypes ==
    ASSUME GateInv
    PROVE  /\ GateTyped /\ IdsDiffer /\ Named
           /\ \A j \in Invocations : /\ OwnImage(j) /\ Evidence(j)
                                     /\ at[j] = "passed" => ~failing[j]
           /\ \A p \in Pids :
                 /\ images[p] # None => images[p] \in Images /\ images[p].by \in Invocations
                 /\ \A k \in Running : containers[p][k] # None => containers[p][k] \in Invocations
           /\ \A j \in Invocations : Begun(j) <=> at[j] \in {"cleanup"} \cup Early \cup Running
           /\ \A j \in Invocations : Begun(j) => pid[j] \in Pids
  <1>1. GateTyped /\ IdsDiffer
    BY DEF GateInv
  <1>2. \A j \in Invocations : Begun(j) <=> at[j] \in {"cleanup"} \cup Early \cup Running
    BY <1>1 DEF GateTyped, Places, Begun, Over, Early, Running
  <1> QED BY <1>1, <1>2 DEF GateInv, GateTyped, IdsDiffer, Begun, Images

LEMMA BeginGate ==
    ASSUME GateInv, NEW i \in Invocations, Begin(i)
    PROVE  GateInv'
  <1>1. PICK p \in Pids :
           /\ \A j \in Invocations : Begun(j) => pid[j] # p
           /\ pid' = [pid EXCEPT ![i] = p]
    BY DEF Begin
  <1>2. /\ at[i] = "idle" /\ at' = [at EXCEPT ![i] = "policy-self-tests"]
        /\ UNCHANGED <<tree, edits, env, failing, images, containers, removing, stuck,
                       edited, tested>>
    BY PhasesInOrder DEF Begin, docker, trap
  <1>3. GateTyped'
    BY <1>1, <1>2, GateTypes DEF GateTyped, Places, Early
  <1>4. \A j \in Invocations \ {i} : at'[j] = at[j] /\ pid'[j] = pid[j] /\ Begun(j)' = Begun(j)
    BY <1>1, <1>2, GateTypes DEF GateTyped, Begun
  <1>5. at'[i] = "policy-self-tests" /\ pid'[i] = p
    BY <1>1, <1>2, GateTypes DEF GateTyped
  <1>6. IdsDiffer'
    BY <1>1, <1>4, <1>5, GateTypes DEF IdsDiffer
  <1>7. Named'
    <2>1. \A q \in Pids : /\ images[q] # None => images[q].by # i
                          /\ \A k \in Running : containers[q][k] # i
      BY <1>2, GateTypes, NoneIsNothing DEF Named, Clear
    <2> QED BY <1>2, <1>4, <2>1, GateTypes DEF Named
  <1>8. ASSUME NEW j \in Invocations
        PROVE  OwnImage(j)' /\ Evidence(j)' /\ (at'[j] = "passed" => ~failing'[j])
    <2>1. CASE j # i
      BY <1>2, <1>4, <2>1, GateTypes DEF OwnImage, Evidence
    <2>2. CASE j = i
      BY <1>2, <1>5, <2>2, GateTypes DEF OwnImage, Evidence, Early, Running
    <2> QED BY <2>1, <2>2
  <1> QED BY <1>3, <1>6, <1>7, <1>8 DEF GateInv

LEMMA BuildGate ==
    ASSUME GateInv, NEW i \in Invocations, Build(i)
    PROVE  GateInv'
  <1>1. /\ at[i] = "package-build" /\ at' = [at EXCEPT ![i] = "base"]
        /\ images' = [images EXCEPT ![pid[i]] = [by |-> i, tree |-> tree]]
        /\ UNCHANGED <<tree, edits, pid, env, failing, containers, removing, stuck,
                       edited, tested>>
    BY PhaseOrder, GateTypes DEF Build, Passes, RunId, GateTyped, trap
  <1>2. pid[i] \in Pids /\ Begun(i) /\ [by |-> i, tree |-> tree] \in Images
    BY <1>1, GateTypes DEF Early, GateTyped, Images
  <1>3. /\ \A j \in Invocations \ {i} : at'[j] = at[j] /\ Begun(j)' = Begun(j)
        /\ at'[i] = "base" /\ images'[pid[i]] = [by |-> i, tree |-> tree]
        /\ \A p \in Pids \ {pid[i]} : images'[p] = images[p]
    BY <1>1, <1>2, GateTypes DEF GateTyped, Begun
  <1>4. GateTyped'
    BY <1>1, <1>2, GateTypes DEF GateTyped, Places, Running
  <1>5. IdsDiffer'
    BY <1>1, <1>2, <1>3, GateTypes DEF IdsDiffer
  <1>6. Named'
    <2>1. "base" \notin Clear /\ at[i] \in Clear
      BY <1>1 DEF Clear, Early
    <2> QED BY <1>1, <1>2, <1>3, <2>1, GateTypes DEF Named
  <1>7. ASSUME NEW j \in Invocations
        PROVE  OwnImage(j)' /\ Evidence(j)' /\ (at'[j] = "passed" => ~failing'[j])
    <2>1. CASE j # i
      <3>1. Begun(j) => pid[j] # pid[i] /\ images'[pid[j]] = images[pid[j]]
        BY <1>2, <1>3, <2>1, GateTypes DEF IdsDiffer
      <3> QED BY <1>1, <1>3, <2>1, <3>1, GateTypes DEF OwnImage, Evidence
    <2>2. CASE j = i
      <3>1. tested[i] = {}
        BY <1>1, GateTypes DEF OwnImage, Early
      <3>2. OwnImage(i)'
        BY <1>1, <1>2, <1>3, <3>1, NoneIsNothing DEF OwnImage, Early
      <3>3. Evidence(i)'
        BY <1>1, <1>3, <3>1, GateTypes DEF Evidence
      <3> QED BY <1>3, <2>2, <3>2, <3>3
    <2> QED BY <2>1, <2>2
  <1> QED BY <1>4, <1>5, <1>6, <1>7 DEF GateInv

LEMMA InstallGate ==
    ASSUME GateInv, NEW i \in Invocations, Install(i)
    PROVE  GateInv'
  <1>1. /\ at[i] \in Running /\ Begun(i) /\ pid[i] \in Pids
        /\ images[pid[i]] \in Images /\ images[pid[i]].by = i /\ tested[i] \subseteq {images[pid[i]]}
        /\ UNCHANGED <<tree, edits, pid, env, images, removing, stuck, edited>>
    BY PhaseNames, GateTypes DEF Install, OwnImage, trap
  <1>2. /\ \/ at' = [at EXCEPT ![i] = After(@)] /\ failing' = failing
              /\ tested' = [tested EXCEPT ![i] = @ \cup {images[pid[i]]}]
           \/ /\ at' = [at EXCEPT ![i] = "cleanup"] /\ failing' = [failing EXCEPT ![i] = TRUE]
              /\ \/ tested' = [tested EXCEPT ![i] = @ \cup {images[pid[i]]}]
                 \/ tested' = tested
        /\ \/ containers' = [containers EXCEPT ![pid[i]][at[i]] = i]
           \/ containers' = containers
    BY PhaseNames DEF Install, Passes, Fails, RunId
  <1>3. After(at[i]) \in {"verification", "fastapi", "cleanup"}
    BY <1>1, PhaseOrder DEF Running
  <1>4. /\ at'[i] \in {"verification", "fastapi", "cleanup"}
        /\ tested'[i] \subseteq {images[pid[i]]}
        /\ \A j \in Invocations \ {i} : /\ at'[j] = at[j] /\ failing'[j] = failing[j]
                                        /\ tested'[j] = tested[j] /\ Begun(j)' = Begun(j)
        /\ failing'[i] \/ tested'[i] # {}
        /\ failing'[i] \/ failing'[i] = failing[i]
        /\ \A p \in Pids : \A k \in Running :
              containers'[p][k] = containers[p][k] \/ (p = pid[i] /\ containers'[p][k] = i)
    <2>1. /\ at'[i] \in {"verification", "fastapi", "cleanup"}
          /\ \A j \in Invocations \ {i} : at'[j] = at[j] /\ failing'[j] = failing[j]
          /\ failing'[i] \/ failing'[i] = failing[i]
      BY <1>2, <1>3, GateTypes DEF GateTyped
    <2>2. /\ tested'[i] \subseteq {images[pid[i]]}
          /\ \A j \in Invocations \ {i} : tested'[j] = tested[j]
          /\ failing'[i] \/ tested'[i] # {}
      <3>1. CASE tested' = [tested EXCEPT ![i] = @ \cup {images[pid[i]]}]
        BY <1>1, <3>1, GateTypes DEF GateTyped
      <3>2. CASE tested' = tested /\ failing' = [failing EXCEPT ![i] = TRUE]
        BY <1>1, <3>2, GateTypes DEF GateTyped
      <3> QED BY <1>2, <3>1, <3>2
    <2>3. \A p \in Pids : \A k \in Running :
             containers'[p][k] = containers[p][k] \/ (p = pid[i] /\ containers'[p][k] = i)
      <3>1. /\ containers \in [Pids -> [Running -> Invocations \cup {None}]]
            /\ containers[pid[i]] \in [Running -> Invocations \cup {None}]
        BY <1>1, GateTypes DEF GateTyped
      <3>2. CASE containers' = [containers EXCEPT ![pid[i]][at[i]] = i]
        <4>1. containers'[pid[i]] = [containers[pid[i]] EXCEPT ![at[i]] = i]
          BY <1>1, <3>1, <3>2
        <4> QED BY <1>1, <3>1, <3>2, <4>1
      <3> QED BY <1>2, <3>2
    <2>4. \A j \in Invocations \ {i} : Begun(j)' = Begun(j)
      BY <2>1 DEF Begun
    <2> QED BY <2>1, <2>2, <2>3, <2>4
  <1>5. GateTyped'
    <2>1. at' \in [Invocations -> Places] /\ failing' \in [Invocations -> BOOLEAN]
      BY <1>2, <1>3, GateTypes DEF GateTyped, Places, Running
    <2>2. tested' \in [Invocations -> SUBSET Images]
      BY <1>1, <1>2, GateTypes DEF GateTyped
    <2>3. containers' \in [Pids -> [Running -> Invocations \cup {None}]]
      <3>1. containers[pid[i]] \in [Running -> Invocations \cup {None}]
        BY <1>1, GateTypes DEF GateTyped
      <3>2. [containers[pid[i]] EXCEPT ![at[i]] = i] \in [Running -> Invocations \cup {None}]
        BY <3>1
      <3> QED BY <1>1, <1>2, <3>2, GateTypes DEF GateTyped
    <2> QED BY <1>1, <2>1, <2>2, <2>3, GateTypes DEF GateTyped
  <1>6. IdsDiffer'
    BY <1>1, <1>4, GateTypes DEF IdsDiffer
  <1>7. Named'
    <2>1. \A j \in Invocations : at[j] \notin Clear => at'[j] \notin Clear
      BY <1>4 DEF Clear, Early
    <2>2. at'[i] \notin Clear
      BY <1>4 DEF Clear, Early
    <2> QED BY <1>1, <1>4, <2>1, <2>2, GateTypes DEF Named
  <1>8. ASSUME NEW j \in Invocations
        PROVE  OwnImage(j)' /\ Evidence(j)' /\ (at'[j] = "passed" => ~failing'[j])
    <2>1. CASE j # i
      BY <1>1, <1>4, <2>1, GateTypes DEF OwnImage, Evidence
    <2>2. CASE j = i
      <3>1. OwnImage(i)'
        BY <1>1, <1>4, NoneIsNothing DEF OwnImage, Early
      <3>2. Evidence(i)'
        <4> SUFFICES ASSUME ~edited[i], ~failing[i], ~failing'[i]
                     PROVE  Evidence(i)'
          BY <1>1, <1>4 DEF Evidence
        <4>1. /\ Findings(tree) = {} /\ tree.dependencies /\ ModeAccepted(env[i])
              /\ images[pid[i]].tree = tree
          BY <1>1, GateTypes DEF Evidence
        <4> QED BY <1>1, <1>4, <4>1 DEF Evidence
      <3> QED BY <1>4, <2>2, <3>1, <3>2
    <2> QED BY <2>1, <2>2
  <1> QED BY <1>5, <1>6, <1>7, <1>8 DEF GateInv

(* One removal: of an image or a container, or a failed one.               *)
LEMMA CleanupHow ==
    ASSUME GateInv, NEW i \in Invocations, Cleanup(i)
    PROVE  /\ at[i] = "cleanup" /\ Begun(i) /\ pid[i] \in Pids
           /\ removing[i] \in 0..3 /\ removing' = [removing EXCEPT ![i] = @ + 1]
           /\ Trap[removing[i] + 1] \in Running \cup {"image"}
           /\ \/ stuck' = stuck /\ Removed(i, Trap[removing[i] + 1])
              \/ /\ stuck' = [stuck EXCEPT ![i] = @ \cup {Trap[removing[i] + 1]}]
                 /\ UNCHANGED <<images, containers>>
           /\ \A p \in Pids :
                 /\ images'[p] = images[p] \/ (p = pid[i] /\ images'[p] = None)
                 /\ \A k \in Running :
                       \/ containers'[p][k] = containers[p][k]
                       \/ p = pid[i] /\ containers'[p][k] = None
           /\ images' \in [Pids -> Images \cup {None}]
           /\ containers' \in [Pids -> [Running -> Invocations \cup {None}]]
           /\ UNCHANGED <<tree, edits, at, pid, env, failing, edited, tested>>
  <1> DEFINE what == Trap[removing[i] + 1]
  <1>1. /\ at[i] = "cleanup" /\ Begun(i) /\ pid[i] \in Pids
        /\ removing[i] \in 0..3 /\ removing' = [removing EXCEPT ![i] = @ + 1]
        /\ UNCHANGED <<tree, edits, at, pid, env, failing, edited, tested>>
    BY TrapInOrder, GateTypes DEF Cleanup, GateTyped
  <1>2. what \in Running \cup {"image"}
    BY <1>1, TrapInOrder DEF Running
  <1>3. \/ stuck' = stuck /\ Removed(i, what)
        \/ stuck' = [stuck EXCEPT ![i] = @ \cup {what}] /\ UNCHANGED <<images, containers>>
    BY DEF Cleanup, docker
  <1> HIDE DEF what
  <1>4. \/ UNCHANGED <<images, containers>>
        \/ images' = [images EXCEPT ![pid[i]] = None] /\ UNCHANGED containers
        \/ /\ what \in Running /\ UNCHANGED images
           /\ containers' = [containers EXCEPT ![pid[i]][what] = None]
    BY <1>2, <1>3 DEF Removed, RunId
  <1>5. /\ images \in [Pids -> Images \cup {None}]
        /\ containers \in [Pids -> [Running -> Invocations \cup {None}]]
    BY GateTypes DEF GateTyped
  <1>6. /\ images' \in [Pids -> Images \cup {None}]
        /\ \A p \in Pids : images'[p] = images[p] \/ (p = pid[i] /\ images'[p] = None)
    BY <1>1, <1>4, <1>5
  <1>7. /\ containers' \in [Pids -> [Running -> Invocations \cup {None}]]
        /\ \A p \in Pids : \A k \in Running :
              \/ containers'[p][k] = containers[p][k]
              \/ p = pid[i] /\ containers'[p][k] = None
    <2>1. CASE UNCHANGED containers
      BY <1>5, <2>1
    <2>2. CASE what \in Running /\ containers' = [containers EXCEPT ![pid[i]][what] = None]
      <3>1. containers[pid[i]] \in [Running -> Invocations \cup {None}]
        BY <1>1, <1>5
      <3>2. [containers[pid[i]] EXCEPT ![what] = None] \in [Running -> Invocations \cup {None}]
        BY <3>1
      <3>3. containers'[pid[i]] = [containers[pid[i]] EXCEPT ![what] = None]
        BY <1>1, <1>5, <2>2
      <3> QED BY <1>1, <1>5, <2>2, <3>1, <3>2, <3>3
    <2> QED BY <1>4, <2>1, <2>2
  <1> QED BY <1>1, <1>2, <1>3, <1>6, <1>7 DEF what

LEMMA CleanupGate ==
    ASSUME GateInv, NEW i \in Invocations, Cleanup(i)
    PROVE  GateInv'
  <1>1. /\ at[i] = "cleanup" /\ Begun(i) /\ pid[i] \in Pids
        /\ UNCHANGED <<tree, edits, at, pid, env, failing, edited, tested>>
        /\ \A p \in Pids :
              /\ images'[p] = images[p] \/ (p = pid[i] /\ images'[p] = None)
              /\ \A k \in Running : \/ containers'[p][k] = containers[p][k]
                                    \/ containers'[p][k] = None
    BY CleanupHow
  <1>2. GateTyped'
    <2>1. removing' \in [Invocations -> 0..4]
      BY CleanupHow, GateTypes DEF GateTyped
    <2>2. stuck' \in [Invocations -> SUBSET (Running \cup {"image"})]
      <3> DEFINE what == Trap[removing[i] + 1]
      <3>1. /\ what \in Running \cup {"image"}
            /\ stuck' = stuck \/ stuck' = [stuck EXCEPT ![i] = @ \cup {what}]
        BY CleanupHow
      <3> HIDE DEF what
      <3> QED BY <3>1, GateTypes DEF GateTyped
    <2> QED BY <1>1, <2>1, <2>2, CleanupHow, GateTypes DEF GateTyped
  <1>3. IdsDiffer'
    BY <1>1, GateTypes DEF IdsDiffer, Begun
  <1>4. Named'
    BY <1>1, GateTypes DEF Named
  <1>5. ASSUME NEW j \in Invocations
        PROVE  OwnImage(j)' /\ Evidence(j)' /\ (at'[j] = "passed" => ~failing'[j])
    <2>1. at[j] \in Running => images'[pid[j]] = images[pid[j]]
      <3>1. at[j] \in Running => Begun(j) /\ j # i /\ pid[j] \in Pids
        BY <1>1, GateTypes DEF Running
      <3> QED BY <1>1, <3>1, GateTypes DEF IdsDiffer
    <2>2. OwnImage(j)'
      BY <1>1, <2>1, GateTypes DEF OwnImage
    <2>3. Evidence(j)'
      BY <1>1, <2>1, GateTypes DEF Evidence
    <2> QED BY <1>1, <2>2, <2>3, GateTypes
  <1> QED BY <1>2, <1>3, <1>4, <1>5 DEF GateInv

LEMMA ExitGate ==
    ASSUME GateInv, NEW i \in Invocations, Exit(i)
    PROVE  GateInv'
  <1>1. /\ at[i] = "cleanup"
        /\ at' = [at EXCEPT ![i] = IF failing[i] THEN "failed" ELSE "passed"]
        /\ UNCHANGED <<tree, edits, pid, env, failing, images, containers, removing, stuck,
                       edited, tested>>
    BY DEF Exit, docker, trap
  <1>2. /\ at'[i] = (IF failing[i] THEN "failed" ELSE "passed")
        /\ \A j \in Invocations \ {i} : at'[j] = at[j] /\ Begun(j)' = Begun(j)
        /\ ~Begun(i)'
    BY <1>1, GateTypes DEF GateTyped, Begun, Over
  <1>3. GateTyped'
    BY <1>1, GateTypes DEF GateTyped, Places, Over
  <1>4. IdsDiffer'
    BY <1>1, <1>2, GateTypes DEF IdsDiffer
  <1>5. Named'
    <2>1. \A j \in Invocations : at[j] \notin Clear => at'[j] \notin Clear
      BY <1>1, <1>2 DEF Clear, Early
    <2> QED BY <1>1, <2>1, GateTypes DEF Named
  <1>6. ASSUME NEW j \in Invocations
        PROVE  OwnImage(j)' /\ Evidence(j)' /\ (at'[j] = "passed" => ~failing'[j])
    <2>1. CASE j # i
      <3>1. at'[j] = at[j]
        BY <1>2, <2>1
      <3>2. OwnImage(j)' /\ (at'[j] = "passed" => ~failing'[j])
        BY <1>1, <3>1, GateTypes DEF OwnImage
      <3>3. Evidence(j)'
        BY <1>1, <3>1, GateTypes DEF Evidence
      <3> QED BY <3>2, <3>3
    <2>2. CASE j = i
      <3>1. at'[i] \in {"failed", "passed"} /\ (at'[i] = "passed" => ~failing'[i])
        BY <1>1, <1>2
      <3>2. OwnImage(i)'
        BY <1>1, <3>1, GateTypes DEF OwnImage, Early, Running
      <3>3. Evidence(i)'
        BY <1>1, <3>1, GateTypes DEF Evidence, Running
      <3> QED BY <2>2, <3>1, <3>2, <3>3
    <2> QED BY <2>1, <2>2
  <1> QED BY <1>3, <1>4, <1>5, <1>6 DEF GateInv

LEMMA EditGate ==
    ASSUME GateInv, NEW p \in Trees, Edit(p)
    PROVE  GateInv'
  <1>1. /\ tree' = p /\ edits' = edits + 1 /\ edits < MaxEdits
        /\ edited' = [i \in Invocations |-> edited[i] \/ Begun(i)]
        /\ UNCHANGED <<at, pid, env, failing, images, containers, removing, stuck, tested>>
    BY DEF Edit, docker, trap
  <1>2. GateTyped'
    BY <1>1, GateTypes, EditsAssumption DEF GateTyped
  <1>3. IdsDiffer' /\ Named'
    BY <1>1, GateTypes DEF IdsDiffer, Named, Begun
  <1>4. ASSUME NEW j \in Invocations
        PROVE  OwnImage(j)' /\ Evidence(j)' /\ (at'[j] = "passed" => ~failing'[j])
    <2>1. OwnImage(j)' /\ (at'[j] = "passed" => ~failing'[j])
      BY <1>1, GateTypes DEF OwnImage
    <2>2. CASE Begun(j)
      <3>1. edited'[j]
        BY <1>1, <2>2
      <3>2. Evidence(j)'
        BY <3>1 DEF Evidence
      <3> QED BY <2>1, <3>2
    <2>3. CASE ~Begun(j)
      <3>1. ~edited'[j] => ~edited[j]
        BY <1>1
      <3>2. at[j] \notin {"cleanup"} \cup Early \cup Running
        BY <2>3, GateTypes
      <3>3. Evidence(j)'
        BY <1>1, <3>1, <3>2, GateTypes DEF Evidence, Early, Running
      <3> QED BY <2>1, <3>3
    <2> QED BY <2>2, <2>3
  <1> QED BY <1>2, <1>3, <1>4 DEF GateInv

LEMMA StepGate == GateInv /\ [Next]_vars => GateInv'
  <1> SUFFICES ASSUME GateInv, [Next]_vars
               PROVE  GateInv'
    OBVIOUS
  <1>1. CASE UNCHANGED vars
    <2>1. /\ UNCHANGED <<tree, edits, at, pid, env, failing, removing, stuck, edited, tested>>
          /\ images' = images /\ containers' = containers
      BY <1>1 DEF vars
    <2>2. GateTyped' /\ IdsDiffer' /\ Named'
      BY <2>1, GateTypes DEF GateTyped, IdsDiffer, Named, Begun
    <2>3. \A i \in Invocations : OwnImage(i)' /\ Evidence(i)' /\ (at'[i] = "passed" => ~failing'[i])
      BY <2>1, GateTypes DEF OwnImage, Evidence
    <2> QED BY <2>2, <2>3 DEF GateInv
  <1> QED BY <1>1, MovesGate, BeginGate, BuildGate, InstallGate, CleanupGate, ExitGate, EditGate
          DEF Next, Moves

LEMMA GateHolds == Spec => []GateInv
  BY InitGate, StepGate, PTL DEF Spec

-----------------------------------------------------------------------------
(* The trap: behind its position nothing of its invocation stands but what *)
(* a removal failed for, whoever else moves.                               *)

Left(i, what) ==
    IF what = "image" THEN images[pid[i]] # None /\ images[pid[i]].by = i
    ELSE containers[pid[i]][what] = i

Tidy(i) ==
    /\ at[i] \notin {"cleanup", "passed", "failed", "killed"} => removing[i] = 0
    /\ at[i] \in {"passed", "failed"} => removing[i] = 4
    /\ at[i] \in {"cleanup", "passed", "failed"} =>
          \A n \in 1..removing[i] : Left(i, Trap[n]) => Trap[n] \in stuck[i]

Tidied == \A i \in Invocations : Tidy(i)

(* A step of another invocation, or of whoever edits, leaves its history   *)
(* alone and puts nothing under its names that counts as its own.          *)
LEMMA OthersDoNotMatter ==
    ASSUME GateInv, NEW i \in Invocations, Tidy(i), at' \in [Invocations -> Places],
           at'[i] = at[i], pid'[i] = pid[i], removing'[i] = removing[i], stuck'[i] = stuck[i],
           \A p \in Pids : /\ \/ images'[p] = images[p] \/ images'[p] = None
                              \/ images'[p].by # i
                           /\ \A k \in Running : containers'[p][k] = i => containers[p][k] = i
    PROVE  Tidy(i)'
  <1> SUFFICES ASSUME at[i] \in {"cleanup", "passed", "failed"}
               PROVE  \A n \in 1..removing[i] : Left(i, Trap[n])' => Trap[n] \in stuck[i]
    BY DEF Tidy
  <1>1. pid[i] \in Pids
    BY GateTypes DEF IdsDiffer
  <1>2. ASSUME NEW n \in 1..removing[i]
        PROVE  Trap[n] \in Running \cup {"image"}
    <2>1. n \in 1..4
      BY GateTypes DEF GateTyped
    <2> QED BY <2>1, TrapInOrder DEF Running
  <1>3. ASSUME NEW what \in Running \cup {"image"}, Left(i, what)'
        PROVE  Left(i, what)
    BY <1>1, <1>3 DEF Left, Running
  <1> QED BY <1>2, <1>3 DEF Tidy

LEMMA BeforeTheTrap ==
    ASSUME NEW i \in Invocations, removing[i] = 0, removing'[i] = 0,
           at'[i] \notin {"passed", "failed"}
    PROVE  Tidy(i)'
  <1>1. 1..removing'[i] = {}
    OBVIOUS
  <1> QED BY <1>1 DEF Tidy

LEMMA StepTidy == GateInv /\ Tidied /\ [Next]_vars => Tidied'
  <1> SUFFICES ASSUME GateInv, Tidied, [Next]_vars, NEW i \in Invocations
               PROVE  Tidy(i)'
    BY DEF Tidied
  <1>0. /\ Tidy(i) /\ at \in [Invocations -> Places] /\ at' \in [Invocations -> Places]
        /\ pid \in [Invocations -> Pids \cup {None}]
        /\ removing \in [Invocations -> 0..4]
        /\ stuck \in [Invocations -> SUBSET (Running \cup {"image"})]
        /\ images \in [Pids -> Images \cup {None}]
        /\ containers \in [Pids -> [Running -> Invocations \cup {None}]]
    BY StepGate, GateTypes DEF Tidied, GateInv, GateTyped
  <1>1. CASE UNCHANGED vars
    BY <1>0, <1>1, OthersDoNotMatter DEF vars
  <1>2. ASSUME NEW p \in Trees, Edit(p)
        PROVE  Tidy(i)'
    BY <1>0, <1>2, OthersDoNotMatter DEF Edit, docker, trap
  <1>3. ASSUME NEW j \in Invocations, Moves(j)
        PROVE  Tidy(i)'
    <2>1. CASE j # i
      BY <1>0, <1>3, <2>1, MovesHow, GateTypes, OthersDoNotMatter
    <2>2. CASE j = i /\ at'[i] = "killed"
      BY <2>2 DEF Tidy
    <2>3. CASE j = i /\ at'[i] # "killed"
      <3>1. /\ at[i] \in Early \cup Running /\ removing' = removing
            /\ at'[i] \notin {"passed", "failed"}
        BY <1>3, <2>3, MovesHow, GateTypes DEF Early
      <3>2. removing[i] = 0
        BY <1>0, <3>1 DEF Tidy, Early, Running
      <3> QED BY <3>1, <3>2, BeforeTheTrap
    <2> QED BY <2>1, <2>2, <2>3
  <1>4. ASSUME NEW j \in Invocations, Begin(j)
        PROVE  Tidy(i)'
    <2>1. /\ at[j] = "idle" /\ at' = [at EXCEPT ![j] = "policy-self-tests"]
          /\ \A k \in Invocations \ {j} : pid'[k] = pid[k]
          /\ UNCHANGED <<images, containers, removing, stuck>>
      BY <1>0, <1>4, PhasesInOrder DEF Begin, docker, trap
    <2>2. CASE j # i
      BY <1>0, <2>1, <2>2, OthersDoNotMatter
    <2>3. CASE j = i
      <3>1. removing[i] = 0 /\ at'[i] = "policy-self-tests"
        BY <1>0, <2>1, <2>3 DEF Tidy
      <3> QED BY <2>1, <3>1, BeforeTheTrap
    <2> QED BY <2>2, <2>3
  <1>5. ASSUME NEW j \in Invocations, Build(j)
        PROVE  Tidy(i)'
    <2>1. /\ at[j] = "package-build" /\ at' = [at EXCEPT ![j] = "base"]
          /\ images' = [images EXCEPT ![pid[j]] = [by |-> j, tree |-> tree]]
          /\ UNCHANGED <<pid, containers, removing, stuck>>
      BY <1>0, <1>5, PhaseOrder DEF Build, Passes, RunId, trap
    <2>2. CASE j # i
      BY <1>0, <2>1, <2>2, OthersDoNotMatter
    <2>3. CASE j = i
      <3>1. removing[i] = 0 /\ at'[i] = "base"
        BY <1>0, <2>1, <2>3 DEF Tidy
      <3> QED BY <2>1, <3>1, BeforeTheTrap
    <2> QED BY <2>2, <2>3
  <1>6. ASSUME NEW j \in Invocations, Install(j)
        PROVE  Tidy(i)'
    <2>1. /\ at[j] \in Running /\ pid[j] \in Pids
          /\ UNCHANGED <<pid, images, removing, stuck>>
          /\ \/ containers' = containers
             \/ containers' = [containers EXCEPT ![pid[j]][at[j]] = j]
          /\ \/ at' = [at EXCEPT ![j] = After(@)]
             \/ at' = [at EXCEPT ![j] = "cleanup"]
      BY <1>6, PhaseNames, GateTypes DEF Install, Passes, Fails, RunId, trap
    <2>2. CASE j # i
      <3>1. ASSUME NEW p \in Pids, NEW k \in Running, containers'[p][k] = i
            PROVE  containers[p][k] = i
        <4>1. containers[pid[j]] \in [Running -> Invocations \cup {None}]
          BY <1>0, <2>1
        <4> QED BY <1>0, <2>1, <2>2, <3>1, <4>1
      <3>2. at'[i] = at[i]
        BY <1>0, <2>1, <2>2
      <3> QED BY <1>0, <2>1, <3>1, <3>2, OthersDoNotMatter
    <2>3. CASE j = i
      <3>1. removing[i] = 0
        BY <1>0, <2>1, <2>3 DEF Tidy, Running
      <3>2. at'[i] \in {"verification", "fastapi", "cleanup"}
        BY <1>0, <2>1, <2>3, PhaseOrder DEF Running
      <3> QED BY <2>1, <3>1, <3>2, BeforeTheTrap
    <2> QED BY <2>2, <2>3
  <1>7. ASSUME NEW j \in Invocations, Cleanup(j)
        PROVE  Tidy(i)'
    <2>1. CASE j # i
      <3>1. removing'[i] = removing[i] /\ stuck'[i] = stuck[i] /\ UNCHANGED <<at, pid>>
        BY <1>0, <1>7, <2>1, CleanupHow
      <3>2. \A p \in Pids : /\ images'[p] = images[p] \/ images'[p] = None
                           /\ \A k \in Running : containers'[p][k] = i => containers[p][k] = i
        BY <1>7, CleanupHow, NoneIsNothing
      <3> QED BY <1>0, <3>1, <3>2, OthersDoNotMatter
    <2>2. CASE j = i
      <3>0. PICK what \in Running \cup {"image"} : what = Trap[removing[i] + 1]
        BY <1>7, <2>2, CleanupHow
      <3>1. /\ at[i] = "cleanup" /\ UNCHANGED <<at, pid>> /\ pid[i] \in Pids
            /\ removing[i] \in 0..3
            /\ removing'[i] = removing[i] + 1
            /\ \/ stuck' = stuck /\ Removed(i, what)
               \/ /\ stuck' = [stuck EXCEPT ![i] = @ \cup {what}]
                  /\ UNCHANGED <<images, containers>>
        BY <1>0, <1>7, <2>2, <3>0, CleanupHow
      <3>2. ASSUME NEW other \in Running \cup {"image"}, Left(i, other)'
            PROVE  Left(i, other) /\ stuck[i] \subseteq stuck'[i]
        <4>1. images'[pid[i]] = images[pid[i]] \/ images'[pid[i]] = None
          BY <1>7, <2>2, <3>1, CleanupHow
        <4>2. \A k \in Running : \/ containers'[pid[i]][k] = containers[pid[i]][k]
                                \/ containers'[pid[i]][k] = None
          BY <1>7, <2>2, <3>1, CleanupHow
        <4>3. stuck[i] \subseteq stuck'[i]
          BY <1>0, <3>1
        <4> QED BY <3>1, <3>2, <4>1, <4>2, <4>3, NoneIsNothing DEF Left
      <3>3. Left(i, what)' => what \in stuck'[i]
        <4>1. CASE UNCHANGED <<images, containers>> /\ stuck' = [stuck EXCEPT ![i] = @ \cup {what}]
          BY <1>0, <4>1
        <4>2. CASE Removed(i, what) /\ what = "image"
          BY <1>0, <3>1, <4>2 DEF Removed, RunId, Left
        <4>3. CASE Removed(i, what) /\ what # "image"
          <5>1. /\ containers' = [containers EXCEPT ![pid[i]][what] = None]
                /\ containers[pid[i]] \in [Running -> Invocations \cup {None}] /\ what \in Running
            BY <1>0, <3>1, <4>3 DEF Removed, RunId
          <5>2. containers'[pid[i]] = [containers[pid[i]] EXCEPT ![what] = None]
            BY <1>0, <3>1, <5>1
          <5>3. containers'[pid[i]][what] = None
            BY <5>1, <5>2
          <5> QED BY <3>1, <4>3, <5>3, NoneIsNothing DEF Left
        <4> QED BY <3>1, <4>1, <4>2, <4>3
      <3>4. ASSUME NEW n \in 1..removing'[i], Left(i, Trap[n])'
            PROVE  Trap[n] \in stuck'[i]
        <4>1. CASE n = removing[i] + 1
          BY <3>0, <3>3, <3>4, <4>1
        <4>2. CASE n # removing[i] + 1
          <5>1. n \in 1..removing[i] /\ n \in 1..4
            BY <3>1, <3>4, <4>2
          <5>2. Trap[n] \in Running \cup {"image"}
            BY <5>1, TrapInOrder DEF Running
          <5>3. Left(i, Trap[n]) /\ stuck[i] \subseteq stuck'[i]
            BY <3>2, <3>4, <5>2
          <5> QED BY <1>0, <3>1, <5>1, <5>3 DEF Tidy
        <4> QED BY <4>1, <4>2
      <3> QED BY <3>1, <3>4 DEF Tidy
    <2> QED BY <2>1, <2>2
  <1>8. ASSUME NEW j \in Invocations, Exit(j)
        PROVE  Tidy(i)'
    <2>1. /\ at[j] = "cleanup" /\ removing[j] = 4
          /\ at' = [at EXCEPT ![j] = IF failing[j] THEN "failed" ELSE "passed"]
          /\ UNCHANGED <<pid, images, containers, removing, stuck>>
      BY <1>8, TrapInOrder DEF Exit, docker, trap
    <2>2. CASE j # i
      BY <1>0, <2>1, <2>2, OthersDoNotMatter
    <2>3. CASE j = i
      <3>1. at'[i] \in {"failed", "passed"}
        BY <1>0, <2>1, <2>3
      <3> QED BY <1>0, <2>1, <2>3, <3>1 DEF Tidy, Left
    <2> QED BY <2>2, <2>3
  <1> QED BY <1>1, <1>2, <1>3, <1>4, <1>5, <1>6, <1>7, <1>8 DEF Next, Moves

LEMMA TidyHolds == Spec => []Tidied
  <1>1. Init => Tidied
    BY DEF Init, Tidied, Tidy
  <1> QED BY <1>1, GateHolds, StepTidy, PTL DEF Spec

-----------------------------------------------------------------------------
(* What the gate guarantees.                                               *)

(* Names and ids stay what test.sh takes them for.                         *)
THEOREM GateTypeCorrect == Spec => []TypeOK
  <1>1. GateInv => TypeOK
    <2> SUFFICES ASSUME GateInv
                 PROVE  TypeOK
      OBVIOUS
    <2>1. /\ tree \in Trees /\ edits \in 0..MaxEdits
          /\ at \in [Invocations -> {"idle", "cleanup"} \cup ToSet(Phases) \cup Over]
          /\ pid \in [Invocations -> Pids \cup {None}] /\ env \in [Invocations -> Environments]
          /\ failing \in [Invocations -> BOOLEAN] /\ edited \in [Invocations -> BOOLEAN]
          /\ containers \in [Pids -> [ToSet(Installs) -> Invocations \cup {None}]]
          /\ removing \in [Invocations -> 0..Len(Trap)]
          /\ stuck \in [Invocations -> SUBSET ToSet(Trap)]
      <3>1. {"idle", "cleanup"} \cup ToSet(Phases) \cup Over = Places
        BY PhaseNames DEF Places
      <3> QED BY <3>1, PhaseNames, TrapInOrder, GateTypes DEF GateTyped
    <2>2. \A p \in Pids :
             /\ images[p] # None => pid[images[p].by] = p /\ images[p].tree \in Trees
             /\ \A k \in ToSet(Installs) : containers[p][k] # None => pid[containers[p][k]] = p
      BY PhaseNames, GateTypes DEF Named, Images
    <2> QED BY <2>1, <2>2 DEF TypeOK
  <1> QED BY <1>1, GateHolds, PTL

(* An invocation installs the one image it built, never one that a killed  *)
(* invocation left under the name its id gives it.                         *)
THEOREM NoStaleImageIsTested == Spec => []TestsItsOwnBuild
  <1>1. GateInv => TestsItsOwnBuild
    <2> SUFFICES ASSUME GateInv, NEW i \in Invocations
                 PROVE  Cardinality(tested[i]) <= 1 /\ \A image \in tested[i] : image.by = i
      BY DEF TestsItsOwnBuild
    <2>1. \A a, b \in tested[i] : a.by = i /\ a = b
      BY GateTypes DEF OwnImage
    <2>2. CASE tested[i] = {}
      BY <2>1, <2>2, FS_EmptySet
    <2>3. CASE \E a : a \in tested[i]
      <3>1. PICK a : tested[i] = {a}
        BY <2>1, <2>3
      <3>2. Cardinality({a}) = 1
        BY FS_Singleton
      <3> QED BY <2>1, <3>1, <3>2
    <2> QED BY <2>2, <2>3
  <1> QED BY <1>1, GateHolds, PTL

(* Whatever fails, the trap of an invocation that was not killed goes      *)
(* through all its removals, and nothing that the invocation made stays    *)
(* but what a failed removal left.                                         *)
THEOREM OnlyFailedRemovalsLeaveAnything == Spec => []OnlyStuckStays
  <1>1. GateInv /\ Tidied => OnlyStuckStays
    <2> SUFFICES ASSUME GateInv, Tidied, NEW i \in Invocations, at[i] \in {"passed", "failed"},
                        NEW p \in Pids
                 PROVE  /\ images[p] # None /\ images[p].by = i => "image" \in stuck[i]
                        /\ \A k \in Running : containers[p][k] = i => k \in stuck[i]
      BY PhaseNames DEF OnlyStuckStays
    <2>1. \A what \in Running \cup {"image"} : Left(i, what) => what \in stuck[i]
      <3>1. removing[i] = 4
        BY DEF Tidied, Tidy
      <3>2. ASSUME NEW what \in Running \cup {"image"}
            PROVE  \E n \in 1..removing[i] : Trap[n] = what
        BY <3>1, TrapInOrder DEF Running
      <3> QED BY <3>2 DEF Tidied, Tidy
    <2>2. images[p] # None /\ images[p].by = i => p = pid[i]
      BY GateTypes DEF Named
    <2>3. \A k \in Running : containers[p][k] = i => p = pid[i]
      BY GateTypes, NoneIsNothing DEF Named
    <2>4. \A k \in Running : k # "image"
      BY DEF Running
    <2> QED BY <2>1, <2>2, <2>3, <2>4 DEF Left
  <1> QED BY <1>1, GateHolds, TidyHolds, PTL

(* Side by side, no invocation takes image or container from a live one.   *)
THEOREM InvocationsAreApart == Spec => OthersAreLeftAlone
  <1>1. GateInv /\ [Next]_vars =>
          [\A p \in Pids, i \in Invocations :
             /\ images[p] # None /\ images[p].by = i /\ images'[p] # images[p]
                => at[i] = "cleanup" \/ ~Begun(i)
             /\ \A k \in ToSet(Installs) : containers[p][k] = i /\ containers'[p][k] # i
                => at[i] = "cleanup" \/ ~Begun(i)]_vars
    <2> SUFFICES ASSUME GateInv, Next, NEW p \in Pids, NEW i \in Invocations, Begun(i)
                 PROVE  /\ images[p] # None /\ images[p].by = i /\ images'[p] # images[p]
                           => at[i] = "cleanup"
                        /\ \A k \in Running : containers[p][k] = i /\ containers'[p][k] # i
                           => at[i] = "cleanup"
      BY PhaseNames
    <2>0. /\ images \in [Pids -> Images \cup {None}]
          /\ containers \in [Pids -> [Running -> Invocations \cup {None}]]
      BY GateTypes DEF GateTyped
    <2>1. ASSUME NEW j \in Invocations, Build(j), images[p] # None, images[p].by = i,
                 images'[p] # images[p]
          PROVE  at[i] = "cleanup"
      <3>1. pid[j] = p /\ pid[i] = p /\ Begun(j) /\ at[j] = "package-build"
        BY <2>0, <2>1, GateTypes DEF Build, RunId, Named, Early
      <3>2. i = j
        BY <3>1, GateTypes DEF IdsDiffer
      <3> QED BY <2>1, <3>1, <3>2, GateTypes DEF Named, Clear, Early
    <2>2. ASSUME NEW j \in Invocations, Cleanup(j), pid[j] = p, pid[i] = p
          PROVE  at[i] = "cleanup"
      <3>1. Begun(j) /\ at[j] = "cleanup"
        BY <2>2, GateTypes DEF Cleanup
      <3> QED BY <2>2, <3>1, GateTypes DEF IdsDiffer
    <2>3. ASSUME NEW j \in Invocations, Install(j), NEW k \in Running, containers[p][k] = i
          PROVE  containers'[p][k] = i
      <3>1. \/ containers' = containers
            \/ /\ containers' = [containers EXCEPT ![pid[j]][at[j]] = j]
               /\ containers[pid[j]][at[j]] = None /\ at[j] \in Running /\ pid[j] \in Pids
        BY <2>3, PhaseNames, GateTypes DEF Install, RunId
      <3>2. containers[pid[j]][at[j]] = None => ~(p = pid[j] /\ k = at[j])
        BY <2>3, NoneIsNothing
      <3>3. containers[p] = [n \in Running |-> containers[p][n]]
        BY <2>0
      <3> QED BY <2>0, <2>3, <3>1, <3>2, <3>3
    <2>4. images[p] # None /\ images[p].by = i => pid[i] = p
      BY GateTypes DEF Named
    <2>5. \A k \in Running : containers[p][k] = i => pid[i] = p
      BY GateTypes, NoneIsNothing DEF Named
    <2>6. ASSUME NEW j \in Invocations, Cleanup(j), pid[j] # p
          PROVE  images'[p] = images[p] /\ containers'[p] = containers[p]
      BY <2>0, <2>6 DEF Cleanup, Removed, RunId, docker
    <2>7. CASE \/ \E j \in Invocations : Moves(j) \/ Begin(j) \/ Exit(j)
               \/ \E q \in Trees : Edit(q)
      BY <2>7, MovesHow, GateTypes DEF Begin, Exit, Edit, docker
    <2>8. ASSUME NEW j \in Invocations, Build(j)
          PROVE  containers' = containers
      BY <2>8 DEF Build
    <2>9. ASSUME NEW j \in Invocations, Install(j)
          PROVE  images' = images
      BY <2>9 DEF Install
    <2> QED BY <2>1, <2>2, <2>3, <2>4, <2>5, <2>6, <2>7, <2>8, <2>9 DEF Next, Moves
  <1> QED BY <1>1, GateHolds, PTL DEF Spec, OthersAreLeftAlone

(* Green is evidence: of accepted dependencies in any case, and of the     *)
(* packages that the policy decides also of what decision 0004 asks for.   *)
THEOREM GreenHoldsUp == Spec => []GreenIsEvidence
  <1>1. GateInv => GreenIsEvidence
    <2> SUFFICES ASSUME GateInv, NEW i \in Invocations, at[i] = "passed", ~edited[i]
                 PROVE  /\ \A image \in tested[i] :
                              /\ image.tree.dependencies
                              /\ Recognised(image.tree) => Clean(image.tree)
                        /\ tested[i] # {} /\ ModeAccepted(env[i])
      BY DEF GreenIsEvidence
    <2>1. /\ tested[i] # {} /\ ModeAccepted(env[i])
          /\ \A image \in tested[i] : Findings(image.tree) = {} /\ image.tree.dependencies
      BY GateTypes DEF Evidence
    <2>2. \A image \in tested[i] : image.tree \in Trees
      BY GateTypes DEF GateTyped, Images
    <2> QED BY <2>1, <2>2, ThePolicyDecides, TreesAssumption
  <1> QED BY <1>1, GateHolds, PTL

(* The policy refuses no package that it decides and that is in order.     *)
THEOREM NothingInOrderIsRefused == Spec => []CleanIsNotRefused
  <1>1. GateInv => CleanIsNotRefused
    BY ThePolicyDecides, TreesAssumption, GateTypes DEF CleanIsNotRefused, GateTyped
  <1> QED BY <1>1, GateHolds, PTL
=============================================================================
