-------------------------- MODULE PackageIntegrity --------------------------
(***************************************************************************)
(* The package-integrity policy of test_support/package_integrity.py as an *)
(* operator: what inspect_package finds in a package.  Source text is      *)
(* reduced to what the policy tells apart of the test classes and methods  *)
(* (candidates), of their decorators, and of the approved-skip document.   *)
(* A definition named Name_Fault is a faulty variation of Name that        *)
(* nothing uses (see Replay).                                              *)
(***************************************************************************)
EXTENDS Integers, Sequences, FiniteSets, SequencesExt

CONSTANTS Identities, Reasons

(* A decorator: unittest's skip, its skipIf or skipUnless, or another one, *)
(* written as a call with positional arguments, with keyword arguments, or *)
(* without a call.  `literal` says that the condition is True or False.    *)
Decorators ==
    [kind : {"skip", "conditional", "other"}, form : {"positional", "keywords", "bare"},
     literal : BOOLEAN, reason : Reasons \cup {"computed"}]

(* Where a test class stands: at the top of a file that discovery collects *)
(* ("collected"), of a test*.py in a directory of tests/ that is no package*)
(* ("unreached"), of another file under tests/ ("helper"), of a file under *)
(* src/ ("source"), or inside something ("nested").                        *)
Placings == {"collected", "unreached", "helper", "source", "nested"}

(* A test class or one of its methods.  The class names TestCase among its *)
(* bases or derives from a class that does.  `skips_itself`: what runs for *)
(* it (its body, setUp, the module) calls skipTest or raises SkipTest.     *)
Candidates ==
    [identity : Identities, base : {"TestCase", "derived"}, place : Placings,
     placeholder : BOOLEAN, skips_itself : BOOLEAN, decorators : SUBSET Decorators]

Entries ==
    [object : BOOLEAN, identity : Identities \cup {"blank"}, reason : Reasons \cup {"blank", "long"}]

(* What else the walk objects to, in tests or elsewhere: a file that does  *)
(* not parse, an import of pytest or of the legacy package, a handler that *)
(* is `pass`, a test function outside a class, a gate option.              *)
TestRootOnly == {"swallowed-exception", "hidden-test-function"}
Statements ==
    [kind : {"unparseable-python", "mutable-legacy-import", "pytest-import",
             "proof-changing-option"} \cup TestRootOnly, in_test_root : BOOLEAN]

PackageType(p) ==
    /\ p.candidates \subseteq Candidates
    /\ p.readable \in BOOLEAN /\ p.approvals \in Seq(Entries)
    /\ p.statements \subseteq Statements /\ p.dependencies \in BOOLEAN

-----------------------------------------------------------------------------
(* _read_approved_skips                                                    *)

WellFormed(e) == e.object /\ e.identity # "blank" /\ e.reason \notin {"blank", "long"}

Accepted(doc) ==
    {i \in DOMAIN doc :
        /\ WellFormed(doc[i])
        /\ \A j \in 1..(i - 1) : WellFormed(doc[j]) => doc[j].identity # doc[i].identity}

Approvals(p) == IF p.readable THEN {p.approvals[i] : i \in Accepted(p.approvals)} ELSE {}

ApprovalFindings(p) ==
    IF ~p.readable THEN {"invalid-skip-approval"}
    ELSE {IF WellFormed(p.approvals[i]) THEN "duplicate-skip-approval" ELSE "invalid-skip-approval" :
             i \in DOMAIN p.approvals \ Accepted(p.approvals)}

-----------------------------------------------------------------------------
(* inspect_package                                                         *)

(* _is_test_case looks at the names of the bases only, and classes that    *)
(* are not at the top of their file are reported, not inspected.           *)
IsTestCase(c) == c.base = "TestCase"
Inspected(p)  == {c \in p.candidates : IsTestCase(c) /\ c.place # "nested"}

(* _skip_decorator                                                         *)
IsSkip(d) == d.kind # "other" /\ d.form = "positional"

Judgement(p, c, d) ==
    CASE d.kind = "skip" -> "unconditional-skip"
      [] d.kind # "skip" /\ d.literal -> "literal-skip-condition"
      [] OTHER ->
            IF \A a \in Approvals(p) : a.identity # c.identity THEN "unapproved-skip"
            ELSE IF \A a \in Approvals(p) : a.identity = c.identity => a.reason # d.reason
                 THEN "skip-reason-mismatch" ELSE "approved"

Judgements(p, c) == {Judgement(p, c, d) : d \in {d \in c.decorators : IsSkip(d)}}

Encountered_Never(p) == {}

Encountered(p) == {c.identity : c \in {c \in Inspected(p) : "approved" \in Judgements(p, c)}}

(* in_test_root and not discoverable_file: a class under src/ is no        *)
(* finding, and discovery is taken to collect any file named test*.py.     *)
HiddenFile(c) == c.place = "helper"

Offences(p) ==
    {s.kind : s \in {s \in p.statements : s.kind \in TestRootOnly => s.in_test_root}}

Findings(p) ==
    ApprovalFindings(p)
    \cup ((UNION {Judgements(p, c) : c \in Inspected(p)}) \ {"approved"})
    \cup {"hidden-test-class" : c \in {c \in p.candidates : IsTestCase(c) /\ c.place = "nested"}}
    \cup {"hidden-test-file" : c \in {c \in Inspected(p) : HiddenFile(c)}}
    \cup {"placeholder-test" : c \in {c \in Inspected(p) : c.placeholder}}
    \cup {"stale-skip-approval" : a \in {a \in Approvals(p) : a.identity \notin Encountered(p)}}
    \cup Offences(p)

-----------------------------------------------------------------------------
(* What the policy is for, said without its algorithm (decision 0004).     *)

(* Whatever the decorator looks like, unittest skips the test.             *)
Skips(d) == d.kind # "other"

(* Packages in which every test and every skip is of the form the policy   *)
(* looks for: a base named TestCase, under tests/ in a package, skipped, if*)
(* at all, by a decorator called with positional arguments.                *)
Recognised(p) ==
    \A c \in p.candidates :
        /\ IsTestCase(c) /\ c.place \notin {"source", "unreached"} /\ ~c.skips_itself
        /\ \A d \in c.decorators : Skips(d) => IsSkip(d)

SkipsAreApproved(p) ==
    \A c \in p.candidates :
        /\ ~c.skips_itself
        /\ \A d \in c.decorators : Skips(d) =>
              /\ d.kind = "conditional" /\ ~d.literal
              /\ \E e \in ToSet(p.approvals) : e.identity = c.identity /\ e.reason = d.reason

TestsAreCollected(p) == \A c \in p.candidates : c.place = "collected" /\ ~c.placeholder

(* Handlers that swallow and bare functions are allowed outside the tests. *)
NothingForbidden(p) == \A s \in p.statements : s.kind \in TestRootOnly /\ ~s.in_test_root

ApprovalsAreUsed(p) ==
    /\ p.readable
    /\ \A e \in ToSet(p.approvals) : WellFormed(e)
    /\ \A i, j \in DOMAIN p.approvals :
          p.approvals[i].identity = p.approvals[j].identity => i = j
    /\ \A e \in ToSet(p.approvals) : \E c \in p.candidates : \E d \in c.decorators :
          Skips(d) /\ c.identity = e.identity /\ d.reason = e.reason

Clean(p) ==
    /\ SkipsAreApproved(p) /\ TestsAreCollected(p)
    /\ ApprovalsAreUsed(p) /\ NothingForbidden(p)
=============================================================================
