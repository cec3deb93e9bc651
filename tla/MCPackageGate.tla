---------------------------- MODULE MCPackageGate ----------------------------
(* Invocations over packages that are in order or wrong in one way, and    *)
(* the policy over more of them.                                           *)
EXTENDS PackageGate, TLC

CONSTANTS t1, t2, r1, r2

Conditional(form, reason) ==
    [kind |-> "conditional", form |-> form, literal |-> FALSE, reason |-> reason]
Unconditional(form) == [kind |-> "skip", form |-> form, literal |-> FALSE, reason |-> r1]
Always == [kind |-> "conditional", form |-> "positional", literal |-> TRUE, reason |-> r1]

Candidate(identity, base, place, placeholder, skips_itself, decorators) ==
    [identity |-> identity, base |-> base, place |-> place, placeholder |-> placeholder,
     skips_itself |-> skips_itself, decorators |-> decorators]
Test(identity, decorators) ==
    Candidate(identity, "TestCase", "collected", FALSE, FALSE, decorators)
Placed(place, base) == Candidate(t1, base, place, FALSE, FALSE, {})
Plain == Test(t2, {})

Approval(identity, reason) == [object |-> TRUE, identity |-> identity, reason |-> reason]

Statement(kind, in_test_root) == [kind |-> kind, in_test_root |-> in_test_root]

Tree(candidates, approvals, readable, statements, dependencies) ==
    [candidates |-> candidates, approvals |-> approvals, readable |-> readable,
     statements |-> statements, dependencies |-> dependencies]
Package(candidates, approvals) == Tree(candidates, approvals, TRUE, {}, TRUE)

Skipping == {{}, {Conditional("positional", r1)}, {Conditional("positional", r2)},
             {Conditional("positional", "computed")},
             {Conditional("positional", r1), Conditional("positional", r2)},
             {Unconditional("positional")}, {Always}}
Documents == {<<>>, <<Approval(t1, r1)>>, <<Approval(t2, r1)>>,
              <<Approval(t1, r1), Approval(t1, r2)>>, <<Approval("blank", r1)>>,
              <<Approval(t1, "long"), Approval(t1, r1)>>}

(* Packages that are in order or wrong in a way the policy looks for:      *)
(* every decorator against every approved-skip document, and one for each  *)
(* of the other rules.                                                     *)
SeenTrees ==
    {Package({Test(t1, ds), Plain}, doc) : ds \in Skipping, doc \in Documents}
    \cup {Tree({Plain}, <<>>, FALSE, {}, TRUE),
          Tree({Plain}, <<>>, TRUE, {Statement("pytest-import", FALSE)}, TRUE),
          Tree({Plain}, <<>>, TRUE, {Statement("swallowed-exception", TRUE)}, TRUE),
          Tree({Plain}, <<>>, TRUE, {Statement("swallowed-exception", FALSE)}, TRUE),
          Package({Placed("helper", "TestCase")}, <<>>),
          Package({Placed("nested", "TestCase")}, <<>>),
          Package({Candidate(t1, "TestCase", "collected", TRUE, FALSE, {})}, <<>>)}

(* Skips unittest obeys and the policy does not see, and tests the policy  *)
(* counts or overlooks and discovery does not collect.                     *)
UnseenSkips ==
    {Test(t2, {d}) :
        d \in {Unconditional("bare"), Unconditional("keywords"), Conditional("keywords", r1)}}
    \cup {Candidate(t2, "derived", "collected", FALSE, FALSE, {Unconditional("positional")}),
          Candidate(t2, "TestCase", "collected", FALSE, TRUE, {})}

UnseenTests == {Placed("source", "TestCase"), Placed("unreached", "TestCase"),
                Placed("helper", "derived")}

(* Packages with one of each.                                              *)
UnseenTrees == {Package({s, h}, <<>>) : s \in UnseenSkips, h \in UnseenTests}

(* One in order, one the policy refuses, and one the preflight refuses.    *)
MCTrees ==
    {Tree({Test(t1, {Conditional("positional", r1)}), Plain}, <<Approval(t1, r1)>>, TRUE,
          {Statement("swallowed-exception", FALSE)}, TRUE),
     Package({Test(t1, {Always}), Plain}, <<Approval(t1, r1)>>),
     Tree({Plain}, <<>>, TRUE, {}, FALSE)}

MCEnvironments == {[mode |-> "pinned", core_repo |-> "unset"],
                   [mode |-> "pinned", core_repo |-> "checkout"]}

(* Of more packages than the run has: what the policy passes of the forms  *)
(* it looks for is what decision 0004 wants, and each unseen skip and each *)
(* unseen test passes by itself.                                           *)
ASSUME \A p \in SeenTrees : Recognised(p) /\ (Findings(p) = {} => Clean(p))
ASSUME \A p \in {Package({s, Plain}, <<>>) : s \in UnseenSkips} :
          Findings(p) = {} /\ ~SkipsAreApproved(p) /\ TestsAreCollected(p)
ASSUME \A p \in {Package({h, Plain}, <<>>) : h \in UnseenTests} :
          Findings(p) = {} /\ SkipsAreApproved(p) /\ ~TestsAreCollected(p)

(* The packages are told apart before the invocations start.               *)
ASSUME Cardinality(MCTrees \cup UnseenTrees) > Cardinality(UnseenTests)

Symmetric == Permutations(Invocations) \cup Permutations(Pids)
=============================================================================
