# Verification of control-plane-kit-server-sdk

TLA+ models of the server SDK, TLC runs that check them on small instances, and
TLAPS proofs about them for every value of their constants. Paths are relative
to the repository root; `_replay.py` and its siblings live in
`src/control_plane_kit_server_sdk/`.

## 1. The system

The SDK lets a workload expose *control-plane variables* over four HTTP routes
under `/__control`. A message is bounded and framed on the event loop, handed to
a thread pool, admitted by a signature verifier, bound to the exact target,
looked up in the registry, and then answered by the variable. An APPLY passes
through a process-local replay coordinator on the way, so that a repeated
request is carried out once and answered the same way again.

| Component | State | Operations | Talks to |
| --- | --- | --- | --- |
| Replay coordinator, `_replay.py` | `_entries`: key to in-flight reservation or terminal; one condition variable | `execute` (two critical sections, a clock reading before the first, dispatch and another reading between them), `_prune` | called by pool threads; calls the dispatch callback outside its lock |
| Atomic variable, `atomic.py` | `_snapshot` behind a lock | `read`, `apply` (capture, compare and prepare without the lock, revalidate and publish) | called by dispatch callbacks and reads; may call workload equality |
| Verifiers and key sets, `verification.py`, `verifier_keys.py` | one key set per family behind a lock; verifiers keep nothing | `admit` of two families, `snapshot`, `replace` | called by pool threads; the host calls `replace` at any time |
| Control routes, `_fastapi_variable_routes.py`, `_fastapi_surface_routes.py` | registry (immutable), requests in progress | `_handle`, `_handle_surface_read` on the event loop; `_interpret`, `_interpret_surface_read` in the pool | verifier, registry, coordinator, variables |
| Installer, `fastapi.py` | the host application's route list, with markers on the four canonical routes | `install_cpk_control_routes`: markers, classification, `descriptor()` callbacks, construction, one assignment; the host adds, removes and serves | builds registry, coordinator and routes; calls back into the workload |
| Protocol, context, exports: `protocol.py`, `context.py`, `__init__.py` | none | - | - |
| Package gate: `test.sh`, `test_support/` | the working tree; images and containers named after the shell's process id | phases under `set -e`, integrity policy, dependency preflight, build, three installs, EXIT trap | one Docker daemon shared by all invocations |

What is hard: threads that sleep on one condition for different keys; a clock
that is read outside the lock, may fail and may step back; exceptions of every
kind between reserving a key and publishing its result; callbacks that call
back; comparison code of the workload between capture and commit; object
identities that are reused; key rotation while a credential is being checked;
a pool whose threads wait for each other; clients that hang up and retry;
installations that meet, or that a `descriptor()` callback starts inside another
one; several coordinators in front of one variable; gate shells that are killed,
whose process ids come back, and trees that are edited while a gate runs.
`PROJECT.json` lists each hazard with its line and the properties aimed at it.

What makes each component correct:

- coordinator: one owner per key, no lost or orphaned reservation, no lost
  wakeup, bounded table, every caller of one intent is told the same thing for
  one window after completion, every call returns;
- variable: linearizable versioned cell, no lost update, no stale writer;
- admission: only what is signed by a key current during the call, only inside
  the validity interval, only as signed, nothing decoded before that;
- routes: no disclosure and no effect without authority, every message
  answered, retries agree;
- APPLY path: an intent takes effect at most once, whichever coordinator brings
  it, and answers are true;
- installer: one family or none, whole; a retained route reports an existing
  installation; no classified route in front of the family can take a control
  path; the host keeps its own routes;
- gate: a green run is evidence about the tree it built, of that build and no
  other; nothing is left behind but what a removal of the trap failed for, and
  other invocations are left alone.

## 2. Modules

| Module | What it is |
| --- | --- |
| `Replay` | the coordinator in full |
| `ReplayContract` | what decision 0011 promises of it, without clocks, locks or waiting |
| `ContractRefinement` | the mapping by which `Replay` implements `ReplayContract` |
| `ReplayProofs` | theorems about `Replay`, the refinement included |
| `AtomicVariable` | the variable in full |
| `VersionedCell` | what decision 0007 promises of it: commands that take effect in one instant |
| `CellRefinement` | the mapping by which `AtomicVariable` implements `VersionedCell` |
| `AtomicVariableProofs` | theorems about `AtomicVariable`, the refinement included |
| `ApplyPath` | coordinator and variable composed through the dispatch callback |
| `ApplyPathProofs` | theorems about `ApplyPath`, from those about its parts |
| `Admission` | both verifiers, both key-set holders, rotation and the clock |
| `AdmissionProofs` | theorems about `Admission` |
| `ControlRoutes` | event loop, thread pool, interpretation and the coordinator |
| `ControlRoutesProofs` | theorems about `ControlRoutes`, from those about the coordinator |
| `Installer` | installations on one application, and what its host does |
| `InstallerProofs` | theorems about `Installer` |
| `PackageIntegrity` | the integrity policy as an operator, and what it is meant to decide |
| `PackageGate` | invocations of `test.sh` over that policy |
| `PackageGateProofs` | theorems about the policy and about `PackageGate` |
| `MC...` | instances for TLC |

Definitions named `Name_Fault` are faulty variations of `Name`. No action uses
them; put in the place of `Name`, each makes TLC find a property violated, which
shows that the property is about the code and can fail.

### Replay

A call of `execute` is a frame `<<thread, depth>>`; depth 2 is a call made by the
dispatch callback of the depth 1 call of that thread. The actions follow the
code's critical sections: `Invoke` is `_prepare` and the first clock reading;
`Enter` is the first critical section with `_prune` included and one disjunct
per way out of the loop; `Wait` and `Wake` are `condition.wait()` (a woken caller
looks the table up again but does not prune again); `Dispatch`,
`DispatchControl` and `Complete...` are the callback, its failures, and the
completion reading; `Publish` is the second critical section with
`notify_all`. `RefuseCall` covers malformed calls and an unusable first reading.

Data is reduced to what the properties tell apart. A digest is an intent.
Stored bytes are the intent they answer and a value, since the only thing
`_decode_terminal` can object to in bytes that `_normalize_terminal` accepted is
the request they name. `retention_anchor_pending` is `floor # NoTime`: the code
sets and clears both together. The model does not assume that the digest covers
the idempotency key, which is the core library's business. Threads that call
`execute` return before their identity is reused, because a frame belongs to a
thread for as long as it is active.

`Faults` names what an instance admits: `"clock"` (a reading that raises or is no
valid integer), `"backward"` (a clock that steps back), `"control"`
(KeyboardInterrupt and its kind). `born` is a history variable: the completion
sample of a terminal and the time it was published.

### AtomicVariable

Snapshots are objects with identities. `Referenced` is the set of identities in
use, an object's identity may be given to a new object once nothing refers to
it. States in `Hostile` raise on comparison. `ReadFails` and `RejectInvalid` are
the calls that fail before the lock.

### ApplyPath

`Replay!Dispatch` is taken only with the answer of the variable as its outcome,
and each intent stands for one command: a precondition and a state. Every
installation makes a coordinator of its own (`fastapi.py:112`) and handlers under
way keep theirs, so after a reinstallation, or with two applications, calls of
the same variable arrive that this coordinator has never heard of. They are the
`Strangers`: they apply any intent at any time, which covers whatever another
coordinator replays or forgets. `effects` counts how often an intent changed the
variable, `carried` which ones did so through the modelled coordinator,
`expired` which ones lost a terminal to pruning.

### Admission

The two families differ in holder, in token profile and in their last checks:
the command verifier checks interval and route before it touches the
candidate, the surface-read verifier leaves the interval to the core library.
The purpose of a key set is the holder it is in, as its constructor accepts
nothing else. Cryptography is abstract: a signature verifies under the public
half of the pair that signed. `began` and `current` are history: the clock at
the beginning of the call, and the key sets its holder has held since.

### ControlRoutes

A message carries the outcome of each check; `credential` stands for the verdict
of `Admission`, `known` for the registry, or for the declaration identity on the
surface routes. Bounds, query, headers and body form one check with several
outcomes. A client may hang up while its body is read or once a worker has its
message; the worker does not notice. Work that is queued starts regardless.
A result the coordinator hands out always passes `_compact_result`, because the
coordinator has sent it through the same codec and the same request check; a
read may fail there, which is the 500 of `AnswerRead`.

### Installer

`Begin`, `ScanMarkers`, `Classify`, `Snapshot`, `Compose` and `Assign` are the stages
of one call in the order of the code, with a way to fail at each. `Snapshot` is
the return of one `descriptor()`; as a callback may do anything, the host's
actions and other calls may come between any two stages. An installation made
by a callback is the interleaving in which the inner call runs to its end.
Scanning for markers and classifying are one step each, since a list that
changes under an iteration adds nothing but a scan of the list before or after.

The list of prior routes is an alias: `app.router.routes` is the same object until
somebody assigns, so a call sees in `[*prior_routes, *routes]` what the host added
since. `Live` is that case; once another call assigns, the list it replaced is
a value that nobody changes any more. A marked route names the call that built
it, so two families can be told apart. A path is its first segment, which is
all the classifier looks at; `Reaches` is what the framework would route to the
route, and is the reference `Disjoint` is judged by. The host adds routes, takes
out marked ones and begins to serve, but does not remove routes of its own.
History: `removed` (what the host uninstalled since the last assignment),
`standing` (a marked route stood from the call to its scan), `seen` (how many
routes were classified), `disturbed` (a route was added after the new list was
composed).

### PackageIntegrity and PackageGate

A package is what the policy tells apart of a tree. A candidate is a test class
or method with the names of its bases, its decorators, whether what runs for it
skips by itself (`skipTest`, `SkipTest`), and its place: at the top of a file that
discovery collects, of a `test*.py` in a directory of `tests/` that is no package,
of another file under `tests/`, of a file under `src/`, or inside something. To
these come the approved-skip document with its order, and the other things the
walk of a file objects to (`Statements`), of which swallowed exceptions and bare
test functions count in the test root only. `Findings` is the policy as the code
has it: `hidden-test-file` is for another file under `tests/` alone, and what is
under `src/` or in a directory that is no package is taken for collected. `Clean`
is what decision 0004 wants of a package, said without the algorithm; `Recognised`
are the packages in which every test and every skip is of the form the policy
looks for. The dependency preflight is one verdict.

An invocation is a shell with a process id. Its phases follow `test.sh` line by
line: any command may fail and then the trap runs with the status kept. The trap
is four removals (`Trap`, `Cleanup`), each of which may fail without anybody
hearing of it, and then `Exit`. A shell may be killed before, between and after
them; it then runs no more of the trap, and its image and containers stay until
a shell with the same id meets them. `docker build` moves the name to the new
image, `docker run` refuses a name that is taken. Invocations share one space of
process ids, and a docker client ends with its shell. `edited`, `tested` and
`stuck` are history: the tree changed while the invocation ran, the images its
containers ran, and what its trap failed to remove.

## 3. Runs

| Run | Instance | What it shows |
| --- | --- | --- |
| `replay_faults` | 2 threads, 2 keys, 2 intents, capacity 1, window 1, clock 0..2, all faults | types, capacity, intent binding, replay guarantee, refinement of `ReplayContract` |
| `replay_nested` | 2 threads, depth 2, 2 keys, capacity 2, control faults | ownership, no lost wakeup and no self-wait with callbacks that call back |
| `replay_fair` | 3 threads, 1 key, clock and control faults | every call returns, two waiters behind one owner included |
| `replay_anchor` | 2 threads, 1 key | violated: retention can begin before publication (finding) |
| `atomic_variable` | 2 calls, 3 states (one hostile), versions 0..2, 4 identities | identity test, no lost update, no failure without its reason, refinement of `VersionedCell` |
| `apply_path` | 2 threads and 1 stranger, 1 key, 2 intents, capacity 1, window 1, clock 0..1, clock faults, versions 0..2 | at most once, truthful answers, effects stay on record, reservation around the variable |
| `routes_authority` | 2 clients, 1 worker, all 27 messages, clock 0..1 | disclosure and effects need authority |
| `routes_retries` | 2 clients, 2 workers, 2 intents, clock faults, clock 0 | retries agree, the pool keeps an owner, every queued message is answered |
| `admission` | 1 call, 2 families, 3 key sets, 80 asks, clock 0..2 | authentication, route and interval before decoding, interval and exactness of what is admitted, under rotation |
| `installer` | 2 calls, 5 kinds of host route, at most 2 of them, up to 1 variable, full and partial uninstall | one whole family, reported when retained, out of reach of classified routes, host routes kept |
| `gate` | 2 invocations, 2 process ids, 3 packages, 2 environments, 1 edit | green is evidence, clean is not refused, each invocation tests its own build, leaves only what a removal failed for, and others alone |
| `gate_unseen` | 1 invocation, 15 packages with a test discovery does not collect and a skip without approval | violated: the policy passes both (findings) |

Why the bounds are enough to be interesting: capacity 1 with two keys makes
`full` and `expired` compete; a window of 1 with a clock of three readings lets
a terminal be sampled, anchored and expired at different times, and a backward
step fit between any two; two intents under one key give conflicts; a third
thread gives two waiters behind one owner. Two calls on the variable are enough
for every order of two captures and two commits; the version bound is reached; 4
identities leave a fresh one for 2 calls in every reachable state, and force
reuse. In `apply_path` one key lets at most one call of the modelled coordinator
be inside the variable, next to the stranger, so 4 identities suffice there too;
a clock of two readings lets a terminal expire, and a second coordinator is a
single call because it may be repeated without end. In `admission` calls do not
write what others read, so one call against rotation and time is representative,
and the proofs cover any number. In `routes_authority` the clock ends a window,
so that a message meets a fresh, a stored and an expired intent; in
`routes_retries` it stands still, because agreement is only promised within a
window. `MaxDepth` 1 is what the SDK's own routes do. In `installer` two calls
give every way for one to overtake or to contain the other, two host routes one
that is classified and one that comes late. The five kinds are a literal first
segment, the empty one, the reserved `control`, none (a mount at the root;
`LiteralFirst` treats a pattern and a malformed path alike) and a type the
classifier does not know; the proof is about all kinds. More variables only
repeat `Snapshot`. In `gate` two ids for two invocations allow both distinct and
reused ids, and one edit separates the inspected tree from the built one. Of the
packages one is in order, with an approved skip and a swallowed exception outside
the tests; the policy refuses one, where the condition of an approved skip is a
literal, and the preflight the last. One environment is accepted and one is not.
What two invocations do to each other does not depend on why a package is refused,
so more packages are looked at without running them: assumptions of
`MCPackageGate`, which TLC evaluates, say that what the policy passes is `Clean`, over
every decorator against approvals in and out of order and a package for each of
the other rules, and that each unseen skip and each unseen test passes the policy
by itself; and `ThePolicyDecides` is about packages of any size.

`replay_nested` runs without the deadlock check: two callbacks that call
`execute` for each other's keys wait for each other for ever. The re-entry
guard only knows the caller's own key. `gate` and `gate_unseen` run without it
because invocations end for good. All other runs check for deadlock.

Fairness. `Replay!FairSpec`: a thread that can move does (the operating system
schedules threads; `Condition` and `Lock` of CPython do not starve a waiter that
has been notified, and a step here is a whole critical section), and dispatch
callbacks come back. Nothing forces a caller to call or the clock to advance.
`ControlRoutes!FairSpec`: the same for pool threads and the event loop, and
strong fairness for leaving the queue, since the AnyIO limiter serves tasks in
order of arrival; clients owe nothing.

## 4. Findings

1. Decision 0011 says that terminal retention cannot begin before publication.
   The anchor is `max(floor, now_ns)` with a `now_ns` read before the lock was
   taken, so it may precede the publication (`replay_anchor`). What does hold,
   and is proved, is the weaker guarantee of one window after the completion
   sample (`TerminalsOutliveTheirWindow`).
2. Decision 0004 says the integrity policy fails closed on unapproved skips
   (`gate_unseen`). A decorator without positional arguments (`@unittest.skip`,
   `@unittest.skip(reason=...)`, `skipIf` with keywords), a skip made while the test
   runs (`self.skipTest`, `raise unittest.SkipTest`), and a decorated class that
   reaches `TestCase` through another class are skips the policy does not see. Seen
   from the other side, an approval of such a skip is refused as stale.
3. The same sentence says that it fails closed on hidden tests (`gate_unseen`). A
   `TestCase` at the top of a file under `src/` is reported nowhere, since
   `hidden-test-file` asks for `in_test_root`; a `test*.py` in a directory of `tests/`
   without `__init__.py` is taken for discoverable; a class in a helper file that
   reaches `TestCase` through another class is not seen. The first two even count
   as test identities. Discovery collects none of them. Every package of the run
   has one such test and one skip of finding 2, so its counterexample shows both.

Observed while modelling, and no finding because no run is aimed at them:

- The README says terminals are retained for exactly 300 seconds. A terminal of
  uncertain completion is retained for the life of the process, as a test of
  the repository asserts; `EffectIsRecorded` relies on it.
- A client that repeats a successful APPLY after its window is answered
  PRECONDITION_FAILED.
- An installation that another one overtakes, or that contains another one,
  replaces the other family and goes back to the list it took: routes the host
  added to the newer list are lost. So is a route added between composition and
  assignment. A route a callback adds is kept, but in front of the family
  without having been classified. An application may begin to serve after its
  middleware stack was looked at. Decision 0014 speaks of installation before
  serving and by one caller; `HostRoutesSurvive` and
  `ClassifiedRoutesLeaveControl` say what holds without that.
- Two test methods with one name in one class count as one test of the gate.

## 5. Proofs

Every safety property of the passing runs is a theorem, for every value of the
constants, and so are the action properties and both refinements; TLC showed
each on an instance first. The proofs rest on the named assumptions on constants,
which TLC evaluates on every instance, and on nothing else but the hypotheses
this section names.

`ReplayProofs`, for any threads, nesting depth, keys, digests, capacity, window,
clock range and faults:

- `TypeCorrect`: type correctness, one step per action.
- `OwnershipHolds`: the inductive invariant `Ownership`. `ReservationNeverLost`
  and its companions are not inductive by themselves: that an owner finds its
  reservation needs to know that at most one frame owns a key, that owners on
  one thread are for different keys, and that the frames below an active one
  are at `dispatch`. Every action that does not hold the lock goes through one
  lemma (`UnlockedStep`), the critical sections have one each.
- `NoReservationIsLost`, `ReservationsAreOwned`, `NoWakeupIsLost` follow from it.
- `CapacityIsNeverExceeded`: pruning only frees keys, and a reservation adds one
  key when the count differs from the capacity and, inductively, does not
  exceed it.
- `AnswersAreTheCallersOwn`: drafts, stored bytes and answers name the intent.
- `ReplayGuarantee`: the action property, from an invariant that ties `floor`
  and `anchor` of a terminal to its completion sample.
- `CoordinatorConforms`: the refinement of `ReplayContract`. A look at the table
  is a consultation after forgetting what pruning removed, `Publish` files the
  outcome, everything else that happens between two calls is a stutter.

`AtomicVariableProofs`: the invariant `IInv` says what a call between capture and
commit knows (the captured object is the current one exactly if the versions
agree) and that the identity of a prepared successor belongs to nobody else.
Type correctness, `NoStaleWriterPasses` and `NoLostUpdate` follow.
`FailuresHaveAReason` says that a call that reached the variable fails only on a
hostile comparison, or when the versions are used up and the state is another
one; it rests on `Excused`, which keeps the reason from the step that met it.
`VariableIsLinearizable` needs one invariant more (`Decided`): what a call will say
at its commit is decided by what it captured and prepared, and the commit takes
effect only onto what was captured, so that the instant of the commit is the
one in which the cell's command takes effect. Identities are an arbitrary set
without the value "none": if they run out, calls cannot commit, which is no
matter of safety. That an instance has enough of them to commit is an assumption
of `MCAtomicVariable` (`EnoughIds`).

`ApplyPathProofs` uses the theorems about the parts as they stand. The proof
modules of the coordinator and of the variable are instantiated, and
`PathRunsBothParts` shows that every behaviour of the composition is one of each
part, together with `Link`, which ties a frame's place in the variable to its place
in the coordinator. On top of the parts' invariants:

- `NoUnreservedEffect` follows from `Link` and `Ownership`.
- `NoIntentActsTwice`, from `SpentOnce`: once an intent has taken effect the
  version is past the one its command expects; as versions only rise, a command
  that is spent stays spent, for any number of coordinators, however often they
  forget.
- `AppliedIsNeverInvented`, from `TellsTruth`: the same of outcomes on their way,
  of drafts and of stored terminals, not only of answers.
- `NoEffectIsForgotten`, from `Recorded`: it follows an effect from the commit
  through the draft of its frame into the table.

`ControlRoutesProofs` does the same with the coordinator alone
(`RoutesRunTheCoordinator`; `Wiring` says that a worker's frame carries the
request of the message it serves). `NothingIsDisclosedUnasked` and
`NoEffectWithoutAuthority` hold for any messages and clients; the second needs
that entries, too, come from admitted messages (`EntriesAuthorised`).
`ThePoolIsNeverAsleep` is `NoWakeupIsLost` in a pool: the owner a sleeper waits for
is another worker. Agreement of retries is promised within a window, and the
theorem says so: `RetriesAgreeWithinTheWindow` is about behaviours in which no
terminal is pruned after its window (`NothingExpires`), and
`RetriesAgreeOnAShortClock` has no condition but a clock range shorter than the
window, as in the run. Without either the property is false: after the window
an intent may be answered anew.

`InstallerProofs`: the invariant `InstallerInv` says, per call, what it may rely on
at each place (`CallInv`). After its scan the list a call took has no marked route:
an uninstall cannot touch such a list, other calls replace it and do not write
it, and the host only appends. Therefore a composed list is an unmarked one with
one family after it (`Composition`), one assignment gives the application
exactly that, and `InstallationsDoNotStack`, `InstallationIsAllOrNothing`,
`RetainedRoutesAreRecognised`, `ControlPathsAreReachable` and
`NoHostRouteIsLost` follow. What an uninstall leaves is a recursive function.
`RemainingIsTheRest` proves of it, for lists of any length, that it keeps the
routes of other names, each once and in order: the induction theorems of the
library cannot be instantiated, so the induction is done with the least number
principle for sets (`LeastNumber`, `UpTo`), which follows from the library's `WFMin`.

`PackageGateProofs`: `ThePolicyDecides` compares `Findings`, the algorithm, with
`Clean`, what is wanted of a package, for packages of any size. They agree on
packages that are `Recognised`, which is findings 2 and 3 from the other side.
`GreenIsEvidence` and `CleanIsNotRefused` have that hypothesis in them, package by
package, so `GreenHoldsUp` and `NothingInOrderIsRefused` are about trees of any
kind, and a green run shows the dependencies and the mode to be the accepted ones
in any case. The invariant `GateInv` says that no two living shells have one id
(`IdsDiffer`), that what stands under a name was put there by a shell with that id
(`Named`), that from its build on an invocation finds its own image there
(`OwnImage`), and what the phases behind it have established (`Evidence`).
`NoStaleImageIsTested` and `InvocationsAreApart` follow from it.
`OnlyFailedRemovalsLeaveAnything` needs `Tidied` on top: what the removals that have
been tried left under the invocation's names is in `stuck`, and others, who have
other ids, put nothing there.

`AdmissionProofs`: `Established` lists what a call has shown at each stage, for a
command its route and its interval before the candidate is decoded; `Justified` is
what is left of it in an admission. The four theorems follow.

Only model-checked: liveness (`EveryCallReturns`, `EveryMessageIsAnswered`),
because the prover handles neither fairness nor ENABLED. The two violated
properties of the findings are false and have no proof.

## 6. Not modelled

JSON framing, base64 spelling and the depth and
member bounds of `verification.py` beyond their verdict: sequential, recursive
over data, and tested. The core library (codecs, canonical digests, grant
verification), PyJWT, cryptography, FastAPI and Starlette: external, modelled
by how the SDK uses them. Restart: the coordinator and the variable are
documented as not durable, and lose everything. `protocol.py`, `context.py` and
the exports keep no state. What runs inside the gate's containers (pip, unittest,
`installed_import.py` and its siblings): it succeeds or fails. Decoding of the
declared variables in the installer: its outcome is one way to fail. Routes the
host removes from its own list, and mounts that contain another application.

Process control (KeyboardInterrupt and its kind) raised by the dispatch callback
is an outcome in `Replay` and in its runs (`DispatchControl`). The compositions do
not have it: `ControlRoutes.ApplyStatus` has no status for a handler that ends
with it, and `ApplyPath` takes `Dispatch` with the variable's answer only, so that
an effect whose caller is interrupted before it learns of it is not among its
behaviours.

Gate invocations in several process-id namespaces with one daemon would share
names, and a `docker build` that outlives its killed shell could move a name after
the id was given out again; both are assumed away (section 2). Of the ways to
hide or skip a test the model leaves out `load_tests`, names of `unittest` bound to
something else, and a class of a helper file that a collected file imports, which
discovery does collect.

## 7. Plan

Done: all modules of section 2 with their runs, and proofs of every safety
property, action property and refinement the runs check.

Next, in this order:

1. Reads of a variable and a second variable in `ApplyPath`: one coordinator
   serves all variables of an application, and keys are global to it.
2. `ControlRoutes` over `ReplayContract` in place of `Replay`, justified by
   `CoordinatorConforms`: the contract is all the routes rely on.
3. The waiting of two callbacks for each other (`_replay.py:201`), stated as what
   does hold: without nesting, some thread can always move.
