----------------------------- MODULE PackageGate -----------------------------
(***************************************************************************)
(* Invocations of test.sh on one machine: phase after phase under `set -e` *)
(* over the working tree, with images and containers named after the       *)
(* process id of the shell and removed by an EXIT trap.  Invocations run   *)
(* side by side against one Docker daemon, any command may fail, a shell   *)
(* may be killed and leave its image and containers behind, its process id *)
(* may be given out again, and the tree may be edited at any time.         *)
(* Invocations share one space of process ids, and the docker client of a  *)
(* killed shell ends with the shell: both are assumed.                     *)
(* A definition named Name_Fault is a faulty variation of Name that no     *)
(* action uses (see Replay).                                               *)
(***************************************************************************)
EXTENDS PackageIntegrity

CONSTANTS
    Invocations,    \* runs of test.sh
    Pids,           \* process ids
    Trees,          \* states of the working tree, as packages
    Environments,   \* CPK_SERVER_SDK_DEPENDENCY_MODE and CPK_CORE_REPO
    MaxEdits,       \* bound on edits of the tree
    None

VARIABLES
    tree,       \* the working tree under ROOT
    edits,      \* how often it was edited
    at,         \* the phase of each invocation, and how it ended
    pid,        \* RUN_ID
    env,        \* its environment
    failing,    \* whether the exit status is not 0
    images,     \* the image under each name
    containers, \* the containers under each name
    removing,   \* how many of its removals the trap has been through
    edited,     \* history: the tree was edited since the invocation began
    tested,     \* history: the image of each container the invocation ran
    stuck       \* history: what its trap failed to remove

vars == <<tree, edits, at, pid, env, failing, images, containers,
          removing, edited, tested, stuck>>

ASSUME TreesAssumption == \A p \in Trees : PackageType(p)
ASSUME NoneAssumption  == None \notin Invocations \cup Pids \cup [by : Invocations, tree : Trees]
ASSUME EditsAssumption == MaxEdits \in Nat
ASSUME EnvironmentsAssumption ==
    Environments \subseteq [mode : {"pinned", "local-core", "other"},
                            core_repo : {"unset", "checkout", "elsewhere"}]

Installs == <<"base", "verification", "fastapi">>
Phases   == <<"policy-self-tests", "package-integrity", "dependency-preflight",
              "dependency-mode", "package-build">> \o Installs
Trap     == Append(Installs, "image")
Over     == {"passed", "failed", "killed"}
Begun(i) == at[i] # "idle" /\ at[i] \notin Over

Init ==
    /\ tree \in Trees /\ edits = 0
    /\ at = [i \in Invocations |-> "idle"]
    /\ pid = [i \in Invocations |-> None]
    /\ env \in [Invocations -> Environments]
    /\ failing = [i \in Invocations |-> FALSE]
    /\ images = [p \in Pids |-> None]
    /\ containers = [p \in Pids |-> [k \in ToSet(Installs) |-> None]]
    /\ edited = [i \in Invocations |-> FALSE]
    /\ tested = [i \in Invocations |-> {}]
    /\ removing = [i \in Invocations |-> 0]
    /\ stuck = [i \in Invocations |-> {}]

RunId_Fixed(i) == CHOOSE p \in Pids : TRUE

(* The names of image and containers end in the process id.                *)
RunId(i) == pid[i]

-----------------------------------------------------------------------------
(* Phases                                                                  *)

After(phase) ==
    IF phase = "fastapi" THEN "cleanup"
    ELSE Phases[1 + CHOOSE n \in DOMAIN Phases : Phases[n] = phase]

docker == <<images, containers>>
trap   == <<removing, stuck>>

Passes(i) == at' = [at EXCEPT ![i] = After(@)] /\ UNCHANGED failing

(* set -e: the first command that fails ends the script, by way of the     *)
(* trap.                                                                   *)
Fails(i) ==
    /\ at' = [at EXCEPT ![i] = "cleanup"]
    /\ failing' = [failing EXCEPT ![i] = TRUE]

(* An id no live shell has.                                                *)
Begin(i) ==
    /\ at[i] = "idle"
    /\ \E p \in Pids : /\ \A j \in Invocations : Begun(j) => pid[j] # p
                       /\ pid' = [pid EXCEPT ![i] = p]
    /\ at' = [at EXCEPT ![i] = Phases[1]]
    /\ UNCHANGED <<tree, edits, env, failing, docker, trap, edited, tested>>

(* The policy's own tests, or any command at all, may fail.                *)
CommandFails(i) ==
    /\ at[i] \in ToSet(Phases) \ {"dependency-mode"}
    /\ Fails(i)
    /\ UNCHANGED <<tree, edits, pid, env, docker, trap, edited, tested>>

Check(i, phase, holds) ==
    /\ at[i] = phase
    /\ IF holds THEN Passes(i) ELSE Fails(i)
    /\ UNCHANGED <<tree, edits, pid, env, docker, trap, edited, tested>>

Integrity_Unheeded(i) == Check(i, "package-integrity", TRUE)

SelfTests(i) == Check(i, "policy-self-tests", TRUE)
Integrity(i) == Check(i, "package-integrity", Findings(tree) = {})
Preflight(i) == Check(i, "dependency-preflight", tree.dependencies)

ModeAccepted(e) ==
    \/ e.mode = "pinned" /\ e.core_repo = "unset"
    \/ e.mode = "local-core" /\ e.core_repo = "checkout"

Mode(i) == Check(i, "dependency-mode", ModeAccepted(env[i]))

Build_Tolerant(i) ==
    /\ at[i] = "package-build"
    /\ Passes(i)
    /\ \/ images' = [images EXCEPT ![RunId(i)] = [by |-> i, tree |-> tree]]
       \/ UNCHANGED images
    /\ UNCHANGED <<tree, edits, pid, env, containers, trap, edited, tested>>

(* The name moves to the new image.                                        *)
Build(i) ==
    /\ at[i] = "package-build"
    /\ Passes(i)
    /\ images' = [images EXCEPT ![RunId(i)] = [by |-> i, tree |-> tree]]
    /\ UNCHANGED <<tree, edits, pid, env, containers, trap, edited, tested>>

(* docker run refuses a name that is taken and an image that is not there; *)
(* what runs in the container may fail.                                    *)
Install(i) ==
    /\ at[i] \in ToSet(Installs)
    /\ IF containers[RunId(i)][at[i]] = None /\ images[RunId(i)] # None
       THEN /\ Passes(i) \/ Fails(i)
            /\ containers' = [containers EXCEPT ![RunId(i)][at[i]] = i]
            /\ tested' = [tested EXCEPT ![i] = @ \cup {images[RunId(i)]}]
       ELSE Fails(i) /\ UNCHANGED <<containers, tested>>
    /\ UNCHANGED <<tree, edits, pid, env, images, trap, edited>>

(* The EXIT trap: `docker rm -f name >/dev/null 2>&1 || true`, four times. *)
Removed(i, what) ==
    IF what = "image"
    THEN images' = [images EXCEPT ![RunId(i)] = None] /\ UNCHANGED containers
    ELSE containers' = [containers EXCEPT ![RunId(i)][what] = None] /\ UNCHANGED images

Cleanup_UpToAFailure(i) ==
    /\ at[i] = "cleanup" /\ removing[i] < Len(Trap)
    /\ LET what == Trap[removing[i] + 1] IN
          \/ /\ Removed(i, what) /\ UNCHANGED <<failing, stuck>>
             /\ removing' = [removing EXCEPT ![i] = @ + 1]
          \/ /\ stuck' = [stuck EXCEPT ![i] = @ \cup {what}] /\ UNCHANGED docker
             /\ removing' = [removing EXCEPT ![i] = Len(Trap)]
             /\ failing' = [failing EXCEPT ![i] = TRUE]
    /\ UNCHANGED <<tree, edits, at, pid, env, edited, tested>>

(* Whatever is under the name goes, or a failure that nobody hears of      *)
(* leaves it there; the next removal is tried in either case.              *)
Cleanup(i) ==
    /\ at[i] = "cleanup" /\ removing[i] < Len(Trap)
    /\ removing' = [removing EXCEPT ![i] = @ + 1]
    /\ LET what == Trap[removing[i] + 1] IN
          \/ Removed(i, what) /\ UNCHANGED stuck
          \/ stuck' = [stuck EXCEPT ![i] = @ \cup {what}] /\ UNCHANGED docker
    /\ UNCHANGED <<tree, edits, at, pid, env, failing, edited, tested>>

(* The script ends with the status it had when the trap began.             *)
Exit(i) ==
    /\ at[i] = "cleanup" /\ removing[i] = Len(Trap)
    /\ at' = [at EXCEPT ![i] = IF failing[i] THEN "failed" ELSE "passed"]
    /\ UNCHANGED <<tree, edits, pid, env, failing, docker, trap, edited, tested>>

(* SIGKILL: no trap, or no more of it, and nothing remembers it.           *)
Kill(i) ==
    /\ Begun(i)
    /\ at' = [at EXCEPT ![i] = "killed"]
    /\ removing' = [removing EXCEPT ![i] = 0]
    /\ stuck' = [stuck EXCEPT ![i] = {}]
    /\ UNCHANGED <<tree, edits, pid, env, failing, docker, edited, tested>>

Edit(p) ==
    /\ edits < MaxEdits /\ p # tree
    /\ tree' = p /\ edits' = edits + 1
    /\ edited' = [i \in Invocations |-> edited[i] \/ Begun(i)]
    /\ UNCHANGED <<at, pid, env, failing, docker, trap, tested>>

Next ==
    \/ \E i \in Invocations :
          \/ Begin(i) \/ CommandFails(i) \/ SelfTests(i) \/ Integrity(i) \/ Preflight(i)
          \/ Mode(i) \/ Build(i) \/ Install(i) \/ Cleanup(i) \/ Exit(i) \/ Kill(i)
    \/ \E p \in Trees : Edit(p)

Spec == Init /\ [][Next]_vars

-----------------------------------------------------------------------------
(* Properties                                                              *)

TypeOK ==
    /\ tree \in Trees /\ edits \in 0..MaxEdits
    /\ at \in [Invocations -> {"idle", "cleanup"} \cup ToSet(Phases) \cup Over]
    /\ pid \in [Invocations -> Pids \cup {None}] /\ env \in [Invocations -> Environments]
    /\ failing \in [Invocations -> BOOLEAN] /\ edited \in [Invocations -> BOOLEAN]
    /\ containers \in [Pids -> [ToSet(Installs) -> Invocations \cup {None}]]
    /\ removing \in [Invocations -> 0..Len(Trap)]
    /\ stuck \in [Invocations -> SUBSET ToSet(Trap)]
    /\ \A p \in Pids :
          /\ images[p] # None => pid[images[p].by] = p /\ images[p].tree \in Trees
          /\ \A k \in ToSet(Installs) : containers[p][k] # None => pid[containers[p][k]] = p

(* Green is evidence: an invocation that ends with status 0 tested a tree  *)
(* whose dependencies are the accepted ones and, if every test and skip in *)
(* it is of the form the policy looks for, in which every test is collected*)
(* and every skip approved, unless somebody edited the tree meanwhile.     *)
GreenIsEvidence ==
    \A i \in Invocations : at[i] = "passed" /\ ~edited[i] =>
        /\ \A image \in tested[i] :
              image.tree.dependencies /\ (Recognised(image.tree) => Clean(image.tree))
        /\ tested[i] # {} /\ ModeAccepted(env[i])

(* The policy refuses no package for a skip or an approval that is in      *)
(* order and of the form it looks for.                                     *)
CleanIsNotRefused == Clean(tree) /\ Recognised(tree) => Findings(tree) = {}

(* All three installations of an invocation run the one image it built,    *)
(* and never one that a killed invocation left under the same name.        *)
TestsItsOwnBuild ==
    \A i \in Invocations :
        /\ Cardinality(tested[i]) <= 1
        /\ \A image \in tested[i] : image.by = i

(* An invocation takes nothing from another that is still alive.           *)
OthersAreLeftAlone ==
    [][\A p \in Pids, i \in Invocations :
          /\ images[p] # None /\ images[p].by = i /\ images'[p] # images[p]
             => at[i] = "cleanup" \/ ~Begun(i)
          /\ \A k \in ToSet(Installs) : containers[p][k] = i /\ containers'[p][k] # i
             => at[i] = "cleanup" \/ ~Begun(i)]_vars

(* Whatever failed before or in the trap, an invocation that was not       *)
(* killed leaves nothing behind but what its own removal failed for.       *)
OnlyStuckStays ==
    \A i \in Invocations : at[i] \in {"passed", "failed"} =>
        \A p \in Pids :
            /\ images[p] # None /\ images[p].by = i => "image" \in stuck[i]
            /\ \A k \in ToSet(Installs) : containers[p][k] = i => k \in stuck[i]

(* "That policy counts discoverable standard-library unittest identities   *)
(* and fails closed on hidden or placeholder tests, ... stale or unapproved*)
(* skips" (docs/decisions/0004-package-integrity-and-ci.md:14-16): no      *)
(* invocation is green over a package with a test that discovery does not  *)
(* collect, or that unittest skips without approval.                       *)
PolicyFailsClosed ==
    \A i \in Invocations : at[i] = "passed" /\ ~edited[i] =>
        \A image \in tested[i] : TestsAreCollected(image.tree) /\ SkipsAreApproved(image.tree)
=============================================================================
