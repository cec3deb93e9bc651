------------------------------ MODULE Admission ------------------------------
(***************************************************************************)
(* Signed admission: the verifiers of verification.py and the key-set      *)
(* holders of verifier_keys.py.  A call of `admit` takes one snapshot of   *)
(* its family's holder and one clock reading, at two moments; meanwhile    *)
(* the host may replace either key set, and other calls run.  Calls of the *)
(* two families differ in token profile, in holder and in the order of     *)
(* their last checks.  Every failure ends in the same rejection.           *)
(* A definition named Name_Fault is a faulty variation of Name that no     *)
(* action uses (see Replay).                                               *)
(***************************************************************************)
EXTENDS Integers

CONSTANTS
    Calls,        \* concurrent calls of admit
    KeyIds,       \* key identities (kid)
    Materials,    \* Ed25519 key pairs; the public half is in a key set
    Variables,    \* graph references of variables
    Bodies,       \* what an APPLY carries
    MaxClock,     \* largest reading of the trusted clock
    Supplied,     \* key sets the host supplies
    Asks,         \* calls the adapter makes
    NoBody, NoCandidate, Undecodable

VARIABLES
    holder,    \* _snapshot of each family's holder
    clock,     \* the reading the trusted clock would return now
    at,        \* where each call stands in _admit
    asked,     \* the arguments of the call
    snapshot,  \* the key set the call took
    now,       \* the reading the call took
    verdict,   \* what admit returned
    began,     \* history: clock when the call began
    current    \* history: key sets its holder has held since then

vars == <<holder, clock, at, asked, snapshot, now, verdict, began, current>>

Families   == {"command", "surface"}
Operations == [command |-> {"read", "apply"}, surface |-> {"capabilities", "status"}]
AllOperations == {"read", "apply", "capabilities", "status"}
Times      == 0..MaxClock

(* A key set holds one to sixteen keys with distinct ids and distinct      *)
(* fingerprints: a non-empty injection of ids into material.               *)
KeySets ==
    {ks \in UNION {[ids -> Materials] : ids \in (SUBSET KeyIds) \ {{}}} :
        \A i, j \in DOMAIN ks : ks[i] = ks[j] => i = j}
NoKeys == <<>>

Requests == [op : AllOperations, variable : Variables, body : Bodies \cup {NoBody}]

(* What the checks tell apart of a credential: framing and closed profile, *)
(* the family its token type names, the key it names, the pair that signed *)
(* it, the agreement of the outer claims with the grant and with the       *)
(* expected issuer and audience, and the grant.                            *)
Grants == [request : Requests, not_before : Times, expires_at : Nat]
CredentialType ==
    [well_formed : BOOLEAN, family : Families, key_id : KeyIds,
     signer : Materials, congruent : BOOLEAN, grant : Grants]

Candidates == {NoCandidate, Undecodable} \cup Requests
AskType == [family : Families, op : AllOperations, variable : Variables,
            credential : CredentialType, candidate : Candidates]

ASSUME SuppliedAssumption   == Supplied \subseteq KeySets
ASSUME AsksAssumption       == Asks # {} /\ Asks \subseteq AskType
ASSUME ClockAssumption      == MaxClock \in Nat
ASSUME CandidatesAssumption == NoCandidate \notin Requests /\ Undecodable \notin Requests

NoVerdict   == [kind |-> "none"]
Rejected    == [kind |-> "rejected"]
Accepted(r) == [kind |-> "admitted", request |-> r]
Verdicts    == {NoVerdict, Rejected} \cup [kind : {"admitted"}, request : Requests]
AnyAsk      == CHOOSE a \in Asks : TRUE

Init ==
    /\ holder \in [Families -> Supplied]
    /\ clock = 0
    /\ at = [c \in Calls |-> "idle"]
    /\ asked = [c \in Calls |-> AnyAsk]
    /\ snapshot = [c \in Calls |-> NoKeys]
    /\ now = [c \in Calls |-> 0]
    /\ verdict = [c \in Calls |-> NoVerdict]
    /\ began = [c \in Calls |-> 0]
    /\ current = [c \in Calls |-> {}]

Credential(c) == asked[c].credential
Grant(c)      == Credential(c).grant

Conclude(c, how) ==
    /\ at' = [at EXCEPT ![c] = "returned"]
    /\ verdict' = [verdict EXCEPT ![c] = how]

Proceed(c, stage) ==
    /\ at' = [at EXCEPT ![c] = stage]
    /\ UNCHANGED verdict

-----------------------------------------------------------------------------
(* Checks                                                                  *)

(* Argument types, framing, and the closed header and payload profiles of  *)
(* the family; a surface read never carries a candidate.                   *)
Structural(a) ==
    /\ a.op \in Operations[a.family]
    /\ a.credential.well_formed /\ a.credential.family = a.family
    /\ a.family = "surface" => a.candidate = NoCandidate

Authentic_AnyKey(c) ==
    /\ \E i \in DOMAIN snapshot[c] : Credential(c).signer = snapshot[c][i]
    /\ Credential(c).congruent

InWindow_Closed(g, reading) == g.not_before <= reading /\ reading <= g.expires_at

CoreVerified_AnyRequest(c) == Grant(c).not_before <= now[c] /\ now[c] < Grant(c).expires_at

(* Exactly one key under that id, the maintained signature check against   *)
(* it, and congruence of the outer claims with the grant.                  *)
Authentic(c) ==
    /\ Credential(c).key_id \in DOMAIN snapshot[c]
    /\ Credential(c).signer = snapshot[c][Credential(c).key_id]
    /\ Credential(c).congruent

InWindow(g, reading) == g.not_before <= reading /\ reading < g.expires_at

RouteBound(c) ==
    /\ Grant(c).request.op = asked[c].op
    /\ asked[c].family = "command" => Grant(c).request.variable = asked[c].variable

(* The request the call stands for: rebuilt from the grant, or, for an     *)
(* APPLY, the candidate.                                                   *)
Reconstructed(c) == IF asked[c].op = "apply" THEN asked[c].candidate ELSE Grant(c).request

(* A READ carries no candidate, an APPLY carries one that decodes.         *)
CandidateFits(c) ==
    IF asked[c].op = "apply" THEN asked[c].candidate \in Requests
                             ELSE asked[c].candidate = NoCandidate

(* verify_workload_node_control_grant and its surface-read twin of the     *)
(* core library: the grant, through its digest, covers exactly this        *)
(* request, at this reading.                                               *)
CoreVerified(c) == Grant(c).request = Reconstructed(c) /\ InWindow(Grant(c), now[c])

-----------------------------------------------------------------------------
(* admit                                                                   *)

Admit(c, a) ==
    /\ at[c] = "idle"
    /\ asked' = [asked EXCEPT ![c] = a]
    /\ IF Structural(a) THEN Proceed(c, "inspected") ELSE Conclude(c, Rejected)
    /\ began' = [began EXCEPT ![c] = clock]
    /\ current' = [current EXCEPT ![c] = {holder[a.family]}]
    /\ UNCHANGED <<holder, clock, snapshot, now>>

TakeSnapshot(c) ==
    /\ at[c] = "inspected"
    /\ Proceed(c, "selected")
    /\ snapshot' = [snapshot EXCEPT ![c] = holder[asked[c].family]]
    /\ UNCHANGED <<holder, clock, asked, now, began, current>>

Authenticate(c) ==
    /\ at[c] = "selected"
    /\ IF Authentic(c) THEN Proceed(c, "authentic") ELSE Conclude(c, Rejected)
    /\ UNCHANGED <<holder, clock, asked, snapshot, now, began, current>>

ReadClock(c) ==
    /\ at[c] = "authentic"
    /\ now' = [now EXCEPT ![c] = clock]
    /\ Proceed(c, "timed")
    /\ UNCHANGED <<holder, clock, asked, snapshot, began, current>>

(* The clock raises, or returns no safe integer.                           *)
ClockFails(c) ==
    /\ at[c] = "authentic"
    /\ Conclude(c, Rejected)
    /\ UNCHANGED <<holder, clock, asked, snapshot, now, began, current>>

(* The command verifier checks the interval before the route, and both     *)
(* before it touches the candidate; for a surface read the interval is     *)
(* left to the core verification.                                          *)
Bind(c) ==
    /\ at[c] = "timed"
    /\ IF /\ asked[c].family = "command" => InWindow(Grant(c), now[c])
          /\ RouteBound(c)
       THEN Proceed(c, "bound") ELSE Conclude(c, Rejected)
    /\ UNCHANGED <<holder, clock, asked, snapshot, now, began, current>>

Decide_Undecoded(c) ==
    /\ at[c] = "bound"
    /\ Conclude(c, Accepted(Reconstructed(c)))
    /\ UNCHANGED <<holder, clock, asked, snapshot, now, began, current>>

Decide(c) ==
    /\ at[c] = "bound"
    /\ IF CandidateFits(c) /\ CoreVerified(c)
       THEN Conclude(c, Accepted(Reconstructed(c))) ELSE Conclude(c, Rejected)
    /\ UNCHANGED <<holder, clock, asked, snapshot, now, began, current>>

Return(c) ==
    /\ at[c] = "returned"
    /\ at' = [at EXCEPT ![c] = "idle"]
    /\ asked' = [asked EXCEPT ![c] = AnyAsk]
    /\ snapshot' = [snapshot EXCEPT ![c] = NoKeys]
    /\ now' = [now EXCEPT ![c] = 0]
    /\ verdict' = [verdict EXCEPT ![c] = NoVerdict]
    /\ began' = [began EXCEPT ![c] = 0]
    /\ current' = [current EXCEPT ![c] = {}]
    /\ UNCHANGED <<holder, clock>>

-----------------------------------------------------------------------------
(* replace: the whole key set of one family at once.                       *)
Replace(family, ks) ==
    /\ holder' = [holder EXCEPT ![family] = ks]
    /\ current' = [c \in Calls |->
          IF at[c] # "idle" /\ asked[c].family = family
          THEN current[c] \cup {ks} ELSE current[c]]
    /\ UNCHANGED <<clock, at, asked, snapshot, now, verdict, began>>

Tick ==
    /\ clock < MaxClock
    /\ clock' = clock + 1
    /\ UNCHANGED <<holder, at, asked, snapshot, now, verdict, began, current>>

Steps(c) ==
    TakeSnapshot(c) \/ Authenticate(c) \/ ReadClock(c) \/ ClockFails(c) \/ Bind(c) \/ Decide(c)

Next ==
    \/ \E c \in Calls : (\E a \in Asks : Admit(c, a)) \/ Steps(c) \/ Return(c)
    \/ \E family \in Families, ks \in Supplied : Replace(family, ks)
    \/ Tick

Spec == Init /\ [][Next]_vars

-----------------------------------------------------------------------------
(* Properties *)

(* Types of the holders, the clock and the locals of every call.           *)
TypeOK ==
    /\ holder \in [Families -> Supplied]
    /\ clock \in Times
    /\ at \in [Calls -> {"idle", "inspected", "selected", "authentic", "timed",
                         "bound", "returned"}]
    /\ asked \in [Calls -> Asks]
    /\ snapshot \in [Calls -> Supplied \cup {NoKeys}]
    /\ now \in [Calls -> Times]
    /\ verdict \in [Calls -> Verdicts]
    /\ began \in [Calls -> Times]
    /\ current \in [Calls -> SUBSET Supplied]

SignedUnder(c, ks) ==
    /\ Credential(c).key_id \in DOMAIN ks
    /\ ks[Credential(c).key_id] = Credential(c).signer

Admitted(c) == verdict[c].kind = "admitted"

(* Authentication comes first and rotation takes effect (decisions 0008,   *)
(* 0010, 0012): a candidate is looked at, and a request admitted, only for *)
(* a credential of this family, signed by the pair that ONE key set, held  *)
(* by this family's holder at a moment of this very call, files under the  *)
(* key id it names.  A key dropped before the call began admits nothing.   *)
(* A command's candidate moreover is decoded only on the route its grant   *)
(* was signed for, and when the grant was valid at a moment of the call.   *)
AuthenticBeforeTrusted ==
    \A c \in Calls : at[c] = "bound" \/ Admitted(c) =>
        /\ Credential(c).family = asked[c].family /\ Credential(c).congruent
        /\ \E ks \in current[c] : SignedUnder(c, ks)
        /\ asked[c].family = "command" =>
              /\ Grant(c).request.op = asked[c].op
              /\ Grant(c).request.variable = asked[c].variable
              /\ \E t \in began[c]..clock :
                    Grant(c).not_before <= t /\ t < Grant(c).expires_at

(* The half-open interval: an admitted request was valid at a moment       *)
(* between the beginning and the end of the call, in both families.        *)
AdmittedWithinWindow ==
    \A c \in Calls : Admitted(c) =>
        \E t \in began[c]..clock :
            Grant(c).not_before <= t /\ t < Grant(c).expires_at

(* What is admitted is what was signed, and what the route asked for: no   *)
(* candidate, route or operation can stand in for another.                 *)
AdmittedIsWhatWasSigned ==
    \A c \in Calls : Admitted(c) =>
        /\ verdict[c].request = Grant(c).request
        /\ verdict[c].request.op = asked[c].op /\ asked[c].op \in Operations[asked[c].family]
        /\ asked[c].family = "command" => verdict[c].request.variable = asked[c].variable
=============================================================================
