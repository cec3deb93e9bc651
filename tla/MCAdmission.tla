----------------------------- MODULE MCAdmission -----------------------------
(* Credentials for a small instance of Admission.                          *)
EXTENDS Admission, TLC

CONSTANTS i1, i2, m1, m2, v1, v2, b1

Request(op, variable, body) == [op |-> op, variable |-> variable, body |-> body]

(* Grants for the middle of the clock's range: not yet valid at 0, valid   *)
(* at 1, expired at 2.                                                     *)
MCCredential(family, op, variable, body, key_id, signer, well_formed, congruent) ==
    [well_formed |-> well_formed, family |-> family, key_id |-> key_id, signer |-> signer,
     congruent |-> congruent,
     grant |-> [request |-> Request(op, variable, body), not_before |-> 1, expires_at |-> 2]]

Applies(variable, key_id, signer, well_formed, congruent) ==
    MCCredential("command", "apply", variable, b1, key_id, signer, well_formed, congruent)

(* One good credential per operation, and the ways the first can be bad.   *)
MCCredentials ==
    {Applies(v1, i1, m1, TRUE, TRUE),
     MCCredential("command", "read", v1, NoBody, i1, m1, TRUE, TRUE),
     MCCredential("surface", "status", v1, NoBody, i1, m1, TRUE, TRUE),
     Applies(v1, i1, m2, TRUE, TRUE),
     Applies(v1, i2, m1, TRUE, TRUE),
     Applies(v1, i1, m1, FALSE, TRUE),
     Applies(v1, i1, m1, TRUE, FALSE),
     Applies(v2, i1, m1, TRUE, TRUE)}

MCAsk(family, op, credential, candidate) ==
    [family |-> family, op |-> op, variable |-> v1,
     credential |-> credential, candidate |-> candidate]

(* Every credential on every route, with the request it covers, another    *)
(* request, one that does not decode, or none.                             *)
MCAsks ==
    {MCAsk("command", op, credential, candidate) :
        op \in {"read", "apply"}, credential \in MCCredentials,
        candidate \in {NoCandidate, Undecodable, Request("apply", v1, b1), Request("apply", v2, b1)}}
    \cup {MCAsk("surface", op, credential, NoCandidate) :
              op \in {"capabilities", "status"}, credential \in MCCredentials}

(* Two rotations away from {i1: m1}: the same id with new material, and    *)
(* the old pair kept under another id.                                     *)
MCSupplied == {i1 :> m1, i1 :> m2, (i1 :> m2) @@ (i2 :> m1)}
=============================================================================
