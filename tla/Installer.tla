------------------------------ MODULE Installer ------------------------------
(***************************************************************************)
(* install_cpk_control_routes of fastapi.py on one application: take the   *)
(* list app.router.routes, look for marked routes, classify every route    *)
(* by its first path segment, call descriptor() of every variable, build   *)
(* and mark the four routes, and assign a new list made of the one taken   *)
(* and the four.                                                           *)
(*                                                                         *)
(* Nothing is locked.  Calls may run in threads of the host, or be made by *)
(* a descriptor() callback of another call, which is an interleaving of    *)
(* the two in which the callback's call runs from its start to its end.    *)
(* The host adds routes and removes marked ones in place, at any time.     *)
(*                                                                         *)
(* Nobody changes a list the application no longer uses, so the list a     *)
(* call took is either the application's own, or a value.                  *)
(* A definition named Name_Fault is a faulty variation of Name that no     *)
(* action uses (see Replay).                                               *)
(***************************************************************************)
EXTENDS Integers, Sequences, FiniteSets, SequencesExt

CONSTANTS
    Calls,           \* concurrent calls of install_cpk_control_routes
    HostRoutes,      \* routes the host may add
    MaxHostRoutes,   \* bound on the host's routes
    MaxVariables,    \* bound on the variables a call passes
    Removals,        \* sets of names the host takes out at a time
    Live, NoList     \* the application's own list, no list

VARIABLES
    routes,      \* app.router.routes
    served,      \* app.middleware_stack is not None
    pc,          \* where each call stands, and how it ended
    prior,       \* prior_routes
    todo,        \* variables whose descriptor() has not returned
    composed,    \* the new list, before it is assigned
    removed,     \* history: names taken out since the last assignment
    standing,    \* history: marked routes stood from the call to its scan
    seen,        \* history: how many routes the call classified
    disturbed    \* history: the host added a route after the list was composed

vars == <<routes, served, pc, prior, todo, composed, removed, standing, seen, disturbed>>
history == <<removed, standing, seen, disturbed>>

ASSUME HostRoutesAssumption ==
    HostRoutes \subseteq [mark : {"host"}, name : {"host"},
                          type : {"route", "mount", "host", "other"},
                          first : {"control", "other", "braces", "empty", "malformed"}]
ASSUME CallsAssumption  == "host" \notin Calls
ASSUME BoundsAssumption == MaxHostRoutes \in Nat /\ MaxVariables \in Nat

(* The canonical routes.  A marked route names the call that built it; its *)
(* path begins with __control.                                             *)
Names == <<"surface-capabilities", "surface-status", "read-variable", "apply-variable-command">>

Control(c, n) == [mark |-> c, name |-> Names[n], type |-> "route", first |-> "control"]
SurfaceRoutes(c)  == <<Control(c, 1), Control(c, 2)>>
VariableRoutes(c) == <<Control(c, 3), Control(c, 4)>>
FamilyOf(c) == SurfaceRoutes(c) \o VariableRoutes(c)

ControlRoutes == UNION {ToSet(FamilyOf(c)) : c \in Calls}
Marked(list)  == {r \in ToSet(list) : r.mark # "host"}

Lists  == Seq(HostRoutes \cup ControlRoutes)

ASSUME RemovalsAssumption == Removals \subseteq SUBSET ToSet(Names) \ {{}}
ASSUME ListsAssumption == Live # NoList /\ {Live, NoList} \cap Lists = {}

Failed == {"invalid", "installed", "collision"}
Ended  == Failed \cup {"ok"}
Places == {"idle", "scan", "classify", "snapshot", "assign"} \cup Ended

Init ==
    /\ routes = <<>> /\ served = FALSE
    /\ pc = [c \in Calls |-> "idle"]
    /\ prior = [c \in Calls |-> NoList]
    /\ todo = [c \in Calls |-> 0]
    /\ composed = [c \in Calls |-> <<>>]
    /\ removed = ToSet(Names)
    /\ standing = [c \in Calls |-> FALSE]
    /\ seen = [c \in Calls |-> 0]
    /\ disturbed = [c \in Calls |-> FALSE]

-----------------------------------------------------------------------------
(* Classification *)

(* _literal_first_segment: "none" for None, "empty" for the empty string.  *)
LiteralFirst(r) ==
    IF \/ r.first \in {"malformed", "braces"}
       \/ r.first = "empty" /\ r.type = "mount"
    THEN "none" ELSE r.first

Disjoint_SameForMounts(r) ==
    r.type \in {"route", "mount"} /\ r.first \notin {"malformed", "braces", "control"}

(* _route_is_disjoint                                                      *)
Disjoint(r) ==
    r.type \in {"route", "mount"} /\ LiteralFirst(r) \notin {"none", "control"}

(* What the framework would route to r: the first segments of the paths r  *)
(* may match.  A mount at the root, a host and a type nobody knows match   *)
(* any path; a pattern matches any segment, a malformed path who knows.    *)
Segments == {"control", "other", "empty"}
Reaches(r) ==
    IF \/ r.type \in {"host", "other"} \/ r.first \in {"braces", "malformed"}
       \/ r.type = "mount" /\ r.first = "empty"
    THEN Segments ELSE {r.first}

-----------------------------------------------------------------------------
(* One call *)

ListOf(c) == IF prior[c] = Live THEN routes ELSE prior[c]

(* The call ends without touching the application.                         *)
End(c, how) ==
    /\ pc' = [pc EXCEPT ![c] = how]
    /\ prior' = [prior EXCEPT ![c] = NoList]
    /\ todo' = [todo EXCEPT ![c] = 0]
    /\ UNCHANGED <<routes, served, composed, history>>

Compose_FromTheStart(c) ==
    /\ pc[c] = "snapshot" /\ todo[c] = 0
    /\ composed' = [composed EXCEPT ![c] = SubSeq(ListOf(c), 1, seen[c]) \o FamilyOf(c)]
    /\ pc' = [pc EXCEPT ![c] = "assign"]
    /\ UNCHANGED <<routes, served, prior, todo, history>>

Compose_OntoCurrent(c) ==
    /\ pc[c] = "snapshot" /\ todo[c] = 0
    /\ composed' = [composed EXCEPT ![c] = routes \o FamilyOf(c)]
    /\ pc' = [pc EXCEPT ![c] = "assign"]
    /\ UNCHANGED <<routes, served, prior, todo, history>>

ScanMarkers_AfterClassify(c) ==
    /\ pc[c] = "scan"
    /\ CASE \E r \in ToSet(ListOf(c)) : ~Disjoint(r) -> End(c, "collision")
         [] Marked(ListOf(c)) # {} -> End(c, "installed")
         [] OTHER -> /\ pc' = [pc EXCEPT ![c] = "classify"]
                     /\ UNCHANGED <<routes, served, prior, todo, composed, history>>

Snapshot_PastTheLast(c) ==
    /\ pc[c] = "snapshot"
    /\ todo' = [todo EXCEPT ![c] = @ - 1]
    /\ UNCHANGED <<routes, served, pc, prior, composed, history>>

(* An argument of the wrong type, a target of another socket, or an        *)
(* application that has begun to serve.                                    *)
Refuse(c) == pc[c] = "idle" /\ End(c, "invalid")

Begin(c, variables) ==
    /\ pc[c] = "idle" /\ ~served
    /\ pc' = [pc EXCEPT ![c] = "scan"]
    /\ prior' = [prior EXCEPT ![c] = Live]
    /\ todo' = [todo EXCEPT ![c] = variables]
    /\ standing' = [standing EXCEPT ![c] = Marked(routes) # {}]
    /\ UNCHANGED <<routes, served, composed, removed, seen, disturbed>>

ScanMarkers(c) ==
    /\ pc[c] = "scan"
    /\ IF Marked(ListOf(c)) # {}
       THEN End(c, "installed")
       ELSE /\ pc' = [pc EXCEPT ![c] = "classify"]
            /\ UNCHANGED <<routes, served, prior, todo, composed, history>>

Classify(c) ==
    /\ pc[c] = "classify"
    /\ IF \E r \in ToSet(ListOf(c)) : ~Disjoint(r)
       THEN End(c, "collision")
       ELSE /\ pc' = [pc EXCEPT ![c] = "snapshot"]
            /\ seen' = [seen EXCEPT ![c] = Len(ListOf(c))]
            /\ UNCHANGED <<routes, served, prior, todo, composed, removed, standing, disturbed>>

(* _build_variable_registry: one descriptor() callback returns.  It may    *)
(* return something undeclared or already there, or raise.  An exception   *)
(* that is no Exception reaches the caller as it is, with the same effect. *)
Snapshot(c) ==
    /\ pc[c] = "snapshot" /\ todo[c] > 0
    /\ todo' = [todo EXCEPT ![c] = @ - 1]
    /\ UNCHANGED <<routes, served, pc, prior, composed, history>>

SnapshotFails(c) ==
    /\ pc[c] = "snapshot" /\ todo[c] > 0
    /\ End(c, "invalid")

(* The framework refuses a route, or the four are not the canonical ones.  *)
BuildFails(c) ==
    /\ pc[c] = "snapshot" /\ todo[c] = 0
    /\ End(c, "invalid")

(* The four routes are built and marked; [*prior_routes, *routes].         *)
Compose(c) ==
    /\ pc[c] = "snapshot" /\ todo[c] = 0
    /\ composed' = [composed EXCEPT ![c] = ListOf(c) \o FamilyOf(c)]
    /\ pc' = [pc EXCEPT ![c] = "assign"]
    /\ UNCHANGED <<routes, served, prior, todo, history>>

Assign_OneByOne(c) ==
    /\ pc[c] = "assign"
    /\ LET next == SelectSeq(FamilyOf(c), LAMBDA r : r \notin ToSet(routes))
       IN  /\ routes' = Append(routes, Head(next))
           /\ pc' = IF Len(next) = 1 THEN [pc EXCEPT ![c] = "ok"] ELSE pc
    /\ removed' = {}
    /\ UNCHANGED <<served, prior, todo, composed, standing, seen, disturbed>>

(* app.router.routes = ...  Calls that took the list keep it.              *)
Assign(c) ==
    /\ pc[c] = "assign"
    /\ routes' = composed[c]
    /\ pc' = [pc EXCEPT ![c] = "ok"]
    /\ prior' = [d \in Calls |-> IF d = c THEN NoList
                                 ELSE IF prior[d] = Live THEN routes ELSE prior[d]]
    /\ composed' = [composed EXCEPT ![c] = <<>>]
    /\ removed' = {}
    /\ UNCHANGED <<served, todo, standing, seen, disturbed>>

Return(c) ==
    /\ pc[c] \in Ended
    /\ pc' = [pc EXCEPT ![c] = "idle"]
    /\ standing' = [standing EXCEPT ![c] = FALSE]
    /\ seen' = [seen EXCEPT ![c] = 0]
    /\ disturbed' = [disturbed EXCEPT ![c] = FALSE]
    /\ UNCHANGED <<routes, served, prior, todo, composed, removed>>

-----------------------------------------------------------------------------
(* The host *)

AddRoute(r) ==
    /\ Cardinality({i \in DOMAIN routes : routes[i].mark = "host"}) < MaxHostRoutes
    /\ routes' = Append(routes, r)
    /\ disturbed' = [c \in Calls |-> disturbed[c] \/ (pc[c] = "assign" /\ prior[c] = Live)]
    /\ UNCHANGED <<served, pc, prior, todo, composed, removed, standing, seen>>

(* The list without the routes of these names, in its order.  (It is       *)
(* SelectSeq with a test; TLAPS does not see the definition of SelectSeq.) *)
Remaining(list, names) ==
    LET kept[n \in 0..Len(list)] ==
            IF n = 0 THEN <<>>
            ELSE IF list[n].name \in names THEN kept[n - 1]
            ELSE Append(kept[n - 1], list[n])
    IN  kept[Len(list)]

(* Some or all of the marked routes go, in place.                          *)
Uninstall(names) ==
    /\ \E r \in Marked(routes) : r.name \in names
    /\ routes' = Remaining(routes, names)
    /\ removed' = removed \cup names
    /\ standing' = [c \in Calls |-> standing[c] /\ (pc[c] = "scan" => Marked(routes') # {})]
    /\ UNCHANGED <<served, pc, prior, todo, composed, seen, disturbed>>

(* The first request, or a lifespan, builds the middleware stack.          *)
Serve ==
    /\ ~served /\ served' = TRUE
    /\ UNCHANGED <<routes, pc, prior, todo, composed, history>>

Next ==
    \/ \E c \in Calls :
          \/ Refuse(c) \/ (\E n \in 0..MaxVariables : Begin(c, n))
          \/ ScanMarkers(c) \/ Classify(c) \/ Snapshot(c) \/ SnapshotFails(c)
          \/ BuildFails(c) \/ Compose(c) \/ Assign(c) \/ Return(c)
    \/ \E r \in HostRoutes : AddRoute(r)
    \/ \E names \in Removals : Uninstall(names)
    \/ Serve

Spec == Init /\ [][Next]_vars

-----------------------------------------------------------------------------
(* Properties *)

TypeOK ==
    /\ routes \in Lists /\ served \in BOOLEAN
    /\ pc \in [Calls -> Places]
    /\ prior \in [Calls -> Lists \cup {Live, NoList}]
    /\ todo \in [Calls -> 0..MaxVariables]
    /\ composed \in [Calls -> Lists]
    /\ removed \subseteq ToSet(Names)
    /\ standing \in [Calls -> BOOLEAN] /\ disturbed \in [Calls -> BOOLEAN]
    /\ seen \in [Calls -> Nat]

(* A control path never has two routes, however calls meet: of calls that  *)
(* all found no marked route the last one wins, because each of them adds  *)
(* its family to the list it scanned and never to the one that is there.   *)
AtMostOneFamily ==
    \A i, j \in DOMAIN routes :
        routes[i].mark # "host" /\ routes[j].mark # "host" /\ i # j =>
            routes[i].name # routes[j].name /\ routes[i].mark = routes[j].mark

(* All or nothing: the application never has a part of a family but what   *)
(* the host itself left of it.                                             *)
FamilyIsWhole == {r.name : r \in Marked(routes)} = ToSet(Names) \ removed

(* Any retained marked route reports an existing installation, and not a   *)
(* collision, though the four routes would collide with the new ones too.  *)
RetainedRoutesReportInstalled ==
    \A c \in Calls : standing[c] => pc[c] \in {"scan", "installed"}

(* No route the call classified stands in front of the control family and  *)
(* can take a request that is meant for it.                                *)
ClassifiedRoutesLeaveControl ==
    \A c \in Calls : pc[c] = "assign" =>
        \A i \in 1..seen[c] : "control" \notin Reaches(composed[c][i])

(* An installation that no other one overtook keeps every route of the     *)
(* host where it was, the ones the host added while descriptor() ran       *)
(* included, unless the host adds one between the composition of the new   *)
(* list and its assignment.                                                *)
HostRoutesSurvive ==
    [][\A c \in Calls :
          pc[c] = "assign" /\ pc'[c] = "ok" /\ prior[c] = Live /\ ~disturbed[c] =>
              routes' = routes \o FamilyOf(c)]_vars
=============================================================================
