---------------------------- MODULE MCInstaller ----------------------------
(* Hosts with routes of each verdict of the classifier: a literal segment, *)
(* the empty one, the reserved one, none (a mount at the root; a route of  *)
(* another pattern is treated alike), and a type it does not know.         *)
EXTENDS Installer, TLC

Host(type, first) == [mark |-> "host", name |-> "host", type |-> type, first |-> first]

MCHostRoutes ==
    {Host("route", "other"), Host("route", "empty"), Host("route", "control"),
     Host("mount", "empty"), Host("host", "other")}

(* An explicit uninstall, and one that forgets a route.                    *)
MCRemovals == {ToSet(Names), ToSet(Names) \ {"read-variable"}}

Symmetric == Permutations(Calls)
=============================================================================
