--------------------------- MODULE InstallerProofs ---------------------------
(***************************************************************************)
(* Proofs about Installer, for any number of calls, any routes of the      *)
(* host, any removals and any bounds.                                      *)
(***************************************************************************)
EXTENDS Installer, SequenceTheorems, WellFoundedInduction, TLAPS

-----------------------------------------------------------------------------
(* What an uninstall leaves.  Remaining is a recursive function: it is     *)
(* defined, and what it returns holds, by induction on the length of the   *)
(* list, in the form of the least number principle.                        *)

LEMMA LeastNumber ==
    ASSUME NEW T, T \subseteq Nat, T # {}
    PROVE  \E n \in T : \A m \in T : ~(m < n)
  <1>1. IsWellFoundedOn(OpToRel(<, Nat), Nat)
    BY NatLessThanWellFounded
  <1>2. \E n \in T : \A m \in T : ~(<<m, n>> \in OpToRel(<, Nat))
    BY <1>1, WFMin
  <1> QED BY <1>2 DEF OpToRel

(* A set of numbers with zero in it and closed under successor, up to a    *)
(* bound.                                                                  *)
LEMMA UpTo ==
    ASSUME NEW bound \in Nat, NEW S,
           0 \in S, \A n \in 1..bound : n - 1 \in S => n \in S
    PROVE  0..bound \subseteq S
  <1> DEFINE T == {n \in 0..bound : n \notin S}
  <1>1. SUFFICES ASSUME T # {} PROVE FALSE
    OBVIOUS
  <1>2. T \subseteq Nat
    OBVIOUS
  <1>3. PICK n \in T : \A m \in T : ~(m < n)
    BY <1>1, <1>2, LeastNumber
  <1> HIDE DEF T
  <1>4. n \in 0..bound /\ n \notin S
    BY DEF T
  <1>5. n \in 1..bound /\ n - 1 \in 0..bound
    BY <1>4
  <1>6. n - 1 \notin T
    BY <1>3, <1>5
  <1> QED BY <1>4, <1>5, <1>6 DEF T

(* The recursion of Remaining, as a function of the length of the prefix.  *)
KeptPrefixes(list, names) ==
    CHOOSE kept : kept = [n \in 0..Len(list) |->
            IF n = 0 THEN <<>>
            ELSE IF list[n].name \in names THEN kept[n - 1]
            ELSE Append(kept[n - 1], list[n])]

LEMMA RemainingIsTheLastPrefix ==
    ASSUME NEW list, NEW names
    PROVE  Remaining(list, names) = KeptPrefixes(list, names)[Len(list)]
  BY Zenon DEF Remaining, KeptPrefixes

LEMMA PrefixesExist ==
    ASSUME NEW list, Len(list) \in Nat, NEW names
    PROVE  KeptPrefixes(list, names) = [n \in 0..Len(list) |->
            IF n = 0 THEN <<>>
            ELSE IF list[n].name \in names THEN KeptPrefixes(list, names)[n - 1]
            ELSE Append(KeptPrefixes(list, names)[n - 1], list[n])]
  <1> DEFINE Fits(g, m) == g = [n \in 0..m |->
                IF n = 0 THEN <<>>
                ELSE IF list[n].name \in names THEN g[n - 1]
                ELSE Append(g[n - 1], list[n])]
             S == {m \in Nat : \E g : Fits(g, m)}
  <1>1. 0 \in S
    <2>1. [n \in 0..0 |-> <<>>] = [n \in 0..0 |->
                IF n = 0 THEN <<>>
                ELSE IF list[n].name \in names THEN [k \in 0..0 |-> <<>>][n - 1]
                ELSE Append([k \in 0..0 |-> <<>>][n - 1], list[n])]
      OBVIOUS
    <2> QED BY <2>1
  <1>2. ASSUME NEW m \in 1..Len(list), m - 1 \in S PROVE m \in S
    <2>1. PICK g : Fits(g, m - 1)
      BY <1>2
    <2> DEFINE more == IF list[m].name \in names THEN g[m - 1] ELSE Append(g[m - 1], list[m])
               h == [n \in 0..m |-> IF n = m THEN more ELSE g[n]]
    <2> HIDE DEF more
    <2>2. \A n \in 0..m : n # 0 => h[n - 1] = g[n - 1]
      OBVIOUS
    <2>3. ASSUME NEW n \in 0..m
          PROVE  h[n] = IF n = 0 THEN <<>>
                        ELSE IF list[n].name \in names THEN h[n - 1]
                        ELSE Append(h[n - 1], list[n])
      <3>1. CASE n = m
        BY <3>1, <2>2 DEF more
      <3>2. CASE n # m
        <4>1. n \in 0..(m - 1) /\ h[n] = g[n]
          BY <3>2
        <4>2. g[n] = IF n = 0 THEN <<>>
                     ELSE IF list[n].name \in names THEN g[n - 1]
                     ELSE Append(g[n - 1], list[n])
          BY <4>1, <2>1
        <4> QED BY <4>1, <4>2, <2>2
      <3> QED BY <3>1, <3>2
    <2>4. Fits(h, m)
      <3> HIDE DEF h
      <3>1. h = [n \in 0..m |-> h[n]]
        BY DEF h
      <3> QED BY <3>1, <2>3
    <2>5. \E f : Fits(f, m)
      <3> HIDE DEF h, Fits
      <3> QED BY <2>4
    <2> QED BY <2>5
  <1> HIDE DEF S
  <1>3. Len(list) \in S
    <2>1. \A m \in 1..Len(list) : m - 1 \in S => m \in S
      BY <1>2
    <2>2. 0..Len(list) \subseteq S
      BY <1>1, <2>1, UpTo
    <2> QED BY <2>2
  <1>4. \E g : Fits(g, Len(list))
    BY <1>3 DEF S
  <1> QED BY <1>4, Zenon DEF KeptPrefixes

(* e carries the places of rest, in their order, to those of the first n   *)
(* places of list whose names are not among these.                         *)
Embeds(e, rest, list, names, n) ==
    /\ e \in [1..Len(rest) -> 1..n]
    /\ \A i, j \in 1..Len(rest) : i < j => e[i] < e[j]
    /\ \A i \in 1..Len(rest) : rest[i] = list[e[i]] /\ list[e[i]].name \notin names
    /\ \A j \in 1..n : list[j].name \notin names => \E i \in 1..Len(rest) : e[i] = j

LEMMA OnePlaceMore ==
    ASSUME NEW S, NEW list \in Seq(S), NEW names, NEW n \in 1..Len(list),
           list[n].name \notin names,
           NEW rest \in Seq(S), NEW e, Embeds(e, rest, list, names, n - 1)
    PROVE  Embeds([i \in 1..(Len(rest) + 1) |-> IF i = Len(rest) + 1 THEN n ELSE e[i]],
                  Append(rest, list[n]), list, names, n)
  <1> DEFINE L == Len(rest)
             f == [i \in 1..(L + 1) |-> IF i = L + 1 THEN n ELSE e[i]]
             more == Append(rest, list[n])
  <1>1. L \in Nat /\ list[n] \in S
    OBVIOUS
  <1>2. /\ Len(more) = L + 1 /\ more[L + 1] = list[n]
        /\ \A i \in 1..L : more[i] = rest[i]
    BY <1>1
  <1>3. /\ f[L + 1] = n
        /\ \A i \in 1..L : f[i] = e[i] /\ e[i] \in 1..(n - 1)
    BY <1>1 DEF Embeds
  <1>4. \A i \in 1..(L + 1) : i \in 1..L \/ i = L + 1
    BY <1>1
  <1>e. f = [i \in 1..(L + 1) |-> f[i]]
    OBVIOUS
  <1> HIDE DEF L, f, more
  <1>5. f \in [1..(L + 1) -> 1..n]
    <2>1. \A i \in 1..(L + 1) : f[i] \in 1..n
      BY <1>3, <1>4
    <2> QED BY <1>e, <2>1
  <1>6. \A i, j \in 1..(L + 1) : i < j => f[i] < f[j]
    <2>1. \A i, j \in 1..L : i < j => e[i] < e[j]
      BY DEF Embeds, L
    <2>2. SUFFICES ASSUME NEW i \in 1..(L + 1), NEW j \in 1..(L + 1), i < j
                   PROVE  f[i] < f[j]
      OBVIOUS
    <2>3. i \in 1..L /\ f[i] = e[i] /\ f[i] \in 1..(n - 1)
      BY <1>1, <1>3, <2>2
    <2>4. CASE j \in 1..L
      BY <1>3, <2>1, <2>2, <2>3, <2>4
    <2>5. CASE j = L + 1
      BY <1>3, <2>3, <2>5
    <2> QED BY <1>4, <2>4, <2>5
  <1>7. \A i \in 1..(L + 1) : more[i] = list[f[i]] /\ list[f[i]].name \notin names
    <2>1. \A i \in 1..L : rest[i] = list[e[i]] /\ list[e[i]].name \notin names
      BY DEF Embeds, L
    <2> QED BY <1>2, <1>3, <1>4, <2>1
  <1>8. \A j \in 1..n : list[j].name \notin names => \E i \in 1..(L + 1) : f[i] = j
    <2>1. \A j \in 1..(n - 1) : list[j].name \notin names => \E i \in 1..L : e[i] = j
      BY DEF Embeds, L
    <2>2. \A j \in 1..n : j \in 1..(n - 1) \/ j = n
      OBVIOUS
    <2>3. L + 1 \in 1..(L + 1) /\ 1..L \subseteq 1..(L + 1)
      BY <1>1
    <2> QED BY <1>3, <2>1, <2>2, <2>3
  <1> QED BY <1>2, <1>5, <1>6, <1>7, <1>8 DEF Embeds, L, f, more

LEMMA OnePlaceLess ==
    ASSUME NEW S, NEW list \in Seq(S), NEW names, NEW n \in 1..Len(list),
           list[n].name \in names,
           NEW rest \in Seq(S), NEW e, Embeds(e, rest, list, names, n - 1)
    PROVE  Embeds(e, rest, list, names, n)
  <1>1. 1..(n - 1) \subseteq 1..n /\ \A j \in 1..n : j \in 1..(n - 1) \/ j = n
    OBVIOUS
  <1>2. e \in [1..Len(rest) -> 1..n]
    BY <1>1 DEF Embeds
  <1> QED BY <1>1, <1>2 DEF Embeds

(* An uninstall keeps the routes of other names, each once and in order,   *)
(* and nothing else.                                                       *)
LEMMA RemainingIsTheRest ==
    ASSUME NEW S, NEW list \in Seq(S), NEW names
    PROVE  /\ Remaining(list, names) \in Seq(S)
           /\ \E e : Embeds(e, Remaining(list, names), list, names, Len(list))
  <1> DEFINE kept == KeptPrefixes(list, names)
             Good == {n \in 0..Len(list) : /\ kept[n] \in Seq(S)
                                          /\ \E e : Embeds(e, kept[n], list, names, n)}
  <1>1. Len(list) \in Nat
    OBVIOUS
  <1>2. \A n \in 0..Len(list) :
           kept[n] = IF n = 0 THEN <<>>
                     ELSE IF list[n].name \in names THEN kept[n - 1]
                     ELSE Append(kept[n - 1], list[n])
    <2>1. kept = [n \in 0..Len(list) |->
            IF n = 0 THEN <<>>
            ELSE IF list[n].name \in names THEN kept[n - 1]
            ELSE Append(kept[n - 1], list[n])]
      BY <1>1, PrefixesExist
    <2> HIDE DEF kept
    <2> QED BY <2>1
  <1> HIDE DEF kept
  <1>3. 0 \in Good
    <2>1. kept[0] = <<>> /\ 0 \in 0..Len(list)
      BY <1>1, <1>2
    <2>2. Embeds([i \in 1..0 |-> 0], <<>>, list, names, 0)
      BY DEF Embeds
    <2>3. <<>> \in Seq(S)
      OBVIOUS
    <2>4. \E e : Embeds(e, kept[0], list, names, 0)
      BY <2>1, <2>2
    <2> QED BY <2>1, <2>3, <2>4
  <1>4. ASSUME NEW n \in 1..Len(list), n - 1 \in Good
        PROVE  n \in Good
    <2>1. PICK e : Embeds(e, kept[n - 1], list, names, n - 1)
      BY <1>4
    <2>2. kept[n - 1] \in Seq(S) /\ n \in 0..Len(list) /\ n # 0
      BY <1>4
    <2>3. CASE list[n].name \in names
      <3>1. kept[n] = kept[n - 1]
        BY <1>2, <2>2, <2>3
      <3>2. Embeds(e, kept[n], list, names, n)
        BY <2>1, <2>2, <2>3, <3>1, OnePlaceLess
      <3> QED BY <2>2, <3>1, <3>2
    <2>4. CASE list[n].name \notin names
      <3>1. kept[n] = Append(kept[n - 1], list[n])
        <4>1. kept[n] = IF n = 0 THEN <<>>
                        ELSE IF list[n].name \in names THEN kept[n - 1]
                        ELSE Append(kept[n - 1], list[n])
          BY <1>2, <2>2
        <4> QED BY <4>1, <2>2, <2>4
      <3>e. list[n] \in S
        OBVIOUS
      <3>2. \E f : Embeds(f, kept[n], list, names, n)
        BY <2>1, <2>2, <2>4, <3>1, OnePlaceMore
      <3>3. kept[n] \in Seq(S)
        BY <2>2, <3>1, <3>e
      <3> QED BY <2>2, <3>2, <3>3
    <2> QED BY <2>3, <2>4
  <1> HIDE DEF Good
  <1>5. Len(list) \in Good
    <2>1. \A n \in 1..Len(list) : n - 1 \in Good => n \in Good
      BY <1>4
    <2>2. 0..Len(list) \subseteq Good
      BY <1>1, <1>3, <2>1, UpTo
    <2> QED BY <1>1, <2>2
  <1>6. Remaining(list, names) = kept[Len(list)]
    BY RemainingIsTheLastPrefix DEF kept
  <1> QED BY <1>5, <1>6 DEF Good

-----------------------------------------------------------------------------
(* The control family.                                                     *)

LEMMA NamesAre ==
    /\ ToSet(Names) = {Names[1], Names[2], Names[3], Names[4]}
    /\ \A i, j \in 1..4 : i # j => Names[i] # Names[j]
    /\ \A i \in 1..4 : Names[i] \in ToSet(Names)
  BY DEF Names, ToSet

LEMMA FamilyIs ==
    ASSUME NEW c \in Calls
    PROVE  /\ FamilyOf(c) = <<Control(c, 1), Control(c, 2), Control(c, 3), Control(c, 4)>>
           /\ Len(FamilyOf(c)) = 4
           /\ \A i \in 1..4 : FamilyOf(c)[i] = Control(c, i)
           /\ FamilyOf(c) \in Seq(ControlRoutes)
  <1>1. FamilyOf(c) = <<Control(c, 1), Control(c, 2), Control(c, 3), Control(c, 4)>>
    <2>1. ASSUME NEW p, NEW q, NEW r, NEW t
          PROVE  <<p, q>> \o <<r, t>> = <<p, q, r, t>>
      <3>1. <<p, q>> \in Seq({p, q, r, t}) /\ <<r, t>> \in Seq({p, q, r, t})
        OBVIOUS
      <3>2. /\ <<p, q>> \o <<r, t>> \in Seq({p, q, r, t})
            /\ Len(<<p, q>> \o <<r, t>>) = 4
            /\ (<<p, q>> \o <<r, t>>)[1] = p /\ (<<p, q>> \o <<r, t>>)[2] = q
            /\ (<<p, q>> \o <<r, t>>)[3] = r /\ (<<p, q>> \o <<r, t>>)[4] = t
        BY <3>1
      <3>3. /\ <<p, q, r, t>> \in Seq({p, q, r, t}) /\ Len(<<p, q, r, t>>) = 4
            /\ <<p, q, r, t>>[1] = p /\ <<p, q, r, t>>[2] = q
            /\ <<p, q, r, t>>[3] = r /\ <<p, q, r, t>>[4] = t
        OBVIOUS
      <3> DEFINE left == <<p, q>> \o <<r, t>>
                 right == <<p, q, r, t>>
      <3> HIDE DEF left, right
      <3>4. \A i \in 1..Len(left) : left[i] = right[i]
        <4>1. \A i \in 1..4 : i = 1 \/ i = 2 \/ i = 3 \/ i = 4
          OBVIOUS
        <4> QED BY <3>2, <3>3, <4>1 DEF left, right
      <3>5. /\ left \in Seq({p, q, r, t}) /\ right \in Seq({p, q, r, t})
            /\ Len(left) = Len(right)
        BY <3>2, <3>3 DEF left, right
      <3>6. left = right
        BY <3>4, <3>5, SeqEqual
      <3> QED BY <3>6 DEF left, right
    <2>2. FamilyOf(c) = <<Control(c, 1), Control(c, 2)>> \o <<Control(c, 3), Control(c, 4)>>
      BY Zenon DEF FamilyOf, SurfaceRoutes, VariableRoutes
    <2> QED BY <2>1, <2>2, Zenon
  <1>2. /\ Len(FamilyOf(c)) = 4
        /\ \A i \in 1..4 : FamilyOf(c)[i] = Control(c, i)
    BY <1>1
  <1>3. \A i \in 1..4 : FamilyOf(c)[i] \in ControlRoutes
    <2>1. \A i \in 1..4 : FamilyOf(c)[i] \in ToSet(FamilyOf(c))
      BY <1>1 DEF ToSet
    <2> QED BY <2>1 DEF ControlRoutes
  <1>4. FamilyOf(c) \in Seq(ControlRoutes)
    BY <1>1, <1>2, <1>3
  <1> QED BY <1>1, <1>2, <1>4

(* Routes are records whose mark is the host's or a call's.                *)
LEMMA MarksAre ==
    /\ \A r \in HostRoutes : r.mark = "host"
    /\ \A c \in Calls, i \in 1..4 : /\ Control(c, i).mark = c /\ c # "host"
                                   /\ Control(c, i).name = Names[i]
  BY HostRoutesAssumption, CallsAssumption DEF Control

LEMMA MarkedAre ==
    ASSUME NEW list \in Lists
    PROVE  /\ DOMAIN list = 1..Len(list) /\ Len(list) \in Nat
           /\ Marked(list) = {r \in {list[i] : i \in 1..Len(list)} : r.mark # "host"}
  BY DEF Marked, ToSet, Lists

(* No two routes of one control path, and no two families, in a list.      *)
OneFamily(list) ==
    \A i, j \in 1..Len(list) :
        list[i].mark # "host" /\ list[j].mark # "host" /\ i # j =>
            list[i].name # list[j].name /\ list[i].mark = list[j].mark

(* An unmarked list and a family after it are one whole family.            *)
LEMMA OntoUnmarked ==
    ASSUME NEW c \in Calls, NEW list \in Lists, Marked(list) = {}
    PROVE  /\ list \o FamilyOf(c) \in Lists
           /\ OneFamily(list \o FamilyOf(c))
           /\ {r.name : r \in Marked(list \o FamilyOf(c))} = ToSet(Names)
  <1> DEFINE new == list \o FamilyOf(c)
             L == Len(list)
  <1>1. L \in Nat /\ \A i \in 1..L : list[i].mark = "host"
    BY MarkedAre
  <1>2. /\ Len(FamilyOf(c)) = 4 /\ FamilyOf(c) \in Lists
        /\ \A i \in 1..4 : FamilyOf(c)[i] = Control(c, i)
    <2>1. FamilyOf(c) \in Seq(HostRoutes \cup ControlRoutes)
      BY FamilyIs
    <2> QED BY <2>1, FamilyIs DEF Lists
  <1>3. /\ new \in Lists /\ Len(new) = L + 4
        /\ \A i \in 1..L : new[i] = list[i]
        /\ \A i \in 1..4 : new[L + i] = FamilyOf(c)[i]
    <2>1. list \in Seq(HostRoutes \cup ControlRoutes) /\ FamilyOf(c) \in Seq(HostRoutes \cup ControlRoutes)
      BY <1>2 DEF Lists
    <2>2. \A a, b \in Seq(HostRoutes \cup ControlRoutes) :
             /\ a \o b \in Seq(HostRoutes \cup ControlRoutes)
             /\ Len(a \o b) = Len(a) + Len(b)
             /\ \A i \in 1..Len(a) : (a \o b)[i] = a[i]
             /\ \A i \in 1..Len(b) : (a \o b)[Len(a) + i] = b[i]
      OBVIOUS
    <2>3. /\ new \in Lists /\ Len(new) = L + Len(FamilyOf(c))
          /\ \A i \in 1..L : new[i] = list[i]
          /\ \A i \in 1..Len(FamilyOf(c)) : new[L + i] = FamilyOf(c)[i]
      BY <2>1, <2>2, Zenon DEF Lists
    <2> QED BY <1>2, <2>3
  <1> HIDE DEF new, L
  <1>4. \A i \in 1..4 : /\ new[L + i].mark = c /\ new[L + i].mark # "host"
                        /\ new[L + i].name = Names[i]
    BY <1>2, <1>3, MarksAre
  <1>5. \A i \in 1..Len(new) : new[i].mark # "host" => \E k \in 1..4 : i = L + k
    <2>1. SUFFICES ASSUME NEW i \in 1..Len(new), i \notin 1..L
                   PROVE  \E k \in 1..4 : i = L + k
      BY <1>1, <1>3
    <2>2. i - L \in 1..4 /\ i = L + (i - L)
      BY <1>1, <1>3, <2>1
    <2> QED BY <2>2
  <1>6. OneFamily(new)
    BY <1>4, <1>5, NamesAre DEF OneFamily
  <1>7. {r.name : r \in Marked(new)} = ToSet(Names)
    <2>1. Marked(new) = {r \in {new[i] : i \in 1..Len(new)} : r.mark # "host"}
      BY <1>3, MarkedAre
    <2>2. ASSUME NEW r \in Marked(new) PROVE r.name \in ToSet(Names)
      BY <1>4, <1>5, <2>1, NamesAre
    <2>3. ASSUME NEW k \in 1..4 PROVE \E r \in Marked(new) : r.name = Names[k]
      <3>1. L + k \in 1..Len(new)
        BY <1>1, <1>3
      <3> QED BY <1>4, <2>1, <3>1
    <2> QED BY <2>2, <2>3, NamesAre
  <1> QED BY <1>3, <1>6, <1>7 DEF new

(* One route of the host more.                                             *)
LEMMA OneHostRouteMore ==
    ASSUME NEW list \in Lists, NEW r \in HostRoutes
    PROVE  /\ Append(list, r) \in Lists /\ Len(Append(list, r)) = Len(list) + 1
           /\ \A i \in 1..Len(list) : Append(list, r)[i] = list[i]
           /\ Marked(Append(list, r)) = Marked(list)
           /\ OneFamily(list) => OneFamily(Append(list, r))
  <1> DEFINE new == Append(list, r)
             L == Len(list)
  <1>1. /\ L \in Nat /\ new \in Lists /\ Len(new) = L + 1
        /\ \A i \in 1..L : new[i] = list[i]
        /\ new[L + 1] = r
    BY DEF Lists
  <1>2. r.mark = "host"
    BY MarksAre
  <1> HIDE DEF new
  <1>3. /\ Marked(new) = {q \in {new[i] : i \in 1..(L + 1)} : q.mark # "host"}
        /\ Marked(list) = {q \in {list[i] : i \in 1..L} : q.mark # "host"}
    BY <1>1, MarkedAre
  <1> HIDE DEF L
  <1>4. \A i \in 1..(L + 1) : i \in 1..L \/ i = L + 1
    BY <1>1
  <1>5. 1..L \subseteq 1..(L + 1)
    BY <1>1
  <1>6. Marked(new) = Marked(list)
    BY <1>1, <1>2, <1>3, <1>4, <1>5
  <1>7. OneFamily(list) => OneFamily(new)
    BY <1>1, <1>2, <1>4 DEF OneFamily, L
  <1> QED BY <1>1, <1>6, <1>7 DEF new, L

(* What the host leaves of a family is no more than one family.            *)
LEMMA WhatIsLeft ==
    ASSUME NEW list \in Lists, NEW names
    PROVE  /\ Remaining(list, names) \in Lists
           /\ Marked(Remaining(list, names)) = {r \in Marked(list) : r.name \notin names}
           /\ OneFamily(list) => OneFamily(Remaining(list, names))
  <1> DEFINE rest == Remaining(list, names)
  <1>1. /\ rest \in Lists
        /\ \E e : Embeds(e, rest, list, names, Len(list))
    BY RemainingIsTheRest DEF Lists
  <1> HIDE DEF rest
  <1>2. PICK e : Embeds(e, rest, list, names, Len(list))
    BY <1>1
  <1>3. /\ Marked(rest) = {r \in {rest[i] : i \in 1..Len(rest)} : r.mark # "host"}
        /\ Marked(list) = {r \in {list[i] : i \in 1..Len(list)} : r.mark # "host"}
        /\ Len(rest) \in Nat /\ Len(list) \in Nat
    BY <1>1, MarkedAre
  <1>4. \A i \in 1..Len(rest) : /\ e[i] \in 1..Len(list)
                                /\ rest[i] = list[e[i]] /\ rest[i].name \notin names
    BY <1>2 DEF Embeds
  <1>5. \A j \in 1..Len(list) :
           list[j].name \notin names => \E i \in 1..Len(rest) : rest[i] = list[j]
    BY <1>2 DEF Embeds
  <1>6. Marked(rest) = {r \in Marked(list) : r.name \notin names}
    BY <1>3, <1>4, <1>5
  <1>7. \A i, j \in 1..Len(rest) : i # j => e[i] # e[j]
    <2>1. \A i, j \in 1..Len(rest) : i < j => e[i] < e[j]
      BY <1>2 DEF Embeds
    <2>2. \A i, j \in 1..Len(rest) : i # j => i < j \/ j < i
      BY <1>3
    <2> QED BY <1>3, <1>4, <2>1, <2>2
  <1>8. OneFamily(list) => OneFamily(rest)
    <2>1. SUFFICES ASSUME OneFamily(list),
                          NEW i \in 1..Len(rest), NEW j \in 1..Len(rest),
                          rest[i].mark # "host", rest[j].mark # "host", i # j
                   PROVE  rest[i].name # rest[j].name /\ rest[i].mark = rest[j].mark
      BY DEF OneFamily
    <2>2. /\ e[i] \in 1..Len(list) /\ e[j] \in 1..Len(list) /\ e[i] # e[j]
          /\ rest[i] = list[e[i]] /\ rest[j] = list[e[j]]
      BY <1>4, <1>7, <2>1
    <2> QED BY <2>1, <2>2 DEF OneFamily
  <1> QED BY <1>1, <1>6, <1>8 DEF rest

-----------------------------------------------------------------------------
(* The inductive invariant: what each call may rely on where it stands.    *)
(* The list a call took is the application's own or a value, and it is     *)
(* the same thing to the call: what the scan and the classification found  *)
(* of it stays true of it, whatever the other calls and the host do.       *)

Working == {"scan", "classify", "snapshot", "assign"}

HoldsAList(c) == pc[c] \in Working => prior[c] # NoList

(* A call past its scan has seen a list without marked routes, and the     *)
(* host cannot uninstall what is not there.                                *)
Unmarked(c) == pc[c] \in Working \ {"scan"} => Marked(ListOf(c)) = {}

Classified(c) ==
    pc[c] = "snapshot" =>
        seen[c] <= Len(ListOf(c)) /\ \A i \in 1..seen[c] : Disjoint(ListOf(c)[i])

Composition(c) ==
    pc[c] = "assign" =>
        \E list \in Lists :
            /\ Marked(list) = {} /\ composed[c] = list \o FamilyOf(c)
            /\ seen[c] <= Len(list) /\ \A i \in 1..seen[c] : Disjoint(list[i])
            /\ prior[c] = Live /\ ~disturbed[c] => list = routes

StillStanding(c) ==
    standing[c] => /\ pc[c] \in {"scan", "installed"}
                   /\ pc[c] = "scan" => Marked(ListOf(c)) # {}

CallInv(c) ==
    HoldsAList(c) /\ Unmarked(c) /\ Classified(c) /\ Composition(c) /\ StillStanding(c)

InstallerInv ==
    TypeOK /\ AtMostOneFamily /\ FamilyIsWhole /\ \A c \in Calls : CallInv(c)

LEMMA ListsAreTyped ==
    ASSUME TypeOK, NEW c \in Calls, prior[c] # NoList
    PROVE  ListOf(c) \in Lists
  BY DEF TypeOK, ListOf

(* Nothing that matters to a call has changed.                             *)
Still(d) ==
    /\ pc'[d] = pc[d] /\ seen'[d] = seen[d] /\ composed'[d] = composed[d]
    /\ standing'[d] = standing[d] /\ disturbed'[d] = disturbed[d]
    /\ prior'[d] = NoList => prior[d] = NoList
    /\ prior'[d] = Live => prior[d] = Live /\ routes' = routes
    /\ ListOf(d)' = ListOf(d)

LEMMA StillHolds ==
    ASSUME NEW d \in Calls, CallInv(d), Still(d)
    PROVE  CallInv(d)'
  <1>1. HoldsAList(d)'
    BY DEF CallInv, Still, HoldsAList
  <1>2. Unmarked(d)'
    <2>1. ListOf(d)' = ListOf(d) /\ pc'[d] = pc[d]
      BY DEF Still
    <2>2. Marked(ListOf(d))' = Marked(ListOf(d))
      BY <2>1 DEF Marked
    <2> QED BY <2>1, <2>2 DEF CallInv, Unmarked
  <1>3. Classified(d)'
    <2>1. ListOf(d)' = ListOf(d) /\ pc'[d] = pc[d] /\ seen'[d] = seen[d]
      BY DEF Still
    <2> QED BY <2>1 DEF CallInv, Classified
  <1>4. Composition(d)'
    <2>1. SUFFICES ASSUME pc'[d] = "assign"
                   PROVE  \E list \in Lists :
                            /\ Marked(list) = {} /\ composed'[d] = list \o FamilyOf(d)
                            /\ seen'[d] <= Len(list)
                            /\ \A i \in 1..seen'[d] : Disjoint(list[i])
                            /\ prior'[d] = Live /\ ~disturbed'[d] => list = routes'
      BY DEF Composition
    <2>2. PICK list \in Lists :
             /\ Marked(list) = {} /\ composed[d] = list \o FamilyOf(d)
             /\ seen[d] <= Len(list) /\ \A i \in 1..seen[d] : Disjoint(list[i])
             /\ prior[d] = Live /\ ~disturbed[d] => list = routes
      BY <2>1 DEF CallInv, Composition, Still
    <2> QED BY <2>2 DEF Still
  <1>5. StillStanding(d)'
    <2>1. ListOf(d)' = ListOf(d) /\ pc'[d] = pc[d] /\ standing'[d] = standing[d]
      BY DEF Still
    <2>2. Marked(ListOf(d))' = Marked(ListOf(d))
      BY <2>1 DEF Marked
    <2> QED BY <2>1, <2>2 DEF CallInv, StillStanding
  <1> QED BY <1>1, <1>2, <1>3, <1>4, <1>5 DEF CallInv

(* A call that ends, or has ended, is bound to nothing but its history.    *)
LEMMA EndedHolds ==
    ASSUME NEW c \in Calls, pc'[c] \notin Working,
           standing'[c] => pc'[c] = "installed"
    PROVE  CallInv(c)'
  BY DEF CallInv, HoldsAList, Unmarked, Classified, Composition, StillStanding, Working

(* The steps of one call that leave the application alone.                 *)
Quiet(c) ==
    /\ UNCHANGED routes
    /\ \A d \in Calls \ {c} :
          /\ pc'[d] = pc[d] /\ seen'[d] = seen[d] /\ composed'[d] = composed[d]
          /\ standing'[d] = standing[d] /\ disturbed'[d] = disturbed[d]
          /\ prior'[d] = prior[d]

LEMMA QuietHolds ==
    ASSUME NEW c \in Calls, NEW d \in Calls \ {c}, CallInv(d), Quiet(c)
    PROVE  CallInv(d)'
  <1>1. Still(d)
    BY DEF Quiet, Still, ListOf
  <1> QED BY <1>1, StillHolds

LEMMA EndHolds ==
    ASSUME TypeOK, NEW c \in Calls, CallInv(c), NEW how \in Failed, End(c, how),
           standing[c] => how = "installed"
    PROVE  CallInv(c)' /\ Quiet(c)
  <1>1. pc'[c] = how /\ standing'[c] = standing[c]
    BY DEF End, TypeOK, history
  <1>2. CallInv(c)'
    BY <1>1, EndedHolds DEF Failed, Working
  <1>3. Quiet(c)
    BY DEF End, TypeOK, history, Quiet
  <1> QED BY <1>2, <1>3

(* A call's own steps, but for the assignment.                             *)
OwnSteps(c) ==
    \/ Refuse(c) \/ (\E n \in 0..MaxVariables : Begin(c, n))
    \/ ScanMarkers(c) \/ Classify(c) \/ Snapshot(c) \/ SnapshotFails(c)
    \/ BuildFails(c) \/ Compose(c) \/ Return(c)

LEMMA OwnStepsHold ==
    ASSUME TypeOK, NEW c \in Calls, CallInv(c), OwnSteps(c)
    PROVE  CallInv(c)' /\ Quiet(c)
  <1> USE DEF Failed
  <1>0. standing[c] => pc[c] \in {"scan", "installed"}
    BY DEF CallInv, StillStanding
  <1>1. CASE Refuse(c)
    BY <1>0, <1>1, EndHolds DEF Refuse
  <1>2. ASSUME NEW n \in 0..MaxVariables, Begin(c, n)
        PROVE  CallInv(c)' /\ Quiet(c)
    <2>1. /\ pc'[c] = "scan" /\ prior'[c] = Live /\ routes' = routes
          /\ standing'[c] = (Marked(routes) # {})
      BY <1>2 DEF Begin, TypeOK
    <2>2. ListOf(c)' = routes
      BY <2>1 DEF ListOf
    <2>3. HoldsAList(c)'
      BY <2>1, ListsAssumption DEF HoldsAList
    <2>4. StillStanding(c)'
      <3>1. Marked(ListOf(c))' = Marked(routes)
        BY <2>2 DEF Marked
      <3> QED BY <2>1, <3>1 DEF StillStanding
    <2>5. Unmarked(c)' /\ Classified(c)' /\ Composition(c)'
      BY <2>1 DEF Unmarked, Classified, Composition
    <2>6. Quiet(c)
      BY <1>2 DEF Begin, TypeOK, Quiet
    <2> QED BY <2>3, <2>4, <2>5, <2>6 DEF CallInv
  <1>3. CASE ScanMarkers(c)
    <2>1. pc[c] = "scan"
      BY <1>3 DEF ScanMarkers
    <2>2. CASE Marked(ListOf(c)) # {}
      <3>1. End(c, "installed")
        BY <1>3, <2>2 DEF ScanMarkers
      <3> QED BY <3>1, EndHolds
    <2>3. CASE Marked(ListOf(c)) = {}
      <3>1. /\ pc' = [pc EXCEPT ![c] = "classify"]
            /\ UNCHANGED <<routes, served, prior, todo, composed, history>>
        BY <1>3, <2>3 DEF ScanMarkers
      <3>2. pc'[c] = "classify" /\ prior'[c] = prior[c] /\ standing'[c] = standing[c]
        BY <3>1 DEF TypeOK, history
      <3>3. ListOf(c)' = ListOf(c)
        BY <3>1 DEF ListOf
      <3>4. Marked(ListOf(c))' = {}
        BY <2>3, <3>3 DEF Marked
      <3>5. HoldsAList(c)' /\ Unmarked(c)'
        BY <2>1, <3>2, <3>4 DEF CallInv, HoldsAList, Unmarked, Working
      <3>6. StillStanding(c)'
        BY <2>1, <2>3, <3>2 DEF CallInv, StillStanding
      <3>7. Classified(c)' /\ Composition(c)'
        BY <3>2 DEF Classified, Composition
      <3>8. Quiet(c)
        BY <3>1 DEF TypeOK, Quiet, history
      <3> QED BY <3>5, <3>6, <3>7, <3>8 DEF CallInv
    <2> QED BY <2>2, <2>3
  <1>4. CASE Classify(c)
    <2>1. pc[c] = "classify"
      BY <1>4 DEF Classify
    <2>2. CASE \E r \in ToSet(ListOf(c)) : ~Disjoint(r)
      <3>1. End(c, "collision")
        BY <1>4, <2>2 DEF Classify
      <3> QED BY <1>0, <2>1, <3>1, EndHolds
    <2>3. CASE \A r \in ToSet(ListOf(c)) : Disjoint(r)
      <3>1. /\ pc' = [pc EXCEPT ![c] = "snapshot"]
            /\ seen' = [seen EXCEPT ![c] = Len(ListOf(c))]
            /\ UNCHANGED <<routes, served, prior, todo, composed, removed, standing, disturbed>>
        BY <1>4, <2>3 DEF Classify
      <3>2. /\ pc'[c] = "snapshot" /\ prior'[c] = prior[c] /\ standing'[c] = standing[c]
            /\ seen'[c] = Len(ListOf(c))
        BY <3>1 DEF TypeOK
      <3>3. ListOf(c)' = ListOf(c)
        BY <3>1 DEF ListOf
      <3>4. HoldsAList(c)'
        BY <2>1, <3>2 DEF CallInv, HoldsAList, Working
      <3>5. Unmarked(c)'
        <4>1. Marked(ListOf(c))' = Marked(ListOf(c))
          BY <3>3 DEF Marked
        <4> QED BY <2>1, <4>1 DEF CallInv, Unmarked, Working
      <3>6. Classified(c)'
        <4>1. ListOf(c) \in Lists
          BY <2>1, ListsAreTyped DEF CallInv, HoldsAList, Working
        <4>2. Len(ListOf(c)) \in Nat /\ \A i \in 1..Len(ListOf(c)) : Disjoint(ListOf(c)[i])
          BY <2>3, <4>1 DEF ToSet, Lists
        <4> QED BY <3>2, <3>3, <4>2 DEF Classified
      <3>7. Composition(c)' /\ StillStanding(c)'
        BY <1>0, <2>1, <3>2 DEF Composition, StillStanding
      <3>8. Quiet(c)
        BY <3>1 DEF TypeOK, Quiet
      <3> QED BY <3>4, <3>5, <3>6, <3>7, <3>8 DEF CallInv
    <2> QED BY <2>2, <2>3
  <1>5. CASE Snapshot(c)
    <2>1. Still(c) /\ Quiet(c)
      BY <1>5 DEF Snapshot, TypeOK, Still, Quiet, ListOf, history
    <2> QED BY <2>1, StillHolds
  <1>6. CASE SnapshotFails(c)
    BY <1>0, <1>6, EndHolds DEF SnapshotFails
  <1>7. CASE BuildFails(c)
    BY <1>0, <1>7, EndHolds DEF BuildFails
  <1>8. CASE Compose(c)
    <2>1. /\ pc[c] = "snapshot" /\ pc'[c] = "assign"
          /\ composed'[c] = ListOf(c) \o FamilyOf(c)
          /\ prior'[c] = prior[c] /\ seen'[c] = seen[c] /\ standing'[c] = standing[c]
          /\ routes' = routes
      BY <1>8 DEF Compose, TypeOK, history
    <2>2. ListOf(c)' = ListOf(c)
      BY <2>1 DEF ListOf
    <2>3. prior[c] # NoList /\ Marked(ListOf(c)) = {}
      BY <2>1 DEF CallInv, HoldsAList, Unmarked, Working
    <2>4. ListOf(c) \in Lists
      BY <2>3, ListsAreTyped
    <2>5. HoldsAList(c)'
      BY <2>1, <2>3 DEF HoldsAList
    <2>6. Unmarked(c)'
      BY <2>2, <2>3 DEF Unmarked, Marked
    <2>7. Composition(c)'
      <3>1. prior[c] = Live => ListOf(c) = routes
        BY DEF ListOf
      <3>2. seen[c] <= Len(ListOf(c)) /\ \A i \in 1..seen[c] : Disjoint(ListOf(c)[i])
        BY <2>1 DEF CallInv, Classified
      <3> QED BY <2>1, <2>3, <2>4, <3>1, <3>2 DEF Composition
    <2>8. Classified(c)' /\ StillStanding(c)'
      BY <1>0, <2>1 DEF Classified, StillStanding
    <2>9. Quiet(c)
      BY <1>8 DEF Compose, TypeOK, Quiet, history
    <2> QED BY <2>5, <2>6, <2>7, <2>8, <2>9 DEF CallInv
  <1>9. CASE Return(c)
    <2>1. pc'[c] = "idle" /\ standing'[c] = FALSE
      BY <1>9 DEF Return, TypeOK
    <2>2. Quiet(c)
      BY <1>9 DEF Return, TypeOK, Quiet
    <2> QED BY <2>1, <2>2, EndedHolds DEF Working
  <1> QED BY <1>1, <1>2, <1>3, <1>4, <1>5, <1>6, <1>7, <1>8, <1>9 DEF OwnSteps

(* The assignment: the calls that took the list the application gives up   *)
(* keep it, as a value.                                                    *)
LEMMA AssignHolds ==
    ASSUME TypeOK, NEW c \in Calls, Assign(c), \A d \in Calls : CallInv(d)
    PROVE  \A d \in Calls : CallInv(d)'
  <1>1. pc'[c] = "ok" /\ standing'[c] = standing[c] /\ pc[c] = "assign"
    BY DEF Assign, TypeOK
  <1>2. CallInv(c)'
    BY <1>1, EndedHolds DEF Working, CallInv, StillStanding
  <1>3. ASSUME NEW d \in Calls, d # c PROVE CallInv(d)'
    <2>1. /\ pc'[d] = pc[d] /\ seen'[d] = seen[d] /\ composed'[d] = composed[d]
          /\ standing'[d] = standing[d] /\ disturbed'[d] = disturbed[d]
          /\ prior'[d] = IF prior[d] = Live THEN routes ELSE prior[d]
      BY <1>3 DEF Assign, TypeOK
    <2>2. routes # Live /\ routes # NoList
      BY ListsAssumption DEF TypeOK
    <2>3. Still(d)
      BY <2>1, <2>2 DEF Still, ListOf
    <2> QED BY <2>3, StillHolds
  <1> QED BY <1>2, <1>3

(* The host adds a route.  A call that took the list finds one more at its *)
(* end, which bears no mark.                                               *)
LEMMA AddRouteHolds ==
    ASSUME TypeOK, NEW r \in HostRoutes, AddRoute(r), NEW d \in Calls, CallInv(d)
    PROVE  CallInv(d)'
  <1>1. /\ pc'[d] = pc[d] /\ seen'[d] = seen[d] /\ composed'[d] = composed[d]
        /\ standing'[d] = standing[d] /\ prior'[d] = prior[d]
        /\ disturbed'[d] = (disturbed[d] \/ (pc[d] = "assign" /\ prior[d] = Live))
        /\ routes' = Append(routes, r)
    BY DEF AddRoute, TypeOK
  <1>2. CASE prior[d] # Live
    <2>1. ListOf(d)' = ListOf(d)
      BY <1>1, <1>2 DEF ListOf
    <2>2. disturbed'[d] = disturbed[d]
      BY <1>1, <1>2 DEF TypeOK
    <2>3. Still(d)
      BY <1>1, <1>2, <2>1, <2>2 DEF Still
    <2> QED BY <2>3, StillHolds
  <1>3. CASE prior[d] = Live
    <2>1. ListOf(d) = routes /\ ListOf(d)' = Append(routes, r)
      BY <1>1, <1>3 DEF ListOf
    <2>2. routes \in Lists
      BY DEF TypeOK
    <2>3. Marked(ListOf(d))' = Marked(ListOf(d))
      <3>1. Marked(Append(routes, r)) = Marked(routes)
        BY <2>2, OneHostRouteMore
      <3> QED BY <2>1, <3>1 DEF Marked
    <2>4. HoldsAList(d)'
      BY <1>1 DEF CallInv, HoldsAList
    <2>5. Unmarked(d)' /\ StillStanding(d)'
      BY <1>1, <2>3 DEF CallInv, Unmarked, StillStanding
    <2>6. Classified(d)'
      <3>1. /\ Len(Append(routes, r)) = Len(routes) + 1 /\ Len(routes) \in Nat
            /\ \A i \in 1..Len(routes) : Append(routes, r)[i] = routes[i]
        BY <2>2, OneHostRouteMore, MarkedAre
      <3>2. SUFFICES ASSUME pc[d] = "snapshot"
                     PROVE  /\ seen[d] <= Len(Append(routes, r))
                            /\ \A i \in 1..seen[d] : Disjoint(Append(routes, r)[i])
        BY <1>1, <2>1 DEF Classified
      <3>3. /\ seen[d] <= Len(routes) /\ seen[d] \in Nat
            /\ \A i \in 1..seen[d] : Disjoint(routes[i])
        BY <2>1, <3>2 DEF CallInv, Classified, TypeOK
      <3>4. \A i \in 1..seen[d] : i \in 1..Len(routes)
        BY <3>1, <3>3
      <3> QED BY <3>1, <3>3, <3>4
    <2>7. Composition(d)'
      <3>1. pc[d] = "assign" => disturbed'[d]
        BY <1>1, <1>3
      <3> QED BY <1>1, <3>1 DEF CallInv, Composition
    <2> QED BY <2>4, <2>5, <2>6, <2>7 DEF CallInv
  <1> QED BY <1>2, <1>3

(* The host takes marked routes out.  No call past its scan has taken the  *)
(* list that has them.                                                     *)
LEMMA UninstallHolds ==
    ASSUME TypeOK, NEW names \in Removals, Uninstall(names), NEW d \in Calls, CallInv(d)
    PROVE  CallInv(d)'
  <1>1. /\ pc'[d] = pc[d] /\ seen'[d] = seen[d] /\ composed'[d] = composed[d]
        /\ prior'[d] = prior[d] /\ disturbed'[d] = disturbed[d]
        /\ standing'[d] = (standing[d] /\ (pc[d] = "scan" => Marked(routes') # {}))
        /\ Marked(routes) # {}
    BY DEF Uninstall, TypeOK
  <1>2. CASE prior[d] # Live
    <2>1. ListOf(d)' = ListOf(d)
      BY <1>1, <1>2 DEF ListOf
    <2>2. CASE standing'[d] = standing[d]
      <3>1. Still(d)
        BY <1>1, <1>2, <2>1, <2>2 DEF Still
      <3> QED BY <3>1, StillHolds
    <2>3. CASE ~standing'[d]
      <3>1. HoldsAList(d)' /\ StillStanding(d)'
        BY <1>1, <2>3 DEF CallInv, HoldsAList, StillStanding
      <3>2. Marked(ListOf(d))' = Marked(ListOf(d))
        BY <2>1 DEF Marked
      <3>3. Unmarked(d)' /\ Classified(d)' /\ Composition(d)'
        BY <1>1, <1>2, <2>1, <3>2 DEF CallInv, Unmarked, Classified, Composition
      <3> QED BY <3>1, <3>3 DEF CallInv
    <2> QED BY <1>1, <2>2, <2>3 DEF TypeOK
  <1>3. CASE prior[d] = Live
    <2>1. ListOf(d) = routes /\ ListOf(d)' = routes'
      BY <1>1, <1>3 DEF ListOf
    <2>2. pc[d] \notin Working \ {"scan"}
      BY <1>1, <2>1 DEF CallInv, Unmarked
    <2>3. Unmarked(d)' /\ Classified(d)' /\ Composition(d)'
      BY <1>1, <2>2 DEF Unmarked, Classified, Composition, Working
    <2>4. HoldsAList(d)'
      BY <1>1 DEF CallInv, HoldsAList
    <2>5. StillStanding(d)'
      <3>1. Marked(ListOf(d))' = Marked(routes')
        BY <2>1 DEF Marked
      <3> QED BY <1>1, <3>1 DEF CallInv, StillStanding
    <2> QED BY <2>3, <2>4, <2>5 DEF CallInv
  <1> QED BY <1>2, <1>3

-----------------------------------------------------------------------------
(* Types, and what the application has.                                    *)

LEMMA ThatIsOneFamily == TypeOK => (AtMostOneFamily <=> OneFamily(routes))
  BY MarkedAre DEF TypeOK, AtMostOneFamily, OneFamily

LEMMA EndKeepsTypes ==
    ASSUME TypeOK, NEW c \in Calls, NEW how \in Ended, End(c, how)
    PROVE  TypeOK'
  BY BoundsAssumption DEF TypeOK, End, Places, history

LEMMA TypesHold ==
    ASSUME TypeOK, \A c \in Calls : CallInv(c), Next
    PROVE  TypeOK'
  <1> USE DEF Ended, Failed
  <1>1. ASSUME NEW c \in Calls, Refuse(c) \/ SnapshotFails(c) \/ BuildFails(c)
        PROVE  TypeOK'
    BY <1>1, EndKeepsTypes DEF Refuse, SnapshotFails, BuildFails
  <1>2. ASSUME NEW c \in Calls, NEW n \in 0..MaxVariables, Begin(c, n)
        PROVE  TypeOK'
    BY <1>2 DEF TypeOK, Begin, Places
  <1>3. ASSUME NEW c \in Calls, ScanMarkers(c) PROVE TypeOK'
    <2>1. CASE End(c, "installed")
      BY <2>1, EndKeepsTypes
    <2>2. CASE /\ pc' = [pc EXCEPT ![c] = "classify"]
               /\ UNCHANGED <<routes, served, prior, todo, composed, history>>
      BY <2>2 DEF TypeOK, Places, history
    <2> QED BY <1>3, <2>1, <2>2 DEF ScanMarkers
  <1>4. ASSUME NEW c \in Calls, Classify(c) PROVE TypeOK'
    <2>1. CASE End(c, "collision")
      BY <2>1, EndKeepsTypes
    <2>2. CASE /\ pc' = [pc EXCEPT ![c] = "snapshot"]
               /\ seen' = [seen EXCEPT ![c] = Len(ListOf(c))]
               /\ UNCHANGED <<routes, served, prior, todo, composed, removed, standing, disturbed>>
      <3>1. pc[c] = "classify"
        BY <1>4 DEF Classify
      <3>2. ListOf(c) \in Lists
        BY <3>1, ListsAreTyped DEF CallInv, HoldsAList, Working
      <3>3. Len(ListOf(c)) \in Nat
        BY <3>2 DEF Lists
      <3> QED BY <2>2, <3>3 DEF TypeOK, Places
    <2> QED BY <1>4, <2>1, <2>2 DEF Classify
  <1>5. ASSUME NEW c \in Calls, Snapshot(c) PROVE TypeOK'
    <2>1. todo[c] - 1 \in 0..MaxVariables
      BY <1>5, BoundsAssumption DEF Snapshot, TypeOK
    <2> QED BY <1>5, <2>1 DEF TypeOK, Snapshot, history
  <1>6. ASSUME NEW c \in Calls, Compose(c) PROVE TypeOK'
    <2>1. pc[c] = "snapshot"
      BY <1>6 DEF Compose
    <2>2. ListOf(c) \in Lists /\ Marked(ListOf(c)) = {}
      BY <2>1, ListsAreTyped DEF CallInv, HoldsAList, Unmarked, Working
    <2>3. ListOf(c) \o FamilyOf(c) \in Lists
      BY <2>2, OntoUnmarked
    <2> QED BY <1>6, <2>3 DEF TypeOK, Compose, Places, history
  <1>7. ASSUME NEW c \in Calls, Assign(c) PROVE TypeOK'
    <2>1. composed[c] \in Lists /\ routes \in Lists /\ <<>> \in Lists
      BY DEF TypeOK, Lists
    <2> QED BY <1>7, <2>1 DEF TypeOK, Assign, Places
  <1>8. ASSUME NEW c \in Calls, Return(c) PROVE TypeOK'
    BY <1>8 DEF TypeOK, Return, Places
  <1>9. ASSUME NEW r \in HostRoutes, AddRoute(r) PROVE TypeOK'
    <2>1. Append(routes, r) \in Lists
      BY OneHostRouteMore DEF TypeOK
    <2>2. disturbed' \in [Calls -> BOOLEAN]
      BY <1>9 DEF AddRoute
    <2> QED BY <1>9, <2>1, <2>2 DEF TypeOK, AddRoute
  <1>10. ASSUME NEW names \in Removals, Uninstall(names) PROVE TypeOK'
    <2>1. routes' \in Lists
      BY <1>10, WhatIsLeft DEF TypeOK, Uninstall
    <2>2. removed' \subseteq ToSet(Names)
      BY <1>10, RemovalsAssumption DEF TypeOK, Uninstall
    <2>3. standing' \in [Calls -> BOOLEAN]
      <3>1. standing' = [c \in Calls |-> standing[c] /\ (pc[c] = "scan" => Marked(routes') # {})]
        BY <1>10 DEF Uninstall
      <3> QED BY <3>1
    <2>4. UNCHANGED <<served, pc, prior, todo, composed, seen, disturbed>>
      BY <1>10 DEF Uninstall
    <2> QED BY <2>1, <2>2, <2>3, <2>4 DEF TypeOK
  <1>11. CASE Serve
    BY <1>11 DEF TypeOK, Serve, history
  <1> QED BY <1>1, <1>2, <1>3, <1>4, <1>5, <1>6, <1>7, <1>8, <1>9, <1>10, <1>11 DEF Next

LEMMA CallsHold ==
    ASSUME TypeOK, \A d \in Calls : CallInv(d), Next
    PROVE  \A d \in Calls : CallInv(d)'
  <1>1. ASSUME NEW c \in Calls, OwnSteps(c) PROVE \A d \in Calls : CallInv(d)'
    <2>1. CallInv(c)' /\ Quiet(c)
      BY <1>1, OwnStepsHold
    <2>2. ASSUME NEW d \in Calls \ {c} PROVE CallInv(d)'
      BY <2>1, QuietHolds
    <2> QED BY <2>1, <2>2
  <1>2. ASSUME NEW c \in Calls, Assign(c) PROVE \A d \in Calls : CallInv(d)'
    BY <1>2, AssignHolds
  <1>3. ASSUME NEW r \in HostRoutes, AddRoute(r) PROVE \A d \in Calls : CallInv(d)'
    BY <1>3, AddRouteHolds
  <1>4. ASSUME NEW names \in Removals, Uninstall(names) PROVE \A d \in Calls : CallInv(d)'
    BY <1>4, UninstallHolds
  <1>5. ASSUME Serve, NEW d \in Calls PROVE CallInv(d)'
    <2>1. Still(d)
      BY <1>5 DEF Serve, history, Still, ListOf
    <2> QED BY <2>1, StillHolds
  <1> QED BY <1>1, <1>2, <1>3, <1>4, <1>5 DEF Next, OwnSteps

(* Only an assignment gives the application a family, and it gives a whole *)
(* one, to a list that had none.                                           *)
LEMMA RoutesHold ==
    ASSUME InstallerInv, Next, TypeOK'
    PROVE  AtMostOneFamily' /\ FamilyIsWhole'
  <1>0. TypeOK /\ OneFamily(routes) /\ routes \in Lists
        /\ {r.name : r \in Marked(routes)} = ToSet(Names) \ removed
    BY ThatIsOneFamily DEF InstallerInv, TypeOK, FamilyIsWhole
  <1>1. SUFFICES /\ OneFamily(routes')
                 /\ {r.name : r \in Marked(routes')} = ToSet(Names) \ removed'
    <2>1. AtMostOneFamily' <=> OneFamily(routes')
      BY MarkedAre DEF TypeOK, AtMostOneFamily, OneFamily
    <2> QED BY <2>1 DEF FamilyIsWhole
  <1>2. CASE UNCHANGED <<routes, removed>>
    BY <1>0, <1>2
  <1>3. ASSUME NEW c \in Calls, OwnSteps(c) PROVE UNCHANGED <<routes, removed>>
    BY <1>3 DEF OwnSteps, Refuse, Begin, ScanMarkers, Classify, Snapshot, SnapshotFails,
                BuildFails, Compose, Return, End, history
  <1>4. ASSUME NEW c \in Calls, Assign(c)
        PROVE  /\ OneFamily(routes')
               /\ {r.name : r \in Marked(routes')} = ToSet(Names) \ removed'
    <2>1. pc[c] = "assign" /\ routes' = composed[c] /\ removed' = {}
      BY <1>4 DEF Assign
    <2>2. PICK list \in Lists : Marked(list) = {} /\ composed[c] = list \o FamilyOf(c)
      BY <2>1 DEF InstallerInv, CallInv, Composition
    <2> QED BY <2>1, <2>2, OntoUnmarked
  <1>5. ASSUME NEW r \in HostRoutes, AddRoute(r)
        PROVE  /\ OneFamily(routes')
               /\ {q.name : q \in Marked(routes')} = ToSet(Names) \ removed'
    <2>1. routes' = Append(routes, r) /\ removed' = removed
      BY <1>5 DEF AddRoute
    <2> QED BY <1>0, <2>1, OneHostRouteMore
  <1>6. ASSUME NEW names \in Removals, Uninstall(names)
        PROVE  /\ OneFamily(routes')
               /\ {r.name : r \in Marked(routes')} = ToSet(Names) \ removed'
    <2>1. routes' = Remaining(routes, names) /\ removed' = removed \cup names
      BY <1>6 DEF Uninstall
    <2>2. /\ OneFamily(routes')
          /\ Marked(routes') = {r \in Marked(routes) : r.name \notin names}
      BY <1>0, <2>1, WhatIsLeft
    <2> QED BY <1>0, <2>1, <2>2
  <1>7. CASE Serve
    BY <1>2, <1>7 DEF Serve, history
  <1> QED BY <1>2, <1>3, <1>4, <1>5, <1>6, <1>7 DEF Next, OwnSteps

-----------------------------------------------------------------------------
(* The inductive invariant of the installer: the application has at most   *)
(* one family and it is whole, and the conditions a call established hold  *)
(* of its list at every place up to the assignment.                        *)
THEOREM InstallerHolds == Spec => []InstallerInv
  <1>1. Init => InstallerInv
    <2> SUFFICES ASSUME Init PROVE InstallerInv
      OBVIOUS
    <2>1. routes = <<>> /\ <<>> \in Lists
      BY DEF Init, Lists
    <2>2. TypeOK
      <3>1. 0 \in 0..MaxVariables /\ "idle" \in Places
        BY BoundsAssumption DEF Places
      <3>2. pc \in [Calls -> Places] /\ todo \in [Calls -> 0..MaxVariables]
        BY <3>1 DEF Init
      <3>3. composed \in [Calls -> Lists] /\ routes \in Lists /\ served \in BOOLEAN
        BY <2>1 DEF Init
      <3>4. prior \in [Calls -> Lists \cup {Live, NoList}]
        BY DEF Init
      <3>5. removed \subseteq ToSet(Names)
        BY DEF Init
      <3>6. /\ standing \in [Calls -> BOOLEAN] /\ disturbed \in [Calls -> BOOLEAN]
            /\ seen \in [Calls -> Nat]
        BY DEF Init
      <3> QED BY <3>2, <3>3, <3>4, <3>5, <3>6 DEF TypeOK
    <2>3. Marked(routes) = {} /\ DOMAIN routes = {}
      BY <2>1 DEF Marked, ToSet
    <2>4. AtMostOneFamily /\ FamilyIsWhole
      BY <2>3 DEF Init, AtMostOneFamily, FamilyIsWhole
    <2>5. ASSUME NEW c \in Calls PROVE CallInv(c)
      BY DEF Init, CallInv, HoldsAList, Unmarked, Classified, Composition, StillStanding, Working
    <2> QED BY <2>2, <2>4, <2>5 DEF InstallerInv
  <1>2. InstallerInv /\ [Next]_vars => InstallerInv'
    <2> SUFFICES ASSUME InstallerInv, [Next]_vars PROVE InstallerInv'
      OBVIOUS
    <2>1. CASE Next
      <3>1. TypeOK'
        BY <2>1, TypesHold DEF InstallerInv
      <3>2. \A c \in Calls : CallInv(c)'
        BY <2>1, CallsHold DEF InstallerInv
      <3> QED BY <2>1, <3>1, <3>2, RoutesHold DEF InstallerInv
    <2>2. CASE UNCHANGED vars
      <3>1. ASSUME NEW c \in Calls PROVE CallInv(c)'
        <4>1. Still(c)
          BY <2>2 DEF vars, Still, ListOf
        <4> QED BY <4>1, StillHolds DEF InstallerInv
      <3>2. TypeOK' /\ AtMostOneFamily' /\ FamilyIsWhole'
        BY <2>2 DEF InstallerInv, vars, TypeOK, AtMostOneFamily, FamilyIsWhole, Marked
      <3> QED BY <3>1, <3>2 DEF InstallerInv
    <2> QED BY <2>1, <2>2
  <1> QED BY <1>1, <1>2, PTL DEF Spec

(* Type correctness: lists of routes remain lists of routes, and no call   *)
(* asks for more descriptors than it was given variables.                  *)
THEOREM InstallerTypeCorrect == Spec => []TypeOK
  <1>1. InstallerInv => TypeOK
    BY DEF InstallerInv
  <1> QED BY <1>1, InstallerHolds, PTL

(* Concurrent and nested installations without a lock (fastapi.py:98-120)  *)
(* never leave two routes of one control path on the application.          *)
THEOREM InstallationsDoNotStack == Spec => []AtMostOneFamily
  <1>1. InstallerInv => AtMostOneFamily
    BY DEF InstallerInv
  <1> QED BY <1>1, InstallerHolds, PTL

(* The one assignment publishes all four routes or none; what is missing   *)
(* was taken out by the host.                                              *)
THEOREM InstallationIsAllOrNothing == Spec => []FamilyIsWhole
  <1>1. InstallerInv => FamilyIsWhole
    BY DEF InstallerInv
  <1> QED BY <1>1, InstallerHolds, PTL

(* A call whose application bore a marked route from its start to its scan *)
(* ends "installed" and never "collision", though the routes that stand    *)
(* would collide with its own.                                             *)
THEOREM RetainedRoutesAreRecognised == Spec => []RetainedRoutesReportInstalled
  <1>1. InstallerInv => RetainedRoutesReportInstalled
    BY DEF InstallerInv, CallInv, StillStanding, RetainedRoutesReportInstalled
  <1> QED BY <1>1, InstallerHolds, PTL

(* The test of _route_is_disjoint is about the first segment; what it lets *)
(* pass cannot take a request that is meant for a control route.           *)
LEMMA DisjointRoutesLeaveControl ==
    ASSUME NEW r, Disjoint(r)
    PROVE  "control" \notin Reaches(r)
  BY DEF Disjoint, LiteralFirst, Reaches

(* No route that was classified stands in front of the control family and  *)
(* can take its requests, although descriptor() callbacks, the host and    *)
(* other calls ran between the classification and the assignment.          *)
THEOREM ControlPathsAreReachable == Spec => []ClassifiedRoutesLeaveControl
  <1>1. InstallerInv => ClassifiedRoutesLeaveControl
    <2> SUFFICES ASSUME InstallerInv, NEW c \in Calls, pc[c] = "assign", NEW i \in 1..seen[c]
                 PROVE  "control" \notin Reaches(composed[c][i])
      BY DEF ClassifiedRoutesLeaveControl
    <2>1. PICK list \in Lists :
             /\ Marked(list) = {} /\ composed[c] = list \o FamilyOf(c)
             /\ seen[c] <= Len(list) /\ \A j \in 1..seen[c] : Disjoint(list[j])
      BY DEF InstallerInv, CallInv, Composition
    <2>2. i \in 1..Len(list) /\ Disjoint(list[i])
      <3>1. seen[c] \in Nat /\ Len(list) \in Nat
        BY MarkedAre DEF InstallerInv, TypeOK
      <3> QED BY <2>1, <3>1
    <2>3. composed[c][i] = list[i]
      <3>1. list \in Seq(HostRoutes \cup ControlRoutes) /\ FamilyOf(c) \in Seq(HostRoutes \cup ControlRoutes)
        BY FamilyIs DEF Lists
      <3>2. \A a, b \in Seq(HostRoutes \cup ControlRoutes) :
               \A k \in 1..Len(a) : (a \o b)[k] = a[k]
        OBVIOUS
      <3>3. (list \o FamilyOf(c))[i] = list[i]
        BY <2>2, <3>1, <3>2, Zenon
      <3> QED BY <2>1, <3>3
    <2> QED BY <2>2, <2>3, DisjointRoutesLeaveControl
  <1> QED BY <1>1, InstallerHolds, PTL

(* An installation that no other one overtook appends its family to the    *)
(* list as it is at that moment: a route the host added while descriptor() *)
(* ran is kept, unless it came after the new list was composed.            *)
THEOREM NoHostRouteIsLost == Spec => HostRoutesSurvive
  <1>1. InstallerInv /\ [Next]_vars =>
           [\A c \in Calls :
               pc[c] = "assign" /\ pc'[c] = "ok" /\ prior[c] = Live /\ ~disturbed[c] =>
                   routes' = routes \o FamilyOf(c)]_vars
    <2> SUFFICES ASSUME InstallerInv, Next, NEW c \in Calls,
                        pc[c] = "assign", pc'[c] = "ok", prior[c] = Live, ~disturbed[c]
                 PROVE  routes' = routes \o FamilyOf(c)
      BY DEF vars
    <2>1. composed[c] = routes \o FamilyOf(c)
      BY DEF InstallerInv, CallInv, Composition
    <2>2. Assign(c)
      <3>1. TypeOK
        BY DEF InstallerInv
      <3>2. ASSUME NEW d \in Calls, OwnSteps(d) \/ Assign(d), d # c PROVE FALSE
        <4>1. pc'[c] = pc[c]
          <5>1. CASE OwnSteps(d)
            BY <3>1, <3>2, <5>1, OwnStepsHold DEF Quiet, InstallerInv
          <5>2. CASE Assign(d)
            BY <3>1, <3>2, <5>2 DEF Assign, TypeOK
          <5> QED BY <3>2, <5>1, <5>2
        <4> QED BY <4>1
      <3>3. ~OwnSteps(c)
        BY <3>1 DEF OwnSteps, Refuse, Begin, ScanMarkers, Classify, Snapshot, SnapshotFails,
                    BuildFails, Compose, Return, Ended, Failed
      <3>4. ASSUME NEW r \in HostRoutes, AddRoute(r) PROVE FALSE
        BY <3>4 DEF AddRoute
      <3>5. ASSUME NEW names \in Removals, Uninstall(names) PROVE FALSE
        BY <3>5 DEF Uninstall
      <3>6. ~Serve
        BY DEF Serve
      <3> QED BY <3>2, <3>3, <3>4, <3>5, <3>6 DEF Next, OwnSteps
    <2> QED BY <2>1, <2>2 DEF Assign
  <1> QED BY <1>1, InstallerHolds, PTL DEF Spec, HostRoutesSurvive
=============================================================================
