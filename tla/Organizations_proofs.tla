------------------------- MODULE Organizations_proofs -------------------------
(***************************************************************************)
(* What an organization or unit in the database is backed by, for any      *)
(* number of organizations, units, policies and handlers that stop half    *)
(* way, and one handler at a time: with two, an update may insert again    *)
(* the row the other has deleted.                                          *)
(***************************************************************************)
EXTENDS Organizations, SequenceTheorems, TLAPS

\* No two requests on organizations overlap.
OneHandler == \E p : Procs = {p}

\* The rows as the handler sees them: what it added and deleted in its transaction included.
View(p) == IF handler[p] = Idle THEN rows ELSE Sees(handler[p])

(***************************************************************************)
(* Names                                                                   *)
(***************************************************************************)
LEMMA ThingsAre ==
  ASSUME NEW t \in Things
  PROVE  \/ \E o \in Orgs : t = <<o>>
         \/ \E o \in Orgs, i \in UnitIds : t = <<o, i>>
  BY DEF Things, Units

LEMMA Organization ==
  ASSUME NEW o \in Orgs
  PROVE  /\ <<o>> \in Things /\ IsOrg(<<o>>) /\ OrgOf(<<o>>) = <<o>>
         /\ GroupOf(<<o>>) = <<"O", o>> /\ BareName(<<o>>) = <<o>> /\ NumPolicies(<<o>>) = 1
         /\ <<o>> \notin Units
  BY DEF Things, Units, IsOrg, OrgOf, GroupOf, BareName, NumPolicies

LEMMA Unit ==
  ASSUME NEW o \in Orgs, NEW i \in UnitIds
  PROVE  /\ <<o, i>> \in Things /\ <<o, i>> \in Units /\ ~ IsOrg(<<o, i>>)
         /\ OrgOf(<<o, i>>) = <<o>>
         /\ GroupOf(<<o, i>>) = <<"U", o, i>> /\ BareName(<<o, i>>) = <<i>>
         /\ NumPolicies(<<o, i>>) = 2
  BY DEF Things, Units, IsOrg, OrgOf, GroupOf, BareName, NumPolicies

LEMMA GroupNamed ==
  ASSUME NEW t \in Things
  PROVE  GroupOf(t) \in GroupNames /\ NumPolicies(t) \in {1, 2}
         /\ (IsOrg(t) <=> t \notin Units)
  BY ThingsAre, Organization, Unit DEF GroupNames

\* Two rows have different groups, and the names that deletion passes are those of no group.
LEMMA OwnGroup ==
  ASSUME NEW t \in Things, NEW u \in Things, GroupOf(t) = GroupOf(u)
  PROVE  t = u
  <1>1. CASE \E o \in Orgs : t = <<o>>
    <2>1. PICK o \in Orgs : t = <<o>>
      BY <1>1
    <2>2. GroupOf(t) = <<"O", o>> /\ GroupOf(t)[1] = "O"
      BY <2>1, Organization
    <2>3. PICK x \in Orgs : u = <<x>>
      <3>1. ASSUME NEW x \in Orgs, NEW j \in UnitIds, u = <<x, j>>
            PROVE  GroupOf(u)[1] = "U"
        BY <3>1, Unit
      <3>2. QED
        BY <2>2, <3>1, ThingsAre
    <2>4. GroupOf(u) = <<"O", x>>
      BY <2>3, Organization
    <2>5. QED
      BY <2>1, <2>2, <2>3, <2>4
  <1>2. CASE \E o \in Orgs, i \in UnitIds : t = <<o, i>>
    <2>1. PICK o \in Orgs, i \in UnitIds : t = <<o, i>>
      BY <1>2
    <2>2. GroupOf(t) = <<"U", o, i>> /\ GroupOf(t)[1] = "U"
      BY <2>1, Unit
    <2>3. PICK x \in Orgs, j \in UnitIds : u = <<x, j>>
      <3>1. ASSUME NEW x \in Orgs, u = <<x>>
            PROVE  GroupOf(u)[1] = "O"
        BY <3>1, Organization
      <3>2. QED
        BY <2>2, <3>1, ThingsAre
    <2>4. GroupOf(u) = <<"U", x, j>>
      BY <2>3, Unit
    <2>5. QED
      BY <2>1, <2>2, <2>3, <2>4
  <1>3. QED
    BY <1>1, <1>2, ThingsAre

LEMMA BareNameIsNoGroup ==
  ASSUME NEW t \in Things, NEW u \in Things
  PROVE  BareName(t) # GroupOf(u)
  <1>1. Len(BareName(t)) = 1
    BY ThingsAre, Organization, Unit
  <1>2. Len(GroupOf(u)) \in {2, 3}
    <2>1. ASSUME NEW o \in Orgs, u = <<o>>
          PROVE  Len(GroupOf(u)) = 2
      BY <2>1, Organization
    <2>2. ASSUME NEW o \in Orgs, NEW i \in UnitIds, u = <<o, i>>
          PROVE  Len(GroupOf(u)) = 3
      BY <2>2, Unit
    <2>3. QED
      BY <2>1, <2>2, ThingsAre
  <1>3. QED
    BY <1>1, <1>2

LEMMA UnitsOfOrganization ==
  ASSUME NEW t \in Things
  PROVE  /\ UnitsOf(t) \subseteq Units /\ Units \subseteq Things
         /\ ~ IsOrg(t) => UnitsOf(t) = {}
         /\ t \notin UnitsOf(t)
  <1>1. \A u \in Units : u \in Things /\ OrgOf(u) \notin Units /\ OrgOf(u) # u
    BY Unit, Organization DEF Units
  <1>2. QED
    BY <1>1, GroupNamed DEF UnitsOf

(***************************************************************************)
(* The invariant                                                           *)
(***************************************************************************)
\* A function of rows, whose policies are theirs alone.
Fit(f, pol, n) ==
    /\ DOMAIN f \subseteq Things
    /\ \A t \in DOMAIN f : /\ f[t] \in [1..NumPolicies(t) -> 1..n]
                           /\ \A k \in 1..NumPolicies(t) :
                                f[t][k] \in DOMAIN pol => pol[f[t][k]] = GroupOf(t)
Backed(t, ids, grp, pol) ==
    /\ GroupOf(t) \in grp
    /\ \A k \in DOMAIN ids : ids[k] \in DOMAIN pol /\ pol[ids[k]] = GroupOf(t)

Shape ==
    /\ Fit(rows, policies, issued)
    /\ groups \subseteq GroupNames
    /\ issued \in 0..MaxPolicies
    /\ DOMAIN policies \subseteq 1..issued
    /\ \A n \in DOMAIN policies : policies[n] \in GroupNames
    /\ reverted \subseteq Saved
    /\ stopped \in Nat
    /\ DOMAIN handler = Procs

IsJob(j) ==
    /\ DOMAIN j = {"op", "thing", "of", "stage", "ids", "units", "form", "added", "gone"}
    /\ j.of \in Things /\ j.thing \in Things
    /\ j.gone \subseteq Saved

SaveOk(j) ==
    /\ j.stage \in {"clean", "group", "policies", "insert"}
    /\ j.gone = {}
    /\ j.thing = j.of \/ (IsOrg(j.of) /\ j.thing = <<j.of[1], Default>>)
    /\ Fit(j.added, policies, issued) /\ DOMAIN j.added \cap Saved = {}
    /\ j.stage \in {"clean", "group"} => j.ids = <<>>
    /\ j.stage = "policies" =>
         \E n \in Nat : n < NumPolicies(j.thing) /\ j.ids \in [1..n -> 1..issued]
    /\ j.stage = "insert" => j.ids \in [1..NumPolicies(j.thing) -> 1..issued]
    /\ j.stage \in {"policies", "insert"} => Backed(j.thing, j.ids, groups, policies)

UpdateOk(j) ==
    /\ j.stage \in {"check", "write"}
    /\ j.gone = {} /\ DOMAIN j.added = {}
    /\ j.thing \in Saved /\ j.ids = rows[j.thing]

\* The units that are still to be deleted, and the policies of the row just deleted.
Left(j) == IF j.stage \in {"group", "policies"} THEN DOMAIN j.units \ {j.thing} ELSE DOMAIN j.units
Doomed(j) == IF j.thing = j.of THEN j.ids ELSE j.units[j.thing]
DeleteOk(j) ==
    /\ j.stage \in {"units", "next", "row", "group", "policies"}
    /\ DOMAIN j.added = {}
    /\ DOMAIN j.units \subseteq UnitsOf(j.of)
    /\ j.stage = "units" => DOMAIN j.units = {} /\ j.gone = {}
    /\ Left(j) \subseteq Saved \ j.gone
    /\ \A u \in Left(j) : j.units[u] = rows[u]
    /\ j.stage # "units" => UnitsOf(j.of) \cap (Saved \ j.gone) \subseteq Left(j)
    /\ j.stage \in {"row", "group", "policies"} =>
         j.thing \in DOMAIN j.units \/ (j.thing = j.of /\ DOMAIN j.units = {})
    /\ j.stage \in {"units", "next", "row"} \/ j.thing # j.of =>
         j.of \in Saved \ j.gone /\ j.ids = rows[j.of]
    /\ j.stage \in {"group", "policies"} =>
         /\ j.thing \notin Saved \ j.gone
         /\ Doomed(j) \in [1..NumPolicies(j.thing) -> 1..issued]
         /\ \A k \in 1..NumPolicies(j.thing) :
              Doomed(j)[k] \in DOMAIN policies => policies[Doomed(j)[k]] = GroupOf(j.thing)

JobOk(p) ==
    LET j == handler[p] IN
    j = Idle \/ /\ IsJob(j)
                /\ \/ j.op = "save" /\ SaveOk(j)
                   \/ j.op = "update" /\ UpdateOk(j)
                   \/ j.op = "delete" /\ DeleteOk(j)

\* The policies of no row which the handler is going to give to one, or to delete.
Held(j) ==
    IF j.op = "save" THEN Range(j.ids)
    ELSE IF j.op = "delete" /\ j.stage \in {"group", "policies"} THEN Range(Doomed(j))
    ELSE {}

Backing(f, grp, pol) == \A t \in DOMAIN f \ reverted : Backed(t, f[t], grp, pol)
Accounted(f, pol, j) ==
    \A n \in DOMAIN pol : n \in Held(j) \/ \E t \in DOMAIN f : n \in Range(f[t])

InvOf(p) ==
    /\ JobOk(p)
    /\ Backing(View(p), groups, policies)
    /\ stopped = 0 => reverted = {} /\ Accounted(View(p), policies, handler[p])
Inv == Shape /\ \A p \in Procs : InvOf(p)

LEMMA InitInv == Init => Inv
  <1> SUFFICES ASSUME Init PROVE Inv
    OBVIOUS
  <1>1. DOMAIN rows = {} /\ DOMAIN policies = {}
    BY DEF Init, NoRows
  <1>2. Shape
    BY <1>1, OrganizationsAssumption DEF Init, Shape, Fit, Saved
  <1>3. ASSUME NEW p \in Procs
        PROVE  InvOf(p)
    BY <1>1 DEF Init, InvOf, JobOk, Backing, Accounted, View
  <1>4. QED
    BY <1>2, <1>3 DEF Inv

(***************************************************************************)
(* What the handler sees                                                   *)
(***************************************************************************)
LEMMA Seen ==
  ASSUME NEW j
  PROVE  /\ DOMAIN Sees(j) = (Saved \ j.gone) \cup DOMAIN j.added
         /\ \A t \in DOMAIN j.added : Sees(j)[t] = j.added[t]
         /\ \A t \in (Saved \ j.gone) \ DOMAIN j.added : Sees(j)[t] = rows[t]
  BY DEF Sees, Merge

\* Policies are only added with new ids, and only deleted.
LEMMA FitOn ==
  ASSUME NEW f, NEW pol, NEW n \in Nat, NEW pol2, NEW m \in Nat, Fit(f, pol, n), n <= m,
         \A x \in DOMAIN pol2 \cap 1..n : x \in DOMAIN pol /\ pol2[x] = pol[x]
  PROVE  Fit(f, pol2, m)
  <1> SUFFICES ASSUME NEW t \in DOMAIN f
               PROVE  /\ f[t] \in [1..NumPolicies(t) -> 1..m]
                      /\ \A k \in 1..NumPolicies(t) :
                           f[t][k] \in DOMAIN pol2 => pol2[f[t][k]] = GroupOf(t)
    BY DEF Fit
  <1>1. f[t] \in [1..NumPolicies(t) -> 1..n] /\ 1..n \subseteq 1..m
    BY DEF Fit
  <1>2. QED
    BY <1>1 DEF Fit

LEMMA SeenFit ==
  ASSUME NEW j, NEW pol, NEW n, Fit(rows, pol, n), Fit(j.added, pol, n)
  PROVE  Fit(Sees(j), pol, n)
  <1>1. ASSUME NEW t \in DOMAIN Sees(j)
        PROVE  \/ t \in DOMAIN rows /\ Sees(j)[t] = rows[t]
               \/ t \in DOMAIN j.added /\ Sees(j)[t] = j.added[t]
    BY <1>1, Seen DEF Saved
  <1>2. QED
    BY <1>1 DEF Fit

LEMMA ViewIs ==
  ASSUME Inv, NEW p \in Procs
  PROVE  /\ Fit(View(p), policies, issued)
         /\ handler[p] = Idle => View(p) = rows
         /\ handler[p] # Idle =>
              /\ View(p) = Sees(handler[p]) /\ handler[p].op \in {"save", "update", "delete"}
              /\ Fit(handler[p].added, policies, issued)
              /\ DOMAIN handler[p].added \cap Saved = {} /\ handler[p].gone \subseteq Saved
  <1>1. CASE handler[p] = Idle
    BY <1>1 DEF Inv, Shape, View
  <1>2. CASE handler[p] # Idle
    <2>1. /\ handler[p].op \in {"save", "update", "delete"} /\ handler[p].gone \subseteq Saved
          /\ Fit(handler[p].added, policies, issued)
          /\ DOMAIN handler[p].added \cap Saved = {}
      BY <1>2 DEF Inv, InvOf, JobOk, IsJob, SaveOk, UpdateOk, DeleteOk, Fit
    <2>2. QED
      BY <1>2, <2>1, SeenFit DEF Inv, Shape, View
  <1>3. QED
    BY <1>1, <1>2

(***************************************************************************)
(* The ways a step ends                                                    *)
(***************************************************************************)
SameFields(f, g) == DOMAIN f = DOMAIN g /\ \A t \in DOMAIN f : f[t] = g[t]

LEMMA Turn ==
  ASSUME OneHandler, Inv, NEW p \in Procs, NEW j, Continue(p, j), j # Idle,
         Shape', JobOk(p)', Backing(Sees(j), groups', policies'),
         stopped = 0 => Accounted(Sees(j), policies', j)
  PROVE  Inv'
  <1>1. handler'[p] = j /\ rows' = rows /\ stopped' = stopped /\ reverted' = reverted
    BY DEF Continue, Inv, Shape
  <1>2. View(p)' = Sees(j)
    BY <1>1 DEF View, Sees, Saved
  <1>3. Backing(View(p), groups, policies)'
    BY <1>1, <1>2 DEF Backing
  <1>4. stopped' = 0 => reverted' = {} /\ Accounted(View(p), policies, handler[p])'
    <2>1. stopped = 0 => reverted = {}
      BY DEF Inv, InvOf
    <2>2. stopped = 0 => Accounted(Sees(j), policies', j)
      OBVIOUS
    <2>3. QED
      BY <1>1, <1>2, <2>1, <2>2 DEF Accounted, Held, Doomed, Range
  <1>5. QED
    BY <1>3, <1>4 DEF OneHandler, Inv, InvOf

LEMMA Same ==
  ASSUME NEW f, NEW g, NEW grp, NEW pol, NEW j, NEW k, SameFields(f, g)
  PROVE  /\ Backing(f, grp, pol) => Backing(g, grp, pol)
         /\ Held(j) \cap DOMAIN pol \subseteq Held(k) /\ Accounted(f, pol, j) =>
              Accounted(g, pol, k)
  BY DEF SameFields, Backing, Accounted

LEMMA Ended ==
  ASSUME OneHandler, Inv, NEW p \in Procs, NEW j, End(p, j), UNCHANGED external,
         Fit(Sees(j), policies, issued),
         Backing(Sees(j), groups, policies),
         stopped = 0 => Accounted(Sees(j), policies, Idle)
  PROVE  Inv'
  <1>1. /\ handler'[p] = Idle /\ DOMAIN handler' = Procs /\ rows' = Sees(j)
        /\ reverted' = reverted \cap DOMAIN Sees(j) /\ stopped' = stopped
        /\ UNCHANGED <<groups, policies, issued>>
    BY DEF End, Commit, Inv, Shape, external
  <1>2. Shape'
    BY <1>1 DEF Inv, Shape, Saved
  <1>3. View(p)' = Sees(j)
    BY <1>1 DEF View
  <1>4. Backing(View(p), groups, policies)'
    BY <1>1, <1>3 DEF Backing
  <1>5. stopped' = 0 => reverted' = {} /\ Accounted(View(p), policies, handler[p])'
    <2>1. stopped = 0 => reverted = {}
      BY DEF Inv, InvOf
    <2>2. stopped = 0 => Accounted(Sees(j), policies, Idle)
      OBVIOUS
    <2>3. QED
      BY <1>1, <1>3, <2>1, <2>2 DEF Accounted, Held, Doomed, Range
  <1>6. QED
    BY <1>1, <1>2, <1>4, <1>5 DEF OneHandler, Inv, InvOf, JobOk

LEMMA Aborted ==
  ASSUME OneHandler, Inv, NEW p \in Procs, handler[p] # Idle, Abort(p), UNCHANGED external
  PROVE  Inv'
  <1>1. /\ handler'[p] = Idle /\ DOMAIN handler' = Procs /\ rows' = rows
        /\ reverted' = reverted \cup handler[p].gone
        /\ stopped' \in Nat /\ stopped' # 0
        /\ UNCHANGED <<groups, policies, issued>>
    BY DEF Abort, Inv, Shape, external
  <1>2. Shape'
    BY <1>1, ViewIs DEF Inv, Shape, Saved
  <1>3. View(p)' = rows
    BY <1>1 DEF View
  <1>4. ASSUME NEW t \in Saved \ (reverted \cup handler[p].gone)
        PROVE  Backed(t, rows[t], groups, policies)
    <2>1. t \in DOMAIN View(p) /\ View(p)[t] = rows[t]
      <3> DEFINE j == handler[p]
      <3>1. View(p) = Sees(j) /\ DOMAIN j.added \cap Saved = {}
        BY ViewIs
      <3> HIDE DEF j
      <3>2. /\ DOMAIN Sees(j) = (Saved \ j.gone) \cup DOMAIN j.added
            /\ \A u \in (Saved \ j.gone) \ DOMAIN j.added : Sees(j)[u] = rows[u]
        BY Seen
      <3>3. t \in (Saved \ j.gone) \ DOMAIN j.added
        BY <1>4, <3>1 DEF j
      <3>4. QED
        BY <3>1, <3>2, <3>3
    <2>2. QED
      BY <1>4, <2>1 DEF Inv, InvOf, Backing
  <1>5. Backing(View(p), groups, policies)'
    BY <1>1, <1>3, <1>4 DEF Backing, Saved
  <1>6. QED
    BY <1>1, <1>2, <1>5 DEF OneHandler, Inv, InvOf, JobOk

\* A turn in which no other service is called.
LEMMA QuietTurn ==
  ASSUME OneHandler, Inv, NEW p \in Procs, NEW j, Continue(p, j), UNCHANGED external, IsJob(j),
         \/ j.op = "save" /\ SaveOk(j)
         \/ j.op = "update" /\ UpdateOk(j)
         \/ j.op = "delete" /\ DeleteOk(j),
         SameFields(View(p), Sees(j)), Held(handler[p]) \subseteq Held(j)
  PROVE  Inv'
  <1>1. /\ handler'[p] = j /\ DOMAIN handler' = Procs
        /\ UNCHANGED <<rows, groups, policies, issued, reverted, stopped>>
    BY DEF Continue, Inv, Shape, external
  <1>2. j # Idle
    BY DEF Idle
  <1>3. Shape'
    BY <1>1 DEF Inv, Shape, Saved
  <1>4. JobOk(p)'
    BY <1>1
       DEF JobOk, IsJob, SaveOk, UpdateOk, DeleteOk, Saved, Fit, Backed, Doomed, Left
  <1>5. /\ Backing(Sees(j), groups', policies')
        /\ stopped = 0 => Accounted(Sees(j), policies', j)
    BY <1>1, Same DEF Inv, InvOf
  <1>6. QED
    BY <1>2, <1>3, <1>4, <1>5, Turn

\* The handler begins to work, and sees the rows there are.
LEMMA Begun ==
  ASSUME OneHandler, Inv, NEW p \in Procs, NEW j, Begin(p, j), UNCHANGED external, IsJob(j),
         \/ j.op = "save" /\ SaveOk(j)
         \/ j.op = "update" /\ UpdateOk(j)
         \/ j.op = "delete" /\ DeleteOk(j),
         j.gone = {}, DOMAIN j.added = {}
  PROVE  Inv'
  <1>1. handler[p] = Idle /\ Continue(p, j)
    BY DEF Begin
  <1>2. SameFields(View(p), Sees(j))
    BY <1>1, ViewIs, Seen DEF SameFields, Saved
  <1>3. Held(handler[p]) = {}
    BY <1>1 DEF Held, Idle
  <1>4. QED
    BY <1>1, <1>2, <1>3, QuietTurn

\* The handler has written to the database, in its transaction or for good.
LEMMA Written ==
  ASSUME OneHandler, Inv, NEW p \in Procs, NEW j, Wrote(p, j), UNCHANGED external, IsJob(j),
         j.op \in {"save", "update", "delete"},
         Fit(Sees(j), policies, issued), Backing(Sees(j), groups, policies),
         stopped = 0 => Accounted(Sees(j), policies, j),
         JobOk(p)'
  PROVE  Inv'
  <1>1. CASE j.form
    <2>1. Continue(p, j) /\ UNCHANGED <<groups, policies, issued>>
      BY <1>1 DEF Wrote, external
    <2>2. Shape'
      BY <2>1 DEF Continue, Inv, Shape, Saved
    <2>3. j # Idle
      BY DEF Idle
    <2>4. QED
      BY <2>1, <2>2, <2>3, Turn
  <1>2. CASE ~ j.form
    <2> DEFINE k == [j EXCEPT !.added = NoRows, !.gone = {}]
    <2>1. /\ k.op = j.op /\ k.stage = j.stage /\ k.thing = j.thing /\ k.of = j.of
          /\ k.ids = j.ids /\ k.units = j.units /\ DOMAIN k.added = {} /\ k.gone = {}
      BY DEF IsJob, NoRows
    <2>2. /\ handler'[p] = k /\ DOMAIN handler' = Procs /\ rows' = Sees(j)
          /\ reverted' = reverted \cap DOMAIN Sees(j) /\ stopped' = stopped
          /\ UNCHANGED <<groups, policies, issued>>
      BY <1>2 DEF Wrote, Commit, Inv, Shape, external
    <2> HIDE DEF k
    <2>3. Shape'
      BY <2>2 DEF Inv, Shape, Saved
    <2>4. SameFields(Sees(j), View(p)')
      <3>1. View(p)' = Sees(k)'
        BY <2>1, <2>2 DEF View, Idle
      <3>2. DOMAIN Sees(k)' = Saved' /\ \A t \in Saved' : Sees(k)'[t] = rows'[t]
        BY <2>1, <2>2 DEF Sees, Merge, Saved
      <3>3. QED
        BY <2>2, <3>1, <3>2 DEF SameFields, Saved
    <2>5. Backing(View(p), groups, policies)'
      <3>1. \A t \in DOMAIN Sees(j) \ reverted : Backed(t, Sees(j)[t], groups, policies)
        BY DEF Backing
      <3>2. QED
        BY <2>2, <2>4, <3>1 DEF Backing, SameFields
    <2>6. stopped' = 0 => reverted' = {} /\ Accounted(View(p), policies, handler[p])'
      <3>1. stopped = 0 => reverted = {}
        BY DEF Inv, InvOf
      <3>2. Held(handler[p])' = Held(j)
        BY <2>1, <2>2 DEF Held, Doomed
      <3>3. QED
        BY <2>2, <2>4, <3>1, <3>2 DEF Accounted, SameFields, Range
    <2>7. QED
      BY <2>3, <2>5, <2>6 DEF OneHandler, Inv, InvOf
  <1>3. QED
    BY <1>1, <1>2

(***************************************************************************)
(* The steps                                                               *)
(***************************************************************************)
LEMMA AtWork ==
  ASSUME Inv, NEW p \in Procs, NEW op \in {"save", "update", "delete"}, NEW stage,
         At(p, op, stage)
  PROVE  /\ IsJob(handler[p]) /\ handler[p].op = op /\ handler[p].stage = stage
         /\ handler[p] # Idle
         /\ op = "save" => SaveOk(handler[p])
         /\ op = "update" => UpdateOk(handler[p])
         /\ op = "delete" => DeleteOk(handler[p])
         /\ View(p) = Sees(handler[p])
         /\ Fit(Sees(handler[p]), policies, issued)
         /\ Backing(Sees(handler[p]), groups, policies)
         /\ stopped = 0 => Accounted(Sees(handler[p]), policies, handler[p])
  <1>1. handler[p] # Idle
    BY DEF At, Idle
  <1>2. QED
    BY <1>1, ViewIs DEF Inv, InvOf, JobOk, At

\* A turn in which the handler writes no row.
LEMMA Keeps ==
  ASSUME NEW j, NEW k, k.added = j.added, k.gone = j.gone
  PROVE  Sees(k) = Sees(j) /\ SameFields(Sees(j), Sees(k))
  BY DEF Sees, SameFields

LEMMA CreationBegins ==
  ASSUME OneHandler, Inv, NEW p \in Procs,
         \/ \E o \in Orgs : CreateOrganization(p, o)
         \/ \E u \in Units : CreateUnit(p, u)
  PROVE  Inv'
  <1>1. PICK t \in Things, form \in BOOLEAN :
          Begin(p, Job("save", t, "clean", form)) /\ UNCHANGED external
    BY OrganizationsAssumption DEF CreateOrganization, CreateUnit, Things
  <1> DEFINE j == Job("save", t, "clean", form)
  <1>2. /\ IsJob(j) /\ j.op = "save" /\ j.stage = "clean" /\ j.thing = t /\ j.of = t
        /\ j.ids = <<>> /\ j.gone = {} /\ DOMAIN j.added = {}
    BY DEF Job, IsJob, NoRows
  <1>3. Begin(p, j)
    BY <1>1
  <1> HIDE DEF j
  <1>4. SaveOk(j)
    BY <1>2 DEF SaveOk, Fit
  <1>5. QED
    BY <1>1, <1>2, <1>3, <1>4, Begun

LEMMA UpdateBegins ==
  ASSUME OneHandler, Inv, NEW p \in Procs, NEW t \in Things, Update(p, t)
  PROVE  Inv'
  <1> DEFINE j == [Job("update", t, "check", FALSE) EXCEPT !.ids = rows[t]]
  <1>1. /\ IsJob(j) /\ j.op = "update" /\ j.stage = "check" /\ j.thing = t /\ j.of = t
        /\ j.ids = rows[t] /\ j.gone = {} /\ DOMAIN j.added = {}
    <2> DEFINE base == Job("update", t, "check", FALSE)
    <2>1. /\ IsJob(base) /\ base.op = "update" /\ base.stage = "check"
          /\ base.thing = t /\ base.of = t
          /\ base.gone = {} /\ base.units = NoRows /\ base.added = NoRows
      BY DEF Job, IsJob
    <2>2. j = [base EXCEPT !.ids = rows[t]]
      OBVIOUS
    <2> HIDE DEF base, j
    <2>3. QED
      BY <2>1, <2>2 DEF IsJob, NoRows
  <1>2. Begin(p, j) /\ t \in Saved /\ UNCHANGED external
    BY DEF Update
  <1> HIDE DEF j
  <1>3. UpdateOk(j)
    BY <1>1, <1>2 DEF UpdateOk
  <1>4. QED
    BY <1>1, <1>2, <1>3, Begun

LEMMA DeletionBegins ==
  ASSUME OneHandler, Inv, NEW p \in Procs, NEW t \in Things, Delete(p, t)
  PROVE  Inv'
  <1>1. PICK form \in {FALSE, AdminSite} :
          Begin(p, [Job("delete", t, IF IsOrg(t) THEN "units" ELSE "next", form)
                       EXCEPT !.ids = rows[t]])
    BY DEF Delete
  <1> DEFINE stage == IF IsOrg(t) THEN "units" ELSE "next"
             j == [Job("delete", t, stage, form) EXCEPT !.ids = rows[t]]
  <1>2. /\ IsJob(j) /\ j.op = "delete" /\ j.stage = stage /\ j.thing = t /\ j.of = t
        /\ j.ids = rows[t] /\ j.gone = {} /\ DOMAIN j.added = {} /\ DOMAIN j.units = {}
    <2> DEFINE base == Job("delete", t, stage, form)
    <2>1. /\ IsJob(base) /\ base.op = "delete" /\ base.stage = stage
          /\ base.thing = t /\ base.of = t
          /\ base.gone = {} /\ base.units = NoRows /\ base.added = NoRows
      BY DEF Job, IsJob
    <2>2. j = [base EXCEPT !.ids = rows[t]]
      OBVIOUS
    <2> HIDE DEF base, j, stage
    <2>3. QED
      BY <2>1, <2>2 DEF IsJob, NoRows
  <1>3. Begin(p, j) /\ t \in Saved /\ UNCHANGED external
    BY <1>1 DEF Delete
  <1>4. stage = "units" \/ (stage = "next" /\ UnitsOf(t) = {})
    BY UnitsOfOrganization
  <1> HIDE DEF j, stage
  <1>5. DeleteOk(j)
    BY <1>2, <1>3, <1>4 DEF DeleteOk, Left
  <1>6. QED
    BY <1>2, <1>3, <1>5, Begun

LEMMA FullCleanKeeps ==
  ASSUME OneHandler, Inv, NEW p \in Procs, FullClean(p)
  PROVE  Inv'
  <1> DEFINE j == handler[p]
  <1>1. /\ At(p, "save", "clean") /\ IsJob(j) /\ SaveOk(j) /\ j.op = "save" /\ j.stage = "clean"
        /\ j # Idle /\ j.ids = <<>> /\ Held(j) = {} /\ UNCHANGED external
    BY AtWork DEF FullClean, SaveOk, Held, Range
  <1>2. CASE Abort(p)
    BY <1>1, <1>2, Aborted
  <1>3. CASE End(p, j)
    <2>1. /\ Fit(Sees(j), policies, issued) /\ Backing(Sees(j), groups, policies)
          /\ stopped = 0 => Accounted(Sees(j), policies, j)
      BY <1>1, AtWork
    <2>2. stopped = 0 => Accounted(Sees(j), policies, Idle)
      BY <1>1, <2>1 DEF Accounted
    <2>3. QED
      BY <1>1, <1>3, <2>1, <2>2, Ended
  <1>4. CASE Continue(p, [j EXCEPT !.stage = "group"])
    <2> DEFINE k == [j EXCEPT !.stage = "group"]
    <2>1. /\ IsJob(k) /\ k.op = "save" /\ k.stage = "group" /\ k.thing = j.thing /\ k.of = j.of
          /\ k.ids = j.ids /\ k.added = j.added /\ k.gone = j.gone
      BY <1>1 DEF IsJob
    <2>2. Continue(p, k)
      BY <1>4
    <2> HIDE DEF k
    <2>3. SaveOk(k)
      BY <1>1, <2>1 DEF SaveOk
    <2>4. View(p) = Sees(j) /\ Held(j) \subseteq Held(k)
      BY <1>1, AtWork
    <2>5. SameFields(View(p), Sees(k))
      BY <2>1, <2>4, Keeps
    <2>6. QED
      BY <1>1, <2>1, <2>2, <2>3, <2>4, <2>5, QuietTurn
  <1>5. QED
    BY <1>2, <1>3, <1>4 DEF FullClean

LEMMA CreateGroupKeeps ==
  ASSUME OneHandler, Inv, NEW p \in Procs, CreateGroup(p)
  PROVE  Inv'
  <1> DEFINE j == handler[p]
             k == [j EXCEPT !.stage = "policies"]
  <1>1. /\ At(p, "save", "group") /\ IsJob(j) /\ SaveOk(j) /\ j.op = "save" /\ j.stage = "group"
        /\ j.ids = <<>> /\ Backing(Sees(j), groups, policies)
        /\ stopped = 0 => Accounted(Sees(j), policies, j)
    BY AtWork DEF CreateGroup, SaveOk
  <1>2. /\ IsJob(k) /\ k.op = "save" /\ k.stage = "policies" /\ k.thing = j.thing /\ k.of = j.of
        /\ k.ids = j.ids /\ k.added = j.added /\ k.gone = j.gone /\ k # Idle
    BY <1>1 DEF IsJob, Idle
  <1>3. /\ Continue(p, k) /\ groups' = groups \cup {GroupOf(j.thing)}
        /\ UNCHANGED <<policies, issued, rows, reverted, stopped>>
        /\ handler' = [handler EXCEPT ![p] = k]
    BY DEF CreateGroup, Continue
  <1>4. j.thing \in Things /\ NumPolicies(j.thing) \in {1, 2} /\ GroupOf(j.thing) \in GroupNames
    BY <1>1, GroupNamed DEF IsJob
  <1> HIDE DEF j, k
  <1>5. Sees(k) = Sees(j) /\ Held(k) = Held(j)
    BY <1>1, <1>2, Keeps DEF Held
  <1>6. handler'[p] = k /\ DOMAIN handler' = Procs
    BY <1>3 DEF Inv, Shape
  <1>7. Shape'
    BY <1>3, <1>4, <1>6 DEF Inv, Shape, Saved
  <1>8. JobOk(p)'
    <2>1. Backed(k.thing, k.ids, groups', policies')
      BY <1>1, <1>2, <1>3 DEF Backed
    <2>2. 0 \in Nat /\ 0 < NumPolicies(k.thing) /\ k.ids \in [1..0 -> 1..issued]
      BY <1>1, <1>2, <1>4
    <2>3. /\ k.gone = {} /\ (k.thing = k.of \/ (IsOrg(k.of) /\ k.thing = <<k.of[1], Default>>))
          /\ Fit(k.added, policies, issued) /\ DOMAIN k.added \cap Saved = {}
      BY <1>1, <1>2 DEF SaveOk
    <2>4. SaveOk(handler[p])'
      BY <1>2, <1>3, <1>6, <2>1, <2>2, <2>3 DEF SaveOk, Saved
    <2>5. IsJob(handler[p])'
      BY <1>2, <1>3, <1>6 DEF IsJob, Saved
    <2>6. QED
      BY <1>2, <1>6, <2>4, <2>5 DEF JobOk
  <1>9. Backing(Sees(k), groups', policies')
    BY <1>1, <1>3, <1>5 DEF Backing, Backed
  <1>10. stopped = 0 => Accounted(Sees(k), policies', k)
    BY <1>1, <1>3, <1>5 DEF Accounted
  <1>11. QED
    BY <1>2, <1>3, <1>7, <1>8, <1>9, <1>10, Turn

LEMMA CreatePolicyKeeps ==
  ASSUME OneHandler, Inv, NEW p \in Procs, CreatePolicy(p)
  PROVE  Inv'
  <1> DEFINE j == handler[p]
             new == issued + 1
             ids == Append(j.ids, new)
             next == IF Len(ids) = NumPolicies(j.thing) THEN "insert" ELSE j.stage
             k == [j EXCEPT !.ids = ids, !.stage = next]
  <1>1. /\ At(p, "save", "policies") /\ IsJob(j) /\ SaveOk(j) /\ j.op = "save"
        /\ j.stage = "policies" /\ Backing(Sees(j), groups, policies)
        /\ Fit(Sees(j), policies, issued)
        /\ stopped = 0 => Accounted(Sees(j), policies, j)
    BY AtWork DEF CreatePolicy
  <1>2. /\ issued < MaxPolicies /\ issued' = new /\ Continue(p, k)
        /\ policies' = [n \in DOMAIN policies \cup {new} |->
               IF n = new THEN GroupOf(j.thing) ELSE policies[n]]
        /\ UNCHANGED <<groups, rows, reverted, stopped>>
    BY DEF CreatePolicy, Continue
  <1>3. PICK n \in Nat : n < NumPolicies(j.thing) /\ j.ids \in [1..n -> 1..issued]
    BY <1>1 DEF SaveOk
  <1>4. j.thing \in Things /\ NumPolicies(j.thing) \in {1, 2} /\ GroupOf(j.thing) \in GroupNames
    BY <1>1, GroupNamed DEF IsJob
  <1>5. /\ issued \in Nat /\ new \in Nat /\ issued <= new /\ 1 <= new /\ new <= MaxPolicies
        /\ DOMAIN policies \subseteq 1..issued /\ new \notin DOMAIN policies
    BY <1>2, OrganizationsAssumption DEF Inv, Shape
  <1>6. /\ ids \in [1..(n + 1) -> 1..new] /\ Len(ids) = n + 1
        /\ \A x \in 1..n : ids[x] = j.ids[x]
        /\ ids[n + 1] = new
    <2>1. j.ids \in [1..n -> 1..issued]
      BY <1>3
    <2> HIDE DEF j, next, new, ids
    <2>2. j.ids \in Seq(1..new) /\ Len(j.ids) = n /\ new \in 1..new
      <3>1. j.ids \in [1..n -> 1..new]
        BY <1>3, <1>5, <2>1
      <3>2. QED
        BY <1>3, <1>5, <3>1
    <2>3. ids \in Seq(1..new) /\ Len(ids) = n + 1 /\ ids[n + 1] = new
      BY <1>3, <2>2 DEF ids
    <2>4. \A x \in 1..n : ids[x] = j.ids[x]
      BY <1>3, <2>2 DEF ids
    <2>5. ids \in [1..(n + 1) -> 1..new]
      <3>1. ids \in [1..Len(ids) -> 1..new]
        BY <2>3, LenProperties
      <3>2. QED
        BY <2>3, <3>1
    <2>6. QED
      BY <2>3, <2>4, <2>5
  <1>7. /\ DOMAIN policies' = DOMAIN policies \cup {new} /\ policies'[new] = GroupOf(j.thing)
        /\ \A x \in DOMAIN policies : policies'[x] = policies[x]
    BY <1>2, <1>5
  <1>8. handler'[p] = k /\ DOMAIN handler' = Procs
    BY <1>2 DEF Continue, Inv, Shape
  <1>9. \/ n + 1 < NumPolicies(j.thing) /\ next = "policies"
        \/ n + 1 = NumPolicies(j.thing) /\ next = "insert"
    BY <1>1, <1>3, <1>4, <1>6
  <1> HIDE DEF j, ids, next
  <1>10. /\ IsJob(k) /\ k.op = "save" /\ k.thing = j.thing /\ k.of = j.of /\ k.ids = ids
         /\ k.added = j.added /\ k.gone = j.gone /\ k.stage = next /\ k # Idle
    <2>1. IsJob(j) /\ j.op = "save"
      BY <1>1
    <2>2. QED
      BY <2>1 DEF IsJob, Idle
  <1> HIDE DEF new, k
  <1>11. ASSUME NEW f, Fit(f, policies, issued)
         PROVE  Fit(f, policies', new)
    <2>1. \A x \in DOMAIN policies' \cap 1..issued :
            x \in DOMAIN policies /\ policies'[x] = policies[x]
      BY <1>5, <1>7 DEF new
    <2>2. QED
      BY <1>5, <1>11, <2>1, FitOn
  <1>12. Sees(k) = Sees(j)
    BY <1>10, Keeps
  <1>13. Shape'
    <2>1. Fit(rows, policies', issued')
      BY <1>2, <1>11 DEF Inv, Shape
    <2>2. DOMAIN policies' \subseteq 1..issued' /\ issued' \in 0..MaxPolicies
      BY <1>2, <1>5, <1>7, OrganizationsAssumption
    <2>3. QED
      BY <1>2, <1>4, <1>7, <1>8, <2>1, <2>2 DEF Inv, Shape, Saved
  <1>14. JobOk(p)'
    <2>1. Backed(k.thing, k.ids, groups', policies')
      <3>1. Backed(j.thing, j.ids, groups, policies)
        BY <1>1 DEF SaveOk
      <3>2. \A x \in 1..(n + 1) : x \in 1..n \/ x = n + 1
        BY <1>3
      <3>3. ASSUME NEW x \in 1..(n + 1)
            PROVE  ids[x] \in DOMAIN policies' /\ policies'[ids[x]] = GroupOf(j.thing)
        <4>1. CASE x \in 1..n
          BY <1>3, <1>6, <1>7, <3>1, <4>1 DEF Backed
        <4>2. CASE x = n + 1
          BY <1>6, <1>7, <4>2
        <4>3. QED
          BY <3>2, <4>1, <4>2
      <3>4. DOMAIN ids = 1..(n + 1)
        BY <1>6
      <3>5. QED
        BY <1>2, <1>10, <3>1, <3>3, <3>4 DEF Backed
    <2>2. /\ k.gone = {} /\ (k.thing = k.of \/ (IsOrg(k.of) /\ k.thing = <<k.of[1], Default>>))
          /\ Fit(k.added, policies', issued') /\ DOMAIN k.added \cap Saved = {}
      BY <1>1, <1>2, <1>10, <1>11 DEF SaveOk
    <2>3. k.ids \in [1..(n + 1) -> 1..issued'] /\ n + 1 \in Nat
      BY <1>2, <1>6, <1>10
    <2>4. SaveOk(handler[p])'
      BY <1>2, <1>8, <1>9, <1>10, <2>1, <2>2, <2>3 DEF SaveOk, Saved
    <2>5. IsJob(handler[p])'
      BY <1>2, <1>8, <1>10 DEF IsJob, Saved
    <2>6. QED
      BY <1>8, <1>10, <2>4, <2>5 DEF JobOk
  <1>15. Backing(Sees(k), groups', policies')
    BY <1>1, <1>2, <1>7, <1>12 DEF Backing, Backed
  <1>16. stopped = 0 => Accounted(Sees(k), policies', k)
    <2>1. Held(j) = Range(j.ids) /\ Held(k) = Range(ids)
      BY <1>1, <1>10 DEF Held
    <2>2. Range(j.ids) \subseteq Range(ids) /\ new \in Range(ids)
      <3>1. /\ DOMAIN j.ids = 1..n /\ DOMAIN ids = 1..(n + 1) /\ n + 1 \in 1..(n + 1)
            /\ \A x \in 1..n : x \in 1..(n + 1) /\ ids[x] = j.ids[x]
        BY <1>3, <1>6
      <3>2. QED
        BY <1>6, <3>1 DEF Range
    <2>3. QED
      BY <1>1, <1>7, <1>12, <2>1, <2>2 DEF Accounted
  <1>17. QED
    BY <1>2, <1>10, <1>13, <1>14, <1>15, <1>16, Turn

\* What the handler goes on with when it has written to the database.
LEMMA WrittenJob ==
  ASSUME Inv, NEW p \in Procs, NEW j, Wrote(p, j), IsJob(j)
  PROVE  \E k : /\ handler'[p] = k /\ DOMAIN k = DOMAIN j
                /\ k.op = j.op /\ k.stage = j.stage /\ k.thing = j.thing /\ k.of = j.of
                /\ k.ids = j.ids /\ k.units = j.units
                /\ \/ k.added = j.added /\ k.gone = j.gone /\ rows' = rows
                   \/ DOMAIN k.added = {} /\ k.gone = {} /\ rows' = Sees(j)
  <1>1. CASE j.form
    <2>1. handler'[p] = j /\ rows' = rows
      BY <1>1 DEF Wrote, Continue, Inv, Shape
    <2>2. QED
      BY <2>1
  <1>2. CASE ~ j.form
    <2> DEFINE k == [j EXCEPT !.added = NoRows, !.gone = {}]
    <2>1. handler'[p] = k /\ rows' = Sees(j)
      BY <1>2 DEF Wrote, Commit, Inv, Shape
    <2>2. /\ DOMAIN k = DOMAIN j
          /\ k.op = j.op /\ k.stage = j.stage /\ k.thing = j.thing /\ k.of = j.of
          /\ k.ids = j.ids /\ k.units = j.units /\ DOMAIN k.added = {} /\ k.gone = {}
      BY DEF IsJob, NoRows
    <2> HIDE DEF k
    <2>3. QED
      BY <2>1, <2>2
  <1>3. QED
    BY <1>1, <1>2

LEMMA InsertRowKeeps ==
  ASSUME OneHandler, Inv, NEW p \in Procs, InsertRow(p)
  PROVE  Inv'
  <1> DEFINE j == handler[p]
             t == j.thing
             done == [j EXCEPT !.added = Merge(@, [x \in {j.thing} |-> j.ids])]
             k == [done EXCEPT !.stage = "clean", !.ids = <<>>, !.thing = <<j.thing[1], Default>>]
  <1>1. /\ IsJob(j) /\ SaveOk(j) /\ j.op = "save"
        /\ j.stage = "insert" /\ Backing(Sees(j), groups, policies) /\ j # Idle
        /\ Fit(Sees(j), policies, issued)
        /\ stopped = 0 => Accounted(Sees(j), policies, j)
    BY AtWork DEF InsertRow
  <1>2. /\ UNCHANGED external
        /\ \/ Abort(p)
           \/ t \notin DOMAIN Sees(j) /\ ~ IsOrg(t) /\ End(p, done)
           \/ t \notin DOMAIN Sees(j) /\ IsOrg(t) /\ Wrote(p, k)
    BY DEF InsertRow, Refused
  <1>3. CASE Abort(p)
    BY <1>1, <1>2, <1>3, Aborted
  <1>4. /\ t \in Things /\ j.ids \in [1..NumPolicies(t) -> 1..issued] /\ j.gone = {}
        /\ Backed(t, j.ids, groups, policies)
        /\ t = j.of \/ (IsOrg(j.of) /\ t = <<j.of[1], Default>>)
        /\ Fit(j.added, policies, issued) /\ DOMAIN j.added \cap Saved = {} /\ j.of \in Things
    <2> HIDE DEF j
    <2>1. QED
      BY <1>1 DEF IsJob, SaveOk
  <1>5. /\ IsJob(done) /\ done.op = "save" /\ done.gone = {} /\ done.of = j.of /\ done.thing = t
        /\ done.added = Merge(j.added, [x \in {t} |-> j.ids]) /\ done.form = j.form
    <2> HIDE DEF j
    <2>1. QED
      BY <1>1, <1>4 DEF IsJob
  <1> HIDE DEF j, t, done
  <1>6. /\ DOMAIN done.added = DOMAIN j.added \cup {t} /\ done.added[t] = j.ids
        /\ \A x \in DOMAIN j.added \ {t} : done.added[x] = j.added[x]
    BY <1>5 DEF Merge
  <1>7. Fit(done.added, policies, issued)
    <2>1. ASSUME NEW x \in DOMAIN done.added
          PROVE  /\ x \in Things /\ done.added[x] \in [1..NumPolicies(x) -> 1..issued]
                 /\ \A n \in 1..NumPolicies(x) : done.added[x][n] \in DOMAIN policies =>
                      policies[done.added[x][n]] = GroupOf(x)
      <3>1. CASE x = t
        BY <1>4, <1>6, <3>1 DEF Backed
      <3>2. CASE x # t
        BY <1>4, <1>6, <3>2 DEF Fit
      <3>3. QED
        BY <3>1, <3>2
    <2>2. QED
      BY <2>1 DEF Fit
  <1>8. Fit(Sees(done), policies, issued)
    BY <1>7, SeenFit DEF Inv, Shape
  <1>9. ASSUME t \notin DOMAIN Sees(j)
        PROVE  /\ DOMAIN Sees(done) = DOMAIN Sees(j) \cup {t} /\ Sees(done)[t] = j.ids
               /\ \A x \in DOMAIN Sees(j) : Sees(done)[x] = Sees(j)[x]
               /\ t \notin Saved
    <2>1. /\ DOMAIN Sees(j) = Saved \cup DOMAIN j.added
          /\ \A x \in DOMAIN j.added : Sees(j)[x] = j.added[x]
          /\ \A x \in Saved \ DOMAIN j.added : Sees(j)[x] = rows[x]
      BY <1>4, Seen
    <2>2. /\ DOMAIN Sees(done) = Saved \cup DOMAIN done.added
          /\ \A x \in DOMAIN done.added : Sees(done)[x] = done.added[x]
          /\ \A x \in Saved \ DOMAIN done.added : Sees(done)[x] = rows[x]
      BY <1>5, Seen
    <2>3. QED
      BY <1>6, <1>9, <2>1, <2>2
  <1>10. ASSUME t \notin DOMAIN Sees(j)
         PROVE  /\ Backing(Sees(done), groups, policies)
                /\ stopped = 0 => Accounted(Sees(done), policies, Idle)
    <2>1. Backing(Sees(done), groups, policies)
      BY <1>1, <1>4, <1>9, <1>10 DEF Backing
    <2>2. Held(j) = Range(j.ids)
      BY <1>1 DEF Held
    <2>3. stopped = 0 => Accounted(Sees(done), policies, Idle)
      BY <1>1, <1>9, <1>10, <2>2 DEF Accounted
    <2>4. QED
      BY <2>1, <2>3
  <1>11. CASE t \notin DOMAIN Sees(j) /\ End(p, done)
    BY <1>2, <1>8, <1>10, <1>11, Ended
  <1>12. CASE t \notin DOMAIN Sees(j) /\ IsOrg(t) /\ Wrote(p, k)
    <2>1. j.of = t /\ <<t[1], Default>> \in Things
      <3>1. PICK o \in Orgs : t = <<o>>
        BY <1>4, <1>12, ThingsAre, Unit
      <3>2. <<o, Default>> \in Things
        BY <3>1, Unit, OrganizationsAssumption
      <3>3. ASSUME IsOrg(j.of), t = <<j.of[1], Default>>
            PROVE  FALSE
        <4>1. PICK x \in Orgs : j.of = <<x>>
          BY <1>4, <3>3, ThingsAre, Unit
        <4>2. t = <<x, Default>>
          BY <3>3, <4>1
        <4>3. QED
          BY <1>12, <4>2, Unit, OrganizationsAssumption
      <3>4. QED
        BY <1>4, <3>1, <3>2, <3>3
    <2>2. /\ IsJob(k) /\ k.op = "save" /\ k.stage = "clean" /\ k.ids = <<>> /\ k.gone = {}
          /\ k.of = j.of /\ k.thing = <<t[1], Default>> /\ k.added = done.added
      BY <1>5, <2>1 DEF IsJob, t
    <2>3. Wrote(p, k)
      BY <1>12
    <2> HIDE DEF k
    <2>4. Sees(k) = Sees(done)
      BY <1>5, <2>2, Keeps
    <2>5. stopped = 0 => Accounted(Sees(k), policies, k)
      BY <1>10, <1>12, <2>4 DEF Accounted, Held, Idle
    <2>6. JobOk(p)'
      <3>1. PICK l : /\ handler'[p] = l /\ DOMAIN l = DOMAIN k
                     /\ l.op = k.op /\ l.stage = k.stage /\ l.thing = k.thing /\ l.of = k.of
                     /\ l.ids = k.ids /\ l.units = k.units
                     /\ \/ l.added = k.added /\ l.gone = k.gone /\ rows' = rows
                        \/ DOMAIN l.added = {} /\ l.gone = {} /\ rows' = Sees(k)
        <4>1. IsJob(k)
          BY <2>2
        <4>2. QED
          BY <2>3, <4>1, WrittenJob, Zenon
      <3>2. IsJob(handler[p])'
        BY <2>2, <3>1 DEF IsJob
      <3>3. UNCHANGED <<policies, issued>>
        BY <1>2 DEF external
      <3>4. Fit(l.added, policies', issued') /\ DOMAIN l.added \cap Saved' = {}
        <4>1. CASE l.added = k.added /\ rows' = rows
          BY <1>4, <1>6, <1>7, <1>9, <1>12, <2>2, <3>3, <4>1 DEF Saved
        <4>2. CASE DOMAIN l.added = {}
          BY <4>2 DEF Fit
        <4>3. QED
          BY <3>1, <4>1, <4>2
      <3>5. l.gone = {} /\ IsOrg(l.of) /\ l.thing = <<l.of[1], Default>>
        BY <1>12, <2>1, <2>2, <3>1
      <3>6. SaveOk(handler[p])'
        BY <2>2, <3>1, <3>4, <3>5 DEF SaveOk
      <3>7. QED
        BY <2>2, <3>1, <3>2, <3>6 DEF JobOk
    <2>7. QED
      BY <1>2, <1>8, <1>10, <1>12, <2>2, <2>3, <2>4, <2>5, <2>6, Written
  <1>13. QED
    BY <1>2, <1>3, <1>11, <1>12

LEMMA CheckUnchangedIdKeeps ==
  ASSUME OneHandler, Inv, NEW p \in Procs, CheckUnchangedId(p)
  PROVE  Inv'
  <1> DEFINE j == handler[p]
             k == [j EXCEPT !.stage = "write"]
  <1>1. /\ IsJob(j) /\ UpdateOk(j) /\ j.op = "update" /\ View(p) = Sees(j)
        /\ Fit(Sees(j), policies, issued) /\ Backing(Sees(j), groups, policies)
        /\ stopped = 0 => Accounted(Sees(j), policies, j)
    BY AtWork DEF CheckUnchangedId
  <1>2. UNCHANGED external /\ (End(p, j) \/ Continue(p, k))
    BY DEF CheckUnchangedId
  <1> HIDE DEF j
  <1>3. CASE End(p, j)
    <2>1. stopped = 0 => Accounted(Sees(j), policies, Idle)
      BY <1>1 DEF Accounted, Held
    <2>2. QED
      BY <1>1, <1>2, <1>3, <2>1, Ended
  <1>4. CASE Continue(p, k)
    <2>1. /\ IsJob(k) /\ k.op = "update" /\ k.stage = "write" /\ k.thing = j.thing /\ k.of = j.of
          /\ k.ids = j.ids /\ k.added = j.added /\ k.gone = j.gone
      BY <1>1 DEF IsJob
    <2> HIDE DEF k
    <2>2. UpdateOk(k)
      BY <1>1, <2>1 DEF UpdateOk
    <2>3. SameFields(View(p), Sees(k))
      BY <1>1, <2>1, Keeps
    <2>4. Held(handler[p]) \subseteq Held(k)
      BY <1>1 DEF Held, j
    <2>5. QED
      BY <1>2, <1>4, <2>1, <2>2, <2>3, <2>4, QuietTurn
  <1>5. QED
    BY <1>2, <1>3, <1>4

\* An update writes back what it read: no other handler has changed it.
LEMMA WriteRowKeeps ==
  ASSUME OneHandler, Inv, NEW p \in Procs, WriteRow(p)
  PROVE  Inv'
  <1> DEFINE j == handler[p]
             done == [j EXCEPT !.added = [t \in {j.thing} |-> j.ids]]
  <1>1. /\ IsJob(j) /\ UpdateOk(j) /\ j.op = "update" /\ j # Idle
        /\ Fit(Sees(j), policies, issued) /\ Backing(Sees(j), groups, policies)
        /\ stopped = 0 => Accounted(Sees(j), policies, j)
    BY AtWork DEF WriteRow
  <1>2. UNCHANGED external /\ (Abort(p) \/ End(p, done))
    BY DEF WriteRow
  <1>3. CASE Abort(p)
    BY <1>1, <1>2, <1>3, Aborted
  <1>4. CASE End(p, done)
    <2> HIDE DEF j
    <2>1. /\ done.gone = {} /\ DOMAIN done.added = {j.thing} /\ done.added[j.thing] = rows[j.thing]
          /\ j.thing \in Saved /\ j.gone = {} /\ DOMAIN j.added = {}
      BY <1>1 DEF IsJob, UpdateOk
    <2> HIDE DEF done
    <2>2. SameFields(Sees(j), Sees(done))
      <3>1. DOMAIN Sees(j) = Saved /\ \A x \in Saved : Sees(j)[x] = rows[x]
        BY <2>1, Seen
      <3>2. /\ DOMAIN Sees(done) = Saved \cup {j.thing}
            /\ Sees(done)[j.thing] = rows[j.thing]
            /\ \A x \in Saved \ {j.thing} : Sees(done)[x] = rows[x]
        BY <2>1, Seen
      <3>3. QED
        BY <2>1, <3>1, <3>2 DEF SameFields
    <2>3. Fit(Sees(done), policies, issued)
      BY <1>1, <2>2 DEF SameFields, Fit
    <2>4. Held(j) = {}
      BY <1>1 DEF Held
    <2>5. /\ Backing(Sees(done), groups, policies)
          /\ stopped = 0 => Accounted(Sees(done), policies, Idle)
      BY <1>1, <2>2, <2>4 DEF SameFields, Backing, Accounted
    <2>6. QED
      BY <1>2, <1>4, <2>3, <2>5, Ended
  <1>5. QED
    BY <1>2, <1>3, <1>4

LEMMA ReadUnitsKeeps ==
  ASSUME OneHandler, Inv, NEW p \in Procs, ReadUnits(p)
  PROVE  Inv'
  <1> DEFINE j == handler[p]
             units == [u \in UnitsOf(j.of) \cap Saved |-> rows[u]]
             k == [j EXCEPT !.stage = "next", !.units = units]
  <1>1. /\ IsJob(j) /\ DeleteOk(j) /\ j.op = "delete" /\ j.stage = "units" /\ View(p) = Sees(j)
    BY AtWork DEF ReadUnits
  <1>2. UNCHANGED external /\ Continue(p, k)
    BY DEF ReadUnits
  <1> HIDE DEF j
  <1>3. /\ DOMAIN units = UnitsOf(j.of) \cap Saved /\ \A u \in DOMAIN units : units[u] = rows[u]
    OBVIOUS
  <1> HIDE DEF units
  <1>4. /\ IsJob(k) /\ k.op = "delete" /\ k.stage = "next" /\ k.thing = j.thing /\ k.of = j.of
        /\ k.ids = j.ids /\ k.added = j.added /\ k.gone = j.gone /\ k.units = units
    BY <1>1 DEF IsJob
  <1> HIDE DEF k
  <1>5. DeleteOk(k)
    <2>1. /\ j.gone = {} /\ DOMAIN j.added = {} /\ j.of \in Saved /\ j.ids = rows[j.of]
      BY <1>1 DEF DeleteOk
    <2>2. Left(k) = UnitsOf(j.of) \cap Saved
      BY <1>3, <1>4 DEF Left
    <2>3. QED
      BY <1>3, <1>4, <2>1, <2>2 DEF DeleteOk
  <1>6. SameFields(View(p), Sees(k))
    BY <1>1, <1>4, Keeps
  <1>7. Held(handler[p]) \subseteq Held(k)
    BY <1>1 DEF Held, j
  <1>8. QED
    BY <1>2, <1>4, <1>5, <1>6, <1>7, QuietTurn

LEMMA NextRowKeeps ==
  ASSUME OneHandler, Inv, NEW p \in Procs, NextRow(p)
  PROVE  Inv'
  <1> DEFINE j == handler[p]
  <1>1. /\ IsJob(j) /\ DeleteOk(j) /\ j.op = "delete" /\ j.stage = "next" /\ View(p) = Sees(j)
    BY AtWork DEF NextRow
  <1>2. PICK t : /\ t \in DOMAIN j.units \/ (t = j.of /\ DOMAIN j.units = {})
                 /\ Continue(p, [j EXCEPT !.stage = "row", !.thing = t])
                 /\ UNCHANGED external
    BY DEF NextRow
  <1> DEFINE k == [j EXCEPT !.stage = "row", !.thing = t]
  <1> HIDE DEF j
  <1>3. t \in Things
    BY <1>1, <1>2, UnitsOfOrganization DEF IsJob, DeleteOk
  <1>4. /\ IsJob(k) /\ k.op = "delete" /\ k.stage = "row" /\ k.thing = t /\ k.of = j.of
        /\ k.ids = j.ids /\ k.added = j.added /\ k.gone = j.gone /\ k.units = j.units
    BY <1>1, <1>3 DEF IsJob
  <1>5. Continue(p, k)
    BY <1>2
  <1> HIDE DEF k
  <1>6. DeleteOk(k)
    <2>1. Left(k) = DOMAIN j.units /\ Left(j) = DOMAIN j.units
      BY <1>1, <1>4 DEF Left
    <2>2. QED
      BY <1>1, <1>2, <1>4, <2>1 DEF DeleteOk
  <1>7. SameFields(View(p), Sees(k))
    BY <1>1, <1>4, Keeps
  <1>8. Held(handler[p]) \subseteq Held(k)
    BY <1>1 DEF Held, j
  <1>9. QED
    BY <1>2, <1>4, <1>5, <1>6, <1>7, <1>8, QuietTurn

\* The row goes, but nothing else does: the units of an organization have gone before.
LEMMA DeleteRowKeeps ==
  ASSUME OneHandler, Inv, NEW p \in Procs, DeleteRow(p)
  PROVE  Inv'
  <1> DEFINE j == handler[p]
             t == j.thing
             gone == j.gone \cup (({j.thing} \cup UnitsOf(j.thing)) \cap Saved)
             k == [j EXCEPT !.stage = "group", !.gone = gone]
             rest == (Saved \ j.gone) \ {t}
  <1>1. /\ IsJob(j) /\ DeleteOk(j) /\ j.op = "delete" /\ j.stage = "row"
        /\ Fit(Sees(j), policies, issued) /\ Backing(Sees(j), groups, policies)
        /\ stopped = 0 => Accounted(Sees(j), policies, j)
    BY AtWork DEF DeleteRow
  <1>2. UNCHANGED external /\ Wrote(p, k)
    BY DEF DeleteRow
  <1> HIDE DEF j
  <1>3. /\ t \in DOMAIN j.units \/ (t = j.of /\ DOMAIN j.units = {})
        /\ DOMAIN j.units \subseteq UnitsOf(j.of) /\ DOMAIN j.added = {}
        /\ DOMAIN j.units \subseteq Saved \ j.gone
        /\ \A u \in DOMAIN j.units : j.units[u] = rows[u]
        /\ UnitsOf(j.of) \cap (Saved \ j.gone) \subseteq DOMAIN j.units
        /\ j.of \in Saved \ j.gone /\ j.ids = rows[j.of]
        /\ j.of \in Things /\ t \in Things /\ j.gone \subseteq Saved
    BY <1>1 DEF DeleteOk, IsJob, Left
  <1>4. t \in Saved \ j.gone /\ UnitsOf(t) \cap (Saved \ j.gone) = {}
    <2>1. CASE t \in DOMAIN j.units
      <3>1. ~ IsOrg(t)
        BY <1>3, <2>1, UnitsOfOrganization, GroupNamed
      <3>2. QED
        BY <1>3, <2>1, <3>1, UnitsOfOrganization
    <2>2. CASE t = j.of /\ DOMAIN j.units = {}
      BY <1>3, <2>2
    <2>3. QED
      BY <1>3, <2>1, <2>2
  <1>5. Saved \ gone = rest /\ gone \subseteq Saved
    BY <1>3, <1>4
  <1> HIDE DEF gone
  <1>6. /\ IsJob(k) /\ k.op = "delete" /\ k.stage = "group" /\ k.thing = t /\ k.of = j.of
        /\ k.ids = j.ids /\ k.added = j.added /\ k.gone = gone /\ k.units = j.units
    BY <1>1, <1>5 DEF IsJob
  <1> HIDE DEF k, t
  <1>7. Doomed(k) = rows[t]
    BY <1>3, <1>6, UnitsOfOrganization DEF Doomed
  <1>8. /\ DOMAIN Sees(k) = rest /\ \A x \in rest : Sees(k)[x] = rows[x]
    <2>1. /\ DOMAIN Sees(k) = (Saved \ k.gone) \cup DOMAIN k.added
          /\ \A x \in (Saved \ k.gone) \ DOMAIN k.added : Sees(k)[x] = rows[x]
      BY Seen
    <2> HIDE DEF rest
    <2>2. QED
      BY <1>3, <1>5, <1>6, <2>1
  <1>9. /\ DOMAIN Sees(j) = rest \cup {t} /\ \A x \in rest \cup {t} : Sees(j)[x] = rows[x]
    <2>1. /\ DOMAIN Sees(j) = (Saved \ j.gone) \cup DOMAIN j.added
          /\ \A x \in (Saved \ j.gone) \ DOMAIN j.added : Sees(j)[x] = rows[x]
      BY Seen
    <2>2. Saved \ j.gone = rest \cup {t}
      BY <1>4
    <2> HIDE DEF rest
    <2>3. QED
      BY <1>3, <2>1, <2>2
  <1> HIDE DEF rest
  <1>10. Fit(Sees(k), policies, issued) /\ Backing(Sees(k), groups, policies)
    BY <1>1, <1>8, <1>9 DEF Fit, Backing
  <1>11. stopped = 0 => Accounted(Sees(k), policies, k)
    <2>1. Held(j) = {} /\ Held(k) = Range(rows[t])
      BY <1>1, <1>6, <1>7 DEF Held
    <2>2. QED
      BY <1>1, <1>8, <1>9, <2>1 DEF Accounted
  <1>12. JobOk(p)'
    <2>1. PICK l : /\ handler'[p] = l /\ DOMAIN l = DOMAIN k
                   /\ l.op = k.op /\ l.stage = k.stage /\ l.thing = k.thing /\ l.of = k.of
                   /\ l.ids = k.ids /\ l.units = k.units
                   /\ \/ l.added = k.added /\ l.gone = k.gone /\ rows' = rows
                      \/ DOMAIN l.added = {} /\ l.gone = {} /\ rows' = Sees(k)
      <3>1. IsJob(k)
        BY <1>6
      <3>2. QED
        BY <1>2, <3>1, WrittenJob, Zenon
    <2>2. /\ DOMAIN rows' \ l.gone = rest /\ l.gone \subseteq DOMAIN rows'
          /\ \A x \in rest : rows'[x] = rows[x]
          /\ DOMAIN l.added = {}
      BY <1>3, <1>5, <1>6, <1>8, <2>1 DEF Saved
    <2>3. IsJob(handler[p])'
      BY <1>6, <2>1, <2>2 DEF IsJob, Saved
    <2>4. UNCHANGED <<policies, issued>>
      BY <1>2 DEF external
    <2>5. /\ rows[t] \in [1..NumPolicies(t) -> 1..issued]
          /\ \A n \in 1..NumPolicies(t) :
               rows[t][n] \in DOMAIN policies => policies[rows[t][n]] = GroupOf(t)
      BY <1>4 DEF Inv, Shape, Fit, Saved
    <2>6. /\ DOMAIN j.units \ {t} \subseteq rest
          /\ \A u \in DOMAIN j.units \ {t} : j.units[u] = rows'[u]
          /\ UnitsOf(j.of) \cap rest \subseteq DOMAIN j.units \ {t}
          /\ t \notin rest
          /\ t # j.of => j.of \in rest /\ j.ids = rows'[j.of]
      BY <1>3, <2>2 DEF rest
    <2>7. Left(l) = DOMAIN j.units \ {t} /\ Doomed(l) = rows[t]
      BY <1>6, <1>7, <2>1 DEF Left, Doomed
    <2>8. DeleteOk(handler[p])'
      BY <1>3, <1>6, <2>1, <2>2, <2>4, <2>5, <2>6, <2>7 DEF DeleteOk, Left, Doomed, Saved
    <2>9. QED
      BY <1>6, <2>1, <2>3, <2>8 DEF JobOk
  <1>13. QED
    BY <1>2, <1>6, <1>10, <1>11, <1>12, Written

\* What is deleted is not the group of a row, nor of any.
LEMMA DeleteGroupKeeps ==
  ASSUME OneHandler, Inv, NEW p \in Procs, DeleteGroup(p)
  PROVE  Inv'
  <1> DEFINE j == handler[p]
             k == [j EXCEPT !.stage = "policies"]
  <1>1. /\ IsJob(j) /\ DeleteOk(j) /\ j.op = "delete" /\ j.stage = "group"
        /\ Fit(Sees(j), policies, issued) /\ Backing(Sees(j), groups, policies)
        /\ stopped = 0 => Accounted(Sees(j), policies, j)
    BY AtWork DEF DeleteGroup
  <1>2. /\ Continue(p, k) /\ groups' = groups \ {BareName(j.thing)}
        /\ UNCHANGED <<policies, issued>>
    BY DEF DeleteGroup
  <1> HIDE DEF j
  <1>3. /\ IsJob(k) /\ k.op = "delete" /\ k.stage = "policies" /\ k.thing = j.thing /\ k.of = j.of
        /\ k.ids = j.ids /\ k.added = j.added /\ k.gone = j.gone /\ k.units = j.units
        /\ k # Idle
    BY <1>1 DEF IsJob, Idle
  <1>4. /\ UNCHANGED <<rows, stopped, reverted>>
        /\ handler'[p] = k /\ DOMAIN handler' = Procs
    BY <1>2 DEF Continue, Inv, Shape
  <1> HIDE DEF k
  <1>5. \A u \in Things : GroupOf(u) \in groups => GroupOf(u) \in groups'
    BY <1>1, <1>2, BareNameIsNoGroup DEF IsJob
  <1>6. Shape'
    BY <1>2, <1>4 DEF Inv, Shape, Saved
  <1>7. Sees(k) = Sees(j)
    BY <1>3, Keeps
  <1>8. Doomed(k) = Doomed(j) /\ Held(k) = Held(j) /\ Left(k) = Left(j)
    BY <1>1, <1>3 DEF Doomed, Held, Left
  <1>9. JobOk(p)'
    <2>1. IsJob(handler[p])'
      BY <1>3, <1>4 DEF IsJob, Saved
    <2>2. DeleteOk(k)
      BY <1>1, <1>3, <1>8 DEF DeleteOk
    <2>3. DeleteOk(handler[p])'
      BY <1>2, <1>4, <2>2 DEF DeleteOk, Left, Doomed, Saved
    <2>4. QED
      BY <1>3, <1>4, <2>1, <2>3 DEF JobOk
  <1>10. Backing(Sees(k), groups', policies')
    BY <1>1, <1>2, <1>5, <1>7 DEF Backing, Backed, Fit
  <1>11. stopped = 0 => Accounted(Sees(k), policies', k)
    BY <1>1, <1>2, <1>7, <1>8 DEF Accounted
  <1>12. QED
    BY <1>2, <1>3, <1>6, <1>9, <1>10, <1>11, Turn

\* The policies that are deleted are those of a row that has gone.
LEMMA DeletePoliciesKeeps ==
  ASSUME OneHandler, Inv, NEW p \in Procs, DeletePolicies(p)
  PROVE  Inv'
  <1> DEFINE j == handler[p]
             t == j.thing
             doomed == IF j.thing = j.of THEN j.ids ELSE j.units[j.thing]
             left == {n \in DOMAIN doomed : doomed[n] \in DOMAIN policies}
             units == [u \in DOMAIN j.units \ {j.thing} |-> j.units[u]]
             k == [j EXCEPT !.stage = "next", !.units = units]
  <1>1. /\ IsJob(j) /\ DeleteOk(j) /\ j.op = "delete" /\ j.stage = "policies" /\ j # Idle
        /\ Fit(Sees(j), policies, issued) /\ Backing(Sees(j), groups, policies)
        /\ stopped = 0 => Accounted(Sees(j), policies, j)
    BY AtWork DEF DeletePolicies
  <1>2. /\ UNCHANGED <<groups, issued>>
        /\ \/ \E n \in left :
                /\ policies' = [x \in DOMAIN policies \ {doomed[n]} |-> policies[x]]
                /\ Continue(p, j)
           \/ left = {} /\ t = j.of /\ UNCHANGED policies /\ End(p, j)
           \/ left = {} /\ t # j.of /\ UNCHANGED policies /\ Continue(p, k)
    BY DEF DeletePolicies
  <1> HIDE DEF j
  <1>3. /\ t \in Things /\ t \notin DOMAIN Sees(j)
        /\ doomed \in [1..NumPolicies(t) -> 1..issued]
        /\ \A n \in 1..NumPolicies(t) :
             doomed[n] \in DOMAIN policies => policies[doomed[n]] = GroupOf(t)
        /\ Held(j) = Range(doomed)
    <2>1. t \in Things /\ t \notin Saved \ j.gone /\ DOMAIN j.added = {}
      BY <1>1 DEF DeleteOk, IsJob
    <2>2. doomed = Doomed(j)
      BY DEF Doomed
    <2>3. t \notin DOMAIN Sees(j)
      BY <2>1, Seen
    <2> HIDE DEF doomed
    <2>4. QED
      BY <1>1, <2>1, <2>2, <2>3 DEF DeleteOk, Held
  <1>4. doomed = Doomed(j)
    BY DEF Doomed
  <1> HIDE DEF doomed, t
  <1>5. ASSUME NEW n \in left,
               policies' = [x \in DOMAIN policies \ {doomed[n]} |-> policies[x]],
               Continue(p, j)
        PROVE  Inv'
    <2>1. /\ DOMAIN policies' = DOMAIN policies \ {doomed[n]}
          /\ \A x \in DOMAIN policies' : x \in DOMAIN policies /\ policies'[x] = policies[x]
      BY <1>5
    <2>2. /\ UNCHANGED <<rows, stopped, reverted, groups, issued>>
          /\ handler'[p] = j /\ DOMAIN handler' = Procs
      BY <1>2, <1>5 DEF Continue, Inv, Shape
    <2>3. issued \in Nat
      BY OrganizationsAssumption DEF Inv, Shape
    <2>4. Shape'
      <3>1. Fit(rows, policies', issued)
        BY <2>1, <2>3, FitOn DEF Inv, Shape
      <3>2. QED
        BY <2>1, <2>2, <3>1 DEF Inv, Shape, Saved
    <2>5. JobOk(p)'
      <3>1. IsJob(handler[p])'
        BY <1>1, <2>2 DEF IsJob, Saved
      <3>2. /\ Doomed(j) \in [1..NumPolicies(j.thing) -> 1..issued]
            /\ \A x \in 1..NumPolicies(j.thing) :
                 Doomed(j)[x] \in DOMAIN policies' => policies'[Doomed(j)[x]] = GroupOf(j.thing)
        BY <1>3, <1>4, <2>1 DEF t
      <3>3. DeleteOk(handler[p])'
        BY <1>1, <2>2, <3>2 DEF DeleteOk, Left, Doomed, Saved
      <3>4. QED
        BY <1>1, <2>2, <3>1, <3>3 DEF JobOk
    <2>6. Backing(Sees(j), groups', policies')
      <3>1. ASSUME NEW u \in DOMAIN Sees(j) \ reverted
            PROVE  Backed(u, Sees(j)[u], groups, policies')
        <4>1. Backed(u, Sees(j)[u], groups, policies) /\ u \in Things /\ u # t
          BY <1>1, <1>3 DEF Backing, Fit
        <4>2. ASSUME NEW x \in DOMAIN Sees(j)[u], Sees(j)[u][x] = doomed[n]
              PROVE  FALSE
          <5>1. policies[doomed[n]] = GroupOf(u) /\ policies[doomed[n]] = GroupOf(t)
            BY <1>3, <4>1, <4>2 DEF Backed
          <5>2. QED
            BY <1>3, <4>1, <5>1, OwnGroup
        <4>3. QED
          BY <2>1, <4>1, <4>2 DEF Backed
      <3>2. QED
        BY <2>2, <3>1 DEF Backing
    <2>7. stopped = 0 => Accounted(Sees(j), policies', j)
      BY <1>1, <2>1 DEF Accounted
    <2>8. QED
      BY <1>1, <1>5, <2>4, <2>5, <2>6, <2>7, Turn
  <1>6. ASSUME left = {}, stopped = 0
        PROVE  \A n \in DOMAIN policies : \E u \in DOMAIN Sees(j) : n \in Range(Sees(j)[u])
    <2>1. \A n \in DOMAIN policies : n \notin Range(doomed)
      BY <1>6 DEF Range
    <2>2. QED
      BY <1>1, <1>3, <1>6, <2>1 DEF Accounted
  <1>7. CASE left = {} /\ UNCHANGED policies /\ End(p, j)
    <2>1. stopped = 0 => Accounted(Sees(j), policies, Idle)
      BY <1>6, <1>7 DEF Accounted
    <2>2. UNCHANGED external
      BY <1>2, <1>7 DEF external
    <2>3. QED
      BY <1>1, <1>7, <2>1, <2>2, Ended
  <1>8. CASE left = {} /\ t # j.of /\ UNCHANGED policies /\ Continue(p, k)
    <2>1. /\ DOMAIN units = DOMAIN j.units \ {t}
          /\ \A u \in DOMAIN units : units[u] = j.units[u]
      BY DEF t
    <2> HIDE DEF units
    <2>2. /\ IsJob(k) /\ k.op = "delete" /\ k.stage = "next" /\ k.thing = t /\ k.of = j.of
          /\ k.ids = j.ids /\ k.added = j.added /\ k.gone = j.gone /\ k.units = units
          /\ k # Idle
      BY <1>1 DEF IsJob, Idle, t
    <2>3. Continue(p, k)
      BY <1>8
    <2> HIDE DEF k, left
    <2>4. /\ UNCHANGED <<rows, stopped, reverted, groups, issued, policies>>
          /\ handler'[p] = k /\ DOMAIN handler' = Procs
      BY <1>2, <1>8, <2>3 DEF Continue, Inv, Shape
    <2>5. Shape'
      BY <2>4 DEF Inv, Shape, Saved
    <2>6. JobOk(p)'
      <3>1. IsJob(handler[p])'
        BY <2>2, <2>4 DEF IsJob, Saved
      <3>2. Left(k) = Left(j) /\ Left(j) = DOMAIN units
        BY <1>1, <2>1, <2>2 DEF Left, t
      <3>3. DeleteOk(k)
        BY <1>1, <1>8, <2>1, <2>2, <3>2 DEF DeleteOk, t
      <3>4. DeleteOk(handler[p])'
        BY <2>4, <3>3 DEF DeleteOk, Left, Doomed, Saved
      <3>5. QED
        BY <2>2, <2>4, <3>1, <3>4 DEF JobOk
    <2>7. Sees(k) = Sees(j)
      BY <2>2, Keeps
    <2>8. Backing(Sees(k), groups', policies')
      BY <1>1, <2>4, <2>7 DEF Backing, Backed
    <2>9. stopped = 0 => Accounted(Sees(k), policies', k)
      BY <1>6, <1>8, <2>4, <2>7 DEF Accounted
    <2>10. QED
      BY <2>2, <2>3, <2>5, <2>6, <2>8, <2>9, Turn
  <1>9. QED
    BY <1>2, <1>5, <1>7, <1>8

LEMMA FailKeeps ==
  ASSUME OneHandler, Inv, NEW p \in Procs, Fail(p)
  PROVE  Inv'
  BY Aborted DEF Fail

LEMMA NextKeepsInv ==
  ASSUME OneHandler, Inv, [Next]_vars
  PROVE  Inv'
  <1>1. CASE UNCHANGED vars
    <2>1. UNCHANGED <<rows, groups, policies, issued, handler, stopped, reverted>>
      BY <1>1 DEF vars
    <2>2. Shape'
      BY <2>1 DEF Inv, Shape, Saved
    <2>3. ASSUME NEW p \in Procs
          PROVE  InvOf(p)'
      <3>1. JobOk(p)'
        BY <2>1 DEF Inv, InvOf, JobOk, IsJob, SaveOk, UpdateOk, DeleteOk, Left, Doomed, Saved
      <3>2. View(p)' = View(p)
        BY <2>1 DEF View, Sees, Saved
      <3>3. Backing(View(p), groups, policies)'
        BY <2>1, <3>2 DEF Inv, InvOf, Backing
      <3>4. (stopped = 0 => reverted = {} /\ Accounted(View(p), policies, handler[p]))'
        BY <2>1, <3>2 DEF Inv, InvOf, Accounted, Held, Doomed, Range
      <3>5. QED
        BY <3>1, <3>3, <3>4 DEF InvOf
    <2>4. QED
      BY <2>2, <2>3 DEF Inv
  <1>2. ASSUME NEW p \in Procs, NEW o \in Orgs, CreateOrganization(p, o)
        PROVE  Inv'
    BY <1>2, CreationBegins
  <1>3. ASSUME NEW p \in Procs, NEW u \in Units, CreateUnit(p, u)
        PROVE  Inv'
    BY <1>3, CreationBegins
  <1>4. ASSUME NEW p \in Procs, NEW t \in Things, Update(p, t) \/ Delete(p, t)
        PROVE  Inv'
    BY <1>4, UpdateBegins, DeletionBegins
  <1>5. ASSUME NEW p \in Procs, Step(p)
        PROVE  Inv'
    BY <1>5, FullCleanKeeps, CreateGroupKeeps, CreatePolicyKeeps, InsertRowKeeps,
       CheckUnchangedIdKeeps, WriteRowKeeps, ReadUnitsKeeps, NextRowKeeps, DeleteRowKeeps,
       DeleteGroupKeeps, DeletePoliciesKeeps DEF Step
  <1>6. ASSUME NEW p \in Procs, Fail(p)
        PROVE  Inv'
    BY <1>6, FailKeeps
  <1>7. QED
    BY <1>1, <1>2, <1>3, <1>4, <1>5, <1>6 DEF Next

LEMMA InvHolds == ASSUME OneHandler PROVE Spec => []Inv
  <1>1. Inv /\ [Next]_vars => Inv'
    BY NextKeepsInv
  <1>2. QED
    BY InitInv, <1>1, PTL DEF Spec

(***************************************************************************)
(* The theorems                                                            *)
(***************************************************************************)
LEMMA FewPolicies ==
  ASSUME NEW n \in 0..2, NEW m \in Nat, m <= MaxPolicies, NEW f \in [1..n -> 1..m]
  PROVE  f \in Ids
  <1>1. f \in [1..n -> PolicyIds]
    BY OrganizationsAssumption DEF PolicyIds
  <1>2. QED
    BY <1>1 DEF Ids

\* The database, Cognito and Verified Permissions hold what they may hold, and a handler
\* works on an organization or unit with policies that were created for it or read with
\* it, wherever it is in save, create_organization, or delete.
THEOREM TypeCorrect == ASSUME OneHandler PROVE Spec => []TypeOK
  <1>1. ASSUME Inv PROVE TypeOK
    <2>1. issued \in Nat /\ issued <= MaxPolicies /\ 1..issued \subseteq PolicyIds
      BY <1>1, OrganizationsAssumption DEF Inv, Shape, PolicyIds
    <2>2. ASSUME NEW t \in Saved
          PROVE  /\ t \in Things /\ NumPolicies(t) \in 0..2
                 /\ rows[t] \in [1..NumPolicies(t) -> 1..issued]
      BY <1>1, GroupNamed DEF Inv, Shape, Fit, Saved
    <2>3. ASSUME NEW t \in Saved
          PROVE  rows[t] \in [1..NumPolicies(t) -> PolicyIds]
      BY <2>1, <2>2
    <2>4. ASSUME NEW p \in Procs, handler[p] # Idle
          PROVE  handler[p].thing \in Things /\ handler[p].ids \in Ids
      <3> DEFINE j == handler[p]
      <3>1. /\ IsJob(j)
            /\ \/ j.op = "save" /\ SaveOk(j)
               \/ j.op = "update" /\ UpdateOk(j)
               \/ j.op = "delete" /\ DeleteOk(j)
        BY <1>1, <2>4 DEF Inv, InvOf, JobOk
      <3> HIDE DEF j
      <3>2. j.thing \in Things /\ NumPolicies(j.thing) \in 0..2
        BY <3>1, GroupNamed DEF IsJob
      <3>3. \E n \in 0..2 : j.ids \in [1..n -> 1..issued]
        <4>1. CASE SaveOk(j)
          <5>1. CASE j.stage \in {"clean", "group"}
            <6>1. j.ids = <<>>
              BY <4>1, <5>1 DEF SaveOk
            <6>2. j.ids \in [1..0 -> 1..issued]
              BY <6>1
            <6>3. QED
              BY <6>2
          <5>2. CASE j.stage = "policies"
            <6>1. PICK n \in Nat : n < NumPolicies(j.thing) /\ j.ids \in [1..n -> 1..issued]
              BY <4>1, <5>2 DEF SaveOk
            <6>2. n \in 0..2
              BY <3>2, <6>1
            <6>3. QED
              BY <6>1, <6>2
          <5>3. CASE j.stage = "insert"
            <6>1. j.ids \in [1..NumPolicies(j.thing) -> 1..issued]
              BY <4>1, <5>3 DEF SaveOk
            <6>2. QED
              BY <3>2, <6>1, Zenon
          <5>4. QED
            BY <4>1, <5>1, <5>2, <5>3 DEF SaveOk
        <4>2. CASE \E t \in Saved : j.ids = rows[t]
          BY <2>2, <4>2
        <4>3. CASE DeleteOk(j) /\ j.stage \in {"group", "policies"} /\ j.thing = j.of
          <5>1. j.ids \in [1..NumPolicies(j.thing) -> 1..issued]
            BY <4>3 DEF DeleteOk, Doomed
          <5>2. QED
            BY <3>2, <5>1, Zenon
        <4>4. CASE DeleteOk(j) /\ (j.stage \notin {"group", "policies"} \/ j.thing # j.of)
          BY <4>2, <4>4 DEF DeleteOk
        <4>5. CASE UpdateOk(j)
          BY <4>2, <4>5 DEF UpdateOk
        <4>6. QED
          BY <3>1, <4>1, <4>3, <4>4, <4>5
      <3>4. QED
        BY <2>1, <3>2, <3>3, FewPolicies DEF j
    <2>5. QED
      BY <1>1, <2>1, <2>2, <2>3, <2>4 DEF Inv, Shape, TypeOK
  <1>2. QED
    BY <1>1, InvHolds, PTL

\* Wherever handlers stop, an organization or unit in the database has its Cognito group,
\* and the policies its row remembers are there and permit this group something, but for
\* rows a rolled back delete form of the admin site has brought back: save creates group
\* and policies before it inserts, and delete deletes the row before its policies and
\* never the group of another row.
THEOREM RowsStayBacked == ASSUME OneHandler PROVE Spec => []RowsAreBacked
  <1>1. ASSUME Inv PROVE RowsAreBacked
    <2> SUFFICES ASSUME NEW t \in Saved, ~ BeingDeleted(t), t \notin reverted
                 PROVE  Backed(t, rows[t], groups, policies)
      BY DEF RowsAreBacked, Backed
    <2>1. PICK p \in Procs : TRUE
      BY DEF OneHandler
    <2>2. t \in DOMAIN View(p) /\ View(p)[t] = rows[t]
      <3>1. CASE handler[p] = Idle
        BY <3>1 DEF View, Saved
      <3>2. CASE handler[p] # Idle
        <4> DEFINE j == handler[p]
        <4>1. View(p) = Sees(j) /\ DOMAIN j.added \cap Saved = {}
          BY <1>1, <3>2, ViewIs
        <4>2. t \notin j.gone
          BY <3>2 DEF BeingDeleted
        <4> HIDE DEF j
        <4>3. /\ DOMAIN Sees(j) = (Saved \ j.gone) \cup DOMAIN j.added
              /\ \A u \in (Saved \ j.gone) \ DOMAIN j.added : Sees(j)[u] = rows[u]
          BY Seen
        <4>4. t \in (Saved \ j.gone) \ DOMAIN j.added
          BY <4>1, <4>2
        <4>5. QED
          BY <4>1, <4>3, <4>4
      <3>3. QED
        BY <3>1, <3>2
    <2>3. QED
      BY <1>1, <2>2 DEF Inv, InvOf, Backing
  <1>2. QED
    BY <1>1, InvHolds, PTL

\* "Also calls delete of the related models which also perform some cleanup"
\* (organization/models.py:162): as long as no handler stops half way, a policy that is
\* there while none is at work belongs to a row: Organization.delete and Unit.delete
\* delete as many as save created, and the units of an organization go before it.
THEOREM PoliciesKeepRows == ASSUME OneHandler PROVE Spec => []PoliciesHaveRows
  <1>1. ASSUME Inv PROVE PoliciesHaveRows
    <2> SUFFICES ASSUME Quiescent, stopped = 0
                 PROVE  DOMAIN policies =
                          UNION {{rows[t][k] : k \in DOMAIN rows[t]} : t \in Saved}
      BY DEF PoliciesHaveRows
    <2>1. PICK p \in Procs : handler[p] = Idle
      BY DEF OneHandler, Quiescent
    <2>2. /\ View(p) = rows /\ reverted = {}
          /\ Backing(rows, groups, policies) /\ Accounted(rows, policies, Idle)
      BY <1>1, <2>1, ViewIs DEF Inv, InvOf
    <2>3. Held(Idle) = {}
      BY DEF Held, Idle
    <2>4. \A n \in DOMAIN policies : \E t \in Saved : \E k \in DOMAIN rows[t] : n = rows[t][k]
      BY <2>2, <2>3 DEF Accounted, Range, Saved
    <2>5. \A t \in Saved : \A k \in DOMAIN rows[t] : rows[t][k] \in DOMAIN policies
      BY <2>2 DEF Backing, Backed, Saved
    <2>6. QED
      BY <2>4, <2>5
  <1>2. QED
    BY <1>1, InvHolds, PTL

=============================================================================
