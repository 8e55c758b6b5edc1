------------------------ MODULE CatalogReleaseProofs ------------------------
(***************************************************************************)
(* Proofs about CatalogRelease: the compatibility policy over every        *)
(* history of releases, whatever the rules, their files and the versions,  *)
(* and however often release-snapshot is killed half-way.                  *)
(***************************************************************************)
EXTENDS CatalogRelease, TLAPS

(* Versions and catalogs *)

LEMMA VersionOrder ==
  ASSUME NEW u \in Versions, NEW v \in Versions, NEW w \in Versions
  PROVE  /\ ~Older(u, u)
         /\ Older(u, v) /\ Older(v, w) => Older(u, w)
         /\ u = v \/ Older(u, v) \/ Older(v, u)
         /\ Older(u, v) => ~Older(v, u) /\ u[1] <= v[1]
<1>1. /\ u = <<u[1], u[2], u[3]>> /\ u[1] \in Nat /\ u[2] \in Nat /\ u[3] \in Nat
      /\ v = <<v[1], v[2], v[3]>> /\ v[1] \in Nat /\ v[2] \in Nat /\ v[3] \in Nat
      /\ w[1] \in Nat /\ w[2] \in Nat /\ w[3] \in Nat
  BY ReleaseAssumption
<1> QED
  BY <1>1 DEF Older

LEMMA MajorIsNat == \A v \in Versions : v[1] \in Nat
BY ReleaseAssumption

\* For the numbers of majors, which the provers compare as numbers only.
LEMMA Chained ==
  ASSUME NEW a \in Nat, NEW b \in Nat, NEW c \in Nat
  PROVE  (a < b /\ b <= c => a < c) /\ (a <= b /\ b < c => a < c) /\ (a < b => b \in a + 1 .. b)
         /\ (a = b => a <= b)
OBVIOUS

LEMMA NoneBeforeFirst == 1 .. 1 - 1 = {}
<1>1. 1 - 1 = 0
  OBVIOUS
<1>2. 1 .. 0 = {}
  OBVIOUS
<1> QED
  BY <1>1, <1>2

LEMMA FileNumbers ==
  ASSUME NEW i \in Files
  PROVE  i \in Nat /\ 1 <= i /\ i <= FileCount /\ ~(i < 1)
<1>1. FileCount \in Nat
  BY ReleaseAssumption
<1>2. i \in 1 .. FileCount
  BY DEF Files
<1> QED
  BY <1>1, <1>2

LEMMA CatalogMembers ==
  ASSUME NEW c \in Catalogs
  PROVE  DOMAIN c \subseteq Rules /\ c = [r \in DOMAIN c |-> c[r]]
         /\ \A r \in DOMAIN c : c[r] \in Entry
<1>1. PICK some \in SUBSET Rules : c \in [some -> Entry]
  BY DEF Catalogs
<1> QED
  BY <1>1

LEMMA CatalogMade ==
  ASSUME NEW c, c = [r \in DOMAIN c |-> c[r]], DOMAIN c \subseteq Rules,
         \A r \in DOMAIN c : c[r] \in Entry
  PROVE  c \in Catalogs
<1>1. c \in [DOMAIN c -> Entry]
  OBVIOUS
<1> QED
  BY <1>1 DEF Catalogs

-----------------------------------------------------------------------------
(* Types *)

LEMMA InitType == ASSUME Init PROVE TypeOK
<1>1. /\ catalog \in Catalogs /\ version \in Versions
      /\ DOMAIN snapshots = {FirstVersion}
      /\ snapshots[FirstVersion] = [files |-> Files, rules |-> catalog]
  BY ReleaseAssumption DEF Init
<1>2. \A v \in DOMAIN snapshots : snapshots[v].files \subseteq Files /\ snapshots[v].rules \in Catalogs
  BY <1>1
<1>3. edits \in 0 .. MaxEdits
  BY ReleaseAssumption DEF Init
<1>4. checked \in BOOLEAN /\ writing = 0 /\ sections = {} /\ released = {FirstVersion}
  BY DEF Init
<1> QED
  BY <1>1, <1>2, <1>3, <1>4, ReleaseAssumption DEF TypeOK, Idle

\* What steps other than those of release-snapshot leave alone.
LEMMA QuietSteps ==
  ASSUME TypeOK, Next, ~ReleaseSnapshot, ~CopyFile
  PROVE  /\ snapshots' = snapshots /\ writing' = 0 /\ sections \subseteq sections'
         /\ version' = version \/ (Idle /\ version' \in Versions /\ Older(version, version'))
BY DEF Next, EditRule, RemoveRule, Edit, SetVersion, ReleaseCheck, Changelog, Interrupt, Push, Idle

LEMMA EditType == ASSUME TypeOK, EditRule \/ RemoveRule PROVE TypeOK'
<1>1. catalog' \in Catalogs
  <2>1. CASE EditRule
    <3>1. PICK r \in Rules, e \in Entry :
            catalog' = [s \in DOMAIN catalog \cup {r} |-> IF s = r THEN e ELSE catalog[s]]
      BY <2>1 DEF EditRule, Edit
    <3>2. DOMAIN catalog' \subseteq Rules /\ \A s \in DOMAIN catalog' : catalog'[s] \in Entry
      BY <3>1, CatalogMembers DEF TypeOK
    <3> QED
      BY <3>1, <3>2, CatalogMade
  <2>2. CASE RemoveRule
    <3>1. PICK r \in DOMAIN catalog : catalog' = [s \in DOMAIN catalog \ {r} |-> catalog[s]]
      BY <2>2 DEF RemoveRule, Edit
    <3>2. DOMAIN catalog' \subseteq Rules /\ \A s \in DOMAIN catalog' : catalog'[s] \in Entry
      BY <3>1, CatalogMembers DEF TypeOK
    <3> QED
      BY <3>1, <3>2, CatalogMade
  <2> QED
    BY <2>1, <2>2
<1>2. edits' \in 0 .. MaxEdits
  <2>1. edits < MaxEdits /\ edits' = edits + 1
    BY DEF EditRule, RemoveRule, Edit
  <2> QED
    BY <2>1, ReleaseAssumption DEF TypeOK
<1> QED
  BY <1>1, <1>2 DEF EditRule, RemoveRule, Edit, TypeOK, Idle

LEMMA SnapshotType == ASSUME TypeOK, ReleaseSnapshot PROVE TypeOK'
<1>1. Empty.files = {} /\ Empty.rules \in Catalogs
  <2>1. [r \in {} |-> {}] \in [{} -> Entry]
    OBVIOUS
  <2> QED
    BY <2>1 DEF Empty, Catalogs
<1>2. /\ DOMAIN snapshots' = DOMAIN snapshots \cup {version}
      /\ \A v \in DOMAIN snapshots' : snapshots'[v] = IF v = version THEN Empty ELSE snapshots[v]
      /\ writing' = 1
  BY DEF ReleaseSnapshot
<1>3. 1 \in Files
  BY ReleaseAssumption DEF Files
<1> QED
  BY <1>1, <1>2, <1>3 DEF ReleaseSnapshot, TypeOK, Idle

\* What copying a file does to the directory of the version, and to no other.
LEMMA CopySteps ==
  ASSUME TypeOK, CopyFile
  PROVE  /\ writing \in Files /\ version \in DOMAIN snapshots
         /\ DOMAIN snapshots' = DOMAIN snapshots
         /\ \A v \in DOMAIN snapshots \ {version} : snapshots'[v] = snapshots[v]
         /\ snapshots'[version].files = snapshots[version].files \cup {writing}
         /\ snapshots'[version].rules = Copied(snapshots[version].rules)
BY DEF CopyFile, TypeOK, Idle

LEMMA CopyType == ASSUME TypeOK, CopyFile PROVE TypeOK'
<1> DEFINE old == snapshots[version].rules
<1>1. Copied(old) \in Catalogs
  <2>1. /\ DOMAIN Copied(old) \subseteq Rules
        /\ \A r \in DOMAIN Copied(old) : Copied(old)[r] \in Entry
    BY CopySteps, CatalogMembers DEF TypeOK, RulesIn, Copied
  <2>2. Copied(old) = [r \in DOMAIN Copied(old) |-> Copied(old)[r]]
    BY DEF Copied
  <2> QED
    BY <2>1, <2>2, CatalogMade
<1>2. \A v \in DOMAIN snapshots' : snapshots'[v].files \subseteq Files /\ snapshots'[v].rules \in Catalogs
  BY <1>1, CopySteps DEF TypeOK
<1>3. writing' \in Files \cup {0}
  BY DEF CopyFile
<1> QED
  BY <1>2, <1>3, CopySteps DEF CopyFile, TypeOK, Idle

\* The section that is written.
LEMMA ChangelogWrites ==
  ASSUME Changelog
  PROVE  \E new :
           /\ sections' = sections \cup {new}
           /\ new.version = version /\ new.given \in NotesArguments
           /\ new.notes \in BOOLEAN /\ (new.notes <=> new.given = "text")
           /\ new.given = "none" => \A c \in new.changes : ~NeedsNotes(c)
<1>1. PICK given \in NotesArguments :
        /\ given = "none" => \A c \in Diff(Previous, catalog) : ~NeedsNotes(c)
        /\ sections' = sections \cup {[version |-> version, given |-> given,
                                       notes |-> HasNotes(given),
                                       changes |-> Diff(Previous, catalog)]}
  BY DEF Changelog
<1>2. PICK b : b = HasNotes(given)
  OBVIOUS
<1>3. b \in BOOLEAN /\ (b <=> given = "text")
  BY <1>2 DEF HasNotes
<1> DEFINE new == [version |-> version, given |-> given, notes |-> b,
                   changes |-> Diff(Previous, catalog)]
<1>4. /\ new.version = version /\ new.given = given /\ new.notes = b
      /\ new.changes = Diff(Previous, catalog)
  OBVIOUS
<1>5. sections' = sections \cup {new}
  BY <1>1, <1>2
<1> HIDE DEF new
<1> QED
  BY <1>1, <1>3, <1>4, <1>5

LEMMA TypeStep == ASSUME TypeOK, [Next]_vars PROVE TypeOK'
<1>1. CASE UNCHANGED vars
  BY <1>1 DEF vars, TypeOK, Idle
<1>2. CASE EditRule \/ RemoveRule
  BY <1>2, EditType
<1>3. CASE SetVersion \/ Interrupt
  BY <1>3 DEF SetVersion, Interrupt, TypeOK, Idle
<1>4. CASE ReleaseCheck
  <2>1. checked' \in BOOLEAN
    BY <1>4 DEF ReleaseCheck, CheckPasses
  <2> QED
    BY <1>4, <2>1 DEF ReleaseCheck, TypeOK, Idle
<1>5. CASE Changelog
  <2>1. \A s \in sections' :
          s.version \in Versions /\ s.given \in NotesArguments /\ s.notes \in BOOLEAN
    BY <1>5, ChangelogWrites DEF TypeOK
  <2> QED
    BY <1>5, <2>1 DEF Changelog, TypeOK, Idle
<1>6. CASE Push
  BY <1>6 DEF Push, TypeOK, Idle
<1>7. CASE ReleaseSnapshot
  BY <1>7, SnapshotType
<1>8. CASE CopyFile
  BY <1>8, CopyType
<1> QED
  BY <1>1, <1>2, <1>3, <1>4, <1>5, <1>6, <1>7, <1>8 DEF Next

\* The working tree, .released/ and the changelog stay typed, and the directory
\* release-snapshot fills is that of the current version (snapshot.py).
THEOREM TypeCorrect == Spec => []TypeOK
BY InitType, TypeStep, PTL DEF Spec

-----------------------------------------------------------------------------
(* What a passed check says *)

CatalogBinds(r) == r \in DOMAIN catalog /\ catalog[r].level \in Binding

\* r is binding in the working tree and was not in v.
Arrives(v, r) == CatalogBinds(r) /\ ~IsBinding(v, r)

IsShould(v, r) == r \in DOMAIN snapshots[v].rules /\ snapshots[v].rules[r].level = "SHOULD"

\* Snapshots are older than the tree, or its own.
Ordered ==
  /\ \A v \in DOMAIN snapshots : v = version \/ Older(v, version)
  /\ \E v \in DOMAIN snapshots : IsLatest(v)

\* The change that makes a rule binding is one of those release-check looks at.
LEMMA ArrivalIsChange ==
  ASSUME TypeOK, NEW v \in DOMAIN snapshots, NEW r, Arrives(v, r)
  PROVE  \E c \in Diff(snapshots[v].rules, catalog) :
           /\ c.kind \in {"added", "level"} /\ c.to \in Binding
           /\ IF r \in DOMAIN snapshots[v].rules
              THEN c.kind = "level" /\ c.from = snapshots[v].rules[r].level /\ c.from \notin Binding
              ELSE c.kind = "added" /\ c.from = "none"
<1> DEFINE old == snapshots[v].rules
<1>1. r \in Rules /\ r \in DOMAIN catalog /\ catalog[r].level \in Binding
  BY CatalogMembers DEF Arrives, CatalogBinds, TypeOK
<1>2. CASE r \notin DOMAIN old
  <2>1. [rule |-> r, kind |-> "added", from |-> "none", to |-> catalog[r].level]
          \in Diff(old, catalog)
    BY <1>1, <1>2 DEF Diff
  <2> QED
    BY <1>1, <1>2, <2>1
<1>3. CASE r \in DOMAIN old
  <2>1. old[r].level \notin Binding
    BY <1>3 DEF Arrives, IsBinding
  <2>2. old[r].level # catalog[r].level /\ old[r] # catalog[r]
    BY <1>1, <2>1
  <2>3. [rule |-> r, kind |-> IF old[r].level # catalog[r].level THEN "level" ELSE "content",
         from |-> old[r].level, to |-> catalog[r].level] \in Diff(old, catalog)
    BY <1>1, <1>3, <2>2 DEF Diff
  <2>4. [rule |-> r, kind |-> "level", from |-> old[r].level, to |-> catalog[r].level]
          \in Diff(old, catalog)
    BY <2>2, <2>3
  <2> QED
    BY <1>1, <1>3, <2>1, <2>4
<1> QED
  BY <1>2, <1>3

\* CHOOSE has one snapshot to take.
LEMMA LatestExists ==
  ASSUME TypeOK, Ordered
  PROVE  Latest \in DOMAIN snapshots /\ IsLatest(Latest) /\ Latest \in Versions
BY DEF Ordered, Latest, TypeOK

\* A check that passes before the version has a snapshot: what becomes binding
\* was a SHOULD in the newest snapshot and costs a major.
LEMMA CheckPays ==
  ASSUME TypeOK, Ordered, CheckPasses, version \notin DOMAIN snapshots,
         NEW r, Arrives(Latest, r)
  PROVE  IsShould(Latest, r) /\ Latest[1] < version[1]
<1>1. /\ Latest \in DOMAIN snapshots /\ Latest \in Versions /\ version \in Versions
      /\ Older(Latest, version)
  BY LatestExists DEF Ordered, TypeOK
<1>2. PICK c \in Diff(Previous, catalog) :
        /\ c.kind \in {"added", "level"} /\ c.to \in Binding
        /\ IF r \in DOMAIN Previous
           THEN c.kind = "level" /\ c.from = Previous[r].level /\ c.from \notin Binding
           ELSE c.kind = "added" /\ c.from = "none"
  BY <1>1, ArrivalIsChange DEF Previous
<1>3. c.from = "SHOULD"
  BY <1>2 DEF CheckPasses, IsUnsanctioned, Binding
<1>4. IsShould(Latest, r)
  BY <1>2, <1>3 DEF IsShould, Previous
<1>5. RequiredBump(Diff(Previous, catalog)) = 3
  BY <1>2 DEF RequiredBump
<1>6. Latest[1] # version[1]
  BY <1>5 DEF CheckPasses, BumpSatisfies, ActualBump
<1> QED
  BY <1>1, <1>4, <1>6, VersionOrder DEF Older

-----------------------------------------------------------------------------
(* A binding rule costs a major *)

\* release-check was run on this tree before its snapshot was begun.
CheckStands == checked /\ version \notin DOMAIN snapshots => CheckPasses

\* Between any two snapshots, and while the newest is being written.
MajorsHold ==
  /\ \A v, w \in DOMAIN snapshots : Older(v, w) =>
       \A r : IsBinding(w, r) /\ ~IsBinding(v, r) => v[1] < w[1]
  /\ ~Idle => \A v \in DOMAIN snapshots \ {version} :
       \A r : Arrives(v, r) => v[1] < version[1]

PolicyInv ==
  /\ Ordered
  /\ CheckStands
  /\ MajorsHold
  /\ released \subseteq DOMAIN snapshots

LEMMA PolicyInit == ASSUME Init PROVE PolicyInv
<1>1. /\ DOMAIN snapshots = {FirstVersion} /\ version = FirstVersion /\ writing = 0
      /\ checked = FALSE /\ released = {FirstVersion} /\ FirstVersion \in Versions
  BY ReleaseAssumption DEF Init
<1>2. ~Older(FirstVersion, FirstVersion)
  BY <1>1, VersionOrder
<1> QED
  BY <1>1, <1>2 DEF PolicyInv, Ordered, IsLatest, CheckStands, MajorsHold, Idle

LEMMA PolicyQuiet ==
  ASSUME TypeOK, PolicyInv, Next, ~ReleaseSnapshot, ~CopyFile
  PROVE  PolicyInv'
<1>1. /\ snapshots' = snapshots /\ Idle'
      /\ version' = version \/ (version' \in Versions /\ Older(version, version'))
  BY QuietSteps DEF Idle
<1>2. Ordered'
  <2>1. \A v \in DOMAIN snapshots : v \in Versions
    BY DEF TypeOK
  <2> QED
    BY <1>1, <2>1, VersionOrder DEF PolicyInv, Ordered, IsLatest, TypeOK
<1>3. CheckStands'
  <2>1. CASE ReleaseCheck
    <3>1. CheckPasses' = CheckPasses
      BY <2>1 DEF ReleaseCheck, CheckPasses, CanCompare, Previous, Latest, IsLatest
    <3> QED
      BY <2>1, <3>1 DEF ReleaseCheck, CheckStands
  <2>2. CASE Changelog \/ Interrupt \/ Push
    <3>1. CheckPasses' = CheckPasses
      BY <2>2 DEF Changelog, Interrupt, Push, CheckPasses, CanCompare, Previous, Latest, IsLatest
    <3> QED
      BY <2>2, <3>1 DEF Changelog, Interrupt, Push, PolicyInv, CheckStands
  <2>3. CASE EditRule \/ RemoveRule \/ SetVersion
    BY <2>3 DEF EditRule, RemoveRule, Edit, SetVersion, CheckStands
  <2> QED
    BY <2>1, <2>2, <2>3 DEF Next
<1>4. MajorsHold'
  BY <1>1 DEF PolicyInv, MajorsHold, IsBinding
<1>5. (released \subseteq DOMAIN snapshots)'
  BY <1>1 DEF PolicyInv, Next, EditRule, RemoveRule, Edit, SetVersion, ReleaseCheck, Changelog,
              Interrupt, Push
<1> QED
  BY <1>2, <1>3, <1>4, <1>5 DEF PolicyInv

\* The tree a careful maintainer takes a snapshot of was checked.
LEMMA SnapshotIsChecked ==
  ASSUME "snapshot first" \notin Habits, PolicyInv, ReleaseSnapshot
  PROVE  CheckPasses /\ version \notin DOMAIN snapshots /\ IsTold(version, Diff(Previous, catalog))
BY DEF PolicyInv, CheckStands, ReleaseSnapshot, IsReady

\* The directory it makes is empty.
LEMMA SnapshotSteps ==
  ASSUME ReleaseSnapshot
  PROVE  /\ UNCHANGED <<catalog, version, checked, sections, released>> /\ writing' = 1
         /\ DOMAIN snapshots' = DOMAIN snapshots \cup {version}
         /\ version \notin DOMAIN snapshots
         /\ \A v \in DOMAIN snapshots : snapshots'[v] = snapshots[v]
         /\ snapshots'[version] = Empty
BY DEF ReleaseSnapshot

LEMMA PolicySnapshot ==
  ASSUME "snapshot first" \notin Habits, TypeOK, PolicyInv, ReleaseSnapshot
  PROVE  PolicyInv'
<1>1. \A v \in DOMAIN snapshots : v \in Versions /\ version \in Versions /\ Older(v, version)
  BY SnapshotSteps DEF PolicyInv, Ordered, TypeOK
<1>2. Ordered'
  BY <1>1, SnapshotSteps, VersionOrder DEF Ordered, IsLatest, TypeOK
<1>3. \A v \in DOMAIN snapshots : \A r : IsBinding(v, r)' <=> IsBinding(v, r)
  BY SnapshotSteps DEF IsBinding
<1>4. \A r : ~IsBinding(version, r)'
  <2>1. DOMAIN Empty.rules = {}
    BY DEF Empty
  <2>2. snapshots'[version] = Empty /\ version' = version
    BY SnapshotSteps
  <2> QED
    BY <2>1, <2>2 DEF IsBinding
<1>5. ASSUME NEW v \in DOMAIN snapshots, NEW r, Arrives(v, r)
      PROVE  v[1] < version[1]
  <2>1. /\ Latest \in DOMAIN snapshots /\ IsLatest(Latest)
        /\ Latest[1] \in Nat /\ v[1] \in Nat /\ version[1] \in Nat
        /\ Latest[1] <= version[1]
    BY <1>1, LatestExists, VersionOrder, MajorIsNat DEF PolicyInv
  <2>2. v = Latest \/ Older(v, Latest)
    BY <1>1, <2>1, VersionOrder DEF IsLatest
  <2>3. CASE IsBinding(Latest, r)
    <3>1. Older(v, Latest)
      BY <1>5, <2>2, <2>3 DEF Arrives
    <3>2. v[1] < Latest[1]
      BY <1>5, <2>1, <2>3, <3>1 DEF PolicyInv, MajorsHold, Arrives
    <3> QED
      BY <2>1, <3>2, Chained
  <2>4. CASE ~IsBinding(Latest, r)
    <3>1. Latest[1] < version[1]
      BY <1>5, <2>4, CheckPays, SnapshotIsChecked DEF PolicyInv, Arrives
    <3>2. v[1] <= Latest[1]
      <4>1. CASE v = Latest
        <5>1. v[1] = Latest[1]
          BY <4>1
        <5> QED
          BY <2>1, <5>1, Chained
      <4>2. CASE Older(v, Latest)
        BY <1>1, <2>1, <4>2, VersionOrder
      <4> QED
        BY <2>2, <4>1, <4>2
    <3> QED
      BY <2>1, <3>1, <3>2, Chained
  <2> QED
    BY <2>3, <2>4
<1>6. \A w \in DOMAIN snapshots : ~Older(version, w)
  BY <1>1, VersionOrder
<1>7. MajorsHold'
  BY <1>3, <1>4, <1>5, <1>6, SnapshotSteps DEF PolicyInv, MajorsHold, Arrives, CatalogBinds
<1>8. CheckStands' /\ (released \subseteq DOMAIN snapshots)'
  BY SnapshotSteps DEF PolicyInv, CheckStands
<1> QED
  BY <1>2, <1>7, <1>8 DEF PolicyInv

\* What a copied file adds to the binding rules is in the working tree.
LEMMA CopyBinds ==
  ASSUME TypeOK, CopyFile
  PROVE  /\ \A v \in DOMAIN snapshots \ {version} : \A r : IsBinding(v, r)' <=> IsBinding(v, r)
         /\ \A r : IsBinding(version, r)' => IsBinding(version, r) \/ CatalogBinds(r)
<1>1. \A v \in DOMAIN snapshots \ {version} : \A r : IsBinding(v, r)' <=> IsBinding(v, r)
  BY CopySteps DEF IsBinding
<1>2. ASSUME NEW r, IsBinding(version, r)'
      PROVE  IsBinding(version, r) \/ CatalogBinds(r)
  BY <1>2, CopySteps DEF CopyFile, IsBinding, CatalogBinds, Copied, RulesIn
<1> QED
  BY <1>1, <1>2

LEMMA PolicyCopy == ASSUME TypeOK, PolicyInv, CopyFile PROVE PolicyInv'
<1>1. /\ UNCHANGED <<catalog, version, checked, released>> /\ ~Idle
      /\ DOMAIN snapshots' = DOMAIN snapshots /\ version \in DOMAIN snapshots
  BY CopySteps DEF CopyFile
<1>2. Ordered' /\ CheckStands' /\ (released \subseteq DOMAIN snapshots)'
  BY <1>1 DEF PolicyInv, Ordered, IsLatest, CheckStands
<1>3. \A w \in DOMAIN snapshots : ~Older(version, w)
  BY VersionOrder DEF PolicyInv, Ordered, TypeOK
<1>4. ASSUME NEW v \in DOMAIN snapshots, NEW w \in DOMAIN snapshots, Older(v, w),
             NEW r, IsBinding(w, r)', ~IsBinding(v, r)'
      PROVE  v[1] < w[1]
  <2>1. v # version /\ ~IsBinding(v, r)
    BY <1>3, <1>4, CopyBinds
  <2>2. CASE IsBinding(w, r)
    BY <1>4, <2>1, <2>2 DEF PolicyInv, MajorsHold
  <2>3. CASE ~IsBinding(w, r)
    <3>1. w = version /\ CatalogBinds(r)
      BY <1>1, <1>4, <2>3, CopyBinds DEF IsBinding
    <3> QED
      BY <1>1, <2>1, <3>1 DEF PolicyInv, MajorsHold, Arrives
  <2> QED
    BY <2>2, <2>3
<1>5. \A v \in DOMAIN snapshots \ {version} : \A r : Arrives(v, r)' <=> Arrives(v, r)
  BY <1>1, CopyBinds DEF Arrives, CatalogBinds
<1>6. MajorsHold'
  BY <1>1, <1>4, <1>5 DEF PolicyInv, MajorsHold
<1> QED
  BY <1>2, <1>6 DEF PolicyInv

LEMMA PolicyStep ==
  ASSUME "snapshot first" \notin Habits, TypeOK, PolicyInv, [Next]_vars
  PROVE  PolicyInv'
<1>1. CASE UNCHANGED vars
  BY <1>1 DEF vars, PolicyInv, Ordered, IsLatest, CheckStands, CheckPasses, CanCompare, Previous,
              Latest, MajorsHold, IsBinding, Arrives, CatalogBinds, Idle
<1>2. CASE Next
  BY <1>2, PolicyQuiet, PolicySnapshot, PolicyCopy
<1> QED
  BY <1>1, <1>2

\* When snapshots are taken of checked trees, a project that moves between any
\* two releases meets a newly binding rule only with a crossed major
\* (compatibility.py required_bump, version_stamp.py majors_crossed), whatever was
\* edited, removed, added again or lost half-way in between.
THEOREM NewMustCostsMajor ==
  ASSUME "snapshot first" \notin Habits
  PROVE  Spec => []NoNewMustWithinMajor
<1>1. TypeOK /\ PolicyInv => NoNewMustWithinMajor
  <2> SUFFICES ASSUME TypeOK, PolicyInv, NEW v \in released, NEW w \in released,
                      Older(v, w), NewlyBinding(v, w) # {}
               PROVE  MajorsCrossed(v, w) # {}
    BY DEF NoNewMustWithinMajor
  <2>1. PICK r : IsBinding(w, r) /\ ~IsBinding(v, r)
    BY DEF NewlyBinding
  <2>2. v \in Versions /\ w \in Versions /\ v[1] < w[1]
    BY <2>1 DEF PolicyInv, MajorsHold, TypeOK
  <2>3. w[1] \in MajorsCrossed(v, w)
    BY <2>2, MajorIsNat, Chained DEF MajorsCrossed
  <2> QED
    BY <2>3
<1>2. Init => PolicyInv
  BY PolicyInit
<1>3. TypeOK /\ PolicyInv /\ [Next]_vars => PolicyInv'
  BY PolicyStep
<1> QED
  BY <1>1, <1>2, <1>3, TypeCorrect, PTL DEF Spec

-----------------------------------------------------------------------------
(* From one snapshot to the next *)

\* w is the next snapshot after v, whole or not.
IsNext(v, w) ==
  /\ v \in DOMAIN snapshots /\ w \in DOMAIN snapshots /\ Older(v, w)
  /\ \A u \in DOMAIN snapshots : ~(Older(v, u) /\ Older(u, w))

\* A section with the notes of the file it was given, if any.
IsNotedSection(s) == s.given # "none" /\ (s.notes \/ s.given = "blank")

\* Some such section tells of what changed from v to rules.
IsNoted(v, w, rules) ==
  \E s \in sections :
    s.version = w /\ IsNotedSection(s) /\ s.changes = Diff(snapshots[v].rules, rules)

\* A section that was given no file tells of no promotion.
NotesWhereDue == \A s \in sections : IsNotedSection(s) \/ \A c \in s.changes : ~NeedsNotes(c)

\* What is being written is what the files copied so far hold.
CopiesTree ==
  ~Idle =>
    /\ snapshots[version].files = 1 .. writing - 1
    /\ snapshots[version].rules =
         [r \in {s \in DOMAIN catalog : FileOf[s] < writing} |-> catalog[r]]

\* Each step from a snapshot to the next is announced: the rules that become
\* binding were SHOULDs, and are told of with notes once the snapshot is whole.
StepsHold ==
  \A v, w : IsNext(v, w) =>
    \A r : IsBinding(w, r) /\ ~IsBinding(v, r) =>
      IsShould(v, r) /\ (IsWhole(w) => IsNoted(v, w, snapshots[w].rules))

\* The same of the snapshot that is being written.
WritingHolds ==
  ~Idle => \A v : IsNext(v, version) =>
    \A r : Arrives(v, r) => IsShould(v, r) /\ IsNoted(v, version, catalog)

\* CI accepts the whole snapshots there are.
ReleasedAreWhole ==
  /\ ~Idle => version \notin released
  /\ \A w \in released : IsWhole(w)
  /\ \A w \in released, u \in DOMAIN snapshots : IsWhole(u) /\ Older(u, w) => u \in released

WindowInv ==
  /\ NotesWhereDue
  /\ CopiesTree
  /\ StepsHold
  /\ WritingHolds
  /\ ReleasedAreWhole

LEMMA WindowInit == ASSUME Init PROVE WindowInv
<1>1. /\ DOMAIN snapshots = {FirstVersion} /\ writing = 0 /\ sections = {}
      /\ released = {FirstVersion} /\ FirstVersion \in Versions
      /\ snapshots[FirstVersion].files = Files
  BY ReleaseAssumption DEF Init
<1>2. \A v, w : ~IsNext(v, w)
  BY <1>1, VersionOrder DEF IsNext
<1> QED
  BY <1>1, <1>2 DEF WindowInv, NotesWhereDue, CopiesTree, StepsHold, WritingHolds,
                    ReleasedAreWhole, IsWhole, Idle

\* Steps that touch no snapshot.
LEMMA WindowQuiet ==
  ASSUME TypeOK, WindowInv, Next, ~ReleaseSnapshot, ~CopyFile
  PROVE  WindowInv'
<1>1. snapshots' = snapshots /\ Idle' /\ sections \subseteq sections'
  BY QuietSteps DEF Idle
<1>2. NotesWhereDue'
  <2>1. CASE Changelog
    <3>1. PICK new :
            /\ sections' = sections \cup {new} /\ new.given \in NotesArguments
            /\ new.notes <=> new.given = "text"
            /\ new.given = "none" => \A c \in new.changes : ~NeedsNotes(c)
      BY <2>1, ChangelogWrites
    <3>2. new.given # "none" => IsNotedSection(new)
      BY <3>1 DEF NotesArguments, IsNotedSection
    <3>3. \A s \in sections : IsNotedSection(s) \/ \A c \in s.changes : ~NeedsNotes(c)
      BY DEF WindowInv, NotesWhereDue
    <3> QED
      BY <3>1, <3>2, <3>3 DEF NotesWhereDue
  <2>2. CASE ~Changelog
    <3>1. sections' = sections
      BY <2>2 DEF Next, EditRule, RemoveRule, Edit, SetVersion, ReleaseCheck, Interrupt, Push
    <3> QED
      BY <3>1 DEF WindowInv, NotesWhereDue
  <2> QED
    BY <2>1, <2>2
<1>3. StepsHold'
  BY <1>1 DEF WindowInv, StepsHold, IsNext, IsBinding, IsShould, IsWhole, IsNoted
<1>4. ReleasedAreWhole'
  <2>1. CASE Push
    BY <1>1, <2>1 DEF Push, ReleasedAreWhole, IsWhole
  <2>2. CASE ~Push
    <3>1. released' = released
      BY <2>2 DEF Next, EditRule, RemoveRule, Edit, SetVersion, ReleaseCheck, Changelog, Interrupt
    <3> QED
      BY <1>1, <3>1 DEF WindowInv, ReleasedAreWhole, IsWhole
  <2> QED
    BY <2>1, <2>2
<1> QED
  BY <1>1, <1>2, <1>3, <1>4 DEF WindowInv, CopiesTree, WritingHolds

LEMMA WindowSnapshot ==
  ASSUME "snapshot first" \notin Habits, TypeOK, PolicyInv, WindowInv, ReleaseSnapshot
  PROVE  WindowInv'
<1>1. \A v \in DOMAIN snapshots : v \in Versions /\ version \in Versions /\ Older(v, version)
  BY SnapshotSteps DEF PolicyInv, Ordered, TypeOK
<1>2. \A w \in DOMAIN snapshots : ~Older(version, w) /\ w # version
  BY <1>1, SnapshotSteps, VersionOrder
<1>3. UNCHANGED <<catalog, version, sections, released>> /\ writing' = 1
  BY SnapshotSteps
<1>4. Empty.files = {} /\ DOMAIN Empty.rules = {} /\ Empty.rules = [r \in {} |-> {}]
  BY DEF Empty
<1>5. NotesWhereDue'
  BY <1>3 DEF WindowInv, NotesWhereDue
<1>6. CopiesTree'
  <2>1. \A r \in DOMAIN catalog : FileOf[r] \in Files
    BY ReleaseAssumption, CatalogMembers DEF TypeOK
  <2>2. {s \in DOMAIN catalog : FileOf[s] < 1} = {}
    BY <2>1, FileNumbers
  <2>3. Empty.files = 1 .. 1 - 1
    BY <1>4, NoneBeforeFirst
  <2>4. Empty.rules = [r \in {s \in DOMAIN catalog : FileOf[s] < 1} |-> catalog[r]]
    BY <1>4, <2>2
  <2> QED
    BY <1>3, <2>3, <2>4, SnapshotSteps DEF CopiesTree
<1>7. \A v, w \in DOMAIN snapshots : IsNext(v, w)' => IsNext(v, w)
  BY SnapshotSteps DEF IsNext
<1>8. \A r : ~IsBinding(version, r)'
  BY <1>3, <1>4, SnapshotSteps DEF IsBinding
<1>9. StepsHold'
  <2> SUFFICES ASSUME NEW v, NEW w, IsNext(v, w)', NEW r, IsBinding(w, r)', ~IsBinding(v, r)'
               PROVE  IsShould(v, r)' /\ (IsWhole(w)' => IsNoted(v, w, snapshots[w].rules)')
    BY DEF StepsHold
  <2>1. w \in DOMAIN snapshots /\ v \in DOMAIN snapshots
    BY <1>2, <1>3, <1>8, SnapshotSteps DEF IsNext, IsBinding
  <2>2. IsNext(v, w) /\ IsBinding(w, r) /\ ~IsBinding(v, r)
    BY <1>7, <2>1, SnapshotSteps DEF IsBinding
  <2>3. snapshots'[v] = snapshots[v] /\ snapshots'[w] = snapshots[w] /\ w \in DOMAIN snapshots'
    BY <2>1, SnapshotSteps
  <2>4. IsShould(v, r) /\ (IsWhole(w) => IsNoted(v, w, snapshots[w].rules))
    BY <2>2 DEF WindowInv, StepsHold
  <2>5. IsShould(v, r)'
    BY <2>3, <2>4 DEF IsShould
  <2>6. IsWhole(w)' => IsNoted(v, w, snapshots[w].rules)'
    BY <1>3, <2>1, <2>3, <2>4 DEF IsWhole, IsNoted
  <2> QED
    BY <2>5, <2>6
<1>10. ASSUME NEW v, IsNext(v, version)', NEW r, Arrives(v, r)'
       PROVE  IsShould(v, r)' /\ IsNoted(v, version, catalog)'
  <2>1. v \in DOMAIN snapshots /\ snapshots'[v] = snapshots[v]
        /\ \A u \in DOMAIN snapshots : ~Older(v, u)
    BY <1>1, <1>2, <1>3, <1>10, SnapshotSteps, VersionOrder DEF IsNext
  <2>2. v = Latest
    BY <1>1, <2>1, LatestExists, VersionOrder DEF PolicyInv, IsLatest
  <2>3. Arrives(v, r)
    BY <1>3, <1>10, <2>1 DEF Arrives, CatalogBinds, IsBinding
  <2>4. IsShould(v, r)
    BY <2>2, <2>3, CheckPays, SnapshotIsChecked DEF PolicyInv
  <2>5. PICK c \in Diff(snapshots[v].rules, catalog) : NeedsNotes(c)
    BY <2>1, <2>3, <2>4, ArrivalIsChange DEF IsShould, NeedsNotes
  <2>6. PICK s \in sections : s.version = version /\ s.changes = Diff(snapshots[v].rules, catalog)
    BY <2>2, SnapshotIsChecked DEF PolicyInv, IsTold, Previous
  <2>7. IsNotedSection(s)
    BY <2>5, <2>6 DEF WindowInv, NotesWhereDue
  <2> QED
    BY <1>3, <2>1, <2>4, <2>6, <2>7 DEF IsShould, IsNoted
<1>11. ReleasedAreWhole'
  <2>1. \A u \in DOMAIN snapshots : IsWhole(u)' <=> IsWhole(u)
    BY SnapshotSteps DEF IsWhole
  <2>2. released \subseteq DOMAIN snapshots
    BY DEF PolicyInv
  <2> QED
    BY <1>2, <1>3, <2>1, <2>2, SnapshotSteps DEF WindowInv, ReleasedAreWhole
<1> QED
  BY <1>5, <1>6, <1>9, <1>10, <1>11 DEF WindowInv, WritingHolds

\* The directory after one more file, and after the last.
LEMMA CopiedTree ==
  ASSUME TypeOK, CopiesTree, CopyFile
  PROVE  /\ snapshots'[version].files = 1 .. writing
         /\ snapshots'[version].rules =
              [r \in {s \in DOMAIN catalog : FileOf[s] < writing + 1} |-> catalog[r]]
         /\ writing + 1 \notin Files =>
              snapshots'[version].files = Files /\ snapshots'[version].rules = catalog
<1> DEFINE old == [r \in {s \in DOMAIN catalog : FileOf[s] < writing} |-> catalog[r]]
           now == [r \in {s \in DOMAIN catalog : FileOf[s] < writing + 1} |-> catalog[r]]
<1>1. /\ writing \in Files /\ ~Idle
      /\ snapshots'[version].files = (1 .. writing - 1) \cup {writing}
      /\ snapshots'[version].rules = Copied(old)
  BY CopySteps DEF CopyFile, CopiesTree
<1>2. writing \in Nat /\ 1 <= writing /\ writing <= FileCount
  BY <1>1, FileNumbers
<1>3. snapshots'[version].files = 1 .. writing
  BY <1>1, <1>2
<1>4. \A r \in DOMAIN catalog : FileOf[r] \in Files /\ FileOf[r] \in Nat /\ FileOf[r] <= FileCount
  BY ReleaseAssumption, FileNumbers, CatalogMembers DEF TypeOK
<1>5. \A r \in DOMAIN catalog :
        FileOf[r] < writing + 1 <=> FileOf[r] = writing \/ FileOf[r] < writing
  BY <1>2, <1>4
<1>6. {s \in DOMAIN catalog : FileOf[s] < writing + 1}
        = RulesIn(writing) \cup {s \in DOMAIN catalog : FileOf[s] < writing}
  BY <1>5 DEF RulesIn
<1>7. Copied(old) = now
  <2>1. DOMAIN old = {s \in DOMAIN catalog : FileOf[s] < writing}
    OBVIOUS
  <2>2. \A r \in DOMAIN old : old[r] = catalog[r]
    OBVIOUS
  <2> HIDE DEF old
  <2> QED
    BY <1>6, <2>1, <2>2 DEF Copied
<1>8. ASSUME writing + 1 \notin Files
      PROVE  1 .. writing = Files /\ now = catalog
  <2>1. writing = FileCount
    BY <1>2, <1>8, ReleaseAssumption DEF Files
  <2>2. {s \in DOMAIN catalog : FileOf[s] < writing + 1} = DOMAIN catalog
    BY <1>2, <1>4, <2>1
  <2>3. catalog = [r \in DOMAIN catalog |-> catalog[r]]
    BY CatalogMembers DEF TypeOK
  <2> QED
    BY <2>1, <2>2, <2>3 DEF Files
<1>9. snapshots'[version].rules = now
  BY <1>1, <1>7
<1>10. writing + 1 \notin Files =>
         snapshots'[version].files = Files /\ snapshots'[version].rules = catalog
  <2> HIDE DEF old, now
  <2> QED
    BY <1>3, <1>8, <1>9
<1> QED
  BY <1>3, <1>9, <1>10

LEMMA WindowCopy == ASSUME TypeOK, PolicyInv, WindowInv, CopyFile PROVE WindowInv'
<1>1. /\ UNCHANGED <<catalog, version, sections, released>> /\ ~Idle
      /\ writing' = IF writing + 1 \in Files THEN writing + 1 ELSE 0
      /\ writing \in Files /\ version \in DOMAIN snapshots
      /\ DOMAIN snapshots' = DOMAIN snapshots
      /\ \A v \in DOMAIN snapshots \ {version} : snapshots'[v] = snapshots[v]
  BY CopySteps DEF CopyFile
<1>2. \A w \in DOMAIN snapshots : ~Older(version, w)
  BY VersionOrder DEF PolicyInv, Ordered, TypeOK
<1>3. \A v, w : IsNext(v, w)' => IsNext(v, w) /\ v # version /\ snapshots'[v] = snapshots[v]
  BY <1>1, <1>2 DEF IsNext
<1>4. NotesWhereDue'
  BY <1>1 DEF WindowInv, NotesWhereDue
<1>5. /\ snapshots'[version].files = 1 .. writing
      /\ snapshots'[version].rules =
           [r \in {s \in DOMAIN catalog : FileOf[s] < writing + 1} |-> catalog[r]]
      /\ writing + 1 \notin Files =>
           snapshots'[version].files = Files /\ snapshots'[version].rules = catalog
  BY CopiedTree DEF WindowInv
<1>6. writing \in Nat
  BY <1>1, FileNumbers
<1>7. CopiesTree'
  <2> SUFFICES ASSUME ~Idle'
               PROVE  /\ snapshots'[version].files = 1 .. writing' - 1
                      /\ snapshots'[version].rules =
                           [r \in {s \in DOMAIN catalog : FileOf[s] < writing'} |-> catalog[r]]
    BY <1>1 DEF CopiesTree
  <2>1. writing' = writing + 1 /\ writing' - 1 = writing
    BY <1>1, <1>6 DEF Idle
  <2> QED
    BY <1>5, <2>1
<1>8. IsWhole(version)' => snapshots'[version].rules = catalog
  <2> SUFFICES ASSUME snapshots'[version].files = Files
               PROVE  writing + 1 \notin Files
    BY <1>1, <1>5 DEF IsWhole
  <2>1. writing + 1 \notin 1 .. writing
    BY <1>6
  <2> QED
    BY <1>5, <2>1
<1>9. ASSUME NEW v, NEW r, ~IsBinding(v, r)', snapshots'[v] = snapshots[v], CatalogBinds(r)
      PROVE  Arrives(v, r)
  BY <1>9 DEF Arrives, IsBinding
<1>10. ASSUME NEW v, NEW w, IsNext(v, w)', NEW r, IsBinding(w, r)', ~IsBinding(v, r)'
       PROVE  IsShould(v, r)' /\ (IsWhole(w)' => IsNoted(v, w, snapshots[w].rules)')
  <2>1. IsNext(v, w) /\ v # version /\ snapshots'[v] = snapshots[v]
    BY <1>3, <1>10
  <2>2. CASE w = version
    <3>1. CatalogBinds(r)
      BY <1>1, <1>5, <1>10, <2>2 DEF IsBinding, CatalogBinds
    <3>2. IsShould(v, r) /\ IsNoted(v, version, catalog)
      BY <1>1, <1>9, <1>10, <2>1, <2>2, <3>1 DEF WindowInv, WritingHolds
    <3>3. IsShould(v, r)'
      BY <2>1, <3>2 DEF IsShould
    <3>4. IsWhole(w)' => IsNoted(v, w, snapshots[w].rules)'
      BY <1>1, <1>8, <2>1, <2>2, <3>2 DEF IsNoted, IsWhole
    <3> QED
      BY <3>3, <3>4
  <2>3. CASE w # version
    <3>1. snapshots'[w] = snapshots[w] /\ w \in DOMAIN snapshots
      BY <1>1, <2>1, <2>3 DEF IsNext
    <3>2. IsBinding(w, r) /\ ~IsBinding(v, r)
      BY <1>10, <2>1, <3>1 DEF IsBinding
    <3>3. IsShould(v, r) /\ (IsWhole(w) => IsNoted(v, w, snapshots[w].rules))
      BY <2>1, <3>2 DEF WindowInv, StepsHold
    <3>4. IsShould(v, r)'
      BY <2>1, <3>3 DEF IsShould
    <3>5. IsWhole(w)' => IsNoted(v, w, snapshots[w].rules)'
      BY <1>1, <2>1, <3>1, <3>3 DEF IsNoted, IsWhole
    <3> QED
      BY <3>4, <3>5
  <2> QED
    BY <2>2, <2>3
<1>11. StepsHold'
  BY <1>10 DEF StepsHold
<1>12. ASSUME NEW v, IsNext(v, version)', NEW r, Arrives(v, r)'
       PROVE  IsShould(v, r)' /\ IsNoted(v, version, catalog)'
  <2>1. IsNext(v, version) /\ snapshots'[v] = snapshots[v]
    BY <1>1, <1>3, <1>12 DEF IsNext
  <2>2. Arrives(v, r)
    BY <1>1, <1>12, <2>1 DEF Arrives, CatalogBinds, IsBinding
  <2>3. IsShould(v, r) /\ IsNoted(v, version, catalog)
    BY <1>1, <2>1, <2>2 DEF WindowInv, WritingHolds
  <2> QED
    BY <1>1, <2>1, <2>3 DEF IsShould, IsNoted
<1>13. WritingHolds'
  BY <1>12 DEF WritingHolds
<1>14. ReleasedAreWhole'
  <2>1. version \notin released /\ released \subseteq DOMAIN snapshots
    BY <1>1 DEF WindowInv, ReleasedAreWhole, PolicyInv
  <2>2. \A u \in DOMAIN snapshots \ {version} : IsWhole(u)' <=> IsWhole(u)
    BY <1>1 DEF IsWhole
  <2> QED
    BY <1>1, <1>2, <2>1, <2>2 DEF WindowInv, ReleasedAreWhole
<1> QED
  BY <1>4, <1>7, <1>11, <1>13, <1>14 DEF WindowInv

LEMMA WindowStep ==
  ASSUME "snapshot first" \notin Habits, TypeOK, PolicyInv, WindowInv, [Next]_vars
  PROVE  WindowInv'
<1>1. CASE UNCHANGED vars
  <2>1. UNCHANGED <<catalog, version, snapshots, writing, sections, released>>
    BY <1>1 DEF vars
  <2>2. NotesWhereDue'
    BY <2>1 DEF WindowInv, NotesWhereDue
  <2>3. CopiesTree'
    BY <2>1 DEF WindowInv, CopiesTree, Idle
  <2>4. StepsHold'
    <3>1. snapshots' = snapshots /\ sections' = sections
      BY <2>1
    <3>2. \A v, w : /\ IsNext(v, w)' <=> IsNext(v, w)
                    /\ IsWhole(w)' <=> IsWhole(w)
                    /\ IsNoted(v, w, snapshots[w].rules)' <=> IsNoted(v, w, snapshots[w].rules)
      BY <3>1 DEF IsNext, IsWhole, IsNoted
    <3>3. \A v, r : /\ IsBinding(v, r)' <=> IsBinding(v, r)
                    /\ IsShould(v, r)' <=> IsShould(v, r)
      BY <3>1 DEF IsBinding, IsShould
    <3> QED
      BY <3>2, <3>3 DEF WindowInv, StepsHold
  <2>5. WritingHolds'
    BY <2>1 DEF WindowInv, WritingHolds, Idle, IsNext, Arrives, CatalogBinds, IsBinding,
                IsShould, IsNoted
  <2>6. ReleasedAreWhole'
    BY <2>1 DEF WindowInv, ReleasedAreWhole, Idle, IsWhole
  <2> QED
    BY <2>2, <2>3, <2>4, <2>5, <2>6 DEF WindowInv
<1>2. CASE Next
  BY <1>2, WindowQuiet, WindowSnapshot, WindowCopy
<1> QED
  BY <1>1, <1>2

\* Between releases that follow one another, no snapshot was lost.
LEMMA FollowsIsNext ==
  ASSUME PolicyInv, WindowInv, NoneLost, NEW v \in released, NEW w \in released, Follows(v, w)
  PROVE  IsNext(v, w) /\ IsWhole(w)
<1>1. v \in DOMAIN snapshots /\ w \in DOMAIN snapshots /\ Older(v, w)
  BY DEF PolicyInv, Follows
<1>2. \A u \in DOMAIN snapshots : Older(u, w) => u \in released
  BY DEF NoneLost, WindowInv, ReleasedAreWhole
<1> QED
  BY <1>1, <1>2 DEF Follows, IsNext, NoneLost

LEMMA PolicyInvariance ==
  ASSUME "snapshot first" \notin Habits
  PROVE  Spec => [](TypeOK /\ PolicyInv /\ WindowInv)
<1>1. Init => TypeOK /\ PolicyInv /\ WindowInv
  BY InitType, PolicyInit, WindowInit
<1>2. TypeOK /\ PolicyInv /\ WindowInv /\ [Next]_vars => (TypeOK /\ PolicyInv /\ WindowInv)'
  BY TypeStep, PolicyStep, WindowStep
<1> QED
  BY <1>1, <1>2, PTL DEF Spec

\* When snapshots are taken of checked trees and none is lost, a rule that becomes
\* binding was a SHOULD in the release before (compatibility.py
\* find_unsanctioned_must_promotions).
THEOREM ShouldComesFirst ==
  ASSUME "snapshot first" \notin Habits
  PROVE  Spec => []WarningWindow
<1>1. PolicyInv /\ WindowInv => WarningWindow
  <2> SUFFICES ASSUME PolicyInv, WindowInv, NoneLost, NEW v \in released, NEW w \in released,
                      Follows(v, w), NEW r \in NewlyBinding(v, w)
               PROVE  IsShould(v, r)
    BY DEF WarningWindow, IsShould
  <2> QED
    BY FollowsIsNext DEF WindowInv, StepsHold, NewlyBinding
<1> QED
  BY <1>1, PolicyInvariance, PTL

\* In the same histories, each release in which a rule becomes binding has a
\* section of its changelog for which a file of migration notes was given, with the
\* notes unless the file was blank, written of the very rules that were released
\* (cli.py _run_changelog).
THEOREM PromotionsAreTold ==
  ASSUME "snapshot first" \notin Habits
  PROVE  Spec => []PromotionsAskForNotes
<1>1. PolicyInv /\ WindowInv => PromotionsAskForNotes
  <2> SUFFICES ASSUME PolicyInv, WindowInv, NoneLost, NEW v \in released, NEW w \in released,
                      Follows(v, w), NEW r \in NewlyBinding(v, w)
               PROVE  IsNoted(v, w, snapshots[w].rules)
    BY DEF PromotionsAskForNotes, IsNoted, IsNotedSection
  <2> QED
    BY FollowsIsNext DEF WindowInv, StepsHold, NewlyBinding
<1> QED
  BY <1>1, PolicyInvariance, PTL
=============================================================================
