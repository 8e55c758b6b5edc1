--------------------------- MODULE CatalogRelease ---------------------------
(***************************************************************************)
(* Releasing the rule catalog (src/src/arch_standard/release and the       *)
(* release commands of cli.py). A maintainer edits the catalog and the     *)
(* version, and runs `release-check`, `changelog` and `release-snapshot`;  *)
(* CI runs release-check on what is pushed. release-check compares the     *)
(* catalog with the newest directory under .released/, which               *)
(* release-snapshot fills one file after the other.                        *)
(*                                                                         *)
(* The commands are the repository's. The maintainer is not: Habits says   *)
(* in which order, and how carefully, the commands are run.                *)
(***************************************************************************)
EXTENDS Integers, FiniteSets

CONSTANTS
    Rules,
    FileCount,      \* how many YAML files the catalog is kept in
    FileOf,         \* the file each rule is kept in
    Related,        \* the rules each rule's `related` names
    Levels,         \* the levels edits use
    Texts,          \* wordings of a rule
    Versions,       \* versions, as <<major, minor, patch>>
    FirstVersion,   \* the release the history starts with
    MaxEdits,       \* bound on the edits of the catalog
    MaxSections,    \* bound on the sections written to the changelog
    Habits          \* what maintainers do that nothing stops them from

AllLevels == {"MUST", "MUST*", "SHOULD", "MAY"}
AllHabits == {"snapshot first",     \* release-snapshot before release-check
              "interrupt"}          \* release-snapshot is killed half-way

\* The files in the order of sorted(glob("*.yaml")).
Files == 1 .. FileCount

ASSUME ReleaseAssumption ==
    /\ FileCount \in Nat \ {0}
    /\ FileOf \in [Rules -> Files]
    /\ Related \in [Rules -> SUBSET Rules]
    /\ Levels \subseteq AllLevels
    /\ Versions \subseteq Nat \X Nat \X Nat
    /\ FirstVersion \in Versions
    /\ MaxEdits \in Nat
    /\ MaxSections \in Nat
    /\ Habits \subseteq AllHabits

Entry == [level : Levels, text : Texts]
Catalogs == UNION {[some -> Entry] : some \in SUBSET Rules}

VARIABLES
    catalog,    \* the rules of the working tree
    version,    \* the version pyproject.toml declares
    snapshots,  \* .released/: for some versions, the files copied and their rules
    writing,    \* the file release-snapshot copies next, or 0 when it is not running
    checked,    \* release-check passed on this very tree
    sections,   \* of CHANGELOG.md, and what --migration-notes named for each
    released,   \* the versions whose whole snapshot CI accepted
    edits       \* how often the catalog was edited

vars == <<catalog, version, snapshots, writing, checked, sections, released, edits>>

-----------------------------------------------------------------------------
(* Versions: version_stamp.py and compatibility.py *)

Older(v, w) ==
    \/ v[1] < w[1]
    \/ v[1] = w[1] /\ v[2] < w[2]
    \/ v[1] = w[1] /\ v[2] = w[2] /\ v[3] < w[3]

\* The majors the drift notice of `check` names to a project stamped v when it
\* runs w.
MajorsCrossed(v, w) == v[1] + 1 .. w[1]

\* Bumps by rank: none, patch, minor, major.
ActualBump(v, w) ==
    IF v[1] # w[1] THEN 3
    ELSE IF v[2] # w[2] THEN 2
    ELSE IF v[3] # w[3] THEN 1 ELSE 0

BumpSatisfies(actual, required) == actual >= required

-----------------------------------------------------------------------------
(* Catalogs: rules/catalog.py and release/diff.py *)

\* What Catalog.load accepts: some rules, each naming only rules that exist.
Loads(rules) ==
    /\ DOMAIN rules # {}
    /\ \A r \in DOMAIN rules : Related[r] \subseteq DOMAIN rules

Diff(old, new) ==
    {[rule |-> r, kind |-> "added", from |-> "none", to |-> new[r].level] :
        r \in DOMAIN new \ DOMAIN old}
    \cup
    {[rule |-> r, kind |-> "removed", from |-> old[r].level, to |-> "none"] :
        r \in DOMAIN old \ DOMAIN new}
    \cup
    {[rule |-> r, kind |-> IF old[r].level # new[r].level THEN "level" ELSE "content",
      from |-> old[r].level, to |-> new[r].level] :
        r \in {s \in DOMAIN old \cap DOMAIN new : old[s] # new[s]}}

Binding == {"MUST", "MUST*"}

\* Mutant: a rule that becomes binding costs a minor.
MinorIsEnough(changes) ==
    IF \E c \in changes : c.kind \in {"added", "level"} THEN 2
    ELSE IF changes # {} THEN 1 ELSE 0

RequiredBump(changes) ==
    IF \E c \in changes : c.kind \in {"added", "level"} /\ c.to \in Binding THEN 3
    ELSE IF \E c \in changes : c.kind \in {"added", "level"} THEN 2
    ELSE IF changes # {} THEN 1 ELSE 0

\* Mutant: only a rule that arrives binding is refused, not one raised to it.
ArrivesBinding(c) == c.kind = "added" /\ c.to \in Binding

IsUnsanctioned(c) ==
    /\ c.kind \in {"added", "level"}
    /\ c.to \in Binding
    /\ c.from \notin Binding \cup {"SHOULD"}

\* Mutant: the conditional MUST is forgotten.
NeedsNotesAtMust(c) == c.kind = "level" /\ c.to = "MUST"

\* A rule whose promotion the changelog wants migration notes for.
NeedsNotes(c) == c.kind = "level" /\ c.to \in Binding

-----------------------------------------------------------------------------
(* Snapshots: release/snapshot.py *)

IsLatest(v) == v \in DOMAIN snapshots /\ \A w \in DOMAIN snapshots : ~Older(v, w)

Latest == CHOOSE v \in DOMAIN snapshots : IsLatest(v)

Previous == snapshots[Latest].rules

RulesIn(file) == {r \in DOMAIN catalog : FileOf[r] = file}

IsWhole(v) == v \in DOMAIN snapshots /\ snapshots[v].files = Files

CanCompare ==
    /\ DOMAIN snapshots # {}
    /\ Loads(Previous)
    /\ Loads(catalog)

\* release-check prints OK.
CheckPasses ==
    /\ CanCompare
    /\ \A c \in Diff(Previous, catalog) : ~IsUnsanctioned(c)
    /\ BumpSatisfies(ActualBump(Latest, version), RequiredBump(Diff(Previous, catalog)))

-----------------------------------------------------------------------------
(* The maintainer *)

Init ==
    /\ catalog \in {rules \in Catalogs : Loads(rules)}
    /\ version = FirstVersion
    /\ snapshots = [v \in {FirstVersion} |-> [files |-> Files, rules |-> catalog]]
    /\ writing = 0
    /\ checked = FALSE
    /\ sections = {}
    /\ released = {FirstVersion}
    /\ edits = 0

Idle == writing = 0

Edit(rules) ==
    /\ Idle
    /\ edits < MaxEdits
    /\ rules # catalog
    /\ catalog' = rules
    /\ edits' = edits + 1
    /\ checked' = FALSE
    /\ UNCHANGED <<version, snapshots, writing, sections, released>>

EditRule ==
    \E r \in Rules, e \in Entry :
        Edit([s \in DOMAIN catalog \cup {r} |-> IF s = r THEN e ELSE catalog[s]])

RemoveRule == \E r \in DOMAIN catalog : Edit([s \in DOMAIN catalog \ {r} |-> catalog[s]])

\* Versions are only raised: there is one line of releases, without backports.
SetVersion ==
    /\ Idle
    /\ \E v \in Versions : Older(version, v) /\ version' = v
    /\ checked' = FALSE
    /\ UNCHANGED <<catalog, snapshots, writing, sections, released, edits>>

-----------------------------------------------------------------------------
(* The commands *)

\* With exit code 0, 1, or 2 for a catalog that does not load: the model keeps
\* whether it was 0.
ReleaseCheck ==
    /\ Idle
    /\ checked' = CheckPasses
    /\ UNCHANGED <<catalog, version, snapshots, writing, sections, released, edits>>

\* What --migration-notes names: nothing, a file with only white space, or one
\* with text.
NotesArguments == {"none", "blank", "text"}

\* The section has the notes of the file, stripped, unless that leaves nothing.
HasNotes(given) == given = "text"

\* A section is written unless notes are due and no file is given.
Changelog ==
    /\ Idle
    /\ Cardinality(sections) < MaxSections
    /\ CanCompare
    /\ \E given \in NotesArguments :
         /\ given = "none" => \A c \in Diff(Previous, catalog) : ~NeedsNotes(c)
         /\ sections' = sections \cup {[version |-> version, given |-> given,
                                        notes |-> HasNotes(given),
                                        changes |-> Diff(Previous, catalog)]}
    /\ UNCHANGED <<catalog, version, snapshots, writing, checked, released, edits>>

IsTold(v, changes) ==
    \E s \in sections : s.version = v /\ s.changes = changes

\* The careful maintainer has the tree checked and told in the changelog before
\* the snapshot is taken.
IsReady ==
    "snapshot first" \notin Habits =>
        checked /\ IsTold(version, Diff(Previous, catalog))

Empty == [files |-> {}, rules |-> [r \in {} |-> {}]]

\* write_snapshot makes the directory, refusing one that exists.
ReleaseSnapshot ==
    /\ Idle
    /\ IsReady
    /\ version \notin DOMAIN snapshots
    /\ snapshots' = [v \in DOMAIN snapshots \cup {version} |->
                        IF v = version THEN Empty ELSE snapshots[v]]
    /\ writing' = 1
    /\ UNCHANGED <<catalog, version, checked, sections, released, edits>>

\* The rules of a directory with those of the file that is copied.
Copied(rules) ==
    [r \in RulesIn(writing) \cup DOMAIN rules |->
        IF r \in RulesIn(writing) THEN catalog[r] ELSE rules[r]]

\* Mutant: one file too many.
CopyPastTheEnd ==
    /\ ~Idle
    /\ snapshots' =
         [snapshots EXCEPT ![version] =
            [files |-> @.files \cup ({writing} \cap Files),
             rules |-> Copied(@.rules)]]
    /\ writing' = IF writing \in Files THEN writing + 1 ELSE 0
    /\ UNCHANGED <<catalog, version, checked, sections, released, edits>>

CopyFile ==
    /\ ~Idle
    /\ snapshots' =
         [snapshots EXCEPT ![version] =
            [files |-> @.files \cup {writing},
             rules |-> Copied(@.rules)]]
    /\ writing' = IF writing + 1 \in Files THEN writing + 1 ELSE 0
    /\ UNCHANGED <<catalog, version, checked, sections, released, edits>>

\* Killed half-way, it leaves the directory and the files copied so far.
Interrupt ==
    /\ ~Idle
    /\ "interrupt" \in Habits
    /\ writing' = 0
    /\ UNCHANGED <<catalog, version, snapshots, checked, sections, released, edits>>

\* CI runs release-check on the pushed tree, snapshots included.
Push ==
    /\ Idle
    /\ CheckPasses
    /\ released' = {v \in DOMAIN snapshots : IsWhole(v)}
    /\ UNCHANGED <<catalog, version, snapshots, writing, checked, sections, edits>>

Next ==
    \/ EditRule
    \/ RemoveRule
    \/ SetVersion
    \/ ReleaseCheck
    \/ Changelog
    \/ ReleaseSnapshot
    \/ CopyFile
    \/ Interrupt
    \/ Push

Spec == Init /\ [][Next]_vars

-----------------------------------------------------------------------------
(* Properties *)

\* Type invariant; a directory being written is that of the current version.
TypeOK ==
    /\ catalog \in Catalogs
    /\ version \in Versions
    /\ DOMAIN snapshots \subseteq Versions
    /\ \A v \in DOMAIN snapshots :
         /\ snapshots[v].files \subseteq Files
         /\ snapshots[v].rules \in Catalogs
    /\ writing \in Files \cup {0}
    /\ ~Idle => version \in DOMAIN snapshots
    /\ checked \in BOOLEAN
    /\ \A s \in sections :
         s.version \in Versions /\ s.given \in NotesArguments /\ s.notes \in BOOLEAN
    /\ released \subseteq Versions
    /\ edits \in 0 .. MaxEdits

IsBinding(v, r) ==
    r \in DOMAIN snapshots[v].rules /\ snapshots[v].rules[r].level \in Binding

NewlyBinding(v, w) == {r \in Rules : IsBinding(w, r) /\ ~IsBinding(v, r)}

Follows(v, w) ==
    /\ Older(v, w)
    /\ \A u \in released : ~(Older(v, u) /\ Older(u, w))

\* No release-snapshot was killed half-way and left part of a catalog, against
\* which the next comparisons are made.
NoneLost == \A v \in DOMAIN snapshots : IsWhole(v)

\* The promise of the version number, over the whole history and not only from
\* one release to the next: a project that moves from one release to any later
\* one meets a newly binding rule only if `check` names a crossed major to it
\* (compatibility.py required_bump, enforced by CI on every push;
\* version_stamp.py majors_crossed). CHANGELOG.md:68-78 has it that a promotion from
\* SHOULD to MUST is sanctioned as a minor bump; the code and its tests ask for a major.
NoNewMustWithinMajor ==
    \A v, w \in released :
        Older(v, w) /\ NewlyBinding(v, w) # {} => MajorsCrossed(v, w) # {}

\* While every snapshot is whole: a rule that becomes binding in a release was a
\* SHOULD in the release before (compatibility.py
\* find_unsanctioned_must_promotions).
WarningWindow ==
    \A v, w \in released : NoneLost /\ Follows(v, w) =>
        \A r \in NewlyBinding(v, w) :
            r \in DOMAIN snapshots[v].rules /\ snapshots[v].rules[r].level = "SHOULD"

\* While every snapshot is whole, release-check and changelog between them leave no
\* rule that becomes binding without a file of migration notes, and its release has
\* a section with exactly its changes and those notes: the changelog asks for the
\* file only when a level changed, and relies on release-check to refuse a rule that
\* arrives binding (cli.py _run_changelog). A blank file is let through, and its
\* section has no notes: that much the code does not look at.
PromotionsAskForNotes ==
    \A v, w \in released : NoneLost /\ Follows(v, w) /\ NewlyBinding(v, w) # {} =>
        \E s \in sections :
            /\ s.version = w
            /\ s.given # "none"
            /\ s.notes \/ s.given = "blank"
            /\ s.changes = Diff(snapshots[v].rules, snapshots[w].rules)

=============================================================================
