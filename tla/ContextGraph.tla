---------------------------- MODULE ContextGraph ----------------------------
(***************************************************************************)
(* ARCH-050, arch_standard.checks.context_graph: the hand-written manifest *)
(* contexts.toml must declare exactly the contexts that exist, depend on   *)
(* declared contexts only, and be acyclic. The search for a cycle is a     *)
(* depth-first walk with three colours; its call stack is `stack`, and     *)
(* `todo` holds what each frame's loop has still to look at. The order of  *)
(* roots and dependencies is left open: any order the code could take is   *)
(* among those the model takes.                                            *)
(***************************************************************************)
EXTENDS Naturals, Sequences, FiniteSets

CONSTANTS
  Contexts,        \* context names
  NotAName         \* an entry of depends_on that cannot be hashed (a list)

ASSUME ContextAssumption == NotAName \notin Contexts

VARIABLES
  manifest,        \* contexts.toml: missing, invalid or parsed
  graph,           \* its declared contexts and what each depends on
  detected,        \* contexts the project layout has
  pc,              \* start, search, report, done or raised
  colour,          \* colour of each node
  stack,           \* nodes on the path being walked
  todo,            \* per node, dependencies its frame has not looked at
  cycle,           \* what find_cycle returns; empty for None
  findings,        \* what is wrong with the manifest
  outcome          \* the reported outcome

inputs == <<manifest, graph, detected>>
walk == <<colour, stack, todo, cycle>>
vars == <<inputs, pc, walk, findings, outcome>>

Declared == DOMAIN graph
DependsOn(n) == IF n \in Declared THEN graph[n] ELSE {}

Graphs == UNION {[D -> SUBSET (Contexts \cup {NotAName})] : D \in SUBSET Contexts}

Init ==
  /\ manifest \in {"missing", "invalid", "parsed"}
  /\ graph \in Graphs
  /\ manifest # "parsed" => Declared = {}
  /\ detected \in SUBSET Contexts
  /\ pc = "start"
  /\ colour = [n \in Contexts |-> "white"]
  /\ stack = <<>>
  /\ todo = [n \in Contexts |-> {}]
  /\ cycle = <<>>
  /\ findings = {}
  /\ outcome = "none"

Decide(result) ==
  /\ pc' = "done"
  /\ outcome' = result
  /\ UNCHANGED <<inputs, walk, findings>>

-----------------------------------------------------------------------------
(* ContextGraphCheck.run *)

\* No manifest: only a project with two contexts needs one.
NoManifest ==
  /\ pc = "start" /\ manifest = "missing"
  /\ Decide(IF Cardinality(detected) < 2 THEN "SKIP" ELSE "FAIL")

\* The TOML does not parse or an entry has the wrong shape.
InvalidManifest ==
  /\ pc = "start" /\ manifest = "invalid"
  /\ Decide("FAIL")

\* `dep not in graph` hashes each dependency, outside the try.
UnhashableDependency ==
  /\ pc = "start" /\ manifest = "parsed"
  /\ \E n \in Declared : NotAName \in graph[n]
  /\ pc' = "raised"
  /\ UNCHANGED <<inputs, walk, findings, outcome>>

\* Mutant: only the contexts that exist are looked up in the manifest.
MembershipOneWay ==
  (IF detected \ Declared # {} THEN {"not declared"} ELSE {})
    \cup (IF \E n \in Declared : graph[n] \ Declared # {}
            THEN {"undeclared dependency"} ELSE {})

\* The findings before the search.
Membership ==
  (IF Declared \ detected # {} THEN {"does not exist"} ELSE {})
    \cup (IF detected \ Declared # {} THEN {"not declared"} ELSE {})
    \cup (IF \E n \in Declared : graph[n] \ Declared # {}
            THEN {"undeclared dependency"} ELSE {})

CompareWithLayout ==
  /\ pc = "start" /\ manifest = "parsed"
  /\ \A n \in Declared : NotAName \notin graph[n]
  /\ findings' = Membership
  /\ pc' = "search"
  /\ UNCHANGED <<inputs, walk, outcome>>

Report ==
  /\ pc = "report"
  /\ findings' = findings \cup (IF cycle # <<>> THEN {"cycle"} ELSE {})
  /\ outcome' = IF findings' = {} THEN "PASS" ELSE "FAIL"
  /\ pc' = "done"
  /\ UNCHANGED <<inputs, walk>>

-----------------------------------------------------------------------------
(* find_cycle *)

Top == stack[Len(stack)]

\* Mutant: a node already left is visited again.
VisitAgain(n) ==
  /\ colour[n] # "grey"
  /\ colour' = [colour EXCEPT ![n] = "grey"]
  /\ stack' = Append(stack, n)
  /\ todo' = [todo EXCEPT ![n] = DependsOn(n)]

\* visit(n): a new frame.
Visit(n) ==
  /\ colour[n] = "white"
  /\ colour' = [colour EXCEPT ![n] = "grey"]
  /\ stack' = Append(stack, n)
  /\ todo' = [todo EXCEPT ![n] = DependsOn(n)]

VisitRoot(n) ==
  /\ pc = "search" /\ stack = <<>> /\ n \in Declared
  /\ Visit(n)
  /\ UNCHANGED <<inputs, pc, cycle, findings, outcome>>

\* A white dependency is visited before the frame goes on.
VisitDependency(n) ==
  /\ pc = "search" /\ stack # <<>> /\ n \in todo[Top]
  /\ Visit(n)
  /\ UNCHANGED <<inputs, pc, cycle, findings, outcome>>

\* Mutant: a dependency on the path counts as seen.
IsSeenMutant(n) == colour[n] # "white"

IsSeen(n) == colour[n] = "black"

\* A black one is passed over. (A white one is black when its frame is back.)
SkipDependency(n) ==
  /\ pc = "search" /\ stack # <<>> /\ n \in todo[Top]
  /\ IsSeen(n)
  /\ todo' = [todo EXCEPT ![Top] = @ \ {n}]
  /\ UNCHANGED <<inputs, pc, colour, stack, cycle, findings, outcome>>

\* Mutant: the cycle without stack.index: the whole path.
WholePath(n) == Append(stack, n)

\* stack[stack.index(n):] + [n]
PathFrom(n) ==
  LET first == CHOOSE i \in DOMAIN stack : stack[i] = n
  IN  Append(SubSeq(stack, first, Len(stack)), n)

\* A grey one is on the path: every frame returns the cycle found.
CloseCycle(n) ==
  /\ pc = "search" /\ stack # <<>> /\ n \in todo[Top]
  /\ colour[n] = "grey"
  /\ cycle' = PathFrom(n)
  /\ pc' = "report"
  /\ UNCHANGED <<inputs, colour, stack, todo, findings, outcome>>

\* Mutant: a finished node keeps its colour.
StayGrey == UNCHANGED colour

Blacken == colour' = [colour EXCEPT ![Top] = "black"]

\* The frame's loop is over.
LeaveNode ==
  /\ pc = "search" /\ stack # <<>> /\ todo[Top] = {}
  /\ Blacken
  /\ stack' = SubSeq(stack, 1, Len(stack) - 1)
  /\ UNCHANGED <<inputs, pc, todo, cycle, findings, outcome>>

\* No root is left: None.
NoCycle ==
  /\ pc = "search" /\ stack = <<>>
  /\ \A n \in Declared : colour[n] # "white"
  /\ pc' = "report"
  /\ UNCHANGED <<inputs, walk, findings, outcome>>

Next ==
  \/ NoManifest
  \/ InvalidManifest
  \/ UnhashableDependency
  \/ CompareWithLayout
  \/ \E n \in Contexts :
       VisitRoot(n) \/ VisitDependency(n) \/ SkipDependency(n) \/ CloseCycle(n)
  \/ LeaveNode
  \/ NoCycle
  \/ Report

Spec == Init /\ [][Next]_vars

\* The check is sequential code: it keeps running.
FairSpec == Spec /\ WF_vars(Next)

-----------------------------------------------------------------------------
(* Properties *)

\* Types, and the colours' meaning: grey is what is on the path, each node once.
TypeOK ==
  /\ manifest \in {"missing", "invalid", "parsed"}
  /\ graph \in Graphs
  /\ detected \subseteq Contexts
  /\ pc \in {"start", "search", "report", "done", "raised"}
  /\ colour \in [Contexts -> {"white", "grey", "black"}]
  /\ stack \in Seq(Contexts)
  /\ todo \in [Contexts -> SUBSET Contexts]
  /\ cycle \in Seq(Contexts)
  /\ findings \subseteq {"does not exist", "not declared",
                         "undeclared dependency", "cycle"}
  /\ outcome \in {"none", "SKIP", "PASS", "FAIL"}
  /\ \A n \in Contexts : colour[n] = "grey" <=> \E i \in DOMAIN stack : stack[i] = n
  /\ \A i, j \in DOMAIN stack : stack[i] = stack[j] => i = j

\* A graph has a cycle exactly when some nonempty set of nodes keeps a
\* dependency inside itself for each of its members.
Circular(S) == S # {} /\ \A n \in S : \E m \in S : m \in DependsOn(n)
HasCycle == \E S \in SUBSET Contexts : Circular(S)

\* What find_cycle returns is a cycle of the graph: it starts and ends at one
\* node and each node depends on the next. A diamond is not mistaken for one.
CycleIsReal ==
  cycle # <<>> =>
    /\ Len(cycle) > 1
    /\ cycle[1] = cycle[Len(cycle)]
    /\ \A i \in 1..(Len(cycle) - 1) : cycle[i + 1] \in DependsOn(cycle[i])

\* When find_cycle returns None there is no cycle.
NoCycleMissed == pc \in {"report", "done"} /\ manifest = "parsed" /\ cycle = <<>> => ~HasCycle

\* The reported outcome is FAIL exactly when the manifest and the layout
\* disagree, a dependency is not declared, or the dependencies are circular.
FailsExactlyWhenFaulty ==
  pc = "done" /\ manifest = "parsed" =>
    (outcome = "FAIL" <=> \/ Declared # detected
                          \/ \E n \in Declared : graph[n] \ Declared # {}
                          \/ HasCycle)

\* The check ends.
Terminates == <>(pc \in {"done", "raised"})
=============================================================================
