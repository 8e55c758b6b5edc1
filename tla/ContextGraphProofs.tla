------------------------- MODULE ContextGraphProofs -------------------------
(* Proofs about ContextGraph: find_cycle returns real cycles, misses none,  *)
(* and the outcome of ARCH-050 is FAIL exactly when the manifest is faulty. *)
EXTENDS ContextGraph, SequenceTheorems, TLAPS

-----------------------------------------------------------------------------
(* Type correctness *)

\* The search starts only on a manifest whose dependencies are names.
Searchable ==
  pc \in {"search", "report"} =>
    manifest = "parsed" /\ \A n \in Declared : NotAName \notin graph[n]

\* What a node's frame has still to look at is among the node's dependencies.
TodoDepends == \A n \in Contexts : todo[n] \subseteq DependsOn(n)

TypeInv == TypeOK /\ Searchable /\ TodoDepends

\* A parsed manifest maps some of the contexts to sets of dependencies.
LEMMA GraphType ==
  ASSUME graph \in Graphs
  PROVE  /\ Declared \subseteq Contexts
         /\ \A n \in Declared : graph[n] \subseteq Contexts \cup {NotAName}
BY DEF Graphs, Declared

LEMMA DependsOnContexts ==
  ASSUME TypeInv, pc = "search", NEW n \in Contexts
  PROVE  DependsOn(n) \in SUBSET Contexts
<1>1. graph \in Graphs
  BY DEF TypeInv, TypeOK
<1>2. \A m \in Declared : NotAName \notin graph[m]
  BY DEF TypeInv, Searchable
<1>3. \A m \in Declared : graph[m] \subseteq Contexts
  BY <1>1, <1>2, GraphType
<1> QED BY <1>3 DEF DependsOn

LEMMA TypeInit == Init => TypeInv
BY DEF Init, TypeInv, TypeOK, Searchable, TodoDepends

\* What Append and SubSeq do to a path.
LEMMA Appended ==
  ASSUME NEW S, NEW s \in Seq(S), NEW e \in S
  PROVE  /\ Append(s, e) \in Seq(S)
         /\ Len(s) \in Nat
         /\ DOMAIN s = 1..Len(s)
         /\ Len(Append(s, e)) = Len(s) + 1
         /\ DOMAIN Append(s, e) = 1..(Len(s) + 1)
         /\ Append(s, e)[Len(s) + 1] = e
         /\ \A i \in 1..Len(s) : Append(s, e)[i] = s[i]
OBVIOUS

LEMMA Suffix ==
  ASSUME NEW S, NEW s \in Seq(S), NEW k \in DOMAIN s
  PROVE  /\ SubSeq(s, k, Len(s)) \in Seq(S)
         /\ Len(SubSeq(s, k, Len(s))) = Len(s) - k + 1
         /\ \A i \in 1..(Len(s) - k + 1) : SubSeq(s, k, Len(s))[i] = s[k + i - 1]
OBVIOUS

LEMMA Popped ==
  ASSUME NEW S, NEW s \in Seq(S), s # <<>>
  PROVE  /\ Len(s) \in Nat \ {0}
         /\ DOMAIN s = 1..Len(s)
         /\ SubSeq(s, 1, Len(s) - 1) \in Seq(S)
         /\ Len(SubSeq(s, 1, Len(s) - 1)) = Len(s) - 1
         /\ DOMAIN SubSeq(s, 1, Len(s) - 1) = 1..(Len(s) - 1)
         /\ \A i \in 1..(Len(s) - 1) : SubSeq(s, 1, Len(s) - 1)[i] = s[i]
<1>1. Len(s) \in Nat \ {0} /\ DOMAIN s = 1..Len(s)
  OBVIOUS
<1> DEFINE t == SubSeq(s, 1, Len(s) - 1)
<1>2. \A i \in 1..(Len(s) - 1) : s[i] \in S
  BY <1>1
<1>3. /\ t \in Seq(S)
      /\ Len(t) = Len(s) - 1
      /\ \A i \in 1..(Len(s) - 1) : t[i] = s[i]
  BY <1>1, <1>2, SubSeqProperties
<1>4. DOMAIN t = 1..(Len(s) - 1)
  <2> HIDE DEF t
  <2> QED BY <1>3
<1> QED BY <1>1, <1>3, <1>4

\* The top of a path that is not empty.
LEMMA TopOfStack ==
  ASSUME stack \in Seq(Contexts), stack # <<>>
  PROVE  /\ Len(stack) \in Nat \ {0}
         /\ Len(stack) \in DOMAIN stack
         /\ Top \in Contexts
BY DEF Top

\* A visit puts a white node on the path.
LEMMA VisitType ==
  ASSUME TypeInv, pc = "search", NEW n \in Contexts, Visit(n),
         UNCHANGED <<inputs, pc, cycle, findings, outcome>>
  PROVE  TypeInv'
<1>1. DependsOn(n) \in SUBSET Contexts
  BY DependsOnContexts
<1>2. /\ colour' \in [Contexts -> {"white", "grey", "black"}]
      /\ todo' \in [Contexts -> SUBSET Contexts]
  BY <1>1 DEF TypeInv, TypeOK, Visit
<1>a. stack \in Seq(Contexts) /\ stack' = Append(stack, n)
  BY DEF TypeInv, TypeOK, Visit
<1>3. /\ stack' \in Seq(Contexts)
      /\ DOMAIN stack' = 1..(Len(stack) + 1)
      /\ DOMAIN stack = 1..Len(stack)
      /\ Len(stack) \in Nat
      /\ stack'[Len(stack) + 1] = n
      /\ \A i \in 1..Len(stack) : stack'[i] = stack[i]
  BY <1>a, Appended
<1>b. colour \in [Contexts -> {"white", "grey", "black"}]
      /\ colour[n] = "white"
      /\ colour' = [colour EXCEPT ![n] = "grey"]
  BY DEF TypeInv, TypeOK, Visit
<1>c. /\ \A m \in Contexts : colour[m] = "grey" <=> \E i \in DOMAIN stack : stack[i] = m
      /\ \A i, j \in DOMAIN stack : stack[i] = stack[j] => i = j
  BY DEF TypeInv, TypeOK
<1>4. \A m \in Contexts : colour'[m] = "grey" <=> \E i \in DOMAIN stack' : stack'[i] = m
  <2> SUFFICES ASSUME NEW m \in Contexts
               PROVE  colour'[m] = "grey" <=> \E i \in DOMAIN stack' : stack'[i] = m
    OBVIOUS
  <2>1. CASE m = n
    <3>1. colour'[m] = "grey"
      BY <2>1, <1>b
    <3>2. Len(stack) + 1 \in DOMAIN stack'
      BY <1>3
    <3> QED BY <3>1, <3>2, <2>1, <1>3
  <2>2. CASE m # n
    <3>1. colour'[m] = colour[m]
      BY <2>2, <1>b
    <3>2. (\E i \in DOMAIN stack' : stack'[i] = m) <=> (\E i \in DOMAIN stack : stack[i] = m)
      BY <2>2, <1>3
    <3> QED BY <3>1, <3>2, <1>c
  <2> QED BY <2>1, <2>2
<1>5. \A i, j \in DOMAIN stack' : stack'[i] = stack'[j] => i = j
  <2>1. \A i \in DOMAIN stack : stack[i] # n
    BY <1>b, <1>c
  <2> QED BY <2>1, <1>3, <1>c
<1>6. TypeOK'
  BY <1>2, <1>3, <1>4, <1>5 DEF TypeInv, TypeOK, inputs
<1>7. Searchable'
  BY DEF TypeInv, Searchable, inputs, Declared
<1>8. TodoDepends'
  <2>1. DependsOn(n)' = DependsOn(n) /\ \A m \in Contexts : DependsOn(m)' = DependsOn(m)
    BY DEF inputs, Declared, DependsOn
  <2>2. todo \in [Contexts -> SUBSET Contexts] /\ todo' = [todo EXCEPT ![n] = DependsOn(n)]
    BY DEF TypeInv, TypeOK, Visit
  <2> QED BY <2>1, <2>2 DEF TypeInv, TodoDepends
<1> QED BY <1>6, <1>7, <1>8 DEF TypeInv

\* A node left is black, and off the path.
LEMMA LeaveType ==
  ASSUME TypeInv, LeaveNode
  PROVE  TypeInv'
<1>a. /\ stack \in Seq(Contexts)
      /\ stack # <<>>
      /\ stack' = SubSeq(stack, 1, Len(stack) - 1)
  BY DEF TypeInv, TypeOK, LeaveNode
<1>b. /\ \A m \in Contexts : colour[m] = "grey" <=> \E i \in DOMAIN stack : stack[i] = m
      /\ \A i, j \in DOMAIN stack : stack[i] = stack[j] => i = j
  BY DEF TypeInv, TypeOK
<1>1. /\ Len(stack) \in Nat \ {0}
      /\ DOMAIN stack = 1..Len(stack)
      /\ Top \in Contexts
      /\ Top = stack[Len(stack)]
  BY <1>a, Popped, TopOfStack DEF Top
<1>2. /\ stack' \in Seq(Contexts)
      /\ DOMAIN stack' = 1..(Len(stack) - 1)
      /\ \A i \in DOMAIN stack' : stack'[i] = stack[i]
  BY <1>a, Popped
<1>3. colour' \in [Contexts -> {"white", "grey", "black"}]
      /\ colour'[Top] = "black"
      /\ \A m \in Contexts \ {Top} : colour'[m] = colour[m]
  <2>1. colour \in [Contexts -> {"white", "grey", "black"}]
        /\ colour' = [colour EXCEPT ![Top] = "black"]
    BY DEF TypeInv, TypeOK, LeaveNode, Blacken
  <2> QED BY <2>1, <1>1
<1>4. \A i \in DOMAIN stack' : stack[i] # Top
  <2> SUFFICES ASSUME NEW i \in DOMAIN stack' PROVE stack[i] # Top
    OBVIOUS
  <2>1. i \in DOMAIN stack /\ Len(stack) \in DOMAIN stack /\ i # Len(stack)
    BY <1>1, <1>2
  <2> QED BY <2>1, <1>1, <1>b
<1>5. \A m \in Contexts : colour'[m] = "grey" <=> \E i \in DOMAIN stack' : stack'[i] = m
  <2> SUFFICES ASSUME NEW m \in Contexts
               PROVE  colour'[m] = "grey" <=> \E i \in DOMAIN stack' : stack'[i] = m
    OBVIOUS
  <2>1. CASE m = Top
    BY <2>1, <1>2, <1>3, <1>4
  <2>2. CASE m # Top
    <3>1. (\E i \in DOMAIN stack' : stack'[i] = m) <=> (\E i \in DOMAIN stack : stack[i] = m)
      BY <1>1, <1>2, <2>2
    <3> QED BY <3>1, <1>3, <2>2, <1>b
  <2> QED BY <2>1, <2>2
<1>6. \A i, j \in DOMAIN stack' : stack'[i] = stack'[j] => i = j
  <2>1. DOMAIN stack' \subseteq DOMAIN stack
    BY <1>1, <1>2
  <2> QED BY <2>1, <1>2, <1>b
<1>7. TypeOK'
  BY <1>2, <1>3, <1>5, <1>6 DEF TypeInv, TypeOK, LeaveNode, inputs
<1>8. Searchable' /\ TodoDepends'
  BY DEF TypeInv, Searchable, TodoDepends, LeaveNode, inputs, Declared, DependsOn
<1> QED BY <1>7, <1>8 DEF TypeInv

\* The cycle returned: the path from n's place on it, and n again.
LEMMA PathFromNode ==
  ASSUME TypeInv, NEW n \in Contexts, stack # <<>>, colour[n] = "grey"
  PROVE  \E first \in DOMAIN stack :
           /\ stack[first] = n
           /\ PathFrom(n) = Append(SubSeq(stack, first, Len(stack)), n)
           /\ PathFrom(n) \in Seq(Contexts)
           /\ Len(PathFrom(n)) = Len(stack) - first + 2
           /\ PathFrom(n)[Len(stack) - first + 2] = n
           /\ \A i \in 1..(Len(stack) - first + 1) : PathFrom(n)[i] = stack[first + i - 1]
<1>1. \E i \in DOMAIN stack : stack[i] = n
  BY DEF TypeInv, TypeOK
<1> DEFINE first == CHOOSE i \in DOMAIN stack : stack[i] = n
           rest == SubSeq(stack, first, Len(stack))
<1>2. first \in DOMAIN stack /\ stack[first] = n
  BY <1>1
<1>3. stack \in Seq(Contexts) /\ Len(stack) \in Nat /\ DOMAIN stack = 1..Len(stack)
  <2>1. stack \in Seq(Contexts)
    BY DEF TypeInv, TypeOK
  <2> QED BY <2>1
<1>4. PathFrom(n) = Append(rest, n)
  BY DEF PathFrom
<1> HIDE DEF first
<1>5. /\ rest \in Seq(Contexts)
      /\ Len(rest) = Len(stack) - first + 1
      /\ \A i \in 1..(Len(stack) - first + 1) : rest[i] = stack[first + i - 1]
  BY <1>2, <1>3, Suffix
<1> HIDE DEF rest
<1>6. /\ Append(rest, n) \in Seq(Contexts)
      /\ Len(Append(rest, n)) = Len(stack) - first + 2
      /\ Append(rest, n)[Len(stack) - first + 2] = n
      /\ \A i \in 1..(Len(stack) - first + 1) : Append(rest, n)[i] = rest[i]
  <2>1. Len(rest) + 1 = Len(stack) - first + 2
    BY <1>2, <1>3, <1>5
  <2> QED BY <2>1, <1>5, Appended
<1> QED BY <1>2, <1>4, <1>5, <1>6 DEF rest

\* A step that leaves the manifest, the path and the colours alone.
LEMMA Settled ==
  ASSUME TypeInv, UNCHANGED <<inputs, colour, stack, todo>>, Searchable',
         pc' \in {"start", "search", "report", "done", "raised"},
         cycle' \in Seq(Contexts),
         findings' \subseteq {"does not exist", "not declared",
                              "undeclared dependency", "cycle"},
         outcome' \in {"none", "SKIP", "PASS", "FAIL"}
  PROVE  TypeInv'
<1>1. TypeOK'
  BY DEF TypeInv, TypeOK, inputs
<1>2. TodoDepends'
  BY DEF TypeInv, TodoDepends, DependsOn, Declared, inputs
<1> QED BY <1>1, <1>2 DEF TypeInv

LEMMA TypeStep == TypeInv /\ [Next]_vars => TypeInv'
<1> SUFFICES ASSUME TypeInv, [Next]_vars PROVE TypeInv'
  OBVIOUS
<1>a. cycle \in Seq(Contexts)
      /\ findings \subseteq {"does not exist", "not declared",
                             "undeclared dependency", "cycle"}
      /\ outcome \in {"none", "SKIP", "PASS", "FAIL"}
  BY DEF TypeInv, TypeOK
<1>1. CASE NoManifest \/ InvalidManifest
  BY <1>1, <1>a, Settled DEF NoManifest, InvalidManifest, Decide, Searchable, walk
<1>2. CASE UnhashableDependency
  BY <1>2, <1>a, Settled DEF UnhashableDependency, Searchable, walk
<1>3. CASE CompareWithLayout
  <2>1. Searchable'
    BY <1>3 DEF CompareWithLayout, Searchable, inputs, Declared
  <2>2. findings' \subseteq {"does not exist", "not declared", "undeclared dependency"}
    BY <1>3 DEF CompareWithLayout, Membership
  <2> QED BY <1>3, <1>a, <2>1, <2>2, Settled DEF CompareWithLayout, walk
<1>4. ASSUME NEW n \in Contexts, VisitRoot(n) \/ VisitDependency(n)
      PROVE  TypeInv'
  BY <1>4, VisitType DEF VisitRoot, VisitDependency
<1>5. ASSUME NEW n \in Contexts, SkipDependency(n)
      PROVE  TypeInv'
  <2>1. Top \in Contexts
    BY <1>5, TopOfStack DEF SkipDependency, TypeInv, TypeOK
  <2>2. todo' \in [Contexts -> SUBSET Contexts] /\ \A m \in Contexts : todo'[m] \subseteq todo[m]
    BY <1>5, <2>1 DEF SkipDependency, TypeInv, TypeOK
  <2>3. TypeOK'
    BY <1>5, <2>2 DEF SkipDependency, TypeInv, TypeOK, inputs
  <2>4. Searchable'
    BY <1>5 DEF SkipDependency, TypeInv, Searchable, inputs, Declared
  <2>5. TodoDepends'
    BY <1>5, <2>2 DEF SkipDependency, TypeInv, TodoDepends, DependsOn, inputs, Declared
  <2> QED BY <2>3, <2>4, <2>5 DEF TypeInv
<1>6. ASSUME NEW n \in Contexts, CloseCycle(n)
      PROVE  TypeInv'
  <2>1. PathFrom(n) \in Seq(Contexts)
    BY <1>6, PathFromNode DEF CloseCycle
  <2>2. Searchable'
    BY <1>6 DEF CloseCycle, TypeInv, Searchable, inputs, Declared
  <2> QED BY <1>6, <1>a, <2>1, <2>2, Settled DEF CloseCycle
<1>7. CASE LeaveNode
  BY <1>7, LeaveType
<1>8. CASE NoCycle
  <2>1. Searchable'
    BY <1>8 DEF NoCycle, TypeInv, Searchable, inputs, Declared
  <2> QED BY <1>8, <1>a, <2>1, Settled DEF NoCycle, walk
<1>9. CASE Report
  <2>1. findings' \subseteq {"does not exist", "not declared",
                             "undeclared dependency", "cycle"}
    BY <1>9, <1>a DEF Report
  <2> QED BY <1>9, <1>a, <2>1, Settled DEF Report, Searchable, walk
<1>10. CASE UNCHANGED vars
  BY <1>10 DEF vars, TypeInv, TypeOK, Searchable, TodoDepends, inputs, walk,
               Declared, DependsOn
<1> QED BY <1>1, <1>2, <1>3, <1>4, <1>5, <1>6, <1>7, <1>8, <1>9, <1>10 DEF Next

LEMMA TypeInvariant == Spec => []TypeInv
BY TypeInit, TypeStep, PTL DEF Spec

\* Grey is what is on the path, and a node is on the path once.
THEOREM TypeCorrect == Spec => []TypeOK
BY TypeInvariant, PTL DEF TypeInv

-----------------------------------------------------------------------------
(* What find_cycle returns is a cycle *)

\* The stack is a path of the graph.
PathLinked ==
  \A i \in 1..(Len(stack) - 1) : stack[i + 1] \in DependsOn(stack[i])

CycleInv == TypeInv /\ PathLinked /\ CycleIsReal

\* A dependency of the top node lengthens the path.
LEMMA VisitLinked ==
  ASSUME CycleInv, pc = "search", NEW n \in Contexts, Visit(n), UNCHANGED inputs,
         stack # <<>> => n \in todo[Top]
  PROVE  PathLinked'
<1>1. \A m \in Contexts : DependsOn(m)' = DependsOn(m)
  BY DEF inputs, DependsOn, Declared
<1>2. stack \in Seq(Contexts) /\ stack' = Append(stack, n)
  BY DEF CycleInv, TypeInv, TypeOK, Visit
<1>3. /\ Len(stack) \in Nat
      /\ Len(stack') = Len(stack) + 1
      /\ stack'[Len(stack) + 1] = n
      /\ \A i \in 1..Len(stack) : stack'[i] = stack[i] /\ stack[i] \in Contexts
  <2>1. \A i \in 1..Len(stack) : stack[i] \in Contexts
    BY <1>2
  <2> QED BY <1>2, <2>1, Appended
<1>4. Len(stack) # 0 => n \in DependsOn(stack[Len(stack)])
  <2> SUFFICES ASSUME Len(stack) # 0 PROVE n \in DependsOn(stack[Len(stack)])
    OBVIOUS
  <2>1. stack # <<>> /\ Top \in Contexts
    BY <1>2, TopOfStack
  <2> QED BY <2>1 DEF CycleInv, TypeInv, TodoDepends, Top
<1>5. \A i \in 1..(Len(stack) - 1) : stack[i + 1] \in DependsOn(stack[i])
  BY DEF CycleInv, PathLinked
<1> SUFFICES ASSUME NEW i \in 1..Len(stack)
             PROVE  stack'[i + 1] \in DependsOn(stack'[i])
  <2>1. Len(stack') - 1 = Len(stack)
    BY <1>3
  <2> QED BY <2>1 DEF PathLinked, DependsOn, Declared, inputs
<1>6. CASE i = Len(stack)
  BY <1>6, <1>3, <1>4
<1>7. CASE i # Len(stack)
  BY <1>7, <1>3, <1>5
<1> QED BY <1>6, <1>7

\* Leaving the top node shortens it.
LEMMA LeaveLinked ==
  ASSUME CycleInv, LeaveNode
  PROVE  PathLinked'
<1>1. /\ stack \in Seq(Contexts)
      /\ stack # <<>>
      /\ stack' = SubSeq(stack, 1, Len(stack) - 1)
      /\ UNCHANGED inputs
  BY DEF CycleInv, TypeInv, TypeOK, LeaveNode
<1>2. /\ Len(stack) \in Nat \ {0}
      /\ Len(stack') = Len(stack) - 1
      /\ \A i \in 1..(Len(stack) - 1) : stack'[i] = stack[i]
  BY <1>1, Popped
<1> QED BY <1>1, <1>2 DEF CycleInv, PathLinked, DependsOn, Declared, inputs

\* The part of the path from a grey node on, closed by that node, is a cycle.
LEMMA ClosedPathIsReal ==
  ASSUME CycleInv, NEW n \in Contexts, CloseCycle(n)
  PROVE  CycleIsReal'
<1>1. PICK first \in DOMAIN stack :
           /\ stack[first] = n
           /\ PathFrom(n) \in Seq(Contexts)
           /\ Len(PathFrom(n)) = Len(stack) - first + 2
           /\ PathFrom(n)[Len(stack) - first + 2] = n
           /\ \A i \in 1..(Len(stack) - first + 1) : PathFrom(n)[i] = stack[first + i - 1]
  BY PathFromNode DEF CycleInv, CloseCycle
<1>2. Len(stack) \in Nat /\ first \in 1..Len(stack) /\ Top \in Contexts
  <2>1. stack \in Seq(Contexts) /\ stack # <<>>
    BY DEF CycleInv, TypeInv, TypeOK, CloseCycle
  <2> QED BY <2>1, TopOfStack
<1>3. n \in DependsOn(stack[Len(stack)])
  BY <1>2 DEF CycleInv, TypeInv, TodoDepends, CloseCycle, Top
<1>4. \A i \in 1..(Len(stack) - 1) : stack[i + 1] \in DependsOn(stack[i])
  BY DEF CycleInv, PathLinked
<1>5. \A i \in 1..(Len(stack) - first + 1) : PathFrom(n)[i + 1] \in DependsOn(PathFrom(n)[i])
  <2> SUFFICES ASSUME NEW i \in 1..(Len(stack) - first + 1)
               PROVE  PathFrom(n)[i + 1] \in DependsOn(PathFrom(n)[i])
    OBVIOUS
  <2>1. CASE i = Len(stack) - first + 1
    <3>1. PathFrom(n)[i] = stack[Len(stack)] /\ PathFrom(n)[i + 1] = n
      <4> DEFINE last == Len(stack)
      <4>a. last \in Nat /\ first \in Nat /\ i = last - first + 1
        BY <2>1, <1>2
      <4> HIDE DEF last
      <4>b. first + i - 1 = last /\ i + 1 = last - first + 2
        BY <4>a
      <4>1. first + i - 1 = Len(stack) /\ i + 1 = Len(stack) - first + 2
        BY <4>b DEF last
      <4>2. PathFrom(n)[i] = stack[first + i - 1]
        BY <1>1
      <4>3. PathFrom(n)[i + 1] = n
        BY <4>1, <1>1
      <4> QED BY <4>1, <4>2, <4>3
    <3> QED BY <3>1, <1>3
  <2>2. CASE i # Len(stack) - first + 1
    <3>1. /\ i + 1 \in 1..(Len(stack) - first + 1)
          /\ first + i - 1 \in 1..(Len(stack) - 1)
          /\ first + (i + 1) - 1 = (first + i - 1) + 1
      BY <2>2, <1>2
    <3>2. /\ PathFrom(n)[i] = stack[first + i - 1]
          /\ PathFrom(n)[i + 1] = stack[(first + i - 1) + 1]
      BY <3>1, <1>1
    <3> QED BY <3>1, <3>2, <1>4
  <2> QED BY <2>1, <2>2
<1>6. PathFrom(n)[1] = n
  BY <1>1, <1>2
<1>7. cycle' = PathFrom(n) /\ UNCHANGED inputs
  BY DEF CloseCycle
<1>8. \A m : DependsOn(m)' = DependsOn(m)
  BY <1>7 DEF DependsOn, Declared, inputs
<1>9. /\ Len(cycle') > 1
      /\ cycle'[1] = cycle'[Len(cycle')]
      /\ \A i \in 1..(Len(cycle') - 1) : cycle'[i + 1] \in DependsOn(cycle'[i])
  BY <1>1, <1>2, <1>5, <1>6, <1>7
<1> QED BY <1>7, <1>9 DEF CycleIsReal, DependsOn, Declared, inputs

LEMMA CycleStep == CycleInv /\ [Next]_vars => CycleInv'
<1> SUFFICES ASSUME CycleInv, [Next]_vars PROVE CycleInv'
  OBVIOUS
<1>1. TypeInv'
  BY TypeStep DEF CycleInv
<1>2. ASSUME UNCHANGED <<inputs, cycle>> PROVE CycleIsReal'
  BY <1>2 DEF CycleInv, CycleIsReal, inputs, DependsOn, Declared
<1>3. ASSUME UNCHANGED <<inputs, stack>> PROVE PathLinked'
  BY <1>3 DEF CycleInv, PathLinked, inputs, DependsOn, Declared
<1>4. CASE \/ NoManifest \/ InvalidManifest \/ UnhashableDependency
           \/ CompareWithLayout \/ NoCycle \/ Report \/ UNCHANGED vars
  <2>1. UNCHANGED <<inputs, stack, cycle>>
    BY <1>4 DEF NoManifest, InvalidManifest, Decide, UnhashableDependency,
                CompareWithLayout, NoCycle, Report, vars, walk
  <2> QED BY <1>1, <1>2, <1>3, <2>1 DEF CycleInv
<1>5. ASSUME NEW n \in Contexts, VisitRoot(n) \/ VisitDependency(n)
      PROVE  CycleInv'
  <2>1. PathLinked'
    BY <1>5, VisitLinked DEF VisitRoot, VisitDependency
  <2>2. CycleIsReal'
    BY <1>5, <1>2 DEF VisitRoot, VisitDependency
  <2> QED BY <1>1, <2>1, <2>2 DEF CycleInv
<1>6. ASSUME NEW n \in Contexts, SkipDependency(n)
      PROVE  CycleInv'
  BY <1>6, <1>1, <1>2, <1>3 DEF SkipDependency, CycleInv
<1>7. ASSUME NEW n \in Contexts, CloseCycle(n)
      PROVE  CycleInv'
  <2>1. PathLinked'
    BY <1>7, <1>3 DEF CloseCycle
  <2> QED BY <1>1, <1>7, <2>1, ClosedPathIsReal DEF CycleInv
<1>8. CASE LeaveNode
  <2>1. CycleIsReal'
    BY <1>8, <1>2 DEF LeaveNode
  <2> QED BY <1>1, <1>8, <2>1, LeaveLinked DEF CycleInv
<1> QED BY <1>4, <1>5, <1>6, <1>7, <1>8 DEF Next

LEMMA CycleInvariant == Spec => []CycleInv
<1>1. Init => CycleInv
  BY TypeInit DEF Init, CycleInv, PathLinked, CycleIsReal
<1> QED BY <1>1, CycleStep, PTL DEF Spec

\* What find_cycle returns starts and ends at one node, and each node of it
\* depends on the next.
THEOREM CycleReported == Spec => []CycleIsReal
BY CycleInvariant, PTL DEF CycleInv

-----------------------------------------------------------------------------
(* find_cycle misses no cycle *)

\* What a frame has looked at is black, and a black node's frame looked at all.
LookedAt ==
  \A n \in Contexts :
    colour[n] # "white" =>
      /\ \A d \in DependsOn(n) \ todo[n] : d \in Contexts /\ colour[d] = "black"
      /\ colour[n] = "black" => todo[n] = {}

\* No cycle lies among the black nodes.
BlackAcyclic ==
  \A S \in SUBSET Contexts : Circular(S) => \E n \in S : colour[n] # "black"

SearchInv == TypeInv /\ LookedAt /\ BlackAcyclic /\ NoCycleMissed

\* A visit makes no node black.
LEMMA VisitSearched ==
  ASSUME SearchInv, pc = "search", NEW n \in Contexts, Visit(n), UNCHANGED inputs
  PROVE  LookedAt' /\ BlackAcyclic'
<1>1. /\ colour \in [Contexts -> {"white", "grey", "black"}]
      /\ todo \in [Contexts -> SUBSET Contexts]
      /\ colour[n] = "white"
      /\ colour' = [colour EXCEPT ![n] = "grey"]
      /\ todo' = [todo EXCEPT ![n] = DependsOn(n)]
  BY DEF SearchInv, TypeInv, TypeOK, Visit
<1>2. \A m : DependsOn(m)' = DependsOn(m)
  BY DEF inputs, DependsOn, Declared
<1>3. \A m \in Contexts : colour[m] = "black" <=> colour'[m] = "black"
  BY <1>1
<1>4. LookedAt'
  <2> SUFFICES ASSUME NEW m \in Contexts, colour'[m] # "white"
               PROVE  /\ \A d \in DependsOn(m) \ todo'[m] :
                            d \in Contexts /\ colour'[d] = "black"
                      /\ colour'[m] = "black" => todo'[m] = {}
    BY <1>2 DEF LookedAt, DependsOn, Declared, inputs
  <2>1. CASE m = n
    BY <2>1, <1>1
  <2>2. CASE m # n
    <3>1. colour'[m] = colour[m] /\ todo'[m] = todo[m]
      BY <2>2, <1>1
    <3> QED BY <3>1, <1>3 DEF SearchInv, LookedAt
  <2> QED BY <2>1, <2>2
<1>5. BlackAcyclic'
  BY <1>3 DEF SearchInv, BlackAcyclic, Circular, inputs, DependsOn, Declared
<1> QED BY <1>4, <1>5

\* The node left depends on black nodes only, and they on black nodes only: a
\* cycle that it would close among them is one without it.
LEMMA LeaveSearched ==
  ASSUME SearchInv, LeaveNode
  PROVE  LookedAt' /\ BlackAcyclic'
<1>1. /\ colour \in [Contexts -> {"white", "grey", "black"}]
      /\ todo' = todo
      /\ todo[Top] = {}
      /\ Top \in Contexts
      /\ UNCHANGED inputs
  <2>1. Top \in Contexts
    BY TopOfStack DEF SearchInv, TypeInv, TypeOK, LeaveNode
  <2> QED BY <2>1 DEF SearchInv, TypeInv, TypeOK, LeaveNode
<1>2. colour[Top] = "grey"
  <2>1. Len(stack) \in DOMAIN stack
    BY TopOfStack DEF SearchInv, TypeInv, TypeOK, LeaveNode
  <2>2. \A n \in Contexts : (\E i \in DOMAIN stack : stack[i] = n) => colour[n] = "grey"
    BY DEF SearchInv, TypeInv, TypeOK
  <2> QED BY <2>1, <2>2, <1>1 DEF Top
<1>3. colour' = [colour EXCEPT ![Top] = "black"]
  BY DEF LeaveNode, Blacken
<1>4. /\ colour'[Top] = "black"
      /\ \A n \in Contexts \ {Top} : colour'[n] = colour[n]
  BY <1>1, <1>3
<1>5. \A m : DependsOn(m)' = DependsOn(m)
  BY <1>1 DEF inputs, DependsOn, Declared
<1>6. \A n \in Contexts : n = Top \/ colour[n] = "black" =>
        \A d \in DependsOn(n) : d \in Contexts /\ colour[d] = "black"
  BY <1>1, <1>2 DEF SearchInv, LookedAt
<1>7. LookedAt'
  <2> SUFFICES ASSUME NEW m \in Contexts, colour'[m] # "white"
               PROVE  /\ \A d \in DependsOn(m) \ todo[m] :
                            d \in Contexts /\ colour'[d] = "black"
                      /\ colour'[m] = "black" => todo[m] = {}
    BY <1>1, <1>5 DEF LookedAt, DependsOn, Declared, inputs
  <2>1. colour[m] # "white"
    BY <1>2, <1>4
  <2>2. \A d \in DependsOn(m) \ todo[m] : d \in Contexts /\ colour[d] = "black"
    BY <2>1 DEF SearchInv, LookedAt
  <2>3. colour'[m] = "black" => todo[m] = {}
    BY <2>1, <1>1, <1>4 DEF SearchInv, LookedAt
  <2> QED BY <2>2, <2>3, <1>4
<1>8. BlackAcyclic'
  <2> SUFFICES ASSUME NEW S \in SUBSET Contexts, Circular(S),
                      \A n \in S : colour'[n] = "black"
               PROVE  FALSE
    BY <1>5 DEF BlackAcyclic, Circular, DependsOn, Declared, inputs
  <2>1. \A n \in S \ {Top} : colour[n] = "black"
    BY <1>4
  <2>2. Circular(S \ {Top})
    <3>1. \A n \in S : \E m \in S \ {Top} : m \in DependsOn(n)
      BY <2>1, <1>2, <1>6 DEF Circular
    <3> QED BY <3>1 DEF Circular
  <2> QED BY <2>1, <2>2 DEF SearchInv, BlackAcyclic
<1> QED BY <1>7, <1>8

\* When no root is left every node with a dependency is black.
LEMMA SearchOver ==
  ASSUME SearchInv, NoCycle
  PROVE  NoCycleMissed'
<1>1. /\ UNCHANGED inputs
      /\ colour \in [Contexts -> {"white", "grey", "black"}]
      /\ DOMAIN stack = {}
      /\ \A n \in Declared : colour[n] # "white"
  <2>1. DOMAIN <<>> = {}
    OBVIOUS
  <2> QED BY <2>1 DEF NoCycle, SearchInv, TypeInv, TypeOK
<1>2. \A n \in Contexts : colour[n] = "grey" => \E i \in DOMAIN stack : stack[i] = n
  BY DEF SearchInv, TypeInv, TypeOK
<1>3. Declared \subseteq Contexts
  BY GraphType DEF SearchInv, TypeInv, TypeOK
<1>4. \A n \in Declared : colour[n] = "black"
  BY <1>1, <1>2, <1>3
<1>5. ~HasCycle
  <2> SUFFICES ASSUME NEW S \in SUBSET Contexts, Circular(S) PROVE FALSE
    BY DEF HasCycle
  <2>1. \A n \in S : n \in Declared
    BY DEF Circular, DependsOn
  <2> QED BY <2>1, <1>4 DEF SearchInv, BlackAcyclic
<1> QED BY <1>1, <1>5 DEF NoCycleMissed, HasCycle, Circular, DependsOn, Declared, inputs

LEMMA SearchStep == SearchInv /\ [Next]_vars => SearchInv'
<1> SUFFICES ASSUME SearchInv, [Next]_vars PROVE SearchInv'
  OBVIOUS
<1>1. TypeInv'
  BY TypeStep DEF SearchInv
<1>2. ASSUME UNCHANGED <<inputs, colour, todo>> PROVE LookedAt' /\ BlackAcyclic'
  BY <1>2 DEF SearchInv, LookedAt, BlackAcyclic, Circular, inputs, DependsOn, Declared
<1>3. ASSUME pc' \notin {"report", "done"} PROVE NoCycleMissed'
  BY <1>3 DEF NoCycleMissed
<1>4. CASE NoManifest \/ InvalidManifest
  <2>1. NoCycleMissed'
    BY <1>4 DEF NoManifest, InvalidManifest, Decide, inputs, NoCycleMissed
  <2> QED BY <1>1, <1>2, <1>4, <2>1 DEF NoManifest, InvalidManifest, Decide, walk, SearchInv
<1>5. CASE UnhashableDependency \/ CompareWithLayout
  BY <1>1, <1>2, <1>3, <1>5 DEF UnhashableDependency, CompareWithLayout, walk, SearchInv
<1>6. ASSUME NEW n \in Contexts, VisitRoot(n) \/ VisitDependency(n)
      PROVE  SearchInv'
  <2>1. LookedAt' /\ BlackAcyclic'
    BY <1>6, VisitSearched DEF VisitRoot, VisitDependency
  <2> QED BY <1>1, <1>3, <1>6, <2>1 DEF VisitRoot, VisitDependency, SearchInv
<1>7. ASSUME NEW n \in Contexts, SkipDependency(n)
      PROVE  SearchInv'
  <2>1. /\ todo \in [Contexts -> SUBSET Contexts]
        /\ todo' = [todo EXCEPT ![Top] = @ \ {n}]
        /\ colour[n] = "black"
        /\ UNCHANGED <<inputs, colour, pc>>
    BY <1>7 DEF SkipDependency, IsSeen, SearchInv, TypeInv, TypeOK
  <2>2. \A m \in Contexts : todo'[m] \subseteq todo[m] /\ todo[m] \subseteq todo'[m] \cup {n}
    BY <2>1
  <2>3. \A m : DependsOn(m)' = DependsOn(m)
    BY <2>1 DEF inputs, DependsOn, Declared
  <2>4. LookedAt'
    <3> SUFFICES ASSUME NEW m \in Contexts, colour[m] # "white"
                 PROVE  /\ \A d \in DependsOn(m) \ todo'[m] :
                              d \in Contexts /\ colour[d] = "black"
                        /\ colour[m] = "black" => todo'[m] = {}
      BY <2>1, <2>3 DEF LookedAt, DependsOn, Declared, inputs
    <3> QED BY <2>1, <2>2 DEF SearchInv, LookedAt
  <2>5. BlackAcyclic'
    BY <2>1 DEF SearchInv, BlackAcyclic, Circular, inputs, DependsOn, Declared
  <2>6. NoCycleMissed'
    BY <1>3, <1>7 DEF SkipDependency
  <2> QED BY <1>1, <2>4, <2>5, <2>6 DEF SearchInv
<1>8. ASSUME NEW n \in Contexts, CloseCycle(n)
      PROVE  SearchInv'
  <2>1. LookedAt' /\ BlackAcyclic'
    BY <1>2, <1>8 DEF CloseCycle
  <2>2. cycle' # <<>>
    <3>1. PICK first \in DOMAIN stack :
                 /\ PathFrom(n) \in Seq(Contexts)
                 /\ Len(PathFrom(n)) = Len(stack) - first + 2
      BY <1>8, PathFromNode DEF SearchInv, CloseCycle
    <3>2. stack \in Seq(Contexts)
      BY DEF SearchInv, TypeInv, TypeOK
    <3>3. first \in 1..Len(stack) /\ Len(stack) \in Nat
      BY <3>2
    <3>4. Len(PathFrom(n)) # 0
      BY <3>1, <3>3
    <3> QED BY <3>4, <1>8 DEF CloseCycle
  <2> QED BY <1>1, <2>1, <2>2 DEF SearchInv, NoCycleMissed
<1>9. CASE LeaveNode
  <2>1. NoCycleMissed'
    BY <1>3, <1>9 DEF LeaveNode
  <2> QED BY <1>1, <1>9, <2>1, LeaveSearched DEF SearchInv
<1>10. CASE NoCycle
  <2>1. LookedAt' /\ BlackAcyclic'
    BY <1>2, <1>10 DEF NoCycle, walk
  <2> QED BY <1>1, <1>10, <2>1, SearchOver DEF SearchInv
<1>11. CASE Report
  <2>1. NoCycleMissed'
    BY <1>11 DEF Report, walk, inputs, SearchInv, NoCycleMissed, HasCycle, Circular,
                 DependsOn, Declared
  <2> QED BY <1>1, <1>2, <1>11, <2>1 DEF Report, walk, SearchInv
<1>12. CASE UNCHANGED vars
  <2>1. NoCycleMissed'
    BY <1>12 DEF vars, walk, inputs, SearchInv, NoCycleMissed, HasCycle, Circular,
                 DependsOn, Declared
  <2> QED BY <1>1, <1>2, <1>12, <2>1 DEF vars, walk, SearchInv
<1> QED BY <1>4, <1>5, <1>6, <1>7, <1>8, <1>9, <1>10, <1>11, <1>12 DEF Next

LEMMA SearchInvariant == Spec => []SearchInv
<1>1. Init => SearchInv
  <2> SUFFICES ASSUME Init PROVE SearchInv
    OBVIOUS
  <2>1. \A n \in Contexts : colour[n] = "white"
    BY DEF Init
  <2>2. LookedAt /\ BlackAcyclic
    BY <2>1 DEF LookedAt, BlackAcyclic, Circular
  <2> QED BY <2>2, TypeInit DEF Init, SearchInv, NoCycleMissed
<1> QED BY <1>1, SearchStep, PTL DEF Spec

\* When find_cycle returns None the dependencies are acyclic.
THEOREM NoneMeansAcyclic == Spec => []NoCycleMissed
BY SearchInvariant, PTL DEF SearchInv

-----------------------------------------------------------------------------
(* The outcome of ARCH-050 *)

\* The findings while the search runs are those before it.
FindingsKept == pc \in {"search", "report"} => findings = Membership

OutcomeInv == CycleInv /\ SearchInv /\ FindingsKept /\ FailsExactlyWhenFaulty

\* A cycle of the graph is a set of nodes with a dependency in the set each.
LEMMA RealCycleIsCircular ==
  ASSUME TypeInv, CycleIsReal, cycle # <<>>
  PROVE  HasCycle
<1>1. cycle \in Seq(Contexts)
  BY DEF TypeInv, TypeOK
<1>2. /\ Len(cycle) \in Nat /\ Len(cycle) > 1
      /\ cycle[1] = cycle[Len(cycle)]
      /\ \A i \in 1..(Len(cycle) - 1) : cycle[i + 1] \in DependsOn(cycle[i])
  BY <1>1 DEF CycleIsReal
<1> DEFINE S == {cycle[i] : i \in 1..Len(cycle)}
<1>3. S \in SUBSET Contexts
  BY <1>1
<1>4. \A n \in S : \E m \in S : m \in DependsOn(n)
  <2> SUFFICES ASSUME NEW i \in 1..Len(cycle)
               PROVE  \E m \in S : m \in DependsOn(cycle[i])
    OBVIOUS
  <2>1. CASE i = Len(cycle)
    <3>1. 1 \in 1..(Len(cycle) - 1) /\ 2 \in 1..Len(cycle) /\ 1 + 1 = 2
      BY <1>2
    <3>2. cycle[2] \in DependsOn(cycle[1])
      BY <3>1, <1>2
    <3> QED BY <3>1, <3>2, <2>1, <1>2
  <2>2. CASE i # Len(cycle)
    <3>1. i \in 1..(Len(cycle) - 1) /\ i + 1 \in 1..Len(cycle)
      BY <2>2, <1>2
    <3> QED BY <3>1, <1>2
  <2> QED BY <2>1, <2>2
<1>5. S # {}
  BY <1>2
<1> HIDE DEF S
<1> QED BY <1>3, <1>4, <1>5 DEF HasCycle, Circular

\* There is nothing to say before the search when the sets agree and every
\* dependency is declared, and then only.
LEMMA NothingFound ==
  Membership = {} <=>
    Declared = detected /\ ~\E n \in Declared : graph[n] \ Declared # {}
BY DEF Membership

LEMMA ReportOutcome ==
  ASSUME OutcomeInv, Report
  PROVE  FailsExactlyWhenFaulty'
<1>1. /\ UNCHANGED inputs
      /\ manifest = "parsed"
      /\ findings = Membership
      /\ findings' = findings \cup (IF cycle # <<>> THEN {"cycle"} ELSE {})
      /\ outcome' = IF findings' = {} THEN "PASS" ELSE "FAIL"
  BY DEF OutcomeInv, CycleInv, TypeInv, Searchable, FindingsKept, Report
<1>2. cycle # <<>> <=> HasCycle
  <2>1. CASE cycle # <<>>
    BY <2>1, RealCycleIsCircular DEF OutcomeInv, CycleInv
  <2>2. CASE cycle = <<>>
    BY <2>2, <1>1 DEF OutcomeInv, SearchInv, NoCycleMissed, Report
  <2> QED BY <2>1, <2>2
<1>3. findings' = {} <=> Membership = {} /\ cycle = <<>>
  BY <1>1
<1>4. outcome' = "FAIL" <=> ~(Membership = {} /\ cycle = <<>>)
  BY <1>1, <1>3
<1>5. outcome' = "FAIL" <=>
        \/ Declared # detected
        \/ \E n \in Declared : graph[n] \ Declared # {}
        \/ HasCycle
  BY <1>2, <1>4, NothingFound
<1> QED BY <1>1, <1>5 DEF FailsExactlyWhenFaulty, HasCycle, Circular, DependsOn,
                          Declared, inputs

LEMMA OutcomeStep == OutcomeInv /\ [Next]_vars => OutcomeInv'
<1> SUFFICES ASSUME OutcomeInv, [Next]_vars PROVE OutcomeInv'
  OBVIOUS
<1>1. CycleInv' /\ SearchInv'
  BY CycleStep, SearchStep DEF OutcomeInv
<1>2. ASSUME UNCHANGED <<inputs, findings>>, pc' \in {"search", "report"} => pc = "search"
      PROVE  FindingsKept'
  BY <1>2 DEF OutcomeInv, FindingsKept, Membership, Declared, inputs
<1>3. ASSUME pc' # "done" PROVE FailsExactlyWhenFaulty'
  BY <1>3 DEF FailsExactlyWhenFaulty
<1>4. CASE NoManifest \/ InvalidManifest
  <2>1. FindingsKept' /\ FailsExactlyWhenFaulty'
    BY <1>4 DEF NoManifest, InvalidManifest, Decide, inputs, FindingsKept, FailsExactlyWhenFaulty
  <2> QED BY <1>1, <2>1 DEF OutcomeInv
<1>5. CASE UnhashableDependency
  BY <1>1, <1>3, <1>5 DEF UnhashableDependency, FindingsKept, OutcomeInv
<1>6. CASE CompareWithLayout
  BY <1>1, <1>3, <1>6 DEF CompareWithLayout, FindingsKept, Membership, Declared, inputs, OutcomeInv
<1>7. ASSUME NEW n \in Contexts,
             VisitRoot(n) \/ VisitDependency(n) \/ SkipDependency(n) \/ CloseCycle(n)
      PROVE  OutcomeInv'
  BY <1>1, <1>2, <1>3, <1>7
     DEF VisitRoot, VisitDependency, SkipDependency, CloseCycle, OutcomeInv
<1>8. CASE LeaveNode \/ NoCycle
  BY <1>1, <1>2, <1>3, <1>8 DEF LeaveNode, NoCycle, OutcomeInv
<1>9. CASE Report
  BY <1>1, <1>9, ReportOutcome DEF Report, FindingsKept, OutcomeInv
<1>10. CASE UNCHANGED vars
  BY <1>1, <1>10 DEF vars, inputs, walk, OutcomeInv, FindingsKept, Membership, FailsExactlyWhenFaulty,
                     HasCycle, Circular, DependsOn, Declared
<1> QED BY <1>4, <1>5, <1>6, <1>7, <1>8, <1>9, <1>10 DEF Next

\* ARCH-050 fails exactly when the manifest and the layout disagree, a
\* dependency is not declared, or the dependencies are circular.
THEOREM OutcomeIsRight == Spec => []FailsExactlyWhenFaulty
<1>1. Init => FindingsKept /\ FailsExactlyWhenFaulty
  BY DEF Init, FindingsKept, FailsExactlyWhenFaulty
<1>2. OutcomeInv /\ [Next]_vars => OutcomeInv'
  BY OutcomeStep
<1>3. CycleInv /\ SearchInv /\ FindingsKept /\ FailsExactlyWhenFaulty => OutcomeInv
  BY DEF OutcomeInv
<1>4. OutcomeInv => FailsExactlyWhenFaulty
  BY DEF OutcomeInv
<1> QED BY <1>1, <1>2, <1>3, <1>4, CycleInvariant, SearchInvariant, PTL DEF Spec
=============================================================================
