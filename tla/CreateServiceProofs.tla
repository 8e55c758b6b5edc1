------------------------ MODULE CreateServiceProofs -------------------------
(***************************************************************************)
(* Proofs about CreateService: for any number of callers sharing the       *)
(* service, the bus announces only aggregates the repository has; for      *)
(* callers one at a time, the service implements publish-after-commit.     *)
(***************************************************************************)
EXTENDS CreateService, FiniteSetTheorems, TLAPS

(* Sequences *)

LEMMA EmptySeq == \A S : <<>> \in Seq(S) /\ DOMAIN <<>> = {}
OBVIOUS

\* Append adds its argument and keeps the rest.
LEMMA Appended ==
  ASSUME NEW S, NEW s \in Seq(S), NEW e \in S, NEW i \in DOMAIN Append(s, e)
  PROVE  Append(s, e)[i] = e \/ (i \in DOMAIN s /\ Append(s, e)[i] = s[i])
OBVIOUS

\* track() adds its argument at most.
LEMMA TrackedAfter ==
  ASSUME TypeOK, NEW c \in Callers, Track(c), NEW i \in DOMAIN tracked'
  PROVE  /\ own[c] \in Aggregates
         /\ tracked'[i] = own[c] \/ (i \in DOMAIN tracked /\ tracked'[i] = tracked[i])
<1>1. pc[c] = "added" /\ (tracked' = tracked \/ tracked' = Append(tracked, own[c]))
  BY DEF Track, Go, Uow!Track
<1>2. own[c] \in Aggregates /\ tracked \in Seq(Aggregates)
  BY <1>1 DEF TypeOK, Uow!MemTypeOK
<1> QED BY <1>1, <1>2, Appended

-----------------------------------------------------------------------------
(* Types *)

LEMMA InitType == Init => TypeOK
<1> SUFFICES ASSUME Init PROVE TypeOK
  OBVIOUS
<1>1. Uow!MemTypeOK
  BY EmptySeq DEF Init, Uow!Init, Uow!MemTypeOK
<1>2. published \in [Aggregates -> Nat] /\ repository \subseteq Aggregates
  BY DEF Init
<1>3. position \in [Callers -> Nat] /\ size \in [Callers -> Nat]
  BY DEF Init
<1> QED BY <1>1, <1>2, <1>3, ServiceAssumption DEF Init, TypeOK, Steps

\* What each method does to the types of the unit of work.
LEMMA UowType ==
  ASSUME Uow!MemTypeOK,
         \/ UNCHANGED uowVars
         \/ Uow!Enter \/ Uow!Commit \/ Uow!Exit
         \/ \E a \in Aggregates : Uow!Raise(a, a) \/ Uow!Track(a) \/ Uow!Clear(a)
  PROVE  Uow!MemTypeOK'
<1> USE DEF Uow!MemTypeOK
<1>1. CASE UNCHANGED uowVars
  BY <1>1 DEF uowVars
<1>2. CASE Uow!Enter \/ Uow!Commit
  BY <1>2 DEF Uow!Enter, Uow!Commit
<1>3. CASE Uow!Exit
  BY <1>3, EmptySeq DEF Uow!Exit, Uow!Rollback, Uow!memVars
<1>4. ASSUME NEW a \in Aggregates, Uow!Raise(a, a) \/ Uow!Clear(a)
      PROVE  Uow!MemTypeOK'
  BY <1>4 DEF Uow!Raise, Uow!Clear
<1>5. ASSUME NEW a \in Aggregates, Uow!Track(a)
      PROVE  Uow!MemTypeOK'
  BY <1>5 DEF Uow!Track
<1> QED BY <1>1, <1>2, <1>3, <1>4, <1>5

LEMMA NextType == TypeOK /\ [Next]_vars => TypeOK'
<1> SUFFICES ASSUME TypeOK, [Next]_vars PROVE TypeOK'
  OBVIOUS
<1> USE ServiceAssumption DEF TypeOK, Steps, Go, loopVars
<1>1. CASE UNCHANGED vars
  <2>1. Uow!MemTypeOK'
    BY <1>1, UowType DEF vars
  <2> QED BY <1>1, <2>1 DEF vars, callerVars
<1>2. ASSUME NEW c \in Callers, Enter(c) PROVE TypeOK'
  <2>1. Uow!MemTypeOK'
    BY <1>2, UowType DEF Enter
  <2> QED BY <1>2, <2>1 DEF Enter
<1>3. ASSUME NEW c \in Callers, CallStep(c) PROVE TypeOK'
  <2>1. ASSUME NEW a \in Aggregates, Create(c, a) PROVE TypeOK'
    <3>1. Uow!MemTypeOK'
      BY <2>1, UowType DEF Create
    <3> QED BY <2>1, <3>1 DEF Create
  <2>2. CASE Add(c)
    <3>1. Uow!MemTypeOK'
      BY <2>2, UowType DEF Add
    <3> QED BY <2>2, <3>1 DEF Add
  <2>3. CASE Track(c)
    <3>1. own[c] \in Aggregates
      BY <2>3 DEF Track
    <3>2. Uow!MemTypeOK'
      BY <2>3, <3>1, UowType DEF Track
    <3> QED BY <2>3, <3>2 DEF Track
  <2>4. CASE Commit(c)
    <3>1. Uow!MemTypeOK'
      BY <2>4, UowType DEF Commit
    <3> QED BY <2>4, <3>1 DEF Commit
  <2>5. CASE ExitBlock(c)
    <3>1. Uow!MemTypeOK'
      BY <2>5, UowType DEF ExitBlock
    <3> QED BY <2>5, <3>1 DEF ExitBlock
  <2>6. CASE CollectNewEvents(c)
    <3>1. Uow!MemTypeOK'
      BY <2>6, UowType DEF CollectNewEvents
    <3>2. Len(tracked) \in Nat
      BY DEF Uow!MemTypeOK
    <3> QED BY <2>6, <3>1, <3>2 DEF CollectNewEvents
  <2>7. ASSUME NEW a \in Aggregates, Take(c, a) PROVE TypeOK'
    <3>1. Uow!MemTypeOK'
      BY <2>7, UowType DEF Take
    <3>2. pending[a] \subseteq Aggregates
      BY DEF Uow!MemTypeOK
    <3> QED BY <2>7, <3>1, <3>2 DEF Take
  <2>8. ASSUME NEW a \in Aggregates, Pass(c, a) PROVE TypeOK'
    <3>1. Uow!MemTypeOK'
      BY <2>8, UowType DEF Pass
    <3> QED BY <2>8, <3>1 DEF Pass
  <2>9. CASE Clear(c)
    <3>1. taking[c] \in Aggregates
      BY <2>9 DEF Clear
    <3>2. Uow!MemTypeOK'
      BY <2>9, <3>1, UowType DEF Clear
    <3> QED BY <2>9, <3>2 DEF Clear
  <2>10. CASE EndOfLoop(c)
    <3>1. Uow!MemTypeOK'
      BY <2>10, UowType DEF EndOfLoop
    <3> QED BY <2>10, <3>1 DEF EndOfLoop
  <2>11. CASE PublishAll(c)
    <3>1. Uow!MemTypeOK'
      BY <2>11, UowType DEF PublishAll
    <3> QED BY <2>11, <3>1 DEF PublishAll, Return
  <2> QED BY <1>3, <2>1, <2>2, <2>3, <2>4, <2>5, <2>6, <2>7, <2>8, <2>9, <2>10, <2>11
          DEF CallStep
<1>4. ASSUME NEW c \in Callers, Raise(c) PROVE TypeOK'
  <2>1. Uow!MemTypeOK'
    BY <1>4, UowType DEF Raise
  <2> QED BY <1>4, <2>1 DEF Raise
<1>5. ASSUME NEW c \in Callers, CollectRaises(c) \/ PublishRaises(c) PROVE TypeOK'
  <2>1. Uow!MemTypeOK'
    BY <1>5, UowType DEF CollectRaises, PublishRaises
  <2> QED BY <1>5, <2>1 DEF CollectRaises, PublishRaises, Return
<1> QED BY <1>1, <1>2, <1>3, <1>4, <1>5 DEF Next, Fault

\* Types, and no caller keeps an aggregate or a list of events between calls.
THEOREM TypeCorrect == Spec => []TypeOK
  BY InitType, NextType, PTL DEF Spec

-----------------------------------------------------------------------------
(* Stored before published, for any number of callers *)

\* From the repository an aggregate goes to the unit of work, its event from
\* there to a caller, and from there to the bus.
Stored ==
  /\ \A c \in Callers : pc[c] = "added" => own[c] \in repository
  /\ \A i \in DOMAIN tracked : tracked[i] \in repository
  /\ \A a \in Aggregates : pending[a] \subseteq {a}
  /\ \A c \in Callers : collected[c] \subseteq repository
  /\ StoredBeforePublished

LEMMA NextStored == TypeOK /\ Stored /\ [Next]_vars => Stored'
<1> SUFFICES ASSUME TypeOK, Stored, [Next]_vars PROVE Stored'
  OBVIOUS
<1> USE DEF Stored, StoredBeforePublished, Go
<1>0. /\ pc \in [Callers -> Steps]
      /\ own \in [Callers -> Aggregates \cup {None}]
      /\ collected \in [Callers -> SUBSET Aggregates]
      /\ published \in [Aggregates -> Nat]
      /\ tracked \in Seq(Aggregates)
      /\ pending \in [Aggregates -> SUBSET Aggregates]
  BY DEF TypeOK, Uow!MemTypeOK
<1>1. CASE UNCHANGED vars
  BY <1>1 DEF vars, uowVars, callerVars
<1>2. ASSUME NEW c \in Callers, Enter(c) PROVE Stored'
  BY <1>0, <1>2 DEF Enter, Uow!Enter
<1>3. ASSUME NEW c \in Callers, CallStep(c) PROVE Stored'
  <2>1. ASSUME NEW a \in Aggregates, Create(c, a) PROVE Stored'
    BY <1>0, <2>1 DEF Create, Uow!Raise
  <2>2. CASE Add(c)
    BY <1>0, <2>2 DEF Add, uowVars
  <2>3. CASE Track(c)
    <3>1. own[c] \in repository /\ UNCHANGED <<repository, pending, own, collected, published>>
      BY <2>3 DEF Track, Uow!Track
    <3>3. \A i \in DOMAIN tracked' : tracked'[i] \in repository
      BY <2>3, <3>1, TrackedAfter
    <3>4. \A d \in Callers : pc'[d] = "added" => pc[d] = "added"
      BY <1>0, <2>3 DEF Track
    <3> QED BY <3>1, <3>3, <3>4
  <2>4. CASE Commit(c)
    BY <1>0, <2>4 DEF Commit, Uow!Commit
  <2>5. CASE ExitBlock(c)
    BY <1>0, <2>5 DEF ExitBlock, Uow!Exit, Uow!Rollback, Uow!memVars
  <2>6. CASE CollectNewEvents(c)
    BY <1>0, <2>6 DEF CollectNewEvents, uowVars
  <2>7. ASSUME NEW a \in Aggregates, Take(c, a) PROVE Stored'
    <3>1. a \in repository
      <4>1. Uow!LooksAt(a, position[c], size[c]) /\ position[c] \in Nat
        BY <2>7 DEF Take, TypeOK
      <4>2. position[c] + 1 \in DOMAIN tracked
        BY <1>0, <4>1 DEF Uow!LooksAt
      <4> QED BY <4>1, <4>2 DEF Uow!LooksAt
    <3> QED BY <1>0, <2>7, <3>1 DEF Take, uowVars
  <2>8. ASSUME NEW a \in Aggregates, Pass(c, a) PROVE Stored'
    BY <1>0, <2>8 DEF Pass, uowVars
  <2>9. CASE Clear(c)
    BY <1>0, <2>9 DEF Clear, Uow!Clear
  <2>10. CASE EndOfLoop(c)
    BY <1>0, <2>10 DEF EndOfLoop, uowVars
  <2>11. CASE PublishAll(c)
    BY <1>0, <2>11 DEF PublishAll, Return, uowVars
  <2> QED BY <1>3, <2>1, <2>2, <2>3, <2>4, <2>5, <2>6, <2>7, <2>8, <2>9, <2>10, <2>11
          DEF CallStep
<1>4. ASSUME NEW c \in Callers, Raise(c) PROVE Stored'
  BY <1>0, <1>4 DEF Raise, Uow!Exit, Uow!Rollback, Uow!memVars
<1>5. ASSUME NEW c \in Callers, CollectRaises(c) \/ PublishRaises(c) PROVE Stored'
  BY <1>0, <1>5 DEF CollectRaises, PublishRaises, Return, uowVars
<1> QED BY <1>1, <1>2, <1>3, <1>4, <1>5 DEF Next, Fault

\* However many callers interleave on the shared unit of work, the bus never
\* announces an aggregate that the repository does not have.
THEOREM StoredFirst == Spec => []StoredBeforePublished
<1>1. Init => Stored
  BY DEF Init, Stored, StoredBeforePublished, Uow!Init
<1>2. Stored => StoredBeforePublished
  BY DEF Stored
<1> QED BY <1>1, <1>2, InitType, NextType, NextStored, PTL DEF Spec

-----------------------------------------------------------------------------
(* Once per caller *)

\* The callers that took the aggregate's event and have not published it yet.
Holders(a) == {c \in Callers : a \in collected[c]}

\* An event may be taken as long as its aggregate has it, and until then its
\* takers wait at their clear(): none has published, none takes it again. From
\* the first clear() on, each taker publishes it once or loses it.
Shares ==
  \A a \in Aggregates :
    /\ pending[a] \subseteq {a}
    /\ a \in pending[a] => published[a] = 0 /\ \A c \in Holders(a) : taking[c] = a
    /\ fate[a] = "unused" => pending[a] = {} /\ published[a] = 0 /\ Holders(a) = {}
    /\ published[a] + Cardinality(Holders(a)) <= Cardinality(Callers)

\* A set of callers is no larger than all of them.
LEMMA HoldersCount ==
  /\ Cardinality(Callers) \in Nat
  /\ \A T \in SUBSET Callers :
       IsFiniteSet(T) /\ Cardinality(T) \in Nat /\ Cardinality(T) <= Cardinality(Callers)
<1>1. \A T \in SUBSET Callers :
        IsFiniteSet(T) /\ Cardinality(T) <= Cardinality(Callers)
  BY CallersAssumption, FS_Subset
<1> QED BY <1>1, CallersAssumption, FS_CardinalityType

\* What keeps the count: callers that let go of an event, and a first taking.
LEMMA KeptCount ==
  ASSUME Shares, NEW a \in Aggregates, published[a] \in Nat,
         NEW H \in SUBSET Callers,
         H \subseteq Holders(a) \/ published[a] = 0
  PROVE  published[a] + Cardinality(H) <= Cardinality(Callers)
<1>1. CASE published[a] = 0
  BY <1>1, HoldersCount
<1>2. CASE H \subseteq Holders(a)
  <2>1. Holders(a) \in SUBSET Callers
    BY DEF Holders
  <2>2. Cardinality(H) <= Cardinality(Holders(a))
    BY <1>2, <2>1, HoldersCount, FS_Subset
  <2>3. published[a] + Cardinality(Holders(a)) <= Cardinality(Callers)
    BY DEF Shares
  <2> QED BY <2>1, <2>2, <2>3, HoldersCount
<1> QED BY <1>1, <1>2

\* A step that publishes nothing, hands no event to a caller and puts none on
\* an aggregate that is in use.
LEMMA NoTaking ==
  ASSUME TypeOK, Shares, UNCHANGED published,
         \A d \in Callers : collected'[d] \subseteq collected[d],
         \A a \in Aggregates :
           /\ \/ pending'[a] = {}
              \/ pending'[a] = pending[a]
              \/ pending'[a] = pending[a] \cup {a} /\ fate[a] = "unused"
           /\ pending'[a] # {} => \A d \in Callers :
                 a \in collected'[d] => taking'[d] = taking[d]
           /\ fate'[a] = "unused" => fate[a] = "unused" /\ pending'[a] = pending[a]
  PROVE  Shares'
<1>1. published \in [Aggregates -> Nat]
  BY DEF TypeOK
<1> SUFFICES ASSUME NEW a \in Aggregates
             PROVE /\ pending'[a] \subseteq {a}
                   /\ a \in pending'[a] =>
                        published'[a] = 0 /\ \A c \in Holders(a)' : taking'[c] = a
                   /\ fate'[a] = "unused" =>
                        pending'[a] = {} /\ published'[a] = 0 /\ Holders(a)' = {}
                   /\ published'[a] + Cardinality(Holders(a)') <= Cardinality(Callers)
  BY DEF Shares
<1>2. Holders(a)' \subseteq Holders(a) /\ Holders(a)' \in SUBSET Callers
  BY DEF Holders
<1>3. published'[a] + Cardinality(Holders(a)') <= Cardinality(Callers)
  BY <1>1, <1>2, KeptCount
<1>4. pending'[a] \subseteq {a}
  BY DEF Shares
<1>5. a \in pending'[a] =>
        published'[a] = 0 /\ \A c \in Holders(a)' : taking'[c] = a
  BY <1>2 DEF Shares, Holders
<1>6. fate'[a] = "unused" =>
        pending'[a] = {} /\ published'[a] = 0 /\ Holders(a)' = {}
  BY <1>2 DEF Shares
<1> QED BY <1>3, <1>4, <1>5, <1>6

LEMMA NextShares == TypeOK /\ Shares /\ [Next]_vars => Shares'
<1> SUFFICES ASSUME TypeOK, Shares, [Next]_vars PROVE Shares'
  OBVIOUS
<1> USE DEF Go, uowVars, loopVars
<1>0. /\ pc \in [Callers -> Steps]
      /\ own \in [Callers -> Aggregates \cup {None}]
      /\ collected \in [Callers -> SUBSET Aggregates]
      /\ taking \in [Callers -> Aggregates \cup {None}]
      /\ fate \in [Aggregates -> {"unused", "open", "committed", "failed"}]
      /\ published \in [Aggregates -> Nat]
      /\ pending \in [Aggregates -> SUBSET Aggregates]
      /\ \A c \in Callers : taking[c] # None <=> pc[c] = "clearing"
  BY DEF TypeOK, Uow!MemTypeOK
<1>1. CASE UNCHANGED vars
  BY <1>1, NoTaking DEF vars, callerVars
<1>2. ASSUME NEW c \in Callers, Enter(c) PROVE Shares'
  BY <1>2, NoTaking DEF Enter, Uow!Enter
<1>3. ASSUME NEW c \in Callers, CallStep(c) PROVE Shares'
  <2>1. ASSUME NEW a \in Aggregates, Create(c, a) PROVE Shares'
    <3>1. /\ fate[a] = "unused" /\ UNCHANGED <<collected, taking, published>>
          /\ pending' = [pending EXCEPT ![a] = @ \cup {a}]
          /\ fate' = [fate EXCEPT ![a] = "open"]
      BY <2>1 DEF Create, Uow!Raise
    <3>2. \A b \in Aggregates :
            /\ pending'[b] = IF b = a THEN pending[b] \cup {b} ELSE pending[b]
            /\ fate'[b] = IF b = a THEN "open" ELSE fate[b]
      BY <1>0, <3>1
    <3> QED BY <3>1, <3>2, NoTaking
  <2>2. CASE Add(c)
    BY <2>2, NoTaking DEF Add
  <2>3. CASE Track(c)
    BY <2>3, NoTaking DEF Track, Uow!Track
  <2>4. CASE Commit(c)
    <3>1. fate' = [fate EXCEPT ![own[c]] = "committed"]
      BY <2>4 DEF Commit
    <3>2. \A b \in Aggregates : fate'[b] = "unused" => fate[b] = "unused"
      BY <1>0, <3>1
    <3> QED BY <2>4, <3>2, NoTaking DEF Commit, Uow!Commit
  <2>5. CASE ExitBlock(c)
    BY <2>5, NoTaking DEF ExitBlock, Uow!Exit, Uow!Rollback, Uow!memVars
  <2>6. CASE CollectNewEvents(c)
    BY <2>6, NoTaking DEF CollectNewEvents
  <2>7. ASSUME NEW a \in Aggregates, Take(c, a) PROVE Shares'
    <3>1. /\ pc[c] = "collecting" /\ pending[a] # {}
          /\ collected' = [collected EXCEPT ![c] = @ \cup pending[a]]
          /\ taking' = [taking EXCEPT ![c] = a]
          /\ UNCHANGED <<pending, fate, published>>
      BY <2>7 DEF Take
    <3>2. pending[a] = {a} /\ published[a] = 0 /\ fate[a] # "unused"
      BY <3>1 DEF Shares
    <3>3. taking[c] = None
      BY <1>0, <3>1
    <3> SUFFICES ASSUME NEW b \in Aggregates
                 PROVE /\ pending'[b] \subseteq {b}
                       /\ b \in pending'[b] =>
                            published'[b] = 0 /\ \A d \in Holders(b)' : taking'[d] = b
                       /\ fate'[b] = "unused" =>
                            pending'[b] = {} /\ published'[b] = 0 /\ Holders(b)' = {}
                       /\ published'[b] + Cardinality(Holders(b)') <= Cardinality(Callers)
      BY DEF Shares
    <3>4. Holders(b)' \in SUBSET Callers
      BY DEF Holders
    <3>5. \A d \in Callers : collected'[d] = IF d = c THEN collected[d] \cup {a} ELSE collected[d]
      BY <1>0, <3>1, <3>2
    <3>6. CASE b = a
      <4>1. \A d \in Holders(b)' : taking'[d] = b
        BY <1>0, <3>1, <3>2, <3>5, <3>6 DEF Shares, Holders
      <4>2. published'[b] + Cardinality(Holders(b)') <= Cardinality(Callers)
        BY <1>0, <3>1, <3>2, <3>4, <3>6, KeptCount
      <4> QED BY <3>1, <3>2, <3>6, <4>1, <4>2
    <3>7. CASE b # a
      <4>1. Holders(b)' = Holders(b)
        BY <3>5, <3>7 DEF Holders
      <4>2. ASSUME b \in pending[b], NEW d \in Holders(b) PROVE taking'[d] = b
        <5>1. d \in Callers /\ taking[d] = b
          BY <4>2 DEF Shares, Holders
        <5>2. d # c
          BY <3>3, <5>1, ServiceAssumption
        <5> QED BY <1>0, <3>1, <5>1, <5>2
      <4> QED BY <3>1, <4>1, <4>2 DEF Shares
    <3> QED BY <3>6, <3>7
  <2>8. ASSUME NEW a \in Aggregates, Pass(c, a) PROVE Shares'
    BY <2>8, NoTaking DEF Pass
  <2>9. CASE Clear(c)
    <3>1. /\ UNCHANGED <<collected, fate, published>>
          /\ pending' = [pending EXCEPT ![taking[c]] = {}]
          /\ taking' = [taking EXCEPT ![c] = None]
          /\ taking[c] \in Aggregates
      BY <1>0, <2>9 DEF Clear, Uow!Clear
    <3>2. \A b \in Aggregates : pending'[b] = IF b = taking[c] THEN {} ELSE pending[b]
      BY <1>0, <3>1
    <3>3. ASSUME NEW b \in Aggregates, pending'[b] # {},
                 NEW d \in Callers, b \in collected'[d]
          PROVE  taking'[d] = taking[d]
      <4>1. pending[b] # {} /\ b # taking[c] /\ d \in Holders(b)
        BY <3>1, <3>2, <3>3 DEF Holders
      <4>2. taking[d] = b
        BY <4>1 DEF Shares
      <4>3. d # c
        BY <4>1, <4>2
      <4> QED BY <1>0, <3>1, <4>3
    <3>4. \A b \in Aggregates : fate'[b] = "unused" => pending'[b] = pending[b]
      BY <3>1, <3>2 DEF Shares
    <3> QED BY <3>1, <3>2, <3>3, <3>4, NoTaking
  <2>10. CASE EndOfLoop(c)
    BY <2>10, NoTaking DEF EndOfLoop
  <2>11. CASE PublishAll(c)
    <3>1. /\ pc[c] = "collected" /\ taking[c] = None
          /\ collected' = [collected EXCEPT ![c] = {}]
          /\ published' = [a \in Aggregates |->
                             published[a] + IF a \in collected[c] THEN 1 ELSE 0]
          /\ UNCHANGED <<pending, fate, taking>>
      BY <1>0, <2>11 DEF PublishAll, Return
    <3> SUFFICES ASSUME NEW b \in Aggregates
                 PROVE /\ pending'[b] \subseteq {b}
                       /\ b \in pending'[b] =>
                            published'[b] = 0 /\ \A d \in Holders(b)' : taking'[d] = b
                       /\ fate'[b] = "unused" =>
                            pending'[b] = {} /\ published'[b] = 0 /\ Holders(b)' = {}
                       /\ published'[b] + Cardinality(Holders(b)') <= Cardinality(Callers)
      BY DEF Shares
    <3>2. Holders(b)' = Holders(b) \ {c} /\ Holders(b) \in SUBSET Callers
      BY <1>0, <3>1 DEF Holders
    <3>3. published'[b] = published[b] + IF c \in Holders(b) THEN 1 ELSE 0
      BY <1>0, <3>1 DEF Holders
    <3>4. published'[b] + Cardinality(Holders(b)') <= Cardinality(Callers)
      <4>1. published[b] + Cardinality(Holders(b)) <= Cardinality(Callers)
        BY DEF Shares
      <4>2. /\ Cardinality(Holders(b)) \in Nat /\ Cardinality(Callers) \in Nat
            /\ Cardinality(Holders(b)') =
                 IF c \in Holders(b) THEN Cardinality(Holders(b)) - 1
                                     ELSE Cardinality(Holders(b))
        BY <3>2, HoldersCount, FS_RemoveElement
      <4> QED BY <1>0, <3>3, <4>1, <4>2
    <3>5. b \in pending[b] => c \notin Holders(b)
      BY <3>1, ServiceAssumption DEF Shares
    <3>6. fate[b] = "unused" => c \notin Holders(b)
      BY DEF Shares
    <3> QED BY <1>0, <3>1, <3>2, <3>3, <3>4, <3>5, <3>6 DEF Shares
  <2> QED BY <1>3, <2>1, <2>2, <2>3, <2>4, <2>5, <2>6, <2>7, <2>8, <2>9, <2>10, <2>11
          DEF CallStep
<1>4. ASSUME NEW c \in Callers, Raise(c) PROVE Shares'
  <2>1. \A b \in Aggregates : fate'[b] = "unused" => fate[b] = "unused"
    BY <1>0, <1>4 DEF Raise
  <2> QED BY <1>4, <2>1, NoTaking DEF Raise, Uow!Exit, Uow!Rollback, Uow!memVars
<1>5. ASSUME NEW c \in Callers, CollectRaises(c) \/ PublishRaises(c) PROVE Shares'
  <2>1. \A d \in Callers : collected'[d] \subseteq collected[d]
    BY <1>0, <1>5 DEF CollectRaises, PublishRaises, Return
  <2> QED BY <1>5, <2>1, NoTaking DEF CollectRaises, PublishRaises, Return
<1> QED BY <1>1, <1>2, <1>3, <1>4, <1>5 DEF Next, Fault

\* For any number of callers: an event is published once per caller at most,
\* however their loops over the shared unit of work interleave.
THEOREM AtMostOncePerCaller == Spec => []OncePerCaller
<1>1. Init => Shares
  <2> SUFFICES ASSUME Init PROVE Shares
    OBVIOUS
  <2>1. \A a \in Aggregates : Holders(a) = {}
    BY DEF Init, Holders
  <2>2. Cardinality({}) = 0 /\ Cardinality(Callers) \in Nat
    BY FS_EmptySet, HoldersCount
  <2>3. \A a \in Aggregates :
          pending[a] = {} /\ published[a] = 0 /\ fate[a] = "unused"
    BY DEF Init, Uow!Init
  <2> QED BY <2>1, <2>2, <2>3 DEF Shares
<1>2. TypeOK /\ Shares => OncePerCaller
  <2> SUFFICES ASSUME TypeOK, Shares, NEW a \in Aggregates
               PROVE  published[a] <= Cardinality(Callers)
    BY DEF OncePerCaller
  <2>1. published[a] \in Nat /\ Holders(a) \in SUBSET Callers
    BY DEF TypeOK, Holders
  <2> QED BY <2>1, HoldersCount DEF Shares
<1> QED BY <1>1, <1>2, InitType, NextType, NextShares, PTL DEF Spec

-----------------------------------------------------------------------------
(* Publish-after-commit, for callers one at a time *)

\* What is tracked has committed, or is the aggregate of the block that is
\* still open, whose flag is down. An event is on its aggregate, with the
\* caller or published; on the aggregate and with the caller only between the
\* two steps of the loop.
OneCaller ==
  /\ \A c \in Callers :
       /\ pc[c] \in {"entered", "created", "added", "tracked"} => ~committed
       /\ pc[c] \in {"created", "added", "tracked"} => fate[own[c]] = "open"
       /\ \A a \in collected[c] :
            fate[a] = "committed" /\ published[a] = 0 /\ (a \in pending[a] => taking[c] = a)
  /\ \A i \in DOMAIN tracked :
       \/ fate[tracked[i]] = "committed"
       \/ \E c \in Callers : pc[c] = "tracked" /\ own[c] = tracked[i]
  /\ \A a \in Aggregates :
       /\ pending[a] \subseteq {a}
       /\ a \in pending[a] => published[a] = 0
       /\ fate[a] = "unused" => pending[a] = {} /\ published[a] = 0

LEMMA NextOneCaller ==
  ASSUME \A c, d \in Callers : c = d
  PROVE  TypeOK /\ OneCaller /\ [Next]_vars => OneCaller'
<1> SUFFICES ASSUME TypeOK, OneCaller, [Next]_vars PROVE OneCaller'
  OBVIOUS
<1> USE DEF OneCaller, Go
<1>0. /\ pc \in [Callers -> Steps]
      /\ own \in [Callers -> Aggregates \cup {None}]
      /\ collected \in [Callers -> SUBSET Aggregates]
      /\ taking \in [Callers -> Aggregates \cup {None}]
      /\ published \in [Aggregates -> Nat]
      /\ fate \in [Aggregates -> {"unused", "open", "committed", "failed"}]
      /\ tracked \in Seq(Aggregates)
      /\ pending \in [Aggregates -> SUBSET Aggregates]
      /\ \A c \in Callers :
           /\ own[c] = None <=> pc[c] \in {"idle", "entered"}
           /\ pc[c] \notin {"collecting", "clearing", "collected"} => collected[c] = {}
           /\ taking[c] # None <=> pc[c] = "clearing"
  BY DEF TypeOK, Uow!MemTypeOK
<1>1. CASE UNCHANGED vars
  BY <1>1 DEF vars, uowVars, callerVars, loopVars
<1>2. ASSUME NEW c \in Callers, Enter(c) PROVE OneCaller'
  BY <1>0, <1>2 DEF Enter, Uow!Enter, loopVars
<1>3. ASSUME NEW c \in Callers, CallStep(c) PROVE OneCaller'
  <2>1. ASSUME NEW a \in Aggregates, Create(c, a) PROVE OneCaller'
    BY <1>0, <2>1 DEF Create, Uow!Raise, loopVars
  <2>2. CASE Add(c)
    BY <1>0, <2>2 DEF Add, uowVars, loopVars
  <2>3. CASE Track(c)
    <3>1. UNCHANGED <<committed, pending, own, collected, taking, fate, published>>
      BY <2>3 DEF Track, Uow!Track, loopVars
    <3>2. pc[c] = "added" /\ pc' = [pc EXCEPT ![c] = "tracked"]
      BY <2>3 DEF Track
    <3>3. \A i \in DOMAIN tracked : fate[tracked[i]] = "committed"
      BY <3>2
    <3>4. \A i \in DOMAIN tracked' :
            fate[tracked'[i]] = "committed" \/ tracked'[i] = own[c]
      BY <2>3, <3>3, TrackedAfter
    <3> QED BY <1>0, <3>1, <3>2, <3>4
  <2>4. CASE Commit(c)
    BY <1>0, <2>4 DEF Commit, Uow!Commit, loopVars
  <2>5. CASE ExitBlock(c)
    BY <1>0, <2>5 DEF ExitBlock, Uow!Exit, Uow!Rollback, Uow!memVars, loopVars
  <2>6. CASE CollectNewEvents(c)
    BY <1>0, <2>6 DEF CollectNewEvents, uowVars
  <2>7. ASSUME NEW a \in Aggregates, Take(c, a) PROVE OneCaller'
    <3>1. fate[a] = "committed"
      <4>1. Uow!LooksAt(a, position[c], size[c]) /\ position[c] \in Nat /\ pc[c] = "collecting"
        BY <2>7 DEF Take, TypeOK
      <4>2. position[c] + 1 \in DOMAIN tracked
        BY <1>0, <4>1 DEF Uow!LooksAt
      <4> QED BY <4>1, <4>2 DEF Uow!LooksAt
    <3>2. a \in pending[a] /\ pending[a] = {a} /\ published[a] = 0
      BY <2>7 DEF Take
    <3>3. \A b \in collected[c] : b \notin pending[b]
      <4>1. taking[c] = None /\ collected[c] \subseteq Aggregates
        BY <1>0, <2>7 DEF Take
      <4> QED BY <4>1, ServiceAssumption
    <3> QED BY <1>0, <2>7, <3>1, <3>2, <3>3 DEF Take, uowVars
  <2>8. ASSUME NEW a \in Aggregates, Pass(c, a) PROVE OneCaller'
    BY <1>0, <2>8 DEF Pass, uowVars
  <2>9. CASE Clear(c)
    <3>1. taking[c] \in Aggregates
      BY <1>0, <2>9 DEF Clear
    <3>2. \A a \in Aggregates : pending'[a] = IF a = taking[c] THEN {} ELSE pending[a]
      BY <1>0, <2>9, <3>1 DEF Clear, Uow!Clear
    <3> QED BY <1>0, <2>9, <3>1, <3>2 DEF Clear, Uow!Clear
  <2>10. CASE EndOfLoop(c)
    BY <1>0, <2>10 DEF EndOfLoop, uowVars, loopVars
  <2>11. CASE PublishAll(c)
    <3>1. taking[c] = None
      BY <1>0, <2>11 DEF PublishAll
    <3>2. \A a \in collected[c] : a \notin pending[a]
      BY <1>0, <3>1, ServiceAssumption
    <3> QED BY <1>0, <2>11, <3>2 DEF PublishAll, Return, uowVars
  <2> QED BY <1>3, <2>1, <2>2, <2>3, <2>4, <2>5, <2>6, <2>7, <2>8, <2>9, <2>10, <2>11
          DEF CallStep
<1>4. ASSUME NEW c \in Callers, Raise(c) PROVE OneCaller'
  <2>1. ~committed /\ tracked' = <<>>
    BY <1>4 DEF Raise, Uow!Exit, Uow!Rollback
  <2>2. UNCHANGED <<committed, pending, collected, taking, published>>
    BY <1>4 DEF Raise, Uow!Exit, Uow!Rollback, Uow!memVars, loopVars
  <2>3. pc'[c] = "idle" /\ collected[c] = {}
    BY <1>0, <1>4 DEF Raise
  <2>4. \A a \in Aggregates : fate'[a] = fate[a] \/ fate'[a] = "failed"
    BY <1>0, <1>4 DEF Raise
  <2>5. DOMAIN tracked' = {}
    BY <2>1
  <2> QED BY <1>0, <2>2, <2>3, <2>4, <2>5
<1>5. ASSUME NEW c \in Callers, CollectRaises(c) \/ PublishRaises(c) PROVE OneCaller'
  BY <1>0, <1>5 DEF CollectRaises, PublishRaises, Return, uowVars
<1> QED BY <1>1, <1>2, <1>3, <1>4, <1>5 DEF Next, Fault

\* With callers one at a time, the service is a publish-after-commit service:
\* each step commits, publishes committed events for the first time, or is
\* invisible.
THEOREM OneCallerImplementsPublication ==
  ASSUME \A c, d \in Callers : c = d
  PROVE  Spec => RefinesEventPublication
<1> DEFINE done == {a \in Aggregates : fate[a] = "committed"}
<1>1. Init => Publication!Init
  BY DEF Init, Publication!Init
<1>2. TypeOK /\ OneCaller /\ [Next]_vars
        => [Publication!Next]_(Publication!publicationVars)
  <2> SUFFICES ASSUME TypeOK, OneCaller, [Next]_vars
               PROVE  Publication!Next \/ UNCHANGED <<done, published>>
    BY DEF Publication!publicationVars
  <2>1. CASE UNCHANGED vars
    BY <2>1 DEF vars
  <2>2. ASSUME NEW c \in Callers, PublishAll(c) PROVE Publication!Next
    <3>1. collected[c] \in SUBSET {a \in done : published[a] = 0}
      BY DEF TypeOK, OneCaller
    <3>2. published' = [a \in Aggregates |->
                          published[a] + IF a \in collected[c] THEN 1 ELSE 0]
      BY <2>2 DEF PublishAll
    <3>3. done' = done
      BY <2>2 DEF PublishAll
    <3> QED BY <3>1, <3>2, <3>3 DEF Publication!Next, Publication!Publish
  <2>3. ASSUME NEW c \in Callers, Commit(c) PROVE Publication!Next
    <3>1. own[c] \in Aggregates
      BY <2>3 DEF Commit, Go, TypeOK
    <3>2. done' = done \cup {own[c]} /\ published' = published
      BY <2>3, <3>1 DEF Commit, TypeOK
    <3> QED BY <3>1, <3>2 DEF Publication!Next, Publication!CommitUseCase
  <2>4. ASSUME NEW c \in Callers, NEW a \in Aggregates, Create(c, a)
        PROVE  UNCHANGED <<done, published>>
    BY <2>4 DEF Create, TypeOK
  <2>5. ASSUME NEW c \in Callers, Raise(c) PROVE UNCHANGED <<done, published>>
    <3>1. own[c] # None => own[c] \in Aggregates /\ fate[own[c]] = "open"
      BY <2>5 DEF Raise, TypeOK, OneCaller
    <3> QED BY <2>5, <3>1 DEF Raise, TypeOK
  <2>6. ASSUME NEW c \in Callers, NEW a \in Aggregates, Take(c, a) \/ Pass(c, a)
        PROVE  UNCHANGED <<done, published>>
    BY <2>6 DEF Take, Pass
  <2>7. ASSUME NEW c \in Callers,
               \/ Enter(c) \/ Add(c) \/ Track(c) \/ ExitBlock(c)
               \/ CollectNewEvents(c) \/ Clear(c) \/ EndOfLoop(c)
               \/ CollectRaises(c) \/ PublishRaises(c)
        PROVE  UNCHANGED <<done, published>>
    BY <2>7 DEF Enter, Add, Track, ExitBlock, CollectNewEvents, Clear, EndOfLoop,
                CollectRaises, PublishRaises
  <2> QED BY <2>1, <2>2, <2>3, <2>4, <2>5, <2>6, <2>7 DEF Next, CallStep, Fault
<1>3. TypeOK /\ OneCaller /\ [Next]_vars => (TypeOK /\ OneCaller)'
  BY NextType, NextOneCaller
<1>4. Init => TypeOK /\ OneCaller
  BY InitType DEF Init, OneCaller, Uow!Init
<1> QED BY <1>1, <1>2, <1>3, <1>4, PTL DEF Spec, RefinesEventPublication, Publication!Safety
=============================================================================
