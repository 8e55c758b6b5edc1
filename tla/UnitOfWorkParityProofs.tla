----------------------- MODULE UnitOfWorkParityProofs -----------------------
(***************************************************************************)
(* Proofs about UnitOfWorkParity: what the two units of work return, for   *)
(* any number of aggregates and events and every service.                  *)
(***************************************************************************)
EXTENDS UnitOfWorkParity, Naturals, Sequences, TLAPS

(* Types *)

LEMMA EmptySeq == \A S : <<>> \in Seq(S) /\ DOMAIN <<>> = {}
OBVIOUS

\* Every method of the in-memory unit of work keeps its types.
LEMMA MemType ==
  ASSUME Mem!MemTypeOK,
         \/ UNCHANGED memVars
         \/ Mem!Enter \/ Mem!Commit \/ Mem!Rollback \/ Mem!Exit \/ Mem!CollectNewEvents
         \/ \E a \in Aggregates : Mem!Track(a) \/ \E e \in Events : Mem!Raise(a, e)
  PROVE  Mem!MemTypeOK'
<1> USE DEF Mem!MemTypeOK
<1>1. CASE UNCHANGED memVars
  BY <1>1 DEF memVars
<1>2. CASE Mem!Enter \/ Mem!Commit
  BY <1>2 DEF Mem!Enter, Mem!Commit
<1>3. CASE Mem!Rollback \/ Mem!Exit
  BY <1>3, EmptySeq DEF Mem!Exit, Mem!Rollback, Mem!memVars
<1>4. CASE Mem!CollectNewEvents
  BY <1>4 DEF Mem!CollectNewEvents
<1>5. ASSUME NEW a \in Aggregates, Mem!Track(a)
      PROVE  Mem!MemTypeOK'
  BY <1>5 DEF Mem!Track
<1>6. ASSUME NEW a \in Aggregates, NEW e \in Events, Mem!Raise(a, e)
      PROVE  Mem!MemTypeOK'
  BY <1>6 DEF Mem!Raise
<1> QED
  BY <1>1, <1>2, <1>3, <1>4, <1>5, <1>6

\* So does every method of the SQLAlchemy one, with what the client does to the
\* session.
LEMMA SqlType ==
  ASSUME Sql!SqlTypeOK,
         \/ UNCHANGED sqlVars
         \/ Sql!Enter \/ Sql!Commit \/ Sql!Rollback \/ Sql!Exit
         \/ Sql!Release(held)
         \/ \E a \in Aggregates, e \in Events :
              \/ Sql!Raise(a, e) \/ Sql!Add(a, e)
              \/ Sql!GetAndChange(a, e) \/ Sql!GetAndDelete(a, e)
  PROVE  Sql!SqlTypeOK'
<1> USE DEF Sql!SqlTypeOK
<1>1. CASE UNCHANGED sqlVars
  BY <1>1 DEF sqlVars
<1>2. CASE Sql!Enter
  BY <1>2 DEF Sql!Enter
<1>3. CASE Sql!Commit
  BY <1>3 DEF Sql!Commit, Sql!In
<1>4. CASE Sql!Rollback
  BY <1>4 DEF Sql!Rollback, Sql!MoveTo
<1>5. CASE Sql!Exit
  BY <1>5 DEF Sql!Exit
<1>6. CASE Sql!Release(held)
  BY <1>6 DEF Sql!Release, Sql!MoveTo
<1>7. ASSUME NEW a \in Aggregates, NEW e \in Events, Sql!Raise(a, e) \/ Sql!Add(a, e)
      PROVE  Sql!SqlTypeOK'
  BY <1>7 DEF Sql!Raise, Sql!Add
<1>8. ASSUME NEW a \in Aggregates, NEW e \in Events, Sql!GetAndChange(a, e)
      PROVE  Sql!SqlTypeOK'
  BY <1>8 DEF Sql!GetAndChange
<1>9. ASSUME NEW a \in Aggregates, NEW e \in Events, Sql!GetAndDelete(a, e)
      PROVE  Sql!SqlTypeOK'
  BY <1>9 DEF Sql!GetAndDelete
<1> QED
  BY <1>1, <1>2, <1>3, <1>4, <1>5, <1>6, <1>7, <1>8, <1>9

\* What the service does to the two of them.
LEMMA UnitsType ==
  ASSUME TypeOK, ServiceStep
  PROVE  Mem!MemTypeOK' /\ Sql!SqlTypeOK'
<1> USE DEF TypeOK
<1>1. CASE Enter \/ RollBack \/ Commit \/ ExitBlock \/ Abandon
  BY <1>1, MemType, SqlType DEF Enter, RollBack, Commit, ExitBlock, Abandon
<1>2. ASSUME NEW a \in Aggregates, NEW e \in Events,
             Create(a, e) \/ Change(a, e) \/ Delete(a, e)
      PROVE  Mem!MemTypeOK' /\ Sql!SqlTypeOK'
  BY <1>2, MemType, SqlType DEF Create, Change, Delete, Touch
<1>3. ASSUME NEW a \in Aggregates, NEW e \in Events, RaiseLate(a, e)
      PROVE  Mem!MemTypeOK' /\ Sql!SqlTypeOK'
  BY <1>3, MemType, SqlType DEF RaiseLate
<1>4. CASE Track
  <2>1. current \in Aggregates
    BY <1>4 DEF Track
  <2> QED
    BY <1>4, <2>1, MemType, SqlType DEF Track, Sql!Track, Sql!sqlVars, sqlVars
<1>5. CASE Unreference \/ Leave
  BY <1>5, MemType, SqlType DEF Unreference, Leave
<1>6. CASE Collect
  BY <1>6, MemType, SqlType DEF Collect, Sql!CollectNewEvents, Sql!sqlVars, sqlVars
<1> QED
  BY <1>1, <1>2, <1>3, <1>4, <1>5, <1>6 DEF ServiceStep

\* What collect_new_events() returns are events.
LEMMA CollectedTyped ==
  ASSUME TypeOK PROVE Mem!Collected \subseteq Events /\ Sql!Collected \subseteq Events
<1>1. \A i \in DOMAIN tracked : memPending[tracked[i]] \subseteq Events
  BY DEF TypeOK, Mem!MemTypeOK
<1> QED
  BY <1>1 DEF TypeOK, Sql!SqlTypeOK, Mem!Collected, Sql!Collected

\* The session is open only while a block is.
LEMMA SessionClosed ==
  ASSUME TypeOK, ServiceStep, pc' \notin {"in", "raised", "done"}
  PROVE  session' = [a \in Aggregates |-> "out"]
<1>1. CASE ExitBlock \/ Abandon
  BY <1>1 DEF ExitBlock, Abandon, Sql!Exit
<1>2. CASE Collect
  BY <1>2 DEF Collect, Sql!CollectNewEvents, Sql!sqlVars, TypeOK
<1>3. CASE Leave
  BY <1>3 DEF Leave, Sql!Release, Sql!MoveTo, TypeOK
<1>4. CASE ~(ExitBlock \/ Abandon \/ Collect \/ Leave)
  BY <1>4 DEF ServiceStep, Enter, Create, Change, Delete, Touch, RaiseLate, Track,
              Unreference, RollBack, Commit
<1> QED
  BY <1>1, <1>2, <1>3, <1>4

LEMMA TypeStep == ASSUME TypeOK, [Next]_vars PROVE TypeOK'
<1>1. CASE UNCHANGED vars
  BY <1>1 DEF vars, memVars, sqlVars, results, TypeOK, Mem!MemTypeOK, Sql!SqlTypeOK
<1>2. CASE ServiceStep
  <2>1. fate' \in [Events -> {"unused", "open", "committed", "failed"}]
    BY <1>2 DEF TypeOK, ServiceStep, Enter, Create, Change, Delete, Touch, RaiseLate, Track,
                Unreference, RollBack, Commit, ExitBlock, Abandon, Collect, Leave,
                Settle, results
  <2>2. /\ pc' \in {"out", "in", "raised", "done", "after", "collected", "left"}
        /\ current' \in Aggregates \cup {None}
        /\ pc' = "raised" <=> current' # None
    BY <1>2, ParityAssumption
       DEF TypeOK, ServiceStep, Enter, Create, Change, Delete, Touch, RaiseLate, Track,
           Unreference, RollBack, Commit, ExitBlock, Abandon, Collect, Leave
  <2>3. stock' \subseteq Aggregates /\ block' \subseteq Events
    BY <1>2 DEF TypeOK, ServiceStep, Enter, Create, Change, Delete, Touch, RaiseLate, Track,
                Unreference, RollBack, Commit, ExitBlock, Abandon, Collect, Leave
  <2>4. memReturned' \subseteq Events /\ sqlReturned' \subseteq Events /\ memSeen' \subseteq Events
    <3>1. CASE Collect
      BY <3>1, CollectedTyped DEF Collect, TypeOK
    <3>2. CASE ~Collect
      BY <1>2, <3>2 DEF TypeOK, ServiceStep, Enter, Create, Change, Delete, Touch, RaiseLate,
                        Track, Unreference, RollBack, Commit, ExitBlock, Abandon, Leave, results
    <3> QED
      BY <3>1, <3>2
  <2> QED
    BY <1>2, <2>1, <2>2, <2>3, <2>4, UnitsType, SessionClosed DEF TypeOK
<1> QED
  BY <1>1, <1>2 DEF Next

LEMMA InitType == Init => TypeOK
<1>1. Init => Mem!MemTypeOK
  BY EmptySeq DEF Init, Mem!Init, Mem!MemTypeOK
<1>2. Init => Sql!SqlTypeOK
  BY DEF Init, Sql!Init, Sql!SqlTypeOK
<1> QED
  BY <1>1, <1>2 DEF Init, Sql!Init, TypeOK

\* Both units of work, over any session, stay typed, and the session is closed
\* outside a block (sqlalchemy_unit_of_work.py, __exit__).
THEOREM TypeCorrect == Spec => []TypeOK
BY InitType, TypeStep, PTL DEF Spec

-----------------------------------------------------------------------------
(* In memory, nothing is returned twice *)

\* An event sits on the one aggregate that raised it until it is returned.
OneOwner ==
  /\ \A e \in Events : fate[e] = "unused" =>
       e \notin memSeen /\ \A a \in Aggregates : e \notin memPending[a]
  /\ \A a, b \in Aggregates : a # b => memPending[a] \cap memPending[b] = {}
  /\ \A a \in Aggregates : memSeen \cap memPending[a] = {}

LEMMA OneOwnerRaise ==
  ASSUME TypeOK, OneOwner, NEW a \in Aggregates, NEW e \in Events, fate[e] = "unused",
         Mem!Raise(a, e), fate' = [fate EXCEPT ![e] = "open"], UNCHANGED memSeen
  PROVE  OneOwner'
<1>1. \A b \in Aggregates : memPending'[b] = IF b = a THEN memPending[b] \cup {e} ELSE memPending[b]
  BY DEF Mem!Raise, TypeOK, Mem!MemTypeOK
<1>2. \A f \in Events : fate'[f] = "unused" => fate[f] = "unused" /\ f # e
  BY DEF TypeOK
<1> QED
  BY <1>1, <1>2 DEF OneOwner

LEMMA OneOwnerSettled ==
  ASSUME TypeOK, OneOwner, UNCHANGED <<memPending, memSeen>>,
         UNCHANGED fate \/ Settle("failed") \/ Settle("committed")
  PROVE  OneOwner'
<1>1. \A f \in Events : fate'[f] = "unused" => fate[f] = "unused"
  BY DEF TypeOK, Settle
<1> QED
  BY <1>1 DEF OneOwner

LEMMA OneOwnerCollect == ASSUME TypeOK, OneOwner, Collect PROVE OneOwner'
<1>1. /\ UNCHANGED fate
      /\ memSeen' = memSeen \cup Mem!Collected
      /\ \A a \in Aggregates : memPending'[a] = IF Mem!IsTracked(a) THEN {} ELSE memPending[a]
  BY DEF Collect, Mem!CollectNewEvents
<1>2. \A e \in Mem!Collected :
        \E a \in Aggregates : Mem!IsTracked(a) /\ e \in memPending[a]
  BY DEF Mem!Collected, Mem!IsTracked, TypeOK, Mem!MemTypeOK
<1> QED
  BY <1>1, <1>2 DEF OneOwner

LEMMA OneOwnerStep == ASSUME TypeOK, OneOwner, [Next]_vars PROVE OneOwner'
<1>1. CASE UNCHANGED vars
  BY <1>1, OneOwnerSettled DEF vars, memVars, results
<1>2. ASSUME NEW a \in Aggregates, NEW e \in Events,
             Create(a, e) \/ Change(a, e) \/ Delete(a, e) \/ RaiseLate(a, e)
      PROVE  OneOwner'
  BY <1>2, OneOwnerRaise DEF Create, Change, Delete, Touch, RaiseLate, results
<1>3. CASE Collect
  BY <1>3, OneOwnerCollect
<1>4. CASE Enter \/ Track \/ RollBack \/ Commit \/ ExitBlock \/ Abandon
  BY <1>4, OneOwnerSettled
     DEF Enter, Track, RollBack, Commit, ExitBlock, Abandon, results, Mem!Enter, Mem!Track,
         Mem!Rollback, Mem!Commit, Mem!Exit, Mem!memVars
<1>5. CASE Unreference \/ Leave
  BY <1>5, OneOwnerSettled DEF Unreference, Leave, memVars, results
<1> QED
  BY <1>1, <1>2, <1>3, <1>4, <1>5 DEF Next, ServiceStep

\* Whatever a service does, collect_new_events() never returns an event again
\* (in_memory_unit_of_work.py): a returned one is on no aggregate, tracked or not.
THEOREM ReturnedOnce == Spec => []MemReturnsOnce
<1>1. Init => OneOwner
  BY DEF Init, Mem!Init, OneOwner
<1>2. OneOwner => MemReturnsOnce
  BY DEF OneOwner, MemReturnsOnce
<1> QED
  BY <1>1, <1>2, TypeCorrect, OneOwnerStep, PTL DEF Spec

-----------------------------------------------------------------------------
(* The SQLAlchemy cache *)

\* In a block without an explicit rollback, what the session holds has raised
\* events of this block only.
SessionIsOpen ==
  pc \in {"in", "raised"} =>
    \A a \in Aggregates : session[a] # "out" =>
      \A e \in sqlPending[a] : fate[e] = "open"

CacheInv == "rollback" \notin habits => SessionIsOpen /\ \A e \in cache : fate[e] = "committed"

LEMMA CacheStep == ASSUME TypeOK, CacheInv, [Next]_vars PROVE CacheInv'
<1> SUFFICES ASSUME "rollback" \notin habits', habits' = habits
             PROVE  SessionIsOpen' /\ \A e \in cache' : fate'[e] = "committed"
  BY DEF CacheInv, Next, vars
<1>1. SessionIsOpen /\ \A e \in cache : e \in Events /\ fate[e] = "committed"
  BY DEF CacheInv, TypeOK, Sql!SqlTypeOK
<1>2. CASE UNCHANGED vars
  BY <1>1, <1>2 DEF vars, sqlVars, SessionIsOpen
<1>3. CASE Enter
  BY <1>3 DEF Enter, Sql!Enter, TypeOK, SessionIsOpen
<1>4. ASSUME NEW a \in Aggregates, NEW e \in Events,
             Create(a, e) \/ Change(a, e) \/ Delete(a, e)
      PROVE  SessionIsOpen' /\ \A f \in cache' : fate'[f] = "committed"
  <2>1. pc = "in" /\ fate[e] = "unused" /\ fate' = [fate EXCEPT ![e] = "open"] /\ UNCHANGED cache
    BY <1>4 DEF Create, Change, Delete, Touch, Sql!Add, Sql!GetAndChange, Sql!GetAndDelete
  <2>2. \A b \in Aggregates : session'[b] # "out" =>
          \A f \in sqlPending'[b] : f = e \/ (f \in sqlPending[b] /\ session[b] # "out")
    BY <1>4 DEF Create, Change, Delete, Touch, Sql!Add, Sql!GetAndChange, Sql!GetAndDelete,
                TypeOK, Sql!SqlTypeOK
  <2>3. fate'[e] = "open" /\ \A f : f # e => fate'[f] = fate[f]
    BY <2>1 DEF TypeOK
  <2> QED
    BY <1>1, <2>1, <2>2, <2>3 DEF SessionIsOpen
<1>5. CASE Track
  BY <1>1, <1>5 DEF Track, Sql!Track, Sql!sqlVars, SessionIsOpen
<1>6. CASE Unreference
  <2>1. UNCHANGED <<fate, cache>> /\ \A b \in Aggregates : session'[b] # "out" =>
          session[b] # "out" /\ sqlPending'[b] = sqlPending[b]
    BY <1>6 DEF Unreference, Sql!Release, Sql!MoveTo
  <2> QED
    BY <1>1, <1>6, <2>1 DEF Unreference, SessionIsOpen
<1>7. CASE Commit
  BY <1>1, <1>7 DEF Commit, Sql!Commit, Sql!In, Settle, SessionIsOpen, TypeOK, Sql!SqlTypeOK
<1>8. CASE \E a \in Aggregates, e \in Events : RaiseLate(a, e)
  BY <1>1, <1>8 DEF RaiseLate, Sql!Raise, SessionIsOpen, TypeOK
<1>9. CASE ExitBlock \/ Abandon
  BY <1>1, <1>9 DEF ExitBlock, Abandon, Sql!Exit, Settle, SessionIsOpen
<1>10. CASE Collect \/ Leave
  BY <1>1, <1>10 DEF Collect, Leave, Sql!CollectNewEvents, Sql!sqlVars, Sql!Release, SessionIsOpen
<1>11. ~RollBack
  BY DEF RollBack
<1> QED
  BY <1>2, <1>3, <1>4, <1>5, <1>6, <1>7, <1>8, <1>9, <1>10, <1>11 DEF Next, ServiceStep

\* The cache of a service that leaves rollback() to __exit__ holds events of
\* committed work only (sqlalchemy_unit_of_work.py, commit).
THEOREM CachedIsCommitted == Spec => []SqlCacheIsCommitted
<1>1. Init => CacheInv
  BY DEF Init, Sql!Init, CacheInv, SessionIsOpen
<1>2. CacheInv => SqlCacheIsCommitted
  BY DEF CacheInv, SqlCacheIsCommitted
<1> QED
  BY <1>1, <1>2, TypeCorrect, CacheStep, PTL DEF Spec

-----------------------------------------------------------------------------
(* The block's events, in memory *)

\* The pending events are those of the block, and all of them have fate f.
PendingIsBlock(f) ==
  \A e \in Events :
    /\ e \in block <=> \E a \in Aggregates : e \in memPending[a]
    /\ e \in block => fate[e] = f

\* The course of a service that commits what it raises and collects once.
MemCourse ==
  /\ pc # "left"
  /\ \A a \in Aggregates : memPending[a] = {} \/ a = current \/ Mem!IsTracked(a)
  /\ pc \in {"in", "raised"} => PendingIsBlock("open")
  /\ pc \in {"done", "after"} => PendingIsBlock("committed")
  /\ pc = "done" => memCommitted
  /\ pc \in {"out", "collected"} => \A a \in Aggregates : memPending[a] = {}
  /\ pc = "collected" => memReturned = block /\ \A e \in block : fate[e] = "committed"

MemInv == habits \subseteq {"delete", "unreferenced"} => MemCourse

LEMMA MemTouchKeeps ==
  ASSUME TypeOK, MemCourse, NEW a \in Aggregates, NEW e \in Events, Touch(a, e)
  PROVE  MemCourse'
<1>1. /\ pc = "in" /\ pc' = "raised" /\ current' = a /\ fate[e] = "unused"
      /\ fate' = [fate EXCEPT ![e] = "open"] /\ block' = block \cup {e}
      /\ UNCHANGED tracked
  BY DEF Touch, Mem!Raise
<1>2. \A b \in Aggregates : memPending'[b] = IF b = a THEN memPending[b] \cup {e} ELSE memPending[b]
  BY DEF Touch, Mem!Raise, TypeOK, Mem!MemTypeOK
<1>3. current = None
  BY <1>1 DEF TypeOK
<1>4. \A b \in Aggregates : memPending'[b] = {} \/ b = current' \/ Mem!IsTracked(b)'
  BY <1>1, <1>2, <1>3, ParityAssumption DEF MemCourse, Mem!IsTracked
<1>5. PendingIsBlock("open")'
  BY <1>1, <1>2 DEF MemCourse, PendingIsBlock, TypeOK
<1> QED
  BY <1>1, <1>4, <1>5 DEF MemCourse

LEMMA MemTrackKeeps == ASSUME TypeOK, MemCourse, Track PROVE MemCourse'
<1>1. /\ pc = "raised" /\ pc' = "in" /\ current \in Aggregates
      /\ UNCHANGED <<memPending, fate, block>>
      /\ tracked' = IF Mem!IsTracked(current) THEN tracked ELSE Append(tracked, current)
  BY DEF Track, Mem!Track, TypeOK
<1>2. \A b \in Aggregates : b = current \/ Mem!IsTracked(b) => Mem!IsTracked(b)'
  <2>1. CASE Mem!IsTracked(current)
    BY <1>1, <2>1 DEF Mem!IsTracked
  <2>2. CASE ~Mem!IsTracked(current)
    <3>1. tracked \in Seq(Aggregates) /\ tracked' = Append(tracked, current)
      BY <1>1, <2>2 DEF TypeOK, Mem!MemTypeOK
    <3>2. /\ DOMAIN tracked' = DOMAIN tracked \cup {Len(tracked) + 1}
          /\ tracked'[Len(tracked) + 1] = current
          /\ \A i \in DOMAIN tracked : tracked'[i] = tracked[i]
      BY <1>1, <3>1
    <3> QED
      BY <3>2 DEF Mem!IsTracked
  <2> QED
    BY <2>1, <2>2
<1>3. PendingIsBlock("open")'
  BY <1>1 DEF MemCourse, PendingIsBlock
<1> QED
  BY <1>1, <1>2, <1>3 DEF MemCourse

LEMMA MemCollectKeeps == ASSUME TypeOK, MemCourse, pc = "after", Collect PROVE MemCourse'
<1>1. /\ pc' = "collected" /\ UNCHANGED <<fate, block, tracked>> /\ memReturned' = Mem!Collected
      /\ \A a \in Aggregates : memPending'[a] = IF Mem!IsTracked(a) THEN {} ELSE memPending[a]
  BY DEF Collect, Mem!CollectNewEvents
<1>2. PendingIsBlock("committed") /\ current = None
  BY DEF MemCourse, TypeOK
<1>3. \A a \in Aggregates : memPending[a] = {} \/ Mem!IsTracked(a)
  BY <1>2, ParityAssumption DEF MemCourse
<1>4. \A a \in Aggregates : memPending'[a] = {}
  BY <1>1, <1>3
<1>5. Mem!Collected = block
  <2>1. \A i \in DOMAIN tracked : tracked[i] \in Aggregates
    BY DEF TypeOK, Mem!MemTypeOK
  <2>2. \A e : e \in Mem!Collected <=> \E a \in Aggregates : Mem!IsTracked(a) /\ e \in memPending[a]
    BY <2>1 DEF Mem!Collected, Mem!IsTracked
  <2>3. \A a \in Aggregates : memPending[a] \subseteq Events
    BY DEF TypeOK, Mem!MemTypeOK
  <2> QED
    BY <1>2, <1>3, <2>2, <2>3 DEF PendingIsBlock, TypeOK
<1> QED
  BY <1>1, <1>2, <1>4, <1>5 DEF MemCourse, PendingIsBlock, TypeOK

LEMMA MemStep == ASSUME TypeOK, MemInv, [Next]_vars PROVE MemInv'
<1> SUFFICES ASSUME habits \subseteq {"delete", "unreferenced"}, MemCourse
             PROVE  MemCourse'
  BY DEF MemInv, Next, vars
<1>1. CASE UNCHANGED vars
  BY <1>1 DEF vars, memVars, results, MemCourse, PendingIsBlock, Mem!IsTracked
<1>2. CASE Enter
  BY <1>2 DEF Enter, Mem!Enter, MemCourse, PendingIsBlock, Mem!IsTracked
<1>3. CASE \E a \in Aggregates, e \in Events : Create(a, e) \/ Change(a, e) \/ Delete(a, e)
  BY <1>3, MemTouchKeeps DEF Create, Change, Delete
<1>4. CASE Track
  BY <1>4, MemTrackKeeps
<1>5. CASE Commit
  BY <1>5 DEF Commit, Mem!Commit, Settle, MemCourse, PendingIsBlock, Mem!IsTracked
<1>6. CASE ExitBlock
  BY <1>6 DEF ExitBlock, Mem!Exit, Mem!memVars, Settle, MemCourse, PendingIsBlock, Mem!IsTracked
<1>7. CASE Collect
  BY <1>7, MemCollectKeeps DEF Collect
<1>8. CASE Unreference \/ Leave
  BY <1>8 DEF Unreference, Leave, memVars, results, MemCourse, PendingIsBlock, Mem!IsTracked
<1>9. ~RollBack /\ ~Abandon /\ ~ \E a \in Aggregates, e \in Events : RaiseLate(a, e)
  BY DEF RollBack, Abandon, RaiseLate
<1> QED
  BY <1>1, <1>2, <1>3, <1>4, <1>5, <1>6, <1>7, <1>8, <1>9 DEF Next, ServiceStep

\* After a block, collect_new_events() in memory returns its events, for every
\* service that commits what it raises and collects once
\* (in_memory_unit_of_work.py).
THEOREM MemIsExact == Spec => []MemReturnsTheBlock
<1>1. Init => MemInv
  BY DEF Init, Mem!Init, MemInv, MemCourse, Mem!IsTracked
<1>2. MemInv => MemReturnsTheBlock
  BY DEF MemInv, MemCourse, MemReturnsTheBlock, BlockCommitted
<1> QED
  BY <1>1, <1>2, TypeCorrect, MemStep, PTL DEF Spec

-----------------------------------------------------------------------------
(* The block's events, over SQLAlchemy *)

\* The objects the session knows are held by the service, and their pending
\* events are those of the block.
SessionIsBlock ==
  /\ \A a \in Aggregates : session[a] # "deleted" /\ (session[a] # "out" => a \in held)
  /\ \A e \in Events :
       /\ e \in block <=> \E a \in Aggregates : session[a] # "out" /\ e \in sqlPending[a]
       /\ e \in block => fate[e] = "open"

\* The course of a service that holds on to its aggregates until commit(),
\* deletes none and leaves rollback() to __exit__.
SqlCourse ==
  /\ pc \in {"in", "raised"} => SessionIsBlock /\ cache = {}
  /\ pc \in {"done", "after", "collected"} => cache = BlockCommitted
  /\ pc = "collected" => sqlReturned = cache

SqlInv == habits \subseteq {"fail", "late", "again"} => SqlCourse

LEMMA SqlTouchKeeps ==
  ASSUME TypeOK, SqlCourse, NEW a \in Aggregates, NEW e \in Events,
         Create(a, e) \/ Change(a, e)
  PROVE  SqlCourse'
<1>1. /\ pc = "in" /\ pc' = "raised" /\ fate[e] = "unused"
      /\ fate' = [fate EXCEPT ![e] = "open"] /\ block' = block \cup {e}
      /\ UNCHANGED cache
  BY DEF Create, Change, Touch, Sql!Add, Sql!GetAndChange
<1>2. /\ held' = held \cup {a}
      /\ session'[a] \in {"new", "dirty"}
      /\ sqlPending'[a] = (IF session[a] = "out" THEN {} ELSE sqlPending[a]) \cup {e}
      /\ \A b \in Aggregates \ {a} : session'[b] = session[b] /\ sqlPending'[b] = sqlPending[b]
  BY DEF Create, Change, Sql!Add, Sql!GetAndChange, TypeOK, Sql!SqlTypeOK
<1>3. SessionIsBlock
  BY <1>1 DEF SqlCourse
<1>4. \A b \in Aggregates : session'[b] # "deleted" /\ (session'[b] # "out" => b \in held')
  BY <1>2, <1>3 DEF SessionIsBlock
<1>5. \A f \in Events :
        f \in block' <=> \E b \in Aggregates : session'[b] # "out" /\ f \in sqlPending'[b]
  BY <1>1, <1>2, <1>3 DEF SessionIsBlock
<1>6. \A f \in Events : f \in block' => fate'[f] = "open"
  BY <1>1, <1>3 DEF SessionIsBlock, TypeOK
<1> QED
  BY <1>1, <1>4, <1>5, <1>6 DEF SqlCourse, SessionIsBlock

LEMMA SqlCommitKeeps == ASSUME TypeOK, SqlCourse, Commit PROVE SqlCourse'
<1> DEFINE scanned == Sql!In({"new", "clean", "dirty"}) \cap held
<1>1. /\ pc = "in" /\ pc' = "done" /\ UNCHANGED block
      /\ cache' = cache \cup UNION {sqlPending[a] : a \in scanned}
      /\ fate' = [e \in Events |-> IF fate[e] = "open" THEN "committed" ELSE fate[e]]
  BY DEF Commit, Sql!Commit, Settle
<1>2. SessionIsBlock /\ cache = {}
  BY <1>1 DEF SqlCourse
<1>3. scanned = {a \in Aggregates : session[a] # "out"}
  BY <1>2 DEF SessionIsBlock, Sql!In, TypeOK, Sql!SqlTypeOK
<1> HIDE DEF scanned
<1>4. \A a \in Aggregates : sqlPending[a] \subseteq Events
  BY DEF TypeOK, Sql!SqlTypeOK
<1>5. cache' = block
  BY <1>1, <1>2, <1>3, <1>4 DEF SessionIsBlock, TypeOK
<1>6. \A e \in block' : fate'[e] = "committed"
  BY <1>1, <1>2 DEF SessionIsBlock, TypeOK
<1> QED
  BY <1>1, <1>5, <1>6 DEF SqlCourse, BlockCommitted

LEMMA SqlStep == ASSUME TypeOK, SqlInv, [Next]_vars PROVE SqlInv'
<1> SUFFICES ASSUME habits \subseteq {"fail", "late", "again"}, SqlCourse
             PROVE  SqlCourse'
  BY DEF SqlInv, Next, vars
<1>1. CASE UNCHANGED vars
  BY <1>1 DEF vars, sqlVars, results, SqlCourse, SessionIsBlock, BlockCommitted
<1>2. CASE Enter
  BY <1>2 DEF Enter, Sql!Enter, SqlCourse, SessionIsBlock, TypeOK
<1>3. CASE \E a \in Aggregates, e \in Events : Create(a, e) \/ Change(a, e)
  BY <1>3, SqlTouchKeeps
<1>4. CASE Track
  BY <1>4 DEF Track, Sql!Track, Sql!sqlVars, SqlCourse, SessionIsBlock
<1>5. CASE Commit
  BY <1>5, SqlCommitKeeps
<1>6. CASE \E a \in Aggregates, e \in Events : RaiseLate(a, e)
  BY <1>6 DEF RaiseLate, Sql!Raise, SqlCourse, BlockCommitted, TypeOK
<1>7. CASE ExitBlock
  BY <1>7 DEF ExitBlock, Sql!Exit, Settle, SqlCourse, BlockCommitted, TypeOK
<1>8. CASE Abandon
  BY <1>8 DEF Abandon, Sql!Exit, Settle, SqlCourse, SessionIsBlock, BlockCommitted, TypeOK
<1>9. CASE Collect
  BY <1>9 DEF Collect, Sql!Collected, Sql!CollectNewEvents, Sql!sqlVars, SqlCourse, BlockCommitted
<1>10. CASE Leave
  BY <1>10 DEF Leave, SqlCourse
<1>11. ~RollBack /\ ~Unreference /\ ~ \E a \in Aggregates, e \in Events : Delete(a, e)
  BY DEF RollBack, Unreference, Delete
<1> QED
  BY <1>1, <1>2, <1>3, <1>4, <1>5, <1>6, <1>7, <1>8, <1>9, <1>10, <1>11 DEF Next, ServiceStep

\* The same over SQLAlchemy, for every service that holds on to its aggregates,
\* deletes none and calls rollback() through __exit__ only
\* (sqlalchemy_unit_of_work.py).
THEOREM SqlIsExact == Spec => []SqlReturnsTheBlock
<1>1. Init => SqlInv
  BY DEF Init, SqlInv, SqlCourse
<1>2. SqlInv => SqlReturnsTheBlock
  BY DEF SqlInv, SqlCourse, SqlReturnsTheBlock
<1> QED
  BY <1>1, <1>2, TypeCorrect, SqlStep, PTL DEF Spec
=============================================================================
