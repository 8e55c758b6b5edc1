-------------------------- MODULE UnitOfWorkParity --------------------------
(***************************************************************************)
(* One application service driven against both units of work in lockstep:  *)
(* the in-memory one with the template's dict repository, and the          *)
(* SQLAlchemy one with its session. The service opens a block, creates or  *)
(* changes aggregates, commits, leaves the block and then collects the     *)
(* events to publish. Its habits say what it does beyond that; the         *)
(* contract of commons.types.unit_of_work allows every one of them.        *)
(***************************************************************************)
EXTENDS FiniteSets

CONSTANTS
  Aggregates,
  Events,          \* each is raised at most once
  Services,        \* the services looked at, each by its habits
  None

KnownHabits ==
  {"fail",         \* a block ends without commit
   "rollback",     \* rollback() inside a block that goes on
   "delete",       \* an aggregate is deleted
   "unreferenced", \* the service drops its aggregates before commit()
   "late",         \* an aggregate raises an event after commit()
   "again"}        \* collect_new_events() is called twice

ASSUME ParityAssumption ==
  /\ Services \subseteq SUBSET KnownHabits
  /\ None \notin Aggregates

VARIABLES
  habits,          \* what the service does out of the ordinary, never written
  tracked, memCommitted, memPending,                      \* in memory
  db, session, held, sqlCommitted, cache, sqlPending,     \* SQLAlchemy
  pc,              \* out, in, raised, done, after, collected or left
  current,         \* the aggregate to track next
  stock,           \* the dict repository's aggregates
  memReturned,     \* the last collect_new_events() in memory
  sqlReturned,     \* the last collect_new_events() of SQLAlchemy
  \* What an observer sees:
  fate,            \* each event: unused, open, committed or failed
  block,           \* events raised in the latest block
  memSeen          \* events ever returned in memory

Mem == INSTANCE InMemoryUnitOfWork
         WITH committed <- memCommitted, pending <- memPending
Sql == INSTANCE SqlAlchemyUnitOfWork
         WITH committed <- sqlCommitted, pending <- sqlPending

memVars == <<tracked, memCommitted, memPending>>
sqlVars == <<db, session, held, sqlCommitted, cache, sqlPending>>
results == <<memReturned, sqlReturned, memSeen>>
vars == <<habits, memVars, sqlVars, pc, current, stock, results, fate, block>>

Init ==
  /\ habits \in Services
  /\ Mem!Init
  /\ Sql!Init
  /\ pc = "out"
  /\ current = None
  /\ stock = {}
  /\ memReturned = {}
  /\ sqlReturned = {}
  /\ memSeen = {}
  /\ fate = [e \in Events |-> "unused"]
  /\ block = {}

\* Every event of the block that is still open gets fate f.
Settle(f) == fate' = [e \in Events |-> IF fate[e] = "open" THEN f ELSE fate[e]]

Enter ==
  /\ pc = "out"
  /\ Mem!Enter /\ Sql!Enter
  /\ pc' = "in"
  /\ block' = {}
  /\ UNCHANGED <<current, stock, results, fate>>

\* e is raised by a, which the repository tracks next.
Touch(a, e) ==
  /\ pc = "in"
  /\ fate[e] = "unused"
  /\ Mem!Raise(a, e)
  /\ pc' = "raised"
  /\ current' = a
  /\ fate' = [fate EXCEPT ![e] = "open"]
  /\ block' = block \cup {e}
  /\ UNCHANGED results

\* A new aggregate, added to the repository.
Create(a, e) ==
  /\ a \notin stock
  /\ Touch(a, e)
  /\ Sql!Add(a, e)
  /\ stock' = stock \cup {a}

\* A stored aggregate, loaded and changed.
Change(a, e) ==
  /\ a \in stock
  /\ Touch(a, e)
  /\ Sql!GetAndChange(a, e)
  /\ UNCHANGED stock

\* A stored aggregate, loaded and deleted; its last event says so.
Delete(a, e) ==
  /\ "delete" \in habits
  /\ a \in stock
  /\ Touch(a, e)
  /\ Sql!GetAndDelete(a, e)
  /\ UNCHANGED stock

Track ==
  /\ pc = "raised"
  /\ Mem!Track(current) /\ Sql!Track(current)
  /\ pc' = "in"
  /\ current' = None
  /\ UNCHANGED <<stock, results, fate, block>>

Unreference ==
  /\ "unreferenced" \in habits
  /\ pc = "in" /\ held # {}
  /\ Sql!Release(held)
  /\ UNCHANGED <<memVars, pc, current, stock, results, fate, block>>

RollBack ==
  /\ "rollback" \in habits
  /\ pc = "in"
  /\ Mem!Rollback /\ Sql!Rollback
  /\ Settle("failed")
  /\ UNCHANGED <<pc, current, stock, results, block>>

Commit ==
  /\ pc = "in"
  /\ Mem!Commit /\ Sql!Commit
  /\ pc' = "done"
  /\ Settle("committed")
  /\ UNCHANGED <<current, stock, results, block>>

\* Between commit() and the end of the block.
RaiseLate(a, e) ==
  /\ "late" \in habits
  /\ pc = "done"
  /\ a \in held /\ Mem!IsTracked(a) /\ fate[e] = "unused"
  /\ Mem!Raise(a, e) /\ Sql!Raise(a, e)
  /\ fate' = [fate EXCEPT ![e] = "open"]
  /\ block' = block \cup {e}
  /\ UNCHANGED <<pc, current, stock, results>>

ExitBlock ==
  /\ pc = "done"
  /\ Mem!Exit /\ Sql!Exit
  /\ pc' = "after"
  /\ Settle("failed")
  /\ UNCHANGED <<current, stock, results, block>>

\* The block raises, or ends without commit; the service may collect after it.
Abandon ==
  /\ "fail" \in habits
  /\ pc \in {"in", "raised"}
  /\ Mem!Exit /\ Sql!Exit
  /\ pc' \in {"after", "left"}
  /\ current' = None
  /\ Settle("failed")
  /\ UNCHANGED <<stock, results, block>>

Collect ==
  /\ pc = "after" \/ ("again" \in habits /\ pc = "collected")
  /\ memReturned' = Mem!Collected
  /\ sqlReturned' = Sql!Collected
  /\ memSeen' = memSeen \cup memReturned'
  /\ Mem!CollectNewEvents /\ Sql!CollectNewEvents
  /\ pc' = "collected"
  /\ UNCHANGED <<current, stock, fate, block>>

\* The use case returns and its references are gone.
Leave ==
  /\ pc \in {"collected", "left"}
  /\ Sql!Release(held)
  /\ pc' = "out"
  /\ UNCHANGED <<memVars, current, stock, results, fate, block>>

ServiceStep ==
  \/ Enter
  \/ \E a \in Aggregates, e \in Events :
       Create(a, e) \/ Change(a, e) \/ Delete(a, e) \/ RaiseLate(a, e)
  \/ Track
  \/ Unreference
  \/ RollBack
  \/ Commit
  \/ ExitBlock
  \/ Abandon
  \/ Collect
  \/ Leave

Next == ServiceStep /\ UNCHANGED habits

Spec == Init /\ [][Next]_vars

-----------------------------------------------------------------------------
(* Properties *)

\* Types of both units of work and of the service; outside a block the session
\* is empty.
TypeOK ==
  /\ Mem!MemTypeOK
  /\ Sql!SqlTypeOK
  /\ pc \in {"out", "in", "raised", "done", "after", "collected", "left"}
  /\ current \in Aggregates \cup {None}
  /\ stock \subseteq Aggregates
  /\ memReturned \subseteq Events
  /\ sqlReturned \subseteq Events
  /\ fate \in [Events -> {"unused", "open", "committed", "failed"}]
  /\ block \subseteq Events
  /\ memSeen \subseteq Events
  /\ pc = "raised" <=> current # None
  /\ pc \notin {"in", "raised", "done"} =>
       session = [a \in Aggregates |-> "out"]

BlockCommitted == {e \in block : fate[e] = "committed"}

\* collect_new_events() after a block returns the events of that block if it
\* committed, all of them and nothing else; nothing when it did not commit. In
\* memory, for services that commit what they raise and collect once.
MemReturnsTheBlock ==
  habits \subseteq {"delete", "unreferenced"} /\ pc = "collected" =>
    memReturned = BlockCommitted

\* The same over SQLAlchemy, for services that hold on to their aggregates
\* until commit(), delete none and call rollback() through __exit__ only.
SqlReturnsTheBlock ==
  habits \subseteq {"fail", "late", "again"} /\ pc = "collected" =>
    sqlReturned = BlockCommitted

\* In memory, an event that was returned is on no aggregate any more: whatever
\* the service does, no later collect_new_events() returns it again.
MemReturnsOnce == memSeen \cap UNION {memPending[a] : a \in Aggregates} = {}

\* The SQLAlchemy cache never holds an event of work that did not commit, as
\* long as no block goes on after an explicit rollback().
SqlCacheIsCommitted ==
  "rollback" \notin habits => \A e \in cache : fate[e] = "committed"
=============================================================================
