------------------------ MODULE SqlAlchemyUnitOfWork ------------------------
(***************************************************************************)
(* commons.adapters.sqlalchemy_unit_of_work: the reference unit of work    *)
(* over a SQLAlchemy session. The session is external and modelled by what *)
(* the unit of work relies on: an added, modified or deleted object is     *)
(* kept alive by the session until the flush, every other one only by its  *)
(* client (the identity map is weak); commit flushes; a deleted object     *)
(* leaves the session at the flush; rollback expunges what was added and   *)
(* restores the rest; close detaches everything.                           *)
(*                                                                         *)
(* Events are gathered in commit(), after the session's own commit, from   *)
(* what the identity map then holds.                                       *)
(***************************************************************************)
CONSTANTS
  Aggregates,      \* aggregate roots
  Events           \* domain events they may raise

VARIABLES
  db,              \* aggregates with a committed row
  session,         \* each object's state: out, new, clean, dirty or deleted
  held,            \* objects the client holds a reference to
  committed,       \* _committed
  cache,           \* _collected_events
  pending          \* pending_events of each live object

sqlVars == <<db, session, held, committed, cache, pending>>

Init ==
  /\ db = {}
  /\ session = [a \in Aggregates |-> "out"]
  /\ held = {}
  /\ committed = FALSE
  /\ cache = {}
  /\ pending = [a \in Aggregates |-> {}]

In(states) == {a \in Aggregates : session[a] \in states}

\* Move the session to s: an object that nothing references any more is gone,
\* pending events and all.
MoveTo(s) ==
  LET strong == {a \in Aggregates : s[a] \in {"new", "dirty", "deleted"}}
      alive  == held' \cup strong
  IN  /\ session' = [a \in Aggregates |-> IF a \in alive THEN s[a] ELSE "out"]
      /\ pending' = [a \in Aggregates |-> IF a \in alive THEN pending[a] ELSE {}]

\* The aggregate raises an event. pending_events is not a mapped attribute, so
\* this alone does not make the object dirty.
Raise(a, e) ==
  /\ pending' = [pending EXCEPT ![a] = @ \cup {e}]
  /\ UNCHANGED <<db, session, held, committed, cache>>

-----------------------------------------------------------------------------
(* The session, between __enter__ and __exit__ *)

\* session.add of a new object, which already raised e.
Add(a, e) ==
  /\ a \notin db /\ session[a] = "out"
  /\ session' = [session EXCEPT ![a] = "new"]
  /\ held' = held \cup {a}
  /\ pending' = [pending EXCEPT ![a] = {e}]
  /\ UNCHANGED <<db, committed, cache>>

\* session.get of a row, then a mapped attribute changes and e is raised. The
\* session returns the object it has, or a fresh one without events.
GetAndChange(a, e) ==
  /\ a \in db /\ session[a] \in {"out", "clean", "dirty"}
  /\ session' = [session EXCEPT ![a] = "dirty"]
  /\ held' = held \cup {a}
  /\ pending' = [pending EXCEPT ![a] = (IF session[a] = "out" THEN {} ELSE @) \cup {e}]
  /\ UNCHANGED <<db, committed, cache>>

\* session.get, the aggregate raises its last event, session.delete.
GetAndDelete(a, e) ==
  /\ a \in db /\ session[a] \in {"out", "clean", "dirty"}
  /\ session' = [session EXCEPT ![a] = "deleted"]
  /\ held' = held \cup {a}
  /\ pending' = [pending EXCEPT ![a] = (IF session[a] = "out" THEN {} ELSE @) \cup {e}]
  /\ UNCHANGED <<db, committed, cache>>

\* The client drops its references to the objects of S.
Release(S) ==
  /\ held' = held \ S
  /\ MoveTo(session)
  /\ UNCHANGED <<db, committed, cache>>

-----------------------------------------------------------------------------
(* The unit of work *)

\* Mutant: __enter__ keeps the events of the block before.
EnterKeepsCache ==
  /\ committed' = FALSE
  /\ UNCHANGED <<db, session, held, cache, pending>>

Enter ==
  /\ committed' = FALSE
  /\ cache' = {}
  /\ UNCHANGED <<db, session, held, pending>>

\* track() does nothing: the identity map is to know every object by itself.
Track(a) == UNCHANGED sqlVars

\* commit(): session.commit, then the flag, then the scan. The flush has left
\* new, dirty and deleted objects behind, so the scan sees the identity map
\* only: the objects that are clean by then and that the client still holds.
Commit ==
  LET scanned == In({"new", "clean", "dirty"}) \cap held
  IN  /\ db' = (db \cup In({"new"})) \ In({"deleted"})
      /\ session' = [a \in Aggregates |-> IF a \in scanned THEN "clean" ELSE "out"]
      /\ committed' = TRUE
      /\ cache' = cache \cup UNION {pending[a] : a \in scanned}
      /\ pending' = [a \in Aggregates |->
                       IF a \in held \ scanned THEN pending[a] ELSE {}]
      /\ UNCHANGED held

\* rollback(): session.rollback.
Rollback ==
  /\ UNCHANGED <<db, held, committed, cache>>
  /\ MoveTo([a \in Aggregates |->
               CASE session[a] = "new" -> "out"
                 [] session[a] = "out" -> "out"
                 [] OTHER -> "clean"])

\* Mutant: __exit__ leaves the session open.
ExitWithoutClose == UNCHANGED sqlVars

\* Mutant: __exit__ gathers the events, committed or not.
ExitGathers ==
  /\ UNCHANGED <<db, held, committed>>
  /\ cache' = cache \cup UNION {pending[a] : a \in held}
  /\ session' = [a \in Aggregates |-> "out"]
  /\ pending' = [a \in Aggregates |-> {}]

\* __exit__: roll back unless commit() was called, then close the session,
\* which detaches every object whatever the rollback did to it.
Exit ==
  /\ UNCHANGED <<db, held, committed, cache>>
  /\ session' = [a \in Aggregates |-> "out"]
  /\ pending' = [a \in Aggregates |-> IF a \in held THEN pending[a] ELSE {}]

\* What collect_new_events() returns: the cache, which it leaves as it is.
Collected == cache

CollectNewEvents == UNCHANGED sqlVars

SqlTypeOK ==
  /\ db \subseteq Aggregates
  /\ session \in [Aggregates -> {"out", "new", "clean", "dirty", "deleted"}]
  /\ held \subseteq Aggregates
  /\ committed \in BOOLEAN
  /\ cache \subseteq Events
  /\ pending \in [Aggregates -> SUBSET Events]
  /\ cache # {} => committed
  /\ \A a \in Aggregates :
       /\ session[a] = "clean" => a \in held
       /\ session[a] = "new" => a \notin db
       /\ session[a] \in {"dirty", "deleted"} => a \in db
=============================================================================
