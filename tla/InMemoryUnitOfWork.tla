------------------------- MODULE InMemoryUnitOfWork -------------------------
(***************************************************************************)
(* commons.adapters.in_memory_unit_of_work: the unit of work of tests and  *)
(* of generated projects without a store. It owns two fields; the pending  *)
(* events belong to the aggregates it tracks. One action per method, for a *)
(* client module to schedule; collect_new_events() also step by step, for  *)
(* a client that other threads interrupt. The order of an aggregate's      *)
(* events is left out: a set stands for the list.                          *)
(***************************************************************************)
EXTENDS Naturals, Sequences

CONSTANTS
  Aggregates,      \* aggregate roots, as Python objects
  Events           \* domain events they may raise

VARIABLES
  tracked,         \* _tracked: aggregates, in the order of the dict
  committed,       \* _committed
  pending          \* pending_events of each aggregate

memVars == <<tracked, committed, pending>>

IsTracked(a) == \E i \in DOMAIN tracked : tracked[i] = a

Init ==
  /\ tracked = <<>>
  /\ committed = FALSE
  /\ pending = [a \in Aggregates |-> {}]

\* An aggregate's factory or mutator appends a domain event.
Raise(a, e) ==
  /\ pending' = [pending EXCEPT ![a] = @ \cup {e}]
  /\ UNCHANGED <<tracked, committed>>

\* __enter__ resets the flag and nothing else: what an earlier block tracked
\* stays tracked.
Enter ==
  /\ committed' = FALSE
  /\ UNCHANGED <<tracked, pending>>

\* Mutant: track() of a repository that forgets to call it.
TrackForgotten(a) == UNCHANGED memVars

\* The dict's key is the object: one that is there keeps its place.
Track(a) ==
  /\ tracked' = IF IsTracked(a) THEN tracked ELSE Append(tracked, a)
  /\ UNCHANGED <<committed, pending>>

\* Mutant: commit() that does not set the flag.
CommitUnflagged == UNCHANGED memVars

Commit ==
  /\ committed' = TRUE
  /\ UNCHANGED <<tracked, pending>>

\* rollback() forgets every tracked aggregate, whichever block tracked it, and
\* leaves the aggregates' pending events alone.
Rollback ==
  /\ tracked' = <<>>
  /\ UNCHANGED <<committed, pending>>

\* __exit__ rolls back unless the flag says that commit() was called.
Exit == IF committed THEN UNCHANGED memVars ELSE Rollback

\* What collect_new_events() returns.
Collected == UNION {pending[tracked[i]] : i \in DOMAIN tracked}

\* Mutant: aggregates keep what was collected from them.
CollectWithoutClearing == UNCHANGED memVars

\* collect_new_events() empties the tracked aggregates. They stay tracked.
CollectNewEvents ==
  /\ pending' = [a \in Aggregates |-> IF IsTracked(a) THEN {} ELSE pending[a]]
  /\ UNCHANGED <<tracked, committed>>

\* The loop of collect_new_events() over the dict, which had `size` entries
\* when it began. It ends after the last entry; it raises as soon as it finds
\* the dict grown or shrunk.
Interrupted(size) == Len(tracked) # size
IsOver(position, size) == ~Interrupted(size) /\ position >= Len(tracked)

\* The aggregate the loop looks at after `position` of them.
LooksAt(a, position, size) ==
  ~Interrupted(size) /\ position < Len(tracked) /\ tracked[position + 1] = a

\* Mutant: no clear().
ClearForgotten(a) == UNCHANGED memVars

\* The loop's clear() of the aggregate whose events it has taken.
Clear(a) ==
  /\ pending' = [pending EXCEPT ![a] = {}]
  /\ UNCHANGED <<tracked, committed>>

MemTypeOK ==
  /\ tracked \in Seq(Aggregates)
  /\ committed \in BOOLEAN
  /\ pending \in [Aggregates -> SUBSET Events]
=============================================================================
