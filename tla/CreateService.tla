--------------------------- MODULE CreateService ----------------------------
(***************************************************************************)
(* The generated project: bootstrap builds one in-memory unit of work, one *)
(* dict repository, one bus and one service around them, and every caller  *)
(* (a request thread of the entrypoint) uses that one service. A call of   *)
(* create_<aggregate> takes one step per statement that touches what the   *)
(* callers share, and two per turn of the loop in collect_new_events(),    *)
(* which reads an aggregate's events and then clears them.                 *)
(*                                                                         *)
(* Each call makes one aggregate, which raises one event when it is        *)
(* created, so an aggregate also stands for its event.                     *)
(***************************************************************************)
EXTENDS Naturals, Sequences, FiniteSets

CONSTANTS
  Callers,         \* threads that call the service
  Aggregates,      \* aggregates they may create, each with its event
  BusFails,        \* whether publish_all() may raise
  None

ASSUME ServiceAssumption ==
  /\ BusFails \in BOOLEAN
  /\ None \notin Aggregates

\* A process has finitely many threads.
ASSUME CallersAssumption == IsFiniteSet(Callers)

VARIABLES
  tracked, committed, pending,    \* the unit of work
  repository,      \* _by_id of the dict repository
  pc,              \* what each caller did last
  own,             \* the aggregate of each caller's call
  collected,       \* events a caller's collect_new_events() has taken
  position,        \* how far its loop is
  size,            \* entries the dict had when its loop began
  taking,          \* the aggregate it has read and not cleared
  \* What an observer sees:
  fate,            \* each aggregate's call: unused, open, committed or failed
  published        \* how often the bus was given each event

Uow == INSTANCE InMemoryUnitOfWork WITH Events <- Aggregates

uowVars == <<tracked, committed, pending>>
loopVars == <<position, size, taking>>
callerVars == <<pc, own, collected, loopVars>>
vars == <<uowVars, repository, callerVars, fate, published>>

Steps == {"idle", "entered", "created", "added", "tracked", "committed",
          "exited", "collecting", "clearing", "collected"}

Init ==
  /\ Uow!Init
  /\ repository = {}
  /\ pc = [c \in Callers |-> "idle"]
  /\ own = [c \in Callers |-> None]
  /\ collected = [c \in Callers |-> {}]
  /\ position = [c \in Callers |-> 0]
  /\ size = [c \in Callers |-> 0]
  /\ taking = [c \in Callers |-> None]
  /\ fate = [a \in Aggregates |-> "unused"]
  /\ published = [a \in Aggregates |-> 0]

Go(c, from, to) ==
  /\ pc[c] = from
  /\ pc' = [pc EXCEPT ![c] = to]

\* with self._uow:
Enter(c) ==
  /\ Go(c, "idle", "entered")
  /\ Uow!Enter
  /\ UNCHANGED <<repository, own, collected, loopVars, fate, published>>

\* The next identity, and the aggregate with its event. The identity is new.
Create(c, a) ==
  /\ Go(c, "entered", "created")
  /\ fate[a] = "unused"
  /\ Uow!Raise(a, a)
  /\ own' = [own EXCEPT ![c] = a]
  /\ fate' = [fate EXCEPT ![a] = "open"]
  /\ UNCHANGED <<repository, collected, loopVars, published>>

\* Mutant: the aggregate is tracked and not stored.
AddForgotten(c) ==
  /\ Go(c, "created", "added")
  /\ UNCHANGED <<uowVars, repository, own, collected, loopVars, fate, published>>

Add(c) ==
  /\ Go(c, "created", "added")
  /\ repository' = repository \cup {own[c]}
  /\ UNCHANGED <<uowVars, own, collected, loopVars, fate, published>>

Track(c) ==
  /\ Go(c, "added", "tracked")
  /\ Uow!Track(own[c])
  /\ UNCHANGED <<repository, own, collected, loopVars, fate, published>>

Commit(c) ==
  /\ Go(c, "tracked", "committed")
  /\ Uow!Commit
  /\ fate' = [fate EXCEPT ![own[c]] = "committed"]
  /\ UNCHANGED <<repository, own, collected, loopVars, published>>

\* The end of the block.
ExitBlock(c) ==
  /\ Go(c, "committed", "exited")
  /\ Uow!Exit
  /\ UNCHANGED <<repository, own, collected, loopVars, fate, published>>

\* Something raises inside the block, before commit(): the identity is
\* refused, the clock or the domain raises, the thread is interrupted. The
\* block's __exit__ runs and the exception leaves the service.
Raise(c) ==
  /\ pc[c] \in {"entered", "created", "added", "tracked"}
  /\ pc' = [pc EXCEPT ![c] = "idle"]
  /\ own' = [own EXCEPT ![c] = None]
  /\ fate' = IF own[c] = None THEN fate ELSE [fate EXCEPT ![own[c]] = "failed"]
  /\ Uow!Exit
  /\ UNCHANGED <<repository, collected, loopVars, published>>

\* Mutant: the service publishes before it commits.
CollectBeforeCommit(c) ==
  /\ Go(c, "tracked", "collecting")
  /\ size' = [size EXCEPT ![c] = Len(tracked)]
  /\ UNCHANGED <<uowVars, repository, own, collected, position, taking, fate, published>>

\* collect_new_events() starts to iterate.
CollectNewEvents(c) ==
  /\ Go(c, "exited", "collecting")
  /\ size' = [size EXCEPT ![c] = Len(tracked)]
  /\ UNCHANGED <<uowVars, repository, own, collected, position, taking, fate, published>>

\* An aggregate with pending events: the loop takes them.
Take(c, a) ==
  /\ Go(c, "collecting", "clearing")
  /\ Uow!LooksAt(a, position[c], size[c])
  /\ pending[a] # {}
  /\ collected' = [collected EXCEPT ![c] = @ \cup pending[a]]
  /\ taking' = [taking EXCEPT ![c] = a]
  /\ UNCHANGED <<uowVars, repository, own, position, size, fate, published>>

\* An aggregate without: `continue`.
Pass(c, a) ==
  /\ pc[c] = "collecting"
  /\ Uow!LooksAt(a, position[c], size[c])
  /\ pending[a] = {}
  /\ position' = [position EXCEPT ![c] = @ + 1]
  /\ UNCHANGED <<uowVars, repository, pc, own, collected, size, taking, fate, published>>

\* The aggregate's clear(), and on to the next.
Clear(c) ==
  /\ Go(c, "clearing", "collecting")
  /\ Uow!Clear(taking[c])
  /\ position' = [position EXCEPT ![c] = @ + 1]
  /\ taking' = [taking EXCEPT ![c] = None]
  /\ UNCHANGED <<repository, own, collected, size, fate, published>>

\* The iterator is exhausted.
EndOfLoop(c) ==
  /\ Go(c, "collecting", "collected")
  /\ Uow!IsOver(position[c], size[c])
  /\ UNCHANGED <<uowVars, repository, own, collected, loopVars, fate, published>>

\* Mutant: the caller's list outlives its call.
ReturnKeepsEvents(c) ==
  /\ pc' = [pc EXCEPT ![c] = "idle"]
  /\ own' = [own EXCEPT ![c] = None]
  /\ position' = [position EXCEPT ![c] = 0]
  /\ size' = [size EXCEPT ![c] = 0]
  /\ UNCHANGED <<collected, taking>>

\* The call ends, and its local variables with it.
Return(c) ==
  /\ pc' = [pc EXCEPT ![c] = "idle"]
  /\ own' = [own EXCEPT ![c] = None]
  /\ collected' = [collected EXCEPT ![c] = {}]
  /\ position' = [position EXCEPT ![c] = 0]
  /\ size' = [size EXCEPT ![c] = 0]
  /\ UNCHANGED taking

\* Another thread tracked or rolled back meanwhile: the iterator raises out of
\* the service, and the events taken so far are gone.
CollectRaises(c) ==
  /\ pc[c] = "collecting"
  /\ Uow!Interrupted(size[c])
  /\ Return(c)
  /\ UNCHANGED <<uowVars, repository, fate, published>>

\* publish_all(), and the service returns the identity.
PublishAll(c) ==
  /\ pc[c] = "collected"
  /\ Return(c)
  /\ published' = [a \in Aggregates |->
                     published[a] + IF a \in collected[c] THEN 1 ELSE 0]
  /\ UNCHANGED <<uowVars, repository, fate>>

\* publish_all() raises: the events it was given are gone.
PublishRaises(c) ==
  /\ BusFails
  /\ pc[c] = "collected"
  /\ Return(c)
  /\ UNCHANGED <<uowVars, repository, fate, published>>

CallStep(c) ==
  \/ \E a \in Aggregates : Create(c, a)
  \/ Add(c)
  \/ Track(c)
  \/ Commit(c)
  \/ ExitBlock(c)
  \/ CollectNewEvents(c)
  \/ \E a \in Aggregates : Take(c, a) \/ Pass(c, a)
  \/ Clear(c)
  \/ EndOfLoop(c)
  \/ PublishAll(c)

\* What raises out of a call.
Fault(c) == Raise(c) \/ CollectRaises(c) \/ PublishRaises(c)

Next == \E c \in Callers : Enter(c) \/ CallStep(c) \/ Fault(c)

Spec == Init /\ [][Next]_vars

\* A call that is under way is not abandoned by its thread.
FairSpec == Spec /\ \A c \in Callers : WF_vars(CallStep(c) \/ CollectRaises(c))

-----------------------------------------------------------------------------
(* Properties *)

\* Types, and each call's own aggregate.
TypeOK ==
  /\ Uow!MemTypeOK
  /\ repository \subseteq Aggregates
  /\ pc \in [Callers -> Steps]
  /\ own \in [Callers -> Aggregates \cup {None}]
  /\ collected \in [Callers -> SUBSET Aggregates]
  /\ fate \in [Aggregates -> {"unused", "open", "committed", "failed"}]
  /\ position \in [Callers -> Nat]
  /\ size \in [Callers -> Nat]
  /\ taking \in [Callers -> Aggregates \cup {None}]
  /\ published \in [Aggregates -> Nat]
  /\ \A c \in Callers :
       /\ own[c] = None <=> pc[c] \in {"idle", "entered"}
       /\ pc[c] \notin {"collecting", "clearing", "collected"} => collected[c] = {}
       /\ taking[c] # None <=> pc[c] = "clearing"

Publication == INSTANCE EventPublication
                 WITH Events <- Aggregates,
                      committedEvents <- {a \in Aggregates : fate[a] = "committed"},
                      timesPublished <- published

\* With one caller at a time the service publishes after commit and at most
\* once, whatever raises before commit() or in the bus.
RefinesEventPublication == Publication!Safety

\* However many callers share the unit of work and whatever they interrupt, an
\* event of the bus has its aggregate in the repository, where a consumer can
\* load it.
StoredBeforePublished ==
  \A a \in Aggregates : published[a] > 0 => a \in repository

\* The loop reads an aggregate's events and clears them in two steps, so two
\* callers can both take an event; one caller's later calls never do. An event
\* is published once per caller at most.
OncePerCaller == \A a \in Aggregates : published[a] <= Cardinality(Callers)

\* The smoke test: "the aggregate's domain event reaches the bus after commit".
CommittedReachesBus ==
  \A a \in Aggregates : fate[a] = "committed" ~> published[a] = 1
=============================================================================
