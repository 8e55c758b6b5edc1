-------------------------- MODULE EventPublication --------------------------
(***************************************************************************)
(* What publish-after-commit promises: an event is published after the use *)
(* case that raised it committed, and at most once. It may be lost (the    *)
(* bus refuses it), which is the price of doing without the outbox.        *)
(***************************************************************************)
EXTENDS Naturals

CONSTANT Events

VARIABLES
  committedEvents,     \* events whose use case committed
  timesPublished       \* how often the bus was given each event

publicationVars == <<committedEvents, timesPublished>>

Init ==
  /\ committedEvents = {}
  /\ timesPublished = [e \in Events |-> 0]

CommitUseCase ==
  \E S \in SUBSET Events :
    /\ committedEvents' = committedEvents \cup S
    /\ UNCHANGED timesPublished

Publish ==
  \E S \in SUBSET {e \in committedEvents : timesPublished[e] = 0} :
    /\ timesPublished' = [e \in Events |-> timesPublished[e] + IF e \in S THEN 1 ELSE 0]
    /\ UNCHANGED committedEvents

Next == CommitUseCase \/ Publish

Safety == Init /\ [][Next]_publicationVars
=============================================================================
