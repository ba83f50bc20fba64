-------------------------- MODULE CommandLifecycle --------------------------
(* What the control plane promises about a sensor command, without replicas, *)
(* locks, clocks or messages: the states a command goes through, in which    *)
(* order, and that it comes to rest.  CommandDelivery, the model of the code,*)
(* is shown to implement it.                                                 *)
EXTENDS Naturals

CONSTANT Commands

VARIABLES
    status,     \* where each command is in its life
    attempts    \* how many times it has been handed to the sensor

vars == <<status, attempts>>

\* Statuses from which a poll may hand the command out.
Deliverable == {"queued", "retrying"}

\* Statuses in which a sensor may still finish the command.
Outstanding == {"dispatched", "retrying"}

\* The command needs nothing more from the controllers.
Settled == {"acknowledged", "dead_lettered", "retried", "dismissed"}

Live == Deliverable \union Outstanding

Init ==
    /\ status = [c \in Commands |-> "absent"]
    /\ attempts = [c \in Commands |-> 0]

Move(c, from, to) ==
    /\ status[c] \in from
    /\ status' = [status EXCEPT ![c] = to]
    /\ UNCHANGED attempts

Issue(c) == Move(c, {"absent"}, "queued")

\* One poll hands out a set of commands and counts an attempt for each.
Deliver(C) ==
    /\ \A c \in C : status[c] \in Deliverable
    /\ status' = [c \in Commands |-> IF c \in C THEN "dispatched" ELSE status[c]]
    /\ attempts' = [c \in Commands |-> IF c \in C THEN attempts[c] + 1 ELSE attempts[c]]

Reschedule(c) == Move(c, Outstanding, "retrying")
Acknowledge(c) == Move(c, Outstanding, "acknowledged")
DeadLetter(c) == Move(c, Live, "dead_lettered")

\* An operator reissues or dismisses what is in the dead-letter queue.  Two
\* operators may do so concurrently, and the later write stands.
Resolve(c) ==
    \E to \in {"retried", "dismissed"} :
        Move(c, {"dead_lettered", "retried", "dismissed"}, to)

Settle(c) == Acknowledge(c) \/ DeadLetter(c)

Next ==
    \/ \E c \in Commands :
          Issue(c) \/ Reschedule(c) \/ Settle(c) \/ Resolve(c)
    \/ \E C \in SUBSET Commands : Deliver(C)

\* A command that has been issued is not delivered for ever: it settles.
Fairness == \A c \in Commands : WF_vars(Settle(c))

Spec == Init /\ [][Next]_vars /\ Fairness
=============================================================================
