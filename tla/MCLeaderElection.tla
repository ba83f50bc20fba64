-------------------------- MODULE MCLeaderElection --------------------------
(* Instances of LeaderElection for TLC.                                     *)
EXTENDS LeaderElection, TLC

\* Replicas are interchangeable in every action and in every safety property.
ControllerSymmetry == Permutations(Controllers)

\* No guard and no lock depends on the topology table or on what register is about
\* to write there, so states that differ only in them have the same futures for the
\* properties about locks.
SafetyView ==
    <<up, draining, closed, leader, leaderClient, lock,
      [c \in Controllers |-> [t \in Tasks |-> [task[c][t] EXCEPT !.row = NoMember]]]>>
=============================================================================
