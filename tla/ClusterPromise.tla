--------------------------- MODULE ClusterPromise ---------------------------
(***************************************************************************)
(* What NewCluster promises about Kubernetes once the servers exist: the   *)
(* first master starts the cluster, others enter it one at a time, none    *)
(* leaves it, and the command ends with a report that is never good before *)
(* the cluster exists.                                                     *)
(***************************************************************************)
EXTENDS Naturals

CONSTANT Masters  \* the masters; 1 is the one kubeadm init runs on

VARIABLES
    members,  \* masters in the cluster
    status    \* "running", or how the command ended

vars == <<members, status>>

Init == members = {} /\ status = "running"

Found ==
    /\ members = {}
    /\ members' = {1}

Enter(m) ==
    /\ 1 \in members
    /\ m \notin members
    /\ members' = members \cup {m}

\* What a step does to the members, and to the status.
Next ==
    /\ status = "running"
    /\ Found \/ (\E m \in Masters : Enter(m)) \/ UNCHANGED members
    /\ \/ UNCHANGED status
       \/ status' = "failed"
       \/ status' = "created" /\ 1 \in members

Spec == Init /\ [][Next]_vars

\* The command ends.
FairSpec == Spec /\ <>(status # "running")
=============================================================================
