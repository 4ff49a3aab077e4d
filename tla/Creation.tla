------------------------------ MODULE Creation ------------------------------
(***************************************************************************)
(* The whole of NewCluster: Bootstrap in the place of the abstract steps   *)
(* KubernetesStarts, BootstrapDone and BootstrapFails, which stand in      *)
(* ClusterCreate for what happens inside the servers.  What Lifecycle      *)
(* shows about create commands with these steps then holds of NewCluster   *)
(* as Bootstrap has it.                                                    *)
(***************************************************************************)
EXTENDS Bootstrap

\* What the requests before initFirstMasterNode have made, in an undisturbed
\* first command.
AfterServers ==
    {[kind |-> k, index |-> 0, run |-> 1] :
        k \in {"network", "subnet", "fwcontrolplane", "fwworkers", "sshkey",
               "loadbalancer", "placementgroup"}}
    \cup {[kind |-> "master", index |-> s, run |-> 1] : s \in Masters}

\* Once kubeadm init has begun to work a control plane may run.
Started == IF kube[1] = "none" THEN 0 ELSE 1

Place == IF pc \in Ended THEN pc ELSE "bootstrap"

Life ==
    INSTANCE Lifecycle
    WITH Slot <- {}, MaxFaults <- 0, MaxRuns <- 1,
         project <- AfterServers, targets <- Masters, faults <- 0, run <- 1,
         i <- MasterCount + 1, cluster <- Started, pc <- Place,
         phase <- "networks", found <- {}, blind <- {}

-----------------------------------------------------------------------------
(* Correctness *)

\* initFirstMasterNode, joinToMasterNodes and postInstall do nothing that the
\* three abstract steps of the create command do not allow: in particular no
\* cluster is reported whose control plane was not started by this command,
\* and one that was started stays, whatever becomes of the command.  They
\* begin where Lifecycle has the first command hand over to them.
FillsCreate ==
    /\ Place = "bootstrap" /\ Started = 0 /\ Life!HandsOver
    /\ [][Life!CreateNext \/ Life!Interrupt]_(Life!vars)
=============================================================================
