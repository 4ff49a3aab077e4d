--------------------------- MODULE ClusterCreate ---------------------------
(***************************************************************************)
(* ApplicationAPI.NewCluster of pkg/api/api.go: the calls it makes, in     *)
(* their order.  pc is the kind of resource whose request is next; an      *)
(* error of a request ends the command and leaves everything created so    *)
(* far where it is, nothing is rolled back.                                *)
(*                                                                         *)
(* CreateFirewall is also a command of its own (-action=create-firewall),  *)
(* for either firewall or both.                                            *)
(*                                                                         *)
(* What happens inside the servers (initFirstMasterNode,                   *)
(* joinToMasterNodes, postInstall) is a few abstract steps here.            *)
(***************************************************************************)
EXTENDS HCloud

VARIABLES
    i,        \* master createServer is working on
    cluster   \* command whose Kubernetes runs on the masters, 0: none

createVars == <<i, cluster>>

\* The kinds NewCluster creates one of, in the order of its requests.
Follows == [network        |-> "subnet",
            subnet         |-> "fwcontrolplane",
            fwcontrolplane |-> "fwworkers",
            fwworkers      |-> "sshkey",
            sshkey         |-> "loadbalancer",
            loadbalancer   |-> "placementgroup",
            placementgroup |-> "master"]

Single == DOMAIN Follows

FirewallPc == {"onlycontrolplane", "onlyworkers"}

CreatePc ==
    Single \cup {"master", "attach", "pause", "bootstrap"} \cup FirewallPc

\* Mutant: a name that is taken is not an error.
RequestIdempotent(k) ==
    /\ pc = k
    /\ \/ CreateOk(k, 0) /\ pc' = Follows[k]
       \/ Exists(k, 0) /\ pc' = Follows[k] /\ UNCHANGED cloudVars
       \/ CreateFails(k, 0) /\ pc' = "failed"
    /\ UNCHANGED createVars

\* One request of a function of NewCluster, with the lookups made before it;
\* its error is the function's error, and NewCluster's.
Request(k) ==
    /\ pc = k
    /\ \/ CreateOk(k, 0) /\ pc' = Follows[k]
       \/ CreateFails(k, 0) /\ pc' = "failed"
    /\ UNCHANGED createVars

CreateNetwork == Request("network") \/ Request("subnet")

CreateFirewall == Request("fwcontrolplane") \/ Request("fwworkers")

CreateSSHKey == Request("sshkey")

CreateLoadBalancer == Request("loadbalancer")

CreatePlacementGroup == Request("placementgroup")

CreateSingle ==
    \/ CreateNetwork
    \/ CreateFirewall
    \/ CreateSSHKey
    \/ CreateLoadBalancer
    \/ CreatePlacementGroup

\* The head of createServer's loop over the masters.
ServersDone ==
    /\ pc = "master"
    /\ i > MasterCount
    /\ pc' = "bootstrap"
    /\ UNCHANGED <<cloudVars, createVars>>

\* Mutant: the loop runs once too often.
CreateMasterOnceMore ==
    /\ pc = "master"
    /\ i <= MasterCount + 1
    /\ \/ CreateOk("master", i) /\ pc' = "attach"
       \/ CreateFails("master", i) /\ pc' = "failed"
    /\ UNCHANGED createVars

CreateMaster ==
    /\ pc = "master"
    /\ i <= MasterCount
    /\ \/ CreateOk("master", i) /\ pc' = "attach"
       \/ CreateFails("master", i) /\ pc' = "failed"
    /\ UNCHANGED createVars

\* Mutant: after a failed try the loop goes on with the next master.
AttachGivesUp ==
    /\ pc = "attach"
    /\ ctx = "live"
    /\ (AttachOk(i) \/ AttachFails(i)) /\ pc' = "master" /\ i' = i + 1
    /\ UNCHANGED cluster

\* The loop around attachToBalancer: only a cancelled context or a success
\* leaves it, because its retryCount is compared but never incremented.
Attach ==
    /\ pc = "attach"
    /\ ctx = "live"
    /\ \/ AttachOk(i) /\ pc' = "master" /\ i' = i + 1
       \/ AttachFails(i) /\ pc' = "pause" /\ UNCHANGED i
    /\ UNCHANGED cluster

AttachPause ==
    /\ pc = "pause"
    /\ pc' = "attach"
    /\ UNCHANGED <<cloudVars, createVars>>

\* Mutant: the loop does not look at the context.
AttachNotCancelled ==
    /\ pc = "attach"
    /\ ctx = "cancelled"
    /\ pc' = "attach"
    /\ UNCHANGED <<cloudVars, createVars>>

AttachCancelled ==
    /\ pc = "attach"
    /\ ctx = "cancelled"
    /\ pc' = "failed"
    /\ UNCHANGED <<cloudVars, createVars>>

\* initFirstMasterNode to postInstall.  At some point of it Kubernetes and
\* its controllers run, whatever becomes of the command afterwards.
KubernetesStarts ==
    /\ pc = "bootstrap"
    /\ cluster # run
    /\ cluster' = run
    /\ UNCHANGED <<cloudVars, pc, i>>

BootstrapDone ==
    /\ pc = "bootstrap"
    /\ cluster = run
    /\ pc' = "created"
    /\ UNCHANGED <<cloudVars, createVars>>

BootstrapFails ==
    /\ pc = "bootstrap"
    /\ pc' = "failed"
    /\ UNCHANGED <<cloudVars, createVars>>

\* CreateFirewall alone.  The flags decide whether the second one follows.
FirewallControlPlane ==
    /\ pc = "onlycontrolplane"
    /\ \/ CreateOk("fwcontrolplane", 0) /\ pc' \in {"onlyworkers", "firewalled"}
       \/ CreateFails("fwcontrolplane", 0) /\ pc' = "failed"
    /\ UNCHANGED createVars

FirewallWorkers ==
    /\ pc = "onlyworkers"
    /\ \/ CreateOk("fwworkers", 0) /\ pc' = "firewalled"
       \/ CreateFails("fwworkers", 0) /\ pc' = "failed"
    /\ UNCHANGED createVars

CreateNext ==
    \/ FirewallControlPlane
    \/ FirewallWorkers
    \/ CreateSingle
    \/ ServersDone
    \/ CreateMaster
    \/ Attach
    \/ AttachPause
    \/ AttachCancelled
    \/ KubernetesStarts
    \/ BootstrapDone
    \/ BootstrapFails

-----------------------------------------------------------------------------
CreateInit ==
    /\ i = 1
    /\ cluster = 0

CreateTypeOK ==
    /\ i \in 1..(MasterCount + 1)
    /\ cluster \in Nat
=============================================================================
