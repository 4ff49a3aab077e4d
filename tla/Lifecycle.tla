----------------------------- MODULE Lifecycle -----------------------------
(***************************************************************************)
(* The life of one cluster: an operator who runs the create and delete     *)
(* commands of cmd/main.go one after the other, interrupts them or loses   *)
(* them, and the controllers the created cluster runs (cluster-autoscaler, *)
(* hcloud-cloud-controller-manager, hcloud-csi), which go on creating      *)
(* servers, load balancers and volumes in the same project.                *)
(***************************************************************************)
EXTENDS ClusterCreate, ClusterDrain

CONSTANT MaxRuns  \* bound: commands the operator runs

ASSUME MaxRunsAssumption == MaxRuns \in Nat

vars == <<cloudVars, pc, createVars, drainVars>>

Ended == {"idle", "created", "firewalled", "failed", "deleted", "stopped",
          "exited"}

-----------------------------------------------------------------------------
(* The process of the tool *)

\* main: getInterruptionContext, then the action asked for.
Start(entry) ==
    /\ pc \in Ended
    /\ run < MaxRuns
    /\ run' = run + 1
    /\ ctx' = "live"
    /\ pc' = entry
    /\ i' = 1
    /\ phase' = "networks"
    /\ found' = {}
    /\ blind' = {}
    /\ UNCHANGED <<project, targets, faults, cluster>>

RunCreate == Start("network")

RunDelete == Start("first")

\* With neither -create-firewall flag the command fails at once.
RunCreateFirewall == \E entry \in FirewallPc \cup {"failed"} : Start(entry)

\* The first signal cancels the context; the handler then sleeps and exits.
Interrupt ==
    /\ pc \notin Ended
    /\ ctx = "live"
    /\ ctx' = "cancelled"
    /\ UNCHANGED <<project, targets, faults, run, pc, createVars, drainVars>>

Gone ==
    /\ pc' = "exited"
    /\ i' = 1
    /\ phase' = "networks"
    /\ found' = {}
    /\ blind' = {}
    /\ UNCHANGED <<cloudVars, cluster>>

\* os.Exit(1), five seconds after the signal.
Exit == pc \notin Ended /\ ctx = "cancelled" /\ Gone

\* The process is killed.
Killed == pc \notin Ended /\ ctx = "live" /\ Gone

-----------------------------------------------------------------------------
(* The controllers of the running cluster.  They find the network (and the *)
(* ssh key) by the names scripts/chart passes to them.                     *)

Running == \E r \in project : r.kind = "master" /\ r.run = cluster

Launched(k, n) ==
    /\ Running
    /\ Added(k, n, cluster)
    /\ UNCHANGED <<targets, faults, ctx, run, pc, createVars, drainVars>>

Withdrawn(k, n) ==
    /\ Running
    /\ \E r \in OfKinds({k}) : r.index = n /\ project' = project \ {r}
    /\ UNCHANGED <<targets, faults, ctx, run, pc, createVars, drainVars>>

ScaleUp(n) == Exists("network", 0) /\ Exists("sshkey", 0) /\ Launched("worker", n)

ScaleDown(n) == Withdrawn("worker", n)

EnsureLoadBalancer(n) == Exists("network", 0) /\ Launched("servicelb", n)

EnsureLoadBalancerDeleted(n) == Withdrawn("servicelb", n)

CreateVolume(n) == Launched("volume", n)

Controllers ==
    \E n \in Slot :
        \/ ScaleUp(n)
        \/ ScaleDown(n)
        \/ EnsureLoadBalancer(n)
        \/ EnsureLoadBalancerDeleted(n)
        \/ CreateVolume(n)

-----------------------------------------------------------------------------
Init == CloudInit /\ CreateInit /\ DrainInit

Tool ==
    \/ CreateNext /\ UNCHANGED drainVars
    \/ DrainNext /\ UNCHANGED createVars

Operator == RunCreate \/ RunDelete \/ RunCreateFirewall \/ Interrupt \/ Killed

Next == Tool \/ Exit \/ Operator \/ Controllers

Spec == Init /\ [][Next]_vars

\* A command that runs goes on running.  Nobody has to start a command, no
\* controller has to act, and nothing relies on os.Exit to end a loop.
FairSpec == Spec /\ WF_vars(Tool)

-----------------------------------------------------------------------------
(* Correctness *)

\* The variables keep their types; the loop over the masters goes one past the
\* last, and every target is one of them.
TypeOK ==
    /\ CloudTypeOK
    /\ CreateTypeOK
    /\ DrainTypeOK
    /\ pc \in Ended \cup CreatePc \cup DrainPc

\* NewCluster reports a cluster only when every resource it was to create is
\* there, made by this very command, and every master is a target of the
\* load balancer.
CreatedComplete ==
    pc = "created" =>
        /\ \A k \in Single : Res(k, 0, run) \in project
        /\ \A n \in 1..MasterCount : Res("master", n, run) \in project
        /\ targets = 1..MasterCount

\* What the requests of the running create command make.
HandedOver ==
    {Res(k, 0, run) : k \in Single} \cup {Res("master", n, run) : n \in 1..MasterCount}

\* When createServer is through, everything of the kinds the tool creates was
\* made by this very command: initFirstMasterNode finds no server of an older
\* cluster under a name it looks up.  If no cluster ever ran in the project,
\* there is nothing else in it at all.
HandsOver ==
    pc = "bootstrap" =>
        /\ OfKinds(Single \cup {"master"}) = HandedOver
        /\ cluster = 0 => project = HandedOver
        /\ targets = 1..MasterCount
        /\ i = MasterCount + 1

\* DeleteCluster ends with nothing left, controllers or not, if in its last
\* pass the last read of every phase was answered.
DeleteComplete == (pc = "deleted" /\ blind = {}) => project = {}

\* Every master is behind the control-plane firewall.
Protected ==
    OfKinds({"master"}) # {} => OfKinds({"fwcontrolplane"}) # {}

\* A master loses its firewall (is created before it, or outlives it) only
\* in a pass of the drainer whose read of the servers failed.
MasterNeverExposed ==
    [][Protected /\ ~Protected' => "servers" \in blind]_vars

\* The kinds of which some resource and some master come from two different
\* commands.
Mixed ==
    {k \in Single \cup {"master"} :
        \E r \in OfKinds({k}), m \in OfKinds({"master"}) : r.run # m.run}

\* What a later command can make beside masters that are still protected: a
\* network with its subnet, where a delete command stopped after its first
\* phase, and the workers' firewall, where one that overlooked the servers did
\* not get to the other firewall.
Replaceable == {"network", "subnet", "fwworkers"}

\* A create command that runs over the remains of an older cluster stops at a
\* name that is taken before it has made anything but these beside the older
\* masters, unless they had already lost their firewall.  And whatever is left,
\* a master is only ever created into the network, the firewalls, the balancer
\* and the group of its own command.
NeverMixed ==
    [][/\ (Mixed \subseteq Replaceable /\ Protected) => Mixed' \subseteq Replaceable
       /\ \A m \in OfKinds({"master"})' \ project : \A r \in OfKinds(Single)' : r.run = m.run]_vars

\* A delete command ends, whatever its deletions run into and whatever the
\* controllers do meanwhile, unless a read fails: a network or a master it
\* has overlooked lets the controllers replace what it deletes for ever.
DeleteTerminates == (pc \in DrainPc) ~> (pc \notin DrainPc \/ blind # {})

\* An interrupted command ends by itself: every loop of it notices.
InterruptStops == (pc \notin Ended /\ ctx = "cancelled") ~> (pc \in Ended)

-----------------------------------------------------------------------------
(* What the documentation and the tests say, and the code does not do.     *)

\* e2e_test.go and README.md: after the delete command the cluster is gone,
\* and the next create command finds an empty project.
DeletedMeansGone == pc = "deleted" => project = {}

\* errRetryLimitReached in the attach loop: attaching a master ends.
AttachEnds == (pc = "attach") ~> (pc \notin {"attach", "pause"})
=============================================================================
