-------------------------- MODULE LifecycleProofs --------------------------
(***************************************************************************)
(* Proofs about Lifecycle, for every number of masters, slots, faults and  *)
(* commands:                                                               *)
(*                                                                         *)
(*   1. the variables keep their types (TypeCorrect);                      *)
(*   2. a step only keeps, grows, shrinks or trims the project             *)
(*      (StepShapes), so names stay unique (ProjectStep);                  *)
(*   3. a create command has made what its place in NewCluster says        *)
(*      (CreateStep);                                                      *)
(*   4. a delete command has left nothing behind in the phases it is       *)
(*      through with, if their reads were answered (DrainStep);            *)
(*   5. 1 to 4 make IInv an invariant, and the properties follow from it.  *)
(***************************************************************************)
EXTENDS LifecycleInv, TLAPS

\* The kinds NewCluster creates one of, and their order, spelled out.
LEMMA FollowsFacts ==
    /\ Single = {"network", "subnet", "fwcontrolplane", "fwworkers", "sshkey",
                 "loadbalancer", "placementgroup"}
    /\ Follows["network"] = "subnet"
    /\ Follows["subnet"] = "fwcontrolplane"
    /\ Follows["fwcontrolplane"] = "fwworkers"
    /\ Follows["fwworkers"] = "sshkey"
    /\ Follows["sshkey"] = "loadbalancer"
    /\ Follows["loadbalancer"] = "placementgroup"
    /\ Follows["placementgroup"] = "master"
BY DEF Follows, Single

\* The phases of processDeleteCluster, and their order, spelled out.
LEMMA AfterFacts ==
    /\ Phases = {"networks", "sshkeys", "loadbalancers", "servers",
                 "placementgroup", "firewalls", "volumes"}
    /\ After["networks"] = "sshkeys"
    /\ After["sshkeys"] = "loadbalancers"
    /\ After["loadbalancers"] = "servers"
    /\ After["servers"] = "placementgroup"
    /\ After["placementgroup"] = "firewalls"
    /\ After["firewalls"] = "volumes"
    /\ After["volumes"] = "end"
BY DEF After, Phases

\* What the reads of every phase select, spelled out.
LEMMA ReadFacts ==
    /\ First["networks"] = {"network"}
    /\ First["sshkeys"] = {"sshkey"}
    /\ First["loadbalancers"] = {"loadbalancer"}
    /\ First["servers"] = {"master"}
    /\ First["placementgroup"] = {"placementgroup"}
    /\ First["firewalls"] = {"fwcontrolplane", "fwworkers"}
    /\ First["volumes"] = {"volume"}
    /\ Second["loadbalancers"] = {"servicelb"}
    /\ Second["servers"] = {"worker"}
    /\ \A p \in Phases \ {"loadbalancers", "servers"} : Second[p] = {}
BY AfterFacts DEF First, Second

\* The functions of NewCluster that make one request each, and createNetwork
\* and CreateFirewall with two, as one request at pc.
LEMMA CreateSingleForm ==
    CreateSingle <=>
        /\ pc \in Single
        /\ \/ CreateOk(pc, 0) /\ pc' = Follows[pc]
           \/ CreateFails(pc, 0) /\ pc' = "failed"
        /\ UNCHANGED createVars
BY FollowsFacts
DEF CreateSingle, CreateNetwork, CreateFirewall, CreateSSHKey, CreateLoadBalancer,
    CreatePlacementGroup, Request

-----------------------------------------------------------------------------
(* Type correctness *)

\* The tool starts on an empty project, with its variables typed.
LEMMA TypeInit == Init => TypeInv
BY MasterCountAssumption, MaxFaultsAssumption, AfterFacts
DEF Init, CloudInit, CreateInit, DrainInit, TypeInv, TypeOK, CloudTypeOK,
    CreateTypeOK, DrainTypeOK, AttachIndex, Ended

\* Every request, whatever its outcome, keeps the cloud's variables typed.
LEMMA CallTypes ==
    ASSUME CloudTypeOK,
           NEW k \in Kinds, NEW n \in Nat
    PROVE  /\ CreateOk(k, n) => CloudTypeOK'
           /\ CreateFails(k, n) => CloudTypeOK'
           /\ \A r \in Resources : DeleteOk(r) => CloudTypeOK'
           /\ \A r \in Resources : DeleteFails(r) => CloudTypeOK'
           /\ n \in 1..MasterCount => (AttachOk(n) => CloudTypeOK')
           /\ n \in 1..MasterCount => (AttachFails(n) => CloudTypeOK')
<1>1. Res(k, n, run) \in Resources
  BY DEF Res, Resources, CloudTypeOK
<1>2. faults < MaxFaults => faults + 1 \in 0..MaxFaults
  BY MaxFaultsAssumption DEF CloudTypeOK
<1>3. CreateOk(k, n) => CloudTypeOK'
  BY <1>1 DEF CreateOk, Added, CloudTypeOK
<1>4. CreateFails(k, n) => CloudTypeOK'
  BY <1>1, <1>2 DEF CreateFails, Disturbed, Added, CloudTypeOK
<1>5. \A r : Removed(r) => project' \subseteq Resources /\ targets' \subseteq 1..MasterCount
  BY DEF Removed, TargetsWithout, CloudTypeOK
<1>6. \A r \in Resources : DeleteOk(r) => CloudTypeOK'
  BY <1>5 DEF DeleteOk, CloudTypeOK
<1>7. \A r \in Resources : DeleteFails(r) => CloudTypeOK'
  BY <1>2, <1>5 DEF DeleteFails, Disturbed, CloudTypeOK
<1>8. n \in 1..MasterCount => (AttachOk(n) => CloudTypeOK')
  BY DEF AttachOk, CloudTypeOK
<1>9. n \in 1..MasterCount => (AttachFails(n) => CloudTypeOK')
  BY <1>2 DEF AttachFails, Disturbed, CloudTypeOK
<1> QED
  BY <1>3, <1>4, <1>6, <1>7, <1>8, <1>9

\* So does every read, and its answer is a set of resources.
LEMMA ReadTypes ==
    ASSUME CloudTypeOK, NEW ks, NEW answer
    PROVE  /\ ReadOk(ks, answer) => CloudTypeOK' /\ answer \subseteq Resources
           /\ ReadFails => CloudTypeOK'
           /\ ReadCancelled => CloudTypeOK'
<1>1. faults < MaxFaults => faults + 1 \in 0..MaxFaults
  BY MaxFaultsAssumption DEF CloudTypeOK
<1>2. ReadOk(ks, answer) => CloudTypeOK' /\ answer \subseteq Resources
  BY DEF ReadOk, OfKinds, cloudVars, CloudTypeOK
<1>3. ReadFails => CloudTypeOK'
  BY <1>1 DEF ReadFails, Disturbed, CloudTypeOK
<1>4. ReadCancelled => CloudTypeOK'
  BY DEF ReadCancelled, CloudTypeOK
<1> QED
  BY <1>2, <1>3, <1>4

\* Every step of the tool, the operator and the controllers keeps the types;
\* the masters' loop also keeps to its index while it attaches.
LEMMA TypeStep == TypeInv /\ [Next]_vars => TypeInv'
<1> SUFFICES ASSUME TypeInv, [Next]_vars PROVE TypeInv'
  OBVIOUS
<1> USE MasterCountAssumption, SlotAssumption
<1>types. /\ CloudTypeOK /\ CreateTypeOK /\ DrainTypeOK
          /\ pc \in Ended \cup CreatePc \cup DrainPc
          /\ AttachIndex
          /\ MasterCount + 1 \in Nat
  BY DEF TypeInv, TypeOK
<1>names. /\ {"master", "worker", "servicelb", "volume", "fwcontrolplane",
               "fwworkers"} \cup Single \subseteq Kinds
          /\ 0 \in Nat
          /\ i \in Nat
  BY <1>types, FollowsFacts DEF Kinds, CreateTypeOK
<1>pcs. \A k \in Single : k \in CreatePc /\ Follows[k] \in CreatePc
                          /\ Follows[k] \notin {"attach", "pause"}
  BY FollowsFacts DEF CreatePc
<1>pause. "attach" \notin Single /\ "pause" \notin Single
  BY FollowsFacts
<1>1. CASE CreateNext /\ UNCHANGED drainVars
  <2>drain. DrainTypeOK'
    BY <1>1, <1>types DEF drainVars, DrainTypeOK
  <2>1. CASE CreateSingle
    <3>1. CloudTypeOK'
      BY <2>1, <1>types, <1>names, CallTypes, CreateSingleForm
    <3> QED
      BY <2>1, <2>drain, <3>1, <1>types, <1>pcs, CreateSingleForm
      DEF createVars, CreateTypeOK, TypeInv, TypeOK, AttachIndex, Ended
  <2>2. CASE CreateMaster
    <3>1. CloudTypeOK'
      BY <2>2, <1>types, <1>names, CallTypes DEF CreateMaster
    <3> QED
      BY <2>2, <2>drain, <3>1, <1>types
      DEF CreateMaster, createVars, CreateTypeOK, CreatePc, TypeInv, TypeOK,
          AttachIndex, Ended
  <2>3. CASE Attach
    <3>1. i \in 1..MasterCount
      BY <2>3, <1>types DEF Attach, AttachIndex, CreateTypeOK
    <3>2. CloudTypeOK'
      BY <2>3, <1>types, <1>names, <3>1, CallTypes DEF Attach
    <3> QED
      BY <2>3, <2>drain, <3>1, <3>2, <1>types
      DEF Attach, CreateTypeOK, CreatePc, TypeInv, TypeOK, AttachIndex
  <2>4. CASE FirewallControlPlane \/ FirewallWorkers
    <3>1. CloudTypeOK'
      BY <2>4, <1>types, <1>names, CallTypes DEF FirewallControlPlane, FirewallWorkers
    <3> QED
      BY <2>4, <2>drain, <3>1, <1>types
      DEF FirewallControlPlane, FirewallWorkers, createVars, CreateTypeOK,
          CreatePc, FirewallPc, TypeInv, TypeOK, AttachIndex, Ended
  <2>5. CASE ServersDone \/ AttachPause \/ AttachCancelled \/ BootstrapDone
             \/ BootstrapFails
    BY <2>5, <2>drain, <1>types
    DEF ServersDone, AttachPause, AttachCancelled, BootstrapDone, BootstrapFails,
        cloudVars, createVars, CloudTypeOK, CreateTypeOK, CreatePc, TypeInv,
        TypeOK, AttachIndex, Ended
  <2>6. CASE KubernetesStarts
    BY <2>6, <2>drain, <1>types
    DEF KubernetesStarts, cloudVars, CloudTypeOK, CreateTypeOK, CreatePc,
        TypeInv, TypeOK, AttachIndex
  <2> QED
    BY <1>1, <2>1, <2>2, <2>3, <2>4, <2>5, <2>6 DEF CreateNext
<1>2. CASE DrainNext /\ UNCHANGED createVars
  <2>create. CreateTypeOK'
    BY <1>2, <1>types DEF createVars, CreateTypeOK
  <2>round. ASSUME RoundRead
            PROVE  /\ pc' \in DrainPc \cup Ended
                   /\ pc' \notin {"attach", "pause"}
                   /\ phase' \in Phases
    BY <2>round, <1>types, AfterFacts DEF RoundRead, DrainPc, Ended, DrainTypeOK
  <2>1. CASE ReadFirst
    <3>1. CloudTypeOK' /\ found' \subseteq Resources /\ blind' \subseteq Phases
      BY <2>1, <1>types, ReadTypes DEF ReadFirst, DrainTypeOK
    <3>2. /\ pc' \in DrainPc \cup Ended
          /\ pc' \notin {"attach", "pause"}
          /\ phase' \in Phases
      BY <2>1, <2>round, <1>types DEF ReadFirst, DrainPc, DrainTypeOK
    <3> QED
      BY <3>1, <3>2, <2>create DEF DrainTypeOK, TypeInv, TypeOK, AttachIndex
  <2>2. CASE ReadSecond
    <3>1. CloudTypeOK' /\ found' \subseteq Resources /\ blind' \subseteq Phases
      BY <2>2, <1>types, ReadTypes DEF ReadSecond, DrainTypeOK
    <3> QED
      BY <2>2, <3>1, <2>create, <2>round
      DEF ReadSecond, DrainTypeOK, TypeInv, TypeOK, AttachIndex
  <2>3. CASE DeleteFound
    <3>1. PICK r \in Deletable :
            \/ DeleteOk(r) /\ found' = found \ {r} /\ pc' \in {"first", "delete"}
            \/ DeleteFails(r) /\ found' = {} /\ pc' = "sleep"
      BY <2>3 DEF DeleteFound
    <3>2. r \in Resources
      BY <1>types DEF Deletable, DrainTypeOK
    <3>3. CloudTypeOK'
      BY <3>1, <3>2, <1>types, <1>names, CallTypes
    <3> QED
      BY <2>3, <3>1, <3>3, <2>create, <1>types
      DEF DeleteFound, DrainPc, DrainTypeOK, TypeInv, TypeOK, AttachIndex
  <2>4. CASE PhaseCancelled \/ Retry
    BY <2>4, <2>create, <1>types, AfterFacts
    DEF PhaseCancelled, Retry, cloudVars, CloudTypeOK, DrainPc, Ended,
        DrainTypeOK, TypeInv, TypeOK, AttachIndex
  <2> QED
    BY <1>2, <2>1, <2>2, <2>3, <2>4 DEF DrainNext
<1>3. CASE Exit \/ Killed
  <2>1. Gone
    BY <1>3 DEF Exit, Killed
  <2>2. CloudTypeOK'
    BY <2>1, <1>types DEF Gone, cloudVars, CloudTypeOK
  <2>3. CreateTypeOK' /\ DrainTypeOK'
    BY <2>1, <1>types, AfterFacts DEF Gone, CreateTypeOK, DrainTypeOK
  <2> QED
    BY <2>1, <2>2, <2>3 DEF Gone, Ended, TypeInv, TypeOK, AttachIndex
<1>4. CASE RunCreate \/ RunDelete \/ RunCreateFirewall
  <2>1. PICK entry \in {"network", "first", "failed"} \cup FirewallPc : Start(entry)
    BY <1>4 DEF RunCreate, RunDelete, RunCreateFirewall
  <2>2. entry \in Ended \cup CreatePc \cup DrainPc /\ entry \notin {"attach", "pause"}
    BY FollowsFacts DEF Ended, CreatePc, DrainPc, FirewallPc
  <2> QED
    BY <2>1, <2>2, <1>types, AfterFacts
    DEF Start, CloudTypeOK, CreateTypeOK, DrainTypeOK, TypeInv, TypeOK, AttachIndex
<1>5. CASE Interrupt
  BY <1>5, <1>types
  DEF Interrupt, createVars, drainVars, CloudTypeOK, CreateTypeOK, DrainTypeOK,
      TypeInv, TypeOK, AttachIndex
<1>6. CASE Controllers
  <2>1. PICK n \in Slot, k \in {"worker", "servicelb", "volume"} :
          Launched(k, n) \/ Withdrawn(k, n)
    BY <1>6 DEF Controllers, ScaleUp, ScaleDown, EnsureLoadBalancer,
                EnsureLoadBalancerDeleted, CreateVolume
  <2>2. Res(k, n, cluster) \in Resources
    BY <1>types DEF Res, Resources, Kinds, CreateTypeOK
  <2>3. project' \subseteq Resources
    BY <2>1, <2>2, <1>types DEF Launched, Added, Withdrawn, CloudTypeOK
  <2> QED
    BY <2>1, <2>3, <1>types
    DEF Launched, Withdrawn, createVars, drainVars, CloudTypeOK, CreateTypeOK,
        DrainTypeOK, TypeInv, TypeOK, AttachIndex
<1>7. CASE UNCHANGED vars
  BY <1>7, <1>types
  DEF vars, cloudVars, createVars, drainVars, CloudTypeOK, CreateTypeOK,
      DrainTypeOK, TypeInv, TypeOK, AttachIndex
<1> QED
  BY <1>1, <1>2, <1>3, <1>4, <1>5, <1>6, <1>7 DEF Next, Tool, Operator

\* The variables keep their types in every behaviour, for any number of
\* masters, slots, faults and commands.
THEOREM TypeCorrect == Spec => []TypeOK
<1>1. Spec => []TypeInv
  BY TypeInit, TypeStep, PTL DEF Spec
<1>2. TypeInv => TypeOK
  BY DEF TypeInv
<1> QED
  BY <1>1, <1>2, PTL

-----------------------------------------------------------------------------
(* What a step can do to the project *)

Kept == UNCHANGED <<project, targets>>

Grown ==
    /\ UNCHANGED targets
    /\ \E k \in Kinds, n \in Nat, owner \in Nat :
          /\ Added(k, n, owner)
          /\ k \in Single => n = 0
          /\ k = "subnet" => OfKinds({"network"}) # {}

Shrunk == \E r \in Resources : Removed(r)

Trimmed ==
    /\ UNCHANGED targets
    /\ \E r \in project : /\ r.kind \in {"worker", "servicelb"}
                          /\ project' = project \ {r}

Attached ==
    /\ UNCHANGED project
    /\ OfKinds({"loadbalancer"}) # {}

\* The order of NewCluster's requests as numbers, spelled out.
LEMMA RankFacts ==
    /\ DOMAIN Rank = Single \cup {"master", "attach", "pause", "bootstrap", "created"}
    /\ Rank["network"] = 1
    /\ Rank["subnet"] = 2
    /\ Rank["fwcontrolplane"] = 3
    /\ Rank["fwworkers"] = 4
    /\ Rank["sshkey"] = 5
    /\ Rank["loadbalancer"] = 6
    /\ Rank["placementgroup"] = 7
    /\ \A p \in {"master", "attach", "pause", "bootstrap", "created"} : Rank[p] = 8
BY FollowsFacts DEF Rank

\* What a step may do to the project and the targets, one of five shapes.
LEMMA StepShapes ==
    TypeInv /\ SinglesMade /\ [Next]_vars =>
        Kept \/ Grown \/ Shrunk \/ Trimmed \/ Attached
<1> SUFFICES ASSUME TypeInv, SinglesMade, [Next]_vars
             PROVE  Kept \/ Grown \/ Shrunk \/ Trimmed \/ Attached
  OBVIOUS
<1>types. /\ CloudTypeOK /\ CreateTypeOK /\ DrainTypeOK /\ run \in Nat /\ 0 \in Nat
          /\ i \in Nat /\ cluster \in Nat
  BY MasterCountAssumption DEF TypeInv, TypeOK, CloudTypeOK, CreateTypeOK
<1>kinds. {"master", "worker", "servicelb", "volume"} \cup Single \subseteq Kinds
  BY FollowsFacts DEF Kinds
<1>create. ASSUME NEW k \in Kinds, NEW n \in Nat,
                  CreateOk(k, n) \/ CreateFails(k, n),
                  k \in Single => n = 0,
                  k = "subnet" => OfKinds({"network"}) # {}
           PROVE  Kept \/ Grown
  BY <1>create, <1>types DEF CreateOk, CreateFails, Kept, Grown
<1>1. CASE CreateNext
  <2>1. CASE CreateSingle
    <3>1. pc = "subnet" => OfKinds({"network"}) # {}
      <4>1. pc = "subnet" => Res("network", 0, run) \in project
        BY FollowsFacts, RankFacts DEF SinglesMade
      <4> QED
        BY <4>1 DEF OfKinds, Res
    <3> QED
      BY <2>1, <3>1, <1>types, <1>kinds, <1>create, CreateSingleForm
  <2>2. CASE CreateMaster
    <3>1. "master" \notin Single
      BY FollowsFacts
    <3> QED
      BY <2>2, <3>1, <1>types, <1>kinds, <1>create DEF CreateMaster
  <2>3. CASE Attach
    <3>1. Res("loadbalancer", 0, run) \in project
      BY <2>3, FollowsFacts, RankFacts DEF Attach, SinglesMade
    <3>2. OfKinds({"loadbalancer"}) # {}
      BY <3>1 DEF OfKinds, Res
    <3> QED
      BY <2>3, <3>2 DEF Attach, AttachOk, AttachFails, Attached
  <2>4. CASE FirewallControlPlane \/ FirewallWorkers
    BY <2>4, FollowsFacts, <1>types, <1>kinds, <1>create
    DEF FirewallControlPlane, FirewallWorkers
  <2>5. CASE ServersDone \/ AttachPause \/ AttachCancelled \/ KubernetesStarts
             \/ BootstrapDone \/ BootstrapFails
    BY <2>5
    DEF ServersDone, AttachPause, AttachCancelled, KubernetesStarts, BootstrapDone,
        BootstrapFails, cloudVars, Kept
  <2> QED
    BY <1>1, <2>1, <2>2, <2>3, <2>4, <2>5 DEF CreateNext
<1>2. CASE DrainNext
  <2>1. CASE ReadFirst \/ ReadSecond
    BY <2>1
    DEF ReadFirst, ReadSecond, ReadOk, ReadFails, ReadCancelled, cloudVars, Kept
  <2>2. CASE DeleteFound
    <3>1. PICK r \in Deletable : DeleteOk(r) \/ DeleteFails(r)
      BY <2>2 DEF DeleteFound
    <3>2. r \in Resources
      BY <1>types DEF Deletable, DrainTypeOK
    <3> QED
      BY <3>1, <3>2 DEF DeleteOk, DeleteFails, Kept, Shrunk
  <2>3. CASE PhaseCancelled \/ Retry
    BY <2>3 DEF PhaseCancelled, Retry, cloudVars, Kept
  <2> QED
    BY <1>2, <2>1, <2>2, <2>3 DEF DrainNext
<1>3. CASE Exit \/ Operator
  BY <1>3
  DEF Exit, Operator, RunCreate, RunDelete, RunCreateFirewall, Start, Interrupt,
      Killed, Gone, cloudVars, Kept
<1>4. CASE Controllers
  <2>1. PICK n \in Slot, k \in {"worker", "servicelb", "volume"} :
          Launched(k, n) \/ (k # "volume" /\ Withdrawn(k, n))
    BY <1>4 DEF Controllers, ScaleUp, ScaleDown, EnsureLoadBalancer,
                EnsureLoadBalancerDeleted, CreateVolume
  <2>2. CASE Launched(k, n)
    <3>1. k \notin Single /\ k # "subnet" /\ n \in Nat /\ k \in Kinds
      BY FollowsFacts, SlotAssumption, <1>kinds
    <3> QED
      BY <2>2, <3>1, <1>types DEF Launched, Grown
  <2>3. CASE k # "volume" /\ Withdrawn(k, n)
    BY <2>3 DEF Withdrawn, OfKinds, Trimmed
  <2> QED
    BY <2>1, <2>2, <2>3
<1>5. CASE UNCHANGED vars
  BY <1>5 DEF vars, cloudVars, Kept
<1> QED
  BY <1>1, <1>2, <1>3, <1>4, <1>5 DEF Next, Tool

\* Names stay unique, the subnet goes with its network and the targets with
\* their load balancer.
LEMMA ProjectStep == TypeInv /\ SinglesMade /\ ProjectInv /\ [Next]_vars => ProjectInv'
<1> SUFFICES ASSUME TypeInv, SinglesMade, ProjectInv, [Next]_vars
             PROVE  ProjectInv'
  OBVIOUS
<1>0. Kept \/ Grown \/ Shrunk \/ Trimmed \/ Attached
  BY StepShapes
<1>1. CASE Kept
  BY <1>1 DEF Kept, ProjectInv, SingleIndex, NamesUnique, SubnetInNetwork,
              TargetsOnBalancer, OfKinds
<1>2. CASE Grown
  <2>1. PICK k \in Kinds, n \in Nat, owner \in Nat :
          /\ Added(k, n, owner)
          /\ k \in Single => n = 0
          /\ k = "subnet" => OfKinds({"network"}) # {}
    BY <1>2 DEF Grown
  <2>2. /\ project' = project \cup {Res(k, n, owner)}
        /\ \A r \in project : ~(r.kind = k /\ r.index = n)
        /\ Res(k, n, owner).kind = k
        /\ Res(k, n, owner).index = n
        /\ targets' = targets
    BY <2>1, <1>2 DEF Added, Exists, Res, Grown
  <2>3. SingleIndex'
    BY <2>1, <2>2 DEF ProjectInv, SingleIndex
  <2>4. NamesUnique'
    BY <2>2 DEF ProjectInv, NamesUnique
  <2>5. SubnetInNetwork'
    BY <2>1, <2>2 DEF ProjectInv, SubnetInNetwork, OfKinds
  <2>6. TargetsOnBalancer'
    BY <2>2 DEF ProjectInv, TargetsOnBalancer, OfKinds
  <2> QED
    BY <2>3, <2>4, <2>5, <2>6 DEF ProjectInv
<1>3. CASE Shrunk
  <2>1. PICK r \in Resources : Removed(r)
    BY <1>3 DEF Shrunk
  <2>2. project' \subseteq project
    BY <2>1 DEF Removed
  <2>3. SingleIndex' /\ NamesUnique'
    BY <2>2 DEF ProjectInv, SingleIndex, NamesUnique
  <2>4. SubnetInNetwork'
    <3>1. CASE r.kind = "network"
      BY <2>1, <3>1 DEF Removed, RemovedWith, SubnetInNetwork, OfKinds
    <3>2. CASE r.kind # "network"
      BY <2>1, <3>2 DEF Removed, RemovedWith, ProjectInv, SubnetInNetwork, OfKinds
    <3> QED
      BY <3>1, <3>2
  <2>5. TargetsOnBalancer'
    <3>1. CASE r.kind = "loadbalancer"
      BY <2>1, <3>1 DEF Removed, TargetsWithout, TargetsOnBalancer
    <3>2. CASE r.kind # "loadbalancer"
      <4>1. OfKinds({"loadbalancer"})' = OfKinds({"loadbalancer"})
        BY <2>1, <3>2 DEF Removed, RemovedWith, OfKinds
      <4>2. targets' \subseteq targets
        BY <2>1 DEF Removed, TargetsWithout
      <4> QED
        BY <4>1, <4>2 DEF ProjectInv, TargetsOnBalancer
    <3> QED
      BY <3>1, <3>2
  <2> QED
    BY <2>3, <2>4, <2>5 DEF ProjectInv
<1>4. CASE Trimmed
  <2>1. PICK r \in project : /\ r.kind \in {"worker", "servicelb"}
                            /\ project' = project \ {r}
    BY <1>4 DEF Trimmed
  <2>2. targets' = targets
    BY <1>4 DEF Trimmed
  <2> QED
    BY <2>1, <2>2
    DEF ProjectInv, SingleIndex, NamesUnique, SubnetInNetwork, TargetsOnBalancer,
        OfKinds
<1>5. CASE Attached
  BY <1>5
  DEF Attached, ProjectInv, SingleIndex, NamesUnique, SubnetInNetwork,
      TargetsOnBalancer, OfKinds
<1> QED
  BY <1>0, <1>1, <1>2, <1>3, <1>4, <1>5

-----------------------------------------------------------------------------
(* The create command *)

\* Only the create command has made resources to account for.
LEMMA NotCreating == pc' \notin DOMAIN Rank => CreateInv'
BY FollowsFacts, RankFacts DEF CreateInv, SinglesMade, MastersMade

\* A step of somebody else leaves what the create command made.
LEMMA CreateKept ==
    ASSUME CreateInv, UNCHANGED <<pc, run, i, targets>>,
           \A r \in project : r.kind \notin {"worker", "servicelb"} => r \in project'
    PROVE  CreateInv'
<1>1. \A k \in Single \cup {"master"} : \A n, owner :
        Res(k, n, owner) \in project => Res(k, n, owner) \in project'
  BY FollowsFacts DEF Res
<1>2. SinglesMade'
  BY <1>1 DEF CreateInv, SinglesMade
<1>3. \A n : MastersUpTo(n) => MastersUpTo(n)'
  BY <1>1 DEF MastersUpTo
<1>4. MastersMade'
  BY <1>3 DEF CreateInv, MastersMade
<1> QED
  BY <1>2, <1>4 DEF CreateInv

\* Every step accounts for what the running create command has made: each of
\* its requests adds its resource before the next one, and the controllers
\* touch only what is not among them.
LEMMA CreateStep ==
    TypeInv /\ ProjectInv /\ CreateInv /\ [Next]_vars => CreateInv'
<1> SUFFICES ASSUME TypeInv, ProjectInv, CreateInv, [Next]_vars
             PROVE  CreateInv'
  OBVIOUS
<1>types. i \in Nat /\ i >= 1 /\ run \in Nat /\ MasterCount \in Nat
          /\ targets \subseteq 1..MasterCount /\ i <= MasterCount + 1
  BY MasterCountAssumption DEF TypeInv, TypeOK, CloudTypeOK, CreateTypeOK
<1>off. \A p \in {"failed", "firewalled", "exited", "deleted", "stopped"}
              \cup DrainPc \cup FirewallPc : p \notin DOMAIN Rank
  BY FollowsFacts, RankFacts DEF DrainPc, FirewallPc
<1>1. CASE CreateNext
  <2>1. CASE CreateSingle
    <3>1. CASE CreateOk(pc, 0) /\ pc' = Follows[pc]
      <4>1. /\ pc \in Single
            /\ i' = i /\ i = 1 /\ run' = run /\ targets' = targets
            /\ project' = project \cup {Res(pc, 0, run)}
            /\ pc' = Follows[pc]
        BY <2>1, <3>1, CreateSingleForm
        DEF CreateOk, Added, createVars, CreateInv, MastersMade
      <4>2. \A k \in Single : Rank[k] < Rank[pc'] => k = pc \/ Rank[k] < Rank[pc]
        BY <4>1, FollowsFacts, RankFacts
      <4>3. \A k \in Single : Rank[k] < Rank[pc] => Res(k, 0, run) \in project
        BY <4>1, RankFacts DEF CreateInv, SinglesMade
      <4>4. SinglesMade'
        BY <4>1, <4>2, <4>3 DEF SinglesMade, Res
      <4>5. pc = "loadbalancer" => targets = {}
        <5>1. SUFFICES ASSUME pc = "loadbalancer" PROVE OfKinds({"loadbalancer"}) = {}
          BY DEF ProjectInv, TargetsOnBalancer
        <5>2. ~Exists("loadbalancer", 0)
          BY <3>1, <5>1 DEF CreateOk, Added
        <5> QED
          BY <5>2, FollowsFacts DEF OfKinds, Exists, ProjectInv, SingleIndex
      <4>6. pc = "placementgroup" => targets = {}
        BY DEF CreateInv, MastersMade
      <4>7. pc' \in (Single \cup {"master"})
            /\ (pc' = "placementgroup" => pc = "loadbalancer")
            /\ (pc' = "master" => pc = "placementgroup")
        BY <4>1, FollowsFacts
      <4>8. i' = 1 /\ 1..(1 - 1) = {}
        BY <4>1
      <4>9. MastersMade'
        BY <4>1, <4>5, <4>6, <4>7, <4>8, FollowsFacts DEF MastersMade, MastersUpTo
      <4> QED
        BY <4>4, <4>9 DEF CreateInv
    <3>2. CASE pc' = "failed"
      BY <3>2, <1>off, NotCreating
    <3> QED
      BY <2>1, <3>1, <3>2, CreateSingleForm
  <2>2. CASE CreateMaster
    <3>1. CASE CreateOk("master", i) /\ pc' = "attach"
      <4>1. /\ pc = "master"
            /\ i' = i /\ run' = run /\ targets' = targets
            /\ project' = project \cup {Res("master", i, run)}
            /\ pc' = "attach"
        BY <2>2, <3>1 DEF CreateMaster, CreateOk, Added, createVars
      <4>2. MastersUpTo(i - 1) /\ targets = 1..(i - 1)
        BY <4>1 DEF CreateInv, MastersMade
      <4>3. MastersUpTo(i)'
        BY <4>1, <4>2, <1>types DEF MastersUpTo, Res
      <4>4. MastersMade'
        BY <4>1, <4>2, <4>3, <1>types, FollowsFacts DEF MastersMade
      <4>5. SinglesMade'
        BY <4>1, FollowsFacts, RankFacts DEF CreateInv, SinglesMade, Res
      <4> QED
        BY <4>4, <4>5 DEF CreateInv
    <3>2. CASE pc' = "failed"
      BY <3>2, <1>off, NotCreating
    <3> QED
      BY <2>2, <3>1, <3>2 DEF CreateMaster
  <2>3. CASE Attach
    <3>1. /\ pc = "attach"
          /\ project' = project /\ run' = run
          /\ \/ /\ pc' = "master" /\ i' = i + 1
                /\ targets' = targets \cup {i}
             \/ /\ pc' = "pause" /\ i' = i
                /\ targets' \in {targets, targets \cup {i}}
      BY <2>3 DEF Attach, AttachOk, AttachFails, Disturbed
    <3>2. MastersUpTo(i) /\ 1..(i - 1) \subseteq targets /\ targets \subseteq 1..i
      BY <3>1 DEF CreateInv, MastersMade
    <3>3. SinglesMade'
      BY <3>1, FollowsFacts, RankFacts DEF CreateInv, SinglesMade, Res
    <3>5. 1..(i - 1) \cup {i} = 1..i /\ i \in 1..i
      BY <1>types
    <3>6. MastersMade'
      <4>1. CASE pc' = "master"
        <5>0. targets' = 1..i
          BY <3>1, <3>2, <3>5, <4>1
        <5>1. i' = i + 1 /\ (i + 1) - 1 = i /\ targets' = 1..i
          BY <3>1, <5>0, <4>1, <1>types
        <5>2. MastersUpTo(i - 1)'
          BY <5>1, <3>1, <3>2 DEF MastersUpTo, Res
        <5> QED
          BY <5>1, <5>2, <4>1, FollowsFacts DEF MastersMade
      <4>2. CASE pc' = "pause"
        <5>1. i' = i /\ 1..(i - 1) \subseteq targets' /\ targets' \subseteq 1..i
          BY <3>1, <3>2, <3>5, <4>2
        <5>2. MastersUpTo(i)'
          BY <5>1, <3>1, <3>2 DEF MastersUpTo, Res
        <5> QED
          BY <5>1, <5>2, <4>2, FollowsFacts DEF MastersMade
      <4> QED
        BY <3>1, <4>1, <4>2
    <3> QED
      BY <3>3, <3>6 DEF CreateInv
  <2>4. CASE AttachPause
    BY <2>4, FollowsFacts, RankFacts
    DEF AttachPause, cloudVars, createVars, CreateInv, SinglesMade, MastersMade,
        MastersUpTo, Res
  <2>5. CASE ServersDone
    <3>1. i = MasterCount + 1 /\ i - 1 = MasterCount
      BY <2>5, <1>types DEF ServersDone
    <3> QED
      BY <2>5, <3>1, FollowsFacts, RankFacts
      DEF ServersDone, cloudVars, createVars, CreateInv, SinglesMade, MastersMade,
          MastersUpTo, Res
  <2>6. CASE KubernetesStarts \/ BootstrapDone
    BY <2>6, FollowsFacts, RankFacts
    DEF KubernetesStarts, BootstrapDone, cloudVars, createVars, CreateInv,
        SinglesMade, MastersMade, MastersUpTo, Res
  <2>7. CASE AttachCancelled \/ BootstrapFails \/ FirewallControlPlane \/ FirewallWorkers
    <3>1. pc' \in {"failed", "firewalled"} \cup FirewallPc
      BY <2>7 DEF AttachCancelled, BootstrapFails, FirewallControlPlane,
                  FirewallWorkers, FirewallPc
    <3> QED
      BY <3>1, <1>off, NotCreating
  <2> QED
    BY <1>1, <2>1, <2>2, <2>3, <2>4, <2>5, <2>6, <2>7 DEF CreateNext
<1>2. CASE DrainNext
  <2>1. pc' \in {"deleted", "stopped"} \cup DrainPc
    BY <1>2 DEF DrainNext, ReadFirst, ReadSecond, DeleteFound, PhaseCancelled, Retry,
                RoundRead, DrainPc
  <2> QED
    BY <2>1, <1>off, NotCreating
<1>3. CASE Exit \/ Killed \/ RunDelete \/ RunCreateFirewall
  <2>1. pc' \in {"exited", "failed"} \cup DrainPc \cup FirewallPc
    BY <1>3 DEF Exit, Killed, Gone, RunDelete, RunCreateFirewall, Start, DrainPc
  <2> QED
    BY <2>1, <1>off, NotCreating
<1>4. CASE RunCreate
  BY <1>4, FollowsFacts, RankFacts DEF RunCreate, Start, CreateInv, SinglesMade, MastersMade
<1>5. CASE Interrupt \/ UNCHANGED vars
  BY <1>5, CreateKept DEF Interrupt, vars, cloudVars, createVars
<1>6. CASE Controllers
  <2>1. PICK n \in Slot, k \in {"worker", "servicelb", "volume"} :
          Launched(k, n) \/ (k # "volume" /\ Withdrawn(k, n))
    BY <1>6 DEF Controllers, ScaleUp, ScaleDown, EnsureLoadBalancer,
                EnsureLoadBalancerDeleted, CreateVolume
  <2>2. UNCHANGED <<pc, run, i, targets>>
    BY <2>1 DEF Launched, Withdrawn, createVars
  <2>3. \A r \in project : r.kind \notin {"worker", "servicelb"} => r \in project'
    BY <2>1 DEF Launched, Added, Withdrawn, OfKinds
  <2> QED
    BY <2>2, <2>3, CreateKept
<1> QED
  BY <1>1, <1>2, <1>3, <1>4, <1>5, <1>6 DEF Next, Tool, Operator

-----------------------------------------------------------------------------
(* Who made what *)

\* Whoever adds a resource is a command that was run, and adds of the tool's
\* kinds only what the loops of NewCluster go through.
LEMMA OwnerGrows ==
    ASSUME TypeInv, OwnerInv, UNCHANGED <<run, cluster>>,
           pc' # "idle" => pc # "idle", pc' # "bootstrap",
           NEW k, NEW n, NEW owner \in Nat,
           project' \subseteq project \cup {Res(k, n, owner)},
           1 <= owner, owner <= run,
           k = "master" => n \in 1..MasterCount,
           cluster = 0 => k \in Single \cup {"master"}
    PROVE  OwnerInv'
<1>1. /\ Res(k, n, owner).kind = k
      /\ Res(k, n, owner).index = n
      /\ Res(k, n, owner).run = owner
  BY DEF Res
<1> QED
  BY <1>1 DEF OwnerInv

\* A step that adds nothing and starts nothing leaves every owner.
LEMMA OwnerKept ==
    ASSUME OwnerInv, UNCHANGED <<run, cluster>>, project' \subseteq project,
           pc' # "idle" => pc # "idle",
           pc' = "bootstrap" => i' = MasterCount + 1
    PROVE  OwnerInv'
BY DEF OwnerInv

\* Every step keeps the owners: nobody creates for a command to come, and the
\* controllers only exist for the command that started them.
LEMMA OwnerStep == TypeInv /\ OwnerInv /\ [Next]_vars => OwnerInv'
<1> SUFFICES ASSUME TypeInv, OwnerInv, [Next]_vars PROVE OwnerInv'
  OBVIOUS
<1>types. /\ i \in 1..(MasterCount + 1) /\ run \in Nat /\ cluster \in Nat
          /\ MasterCount \in Nat
  BY MasterCountAssumption DEF TypeInv, TypeOK, CloudTypeOK, CreateTypeOK
<1>create. ASSUME NEW k \in Single \cup {"master"}, NEW n,
                  CreateOk(k, n) \/ CreateFails(k, n), UNCHANGED cluster,
                  k = "master" => n \in 1..MasterCount,
                  pc # "idle", pc' # "bootstrap"
           PROVE  OwnerInv'
  <2>1. run \in Nat /\ 1 <= run /\ run <= run
    BY <1>create, <1>types DEF OwnerInv
  <2>2. project' \subseteq project \cup {Res(k, n, run)} /\ run' = run
    BY <1>create DEF CreateOk, CreateFails, Added
  <2> QED
    BY <2>1, <2>2, <1>create, OwnerGrows
<1>1. CASE CreateNext
  <2>1. CASE CreateSingle
    <3>1. /\ pc \in Single
          /\ CreateOk(pc, 0) \/ CreateFails(pc, 0)
          /\ pc' \in Single \cup {"master", "failed"}
          /\ UNCHANGED cluster
      BY <2>1, CreateSingleForm, FollowsFacts DEF createVars
    <3>2. pc # "idle" /\ pc # "master" /\ pc' # "bootstrap"
      BY <3>1, FollowsFacts
    <3> QED
      BY <3>1, <3>2, <1>create
  <2>2. CASE CreateMaster
    <3>1. i \in 1..MasterCount /\ pc = "master" /\ pc' \in {"attach", "failed"}
          /\ UNCHANGED cluster
      BY <2>2, <1>types DEF CreateMaster, createVars
    <3>2. CreateOk("master", i) \/ CreateFails("master", i)
      BY <2>2 DEF CreateMaster
    <3> QED
      BY <3>1, <3>2, <1>create
  <2>3. CASE FirewallControlPlane \/ FirewallWorkers
    <3>1. PICK k \in {"fwcontrolplane", "fwworkers"} : CreateOk(k, 0) \/ CreateFails(k, 0)
      BY <2>3 DEF FirewallControlPlane, FirewallWorkers
    <3>2. /\ pc \in {"onlycontrolplane", "onlyworkers"}
          /\ pc' \in {"onlyworkers", "firewalled", "failed"}
          /\ UNCHANGED cluster
      BY <2>3 DEF FirewallControlPlane, FirewallWorkers, createVars
    <3>3. k \in Single
      BY FollowsFacts
    <3> QED
      BY <3>1, <3>2, <3>3, <1>create
  <2>4. CASE ServersDone
    <3>1. i = MasterCount + 1 /\ UNCHANGED <<project, run, cluster, i>> /\ pc = "master"
      BY <2>4, <1>types DEF ServersDone, cloudVars, createVars
    <3> QED
      BY <3>1, OwnerKept
  <2>5. CASE Attach \/ AttachPause \/ AttachCancelled \/ BootstrapDone \/ BootstrapFails
    <3>1. /\ UNCHANGED <<project, run, cluster>>
          /\ pc \in {"attach", "pause", "bootstrap"}
          /\ pc' \in {"attach", "pause", "master", "created", "failed"}
      BY <2>5
      DEF Attach, AttachOk, AttachFails, AttachPause, AttachCancelled, BootstrapDone,
          BootstrapFails, cloudVars, createVars
    <3> QED
      BY <3>1, OwnerKept
  <2>6. CASE KubernetesStarts
    BY <2>6, <1>types DEF KubernetesStarts, cloudVars, OwnerInv
  <2> QED
    BY <1>1, <2>1, <2>2, <2>3, <2>4, <2>5, <2>6 DEF CreateNext
<1>2. CASE DrainNext /\ UNCHANGED createVars
  <2>1. pc # "idle" /\ pc' # "bootstrap" /\ UNCHANGED <<run, cluster>>
    BY <1>2
    DEF DrainNext, ReadFirst, ReadSecond, DeleteFound, PhaseCancelled, Retry, RoundRead,
        ReadOk, ReadFails, ReadCancelled, DeleteOk, DeleteFails, cloudVars, createVars
  <2>2. project' \subseteq project
    BY <1>2
    DEF DrainNext, ReadFirst, ReadSecond, DeleteFound, PhaseCancelled, Retry,
        ReadOk, ReadFails, ReadCancelled, DeleteOk, DeleteFails, Removed, cloudVars
  <2> QED
    BY <2>1, <2>2, OwnerKept
<1>3. CASE RunCreate \/ RunDelete \/ RunCreateFirewall
  <2>1. run' = run + 1 /\ UNCHANGED <<project, cluster>> /\ pc' # "bootstrap"
    BY <1>3 DEF RunCreate, RunDelete, RunCreateFirewall, Start, FirewallPc
  <2>2. ASSUME NEW x \in Nat, x <= run PROVE x <= run'
    BY <2>1, <2>2, <1>types
  <2>3. 1 <= run' /\ cluster <= run'
    BY <2>1, <1>types DEF OwnerInv
  <2>4. \A r \in project : r.run \in Nat
    BY DEF TypeInv, TypeOK, CloudTypeOK, Resources
  <2>5. \A r \in project : r.run <= run'
    BY <2>2, <2>4 DEF OwnerInv
  <2> QED
    BY <2>1, <2>3, <2>5 DEF OwnerInv
<1>4. CASE Exit \/ Killed
  <2>1. pc # "idle" /\ pc' # "bootstrap" /\ UNCHANGED <<project, run, cluster>>
    BY <1>4 DEF Exit, Killed, Gone, Ended, cloudVars
  <2> QED
    BY <2>1, OwnerKept
<1>5. CASE Interrupt \/ UNCHANGED vars
  BY <1>5 DEF Interrupt, vars, cloudVars, createVars, OwnerInv
<1>6. CASE Controllers
  <2>1. PICK n \in Slot, k \in {"worker", "servicelb", "volume"} :
          Launched(k, n) \/ Withdrawn(k, n)
    BY <1>6 DEF Controllers, ScaleUp, ScaleDown, EnsureLoadBalancer,
                EnsureLoadBalancerDeleted, CreateVolume
  <2>2. UNCHANGED <<run, cluster, pc, i>>
    BY <2>1 DEF Launched, Withdrawn, createVars
  <2>3. 1 <= cluster
    BY <2>1 DEF Launched, Withdrawn, Running, OwnerInv
  <2>4. project' \subseteq project \cup {Res(k, n, cluster)}
    BY <2>1 DEF Launched, Withdrawn, Added
  <2>5. /\ Res(k, n, cluster).kind = k
        /\ Res(k, n, cluster).run = cluster
    BY DEF Res
  <2> QED
    BY <2>2, <2>3, <2>4, <2>5, <1>types DEF OwnerInv
<1> QED
  BY <1>1, <1>2, <1>3, <1>4, <1>5, <1>6 DEF Next, Tool, Operator

-----------------------------------------------------------------------------
(* The delete command *)

\* The order of the phases as numbers, spelled out.
LEMMA PhaseRankFacts ==
    /\ PhaseRank["networks"] = 1
    /\ PhaseRank["sshkeys"] = 2
    /\ PhaseRank["loadbalancers"] = 3
    /\ PhaseRank["servers"] = 4
    /\ PhaseRank["placementgroup"] = 5
    /\ PhaseRank["firewalls"] = 6
    /\ PhaseRank["volumes"] = 7
BY DEF PhaseRank

\* Outside a delete command there is nothing to account for.
LEMMA NotDraining == pc' \notin DrainPc \cup {"deleted"} => DrainInv'
BY DEF DrainPc, DrainInv, FoundKinds, ReadClean, FirstClean, SecondClean,
       VolumesClean, Past

\* Deleting more undoes nothing.
LEMMA DrainShrinks ==
    ASSUME DrainInv, UNCHANGED <<phase, blind>>, project' \subseteq project,
           pc \in DrainPc, pc' \in {"first", "delete", "sleep"},
           found' \subseteq found, pc' # "delete" => found' = {}
    PROVE  DrainInv'
<1>1. \A ks : OfKinds(ks) = {} => OfKinds(ks)' = {}
  BY DEF OfKinds
<1>2. pc' \in DrainPc /\ pc' # "second" /\ pc' # "deleted"
  BY DEF DrainPc
<1>3. \A p : Past(p)' => Past(p)
  BY <1>2 DEF Past
<1>4. FoundKinds' /\ ReadClean' /\ VolumesClean'
  BY <1>2 DEF DrainInv, FoundKinds, ReadClean, VolumesClean
<1>5. FirstClean'
  BY <1>1, <1>3 DEF DrainInv, FirstClean
<1>6. SecondClean'
  BY <1>1, <1>3 DEF DrainInv, SecondClean
<1> QED
  BY <1>4, <1>5, <1>6 DEF DrainInv

\* A phase that is left because its reads found nothing has nothing left,
\* unless one of them failed.
LEMMA RoundKeeps ==
    ASSUME TypeInv, DrainInv, pc \in DrainPc, UNCHANGED project, RoundRead,
           \A p \in Phases \ {phase} : p \in blind' <=> p \in blind,
           \A r \in found' : r.kind \in First[phase] \cup Second[phase],
           (found' = {} /\ phase \notin blind') =>
               OfKinds(First[phase]) = {} /\ OfKinds(Second[phase]) = {}
    PROVE  DrainInv'
<1>phase. phase \in Phases /\ phase \in {"networks", "sshkeys", "loadbalancers",
             "servers", "placementgroup", "firewalls", "volumes"}
  BY AfterFacts DEF TypeInv, TypeOK, DrainTypeOK
<1>of. \A ks : OfKinds(ks)' = OfKinds(ks)
  BY DEF OfKinds
<1>deleted. "deleted" \notin DrainPc
  BY DEF DrainPc
<1>1. CASE found' # {}
  <2>1. pc' = "delete" /\ phase' = phase
    BY <1>1 DEF RoundRead
  <2>2. \A p \in Phases : Past(p)' => Past(p) /\ p # phase
    BY <2>1, <1>deleted, <1>phase, AfterFacts, PhaseRankFacts DEF Past
  <2>3. FoundKinds' /\ ReadClean' /\ VolumesClean'
    BY <2>1 DEF FoundKinds, ReadClean, VolumesClean
  <2>4. FirstClean'
    BY <2>2, <1>of DEF DrainInv, FirstClean
  <2>5. SecondClean'
    BY <2>2, <1>of, AfterFacts, <2>1, PhaseRankFacts, <1>phase DEF DrainInv, SecondClean, Past
  <2> QED
    BY <2>3, <2>4, <2>5 DEF DrainInv
<1>2. CASE found' = {}
  <2>1. \/ /\ phase = "volumes" /\ pc' = "deleted" /\ phase' = phase
        \/ /\ phase # "volumes" /\ pc' = "first" /\ phase' = After[phase]
    BY <1>2, <1>phase, AfterFacts DEF RoundRead
  <2>2. \A p \in Phases : Past(p)' => p = phase \/ (Past(p) /\ p # phase)
    <3>1. CASE pc' = "deleted"
      BY <3>1, <2>1, AfterFacts, PhaseRankFacts DEF Past, DrainPc
    <3>2. CASE pc' = "first"
      BY <3>2, <2>1, <1>phase, AfterFacts, PhaseRankFacts DEF Past, DrainPc
    <3> QED
      BY <2>1, <3>1, <3>2
  <2>3. FoundKinds' /\ ReadClean'
    BY <1>2, <2>1 DEF FoundKinds, ReadClean
  <2>4. FirstClean'
    BY <2>2, <1>2, <1>of DEF DrainInv, FirstClean
  <2>5. \A p \in {"loadbalancers", "servers"} : Past(p)' => "networks" # phase
    <3>1. CASE pc' = "deleted"
      BY <3>1, <2>1
    <3>2. CASE pc' = "first"
      BY <3>2, <2>1, <1>phase, AfterFacts, PhaseRankFacts DEF Past, DrainPc
    <3> QED
      BY <2>1, <3>1, <3>2
  <2>6. SecondClean'
    BY <2>2, <2>5, <1>2, <1>of, AfterFacts DEF DrainInv, SecondClean
  <2>7. VolumesClean'
    BY <2>1, <1>2, <1>of, ReadFacts DEF VolumesClean
  <2> QED
    BY <2>3, <2>4, <2>6, <2>7 DEF DrainInv
<1> QED
  BY <1>1, <1>2

\* Every step accounts for the phases the delete command is through with.
\* The controllers cannot undo one: without a network they launch nothing, and
\* without a master they do not run.
LEMMA DrainStep ==
    TypeInv /\ DrainInv /\ [Next]_vars => DrainInv'
<1> SUFFICES ASSUME TypeInv, DrainInv, [Next]_vars
             PROVE  DrainInv'
  OBVIOUS
<1>phase. phase \in Phases
  BY DEF TypeInv, TypeOK, DrainTypeOK
<1>1. CASE CreateNext
  <2>1. pc' \notin DrainPc \cup {"deleted"}
    BY <1>1, FollowsFacts, CreateSingleForm
    DEF CreateNext, ServersDone, CreateMaster, Attach, AttachPause,
        AttachCancelled, KubernetesStarts, BootstrapDone, BootstrapFails,
        FirewallControlPlane, FirewallWorkers, DrainPc
  <2> QED
    BY <2>1, NotDraining
<1>2. CASE DrainNext
  <2>1. CASE ReadFirst
    <3>1. /\ pc = "first" /\ pc \in DrainPc /\ project' = project
          /\ \/ /\ ReadOk(First[phase], found')
                /\ blind' = blind \ {phase}
             \/ found' = {} /\ blind' = blind \cup {phase}
      BY <2>1 DEF ReadFirst, ReadOk, ReadFails, ReadCancelled, cloudVars, DrainPc
    <3>2. \A p \in Phases \ {phase} : p \in blind' <=> p \in blind
      BY <3>1
    <3>3. \A r \in found' : r.kind \in First[phase]
      BY <3>1 DEF ReadOk, OfKinds
    <3>4. (found' = {} /\ phase \notin blind') => OfKinds(First[phase]) = {}
      BY <3>1 DEF ReadOk
    <3>5. CASE Second[phase] = {}
      <4>1. RoundRead /\ OfKinds(Second[phase]) = {}
        BY <2>1, <3>5 DEF ReadFirst, OfKinds
      <4> QED
        BY <4>1, <3>1, <3>2, <3>3, <3>4, RoundKeeps
    <3>6. CASE Second[phase] # {}
      <4>1. pc' = "second" /\ phase' = phase
        BY <2>1, <3>6 DEF ReadFirst
      <4>2. phase \in {"loadbalancers", "servers"}
        BY <3>6, <1>phase, ReadFacts
      <4>3. \A ks : OfKinds(ks)' = OfKinds(ks)
        BY <3>1 DEF OfKinds
      <4>4. \A p \in Phases : Past(p)' => Past(p) /\ p # phase
        BY <4>1, <3>1, <1>phase, AfterFacts, PhaseRankFacts DEF Past, DrainPc
      <4>5. FoundKinds' /\ ReadClean' /\ VolumesClean'
        BY <4>1, <4>2, <4>3, <3>3, <3>4 DEF FoundKinds, ReadClean, VolumesClean
      <4>6. FirstClean'
        BY <4>3, <4>4, <3>2 DEF DrainInv, FirstClean
      <4>7. \A p \in {"loadbalancers", "servers"} :
              Past(p)' => Past(p) /\ p # phase /\ "networks" # phase
        BY <4>2, <4>4, AfterFacts
      <4>8. SecondClean'
        BY <4>3, <4>7, <3>2, AfterFacts DEF DrainInv, SecondClean
      <4> QED
        BY <4>5, <4>6, <4>8 DEF DrainInv
    <3> QED
      BY <3>5, <3>6
  <2>2. CASE ReadSecond
    <3>1. /\ pc = "second" /\ pc \in DrainPc /\ project' = project /\ RoundRead
          /\ \/ /\ blind' = blind
                /\ \E answer : /\ ReadOk(Second[phase], answer)
                               /\ found' = found \cup answer
             \/ found' = found /\ blind' = blind \cup {phase}
      BY <2>2 DEF ReadSecond, ReadOk, ReadFails, cloudVars, DrainPc
    <3>2. \A p \in Phases \ {phase} : p \in blind' <=> p \in blind
      BY <3>1
    <3>3. \A r \in found' : r.kind \in First[phase] \cup Second[phase]
      BY <3>1 DEF ReadOk, OfKinds, DrainInv, FoundKinds
    <3>4. (found' = {} /\ phase \notin blind') =>
              OfKinds(First[phase]) = {} /\ OfKinds(Second[phase]) = {}
      BY <3>1 DEF ReadOk, DrainInv, ReadClean
    <3> QED
      BY <3>1, <3>2, <3>3, <3>4, RoundKeeps
  <2>3. CASE DeleteFound
    <3>1. PICK r \in Deletable :
            \/ /\ DeleteOk(r) /\ found' = found \ {r}
               /\ pc' = IF found' = {} THEN "first" ELSE "delete"
            \/ DeleteFails(r) /\ found' = {} /\ pc' = "sleep"
      BY <2>3 DEF DeleteFound
    <3>2. project' \subseteq project
      BY <3>1 DEF DeleteOk, DeleteFails, Removed
    <3>3. pc \in DrainPc /\ phase' = phase /\ blind' = blind
      BY <2>3 DEF DeleteFound, DrainPc
    <3> QED
      BY <3>1, <3>2, <3>3, DrainShrinks
  <2>4. CASE PhaseCancelled
    BY <2>4, DrainShrinks DEF PhaseCancelled, cloudVars, DrainPc, DrainInv, FoundKinds
  <2>5. CASE Retry
    <3>1. CASE ctx = "live"
      <4>1. pc' = "first" /\ phase' = "networks" /\ found' = {}
        BY <2>5, <3>1 DEF Retry, DrainInv, FoundKinds
      <4>2. \A p \in Phases : ~Past(p)'
        BY <4>1, AfterFacts, PhaseRankFacts DEF Past, DrainPc
      <4> QED
        BY <4>1, <4>2, AfterFacts
        DEF DrainInv, FoundKinds, ReadClean, FirstClean, SecondClean, VolumesClean
    <3>2. CASE ctx # "live"
      BY <2>5, <3>2, NotDraining DEF Retry, DrainPc
    <3> QED
      BY <3>1, <3>2
  <2> QED
    BY <1>2, <2>1, <2>2, <2>3, <2>4, <2>5 DEF DrainNext
<1>3. CASE Exit \/ Killed \/ RunCreate \/ RunCreateFirewall
  <2>1. pc' \in {"exited", "failed", "network"} \cup FirewallPc
    BY <1>3 DEF Exit, Killed, Gone, RunCreate, RunCreateFirewall, Start
  <2> QED
    BY <2>1, NotDraining DEF DrainPc, FirewallPc
<1>4. CASE RunDelete
  <2>1. pc' = "first" /\ phase' = "networks" /\ found' = {}
    BY <1>4 DEF RunDelete, Start
  <2>2. \A p \in Phases : ~Past(p)'
    BY <2>1, AfterFacts, PhaseRankFacts DEF Past, DrainPc
  <2> QED
    BY <2>1, <2>2, AfterFacts
    DEF DrainInv, FoundKinds, ReadClean, FirstClean, SecondClean, VolumesClean
<1>5. CASE Interrupt \/ UNCHANGED vars
  BY <1>5
  DEF Interrupt, vars, cloudVars, drainVars, DrainInv, FoundKinds, ReadClean,
      FirstClean, SecondClean, VolumesClean, Past, OfKinds
<1>6. CASE Controllers
  <2>1. PICK n \in Slot, k \in {"worker", "servicelb", "volume"} :
          \/ Launched(k, n) /\ (k # "volume" => Exists("network", 0))
          \/ Withdrawn(k, n)
    BY <1>6 DEF Controllers, ScaleUp, ScaleDown, EnsureLoadBalancer,
                EnsureLoadBalancerDeleted, CreateVolume
  <2>2. UNCHANGED <<pc, phase, found, blind>>
    BY <2>1 DEF Launched, Withdrawn, drainVars
  <2>3. \A ks : k \notin ks => (OfKinds(ks) = {} => OfKinds(ks)' = {})
    BY <2>1 DEF Launched, Withdrawn, Added, Res, OfKinds
  <2>4. \A ks : OfKinds(ks) = {} /\ OfKinds(ks)' # {} =>
                  Launched(k, n) /\ (k # "volume" => Exists("network", 0))
    BY <2>1 DEF Withdrawn, OfKinds
  <2>5. \A p \in Phases : Past(p)' <=> Past(p)
    BY <2>2 DEF Past
  <2>6. \A p \in Phases \ {"volumes"} : k \notin First[p]
    BY <2>1, AfterFacts, ReadFacts
  <2>7. FoundKinds'
    BY <2>2 DEF DrainInv, FoundKinds
  <2>8. ReadClean'
    BY <2>2, <2>3, <2>6, AfterFacts DEF DrainInv, ReadClean
  <2>9. FirstClean'
    BY <2>2, <2>3, <2>5, <2>6 DEF DrainInv, FirstClean
  <2>10. SecondClean'
    <3> SUFFICES ASSUME NEW p \in {"loadbalancers", "servers"},
                        Past(p), p \notin blind, "networks" \notin blind
                 PROVE  OfKinds(Second[p])' = {}
      BY <2>2, <2>5, AfterFacts DEF SecondClean
    <3>1. OfKinds(Second[p]) = {}
      BY DEF DrainInv, SecondClean
    <3>2. Past("networks")
      BY PhaseRankFacts, AfterFacts, <1>phase DEF Past
    <3>3. OfKinds({"network"}) = {}
      BY <3>2, AfterFacts, ReadFacts DEF DrainInv, FirstClean
    <3>4. ~Exists("network", 0)
      BY <3>3 DEF Exists, OfKinds
    <3>5. k = "volume" => k \notin Second[p]
      BY ReadFacts
    <3> QED
      BY <3>1, <3>4, <3>5, <2>3, <2>4
  <2>11. VolumesClean'
    <3> SUFFICES ASSUME pc = "deleted", "volumes" \notin blind, "servers" \notin blind
                 PROVE  OfKinds({"volume"})' = {}
      BY <2>2 DEF VolumesClean
    <3>1. OfKinds({"volume"}) = {}
      BY DEF DrainInv, VolumesClean
    <3>2. OfKinds({"master"}) = {}
      BY AfterFacts, ReadFacts DEF DrainInv, FirstClean, Past
    <3>3. ~Launched(k, n)
      BY <3>2 DEF Launched, Running, OfKinds
    <3> QED
      BY <3>1, <3>3, <2>4
  <2> QED
    BY <2>7, <2>8, <2>9, <2>10, <2>11 DEF DrainInv
<1> QED
  BY <1>1, <1>2, <1>3, <1>4, <1>5, <1>6 DEF Next, Tool, Operator

-----------------------------------------------------------------------------
(* The invariant and what follows from it *)

\* The invariant holds on the empty project.
LEMMA InvInit == Init => IInv
<1> SUFFICES ASSUME Init PROVE IInv
  OBVIOUS
<1>1. TypeInv
  BY TypeInit
<1>2. ProjectInv
  BY DEF Init, CloudInit, ProjectInv, SingleIndex, NamesUnique, SubnetInNetwork,
         TargetsOnBalancer, OfKinds
<1>3. pc = "idle"
  BY DEF Init, CloudInit
<1>4. CreateInv
  BY <1>3, FollowsFacts, RankFacts DEF CreateInv, SinglesMade, MastersMade
<1>5. DrainInv
  BY <1>3 DEF DrainInv, FoundKinds, ReadClean, FirstClean, SecondClean,
              VolumesClean, Past, DrainPc
<1>6. OwnerInv
  BY <1>3 DEF OwnerInv, Init, CloudInit, CreateInit
<1> QED
  BY <1>1, <1>2, <1>4, <1>5, <1>6 DEF IInv

\* The invariant is inductive.
LEMMA InvStep == IInv /\ [Next]_vars => IInv'
BY TypeStep, ProjectStep, CreateStep, OwnerStep, DrainStep DEF IInv, CreateInv

\* Between any two steps the project, the create command and the delete
\* command are as IInv says.
THEOREM Invariant == Spec => []IInv
BY InvInit, InvStep, PTL DEF Spec

\* A cluster reported as created has everything: no interrupt, lost answer or
\* leftover of an earlier command can make NewCluster claim otherwise.
THEOREM CreateTheorem == Spec => []CreatedComplete
<1>1. ASSUME IInv PROVE CreatedComplete
  <2>1. CreateInv
    BY <1>1 DEF IInv
  <2> SUFFICES ASSUME pc = "created"
               PROVE  /\ \A k \in Single : Res(k, 0, run) \in project
                      /\ \A n \in 1..MasterCount : Res("master", n, run) \in project
                      /\ targets = 1..MasterCount
    BY DEF CreatedComplete
  <2>2. \A k \in Single : Res(k, 0, run) \in project
    BY <2>1, FollowsFacts, RankFacts DEF CreateInv, SinglesMade
  <2>3. MastersUpTo(MasterCount) /\ targets = 1..MasterCount
    BY <2>1 DEF CreateInv, MastersMade
  <2> QED
    BY <2>2, <2>3 DEF MastersUpTo
<1> QED
  BY <1>1, Invariant, PTL

\* What the create command hands over to initFirstMasterNode is its own work
\* and complete, whatever commands ran before it.
THEOREM HandoverTheorem == Spec => []HandsOver
<1>1. ASSUME IInv PROVE HandsOver
  <2> SUFFICES ASSUME pc = "bootstrap"
               PROVE  /\ OfKinds(Single \cup {"master"}) = HandedOver
                      /\ cluster = 0 => project = HandedOver
                      /\ targets = 1..MasterCount
                      /\ i = MasterCount + 1
    BY DEF HandsOver
  <2>1. TypeInv /\ ProjectInv /\ CreateInv /\ OwnerInv
    BY <1>1 DEF IInv
  <2>2. i = MasterCount + 1 /\ targets = 1..MasterCount
    BY <2>1 DEF OwnerInv, CreateInv, MastersMade
  <2>3. HandedOver \subseteq OfKinds(Single \cup {"master"})
    <3>1. \A k \in Single : Res(k, 0, run) \in project
      BY <2>1, FollowsFacts, RankFacts DEF CreateInv, SinglesMade
    <3>2. \A n \in 1..MasterCount : Res("master", n, run) \in project
      BY <2>1 DEF CreateInv, MastersMade, MastersUpTo
    <3> QED
      BY <3>1, <3>2 DEF HandedOver, OfKinds, Res
  <2>4. ASSUME NEW r \in project, r.kind \in Single \cup {"master"} PROVE r \in HandedOver
    <3>1. PICK s \in HandedOver : s.kind = r.kind /\ s.index = r.index
      <4>1. CASE r.kind \in Single
        <5>1. r.index = 0
          BY <2>1, <4>1 DEF ProjectInv, SingleIndex
        <5>2. Res(r.kind, 0, run) \in HandedOver
          BY <4>1 DEF HandedOver
        <5> QED
          BY <5>1, <5>2 DEF Res
      <4>2. CASE r.kind = "master"
        <5>1. r.index \in 1..MasterCount
          BY <2>1, <4>2 DEF OwnerInv
        <5>2. Res("master", r.index, run) \in HandedOver
          BY <5>1 DEF HandedOver
        <5> QED
          BY <4>2, <5>2 DEF Res
      <4> QED
        BY <2>4, <4>1, <4>2
    <3>2. s \in project
      BY <2>3 DEF OfKinds
    <3> QED
      BY <2>1, <3>1, <3>2 DEF ProjectInv, NamesUnique
  <2>5. OfKinds(Single \cup {"master"}) = HandedOver
    BY <2>3, <2>4 DEF OfKinds
  <2>6. cluster = 0 => project = OfKinds(Single \cup {"master"})
    BY <2>1 DEF OwnerInv, OfKinds
  <2> QED
    BY <2>2, <2>5, <2>6
<1> QED
  BY <1>1, Invariant, PTL

\* A delete command that ends after a pass in which every last read was
\* answered leaves an empty project, whatever the controllers did.
THEOREM DeleteTheorem == Spec => []DeleteComplete
<1>1. ASSUME IInv PROVE DeleteComplete
  <2>1. TypeInv /\ ProjectInv /\ DrainInv
    BY <1>1 DEF IInv
  <2> SUFFICES ASSUME pc = "deleted", blind = {}
               PROVE  project = {}
    BY DEF DeleteComplete
  <2>2. \A p \in Phases \ {"volumes"} : OfKinds(First[p]) = {}
    BY <2>1 DEF DrainInv, FirstClean, Past
  <2>3. \A p \in {"loadbalancers", "servers"} : OfKinds(Second[p]) = {}
    BY <2>1 DEF DrainInv, SecondClean, Past
  <2>4. OfKinds({"volume"}) = {}
    BY <2>1 DEF DrainInv, VolumesClean
  <2>5. OfKinds({"subnet"}) = {}
    BY <2>1, <2>2, AfterFacts, ReadFacts DEF ProjectInv, SubnetInNetwork
  <2>6. \A r \in project : r.kind \in Kinds
    BY <2>1 DEF TypeInv, TypeOK, CloudTypeOK, Resources
  <2>7. \A k \in Kinds : \A r \in project : r.kind # k
    BY <2>2, <2>3, <2>4, <2>5, AfterFacts, ReadFacts DEF Kinds, OfKinds
  <2> QED
    BY <2>6, <2>7
<1> QED
  BY <1>1, Invariant, PTL

-----------------------------------------------------------------------------
(* Action properties *)

\* The kinds a master is created with; the controllers have no part in them.
Core == {"fwcontrolplane", "sshkey", "loadbalancer", "placementgroup", "master"}

\* Of these kinds everything beside a master was made by its command.
OneGeneration ==
    \A m \in OfKinds({"master"}) : \A r \in OfKinds(Core) : r.run = m.run

\* That is: what is mixed with the masters can be replaced.
LEMMA OneGenerationIsUnmixed ==
    /\ OneGeneration <=> Mixed \subseteq Replaceable
    /\ OneGeneration' <=> Mixed' \subseteq Replaceable
<1>1. Core = (Single \cup {"master"}) \ Replaceable
  BY FollowsFacts DEF Core, Replaceable
<1>2. \A k : k \in Core <=> (k \in Single \cup {"master"} /\ k \notin Replaceable)
  BY <1>1
<1> QED
  BY <1>2 DEF OneGeneration, Mixed, OfKinds

\* Whether masters are protected and of one generation depends on the core
\* kinds only.
LEMMA CoreOfKinds ==
    ASSUME \A r \in project : r.kind \in Core => r \in project',
           \A r \in project' : r.kind \in Core => r \in project
    PROVE  /\ Protected' <=> Protected
           /\ OneGeneration' <=> OneGeneration
BY DEF Core, Protected, OneGeneration, OfKinds

\* Only the requests of create, create-firewall and delete touch these kinds.
LEMMA CoreSteps ==
    ASSUME TypeInv, [Next]_vars, ~CreateSingle, ~CreateMaster,
           ~FirewallControlPlane, ~DeleteFound
    PROVE  /\ Protected' <=> Protected
           /\ OneGeneration' <=> OneGeneration
<1>1. CASE Controllers
  <2>1. PICK n \in Slot, k \in {"worker", "servicelb", "volume"} :
          Launched(k, n) \/ Withdrawn(k, n)
    BY <1>1 DEF Controllers, ScaleUp, ScaleDown, EnsureLoadBalancer,
                EnsureLoadBalancerDeleted, CreateVolume
  <2>2. k \notin Core /\ Res(k, n, cluster).kind = k
    BY DEF Core, Res
  <2> QED
    BY <2>1, <2>2, CoreOfKinds DEF Launched, Withdrawn, Added, OfKinds
<1>2. CASE FirewallWorkers
  <2>1. project' \in {project, project \cup {Res("fwworkers", 0, run)}}
    BY <1>2 DEF FirewallWorkers, CreateOk, CreateFails, Added
  <2>2. Res("fwworkers", 0, run).kind \notin Core
    BY DEF Res, Core
  <2> QED
    BY <2>1, <2>2, CoreOfKinds
<1>3. ASSUME UNCHANGED project
      PROVE  /\ Protected' <=> Protected
             /\ OneGeneration' <=> OneGeneration
  BY <1>3, CoreOfKinds
<1>4. CASE CreateNext /\ ~FirewallWorkers
  BY <1>3, <1>4
  DEF CreateNext, ServersDone, Attach, AttachOk, AttachFails, AttachPause,
      AttachCancelled, KubernetesStarts, BootstrapDone, BootstrapFails, cloudVars
<1>5. CASE DrainNext
  BY <1>3, <1>5
  DEF DrainNext, ReadFirst, ReadSecond, ReadOk, ReadFails, ReadCancelled,
      PhaseCancelled, Retry, cloudVars
<1>6. CASE Exit \/ Operator \/ UNCHANGED vars
  BY <1>3, <1>6
  DEF Exit, Operator, RunCreate, RunDelete, RunCreateFirewall, Start, Interrupt,
      Killed, Gone, vars, cloudVars
<1> QED
  BY <1>1, <1>2, <1>4, <1>5, <1>6 DEF Next, Tool

\* One step takes the firewall from a master only after a failed read of the
\* servers: a create command makes the firewall first, a delete command
\* removes it after its phase of the servers.
LEMMA ExposedStep ==
    IInv /\ [Next]_vars => (Protected /\ ~Protected' => "servers" \in blind)
<1> SUFFICES ASSUME IInv, [Next]_vars, Protected, ~Protected'
             PROVE  "servers" \in blind
  OBVIOUS
<1>inv. TypeInv /\ ProjectInv /\ CreateInv /\ DrainInv
  BY DEF IInv
<1>1. CASE CreateSingle \/ FirewallControlPlane
  <2>1. \/ project' = project
        \/ \E k \in Single : \E n : project' = project \cup {Res(k, n, run)}
    BY <1>1, FollowsFacts, CreateSingleForm
    DEF FirewallControlPlane, CreateOk, CreateFails, Added
  <2> QED
    BY <2>1, FollowsFacts DEF Protected, OfKinds, Res
<1>2. CASE CreateMaster
  <2>1. Res("fwcontrolplane", 0, run) \in project
    BY <1>2, <1>inv, FollowsFacts, RankFacts DEF CreateMaster, CreateInv, SinglesMade
  <2>2. project \subseteq project'
    BY <1>2 DEF CreateMaster, CreateOk, CreateFails, Added
  <2> QED
    BY <2>1, <2>2 DEF Protected, OfKinds, Res
<1>3. CASE DeleteFound
  <2>1. PICK r \in Deletable : project' = project \/ Removed(r)
    BY <1>3 DEF DeleteFound, DeleteOk, DeleteFails
  <2>2. r.kind = "fwcontrolplane" /\ OfKinds({"master"}) # {}
    BY <2>1 DEF Protected, Removed, RemovedWith, OfKinds
  <2>3. pc \in DrainPc /\ pc = "delete" /\ r \in found
    BY <1>3 DEF DeleteFound, DrainPc, Deletable
  <2>4. r.kind \in First[phase] \cup Second[phase]
    BY <2>3, <1>inv DEF DrainInv, FoundKinds
  <2>5. phase = "firewalls"
    BY <2>2, <2>4, <1>inv, AfterFacts, ReadFacts DEF TypeInv, TypeOK, DrainTypeOK
  <2>6. Past("servers")
    BY <2>3, <2>5, PhaseRankFacts DEF Past
  <2>7. "servers" \in Phases \ {"volumes"} /\ First["servers"] = {"master"}
    BY AfterFacts, ReadFacts
  <2>8. "servers" \notin blind => OfKinds(First["servers"]) = {}
    BY <2>6, <2>7, <1>inv DEF DrainInv, FirstClean
  <2> QED
    BY <2>2, <2>7, <2>8
<1> QED
  BY <1>1, <1>2, <1>3, <1>inv, CoreSteps

\* Whatever the interleaving, a master loses its firewall only in a delete
\* pass whose read of the servers failed.
THEOREM ExposedTheorem == Spec => MasterNeverExposed
<1>1. IInv /\ [Next]_vars => [Protected /\ ~Protected' => "servers" \in blind]_vars
  BY ExposedStep
<1> QED
  BY <1>1, Invariant, PTL DEF Spec, MasterNeverExposed

\* What the create command has made is the only resource of its name.
LEMMA MadeIsOnly ==
    ASSUME IInv, NEW k \in Single, Res(k, 0, run) \in project,
           NEW r \in project, r.kind = k
    PROVE  r.run = run
<1>1. r.index = 0
  BY DEF IInv, ProjectInv, SingleIndex
<1>2. r = Res(k, 0, run)
  BY <1>1 DEF IInv, ProjectInv, NamesUnique, Res
<1> QED
  BY <1>2 DEF Res

\* One step mixes masters and core resources of two commands only if the older
\* masters are unprotected: a create command that finds a core resource of an
\* older one stops at its name, and where a master is left so is its firewall.
LEMMA MixedStep ==
    IInv /\ [Next]_vars => (OneGeneration /\ ~OneGeneration' => ~Protected)
<1> SUFFICES ASSUME IInv, [Next]_vars, OneGeneration, Protected
             PROVE  OneGeneration'
  OBVIOUS
<1>inv. TypeInv /\ ProjectInv /\ CreateInv /\ DrainInv
  BY DEF IInv
<1>kinds. /\ {"fwcontrolplane", "sshkey", "loadbalancer", "placementgroup"} \subseteq Single
          /\ "master" \notin Single
  BY FollowsFacts
\* Behind a firewall of this command, every master is of this command.
<1>same. ASSUME Res("fwcontrolplane", 0, run) \in project
         PROVE  \A m \in OfKinds({"master"}) : m.run = run
  <2>1. Res("fwcontrolplane", 0, run) \in OfKinds({"fwcontrolplane", "sshkey",
            "loadbalancer", "placementgroup", "master"})
    BY <1>same DEF OfKinds, Res
  <2>2. Res("fwcontrolplane", 0, run).run = run
    BY DEF Res
  <2> QED
    BY <2>1, <2>2 DEF OneGeneration, Core
<1>1. CASE CreateSingle \/ FirewallControlPlane
  <2>1. CASE project' = project
    BY <2>1 DEF OneGeneration, Core, OfKinds
  <2>2. CASE project' # project
    <3>1. PICK k \in Single :
            /\ project' = project \cup {Res(k, 0, run)}
            /\ ~Exists(k, 0)
            /\ pc = k \/ k = "fwcontrolplane"
      BY <1>1, <2>2, <1>kinds, CreateSingleForm
      DEF FirewallControlPlane, CreateOk, CreateFails, Added
    <3>2. Res(k, 0, run).kind = k /\ Res(k, 0, run).run = run
      BY DEF Res
    <3>3. CASE k = "fwcontrolplane"
      <4>1. OfKinds({"fwcontrolplane"}) = {}
        BY <3>1, <3>3, <1>inv, <1>kinds DEF OfKinds, Exists, ProjectInv, SingleIndex
      <4>2. OfKinds({"master"})' = {}
        BY <4>1, <3>1, <3>2, <3>3 DEF Protected, OfKinds
      <4> QED
        BY <4>2 DEF OneGeneration, Core
    <3>4. CASE k \in {"sshkey", "loadbalancer", "placementgroup"}
      <4>1. Res("fwcontrolplane", 0, run) \in project
        BY <3>1, <3>4, <1>inv, FollowsFacts, RankFacts DEF CreateInv, SinglesMade
      <4>2. \A m \in OfKinds({"master"})' : m \in OfKinds({"master"}) /\ m.run = run
        BY <4>1, <1>same, <3>1, <3>2, <3>4 DEF OfKinds
      <4>3. \A r \in project' : r \in project \/ r.run = run
        BY <3>1, <3>2
      <4> QED
        BY <4>2, <4>3 DEF OneGeneration, Core, OfKinds
    <3>5. CASE k \in {"network", "subnet", "fwworkers"}
      BY <3>1, <3>2, <3>5 DEF OneGeneration, Core, OfKinds
    <3> QED
      BY <3>3, <3>4, <3>5, FollowsFacts
  <2> QED
    BY <2>1, <2>2
<1>2. CASE CreateMaster
  <2>1. /\ \A k \in Single : Res(k, 0, run) \in project
        /\ project' \in {project, project \cup {Res("master", i, run)}}
    BY <1>2, <1>inv, FollowsFacts, RankFacts
    DEF CreateMaster, CreateInv, SinglesMade, CreateOk, CreateFails, Added
  <2>2. \A r \in OfKinds({"fwcontrolplane", "sshkey", "loadbalancer", "placementgroup"}) :
          r.run = run
    BY <2>1, <1>kinds, MadeIsOnly DEF OfKinds
  <2>3. \A m \in OfKinds({"master"}) : m.run = run
    BY <2>1, <1>kinds, <1>same
  <2>4. Res("master", i, run).run = run /\ Res("master", i, run).kind = "master"
    BY DEF Res
  <2> QED
    BY <2>1, <2>2, <2>3, <2>4 DEF OneGeneration, Core, OfKinds
<1>3. CASE DeleteFound
  <2>1. project' \subseteq project
    BY <1>3 DEF DeleteFound, DeleteOk, DeleteFails, Removed
  <2> QED
    BY <2>1 DEF OneGeneration, Core, OfKinds
<1> QED
  BY <1>1, <1>2, <1>3, <1>inv, CoreSteps

\* Nothing but the loop of createServer makes a master.
LEMMA NewMasterStep ==
    ASSUME TypeInv, [Next]_vars, NEW m \in OfKinds({"master"})', m \notin project
    PROVE  CreateMaster
<1> SUFFICES ASSUME ~CreateMaster PROVE FALSE
  OBVIOUS
<1>0. m \in project' /\ m.kind = "master"
  BY DEF OfKinds
<1>1. ASSUME NEW k, NEW n, NEW o, k # "master", project' \in {project, project \cup {Res(k, n, o)}}
      PROVE  FALSE
  BY <1>0, <1>1 DEF Res
<1>2. ASSUME project' \subseteq project PROVE FALSE
  BY <1>0, <1>2
<1>3. CASE Controllers
  <2>1. PICK n \in Slot, k \in {"worker", "servicelb", "volume"} :
          Launched(k, n) \/ Withdrawn(k, n)
    BY <1>3 DEF Controllers, ScaleUp, ScaleDown, EnsureLoadBalancer,
                EnsureLoadBalancerDeleted, CreateVolume
  <2>2. project' \subseteq project \/ project' = project \cup {Res(k, n, cluster)}
    BY <2>1 DEF Launched, Withdrawn, Added
  <2> QED
    BY <1>1, <1>2, <2>2
<1>4. CASE CreateSingle \/ FirewallControlPlane \/ FirewallWorkers
  <2>1. \/ project' = project
        \/ \E k \in Single : \E n : project' = project \cup {Res(k, n, run)}
    BY <1>4, FollowsFacts, CreateSingleForm
    DEF FirewallControlPlane, FirewallWorkers, CreateOk, CreateFails, Added
  <2> QED
    BY <1>1, <1>2, <2>1, FollowsFacts
<1>5. CASE DeleteFound
  BY <1>2, <1>5 DEF DeleteFound, DeleteOk, DeleteFails, Removed
<1>6. CASE CreateNext /\ ~CreateSingle /\ ~FirewallControlPlane /\ ~FirewallWorkers
  BY <1>2, <1>6
  DEF CreateNext, ServersDone, Attach, AttachOk, AttachFails, AttachPause,
      AttachCancelled, KubernetesStarts, BootstrapDone, BootstrapFails, cloudVars
<1>7. CASE DrainNext /\ ~DeleteFound
  BY <1>2, <1>7
  DEF DrainNext, ReadFirst, ReadSecond, ReadOk, ReadFails, ReadCancelled,
      PhaseCancelled, Retry, cloudVars
<1>8. CASE Exit \/ Operator \/ UNCHANGED vars
  BY <1>2, <1>8
  DEF Exit, Operator, RunCreate, RunDelete, RunCreateFirewall, Start, Interrupt,
      Killed, Gone, vars, cloudVars
<1> QED
  BY <1>3, <1>4, <1>5, <1>6, <1>7, <1>8 DEF Next, Tool

\* When it makes one, the network, both firewalls, the key, the balancer and
\* the group are those of its command.
LEMMA NewMasterAtHome ==
    ASSUME IInv, [Next]_vars,
           NEW m \in OfKinds({"master"})', m \notin project, NEW r \in OfKinds(Single)'
    PROVE  r.run = m.run
<1>inv. TypeInv /\ CreateInv
  BY DEF IInv
<1>1. CreateMaster
  BY <1>inv, NewMasterStep
<1>2. /\ \A k \in Single : Res(k, 0, run) \in project
      /\ project' \in {project, project \cup {Res("master", i, run)}}
  BY <1>1, <1>inv, FollowsFacts, RankFacts
  DEF CreateMaster, CreateInv, SinglesMade, CreateOk, CreateFails, Added
<1>3. m.run = run
  BY <1>2 DEF OfKinds, Res
<1>4. r \in project /\ r.kind \in Single
  BY <1>2, FollowsFacts DEF OfKinds, Res
<1> QED
  BY <1>2, <1>3, <1>4, MadeIsOnly

\* Beside protected masters nothing but a network, a subnet and the workers'
\* firewall is ever made by another command than theirs, and no master is made
\* into anything of another command.
THEOREM MixedTheorem == Spec => NeverMixed
<1>1. IInv /\ [Next]_vars =>
        [/\ (Mixed \subseteq Replaceable /\ Protected) => Mixed' \subseteq Replaceable
         /\ \A m \in OfKinds({"master"})' \ project : \A r \in OfKinds(Single)' : r.run = m.run]_vars
  <2> SUFFICES ASSUME IInv, [Next]_vars
               PROVE  /\ (Mixed \subseteq Replaceable /\ Protected) => Mixed' \subseteq Replaceable
                      /\ \A m \in OfKinds({"master"})' \ project :
                            \A r \in OfKinds(Single)' : r.run = m.run
    OBVIOUS
  <2>1. (Mixed \subseteq Replaceable /\ Protected) => Mixed' \subseteq Replaceable
    BY MixedStep, OneGenerationIsUnmixed
  <2>2. \A m \in OfKinds({"master"})' \ project : \A r \in OfKinds(Single)' : r.run = m.run
    BY NewMasterAtHome
  <2> QED
    BY <2>1, <2>2
<1> QED
  BY <1>1, Invariant, PTL DEF Spec, NeverMixed

-----------------------------------------------------------------------------
(* Progress *)

\* A deletion only removes; no other step of a delete command touches the
\* project.
LEMMA DrainRemoves == ASSUME DrainNext PROVE project' \subseteq project
BY DEF DrainNext, ReadFirst, ReadSecond, DeleteFound, PhaseCancelled, Retry, ReadOk,
       ReadFails, ReadCancelled, DeleteOk, DeleteFails, Removed, cloudVars

\* Between the phases of a delete command and after its end nobody but the
\* controllers can add anything: a create command is not under way.
LEMMA DrainingSteps ==
    ASSUME [Next]_vars, pc \in DrainPc \cup {"deleted"}
    PROVE  project' \subseteq project \/ Controllers
<1>1. CASE DrainNext
  BY <1>1, DrainRemoves
<1>2. CASE CreateNext
  <2>1. pc \in CreatePc
    BY <1>2, CreateSingleForm
    DEF CreateNext, ServersDone, CreateMaster, Attach, AttachPause, AttachCancelled,
        KubernetesStarts, BootstrapDone, BootstrapFails, FirewallControlPlane,
        FirewallWorkers, CreatePc, FirewallPc
  <2> QED
    BY <2>1, FollowsFacts DEF CreatePc, FirewallPc, DrainPc
<1>3. CASE Exit \/ Operator \/ UNCHANGED vars
  BY <1>3
  DEF Exit, Operator, RunCreate, RunDelete, RunCreateFirewall, Start, Interrupt,
      Killed, Gone, vars, cloudVars
<1> QED
  BY <1>1, <1>2, <1>3 DEF Next, Tool

\* The controllers need a network for servers and load balancers, and a master
\* to run on.
LEMMA ControllersNeed ==
    ASSUME Controllers
    PROVE  /\ OfKinds({"network"}) = {} => OfKinds(Kinds \ {"volume"})' \subseteq project
           /\ OfKinds({"master"}) # {}
<1>1. PICK n \in Slot : \/ ScaleUp(n)
                        \/ EnsureLoadBalancer(n)
                        \/ Withdrawn("worker", n) \/ Withdrawn("servicelb", n)
                        \/ Launched("volume", n)
  BY DEF Controllers, ScaleDown, EnsureLoadBalancerDeleted, CreateVolume
<1>2. OfKinds({"master"}) # {}
  BY <1>1 DEF ScaleUp, EnsureLoadBalancer, Withdrawn, Launched, Running, OfKinds
<1>3. CASE ScaleUp(n) \/ EnsureLoadBalancer(n)
  BY <1>2, <1>3 DEF ScaleUp, EnsureLoadBalancer, Exists, OfKinds
<1>4. CASE Withdrawn("worker", n) \/ Withdrawn("servicelb", n)
  BY <1>2, <1>4 DEF Withdrawn, OfKinds
<1>5. CASE Launched("volume", n)
  <2>1. project' = project \cup {Res("volume", n, cluster)}
    BY <1>5 DEF Launched, Added
  <2>2. Res("volume", n, cluster).kind = "volume"
    BY DEF Res
  <2> QED
    BY <1>2, <2>1, <2>2 DEF OfKinds
<1> QED
  BY <1>1, <1>3, <1>4, <1>5

\* One step brings nothing back that a delete command is through with.
LEMMA NothingBackStep ==
    IInv /\ [Next]_vars =>
        /\ (Past("networks") /\ "networks" \notin blind) =>
              OfKinds(Kinds \ {"volume"})' \subseteq project
        /\ (Past("servers") /\ "servers" \notin blind) => project' \subseteq project
<1> SUFFICES ASSUME IInv, [Next]_vars, NEW p \in {"networks", "servers"},
                    Past(p), p \notin blind
             PROVE  \/ project' \subseteq project
                    \/ p = "networks" /\ OfKinds(Kinds \ {"volume"})' \subseteq project
  BY DEF OfKinds
<1>1. OfKinds(First[p]) = {}
  BY AfterFacts DEF IInv, DrainInv, FirstClean
<1>2. pc \in DrainPc \cup {"deleted"}
  BY DEF Past
<1>3. CASE project' \subseteq project
  BY <1>3
<1>4. CASE Controllers
  BY <1>1, <1>4, ControllersNeed, ReadFacts
<1> QED
  BY <1>2, <1>3, <1>4, DrainingSteps

\* Whatever the controllers try, a pass whose reads of the networks and of the
\* servers were answered is chased by nothing: the safety that the end of a
\* delete command rests on.
THEOREM NothingBackTheorem == Spec => NothingBack
<1>1. IInv /\ [Next]_vars =>
        [/\ (Past("networks") /\ "networks" \notin blind) =>
               OfKinds(Kinds \ {"volume"})' \subseteq project
         /\ (Past("servers") /\ "servers" \notin blind) => project' \subseteq project]_vars
  BY NothingBackStep
<1> QED
  BY <1>1, Invariant, PTL DEF Spec, NothingBack

\* The steps left are a small number, and none for a command that has ended.
LEMMA StepsFacts ==
    /\ StepsLeft \in 0..3
    /\ StepsLeft = 0 <=> pc \in Ended
    /\ pc \in Single \cup {"attach", "sleep"} \cup FirewallPc => StepsLeft = 1
    /\ pc \in {"first", "delete", "pause"} => StepsLeft = 2
    /\ pc \in {"second", "master"} => StepsLeft = 3
    /\ pc = "bootstrap" => StepsLeft = IF cluster = run THEN 1 ELSE 2
BY FollowsFacts DEF StepsLeft, Ended, FirewallPc

\* Once the context is cancelled every call fails, and its caller gives up.
LEMMA CancelledTool ==
    ASSUME IInv, Tool, ctx = "cancelled"
    PROVE  StepsLeft' < StepsLeft /\ ctx' = "cancelled"
<1>1. CASE CreateNext
  <2>1. CASE CreateSingle \/ FirewallControlPlane \/ FirewallWorkers
    <3>1. pc \in Single \cup FirewallPc /\ pc' = "failed" /\ ctx' = ctx
      BY <2>1, CreateSingleForm
      DEF FirewallControlPlane, FirewallWorkers, CreateOk, CreateFails, FirewallPc
    <3> QED
      BY <3>1, StepsFacts DEF StepsLeft, Ended
  <2>2. CASE CreateMaster \/ ServersDone
    <3>1. /\ pc = "master" /\ ctx' = ctx
          /\ pc' \in {"failed", "bootstrap"}
      BY <2>2 DEF CreateMaster, ServersDone, CreateOk, CreateFails, cloudVars
    <3>2. StepsLeft' \in 0..2
      BY <3>1 DEF StepsLeft, Ended
    <3> QED
      BY <3>1, <3>2, StepsFacts
  <2>3. CASE AttachPause
    BY <2>3, StepsFacts DEF AttachPause, cloudVars, StepsLeft, Ended
  <2>4. CASE AttachCancelled
    BY <2>4, StepsFacts DEF AttachCancelled, cloudVars, StepsLeft, Ended
  <2>5. CASE KubernetesStarts
    BY <2>5, StepsFacts DEF KubernetesStarts, cloudVars, StepsLeft, Ended
  <2>6. CASE BootstrapDone \/ BootstrapFails
    <3>1. pc = "bootstrap" /\ pc' \in Ended /\ ctx' = ctx
      BY <2>6 DEF BootstrapDone, BootstrapFails, cloudVars, Ended
    <3>2. StepsLeft' = 0 /\ StepsLeft \in {1, 2}
      BY <3>1, StepsFacts DEF StepsLeft
    <3> QED
      BY <3>1, <3>2
  <2> QED
    BY <1>1, <2>1, <2>2, <2>3, <2>4, <2>5, <2>6 DEF CreateNext, Attach
<1>2. CASE DrainNext
  <2>1. CASE ReadFirst
    BY <2>1 DEF ReadFirst
  <2>2. CASE ReadSecond
    <3>1. pc = "second" /\ ctx' = ctx /\ pc' \in {"delete", "deleted", "first"}
      BY <2>2 DEF ReadSecond, ReadOk, ReadFails, RoundRead
    <3>2. StepsLeft' \in {0, 2}
      BY <3>1 DEF StepsLeft, Ended
    <3> QED
      BY <3>1, <3>2, StepsFacts
  <2>3. CASE DeleteFound \/ PhaseCancelled
    <3>1. pc \in {"delete", "first"} /\ ctx' = ctx /\ pc' = "sleep"
      BY <2>3 DEF DeleteFound, DeleteOk, DeleteFails, PhaseCancelled, cloudVars
    <3> QED
      BY <3>1, StepsFacts DEF StepsLeft, Ended
  <2>4. CASE Retry
    BY <2>4, StepsFacts DEF Retry, cloudVars, StepsLeft, Ended
  <2> QED
    BY <1>2, <2>1, <2>2, <2>3, <2>4 DEF DrainNext
<1> QED
  BY <1>1, <1>2 DEF Tool

\* Others do not set it back: the handler ends the process, the controllers
\* do not touch it, and no command starts before it has ended.
LEMMA CancelledOthers ==
    ASSUME IInv, [Next]_vars, ~Tool, ctx = "cancelled", pc \notin Ended
    PROVE  ctx' = "cancelled" /\ StepsLeft' <= StepsLeft
<1>1. CASE Exit
  <2>1. StepsLeft' = 0 /\ ctx' = ctx
    BY <1>1 DEF Exit, Gone, cloudVars, StepsLeft, Ended
  <2> QED
    BY <2>1, StepsFacts
<1>2. CASE Controllers \/ UNCHANGED vars
  <2>1. UNCHANGED <<pc, ctx, cluster, run>>
    BY <1>2
    DEF Controllers, ScaleUp, ScaleDown, EnsureLoadBalancer, EnsureLoadBalancerDeleted,
        CreateVolume, Launched, Withdrawn, vars, cloudVars, createVars
  <2>2. StepsLeft' = StepsLeft
    BY <2>1 DEF StepsLeft
  <2> QED
    BY <2>1, <2>2, StepsFacts
<1>3. ~Operator
  BY DEF Operator, RunCreate, RunDelete, RunCreateFirewall, Start, Interrupt, Killed
<1> QED
  BY <1>1, <1>2, <1>3 DEF Next

\* After a signal the command makes at most three more steps, whatever answers
\* it gets: the safety half of InterruptStops.
THEOREM StopsTheorem ==
    Spec => []((StepsLeft \in 0..3) /\ (StepsLeft = 0 <=> pc \in Ended)) /\ StopsSoon
<1>1. (StepsLeft \in 0..3) /\ (StepsLeft = 0 <=> pc \in Ended)
  BY StepsFacts
<1>2. IInv /\ [Next]_vars =>
        [ctx = "cancelled" =>
            /\ Tool => StepsLeft' < StepsLeft
            /\ pc \notin Ended => ctx' = "cancelled" /\ StepsLeft' <= StepsLeft]_vars
  <2> SUFFICES ASSUME IInv, [Next]_vars, ctx = "cancelled"
               PROVE  /\ Tool => StepsLeft' < StepsLeft
                      /\ pc \notin Ended => ctx' = "cancelled" /\ StepsLeft' <= StepsLeft
    OBVIOUS
  <2>1. StepsLeft \in Nat /\ StepsLeft' \in Nat
    BY DEF StepsLeft
  <2> QED
    BY <2>1, CancelledTool, CancelledOthers
<1> QED
  BY <1>1, <1>2, Invariant, PTL DEF Spec, StopsSoon
=============================================================================
