--------------------------- MODULE CreationProofs ---------------------------
(***************************************************************************)
(* Bootstrap fills in the abstract steps of ClusterCreate, for every       *)
(* number of masters and every retry limit.  The invariant of              *)
(* BootstrapProofs gives what is needed: nothing but init-master.sh        *)
(* touches the first master's kubeadm, and postInstall is reached only     *)
(* with that master in the cluster.                                        *)
(***************************************************************************)
EXTENDS Creation, BootstrapProofs

\* The control plane is started in the loop of the first master, or stays.
LEMMA StartedSteps ==
  ASSUME IInv, IInv', Next
  PROVE  \/ UNCHANGED Started
         \/ Started = 0 /\ Started' = 1 /\ UNCHANGED <<Place, ctx>> /\ Place = "bootstrap"
<1> USE MastersAssumption
<1>1. CASE ExecInit \/ ExecInitFails
  <2>1. pc \notin Ended /\ pc' \notin Ended /\ UNCHANGED ctx
    BY <1>1 DEF ExecInit, ExecInitFails, Retry, Ended
  <2>2. kube[1] = "none" \/ kube'[1] = kube[1]
    <3>1. CASE InitScript
      <4>1. PICK k \in Outcomes : /\ k = kube[1] \/ kube[1] = "none"
                                  /\ kube' = [kube EXCEPT ![1] = k]
        BY <3>1 DEF InitScript
      <4> QED
        BY <4>1 DEF IInv, TypeOK, Masters
    <3>2. CASE UNCHANGED serverVars
      BY <3>2 DEF serverVars
    <3> QED
      BY <1>1, <3>1, <3>2 DEF ExecInit, ExecInitFails, serverVars
  <2> QED
    BY <2>1, <2>2 DEF Started, Place
<1>2. CASE ExecJoin \/ ExecJoinFails
  <2>1. m # 1
    BY <1>2 DEF ExecJoin, ExecJoinFails, IInv, TypeOK, PcOfLoop, Masters
  <2>2. kube'[1] = kube[1]
    <3>1. UNCHANGED kube \/ \E k \in Outcomes : kube' = [kube EXCEPT ![m] = k]
      BY <1>2 DEF ExecJoin, ExecJoinFails, Outcomes
    <3> QED
      BY <2>1, <3>1 DEF IInv, TypeOK, Masters
  <2> QED
    BY <2>2 DEF Started
<1>3. CASE UNCHANGED kube
  BY <1>3 DEF Started
<1> QED
  BY <1>1, <1>2, <1>3
  DEF Next, Tool, Top, WaitForServer, WaitForLoadBalancer, ReadJoinCommand, ReadKubeconfig,
      Fatal, ExecPostInstall, ExecOneMasterMode, Interrupt, Exit, CloudInit, serverVars

\* The context is cancelled by a signal only, which changes nothing else.
LEMMA ContextSteps ==
  ASSUME Next
  PROVE  \/ UNCHANGED ctx
         \/ ctx = "live" /\ ctx' = "cancelled" /\ pc \notin Ended /\ UNCHANGED <<pc, kube>>
BY DEF Next, Tool, Top, WaitForServer, WaitForLoadBalancer, ExecInit, ExecInitFails,
       ReadJoinCommand, ReadKubeconfig, Fatal, ExecJoin, ExecJoinFails, ExecPostInstall,
       ExecOneMasterMode, Interrupt, Exit, CloudInit, toolVars, serverVars

\* A command that has ended does nothing more.
LEMMA EndedSteps == ASSUME Next, pc \in Ended PROVE UNCHANGED pc
BY DEF Next, Tool, Top, WaitForServer, WaitForLoadBalancer, ExecInit, ExecInitFails,
       ReadJoinCommand, ReadKubeconfig, Fatal, ExecJoin, ExecJoinFails, ExecPostInstall,
       ExecOneMasterMode, Interrupt, Exit, CloudInit, toolVars, Ended

\* A good report means that the first master is in the cluster.
LEMMA CreatedStarted == ASSUME IInv, pc = "created" PROVE Started = 1
BY DEF IInv, PcOfLoop, TypeOK, UserChanged, Started

\* Every step of Bootstrap is a step of the create command, or a stutter.
LEMMA FillsStep == IInv /\ IInv' /\ [Next]_vars => [Life!CreateNext \/ Life!Interrupt]_(Life!vars)
<1> SUFFICES ASSUME IInv, IInv', Next
             PROVE  \/ Life!KubernetesStarts \/ Life!BootstrapDone \/ Life!BootstrapFails
                    \/ Life!Interrupt
                    \/ UNCHANGED <<Started, Place, ctx>>
  BY DEF Life!CreateNext, Life!vars, Life!cloudVars, Life!createVars, Life!drainVars, vars,
         toolVars, serverVars, Started, Place, AfterServers
<1>1. CASE Started = 0 /\ Started' = 1 /\ UNCHANGED <<Place, ctx>> /\ Place = "bootstrap"
  BY <1>1 DEF Life!KubernetesStarts, Life!cloudVars
<1>2. CASE UNCHANGED <<Started, ctx>> /\ Place' # Place
  <2>1. Place = "bootstrap" /\ Place' = pc' /\ pc' \in Ended
    BY <1>2, EndedSteps DEF Place
  <2>2. CASE pc' = "failed"
    BY <1>2, <2>1, <2>2 DEF Life!BootstrapFails, Life!cloudVars, Life!createVars
  <2>3. CASE pc' = "created"
    <3>1. Started' = 1
      BY <2>3, CreatedStarted DEF IInv, TypeOK, PcOfLoop, UserChanged, Started
    <3> QED
      BY <1>2, <2>1, <2>3, <3>1 DEF Life!BootstrapDone, Life!cloudVars, Life!createVars
  <2> QED
    BY <2>1, <2>2, <2>3 DEF Ended
<1>3. CASE ctx = "live" /\ ctx' = "cancelled" /\ pc \notin Ended /\ UNCHANGED <<pc, kube>>
  BY <1>3 DEF Life!Interrupt, Life!Ended, Life!createVars, Life!drainVars, Started, Place
<1> QED
  BY <1>1, <1>2, <1>3, StartedSteps, ContextSteps

-----------------------------------------------------------------------------
(* The theorem *)

\* The resources that the instance of Lifecycle is given are those which its
\* create command has made when createServer is through.
LEMMA Handover == Life!HandsOver
<1> DEFINE Alone == {"network", "subnet", "fwcontrolplane", "fwworkers", "sshkey",
                     "loadbalancer", "placementgroup"}
<1>1. Life!Single = Alone
  BY DEF Life!Single, Life!Follows
<1>2. Life!HandedOver = AfterServers
  BY <1>1 DEF Life!HandedOver, Life!Res, AfterServers, Masters
<1>3. \A r \in AfterServers : r.kind \in Alone \cup {"master"}
  BY DEF AfterServers
<1>4. Life!OfKinds(Life!Single \cup {"master"}) = AfterServers
  BY <1>1, <1>3 DEF Life!OfKinds
<1> QED
  BY <1>2, <1>4 DEF Life!HandsOver, Masters

\* NewCluster on the servers is what ClusterCreate says of it, from the state
\* ClusterCreate reaches before it (HandoverTheorem of LifecycleProofs).
THEOREM CreationTheorem == Spec => FillsCreate
<1>1. Init => Place = "bootstrap" /\ Started = 0
  BY MastersAssumption DEF Init, Place, Started, Ended, Masters
<1> QED
  BY <1>1, Handover, FillsStep, Invariant, PTL DEF Spec, FillsCreate
=============================================================================
