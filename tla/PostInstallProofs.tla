------------------------- MODULE PostInstallProofs -------------------------
(***************************************************************************)
(* Proofs about PostInstall, for every set of tokens, every limit of the   *)
(* attempts, and both forms of the last step.                              *)
(***************************************************************************)
EXTENDS PostInstall, TLAPS

Configured == {"scale", "helm", "patch", "onemaster", "ok"}

\* From its creation to the end of the run the workers' token is the only one.
TokenAlone ==
    /\ pc = "token" => tokens = {}
    /\ pc \in {"unset", "set"} \cup Configured => join \in Token /\ tokens = {join}

ConfigIsJoin == pc \in Configured => config = join

\* The old pod is gone, or the run has an excuse, from helm's step on.
PodFollows ==
    /\ deploy = "absent" => pod = NoToken
    /\ (pc = "helm" /\ ~excused) => deploy # "on"
    /\ (pc \in {"patch", "onemaster", "ok"} /\ ~excused) => pod \in {NoToken, join}

\* What is behind a failure, before there is one.
Reasons ==
    /\ ctx = "cancelled" => disturbed
    /\ (pc = "top" /\ retryCount > 0) => disturbed
    /\ (pc = "set" /\ config # NoToken) => disturbed
    /\ FailsForAReason

IInv ==
    /\ TypeOK
    /\ TokenAlone
    /\ ConfigIsJoin
    /\ PodFollows
    /\ Reasons

-----------------------------------------------------------------------------
(* The invariant *)

\* A run of the create command has changed nothing yet.
LEMMA InvInit == Init => IInv
<1> SUFFICES ASSUME Init PROVE IInv
  OBVIOUS
<1>1. retryCount \in 0..RetryTimeLimit + 1 /\ ~(retryCount > 0)
  BY LimitAssumption DEF Init
<1>2. TypeOK
  BY <1>1 DEF Init, TypeOK, Loop, Holder
<1>3. TokenAlone /\ ConfigIsJoin /\ PodFollows /\ Reasons
  BY <1>1 DEF Init, TokenAlone, ConfigIsJoin, PodFollows, Reasons, FailsForAReason, Configured
<1> QED
  BY <1>2, <1>3 DEF IInv

\* The loop around the script does not touch the cluster.
LEMMA LoopStep == IInv /\ (Top \/ WaitForServer \/ CopyScripts \/ Exit) => IInv'
<1> SUFFICES ASSUME IInv, Top \/ WaitForServer \/ CopyScripts \/ Exit PROVE IInv'
  OBVIOUS
<1>1. /\ pc \in Loop /\ pc' \in {"top", "wait", "copy", "prepare", "failed"}
      /\ UNCHANGED <<ctx, copyNewScripts, tokens, join, config, deploy, pod, excused>>
      /\ \/ pc = "top" /\ UNCHANGED disturbed
            /\ \/ /\ ctx = "cancelled" \/ retryCount > RetryTimeLimit
                  /\ pc' = "failed" /\ UNCHANGED retryCount
               \/ /\ retryCount <= RetryTimeLimit
                  /\ pc' = "wait" /\ retryCount' = retryCount + 1
         \/ pc' = "top" /\ disturbed' = TRUE /\ UNCHANGED retryCount
         \/ pc' \in {"copy", "prepare"} /\ UNCHANGED <<disturbed, retryCount>>
         \/ pc' = "failed" /\ ctx = "cancelled" /\ UNCHANGED <<disturbed, retryCount>>
  BY LimitAssumption
  DEF Top, WaitForServer, CopyScripts, Exit, Loop, cluster, history, IInv, TypeOK
<1>2. TypeOK'
  <2>1. retryCount' \in 0..RetryTimeLimit + 1
    BY <1>1, LimitAssumption DEF IInv, TypeOK
  <2>2. disturbed' \in BOOLEAN
    BY <1>1 DEF IInv, TypeOK
  <2> QED
    BY <1>1, <2>1, <2>2 DEF IInv, TypeOK, Loop, Script, Ended
<1>3. TokenAlone' /\ ConfigIsJoin' /\ PodFollows'
  BY <1>1 DEF IInv, TokenAlone, ConfigIsJoin, PodFollows, Configured
<1>4. Reasons'
  BY <1>1, LimitAssumption DEF IInv, TypeOK, Reasons, FailsForAReason
<1> QED
  BY <1>2, <1>3, <1>4 DEF IInv

\* The script's commands on the tokens and the configmap.
LEMMA TokenStep ==
  IInv /\ (Prepare \/ Revoke \/ CreateToken \/ UnsetConfig \/ SetConfig) => IInv'
<1> SUFFICES ASSUME IInv, Prepare \/ Revoke \/ CreateToken \/ UnsetConfig \/ SetConfig
             PROVE  IInv'
  OBVIOUS
<1>1. UNCHANGED <<retryCount, ctx, copyNewScripts, deploy, pod, excused>>
  BY DEF Prepare, Revoke, CreateToken, UnsetConfig, SetConfig, Goes, cluster, history
<1>2. \/ /\ pc = "prepare" /\ pc' = "revoke"
         /\ UNCHANGED <<tokens, config, join, disturbed>>
      \/ /\ pc = "revoke" /\ tokens' = {} /\ UNCHANGED <<config, join, disturbed>>
         /\ pc' = "token" \/ (pc' = "failed" /\ tokens = {})
      \/ /\ pc = "token" /\ pc' = "unset" /\ join' \in Token
         /\ tokens' = tokens \cup {join'} /\ UNCHANGED <<config, disturbed>>
      \/ /\ pc = "unset" /\ pc' = "set" /\ UNCHANGED <<tokens, join>>
         /\ \/ config' = NoToken /\ UNCHANGED disturbed
            \/ UNCHANGED config /\ disturbed' = TRUE
      \/ /\ pc = "set" /\ UNCHANGED <<tokens, join, disturbed>>
         /\ \/ config = NoToken /\ config' = join /\ pc' = "scale"
            \/ config # NoToken /\ UNCHANGED config /\ pc' = "failed"
  BY DEF Prepare, Revoke, CreateToken, UnsetConfig, SetConfig, Goes, cluster, history
<1>3. TypeOK'
  BY <1>1, <1>2 DEF IInv, TypeOK, Loop, Script, Ended, Holder
<1>4. TokenAlone' /\ ConfigIsJoin'
  BY <1>1, <1>2 DEF IInv, TokenAlone, ConfigIsJoin, Configured
<1>5. PodFollows' /\ Reasons'
  BY <1>1, <1>2 DEF IInv, PodFollows, Reasons, FailsForAReason
<1> QED
  BY <1>3, <1>4, <1>5 DEF IInv

\* The script's commands on the autoscaler.
LEMMA DeployStep == IInv /\ (Scale \/ Helm \/ Patch \/ OneMasterMode) => IInv'
<1> SUFFICES ASSUME IInv, Scale \/ Helm \/ Patch \/ OneMasterMode PROVE IInv'
  OBVIOUS
<1>1. UNCHANGED <<retryCount, ctx, copyNewScripts, tokens, config, pod, join>>
  BY DEF Scale, Helm, Patch, OneMasterMode, Goes, cluster
<1>2. \/ /\ pc = "scale" /\ pc' = "helm"
         /\ \/ /\ deploy' = IF deploy = "absent" THEN "absent" ELSE "off"
               /\ UNCHANGED <<disturbed, excused>>
            \/ UNCHANGED deploy /\ disturbed' = TRUE /\ excused' = TRUE
      \/ /\ pc = "helm" /\ pc' = "patch" /\ deploy' = "on" /\ UNCHANGED disturbed
         /\ excused' = (excused \/ (deploy = "off" /\ pod # NoToken))
      \/ /\ pc = "patch" /\ pc' \in {"onemaster", "ok"}
         /\ UNCHANGED <<deploy, disturbed, excused>>
      \/ /\ pc = "onemaster" /\ pc' = "ok" /\ deploy' = "on"
         /\ UNCHANGED <<disturbed, excused>>
  BY DEF Scale, Helm, Patch, OneMasterMode, Goes, cluster, history
<1>3. TypeOK'
  <2>1. excused' \in BOOLEAN
    BY <1>2 DEF IInv, TypeOK
  <2> QED
    BY <1>1, <1>2, <2>1 DEF IInv, TypeOK, Loop, Script, Ended
<1>4. TokenAlone' /\ ConfigIsJoin'
  BY <1>1, <1>2 DEF IInv, TokenAlone, ConfigIsJoin, Configured
<1>5. PodFollows'
  <2>1. deploy \in {"absent", "off", "on"}
    BY DEF IInv, TypeOK
  <2> QED
    BY <1>1, <1>2, <2>1 DEF IInv, PodFollows
<1>6. Reasons'
  BY <1>1, <1>2 DEF IInv, Reasons, FailsForAReason
<1> QED
  BY <1>3, <1>4, <1>5, <1>6 DEF IInv

\* The run stops, and it was disturbed.
LEMMA FailStep == IInv /\ (Fail \/ Interrupt) => IInv'
<1> SUFFICES ASSUME IInv, Fail \/ Interrupt PROVE IInv'
  OBVIOUS
<1>1. /\ UNCHANGED <<retryCount, copyNewScripts, config, deploy, pod, join, excused>>
      /\ disturbed' = TRUE
      /\ \/ pc' = "failed" /\ UNCHANGED ctx /\ tokens' \subseteq tokens
         \/ UNCHANGED <<pc, tokens>> /\ ctx' = "cancelled"
  BY DEF Fail, Interrupt, cluster
<1>2. TypeOK'
  BY <1>1 DEF IInv, TypeOK, Ended
<1>3. TokenAlone' /\ ConfigIsJoin' /\ PodFollows' /\ Reasons'
  BY <1>1 DEF IInv, TokenAlone, ConfigIsJoin, PodFollows, Reasons, FailsForAReason, Configured
<1> QED
  BY <1>2, <1>3 DEF IInv

\* A new run, and what happens to the cluster by itself.
LEMMA AroundStep == IInv /\ (PatchCluster \/ Expire \/ PodStarts \/ PodStops) => IInv'
<1> SUFFICES ASSUME IInv, PatchCluster \/ Expire \/ PodStarts \/ PodStops PROVE IInv'
  OBVIOUS
<1>1. CASE PatchCluster
  <2>1. retryCount' \in 0..RetryTimeLimit + 1 /\ ~(retryCount' > 0)
    BY <1>1, LimitAssumption DEF PatchCluster
  <2>2. TypeOK'
    BY <1>1, <2>1 DEF PatchCluster, cluster, IInv, TypeOK, Loop
  <2>3. TokenAlone' /\ ConfigIsJoin' /\ PodFollows' /\ Reasons'
    BY <1>1, <2>1 DEF PatchCluster, cluster, IInv, TokenAlone, ConfigIsJoin, PodFollows,
        Reasons, FailsForAReason, Configured
  <2> QED
    BY <2>2, <2>3 DEF IInv
<1>2. CASE Expire
  <2>1. /\ pc \in Ended /\ tokens' \subseteq tokens /\ (pc = "ok" => tokens' = tokens)
        /\ UNCHANGED <<pc, retryCount, ctx, copyNewScripts, config, deploy, pod, join,
                       disturbed, excused>>
    BY <1>2 DEF Expire, tool, history, IInv, TokenAlone, Configured
  <2>2. TypeOK'
    BY <2>1 DEF IInv, TypeOK
  <2>3. TokenAlone' /\ ConfigIsJoin' /\ PodFollows'
    BY <2>1 DEF IInv, TokenAlone, ConfigIsJoin, PodFollows, Ended, Configured
  <2>4. Reasons'
    BY <2>1 DEF IInv, Reasons, FailsForAReason
  <2> QED
    BY <2>2, <2>3, <2>4 DEF IInv
<1>3. CASE PodStarts \/ PodStops
  <2>1. /\ pod' = NoToken \/ (deploy = "on" /\ pod' = config)
        /\ UNCHANGED <<pc, retryCount, ctx, copyNewScripts, tokens, config, deploy, join,
                       disturbed, excused>>
    BY <1>3 DEF PodStarts, PodStops, tool, history
  <2>2. TypeOK'
    BY <2>1 DEF IInv, TypeOK, Holder
  <2>3. PodFollows'
    BY <2>1 DEF IInv, PodFollows, ConfigIsJoin, Configured
  <2> QED
    BY <2>1, <2>2, <2>3 DEF IInv, TokenAlone, ConfigIsJoin, Reasons, FailsForAReason
<1> QED
  BY <1>1, <1>2, <1>3

\* Every step keeps the invariant.
LEMMA InvNext == IInv /\ [Next]_vars => IInv'
<1> SUFFICES ASSUME IInv, [Next]_vars PROVE IInv'
  OBVIOUS
<1>1. CASE UNCHANGED vars
  BY <1>1 DEF vars, tool, cluster, history, IInv, TypeOK, TokenAlone, ConfigIsJoin,
      PodFollows, Reasons, FailsForAReason
<1>2. CASE Next
  BY <1>2, LoopStep, TokenStep, DeployStep, FailStep, AroundStep DEF Next, Run, Around
<1> QED
  BY <1>1, <1>2

-----------------------------------------------------------------------------
(* Theorems *)

\* The run, the tokens and the autoscaler are at every step as the places in
\* the script say.
THEOREM Invariant == Spec => []IInv
BY InvInit, InvNext, PTL DEF Spec

\* The variables of the run and of the cluster keep their types.
THEOREM TypeCorrect == Spec => []TypeOK
<1>1. IInv => TypeOK
  BY DEF IInv
<1> QED
  BY <1>1, Invariant, PTL

\* A run that succeeds leaves the workers' token and no other, whatever the
\* runs before it did and where they stopped.
THEOREM OneTokenTheorem == Spec => []OneToken
<1>1. IInv => OneToken
  BY NoTokenAssumption DEF IInv, OneToken, TokenAlone, ConfigIsJoin, Configured
<1> QED
  BY <1>1, Invariant, PTL

\* Its autoscaler has this token, unless the old pod could not be stopped.
THEOREM AutoscalerTheorem == Spec => []AutoscalerCurrent
<1>1. IInv => AutoscalerCurrent
  BY DEF IInv, AutoscalerCurrent, PodFollows, TokenAlone, Configured
<1> QED
  BY <1>1, Invariant, PTL

\* A run fails for a reason outside of it, or for want of a token.
THEOREM FailureTheorem == Spec => []FailsForAReason
<1>1. IInv => FailsForAReason
  BY DEF IInv, Reasons
<1> QED
  BY <1>1, Invariant, PTL
-----------------------------------------------------------------------------
(* A bound on the work of a run *)

\* The steps of one attempt after this one.
StepRank == [top |-> 0, onemaster |-> 1, patch |-> 2, helm |-> 3, scale |-> 4, set |-> 5,
             unset |-> 6, token |-> 7, revoke |-> 8, prepare |-> 9, copy |-> 10, wait |-> 11]

\* A bound on the steps the run can still make.
Work ==
    IF pc \in Ended THEN 0
    ELSE 12 * (RetryTimeLimit + 1 - retryCount) + StepRank[pc] + 1

\* Every step of a run is one less to make: the script never goes back, and the
\* loop around it only by way of its count.  What happens around the run does
\* not make it more, but for the start of another one.
WorkFalls ==
    [][/\ Run => Work' < Work
       /\ ~PatchCluster => Work' <= Work]_vars

\* The ranks, spelled out.
LEMMA StepRankFacts ==
    /\ StepRank["top"] = 0 /\ StepRank["onemaster"] = 1 /\ StepRank["patch"] = 2
    /\ StepRank["helm"] = 3 /\ StepRank["scale"] = 4 /\ StepRank["set"] = 5
    /\ StepRank["unset"] = 6 /\ StepRank["token"] = 7 /\ StepRank["revoke"] = 8
    /\ StepRank["prepare"] = 9 /\ StepRank["copy"] = 10 /\ StepRank["wait"] = 11
BY DEF StepRank

\* The bound is a natural number.
LEMMA WorkType ==
  TypeOK => Work \in 0..(12 * (RetryTimeLimit + 2)) /\ (Work = 0 <=> pc \in Ended)
<1> SUFFICES ASSUME TypeOK
             PROVE  Work \in 0..(12 * (RetryTimeLimit + 2)) /\ (Work = 0 <=> pc \in Ended)
  OBVIOUS
<1>1. retryCount \in 0..RetryTimeLimit + 1 /\ RetryTimeLimit \in Nat
  BY LimitAssumption DEF TypeOK
<1>2. pc \notin Ended => StepRank[pc] \in 0..11
  BY StepRankFacts DEF TypeOK, Loop, Script
<1> QED
  BY <1>1, <1>2 DEF Work

\* Every step of a run brings it nearer to its end.
LEMMA WorkStep == ASSUME TypeOK, TypeOK', Run PROVE Work' < Work
<1>1. retryCount \in 0..RetryTimeLimit + 1 /\ RetryTimeLimit \in Nat
  BY LimitAssumption DEF TypeOK
<1>2. pc \notin Ended
  BY DEF Run, Top, WaitForServer, CopyScripts, Prepare, Revoke, CreateToken, UnsetConfig,
         SetConfig, Scale, Helm, Patch, OneMasterMode, Fail, Goes, Script, Ended
<1>3. CASE pc' \in Ended
  <2>1. Work \in Nat /\ Work # 0 /\ Work' = 0
    BY <1>2, <1>3, WorkType DEF Work
  <2> QED
    BY <2>1
<1>4. CASE Top /\ pc' \notin Ended
  <2>1. pc = "top" /\ pc' = "wait" /\ retryCount' = retryCount + 1
    BY <1>4 DEF Top, Ended
  <2>2. Work = 12 * (RetryTimeLimit + 1 - retryCount) + 1
        /\ Work' = 12 * (RetryTimeLimit + 1 - (retryCount + 1)) + 12
    BY <2>1, <1>1, StepRankFacts DEF Work, Ended
  <2> QED
    BY <2>2, <1>1
<1>5. CASE ~Top /\ pc' \notin Ended
  <2>1. /\ UNCHANGED retryCount
        /\ \/ pc = "wait" /\ pc' \in {"top", "copy", "prepare"}
           \/ <<pc, pc'>> \in {<<"copy", "prepare">>, <<"prepare", "revoke">>,
                 <<"revoke", "token">>, <<"token", "unset">>, <<"unset", "set">>,
                 <<"set", "scale">>, <<"scale", "helm">>, <<"helm", "patch">>,
                 <<"patch", "onemaster">>}
    BY <1>5
    DEF Run, WaitForServer, CopyScripts, Prepare, Revoke, CreateToken, UnsetConfig,
        SetConfig, Scale, Helm, Patch, OneMasterMode, Fail, Goes, Ended
  <2>2. StepRank[pc'] \in Nat /\ StepRank[pc] \in Nat /\ StepRank[pc'] < StepRank[pc]
    BY <2>1, StepRankFacts
  <2>3. /\ Work = 12 * (RetryTimeLimit + 1 - retryCount) + StepRank[pc] + 1
        /\ Work' = 12 * (RetryTimeLimit + 1 - retryCount) + StepRank[pc'] + 1
    BY <1>2, <1>5, <2>1 DEF Work
  <2> QED
    BY <2>2, <2>3, <1>1
<1> QED
  BY <1>3, <1>4, <1>5

\* The pods, the tokens and a signal give the run nothing more to do.
LEMMA WorkAround ==
  ASSUME TypeOK, Interrupt \/ Exit \/ Expire \/ PodStarts \/ PodStops PROVE Work' <= Work
<1>1. CASE Exit
  <2>1. Work' = 0 /\ Work \in Nat
    BY <1>1, WorkType DEF Exit, Work, Ended
  <2> QED
    BY <2>1
<1>2. CASE Interrupt \/ Expire \/ PodStarts \/ PodStops
  <2>1. UNCHANGED <<pc, retryCount>>
    BY <1>2 DEF Interrupt, Expire, PodStarts, PodStops, tool
  <2>2. Work' = Work /\ Work \in Nat
    BY <2>1, WorkType DEF Work
  <2> QED
    BY <2>2
<1> QED
  BY <1>1, <1>2

\* A run makes no more than 12 * (RetryTimeLimit + 2) steps, whatever fails and
\* whenever the signal comes: the safety half of RunEnds.
THEOREM WorkTheorem ==
  Spec => /\ [](Work \in 0..(12 * (RetryTimeLimit + 2)) /\ (Work = 0 <=> pc \in Ended))
          /\ WorkFalls
<1>1. TypeOK => Work \in Nat
  BY WorkType
<1>2. TypeOK /\ TypeOK' /\ [Next]_vars =>
        [(Run => Work' < Work) /\ (~PatchCluster => Work' <= Work)]_vars
  <2> SUFFICES ASSUME TypeOK, TypeOK', Next
               PROVE  (Run => Work' < Work) /\ (~PatchCluster => Work' <= Work)
    OBVIOUS
  <2>1. Work \in Nat
    BY WorkType
  <2>2. (Work \in Nat)'
    BY <1>1, PTL
  <2> QED
    BY <2>1, <2>2, WorkStep, WorkAround DEF Next, Around
<1> QED
  BY <1>2, WorkType, TypeCorrect, PTL DEF Spec, WorkFalls
=============================================================================
