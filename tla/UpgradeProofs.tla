--------------------------- MODULE UpgradeProofs ---------------------------
(***************************************************************************)
(* Proofs about Upgrade, for every number of masters and every version.    *)
(***************************************************************************)
EXTENDS Upgrade, TLAPS

\* The cluster's configuration lies between the first master and the others;
\* it never moves when no master is taken for the first.
Between ==
    /\ cluster <= cp[1]
    /\ \A a \in Masters \ {1} : cp[a] <= cluster
    /\ ~Numbered => \A a \in Masters : cp[a] = cluster

\* What this run has done so far.
Passed(a) == a \notin missing /\ packages[a] = target /\ (Numbered => cp[a] = target)

SoFar ==
    /\ pc \notin Ended => \A a \in Masters : a < i => Passed(a)
    /\ pc = "ok" => \A a \in Masters : Passed(a)
    /\ pc \in {"kubeadm", "upload", "cleanup"} => i \notin missing /\ packages[i] = target
    /\ pc = "cleanup" => Passed(i)
    /\ pc = "upload" => Numbered /\ i = 1 /\ cp[1] = target
    /\ (Numbered /\ pc \notin Ended /\ (i # 1 \/ pc = "cleanup")) => cluster = target
    /\ (Numbered /\ pc = "ok") => cluster = target

\* A run that could be done when it began still can be, and one that goes no
\* more than one minor release further still does not.
StillAble ==
    pc \notin Ended =>
        /\ able => missing = {} /\ Doable(target)
        /\ ~skipped => ~TooFar(target)

IInv ==
    /\ TypeOK
    /\ InOrder
    /\ Between
    /\ SoFar
    /\ StillAble
    /\ Repeatable

-----------------------------------------------------------------------------
(* The invariant *)

\* There is a first master.
LEMMA FirstMaster == 1 \in Masters /\ Masters \subseteq Nat
BY MastersAssumption DEF Masters

\* A version is not too far from itself.
LEMMA NoSkip == ASSUME NEW v \in Version PROVE ~Skips(v, v)
<1>1. v \in Nat /\ NewMinor \subseteq Nat
  BY MinorAssumption DEF Version
<1> QED
  BY <1>1 DEF Skips

\* All masters are at version 1.
LEMMA InvInit == Init => IInv
<1> SUFFICES ASSUME Init PROVE IInv
  OBVIOUS
<1>1. 1 \in Version
  BY VersionAssumption DEF Version
<1>2. TypeOK
  <2>1. able \in BOOLEAN /\ skipped \in BOOLEAN
    BY Zenon DEF Init, TooFar, Skips
  <2>2. packages \in [Masters -> Version] /\ cp \in [Masters -> Version]
    BY <1>1 DEF Init
  <2> QED
    BY <1>1, <2>1, <2>2, FirstMaster DEF Init, TypeOK
<1>3. InOrder /\ Between
  BY FirstMaster DEF Init, InOrder, Between
<1>4. SoFar
  BY FirstMaster DEF Init, SoFar, Ended, Masters
<1>5. StillAble
  BY DEF Init, StillAble
<1>6. Doable(packages[1])
  <2>1. packages[1] = 1 /\ \A a \in Masters : packages[a] = 1 /\ cp[a] = 1
    BY FirstMaster DEF Init
  <2>2. cluster = 1 /\ ~Skips(1, 1)
    BY <1>1, NoSkip DEF Init
  <2> QED
    BY <2>1, <2>2 DEF Doable, TooFar
<1>7. Repeatable
  BY <1>6 DEF Init, Repeatable
<1> QED
  BY <1>2, <1>3, <1>4, <1>5, <1>7 DEF IInv

\* A step that leaves the versions alone.
LEMMA OrderKept == ASSUME IInv, UNCHANGED versions PROVE InOrder' /\ Between'
BY DEF IInv, versions, InOrder, Between

\* It also leaves alone what can be done.
LEMMA AbleKept ==
    ASSUME IInv, UNCHANGED <<packages, cp, cluster, missing, target, able, skipped>>,
           pc \notin Ended
    PROVE  StillAble' /\ (~skipped' => Doable(packages[1])')
BY DEF IInv, StillAble, Repeatable, Doable, TooFar

\* The server answers, the scripts are there, or the run stops.
LEMMA WaitStep ==
  IInv /\ (WaitForServer \/ DownloadNewScripts \/ InstallHere \/ Fail \/ Interrupt) => IInv'
<1> SUFFICES ASSUME IInv,
                    WaitForServer \/ DownloadNewScripts \/ InstallHere \/ Fail \/ Interrupt
             PROVE  IInv'
  OBVIOUS
<1>1. /\ UNCHANGED <<i, target, packages, cp, cluster, missing, able, skipped>>
      /\ pc \notin Ended
      /\ \/ pc' = pc /\ disturbed' \in BOOLEAN /\ ctx' = "cancelled" /\ UNCHANGED touched
         \/ pc = "wait" /\ pc' = "download" /\ UNCHANGED <<ctx, touched, disturbed>>
         \/ pc = "download" /\ pc' = "install" /\ touched' \in BOOLEAN
            /\ UNCHANGED <<ctx, disturbed>>
         \/ pc' = "failed" /\ missing # {} /\ UNCHANGED <<ctx, touched, disturbed>>
         \/ pc' = "failed" /\ disturbed' = TRUE /\ UNCHANGED <<ctx, touched>>
  BY DEF WaitForServer, DownloadNewScripts, InstallHere, Fail, Interrupt, Goes, versions,
      history, asked, IInv, TypeOK, Working, Ended
<1>2. TypeOK'
  BY <1>1 DEF IInv, TypeOK, Working, Ended
<1>3. InOrder' /\ Between'
  BY <1>1, OrderKept DEF versions
<1>4. SoFar'
  BY <1>1 DEF IInv, SoFar, Passed, Ended
<1>5. StillAble' /\ (~skipped' => Doable(packages[1])')
  BY <1>1, AbleKept
<1>6. Repeatable'
  BY <1>1, <1>5 DEF IInv, StillAble, Repeatable, Ended
<1> QED
  BY <1>2, <1>3, <1>4, <1>5, <1>6 DEF IInv

\* New packages, never older ones.
LEMMA InstallStep == IInv /\ Install => IInv'
<1> SUFFICES ASSUME IInv, Install PROVE IInv'
  OBVIOUS
<1>1. /\ UNCHANGED <<i, ctx, target, cp, cluster, missing, touched, disturbed, able, skipped>>
      /\ pc = "install" /\ i \notin missing /\ pc \notin Ended
      /\ i \in Masters /\ target \in Version /\ packages \in [Masters -> Version]
  BY DEF Install, Goes, history, asked, IInv, TypeOK, Ended
<1>2. CASE packages[i] <= target
  <2>1. pc' = "kubeadm" /\ packages' = [packages EXCEPT ![i] = target]
    BY <1>2 DEF Install, Goes
  <2>2. TypeOK'
    BY <1>1, <2>1 DEF IInv, TypeOK, Working
  <2>3. InOrder'
    <3>1. \A a \in Masters : packages'[a] >= cp[a]
      BY <1>1, <1>2, <2>1 DEF IInv, InOrder, TypeOK, Version
    <3> QED
      BY <1>1, <3>1 DEF IInv, InOrder
  <2>4. Between'
    BY <1>1 DEF IInv, Between
  <2>5. SoFar'
    <3>1. \A a \in Masters : a < i => Passed(a)'
      BY <1>1, <2>1, FirstMaster DEF IInv, SoFar, Passed, Ended
    <3> QED
      BY <1>1, <2>1, <3>1 DEF IInv, SoFar, Ended
  <2>6. /\ packages'[i] = target /\ \A a \in Masters \ {i} : packages'[a] = packages[a]
        /\ \A a \in Masters : packages[a] \in Nat
        /\ target \in Nat
        /\ \A t : TooFar(t)' <=> TooFar(t)
    BY <1>1, <2>1 DEF TooFar, Version
  <2>7. ASSUME \A a \in Masters : packages[a] <= target
        PROVE  \A a \in Masters : packages'[a] <= target
    BY <2>6, <2>7
  <2>8. StillAble'
    BY <1>1, <2>1, <2>6, <2>7 DEF IInv, StillAble, Doable
  <2>9. ASSUME ~skipped PROVE Doable(packages[1])'
    <3>1. ~TooFar(target) /\ \A a \in Masters : packages[a] <= packages[1]
      BY <1>1, <2>9 DEF IInv, StillAble, Repeatable, Doable
    <3>2. packages[1] <= target /\ packages'[1] = target
      <4>1. CASE i = 1
        BY <1>2, <2>6, <4>1
      <4>2. CASE i # 1
        <5>1. Passed(1)
          BY <1>1, <4>2, FirstMaster DEF IInv, SoFar, Masters
        <5> QED
          BY <2>6, <4>2, <5>1, FirstMaster DEF Passed
      <4> QED
        BY <4>1, <4>2
    <3>3. \A a \in Masters : packages[a] <= target
      BY <2>6, <3>1, <3>2, FirstMaster
    <3> QED
      BY <2>6, <2>7, <3>1, <3>2, <3>3 DEF Doable
  <2>10. Repeatable'
    BY <1>1, <2>1, <2>9 DEF Repeatable
  <2> QED
    BY <2>2, <2>3, <2>4, <2>5, <2>8, <2>10 DEF IInv
<1>3. CASE ~(packages[i] <= target)
  <2>1. pc' = "failed" /\ UNCHANGED packages
    BY <1>3 DEF Install, Goes
  <2>2. packages[i] > target
    BY <1>1, <1>3 DEF Version
  <2>3. TypeOK'
    BY <1>1, <2>1 DEF IInv, TypeOK, Ended
  <2>4. InOrder' /\ Between'
    BY <1>1, <2>1, OrderKept DEF versions
  <2>5. SoFar'
    BY <2>1 DEF SoFar, Ended
  <2>6. StillAble' /\ (~skipped' => Doable(packages[1])')
    BY <1>1, <2>1, AbleKept
  <2>7. ~able
    <3>1. packages[i] \in Nat /\ target \in Nat
      BY <1>1 DEF Version
    <3> QED
      BY <1>1, <1>3, <3>1 DEF IInv, StillAble, Doable
  <2>8. Repeatable'
    BY <1>1, <2>6, <2>7 DEF Repeatable
  <2> QED
    BY <2>3, <2>4, <2>5, <2>6, <2>8 DEF IInv
<1> QED
  BY <1>2, <1>3

\* kubeadm raises one control plane, between those before and after it.
LEMMA KubeadmStep == IInv /\ Kubeadm => IInv'
<1> SUFFICES ASSUME IInv, Kubeadm PROVE IInv'
  OBVIOUS
<1>1. /\ UNCHANGED <<i, ctx, target, packages, cluster, missing, touched, disturbed, able,
                     skipped>>
      /\ pc = "kubeadm" /\ pc' = IF IsFirst THEN "upload" ELSE "cleanup"
      /\ cp' = [cp EXCEPT ![i] = IF IsFirst THEN packages[i] ELSE cluster]
  BY DEF Kubeadm, Goes, history, asked
<1>2. /\ i \in Masters /\ i \notin missing /\ packages[i] = target
      /\ \A a \in Masters : a < i => Passed(a)
      /\ packages \in [Masters -> Version] /\ cp \in [Masters -> Version]
      /\ cluster \in Version /\ target \in Version /\ Version \subseteq Nat
  BY <1>1 DEF IInv, TypeOK, SoFar, Ended, Version
<1>3. /\ cp'[i] = IF IsFirst THEN packages[i] ELSE cluster
      /\ \A a \in Masters \ {i} : cp'[a] = cp[a]
      /\ cp' \in [Masters -> Version]
  BY <1>1, <1>2
<1>4. cp'[i] >= cp[i] /\ cp'[i] <= packages[i]
  <2>1. CASE IsFirst
    BY <1>2, <1>3, <2>1 DEF IInv, InOrder
  <2>2. CASE ~IsFirst /\ ~Numbered
    BY <1>2, <1>3, <2>2 DEF IInv, InOrder, Between
  <2>3. CASE Numbered /\ i # 1
    BY <1>1, <1>2, <1>3, <2>3 DEF IInv, Between, SoFar, Ended, IsFirst
  <2> QED
    BY <2>1, <2>2, <2>3 DEF IsFirst
<1>a. cluster \in Nat /\ \A a \in Masters : cp[a] \in Nat /\ cp'[a] \in Nat
  BY <1>2, <1>3
<1>5. TypeOK'
  BY <1>1, <1>3 DEF IInv, TypeOK, Working
<1>6. InOrder'
  <2>1. \A a \in Masters : packages[a] >= cp'[a]
    BY <1>2, <1>3, <1>4 DEF IInv, InOrder
  <2>2. ASSUME NEW b \in Masters, i < b PROVE cp'[i] >= cp[b]
    <3>1. cp[i] >= cp[b]
      BY <1>2, <2>2 DEF IInv, InOrder
    <3> QED
      BY <1>2, <1>4, <1>a, <3>1
  <2>3. ASSUME NEW a \in Masters, a < i PROVE cp[a] >= cp'[i]
    <3>1. ~IsFirst /\ cp'[i] = cluster
      BY <1>2, <1>3, <2>3, FirstMaster DEF IsFirst, Masters
    <3>2. CASE Numbered
      <4>1. i # 1 /\ cp[a] = target
        BY <1>2, <2>3, <3>2, FirstMaster DEF Passed, Masters
      <4>2. cluster = target
        BY <1>1, <3>2, <4>1 DEF IInv, SoFar, Ended
      <4> QED
        BY <1>2, <3>1, <4>1, <4>2
    <3>3. CASE ~Numbered
      BY <1>2, <3>1, <3>3 DEF IInv, Between
    <3> QED
      BY <3>2, <3>3
  <2>4. \A a \in Masters : \A b \in Masters : a < b => cp'[a] >= cp'[b]
    BY <1>2, <1>3, <2>2, <2>3, FirstMaster DEF IInv, InOrder
  <2> QED
    BY <1>1, <2>1, <2>4 DEF InOrder
<1>7. Between'
  <2>1. cluster <= cp'[1]
    <3>1. cluster <= cp[1] /\ (i # 1 => cp'[1] = cp[1])
      BY <1>3, FirstMaster DEF IInv, Between
    <3> QED
      BY <1>4, <1>a, <3>1, FirstMaster
  <2>2. \A a \in Masters \ {1} : cp'[a] <= cluster
    BY <1>2, <1>3 DEF IInv, Between, IsFirst
  <2>3. ~Numbered => \A a \in Masters : cp'[a] = cluster
    BY <1>2, <1>3 DEF IInv, Between, IsFirst
  <2> QED
    BY <1>1, <2>1, <2>2, <2>3 DEF Between
<1>8. SoFar'
  <2>1. \A a \in Masters : a < i => Passed(a)'
    BY <1>1, <1>2, <1>3, FirstMaster DEF Passed
  <2>2. CASE IsFirst
    BY <1>1, <1>2, <1>3, <2>1, <2>2 DEF SoFar, Ended, IsFirst
  <2>3. CASE ~IsFirst
    <3>1. Numbered => cluster = target
      BY <1>1, <2>3 DEF IInv, SoFar, Ended, IsFirst
    <3>2. Passed(i)'
      BY <1>1, <1>2, <1>3, <2>3, <3>1 DEF Passed
    <3> QED
      BY <1>1, <1>2, <2>1, <2>3, <3>1, <3>2 DEF SoFar, Ended
  <2> QED
    BY <2>2, <2>3
<1>9. ASSUME NEW t \in {target, packages[1]}, ~TooFar(t) PROVE ~TooFar(t)'
  <2>1. ~Skips(cp'[i], t)
    <3>1. CASE IsFirst
      BY <1>2, <1>3, <3>1, NoSkip DEF IsFirst
    <3>2. CASE ~IsFirst
      BY <1>3, <1>9, <3>2 DEF TooFar
    <3> QED
      BY <3>1, <3>2
  <2> QED
    BY <1>1, <1>3, <1>9, <2>1 DEF TooFar, Skips
<1>10. StillAble' /\ Repeatable'
  <2>1. pc \notin Ended /\ pc' # "failed" /\ packages[1] = packages'[1]
    BY <1>1 DEF Ended
  <2>2. \A t \in {target, packages[1]} : Doable(t) => Doable(t)'
    BY <1>1, <1>9 DEF Doable
  <2> QED
    BY <1>1, <1>9, <2>1, <2>2 DEF IInv, StillAble, Repeatable, Doable
<1> QED
  BY <1>5, <1>6, <1>7, <1>8, <1>10 DEF IInv

\* kubeadm refuses only what was too far from the beginning.
LEMMA RefusesStep == IInv /\ KubeadmRefuses => IInv'
<1> SUFFICES ASSUME IInv, KubeadmRefuses PROVE IInv'
  OBVIOUS
<1>1. /\ UNCHANGED <<i, ctx, target, packages, cp, cluster, missing, touched, disturbed, able,
                     skipped>>
      /\ pc = "kubeadm" /\ pc' = "failed" /\ pc \notin Ended
  BY DEF KubeadmRefuses, Goes, versions, history, asked, Ended
<1>2. TooFar(target)
  <2>1. packages[i] = target
    BY <1>1 DEF IInv, SoFar
  <2> QED
    BY <2>1 DEF KubeadmRefuses, Allows, TooFar
<1>3. TypeOK'
  BY <1>1 DEF IInv, TypeOK, Ended
<1>4. InOrder' /\ Between'
  BY <1>1, OrderKept DEF versions
<1>5. SoFar'
  BY <1>1 DEF SoFar, Ended
<1>6. StillAble' /\ (~skipped' => Doable(packages[1])')
  BY <1>1, AbleKept
<1>7. Repeatable'
  BY <1>1, <1>2, <1>6 DEF IInv, StillAble, Repeatable, Doable
<1> QED
  BY <1>3, <1>4, <1>5, <1>6, <1>7 DEF IInv

\* The end of apply on the first master.
LEMMA UploadStep == IInv /\ UploadConfig => IInv'
<1> SUFFICES ASSUME IInv, UploadConfig PROVE IInv'
  OBVIOUS
<1>1. /\ UNCHANGED <<i, ctx, target, packages, cp, missing, touched, disturbed, able, skipped>>
      /\ pc = "upload" /\ pc' = "cleanup" /\ cluster' = packages[i]
  BY DEF UploadConfig, Goes, history, asked
<1>2. /\ Numbered /\ i = 1 /\ cp[1] = target /\ packages[1] = target /\ i \notin missing
      /\ target \in Version /\ cp \in [Masters -> Version] /\ Version \subseteq Nat
  BY <1>1 DEF IInv, SoFar, TypeOK, Version
<1>3. TypeOK'
  BY <1>1, <1>2 DEF IInv, TypeOK, Working
<1>4. InOrder'
  BY <1>1 DEF IInv, InOrder
<1>5. Between'
  <2>1. \A a \in Masters \ {1} : cp[a] <= cp[1]
    <3> SUFFICES ASSUME NEW a \in Masters \ {1} PROVE cp[a] <= cp[1]
      OBVIOUS
    <3>1. 1 < a
      BY DEF Masters
    <3> QED
      BY <1>2, <3>1, FirstMaster DEF IInv, InOrder
  <2> QED
    BY <1>1, <1>2, <2>1 DEF Between
<1>6. SoFar'
  <2>1. \A a \in Masters : ~(a < i)
    BY <1>2 DEF Masters
  <2> QED
    BY <1>1, <1>2, <2>1 DEF SoFar, Passed, Ended
<1>7. StillAble' /\ Repeatable'
  <2>1. cluster' = target /\ packages[1] = target /\ ~Skips(target, target)
    BY <1>1, <1>2, NoSkip
  <2>2. ~TooFar(target) => ~TooFar(target)'
    BY <1>1, <2>1 DEF TooFar
  <2>3. Doable(target) => Doable(target)'
    BY <1>1, <2>2 DEF Doable
  <2> QED
    BY <1>1, <1>2, <2>1, <2>2, <2>3 DEF IInv, StillAble, Repeatable, Ended
<1> QED
  BY <1>3, <1>4, <1>5, <1>6, <1>7 DEF IInv

\* The end of an iteration.
LEMMA CleanupStep == IInv /\ Cleanup => IInv'
<1> SUFFICES ASSUME IInv, Cleanup PROVE IInv'
  OBVIOUS
<1>1. /\ UNCHANGED <<ctx, target, packages, cp, cluster, missing, touched, disturbed, able,
                     skipped>>
      /\ pc = "cleanup"
      /\ \/ i < MasterCount /\ pc' = "wait" /\ i' = i + 1
         \/ ~(i < MasterCount) /\ pc' = "ok" /\ i' = i
  BY DEF Cleanup, versions, history, asked
<1>2. /\ i \in Masters /\ Passed(i) /\ (Numbered => cluster = target)
      /\ \A a \in Masters : a < i => Passed(a)
  BY <1>1 DEF IInv, TypeOK, SoFar, Ended
<1>3. TypeOK'
  <2>1. i' \in Masters
    BY <1>1, <1>2, MastersAssumption DEF Masters
  <2> QED
    BY <1>1, <2>1 DEF IInv, TypeOK, Ended
<1>4. InOrder' /\ Between'
  BY <1>1, OrderKept DEF versions
<1>5. SoFar'
  <2>1. \A a \in Masters : a <= i => Passed(a)'
    BY <1>1, <1>2, FirstMaster DEF Passed
  <2>2. CASE i < MasterCount
    <3>1. \A a \in Masters : a < i' => Passed(a)'
      BY <1>1, <1>2, <2>1, <2>2 DEF Masters
    <3> QED
      BY <1>1, <1>2, <2>2, <3>1 DEF SoFar, Ended
  <2>3. CASE ~(i < MasterCount)
    <3>1. \A a \in Masters : Passed(a)'
      BY <1>2, <2>1, <2>3, MastersAssumption DEF Masters
    <3> QED
      BY <1>1, <1>2, <2>3, <3>1 DEF SoFar, Ended
  <2> QED
    BY <2>2, <2>3
<1>6. StillAble' /\ (~skipped' => Doable(packages[1])')
  BY <1>1, AbleKept DEF Ended
<1>7. Repeatable'
  BY <1>1, <1>6 DEF Repeatable
<1> QED
  BY <1>3, <1>4, <1>5, <1>6, <1>7 DEF IInv

\* The next run.
LEMMA StartStep == IInv /\ UpgradeControlPlane => IInv'
<1> SUFFICES ASSUME IInv, UpgradeControlPlane PROVE IInv'
  OBVIOUS
<1>1. /\ pc' = "wait" /\ i' = 1 /\ ctx' = "live" /\ target' \in Version
      /\ missing' \subseteq Masters /\ disturbed' = FALSE
      /\ able' = (missing' = {} /\ Doable(target')) /\ skipped' = (skipped \/ TooFar(target'))
      /\ UNCHANGED <<packages, cp, cluster, touched>>
  BY DEF UpgradeControlPlane, versions, IInv, TypeOK
<1>2. TypeOK'
  BY <1>1, FirstMaster DEF IInv, TypeOK
<1>3. InOrder' /\ Between'
  BY <1>1, OrderKept DEF versions
<1>4. SoFar'
  BY <1>1 DEF SoFar, Ended, Masters
<1>5. StillAble' /\ Repeatable'
  BY <1>1 DEF IInv, StillAble, Repeatable, Doable, TooFar
<1> QED
  BY <1>2, <1>3, <1>4, <1>5 DEF IInv

\* Every step keeps the invariant.
LEMMA InvNext == IInv /\ [Next]_vars => IInv'
<1> SUFFICES ASSUME IInv, [Next]_vars PROVE IInv'
  OBVIOUS
<1>1. CASE UNCHANGED vars
  BY <1>1 DEF vars, tool, versions, history, asked, IInv, TypeOK, InOrder, Between, SoFar,
      Passed, StillAble, Repeatable, Doable, TooFar
<1>2. CASE Next
  BY <1>2, WaitStep, InstallStep, KubeadmStep, RefusesStep, UploadStep, CleanupStep, StartStep
  DEF Next, Run
<1> QED
  BY <1>1, <1>2

\* No step lowers a version.
LEMMA StepNeverDown ==
  IInv /\ IInv' /\ [Next]_vars =>
    [/\ cluster' >= cluster
     /\ \A a \in Masters : packages'[a] >= packages[a] /\ cp'[a] >= cp[a]]_vars
<1> SUFFICES ASSUME IInv, Next
             PROVE  /\ cluster' >= cluster
                    /\ \A a \in Masters : packages'[a] >= packages[a] /\ cp'[a] >= cp[a]
  OBVIOUS
<1>1. /\ i \in Masters /\ packages \in [Masters -> Version] /\ cp \in [Masters -> Version]
      /\ cluster \in Version /\ target \in Version /\ Version \subseteq Nat
  BY DEF IInv, TypeOK, Version
<1>a. cluster \in Nat /\ \A a \in Masters : packages[a] \in Nat /\ cp[a] \in Nat
  BY <1>1
<1>2. CASE UNCHANGED versions
  BY <1>a, <1>2 DEF versions
<1>3. CASE Install
  <2>1. UNCHANGED <<cp, cluster>>
    BY <1>3 DEF Install
  <2>2. \A a \in Masters : packages'[a] >= packages[a]
    <3>1. CASE packages[i] <= target
      <4>1. packages' = [packages EXCEPT ![i] = target]
        BY <1>3, <3>1 DEF Install
      <4>2. packages'[i] = target /\ \A a \in Masters \ {i} : packages'[a] = packages[a]
        BY <1>1, <4>1
      <4> QED
        BY <1>1, <1>a, <3>1, <4>2
    <3>2. CASE ~(packages[i] <= target)
      BY <1>a, <1>3, <3>2 DEF Install
    <3> QED
      BY <3>1, <3>2
  <2> QED
    BY <1>a, <2>1, <2>2
<1>4. CASE Kubeadm
  <2>1. UNCHANGED <<packages, cluster>> /\ pc = "kubeadm"
    BY <1>4 DEF Kubeadm, Goes
  <2>2. (IF IsFirst THEN packages[i] ELSE cluster) >= cp[i]
    BY <1>1, FirstMaster DEF IInv, InOrder, Between, IsFirst
  <2>3. cp' = [cp EXCEPT ![i] = IF IsFirst THEN packages[i] ELSE cluster]
    BY <1>4 DEF Kubeadm
  <2>4. cp'[i] >= cp[i] /\ \A a \in Masters \ {i} : cp'[a] = cp[a]
    BY <1>1, <2>2, <2>3
  <2> QED
    BY <1>1, <1>a, <2>1, <2>4
<1>5. CASE UploadConfig
  <2>1. UNCHANGED <<packages, cp>> /\ i = 1 /\ cluster' = packages[1]
    BY <1>5 DEF UploadConfig, Goes, IInv, SoFar
  <2>2. packages[1] >= cp[1] /\ cp[1] >= cluster
    BY <1>1, FirstMaster DEF IInv, InOrder, Between
  <2> QED
    BY <1>a, <2>1, <2>2, FirstMaster
<1> QED
  BY <1>2, <1>3, <1>4, <1>5
  DEF Next, Run, WaitForServer, DownloadNewScripts, InstallHere, KubeadmRefuses, Cleanup, Fail,
      Interrupt, UpgradeControlPlane

-----------------------------------------------------------------------------
(* Theorems *)

\* The versions are at every step as the place of the run says.
THEOREM Invariant == Spec => []IInv
BY InvInit, InvNext, PTL DEF Spec

\* The variables of the run and the versions keep their types.
THEOREM TypeCorrect == Spec => []TypeOK
<1>1. IInv => TypeOK
  BY DEF IInv
<1> QED
  BY <1>1, Invariant, PTL

\* No series of runs brings a master ahead of one before it.
THEOREM OrderTheorem == Spec => []InOrder
<1>1. IInv => InOrder
  BY DEF IInv
<1> QED
  BY <1>1, Invariant, PTL

\* "Cluster upgraded!" is true when the host names are numbered.
THEOREM UpgradedTheorem == Spec => []Upgraded
<1>1. IInv => Upgraded
  <2> SUFFICES ASSUME IInv, pc = "ok", Numbered
               PROVE  /\ missing = {} /\ cluster = target
                      /\ \A a \in Masters : cp[a] = target /\ packages[a] = target
    BY DEF Upgraded
  <2> QED
    BY DEF IInv, SoFar, Passed, TypeOK
<1> QED
  BY <1>1, Invariant, PTL

\* A run that can be done fails only when it is disturbed, and unless a minor
\* release was to be skipped there always is one that can.
THEOREM RepeatableTheorem == Spec => []Repeatable
<1>1. IInv => Repeatable
  BY DEF IInv
<1> QED
  BY <1>1, Invariant, PTL

\* No run lowers a version.
THEOREM NeverDownTheorem == Spec => NeverDown
BY Invariant, StepNeverDown, PTL DEF Spec, NeverDown
-----------------------------------------------------------------------------
(* A bound on the work of a run *)

\* The steps for one master, from this one on.
StepRank == [wait |-> 6, download |-> 5, install |-> 4, kubeadm |-> 3, upload |-> 2,
             cleanup |-> 1]

\* A bound on the steps the run can still make.
Work == IF pc \in Ended THEN 0 ELSE 6 * (MasterCount - i) + StepRank[pc]

\* Every step of a run is one less to make; nobody else makes it more, but for
\* the start of another run.
WorkFalls ==
    [][/\ Run => Work' < Work
       /\ ~UpgradeControlPlane => Work' <= Work]_vars

\* The ranks, spelled out.
LEMMA StepRankFacts ==
    /\ StepRank["wait"] = 6 /\ StepRank["download"] = 5 /\ StepRank["install"] = 4
    /\ StepRank["kubeadm"] = 3 /\ StepRank["upload"] = 2 /\ StepRank["cleanup"] = 1
BY DEF StepRank

\* The bound is a natural number.
LEMMA WorkType == TypeOK => Work \in 0..(6 * MasterCount) /\ (Work = 0 <=> pc \in Ended)
<1> SUFFICES ASSUME TypeOK PROVE Work \in 0..(6 * MasterCount) /\ (Work = 0 <=> pc \in Ended)
  OBVIOUS
<1>1. i \in 1..MasterCount /\ MasterCount \in Nat
  BY MastersAssumption DEF TypeOK, Masters
<1>2. pc \notin Ended => StepRank[pc] \in 1..6
  BY StepRankFacts DEF TypeOK, Working
<1> QED
  BY <1>1, <1>2 DEF Work

\* Every step of a run brings it nearer to its end: the loop over the masters
\* never goes back to one, and never stays with one.
LEMMA WorkStep == ASSUME TypeOK, TypeOK', Run PROVE Work' < Work
<1>1. i \in 1..MasterCount /\ i' \in 1..MasterCount /\ MasterCount \in Nat
  BY MastersAssumption DEF TypeOK, Masters
<1>2. pc \notin Ended
  BY DEF Run, WaitForServer, DownloadNewScripts, Install, InstallHere, Kubeadm,
         KubeadmRefuses, UploadConfig, Cleanup, Fail, Goes, Working, Ended
<1>3. CASE pc' \in Ended
  <2>1. Work \in Nat /\ Work # 0 /\ Work' = 0
    BY <1>2, <1>3, WorkType DEF Work
  <2> QED
    BY <2>1
<1>4. CASE Cleanup /\ pc' \notin Ended
  <2>1. pc = "cleanup" /\ pc' = "wait" /\ i' = i + 1
    BY <1>4 DEF Cleanup, Ended
  <2>2. Work = 6 * (MasterCount - i) + 1 /\ Work' = 6 * (MasterCount - (i + 1)) + 6
    BY <2>1, StepRankFacts DEF Work, Ended
  <2> QED
    BY <2>2, <1>1
<1>5. CASE ~Cleanup /\ pc' \notin Ended
  <2>1. /\ UNCHANGED i
        /\ <<pc, pc'>> \in {<<"wait", "download">>, <<"download", "install">>,
              <<"install", "kubeadm">>, <<"kubeadm", "upload">>, <<"kubeadm", "cleanup">>,
              <<"upload", "cleanup">>}
    BY <1>5
    DEF Run, WaitForServer, DownloadNewScripts, Install, InstallHere, Kubeadm,
        KubeadmRefuses, UploadConfig, Fail, Goes, Ended
  <2>2. StepRank[pc'] \in Nat /\ StepRank[pc] \in Nat /\ StepRank[pc'] < StepRank[pc]
    BY <2>1, StepRankFacts
  <2>3. /\ Work = 6 * (MasterCount - i) + StepRank[pc]
        /\ Work' = 6 * (MasterCount - i) + StepRank[pc']
    BY <1>2, <1>5, <2>1 DEF Work
  <2> QED
    BY <2>2, <2>3, <1>1
<1> QED
  BY <1>3, <1>4, <1>5

\* A run makes no more than six steps for each master, whatever fails: the
\* safety half of RunEnds.
THEOREM WorkTheorem ==
  Spec => /\ [](Work \in 0..(6 * MasterCount) /\ (Work = 0 <=> pc \in Ended))
          /\ WorkFalls
<1>1. TypeOK => Work \in Nat
  BY WorkType, MastersAssumption
<1>2. TypeOK /\ TypeOK' /\ [Next]_vars =>
        [(Run => Work' < Work) /\ (~UpgradeControlPlane => Work' <= Work)]_vars
  <2> SUFFICES ASSUME TypeOK, TypeOK', Next
               PROVE  (Run => Work' < Work) /\ (~UpgradeControlPlane => Work' <= Work)
    OBVIOUS
  <2>1. Work \in Nat
    BY WorkType, MastersAssumption
  <2>2. (Work \in Nat)'
    BY <1>1, PTL
  <2>3. CASE Interrupt
    <3>1. UNCHANGED <<pc, i>> /\ pc \notin Ended
      BY <2>3 DEF Interrupt
    <3>2. Work' = Work
      BY <3>1 DEF Work
    <3>3. ~Run
      BY <2>3
      DEF Interrupt, Run, WaitForServer, DownloadNewScripts, Install, InstallHere, Kubeadm,
          KubeadmRefuses, UploadConfig, Cleanup, Fail, Goes, Working
    <3> QED
      BY <2>1, <3>2, <3>3
  <2>4. CASE UpgradeControlPlane
    BY <2>4, WorkStep
  <2>5. CASE Run
    BY <2>1, <2>2, <2>5, WorkStep
  <2> QED
    BY <2>3, <2>4, <2>5 DEF Next
<1> QED
  BY <1>2, WorkType, TypeCorrect, PTL DEF Spec, WorkFalls
=============================================================================
