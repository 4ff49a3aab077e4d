-------------------------- MODULE BootstrapProofs --------------------------
(***************************************************************************)
(* Proofs about Bootstrap, for every number of masters and every retry     *)
(* limit: the invariants, and that Bootstrap implements the safety part of *)
(* ClusterPromise.                                                         *)
(*                                                                         *)
(* Three facts carry the argument.  Root is locked out before kubeadm init *)
(* starts, so the init loop, which logs in as root, cannot start it twice  *)
(* (LockedOut).  The user changes exactly when the first master is a       *)
(* member (UserChanged).  And a master is given up only when all attempts  *)
(* were made or the context is cancelled, which postInstall notices before *)
(* it does anything (JoinsTried).                                          *)
(***************************************************************************)
EXTENDS Bootstrap, TLAPS

\* Which steps belong to which loop.
PcOfLoop ==
    /\ loop = "init" => m = 1 /\ pc \notin {"onemaster", "created"}
    /\ loop = "join" => m > 1 /\ pc \in {"top", "wait", "exec", "failed"}
    /\ loop = "post" =>
          m = 1 /\ pc \in {"top", "wait", "exec", "onemaster", "created", "failed"}

LockedOut ==
    /\ inits <= 1
    /\ inits = 1 => stage[1] = Ready
    /\ inits = 0 => kube[1] = "none"

UserChanged ==
    /\ (loop = "init" /\ pc \in {"top", "wait", "balancer", "exec"}) => user = "root"
    /\ (loop # "init" \/ pc \in {"joincommand", "kubeconfig"}) => user = "ubuntu"
    /\ user = "ubuntu" => stage[1] = Ready /\ kube[1] = "member"

\* Only the first master can be a member before the first join.
NoneJoined == loop = "init" => \A s \in Masters \ {1} : kube[s] = "none"

Tried(s) == kube[s] = "member" \/ tries[s] = RetryTimeLimit + 1

\* The joins that are over.
Over(s) == s # 1 /\ (loop = "post" \/ (loop = "join" /\ s < m))

JoinsTried ==
    /\ loop = "join" => tries[m] = retryCount
    /\ \A s \in Masters : loop = "init" \/ (loop = "join" /\ s > m) => tries[s] = 0
    /\ \A s \in Masters : Over(s) => Tried(s) \/ ctx = "cancelled"
    /\ (loop = "post" /\ pc \in {"wait", "exec", "onemaster", "created"}) =>
          \A s \in Masters : Over(s) => Tried(s)

IInv ==
    /\ TypeOK
    /\ PcOfLoop
    /\ LockedOut
    /\ UserChanged
    /\ NoneJoined
    /\ JoinsTried

-----------------------------------------------------------------------------
(* The invariant *)

\* The tool starts on masters that are at most installed.
LEMMA InvInit == Init => IInv
BY MastersAssumption, LimitAssumption
DEF Init, IInv, TypeOK, PcOfLoop, LockedOut, UserChanged, NoneJoined, JoinsTried,
    Over, Masters, Ended, Fresh, Ready

\* The head of a loop: another attempt, or the next loop.
LEMMA TopStep == IInv /\ Top => IInv'
<1> SUFFICES ASSUME IInv, Top PROVE IInv'
  OBVIOUS
<1> USE MastersAssumption, LimitAssumption
<1>same. UNCHANGED <<ctx, stage, kube, inits, user>>
  BY DEF Top, Leave, serverVars, GoOnAfter
<1>keep. LockedOut' /\ (loop = "init" => m = 1)
  BY <1>same DEF IInv, LockedOut, PcOfLoop
<1>1. CASE ctx = "cancelled" \/ retryCount > RetryTimeLimit
  <2>1. Leave /\ UNCHANGED tries
    BY <1>1 DEF Top
  <2>2. CASE loop = "join"
    <3>1. GoOnAfter(m)
      BY <2>1, <2>2 DEF Leave
    <3>2. Tried(m) \/ ctx = "cancelled"
      BY <1>1, <2>2 DEF IInv, TypeOK, JoinsTried, Tried
    <3>a. /\ loop' \in {"join", "post"} /\ pc' = "top" /\ retryCount' = 0
          /\ m' \in Masters /\ (loop' = "join" => m' > 1) /\ (loop' = "post" => m' = 1)
      BY <2>2, <3>1 DEF GoOnAfter, IInv, TypeOK, Masters
    <3>b. TypeOK'
      BY <2>1, <3>a, <1>same DEF IInv, TypeOK
    <3>3. PcOfLoop' /\ UserChanged' /\ NoneJoined'
      BY <2>2, <3>a, <1>same DEF IInv, PcOfLoop, UserChanged, NoneJoined
    <3>4. \A s \in Masters : Over(s)' => Over(s) \/ s = m
      BY <2>2, <3>1 DEF GoOnAfter, Over, Masters, IInv, TypeOK
    <3>5. \A s \in Masters : Tried(s)' <=> Tried(s)
      BY <2>1, <1>same DEF Tried
    <3>6. loop' = "join" => tries[m'] = 0
      BY <2>2, <3>1 DEF GoOnAfter, IInv, TypeOK, JoinsTried, Masters
    <3>7. JoinsTried'
      BY <2>1, <2>2, <3>1, <3>2, <3>a, <3>4, <3>5, <3>6, <1>same
      DEF JoinsTried, GoOnAfter, IInv, TypeOK, Masters
    <3> QED
      BY <3>b, <3>3, <3>7, <1>keep DEF IInv
  <2>3. CASE loop # "join"
    BY <2>1, <2>3, <1>same, <1>keep
    DEF Leave, IInv, TypeOK, PcOfLoop, UserChanged, NoneJoined, JoinsTried, Over, Tried,
        Ended
  <2> QED
    BY <2>2, <2>3
<1>2. CASE ctx = "live" /\ retryCount <= RetryTimeLimit
  <2>1. /\ retryCount' = retryCount + 1 /\ pc = "top" /\ pc' = "wait"
        /\ Counted /\ UNCHANGED <<loop, m>>
    BY <1>2 DEF Top, IInv, TypeOK
  <2>2. \A s \in Masters : tries'[s] = IF loop = "join" /\ s = m THEN tries[s] + 1 ELSE tries[s]
    BY <2>1 DEF Counted, IInv, TypeOK
  <2>3. TypeOK'
    BY <1>2, <1>same, <2>1 DEF Counted, IInv, TypeOK, JoinsTried
  <2>4. PcOfLoop' /\ UserChanged' /\ NoneJoined'
    BY <2>1, <1>same DEF IInv, PcOfLoop, UserChanged, NoneJoined
  <2>5. \A s \in Masters : Over(s)' => Over(s) /\ (Tried(s) => Tried(s)')
    BY <2>1, <2>2, <1>same DEF Over, Tried, Masters, IInv, TypeOK
  <2>6. JoinsTried'
    <3>1. loop' = "join" => tries'[m'] = retryCount'
      BY <2>1, <2>2 DEF IInv, TypeOK, JoinsTried
    <3>2. \A s \in Masters : loop' = "init" \/ (loop' = "join" /\ s > m') => tries'[s] = 0
      BY <2>1, <2>2 DEF IInv, TypeOK, JoinsTried, Masters
    <3>3. \A s \in Masters : Over(s)' => Tried(s)'
      BY <1>2, <2>5 DEF IInv, JoinsTried
    <3> QED
      BY <3>1, <3>2, <3>3 DEF JoinsTried
  <2> QED
    BY <2>3, <2>4, <2>6, <1>keep DEF IInv
<1> QED
  BY <1>1, <1>2 DEF IInv, TypeOK

\* Waiting for a server or the load balancer changes nothing but pc.
LEMMA WaitStep == IInv /\ (WaitForServer \/ WaitForLoadBalancer) => IInv'
<1> SUFFICES ASSUME IInv, WaitForServer \/ WaitForLoadBalancer PROVE IInv'
  OBVIOUS
<1> QED
  BY DEF WaitForServer, WaitForLoadBalancer, Retry, serverVars, history, IInv, TypeOK,
      PcOfLoop, LockedOut, UserChanged, NoneJoined, JoinsTried, Over, Tried, Masters, Ended

\* One run of init-master.sh, answered or not.
LEMMA InitScriptStep == IInv /\ (ExecInit \/ ExecInitFails) => IInv'
<1> SUFFICES ASSUME IInv, ExecInit \/ ExecInitFails PROVE IInv'
  OBVIOUS
<1> USE MastersAssumption DEF Fresh, Ready
<1>1. /\ loop = "init" /\ pc = "exec" /\ user = "root"
      /\ UNCHANGED <<loop, m, retryCount, ctx, tries>>
      /\ 1 \in Masters
  BY DEF ExecInit, ExecInitFails, Retry, IInv, UserChanged, Masters
<1>2. CASE LoginOk(1) /\ InitScript
  <2>1. stage[1] = 0 /\ inits = 0 /\ kube[1] = "none"
    BY <1>1, <1>2 DEF LoginOk, IInv, TypeOK, LockedOut
  <2>2. PICK reached \in 0..3, started \in {0, 1}, k \in Outcomes :
          /\ started = 1 => reached = 3
          /\ started = 0 => k = "none"
          /\ stage' = [stage EXCEPT ![1] = reached]
          /\ kube' = [kube EXCEPT ![1] = k]
          /\ inits' = started
    <3>1. PICK reached \in 0..3, started \in {0, 1}, k \in Outcomes :
            /\ started = 1 => reached = 3
            /\ k = kube[1] \/ (started = 1 /\ kube[1] = "none")
            /\ stage' = [stage EXCEPT ![1] = reached]
            /\ kube' = [kube EXCEPT ![1] = k]
            /\ inits' = inits + started
      BY <1>2, <2>1 DEF InitScript
    <3>2. inits' = started
      BY <2>1, <3>1
    <3>3. started = 0 => k = "none"
      BY <2>1, <3>1
    <3> QED
      BY <3>1, <3>2, <3>3, Zenon
  <2>3. /\ stage' \in [Masters -> 0..3] /\ stage'[1] = reached
        /\ kube' \in [Masters -> {"none", "partial", "member"}] /\ kube'[1] = k
        /\ \A s \in Masters \ {1} : kube'[s] = kube[s]
    BY <1>1, <2>2 DEF IInv, TypeOK, Outcomes
  <2>4. LockedOut' /\ NoneJoined'
    BY <1>1, <2>2, <2>3 DEF IInv, LockedOut, NoneJoined
  <2>5. UserChanged' /\ pc' \in {"top", "joincommand"} /\ user' \in {"root", "ubuntu"}
    BY <1>1, <2>2, <2>3 DEF ExecInit, ExecInitFails, Retry, UserChanged
  <2>6. TypeOK' /\ PcOfLoop'
    BY <1>1, <2>2, <2>3, <2>5 DEF IInv, TypeOK, PcOfLoop
  <2>7. JoinsTried'
    BY <1>1 DEF IInv, JoinsTried, Over
  <2> QED
    BY <2>4, <2>5, <2>6, <2>7 DEF IInv
<1>3. CASE ExecInitFails /\ ~LoginOk(1)
  BY <1>1, <1>3
  DEF ExecInitFails, Retry, serverVars, IInv, TypeOK, PcOfLoop, LockedOut, UserChanged,
      NoneJoined, JoinsTried, Over
<1> QED
  BY <1>2, <1>3 DEF ExecInit, ExecInitFails

\* The files read from the first master, and the way to the next loop.
LEMMA ReadStep == IInv /\ (ReadJoinCommand \/ ReadKubeconfig \/ Fatal) => IInv'
<1> SUFFICES ASSUME IInv, ReadJoinCommand \/ ReadKubeconfig \/ Fatal PROVE IInv'
  OBVIOUS
<1> QED
  BY MastersAssumption, LimitAssumption
  DEF ReadJoinCommand, ReadKubeconfig, Fatal, GoOnAfter, serverVars, history, IInv,
      TypeOK, PcOfLoop, LockedOut, UserChanged, NoneJoined, JoinsTried, Over, Tried,
      Masters, Ended

\* One run of the join command, answered or not.
LEMMA JoinStep == IInv /\ (ExecJoin \/ ExecJoinFails) => IInv'
<1> SUFFICES ASSUME IInv, ExecJoin \/ ExecJoinFails PROVE IInv'
  OBVIOUS
<1> USE MastersAssumption, LimitAssumption
<1>1. /\ loop = "join" /\ pc = "exec" /\ m > 1 /\ m \in Masters /\ 1 \in Masters
      /\ UNCHANGED <<ctx, user, stage, inits, tries>>
  BY DEF ExecJoin, ExecJoinFails, Retry, history, IInv, TypeOK, PcOfLoop, Masters
<1>2. /\ kube' \in [Masters -> {"none", "partial", "member"}]
      /\ \A s \in Masters \ {m} : kube'[s] = kube[s]
      /\ kube[m] = "member" => kube'[m] = "member"
      /\ ExecJoin => kube'[m] = "member"
  BY <1>1 DEF ExecJoin, ExecJoinFails, Joinable, IInv, TypeOK
<1>3. \A s \in Masters : Tried(s) => Tried(s)'
  BY <1>1, <1>2 DEF Tried
<1>4. LockedOut' /\ UNCHANGED <<kube[1]>>
  BY <1>1, <1>2 DEF IInv, LockedOut
<1>5. CASE ExecJoinFails
  <2>1. UNCHANGED <<loop, m, retryCount>> /\ pc' = "top"
    BY <1>5 DEF ExecJoinFails, Retry
  <2>2. TypeOK' /\ PcOfLoop' /\ UserChanged' /\ NoneJoined'
    BY <1>1, <1>2, <1>4, <2>1 DEF IInv, TypeOK, PcOfLoop, UserChanged, NoneJoined
  <2>3. JoinsTried'
    BY <1>1, <1>3, <2>1 DEF IInv, JoinsTried, Over
  <2> QED
    BY <1>4, <2>2, <2>3 DEF IInv
<1>6. CASE ExecJoin
  <2>1. GoOnAfter(m)
    BY <1>6 DEF ExecJoin
  <2>2. TypeOK' /\ PcOfLoop' /\ UserChanged' /\ NoneJoined'
    BY <1>1, <1>2, <1>4, <2>1
    DEF GoOnAfter, IInv, TypeOK, PcOfLoop, UserChanged, NoneJoined, Masters
  <2>3. \A s \in Masters : s = m => Tried(s)'
    BY <1>2, <1>6 DEF Tried
  <2>4. \A s \in Masters : Over(s)' => Over(s) \/ s = m
    BY <1>1, <2>1 DEF GoOnAfter, Over, Masters, IInv, TypeOK
  <2>5. loop' = "join" => tries'[m'] = 0 /\ retryCount' = 0
    BY <1>1, <2>1 DEF GoOnAfter, IInv, TypeOK, JoinsTried, Masters
  <2>6. \A s \in Masters : loop' = "join" /\ s > m' => tries'[s] = 0
    BY <1>1, <2>1 DEF GoOnAfter, IInv, TypeOK, JoinsTried, Masters
  <2>7. loop' # "init" /\ pc' = "top"
    BY <2>1 DEF GoOnAfter
  <2>8. JoinsTried'
    BY <1>1, <1>3, <2>3, <2>4, <2>5, <2>6, <2>7 DEF IInv, JoinsTried
  <2> QED
    BY <1>4, <2>2, <2>8 DEF IInv
<1> QED
  BY <1>5, <1>6

\* The scripts after the joins.
LEMMA PostStep == IInv /\ (ExecPostInstall \/ ExecOneMasterMode) => IInv'
<1> SUFFICES ASSUME IInv, ExecPostInstall \/ ExecOneMasterMode PROVE IInv'
  OBVIOUS
<1> QED
  BY DEF ExecPostInstall, ExecOneMasterMode, serverVars, history, IInv, TypeOK,
      PcOfLoop, LockedOut, UserChanged, NoneJoined, JoinsTried, Over, Tried, Masters, Ended

\* cloud-init on the other masters, and signals.
LEMMA AroundStep ==
    IInv /\ (Interrupt \/ Exit \/ \E s \in Masters : CloudInit(s)) => IInv'
<1> SUFFICES ASSUME IInv, Interrupt \/ Exit \/ \E s \in Masters : CloudInit(s)
             PROVE  IInv'
  OBVIOUS
<1>1. CASE Interrupt \/ Exit
  BY <1>1
  DEF Interrupt, Exit, toolVars, serverVars, history, IInv, TypeOK, PcOfLoop, LockedOut,
      UserChanged, NoneJoined, JoinsTried, Over, Tried, Ended
<1>2. CASE \E s \in Masters : CloudInit(s)
  <2>1. PICK s \in Masters : CloudInit(s)
    BY <1>2
  <2>2. /\ stage' \in [Masters -> Fresh..Ready] /\ stage'[1] = stage[1]
        /\ UNCHANGED <<loop, pc, m, retryCount, user, ctx, kube, inits, tries>>
    <3>1. 1 \in Masters /\ s # 1 /\ stage \in [Masters -> 0..3] /\ stage[s] < 3
      BY <2>1, MastersAssumption DEF CloudInit, IInv, TypeOK, Masters, Fresh, Ready
    <3>2. stage[s] + 1 \in 0..3
      BY <3>1
    <3> QED
      BY <2>1, <3>1, <3>2 DEF CloudInit, toolVars, history, Fresh, Ready
  <2> QED
    BY <2>2
    DEF IInv, TypeOK, PcOfLoop, LockedOut, UserChanged, NoneJoined, JoinsTried, Over, Tried
<1> QED
  BY <1>1, <1>2

\* The invariant is inductive.
LEMMA InvStep == IInv /\ [Next]_vars => IInv'
<1>1. IInv /\ UNCHANGED vars => IInv'
  BY DEF vars, toolVars, serverVars, history, IInv, TypeOK, PcOfLoop, LockedOut,
         UserChanged, NoneJoined, JoinsTried, Over, Tried, Masters
<1> QED
  BY <1>1, TopStep, WaitStep, InitScriptStep, ReadStep, JoinStep, PostStep, AroundStep
  DEF Next, Tool

\* At every step the loops, the servers and the history are as IInv says.
THEOREM Invariant == Spec => []IInv
BY InvInit, InvStep, PTL DEF Spec

-----------------------------------------------------------------------------
(* What follows from it *)

\* The variables keep their types, for any number of masters and any limit:
\* no loop makes more than RetryTimeLimit + 1 attempts.
THEOREM TypeCorrect == Spec => []TypeOK
<1>1. IInv => TypeOK
  BY DEF IInv
<1> QED
  BY <1>1, Invariant, PTL

\* However often initFirstMasterNode retries, kubeadm init is started at most
\* once: its own script has locked the user of the retries out before.
THEOREM InitOnceTheorem == Spec => []InitOnce
<1>1. IInv => InitOnce
  BY DEF IInv, LockedOut, InitOnce
<1> QED
  BY <1>1, Invariant, PTL

\* From the end of init-master.sh on, the tool logs in as the user that the
\* first master accepts.
THEOREM LoginTheorem == Spec => []LoginMatches
<1>1. IInv => LoginMatches
  BY DEF IInv, UserChanged, LoginMatches, LoginOk, Fresh, Ready
<1> QED
  BY <1>1, Invariant, PTL

\* A cluster reported as created has its first master, and every master it
\* lacks was given all its attempts, an interrupt notwithstanding.
THEOREM HonestTheorem == Spec => []CreatedHonest
<1>1. ASSUME IInv PROVE CreatedHonest
  <2> SUFFICES ASSUME pc = "created"
               PROVE  /\ kube[1] = "member"
                      /\ \A s \in Masters \ {1} : Tried(s)
    BY DEF CreatedHonest, Tried
  <2>1. loop = "post"
    BY <1>1 DEF IInv, TypeOK, PcOfLoop
  <2>2. kube[1] = "member"
    BY <1>1, <2>1 DEF IInv, UserChanged
  <2>3. \A s \in Masters \ {1} : Tried(s)
    BY <1>1, <2>1 DEF IInv, JoinsTried, Over
  <2> QED
    BY <2>2, <2>3
<1> QED
  BY <1>1, Invariant, PTL

-----------------------------------------------------------------------------
(* Bootstrap implements ClusterPromise *)

\* Abbreviations for the refinement mapping.
Joined == {s \in Masters : kube[s] = "member"}

Status == IF pc \in Ended THEN pc ELSE "running"

\* A step changes the members in one of three ways, and never once the command
\* has ended.
LEMMA JoinedSteps ==
    ASSUME IInv, Next
    PROVE  /\ pc \notin Ended \/ UNCHANGED <<kube, pc>>
           /\ \/ UNCHANGED Joined
              \/ Joined = {} /\ Joined' = {1}
              \/ 1 \in Joined /\ \E s \in Masters : s \notin Joined /\ Joined' = Joined \cup {s}
<1>1. CASE ExecInit \/ ExecInitFails
  <2>1. loop = "init" /\ pc = "exec" /\ 1 \in Masters
    BY <1>1, MastersAssumption DEF ExecInit, ExecInitFails, Masters
  <2>2. UNCHANGED kube \/ \E k \in Outcomes : kube[1] = "none" /\ kube' = [kube EXCEPT ![1] = k]
    <3>1. CASE InitScript
      <4>1. PICK k \in Outcomes : /\ k = kube[1] \/ kube[1] = "none"
                                  /\ kube' = [kube EXCEPT ![1] = k]
        BY <3>1 DEF InitScript
      <4>2. k = kube[1] => UNCHANGED kube
        BY <4>1 DEF IInv, TypeOK
      <4> QED
        BY <4>1, <4>2
    <3>2. CASE UNCHANGED serverVars
      BY <3>2 DEF serverVars
    <3> QED
      BY <1>1, <3>1, <3>2 DEF ExecInit, ExecInitFails, serverVars
  <2>3. UNCHANGED Joined \/ (Joined = {} /\ Joined' = {1})
    <3>1. CASE UNCHANGED kube
      BY <3>1 DEF Joined
    <3>2. CASE \E k \in Outcomes : kube[1] = "none" /\ kube' = [kube EXCEPT ![1] = k]
      <4>1. PICK k \in Outcomes : kube[1] = "none" /\ kube' = [kube EXCEPT ![1] = k]
        BY <3>2
      <4>2. \A s \in Masters : kube[s] # "member"
        BY <2>1, <4>1 DEF IInv, NoneJoined
      <4>3. \A s \in Masters : kube'[s] = "member" <=> (s = 1 /\ k = "member")
        BY <2>1, <4>1, <4>2 DEF IInv, TypeOK
      <4> QED
        BY <2>1, <4>2, <4>3 DEF Joined
    <3> QED
      BY <2>2, <3>1, <3>2
  <2> QED
    BY <2>1, <2>3 DEF Ended
<1>2. CASE ExecJoin \/ ExecJoinFails
  <2>1. /\ loop = "join" /\ pc = "exec" /\ m \in Masters /\ m # 1 /\ 1 \in Masters
        /\ kube[1] = "member"
    BY <1>2, MastersAssumption
    DEF ExecJoin, ExecJoinFails, IInv, TypeOK, PcOfLoop, UserChanged, Masters
  <2>2. UNCHANGED kube \/ \E k \in Outcomes : kube[m] = "none" /\ kube' = [kube EXCEPT ![m] = k]
    BY <1>2 DEF ExecJoin, ExecJoinFails, Joinable, Outcomes
  <2>3. UNCHANGED Joined \/ (m \notin Joined /\ Joined' = Joined \cup {m})
    <3>1. CASE UNCHANGED kube
      BY <3>1 DEF Joined
    <3>2. CASE \E k \in Outcomes : kube[m] = "none" /\ kube' = [kube EXCEPT ![m] = k]
      <4>1. PICK k \in Outcomes : kube[m] = "none" /\ kube' = [kube EXCEPT ![m] = k]
        BY <3>2
      <4>2. \A s \in Masters :
              kube'[s] = "member" <=> (kube[s] = "member" \/ (s = m /\ k = "member"))
        BY <2>1, <4>1 DEF IInv, TypeOK
      <4> QED
        BY <2>1, <4>1, <4>2 DEF Joined
    <3> QED
      BY <2>2, <3>1, <3>2
  <2>4. 1 \in Joined
    BY <2>1 DEF Joined
  <2> QED
    BY <2>1, <2>3, <2>4 DEF Ended
<1>3. CASE UNCHANGED kube /\ (pc \notin Ended \/ UNCHANGED pc)
  BY <1>3 DEF Joined
<1>4. \/ ExecInit \/ ExecInitFails \/ ExecJoin \/ ExecJoinFails
      \/ UNCHANGED kube /\ (pc \notin Ended \/ UNCHANGED pc)
  BY DEF Next, Tool, Top, WaitForServer, WaitForLoadBalancer, ReadJoinCommand,
         ReadKubeconfig, Fatal, ExecPostInstall, ExecOneMasterMode, Interrupt, Exit,
         CloudInit, serverVars, toolVars, history, Ended
<1> QED
  BY <1>1, <1>2, <1>3, <1>4

\* Every step of the three loops is a step of the promise: members enter one
\* at a time after the first, none leaves, and no good report comes too early.
THEOREM Refinement == Spec => Promise!Spec
<1>1. Init => Promise!Init
  BY DEF Init, Promise!Init, Ended
<1>2. IInv /\ IInv' /\ [Next]_vars => [Promise!Next]_(Promise!vars)
  <2> SUFFICES ASSUME IInv, IInv', Next
               PROVE  Promise!Next \/ UNCHANGED <<Joined, Status>>
    BY DEF Promise!vars, vars, toolVars, serverVars, Joined, Status
  <2>1. CASE UNCHANGED <<kube, pc>>
    BY <2>1 DEF Joined, Status
  <2>2. CASE pc \notin Ended
    <3>1. Status = "running"
      BY <2>2 DEF Status
    <3>2. pc' = "created" => 1 \in Joined'
      BY MastersAssumption
      DEF IInv, TypeOK, PcOfLoop, UserChanged, Joined, Masters
    <3>3. Status' \in {"running", "failed", "created"} /\ (Status' = "created" => pc' = "created")
      BY DEF Status, Ended
    <3>4. \/ Joined = {} /\ Joined' = {1}
          \/ \E s \in Masters : 1 \in Joined /\ s \notin Joined /\ Joined' = Joined \cup {s}
          \/ UNCHANGED Joined
      BY JoinedSteps
    <3>5. CASE Status' = "created"
      <4>1. pc' = "created" /\ 1 \in Joined'
        BY <3>2, <3>3, <3>5
      <4>2. 1 \in Joined
        <5>1. ExecPostInstall \/ ExecOneMasterMode
          BY <2>2, <4>1
          DEF Next, Tool, Top, Leave, GoOnAfter, Retry, WaitForServer, WaitForLoadBalancer,
              ExecInit, ExecInitFails, ReadJoinCommand, ReadKubeconfig, Fatal, ExecJoin,
              ExecJoinFails, Interrupt, Exit, CloudInit, toolVars, Ended
        <5>2. loop = "post"
          BY <5>1 DEF ExecPostInstall, ExecOneMasterMode, IInv, TypeOK, PcOfLoop
        <5> QED
          BY <5>2, MastersAssumption DEF IInv, UserChanged, Joined, Masters
      <4> QED
        BY <3>1, <3>4, <3>5, <4>2
        DEF Promise!Next, Promise!Found, Promise!Enter, Joined, Status
    <3>6. CASE Status' # "created"
      BY <3>1, <3>3, <3>4, <3>6
      DEF Promise!Next, Promise!Found, Promise!Enter, Joined, Status
    <3> QED
      BY <3>5, <3>6
  <2> QED
    BY <2>1, <2>2, JoinedSteps
<1> QED
  BY <1>1, <1>2, Invariant, PTL DEF Spec, Promise!Spec
-----------------------------------------------------------------------------
(* A bound on the work *)

\* The loops still to be gone through, this one included.
LoopsLeft == IF loop = "post" THEN 1 ELSE MasterCount + 2 - m

\* The steps of one attempt after this one, in the order of the longest loop.
StepRank == [top |-> 0, kubeconfig |-> 1, joincommand |-> 2, onemaster |-> 2,
             exec |-> 3, balancer |-> 4, wait |-> 5]

InLoop == 6 * (RetryTimeLimit + 1 - retryCount) + StepRank[pc]

PerLoop == 6 * RetryTimeLimit + 12

\* A bound on the steps the tool can still make.
Work == IF pc \in Ended THEN 0 ELSE (LoopsLeft - 1) * PerLoop + InLoop + 1

\* Every step of the tool is one less to make; nobody else makes it more.
WorkFalls == [][Work' <= Work /\ (Tool => Work' < Work)]_vars

\* The ranks, spelled out.
LEMMA StepRankFacts ==
    /\ StepRank["top"] = 0 /\ StepRank["wait"] = 5 /\ StepRank["balancer"] = 4
    /\ StepRank["exec"] = 3 /\ StepRank["joincommand"] = 2
    /\ StepRank["kubeconfig"] = 1 /\ StepRank["onemaster"] = 2
BY DEF StepRank

\* What the parts of the bound are.
LEMMA WorkParts ==
    ASSUME IInv, pc \notin Ended
    PROVE  /\ InLoop \in Nat /\ InLoop + 1 <= PerLoop
           /\ LoopsLeft \in 1..(MasterCount + 1)
           /\ PerLoop \in Nat
           /\ StepRank[pc] \in 0..5
<1>1. StepRank[pc] \in 0..5
  BY StepRankFacts DEF IInv, TypeOK, Ended
<1>2. retryCount \in 0..(RetryTimeLimit + 1) /\ RetryTimeLimit \in Nat
  BY LimitAssumption DEF IInv, TypeOK
<1>3. LoopsLeft \in 1..(MasterCount + 1)
  BY MastersAssumption DEF IInv, TypeOK, LoopsLeft, Masters
<1> QED
  BY <1>1, <1>2, <1>3 DEF InLoop, PerLoop

\* Multiplying out.
LEMMA OneLoopMore == ASSUME NEW n \in Nat, NEW c \in Nat
                     PROVE  (n + 1) * c = n * c + c /\ n * c \in Nat
OBVIOUS

\* The bound is a natural number, from the first step to the last.
LEMMA WorkType ==
    ASSUME IInv
    PROVE  /\ Work \in 0..((MasterCount + 1) * PerLoop)
           /\ Work = 0 <=> pc \in Ended
<1> DEFINE n == LoopsLeft - 1
           c == PerLoop
<1>a. PerLoop \in Nat /\ MasterCount \in Nat
  BY LimitAssumption, MastersAssumption DEF PerLoop
<1>1. CASE pc \in Ended
  <2>1. (MasterCount + 1) * c \in Nat
    BY <1>a, OneLoopMore
  <2> QED
    BY <1>1, <2>1 DEF Work
<1>2. CASE pc \notin Ended
  <2>1. /\ InLoop \in Nat /\ InLoop + 1 <= c /\ n \in 0..MasterCount /\ c \in Nat
    BY <1>2, <1>a, WorkParts
  <2>2. n * c \in Nat /\ Work = n * c + InLoop + 1
    BY <1>2, <2>1, OneLoopMore DEF Work
  <2>3. ASSUME NEW x \in Nat, NEW y \in Nat, NEW z \in Nat, x <= y
        PROVE  x * z <= y * z /\ x * z \in Nat /\ y * z \in Nat
    BY <2>3
  <2>4. n * c <= MasterCount * c /\ MasterCount * c \in Nat
    BY <1>a, <2>1, <2>3
  <2>5. (MasterCount + 1) * c = MasterCount * c + c
    BY <1>a, OneLoopMore
  <2> QED
    BY <1>2, <2>1, <2>2, <2>4, <2>5
<1> QED
  BY <1>1, <1>2

\* Within a loop an attempt costs more than all the steps it is made of,
LEMMA WorkInLoop ==
    ASSUME IInv, IInv', pc \notin Ended, pc' \notin Ended, UNCHANGED <<loop, m>>,
           \/ UNCHANGED retryCount /\ StepRank[pc'] < StepRank[pc]
           \/ pc = "top" /\ retryCount' = retryCount + 1
    PROVE  Work' < Work
<1>1. InLoop' < InLoop
  <2>1. StepRank[pc] \in 0..5 /\ StepRank[pc'] \in 0..5
    BY WorkParts, StepRankFacts DEF IInv, TypeOK, Ended
  <2>2. retryCount \in Nat /\ retryCount' \in Nat /\ RetryTimeLimit \in Nat
    BY LimitAssumption DEF IInv, TypeOK
  <2> QED
    BY <2>1, <2>2, StepRankFacts DEF InLoop
<1>2. UNCHANGED <<LoopsLeft, PerLoop>>
  BY DEF LoopsLeft, PerLoop
<1>3. (LoopsLeft - 1) * PerLoop \in Nat
  BY WorkParts, OneLoopMore
<1>4. InLoop \in Nat /\ InLoop' \in Nat
  <2>1. InLoop \in Nat
    BY WorkParts
  <2>2. StepRank[pc'] \in 0..5 /\ retryCount' \in 0..(RetryTimeLimit + 1)
    BY StepRankFacts DEF IInv, TypeOK, Ended
  <2> QED
    BY <2>1, <2>2, LimitAssumption DEF InLoop
<1> QED
  BY <1>1, <1>2, <1>3, <1>4 DEF Work

\* a loop more than all its attempts,
LEMMA WorkNextLoop ==
    ASSUME IInv, pc \notin Ended, loop # "post", GoOnAfter(m)
    PROVE  Work' < Work
<1> USE MastersAssumption, LimitAssumption
<1>1. m \in Masters /\ RetryTimeLimit \in Nat
  BY DEF IInv, TypeOK
<1>2. LoopsLeft' = LoopsLeft - 1
  BY <1>1 DEF GoOnAfter, LoopsLeft, Masters
<1>3. pc' = "top" /\ retryCount' = 0
  BY DEF GoOnAfter
<1>4. InLoop' = 6 * RetryTimeLimit + 6 /\ PerLoop' = PerLoop /\ pc' \notin Ended
  BY <1>1, <1>3, StepRankFacts DEF InLoop, PerLoop, Ended
<1>5. LoopsLeft \in Nat /\ LoopsLeft - 2 \in Nat /\ PerLoop \in Nat /\ InLoop \in Nat
  <2>1. LoopsLeft >= 2
    BY <1>1 DEF LoopsLeft, Masters
  <2> QED
    BY <2>1, WorkParts
<1>6. (LoopsLeft - 1) * PerLoop = (LoopsLeft - 2) * PerLoop + PerLoop
      /\ (LoopsLeft - 2) * PerLoop \in Nat
  <2> DEFINE n == LoopsLeft - 2
  <2>1. n \in Nat /\ n + 1 = LoopsLeft - 1
    BY <1>5
  <2>2. (n + 1) * PerLoop = n * PerLoop + PerLoop /\ n * PerLoop \in Nat
    BY <2>1, <1>5, OneLoopMore
  <2> QED
    BY <2>1, <2>2
<1>7. Work = (LoopsLeft - 2) * PerLoop + PerLoop + InLoop + 1
  BY <1>6 DEF Work
<1>8. Work' = (LoopsLeft - 2) * PerLoop + 6 * RetryTimeLimit + 7
  <2>1. LoopsLeft' - 1 = LoopsLeft - 2
    BY <1>2, <1>5
  <2>2. Work' = (LoopsLeft' - 1) * PerLoop' + InLoop' + 1
    BY <1>4 DEF Work
  <2> QED
    BY <2>1, <2>2, <1>1, <1>4, <1>6
<1> QED
  BY <1>1, <1>5, <1>6, <1>7, <1>8 DEF PerLoop

\* and the end is less than anything.
LEMMA WorkEnds ==
    ASSUME IInv, pc \notin Ended, pc' \in Ended PROVE Work' < Work
<1>1. Work' = 0
  BY DEF Work
<1>2. Work \in Nat /\ Work # 0
  BY WorkType
<1> QED
  BY <1>1, <1>2

\* Every step of the tool falls under one of the three.
LEMMA WorkStep == ASSUME IInv, IInv', Tool PROVE Work' < Work
<1>1. CASE Top
  <2>1. CASE Leave
    <3>1. pc = "top" /\ pc \notin Ended
      BY <1>1 DEF Top, Ended
    <3> QED
      BY <2>1, <3>1, WorkNextLoop, WorkEnds DEF Leave, Ended
  <2>2. CASE ~Leave
    BY <1>1, <2>2, WorkInLoop DEF Top, Ended
  <2> QED
    BY <2>1, <2>2
<1>2. CASE WaitForServer \/ WaitForLoadBalancer
  <2>1. /\ pc \in {"wait", "balancer"} /\ pc' \in {"top", "balancer", "exec"}
        /\ pc = "balancer" => pc' # "balancer"
        /\ UNCHANGED <<loop, m, retryCount>>
    BY <1>2 DEF WaitForServer, WaitForLoadBalancer, Retry
  <2> QED
    BY <2>1, WorkInLoop, StepRankFacts DEF Ended
<1>3. CASE ExecInit \/ ExecInitFails \/ ExecJoinFails \/ ReadJoinCommand
  <2>1. /\ \/ pc = "exec" /\ pc' \in {"top", "joincommand"}
           \/ pc = "joincommand" /\ pc' = "kubeconfig"
        /\ UNCHANGED <<loop, m, retryCount>>
    BY <1>3 DEF ExecInit, ExecInitFails, ExecJoinFails, ReadJoinCommand, Retry
  <2> QED
    BY <2>1, WorkInLoop, StepRankFacts DEF Ended
<1>4. CASE ReadKubeconfig \/ ExecJoin
  <2>1. GoOnAfter(m) /\ loop # "post" /\ pc \notin Ended
    BY <1>4 DEF ReadKubeconfig, ExecJoin, IInv, PcOfLoop, TypeOK, Ended
  <2> QED
    BY <2>1, WorkNextLoop
<1>5. CASE Fatal \/ ExecOneMasterMode \/ (ExecPostInstall /\ pc' = "created")
  <2>1. pc \notin Ended /\ pc' \in Ended
    BY <1>5 DEF Fatal, ExecOneMasterMode, ExecPostInstall, Ended
  <2> QED
    BY <2>1, WorkEnds
<1>6. CASE ExecPostInstall /\ pc' # "created"
  <2>1. pc = "exec" /\ pc' = "onemaster" /\ UNCHANGED <<loop, m, retryCount>>
    BY <1>6 DEF ExecPostInstall
  <2> QED
    BY <2>1, WorkInLoop, StepRankFacts DEF Ended
<1> QED
  BY <1>1, <1>2, <1>3, <1>4, <1>5, <1>6 DEF Tool

\* Signals and cloud-init do not give the tool more to do.
LEMMA WorkAround ==
    ASSUME IInv, Interrupt \/ Exit \/ \E s \in Masters : CloudInit(s)
    PROVE  Work' <= Work
<1>1. CASE Exit
  <2>1. Work' = 0 /\ Work \in Nat
    BY <1>1, WorkType DEF Exit, Work, Ended
  <2> QED
    BY <2>1
<1>2. CASE Interrupt \/ \E s \in Masters : CloudInit(s)
  <2>1. UNCHANGED <<loop, pc, m, retryCount>>
    BY <1>2 DEF Interrupt, CloudInit, toolVars
  <2>2. Work' = Work /\ Work \in Nat
    BY <2>1, WorkType DEF Work, LoopsLeft, InLoop, PerLoop
  <2> QED
    BY <2>2
<1> QED
  BY <1>1, <1>2

\* The three loops end: whatever the servers answer, the tool makes no more
\* than (MasterCount + 1) * (6 * RetryTimeLimit + 12) steps.  It is the safety
\* half of the end that KeepsPromise promises.
THEOREM WorkTheorem ==
    Spec => /\ [](Work \in 0..((MasterCount + 1) * PerLoop) /\ (Work = 0 <=> pc \in Ended))
            /\ WorkFalls
<1>0. IInv => Work \in Nat
  BY WorkType
<1>1. IInv => Work \in 0..((MasterCount + 1) * PerLoop) /\ (Work = 0 <=> pc \in Ended)
  BY WorkType
<1>2. IInv /\ IInv' /\ [Next]_vars => [Work' <= Work /\ (Tool => Work' < Work)]_vars
  <2> SUFFICES ASSUME IInv, IInv', Next PROVE Work' <= Work /\ (Tool => Work' < Work)
    OBVIOUS
  <2>1. Work \in Nat
    BY WorkType
  <2>2. (Work \in Nat)'
    BY <1>0, PTL
  <2> QED
    BY <2>1, <2>2, WorkStep, WorkAround DEF Next
<1> QED
  BY <1>1, <1>2, Invariant, PTL DEF Spec, WorkFalls
=============================================================================
