----------------------------- MODULE Bootstrap -----------------------------
(***************************************************************************)
(* The second half of NewCluster (pkg/api/api.go): Kubernetes on servers   *)
(* that exist.  initFirstMasterNode, joinToMasterNodes for each other      *)
(* master and postInstall are three loops of the same form,                *)
(*                                                                         *)
(*     top: context? limit? retryCount++                                   *)
(*     waitForServer  -> top when it fails                                 *)
(*     execCommand    -> top when it fails                                 *)
(*                                                                         *)
(* and act on the servers over ssh.  A server goes through the stages of   *)
(* scripts/common-install.sh: run by init-master.sh on the first master,   *)
(* by cloud-init, concurrently with the tool, on the others.               *)
(*                                                                         *)
(* A command over ssh may fail at any point of the script, or succeed and  *)
(* have its answer lost; both may happen any number of times.              *)
(***************************************************************************)
EXTENDS Naturals, FiniteSets

CONSTANTS
    MasterCount,    \* config.MasterCount
    RetryTimeLimit  \* config.MasterServers.RetryTimeLimit

ASSUME MastersAssumption == MasterCount \in Nat \ {0}
ASSUME LimitAssumption == RetryTimeLimit \in Nat

VARIABLES
    loop,        \* the function NewCluster is in: "init", "join" or "post"
    pc,          \* where in its loop; how the command ended
    m,           \* the master it works on
    retryCount,
    user,        \* api.sshRootUser: "root" or the configured "ubuntu"
    ctx,         \* "live" or "cancelled"
    stage,       \* of common-install.sh on each master
    kube,        \* kubeadm on each master: "none", "partial" or "member"
    inits,       \* history: times kubeadm init was started
    tries        \* history: attempts of each master's join loop

toolVars == <<loop, pc, m, retryCount, user>>
serverVars == <<stage, kube>>
history == <<inits, tries>>
vars == <<toolVars, ctx, serverVars, history>>

Masters == 1..MasterCount

\* Stages of common-install.sh.
Fresh == 0      \* root may log in, the user does not exist
Hardened == 1   \* the user may log in, root may not
Installed == 2  \* kubeadm is there, the services are stopped and started
Ready == 3      \* the services run for good

Ended == {"created", "failed"}

LoginOk(s) == (user = "root") <=> (stage[s] = Fresh)

-----------------------------------------------------------------------------
(* The loops *)

\* Mutant: the loop over the other masters runs once too often.
GoOnAfterOnceMore(n) ==
    /\ IF n <= MasterCount THEN loop' = "join" /\ m' = n + 1
       ELSE loop' = "post" /\ m' = 1
    /\ pc' = "top"
    /\ retryCount' = 0

\* The next loop after initFirstMasterNode, or after the join of master n.
GoOnAfter(n) ==
    /\ IF n < MasterCount THEN loop' = "join" /\ m' = n + 1
       ELSE loop' = "post" /\ m' = 1
    /\ pc' = "top"
    /\ retryCount' = 0

\* Mutant: NewCluster logs the error of initFirstMasterNode, too.
LeaveLogged ==
    \/ loop = "init" /\ GoOnAfter(1) /\ UNCHANGED user
    \/ loop = "join" /\ GoOnAfter(m) /\ UNCHANGED user
    \/ loop = "post" /\ pc' = "failed" /\ UNCHANGED <<loop, m, retryCount, user>>

\* A loop returns an error: NewCluster gives up, but only logs that of a join.
Leave ==
    \/ loop = "join" /\ GoOnAfter(m) /\ UNCHANGED user
    \/ loop # "join" /\ pc' = "failed" /\ UNCHANGED <<loop, m, retryCount, user>>

Retry == pc' = "top" /\ UNCHANGED <<loop, m, retryCount, user>>

Counted ==
    tries' = IF loop = "join" THEN [tries EXCEPT ![m] = @ + 1] ELSE tries

\* Mutant: the count is compared and never incremented.
TopUncounted ==
    /\ pc = "top"
    /\ IF ctx = "cancelled" \/ retryCount > RetryTimeLimit
       THEN Leave /\ UNCHANGED tries
       ELSE pc' = "wait" /\ UNCHANGED <<loop, m, user, retryCount, tries>>
    /\ UNCHANGED <<ctx, serverVars, inits>>

\* Mutant: one attempt too few.
TopEager ==
    /\ pc = "top"
    /\ IF ctx = "cancelled" \/ retryCount >= RetryTimeLimit
       THEN Leave /\ UNCHANGED tries
       ELSE /\ retryCount' = retryCount + 1
            /\ pc' = "wait"
            /\ Counted
            /\ UNCHANGED <<loop, m, user>>
    /\ UNCHANGED <<ctx, serverVars, inits>>

Top ==
    /\ pc = "top"
    /\ IF ctx = "cancelled" \/ retryCount > RetryTimeLimit
       THEN Leave /\ UNCHANGED tries
       ELSE /\ retryCount' = retryCount + 1
            /\ pc' = "wait"
            /\ Counted
            /\ UNCHANGED <<loop, m, user>>
    /\ UNCHANGED <<ctx, serverVars, inits>>

\* waitForServer: the server is found, which a cancelled context prevents, and
\* "date" runs on it.
WaitForServer ==
    /\ pc = "wait"
    /\ \/ /\ ctx = "live"
          /\ LoginOk(m)
          /\ pc' = IF loop = "init" THEN "balancer" ELSE "exec"
          /\ UNCHANGED <<loop, m, retryCount, user>>
       \/ Retry
    /\ UNCHANGED <<ctx, serverVars, history>>

WaitForLoadBalancer ==
    /\ pc = "balancer"
    /\ \/ /\ ctx = "live"
          /\ pc' = "exec"
          /\ UNCHANGED <<loop, m, retryCount, user>>
       \/ Retry
    /\ UNCHANGED <<ctx, serverVars, history>>

-----------------------------------------------------------------------------
(* init-master.sh on the first master *)

Outcomes == {"none", "partial", "member"}

\* Mutant: root is locked out only at the end, after kubeadm init.
InitScriptLateLock ==
    \E reached \in {Fresh, Ready}, started \in {0, 1}, k \in Outcomes :
        /\ k = kube[1] \/ (started = 1 /\ kube[1] = "none")
        /\ stage' = [stage EXCEPT ![1] = reached]
        /\ kube' = [kube EXCEPT ![1] = k]
        /\ inits' = inits + started

\* The script stops somewhere: in common-install.sh, which never goes back,
\* in kubeadm init (which changes nothing on a node that is set up), or later.
InitScript ==
    \E reached \in stage[1]..Ready, started \in {0, 1}, k \in Outcomes :
        /\ started = 1 => reached = Ready
        /\ k = kube[1] \/ (started = 1 /\ kube[1] = "none")
        /\ stage' = [stage EXCEPT ![1] = reached]
        /\ kube' = [kube EXCEPT ![1] = k]
        /\ inits' = inits + started

ExecInitFails ==
    /\ loop = "init"
    /\ pc = "exec"
    /\ IF LoginOk(1) THEN InitScript ELSE UNCHANGED <<serverVars, inits>>
    /\ Retry
    /\ UNCHANGED <<ctx, tries>>

\* Mutant: sshRootUser stays root after the installation.
ExecInitStillRoot ==
    /\ loop = "init"
    /\ pc = "exec"
    /\ LoginOk(1)
    /\ kube[1] = "none"
    /\ InitScript
    /\ inits' > inits
    /\ kube'[1] = "member"
    /\ pc' = "joincommand"
    /\ UNCHANGED <<ctx, loop, m, retryCount, tries, user>>

ExecInit ==
    /\ loop = "init"
    /\ pc = "exec"
    /\ LoginOk(1)
    /\ kube[1] = "none"
    /\ InitScript
    /\ inits' > inits
    /\ kube'[1] = "member"
    /\ user' = "ubuntu"
    /\ pc' = "joincommand"
    /\ UNCHANGED <<ctx, loop, m, retryCount, tries>>

\* cat join-master.sh, cat admin.conf: a failure is log.Fatal.
ReadJoinCommand ==
    /\ pc = "joincommand"
    /\ LoginOk(1)
    /\ pc' = "kubeconfig"
    /\ UNCHANGED <<ctx, loop, m, retryCount, user, serverVars, history>>

ReadKubeconfig ==
    /\ pc = "kubeconfig"
    /\ LoginOk(1)
    /\ GoOnAfter(1)
    /\ UNCHANGED <<ctx, user, serverVars, history>>

\* The scripts whose failure ends the process.
Fatal ==
    /\ \/ pc \in {"joincommand", "kubeconfig", "onemaster"}
       \/ pc = "exec" /\ loop = "post"
    /\ pc' = "failed"
    /\ UNCHANGED <<ctx, loop, m, retryCount, user, serverVars, history>>

-----------------------------------------------------------------------------
(* join-master.sh on another master *)

Joinable == LoginOk(m) /\ stage[m] >= Installed /\ kube[m] = "none"

ExecJoin ==
    /\ loop = "join"
    /\ pc = "exec"
    /\ Joinable
    /\ kube' = [kube EXCEPT ![m] = "member"]
    /\ GoOnAfter(m)
    /\ UNCHANGED <<ctx, user, stage, history>>

\* Mutant: a failed command ends the loop.
ExecJoinFailsOnce ==
    /\ loop = "join"
    /\ pc = "exec"
    /\ GoOnAfter(m)
    /\ UNCHANGED <<ctx, user, serverVars, history>>

\* kubeadm join is not idempotent: what it left behind makes the next one fail.
ExecJoinFails ==
    /\ loop = "join"
    /\ pc = "exec"
    /\ \/ UNCHANGED kube
       \/ Joinable /\ \E k \in {"partial", "member"} : kube' = [kube EXCEPT ![m] = k]
    /\ Retry
    /\ UNCHANGED <<ctx, stage, history>>

-----------------------------------------------------------------------------
(* post-install.sh and one-master-mode.sh on the first master *)

ExecPostInstall ==
    /\ loop = "post"
    /\ pc = "exec"
    /\ LoginOk(1)
    /\ pc' = IF MasterCount = 1 THEN "onemaster" ELSE "created"
    /\ UNCHANGED <<ctx, loop, m, retryCount, user, serverVars, history>>

ExecOneMasterMode ==
    /\ pc = "onemaster"
    /\ LoginOk(1)
    /\ pc' = "created"
    /\ UNCHANGED <<ctx, loop, m, retryCount, user, serverVars, history>>

-----------------------------------------------------------------------------
(* Around the tool *)

\* cloud-init runs common-install.sh on the other masters; it may get stuck.
CloudInit(s) ==
    /\ s # 1
    /\ stage[s] < Ready
    /\ stage' = [stage EXCEPT ![s] = @ + 1]
    /\ UNCHANGED <<toolVars, ctx, kube, history>>

Interrupt ==
    /\ pc \notin Ended
    /\ ctx = "live"
    /\ ctx' = "cancelled"
    /\ UNCHANGED <<toolVars, serverVars, history>>

\* The signal handler ends the process five seconds later.
Exit ==
    /\ pc \notin Ended
    /\ ctx = "cancelled"
    /\ pc' = "failed"
    /\ UNCHANGED <<loop, m, retryCount, user, ctx, serverVars, history>>

-----------------------------------------------------------------------------
\* NewCluster calls initFirstMasterNode, which logs in as root; by then
\* cloud-init may have come some way.
Init ==
    /\ loop = "init"
    /\ pc = "top"
    /\ m = 1
    /\ retryCount = 0
    /\ user = "root"
    /\ ctx = "live"
    /\ stage \in [Masters -> Fresh..Ready]
    /\ stage[1] = Fresh
    /\ kube = [s \in Masters |-> "none"]
    /\ inits = 0
    /\ tries = [s \in Masters |-> 0]

Tool ==
    \/ Top
    \/ WaitForServer
    \/ WaitForLoadBalancer
    \/ ExecInit
    \/ ExecInitFails
    \/ ReadJoinCommand
    \/ ReadKubeconfig
    \/ Fatal
    \/ ExecJoin
    \/ ExecJoinFails
    \/ ExecPostInstall
    \/ ExecOneMasterMode

Next == Tool \/ Interrupt \/ Exit \/ \E s \in Masters : CloudInit(s)

Spec == Init /\ [][Next]_vars

\* Every call of the tool returns; nothing is asked of the servers, nor of
\* the signal handler.
FairSpec == Spec /\ WF_vars(Tool)

-----------------------------------------------------------------------------
(* Correctness *)

\* The variables keep their types; no loop makes more than RetryTimeLimit + 1
\* attempts, and the loop over the masters stays among them.
TypeOK ==
    /\ loop \in {"init", "join", "post"}
    /\ pc \in {"top", "wait", "balancer", "exec", "joincommand", "kubeconfig",
               "onemaster"} \cup Ended
    /\ m \in Masters
    /\ retryCount \in 0..(RetryTimeLimit + 1)
    /\ user \in {"root", "ubuntu"}
    /\ ctx \in {"live", "cancelled"}
    /\ stage \in [Masters -> Fresh..Ready]
    /\ kube \in [Masters -> {"none", "partial", "member"}]
    /\ inits \in Nat
    /\ tries \in [Masters -> 0..(RetryTimeLimit + 1)]

\* The retries of initFirstMasterNode never run kubeadm init a second time,
\* on a node the first run has half set up: root is locked out before it.
InitOnce == inits <= 1

\* Once the first master is set up, the tool knows the user it may log in as.
LoginMatches ==
    (loop # "init" \/ pc \in {"joincommand", "kubeconfig"}) => LoginOk(1)

\* "Cluster created!" is never said of a cluster without its first master,
\* and no other master is missing before all attempts to join it were made.
CreatedHonest ==
    pc = "created" =>
        /\ kube[1] = "member"
        /\ \A s \in Masters \ {1} :
              kube[s] = "member" \/ tries[s] = RetryTimeLimit + 1

\* The abstract promise, its liveness included.
Promise ==
    INSTANCE ClusterPromise
    WITH members <- {s \in Masters : kube[s] = "member"},
         status <- IF pc \in Ended THEN pc ELSE "running"

KeepsPromise == Promise!FairSpec
=============================================================================
