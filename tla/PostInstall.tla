---------------------------- MODULE PostInstall ----------------------------
(***************************************************************************)
(* postInstall and PatchClusterDeployment of pkg/api/api.go, run as often  *)
(* as the operator likes, with scripts/post-install.sh command by command. *)
(*                                                                         *)
(* The script revokes all bootstrap tokens, makes one for the workers,     *)
(* puts it into the configmap hcloud-init, and restarts the autoscaler,    *)
(* which reads the configmap only when its pod starts.  Controllers start  *)
(* and stop the pod in their own time.  The script may stop between any    *)
(* two commands: one fails, the connection goes, the tool is interrupted.  *)
(*                                                                         *)
(* The first run belongs to the create command, the others to              *)
(* patch-cluster.  The first master exists; Upgrade has the case that it   *)
(* does not.                                                               *)
(***************************************************************************)
EXTENDS Naturals, FiniteSets

CONSTANTS
    Token,          \* names of bootstrap tokens; one that is gone may come again
    NoToken,
    RetryTimeLimit, \* config.MasterServers.RetryTimeLimit
    OneMaster       \* config.MasterCount is 1

ASSUME NoTokenAssumption == NoToken \notin Token
ASSUME LimitAssumption == RetryTimeLimit \in Nat
ASSUME OneMasterAssumption == OneMaster \in BOOLEAN

VARIABLES
    pc,             \* where the run is, in the tool or in the script
    retryCount,
    ctx,            \* "live" or "cancelled"
    copyNewScripts,
    tokens,         \* the tokens that are valid
    join,           \* the token in cloud-init.sh
    config,         \* the token in the configmap hcloud-init, if it is there
    deploy,         \* the deployment of the autoscaler: "absent", "off", "on"
    pod,            \* the token its running pod has, if there is one
    disturbed,      \* history: something outside of this run went wrong
    excused         \* history: this run could not stop the old pod in time

tool == <<pc, retryCount, ctx, copyNewScripts>>
cluster == <<tokens, config, deploy, pod>>
history == <<disturbed, excused>>
vars == <<tool, cluster, join, history>>

Holder == Token \cup {NoToken}

Loop == {"top", "wait", "copy"}
Script == {"prepare", "revoke", "token", "unset", "set", "scale", "helm", "patch"}
Ended == {"ok", "failed"}

-----------------------------------------------------------------------------
(* The loop *)

\* Mutant: the limit is tested with the count of the attempt to come.
TopLate ==
    /\ pc = "top"
    /\ IF ctx = "cancelled" \/ retryCount > RetryTimeLimit + 1
       THEN pc' = "failed" /\ UNCHANGED retryCount
       ELSE pc' = "wait" /\ retryCount' = retryCount + 1
    /\ UNCHANGED <<ctx, copyNewScripts, cluster, join, history>>

\* Mutant: the attempts are not counted.
TopUncounted ==
    /\ pc = "top"
    /\ IF ctx = "cancelled" \/ retryCount > RetryTimeLimit
       THEN pc' = "failed" /\ UNCHANGED retryCount
       ELSE pc' = "wait" /\ UNCHANGED retryCount
    /\ UNCHANGED <<ctx, copyNewScripts, cluster, join, history>>

Top ==
    /\ pc = "top"
    /\ IF ctx = "cancelled" \/ retryCount > RetryTimeLimit
       THEN pc' = "failed" /\ UNCHANGED retryCount
       ELSE pc' = "wait" /\ retryCount' = retryCount + 1
    /\ UNCHANGED <<ctx, copyNewScripts, cluster, join, history>>

WaitForServer ==
    /\ pc = "wait"
    /\ \/ /\ ctx = "live"
          /\ pc' = IF copyNewScripts THEN "copy" ELSE "prepare"
          /\ UNCHANGED disturbed
       \/ pc' = "top" /\ disturbed' = TRUE
    /\ UNCHANGED <<retryCount, ctx, copyNewScripts, cluster, join, excused>>

CopyScripts ==
    /\ pc = "copy"
    /\ pc' = "prepare"
    /\ UNCHANGED <<retryCount, ctx, copyNewScripts, cluster, join, history>>

-----------------------------------------------------------------------------
(* post-install.sh *)

Goes(from, to) ==
    /\ pc = from
    /\ pc' = to
    /\ UNCHANGED <<retryCount, ctx, copyNewScripts>>

Prepare == Goes("prepare", "revoke") /\ UNCHANGED <<cluster, join, history>>

\* xargs runs "kubeadm token delete" once even without a token to delete, and
\* then it fails for want of an argument.
Revoke ==
    /\ Goes("revoke", IF tokens = {} THEN "failed" ELSE "token")
    /\ tokens' = {}
    /\ UNCHANGED <<config, deploy, pod, join, history>>

\* The token of the workers never expires.
CreateToken ==
    /\ Goes("token", "unset")
    /\ join' \in Token \ (tokens \cup {config, pod, join})
    /\ tokens' = tokens \cup {join'}
    /\ UNCHANGED <<config, deploy, pod, history>>

\* Mutant: without "|| true" a first run has nothing to delete, and fails.
UnsetConfigStrict ==
    /\ Goes("unset", IF config = NoToken THEN "failed" ELSE "set")
    /\ config' = NoToken
    /\ UNCHANGED <<tokens, deploy, pod, join, history>>

\* An error of the deletion is ignored.
UnsetConfig ==
    /\ Goes("unset", "set")
    /\ \/ config' = NoToken /\ UNCHANGED disturbed
       \/ config' = config /\ disturbed' = TRUE
    /\ UNCHANGED <<tokens, deploy, pod, join, excused>>

\* Mutant: "|| true" here, too, and a configmap that is still there stays.
SetConfigKept ==
    /\ Goes("set", "scale")
    /\ config' = IF config = NoToken THEN join ELSE config
    /\ UNCHANGED <<tokens, deploy, pod, join, history>>

\* There must be none.
SetConfig ==
    /\ Goes("set", IF config = NoToken THEN "scale" ELSE "failed")
    /\ config' = IF config = NoToken THEN join ELSE config
    /\ UNCHANGED <<tokens, deploy, pod, join, history>>

\* Mutant: the old autoscaler is left to run.
ScaleNothing == Goes("scale", "helm") /\ UNCHANGED <<cluster, join, history>>

\* kubectl does not wait for the pod to stop; an error is ignored, which is
\* meant for a first run without a deployment.
Scale ==
    /\ Goes("scale", "helm")
    /\ \/ /\ deploy' = IF deploy = "absent" THEN "absent" ELSE "off"
          /\ UNCHANGED history
       \/ UNCHANGED deploy /\ disturbed' = TRUE /\ excused' = TRUE
    /\ UNCHANGED <<tokens, config, pod, join>>

\* A pod that is not stopped by now stays.
Helm ==
    /\ Goes("helm", "patch")
    /\ deploy' = "on"
    /\ excused' = (excused \/ (deploy = "off" /\ pod # NoToken))
    /\ UNCHANGED <<tokens, config, pod, join, disturbed>>

\* Mutant: the number of masters is not looked at.
PatchAlike == Goes("patch", "ok") /\ UNCHANGED <<cluster, join, history>>

\* The last commands of the script; with one master one-master-mode.sh, which
\* scales every deployment to one.
Patch ==
    /\ Goes("patch", IF OneMaster THEN "onemaster" ELSE "ok")
    /\ UNCHANGED <<cluster, join, history>>

OneMasterMode ==
    /\ Goes("onemaster", "ok")
    /\ deploy' = "on"
    /\ UNCHANGED <<tokens, config, pod, join, history>>

\* Mutant: without set -e the script goes on after a command that failed.
FailGoesOn ==
    /\ pc \in {"copy", "onemaster"} \cup Script
    /\ IF pc = "token" THEN pc' = "unset" ELSE pc' = "failed"
    /\ disturbed' = TRUE
    /\ UNCHANGED <<retryCount, ctx, copyNewScripts, cluster, join, excused>>

\* The scripts are not copied, or a command fails without effect (set -e), or
\* the connection is lost or the process ends: log.Fatal in every case.  Some
\* of the tokens may be revoked.
Fail ==
    /\ pc \in {"copy", "onemaster"} \cup Script
    /\ pc' = "failed"
    /\ tokens' \in IF pc = "revoke" THEN SUBSET tokens ELSE {tokens}
    /\ disturbed' = TRUE
    /\ UNCHANGED <<retryCount, ctx, copyNewScripts, config, deploy, pod, join, excused>>

-----------------------------------------------------------------------------
(* Around the run *)

\* patch-cluster, again.
PatchCluster ==
    /\ pc \in Ended
    /\ pc' = "top"
    /\ retryCount' = 0
    /\ ctx' = "live"
    /\ copyNewScripts' = TRUE
    /\ disturbed' = FALSE
    /\ excused' = FALSE
    /\ UNCHANGED <<cluster, join>>

\* A signal; the process ends five seconds later, if it has not by then.
Interrupt ==
    /\ pc \notin Ended
    /\ ctx = "live"
    /\ ctx' = "cancelled"
    /\ disturbed' = TRUE
    /\ UNCHANGED <<pc, retryCount, copyNewScripts, cluster, join, excused>>

Exit ==
    /\ pc \in Loop
    /\ ctx = "cancelled"
    /\ pc' = "failed"
    /\ UNCHANGED <<retryCount, ctx, copyNewScripts, cluster, join, history>>

\* Tokens of "kubeadm init" and of the masters' joins last 24 hours, longer
\* than a run.
Expire ==
    /\ pc \in Ended
    /\ \E t \in tokens \ {join} : tokens' = tokens \ {t}
    /\ UNCHANGED <<tool, config, deploy, pod, join, history>>

PodStarts ==
    /\ deploy = "on"
    /\ pod = NoToken
    /\ config # NoToken
    /\ pod' = config
    /\ UNCHANGED <<tool, tokens, config, deploy, join, history>>

\* The deployment is scaled to zero, or the pod is evicted, or it crashes.
PodStops ==
    /\ pod # NoToken
    /\ pod' = NoToken
    /\ UNCHANGED <<tool, tokens, config, deploy, join, history>>

-----------------------------------------------------------------------------
Init ==
    /\ pc = "top"
    /\ retryCount = 0
    /\ ctx = "live"
    /\ copyNewScripts = FALSE
    /\ tokens \in SUBSET Token \ {{}}
    /\ join = NoToken
    /\ config = NoToken
    /\ deploy = "absent"
    /\ pod = NoToken
    /\ disturbed = FALSE
    /\ excused = FALSE

Run ==
    \/ Top
    \/ WaitForServer
    \/ CopyScripts
    \/ Prepare
    \/ Revoke
    \/ CreateToken
    \/ UnsetConfig
    \/ SetConfig
    \/ Scale
    \/ Helm
    \/ Patch
    \/ OneMasterMode
    \/ Fail

Around == PatchCluster \/ Interrupt \/ Exit \/ Expire \/ PodStarts \/ PodStops

Next == Run \/ Around

Spec == Init /\ [][Next]_vars

\* Every call of a run returns; Kubernetes starts the pods it is asked for.
FairSpec == Spec /\ WF_vars(Run) /\ WF_vars(PodStarts)

-----------------------------------------------------------------------------
(* Correctness *)

TypeOK ==
    /\ pc \in Loop \cup Script \cup {"onemaster"} \cup Ended
    /\ retryCount \in 0..RetryTimeLimit + 1
    /\ ctx \in {"live", "cancelled"}
    /\ copyNewScripts \in BOOLEAN
    /\ tokens \subseteq Token
    /\ join \in Holder
    /\ config \in Holder
    /\ deploy \in {"absent", "off", "on"}
    /\ pod \in Holder
    /\ disturbed \in BOOLEAN
    /\ excused \in BOOLEAN

\* After a run that succeeded the workers' configuration has the one token
\* that is valid: no earlier one is left to join with, whatever became of the
\* runs before.
OneToken == pc = "ok" => config # NoToken /\ tokens = {config}

\* After a run that succeeded the autoscaler does not start servers that can
\* never join, unless its old pod could not be stopped before helm scaled the
\* deployment up again.
AutoscalerCurrent ==
    (pc = "ok" /\ ~excused) => pod = NoToken \/ pod \in tokens

\* A run fails only when something outside of it went wrong, or when there
\* was no token left to revoke.
FailsForAReason == pc = "failed" => disturbed \/ tokens = {}

\* Every run ends.
RunEnds == (pc \notin Ended) ~> (pc \in Ended)

\* After a run that succeeded, and with no other begun, the autoscaler comes
\* back with a token the workers can join with.
AutoscalerComesBack ==
    (pc = "ok" /\ ~excused) ~> ((pod # NoToken /\ pod \in tokens) \/ pc # "ok")

-----------------------------------------------------------------------------
(* What the README says.                                                   *)

\* README.md, "Patch already created cluster": the command does it for a
\* cluster that has its workers' configuration, when nothing disturbs it.
PatchWorks == (pc = "failed" /\ config # NoToken) => disturbed
=============================================================================
