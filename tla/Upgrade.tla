------------------------------ MODULE Upgrade ------------------------------
(***************************************************************************)
(* UpgradeControlPlane of pkg/api/api.go, run as often as the operator     *)
(* likes and towards any version, with scripts/upgrade-controlplane.sh on  *)
(* one master after the other:                                             *)
(*                                                                         *)
(*     waitForServer -> downloadNewScripts -> common-install.sh            *)
(*       -> kubeadm upgrade (apply on the first master, node elsewhere)    *)
(*                                                                         *)
(* Every error is log.Fatal and leaves the rest as it is.  A master may    *)
(* have been deleted.  waitForServer does not notice: it wraps a nil error *)
(* and returns an empty address, and the tool dials the machine it runs    *)
(* on.  That machine may let it in.                                        *)
(***************************************************************************)
EXTENDS Naturals

CONSTANTS
    MasterCount,  \* config.MasterCount
    MaxVersion,   \* versions are 1..MaxVersion
    NewMinor,     \* the versions that begin a minor release of Kubernetes
    LocalLogin,   \* whether the operator's machine takes the key of the tool
    Numbered      \* the host names of the masters end in "-" and the number

ASSUME MastersAssumption == MasterCount \in Nat \ {0}
ASSUME VersionAssumption == MaxVersion \in Nat \ {0}
ASSUME MinorAssumption == NewMinor \subseteq 1..MaxVersion
ASSUME HostsAssumption == LocalLogin \in BOOLEAN /\ Numbered \in BOOLEAN

VARIABLES
    pc,         \* where the run is
    i,          \* the master it works on
    ctx,        \* "live" or "cancelled"
    target,     \* serverComponents.kubernetes.version of this run
    packages,   \* kubelet, kubeadm and kubectl on each master
    cp,         \* the static pods on each master
    cluster,    \* kubernetesVersion in the cluster's kubeadm configuration
    missing,    \* masters that were deleted
    touched,    \* history: the scripts were loaded on the operator's machine
    disturbed,  \* history: something outside of this run went wrong
    able,       \* history: when this run began it could be done
    skipped     \* history: some run was to go more than one minor release further

tool == <<pc, i, ctx, target>>
versions == <<packages, cp, cluster>>
asked == <<able, skipped>>
history == <<touched, disturbed, asked>>
vars == <<tool, versions, missing, history>>

Masters == 1..MasterCount
Version == 1..MaxVersion

Working == {"download", "install", "kubeadm", "upload", "cleanup"}
Ended == {"ok", "failed"}

\* upgrade-controlplane.sh tells the first master by the end of its host name.
IsFirst == Numbered /\ i = 1

Goes(from, to) ==
    /\ pc = from
    /\ pc' = to
    /\ UNCHANGED <<ctx, target>>

-----------------------------------------------------------------------------
(* The loop over the masters *)

\* waitForServer: a read, which fails on a cancelled context, and "date" on the
\* master.  For a master that is not there it returns before "date", with a nil
\* error and an empty address.
WaitForServer ==
    /\ \/ ctx = "live" /\ Goes("wait", "download") /\ UNCHANGED disturbed
       \/ Goes("wait", "failed") /\ disturbed' = TRUE
    /\ UNCHANGED <<i, versions, missing, touched, asked>>

\* commonExecCommand: "cd /root; rm -rf *", then the scripts; on the master, or
\* on the operator's machine if it lets the tool in.
DownloadNewScripts ==
    /\ \/ /\ i \in missing => LocalLogin
          /\ Goes("download", "install")
          /\ touched' = (touched \/ i \in missing)
       \/ i \in missing /\ Goes("download", "failed") /\ UNCHANGED touched
    /\ UNCHANGED <<i, versions, missing, disturbed, asked>>

\* Mutant: the versions must differ.
InstallStrict ==
    /\ i \notin missing
    /\ Goes("install", IF packages[i] < target THEN "kubeadm" ELSE "failed")
    /\ packages' = IF packages[i] < target THEN [packages EXCEPT ![i] = target] ELSE packages
    /\ UNCHANGED <<i, cp, cluster, missing, history>>

\* Mutant: apt-get with --allow-downgrades.
InstallDowngrades ==
    /\ i \notin missing
    /\ Goes("install", "kubeadm")
    /\ packages' = [packages EXCEPT ![i] = target]
    /\ UNCHANGED <<i, cp, cluster, missing, history>>

\* common-install.sh; apt-get refuses to downgrade.
Install ==
    /\ i \notin missing
    /\ Goes("install", IF packages[i] <= target THEN "kubeadm" ELSE "failed")
    /\ packages' = IF packages[i] <= target THEN [packages EXCEPT ![i] = target] ELSE packages
    /\ UNCHANGED <<i, cp, cluster, missing, history>>

\* kubeadm has no cluster to upgrade on the operator's machine.
InstallHere ==
    /\ i \in missing
    /\ Goes("install", "failed")
    /\ UNCHANGED <<i, versions, missing, history>>

\* Two minor releases begin between the versions.
Skips(from, to) == \E u \in NewMinor, v \in NewMinor : from < u /\ u < v /\ v <= to

\* Mutant: the branches are swapped, apply runs on the other masters.
KubeadmSwapped ==
    /\ Goes("kubeadm", IF IsFirst THEN "cleanup" ELSE "upload")
    /\ cp' = [cp EXCEPT ![i] = IF IsFirst THEN cluster ELSE packages[i]]
    /\ UNCHANGED <<i, packages, cluster, missing, history>>

\* kubeadm does not skip a minor release, -f or not.  It compares its version
\* with that of the cluster's configuration; apply also with that of the API
\* server that answers behind the load balancer.
Allows(v) == ~Skips(v, packages[i])

\* apply goes to the version of kubeadm, node to the version of the cluster.
Kubeadm ==
    /\ Allows(cluster)
    /\ IsFirst => \E a \in Masters \ missing : Allows(cp[a])
    /\ Goes("kubeadm", IF IsFirst THEN "upload" ELSE "cleanup")
    /\ cp' = [cp EXCEPT ![i] = IF IsFirst THEN packages[i] ELSE cluster]
    /\ UNCHANGED <<i, packages, cluster, missing, history>>

\* By now the packages are those of the target.
KubeadmRefuses ==
    /\ \/ ~Allows(cluster)
       \/ IsFirst /\ \E a \in Masters \ missing : ~Allows(cp[a])
    /\ Goes("kubeadm", "failed")
    /\ UNCHANGED <<i, versions, missing, history>>

\* The end of apply.
UploadConfig ==
    /\ Goes("upload", "cleanup")
    /\ cluster' = packages[i]
    /\ UNCHANGED <<i, packages, cp, missing, history>>

\* Mutant: the loop runs once too often.
CleanupOnceMore ==
    /\ pc = "cleanup"
    /\ IF i <= MasterCount
       THEN pc' = "wait" /\ i' = i + 1
       ELSE pc' = "ok" /\ UNCHANGED i
    /\ UNCHANGED <<ctx, target, versions, missing, history>>

\* Mutant: the loop stays with its master.
CleanupStays ==
    /\ pc = "cleanup"
    /\ pc' = IF i < MasterCount THEN "wait" ELSE "ok"
    /\ UNCHANGED <<i, ctx, target, versions, missing, history>>

\* The end of the script, and of an iteration.
Cleanup ==
    /\ pc = "cleanup"
    /\ IF i < MasterCount
       THEN pc' = "wait" /\ i' = i + 1
       ELSE pc' = "ok" /\ UNCHANGED i
    /\ UNCHANGED <<ctx, target, versions, missing, history>>

\* Mutant: the error of a master is logged and the loop goes on.
FailGoesOn ==
    /\ pc \in Working
    /\ IF i < MasterCount
       THEN pc' = "wait" /\ i' = i + 1
       ELSE pc' = "failed" /\ UNCHANGED i
    /\ disturbed' = TRUE
    /\ UNCHANGED <<ctx, target, versions, missing, touched, asked>>

\* A command fails without effect, the connection is lost or the process ends.
Fail ==
    /\ pc \in Working
    /\ pc' = "failed"
    /\ disturbed' = TRUE
    /\ UNCHANGED <<i, ctx, target, versions, missing, touched, asked>>

-----------------------------------------------------------------------------
(* Around the run *)

\* kubeadm may refuse to go to version t.
TooFar(t) == Skips(cluster, t) \/ \E a \in Masters : Skips(cp[a], t)

\* Nor would apt-get.
Doable(t) == ~TooFar(t) /\ \A a \in Masters : packages[a] <= t

\* The operator sets a version and starts the command; masters may have been
\* deleted since the last run.
UpgradeControlPlane ==
    /\ pc \in Ended
    /\ pc' = "wait"
    /\ i' = 1
    /\ ctx' = "live"
    /\ target' \in Version
    /\ \E gone \in SUBSET Masters : missing' = missing \cup gone
    /\ disturbed' = FALSE
    /\ able' = (missing' = {} /\ Doable(target'))
    /\ skipped' = (skipped \/ TooFar(target'))
    /\ UNCHANGED <<versions, touched>>

\* A signal; the process ends five seconds later, by Fail if it still works.
Interrupt ==
    /\ pc \notin Ended
    /\ ctx = "live"
    /\ ctx' = "cancelled"
    /\ disturbed' = TRUE
    /\ UNCHANGED <<pc, i, target, versions, missing, touched, asked>>

-----------------------------------------------------------------------------
Init ==
    /\ pc = "wait"
    /\ i = 1
    /\ ctx = "live"
    /\ target \in Version
    /\ packages = [j \in Masters |-> 1]
    /\ cp = [j \in Masters |-> 1]
    /\ cluster = 1
    /\ missing \in SUBSET Masters
    /\ touched = FALSE
    /\ disturbed = FALSE
    /\ able = (missing = {} /\ Doable(target))
    /\ skipped = TooFar(target)

Run ==
    \/ WaitForServer
    \/ DownloadNewScripts
    \/ Install
    \/ InstallHere
    \/ Kubeadm
    \/ KubeadmRefuses
    \/ UploadConfig
    \/ Cleanup
    \/ Fail

Next == Run \/ UpgradeControlPlane \/ Interrupt

Spec == Init /\ [][Next]_vars

\* Every call of a run returns.
FairSpec == Spec /\ WF_vars(Run)

-----------------------------------------------------------------------------
(* Correctness *)

TypeOK ==
    /\ pc \in {"wait"} \cup Working \cup Ended
    /\ i \in Masters
    /\ ctx \in {"live", "cancelled"}
    /\ target \in Version
    /\ packages \in [Masters -> Version]
    /\ cp \in [Masters -> Version]
    /\ cluster \in Version
    /\ missing \subseteq Masters
    /\ touched \in BOOLEAN
    /\ disturbed \in BOOLEAN
    /\ able \in BOOLEAN
    /\ skipped \in BOOLEAN

\* No master's control plane is newer than that of a master before it, and
\* none is newer than its kubeadm: any series of runs, to any versions and
\* stopped anywhere, keeps the order in which control planes are upgraded.
InOrder ==
    /\ \A a \in Masters : \A b \in Masters : a < b => cp[a] >= cp[b]
    /\ \A a \in Masters : packages[a] >= cp[a]

\* A run that succeeded has brought every master and the cluster's own
\* configuration to its version, whatever the runs before it left behind.
Upgraded ==
    (pc = "ok" /\ Numbered) =>
        /\ missing = {}
        /\ cluster = target
        /\ \A a \in Masters : cp[a] = target /\ packages[a] = target

\* A run that could be done when it began (no master was gone, nothing it
\* installs is older than what is there, and it goes at most one minor release
\* further than every control plane) fails only because something outside of it
\* went wrong.  And as long as nobody has asked for more than the next minor
\* release, whatever was stopped wherever, there is such a run: the one to the
\* version the first master has installed.
Repeatable ==
    /\ (pc = "failed" /\ able) => disturbed
    /\ ~skipped => Doable(packages[1])

\* Versions only rise.
NeverDown ==
    [][/\ cluster' >= cluster
       /\ \A a \in Masters : packages'[a] >= packages[a] /\ cp'[a] >= cp[a]]_vars

\* Every run ends.
RunEnds == (pc \notin Ended) ~> (pc \in Ended)

-----------------------------------------------------------------------------
(* What the source says.                                                   *)

\* api.go, waitForServer: a server that does not exist is the error
\* "masterServer is null"; nothing else is worked on.
OnlyMasters == ~touched
=============================================================================
