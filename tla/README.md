# Verification of hcloud-k8s-ctl

TLA+ models of `hcloud-k8s-ctl`, the command line tool that creates and deletes
Kubernetes clusters on Hetzner Cloud; TLC configurations that check them on
small instances; theorems about them with proofs for TLAPS. Paths are relative
to the repository, called `src/` here.

## 1. The system

One process runs one action and ends. Nothing is persisted: the state of a
cluster is the Hetzner project itself plus what runs on the servers. Hence the
questions worth asking are about *sequences of commands* (a create after a
create that failed, a delete of half a cluster, an interrupt anywhere), about
*what else acts on the project* (the controllers inside the created cluster),
and about *what a failed or lost answer makes the tool believe*.

| Component | Source | State | Operations | Interacts with |
|---|---|---|---|---|
| Dispatch, interruption | `cmd/main.go` | the context; the process | one action; a signal cancels the context and exits 5 s later | all others, through `ctx` |
| Creation: cloud | `pkg/api/api.go` 372-634, 985-1127 | loop index, retry counter | `createNetwork`, `CreateFirewall`, `createSSHKey`, `createLoadBalancer`, `createServer` | Hetzner API |
| Creation: Kubernetes | `pkg/api/api.go` 129-370, 636-663; `scripts/init-master.sh`, `common-install.sh`, `post-install.sh`, `one-master-mode.sh` | `sshRootUser`, `masterClusterJoin`, `retryCount`; per server: sshd, packages, kubeadm | `initFirstMasterNode`, `joinToMasterNodes`, `postInstall` | servers over ssh; cloud-init on them |
| Deletion | `pkg/drain/drain.go` | the phase, what was read | `DeleteCluster`, seven phases | Hetzner API, races with the controllers |
| Firewall command | `pkg/api/api.go` 985-1127 | - | `CreateFirewall` | Hetzner API |
| Ad hoc commands | `pkg/api/api.go` 800-923 | map of results, mutex, wait group | `listServers`, `ExecuteAdHoc` | servers over ssh, in parallel |
| Patch and upgrade | `pkg/api/api.go` 790-798, 939-983; `scripts/upgrade-controlplane.sh` | - | `PatchClusterDeployment`, `UpgradeControlPlane` | servers over ssh |
| Configuration | `pkg/config/config.go` | one global record | `Load`, `Check`, `SaveConfig` | all others |
| Start of the process | `cmd/main.go` 39-130, `internal`, `pkg/version`, `pkg/api/api.go` 48-86 | where `main` is | flags, `Load`, `Check`, `CheckLatest`, `validateConfig`, the switch | configuration, Hetzner API, GitHub |
| Listing, utilities, README generator | `pkg/api/api.go` 725-777, `pkg/utils`, `utils/` | none | reads, a sleep, text | - |
| Hetzner Cloud | external | the project | create, delete, get, list, attach | - |
| Controllers of the cluster | external, configured by `scripts/chart` | - | autoscaler, cloud-controller-manager, csi | Hetzner project |

What is hard about it:

* *Partial failure.* `NewCluster` makes about ten requests in a row and rolls
  nothing back; the drainer drops the error of every read (`x, _, _ := ...Get`).
* *Interleaving.* While the drainer deletes, the cluster it deletes is alive
  and creates workers, load balancers and volumes. While the tool joins
  masters, cloud-init installs them.
* *Lost answers and retries.* Attaching to the load balancer, `kubeadm init`
  and `kubeadm join` are retried and are not idempotent.
* *Goroutines.* `ExecuteAdHoc` starts one per server; they share a map and a
  mutex that only some of the writes take, and each can end the process.
* *Commands that are done again.* `patch-cluster` and `upgrade-controlplane`
  start from whatever an earlier run, stopped anywhere, has left.
* *Interrupts.* The context is looked at in some places only, and a cancelled
  context turns every request into a failed one.

Correct means, per component:

* creation: a reported cluster is complete and of one piece; what an older
  command left is never mixed in; a run ends when it is interrupted;
* bootstrap: the first master is set up once; the tool never locks itself out;
  nobody is given up before all attempts; the command ends with an honest report;
* deletion: it ends, with nothing left, whatever the controllers do; on its
  way no master stands without its firewall;
* ad hoc: every server asked for is reached, and the report is true of it;
* patch: a run that succeeds leaves one valid token, and the workers'
  configuration and the autoscaler have it;
* upgrade: versions only rise, control planes one after the other and never past
  their kubeadm, and a run that was stopped can be made good by another;
* start: the configuration means the same to every part of the program, and to
  the next run over a saved file.

`PROJECT.json` lists the hazards line by line under `hazards`, with the
property that watches each, or the reason why none does.

## 2. Modules

    HCloud            the project and the outcomes of every call
      ClusterCreate   NewCluster, CreateFirewall
      ClusterDrain    DeleteCluster
        Lifecycle     both, with operator, signals and controllers
          LifecycleInv     the inductive invariant, and progress
            LifecycleProofs
    ClusterPromise    what the bootstrap promises (abstract)
      Bootstrap       the three retry loops on the servers
        BootstrapProofs
        Creation      Bootstrap in the place of ClusterCreate's last steps
          CreationProofs
    PostInstall       patch-cluster, post-install.sh command by command
      PostInstallProofs
      Finishing       PostInstall in the place of Bootstrap's last loop
        FinishingProofs
    Upgrade           upgrade-controlplane, one master after the other
      UpgradeProofs
    AdHoc             adhoc, one goroutine per server
      AdHocProofs
    Startup           main and the configuration
      MCStartup       label maps, scripts and command lines for TLC
      StartupProofs

### HCloud

`project` is a set of resources. A resource is its kind, its index among those
of its kind (0 where the tool makes one) and the number of the command that
made it (for the controllers' resources, the command whose cluster made them).
That number is history: the tool does not see it, `NeverMixed` and
`CreatedComplete` do. A name is a kind and an index, and a label selector is
a set of kinds, which is what the default labels amount to. `targets` are the
masters attached to the load balancer.

Each call of the client library is a pair of actions. A call that fails has
had its effect or not (the answer was lost); it fails for one of three reasons:
something went wrong (at most `MaxFaults` times in a behaviour), the context
is cancelled (any number of times, also while an answer is awaited), or the
service refuses it (the name is taken, the resource is gone, the server is
already a target, the resource is in use). Lists are pages: an answer is a
non-empty part of what matches, empty only if nothing does. What is known of
the service is how `src/` uses it; the refusal to delete what is in use is
allowed in the model and never required.

### ClusterCreate

`pc` is the kind whose request is next, following `Follows`, the order of
`NewCluster`; an error ends the command (`failed`) and leaves everything as it
is. The lookups before a request are part of it. `createServer` is
`CreatePlacementGroup`, then per master `CreateMaster` and the loop around
`attachToBalancer` (`Attach`, `AttachPause`, `AttachCancelled`). The retry
limit of that loop is absent from the model because it has no effect in the
code: the counter is never incremented (finding 2). Everything after
`createServer` is three abstract steps here (`KubernetesStarts`,
`BootstrapDone`, `BootstrapFails`), which `Bootstrap` models in detail.

### ClusterDrain

`After` is the order of `processDeleteCluster`; `First` and `Second` say what
the one or two reads of a phase select. A read that fails leaves the phase with
nothing found, exactly like an empty answer; `blind` remembers, as history,
the phases of this pass whose last read failed. Deletions go in the order of
the code, one by one, from the list that was read, which may be stale by then.
An error of a deletion, or a cancelled context at the top of a phase, goes to
the pause (`sleep`) and from there to a new pass or to the end (`stopped`).

### Lifecycle

The operator starts `create`, `delete` and `create-firewall` commands one after
the other (at most `MaxRuns`), interrupts them (`Interrupt`), and the handler
ends the process at any later point (`Exit`); the process may also be killed.
The controllers run as long as a master of the last cluster that started
exists. The autoscaler needs the network and the ssh key, the
cloud-controller-manager the network: `scripts/chart/templates/config.yaml`
passes them by name.

### Bootstrap

`initFirstMasterNode`, `joinToMasterNodes` and `postInstall` share one head
(`Top`) and one wait (`WaitForServer`). `stage` is how far `common-install.sh`
has come on a server: `Fresh` (root logs in), `Hardened` (only the configured
user does), `Installed`, `Ready`. `InitScript` is one run of `init-master.sh`
that stops anywhere. `kubeadm` on a node is `none`, `partial` or `member`.
A join needs a node without remains. An answer may be lost after any effect.
The reads after the init (`log.Fatal`) end the process. cloud-init advances
the other masters in steps of its own, or stops for good. Initially it may
already have come any way, because the servers were created earlier.

### ClusterPromise

The abstract specification: the first master starts the cluster, others enter
one at a time, none leaves; the report is good only with the first master in;
the command ends. `Bootstrap` implements it with
`members` the masters whose `kube` is `member` and `status` the end of `pc`.

### Creation

The composition: `Life` is an instance of `Lifecycle` whose variables are
expressions of `Bootstrap`'s. The project is what `createServer` leaves, the
running cluster is there from the moment `kubeadm init` did anything on the
first master, and `pc` is `"bootstrap"` until the command ends. `FillsCreate` says that
each step of `Bootstrap` is then a step of the create command (or a signal, or
nothing), so that what `Lifecycle` shows with `KubernetesStarts`,
`BootstrapDone` and `BootstrapFails` is shown of the loops they stand for. Its
initial states are ones `HandsOver` describes, the state `createServer` leaves in
`Lifecycle`.

### PostInstall

One run of `postInstall` after the other, the first from `create`, the others
from `patch-cluster`. `pc` goes through the loop (`top`, `wait`, `copy`) and
then through `post-install.sh` command by command. A token is a name; `join` is the
one the script put into `cloud-init.sh`, `config` the one in the configmap
`hcloud-init`, and `pod` the one the autoscaler's running pod has read. `Fail`
is `set -e`, a lost connection and the end of the process alike. The pod starts
and stops in its own time. `disturbed` and `excused` are history: whether
anything outside of the run went wrong, and whether the old pod could not be
stopped before helm scaled the deployment up again. In `Bootstrap` all this is
the one step `ExecPostInstall`.

### Finishing

The same composition one level down: `Boot` is an instance of `Bootstrap` whose
variables are expressions of `PostInstall`'s. The loop is `"post"`, the whole script
is the place `"exec"`, and the servers are as the loops before may leave them,
which `postInstall` does not look at. `FillsPost` says that each step of
`PostInstall` is then a step of `Bootstrap`'s tool or of the signal, or
nothing, until the operator runs `patch-cluster`.

### Upgrade

`UpgradeControlPlane` over masters `1..MasterCount`, for any number of runs. A
master has the version of its packages and that of its static pods; the cluster
has the version in its kubeadm configuration, which `kubeadm upgrade apply`
writes at its end (`UploadConfig`, a step of its own because the run may stop
before it) and `kubeadm upgrade node` reads. `missing` masters were deleted;
`waitForServer` passes with an empty address for them, and `LocalLogin` says whether
the operator's machine lets the tool in, which `downloadNewScripts` is the first to
find out. `NewMinor` are the versions that begin a minor release: kubeadm
compares its own version with that of the cluster's configuration, on the first master also
with that of whichever API server the load balancer gives it, and refuses to skip a
minor release (`KubeadmRefuses`), after the packages were installed. `able`
and `skipped` are history: whether the run was possible when it began, and whether any run
was ever to go too far. `Numbered` says whether host names end
in `-` and the number, which is how the script knows the first master.

### AdHoc

A job is a server found by one of the two selectors, as `allServers` has it: a
server both match has two. `ListPage` takes any non-empty part of what is left,
up to the size of a page. A write of the map is two steps (`WriteBegins`,
`WriteEnds`), so that two can overlap; `raced` remembers that they did, after
which the runtime may end the process (`Crash`) or entries may be missing.
While the jobs run the main goroutine waits; `CopyFatal`, `Crash` and `Exit`
end the process under them.

### Startup

`Load` as an operator, `Loaded`, from a file, the flags and the environment to a
configuration: a scalar of the file replaces the default, a map is merged into it,
`null` empties it, and the file's `cliArgs` go through the pointers of the flags.
Of the configuration there are the two ranges, the token, the path of a key, the
labels of the masters, four fields of `cliArgs`, and `preStartScript`, as its
lines. A label map is a function, a selector is one too, and `Matches` is what a
selector means.

`main` goes from `load` over `check`, `level`, `version` and `connect` to `act`;
every `log.Fatal` on the way is a step to `fatal`: a file or range that does not
parse, no token, an unknown log level, a newer release (`CheckLatest` tells it from
the failures of the check by its text alone), no location, an unknown action, `adhoc`
without a command, an error of the action.

`Saved` is what `SaveConfig` writes: the configuration in full, with the token
masked wherever it is in the text (`Masked`), and without the lines that have one of
four words (`WithoutNamed`), which are the fields of the token and of the paths and also
any such line of a script. `SaveCut` is a write that fails half way, after
`os.WriteFile` has emptied the file. Before each run the operator may change the
file, one field at a time.

## 3. What TLC checks

| Run | Instance | States | Shows |
|---|---|---|---|
| `lifecycle` | 2 masters, 1 slot, 2 faults, 3 commands | 223,927 | `TypeOK`, `CreatedComplete`, `HandsOver`, `DeleteComplete`, `MasterNeverExposed`, `NeverMixed`, `NothingBack`, `DeleteTerminates`, `InterruptStops` |
| `bootstrap` | 3 masters, limit 1 | 5,524 | `TypeOK`, `InitOnce`, `LoginMatches`, `CreatedHonest`, `KeepsPromise`, and in `Creation` `FillsCreate` |
| `bootstrap_one` | 1 master, limit 4 | 286 | `KeepsPromise` where `one-master-mode.sh` runs |
| `post_install` | 4 tokens, limit 1, one master | 14,551 | `TypeOK`, `OneToken`, `AutoscalerCurrent`, `FailsForAReason`, `RunEnds`, `AutoscalerComesBack`, and in `Finishing` `FillsPost` |
| `upgrade` | 3 masters, 4 versions of 3 minor releases | 100,268 | `TypeOK`, `InOrder`, `Upgraded`, `Repeatable`, `NeverDown`, `RunEnds` |
| `adhoc` | 2 servers, pages of 1 | about 448,000 | `TypeOK`, `RaceOnlyOnFailure`, `AllReached`, `ReportTrue`, `Ends` |
| `startup` | 2 ranges, 2 tokens, 3 label maps, 2 scripts, 8 command lines, 2 edits | 580,434 | `TypeOK`, `RoundTrip`, `MastersSelected`, `ArgsStick` |
| `deleted_means_gone` | 1 master, 1 fault, 2 commands | - | violated: finding 1 |
| `attach_ends` | 1 master, 1 fault, 1 command | - | violated: finding 2 |
| `race_free` | 2 servers | - | violated: finding 3 |
| `patch_works` | 4 tokens, limit 1 | - | violated: finding 4 |
| `only_masters` | 3 masters, 4 versions | - | violated: finding 5 |

The properties, in words:

* `CreatedComplete`: a create command that reports success made every
  resource itself, and every master is a target of the load balancer.
* `HandsOver`: when `createServer` is through, the resources of the kinds the
  tool makes are exactly those of this command, all masters are attached, and in a
  project where no cluster ever ran there is nothing else. So
  `initFirstMasterNode`, which finds its server by name, cannot meet one of
  an older cluster.
* `DeleteComplete`: a delete command that ends after a pass in which the last
  read of every phase was answered leaves an empty project. It holds although
  the controllers act between any two calls, because of the order of the
  phases: without the network nothing is launched, without masters nothing
  runs, and only then are the volumes read.
* `MasterNeverExposed`: a master that has its firewall loses it only in a
  delete pass whose read of the servers failed.
* `NeverMixed`: how far a create command gets over the remains of an older
  cluster. Beside masters that still have their firewall it can make a network and
  a subnet (where a delete stopped after its first phase) and the workers' firewall
  (where a delete overlooked the servers and stopped before the other firewall),
  and ends there, at the first name that is taken. Nothing else of two commands
  comes together. And a master, protected or not, is only ever created into the
  network, firewalls, balancer and group of its own command. `Replaceable` names
  the three; TLC finds behaviours that need them.
  That the older masters still have their firewall is needed: a blind pass may leave masters
  and remove all else, and a create command then gets as far as the first taken
  server name.
* `NothingBack`: past the phase of the networks a pass sees only volumes
  appear, past that of the servers nothing, unless that phase was blind. This is
  why the loops of the later phases come to an end.
* `DeleteTerminates`: a delete command ends, or a read of the pass failed. After
  a blind read of the network or the servers the controllers can outpace the
  drainer for ever, so this is as much as can be said.
* `InterruptStops`: every loop notices a cancelled context.
* `InitOnce`: the retries of `initFirstMasterNode` never start `kubeadm init`
  twice. It holds because `common-install.sh` locks out the very user the
  retries log in as, which is also why a failure after the lockout cannot be
  repaired by retrying.
* `LoginMatches`: from then on the tool's user is the one the server accepts.
* `CreatedHonest`: a cluster reported as created has its first master, and
  every other one is in or was given `RetryTimeLimit + 1` attempts. An interrupt
  makes joins give up early, and `postInstall` then refuses to go on.
* `KeepsPromise`: the refinement of `ClusterPromise`, its liveness included.
* `FillsCreate`: no cluster is reported whose control plane this command did
  not start, and nothing else happens that `ClusterCreate` does not allow.

Of `PostInstall`:

* `OneToken`: a run that succeeds leaves exactly one valid token, and the
  workers' configuration has it, whatever the runs before left behind. It takes
  the whole script: the deletion comes first, and a configmap that could not be
  deleted stops the run.
* `AutoscalerCurrent`: after it the autoscaler's pod, if there is one, has that
  token, unless the old pod could not be stopped in time. `AutoscalerComesBack`: a pod
  with that token comes, or another run begins.
* `FailsForAReason`: only a disturbance, or the absence of any token, makes a
  run fail; apart from that it can be done again.
* `RunEnds` (also of `Upgrade`): every run ends.
* `FillsPost`: the run makes no more attempts than `Bootstrap` allows, tries
  nothing again once the script has begun, runs `one-master-mode.sh` with one
  master and only then, and ends well only after it.

Of `Upgrade`:

* `InOrder`: no control plane is newer than one before it, nor than its kubeadm, after
  any series of runs to any versions, each stopped anywhere. It
  depends on the order of the loop, on stopping at the first error, on
  `apt-get` refusing to downgrade and on `node` following the cluster's version.
  It says nothing of the kubelet, which `common-install.sh` installs with kubeadm and which may
  therefore be newer than the API servers until the script is through, or for as long as a stopped run is not repeated.
* `Upgraded`: a run that succeeds has brought everything to its version.
* `Repeatable`: a run that is possible when it begins (no master is gone, the
  target is not older than any packages, nor more than the next minor release)
  fails only for a reason outside of it. And as long as nobody has asked for more
  than the next minor release, such a run always exists, to the version the first
  master has installed, whatever was stopped wherever. The condition is needed: a
  run that goes too far leaves packages that kubeadm refuses and `apt-get` cannot take back.
* `NeverDown`: no version goes down.

Of `AdHoc`:

* `RaceOnlyOnFailure`: writes of the map overlap only if a command failed.
* `AllReached`: every server asked for is reached, for any pages, unless a list
  failed or was cut short by a signal, and no other server is.
* `ReportTrue`: without overlapping writes a report has the result of a command
  that is over, for every server.
* `Ends`: no goroutine waits for ever.

Of `Startup`:

* `RoundTrip`: a later run over a file that `save-full-config` wrote has the ranges,
  the labels and the `cliArgs` of the run that wrote it, whatever its own command line and
  environment (labels that were null come back as the default); the
  paths are the default ones again; the script is the same if it has neither the token nor
  one of the four words, and in no case has it the token.
* `ArgsStick`: the other side of this. Once `save-full-config` has written the file
  it is started with, every command is `save-full-config`, which writes the same
  again, until the operator edits the file or a save fails.
* `MastersSelected`: the firewall, which selects the literal `role=master`,
  covers the masters for every label map that leaves the role alone, and
  `adhoc` for the masters selects no worker, for every map that is not null.

Bounds. `MasterCount = 2` is the smallest with one master attached and another
not; 3 in `Bootstrap`, where the limit of one join must not disturb the next.
One slot suffices for the controllers: slots do not interact, and one can be
taken, freed and taken again. `MaxFaults = 2` gives a lost answer and a failed
read in the same behaviour; cancelled calls are not counted. `MaxRuns = 3` gives a
create, a delete that goes wrong, and a create over the rest. The code's limit
is 20 attempts; 2 are one that leaves something behind and one that meets it.
Four tokens are the ones of `join`, `config`, `pod` and a new one. Three
versions are needed for a run to a lower version than the last but above the
first; a fourth lets `NewMinor` have two releases to go to, so that one can be skipped, and
one of them two versions; three masters for one before and one after the one a run stops at. Two
servers, matched by either selector or both, are up to four goroutines; pages
of one server make every list of two longer than a page. Two ranges are the default and another;
the label maps add a label, change the role, or do both parts right. Of the tokens one is in
a script and one is not; of the scripts one has all that `SaveConfig` looks for and one
nothing. The command lines lead to every end of `main`. Two edits (`MaxEdits`) make the
smallest file that says both what to save and where, and leave every other field at its default or
change one; the proofs are for any number.
`post_install` has one master, so that `one-master-mode.sh` runs, and `upgrade` has
host names that end in a number; the proofs cover the other cases too.
The proofs need none of these bounds. TLC has also checked what the proofs
rest on, on the instances of the runs: `IInv` of `LifecycleInv`, `SomeoneGoes`,
`JobsForward` and each `WorkFalls`.

Fairness. Only `Tool`, the running command, is weakly fair: a call returns and
a goroutine that can run does. No operator has to start a command, no
controller or cloud-init has to act or to stop, and no property relies on
`os.Exit`. A call that hangs is outside this assumption (`ssh.Dial` and
`session.Run` have no timeout); then only `os.Exit` ends the process.
The same holds of `Run` in `PostInstall` and `Upgrade`. `AutoscalerComesBack`
also needs Kubernetes to start a pod it is asked for (`PodStarts`); nothing
makes it stop one. `AdHoc` is fair to the main goroutine and to each job, which is what
the Go scheduler promises; a mutex that is free is taken because a job that unlocks it does not
lock again. `Startup` states no liveness. `MaxFaults` also means that failures stop after some time; without that no loop
of the drainer would have to end. `Bootstrap` does not need it: there every
command may fail every time, and the loops end by their counters. Deadlock is
not checked, because a command ends and nobody has to start another.

Each property has a mutant in `PROJECT.json`: an operator next to the code it
changes (`Mutant:` in the comment before it), a bug someone could well make
there, with which TLC finds the property violated.

## 4. What is proved

`tlapm` proves every obligation of `LifecycleProofs`, `BootstrapProofs`,
`CreationProofs`, `PostInstallProofs`, `FinishingProofs`, `UpgradeProofs`,
`AdHocProofs` and `StartupProofs`, with the SMT backend, Zenon and, for temporal steps, LS4. The
assumptions are those on the constants: `MasterCount`, `MaxFaults`, `MaxRuns`
and `RetryTimeLimit` are natural numbers (at least one master in `Bootstrap` and
`Upgrade`, at least one version, at least one server per page), `Slot` is a set
of them, not necessarily finite; the switches are Booleans, `OneMaster` true
exactly of one master; `NewMinor` are versions; `MaxEdits` is a natural number; and the values that stand for absence are none of the
values they stand beside.

`Lifecycle`, by the invariant `IInv` of `LifecycleInv`:

* `TypeInv`: the types, and that only masters of the loop are attached.
* `ProjectInv`: names are unique, a subnet has its network and a target its load
  balancer. `StepShapes` reduces all steps to five shapes for this.
* `CreateInv`: wherever a create command is, the requests before that place
  have left their resources, and `targets` is what the loop says. This cannot
  be seen from `CreatedComplete` alone, which says nothing until the end;
  deletions by another command are excluded because one command runs at a time,
  and the controllers touch other kinds only.
* `DrainInv`: a phase the pass is through with, and that was not blind, has
  left nothing of its kinds. It is inductive only phase by phase: what creates
  service load balancers and workers needs the network, whose phase comes
  first; what creates volumes needs a master, whose phase comes before.
* `OwnerInv`: a resource is of a command that was run, a server is one of the
  loop's or the controllers', and these make nothing before a cluster has
  started. With unique names and `CreateInv` it says what is *not* there behind
  `createServer`: a name an older command had taken would have ended this one.

Theorems: `TypeCorrect`, `Invariant`, `CreateTheorem`, `HandoverTheorem`,
`DeleteTheorem`, `ExposedTheorem`, `MixedTheorem`, `NothingBackTheorem`, and
`StopsTheorem` (below); `ExposedTheorem`, `MixedTheorem` and
`NothingBackTheorem` are about action properties that follow from the invariant and one
step (`ExposedStep`, `MixedStep`, `NothingBackStep`).

`Bootstrap`, by the invariant `IInv` of `BootstrapProofs`: `PcOfLoop`,
`LockedOut` (`kubeadm init` has started only on a server that is `Ready`, where root
cannot log in), `UserChanged`, `NoneJoined`, and `JoinsTried` (a join that is over has
its member, or all its attempts, or the context is cancelled, and beyond the
head of `postInstall` the last case is gone). Theorems: `TypeCorrect`,
`InitOnceTheorem`, `LoginTheorem`, `HonestTheorem`, and `Refinement`, that
`Bootstrap` implements `ClusterPromise!Spec` (`JoinedSteps` is the step lemma).

`Creation`, by the same invariant: only `init-master.sh` touches kubeadm on the
first master, and it never undoes it (`StartedSteps`); a good report comes from
`postInstall`, whose loop is entered with that master in the cluster
(`CreatedStarted`). Theorem: `CreationTheorem`, whose first part is that
the initial states satisfy `Life!HandsOver` (`Handover`): the two modules fit where they
meet, one proved to end and the other to begin there.

`PostInstall`: the invariant follows the script. From `token` on the old tokens
are gone and the new one is `join`; from `scale` on `config` is `join`; and
after `helm` a pod with anything else is excused. That holds only
because the pod reads `config` when it starts, so a pod that starts late in the
script is a current one. Theorems: `TypeCorrect`, `OneTokenTheorem`,
`AutoscalerTheorem`, `FailureTheorem`.

`Finishing`, by the types of `PostInstall`: the script is stuttering of
`Bootstrap` but for its first and last command, and a run that stops inside it
is `Fatal`. Theorem: `FinishingTheorem`. `Lifecycle`, `Creation` and `Finishing`
together lead from the commands of a user to the commands of `post-install.sh`.

`Upgrade`: `InOrder` alone is not inductive, because a master follows the version in the
cluster's configuration. The invariant adds how that version, the first
master and the position of the loop relate: the masters before `i` are at the
target, none is beyond the cluster's version except the first between `apply` and
`UploadConfig`. For `Repeatable` it adds that a run that was able to go on still is
(`StillAble`), and that without a skip the first master's packages are the
newest and within reach of every control plane. Theorems: `TypeCorrect`,
`OrderTheorem`, `UpgradedTheorem`, `RepeatableTheorem`, `NeverDownTheorem`.

`AdHoc`: at most one job is between `Lock` and `Unlock`, and it is the one the
mutex names; a write that is not under the mutex is of a job whose result is an
error; and an entry of the map, before any overlap, is the result of a
job that has written. Theorems: `Invariant`, `TypeCorrect`, `RaceTheorem`,
`ReachedTheorem`, `ReportTheorem`.

`Startup`: from `Load` to the end the configuration is what `Loaded` says of
the file (`ConfigIsLoaded`), and a file that was saved and not touched is `Saved` of
the configuration it was saved from (`FileIsSaved`); merging is idempotent
(`MergeAgain`), and what is left of a script has no token (`ScriptSaved`). Theorems:
`TypeCorrect`, `RoundTripTheorem`, `ArgsStickTheorem`, `SelectorTheorem`.

Progress. The prover does neither fairness nor ENABLED, so of a command that ends
it can prove the other half: that no behaviour, however much fails, contains more than
so many steps of the command. Each of these theorems names a measure, proves its
bound and that it is 0 exactly at the end, that every step of the command lowers
it, and that nobody else raises it:

* `BootstrapProofs!WorkTheorem`: at most `(MasterCount + 1) * (6 * RetryTimeLimit + 12)`
  steps of the three loops, lexicographic in the loop, the attempt and the
  place (`LoopsLeft`, `InLoop`, `StepRank`). This is what the liveness in `KeepsPromise` rests on.
* `PostInstallProofs!WorkTheorem`: `12 * (RetryTimeLimit + 2)` steps of a run; and
  `UpgradeProofs!WorkTheorem`: `6 * MasterCount`. They bear `RunEnds`.
* `LifecycleProofs!StopsTheorem`: from the signal on at most three calls of
  any command (`StepsLeft`). It bears `InterruptStops`. Before the signal there is no
  such bound: the loops of the drainer and of `createServer` have no limit.
* `AdHocProofs!ProgressTheorem`: no goroutine does anything twice, and while the
  main goroutine waits one of them does not wait itself (`SomeoneGoes`), because
  whoever keeps the mutex is in `found` and has its answer. It bears `Ends`.

`NothingBackTheorem` is the same for `DeleteTerminates`, whose measure would be the
project itself.

Only model-checked: the liveness properties (`DeleteTerminates`,
`InterruptStops`, `RunEnds`, `AutoscalerComesBack`, `Ends` and the liveness of
`KeepsPromise`), of which fairness and ENABLED are out of the prover's reach.

## 5. Findings

1. *A failed read ends the deletion* (`DeletedMeansGone`). `drain.go` ignores
   the error of every read and takes a nil or empty answer for nothing left.
2. *The attach loop has no limit* (`AttachEnds`). `createServer` compares
   `retryCount` with the limit and never increments it; after a lost
   answer the server is already a target and each further try fails.
3. *Failed ad hoc commands race* (`RaceFree`). The result map is written without
   the mutex where a command fails.
4. *A patch that stopped cannot be repeated* (`PatchWorks`). Between the
   deletion of the tokens and the creation of the new one there is none,
   and `xargs` without `-r` makes the next deletion fail.
5. *A master that is gone is the operator's machine* (`OnlyMasters`).
   `waitForServer` wraps a nil error, which is no error.

Other differences between the documentation and the code, noticed while modelling.
They are in the models but have no run, because the source shows them at once or a property
above already says how far the code goes:

* One master still gets a load balancer (`pkg/api/api.go:624`), although
  `README.md:48` says it does not.
* A created cluster may lack masters (`pkg/api/api.go:651`): the error of a join is
  only logged. `CreatedHonest` says when that happens.
* The old autoscaler may survive a patch (`scripts/post-install.sh:50`): the script
  does not wait for it to stop, and drops the error if it could not be told to.
  `AutoscalerCurrent` excuses exactly this.
* Without a number at the end of the host names (`scripts/upgrade-controlplane.sh:18`)
  no master applies an upgrade, and the tool logs `Cluster upgraded!`. `Upgraded`
  excludes it by `Numbered`.
* The file's `cliArgs` override the command line (`pkg/config/config.go:291`).
  `README.md:39` recommends `e2e/configs/full.yaml`, whose line 39 has the action
  `save-full-config`: with that file every command is this one. `ArgsStick` describes it.
* A saved script is not always the script: a line with the word `sshPublicKey` is
  gone and the token is `<secret>` (`pkg/config/config.go:384`). `RoundTrip` says when it is the same.
* A write that fails has already emptied the file (`pkg/config/config.go:388`).
* An upgrade over two minor releases fails in kubeadm after the packages were
  installed (`scripts/upgrade-controlplane.sh:21`), and no version repairs it, because
  `apt-get` does not go back. `Repeatable` excludes it by `skipped`.
* The subnet's default is taken from the range before the file is read
  (`pkg/config/config.go:287`), so it does not follow a range the file sets.
* The flag `-upgrade-controlplane.version` is read nowhere
  (`pkg/config/config.go:204`).

## 6. Not modelled

* Data no property tells apart: addresses, rules, images, server types, the
  text of scripts, the defaults of the autoscaler and the kubelet. The unrestricted list of volumes lives there and is listed as a hazard
  with a note: one cluster per project is assumed.
* Labels in `Lifecycle`, where a selector is a set of kinds; `Startup` has them.
  Labels that are null select every server; no property covers them.
* Concurrent commands: two operators running the tool at once.
* Resources that disappear under a running create by other hands.
* Calls that never return: `ssh.Dial` and `session.Run` have no timeout.
* The whole of `create` as one state machine for TLC: `Creation` composes its halves by
  refinement instead, and `Finishing` does so for its last loop.
* `list-configurations` reads and prints; `saveKubeconfig` writes a local
  file; the README generator is a sequential text helper; the chart is data for Kubernetes; the scripts run by
  hand through `adhoc` are straight-line shell without state of the tool.
* In `Startup`, a `null` action in the file, which makes a nil pointer, and the
  other arguments of `adhoc` and `create-firewall` in `cliArgs`, which behave as those it has.

## 7. Plan

Done, in this order: `HCloud`, `ClusterCreate`, `ClusterDrain`, `Lifecycle`;
`LifecycleInv`, `LifecycleProofs`; `ClusterPromise`, `Bootstrap`,
`BootstrapProofs`; `AdHoc`, `PostInstall`, `Upgrade`, `Startup`, each with its
proofs; `Creation` and `CreationProofs`; `Finishing` and `FinishingProofs`; the
hand-over from `Lifecycle` to `Creation` and the theorems on progress.

Next:

1. A second cluster in the project of `Lifecycle`, with labels as in `Startup`,
   to say which of its resources a delete command leaves alone.
2. The measure under `DeleteTerminates`: a pass without a failed call deletes a
   number of resources that its reads bound.
