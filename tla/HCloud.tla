------------------------------- MODULE HCloud -------------------------------
(***************************************************************************)
(* The Hetzner Cloud project the tool works on, seen through the calls     *)
(* pkg/api and pkg/drain make.  The service itself is outside the          *)
(* repository: what is modelled is what the callers can observe.           *)
(*                                                                         *)
(*   - a resource is its kind, its index among the resources of that kind  *)
(*     (0 when the tool creates only one) and the command that created it; *)
(*   - a name can be used once: creating a resource that exists fails;     *)
(*   - any call may fail, and a call that failed may have taken effect     *)
(*     (its answer was lost); MaxFaults bounds how often this happens;     *)
(*   - once the context is cancelled every call fails the same way.        *)
(*                                                                         *)
(* Addresses, sizes, images, rules and labels are left out: a label        *)
(* selector is the set of kinds it selects.                                *)
(***************************************************************************)
EXTENDS Naturals, FiniteSets

CONSTANTS
    MasterCount,  \* config.MasterCount: control-plane servers to create
    Slot,         \* indices of what runs inside the cluster creates
    MaxFaults     \* bound: calls that fail although nothing is wrong

ASSUME MasterCountAssumption == MasterCount \in Nat
ASSUME SlotAssumption == Slot \subseteq Nat
ASSUME MaxFaultsAssumption == MaxFaults \in Nat

VARIABLES
    project,  \* the resources that exist
    targets,  \* masters attached to the cluster's load balancer
    faults,   \* faults so far
    ctx,      \* the context of the running command: "live" or "cancelled"
    run,      \* number of the running (or last) command
    pc        \* where the running command is; how the last one ended

cloudVars == <<project, targets, faults, ctx, run>>

-----------------------------------------------------------------------------
(* Resources *)

Kinds == {"network", "subnet", "fwcontrolplane", "fwworkers", "sshkey",
          "loadbalancer", "placementgroup", "master",
          "worker", "servicelb", "volume"}

Resources == [kind : Kinds, index : Nat, run : Nat]

Res(k, n, owner) == [kind |-> k, index |-> n, run |-> owner]

OfKinds(ks) == {r \in project : r.kind \in ks}

Exists(k, n) == \E r \in project : r.kind = k /\ r.index = n

Servers == OfKinds({"master", "worker"})

\* What the service may refuse to delete as long as servers use it.
MayRefuse(r) ==
    /\ r.kind \in {"volume", "placementgroup", "fwcontrolplane", "fwworkers"}
    /\ Servers # {}

\* A network takes its subnets with it.
RemovedWith(r) ==
    IF r.kind = "network" THEN {r} \cup OfKinds({"subnet"}) ELSE {r}

TargetsWithout(r) ==
    IF r.kind = "loadbalancer" THEN {}
    ELSE IF r.kind = "master" THEN targets \ {r.index}
    ELSE targets

-----------------------------------------------------------------------------
(* Calls.  Each is an outcome of one request; a caller says what follows.  *)

\* The request went wrong for no reason of its own.
Disturbed ==
    \/ ctx = "cancelled" /\ UNCHANGED faults
    \/ ctx = "live" /\ faults < MaxFaults /\ faults' = faults + 1

Added(k, n, owner) ==
    /\ ~Exists(k, n)
    /\ project' = project \cup {Res(k, n, owner)}

CreateOk(k, n) ==
    /\ ctx = "live"
    /\ Added(k, n, run)
    /\ UNCHANGED <<targets, faults, ctx, run>>

CreateFails(k, n) ==
    /\ \/ Disturbed /\ (UNCHANGED project \/ Added(k, n, run))
       \/ Exists(k, n) /\ UNCHANGED <<project, faults>>
    /\ UNCHANGED <<targets, ctx, run>>

Removed(r) ==
    /\ project' = project \ RemovedWith(r)
    /\ targets' = TargetsWithout(r)

DeleteOk(r) ==
    /\ ctx = "live"
    /\ r \in project
    /\ Removed(r)
    /\ UNCHANGED <<faults, ctx, run>>

DeleteFails(r) ==
    /\ \/ Disturbed /\ (UNCHANGED <<project, targets>> \/ Removed(r))
       \/ r \notin project /\ UNCHANGED <<project, targets, faults>>
       \/ MayRefuse(r) /\ UNCHANGED <<project, targets, faults>>
    /\ UNCHANGED <<ctx, run>>

\* A list is answered one page at a time: never empty when something matches.
ReadOk(ks, answer) ==
    /\ ctx = "live"
    /\ answer \in SUBSET OfKinds(ks)
    /\ answer = {} => OfKinds(ks) = {}
    /\ UNCHANGED cloudVars

ReadFails ==
    /\ Disturbed
    /\ UNCHANGED <<project, targets, ctx, run>>

\* The context is cancelled while the answer is awaited.
ReadCancelled ==
    /\ ctx = "live"
    /\ ctx' = "cancelled"
    /\ UNCHANGED <<project, targets, faults, run>>

AttachOk(n) ==
    /\ ctx = "live"
    /\ n \notin targets
    /\ targets' = targets \cup {n}
    /\ UNCHANGED <<project, faults, ctx, run>>

AttachFails(n) ==
    /\ \/ Disturbed /\ (UNCHANGED targets \/ targets' = targets \cup {n})
       \/ n \in targets /\ UNCHANGED <<targets, faults>>
    /\ UNCHANGED <<project, ctx, run>>

-----------------------------------------------------------------------------
CloudInit ==
    /\ project = {}
    /\ targets = {}
    /\ faults = 0
    /\ ctx = "live"
    /\ run = 0
    /\ pc = "idle"

CloudTypeOK ==
    /\ project \subseteq Resources
    /\ targets \subseteq 1..MasterCount
    /\ faults \in 0..MaxFaults
    /\ ctx \in {"live", "cancelled"}
    /\ run \in Nat
=============================================================================
