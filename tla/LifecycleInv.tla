---------------------------- MODULE LifecycleInv ----------------------------
(***************************************************************************)
(* What is true between any two steps of Lifecycle: the inductive          *)
(* invariant that the safety and action properties of Lifecycle follow     *)
(* from, and what it says about progress.  LifecycleProofs proves it.      *)
(***************************************************************************)
EXTENDS Lifecycle

\* createServer attaches only masters of its loop.
AttachIndex == pc \in {"attach", "pause"} => i <= MasterCount

TypeInv == TypeOK /\ AttachIndex

-----------------------------------------------------------------------------
(* The project, whatever runs. *)

SingleIndex == \A r \in project : r.kind \in Single => r.index = 0

NamesUnique ==
    \A r, s \in project : (r.kind = s.kind /\ r.index = s.index) => r = s

SubnetInNetwork == OfKinds({"subnet"}) # {} => OfKinds({"network"}) # {}

TargetsOnBalancer == targets # {} => OfKinds({"loadbalancer"}) # {}

ProjectInv ==
    SingleIndex /\ NamesUnique /\ SubnetInNetwork /\ TargetsOnBalancer

-----------------------------------------------------------------------------
(* A create command. *)

Rank == [network        |-> 1,
         subnet         |-> 2,
         fwcontrolplane |-> 3,
         fwworkers      |-> 4,
         sshkey         |-> 5,
         loadbalancer   |-> 6,
         placementgroup |-> 7,
         master         |-> 8,
         attach         |-> 8,
         pause          |-> 8,
         bootstrap      |-> 8,
         created        |-> 8]

\* Every request before the next one has left its resource.
SinglesMade ==
    pc \in DOMAIN Rank =>
        \A k \in Single : Rank[k] < Rank[pc] => Res(k, 0, run) \in project

MastersUpTo(n) == \A m \in 1..n : Res("master", m, run) \in project

\* So has every turn of the loop over the masters.
MastersMade ==
    /\ pc \in Single => i = 1
    /\ pc = "placementgroup" => targets = {}
    /\ pc = "master" => MastersUpTo(i - 1) /\ targets = 1..(i - 1)
    /\ pc \in {"attach", "pause"} =>
          MastersUpTo(i) /\ 1..(i - 1) \subseteq targets /\ targets \subseteq 1..i
    /\ pc \in {"bootstrap", "created"} =>
          MastersUpTo(MasterCount) /\ targets = 1..MasterCount

CreateInv == SinglesMade /\ MastersMade

-----------------------------------------------------------------------------
(* Who made what. *)

\* A resource belongs to a command that was run, a server to createServer's
\* loop or to the controllers, and these act only after a cluster has started.
OwnerInv ==
    /\ pc # "idle" => run >= 1
    /\ cluster <= run
    /\ \A r \in project :
          /\ 1 <= r.run /\ r.run <= run
          /\ r.kind = "master" => r.index \in 1..MasterCount
          /\ cluster = 0 => r.kind \in Single \cup {"master"}
    /\ pc = "bootstrap" => i = MasterCount + 1

-----------------------------------------------------------------------------
(* A delete command. *)

PhaseRank == [networks       |-> 1,
              sshkeys        |-> 2,
              loadbalancers  |-> 3,
              servers        |-> 4,
              placementgroup |-> 5,
              firewalls      |-> 6,
              volumes        |-> 7]

\* The pass is through with phase p.
Past(p) ==
    \/ pc = "deleted"
    \/ pc \in DrainPc /\ PhaseRank[p] < PhaseRank[phase]

\* What is to be deleted belongs to the phase.
FoundKinds ==
    /\ pc \in DrainPc => \A r \in found : r.kind \in First[phase] \cup Second[phase]
    /\ pc \in {"first", "sleep"} => found = {}

\* An answered first read that found nothing.
ReadClean ==
    /\ pc = "second" => phase \in {"loadbalancers", "servers"}
    /\ (pc = "second" /\ found = {} /\ phase \notin blind) =>
          OfKinds(First[phase]) = {}

\* What only a create command makes stays deleted,
FirstClean ==
    \A p \in Phases \ {"volumes"} :
        (Past(p) /\ p \notin blind) => OfKinds(First[p]) = {}

\* what the controllers make stays deleted without a network,
SecondClean ==
    \A p \in {"loadbalancers", "servers"} :
        (Past(p) /\ p \notin blind /\ "networks" \notin blind) =>
            OfKinds(Second[p]) = {}

\* and volumes stay deleted without servers.
VolumesClean ==
    (pc = "deleted" /\ "volumes" \notin blind /\ "servers" \notin blind) =>
        OfKinds({"volume"}) = {}

DrainInv ==
    FoundKinds /\ ReadClean /\ FirstClean /\ SecondClean /\ VolumesClean

\* All of it: the inductive invariant of the project, create and delete.
IInv == TypeInv /\ ProjectInv /\ CreateInv /\ OwnerInv /\ DrainInv

-----------------------------------------------------------------------------
(* Progress *)

\* What a delete command is through with does not come back: past the phase
\* of the networks only volumes are still made, past that of the servers
\* nothing at all, whatever the controllers try.
NothingBack ==
    [][/\ (Past("networks") /\ "networks" \notin blind) =>
             OfKinds(Kinds \ {"volume"})' \subseteq project
       /\ (Past("servers") /\ "servers" \notin blind) => project' \subseteq project]_vars

\* The calls an interrupted command can still make.
StepsLeft ==
    IF pc \in Ended THEN 0
    ELSE IF pc \in {"second", "master"} THEN 3
    ELSE IF pc \in {"first", "delete", "pause"} \/ (pc = "bootstrap" /\ cluster # run)
         THEN 2
    ELSE 1

\* After the signal every step of the command brings it nearer to its end, and
\* nobody else sets it back.
StopsSoon ==
    [][ctx = "cancelled" =>
          /\ Tool => StepsLeft' < StepsLeft
          /\ pc \notin Ended => ctx' = "cancelled" /\ StepsLeft' <= StepsLeft]_vars
=============================================================================
