---------------------------- MODULE ClusterDrain ----------------------------
(***************************************************************************)
(* ClusterDrainer.DeleteCluster of pkg/drain/drain.go.  A pass goes        *)
(* through the phases in order; a phase reads what is left of its kinds    *)
(* and deletes it, until a read finds nothing.  An error of a deletion     *)
(* ends the pass and, after a pause, a new pass starts from the first      *)
(* phase.  The error of a read is dropped (k8sNetwork, _, _ := ...): the   *)
(* phase then believes that nothing is left.                               *)
(***************************************************************************)
EXTENDS HCloud

VARIABLES
    phase,  \* the delete function processDeleteCluster is in
    found,  \* what the reads of this phase found and is not deleted yet
    blind   \* history: phases of this pass whose last read failed

drainVars == <<phase, found, blind>>

\* Mutant: volumes go before the servers that use them.
AfterVolumesFirst ==
    [networks       |-> "sshkeys",
     sshkeys        |-> "loadbalancers",
     loadbalancers  |-> "volumes",
     volumes        |-> "servers",
     servers        |-> "placementgroup",
     placementgroup |-> "firewalls",
     firewalls      |-> "end"]

\* Mutant: firewalls go before the servers they protect.
AfterFirewallsFirst ==
    [networks       |-> "sshkeys",
     sshkeys        |-> "loadbalancers",
     loadbalancers  |-> "firewalls",
     firewalls      |-> "servers",
     servers        |-> "placementgroup",
     placementgroup |-> "volumes",
     volumes        |-> "end"]

\* processDeleteCluster.
After == [networks       |-> "sshkeys",
          sshkeys        |-> "loadbalancers",
          loadbalancers  |-> "servers",
          servers        |-> "placementgroup",
          placementgroup |-> "firewalls",
          firewalls      |-> "volumes",
          volumes        |-> "end"]

Phases == DOMAIN After

\* What the first and the second read of a phase select.
First == [networks       |-> {"network"},
          sshkeys        |-> {"sshkey"},
          loadbalancers  |-> {"loadbalancer"},
          servers        |-> {"master"},
          placementgroup |-> {"placementgroup"},
          firewalls      |-> {"fwcontrolplane", "fwworkers"},
          volumes        |-> {"volume"}]

Second == [networks       |-> {},
           sshkeys        |-> {},
           loadbalancers  |-> {"servicelb"},
           servers        |-> {"worker"},
           placementgroup |-> {},
           firewalls      |-> {},
           volumes        |-> {}]

DrainPc == {"first", "second", "delete", "sleep"}

\* After the last read of a round: delete what it found, or go on.
RoundRead ==
    IF found' # {} THEN pc' = "delete" /\ UNCHANGED phase
    ELSE IF After[phase] = "end" THEN pc' = "deleted" /\ UNCHANGED phase
    ELSE pc' = "first" /\ phase' = After[phase]

\* The top of every phase's loop: for ctx.Err() == nil.
ReadFirst ==
    /\ pc = "first"
    /\ ctx = "live"
    /\ \/ ReadOk(First[phase], found') /\ blind' = blind \ {phase}
       \/ (ReadFails \/ ReadCancelled) /\ found' = {} /\ blind' = blind \cup {phase}
    /\ IF Second[phase] = {} THEN RoundRead
       ELSE pc' = "second" /\ UNCHANGED phase

ReadSecond ==
    /\ pc = "second"
    /\ \/ \E answer \in SUBSET OfKinds(Second[phase]) :
             /\ ReadOk(Second[phase], answer)
             /\ found' = found \cup answer
             /\ UNCHANGED blind
       \/ ReadFails /\ UNCHANGED found /\ blind' = blind \cup {phase}
    /\ RoundRead

\* What the first read found is deleted before what the second found.
Deletable ==
    {r \in found : r.kind \in First[phase]
                   \/ \A s \in found : s.kind \in Second[phase]}

DeleteFound ==
    /\ pc = "delete"
    /\ \E r \in Deletable :
          \/ /\ DeleteOk(r)
             /\ found' = found \ {r}
             /\ pc' = IF found' = {} THEN "first" ELSE "delete"
          \/ DeleteFails(r) /\ found' = {} /\ pc' = "sleep"
    /\ UNCHANGED <<phase, blind>>

\* A phase that finds the context cancelled returns its error.
PhaseCancelled ==
    /\ pc = "first"
    /\ ctx = "cancelled"
    /\ pc' = "sleep"
    /\ UNCHANGED <<cloudVars, phase, found, blind>>

\* DeleteCluster: utils.SleepContext, then the head of the loop.
Retry ==
    /\ pc = "sleep"
    /\ IF ctx = "live" THEN pc' = "first" /\ phase' = "networks" /\ blind' = {}
       ELSE pc' = "stopped" /\ UNCHANGED <<phase, blind>>
    /\ UNCHANGED <<cloudVars, found>>

DrainNext ==
    \/ ReadFirst
    \/ ReadSecond
    \/ DeleteFound
    \/ PhaseCancelled
    \/ Retry

-----------------------------------------------------------------------------
DrainInit ==
    /\ phase = "networks"
    /\ found = {}
    /\ blind = {}

DrainTypeOK ==
    /\ phase \in Phases
    /\ found \subseteq Resources
    /\ blind \subseteq Phases
=============================================================================
