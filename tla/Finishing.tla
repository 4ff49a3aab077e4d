----------------------------- MODULE Finishing -----------------------------
(***************************************************************************)
(* The last loop of NewCluster: PostInstall in the place of the abstract   *)
(* steps of Bootstrap for it, which know nothing of tokens, the configmap  *)
(* and the autoscaler.  Creation puts Bootstrap in the place of the        *)
(* abstract steps of Lifecycle; together they lead from the command of a   *)
(* user down to the commands of post-install.sh.                           *)
(***************************************************************************)
EXTENDS PostInstall

CONSTANT MasterCount  \* config.MasterCount

ASSUME MasterCountAssumption ==
    MasterCount \in Nat \ {0} /\ (OneMaster <=> MasterCount = 1)

\* For NewCluster the script is one command over ssh.
Place ==
    IF pc \in Script \cup {"copy"} THEN "exec"
    ELSE IF pc = "ok" THEN "created"
    ELSE pc

\* The servers as the loops before may leave them, which postInstall does not
\* look at, but for the first: it is a member, and the user may log in.
Boot ==
    INSTANCE Bootstrap
    WITH loop <- "post", pc <- Place, m <- 1, user <- "ubuntu",
         stage <- [s \in 1..MasterCount |-> 3],
         kube <- [s \in 1..MasterCount |-> "member"],
         inits <- 1, tries <- [s \in 1..MasterCount |-> 1]

-----------------------------------------------------------------------------
(* Correctness *)

\* postInstall does nothing that Bootstrap does not allow in its last loop:
\* it makes no more attempts, tries nothing again once the script has begun,
\* runs one-master-mode.sh in a cluster of one only and always there, and
\* reports a cluster only after that.  A run that has ended stays as it is
\* until the operator runs patch-cluster.
FillsPost ==
    /\ Place = "top" /\ retryCount = 0 /\ ctx = "live"
    /\ [][Boot!Tool \/ Boot!Interrupt \/ Boot!Exit \/ PatchCluster]_(Boot!vars)
=============================================================================
