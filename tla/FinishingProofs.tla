-------------------------- MODULE FinishingProofs --------------------------
(***************************************************************************)
(* PostInstall fills in the last loop of Bootstrap, for every set of       *)
(* tokens, every limit of the attempts and every number of masters.  Of    *)
(* the invariant of PostInstallProofs only the types are needed: the       *)
(* tokens do not decide where the loop goes.                               *)
(***************************************************************************)
EXTENDS Finishing, PostInstallProofs

BootNext == Boot!Tool \/ Boot!Interrupt \/ Boot!Exit \/ PatchCluster

\* What Bootstrap sees of the run: the place, the attempts, the context.
LEMMA BootVars ==
  ASSUME UNCHANGED <<pc, retryCount, ctx>> PROVE UNCHANGED Boot!vars
BY DEF Boot!vars, Boot!toolVars, Boot!serverVars, Boot!history, Place

\* The first master lets the user in.
LEMMA FirstMaster == Boot!LoginOk(1)
BY MasterCountAssumption DEF Boot!LoginOk, Boot!Fresh

\* The loop goes as the other two do.
LEMMA TopFills == ASSUME Top PROVE Boot!Top
<1>1. Place = "top" /\ Place' = pc'
  BY DEF Top, Place, Script
<1>2. CASE ctx = "cancelled" \/ retryCount > RetryTimeLimit
  <2>1. pc' = "failed" /\ UNCHANGED <<retryCount, ctx>>
    BY <1>2 DEF Top
  <2>2. Boot!Leave
    BY <1>1, <2>1 DEF Boot!Leave
  <2> QED
    BY <1>1, <1>2, <2>1, <2>2 DEF Boot!Top, Boot!serverVars
<1>3. CASE ~(ctx = "cancelled" \/ retryCount > RetryTimeLimit)
  <2>1. pc' = "wait" /\ retryCount' = retryCount + 1 /\ UNCHANGED ctx
    BY <1>3 DEF Top
  <2> QED
    BY <1>1, <1>3, <2>1 DEF Boot!Top, Boot!serverVars, Boot!Counted
<1> QED
  BY <1>2, <1>3

LEMMA WaitFills == ASSUME WaitForServer PROVE Boot!WaitForServer
<1>1. Place = "wait" /\ UNCHANGED <<retryCount, ctx>>
  BY DEF WaitForServer, Place, Script
<1>2. CASE pc' = "top"
  BY <1>1, <1>2
  DEF Place, Script, Boot!WaitForServer, Boot!Retry, Boot!serverVars, Boot!history
<1>3. CASE ctx = "live" /\ pc' \in {"copy", "prepare"}
  <2>1. Place' = "exec"
    BY <1>3 DEF Place, Script
  <2> QED
    BY <1>1, <1>3, <2>1, FirstMaster
    DEF Boot!WaitForServer, Boot!serverVars, Boot!history
<1> QED
  BY <1>2, <1>3 DEF WaitForServer

\* A failed command, or a lost connection, is fatal in either model.
LEMMA FailFills ==
  ASSUME pc \in {"copy", "onemaster"} \cup Script, pc' = "failed",
         UNCHANGED <<retryCount, ctx>>
  PROVE  Boot!Fatal
BY DEF Place, Script, Boot!Fatal, Boot!serverVars, Boot!history

\* The script ends, with one-master-mode.sh to come or not.
LEMMA PatchFills == ASSUME Patch PROVE Boot!ExecPostInstall
<1>1. Place = "exec" /\ Place' = (IF OneMaster THEN "onemaster" ELSE "created")
  BY DEF Patch, Goes, Place, Script
<1>2. UNCHANGED <<retryCount, ctx>>
  BY DEF Patch, Goes
<1> QED
  BY <1>1, <1>2, FirstMaster, MasterCountAssumption
  DEF Boot!ExecPostInstall, Boot!serverVars, Boot!history

LEMMA OneMasterFills == ASSUME OneMasterMode PROVE Boot!ExecOneMasterMode
BY FirstMaster
DEF OneMasterMode, Goes, Place, Script, Boot!ExecOneMasterMode, Boot!serverVars, Boot!history

\* From one command of the script to the next nothing is to be seen.
LEMMA ScriptFills ==
  ASSUME pc \in Script \cup {"copy"}, pc' \in Script, UNCHANGED <<retryCount, ctx>>
  PROVE  UNCHANGED Boot!vars
BY DEF Place, Boot!vars, Boot!toolVars, Boot!serverVars, Boot!history

\* Every step of a run is one of Bootstrap's, or a stutter.
LEMMA RunFills == ASSUME TypeOK, Run PROVE Boot!Tool \/ UNCHANGED Boot!vars
<1>1. CASE Top \/ WaitForServer
  BY <1>1, TopFills, WaitFills DEF Boot!Tool
<1>2. CASE Patch \/ OneMasterMode
  BY <1>2, PatchFills, OneMasterFills DEF Boot!Tool
<1>3. CASE Fail
  BY <1>3, FailFills DEF Fail, Boot!Tool
<1>4. CASE \/ CopyScripts \/ Prepare \/ Revoke \/ CreateToken \/ UnsetConfig \/ SetConfig
           \/ Scale \/ Helm
  <2>1. /\ pc \in Script \cup {"copy"} /\ pc' \in Script \cup {"failed"}
        /\ UNCHANGED <<retryCount, ctx>>
    BY <1>4
    DEF CopyScripts, Prepare, Revoke, CreateToken, UnsetConfig, SetConfig, Scale, Helm,
        Goes, Script
  <2> QED
    BY <2>1, FailFills, ScriptFills DEF Boot!Tool
<1> QED
  BY <1>1, <1>2, <1>3, <1>4 DEF Run

\* Around the run: only patch-cluster begins another one.
LEMMA AroundFills == ASSUME TypeOK, Around PROVE [BootNext]_(Boot!vars)
<1>1. CASE Interrupt
  <2>1. UNCHANGED Place /\ Place \notin {"created", "failed"}
    BY <1>1 DEF Interrupt, Place, Ended, Script, TypeOK, Loop
  <2> QED
    BY <1>1, <2>1
    DEF Interrupt, BootNext, Boot!Interrupt, Boot!Ended, Boot!toolVars, Boot!serverVars,
        Boot!history
<1>2. CASE Exit
  <2>1. Place' = "failed" /\ Place \notin {"created", "failed"}
    BY <1>2 DEF Exit, Loop, Place, Script
  <2> QED
    BY <1>2, <2>1
    DEF Exit, BootNext, Boot!Exit, Boot!Ended, Boot!serverVars, Boot!history
<1>3. CASE Expire \/ PodStarts \/ PodStops
  BY <1>3, BootVars DEF Expire, PodStarts, PodStops, tool
<1> QED
  BY <1>1, <1>2, <1>3 DEF Around, BootNext

LEMMA FillsStep == TypeOK /\ [Next]_vars => [BootNext]_(Boot!vars)
<1> SUFFICES ASSUME TypeOK, [Next]_vars PROVE [BootNext]_(Boot!vars)
  OBVIOUS
<1>1. CASE Run
  BY <1>1, RunFills DEF BootNext
<1>2. CASE Around
  BY <1>2, AroundFills
<1>3. CASE UNCHANGED vars
  BY <1>3, BootVars DEF vars, tool
<1> QED
  BY <1>1, <1>2, <1>3 DEF Next

-----------------------------------------------------------------------------
(* The theorem *)

\* postInstall, with all that its script does to the tokens and the
\* autoscaler, is the last loop that Bootstrap has.
THEOREM FinishingTheorem == Spec => FillsPost
<1>1. Init => Place = "top" /\ retryCount = 0 /\ ctx = "live"
  BY DEF Init, Place, Script
<1> QED
  BY <1>1, FillsStep, TypeCorrect, PTL DEF Spec, FillsPost, BootNext
=============================================================================
