---------------------------- MODULE AdHocProofs ----------------------------
(***************************************************************************)
(* Proofs about AdHoc, for every set of servers and every page size: the   *)
(* types, who holds the mutex, why writes of the result map overlap only   *)
(* after a failure, that the lists are complete and the report true.       *)
(***************************************************************************)
EXTENDS AdHoc, TLAPS

Known(j) == j[1] \in asked /\ j[2] \in matching[j[1]]

\* A list that is over has brought every server of its selector, or is cut.
ListOver(sel) == sel \in asked \ cut => {sel} \X matching[sel] \subseteq found

Lists ==
    /\ \A j \in found : Known(j)
    /\ pc \in Selector => page \subseteq matching[pc]
    /\ pc \notin {"workers", "exited"} => ListOver("workers")
    /\ pc \notin Selector \cup {"exited"} => ListOver("masters")

\* Only jobs of servers that were found run.
OnlyFound == \A j \in Jobs : step[j] # "idle" => j \in found

MutexHeld == \A j \in Jobs : j \in Holding <=> mutex = j

\* The result of a command is known from the place of its job.
Results ==
    \A j \in Jobs :
        /\ step[j] \in {"idle", "start", "copy", "exec"} => result[j] = "none"
        /\ step[j] \in {"lock", "locked", "saving", "saved"} => result[j] = "ok"
        /\ step[j] \in {"record", "recording"} => result[j] = "error"
        /\ step[j] = "done" => result[j] # "none"

Written(s) == {j \in found : NameOf(j) = s /\ step[j] \in {"saved", "done"}}

\* The map is what the writes that are over have made it.
MapTrue ==
    ~raced => \A s \in Server :
        /\ Written(s) = {} => adhocStatus[s] = "none"
        /\ Written(s) # {} => \E j \in Written(s) : adhocStatus[s] = result[j]

\* No job has begun while the lists are read; all are done when it is reported.
InStep ==
    /\ pc \in Selector \cup {"launch"} => \A j \in Jobs : step[j] = "idle"
    /\ pc = "reported" => \A j \in found : step[j] = "done"

IInv ==
    /\ TypeOK
    /\ Lists
    /\ OnlyFound
    /\ MutexHeld
    /\ Results
    /\ RaceOnlyOnFailure
    /\ MapTrue
    /\ InStep

-----------------------------------------------------------------------------
(* The invariant *)

\* The mutex is free when it is held by no job.
LEMMA NoJobIsNone == NoJob \notin Jobs
BY DEF NoJob, Jobs

\* No list has been read, no job runs.
LEMMA InvInit == Init => IInv
<1> SUFFICES ASSUME Init PROVE IInv
  OBVIOUS
<1>1. TypeOK
  BY DEF Init, TypeOK, Selector, NoJob
<1>2. Lists /\ OnlyFound /\ Results /\ RaceOnlyOnFailure /\ InStep
  BY DEF Init, Lists, OnlyFound, Results, RaceOnlyOnFailure, InStep, Selector, Known, Ended
<1>3. MutexHeld
  BY NoJobIsNone DEF Init, MutexHeld, Holding
<1>4. MapTrue
  BY DEF Init, MapTrue, Written
<1> QED
  BY <1>1, <1>2, <1>3, <1>4 DEF IInv

\* What a list leaves alone, and what follows from that.
LEMMA ListKeeps ==
  ASSUME IInv, UNCHANGED jobs, UNCHANGED arguments, pc \in Selector \cup {"launch"},
         TypeOK', found \subseteq found', pc' \in Selector \cup {"launch"}
  PROVE  OnlyFound' /\ MutexHeld' /\ Results' /\ RaceOnlyOnFailure' /\ MapTrue' /\ InStep'
<1>1. UNCHANGED <<step, mutex, adhocStatus, result, raced, copyNewScripts>>
  BY DEF jobs, arguments
<1>2. \A j \in Jobs : step[j] = "idle"
  BY DEF IInv, InStep
<1>3. OnlyFound' /\ MutexHeld' /\ Results' /\ RaceOnlyOnFailure'
  BY <1>1 DEF IInv, OnlyFound, MutexHeld, Holding, Results, RaceOnlyOnFailure
<1>4. \A s \in Server : Written(s) = {}
  BY <1>2 DEF Written, IInv, TypeOK
<1>5. MapTrue'
  <2> SUFFICES ASSUME ~raced', NEW s \in Server
               PROVE  Written(s)' = {} /\ adhocStatus'[s] = "none"
    BY DEF MapTrue
  <2>1. adhocStatus[s] = "none"
    BY <1>1, <1>4 DEF IInv, MapTrue
  <2>2. Written(s)' = {j \in found' : NameOf(j) = s /\ step[j] \in {"saved", "done"}}
    BY <1>1 DEF Written, NameOf
  <2>3. \A j \in found' : step[j] \notin {"saved", "done"}
    BY <1>1, <1>2 DEF TypeOK
  <2> QED
    BY <1>1, <2>1, <2>2, <2>3
<1>6. InStep'
  BY <1>1, <1>2 DEF IInv, InStep, Selector, Ended, TypeOK
<1> QED
  BY <1>3, <1>5, <1>6

\* A step of listServers or of its caller.
LEMMA ListStep == ASSUME NEW sel \in Selector PROVE IInv /\ List(sel) => IInv'
<1> SUFFICES ASSUME IInv, List(sel) PROVE IInv'
  OBVIOUS
<1> USE DEF Selector
<1>a. UNCHANGED <<matching, asked, copyNewScripts, ctx>> /\ UNCHANGED jobs /\ pc = sel
  BY DEF List, ListSkipped, ListPage, ListEnd, ListCut, ListFails, arguments
<1>b. page \subseteq matching[sel] /\ matching[sel] \subseteq Server
  BY <1>a DEF IInv, Lists, TypeOK
<1>1. CASE ListPage(sel)
  <2>1. PICK p \in SUBSET (matching[sel] \ page) : page' = page \cup p
    BY <1>1 DEF ListPage
  <2>2. UNCHANGED <<pc, found, cut>>
    BY <1>1 DEF ListPage
  <2>3. TypeOK'
    BY <1>a, <1>b, <2>1, <2>2 DEF IInv, TypeOK, jobs
  <2>4. Lists'
    BY <1>a, <1>b, <2>1, <2>2 DEF IInv, Lists, Known, ListOver
  <2> QED
    BY <1>a, <2>2, <2>3, <2>4, ListKeeps DEF IInv, arguments
<1>2. CASE ~ListPage(sel)
  <2>1. PICK servers \in SUBSET matching[sel] :
          /\ ListDone(sel, servers)
          /\ sel \notin asked => servers = {} /\ UNCHANGED cut
          /\ \/ sel \in asked /\ servers = matching[sel] /\ UNCHANGED cut
             \/ sel \in asked /\ cut' = cut \cup {sel}
             \/ sel \notin asked
    BY <1>2, <1>b DEF List, ListSkipped, ListEnd, ListCut, ListFails
  <2>2. found' = found \cup ({sel} \X servers)
    BY <2>1 DEF ListDone
  <2>3. page' = {} /\ pc' = After[sel] /\ After[sel] \in {"masters", "launch"}
    BY <2>1 DEF ListDone, After
  <2>4. cut \subseteq cut' /\ cut' \subseteq cut \cup {sel}
    BY <2>1
  <2>5. TypeOK'
    BY <1>a, <1>b, <2>1, <2>2, <2>3, <2>4 DEF IInv, TypeOK, jobs, Jobs
  <2>6. \A j \in found' : Known(j)'
    <3>1. \A j \in found' : j \in found \/ (j[1] = sel /\ j[2] \in servers /\ servers # {})
      BY <2>2
    <3> QED
      BY <1>a, <2>1, <3>1 DEF IInv, Lists, Known
  <2>7. ListOver(sel)'
    BY <1>a, <2>1, <2>2 DEF ListOver
  <2>8. \A other \in Selector : ListOver(other) => ListOver(other)'
    BY <1>a, <2>2, <2>4 DEF ListOver
  <2>9. Lists'
    BY <1>a, <2>3, <2>6, <2>7, <2>8 DEF IInv, Lists, After
  <2> QED
    BY <1>a, <2>2, <2>3, <2>5, <2>9, ListKeeps DEF IInv, arguments
<1> QED
  BY <1>1, <1>2

\* The goroutines are started, or there is nothing to do.
LEMMA LaunchStep == IInv /\ Launch => IInv'
<1> SUFFICES ASSUME IInv, Launch PROVE IInv'
  OBVIOUS
<1>1. /\ pc = "launch" /\ pc' \in {"nothing", "wait"}
      /\ UNCHANGED <<matching, asked, copyNewScripts, ctx, page, found, cut, mutex,
                     adhocStatus, result, raced>>
      /\ \A j \in Jobs : step'[j] = IF j \in found THEN "start" ELSE "idle"
      /\ step' \in [Jobs -> {"start", "idle"}]
  BY DEF Launch, arguments, lists
<1>2. \A j \in Jobs : step[j] = "idle"
  BY <1>1 DEF IInv, InStep
<1>3. TypeOK'
  BY <1>1 DEF IInv, TypeOK, Ended
<1>4. Lists'
  BY <1>1 DEF IInv, Lists, Known, ListOver, Selector
<1>5. OnlyFound' /\ Results' /\ RaceOnlyOnFailure' /\ InStep'
  BY <1>1 DEF IInv, OnlyFound, Results, RaceOnlyOnFailure, InStep, Selector, Ended
<1>6. MutexHeld'
  BY <1>1, <1>2 DEF IInv, MutexHeld, Holding
<1>7. \A s \in Server : Written(s) = {} /\ Written(s)' = {}
  BY <1>1, <1>2 DEF Written, IInv, TypeOK
<1>8. MapTrue'
  BY <1>1, <1>7 DEF IInv, MapTrue
<1> QED
  BY <1>3, <1>4, <1>5, <1>6, <1>8 DEF IInv

\* The command ends, or its context does.
LEMMA EndStep ==
  IInv /\ (Report \/ Crash \/ Interrupt \/ Exit \/ \E j \in Jobs : CopyFatal(j)) => IInv'
<1> SUFFICES ASSUME IInv, Report \/ Crash \/ Interrupt \/ Exit \/ \E j \in Jobs : CopyFatal(j)
             PROVE  IInv'
  OBVIOUS
<1>1. UNCHANGED <<matching, asked, copyNewScripts, page, found, cut,
                  step, mutex, adhocStatus, result, raced>>
  BY DEF Report, Crash, Interrupt, Exit, CopyFatal, arguments, lists, jobs
<1>2. \/ pc' = pc /\ ctx' = "cancelled"
      \/ pc = "wait" /\ pc' = "reported" /\ UNCHANGED ctx /\ \A j \in found : step[j] = "done"
      \/ pc = "wait" /\ pc' \in {"crashed", "fatal"} /\ UNCHANGED ctx
      \/ pc' = "exited" /\ UNCHANGED ctx /\ ctx = "cancelled"
  BY DEF Report, Crash, Interrupt, Exit, CopyFatal
<1>3. TypeOK'
  BY <1>1, <1>2 DEF IInv, TypeOK, Ended
<1>4. Lists'
  BY <1>1, <1>2 DEF IInv, Lists, Known, ListOver, Selector
<1>5. OnlyFound' /\ Results' /\ RaceOnlyOnFailure' /\ MutexHeld' /\ MapTrue'
  BY <1>1 DEF IInv, OnlyFound, Results, RaceOnlyOnFailure, MutexHeld, Holding, MapTrue,
      Written, NameOf
<1>6. InStep'
  BY <1>1, <1>2 DEF IInv, InStep, Selector
<1> QED
  BY <1>3, <1>4, <1>5, <1>6 DEF IInv

-----------------------------------------------------------------------------
(* The jobs *)

\* One job moves while the command waits; lists and arguments stay.
JobMoves(j, to) ==
    /\ pc = "wait"
    /\ j \in Jobs
    /\ step[j] # "idle"
    /\ step[j] # "done"
    /\ step' = [step EXCEPT ![j] = to]
    /\ UNCHANGED <<arguments, ctx, pc, lists>>

\* What moving one job cannot disturb.
LEMMA JobKeeps ==
  ASSUME IInv, TypeOK', NEW j, NEW to, JobMoves(j, to), to = "copy" => copyNewScripts
  PROVE  Lists' /\ OnlyFound' /\ InStep' /\ \A k \in Jobs \ {j} : step'[k] = step[k]
<1>1. UNCHANGED <<matching, asked, copyNewScripts, ctx, pc, page, found, cut>>
  BY DEF JobMoves, arguments, lists
<1>2. step'[j] = to /\ \A k \in Jobs \ {j} : step'[k] = step[k]
  BY DEF JobMoves, IInv, TypeOK
<1>3. Lists'
  BY <1>1 DEF IInv, Lists, Known, ListOver
<1>4. OnlyFound'
  BY <1>1, <1>2 DEF JobMoves, IInv, OnlyFound
<1>5. InStep'
  BY <1>1, <1>2 DEF JobMoves, IInv, InStep, Selector
<1> QED
  BY <1>2, <1>3, <1>4, <1>5

\* A job that has not come to a write moves on, or learns its result.
LEMMA RunStep ==
  ASSUME NEW j \in Jobs PROVE IInv /\ (Start(j) \/ CopyScripts(j) \/ Exec(j)) => IInv'
<1> SUFFICES ASSUME IInv, Start(j) \/ CopyScripts(j) \/ Exec(j) PROVE IInv'
  OBVIOUS
<1>1. PICK to \in {"copy", "exec", "lock", "record"} :
        /\ JobMoves(j, to)
        /\ to = "copy" => copyNewScripts
        /\ to = "lock" => result' = [result EXCEPT ![j] = "ok"]
        /\ to = "record" => result' = [result EXCEPT ![j] = "error"]
        /\ to \in {"copy", "exec"} => UNCHANGED result
  BY DEF Start, CopyScripts, Exec, Goes, JobMoves
<1>2. step[j] \in {"start", "copy", "exec"} /\ UNCHANGED <<mutex, adhocStatus, raced, found>>
  BY DEF Start, CopyScripts, Exec, Goes, lists
<1>3. TypeOK'
  BY <1>1, <1>2 DEF IInv, TypeOK, JobMoves, arguments, lists
<1>4. Lists' /\ OnlyFound' /\ InStep' /\ \A k \in Jobs \ {j} : step'[k] = step[k]
  BY <1>1, <1>3, JobKeeps
<1>5. step'[j] = to /\ \A k \in Jobs \ {j} : result'[k] = result[k]
  BY <1>1 DEF JobMoves, IInv, TypeOK
<1>6. MutexHeld'
  BY <1>1, <1>2, <1>4, <1>5 DEF IInv, MutexHeld, Holding
<1>7. Results'
  <2>1. /\ to \in {"copy", "exec"} => result'[j] = "none"
        /\ to = "lock" => result'[j] = "ok"
        /\ to = "record" => result'[j] = "error"
    BY <1>1, <1>2 DEF IInv, Results, TypeOK
  <2> QED
    BY <1>4, <1>5, <2>1 DEF IInv, Results
<1>8. RaceOnlyOnFailure'
  <2> SUFFICES ASSUME raced' PROVE \E k \in found : result'[k] = "error"
    BY <1>2 DEF RaceOnlyOnFailure
  <2>1. PICK k \in found : result[k] = "error"
    BY <1>2 DEF IInv, RaceOnlyOnFailure
  <2>2. CASE k = j
    BY <1>2, <2>1, <2>2 DEF IInv, Results
  <2> QED
    BY <1>5, <2>1, <2>2 DEF IInv, TypeOK
<1>9. MapTrue'
  <2>1. \A s \in Server : Written(s)' = Written(s)
    BY <1>1, <1>2, <1>4, <1>5 DEF Written, NameOf, IInv, TypeOK
  <2>2. \A s \in Server : \A k \in Written(s) : result'[k] = result[k]
    BY <1>2, <1>5 DEF Written, IInv, TypeOK
  <2> QED
    BY <1>2, <2>1, <2>2 DEF IInv, MapTrue
<1> QED
  BY <1>3, <1>4, <1>6, <1>7, <1>8, <1>9 DEF IInv

\* The mutex is taken and given back.
LEMMA LockStep == ASSUME NEW j \in Jobs PROVE IInv /\ (Lock(j) \/ Unlock(j)) => IInv'
<1> SUFFICES ASSUME IInv, Lock(j) \/ Unlock(j) PROVE IInv'
  OBVIOUS
<1>1. \/ step[j] = "lock" /\ JobMoves(j, "locked") /\ mutex = NoJob /\ mutex' = j
      \/ step[j] = "saved" /\ JobMoves(j, "done") /\ mutex' = NoJob
  BY DEF Lock, Unlock, Goes, JobMoves
<1>a. \/ step[j] = "lock" /\ step'[j] = "locked" /\ mutex = NoJob /\ mutex' = j
      \/ step[j] = "saved" /\ step'[j] = "done" /\ mutex' = NoJob
  BY <1>1 DEF JobMoves, IInv, TypeOK
<1>2. PICK to \in {"locked", "done"} : JobMoves(j, to)
  BY <1>1
<1>3. UNCHANGED <<adhocStatus, result, raced, found>>
  BY <1>2 DEF Lock, Unlock, JobMoves, lists
<1>4. TypeOK'
  BY <1>1, <1>3 DEF IInv, TypeOK, JobMoves, arguments, lists
<1>5. Lists' /\ OnlyFound' /\ InStep' /\ \A k \in Jobs \ {j} : step'[k] = step[k]
  BY <1>2, <1>4, JobKeeps
<1>6. MutexHeld'
  BY <1>a, <1>5, NoJobIsNone DEF IInv, MutexHeld, Holding
<1>7. Results' /\ RaceOnlyOnFailure'
  BY <1>a, <1>3, <1>5 DEF IInv, Results, RaceOnlyOnFailure
<1>8. MapTrue'
  <2>1. \A s \in Server : Written(s)' = Written(s)
    BY <1>a, <1>3, <1>5 DEF Written, NameOf, IInv, TypeOK
  <2> QED
    BY <1>3, <2>1 DEF IInv, MapTrue
<1> QED
  BY <1>4, <1>5, <1>6, <1>7, <1>8 DEF IInv

\* A write begins.  If it meets another one, one of the two jobs does not
\* hold the mutex, and then it has failed.
LEMMA WriteBeginsStep == ASSUME NEW j \in Jobs PROVE IInv /\ WriteBegins(j) => IInv'
<1> SUFFICES ASSUME IInv, WriteBegins(j) PROVE IInv'
  OBVIOUS
<1>1. \/ step[j] = "locked" /\ JobMoves(j, "saving")
      \/ step[j] = "record" /\ JobMoves(j, "recording")
  BY DEF WriteBegins, Goes, JobMoves
<1>a. \/ step[j] = "locked" /\ step'[j] = "saving"
      \/ step[j] = "record" /\ step'[j] = "recording"
  BY <1>1 DEF JobMoves, IInv, TypeOK
<1>2. PICK to \in {"saving", "recording"} : JobMoves(j, to)
  BY <1>1
<1>3. UNCHANGED <<mutex, adhocStatus, result, found>> /\ raced' = (raced \/ Writing # {})
  BY DEF WriteBegins, lists
<1>4. TypeOK'
  <2>1. raced' \in BOOLEAN
    BY <1>3
  <2> QED
    BY <1>1, <1>3, <2>1 DEF IInv, TypeOK, JobMoves, arguments, lists
<1>5. Lists' /\ OnlyFound' /\ InStep' /\ \A k \in Jobs \ {j} : step'[k] = step[k]
  BY <1>2, <1>4, JobKeeps
<1>6. MutexHeld'
  BY <1>a, <1>3, <1>5 DEF IInv, MutexHeld, Holding
<1>7. Results'
  BY <1>a, <1>3, <1>5 DEF IInv, Results
<1>8. RaceOnlyOnFailure'
  <2>1. CASE raced
    BY <1>3, <2>1 DEF IInv, RaceOnlyOnFailure
  <2>2. ASSUME NEW k \in Writing PROVE \E f \in found : result[f] = "error"
    <3>1. k \in Jobs /\ step[k] \in {"saving", "recording"} /\ k # j
      BY <1>1, <2>2 DEF Writing
    <3>2. j \in found /\ k \in found
      BY <1>1, <3>1 DEF IInv, OnlyFound
    <3>3. ~(step[j] = "locked" /\ step[k] = "saving")
      BY <3>1 DEF IInv, MutexHeld, Holding
    <3>4. result[j] = "error" \/ result[k] = "error"
      BY <1>1, <3>1, <3>3 DEF IInv, Results
    <3> QED
      BY <3>2, <3>4
  <2> QED
    BY <1>3, <2>1, <2>2 DEF RaceOnlyOnFailure
<1>9. MapTrue'
  <2>1. \A s \in Server : Written(s)' = Written(s)
    BY <1>a, <1>3, <1>5 DEF Written, NameOf, IInv, TypeOK
  <2> QED
    BY <1>3, <2>1 DEF IInv, MapTrue
<1> QED
  BY <1>4, <1>5, <1>6, <1>7, <1>8, <1>9 DEF IInv

\* A write ends: the entry of the job's server is the job's result.
LEMMA WriteEndsStep == ASSUME NEW j \in Jobs PROVE IInv /\ WriteEnds(j) => IInv'
<1> SUFFICES ASSUME IInv, WriteEnds(j) PROVE IInv'
  OBVIOUS
<1>1. \/ step[j] = "saving" /\ JobMoves(j, "saved")
      \/ step[j] = "recording" /\ JobMoves(j, "done")
  BY DEF WriteEnds, Goes, JobMoves
<1>b. \/ step[j] = "saving" /\ step'[j] = "saved"
      \/ step[j] = "recording" /\ step'[j] = "done"
  BY <1>1 DEF JobMoves, IInv, TypeOK
<1>2. PICK to \in {"saved", "done"} : JobMoves(j, to)
  BY <1>1
<1>3. UNCHANGED <<mutex, raced, result, found>>
  BY DEF WriteEnds, lists
<1>4. PICK kept \in SUBSET Server :
        /\ raced \/ kept = Server
        /\ adhocStatus' = [s \in Server |->
              IF s \notin kept THEN "none"
              ELSE IF s = NameOf(j) THEN result[j] ELSE adhocStatus[s]]
  BY DEF WriteEnds
<1>a. result[j] \in {"ok", "error"} /\ j \in found /\ NameOf(j) \in Server
  BY <1>1 DEF IInv, Results, OnlyFound, NameOf, Jobs
<1>5. TypeOK'
  <2>1. adhocStatus' \in [Server -> {"none", "ok", "error"}]
    BY <1>4, <1>a DEF IInv, TypeOK
  <2> QED
    BY <1>1, <1>3, <2>1 DEF IInv, TypeOK, JobMoves, arguments, lists
<1>6. Lists' /\ OnlyFound' /\ InStep' /\ \A k \in Jobs \ {j} : step'[k] = step[k]
  BY <1>2, <1>5, JobKeeps
<1>7. MutexHeld'
  BY <1>b, <1>3, <1>6 DEF IInv, MutexHeld, Holding
<1>8. Results' /\ RaceOnlyOnFailure'
  BY <1>b, <1>3, <1>6, <1>a DEF IInv, Results, RaceOnlyOnFailure
<1>9. MapTrue'
  <2> SUFFICES ASSUME ~raced, NEW s \in Server
               PROVE  /\ Written(s)' = {} => adhocStatus'[s] = "none"
                      /\ Written(s)' # {} => \E k \in Written(s)' : adhocStatus'[s] = result[k]
    BY <1>3 DEF MapTrue
  <2>1. adhocStatus'[s] = IF s = NameOf(j) THEN result[j] ELSE adhocStatus[s]
    BY <1>4
  <2>2. CASE s = NameOf(j)
    <3>1. j \in Written(s)'
      BY <1>b, <1>3, <1>a, <2>2 DEF Written, NameOf
    <3> QED
      BY <2>1, <2>2, <3>1
  <2>3. CASE s # NameOf(j)
    <3>1. Written(s)' = Written(s)
      BY <1>b, <1>3, <1>6, <2>3 DEF Written, NameOf, IInv, TypeOK
    <3> QED
      BY <2>1, <2>3, <3>1 DEF IInv, MapTrue
  <2> QED
    BY <2>2, <2>3
<1> QED
  BY <1>5, <1>6, <1>7, <1>8, <1>9 DEF IInv

\* Every step keeps the invariant.
LEMMA InvNext == IInv /\ [Next]_vars => IInv'
<1> SUFFICES ASSUME IInv, [Next]_vars PROVE IInv'
  OBVIOUS
<1>1. CASE UNCHANGED vars
  BY <1>1 DEF vars, arguments, lists, jobs, IInv, TypeOK, Lists, Known, ListOver, OnlyFound,
      MutexHeld, Holding, Results, RaceOnlyOnFailure, MapTrue, Written, NameOf, InStep
<1>2. CASE Next
  BY <1>2, ListStep, LaunchStep, EndStep, RunStep, LockStep, WriteBeginsStep, WriteEndsStep
  DEF Next, Main, Job
<1> QED
  BY <1>1, <1>2

-----------------------------------------------------------------------------
(* Theorems *)

\* What Report may say follows from the map and the places of the jobs.
LEMMA InvReport == IInv => ReportTrue
<1> SUFFICES ASSUME IInv, pc = "reported", ~raced, NEW s \in Server
             PROVE  LET mine == {j \in found : NameOf(j) = s}
                    IN IF mine = {} THEN adhocStatus[s] = "none"
                       ELSE adhocStatus[s] \in {result[j] : j \in mine} \ {"none"}
  BY DEF ReportTrue
<1>1. \A j \in found : step[j] = "done" /\ result[j] # "none"
  BY DEF IInv, TypeOK, InStep, Results
<1>2. Written(s) = {j \in found : NameOf(j) = s}
  BY <1>1 DEF Written
<1> QED
  BY <1>1, <1>2 DEF IInv, MapTrue

\* AdHoc is at every step as its places in the code say.
THEOREM Invariant == Spec => []IInv
BY InvInit, InvNext, PTL DEF Spec

\* The variables of the command and of its goroutines keep their types.
THEOREM TypeCorrect == Spec => []TypeOK
<1>1. IInv => TypeOK
  BY DEF IInv
<1> QED
  BY <1>1, Invariant, PTL

\* Overlapping writes of the result map come only with a failed command.
THEOREM RaceTheorem == Spec => []RaceOnlyOnFailure
<1>1. IInv => RaceOnlyOnFailure
  BY DEF IInv
<1> QED
  BY <1>1, Invariant, PTL

\* The lists bring every server, whatever the size of a page.
THEOREM ReachedTheorem == Spec => []AllReached
<1>1. IInv => AllReached
  BY DEF IInv, AllReached, Lists, ListOver, Known, TypeOK, Selector
<1> QED
  BY <1>1, Invariant, PTL

\* A report without overlapping writes is complete and true.
THEOREM ReportTheorem == Spec => []ReportTrue
BY InvReport, Invariant, PTL

-----------------------------------------------------------------------------
(* Progress *)

\* The steps a job has before it, the longest way.
JobRank == [idle |-> 0, done |-> 0, saved |-> 1, recording |-> 1, saving |-> 2, record |-> 2,
            locked |-> 3, lock |-> 4, exec |-> 5, copy |-> 6, start |-> 7]

\* The goroutine of every job was started before wg.Wait.
AllStarted == pc = "wait" => \A j \in found : step[j] # "idle"

\* While the main goroutine has somebody to wait for, a job is there that does
\* not wait itself: neither it nor another has forgotten the mutex.
SomeoneGoes ==
    (pc = "wait" /\ \E j \in found : step[j] # "done") =>
        \E j \in found : step[j] # "done" /\ (step[j] = "lock" => mutex = NoJob)

\* No job does anything twice.
JobsForward ==
    [][pc = "wait" => \A j \in Jobs :
          step'[j] = step[j] \/ JobRank[step'[j]] < JobRank[step[j]]]_vars

\* The ranks, spelled out.
LEMMA JobRankFacts ==
    /\ JobRank["idle"] = 0 /\ JobRank["done"] = 0 /\ JobRank["saved"] = 1
    /\ JobRank["recording"] = 1 /\ JobRank["saving"] = 2 /\ JobRank["record"] = 2
    /\ JobRank["locked"] = 3 /\ JobRank["lock"] = 4 /\ JobRank["exec"] = 5
    /\ JobRank["copy"] = 6 /\ JobRank["start"] = 7
BY DEF JobRank

\* The steps of a job in the order of the code; the others' jobs stay.
LEMMA JobOnward ==
  TypeOK => \A j \in Jobs : Job(j) =>
    \/ UNCHANGED step /\ pc' = "fatal"
    \/ \E to \in DOMAIN JobRank \ {"idle"} :
         /\ step' = [step EXCEPT ![j] = to]
         /\ JobRank[to] < JobRank[step[j]]
         /\ UNCHANGED <<pc, found>>
<1> SUFFICES ASSUME TypeOK, NEW j \in Jobs, Job(j)
             PROVE  \/ UNCHANGED step /\ pc' = "fatal"
                    \/ \E to \in DOMAIN JobRank \ {"idle"} :
                         /\ step' = [step EXCEPT ![j] = to]
                         /\ JobRank[to] < JobRank[step[j]]
                         /\ UNCHANGED <<pc, found>>
  OBVIOUS
<1>1. CASE CopyFatal(j)
  <2>1. UNCHANGED step /\ pc' = "fatal"
    BY <1>1 DEF CopyFatal, jobs
  <2> QED
    BY <2>1
<1>2. CASE ~CopyFatal(j)
  <2>1. UNCHANGED <<pc, found>>
    BY <1>2 DEF Job, Start, CopyScripts, Exec, Lock, WriteBegins, WriteEnds, Unlock, lists
  <2>2. PICK from, to : /\ step[j] = from /\ step' = [step EXCEPT ![j] = to]
                        /\ <<from, to>> \in {<<"start", "copy">>, <<"start", "exec">>,
                              <<"start", "record">>, <<"copy", "exec">>, <<"exec", "lock">>,
                              <<"exec", "record">>, <<"lock", "locked">>,
                              <<"locked", "saving">>, <<"record", "recording">>,
                              <<"saving", "saved">>, <<"recording", "done">>,
                              <<"saved", "done">>}
    BY <1>2
    DEF Job, Start, CopyScripts, Exec, Lock, WriteBegins, WriteEnds, Unlock, Goes
  <2>3. to \in {"copy", "exec", "record", "lock", "locked", "saving", "recording", "saved",
                "done"} /\ JobRank[to] < JobRank[from]
    BY <2>2, JobRankFacts
  <2>4. to \in DOMAIN JobRank \ {"idle"}
    BY <2>3 DEF JobRank
  <2> QED
    BY <2>1, <2>2, <2>3, <2>4
<1> QED
  BY <1>1, <1>2

\* What is not a job's step either leaves the jobs alone or is before the wait.
LEMMA OtherMoves ==
  ASSUME IInv, [Next]_vars, ~(\E j \in Jobs : Job(j))
  PROVE  \/ Launch
         \/ UNCHANGED step /\ (pc' = "wait" => pc = "wait" /\ UNCHANGED found)
<1>1. CASE \E sel \in Selector : List(sel)
  BY <1>1
  DEF List, ListSkipped, ListPage, ListEnd, ListCut, ListFails, ListDone, After, Selector, jobs
<1>2. CASE Report \/ Crash \/ Interrupt \/ Exit \/ UNCHANGED vars
  BY <1>2 DEF Report, Crash, Interrupt, Exit, vars, jobs, lists
<1> QED
  BY <1>1, <1>2 DEF Next, Main

\* Every job of the servers found is under way when the wait begins.
LEMMA AllStartedStep == IInv /\ AllStarted /\ [Next]_vars => AllStarted'
<1> SUFFICES ASSUME IInv, AllStarted, [Next]_vars PROVE AllStarted'
  OBVIOUS
<1>1. CASE \E j \in Jobs : Job(j)
  <2>1. PICK j \in Jobs : Job(j)
    BY <1>1
  <2>2. pc = "wait" /\ step \in [Jobs -> DOMAIN JobRank] /\ found \subseteq Jobs
    BY <2>1
    DEF Job, Start, CopyScripts, CopyFatal, Exec, Lock, WriteBegins, WriteEnds, Unlock, Goes,
        IInv, TypeOK, JobRank
  <2>3. \/ UNCHANGED step /\ pc' = "fatal"
        \/ \E to \in DOMAIN JobRank \ {"idle"} :
             /\ step' = [step EXCEPT ![j] = to]
             /\ JobRank[to] < JobRank[step[j]]
             /\ UNCHANGED <<pc, found>>
    BY <2>1, JobOnward DEF IInv
  <2>4. CASE pc' = "fatal"
    BY <2>4 DEF AllStarted
  <2>5. CASE \E to \in DOMAIN JobRank \ {"idle"} :
               step' = [step EXCEPT ![j] = to] /\ UNCHANGED <<pc, found>>
    BY <2>2, <2>5 DEF AllStarted
  <2> QED
    BY <2>3, <2>4, <2>5
<1>2. CASE Launch
  BY <1>2 DEF Launch, lists, AllStarted, IInv, TypeOK
<1>3. CASE ~Launch /\ ~(\E j \in Jobs : Job(j))
  BY <1>3, OtherMoves DEF AllStarted
<1> QED
  BY <1>1, <1>2, <1>3

\* Whoever waits for the mutex waits for a job that found its server, has had
\* its answer and does not wait.
LEMMA WaitsForOne == IInv /\ AllStarted => SomeoneGoes
<1> SUFFICES ASSUME IInv, AllStarted, pc = "wait", NEW j \in found, step[j] # "done"
             PROVE  \E k \in found : step[k] # "done" /\ (step[k] = "lock" => mutex = NoJob)
  BY DEF SomeoneGoes
<1>1. CASE step[j] # "lock" \/ mutex = NoJob
  BY <1>1
<1>2. CASE mutex # NoJob
  <2>1. mutex \in Jobs /\ mutex \in Holding
    BY <1>2 DEF IInv, TypeOK, MutexHeld
  <2>2. step[mutex] \in {"locked", "saving", "saved"}
    BY <2>1 DEF Holding
  <2>3. mutex \in found
    BY <2>1, <2>2 DEF IInv, OnlyFound
  <2> QED
    BY <2>2, <2>3
<1> QED
  BY <1>1, <1>2

\* One step takes one job forward, or none.
LEMMA ForwardStep ==
  IInv /\ [Next]_vars =>
     (pc = "wait" => \A j \in Jobs :
         step'[j] = step[j] \/ JobRank[step'[j]] < JobRank[step[j]])
<1> SUFFICES ASSUME IInv, [Next]_vars, pc = "wait", NEW j \in Jobs
             PROVE  step'[j] = step[j] \/ JobRank[step'[j]] < JobRank[step[j]]
  OBVIOUS
<1>1. CASE \E k \in Jobs : Job(k)
  <2>1. PICK k \in Jobs : Job(k)
    BY <1>1
  <2>2. step \in [Jobs -> DOMAIN JobRank] /\ TypeOK
    BY DEF IInv, TypeOK, JobRank
  <2>3. \/ UNCHANGED step
        \/ \E to \in DOMAIN JobRank \ {"idle"} :
             /\ step' = [step EXCEPT ![k] = to]
             /\ JobRank[to] < JobRank[step[k]]
    BY <2>1, <2>2, JobOnward
  <2> QED
    BY <2>2, <2>3
<1>2. CASE ~(\E k \in Jobs : Job(k))
  <2>1. ~Launch
    BY DEF Launch
  <2> QED
    BY <1>2, <2>1, OtherMoves
<1> QED
  BY <1>1, <1>2

\* Nobody waits for somebody who waits, and nobody goes round in circles: the
\* safety that Ends rests on, for every number of servers.
THEOREM ProgressTheorem == Spec => []SomeoneGoes /\ JobsForward
<1>1. Init => AllStarted
  BY DEF Init, AllStarted
<1>2. IInv /\ [Next]_vars =>
        [pc = "wait" => \A j \in Jobs :
            step'[j] = step[j] \/ JobRank[step'[j]] < JobRank[step[j]]]_vars
  BY ForwardStep
<1> QED
  BY <1>1, <1>2, AllStartedStep, WaitsForOne, Invariant, PTL DEF Spec, JobsForward
=============================================================================
