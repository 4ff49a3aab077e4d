------------------------------- MODULE AdHoc -------------------------------
(***************************************************************************)
(* ApplicationAPI.ExecuteAdHoc of pkg/api/api.go: list the servers, run a  *)
(* command on all of them at once, report.                                 *)
(*                                                                         *)
(* listServers reads page after page, first the workers, then the masters. *)
(* A job is one goroutine, for a server found by one selector: a server    *)
(* both selectors match gets two jobs.  A job that succeeds writes its     *)
(* result under the mutex, a job that fails without it.  Overlapping       *)
(* writes of a Go map are undefined: the runtime may end the process, or   *)
(* entries may be lost.                                                    *)
(***************************************************************************)
EXTENDS Naturals, FiniteSets

CONSTANTS
    Server,   \* the servers of the project
    PageSize  \* servers per page of a list

ASSUME PageSizeAssumption == PageSize \in Nat \ {0}

VARIABLES
    matching,        \* the servers each selector matches
    asked,           \* runOnWorkers, runOnMasters
    copyNewScripts,
    ctx,             \* "live" or "cancelled"
    pc,              \* where the main goroutine is; how the command ended
    page,            \* servers of the list being read, so far
    found,           \* allServers, as jobs
    step,            \* where each job is
    mutex,           \* the job that holds it
    adhocStatus,     \* the result map: "none" where a server has no entry
    cut,             \* history: lists that failed or were cut short
    result,          \* history: what became of each job's command
    raced            \* history: two writes of the map have overlapped

arguments == <<matching, asked, copyNewScripts>>
lists == <<page, found, cut>>
jobs == <<step, mutex, adhocStatus, result, raced>>
vars == <<arguments, ctx, pc, lists, jobs>>

Selector == {"workers", "masters"}
Jobs == Selector \X Server
NoJob == <<>>

NameOf(j) == j[2]

\* Jobs between Lock and Unlock, and jobs in the middle of a write.
Holding == {j \in Jobs : step[j] \in {"locked", "saving", "saved"}}
Writing == {j \in Jobs : step[j] \in {"saving", "recording"}}

Ended == {"nothing", "reported", "fatal", "crashed", "exited"}

-----------------------------------------------------------------------------
(* listServers *)

After == [workers |-> "masters", masters |-> "launch"]

\* Mutant: the servers are put together without regard to their list.
ListDoneByName(sel, servers) ==
    /\ found' = found \cup servers
    /\ page' = {}
    /\ pc' = After[sel]

ListDone(sel, servers) ==
    /\ found' = found \cup {<<sel, s>> : s \in servers}
    /\ page' = {}
    /\ pc' = After[sel]

ListSkipped(sel) ==
    /\ pc = sel
    /\ sel \notin asked
    /\ ListDone(sel, {})
    /\ UNCHANGED <<arguments, ctx, cut, jobs>>

ListPage(sel) ==
    /\ pc = sel
    /\ sel \in asked
    /\ ctx = "live"
    /\ \E p \in SUBSET (matching[sel] \ page) :
          /\ Cardinality(p) \in 1..PageSize
          /\ page' = page \cup p
    /\ UNCHANGED <<arguments, ctx, pc, found, cut, jobs>>

\* Mutant: one page is taken for the whole list.
ListEndOnePage(sel) ==
    /\ pc = sel
    /\ sel \in asked
    /\ ctx = "live"
    /\ page # {} \/ matching[sel] = {}
    /\ ListDone(sel, page)
    /\ UNCHANGED <<arguments, ctx, cut, jobs>>

\* An empty page.
ListEnd(sel) ==
    /\ pc = sel
    /\ sel \in asked
    /\ ctx = "live"
    /\ page = matching[sel]
    /\ ListDone(sel, page)
    /\ UNCHANGED <<arguments, ctx, cut, jobs>>

\* The loop looks at the context between two pages: what it has so far is
\* its answer, without an error.
ListCut(sel) ==
    /\ pc = sel
    /\ sel \in asked
    /\ ctx = "cancelled"
    /\ ListDone(sel, page)
    /\ cut' = cut \cup {sel}
    /\ UNCHANGED <<arguments, ctx, jobs>>

\* The caller logs the error and goes on without this list.
ListFails(sel) ==
    /\ pc = sel
    /\ sel \in asked
    /\ ctx = "live"
    /\ ListDone(sel, {})
    /\ cut' = cut \cup {sel}
    /\ UNCHANGED <<arguments, ctx, jobs>>

-----------------------------------------------------------------------------
(* The main goroutine *)

Launch ==
    /\ pc = "launch"
    /\ pc' = IF found = {} THEN "nothing" ELSE "wait"
    /\ step' = [j \in Jobs |-> IF j \in found THEN "start" ELSE "idle"]
    /\ UNCHANGED <<arguments, ctx, lists, mutex, adhocStatus, result, raced>>

\* wg.Wait, and the loop over the result map.
Report ==
    /\ pc = "wait"
    /\ \A j \in found : step[j] = "done"
    /\ pc' = "reported"
    /\ UNCHANGED <<arguments, ctx, lists, jobs>>

-----------------------------------------------------------------------------
(* A job *)

Goes(j, from, to) ==
    /\ pc = "wait"
    /\ step[j] = from
    /\ step' = [step EXCEPT ![j] = to]

\* The server's address is there, or is not one.
Start(j) ==
    /\ \/ /\ Goes(j, "start", IF copyNewScripts THEN "copy" ELSE "exec")
          /\ UNCHANGED result
       \/ /\ Goes(j, "start", "record")
          /\ result' = [result EXCEPT ![j] = "error"]
    /\ UNCHANGED <<arguments, ctx, pc, lists, mutex, adhocStatus, raced>>

CopyScripts(j) ==
    /\ Goes(j, "copy", "exec")
    /\ UNCHANGED <<arguments, ctx, pc, lists, mutex, adhocStatus, result, raced>>

\* log.Fatal ends the process, whatever the other jobs are doing.
CopyFatal(j) ==
    /\ pc = "wait"
    /\ step[j] = "copy"
    /\ pc' = "fatal"
    /\ UNCHANGED <<arguments, ctx, lists, jobs>>

\* The command itself; its error may also be a lost answer.
Exec(j) ==
    /\ \/ Goes(j, "exec", "lock") /\ result' = [result EXCEPT ![j] = "ok"]
       \/ Goes(j, "exec", "record") /\ result' = [result EXCEPT ![j] = "error"]
    /\ UNCHANGED <<arguments, ctx, pc, lists, mutex, adhocStatus, raced>>

\* Mutant: the result is written without the mutex.
LockNothing(j) ==
    /\ Goes(j, "lock", "locked")
    /\ mutex' = j
    /\ UNCHANGED <<arguments, ctx, pc, lists, adhocStatus, result, raced>>

Lock(j) ==
    /\ Goes(j, "lock", "locked")
    /\ mutex = NoJob
    /\ mutex' = j
    /\ UNCHANGED <<arguments, ctx, pc, lists, adhocStatus, result, raced>>

WriteBegins(j) ==
    /\ Goes(j, "locked", "saving") \/ Goes(j, "record", "recording")
    /\ raced' = (raced \/ Writing # {})
    /\ UNCHANGED <<arguments, ctx, pc, lists, mutex, adhocStatus, result>>

\* Mutant: "ok" is written for every job.
WriteEndsOk(j) ==
    /\ \E kept \in SUBSET Server :
          /\ raced \/ kept = Server
          /\ adhocStatus' = [s \in Server |->
                IF s \notin kept THEN "none"
                ELSE IF s = NameOf(j) THEN "ok" ELSE adhocStatus[s]]
    /\ Goes(j, "saving", "saved") \/ Goes(j, "recording", "done")
    /\ UNCHANGED <<arguments, ctx, pc, lists, mutex, result, raced>>

\* After overlapping writes any entry may be missing.
WriteEnds(j) ==
    /\ Goes(j, "saving", "saved") \/ Goes(j, "recording", "done")
    /\ \E kept \in SUBSET Server :
          /\ raced \/ kept = Server
          /\ adhocStatus' = [s \in Server |->
                IF s \notin kept THEN "none"
                ELSE IF s = NameOf(j) THEN result[j] ELSE adhocStatus[s]]
    /\ UNCHANGED <<arguments, ctx, pc, lists, mutex, result, raced>>

\* Mutant: the mutex stays locked.
UnlockForgotten(j) ==
    /\ Goes(j, "saved", "done")
    /\ UNCHANGED <<arguments, ctx, pc, lists, mutex, adhocStatus, result, raced>>

Unlock(j) ==
    /\ Goes(j, "saved", "done")
    /\ mutex' = NoJob
    /\ UNCHANGED <<arguments, ctx, pc, lists, adhocStatus, result, raced>>

-----------------------------------------------------------------------------
(* Around the program *)

\* The Go runtime: "fatal error: concurrent map writes".
Crash ==
    /\ pc = "wait"
    /\ raced
    /\ pc' = "crashed"
    /\ UNCHANGED <<arguments, ctx, lists, jobs>>

Interrupt ==
    /\ pc \notin Ended
    /\ ctx = "live"
    /\ ctx' = "cancelled"
    /\ UNCHANGED <<arguments, pc, lists, jobs>>

\* The signal handler ends the process five seconds later.
Exit ==
    /\ pc \notin Ended
    /\ ctx = "cancelled"
    /\ pc' = "exited"
    /\ UNCHANGED <<arguments, ctx, lists, jobs>>

-----------------------------------------------------------------------------
Init ==
    /\ matching \in [Selector -> SUBSET Server]
    /\ asked \in SUBSET Selector
    /\ copyNewScripts \in BOOLEAN
    /\ ctx = "live"
    /\ pc = "workers"
    /\ page = {}
    /\ found = {}
    /\ step = [j \in Jobs |-> "idle"]
    /\ mutex = NoJob
    /\ adhocStatus = [s \in Server |-> "none"]
    /\ cut = {}
    /\ result = [j \in Jobs |-> "none"]
    /\ raced = FALSE

List(sel) ==
    \/ ListSkipped(sel)
    \/ ListPage(sel)
    \/ ListEnd(sel)
    \/ ListCut(sel)
    \/ ListFails(sel)

Main == Launch \/ Report \/ \E sel \in Selector : List(sel)

Job(j) ==
    \/ Start(j)
    \/ CopyScripts(j)
    \/ CopyFatal(j)
    \/ Exec(j)
    \/ Lock(j)
    \/ WriteBegins(j)
    \/ WriteEnds(j)
    \/ Unlock(j)

Next ==
    \/ Main
    \/ \E j \in Jobs : Job(j)
    \/ Crash
    \/ Interrupt
    \/ Exit

Spec == Init /\ [][Next]_vars

\* The scheduler runs every goroutine that can go on, and every call returns.
FairSpec == Spec /\ WF_vars(Main) /\ \A j \in Jobs : WF_vars(Job(j))

-----------------------------------------------------------------------------
(* Correctness *)

TypeOK ==
    /\ matching \in [Selector -> SUBSET Server]
    /\ asked \subseteq Selector
    /\ copyNewScripts \in BOOLEAN
    /\ ctx \in {"live", "cancelled"}
    /\ pc \in Selector \cup {"launch", "wait"} \cup Ended
    /\ page \subseteq Server
    /\ found \subseteq Jobs
    /\ step \in [Jobs -> {"idle", "start", "copy", "exec", "lock", "locked",
                          "saving", "saved", "record", "recording", "done"}]
    /\ mutex \in Jobs \cup {NoJob}
    /\ adhocStatus \in [Server -> {"none", "ok", "error"}]
    /\ cut \subseteq Selector
    /\ result \in [Jobs -> {"none", "ok", "error"}]
    /\ raced \in BOOLEAN

\* Two writes of the result map never overlap as long as the commands
\* succeed on all servers: the mutex sees to that, and only to that.
RaceOnlyOnFailure == raced => \E j \in found : result[j] = "error"

\* Every server that was asked for is reached, whatever the pages, unless a
\* list failed or a signal cut it short; and no other server is.
AllReached ==
    pc \notin Selector \cup {"exited"} =>
        /\ \A sel \in asked \ cut : {sel} \X matching[sel] \subseteq found
        /\ \A j \in found : j[1] \in asked /\ j[2] \in matching[j[1]]

\* A report without overlapping writes has an entry for every server found,
\* and each entry is the result of a command that is over on that server.
ReportTrue ==
    (pc = "reported" /\ ~raced) =>
        \A s \in Server :
            LET mine == {j \in found : NameOf(j) = s}
            IN IF mine = {} THEN adhocStatus[s] = "none"
               ELSE adhocStatus[s] \in {result[j] : j \in mine} \ {"none"}

\* No goroutine waits for ever, neither for the mutex nor for the others.
Ends == <>(pc \in Ended)

-----------------------------------------------------------------------------
(* What the project's own use of the tool relies on.                       *)

\* Makefile: adhoc is run under the race detector, with scripts that end in
\* a reboot and so fail on every server.
RaceFree == ~raced
=============================================================================
