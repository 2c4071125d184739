------------------------------- MODULE Gem5Run -------------------------------
(***************************************************************************)
(* One worker of the simulation sweep (run.py, gem5Run; launch.py and      *)
(* jobs.py, worker). It takes runs one at a time; for each it spawns gem5, *)
(* polls it every few seconds, kills it after a timeout, records its state *)
(* in the run's info.json and finally packs the results. A SIGTERM (from   *)
(* the end of the pool, or a user) may arrive between any two steps: the   *)
(* handler is the closure of the last run that installed one.              *)
(***************************************************************************)
EXTENDS Naturals

CONSTANTS
    Run,        \* the runs this worker is given
    Nobody,     \* no run
    Timeout,    \* timeout, in polls
    Empty,      \* a file that does not exist, or has just been truncated
    Torn        \* a file that no longer parses

VARIABLES
    at,         \* the step of the worker: see Step
    cur,        \* the run it is executing
    handler,    \* the run whose handler SIGTERM calls; Nobody: SIGTERM kills
    run,        \* the gem5Run objects
    proc,       \* the gem5 process of each run
    info,       \* info.json of each run
    buffer,     \* what the dumpJson() in progress is going to write
    results,    \* info.json inside results.zip of each run
    elapsed     \* polls since start_time, up to Timeout + 1

rvars == <<at, cur, handler, run, proc, info, buffer, results, elapsed>>

Step == {"idle", "spawn", "install", "poll", "sleep", "save", "dead",
         "serialize", "open", "close"}

Status == {"Created", "Spawning", "Running", "Finished", "Failed"}

(* What follows each dumpJson() of run(). *)
AfterDump(status) ==
    CASE status = "Spawning" -> "spawn"
      [] status = "Running"  -> "sleep"
      [] OTHER               -> "save"

Record == [status : Status, running : BOOLEAN,
           kill_reason : {"", "timeout", "sigterm"}, return_code : {"0", "other"}]

(* The outcome of a process; a dying one has been sent SIGKILL. *)
Process == {"none", "alive", "dying", "exited", "crashed", "killed"}

ASSUME RunAssumption ==
    /\ Nobody \notin Run /\ Timeout \in Nat
    /\ Empty \notin Record /\ Torn \notin Record /\ Empty # Torn

(* Mutant: a return code that has no value until the run ends. *)
CreatedWithoutCode == [status |-> "Created", running |-> FALSE,
                       kill_reason |-> "", return_code |-> "None"]

Created == [status |-> "Created", running |-> FALSE,
            kill_reason |-> "", return_code |-> "0"]

(* createSERun() has been called for every run before the pool starts. *)
RInit ==
    /\ at = "idle" /\ cur = Nobody /\ handler = Nobody
    /\ run = [r \in Run |-> Created]
    /\ proc = [r \in Run |-> "none"]
    /\ info = [r \in Run |-> Created]
    /\ buffer = Created
    /\ results = [r \in Run |-> Empty]
    /\ elapsed = 0

-----------------------------------------------------------------------------
Kill(p) == IF p = "alive" THEN "dying" ELSE p

(* dumpJson(): the record is serialised, info.json is truncated, and what   *)
(* was buffered is written when the file is closed. If a handler has        *)
(* written the file in between, a shorter record leaves the tail of the     *)
(* longer one behind it.                                                    *)
Serialize ==
    /\ at = "serialize"
    /\ at' = "open"
    /\ buffer' = run[cur]
    /\ UNCHANGED <<cur, handler, run, proc, info, results, elapsed>>

OpenInfo ==
    /\ at = "open"
    /\ at' = "close"
    /\ info' = [info EXCEPT ![cur] = Empty]
    /\ UNCHANGED <<cur, handler, run, proc, buffer, results, elapsed>>

Overlaid(old, new) ==
    IF old # Empty /\ new.kill_reason = "" /\ old.kill_reason # "" THEN Torn ELSE new

CloseInfo ==
    /\ at = "close"
    /\ at' = AfterDump(buffer.status)
    /\ info' = [info EXCEPT ![cur] = Overlaid(@, buffer)]
    /\ UNCHANGED <<cur, handler, run, proc, buffer, results, elapsed>>

(* The pool hands a run to the worker. *)
StartRun(r) ==
    /\ at = "idle"
    /\ run[r].status = "Created"
    /\ cur' = r
    /\ run' = [run EXCEPT ![r].status = "Spawning"]
    /\ at' = "serialize"
    /\ elapsed' = 0
    /\ UNCHANGED <<handler, proc, info, buffer, results>>

Popen ==
    /\ at = "spawn"
    /\ proc' = [proc EXCEPT ![cur] = "alive"]
    /\ at' = "install"
    /\ UNCHANGED <<cur, handler, run, info, buffer, results, elapsed>>

(* Popen raises: the exception ends the pool's task, not the worker. *)
PopenFails ==
    /\ at = "spawn"
    /\ at' = "idle"
    /\ UNCHANGED <<cur, handler, run, proc, info, buffer, results, elapsed>>

InstallHandler ==
    /\ at = "install"
    /\ handler' = cur
    /\ at' = "poll"
    /\ UNCHANGED <<cur, run, proc, info, buffer, results, elapsed>>

(* Mutant: a timeout that is recorded but kills nothing. *)
PollRunningNoKill(gone) ==
    /\ at = "poll"
    /\ proc[cur] \in {"alive", "dying"}
    /\ gone = proc[cur]
    /\ run' = [run EXCEPT ![cur] = [@ EXCEPT !.status = "Running", !.running = TRUE]]
    /\ at' = "serialize"
    /\ UNCHANGED <<cur, handler, proc, info, buffer, results, elapsed>>

(* The poll finds the process running; gem5 may still exit before the body  *)
(* of the loop reaches proc.kill(), which then does nothing.                *)
PollRunning(gone) ==
    LET expired == elapsed > Timeout IN
    /\ at = "poll"
    /\ proc[cur] \in {"alive", "dying"}
    /\ gone \in IF proc[cur] = "alive" THEN {"alive", "exited", "crashed"} ELSE {"dying"}
    /\ proc' = [proc EXCEPT ![cur] = IF expired THEN Kill(gone) ELSE gone]
    /\ run' = [run EXCEPT ![cur] = [@ EXCEPT
            !.status = "Running", !.running = TRUE,
            !.kill_reason = IF expired THEN "timeout" ELSE run[cur].kill_reason]]
    /\ at' = "serialize"
    /\ UNCHANGED <<cur, handler, info, buffer, results, elapsed>>

Sleep ==
    /\ at = "sleep"
    /\ at' = "poll"
    /\ elapsed' = IF elapsed > Timeout THEN elapsed ELSE elapsed + 1
    /\ UNCHANGED <<cur, handler, run, proc, info, buffer, results>>

(* Mutants: the return code ignored; the final dumpJson() left out; a        *)
(* process taken for gone as soon as it was sent SIGKILL.                   *)
PollDoneAnyCode ==
    /\ at = "poll" /\ proc[cur] \in {"exited", "crashed", "killed"}
    /\ run' = [run EXCEPT ![cur] = [@ EXCEPT !.running = FALSE, !.status = "Finished"]]
    /\ at' = "serialize"
    /\ UNCHANGED <<cur, handler, proc, info, buffer, results, elapsed>>
PollDoneNoDump ==
    /\ at = "poll" /\ proc[cur] \in {"exited", "crashed", "killed"}
    /\ run' = [run EXCEPT ![cur] = [@ EXCEPT !.running = FALSE,
            !.status = IF proc[cur] = "exited" THEN "Finished" ELSE "Failed"]]
    /\ at' = "save"
    /\ UNCHANGED <<cur, handler, proc, info, buffer, results, elapsed>>
PollDoneEarly ==
    /\ at = "poll" /\ proc[cur] \in {"dying", "exited", "crashed", "killed"}
    /\ run' = [run EXCEPT ![cur] = [@ EXCEPT !.running = FALSE,
            !.status = IF proc[cur] = "exited" THEN "Finished" ELSE "Failed"]]
    /\ at' = "serialize"
    /\ UNCHANGED <<cur, handler, proc, info, buffer, results, elapsed>>

PollDone ==
    LET code == IF proc[cur] = "exited" THEN "0" ELSE "other" IN
    /\ at = "poll"
    /\ proc[cur] \in {"exited", "crashed", "killed"}
    /\ run' = [run EXCEPT ![cur] = [@ EXCEPT
            !.running = FALSE, !.return_code = code,
            !.status = IF code = "0" THEN "Finished" ELSE "Failed"]]
    /\ at' = "serialize"
    /\ UNCHANGED <<cur, handler, proc, info, buffer, results, elapsed>>

SaveResults ==
    /\ at = "save"
    /\ results' = [results EXCEPT ![cur] = info[cur]]
    /\ at' = "idle"
    /\ UNCHANGED <<cur, handler, run, proc, info, buffer, elapsed>>

-----------------------------------------------------------------------------
(* gem5 ends by itself, or by the SIGKILL it was sent. *)
Exit(r, outcome) ==
    /\ \/ proc[r] = "alive" /\ outcome \in {"exited", "crashed"}
       \/ proc[r] = "dying" /\ outcome = "killed"
    /\ proc' = [proc EXCEPT ![r] = outcome]
    /\ UNCHANGED <<at, cur, handler, run, info, buffer, results, elapsed>>

(* SIGTERM with no handler installed yet: the worker dies, its child lives. *)
SigtermDefault ==
    /\ at # "dead" /\ handler = Nobody
    /\ at' = "dead"
    /\ UNCHANGED <<cur, handler, run, proc, info, buffer, results, elapsed>>

(* SIGTERM runs the installed handler, between two steps of the worker. *)
SigtermHandler ==
    /\ at # "dead" /\ handler # Nobody
    /\ proc' = [proc EXCEPT ![handler] = Kill(@)]
    /\ run' = [run EXCEPT ![handler].kill_reason = "sigterm"]
    /\ info' = [info EXCEPT ![handler] = run'[handler]]
    /\ UNCHANGED <<at, cur, handler, buffer, results, elapsed>>

-----------------------------------------------------------------------------
WorkerStep ==
    \/ Serialize \/ OpenInfo \/ CloseInfo \/ Popen \/ PopenFails \/ InstallHandler
    \/ \E gone \in Process : PollRunning(gone)
    \/ Sleep \/ PollDone \/ SaveResults

ProcessStep == \E r \in Run, outcome \in Process : Exit(r, outcome)

RNext ==
    \/ \E r \in Run : StartRun(r)
    \/ WorkerStep \/ ProcessStep
    \/ SigtermDefault \/ SigtermHandler

RSpec == RInit /\ [][RNext]_rvars

(* The worker is scheduled, and a process that was sent SIGKILL dies; gem5  *)
(* itself may run forever.                                                  *)
RFairness ==
    /\ WF_rvars(WorkerStep)
    /\ \A r \in Run : WF_rvars(Exit(r, "killed"))

FairRSpec == RSpec /\ RFairness

-----------------------------------------------------------------------------
(***************************************************************************)
(* Properties.                                                             *)
(***************************************************************************)

(* Every variable keeps its type; a file is a record, empty or torn.       *)
RTypeOK ==
    /\ at \in Step /\ cur \in Run \cup {Nobody} /\ handler \in Run \cup {Nobody}
    /\ run \in [Run -> Record]
    /\ proc \in [Run -> Process]
    /\ info \in [Run -> Record \cup {Empty, Torn}]
    /\ buffer \in Record
    /\ results \in [Run -> Record \cup {Empty, Torn}]
    /\ elapsed \in 0 .. Timeout + 1

Ended(r) == run[r].status \in {"Finished", "Failed"}

(* A run is reported Finished only if gem5 exited by itself with code 0,   *)
(* and Failed only if it did not: a run that a timeout or a SIGTERM really *)
(* killed is never taken for a success, whenever the signal arrives.       *)
OutcomeTrue ==
    \A r \in Run :
        /\ run[r].status = "Finished" => proc[r] = "exited"
        /\ run[r].status = "Failed" => proc[r] \in {"crashed", "killed"}

(* A worker never runs two gem5 processes at once, so that a pool of N     *)
(* workers never overloads the machine, and only the run in progress has   *)
(* a process: a run that is not Created, Spawning or Running has none.     *)
OneProcess ==
    \A r \in Run :
        proc[r] \in {"alive", "dying"}
        => r = cur /\ at # "idle" /\ run[r].status \in {"Spawning", "Running"}

(* What results.zip holds is the record of the end of the run: no SIGTERM  *)
(* makes saveResults() pack an info.json of a run still in progress. (It   *)
(* may pack one that no longer parses.)                                    *)
SavedRecordEnded ==
    \A r \in Run :
        results[r] # Empty
        => /\ Ended(r)
           /\ results[r] # Torn => /\ results[r].status = run[r].status
                                   /\ results[r].return_code = run[r].return_code
                                   /\ ~results[r].running

(* Whenever the worker is between two runs, info.json of every run that    *)
(* does not end with a SIGTERM is exact, and so is its copy in             *)
(* results.zip: a SIGTERM spoils no other run, and a timeout that follows  *)
(* it is recorded like any other.                                          *)
InfoExact ==
    at = "idle" =>
        \A r \in Run : run[r].kill_reason # "sigterm"
                       => info[r] = run[r] /\ results[r] \in {Empty, run[r]}

(* run.py promises to "track its lifecycle (spawning, polling, timeout,    *)
(* result saving)": result saving being the last stage, nothing about a    *)
(* run changes once its results have been saved.                           *)
SavedIsFinal ==
    [][\A r \in Run :
         results[r] # Empty => run'[r] = run[r] /\ info'[r] = info[r]]_rvars

(* run.py promises to "track its lifecycle": when the worker is gone, no   *)
(* gem5 process that it spawned goes on without anybody to poll it, kill   *)
(* it at its timeout or save its results.                                  *)
NoOrphan == at = "dead" => \A r \in Run : proc[r] \notin {"alive", "dying"}

(* A run that starts ends, whatever gem5 does: the poll loop reaches the   *)
(* timeout, kills gem5, sees it gone and saves the results, unless the     *)
(* worker itself is terminated.                                            *)
RunEnds == at # "idle" ~> at \in {"idle", "dead"}
=============================================================================
