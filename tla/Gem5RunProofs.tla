---------------------------- MODULE Gem5RunProofs ----------------------------
(* Proofs about Gem5Run, for any set of runs, any timeout, and SIGTERMs that *)
(* arrive between any two steps.                                             *)
EXTENDS Gem5Run, TLAPS

Dumping == {"serialize", "open", "close"}

(* Two records that differ at most in their kill_reason. *)
Agrees(a, b) ==
    a.status = b.status /\ a.return_code = b.return_code /\ a.running = b.running

(* Where the worker is determines what the current run and its process are. *)
Control ==
    /\ at \notin {"idle", "dead"} => cur \in Run
    /\ at \in Dumping => /\ run[cur].status # "Created"
                         /\ run[cur].status = "Spawning" => proc[cur] = "none"
                         /\ run[cur].status = "Running" => proc[cur] # "none"
    /\ at = "spawn" => run[cur].status = "Spawning" /\ proc[cur] = "none"
    /\ at \in {"install", "poll", "sleep"} =>
            run[cur].status \in {"Spawning", "Running"} /\ proc[cur] # "none"
    /\ at = "save" => Ended(cur)
    /\ \A r \in Run : run[r].status = "Created" => proc[r] = "none"
    /\ \A r \in Run : Ended(r) => ~run[r].running

(* What a dump in progress writes, and what it has written. *)
Dump ==
    /\ at \in {"open", "close"} => Agrees(buffer, run[cur])
    /\ at = "save" => info[cur] # Empty /\ (info[cur] # Torn => Agrees(info[cur], run[cur]))

RInv == RTypeOK /\ Control /\ Dump /\ OutcomeTrue /\ OneProcess /\ SavedRecordEnded

(* The invariant holds before the first run.                                *)
LEMMA InitRInv == RInit => RInv
<1> SUFFICES ASSUME RInit PROVE RInv
  OBVIOUS
<1>1. Created \in Record /\ Created.status = "Created"
  BY DEF Created, Record, Status
<1>2. RTypeOK
  <2>1. elapsed \in 0 .. Timeout + 1
    BY RunAssumption DEF RInit
  <2> QED BY <1>1, <2>1 DEF RInit, RTypeOK, Step, Process
<1>3. Control /\ Dump
  BY <1>1 DEF RInit, Control, Dump, Dumping, Ended
<1>4. OutcomeTrue /\ OneProcess /\ SavedRecordEnded
  BY <1>1 DEF RInit, OutcomeTrue, OneProcess, SavedRecordEnded
<1> QED BY <1>2, <1>3, <1>4 DEF RInv

(* A signal changes nothing but kill_reason in memory. *)
LEMMA KillType == \A p \in Process : Kill(p) \in Process
BY DEF Kill, Process

(* start_run() keeps it.                                                    *)
LEMMA StartRunRInv ==
    ASSUME RInv, NEW r \in Run, StartRun(r) PROVE RInv'
<1>1. run[r] \in Record
  BY DEF RInv, RTypeOK
<1>2. run' \in [Run -> Record] /\ run'[r].status = "Spawning" /\ ~(results[r] # Empty)
  BY <1>1 DEF RInv, RTypeOK, StartRun, Record, Status, SavedRecordEnded, Ended
<1>3. \A q \in Run \ {r} : run'[q] = run[q]
  BY DEF StartRun, RInv, RTypeOK
<1>4. RTypeOK'
  <2>1. elapsed' \in 0 .. Timeout + 1
    BY RunAssumption DEF StartRun
  <2> QED BY <1>2, <2>1 DEF RInv, RTypeOK, StartRun, Step
<1>5. Control' /\ Dump'
  BY <1>2, <1>3 DEF RInv, Control, Dump, StartRun, Dumping, Ended
<1>6. OutcomeTrue' /\ OneProcess' /\ SavedRecordEnded'
  BY <1>2, <1>3 DEF RInv, Control, OutcomeTrue, OneProcess, SavedRecordEnded, StartRun, Ended
<1> QED BY <1>4, <1>5, <1>6 DEF RInv

(* Writing the records to disk keeps it.                                    *)
LEMMA DumpRInv ==
    ASSUME RInv, Serialize \/ OpenInfo \/ CloseInfo PROVE RInv'
<1>0. cur \in Run /\ run[cur] \in Record
  BY DEF RInv, RTypeOK, Control, Serialize, OpenInfo, CloseInfo
<1>1. CASE Serialize
  BY <1>0, <1>1 DEF RInv, RTypeOK, Control, Dump, OutcomeTrue, OneProcess,
     SavedRecordEnded, Serialize, Step, Dumping, Agrees, Ended
<1>2. CASE OpenInfo
  BY <1>0, <1>2 DEF RInv, RTypeOK, Control, Dump, OutcomeTrue, OneProcess,
     SavedRecordEnded, OpenInfo, Step, Dumping, Agrees, Ended
<1>3. CASE CloseInfo
  <2>1. info'[cur] \in {Torn, buffer} /\ buffer \in Record /\ Agrees(buffer, run[cur])
    BY <1>0, <1>3 DEF RInv, RTypeOK, Dump, CloseInfo, Overlaid
  <2>2. info'[cur] # Empty
    BY <2>1, RunAssumption
  <2>3. /\ at' \in {"spawn", "sleep", "save"}
        /\ at' = "spawn" => run[cur].status = "Spawning"
        /\ at' = "sleep" => run[cur].status = "Running"
        /\ at' = "save" => run[cur].status \in {"Finished", "Failed"}
    BY <1>0, <1>3, <2>1 DEF RInv, Control, CloseInfo, AfterDump, Agrees, Record, Status, Dumping
  <2>4. RTypeOK'
    BY <1>3, <2>1, <2>3 DEF RInv, RTypeOK, CloseInfo, Step
  <2>5. Control' /\ Dump'
    BY <1>0, <1>3, <2>1, <2>2, <2>3 DEF RInv, Control, Dump, CloseInfo, Dumping, Agrees, Ended
  <2>6. OutcomeTrue' /\ OneProcess' /\ SavedRecordEnded'
    BY <1>3, <2>3 DEF RInv, OutcomeTrue, OneProcess, SavedRecordEnded, CloseInfo, Ended
  <2> QED BY <2>4, <2>5, <2>6 DEF RInv
<1> QED BY <1>1, <1>2, <1>3

(* Starting the gem5 process keeps it.                                      *)
LEMMA SpawnRInv ==
    ASSUME RInv, Popen \/ PopenFails \/ InstallHandler \/ Sleep \/ SaveResults PROVE RInv'
<1>0. cur \in Run /\ run[cur] \in Record
  BY DEF RInv, RTypeOK, Control, Popen, PopenFails, InstallHandler, Sleep, SaveResults
<1>1. CASE Popen
  BY <1>0, <1>1 DEF RInv, RTypeOK, Control, Dump, OutcomeTrue, OneProcess,
     SavedRecordEnded, Popen, Step, Process, Dumping, Ended
<1>2. CASE PopenFails
  BY <1>0, <1>2 DEF RInv, RTypeOK, Control, Dump, OutcomeTrue, OneProcess,
     SavedRecordEnded, PopenFails, Step, Dumping, Ended
<1>3. CASE InstallHandler
  BY <1>0, <1>3 DEF RInv, RTypeOK, Control, Dump, OutcomeTrue, OneProcess,
     SavedRecordEnded, InstallHandler, Step, Dumping, Ended
<1>4. CASE Sleep
  BY <1>0, <1>4, RunAssumption DEF RInv, RTypeOK, Control, Dump, OutcomeTrue, OneProcess,
     SavedRecordEnded, Sleep, Step, Dumping, Ended
<1>5. CASE SaveResults
  BY <1>0, <1>5 DEF RInv, RTypeOK, Control, Dump, OutcomeTrue, OneProcess,
     SavedRecordEnded, SaveResults, Step, Dumping, Agrees, Ended
<1> QED BY <1>1, <1>2, <1>3, <1>4, <1>5

(* A poll of a process that still runs keeps it.                            *)
LEMMA PollRunningRInv ==
    ASSUME RInv, NEW gone \in Process, PollRunning(gone) PROVE RInv'
<1>0. cur \in Run /\ run[cur] \in Record /\ at = "poll"
  BY DEF RInv, RTypeOK, Control, PollRunning
<1>1. run' \in [Run -> Record] /\ run'[cur].status = "Running"
  <2>1. PICK reason \in {run[cur].kill_reason, "timeout"} :
          run' = [run EXCEPT ![cur] = [run[cur] EXCEPT
                    !.status = "Running", !.running = TRUE, !.kill_reason = reason]]
    BY <1>0 DEF PollRunning
  <2>2. [run[cur] EXCEPT !.status = "Running", !.running = TRUE, !.kill_reason = reason]
          \in [status : {"Running"}, running : BOOLEAN,
               kill_reason : {"", "timeout", "sigterm"}, return_code : {"0", "other"}]
    BY <1>0 DEF Record
  <2> QED BY <1>0, <2>1, <2>2 DEF RInv, RTypeOK, Record, Status
<1>2. \A q \in Run \ {cur} : run'[q] = run[q] /\ proc'[q] = proc[q]
  BY DEF RInv, RTypeOK, PollRunning
<1>3. proc' \in [Run -> Process] /\ proc'[cur] # "none"
  BY <1>0, KillType DEF RInv, RTypeOK, PollRunning, Kill
<1>4. results[cur] = Empty
  BY <1>0 DEF RInv, Control, SavedRecordEnded, Ended
<1>5. RTypeOK'
  BY <1>1, <1>3 DEF RInv, RTypeOK, PollRunning, Step
<1>6. Control' /\ Dump'
  BY <1>0, <1>1, <1>2, <1>3 DEF RInv, Control, Dump, PollRunning, Dumping, Ended
<1>7. OutcomeTrue' /\ OneProcess' /\ SavedRecordEnded'
  BY <1>0, <1>1, <1>2, <1>4 DEF RInv, OutcomeTrue, OneProcess, SavedRecordEnded, PollRunning, Ended
<1> QED BY <1>5, <1>6, <1>7 DEF RInv

(* A poll that finds the process ended keeps it.                            *)
LEMMA PollDoneRInv ==
    ASSUME RInv, PollDone PROVE RInv'
<1>0. cur \in Run /\ run[cur] \in Record /\ at = "poll"
  BY DEF RInv, RTypeOK, Control, PollDone
<1>1. /\ run' \in [Run -> Record] /\ ~run'[cur].running
      /\ run'[cur].status = IF proc[cur] = "exited" THEN "Finished" ELSE "Failed"
  BY <1>0 DEF RInv, RTypeOK, PollDone, Record, Status
<1>2. \A q \in Run \ {cur} : run'[q] = run[q]
  BY DEF RInv, RTypeOK, PollDone
<1>4. results[cur] = Empty
  BY <1>0 DEF RInv, Control, SavedRecordEnded, Ended
<1>5. RTypeOK'
  BY <1>1 DEF RInv, RTypeOK, PollDone, Step
<1>6. Control' /\ Dump'
  BY <1>0, <1>1, <1>2 DEF RInv, Control, Dump, PollDone, Dumping, Ended
<1>7. OutcomeTrue' /\ OneProcess' /\ SavedRecordEnded'
  BY <1>0, <1>1, <1>2, <1>4 DEF RInv, OutcomeTrue, OneProcess, SavedRecordEnded, PollDone, Ended
<1> QED BY <1>5, <1>6, <1>7 DEF RInv

(* The exit of the process keeps it.                                        *)
LEMMA ExitRInv ==
    ASSUME RInv, NEW r \in Run, NEW outcome \in Process, Exit(r, outcome) PROVE RInv'
BY DEF RInv, RTypeOK, Control, Dump, OutcomeTrue, OneProcess, SavedRecordEnded, Exit,
   Dumping, Ended

(* SIGTERM keeps it.                                                        *)
LEMMA SigtermRInv ==
    ASSUME RInv, SigtermDefault \/ SigtermHandler PROVE RInv'
<1>1. CASE SigtermDefault
  BY <1>1 DEF RInv, RTypeOK, Control, Dump, OutcomeTrue, OneProcess,
     SavedRecordEnded, SigtermDefault, Step, Dumping, Ended
<1>2. CASE SigtermHandler
  <2>0. handler \in Run /\ run[handler] \in Record
    BY <1>2 DEF RInv, RTypeOK, SigtermHandler
  <2>1. run' \in [Run -> Record] /\ \A q \in Run : Agrees(run'[q], run[q])
    BY <1>2, <2>0 DEF RInv, RTypeOK, SigtermHandler, Record, Agrees
  <2>2. /\ proc' \in [Run -> Process]
        /\ \A q \in Run : proc'[q] = proc[q] \/ (proc[q] = "alive" /\ proc'[q] = "dying")
    BY <1>2, <2>0, KillType DEF RInv, RTypeOK, SigtermHandler, Kill
  <2>3. info'[handler] = run'[handler] /\ \A q \in Run \ {handler} : info'[q] = info[q]
    BY <1>2, <2>0 DEF RInv, RTypeOK, SigtermHandler
  <2>4. \A q \in Run : run'[q] # Empty /\ run'[q] # Torn
    BY <2>1, RunAssumption
  <2>5. RTypeOK'
    BY <1>2, <2>0, <2>1, <2>2 DEF RInv, RTypeOK, SigtermHandler
  <2>6. Control'
    BY <1>2, <2>1, <2>2 DEF RInv, Control, SigtermHandler, Dumping, Agrees, Ended
  <2>7. Dump'
    BY <1>2, <2>0, <2>1, <2>3, <2>4 DEF RInv, Control, Dump, SigtermHandler, Agrees
  <2>8. OutcomeTrue' /\ OneProcess'
    BY <1>2, <2>1, <2>2 DEF RInv, OutcomeTrue, OneProcess, SigtermHandler, Agrees
  <2>9. SavedRecordEnded'
    BY <1>2, <2>1 DEF RInv, SavedRecordEnded, SigtermHandler, Agrees, Ended
  <2> QED BY <2>5, <2>6, <2>7, <2>8, <2>9 DEF RInv
<1> QED BY <1>1, <1>2

(* The invariant of the supervisor. *)
THEOREM RunInvariant == RSpec => []RInv
<1>1. RInv /\ [RNext]_rvars => RInv'
  <2> SUFFICES ASSUME RInv, [RNext]_rvars PROVE RInv'
    OBVIOUS
  <2>1. CASE UNCHANGED rvars
    BY <2>1 DEF rvars, RInv, RTypeOK, Control, Dump, OutcomeTrue, OneProcess,
       SavedRecordEnded, Ended
  <2> QED BY <2>1, StartRunRInv, DumpRInv, SpawnRInv, PollRunningRInv, PollDoneRInv,
             ExitRInv, SigtermRInv DEF RNext, WorkerStep, ProcessStep
<1> QED BY <1>1, InitRInv, PTL DEF RSpec

(* The variables of the supervisor keep their types. *)
THEOREM RunTypes == RSpec => []RTypeOK
<1>1. RInv => RTypeOK
  BY DEF RInv
<1> QED BY <1>1, RunInvariant, PTL

(* Whenever SIGTERMs arrive, the reported outcome of a run is that of its  *)
(* gem5 process.                                                           *)
THEOREM OutcomeTheorem == RSpec => []OutcomeTrue
<1>1. RInv => OutcomeTrue
  BY DEF RInv
<1> QED BY <1>1, RunInvariant, PTL

(* A worker never has two gem5 processes. *)
THEOREM OneProcessTheorem == RSpec => []OneProcess
<1>1. RInv => OneProcess
  BY DEF RInv
<1> QED BY <1>1, RunInvariant, PTL

(* results.zip holds the record of a run that has ended. *)
THEOREM SavedTheorem == RSpec => []SavedRecordEnded
<1>1. RInv => SavedRecordEnded
  BY DEF RInv
<1> QED BY <1>1, RunInvariant, PTL

-----------------------------------------------------------------------------
(* A run that was not sent SIGTERM since its last poll. *)
Quiet(r) == run[r].kill_reason # "sigterm"

(* Its file is behind its record only while a dump is in progress, and its  *)
(* results are packed only at its end.                                      *)
InfoInv ==
    at # "dead" =>
    /\ \A r \in Run : Quiet(r) => /\ r # cur \/ at \notin Dumping => info[r] = run[r]
                                  /\ results[r] \in {Empty, run[r]}
    /\ at # "idle" => results[cur] = Empty
    /\ at \in {"open", "close"} /\ Quiet(cur) => buffer = run[cur]
    /\ at = "close" /\ Quiet(cur) => info[cur] = Empty

(* The steps of the worker.                                                 *)
LEMMA WorkerInfo ==
    ASSUME RInv, InfoInv, WorkerStep PROVE InfoInv'
<1>1. /\ at # "dead" /\ at # "idle" /\ cur \in Run /\ cur' = cur
  BY DEF RInv, Control, WorkerStep, Serialize, OpenInfo, CloseInfo, Popen, PopenFails,
     InstallHandler, PollRunning, Sleep, PollDone, SaveResults
<1>2. /\ run \in [Run -> Record] /\ info \in [Run -> Record \cup {Empty, Torn}]
      /\ results \in [Run -> Record \cup {Empty, Torn}]
  BY DEF RInv, RTypeOK
<1>3. CASE Serialize
  BY <1>1, <1>3 DEF InfoInv, Serialize, Quiet, Dumping
<1>4. CASE OpenInfo
  BY <1>1, <1>2, <1>4 DEF InfoInv, OpenInfo, Quiet, Dumping
<1>5. CASE CloseInfo
  <2>1. at' \notin Dumping /\ at' \notin {"idle", "dead"} /\ at = "close"
    BY <1>5 DEF CloseInfo, AfterDump, Dumping
  <2>2. Quiet(cur) => info'[cur] = run[cur]
    BY <1>1, <1>2, <1>5 DEF InfoInv, CloseInfo, Overlaid
  <2>3. \A r \in Run : r # cur => info'[r] = info[r]
    BY <1>2, <1>5 DEF CloseInfo
  <2> QED
    BY <1>1, <1>5, <2>1, <2>2, <2>3 DEF InfoInv, CloseInfo, Quiet, Dumping
<1>6. CASE Popen \/ PopenFails \/ InstallHandler \/ Sleep
  BY <1>1, <1>6 DEF InfoInv, Popen, PopenFails, InstallHandler, Sleep, Quiet, Dumping
<1>7. CASE (\E gone \in Process : PollRunning(gone)) \/ PollDone
  <2>1. /\ at' = "serialize" /\ at = "poll" /\ UNCHANGED <<info, results, buffer>>
        /\ \A r \in Run : r # cur => run'[r] = run[r]
    BY <1>1, <1>2, <1>7 DEF PollRunning, PollDone
  <2> QED
    BY <1>1, <2>1 DEF InfoInv, Quiet, Dumping
<1>8. CASE SaveResults
  <2>1. at = "save" /\ at' = "idle" /\ UNCHANGED <<run, info, buffer>>
        /\ results'[cur] = info[cur] /\ \A r \in Run : r # cur => results'[r] = results[r]
    BY <1>1, <1>2, <1>8 DEF SaveResults
  <2> QED
    BY <1>1, <2>1 DEF InfoInv, Quiet, Dumping
<1> QED
  BY <1>3, <1>4, <1>5, <1>6, <1>7, <1>8 DEF WorkerStep

(* Every step keeps the files behind only where they may be.                *)
LEMMA InfoStep ==
    ASSUME RInv, InfoInv, [RNext]_rvars PROVE InfoInv'
<1>1. /\ run \in [Run -> Record] /\ info \in [Run -> Record \cup {Empty, Torn}]
      /\ handler \in Run \cup {Nobody}
  BY DEF RInv, RTypeOK
<1>2. ASSUME NEW r \in Run, StartRun(r) PROVE InfoInv'
  <2>1. results[r] = Empty
    BY <1>2 DEF RInv, SavedRecordEnded, Ended, StartRun
  <2>2. /\ at = "idle" /\ at' = "serialize" /\ cur' = r
        /\ UNCHANGED <<info, results>> /\ \A q \in Run : q # r => run'[q] = run[q]
    BY <1>1, <1>2 DEF StartRun
  <2> QED
    BY <2>1, <2>2 DEF InfoInv, Quiet, Dumping
<1>3. CASE ProcessStep
  BY <1>3 DEF InfoInv, ProcessStep, Exit, Quiet, Dumping
<1>4. CASE SigtermDefault
  BY <1>4 DEF InfoInv, SigtermDefault
<1>5. CASE SigtermHandler
  <2>1. handler \in Run
    BY <1>1, <1>5 DEF SigtermHandler
  <2>2. /\ at' = at /\ cur' = cur /\ UNCHANGED <<results, buffer>> /\ at # "dead"
        /\ run'[handler].kill_reason = "sigterm"
        /\ \A q \in Run : q # handler => run'[q] = run[q] /\ info'[q] = info[q]
    BY <1>1, <1>5, <2>1 DEF SigtermHandler, Record
  <2>3. at \notin {"idle", "dead"} => cur \in Run
    BY DEF RInv, Control
  <2> QED
    BY <2>1, <2>2, <2>3 DEF InfoInv, Quiet, Dumping
<1>6. CASE UNCHANGED rvars
  BY <1>6 DEF InfoInv, rvars, Quiet, Dumping
<1> QED
  BY <1>2, <1>3, <1>4, <1>5, <1>6, WorkerInfo DEF RNext

(* Between two runs, info.json and the packed copy of every run that did    *)
(* not end with a SIGTERM are exact, for any set of runs and any timeout    *)
(* (dumpJson, saveResults).                                                 *)
THEOREM InfoTheorem == RSpec => []InfoExact
<1>1. RInit => InfoInv
  BY DEF RInit, InfoInv, Created, Quiet, Dumping
<1>2. RInv /\ InfoInv /\ [RNext]_rvars => InfoInv'
  BY InfoStep
<1>3. InfoInv => InfoExact
  BY DEF InfoInv, InfoExact, Quiet, Dumping
<1> QED BY <1>1, <1>2, <1>3, RunInvariant, PTL DEF RSpec
=============================================================================
