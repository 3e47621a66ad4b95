--------------------------- MODULE ProcessManager ---------------------------
(***************************************************************************)
(* The process manager (runtime-tools/src/process.rs): a request waits for *)
(* a permit, starts a child, stores its record and hands child and permit  *)
(* to a lifecycle task, which waits for the child or for its timeout, lets *)
(* two pumps copy the output, and writes the final status.  Kill requests, *)
(* retention, dropped requests and restarts come in between.               *)
(***************************************************************************)
EXTENDS Naturals, FiniteSets, FiniteSetsExt

CONSTANTS Calls,          \* request handlers
          Streams,        \* stdout and stderr
          None,
          Faults,         \* what may fail
          MaxConcurrent,  \* config.max_concurrent.max(1)
          MaxBytes,       \* config.max_output_bytes_per_process
          MaxChunk,       \* bound on the bytes of one read
          MaxOutput,      \* bound on the bytes a stream carries
          MaxIds,         \* bound on the ids handed out
          MaxCrashes      \* bound on the restarts

AllFaults == {"spawn", "store", "drop", "wait", "log"}

ASSUME ProcessConstants ==
    /\ Faults \subseteq AllFaults /\ IsFiniteSet(Calls)
    /\ MaxConcurrent \in Nat \ {0} /\ MaxChunk \in Nat \ {0}
    /\ MaxBytes \in Nat /\ MaxOutput \in Nat /\ MaxIds \in Nat /\ MaxCrashes \in Nat
    /\ None \notin Nat /\ None \notin {"running", "completed", "failed", "timed_out", "killed"}

VARIABLES record,          \* status of the managed processes, None if there is none
          disk,            \* status of the records in the store
          next_process_id,
          free,            \* permits left in the semaphore
          calls,           \* what each handler is doing
          child,           \* the operating system's process
          slot,            \* ManagedProcess.child still holds the child
          life,            \* where the lifecycle task is
          kill_requested,
          timed_out,
          wait_failed,     \* child.wait() returned an error
          signalled,       \* SIGKILL was sent to the child
          out,             \* the pumps
          crashes

vars == <<record, disk, next_process_id, free, calls, child, slot, life, kill_requested, timed_out,
          wait_failed, signalled, out, crashes>>

Ids == 1..MaxIds
Terminal == {"completed", "failed", "timed_out", "killed"}
Exited == {"ok", "error", "signal"}

Idle == [pc |-> "idle", id |-> None]

(***************************************************************************)
(* A pump before it runs, with the counters of ManagedProcess::new.  Of    *)
(* the tokio File it has the bytes of the write under way, the bytes in    *)
(* the log, whether it keeps an error for the next write, and whether      *)
(* bytes that were counted never reach the log.                            *)
(***************************************************************************)
NewPump == [open |-> FALSE, seen |-> 0, used |-> 0, truncated |-> FALSE,
            writing |-> 0, log |-> 0, error |-> FALSE, gap |-> FALSE]
NewPumps == [s \in Streams |-> NewPump]

Init ==
    /\ record = [p \in Ids |-> None] /\ disk = record
    /\ next_process_id = 1 /\ free = MaxConcurrent
    /\ calls = [c \in Calls |-> Idle]
    /\ child = [p \in Ids |-> "none"] /\ slot = [p \in Ids |-> FALSE]
    /\ life = [p \in Ids |-> "none"]
    /\ kill_requested = [p \in Ids |-> FALSE] /\ timed_out = kill_requested
    /\ wait_failed = kill_requested /\ signalled = kill_requested
    /\ out = [p \in Ids |-> NewPumps]
    /\ crashes = 0

Goto(c, pc) == calls' = [calls EXCEPT ![c].pc = pc]
Return(c) == calls' = [calls EXCEPT ![c] = Idle]

-----------------------------------------------------------------------------
(* run_process *)

(* The bound leaves an id for everybody who waits. *)
run_process(c) ==
    /\ calls[c].pc = "idle"
    /\ next_process_id + Cardinality({d \in Calls : calls[d].pc = "permit"}) <= MaxIds
    /\ Goto(c, "permit")
    /\ UNCHANGED <<record, disk, next_process_id, free, child, slot, life, kill_requested, timed_out,
                   wait_failed, signalled, out, crashes>>

(* A permit, an id and the child; without a child the permit goes back. *)
SpawnChild(c) ==
    /\ calls[c].pc = "permit" /\ free > 0
    /\ next_process_id' = next_process_id + 1
    /\ \/ /\ free' = free - 1
          /\ child' = [child EXCEPT ![next_process_id] = "running"]
          /\ calls' = [calls EXCEPT ![c] = [pc |-> "store", id |-> next_process_id]]
       \/ /\ "spawn" \in Faults
          /\ Return(c)
          /\ UNCHANGED <<free, child>>
    /\ UNCHANGED <<record, disk, slot, life, kill_requested, timed_out, wait_failed, signalled, out, crashes>>

(* The record is stored, or the child is sent SIGKILL. *)
StoreProcess(c) ==
    /\ calls[c].pc = "store"
    /\ \/ /\ disk' = [disk EXCEPT ![calls[c].id] = "running"]
          /\ Goto(c, "insert")
          /\ UNCHANGED signalled
       \/ /\ "store" \in Faults
          /\ Goto(c, "teardown")
          /\ signalled' = [signalled EXCEPT ![calls[c].id] = TRUE]
          /\ UNCHANGED disk
    /\ UNCHANGED <<record, next_process_id, free, child, slot, life, kill_requested, timed_out,
                   wait_failed, out, crashes>>

(* The request fails when the child has ended, or after two seconds.       *)
teardown_untracked_child(c) ==
    /\ calls[c].pc = "teardown"
    /\ free' = free + 1
    /\ Return(c)
    /\ UNCHANGED <<record, disk, next_process_id, child, slot, life, kill_requested, timed_out,
                   wait_failed, signalled, out, crashes>>

(* The process is published, its lifecycle task spawned. *)
InsertProcess(c) ==
    /\ calls[c].pc = "insert"
    /\ record' = [record EXCEPT ![calls[c].id] = "running"]
    /\ slot' = [slot EXCEPT ![calls[c].id] = TRUE]
    /\ life' = [life EXCEPT ![calls[c].id] = "start"]
    /\ Return(c)
    /\ UNCHANGED <<disk, next_process_id, free, child, kill_requested, timed_out, wait_failed,
                   signalled, out, crashes>>

(* Mutant: the child is left running. *)
DropCallOnly(c) ==
    /\ "drop" \in Faults /\ calls[c].pc \in {"permit", "insert", "teardown", "kill"}
    /\ Return(c)
    /\ free' = IF calls[c].pc \in {"insert", "teardown"} THEN free + 1 ELSE free
    /\ UNCHANGED <<record, disk, next_process_id, slot, life, kill_requested, timed_out, wait_failed,
                   child, signalled, out, crashes>>

(***************************************************************************)
(* The client goes away and the future is dropped where it waits: a child  *)
(* that nobody holds is sent SIGKILL (kill_on_drop), which nobody waits    *)
(* for, and the permit returned.                                           *)
(***************************************************************************)
DropCall(c) ==
    /\ "drop" \in Faults /\ calls[c].pc \in {"permit", "insert", "teardown", "kill"}
    /\ Return(c)
    /\ IF calls[c].pc \in {"insert", "teardown"}
       THEN /\ signalled' = [signalled EXCEPT ![calls[c].id] = TRUE]
            /\ free' = free + 1
       ELSE UNCHANGED <<signalled, free>>
    /\ UNCHANGED <<record, disk, next_process_id, child, slot, life, kill_requested, timed_out,
                   wait_failed, out, crashes>>

-----------------------------------------------------------------------------
(* kill_process and retention *)

kill_process(c, p) ==
    /\ calls[c].pc = "idle" /\ record[p] # None
    /\ kill_requested' = [kill_requested EXCEPT ![p] = TRUE]
    /\ calls' = [calls EXCEPT ![c] = [pc |-> "kill", id |-> p]]
    /\ UNCHANGED <<record, disk, next_process_id, free, child, slot, life, timed_out, wait_failed,
                   signalled, out, crashes>>

(* Only a child that the lifecycle task has not taken yet is killed here. *)
KillChild(c) ==
    /\ calls[c].pc = "kill"
    /\ signalled' = [signalled EXCEPT ![calls[c].id] = @ \/ slot[calls[c].id]]
    /\ Return(c)
    /\ UNCHANGED <<record, disk, next_process_id, free, child, slot, life, kill_requested, timed_out,
                   wait_failed, out, crashes>>

(* Listing forgets what ended long enough ago; the store keeps it. *)
cleanup_expired_terminal(p) ==
    /\ record[p] \in Terminal
    /\ record' = [record EXCEPT ![p] = None]
    /\ UNCHANGED <<disk, next_process_id, free, calls, child, slot, life, kill_requested, timed_out,
                   wait_failed, signalled, out, crashes>>

-----------------------------------------------------------------------------
(* run_lifecycle *)

(* The child is taken and its pumps are started; a log that cannot be      *)
(* opened ends its pump.                                                   *)
run_lifecycle(p) ==
    /\ life[p] = "start"
    /\ life' = [life EXCEPT ![p] = "waiting"] /\ slot' = [slot EXCEPT ![p] = FALSE]
    /\ \E S \in SUBSET Streams :
          /\ S = Streams \/ "log" \in Faults
          /\ out' = [out EXCEPT ![p] = [s \in Streams |-> [NewPump EXCEPT !.open = s \in S]]]
    /\ UNCHANGED <<record, disk, next_process_id, free, calls, child, kill_requested, timed_out,
                   wait_failed, signalled, crashes>>

(* The operating system: a child ends by itself or by the signal. *)
ChildExits(p) ==
    /\ child[p] = "running"
    /\ \E how \in Exited : /\ how = "signal" <=> signalled[p]
                           /\ child' = [child EXCEPT ![p] = how]
    /\ UNCHANGED <<record, disk, next_process_id, free, calls, slot, life, kill_requested, timed_out,
                   wait_failed, signalled, out, crashes>>

(* Mutant: the child is not killed. *)
TimeoutWithoutKill(p) ==
    /\ life[p] = "waiting"
    /\ life' = [life EXCEPT ![p] = "killing"]
    /\ timed_out' = [timed_out EXCEPT ![p] = TRUE]
    /\ UNCHANGED <<record, disk, next_process_id, free, calls, child, slot, kill_requested,
                   wait_failed, signalled, out, crashes>>

(* The sleep ends first, or is chosen when both are ready. *)
TimeoutFires(p) ==
    /\ life[p] = "waiting"
    /\ life' = [life EXCEPT ![p] = "killing"]
    /\ timed_out' = [timed_out EXCEPT ![p] = TRUE]
    /\ signalled' = [signalled EXCEPT ![p] = @ \/ child[p] = "running"]
    /\ UNCHANGED <<record, disk, next_process_id, free, calls, child, slot, kill_requested,
                   wait_failed, out, crashes>>

(* child.wait() returns. *)
WaitReturns(p) ==
    /\ life[p] \in {"waiting", "killing"} /\ child[p] \in Exited
    /\ life' = [life EXCEPT ![p] = "draining"]
    /\ UNCHANGED <<record, disk, next_process_id, free, calls, child, slot, kill_requested, timed_out,
                   wait_failed, signalled, out, crashes>>

(* child.wait() fails; what becomes of the child is not known any more. *)
WaitFails(p) ==
    /\ "wait" \in Faults /\ life[p] \in {"waiting", "killing"}
    /\ life' = [life EXCEPT ![p] = "draining"]
    /\ wait_failed' = [wait_failed EXCEPT ![p] = TRUE]
    /\ UNCHANGED <<record, disk, next_process_id, free, calls, child, slot, kill_requested, timed_out,
                   signalled, out, crashes>>

(* What write_all makes of a File: the write is begun, or the error of an  *)
(* earlier one is returned instead, which the pump ignores.                *)
written(pump, n) ==
    IF n = 0 THEN pump
    ELSE [pump EXCEPT !.writing = IF pump.error THEN 0 ELSE n, !.error = FALSE,
                      !.gap = @ \/ pump.error]

(* Mutant: the flag is looked at before the counter is advanced. *)
pumped_late_flag(pump, n) ==
    LET to_write == Min({MaxBytes - pump.used, n})
    IN  [written(pump, to_write) EXCEPT !.seen = @ + n, !.used = @ + to_write,
                                        !.truncated = @ \/ pump.used = MaxBytes]

(* Mutant: the chunk is not cut. *)
pumped_whole(pump, n) ==
    [written(pump, n) EXCEPT !.seen = @ + n, !.used = @ + n, !.truncated = @ \/ pump.used + n > MaxBytes]

(* What one read of n bytes makes of a pump: the bytes count as used       *)
(* whether they can be written or not.                                     *)
pumped(pump, n) ==
    LET to_write == Min({MaxBytes - pump.used, n})
    IN  [written(pump, to_write) EXCEPT !.seen = @ + n, !.used = @ + to_write,
                                        !.truncated = @ \/ to_write < n]

(* A write waits for the one before it. *)
pump_stream(p, s, n) ==
    /\ out[p][s].open /\ out[p][s].seen + n <= MaxOutput
    /\ out[p][s].writing = 0 \/ out[p][s].used = MaxBytes
    /\ out' = [out EXCEPT ![p][s] = pumped(@, n)]
    /\ UNCHANGED <<record, disk, next_process_id, free, calls, child, slot, life, kill_requested,
                   timed_out, wait_failed, signalled, crashes>>

(* The thread behind the File writes all bytes or, if it fails, some; also *)
(* when the File has been dropped.                                         *)
WriteEnds(p, s) ==
    /\ out[p][s].writing > 0
    /\ LET pump == out[p][s]
       IN  \E n \in 0..pump.writing :
              /\ n = pump.writing \/ "log" \in Faults
              /\ out' = [out EXCEPT ![p][s] = [pump EXCEPT !.log = pump.log + n, !.writing = 0,
                                                          !.error = n < pump.writing,
                                                          !.gap = pump.gap \/ n < pump.writing]]
    /\ UNCHANGED <<record, disk, next_process_id, free, calls, child, slot, life, kill_requested,
                   timed_out, wait_failed, signalled, crashes>>

(* End of the stream: everybody who inherited it has ended or closed it.   *)
(* The File is dropped without a flush.                                    *)
PumpEnds(p, s) ==
    /\ out[p][s].open
    /\ out' = [out EXCEPT ![p][s].open = FALSE]
    /\ UNCHANGED <<record, disk, next_process_id, free, calls, child, slot, life, kill_requested,
                   timed_out, wait_failed, signalled, crashes>>

(* Mutant: only a timeout is told apart. *)
StatusWithoutKill(p) ==
    CASE wait_failed[p] -> "failed"
      [] ~wait_failed[p] /\ timed_out[p] -> "timed_out"
      [] ~wait_failed[p] /\ ~timed_out[p] -> IF child[p] = "ok" THEN "completed" ELSE "failed"

(* An error of the wait hides the flags, and these the exit code. *)
FinalStatus(p) ==
    CASE wait_failed[p] -> "failed"
      [] ~wait_failed[p] /\ timed_out[p] -> "timed_out"
      [] ~wait_failed[p] /\ ~timed_out[p] /\ kill_requested[p] -> "killed"
      [] ~wait_failed[p] /\ ~timed_out[p] /\ ~kill_requested[p] ->
            IF child[p] = "ok" THEN "completed" ELSE "failed"

(* Mutant: the pumps are not awaited. *)
PumpsNotAwaited(p) == TRUE

(* stdout_task.await, stderr_task.await *)
PumpsEnded(p) == \A s \in Streams : ~out[p][s].open

(* Mutant: the permit stays with the process. *)
FinishKeepingPermit(p) ==
    /\ life[p] = "draining" /\ PumpsEnded(p)
    /\ life' = [life EXCEPT ![p] = "done"]
    /\ record' = [record EXCEPT ![p] = FinalStatus(p)]
    /\ disk' = record'
    /\ UNCHANGED <<next_process_id, free, calls, child, slot, kill_requested, timed_out, wait_failed,
                   signalled, out, crashes>>

(***************************************************************************)
(* The status is published and stored, an error of the store ignored; then *)
(* the child is dropped, which sends SIGKILL to one that was not waited    *)
(* for, and the permit.                                                    *)
(***************************************************************************)
FinishLifecycle(p) ==
    /\ life[p] = "draining" /\ PumpsEnded(p)
    /\ life' = [life EXCEPT ![p] = "done"]
    /\ record' = [record EXCEPT ![p] = FinalStatus(p)]
    /\ \/ disk' = [disk EXCEPT ![p] = FinalStatus(p)]
       \/ "store" \in Faults /\ UNCHANGED disk
    /\ signalled' = [signalled EXCEPT ![p] = @ \/ wait_failed[p]]
    /\ free' = free + 1
    /\ UNCHANGED <<next_process_id, calls, child, slot, kill_requested, timed_out, wait_failed, out,
                   crashes>>

-----------------------------------------------------------------------------
(* Restart *)

(* What was running when the process died has failed. *)
Recovered(status) == IF status = "running" THEN "failed" ELSE status

(* max_seq + 1 over all records that are found. *)
HydratedId == Max({p \in Ids : disk[p] # None} \cup {0}) + 1

(* The process dies and RuntimeProcessManager::new reads the store: the    *)
(* children run on, unknown to it.                                         *)
Crash ==
    /\ crashes < MaxCrashes /\ crashes' = crashes + 1
    /\ disk' = [p \in Ids |-> Recovered(disk[p])] /\ record' = disk'
    /\ next_process_id' = HydratedId
    /\ free' = MaxConcurrent
    /\ calls' = [c \in Calls |-> Idle]
    /\ child' = [p \in Ids |-> IF child[p] = "none" THEN "none" ELSE "gone"]
    /\ slot' = [p \in Ids |-> FALSE] /\ life' = [p \in Ids |-> "none"]
    /\ kill_requested' = slot' /\ timed_out' = slot' /\ wait_failed' = slot' /\ signalled' = slot'
    /\ out' = [p \in Ids |-> NewPumps]

-----------------------------------------------------------------------------
Lifecycle(p) == run_lifecycle(p) \/ WaitReturns(p) \/ WaitFails(p) \/ FinishLifecycle(p)
Pump(p, s) == PumpEnds(p, s) \/ WriteEnds(p, s) \/ \E n \in 1..MaxChunk : pump_stream(p, s, n)
RunStep(c) ==
    SpawnChild(c) \/ StoreProcess(c) \/ teardown_untracked_child(c) \/ InsertProcess(c) \/ KillChild(c)

Next ==
    \/ \E c \in Calls : run_process(c) \/ RunStep(c) \/ DropCall(c) \/ \E p \in Ids : kill_process(c, p)
    \/ \E p \in Ids :
          \/ Lifecycle(p) \/ TimeoutFires(p) \/ ChildExits(p) \/ cleanup_expired_terminal(p)
          \/ \E s \in Streams : Pump(p, s)
    \/ Crash

Spec == Init /\ [][Next]_vars

(* Tasks are scheduled, the semaphore serves its waiters in turn, timers   *)
(* fire, a child that was killed ends, and no descendant keeps a pipe      *)
(* open.  A child need not end by itself.                                  *)
Fairness ==
    /\ \A c \in Calls : SF_vars(RunStep(c))
    /\ \A p \in Ids : /\ WF_vars(Lifecycle(p)) /\ WF_vars(TimeoutFires(p))
                      /\ WF_vars(signalled[p] /\ ChildExits(p))
                      /\ \A s \in Streams : WF_vars(child[p] \in Exited /\ PumpEnds(p, s))

FairSpec == Spec /\ Fairness

-----------------------------------------------------------------------------
(* Properties *)

PumpType == [open : BOOLEAN, seen : 0..MaxOutput, used : 0..MaxBytes, truncated : BOOLEAN,
             writing : 0..MaxBytes, log : 0..MaxBytes, error : BOOLEAN, gap : BOOLEAN]

(* The shape of the state. *)
TypeOK ==
    /\ record \in [Ids -> Terminal \cup {"running", None}]
    /\ disk \in [Ids -> Terminal \cup {"running", None}]
    /\ next_process_id \in 1..MaxIds + 1
    /\ free \in 0..MaxConcurrent
    /\ calls \in [Calls -> [pc : {"idle", "permit", "store", "insert", "teardown", "kill"},
                            id : Ids \cup {None}]]
    /\ child \in [Ids -> Exited \cup {"none", "running", "gone"}]
    /\ slot \in [Ids -> BOOLEAN]
    /\ life \in [Ids -> {"none", "start", "waiting", "killing", "draining", "done"}]
    /\ kill_requested \in [Ids -> BOOLEAN] /\ timed_out \in [Ids -> BOOLEAN]
    /\ wait_failed \in [Ids -> BOOLEAN] /\ signalled \in [Ids -> BOOLEAN]
    /\ out \in [Ids -> [Streams -> PumpType]]
    /\ crashes \in Nat

(***************************************************************************)
(* Whatever fails or is dropped on the way, a child of this run of the     *)
(* server has a permit (OwnedSemaphorePermit) until it is sent SIGKILL,    *)
(* and none is given back twice: apart from children that are being killed *)
(* no more than max_concurrent run.                                        *)
(***************************************************************************)
ChildrenHavePermits ==
    Cardinality({p \in Ids : child[p] = "running" /\ ~signalled[p]}) + free <= MaxConcurrent

(***************************************************************************)
(* A child that the server has killed is reported as killed or timed out,  *)
(* never as completed, and as failed only if its wait failed: the flags    *)
(* are set before the signal and read after the wait.                      *)
(***************************************************************************)
KilledIsReported ==
    \A p \in Ids : signalled[p] =>
       record[p] # "completed" /\ (record[p] = "failed" => wait_failed[p])

(***************************************************************************)
(* With the write under way the log holds the first MaxBytes bytes of what *)
(* was read, unless a write failed: then less, never more, although a      *)
(* failed write is counted as made.  The stream is marked as truncated     *)
(* exactly when more was read.                                             *)
(***************************************************************************)
LogIsPrefix ==
    \A p \in Ids, s \in Streams :
       LET pump == out[p][s]
           kept == Min({pump.seen, MaxBytes})
       IN  /\ pump.log + pump.writing <= kept
           /\ ~pump.gap => pump.log + pump.writing = kept
           /\ pump.truncated <=> pump.seen > MaxBytes

(***************************************************************************)
(* Once a process has its final status, what was counted of its output is  *)
(* final, and of new bytes only the one write that a pump has left behind, *)
(* without a flush, may reach the log.                                     *)
(***************************************************************************)
NothingAfterEnd ==
    [][\A p \in Ids, s \in Streams : record[p] \in Terminal /\ crashes' = crashes =>
          LET old == out[p][s]
              new == out'[p][s]
          IN  /\ new.seen = old.seen /\ new.used = old.used /\ new.truncated = old.truncated
              /\ new.log + new.writing <= old.log + old.writing]_vars

(* Every request returns: permits come back although children hang.        *)
RequestsReturn == \A c \in Calls : calls[c].pc # "idle" ~> calls[c].pc = "idle"

(* A process that runs gets a final status, at the latest by its timeout.  *)
ProcessEnds == \A p \in Ids : record[p] = "running" ~> record[p] # "running"
=============================================================================
