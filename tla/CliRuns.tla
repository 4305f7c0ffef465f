------------------------------ MODULE CliRuns ------------------------------
(***************************************************************************)
(* One asynchronous command run of CliRuntimeService (cli_runtime.py): its *)
(* record in cli-command-runs.json, its child process, and the threads     *)
(* that write the record.                                                  *)
(*                                                                         *)
(* A backend process draws a supervisor id when it starts; here that is    *)
(* the pair of a process and the number of its life.  It serves one        *)
(* request after the other.  The process that started the run also has a   *)
(* waiter thread and two reader threads for it, and keeps the child among  *)
(* its _active_processes until the waiter has seen it end.                 *)
(*                                                                         *)
(* Threads of the owner exclude each other by _active_lock where the code   *)
(* takes it; a record that was read is a copy, written back as a whole.    *)
(* Of the output only the sequence numbers of the chunks are kept.         *)
(***************************************************************************)
EXTENDS Naturals, FiniteSets

CONSTANTS
    Process,    \* backend processes that share the data directory
    Pipe,       \* the pipes of a child: stdout and stderr
    Retained,   \* DEFAULT_MAX_OUTPUT_CHUNKS
    None,
    Lives,      \* bound: how often a process starts; its last life does not end
    MaxOutput,  \* bound: nothing is read once a chunk has this number
    MayCancel   \* whether runs are cancelled

ASSUME CliAssumption ==
    /\ None \notin Process \X Nat
    /\ Lives \in [Process -> Nat]
    /\ {Retained, MaxOutput} \subseteq Nat \ {0}
    /\ MayCancel \in BOOLEAN

VARIABLES
    life,       \* life[p]: how often process p has started
    up,         \* up[p]: p is running
    run,        \* the CommandRun
    child,      \* the command's process
    registered, \* the owner has the child among its _active_processes
    flagged,    \* the owner has the run among its _cancelled_run_ids
    request,    \* request[p]: what p is serving, with the copy it has read
    waiter,     \* the owner's thread that waits for the child
    reader      \* reader[i]: its thread that reads pipe i

vars == <<life, up, run, child, registered, flagged, request, waiter, reader>>

Pending == {"starting", "running"}
Ended == {"completed", "failed", "timed_out", "cancelled"}
Final == Ended \cup {"stale"}
Number == 1..(MaxOutput + 1)    \* the last one for the note of a timeout

Record == [status  : {"absent"} \cup Pending \cup Final,
           owner   : (Process \X Nat) \cup {None},
           pid     : BOOLEAN,                   \* process_id, with the identity
           orphan  : {"none", "skipped", "not_found", "terminated", "failed"},
           chunks  : SUBSET Number]

Absent == [status |-> "absent", owner |-> None, pid |-> FALSE,
           orphan |-> "none", chunks |-> {}]

Request == [pc : {"idle", "launch", "register", "mark", "supervise", "kill",
                  "cancelled", "terminate", "stale"}, copy : Record]

Waiter == [pc : {"none", "wait", "ended", "overdue", "note", "noteSave", "join",
                 "final", "finalSave", "over"},
           outcome : {"none"} \cup Ended, copy : Record]

Reader == [pc : {"none", "read", "append"}, copy : Record]

TypeOK ==
    /\ life \in [Process -> Nat]
    /\ up \in [Process -> BOOLEAN]
    /\ run \in Record
    /\ run.status # "absent" => run.owner # None
    /\ child \in {"none", "alive", "exit0", "exit1", "killed"}
    /\ registered \in BOOLEAN /\ flagged \in BOOLEAN
    /\ request \in [Process -> Request]
    /\ waiter \in Waiter
    /\ reader \in [Pipe -> Reader]

Idle == [pc |-> "idle", copy |-> Absent]
Off == [pc |-> "none", copy |-> Absent]
NoWaiter == [pc |-> "none", outcome |-> "none", copy |-> Absent]

Me(p) == <<p, life[p]>>
Owner(p) == up[p] /\ run.owner = Me(p)

\* The owner's _active_lock: its holders are between a read of the record and
\* the write of what they make of it.
LockFree ==
    /\ \A p \in Process : Owner(p) => request[p].pc # "mark"
    /\ waiter.pc # "noteSave"
    /\ \A i \in Pipe : reader[i].pc # "append"

Dead(c) == IF c = "alive" THEN "killed" ELSE c

Top(chunks) == CHOOSE n \in 0..(MaxOutput + 1) :
    /\ n = 0 \/ n \in chunks
    /\ \A m \in chunks : m <= n

\* _append_output_chunk: the highest number plus one, and the oldest go.
Appended(x) ==
    LET n == Top(x.chunks) + 1 IN
    [x EXCEPT !.chunks = {m \in @ \cup {n} : m + Retained > n}]

Serve(p, pc, copy) == request' = [request EXCEPT ![p] = [pc |-> pc, copy |-> copy]]

----------------------------------------------------------------------------
(* start_command.                                                          *)

Start(p) ==
    /\ up[p] /\ request[p].pc = "idle"
    /\ run.status = "absent"
    /\ run' = [Absent EXCEPT !.status = "starting", !.owner = Me(p)]
    /\ Serve(p, "launch", run')
    /\ UNCHANGED <<life, up, child, registered, flagged, waiter, reader>>

Launch(p) ==
    /\ request[p].pc = "launch"
    /\ child' = "alive"
    /\ Serve(p, "register", Absent)
    /\ UNCHANGED <<life, up, run, registered, flagged, waiter, reader>>

\* Popen raises: _mark_run_failed saves the record the request has made.
LaunchFails(p) ==
    /\ request[p].pc = "launch"
    /\ run' = [request[p].copy EXCEPT !.status = "failed"]
    /\ Serve(p, "idle", Absent)
    /\ UNCHANGED <<life, up, child, registered, flagged, waiter, reader>>

\* Variant: the child is launched but not put on the list.
RegisterUnlisted(p) ==
    /\ request[p].pc = "register"
    /\ LockFree
    /\ IF run.status = "starting"
       THEN Serve(p, "mark", run) /\ UNCHANGED child
       ELSE Serve(p, "idle", Absent) /\ child' = Dead(child)
    /\ UNCHANGED <<life, up, run, registered, flagged, waiter, reader>>

\* Under the lock the record is read again; if another process has marked it
\* stale meanwhile, the child is terminated.
Register(p) ==
    /\ request[p].pc = "register"
    /\ LockFree
    /\ \/ /\ run.status = "starting"
          /\ registered' = TRUE
          /\ Serve(p, "mark", run)
          /\ UNCHANGED child
       \/ /\ run.status # "starting"
          /\ child' = Dead(child)
          /\ Serve(p, "idle", Absent)
          /\ UNCHANGED registered
    /\ UNCHANGED <<life, up, run, flagged, waiter, reader>>

Mark(p) ==
    /\ request[p].pc = "mark"
    /\ run' = [request[p].copy EXCEPT !.status = "running", !.pid = TRUE]
    /\ Serve(p, "supervise", Absent)
    /\ UNCHANGED <<life, up, child, registered, flagged, waiter, reader>>

\* Outside the lock: the start is logged, and the threads are started.
Supervise(p) ==
    /\ request[p].pc = "supervise"
    /\ waiter' = [NoWaiter EXCEPT !.pc = "wait"]
    /\ reader' = [i \in Pipe |-> [Off EXCEPT !.pc = "read"]]
    /\ Serve(p, "idle", Absent)
    /\ UNCHANGED <<life, up, run, child, registered, flagged>>

\* The event log raises before the launch or after it, Popen raises what the
\* request does not catch, or a thread cannot be started: the request ends and
\* leaves the run as it is on file, and the child without a waiter.
StartRaises(p) ==
    /\ request[p].pc \in {"launch", "supervise"}
    /\ Serve(p, "idle", Absent)
    /\ UNCHANGED <<life, up, run, child, registered, flagged, waiter, reader>>

----------------------------------------------------------------------------
(* cancel_command_run, and the reconciliation of runs without an owner.    *)

\* A child of its own: the run is flagged and copied under the lock.
CancelOwn(p) ==
    /\ MayCancel
    /\ request[p].pc = "idle"
    /\ Owner(p) /\ registered
    /\ LockFree
    /\ run.status \in Pending
    /\ flagged' = TRUE
    /\ Serve(p, "kill", run)
    /\ UNCHANGED <<life, up, run, child, registered, waiter, reader>>

\* Variant: the child is signalled, and nobody looks whether it ends.
KillSoftly(p) ==
    /\ request[p].pc = "kill"
    /\ child' \in {child, Dead(child)}
    /\ Serve(p, "cancelled", request[p].copy)
    /\ UNCHANGED <<life, up, run, registered, flagged, waiter, reader>>

Kill(p) ==
    /\ request[p].pc = "kill"
    /\ child' = Dead(child)
    /\ Serve(p, "cancelled", request[p].copy)
    /\ UNCHANGED <<life, up, run, registered, flagged, waiter, reader>>

SaveCancelled(p) ==
    /\ request[p].pc = "cancelled"
    /\ run' = [request[p].copy EXCEPT !.status = "cancelled"]
    /\ Serve(p, "idle", Absent)
    /\ UNCHANGED <<life, up, child, registered, flagged, waiter, reader>>

\* A run of another supervisor, dead or alive, is treated as an orphan.
CancelOrphan(p) ==
    /\ MayCancel
    /\ up[p] /\ request[p].pc = "idle"
    /\ ~Owner(p)
    /\ run.status \in Pending
    /\ Serve(p, "terminate", run)
    /\ UNCHANGED <<life, up, run, child, registered, flagged, waiter, reader>>

\* Variant: only runs that have reached running are reconciled.
StartupRunning(p) ==
    /\ ~up[p] /\ life[p] < Lives[p]
    /\ up' = [up EXCEPT ![p] = TRUE]
    /\ life' = [life EXCEPT ![p] = @ + 1]
    /\ IF run.status = "running" THEN Serve(p, "terminate", run)
                                 ELSE Serve(p, "idle", Absent)
    /\ UNCHANGED <<run, child, registered, flagged, waiter, reader>>

\* The constructor: reconcile_stale_command_runs takes every pending run for
\* one whose supervisor is gone.
Startup(p) ==
    /\ ~up[p] /\ life[p] < Lives[p]
    /\ up' = [up EXCEPT ![p] = TRUE]
    /\ life' = [life EXCEPT ![p] = @ + 1]
    /\ IF run.status \in Pending THEN Serve(p, "terminate", run)
                                 ELSE Serve(p, "idle", Absent)
    /\ UNCHANGED <<run, child, registered, flagged, waiter, reader>>

\* Variant: a child that ignores SIGTERM is not killed.
TerminateOnce(p) ==
    LET copy == request[p].copy
        Attempted(result) == Serve(p, "stale", [copy EXCEPT !.orphan = result])
    IN
    /\ request[p].pc = "terminate"
    /\ \/ copy.status # "running" /\ Attempted("skipped") /\ UNCHANGED child
       \/ copy.status = "running" /\ Attempted("terminated") /\ child' \in {child, Dead(child)}
    /\ UNCHANGED <<life, up, run, registered, flagged, waiter, reader>>

\* _record_orphan_termination_attempt.  A child that has exited is gone from
\* the process table or still there as a zombie.
Terminate(p) ==
    LET copy == request[p].copy
        Attempted(result) == Serve(p, "stale", [copy EXCEPT !.orphan = result])
    IN
    /\ request[p].pc = "terminate"
    /\ \/ /\ copy.status # "running" \/ ~copy.pid
          /\ Attempted("skipped") /\ UNCHANGED child
       \/ /\ copy.status = "running" /\ copy.pid
          /\ \/ child = "alive" /\ Attempted("failed") /\ child' \in {child, Dead(child)}
             \/ child # "alive" /\ Attempted("not_found") /\ UNCHANGED child
             \/ child' = Dead(child) /\ Attempted("terminated")
    /\ UNCHANGED <<life, up, run, registered, flagged, waiter, reader>>

MarkStale(p) ==
    /\ request[p].pc = "stale"
    /\ run' = [request[p].copy EXCEPT !.status = "stale"]
    /\ Serve(p, "idle", Absent)
    /\ UNCHANGED <<life, up, child, registered, flagged, waiter, reader>>

----------------------------------------------------------------------------
(* _wait_for_process.                                                      *)

Waiting(pc, next) == waiter.pc = pc /\ waiter' = [waiter EXCEPT !.pc = next]

WaitReturns ==
    /\ child # "alive"
    /\ Waiting("wait", "ended")
    /\ UNCHANGED <<life, up, run, child, registered, flagged, request, reader>>

TimesOut ==
    /\ child = "alive"
    /\ Waiting("wait", "overdue")
    /\ UNCHANGED <<life, up, run, child, registered, flagged, request, reader>>

\* Variant: what the child returns is stored as the status.
JudgeEndedVerbatim ==
    /\ waiter.pc = "ended"
    /\ LockFree
    /\ waiter' = [waiter EXCEPT !.pc = "join",
                                !.outcome = IF flagged THEN "cancelled" ELSE child]
    /\ UNCHANGED <<life, up, run, child, registered, flagged, request, reader>>

JudgeEnded ==
    /\ waiter.pc = "ended"
    /\ LockFree
    /\ waiter' = [waiter EXCEPT !.pc = "join", !.outcome =
            IF flagged THEN "cancelled"
            ELSE IF child = "exit0" THEN "completed" ELSE "failed"]
    /\ UNCHANGED <<life, up, run, child, registered, flagged, request, reader>>

JudgeOverdue ==
    /\ waiter.pc = "overdue"
    /\ LockFree
    /\ waiter' = [waiter EXCEPT !.pc = "note",
                                !.outcome = IF flagged THEN "cancelled" ELSE "timed_out"]
    /\ child' = Dead(child)
    /\ UNCHANGED <<life, up, run, registered, flagged, request, reader>>

\* "Command timed out" or "was cancelled" as a chunk of its own.
Note ==
    /\ waiter.pc = "note"
    /\ LockFree
    /\ waiter' = [waiter EXCEPT !.pc = "noteSave", !.copy = run]
    /\ UNCHANGED <<life, up, run, child, registered, flagged, request, reader>>

NoteSave ==
    /\ waiter.pc = "noteSave"
    /\ run' = Appended(waiter.copy)
    /\ waiter' = [waiter EXCEPT !.pc = "join", !.copy = Absent]
    /\ UNCHANGED <<life, up, child, registered, flagged, request, reader>>

\* Each reader is joined for two seconds at most, whether it has come to the end
\* of its pipe or not, and the run is taken off the lists.
Deregister ==
    /\ waiter.pc = "join"
    /\ LockFree
    /\ waiter' = [waiter EXCEPT !.pc = "final"]
    /\ registered' = FALSE /\ flagged' = FALSE
    /\ UNCHANGED <<life, up, run, child, request, reader>>

\* _finalize_async_run, without the lock.
Finalize ==
    /\ waiter.pc = "final"
    /\ waiter' = [waiter EXCEPT !.pc = "finalSave", !.copy = run]
    /\ UNCHANGED <<life, up, run, child, registered, flagged, request, reader>>

FinalSave ==
    /\ waiter.pc = "finalSave"
    /\ run' = [waiter.copy EXCEPT !.status = waiter.outcome]
    /\ waiter' = [NoWaiter EXCEPT !.pc = "over"]
    /\ UNCHANGED <<life, up, child, registered, flagged, request, reader>>

----------------------------------------------------------------------------
(* _read_output_pipe and _append_output_chunk.  A pipe can be held open by  *)
(* a process that has outlived the command; a reader that has come to the  *)
(* end of its pipe is one that does not read again.                        *)

\* Variant: the record is read before the lock is taken.
ReadUnlocked(i) ==
    /\ reader[i].pc = "read"
    /\ Top(run.chunks) < MaxOutput
    /\ reader' = [reader EXCEPT ![i] = [pc |-> "append", copy |-> run]]
    /\ UNCHANGED <<life, up, run, child, registered, flagged, request, waiter>>

Read(i) ==
    /\ reader[i].pc = "read"
    /\ LockFree
    /\ Top(run.chunks) < MaxOutput
    /\ reader' = [reader EXCEPT ![i] = [pc |-> "append", copy |-> run]]
    /\ UNCHANGED <<life, up, run, child, registered, flagged, request, waiter>>

Append(i) ==
    /\ reader[i].pc = "append"
    /\ run' = Appended(reader[i].copy)
    /\ reader' = [reader EXCEPT ![i] = [pc |-> "read", copy |-> Absent]]
    /\ UNCHANGED <<life, up, child, registered, flagged, request, waiter>>

----------------------------------------------------------------------------
(* The surroundings.                                                       *)

Exit ==
    /\ child = "alive"
    /\ child' \in {"exit0", "exit1"}
    /\ UNCHANGED <<life, up, run, registered, flagged, request, waiter, reader>>

\* A backend process dies with its threads and what it had in memory; the
\* child, in a session of its own, lives on.
Crash(p) ==
    /\ up[p] /\ life[p] < Lives[p]
    /\ up' = [up EXCEPT ![p] = FALSE]
    /\ Serve(p, "idle", Absent)
    /\ IF Owner(p)
       THEN /\ waiter' = NoWaiter
            /\ reader' = [i \in Pipe |-> Off]
            /\ registered' = FALSE /\ flagged' = FALSE
       ELSE UNCHANGED <<registered, flagged, waiter, reader>>
    /\ UNCHANGED <<life, run, child>>

----------------------------------------------------------------------------
Init ==
    /\ life = [p \in Process |-> 0]
    /\ up = [p \in Process |-> FALSE]
    /\ run = Absent
    /\ child = "none"
    /\ registered = FALSE /\ flagged = FALSE
    /\ request = [p \in Process |-> Idle]
    /\ waiter = NoWaiter
    /\ reader = [i \in Pipe |-> Off]

Serving(p) ==
    \/ Launch(p) \/ LaunchFails(p) \/ Register(p) \/ Mark(p) \/ Supervise(p)
    \/ StartRaises(p)
    \/ Kill(p) \/ SaveCancelled(p)
    \/ Terminate(p) \/ MarkStale(p)

Supervising ==
    \/ WaitReturns \/ TimesOut \/ JudgeEnded \/ JudgeOverdue \/ Note \/ NoteSave
    \/ Deregister \/ Finalize \/ FinalSave

Reading(i) == Read(i) \/ Append(i)

Next ==
    \/ \E p \in Process :
        \/ Start(p) \/ CancelOwn(p) \/ CancelOrphan(p)
        \/ Serving(p)
        \/ Startup(p) \/ Crash(p)
    \/ Supervising
    \/ \E i \in Pipe : Reading(i)
    \/ Exit

Spec == Init /\ [][Next]_vars

\* Threads run on, a command that does not end by itself times out, and a
\* process that has died is started again.  Nobody has to start, cancel, crash
\* or exit.
Fairness ==
    /\ \A p \in Process : WF_vars(Serving(p)) /\ WF_vars(Startup(p))
    /\ WF_vars(Supervising)
    /\ \A i \in Pipe : WF_vars(Append(i))

FairSpec == Spec /\ Fairness

----------------------------------------------------------------------------
(* Properties.                                                             *)

\* A thread of the owner will still give the run an outcome.
Supervised ==
    \/ \E p \in Process : /\ Owner(p)
                          /\ request[p].pc \in {"launch", "register", "mark", "supervise"}
    \/ waiter.pc \notin {"none", "over"}

\* The waiter has given up the readers that have not ended.
Parted == waiter.pc \in {"final", "finalSave", "over"}

\* Nobody is told that a command has completed, failed, timed out or been
\* cancelled while it still runs, whichever of the owner's threads and of the
\* other processes wrote that, and from whatever copy.
EndedRunsAreDead == run.status \in Ended => child # "alive"

\* A command that outlives its run is on record as one whose termination was
\* skipped or has failed.
OrphansAreReported ==
    child = "alive" /\ run.status \in Final => run.orphan \in {"skipped", "failed"}

\* A command whose backend process lives is never out of its reach: one of its
\* threads will see the command end, or the command is on the list from which a
\* client can cancel it.  This is so although the launcher may raise when the
\* command runs already, and whatever cancellations, rival processes and late
\* readers have saved meanwhile.
CommandsAreInReach ==
    \A p \in Process : Owner(p) /\ child = "alive" => Supervised \/ registered

\* The two readers and the waiter's note never take a chunk from each other: a
\* thread that appends keeps what is on file, but for what retention drops, and
\* gives a number above all that are there (until the waiter has given up on
\* the readers and saves without the lock, and while no other process has taken
\* the run for an orphan and rolled it back).
AppendsKeepOutput ==
    [][((NoteSave \/ \E i \in Pipe : Append(i)) /\ ~Parted
            /\ {run.orphan, run'.orphan} = {"none"}) =>
        /\ Top(run'.chunks) > Top(run.chunks)
        /\ \A n \in run.chunks :
            n + Retained > Top(run'.chunks) => n \in run'.chunks]_vars

\* What may stay pending for as long as its owner lives: a run whose start has
\* raised, and one whose waiter is over, which a reader that outlived the two
\* seconds has brought back.
Unattended ==
    /\ \E p \in Process : Owner(p) /\ ~Supervised
    /\ run.status = "starting" => child = "none"
    /\ waiter.pc = "over" => child # "alive"

\* Every run that was recorded gets an outcome and keeps one, through crashes at
\* any point, restarts, cancellations and rival processes; the exceptions are
\* those of Unattended, in which the command never started, can be cancelled
\* or has ended.
RunsStayEnded ==
    run.status # "absent" ~> [](run.status \in Final \/ Unattended)

\* The outcome a client was told is not replaced by another one.
OutcomeHolds ==
    [][{run.status, run'.status} \subseteq Final => run'.status = run.status]_vars
=============================================================================
