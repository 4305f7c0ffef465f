----------------------------- MODULE JsonStore -----------------------------
(***************************************************************************)
(* JsonCollection (storage.py): one collection file on which the threads   *)
(* of several processes call list, upsert, update, transact and            *)
(* restore_quarantine.                                                     *)
(*                                                                         *)
(* Each process has one JsonCollection with a threading.Lock of its own;   *)
(* the processes exclude each other by flock on a lock file that is never   *)
(* removed, and the kernel frees the lock of a process that dies.  A save   *)
(* writes a private temporary file and renames it over the collection, so   *)
(* that it is a single step here, and the temporary file a crash leaves     *)
(* behind is read by nobody.                                               *)
(*                                                                         *)
(* Damage stands for everything that makes the file unreadable to the      *)
(* program: an edit by hand, a truncated copy, a symlink, records that a    *)
(* newer schema no longer accepts.  Who does that takes no lock; it is      *)
(* assumed not to happen while a call is inside the lock.                   *)
(***************************************************************************)
EXTENDS CollectionData, Naturals, FiniteSets

CONSTANTS
    Thread,
    Process,
    Home,       \* Home[t]: the process of thread t
    MayFail,    \* whether reads, renames and writes may raise
    MaxKept     \* bound: no damage and no restore beyond that many kept files

ASSUME StoreAssumption ==
    /\ Home \in [Thread -> Process]
    /\ None \notin Thread
    /\ MayFail \in BOOLEAN

VARIABLES
    file,       \* the collection file
    kept,       \* the quarantined files beside it
    lock,       \* lock[p]: the thread that holds the threading.Lock of process p
    flock,      \* the thread that holds the lock on the lock file
    call        \* call[t]: where thread t is, its call, the items it read or will save

vars == <<file, kept, lock, flock, call>>

\* The pcs between taking and dropping the lock on the lock file, and those
\* between taking and dropping the lock of the process.
Saving == {"load", "repair", "aside", "save"}
Inside == Saving \cup {"done", "raised"}
Holding == Inside \cup {"flock", "release"}
Pc == Holding \cup {"idle"}

File == [state: {"absent", "damaged", "good"}, items: Items]
Kept == [reason: {"corrupt", "pre-restore"}, readable: BOOLEAN, items: Items]
Absent == [state |-> "absent", items |-> Empty]
Good(i) == [state |-> "good", items |-> i]

\* A file that does not exist holds no items.
Content == IF file.state = "good" THEN file.items ELSE Empty

TypeOK ==
    /\ file \in File
    /\ file.state = "absent" => file = Absent
    /\ kept \subseteq Kept
    /\ lock \in [Process -> Thread \cup {None}]
    /\ flock \in Thread \cup {None}
    /\ call \in [Thread -> [at: Pc, op: Operation, key: Key \cup {None},
                            value: Value \cup {None}, items: Items]]

Init ==
    /\ file = Absent
    /\ kept = {}
    /\ lock = [p \in Process |-> None]
    /\ flock = None
    /\ call = [t \in Thread |-> Idle]

At(t, pc) == call[t].at = pc
Goto(t, pc) == call' = [call EXCEPT ![t].at = pc]

Room == Cardinality(kept) < MaxKept

----------------------------------------------------------------------------
(* The two locks around every call.                                        *)

Lock(t) ==
    /\ At(t, "idle")
    /\ lock[Home[t]] = None
    /\ lock' = [lock EXCEPT ![Home[t]] = t]
    /\ Goto(t, "flock")
    /\ UNCHANGED <<file, kept, flock>>

\* Variant for the mutants: processes do not exclude each other.
FileLockUnchecked(t) ==
    /\ At(t, "flock")
    /\ flock' = t
    /\ \E c \in Call :
        call' = [call EXCEPT ![t] = [Invoked(c) EXCEPT !.at = "load"]]
    /\ UNCHANGED <<file, kept, lock>>

\* What is called matters to nobody before its thread holds both locks.
FileLock(t) ==
    /\ At(t, "flock")
    /\ flock = None
    /\ flock' = t
    /\ \E c \in Call :
        /\ c.op = "restore" => Room
        /\ call' = [call EXCEPT ![t] = [Invoked(c) EXCEPT !.at = "load"]]
    /\ UNCHANGED <<file, kept, lock>>

FileUnlock(t) ==
    /\ At(t, "done") \/ At(t, "raised")
    /\ call' = [call EXCEPT ![t] = [Idle EXCEPT !.at = "release"]]
    /\ flock' = None
    /\ UNCHANGED <<file, kept, lock>>

\* The call returns, or raises.
Unlock(t) ==
    /\ At(t, "release")
    /\ lock' = [lock EXCEPT ![Home[t]] = None]
    /\ Goto(t, "idle")
    /\ UNCHANGED <<file, kept, flock>>

----------------------------------------------------------------------------
(* list, upsert, update and transact.                                      *)

\* The call c once it has loaded the items i: a list returns them, the others
\* go on to save what they make of them, unless they raise.
Loaded(c, i) ==
    IF c.op \in Reads THEN [c EXCEPT !.at = "done", !.items = i]
    ELSE IF Accepts(c, i) THEN [c EXCEPT !.at = "save", !.items = After(c, i)]
    ELSE [c EXCEPT !.at = "raised"]

Load(t) ==
    /\ At(t, "load") /\ call[t].op # "restore"
    /\ file.state # "damaged"
    /\ call' = [call EXCEPT ![t] = Loaded(call[t], Content)]
    /\ UNCHANGED <<file, kept, lock, flock>>

\* A file that cannot be read is renamed, and then replaced by an empty one.
Quarantine(t, reason, next) ==
    /\ kept' = kept \cup
        {[reason |-> reason, readable |-> file.state = "good", items |-> file.items]}
    /\ file' = Absent
    /\ Goto(t, next)
    /\ UNCHANGED <<lock, flock>>

LoadDamaged(t) ==
    /\ At(t, "load") /\ call[t].op # "restore"
    /\ file.state = "damaged"
    /\ Quarantine(t, "corrupt", "repair")

Repair(t) ==
    /\ At(t, "repair")
    /\ file' = Good(Empty)
    /\ call' = [call EXCEPT ![t] = Loaded(call[t], Empty)]
    /\ UNCHANGED <<kept, lock, flock>>

Save(t) ==
    /\ At(t, "save")
    /\ file' = Good(call[t].items)
    /\ Goto(t, "done")
    /\ UNCHANGED <<kept, lock, flock>>

----------------------------------------------------------------------------
(* restore_quarantine.                                                     *)

\* Variant for the mutants: a restore overwrites the active file.
MoveAsideNot(t) ==
    /\ At(t, "aside")
    /\ Goto(t, "save")
    /\ UNCHANGED <<file, kept, lock, flock>>

\* Only what was quarantined as corrupt is offered, and it must be readable.
Restorable == {k \in kept : k.reason = "corrupt" /\ k.readable}

ReadKept(t) ==
    /\ At(t, "load") /\ call[t].op = "restore"
    /\ \E k \in Restorable :
        call' = [call EXCEPT ![t].items = k.items,
                             ![t].at = IF file = Absent THEN "save" ELSE "aside"]
    /\ UNCHANGED <<file, kept, lock, flock>>

\* No such file, or one that cannot be read.
RefuseRestore(t) ==
    /\ At(t, "load") /\ call[t].op = "restore"
    /\ Restorable = {} \/ \E k \in kept : ~k.readable
    /\ Goto(t, "raised")
    /\ UNCHANGED <<file, kept, lock, flock>>

MoveAside(t) ==
    /\ At(t, "aside")
    /\ Quarantine(t, "pre-restore", "save")

----------------------------------------------------------------------------
(* What goes wrong.                                                        *)

\* Variant for the mutants: the lock file is not unlocked in a finally block.
RaiseLocked(t) ==
    /\ MayFail
    /\ call[t].at \in Saving
    /\ Goto(t, "release")
    /\ UNCHANGED <<file, kept, lock, flock>>

\* A read, a rename or a write raises; both locks are released on the way out.
Raise(t) ==
    /\ MayFail
    /\ call[t].at \in Saving
    /\ Goto(t, "raised")
    /\ UNCHANGED <<file, kept, lock, flock>>

Crash(p) ==
    /\ call' = [t \in Thread |-> IF Home[t] = p THEN Idle ELSE call[t]]
    /\ lock' = [lock EXCEPT ![p] = None]
    /\ flock' = IF flock # None /\ Home[flock] = p THEN None ELSE flock
    /\ UNCHANGED <<file, kept>>

Damage ==
    /\ Room
    /\ file.state = "good"
    /\ flock = None
    /\ file' = [file EXCEPT !.state = "damaged"]
    /\ UNCHANGED <<kept, lock, flock, call>>

\* Someone makes a quarantined file readable again.
Mend ==
    /\ \E k \in kept :
        /\ ~k.readable
        /\ kept' = (kept \ {k}) \cup {[k EXCEPT !.readable = TRUE]}
    /\ UNCHANGED <<file, lock, flock, call>>

----------------------------------------------------------------------------
InLock(t) ==
    \/ Load(t) \/ LoadDamaged(t) \/ Repair(t) \/ Save(t)
    \/ ReadKept(t) \/ RefuseRestore(t) \/ MoveAside(t)

Step(t) == Lock(t) \/ FileLock(t) \/ InLock(t) \/ Raise(t) \/ FileUnlock(t) \/ Unlock(t)

Next ==
    \/ \E t \in Thread : Step(t)
    \/ \E p \in Process : Crash(p)
    \/ Damage \/ Mend

Spec == Init /\ [][Next]_vars

----------------------------------------------------------------------------
(* Properties.                                                             *)

\* No two threads are between loading and saving, whatever processes they
\* are in: what a call makes of the items it loaded is saved over these.
LoadedIsCurrent ==
    \A t \in Thread :
        At(t, "save") /\ call[t].op # "restore" =>
            /\ Accepts(call[t], Content)
            /\ call[t].items = After(call[t], Content)

\* An exception, a refusal or the death of a process on the way through a call
\* never leaves the lock file or the lock of a process taken: a lock is held
\* only by a thread that is still on its way to release it.
NoLockIsLeaked ==
    /\ \A t \in Thread : flock = t <=> call[t].at \in Inside
    /\ \A p \in Process, t \in Thread :
        lock[p] = t <=> Home[t] = p /\ call[t].at \in Holding

\* The abstract view: a call has taken effect once its save, or the read of a
\* list, is behind it, and its items count only then.
Seen(c) ==
    CASE c.at = "done" -> c
      [] c.at \in Inside \ {"done"} -> [c EXCEPT !.at = "called", !.items = Empty]
      [] OTHER -> Idle

Archive ==
    {k.items : k \in kept} \cup (IF file.state = "damaged" THEN {file.items} ELSE {})

AbstractStore ==
    INSTANCE Collection WITH
        items <- Content, archive <- Archive, call <- [t \in Thread |-> Seen(call[t])]

\* The calls of all threads of all processes are atomic: each acts on the
\* items the one before it saved, and a crash, an exception, a quarantine or a
\* restore loses none of them.
ImplementsCollection == AbstractStore!Spec
=============================================================================
