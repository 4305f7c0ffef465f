--------------------------- MODULE CliRunsProofs ---------------------------
(* Theorems about CliRuns, for any number of processes and pipes, however  *)
(* often processes die, starts raise and readers outlive their waiter.     *)
EXTENDS CliRuns, FiniteSetTheorems, TLAPS

----------------------------------------------------------------------------
(* The inductive invariant.                                                *)

\* Until the run is recorded nobody does anything about it.
Unstarted ==
    run.status = "absent" =>
        /\ child = "none" /\ waiter = NoWaiter
        /\ \A i \in Pipe : reader[i] = Off
        /\ \A p \in Process : request[p].pc = "idle" /\ request[p].copy = Absent

\* A process that is down has no requests.
Down == \A p \in Process : up[p] \/ request[p].pc = "idle"

\* Only the owner brings a run up, before there are threads for it, and no
\* outcome is recorded before the command exists.
Launching ==
    \A p \in Process : request[p].pc \in {"launch", "register", "mark", "supervise"} =>
        /\ Owner(p)
        /\ waiter = NoWaiter /\ \A i \in Pipe : reader[i] = Off
        /\ request[p].pc = "launch" =>
              child = "none" /\ request[p].copy.status = "starting" /\ run.status \notin Ended

\* Only the owner saves a cancellation, and the command is dead by then.
Cancelling ==
    \A p \in Process : request[p].pc \in {"kill", "cancelled"} =>
        /\ Owner(p)
        /\ request[p].pc = "cancelled" => child # "alive"

\* A request holds a copy of the run from when it had no outcome; a thread
\* holds a copy of any age, with an outcome only if the command is dead.
CopiesAreTrue ==
    /\ \A p \in Process :
          request[p].pc \in {"launch", "mark", "kill", "cancelled", "terminate", "stale"} =>
              request[p].copy.status \in Pending /\ request[p].copy.owner = run.owner
    /\ waiter.pc \in {"noteSave", "finalSave"} =>
          waiter.copy.status # "absent" /\ waiter.copy.owner = run.owner
    /\ \A i \in Pipe : reader[i].pc = "append" =>
          /\ reader[i].copy.status # "absent" /\ reader[i].copy.owner = run.owner
          /\ reader[i].copy.status \in Ended => child # "alive"

\* The waiter has an outcome to save only of a command that is dead.
WaiterIsRight ==
    /\ waiter.pc \notin {"none", "wait", "overdue", "over"} => child # "alive"
    /\ waiter.pc \in {"note", "noteSave", "join", "final", "finalSave"} => waiter.outcome # "none"

\* There is a number left for a chunk whose turn it is.
Unnoted == 1..MaxOutput

NumbersLeft ==
    /\ \A i \in Pipe : reader[i].pc = "append" => Top(reader[i].copy.chunks) < MaxOutput
    /\ (\/ waiter.pc \in {"wait", "ended", "overdue", "note", "noteSave"}
        \/ \E p \in Process : request[p].pc \in {"launch", "register", "mark", "supervise"}) =>
          /\ run.chunks \subseteq Unnoted /\ waiter.copy.chunks \subseteq Unnoted
          /\ \A p \in Process : request[p].copy.chunks \subseteq Unnoted
          /\ \A i \in Pipe : reader[i].copy.chunks \subseteq Unnoted

IInv ==
    /\ TypeOK /\ Unstarted /\ Down /\ Launching /\ Cancelling
    /\ CopiesAreTrue /\ WaiterIsRight /\ NumbersLeft
    /\ EndedRunsAreDead

----------------------------------------------------------------------------
(* Chunk numbers.                                                          *)

\* Top is the greatest number given, or 0.
LEMMA TopIsGreatest ==
  ASSUME NEW S, S \subseteq Number
  PROVE  /\ Top(S) \in 0..(MaxOutput + 1)
         /\ Top(S) = 0 \/ Top(S) \in S
         /\ \A m \in S : m <= Top(S)
<1> USE DEF Number
<1>0. MaxOutput \in Nat
  BY CliAssumption
<1> USE <1>0
<1> DEFINE all == S \cup {0}
           above(n) == {m \in all : m > n}
           aboves == {above(n) : n \in all}
<1>1. IsFiniteSet(all)
  <2>1. MaxOutput + 1 \in Nat /\ 0 \in Nat
    OBVIOUS
  <2>2. all \in SUBSET Nat /\ \A n \in all : n <= MaxOutput + 1
    BY <2>1
  <2> QED
    BY <2>1, <2>2, FS_BoundedSetOfNaturals
<1>2. IsWellFoundedOn(StrictSubsetOrdering(all), FiniteSubsetsOf(all))
  BY <1>1, FS_StrictSubsetOrderingWellFounded
<1>3. aboves \subseteq FiniteSubsetsOf(all) /\ aboves # {}
  <2>1. \A n \in all : above(n) \in SUBSET all
    OBVIOUS
  <2>2. \A n \in all : above(n) \in FiniteSubsetsOf(all)
    BY <1>1, <2>1, FS_Subset DEF FiniteSubsetsOf
  <2>3. above(0) \in aboves
    OBVIOUS
  <2> QED
    BY <2>2, <2>3
<1>4. PICK x \in aboves : \A y \in aboves : <<y, x>> \notin StrictSubsetOrdering(all)
  <2> HIDE DEF aboves
  <2> QED
    BY <1>2, <1>3, WFMin
<1>5. PICK n \in all : x = above(n)
  BY <1>4
<1>6. ASSUME NEW m \in all PROVE m <= n
  <2> SUFFICES ASSUME m > n PROVE FALSE
    OBVIOUS
  <2>1. above(m) \subseteq above(n)
    <3>1. \A k \in all : k > m => k > n
      OBVIOUS
    <3> QED
      BY <3>1
  <2>2. m \in above(n) /\ m \notin above(m)
    OBVIOUS
  <2>3. <<above(m), above(n)>> \in StrictSubsetOrdering(all)
    <3>1. above(m) \in SUBSET all /\ above(n) \in SUBSET all
      OBVIOUS
    <3> HIDE DEF above
    <3> QED
      BY <2>1, <2>2, <3>1 DEF StrictSubsetOrdering
  <2> QED
    BY <2>3, <1>4, <1>5
<1>7. n \in 0..(MaxOutput + 1) /\ (n = 0 \/ n \in S) /\ \A m \in S : m <= n
  BY <1>6
<1> QED
  BY <1>7 DEF Top

\* Appending gives the next number and changes nothing else.
LEMMA AppendedTyped ==
  ASSUME NEW x \in Record, Top(x.chunks) <= MaxOutput
  PROVE  /\ Appended(x) \in Record
         /\ Appended(x).status = x.status /\ Appended(x).owner = x.owner
         /\ x.chunks \subseteq Unnoted /\ Top(x.chunks) < MaxOutput =>
               Appended(x).chunks \subseteq Unnoted
<1>1. MaxOutput \in Nat /\ Retained \in Nat
  BY CliAssumption
<1>2. x.chunks \subseteq Number /\ Top(x.chunks) \in 0..(MaxOutput + 1)
  BY TopIsGreatest DEF Record
<1> DEFINE n == Top(x.chunks) + 1
           kept == {m \in x.chunks \cup {n} : m + Retained > n}
<1>3. Appended(x) = [x EXCEPT !.chunks = kept]
  BY DEF Appended
<1>4. kept \in SUBSET Number
  BY <1>1, <1>2 DEF Number
<1>5. x.chunks \subseteq Unnoted /\ Top(x.chunks) < MaxOutput => kept \subseteq Unnoted
  BY <1>1, <1>2 DEF Unnoted
<1> HIDE DEF kept
<1> QED
  BY <1>3, <1>4, <1>5 DEF Record

\* As long as there is no note, there is a number left for it.
LEMMA NoteHasNumber ==
  ASSUME NEW S, S \subseteq Unnoted
  PROVE  S \subseteq Number /\ Top(S) <= MaxOutput
<1>1. MaxOutput \in Nat
  BY CliAssumption
<1>2. S \subseteq Number /\ \A m \in S : m <= MaxOutput
  BY <1>1 DEF Unnoted, Number
<1>3. Top(S) = 0 \/ Top(S) \in S
  BY <1>2, TopIsGreatest
<1>4. CASE Top(S) \in S
  BY <1>2, <1>4
<1> QED
  BY <1>1, <1>2, <1>3, <1>4

----------------------------------------------------------------------------
(* Records and copies.                                                     *)

LEMMA NothingTyped ==
  /\ Absent \in Record /\ Idle \in Request /\ Off \in Reader /\ NoWaiter \in Waiter
BY DEF Absent, Idle, Off, NoWaiter, Record, Request, Reader, Waiter

\* What is stored with another status is otherwise the same.
LEMMA StoredTyped ==
  ASSUME NEW x \in Record, NEW status \in Pending \cup Final, NEW y,
         y \in {[x EXCEPT !.status = status], [x EXCEPT !.status = status, !.pid = TRUE]}
  PROVE  y \in Record /\ y.status = status /\ y.owner = x.owner /\ y.chunks = x.chunks
BY DEF Record

LEMMA AttemptedTyped ==
  ASSUME NEW x \in Record, NEW orphan \in {"skipped", "not_found", "terminated", "failed"}, NEW y,
         y = [x EXCEPT !.orphan = orphan]
  PROVE  y \in Record /\ y.status = x.status /\ y.owner = x.owner /\ y.chunks = x.chunks
BY DEF Record

LEMMA CopiesTyped ==
  ASSUME TypeOK
  PROVE  /\ \A p \in Process : request[p].copy \in Record
         /\ \A i \in Pipe : reader[i].copy \in Record
         /\ waiter.copy \in Record
BY DEF TypeOK, Request, Reader, Waiter

LEMMA CopyOfRun ==
  ASSUME IInv, NEW p \in Process,
         request[p].pc \in {"launch", "mark", "kill", "cancelled", "terminate", "stale"}
  PROVE  /\ request[p].copy \in Record /\ request[p].copy.owner = run.owner
         /\ request[p].copy.status \in Pending
         /\ run.status # "absent" /\ run.owner # None
BY CopiesTyped DEF IInv, TypeOK, CopiesAreTrue, Unstarted, Idle

\* A request changes nobody else's.
LEMMA ServeTyped ==
  ASSUME TypeOK, NEW p \in Process, NEW pc, NEW copy \in Record, Serve(p, pc, copy),
         pc \in {"idle", "launch", "register", "mark", "supervise", "kill", "cancelled",
                 "terminate", "stale"}
  PROVE  /\ request' \in [Process -> Request]
         /\ request'[p].pc = pc /\ request'[p].copy = copy
         /\ \A q \in Process \ {p} : request'[q] = request[q]
BY DEF Serve, TypeOK, Request

LEMMA Initially == Init => IInv
<1> SUFFICES ASSUME Init PROVE IInv
  OBVIOUS
<1>1. TypeOK
  BY NothingTyped DEF Init, TypeOK, Idle, Off, NoWaiter, Absent
<1> QED
  BY <1>1 DEF IInv, Init, Unstarted, Down, Launching, Cancelling, CopiesAreTrue, WaiterIsRight,
    NumbersLeft, EndedRunsAreDead, Idle, Off, NoWaiter, Absent, Record, Pending, Final, Ended

----------------------------------------------------------------------------
(* Every step keeps the invariant: the requests, crashes and restarts,      *)
(* then the waiter, the command and the readers.                           *)

LEMMA StartKeeps ==
  ASSUME IInv, NEW p \in Process, Start(p)
  PROVE  IInv'
<1>1. /\ up[p]
      /\ run.status = "absent"
      /\ UNCHANGED <<life, up, child, registered, flagged, waiter, reader>>
  BY DEF Start
<1>2. Me(p) \in Process \X Nat
  BY DEF IInv, TypeOK, Me
<1>3. /\ run' \in Record /\ run'.status = "starting"
      /\ run'.owner = Me(p) /\ Me(p) # None /\ run'.chunks = {}
  BY <1>2, CliAssumption DEF Start, Record, Pending, Absent
<1>4. /\ request' \in [Process -> Request]
      /\ request'[p].pc = "launch" /\ request'[p].copy = run'
      /\ \A q \in Process \ {p} : request'[q] = request[q]
  BY <1>3, ServeTyped DEF Start, IInv
<1>5. TypeOK'
  BY <1>1, <1>3, <1>4 DEF IInv, TypeOK
<1>6. Unstarted'
  BY <1>3 DEF Unstarted
<1>7. Down'
  BY <1>1, <1>4 DEF IInv, Down
<1>8. Launching'
  BY <1>1, <1>3, <1>4 DEF IInv, Launching, Unstarted, Owner, Me, Ended
<1>9. Cancelling'
  BY <1>1, <1>4 DEF IInv, Cancelling, Unstarted
<1>10. CopiesAreTrue'
  BY <1>1, <1>3, <1>4 DEF IInv, CopiesAreTrue, Unstarted, Off, NoWaiter, Pending
<1>11. WaiterIsRight'
  BY <1>1 DEF IInv, WaiterIsRight
<1>12. NumbersLeft'
  BY <1>1, <1>3, <1>4 DEF IInv, NumbersLeft, Unstarted, NoWaiter, Off, Absent
<1>13. EndedRunsAreDead'
  BY <1>3 DEF EndedRunsAreDead, Ended
<1> QED
  BY <1>5, <1>6, <1>7, <1>8, <1>9, <1>10, <1>11, <1>12, <1>13 DEF IInv

LEMMA LaunchFailsKeeps ==
  ASSUME IInv, NEW p \in Process, LaunchFails(p)
  PROVE  IInv'
<1>1. /\ request[p].pc = "launch"
      /\ UNCHANGED <<life, up, child, registered, flagged, waiter, reader>>
  BY DEF LaunchFails
<1>2. /\ run' \in Record /\ run'.status = "failed"
      /\ run'.owner = run.owner /\ run.owner # None
      /\ run'.chunks = request[p].copy.chunks
  <2>1. request[p].copy \in Record /\ "failed" \in Pending \cup Final
    BY CopyOfRun DEF LaunchFails, Final, Ended
  <2>2. run' = [request[p].copy EXCEPT !.status = "failed"]
    BY DEF LaunchFails
  <2>3. run'.owner = request[p].copy.owner /\ run'.chunks = request[p].copy.chunks
    BY <2>1, <2>2, StoredTyped
  <2> QED
    BY <1>1, <2>1, <2>2, <2>3, CopyOfRun, StoredTyped
<1>3. /\ request' \in [Process -> Request]
      /\ request'[p].pc = "idle" /\ request'[p].copy = Absent
      /\ \A q \in Process \ {p} : request'[q] = request[q]
  BY NothingTyped, ServeTyped DEF LaunchFails, IInv
<1>4. \A q \in Process \ {p} : request'[q].pc \notin {"launch", "register", "mark", "supervise"}
  BY <1>1, <1>3 DEF IInv, Launching, Owner, Me
<1>5. TypeOK'
  BY <1>1, <1>2, <1>3 DEF IInv, TypeOK
<1>6. Unstarted'
  BY <1>2 DEF Unstarted
<1>7. Down'
  BY <1>1, <1>3 DEF IInv, Down
<1>8. Launching'
  BY <1>3, <1>4 DEF Launching
<1>9. Cancelling'
  BY <1>1, <1>2, <1>3 DEF IInv, Cancelling, Owner, Me
<1>10. CopiesAreTrue'
  BY <1>1, <1>2, <1>3 DEF IInv, CopiesAreTrue
<1>11. WaiterIsRight'
  BY <1>1 DEF IInv, WaiterIsRight
<1>12. NumbersLeft'
  BY <1>1, <1>2, <1>3 DEF IInv, NumbersLeft, Absent
<1>13. EndedRunsAreDead'
  BY <1>1 DEF IInv, EndedRunsAreDead, Launching
<1> QED
  BY <1>5, <1>6, <1>7, <1>8, <1>9, <1>10, <1>11, <1>12, <1>13 DEF IInv

LEMMA LaunchKeeps ==
  ASSUME IInv, NEW p \in Process, Launch(p)
  PROVE  IInv'
<1>1. /\ request[p].pc = "launch"
      /\ child' = "alive"
      /\ UNCHANGED <<life, up, run, registered, flagged, waiter, reader>>
  BY DEF Launch
<1>2. /\ request' \in [Process -> Request]
      /\ request'[p].pc = "register" /\ request'[p].copy = Absent
      /\ \A q \in Process \ {p} : request'[q] = request[q]
  BY NothingTyped, ServeTyped DEF Launch, IInv
<1>3. \A q \in Process \ {p} : request'[q].pc \notin {"launch", "register", "mark", "supervise"}
  BY <1>1, <1>2 DEF IInv, Launching, Owner, Me
<1>4. TypeOK'
  BY <1>1, <1>2 DEF IInv, TypeOK
<1>5. Unstarted'
  BY <1>1 DEF IInv, Unstarted
<1>6. Down'
  BY <1>1, <1>2 DEF IInv, Down
<1>7. Launching'
  BY <1>1, <1>2 DEF IInv, Launching, Owner, Me
<1>8. Cancelling'
  BY <1>1, <1>2 DEF IInv, Cancelling, Launching, Owner, Me
<1>9. CopiesAreTrue'
  BY <1>1, <1>2 DEF IInv, CopiesAreTrue, Launching, Off
<1>10. WaiterIsRight'
  BY <1>1 DEF IInv, WaiterIsRight, Launching, NoWaiter
<1>11. NumbersLeft'
  BY <1>1, <1>2 DEF IInv, NumbersLeft, Absent
<1>12. EndedRunsAreDead'
  BY <1>1 DEF IInv, EndedRunsAreDead, Launching
<1> QED
  BY <1>4, <1>5, <1>6, <1>7, <1>8, <1>9, <1>10, <1>11, <1>12 DEF IInv

LEMMA MarkKeeps ==
  ASSUME IInv, NEW p \in Process, Mark(p)
  PROVE  IInv'
<1>1. /\ request[p].pc = "mark"
      /\ UNCHANGED <<life, up, child, registered, flagged, waiter, reader>>
  BY DEF Mark
<1>2. /\ run' \in Record /\ run'.status = "running"
      /\ run'.owner = run.owner /\ run.owner # None
      /\ run'.chunks = request[p].copy.chunks
  <2>1. request[p].copy \in Record /\ "running" \in Pending \cup Final
    BY CopyOfRun DEF Mark, Pending
  <2>2. run' = [request[p].copy EXCEPT !.status = "running", !.pid = TRUE]
    BY DEF Mark
  <2>3. run'.owner = request[p].copy.owner /\ run'.chunks = request[p].copy.chunks
    BY <2>1, <2>2, StoredTyped
  <2> QED
    BY <1>1, <2>1, <2>2, <2>3, CopyOfRun, StoredTyped
<1>3. /\ request' \in [Process -> Request]
      /\ request'[p].pc = "supervise" /\ request'[p].copy = Absent
      /\ \A q \in Process \ {p} : request'[q] = request[q]
  BY NothingTyped, ServeTyped DEF Mark, IInv
<1>4. \A q \in Process \ {p} : request'[q].pc \notin {"launch", "register", "mark", "supervise"}
  BY <1>1, <1>3 DEF IInv, Launching, Owner, Me
<1>5. TypeOK'
  BY <1>1, <1>2, <1>3 DEF IInv, TypeOK
<1>6. Unstarted'
  BY <1>2 DEF Unstarted
<1>7. Down'
  BY <1>1, <1>3 DEF IInv, Down
<1>8. Launching'
  BY <1>1, <1>2, <1>3, <1>4 DEF IInv, Launching, Owner, Me
<1>9. Cancelling'
  BY <1>1, <1>2, <1>3 DEF IInv, Cancelling, Owner, Me
<1>10. CopiesAreTrue'
  BY <1>1, <1>2, <1>3 DEF IInv, CopiesAreTrue
<1>11. WaiterIsRight'
  BY <1>1 DEF IInv, WaiterIsRight
<1>12. NumbersLeft'
  BY <1>1, <1>2, <1>3 DEF IInv, NumbersLeft, Absent
<1>13. EndedRunsAreDead'
  BY <1>2 DEF EndedRunsAreDead, Ended
<1> QED
  BY <1>5, <1>6, <1>7, <1>8, <1>9, <1>10, <1>11, <1>12, <1>13 DEF IInv

LEMMA SuperviseKeeps ==
  ASSUME IInv, NEW p \in Process, Supervise(p)
  PROVE  IInv'
<1>1. /\ request[p].pc = "supervise"
      /\ waiter' \in Waiter /\ waiter'.pc = "wait" /\ waiter'.copy = Absent
      /\ reader' \in [Pipe -> Reader]
      /\ \A i \in Pipe : reader'[i].pc = "read" /\ reader'[i].copy = Absent
      /\ UNCHANGED <<life, up, run, child, registered, flagged>>
  BY NothingTyped DEF Supervise, NoWaiter, Off, Waiter, Reader
<1>2. /\ request' \in [Process -> Request]
      /\ request'[p].pc = "idle" /\ request'[p].copy = Absent
      /\ \A q \in Process \ {p} : request'[q] = request[q]
  BY NothingTyped, ServeTyped DEF Supervise, IInv
<1>3. \A q \in Process \ {p} : request'[q].pc \notin {"launch", "register", "mark", "supervise"}
  BY <1>1, <1>2 DEF IInv, Launching, Owner, Me
<1>4. TypeOK'
  BY <1>1, <1>2 DEF IInv, TypeOK
<1>5. Unstarted'
  BY <1>1 DEF IInv, Unstarted
<1>6. Down'
  BY <1>1, <1>2 DEF IInv, Down
<1>7. Launching'
  BY <1>2, <1>3 DEF Launching
<1>8. Cancelling'
  BY <1>1, <1>2 DEF IInv, Cancelling, Owner, Me
<1>9. CopiesAreTrue'
  BY <1>1, <1>2 DEF IInv, CopiesAreTrue
<1>10. WaiterIsRight'
  BY <1>1 DEF WaiterIsRight
<1>11. NumbersLeft'
  BY <1>1, <1>2 DEF IInv, NumbersLeft, Absent
<1>12. EndedRunsAreDead'
  BY <1>1 DEF IInv, EndedRunsAreDead
<1> QED
  BY <1>4, <1>5, <1>6, <1>7, <1>8, <1>9, <1>10, <1>11, <1>12 DEF IInv

LEMMA StartRaisesKeeps ==
  ASSUME IInv, NEW p \in Process, StartRaises(p)
  PROVE  IInv'
<1>1. /\ request[p].pc \in {"launch", "supervise"}
      /\ UNCHANGED <<life, up, run, child, registered, flagged, waiter, reader>>
  BY DEF StartRaises
<1>2. /\ request' \in [Process -> Request]
      /\ request'[p].pc = "idle" /\ request'[p].copy = Absent
      /\ \A q \in Process \ {p} : request'[q] = request[q]
  BY NothingTyped, ServeTyped DEF StartRaises, IInv
<1>3. TypeOK'
  BY <1>1, <1>2 DEF IInv, TypeOK
<1>4. Unstarted'
  BY <1>1 DEF IInv, Unstarted
<1>5. Down'
  BY <1>1, <1>2 DEF IInv, Down
<1>6. Launching'
  BY <1>1, <1>2 DEF IInv, Launching, Owner, Me
<1>7. Cancelling'
  BY <1>1, <1>2 DEF IInv, Cancelling, Owner, Me
<1>8. CopiesAreTrue'
  BY <1>1, <1>2 DEF IInv, CopiesAreTrue
<1>9. WaiterIsRight'
  BY <1>1 DEF IInv, WaiterIsRight
<1>10. NumbersLeft'
  BY <1>1, <1>2 DEF IInv, NumbersLeft, Absent
<1>11. EndedRunsAreDead'
  BY <1>1 DEF IInv, EndedRunsAreDead
<1> QED
  BY <1>3, <1>4, <1>5, <1>6, <1>7, <1>8, <1>9, <1>10, <1>11 DEF IInv

LEMMA CancelOwnKeeps ==
  ASSUME IInv, NEW p \in Process, CancelOwn(p)
  PROVE  IInv'
<1>1. /\ up[p]
      /\ Owner(p)
      /\ run.status \in Pending
      /\ flagged' = TRUE
      /\ UNCHANGED <<life, up, run, child, registered, waiter, reader>>
  BY DEF CancelOwn, Owner
<1>2. /\ request' \in [Process -> Request]
      /\ request'[p].pc = "kill" /\ request'[p].copy = run
      /\ \A q \in Process \ {p} : request'[q] = request[q]
  BY ServeTyped DEF CancelOwn, IInv, TypeOK
<1>3. TypeOK'
  BY <1>1, <1>2 DEF IInv, TypeOK
<1>4. Unstarted'
  BY <1>1 DEF Unstarted, Pending
<1>5. Down'
  BY <1>1, <1>2 DEF IInv, Down
<1>6. Launching'
  BY <1>1, <1>2 DEF IInv, Launching, Owner, Me
<1>7. Cancelling'
  BY <1>1, <1>2 DEF IInv, Cancelling, Owner, Me
<1>8. CopiesAreTrue'
  BY <1>1, <1>2 DEF IInv, CopiesAreTrue
<1>9. WaiterIsRight'
  BY <1>1 DEF IInv, WaiterIsRight
<1>10. NumbersLeft'
  BY <1>1, <1>2 DEF IInv, NumbersLeft
<1>11. EndedRunsAreDead'
  BY <1>1 DEF IInv, EndedRunsAreDead
<1> QED
  BY <1>3, <1>4, <1>5, <1>6, <1>7, <1>8, <1>9, <1>10, <1>11 DEF IInv

LEMMA KillKeeps ==
  ASSUME IInv, NEW p \in Process, Kill(p)
  PROVE  IInv'
<1>1. /\ request[p].pc = "kill"
      /\ child' = Dead(child)
      /\ UNCHANGED <<life, up, run, registered, flagged, waiter, reader>>
  BY DEF Kill
<1>2. /\ request' \in [Process -> Request]
      /\ request'[p].pc = "cancelled" /\ request'[p].copy = request[p].copy
      /\ \A q \in Process \ {p} : request'[q] = request[q]
  BY CopiesTyped, ServeTyped DEF Kill, IInv
<1>3. TypeOK'
  BY <1>1, <1>2 DEF IInv, TypeOK, Dead
<1>4. Unstarted'
  BY <1>1 DEF IInv, Unstarted
<1>5. Down'
  BY <1>1, <1>2 DEF IInv, Down
<1>6. Launching'
  BY <1>1, <1>2 DEF IInv, Launching, Owner, Me, Dead
<1>7. Cancelling'
  BY <1>1, <1>2 DEF IInv, Cancelling, Owner, Me, Dead
<1>8. CopiesAreTrue'
  BY <1>1, <1>2 DEF IInv, CopiesAreTrue, Dead
<1>9. WaiterIsRight'
  BY <1>1 DEF IInv, WaiterIsRight, Dead
<1>10. NumbersLeft'
  BY <1>1, <1>2 DEF IInv, NumbersLeft
<1>11. EndedRunsAreDead'
  BY <1>1 DEF EndedRunsAreDead, Dead
<1> QED
  BY <1>3, <1>4, <1>5, <1>6, <1>7, <1>8, <1>9, <1>10, <1>11 DEF IInv

LEMMA SaveCancelledKeeps ==
  ASSUME IInv, NEW p \in Process, SaveCancelled(p)
  PROVE  IInv'
<1>1. /\ request[p].pc = "cancelled"
      /\ UNCHANGED <<life, up, child, registered, flagged, waiter, reader>>
  BY DEF SaveCancelled
<1>2. /\ run' \in Record /\ run'.status = "cancelled"
      /\ run'.owner = run.owner /\ run.owner # None
      /\ run'.chunks = request[p].copy.chunks
  <2>1. request[p].copy \in Record /\ "cancelled" \in Pending \cup Final
    BY CopyOfRun DEF SaveCancelled, Final, Ended
  <2>2. run' = [request[p].copy EXCEPT !.status = "cancelled"]
    BY DEF SaveCancelled
  <2>3. run'.owner = request[p].copy.owner /\ run'.chunks = request[p].copy.chunks
    BY <2>1, <2>2, StoredTyped
  <2> QED
    BY <1>1, <2>1, <2>2, <2>3, CopyOfRun, StoredTyped
<1>3. /\ request' \in [Process -> Request]
      /\ request'[p].pc = "idle" /\ request'[p].copy = Absent
      /\ \A q \in Process \ {p} : request'[q] = request[q]
  BY NothingTyped, ServeTyped DEF SaveCancelled, IInv
<1>4. TypeOK'
  BY <1>1, <1>2, <1>3 DEF IInv, TypeOK
<1>5. Unstarted'
  BY <1>2 DEF Unstarted
<1>6. Down'
  BY <1>1, <1>3 DEF IInv, Down
<1>7. Launching'
  BY <1>1, <1>3 DEF IInv, Launching, Cancelling, Owner, Me
<1>8. Cancelling'
  BY <1>1, <1>3 DEF IInv, Cancelling, Owner, Me
<1>9. CopiesAreTrue'
  BY <1>1, <1>2, <1>3 DEF IInv, CopiesAreTrue
<1>10. WaiterIsRight'
  BY <1>1 DEF IInv, WaiterIsRight
<1>11. NumbersLeft'
  BY <1>1, <1>2, <1>3 DEF IInv, NumbersLeft, Absent
<1>12. EndedRunsAreDead'
  BY <1>1 DEF IInv, EndedRunsAreDead, Cancelling
<1> QED
  BY <1>4, <1>5, <1>6, <1>7, <1>8, <1>9, <1>10, <1>11, <1>12 DEF IInv

LEMMA CancelOrphanKeeps ==
  ASSUME IInv, NEW p \in Process, CancelOrphan(p)
  PROVE  IInv'
<1>1. /\ up[p]
      /\ run.status \in Pending
      /\ UNCHANGED <<life, up, run, child, registered, flagged, waiter, reader>>
  BY DEF CancelOrphan
<1>2. /\ request' \in [Process -> Request]
      /\ request'[p].pc = "terminate" /\ request'[p].copy = run
      /\ \A q \in Process \ {p} : request'[q] = request[q]
  BY ServeTyped DEF CancelOrphan, IInv, TypeOK
<1>3. TypeOK'
  BY <1>1, <1>2 DEF IInv, TypeOK
<1>4. Unstarted'
  BY <1>1 DEF Unstarted, Pending
<1>5. Down'
  BY <1>1, <1>2 DEF IInv, Down
<1>6. Launching'
  BY <1>1, <1>2 DEF IInv, Launching, Owner, Me
<1>7. Cancelling'
  BY <1>1, <1>2 DEF IInv, Cancelling, Owner, Me
<1>8. CopiesAreTrue'
  BY <1>1, <1>2 DEF IInv, CopiesAreTrue
<1>9. WaiterIsRight'
  BY <1>1 DEF IInv, WaiterIsRight
<1>10. NumbersLeft'
  BY <1>1, <1>2 DEF IInv, NumbersLeft
<1>11. EndedRunsAreDead'
  BY <1>1 DEF IInv, EndedRunsAreDead
<1> QED
  BY <1>3, <1>4, <1>5, <1>6, <1>7, <1>8, <1>9, <1>10, <1>11 DEF IInv

LEMMA MarkStaleKeeps ==
  ASSUME IInv, NEW p \in Process, MarkStale(p)
  PROVE  IInv'
<1>1. /\ request[p].pc = "stale"
      /\ UNCHANGED <<life, up, child, registered, flagged, waiter, reader>>
  BY DEF MarkStale
<1>2. /\ run' \in Record /\ run'.status = "stale"
      /\ run'.owner = run.owner /\ run.owner # None
      /\ run'.chunks = request[p].copy.chunks
  <2>1. request[p].copy \in Record /\ "stale" \in Pending \cup Final
    BY CopyOfRun DEF MarkStale, Final
  <2>2. run' = [request[p].copy EXCEPT !.status = "stale"]
    BY DEF MarkStale
  <2>3. run'.owner = request[p].copy.owner /\ run'.chunks = request[p].copy.chunks
    BY <2>1, <2>2, StoredTyped
  <2> QED
    BY <1>1, <2>1, <2>2, <2>3, CopyOfRun, StoredTyped
<1>3. /\ request' \in [Process -> Request]
      /\ request'[p].pc = "idle" /\ request'[p].copy = Absent
      /\ \A q \in Process \ {p} : request'[q] = request[q]
  BY NothingTyped, ServeTyped DEF MarkStale, IInv
<1>4. TypeOK'
  BY <1>1, <1>2, <1>3 DEF IInv, TypeOK
<1>5. Unstarted'
  BY <1>2 DEF Unstarted
<1>6. Down'
  BY <1>1, <1>3 DEF IInv, Down
<1>7. Launching'
  BY <1>1, <1>2, <1>3 DEF IInv, Launching, Owner, Me, Ended
<1>8. Cancelling'
  BY <1>1, <1>2, <1>3 DEF IInv, Cancelling, Owner, Me
<1>9. CopiesAreTrue'
  BY <1>1, <1>2, <1>3 DEF IInv, CopiesAreTrue
<1>10. WaiterIsRight'
  BY <1>1 DEF IInv, WaiterIsRight
<1>11. NumbersLeft'
  BY <1>1, <1>2, <1>3 DEF IInv, NumbersLeft, Absent
<1>12. EndedRunsAreDead'
  BY <1>2 DEF EndedRunsAreDead, Ended
<1> QED
  BY <1>4, <1>5, <1>6, <1>7, <1>8, <1>9, <1>10, <1>11, <1>12 DEF IInv

LEMMA RegisterKeeps ==
  ASSUME IInv, NEW p \in Process, Register(p)
  PROVE  IInv'
<1>1. PICK pc \in {"mark", "idle"}, copy \in Record :
         /\ Serve(p, pc, copy)
         /\ pc = "mark" => run.status = "starting" /\ copy = run
         /\ pc = "idle" => copy = Absent
  BY NothingTyped DEF Register, IInv, TypeOK
<1>2. /\ request[p].pc = "register"
      /\ child' \in {child, Dead(child)} /\ registered' \in BOOLEAN
      /\ UNCHANGED <<life, up, run, flagged, waiter, reader>>
  BY DEF Register, IInv, TypeOK
<1>3. /\ request' \in [Process -> Request]
      /\ request'[p].pc = pc /\ request'[p].copy = copy
      /\ \A q \in Process \ {p} : request'[q] = request[q]
  BY <1>1, ServeTyped DEF IInv
<1>4. TypeOK'
  BY <1>2, <1>3 DEF IInv, TypeOK, Dead
<1>5. Unstarted'
  BY <1>2 DEF IInv, Unstarted
<1>6. Down'
  BY <1>2, <1>3 DEF IInv, Down
<1>7. Launching'
  BY <1>2, <1>3 DEF IInv, Launching, Owner, Me
<1>8. Cancelling'
  BY <1>2, <1>3 DEF IInv, Cancelling, Owner, Me, Dead
<1>9. CopiesAreTrue'
  BY <1>1, <1>2, <1>3 DEF IInv, CopiesAreTrue, Pending, Dead
<1>10. WaiterIsRight'
  BY <1>2 DEF IInv, WaiterIsRight, Dead
<1>11. NumbersLeft'
  BY <1>1, <1>2, <1>3 DEF IInv, NumbersLeft, Absent
<1>12. EndedRunsAreDead'
  BY <1>2 DEF IInv, EndedRunsAreDead, Dead
<1> QED
  BY <1>4, <1>5, <1>6, <1>7, <1>8, <1>9, <1>10, <1>11, <1>12 DEF IInv

LEMMA StartupKeeps ==
  ASSUME IInv, NEW p \in Process, Startup(p)
  PROVE  IInv'
<1>1. PICK pc \in {"terminate", "idle"}, copy \in Record :
         /\ Serve(p, pc, copy)
         /\ pc = "terminate" => run.status \in Pending /\ copy = run
         /\ pc = "idle" => copy = Absent
  BY NothingTyped DEF Startup, IInv, TypeOK
<1>2. /\ up' \in [Process -> BOOLEAN] /\ up'[p]
      /\ life' \in [Process -> Nat]
      /\ \A q \in Process \ {p} : up'[q] = up[q] /\ life'[q] = life[q]
      /\ UNCHANGED <<run, child, registered, flagged, waiter, reader>>
  BY DEF Startup, IInv, TypeOK
<1>3. /\ request' \in [Process -> Request]
      /\ request'[p].pc = pc /\ request'[p].copy = copy
      /\ \A q \in Process \ {p} : request'[q] = request[q]
  BY <1>1, ServeTyped DEF IInv
<1>4. TypeOK'
  BY <1>2, <1>3 DEF IInv, TypeOK
<1>5. Unstarted'
  BY <1>1, <1>2, <1>3 DEF IInv, Unstarted, Pending
<1>6. Down'
  BY <1>2, <1>3 DEF IInv, Down
<1>7. Launching'
  BY <1>2, <1>3 DEF IInv, Launching, Owner, Me
<1>8. Cancelling'
  BY <1>2, <1>3 DEF IInv, Cancelling, Owner, Me
<1>9. CopiesAreTrue'
  BY <1>1, <1>2, <1>3 DEF IInv, CopiesAreTrue
<1>10. WaiterIsRight'
  BY <1>2 DEF IInv, WaiterIsRight
<1>11. NumbersLeft'
  BY <1>1, <1>2, <1>3 DEF IInv, NumbersLeft, Absent
<1>12. EndedRunsAreDead'
  BY <1>2 DEF IInv, EndedRunsAreDead
<1> QED
  BY <1>4, <1>5, <1>6, <1>7, <1>8, <1>9, <1>10, <1>11, <1>12 DEF IInv

LEMMA TerminateKeeps ==
  ASSUME IInv, NEW p \in Process, Terminate(p)
  PROVE  IInv'
<1>1. PICK copy \in Record :
         /\ Serve(p, "stale", copy)
         /\ copy.status = request[p].copy.status /\ copy.owner = request[p].copy.owner
         /\ copy.chunks = request[p].copy.chunks
  <2>1. PICK result \in {"skipped", "not_found", "terminated", "failed"} :
           Serve(p, "stale", [request[p].copy EXCEPT !.orphan = result])
    BY DEF Terminate
  <2>2. request[p].copy \in Record
    BY CopiesTyped DEF IInv
  <2> QED
    BY <2>1, <2>2, AttemptedTyped
<1>2. /\ request[p].pc = "terminate"
      /\ child' \in {child, Dead(child)}
      /\ UNCHANGED <<life, up, run, registered, flagged, waiter, reader>>
  BY DEF Terminate
<1>3. /\ request' \in [Process -> Request]
      /\ request'[p].pc = "stale" /\ request'[p].copy = copy
      /\ \A q \in Process \ {p} : request'[q] = request[q]
  BY <1>1, ServeTyped DEF IInv
<1>4. TypeOK'
  BY <1>2, <1>3 DEF IInv, TypeOK, Dead
<1>5. Unstarted'
  BY <1>2 DEF IInv, Unstarted
<1>6. Down'
  BY <1>2, <1>3 DEF IInv, Down
<1>7. Launching'
  BY <1>2, <1>3 DEF IInv, Launching, Owner, Me, Dead
<1>8. Cancelling'
  BY <1>2, <1>3 DEF IInv, Cancelling, Owner, Me, Dead
<1>9. CopiesAreTrue'
  BY <1>1, <1>2, <1>3 DEF IInv, CopiesAreTrue, Dead
<1>10. WaiterIsRight'
  BY <1>2 DEF IInv, WaiterIsRight, Dead
<1>11. NumbersLeft'
  BY <1>1, <1>2, <1>3 DEF IInv, NumbersLeft
<1>12. EndedRunsAreDead'
  BY <1>2 DEF IInv, EndedRunsAreDead, Dead
<1> QED
  BY <1>4, <1>5, <1>6, <1>7, <1>8, <1>9, <1>10, <1>11, <1>12 DEF IInv

LEMMA CrashKeeps ==
  ASSUME IInv, NEW p \in Process, Crash(p)
  PROVE  IInv'
<1>1. Serve(p, "idle", Absent)
  BY DEF Crash
<1>2. /\ up' \in [Process -> BOOLEAN] /\ \A q \in Process \ {p} : up'[q] = up[q]
      /\ waiter' \in {waiter, NoWaiter}
      /\ reader' \in [Pipe -> Reader] /\ \A i \in Pipe : reader'[i] \in {reader[i], Off}
      /\ registered' \in BOOLEAN /\ flagged' \in BOOLEAN
      /\ UNCHANGED <<life, run, child>>
  BY NothingTyped DEF Crash, IInv, TypeOK
<1>3. /\ request' \in [Process -> Request]
      /\ request'[p].pc = "idle" /\ request'[p].copy = Absent
      /\ \A q \in Process \ {p} : request'[q] = request[q]
  BY <1>1, NothingTyped, ServeTyped DEF IInv
<1>4. ASSUME waiter' # waiter \/ \E i \in Pipe : reader'[i] # reader[i]
      PROVE  Owner(p)
  BY <1>4 DEF Crash
<1>5. TypeOK'
  BY <1>2, <1>3, NothingTyped DEF IInv, TypeOK
<1>6. Unstarted'
  BY <1>2, <1>3 DEF IInv, Unstarted
<1>7. Down'
  BY <1>2, <1>3 DEF IInv, Down
<1>8. Launching'
  BY <1>2, <1>3 DEF IInv, Launching, Owner, Me
<1>9. Cancelling'
  BY <1>2, <1>3 DEF IInv, Cancelling, Owner, Me
<1>10. CopiesAreTrue'
  BY <1>2, <1>3 DEF IInv, CopiesAreTrue, Off, NoWaiter
<1>11. WaiterIsRight'
  BY <1>2 DEF IInv, WaiterIsRight, NoWaiter
<1>12. NumbersLeft'
  BY <1>2, <1>3 DEF IInv, NumbersLeft, NoWaiter, Off, Absent
<1>13. EndedRunsAreDead'
  BY <1>2 DEF IInv, EndedRunsAreDead
<1> QED
  BY <1>5, <1>6, <1>7, <1>8, <1>9, <1>10, <1>11, <1>12, <1>13 DEF IInv

LEMMA WaitReturnsKeeps ==
  ASSUME IInv, WaitReturns
  PROVE  IInv'
<1>1. /\ waiter.pc = "wait" /\ child # "alive"
      /\ waiter' \in Waiter /\ waiter'.pc = "ended"
      /\ waiter'.copy = waiter.copy
      /\ UNCHANGED <<life, up, run, child, registered, flagged, request, reader>>
  BY DEF WaitReturns, Waiting, IInv, TypeOK, Waiter
<1>2. TypeOK'
  BY <1>1 DEF IInv, TypeOK
<1>3. Unstarted'
  BY <1>1 DEF IInv, Unstarted, NoWaiter
<1>4. Down'
  BY <1>1 DEF IInv, Down
<1>5. Launching'
  BY <1>1 DEF IInv, Launching, NoWaiter
<1>6. Cancelling'
  BY <1>1 DEF IInv, Cancelling, Owner, Me
<1>7. CopiesAreTrue'
  BY <1>1 DEF IInv, CopiesAreTrue
<1>8. WaiterIsRight'
  BY <1>1 DEF WaiterIsRight
<1>9. NumbersLeft'
  BY <1>1 DEF IInv, NumbersLeft
<1>10. EndedRunsAreDead'
  BY <1>1 DEF EndedRunsAreDead
<1> QED
  BY <1>2, <1>3, <1>4, <1>5, <1>6, <1>7, <1>8, <1>9, <1>10 DEF IInv

LEMMA TimesOutKeeps ==
  ASSUME IInv, TimesOut
  PROVE  IInv'
<1>1. /\ waiter.pc = "wait"
      /\ waiter' \in Waiter /\ waiter'.pc = "overdue"
      /\ waiter'.copy = waiter.copy
      /\ UNCHANGED <<life, up, run, child, registered, flagged, request, reader>>
  BY DEF TimesOut, Waiting, IInv, TypeOK, Waiter
<1>2. TypeOK'
  BY <1>1 DEF IInv, TypeOK
<1>3. Unstarted'
  BY <1>1 DEF IInv, Unstarted, NoWaiter
<1>4. Down'
  BY <1>1 DEF IInv, Down
<1>5. Launching'
  BY <1>1 DEF IInv, Launching, NoWaiter
<1>6. Cancelling'
  BY <1>1 DEF IInv, Cancelling, Owner, Me
<1>7. CopiesAreTrue'
  BY <1>1 DEF IInv, CopiesAreTrue
<1>8. WaiterIsRight'
  BY <1>1 DEF WaiterIsRight
<1>9. NumbersLeft'
  BY <1>1 DEF IInv, NumbersLeft
<1>10. EndedRunsAreDead'
  BY <1>1 DEF IInv, EndedRunsAreDead
<1> QED
  BY <1>2, <1>3, <1>4, <1>5, <1>6, <1>7, <1>8, <1>9, <1>10 DEF IInv

LEMMA JudgeEndedKeeps ==
  ASSUME IInv, JudgeEnded
  PROVE  IInv'
<1>1. /\ waiter.pc = "ended"
      /\ waiter' \in Waiter /\ waiter'.pc = "join"
      /\ waiter'.outcome # "none"
      /\ waiter'.copy = waiter.copy
      /\ UNCHANGED <<life, up, run, child, registered, flagged, request, reader>>
  BY DEF JudgeEnded, IInv, TypeOK, Waiter, Ended
<1>2. TypeOK'
  BY <1>1 DEF IInv, TypeOK
<1>3. Unstarted'
  BY <1>1 DEF IInv, Unstarted, NoWaiter
<1>4. Down'
  BY <1>1 DEF IInv, Down
<1>5. Launching'
  BY <1>1 DEF IInv, Launching, NoWaiter
<1>6. Cancelling'
  BY <1>1 DEF IInv, Cancelling, Owner, Me
<1>7. CopiesAreTrue'
  BY <1>1 DEF IInv, CopiesAreTrue
<1>8. WaiterIsRight'
  BY <1>1 DEF IInv, WaiterIsRight
<1>9. NumbersLeft'
  BY <1>1 DEF IInv, NumbersLeft
<1>10. EndedRunsAreDead'
  BY <1>1 DEF IInv, EndedRunsAreDead
<1> QED
  BY <1>2, <1>3, <1>4, <1>5, <1>6, <1>7, <1>8, <1>9, <1>10 DEF IInv

LEMMA JudgeOverdueKeeps ==
  ASSUME IInv, JudgeOverdue
  PROVE  IInv'
<1>1. /\ waiter.pc = "overdue"
      /\ waiter' \in Waiter /\ waiter'.pc = "note"
      /\ waiter'.outcome # "none"
      /\ waiter'.copy = waiter.copy
      /\ child' = Dead(child)
      /\ UNCHANGED <<life, up, run, registered, flagged, request, reader>>
  BY DEF JudgeOverdue, IInv, TypeOK, Waiter, Ended
<1>2. TypeOK'
  BY <1>1 DEF IInv, TypeOK, Dead
<1>3. Unstarted'
  BY <1>1 DEF IInv, Unstarted, NoWaiter
<1>4. Down'
  BY <1>1 DEF IInv, Down
<1>5. Launching'
  BY <1>1 DEF IInv, Launching, NoWaiter
<1>6. Cancelling'
  BY <1>1 DEF IInv, Cancelling, Owner, Me, Dead
<1>7. CopiesAreTrue'
  BY <1>1 DEF IInv, CopiesAreTrue, Dead
<1>8. WaiterIsRight'
  BY <1>1 DEF WaiterIsRight, Dead
<1>9. NumbersLeft'
  BY <1>1 DEF IInv, NumbersLeft
<1>10. EndedRunsAreDead'
  BY <1>1 DEF EndedRunsAreDead, Dead
<1> QED
  BY <1>2, <1>3, <1>4, <1>5, <1>6, <1>7, <1>8, <1>9, <1>10 DEF IInv

LEMMA NoteKeeps ==
  ASSUME IInv, Note
  PROVE  IInv'
<1>1. /\ waiter.pc = "note"
      /\ waiter' \in Waiter /\ waiter'.pc = "noteSave"
      /\ waiter'.outcome = waiter.outcome
      /\ waiter'.copy = run
      /\ UNCHANGED <<life, up, run, child, registered, flagged, request, reader>>
  BY DEF Note, IInv, TypeOK, Waiter
<1>2. TypeOK'
  BY <1>1 DEF IInv, TypeOK
<1>3. Unstarted'
  BY <1>1 DEF IInv, Unstarted, NoWaiter
<1>4. Down'
  BY <1>1 DEF IInv, Down
<1>5. Launching'
  BY <1>1 DEF IInv, Launching, NoWaiter
<1>6. Cancelling'
  BY <1>1 DEF IInv, Cancelling, Owner, Me
<1>7. CopiesAreTrue'
  BY <1>1 DEF IInv, CopiesAreTrue, Unstarted, NoWaiter
<1>8. WaiterIsRight'
  BY <1>1 DEF IInv, WaiterIsRight
<1>9. NumbersLeft'
  BY <1>1 DEF IInv, NumbersLeft
<1>10. EndedRunsAreDead'
  BY <1>1 DEF IInv, EndedRunsAreDead
<1> QED
  BY <1>2, <1>3, <1>4, <1>5, <1>6, <1>7, <1>8, <1>9, <1>10 DEF IInv

LEMMA DeregisterKeeps ==
  ASSUME IInv, Deregister
  PROVE  IInv'
<1>1. /\ waiter.pc = "join"
      /\ waiter' \in Waiter /\ waiter'.pc = "final"
      /\ waiter'.outcome = waiter.outcome
      /\ waiter'.copy = waiter.copy
      /\ registered' \in BOOLEAN /\ flagged' \in BOOLEAN
      /\ UNCHANGED <<life, up, run, child, request, reader>>
  BY DEF Deregister, IInv, TypeOK, Waiter
<1>2. TypeOK'
  BY <1>1 DEF IInv, TypeOK
<1>3. Unstarted'
  BY <1>1 DEF IInv, Unstarted, NoWaiter
<1>4. Down'
  BY <1>1 DEF IInv, Down
<1>5. Launching'
  BY <1>1 DEF IInv, Launching, NoWaiter
<1>6. Cancelling'
  BY <1>1 DEF IInv, Cancelling, Owner, Me
<1>7. CopiesAreTrue'
  BY <1>1 DEF IInv, CopiesAreTrue
<1>8. WaiterIsRight'
  BY <1>1 DEF IInv, WaiterIsRight
<1>9. NumbersLeft'
  BY <1>1 DEF IInv, NumbersLeft
<1>10. EndedRunsAreDead'
  BY <1>1 DEF IInv, EndedRunsAreDead
<1> QED
  BY <1>2, <1>3, <1>4, <1>5, <1>6, <1>7, <1>8, <1>9, <1>10 DEF IInv

LEMMA FinalizeKeeps ==
  ASSUME IInv, Finalize
  PROVE  IInv'
<1>1. /\ waiter.pc = "final"
      /\ waiter' \in Waiter /\ waiter'.pc = "finalSave"
      /\ waiter'.outcome = waiter.outcome
      /\ waiter'.copy = run
      /\ UNCHANGED <<life, up, run, child, registered, flagged, request, reader>>
  BY DEF Finalize, IInv, TypeOK, Waiter
<1>2. TypeOK'
  BY <1>1 DEF IInv, TypeOK
<1>3. Unstarted'
  BY <1>1 DEF IInv, Unstarted, NoWaiter
<1>4. Down'
  BY <1>1 DEF IInv, Down
<1>5. Launching'
  BY <1>1 DEF IInv, Launching, NoWaiter
<1>6. Cancelling'
  BY <1>1 DEF IInv, Cancelling, Owner, Me
<1>7. CopiesAreTrue'
  BY <1>1 DEF IInv, CopiesAreTrue, Unstarted, NoWaiter
<1>8. WaiterIsRight'
  BY <1>1 DEF IInv, WaiterIsRight
<1>9. NumbersLeft'
  BY <1>1 DEF IInv, NumbersLeft
<1>10. EndedRunsAreDead'
  BY <1>1 DEF IInv, EndedRunsAreDead
<1> QED
  BY <1>2, <1>3, <1>4, <1>5, <1>6, <1>7, <1>8, <1>9, <1>10 DEF IInv

LEMMA NoteSaveKeeps ==
  ASSUME IInv, NoteSave
  PROVE  IInv'
<1>1. /\ waiter.pc = "noteSave"
      /\ waiter' \in Waiter /\ waiter'.pc = "join" /\ waiter'.outcome = waiter.outcome
      /\ UNCHANGED <<life, up, child, registered, flagged, request, reader>>
  BY NothingTyped DEF NoteSave, IInv, TypeOK, Waiter
<1>2. run' \in Record /\ run'.status = waiter.copy.status /\ run'.owner = waiter.copy.owner
  <2>1. waiter.copy \in Record /\ Top(waiter.copy.chunks) <= MaxOutput
    BY <1>1, CopiesTyped, NoteHasNumber DEF IInv, NumbersLeft
  <2> QED
    BY <2>1, AppendedTyped DEF NoteSave
<1>3. run'.owner = run.owner /\ run.status # "absent" /\ run'.status # "absent"
  BY <1>1, <1>2 DEF IInv, CopiesAreTrue, Unstarted, NoWaiter
<1>4. TypeOK'
  BY <1>1, <1>2, <1>3 DEF IInv, TypeOK
<1>5. Unstarted'
  BY <1>3 DEF Unstarted
<1>6. Down'
  BY <1>1 DEF IInv, Down
<1>7. Launching'
  BY <1>1 DEF IInv, Launching, NoWaiter
<1>8. Cancelling'
  BY <1>1, <1>3 DEF IInv, Cancelling, Owner, Me
<1>9. CopiesAreTrue'
  BY <1>1, <1>3 DEF IInv, CopiesAreTrue
<1>10. WaiterIsRight'
  BY <1>1 DEF IInv, WaiterIsRight
<1>11. NumbersLeft'
  BY <1>1 DEF IInv, NumbersLeft, Launching, NoWaiter
<1>12. EndedRunsAreDead'
  BY <1>1 DEF IInv, EndedRunsAreDead, WaiterIsRight
<1> QED
  BY <1>4, <1>5, <1>6, <1>7, <1>8, <1>9, <1>10, <1>11, <1>12 DEF IInv

LEMMA FinalSaveKeeps ==
  ASSUME IInv, FinalSave
  PROVE  IInv'
<1>1. /\ waiter.pc = "finalSave" /\ waiter.outcome \in Ended
      /\ waiter' \in Waiter /\ waiter'.pc = "over"
      /\ UNCHANGED <<life, up, child, registered, flagged, request, reader>>
  BY NothingTyped DEF FinalSave, IInv, TypeOK, Waiter, WaiterIsRight
<1>2. run' \in Record /\ run'.status = waiter.outcome /\ run'.owner = waiter.copy.owner
  <2>1. waiter.copy \in Record /\ waiter.outcome \in Pending \cup Final
    BY <1>1, CopiesTyped DEF IInv, Final
  <2> QED
    BY <2>1, StoredTyped DEF FinalSave
<1>3. run'.owner = run.owner /\ run.status # "absent" /\ run'.status # "absent"
  BY <1>1, <1>2 DEF IInv, CopiesAreTrue, Unstarted, NoWaiter, Ended
<1>4. TypeOK'
  BY <1>1, <1>2, <1>3 DEF IInv, TypeOK
<1>5. Unstarted'
  BY <1>3 DEF Unstarted
<1>6. Down'
  BY <1>1 DEF IInv, Down
<1>7. Launching'
  BY <1>1 DEF IInv, Launching, NoWaiter
<1>8. Cancelling'
  BY <1>1, <1>3 DEF IInv, Cancelling, Owner, Me
<1>9. CopiesAreTrue'
  BY <1>1, <1>3 DEF IInv, CopiesAreTrue
<1>10. WaiterIsRight'
  BY <1>1 DEF WaiterIsRight
<1>11. NumbersLeft'
  BY <1>1 DEF IInv, NumbersLeft, Launching, NoWaiter
<1>12. EndedRunsAreDead'
  BY <1>1 DEF IInv, EndedRunsAreDead, WaiterIsRight
<1> QED
  BY <1>4, <1>5, <1>6, <1>7, <1>8, <1>9, <1>10, <1>11, <1>12 DEF IInv

LEMMA ExitKeeps ==
  ASSUME IInv, Exit
  PROVE  IInv'
<1>1. /\ child = "alive" /\ child' \in {"exit0", "exit1"}
      /\ UNCHANGED <<life, up, run, registered, flagged, request, waiter, reader>>
  BY DEF Exit
<1>2. TypeOK'
  BY <1>1 DEF IInv, TypeOK
<1>3. Unstarted'
  BY <1>1 DEF IInv, Unstarted
<1>4. Down'
  BY <1>1 DEF IInv, Down
<1>5. Launching'
  BY <1>1 DEF IInv, Launching, Owner, Me
<1>6. Cancelling'
  BY <1>1 DEF IInv, Cancelling, Owner, Me
<1>7. CopiesAreTrue'
  BY <1>1 DEF IInv, CopiesAreTrue
<1>8. WaiterIsRight'
  BY <1>1 DEF IInv, WaiterIsRight
<1>9. NumbersLeft'
  BY <1>1 DEF IInv, NumbersLeft
<1>10. EndedRunsAreDead'
  BY <1>1 DEF EndedRunsAreDead
<1> QED
  BY <1>2, <1>3, <1>4, <1>5, <1>6, <1>7, <1>8, <1>9, <1>10 DEF IInv

LEMMA ReadKeeps ==
  ASSUME IInv, NEW i \in Pipe, Read(i)
  PROVE  IInv'
<1>1. /\ reader' \in [Pipe -> Reader]
      /\ \A j \in Pipe \ {i} : reader'[j] = reader[j]
      /\ reader[i].pc = "read" /\ Top(run.chunks) < MaxOutput
      /\ reader'[i].pc = "append" /\ reader'[i].copy = run
      /\ UNCHANGED <<life, up, run, child, registered, flagged, request, waiter>>
  BY DEF Read, IInv, TypeOK, Reader
<1>2. TypeOK'
  BY <1>1 DEF IInv, TypeOK
<1>3. Unstarted'
  BY <1>1 DEF IInv, Unstarted, Off
<1>4. Down'
  BY <1>1 DEF IInv, Down
<1>5. Launching'
  BY <1>1 DEF IInv, Launching, Off
<1>6. Cancelling'
  BY <1>1 DEF IInv, Cancelling, Owner, Me
<1>7. CopiesAreTrue'
  BY <1>1 DEF IInv, CopiesAreTrue, EndedRunsAreDead, Unstarted, Off
<1>8. WaiterIsRight'
  BY <1>1 DEF IInv, WaiterIsRight
<1>9. NumbersLeft'
  BY <1>1 DEF IInv, NumbersLeft
<1>10. EndedRunsAreDead'
  BY <1>1 DEF IInv, EndedRunsAreDead
<1> QED
  BY <1>2, <1>3, <1>4, <1>5, <1>6, <1>7, <1>8, <1>9, <1>10 DEF IInv

LEMMA AppendKeeps ==
  ASSUME IInv, NEW i \in Pipe, Append(i)
  PROVE  IInv'
<1>1. /\ reader' \in [Pipe -> Reader]
      /\ \A j \in Pipe \ {i} : reader'[j] = reader[j]
      /\ reader[i].pc = "append"
      /\ reader'[i].pc = "read" /\ reader'[i].copy = Absent
      /\ UNCHANGED <<life, up, child, registered, flagged, request, waiter>>
  BY NothingTyped DEF Append, IInv, TypeOK, Reader
<1>2. /\ run' \in Record
      /\ run'.status = reader[i].copy.status /\ run'.owner = reader[i].copy.owner
      /\ reader[i].copy.chunks \subseteq Unnoted => run'.chunks \subseteq Unnoted
  <2>1. /\ reader[i].copy \in Record
        /\ Top(reader[i].copy.chunks) <= MaxOutput /\ Top(reader[i].copy.chunks) < MaxOutput
    <3>1. reader[i].copy.chunks \subseteq Number /\ MaxOutput \in Nat
      BY CopiesTyped, CliAssumption DEF IInv, Record
    <3> QED
      BY <1>1, <3>1, CopiesTyped, TopIsGreatest DEF IInv, NumbersLeft
  <2> QED
    BY <2>1, AppendedTyped DEF Append
<1>3. run'.owner = run.owner /\ run.status # "absent" /\ run'.status # "absent"
  BY <1>1, <1>2 DEF IInv, CopiesAreTrue, Unstarted, Off
<1>4. TypeOK'
  BY <1>1, <1>2, <1>3 DEF IInv, TypeOK
<1>5. Unstarted'
  BY <1>3 DEF Unstarted
<1>6. Down'
  BY <1>1 DEF IInv, Down
<1>7. Launching'
  BY <1>1 DEF IInv, Launching, Off
<1>8. Cancelling'
  BY <1>1, <1>3 DEF IInv, Cancelling, Owner, Me
<1>9. CopiesAreTrue'
  BY <1>1, <1>3 DEF IInv, CopiesAreTrue
<1>10. WaiterIsRight'
  BY <1>1 DEF IInv, WaiterIsRight
<1>11. NumbersLeft'
  BY <1>1, <1>2 DEF IInv, NumbersLeft, Absent
<1>12. EndedRunsAreDead'
  BY <1>1, <1>2 DEF IInv, EndedRunsAreDead, CopiesAreTrue
<1> QED
  BY <1>4, <1>5, <1>6, <1>7, <1>8, <1>9, <1>10, <1>11, <1>12 DEF IInv

----------------------------------------------------------------------------
(* The theorems.                                                           *)

LEMMA StutteringKeeps ==
  ASSUME IInv, UNCHANGED vars
  PROVE  IInv'
BY DEF IInv, vars, TypeOK, Unstarted, Down, Launching, Cancelling, CopiesAreTrue, WaiterIsRight,
  NumbersLeft, EndedRunsAreDead, Owner, Me

\* The inductive invariant of a command run.
THEOREM CommandInvariant == Spec => []IInv
<1>1. ASSUME IInv, [Next]_vars
      PROVE  IInv'
  <2>1. CASE UNCHANGED vars
    BY <1>1, <2>1, StutteringKeeps
  <2>2. ASSUME NEW p \in Process,
               Start(p) \/ CancelOwn(p) \/ CancelOrphan(p) \/ Serving(p) \/ Startup(p) \/ Crash(p)
        PROVE  IInv'
    BY <1>1, <2>2, StartKeeps, LaunchKeeps, LaunchFailsKeeps, RegisterKeeps, MarkKeeps,
      SuperviseKeeps, StartRaisesKeeps, CancelOwnKeeps, KillKeeps, SaveCancelledKeeps, CancelOrphanKeeps, TerminateKeeps,
      MarkStaleKeeps, StartupKeeps, CrashKeeps DEF Serving
  <2>3. CASE Supervising
    BY <1>1, <2>3, WaitReturnsKeeps, TimesOutKeeps, JudgeEndedKeeps, JudgeOverdueKeeps, NoteKeeps,
      NoteSaveKeeps, DeregisterKeeps, FinalizeKeeps, FinalSaveKeeps DEF Supervising
  <2>4. ASSUME NEW i \in Pipe, Reading(i)
        PROVE  IInv'
    BY <1>1, <2>4, ReadKeeps, AppendKeeps DEF Reading
  <2>5. CASE Exit
    BY <1>1, <2>5, ExitKeeps
  <2> QED
    BY <1>1, <2>1, <2>2, <2>3, <2>4, <2>5 DEF Next
<1> QED
  BY Initially, <1>1, PTL DEF Spec

\* The record, the requests and the threads' copies stay well formed; the
\* numbers of chunks never run out.
THEOREM CommandTypes == Spec => []TypeOK
<1>1. IInv => TypeOK
  BY DEF IInv
<1> QED
  BY CommandInvariant, <1>1, PTL

\* However many processes start, cancel, reconcile and die, no command run is on
\* record as completed, failed, timed out or cancelled while its command runs.
THEOREM OutcomesAreTrue == Spec => []EndedRunsAreDead
<1>1. IInv => EndedRunsAreDead
  BY DEF IInv
<1> QED
  BY CommandInvariant, <1>1, PTL

----------------------------------------------------------------------------
(* Orphans: what a record or a copy of one says is so.                      *)

\* The chunks that are left when n have been appended.
Kept(n) == {m \in 1..n : m + Retained > n}

\* The record x fits a command in state c: output is only lost to retention, a
\* stale run has been tried to terminate, and only a stale one, and what is
\* said of the command has happened.
Fits(x, c) ==
    /\ x.chunks = Kept(Top(x.chunks))
    /\ x.status = "stale" => x.orphan # "none"
    /\ x.status \in Pending \cup {"absent"} => x.orphan = "none"
    /\ x.orphan \in {"not_found", "terminated"} => c \notin {"none", "alive"}
    /\ x.status = "running" => c # "none"

\* The copy of a request that is about to mark it stale fits as such.
RequestFits(r, c) ==
    Fits(IF r.pc = "stale" THEN [r.copy EXCEPT !.status = "stale"] ELSE r.copy, c)

RecordsFit ==
    /\ Fits(run, child) /\ Fits(waiter.copy, child)
    /\ \A i \in Pipe : Fits(reader[i].copy, child)
    /\ \A p \in Process : RequestFits(request[p], child)

\* A run that is being brought up is not running yet.
Fresh ==
    \A p \in Process : request[p].pc \in {"launch", "register", "mark"} =>
        /\ run.status # "running"
        /\ request[p].pc # "launch" => child # "none"

\* Two processes never own the run.
LEMMA OneOwner ==
  ASSUME NEW p, NEW q, Owner(p), Owner(q)
  PROVE  p = q
BY DEF Owner, Me

\* A command is launched once and dies once.
LEMMA ChildSteps ==
  ASSUME IInv, [Next]_vars
  PROVE  \/ child' = child
         \/ child = "none" /\ child' = "alive"
         \/ child' \in {"exit0", "exit1", "killed"}
<1>1. CASE UNCHANGED vars
  BY <1>1 DEF vars
<1>2. ASSUME NEW p \in Process,
             Start(p) \/ CancelOwn(p) \/ CancelOrphan(p) \/ Serving(p) \/ Startup(p) \/ Crash(p)
      PROVE  \/ child' = child
             \/ child = "none" /\ child' = "alive"
             \/ child' \in {"exit0", "exit1", "killed"}
  <2>1. Launch(p) => child = "none" /\ child' = "alive"
    BY DEF Launch, IInv, Launching
  <2> QED
    BY <1>2, <2>1 DEF Start, CancelOwn, CancelOrphan, Serving, LaunchFails, Register, Mark,
      Supervise, StartRaises, Kill, SaveCancelled, Terminate, MarkStale, Startup, Crash, Dead
<1>3. CASE Supervising
  BY <1>3 DEF Supervising, WaitReturns, TimesOut, JudgeEnded, JudgeOverdue, Note, NoteSave,
    Deregister, Finalize, FinalSave, Dead
<1>4. ASSUME NEW i \in Pipe, Reading(i)
      PROVE  child' = child
  BY <1>4 DEF Reading, Read, Append
<1>5. CASE Exit
  BY <1>5 DEF Exit
<1> QED
  BY <1>1, <1>2, <1>3, <1>4, <1>5 DEF Next

\* What fits goes on to fit.
LEMMA FitsLasts ==
  ASSUME NEW x, NEW c, NEW d, Fits(x, c),
         d = c \/ (c = "none" /\ d = "alive") \/ d \in {"exit0", "exit1", "killed"}
  PROVE  Fits(x, d)
BY DEF Fits

LEMMA AbsentFits ==
  ASSUME NEW x \in Record, NEW c, x.chunks = {}, x.orphan = "none",
         x.status \in {"absent", "starting"}
  PROVE  Fits(x, c) /\ Top(x.chunks) = 0
<1>1. Top({}) = 0
  BY TopIsGreatest
<1>2. Kept(0) = {}
  BY DEF Kept
<1> QED
  BY <1>1, <1>2 DEF Fits

\* A record with an outcome says no less of the command than it did.
LEMMA EndedFits ==
  ASSUME NEW x \in Record, NEW c, Fits(x, c), NEW status \in Ended
  PROVE  LET y == [x EXCEPT !.status = status]
         IN  Fits(y, c) /\ y.orphan = x.orphan /\ y.chunks = x.chunks
<1> DEFINE y == [x EXCEPT !.status = status]
<1>1. y.status = status /\ y.orphan = x.orphan /\ y.chunks = x.chunks
  BY DEF Record
<1> HIDE DEF y
<1>2. Fits(y, c)
  BY <1>1 DEF Fits, Ended, Pending
<1> QED
  BY <1>1, <1>2 DEF y

\* A chunk that is appended is the last one, and drops what retention drops.
LEMMA AppendedFits ==
  ASSUME NEW x \in Record, NEW c, Fits(x, c), Top(x.chunks) <= MaxOutput
  PROVE  /\ Fits(Appended(x), c)
         /\ Appended(x).orphan = x.orphan
         /\ Top(Appended(x).chunks) = Top(x.chunks) + 1
         /\ Appended(x).chunks = Kept(Top(x.chunks) + 1)
<1>1. MaxOutput \in Nat /\ Retained \in Nat \ {0}
  BY CliAssumption
<1>2. x.chunks \subseteq Number /\ Top(x.chunks) \in Nat
  BY <1>1, TopIsGreatest DEF Record
<1> DEFINE n == Top(x.chunks) + 1
           kept == {m \in x.chunks \cup {n} : m + Retained > n}
<1>3. Appended(x) = [x EXCEPT !.chunks = kept]
  BY DEF Appended
<1>4. x.chunks = {m \in 1..Top(x.chunks) : m + Retained > Top(x.chunks)}
  BY DEF Fits, Kept
<1>5. kept = Kept(n)
  BY <1>1, <1>2, <1>4 DEF Kept
<1>6. Kept(n) \subseteq Number /\ n \in Kept(n) /\ \A m \in Kept(n) : m <= n
  BY <1>1, <1>2 DEF Kept, Number
<1>7. Top(Kept(n)) = n
  <2> DEFINE t == Top(Kept(n))
  <2>1. t \in 0..(MaxOutput + 1) /\ (t = 0 \/ t \in Kept(n)) /\ n <= t
    BY <1>6, TopIsGreatest
  <2> HIDE DEF t
  <2>2. t = n
    BY <1>1, <1>2, <1>6, <2>1
  <2> QED
    BY <2>2 DEF t
<1> HIDE DEF n, kept
<1>8. /\ Appended(x).chunks = Kept(n)
      /\ Appended(x).status = x.status /\ Appended(x).orphan = x.orphan
  BY <1>3, <1>5 DEF Record
<1>9. Fits(Appended(x), c)
  BY <1>7, <1>8 DEF Fits
<1> QED
  BY <1>7, <1>8, <1>9 DEF n

\* A thread's copy is the run's record when it is taken.
LEMMA ThreadCopies ==
  ASSUME IInv, [Next]_vars
  PROVE  /\ waiter'.copy \in {waiter.copy, run, Absent}
         /\ \A i \in Pipe : reader'[i].copy \in {reader[i].copy, run, Absent}
<1>1. CASE UNCHANGED vars
  BY <1>1 DEF vars
<1>2. ASSUME NEW p \in Process,
             Start(p) \/ CancelOwn(p) \/ CancelOrphan(p) \/ Serving(p) \/ Startup(p) \/ Crash(p)
      PROVE  /\ waiter'.copy \in {waiter.copy, run, Absent}
             /\ \A i \in Pipe : reader'[i].copy \in {reader[i].copy, run, Absent}
  <2>1. CASE Supervise(p)
    BY <2>1 DEF Supervise, NoWaiter, Off
  <2>2. CASE Crash(p)
    BY <2>2 DEF Crash, NoWaiter, Off
  <2>3. CASE UNCHANGED <<waiter, reader>>
    BY <2>3
  <2> QED
    BY <1>2, <2>1, <2>2, <2>3 DEF Start, CancelOwn, CancelOrphan, Serving, Launch, LaunchFails,
      Register, Mark, StartRaises, Kill, SaveCancelled, Terminate, MarkStale, Startup
<1>3. CASE Supervising
  <2>1. reader' = reader
    BY <1>3 DEF Supervising, WaitReturns, TimesOut, JudgeEnded, JudgeOverdue, Note, NoteSave,
      Deregister, Finalize, FinalSave
  <2>2. waiter \in Waiter
    BY DEF IInv, TypeOK
  <2>3. waiter'.copy \in {waiter.copy, run, Absent}
    BY <1>3, <2>2 DEF Supervising, WaitReturns, TimesOut, JudgeEnded, JudgeOverdue, Note, NoteSave,
      Deregister, Finalize, FinalSave, Waiting, Waiter, NoWaiter
  <2> QED
    BY <2>1, <2>3
<1>4. ASSUME NEW i \in Pipe, Reading(i)
      PROVE  /\ waiter' = waiter
             /\ \A j \in Pipe : reader'[j].copy \in {reader[j].copy, run, Absent}
  <2>1. reader \in [Pipe -> Reader]
    BY DEF IInv, TypeOK
  <2> QED
    BY <1>4, <2>1 DEF Reading, Read, Append, Reader
<1>5. CASE Exit
  BY <1>5 DEF Exit
<1> QED
  BY <1>1, <1>2, <1>3, <1>4, <1>5 DEF Next

\* So records fit after a step if what the step writes into the run and into a
\* request does.
LEMMA FitAgain ==
  ASSUME IInv, RecordsFit, [Next]_vars,
         run' = run \/ Fits(run', child'),
         \A p \in Process : request'[p] = request[p] \/ RequestFits(request'[p], child')
  PROVE  RecordsFit'
<1> DEFINE goes(d) == \/ d = child
                      \/ child = "none" /\ d = "alive"
                      \/ d \in {"exit0", "exit1", "killed"}
<1>1. goes(child')
  BY ChildSteps
<1>2. \A x : Fits(x, child) => Fits(x, child')
  BY <1>1, FitsLasts
<1>3. Fits(Absent, child')
  BY NothingTyped, AbsentFits DEF Absent
<1>4. Fits(run', child')
  BY <1>2 DEF RecordsFit
<1>5. Fits(run, child')
  BY <1>2 DEF RecordsFit
<1>6. Fits(waiter'.copy, child')
  BY <1>2, <1>3, <1>5, ThreadCopies DEF RecordsFit
<1>7. \A i \in Pipe : Fits(reader'[i].copy, child')
  BY <1>2, <1>3, <1>5, ThreadCopies DEF RecordsFit
<1>8. \A p \in Process : RequestFits(request'[p], child')
  BY <1>2 DEF RecordsFit, RequestFits
<1> QED
  BY <1>4, <1>6, <1>7, <1>8 DEF RecordsFit

\* A request's copy, as long as it is not about to be marked stale, fits.
LEMMA RequestCopyFits ==
  ASSUME IInv, RecordsFit, NEW p \in Process,
         request[p].pc \in {"launch", "mark", "kill", "cancelled", "terminate"}
  PROVE  /\ request[p].copy \in Record /\ Fits(request[p].copy, child)
         /\ request[p].copy.status \in Pending
BY CopyOfRun DEF RecordsFit, RequestFits

LEMMA StartFits ==
  ASSUME IInv, RecordsFit, NEW p \in Process, Start(p)
  PROVE  RecordsFit'
<1>1. Me(p) \in Process \X Nat
  BY DEF IInv, TypeOK, Me
<1>2. run' \in Record /\ run'.status = "starting" /\ run'.chunks = {} /\ run'.orphan = "none"
  BY <1>1 DEF Start, Record, Pending, Absent
<1>3. Fits(run', child')
  BY <1>2, AbsentFits
<1>4. /\ request'[p].pc = "launch" /\ request'[p].copy = run'
      /\ \A q \in Process \ {p} : request'[q] = request[q]
  BY <1>2, ServeTyped DEF Start, IInv
<1>5. \A q \in Process : request'[q] = request[q] \/ RequestFits(request'[q], child')
  BY <1>3, <1>4 DEF RequestFits
<1>6. Next
  BY DEF Next
<1> QED
  BY <1>3, <1>5, <1>6, FitAgain

\* Requests that end, or go on with the copy they have or with a fresh one.
LEMMA ServedFits ==
  ASSUME IInv, RecordsFit, [Next]_vars, run' = run \/ Fits(run', child'),
         NEW p \in Process, NEW pc, pc # "stale", NEW copy \in Record, Serve(p, pc, copy),
         pc \in {"idle", "launch", "register", "mark", "supervise", "kill", "cancelled", "terminate"},
         copy = Absent \/ copy = run \/ (copy = request[p].copy /\ request[p].pc # "stale")
  PROVE  RecordsFit'
<1>1. /\ request'[p].pc = pc /\ request'[p].copy = copy
      /\ \A q \in Process \ {p} : request'[q] = request[q]
  BY ServeTyped DEF IInv
<1>2. Fits(copy, child)
  BY NothingTyped, AbsentFits DEF RecordsFit, RequestFits, Absent
<1>3. Fits(copy, child')
  BY <1>2, ChildSteps, FitsLasts
<1>4. \A q \in Process : request'[q] = request[q] \/ RequestFits(request'[q], child')
  BY <1>1, <1>3 DEF RequestFits
<1> QED
  BY <1>4, FitAgain

LEMMA LaunchFits ==
  ASSUME IInv, RecordsFit, NEW p \in Process, Launch(p) \/ LaunchFails(p)
  PROVE  RecordsFit'
<1>1. Serve(p, "idle", Absent) \/ Serve(p, "register", Absent)
  BY DEF Launch, LaunchFails
<1>2. run' = run \/ Fits(run', child')
  <2>1. CASE LaunchFails(p)
    <3>1. /\ request[p].copy \in Record /\ Fits(request[p].copy, child)
          /\ run' = [request[p].copy EXCEPT !.status = "failed"] /\ child' = child
      BY <2>1, RequestCopyFits DEF LaunchFails
    <3> QED
      BY <3>1, EndedFits DEF Ended
  <2> QED
    BY <2>1 DEF Launch
<1>3. Next
  BY DEF Next, Serving
<1> QED
  BY <1>1, <1>2, <1>3, NothingTyped, ServedFits

LEMMA RegisterFits ==
  ASSUME IInv, RecordsFit, NEW p \in Process, Register(p)
  PROVE  RecordsFit'
<1>1. run' = run /\ run \in Record
  BY DEF Register, IInv, TypeOK
<1>2. Serve(p, "mark", run) \/ Serve(p, "idle", Absent)
  BY DEF Register
<1>3. Next
  BY DEF Next, Serving
<1> QED
  BY <1>1, <1>2, <1>3, NothingTyped, ServedFits

LEMMA MarkFits ==
  ASSUME IInv, RecordsFit, Fresh, NEW p \in Process, Mark(p)
  PROVE  RecordsFit'
<1> DEFINE copy == request[p].copy
           next == [copy EXCEPT !.status = "running", !.pid = TRUE]
<1>1. /\ copy \in Record /\ Fits(copy, child) /\ copy.status \in Pending
      /\ run' = next /\ child' = child /\ child # "none"
  BY RequestCopyFits DEF Mark, Fresh
<1>2. /\ next.status = "running" /\ next.orphan = copy.orphan /\ next.chunks = copy.chunks
  BY <1>1 DEF Record
<1> HIDE DEF copy, next
<1>3. Fits(next, child)
  BY <1>1, <1>2 DEF Fits, Pending
<1>4. Next /\ Serve(p, "supervise", Absent)
  BY DEF Next, Serving, Mark
<1> QED
  BY <1>1, <1>3, <1>4, NothingTyped, ServedFits

LEMMA SuperviseFits ==
  ASSUME IInv, RecordsFit, NEW p \in Process, Supervise(p) \/ StartRaises(p)
  PROVE  RecordsFit'
<1>1. Serve(p, "idle", Absent) /\ run' = run /\ Next
  BY DEF Supervise, StartRaises, Next, Serving
<1> QED
  BY <1>1, NothingTyped, ServedFits

LEMMA CancelFits ==
  ASSUME IInv, RecordsFit, NEW p \in Process,
         CancelOwn(p) \/ CancelOrphan(p) \/ Kill(p) \/ SaveCancelled(p) \/ Startup(p) \/ Crash(p)
  PROVE  RecordsFit'
<1>1. run \in Record
  BY DEF IInv, TypeOK
<1>2. CASE CancelOwn(p) \/ CancelOrphan(p)
  <2>1. run' = run /\ (Serve(p, "kill", run) \/ Serve(p, "terminate", run)) /\ Next
    BY <1>2 DEF CancelOwn, CancelOrphan, Next
  <2> QED
    BY <1>1, <2>1, ServedFits
<1>3. CASE Kill(p)
  <2>1. /\ run' = run /\ Serve(p, "cancelled", request[p].copy) /\ Next
        /\ request[p].copy \in Record /\ request[p].pc = "kill"
    BY <1>3, CopiesTyped DEF Kill, Next, Serving, IInv
  <2> QED
    BY <2>1, ServedFits
<1>4. CASE SaveCancelled(p)
  <2>1. /\ request[p].copy \in Record /\ Fits(request[p].copy, child)
        /\ run' = [request[p].copy EXCEPT !.status = "cancelled"] /\ child' = child
        /\ Serve(p, "idle", Absent) /\ Next
    BY <1>4, RequestCopyFits DEF SaveCancelled, Next, Serving
  <2>2. Fits(run', child')
    BY <2>1, EndedFits DEF Ended
  <2> QED
    BY <2>1, <2>2, NothingTyped, ServedFits
<1>5. CASE Startup(p) \/ Crash(p)
  <2>1. run' = run /\ (Serve(p, "terminate", run) \/ Serve(p, "idle", Absent)) /\ Next
    BY <1>5 DEF Startup, Crash, Next
  <2> QED
    BY <1>1, <2>1, NothingTyped, ServedFits
<1> QED
  BY <1>2, <1>3, <1>4, <1>5

\* The termination of an orphan says what has become of it.
LEMMA TerminateFits ==
  ASSUME IInv, RecordsFit, NEW p \in Process, Terminate(p)
  PROVE  RecordsFit'
<1> DEFINE copy == request[p].copy
<1>1. PICK result \in {"skipped", "not_found", "terminated", "failed"} :
         /\ Serve(p, "stale", [copy EXCEPT !.orphan = result])
         /\ result \in {"not_found", "terminated"} => copy.status = "running" /\ child' # "alive"
         /\ child' \in {child, Dead(child)}
  BY DEF Terminate, Dead
<1>2. copy \in Record /\ Fits(copy, child) /\ copy.status \in Pending
  BY RequestCopyFits DEF Terminate
<1> DEFINE next == [copy EXCEPT !.orphan = result]
           stale == [next EXCEPT !.status = "stale"]
<1>3. next \in Record
  BY <1>2 DEF Record
<1>4. stale.status = "stale" /\ stale.orphan = result /\ stale.chunks = copy.chunks
  BY <1>2 DEF Record
<1>5. /\ request'[p].pc = "stale" /\ request'[p].copy = next
      /\ \A q \in Process \ {p} : request'[q] = request[q]
  <2> HIDE DEF next
  <2> QED
    BY <1>1, <1>3, ServeTyped DEF IInv, next
<1> HIDE DEF copy, next, stale
<1>6. Fits(stale, child')
  BY <1>1, <1>2, <1>4 DEF Fits, Pending, Dead
<1>7. \A q \in Process : request'[q] = request[q] \/ RequestFits(request'[q], child')
  BY <1>5, <1>6 DEF RequestFits, stale
<1>8. run' = run /\ Next
  BY DEF Terminate, Next, Serving
<1> QED
  BY <1>7, <1>8, FitAgain

LEMMA MarkStaleFits ==
  ASSUME IInv, RecordsFit, NEW p \in Process, MarkStale(p)
  PROVE  RecordsFit'
<1>1. /\ Fits([request[p].copy EXCEPT !.status = "stale"], child)
      /\ run' = [request[p].copy EXCEPT !.status = "stale"] /\ child' = child
  BY DEF MarkStale, RecordsFit, RequestFits
<1>2. Next /\ Serve(p, "idle", Absent)
  BY DEF Next, Serving, MarkStale
<1> QED
  BY <1>1, <1>2, NothingTyped, ServedFits

LEMMA ThreadsFit ==
  ASSUME IInv, RecordsFit, Supervising \/ (\E i \in Pipe : Reading(i)) \/ Exit
  PROVE  RecordsFit'
<1>1. request' = request /\ Next
  BY DEF Supervising, WaitReturns, TimesOut, JudgeEnded, JudgeOverdue, Note, NoteSave, Deregister,
    Finalize, FinalSave, Reading, Read, Append, Exit, Next
<1>2. CASE NoteSave
  <2>1. /\ waiter.copy \in Record /\ Top(waiter.copy.chunks) <= MaxOutput
        /\ Fits(waiter.copy, child)
    BY <1>2, CopiesTyped, NoteHasNumber DEF NoteSave, IInv, NumbersLeft, RecordsFit
  <2>2. Fits(run', child')
    BY <1>2, <2>1, AppendedFits DEF NoteSave
  <2> QED
    BY <1>1, <2>2, FitAgain
<1>3. CASE FinalSave
  <2>1. /\ waiter.copy \in Record /\ Fits(waiter.copy, child) /\ waiter.outcome \in Ended
    BY <1>3, CopiesTyped DEF FinalSave, IInv, RecordsFit, TypeOK, Waiter, WaiterIsRight
  <2>2. Fits(run', child')
    BY <1>3, <2>1, EndedFits DEF FinalSave
  <2> QED
    BY <1>1, <2>2, FitAgain
<1>4. ASSUME NEW i \in Pipe, Append(i)
      PROVE  RecordsFit'
  <2>1. /\ reader[i].copy \in Record /\ Fits(reader[i].copy, child)
        /\ Top(reader[i].copy.chunks) <= MaxOutput
    <3>1. reader[i].copy \in Record /\ Top(reader[i].copy.chunks) < MaxOutput
      BY <1>4, CopiesTyped DEF Append, IInv, NumbersLeft
    <3>2. reader[i].copy.chunks \subseteq Number /\ MaxOutput \in Nat
      BY <3>1, CliAssumption DEF Record
    <3> QED
      BY <3>1, <3>2, TopIsGreatest DEF RecordsFit
  <2>2. Fits(run', child')
    BY <1>4, <2>1, AppendedFits DEF Append
  <2> QED
    BY <1>1, <2>2, FitAgain
<1>5. CASE run' = run
  BY <1>1, <1>5, FitAgain
<1> QED
  BY <1>2, <1>3, <1>4, <1>5 DEF Supervising, WaitReturns, TimesOut, JudgeEnded, JudgeOverdue,
    Note, Deregister, Finalize, Reading, Read, Exit

\* Threads have nothing to do with a run that is being brought up, and nobody
\* else makes it running.
LEMMA FreshStays ==
  ASSUME IInv, Fresh, [Next]_vars
  PROVE  Fresh'
<1>1. child # "none" => child' # "none"
  BY ChildSteps
<1>2. ASSUME run'.status # "running",
             \A q \in Process : \/ request'[q].pc \notin {"launch", "register", "mark"}
                                \/ request'[q].pc = request[q].pc
                                \/ request'[q].pc = "launch"
                                \/ child' # "none"
      PROVE  Fresh'
  BY <1>1, <1>2 DEF Fresh
<1>3. ASSUME run' = run,
             \A q \in Process : \/ request'[q].pc \notin {"launch", "register", "mark"}
                                \/ request'[q].pc = request[q].pc
      PROVE  Fresh'
  BY <1>1, <1>3 DEF Fresh
<1>4. ASSUME \A q \in Process : request'[q].pc \notin {"launch", "register", "mark"}
      PROVE  Fresh'
  BY <1>4 DEF Fresh
<1>5. ASSUME NEW p \in Process,
             Start(p) \/ CancelOwn(p) \/ CancelOrphan(p) \/ Serving(p) \/ Startup(p) \/ Crash(p)
      PROVE  Fresh'
  <2>1. \A q \in Process \ {p} : request'[q] = request[q]
    <3>1. \A pc, copy : Serve(p, pc, copy) => \A q \in Process \ {p} : request'[q] = request[q]
      BY DEF IInv, TypeOK, Serve
    <3>2. \E pc, copy : Serve(p, pc, copy)
      BY <1>5 DEF Start, CancelOwn, CancelOrphan, Serving, Launch, LaunchFails, Register, Mark,
        Supervise, StartRaises, Kill, SaveCancelled, Terminate, MarkStale, Startup, Crash
    <3> QED
      BY <3>1, <3>2
  <2>3. \A pc, copy : Serve(p, pc, copy) => request'[p].pc = pc
    BY DEF IInv, TypeOK, Serve
  <2>4. CASE Start(p)
    <3>1. run'.status # "running" /\ request'[p].pc = "launch"
      BY <2>3, <2>4 DEF Start, Absent
    <3> QED
      BY <1>2, <2>1, <3>1
  <2>5. CASE Launch(p)
    <3>1. run' = run /\ request'[p].pc = "register" /\ request[p].pc = "launch" /\ child' = "alive"
      BY <2>3, <2>5 DEF Launch
    <3> QED
      BY <1>2, <2>1, <3>1 DEF Fresh
  <2>6. CASE Register(p)
    <3>1. run' = run /\ request'[p].pc \in {"mark", "idle"} /\ request[p].pc = "register"
      BY <2>3, <2>6 DEF Register
    <3> QED
      BY <1>1, <1>2, <2>1, <3>1 DEF Fresh
  <2>7. CASE LaunchFails(p) \/ Mark(p)
    <3>1. request'[p].pc \in {"idle", "supervise"} /\ request[p].pc \in {"launch", "mark"}
      BY <2>3, <2>7 DEF LaunchFails, Mark
    <3>2. \A q \in Process \ {p} : request[q].pc \notin {"launch", "register", "mark"}
      BY <3>1, OneOwner DEF IInv, Launching
    <3> QED
      BY <1>4, <2>1, <3>1, <3>2
  <2>8. CASE SaveCancelled(p) \/ MarkStale(p)
    <3>1. request'[p].pc = "idle" /\ run'.status \in {"cancelled", "stale"}
      <4>1. request[p].copy \in Record
        BY CopiesTyped DEF IInv
      <4> QED
        BY <2>3, <2>8, <4>1 DEF SaveCancelled, MarkStale, Record
    <3> QED
      BY <1>2, <2>1, <3>1
  <2>9. CASE \/ Supervise(p) \/ StartRaises(p)
             \/ CancelOwn(p) \/ CancelOrphan(p) \/ Kill(p) \/ Terminate(p) \/ Startup(p) \/ Crash(p)
    <3>1. run' = run /\ request'[p].pc \in {"idle", "kill", "cancelled", "terminate", "stale"}
      BY <2>3, <2>9 DEF Supervise, StartRaises, CancelOwn, CancelOrphan, Kill, Terminate, Startup,
        Crash
    <3> QED
      BY <1>3, <2>1, <3>1
  <2> QED
    BY <1>5, <2>4, <2>5, <2>6, <2>7, <2>8, <2>9 DEF Serving
<1>6. CASE Supervising \/ (\E i \in Pipe : Reading(i)) \/ Exit \/ UNCHANGED vars
  <2>1. request' = request
    BY <1>6 DEF Supervising, WaitReturns, TimesOut, JudgeEnded, JudgeOverdue, Note, NoteSave,
      Deregister, Finalize, FinalSave, Reading, Read, Append, Exit, vars
  <2>2. CASE run' = run
    BY <1>3, <2>1, <2>2
  <2>3. CASE NoteSave \/ FinalSave \/ \E i \in Pipe : Append(i)
    <3>1. \A q \in Process : request[q].pc \notin {"launch", "register", "mark"}
      BY <2>3 DEF NoteSave, FinalSave, Append, IInv, Launching, NoWaiter, Off
    <3> QED
      BY <1>4, <2>1, <3>1
  <2> QED
    BY <1>6, <2>2, <2>3 DEF Supervising, WaitReturns, TimesOut, JudgeEnded, JudgeOverdue, Note,
      Deregister, Finalize, Reading, Read, Exit, vars
<1> QED
  BY <1>5, <1>6 DEF Next

OrphanInv == IInv /\ RecordsFit /\ Fresh

\* Every record and every copy of one fits the command at all times.
THEOREM RecordsStayFit == Spec => []OrphanInv
<1>1. Init => OrphanInv
  <2> SUFFICES ASSUME Init PROVE OrphanInv
    OBVIOUS
  <2>1. Fits(Absent, child)
    BY NothingTyped, AbsentFits DEF Absent
  <2>2. RecordsFit /\ Fresh
    BY <2>1 DEF Init, RecordsFit, RequestFits, Fresh, NoWaiter, Off, Idle
  <2> QED
    BY <2>2, Initially DEF OrphanInv
<1>2. IInv /\ IInv' /\ OrphanInv /\ [Next]_vars => OrphanInv'
  <2> SUFFICES ASSUME IInv, IInv', RecordsFit, Fresh, [Next]_vars
               PROVE  OrphanInv'
    BY DEF OrphanInv
  <2>1. RecordsFit'
    <3>1. CASE UNCHANGED vars
      BY <3>1, FitAgain DEF vars
    <3> QED
      BY <3>1, StartFits, LaunchFits, RegisterFits, MarkFits, SuperviseFits, CancelFits,
        TerminateFits, MarkStaleFits, ThreadsFit DEF Next, Serving
  <2> QED
    BY <2>1, FreshStays DEF OrphanInv
<1> QED
  BY CommandInvariant, <1>1, <1>2, PTL DEF Spec

\* A command that is alive although its run has an outcome was skipped, or could
\* not be terminated, by whoever gave up the run, and the record says so.
THEOREM OrphansAreKnown == Spec => []OrphansAreReported
<1>1. OrphanInv => OrphansAreReported
  BY DEF OrphanInv, OrphansAreReported, IInv, EndedRunsAreDead, RecordsFit, Fits, TypeOK, Record,
    Final
<1> QED
  BY RecordsStayFit, <1>1, PTL

----------------------------------------------------------------------------
(* Output: who may append, and to what.                                    *)

\* The lock lets one thread append at a time.
OneAppends ==
    /\ \A i, j \in Pipe : reader[i].pc = "append" /\ reader[j].pc = "append" => i = j
    /\ waiter.pc = "noteSave" => \A i \in Pipe : reader[i].pc # "append"

\* Readers begin with the waiter.
ReadersBegin == waiter.pc = "none" => \A i \in Pipe : reader[i].pc = "none"

\* Of two records of a run that nobody takes for an orphan, y has as many chunks.
Later(x, y) == {x.orphan, y.orphan} = {"none"} => Top(x.chunks) <= Top(y.chunks)

\* Whoever appends has the latest output, and a cancellation that may still be
\* saved meanwhile takes the run back, but never ahead of it; until the waiter
\* saves the outcome from a copy that is in no order with the readers'.
CopiesInOrder == ~Parted =>
    /\ \A i \in Pipe : reader[i].pc = "append" => Later(run, reader[i].copy)
    /\ waiter.pc = "noteSave" => Later(run, waiter.copy)
    /\ \A p \in Process : request[p].pc \in {"kill", "cancelled"} =>
          /\ Later(request[p].copy, run)
          /\ \A i \in Pipe : reader[i].pc = "append" => Later(request[p].copy, reader[i].copy)
          /\ waiter.pc = "noteSave" => Later(request[p].copy, waiter.copy)

\* The owner of a run has started at least as often as when it started the run.
OwnersLived == run.owner # None => run.owner[2] <= life[run.owner[1]]

\* The lock is free: nobody appends.
LEMMA LockFreed ==
  ASSUME LockFree
  PROVE  waiter.pc # "noteSave" /\ \A i \in Pipe : reader[i].pc # "append"
BY DEF LockFree

\* What the threads' program counters do.
LEMMA ThreadSteps ==
  ASSUME IInv, [Next]_vars
  PROVE  \/ UNCHANGED <<waiter, reader>>
         \/ \E p \in Process : Supervise(p)
         \/ \E p \in Process : /\ Crash(p) /\ Owner(p)
                               /\ waiter'.pc = "none"
                               /\ \A i \in Pipe : reader'[i].pc = "none"
         \/ Supervising
         \/ \E i \in Pipe : Reading(i)
<1>1. ASSUME NEW p \in Process, Crash(p)
      PROVE  \/ UNCHANGED <<waiter, reader>>
             \/ Owner(p) /\ waiter'.pc = "none" /\ \A i \in Pipe : reader'[i].pc = "none"
  BY <1>1 DEF Crash, NoWaiter, Off
<1>2. ASSUME NEW p \in Process, Start(p) \/ CancelOwn(p) \/ CancelOrphan(p) \/ Startup(p)
      PROVE  UNCHANGED <<waiter, reader>>
  BY <1>2 DEF Start, CancelOwn, CancelOrphan, Startup
<1>3. ASSUME NEW p \in Process, Serving(p)
      PROVE  UNCHANGED <<waiter, reader>> \/ Supervise(p)
  BY <1>3 DEF Serving, Launch, LaunchFails, Register, Mark, StartRaises, Kill, SaveCancelled,
    Terminate, MarkStale
<1>4. CASE Exit \/ UNCHANGED vars
  BY <1>4 DEF Exit, vars
<1> QED
  BY <1>1, <1>2, <1>3, <1>4 DEF Next

LEMMA Supervisions ==
  ASSUME NEW p \in Process, Supervise(p)
  PROVE  waiter'.pc = "wait" /\ \A i \in Pipe : reader'[i].pc = "read"
BY DEF Supervise, NoWaiter, Off

LEMMA WaiterSteps ==
  ASSUME IInv, Supervising
  PROVE  /\ UNCHANGED <<life, up, request, reader>>
         /\ waiter.pc \notin {"none", "over"} /\ waiter'.pc # "none"
         /\ Parted => Parted'
         /\ waiter'.pc = "noteSave" => Note
         /\ waiter'.pc = "over" => FinalSave
         /\ registered' = registered \/ Deregister
         /\ run' = run \/ NoteSave \/ FinalSave
<1>1. waiter \in Waiter
  BY DEF IInv, TypeOK
<1> QED
  BY <1>1 DEF Supervising, WaitReturns, TimesOut, JudgeEnded, JudgeOverdue, Note, NoteSave,
    Deregister, Finalize, FinalSave, Waiting, Waiter, NoWaiter, Parted

LEMMA ReaderSteps ==
  ASSUME IInv, NEW i \in Pipe, Reading(i)
  PROVE  /\ UNCHANGED <<life, up, child, registered, request, waiter>>
         /\ reader[i].pc \in {"read", "append"}
         /\ \A j \in Pipe \ {i} : reader'[j] = reader[j]
         /\ reader'[i].pc = "append" => Read(i) /\ reader'[i].copy = run
         /\ run' = run \/ Append(i)
         /\ Append(i) => reader'[i].pc = "read"
<1>1. reader \in [Pipe -> Reader]
  BY DEF IInv, TypeOK
<1> QED
  BY <1>1 DEF Reading, Read, Append, Reader

LEMMA OneAppendsStays ==
  ASSUME IInv, OneAppends, [Next]_vars
  PROVE  OneAppends'
<1>1. CASE UNCHANGED <<waiter, reader>>
  BY <1>1 DEF OneAppends
<1>2. CASE \E p \in Process : Supervise(p)
  BY <1>2, Supervisions DEF OneAppends
<1>3. CASE waiter'.pc = "none" /\ \A i \in Pipe : reader'[i].pc = "none"
  BY <1>3 DEF OneAppends
<1>4. CASE Supervising
  BY <1>4, WaiterSteps, LockFreed DEF OneAppends, Note
<1>5. ASSUME NEW i \in Pipe, Reading(i)
      PROVE  OneAppends'
  <2>1. reader'[i].pc = "append" =>
           waiter.pc # "noteSave" /\ \A j \in Pipe : reader[j].pc # "append"
    BY <1>5, ReaderSteps, LockFreed DEF Read
  <2> QED
    BY <1>5, <2>1, ReaderSteps DEF OneAppends
<1> QED
  BY <1>1, <1>2, <1>3, <1>4, <1>5, ThreadSteps

LEMMA ReadersBeginStays ==
  ASSUME IInv, ReadersBegin, [Next]_vars
  PROVE  ReadersBegin'
<1>1. CASE UNCHANGED <<waiter, reader>>
  BY <1>1 DEF ReadersBegin
<1>2. CASE \E p \in Process : Supervise(p)
  BY <1>2, Supervisions DEF ReadersBegin
<1>3. CASE waiter'.pc = "none" /\ \A i \in Pipe : reader'[i].pc = "none"
  BY <1>3 DEF ReadersBegin
<1>4. CASE Supervising
  BY <1>4, WaiterSteps DEF ReadersBegin
<1>5. ASSUME NEW i \in Pipe, Reading(i)
      PROVE  ReadersBegin'
  BY <1>5, ReaderSteps DEF ReadersBegin
<1> QED
  BY <1>1, <1>2, <1>3, <1>4, <1>5, ThreadSteps

\* The run stays its owner's.
LEMMA OwnerStays ==
  ASSUME IInv, [Next]_vars
  PROVE  (\E p \in Process : Start(p)) \/ run'.owner = run.owner
<1>1. CASE run' = run
  BY <1>1
<1>2. ASSUME NEW p \in Process, LaunchFails(p) \/ Mark(p) \/ SaveCancelled(p) \/ MarkStale(p)
      PROVE  run'.owner = run.owner
  <2>1. request[p].copy \in Record /\ request[p].copy.owner = run.owner
    BY <1>2, CopyOfRun DEF LaunchFails, Mark, SaveCancelled, MarkStale
  <2> QED
    BY <1>2, <2>1 DEF LaunchFails, Mark, SaveCancelled, MarkStale, Record
<1>3. CASE NoteSave \/ FinalSave
  <2>1. waiter.copy \in Record /\ waiter.copy.owner = run.owner
    BY <1>3, CopiesTyped DEF NoteSave, FinalSave, IInv, CopiesAreTrue
  <2> QED
    BY <1>3, <2>1 DEF NoteSave, FinalSave, Appended, Record
<1>4. ASSUME NEW i \in Pipe, Append(i)
      PROVE  run'.owner = run.owner
  <2>1. reader[i].copy \in Record /\ reader[i].copy.owner = run.owner
    BY <1>4, CopiesTyped DEF Append, IInv, CopiesAreTrue
  <2> QED
    BY <1>4, <2>1 DEF Append, Appended, Record
<1>5. \/ run' = run
      \/ \E p \in Process : \/ Start(p)
                            \/ LaunchFails(p) \/ Mark(p) \/ SaveCancelled(p) \/ MarkStale(p)
      \/ NoteSave \/ FinalSave
      \/ \E i \in Pipe : Append(i)
  BY WaiterSteps, ReaderSteps DEF Next, Serving, CancelOwn, CancelOrphan, Launch, Register,
    Supervise, StartRaises, Kill, Terminate, Startup, Crash, Exit, vars
<1> QED
  BY <1>1, <1>2, <1>3, <1>4, <1>5

LEMMA OwnersLivedStays ==
  ASSUME IInv, OwnersLived, [Next]_vars
  PROVE  OwnersLived'
<1>1. /\ life \in [Process -> Nat]
      /\ run.owner \in (Process \X Nat) \cup {None}
  BY DEF IInv, TypeOK, Record
<1>2. ASSUME NEW p \in Process, Start(p)
      PROVE  OwnersLived'
  <2>1. run'.owner = <<p, life[p]>> /\ life' = life
    BY <1>2 DEF Start, Absent, Me
  <2> QED
    BY <1>1, <2>1 DEF OwnersLived
<1>3. ASSUME NEW p \in Process, Startup(p)
      PROVE  OwnersLived'
  <2>1. run' = run /\ life' = [life EXCEPT ![p] = @ + 1]
    BY <1>3 DEF Startup
  <2> QED
    BY <1>1, <2>1 DEF OwnersLived
<1>4. life' = life \/ \E p \in Process : Startup(p)
  BY WaiterSteps, ReaderSteps DEF Next, Serving, Start, CancelOwn, CancelOrphan, Launch,
    LaunchFails, Register, Mark, Supervise, StartRaises, Kill, SaveCancelled, Terminate,
    MarkStale, Crash, Exit, vars
<1>5. CASE run'.owner = run.owner /\ life' = life
  BY <1>5 DEF OwnersLived
<1> QED
  BY <1>2, <1>3, <1>4, <1>5, OwnerStays

\* A request leaves the others alone.
LEMMA ServeAlone ==
  ASSUME IInv, NEW p \in Process, NEW pc, NEW copy, Serve(p, pc, copy)
  PROVE  /\ request'[p].pc = pc /\ request'[p].copy = copy
         /\ \A q \in Process \ {p} : request'[q] = request[q]
BY DEF IInv, TypeOK, Serve

\* A child is put on the list before its run is saved as running.
Listed == \A p \in Process : request[p].pc \in {"mark", "supervise"} => registered

LEMMA ListedStays ==
  ASSUME IInv, Listed, [Next]_vars
  PROVE  Listed'
<1>1. ASSUME registered' = registered \/ registered',
             \A q \in Process : \/ request'[q].pc \notin {"mark", "supervise"}
                                \/ request[q].pc \in {"mark", "supervise"}
      PROVE  Listed'
  BY <1>1 DEF Listed
<1>2. ASSUME NEW p \in Process, registered' = registered \/ registered',
             \A q \in Process \ {p} : request'[q] = request[q],
             request'[p].pc \notin {"mark", "supervise"} \/ request[p].pc = "mark"
      PROVE  Listed'
  BY <1>1, <1>2
<1>3. ASSUME NEW p \in Process, Register(p)
      PROVE  Listed'
  <2>1. CASE registered'
    BY <2>1 DEF Listed
  <2>2. CASE Serve(p, "idle", Absent) /\ registered' = registered
    BY <1>2, <2>2, ServeAlone
  <2> QED
    BY <1>3, <2>1, <2>2 DEF Register
<1>4. ASSUME NEW p \in Process, Crash(p)
      PROVE  Listed'
  <2>1. request'[p].pc = "idle" /\ \A q \in Process \ {p} : request'[q] = request[q]
    BY <1>4, ServeAlone DEF Crash
  <2>2. CASE Owner(p)
    BY <2>1, <2>2, OneOwner DEF IInv, Launching, Listed
  <2>3. CASE registered' = registered
    BY <1>2, <2>1, <2>3
  <2> QED
    BY <1>4, <2>2, <2>3 DEF Crash
<1>5. ASSUME NEW p \in Process,
             \/ Start(p) \/ CancelOwn(p) \/ CancelOrphan(p) \/ Startup(p)
             \/ Launch(p) \/ LaunchFails(p) \/ Mark(p) \/ Supervise(p) \/ StartRaises(p)
             \/ Kill(p) \/ SaveCancelled(p) \/ Terminate(p) \/ MarkStale(p)
      PROVE  Listed'
  <2>1. registered' = registered
    BY <1>5 DEF Start, CancelOwn, CancelOrphan, Startup, Launch, LaunchFails, Mark, Supervise,
      StartRaises, Kill, SaveCancelled, Terminate, MarkStale
  <2>2. \E pc, copy : /\ Serve(p, pc, copy)
                      /\ pc \notin {"mark", "supervise"} \/ request[p].pc = "mark"
    BY <1>5 DEF Start, CancelOwn, CancelOrphan, Startup, Launch, LaunchFails, Mark, Supervise,
      StartRaises, Kill, SaveCancelled, Terminate, MarkStale
  <2> QED
    BY <1>2, <2>1, <2>2, ServeAlone
<1>6. CASE Supervising
  <2>1. Deregister => \A q \in Process : request[q].pc \notin {"mark", "supervise"}
    BY DEF Deregister, IInv, Launching, NoWaiter
  <2>2. CASE Deregister
    BY <1>6, <2>1, <2>2, WaiterSteps DEF Listed
  <2> QED
    BY <1>1, <1>6, <2>2, WaiterSteps
<1>7. CASE (\E i \in Pipe : Reading(i)) \/ Exit \/ UNCHANGED vars
  BY <1>1, <1>7, ReaderSteps DEF Exit, vars
<1> QED
  BY <1>3, <1>4, <1>5, <1>6, <1>7 DEF Next, Serving

\* A command whose backend process lives stays in its reach.
LEMMA ReachStays ==
  ASSUME IInv, IInv', Listed, OwnersLived, CommandsAreInReach, [Next]_vars
  PROVE  CommandsAreInReach'
<1>1. CASE child' # "alive"
  BY <1>1 DEF CommandsAreInReach
<1>2. CASE registered'
  BY <1>2 DEF CommandsAreInReach
<1>3. CASE waiter'.pc \notin {"none", "over"}
  BY <1>3 DEF CommandsAreInReach, Supervised
<1>4. ASSUME NEW p \in Process, Owner(p)',
             request'[p].pc \in {"launch", "register", "mark", "supervise"}
      PROVE  CommandsAreInReach'
  BY <1>4 DEF CommandsAreInReach, Supervised
<1>5. ASSUME UNCHANGED <<up, life, registered, waiter>>, run'.owner = run.owner,
             child' = child \/ child' # "alive",
             \A q \in Process : request'[q].pc = request[q].pc
                                \/ request[q].pc \notin {"launch", "register", "mark", "supervise"}
      PROVE  CommandsAreInReach'
  BY <1>1, <1>5 DEF CommandsAreInReach, Supervised, Owner, Me
<1>6. ASSUME NEW p \in Process, Start(p)
      PROVE  CommandsAreInReach'
  BY <1>1, <1>6 DEF Start, IInv, Unstarted
<1>7. ASSUME NEW p \in Process, Launch(p) \/ Mark(p)
      PROVE  CommandsAreInReach'
  <2>1. /\ Owner(p) /\ UNCHANGED <<up, life>>
        /\ request'[p].pc \in {"register", "supervise"}
    BY <1>7, ServeAlone DEF Launch, Mark, IInv, Launching
  <2>2. run'.owner = run.owner
    BY <1>7, CopyOfRun, CopiesTyped DEF Launch, Mark, IInv, Record
  <2> QED
    BY <1>4, <2>1, <2>2 DEF Owner, Me
<1>8. ASSUME NEW p \in Process, LaunchFails(p)
      PROVE  CommandsAreInReach'
  BY <1>1, <1>8 DEF LaunchFails, IInv, Launching
<1>9. ASSUME NEW p \in Process, Register(p)
      PROVE  CommandsAreInReach'
  BY <1>1, <1>2, <1>9 DEF Register, Dead
<1>10. ASSUME NEW p \in Process, Supervise(p)
       PROVE  CommandsAreInReach'
  BY <1>3, <1>10, Supervisions
<1>11. ASSUME NEW p \in Process, StartRaises(p)
       PROVE  CommandsAreInReach'
  <2>1. child' = child /\ registered' = registered
    BY <1>11 DEF StartRaises
  <2> QED
    BY <1>1, <1>2, <1>11, <2>1 DEF StartRaises, IInv, Launching, Listed
<1>12. ASSUME NEW p \in Process,
              \/ CancelOwn(p) \/ CancelOrphan(p) \/ Kill(p) \/ SaveCancelled(p)
              \/ Terminate(p) \/ MarkStale(p)
       PROVE  CommandsAreInReach'
  <2>1. /\ UNCHANGED <<up, life, registered, waiter>> /\ child' \in {child, Dead(child)}
        /\ request[p].pc \notin {"launch", "register", "mark", "supervise"}
        /\ \A q \in Process \ {p} : request'[q] = request[q]
    BY <1>12, ServeAlone DEF CancelOwn, CancelOrphan, Kill, SaveCancelled, Terminate, MarkStale
  <2>2. run'.owner = run.owner
    BY <1>12, CopyOfRun, CopiesTyped
    DEF CancelOwn, CancelOrphan, Kill, SaveCancelled, Terminate, MarkStale, IInv, Record
  <2> QED
    BY <1>5, <2>1, <2>2 DEF Dead
<1>13. ASSUME NEW p \in Process, Startup(p)
       PROVE  CommandsAreInReach'
  <2>1. /\ life \in [Process -> Nat] /\ up \in [Process -> BOOLEAN]
        /\ life' = [life EXCEPT ![p] = @ + 1] /\ up' = [up EXCEPT ![p] = TRUE]
        /\ UNCHANGED <<run, waiter, child, registered>> /\ request[p].pc = "idle"
        /\ \A q \in Process \ {p} : request'[q] = request[q]
    BY <1>13, ServeAlone DEF Startup, IInv, TypeOK, Down
  <2>2. ~Owner(p)'
    <3> SUFFICES ASSUME run.owner = <<p, life[p] + 1>> PROVE FALSE
      BY <2>1 DEF Owner, Me
    <3>1. None \notin Process \X Nat /\ <<p, life[p] + 1>> \in Process \X Nat
      BY <2>1, CliAssumption
    <3> QED
      BY <2>1, <3>1 DEF OwnersLived
  <2>3. \A q \in Process \ {p} : Owner(q)' <=> Owner(q)
    BY <2>1 DEF Owner, Me
  <2> QED
    BY <2>1, <2>2, <2>3 DEF CommandsAreInReach, Supervised
<1>14. ASSUME NEW p \in Process, Crash(p)
       PROVE  CommandsAreInReach'
  <2>1. /\ up \in [Process -> BOOLEAN] /\ up' = [up EXCEPT ![p] = FALSE]
        /\ UNCHANGED <<run, life, child>>
        /\ Owner(p) \/ UNCHANGED <<waiter, registered>>
        /\ \A q \in Process \ {p} : request'[q] = request[q]
    BY <1>14, ServeAlone DEF Crash, IInv, TypeOK
  <2>2. ~Owner(p)' /\ \A q \in Process \ {p} : Owner(q)' <=> Owner(q)
    BY <2>1 DEF Owner, Me
  <2>3. ASSUME NEW q \in Process, Owner(q)', child' = "alive"
        PROVE  Supervised' \/ registered'
    <3>1. q # p /\ Owner(q) /\ ~Owner(p) /\ child = "alive"
      BY <2>1, <2>2, <2>3, OneOwner
    <3>2. Supervised \/ registered
      BY <3>1 DEF CommandsAreInReach
    <3> QED
      BY <2>1, <2>2, <3>1, <3>2 DEF Supervised
  <2> QED
    BY <2>3 DEF CommandsAreInReach
<1>15. CASE Supervising
  <2>1. CASE FinalSave
    BY <1>1, <2>1 DEF FinalSave, IInv, WaiterIsRight
  <2> QED
    BY <1>3, <1>15, <2>1, WaiterSteps
<1>16. ASSUME NEW i \in Pipe, Reading(i)
       PROVE  CommandsAreInReach'
  <2>1. run'.owner = run.owner
    <3>1. CASE Append(i)
      BY <3>1, CopiesTyped DEF Append, Appended, IInv, CopiesAreTrue, Record
    <3> QED
      BY <1>16, <3>1, ReaderSteps
  <2> QED
    BY <1>5, <1>16, <2>1, ReaderSteps
<1>17. CASE Exit \/ UNCHANGED vars
  BY <1>1, <1>5, <1>17 DEF Exit, vars
<1> QED
  BY <1>6, <1>7, <1>8, <1>9, <1>10, <1>11, <1>12, <1>13, <1>14, <1>15, <1>16, <1>17
  DEF Next, Serving

\* The order of copies.
LEMMA OrderStays ==
  ASSUME IInv, RecordsFit, OneAppends, ReadersBegin, CopiesInOrder, [Next]_vars
  PROVE  CopiesInOrder'
<1>0. CASE Parted'
  BY <1>0 DEF CopiesInOrder
<1>1. ASSUME UNCHANGED <<run, waiter, reader>>,
             \A q \in Process : request'[q].pc \in {"kill", "cancelled"} =>
                request[q].pc \in {"kill", "cancelled"} /\ request'[q].copy = request[q].copy
      PROVE  CopiesInOrder'
  BY <1>1 DEF CopiesInOrder, Later, Parted
<1>2. ASSUME NEW p \in Process, \A q \in Process \ {p} : request'[q] = request[q],
             request'[p].pc \notin {"kill", "cancelled"},
             UNCHANGED <<run, waiter, reader>>
      PROVE  CopiesInOrder'
  BY <1>1, <1>2
\* While nobody appends and nobody cancels there is nothing to be said.
<1>3. ASSUME \A q \in Process : request'[q].pc \notin {"kill", "cancelled"},
             \A i \in Pipe : reader'[i].pc # "append", waiter'.pc # "noteSave"
      PROVE  CopiesInOrder'
  BY <1>3 DEF CopiesInOrder
<1>4. ASSUME NEW p \in Process, Start(p) \/ LaunchFails(p) \/ Mark(p) \/ Supervise(p)
      PROVE  CopiesInOrder'
  <2>1. /\ request'[p].pc \in {"launch", "supervise", "idle"}
        /\ \A q \in Process \ {p} : request'[q] = request[q]
    BY <1>4, ServeAlone DEF Start, LaunchFails, Mark, Supervise
  <2>2. \A q \in Process \ {p} : request[q].pc \notin {"kill", "cancelled"}
    BY <1>4, OneOwner DEF Start, LaunchFails, Mark, Supervise, IInv, Unstarted, Launching, Cancelling
  <2>3. waiter'.pc # "noteSave" /\ \A i \in Pipe : reader'[i].pc # "append"
    <3>1. CASE Supervise(p)
      BY <3>1, Supervisions
    <3>2. CASE Start(p) \/ LaunchFails(p) \/ Mark(p)
      BY <3>2 DEF Start, LaunchFails, Mark, IInv, Unstarted, Launching, NoWaiter, Off
    <3> QED
      BY <1>4, <3>1, <3>2
  <2> QED
    BY <1>3, <2>1, <2>2, <2>3
<1>5. ASSUME NEW p \in Process,
             \/ Launch(p) \/ Register(p) \/ StartRaises(p)
             \/ CancelOrphan(p) \/ Terminate(p) \/ Startup(p)
             \/ Crash(p) /\ ~Owner(p)
      PROVE  CopiesInOrder'
  <2>1. /\ request'[p].pc \in {"register", "mark", "idle", "terminate", "stale"}
        /\ \A q \in Process \ {p} : request'[q] = request[q]
        /\ UNCHANGED <<run, waiter, reader>>
    BY <1>5, ServeAlone DEF Launch, Register, StartRaises, CancelOrphan, Terminate, Startup, Crash
  <2> QED
    BY <1>2, <2>1
<1>6. ASSUME NEW p \in Process, CancelOwn(p)
      PROVE  CopiesInOrder'
  <2>1. /\ request'[p].pc = "kill" /\ request'[p].copy = run
        /\ \A q \in Process \ {p} : request'[q] = request[q]
        /\ UNCHANGED <<run, waiter, reader>>
        /\ waiter.pc # "noteSave" /\ \A i \in Pipe : reader[i].pc # "append"
    BY <1>6, ServeAlone, LockFreed DEF CancelOwn
  <2>2. Later(run, run)
    BY CliAssumption, TopIsGreatest DEF IInv, TypeOK, Record, Later
  <2>3. \A q \in Process : request'[q].pc \in {"kill", "cancelled"} /\ ~Parted' =>
           Later(request'[q].copy, run')
    BY <2>1, <2>2 DEF CopiesInOrder, Parted
  <2> QED
    BY <2>1, <2>3 DEF CopiesInOrder
<1>7. ASSUME NEW p \in Process, Kill(p)
      PROVE  CopiesInOrder'
  <2>1. /\ request[p].pc = "kill" /\ request'[p].copy = request[p].copy
        /\ \A q \in Process \ {p} : request'[q] = request[q]
        /\ UNCHANGED <<run, waiter, reader>>
    BY <1>7, ServeAlone DEF Kill
  <2> QED
    BY <1>1, <2>1
<1>8. ASSUME NEW p \in Process, SaveCancelled(p)
      PROVE  CopiesInOrder'
  <2>1. /\ request[p].pc = "cancelled" /\ Owner(p) /\ request'[p].pc = "idle"
        /\ \A q \in Process \ {p} : request'[q] = request[q]
        /\ UNCHANGED <<waiter, reader>>
    BY <1>8, ServeAlone DEF SaveCancelled, IInv, Cancelling
  <2>2. run'.orphan = request[p].copy.orphan /\ run'.chunks = request[p].copy.chunks
    BY <1>8, CopiesTyped DEF SaveCancelled, IInv, Record
  <2>3. \A q \in Process : request'[q].pc \notin {"kill", "cancelled"}
    BY <2>1, OneOwner DEF IInv, Cancelling
  <2>4. ~Parted => \A i \in Pipe : reader[i].pc = "append" => Later(request[p].copy, reader[i].copy)
    BY <2>1 DEF CopiesInOrder
  <2>5. waiter.pc = "noteSave" => Later(request[p].copy, waiter.copy)
    BY <2>1 DEF CopiesInOrder, Parted
  <2> QED
    BY <2>1, <2>2, <2>3, <2>4, <2>5 DEF CopiesInOrder, Later, Parted
<1>9. ASSUME NEW p \in Process, MarkStale(p)
      PROVE  CopiesInOrder'
  <2>1. /\ request'[p].pc = "idle"
        /\ \A q \in Process \ {p} : request'[q] = request[q]
        /\ UNCHANGED <<waiter, reader>>
    BY <1>9, ServeAlone DEF MarkStale
  <2>2. run'.orphan # "none"
    <3>1. request[p].copy \in Record
      BY CopiesTyped DEF IInv
    <3>2. run'.status = "stale" /\ Fits(run', child)
      BY <1>9, <3>1 DEF MarkStale, Record, RecordsFit, RequestFits
    <3> QED
      BY <3>2 DEF Fits
  <2> QED
    BY <2>1, <2>2 DEF CopiesInOrder, Later, Parted
<1>10. ASSUME NEW p \in Process, Crash(p), Owner(p)
       PROVE  CopiesInOrder'
  <2>1. /\ request'[p].pc = "idle" /\ \A q \in Process \ {p} : request'[q] = request[q]
        /\ waiter'.pc = "none" /\ \A i \in Pipe : reader'[i].pc = "none"
    BY <1>10, ServeAlone DEF Crash, NoWaiter, Off
  <2>2. \A q \in Process \ {p} : request[q].pc \notin {"kill", "cancelled"}
    BY <1>10, OneOwner DEF IInv, Cancelling
  <2> QED
    BY <1>3, <2>1, <2>2
<1>11. CASE Exit \/ UNCHANGED vars
  BY <1>1, <1>11 DEF Exit, vars
\* The waiter copies the run while nobody appends, and writes no more than that.
<1>12. CASE Supervising
  <2>1. CASE Note
    <3>1. /\ waiter'.copy = run /\ waiter'.pc = "noteSave" /\ waiter.pc = "note"
          /\ UNCHANGED <<run, request, reader>>
          /\ \A i \in Pipe : reader[i].pc # "append"
      BY <2>1, LockFreed DEF Note, IInv, TypeOK, Waiter
    <3>2. Top(run.chunks) \in Nat
      BY CliAssumption, TopIsGreatest DEF IInv, TypeOK, Record
    <3> QED
      BY <3>1, <3>2 DEF CopiesInOrder, Later, Parted
  <2>2. CASE NoteSave
    <3>1. /\ waiter.pc = "noteSave" /\ waiter'.pc = "join"
          /\ run' = Appended(waiter.copy) /\ UNCHANGED <<request, reader>>
          /\ \A i \in Pipe : reader[i].pc # "append"
      BY <2>2 DEF NoteSave, IInv, TypeOK, Waiter, OneAppends
    <3>2. /\ waiter.copy \in Record /\ Fits(waiter.copy, child)
          /\ Top(waiter.copy.chunks) <= MaxOutput
      BY <3>1, CopiesTyped, NoteHasNumber DEF IInv, NumbersLeft, RecordsFit
    <3>3. run'.orphan = waiter.copy.orphan /\ Top(run'.chunks) = Top(waiter.copy.chunks) + 1
      BY <3>1, <3>2, AppendedFits
    <3>4. \A q \in Process : request[q].pc \in {"kill", "cancelled"} =>
             Later(request[q].copy, waiter.copy)
      BY <3>1 DEF CopiesInOrder, Parted
    <3>5. /\ Top(waiter.copy.chunks) \in Nat
          /\ \A q \in Process : Top(request[q].copy.chunks) \in Nat
      BY CliAssumption, CopiesTyped, TopIsGreatest DEF IInv, Record
    <3>6. \A q \in Process : request'[q].pc \in {"kill", "cancelled"} => Later(request'[q].copy, run')
      BY <3>1, <3>3, <3>4, <3>5 DEF Later
    <3> QED
      BY <3>1, <3>6 DEF CopiesInOrder
  <2>3. CASE FinalSave
    <3>1. Parted'
      BY <2>3 DEF FinalSave, NoWaiter, Parted
    <3> QED
      BY <1>0, <3>1
  <2>4. CASE run' = run /\ ~Note
    BY <1>12, <2>4, WaiterSteps DEF CopiesInOrder
  <2> QED
    BY <1>12, <2>1, <2>2, <2>3, <2>4, WaiterSteps
<1>13. ASSUME NEW i \in Pipe, Reading(i), ~Parted
       PROVE  CopiesInOrder'
  <2>1. /\ UNCHANGED <<request, waiter>> /\ \A j \in Pipe \ {i} : reader'[j] = reader[j]
    BY <1>13, ReaderSteps
  <2>2. CASE Read(i)
    <3>1. /\ reader'[i].copy = run /\ run' = run
          /\ waiter.pc # "noteSave" /\ \A j \in Pipe : reader[j].pc # "append"
      BY <2>2, LockFreed DEF Read, IInv, TypeOK, Reader
    <3>2. Later(run, run)
      BY CliAssumption, TopIsGreatest DEF IInv, TypeOK, Record, Later
    <3>3. \A j \in Pipe : reader'[j].pc = "append" => reader'[j].copy = run
      BY <2>1, <3>1
    <3>4. \A q \in Process : request'[q].pc \in {"kill", "cancelled"} => Later(request'[q].copy, run)
      BY <1>13, <2>1 DEF CopiesInOrder
    <3> QED
      BY <2>1, <3>1, <3>2, <3>3, <3>4 DEF CopiesInOrder
  <2>3. CASE Append(i)
    <3>1. /\ reader[i].pc = "append" /\ reader'[i].pc = "read"
          /\ run' = Appended(reader[i].copy)
          /\ waiter.pc # "noteSave" /\ \A j \in Pipe \ {i} : reader[j].pc # "append"
      BY <1>13, <2>3, ReaderSteps DEF Append, OneAppends
    <3>2. /\ reader[i].copy \in Record /\ Fits(reader[i].copy, child)
          /\ Top(reader[i].copy.chunks) \in Nat /\ Top(reader[i].copy.chunks) <= MaxOutput
      BY <3>1, CliAssumption, CopiesTyped, TopIsGreatest
      DEF IInv, NumbersLeft, RecordsFit, Record
    <3>3. /\ run'.orphan = reader[i].copy.orphan
          /\ Top(run'.chunks) = Top(reader[i].copy.chunks) + 1
      BY <3>1, <3>2, AppendedFits
    <3>4. \A q \in Process : request[q].pc \in {"kill", "cancelled"} =>
             Later(request[q].copy, reader[i].copy)
      BY <1>13, <3>1 DEF CopiesInOrder
    <3>5. \A q \in Process : Top(request[q].copy.chunks) \in Nat
      BY CliAssumption, CopiesTyped, TopIsGreatest DEF IInv, Record
    <3>6. \A q \in Process : request'[q].pc \in {"kill", "cancelled"} => Later(request'[q].copy, run')
      BY <2>1, <3>2, <3>3, <3>4, <3>5 DEF Later
    <3>7. \A j \in Pipe : reader'[j].pc # "append"
      BY <2>1, <3>1
    <3> QED
      BY <2>1, <3>1, <3>6, <3>7 DEF CopiesInOrder
  <2> QED
    BY <1>13, <2>2, <2>3 DEF Reading
<1>14. ASSUME NEW i \in Pipe, Reading(i), Parted
       PROVE  CopiesInOrder'
  BY <1>0, <1>14, ReaderSteps DEF Parted
<1> QED
  BY <1>4, <1>5, <1>6, <1>7, <1>8, <1>9, <1>10, <1>11, <1>12, <1>13, <1>14 DEF Next, Serving

OutputInv ==
    /\ OrphanInv /\ OneAppends /\ ReadersBegin /\ CopiesInOrder
    /\ OwnersLived /\ Listed /\ CommandsAreInReach

\* The inductive invariant of the output, and of the commands of living
\* processes.
THEOREM OutputInvariant == Spec => []OutputInv
<1>1. Init => /\ OneAppends /\ ReadersBegin /\ CopiesInOrder
              /\ OwnersLived /\ Listed /\ CommandsAreInReach
  BY DEF Init, OneAppends, ReadersBegin, CopiesInOrder, OwnersLived, Listed, CommandsAreInReach,
    Absent, NoWaiter, Off, Idle
<1>2. OrphanInv /\ OrphanInv' /\ OutputInv /\ [Next]_vars => OutputInv'
  BY OneAppendsStays, ReadersBeginStays, OrderStays, OwnersLivedStays, ListedStays, ReachStays
  DEF OutputInv, OrphanInv
<1>3. Spec => []OrphanInv
  BY RecordsStayFit
<1>4. Init /\ OrphanInv => OutputInv
  BY <1>1 DEF OutputInv
<1> QED
  BY <1>2, <1>3, <1>4, PTL DEF Spec

\* A command whose backend process lives is never out of its reach, though its
\* start may raise when it runs already and readers may outlive their waiter.
THEOREM CommandsStayInReach == Spec => []CommandsAreInReach
<1>1. OutputInv => CommandsAreInReach
  BY DEF OutputInv
<1> QED
  BY OutputInvariant, <1>1, PTL

\* An append goes on from a copy that is no older than the run.
LEMMA AppendsGoOn ==
  ASSUME OutputInv, NEW x \in Record, Fits(x, child), Top(x.chunks) <= MaxOutput,
         Later(run, x), run' = Appended(x), run.orphan = "none", run'.orphan = "none"
  PROVE  /\ Top(run'.chunks) > Top(run.chunks)
         /\ \A n \in run.chunks :
               n + Retained > Top(run'.chunks) => n \in run'.chunks
<1>1. /\ x.orphan = "none" /\ Top(run'.chunks) = Top(x.chunks) + 1
      /\ run'.chunks = Kept(Top(x.chunks) + 1)
  BY AppendedFits
<1>2. Top(run.chunks) \in Nat /\ Top(x.chunks) \in Nat /\ Top(run.chunks) <= Top(x.chunks)
  BY <1>1, CliAssumption, TopIsGreatest DEF Later, OutputInv, OrphanInv, IInv, TypeOK, Record
<1>3. run.chunks = Kept(Top(run.chunks))
  BY DEF OutputInv, OrphanInv, RecordsFit, Fits
<1> QED
  BY <1>1, <1>2, <1>3, CliAssumption DEF Kept

\* Until the waiter gives up on the readers, they and its note never take a chunk
\* from each other, though a cancellation may take the run back between any two
\* of them.
THEOREM OutputIsKept == Spec => AppendsKeepOutput
<1> DEFINE Goes == /\ Top(run'.chunks) > Top(run.chunks)
                   /\ \A n \in run.chunks :
                         n + Retained > Top(run'.chunks) => n \in run'.chunks
<1>1. ASSUME OutputInv, NoteSave, {run.orphan, run'.orphan} = {"none"}
      PROVE  Goes
  <2>1. /\ waiter.copy \in Record /\ Fits(waiter.copy, child)
        /\ Top(waiter.copy.chunks) <= MaxOutput
    BY <1>1, CopiesTyped, NoteHasNumber
    DEF NoteSave, OutputInv, OrphanInv, IInv, NumbersLeft, RecordsFit
  <2>2. Later(run, waiter.copy) /\ run' = Appended(waiter.copy)
    BY <1>1 DEF NoteSave, OutputInv, CopiesInOrder, Parted
  <2> QED
    BY <1>1, <2>1, <2>2, AppendsGoOn
<1>2. ASSUME OutputInv, NEW i \in Pipe, Append(i), ~Parted, {run.orphan, run'.orphan} = {"none"}
      PROVE  Goes
  <2>1. /\ reader[i].copy \in Record /\ Fits(reader[i].copy, child)
        /\ Top(reader[i].copy.chunks) <= MaxOutput
    BY <1>2, CliAssumption, CopiesTyped, TopIsGreatest
    DEF Append, OutputInv, OrphanInv, IInv, NumbersLeft, RecordsFit, Record
  <2>2. Later(run, reader[i].copy) /\ run' = Appended(reader[i].copy)
    BY <1>2 DEF Append, OutputInv, CopiesInOrder
  <2> QED
    BY <1>2, <2>1, <2>2, AppendsGoOn
<1>3. OutputInv =>
        [((NoteSave \/ \E i \in Pipe : Append(i)) /\ ~Parted
              /\ {run.orphan, run'.orphan} = {"none"}) => Goes]_vars
  BY <1>1, <1>2
<1> QED
  BY OutputInvariant, <1>3, PTL DEF AppendsKeepOutput

=============================================================================
