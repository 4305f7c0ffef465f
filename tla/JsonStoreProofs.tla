-------------------------- MODULE JsonStoreProofs --------------------------
(***************************************************************************)
(* JsonStore for any number of processes and threads, any keys and values, *)
(* and any updater and mutator: the locks are held by those on their way to *)
(* release them, what is saved was computed from what is in the file, and   *)
(* the calls implement the atomic Collection.                              *)
(***************************************************************************)
EXTENDS JsonStore, TLAPS

\* What a thread inside a call has been asked.
Asked == \A t \in Thread :
    call[t].at \in Inside =>
        [op |-> call[t].op, key |-> call[t].key, value |-> call[t].value] \in Call

\* What a thread between load and save may rely on.
Ready == \A t \in Thread :
    /\ At(t, "repair") => call[t].op # "restore" /\ file = Absent
    /\ At(t, "aside") => call[t].op = "restore" /\ call[t].items \in Archive
    /\ At(t, "save") => file.state # "damaged"
    /\ At(t, "save") /\ call[t].op = "restore" => file = Absent /\ call[t].items \in Archive

IInv == TypeOK /\ NoLockIsLeaked /\ Asked /\ Ready /\ LoadedIsCurrent

Caller ==
    [at: Pc, op: Operation, key: Key \cup {None}, value: Value \cup {None}, items: Items]

LEMMA EmptyIsItems == Empty \in Items
  BY DEF Empty, Items

\* A call that does not raise makes items of items.
LEMMA AfterIsItems ==
  ASSUME NEW c \in Caller, NEW i \in Items, Accepts(c, i),
         [op |-> c.op, key |-> c.key, value |-> c.value] \in Call
  PROVE  After(c, i) \in Items
<1>1. CASE c.op = "upsert"
  <2>1. c.key \in Key /\ c.value \in Value
    BY <1>1 DEF Call
  <2> QED
    BY <1>1, <2>1 DEF After, Items
<1>2. CASE c.op = "update"
  <2>1. c.key \in Key
    BY <1>2 DEF Call
  <2>2. i[c.key] \in Value
    BY <1>2, <2>1 DEF Accepts, Items
  <2>3. Revise[i[c.key]] \in Value
    BY <2>2, DataAssumption
  <2> QED
    BY <1>2, <2>1, <2>3 DEF After, Items
<1>3. CASE c.op = "transact"
  BY <1>3, DataAssumption DEF After
<1>4. CASE c.op \notin Changes
  BY <1>4 DEF After, Changes
<1> QED
  BY <1>1, <1>2, <1>3, <1>4 DEF Changes

LEMMA ContentIsItems == TypeOK => Content \in Items
  BY EmptyIsItems DEF TypeOK, Content, File

\* Whoever is inside is alone there.
LEMMA Alone ==
  ASSUME NoLockIsLeaked, NEW t \in Thread, call[t].at \in Inside,
         NEW x \in Thread, call[x].at \in Inside
  PROVE  x = t
  BY DEF NoLockIsLeaked

LEMMA InitInvariant == Init => IInv
<1> SUFFICES ASSUME Init PROVE IInv
  OBVIOUS
<1>1. TypeOK
  BY EmptyIsItems DEF Init, TypeOK, File, Absent, Idle, Pc, Operation, Reads
<1>2. NoLockIsLeaked
  BY StoreAssumption DEF Init, NoLockIsLeaked, Idle, Inside, Saving, Holding
<1>3. Asked /\ Ready /\ LoadedIsCurrent
  BY DEF Init, Asked, Ready, LoadedIsCurrent, At, Idle, Inside, Saving
<1> QED
  BY <1>1, <1>2, <1>3 DEF IInv

----------------------------------------------------------------------------
(* The locks.                                                              *)

\* The steps of thread t that move its pc within the locks only.
Moves(t) ==
    /\ \A x \in Thread \ {t} : call'[x] = call[x]
    /\ call[t].at \in Inside
    /\ call'[t].at \in Inside
    /\ UNCHANGED <<lock, flock>>

LEMMA InLockMoves ==
  ASSUME TypeOK, NEW t \in Thread, InLock(t) \/ Raise(t)
  PROVE  Moves(t)
<1>1. CASE Load(t)
  BY <1>1 DEF Load, Loaded, Moves, TypeOK, At, Inside, Saving
<1>2. CASE LoadDamaged(t)
  BY <1>2 DEF LoadDamaged, Quarantine, Goto, Moves, TypeOK, At, Inside, Saving
<1>3. CASE Repair(t)
  BY <1>3 DEF Repair, Loaded, Moves, TypeOK, At, Inside, Saving
<1>4. CASE Save(t) \/ RefuseRestore(t) \/ Raise(t)
  BY <1>4 DEF Save, RefuseRestore, Raise, Goto, Moves, TypeOK, At, Inside, Saving
<1>5. CASE ReadKept(t)
  BY <1>5 DEF ReadKept, Moves, TypeOK, At, Inside, Saving
<1>6. CASE MoveAside(t)
  BY <1>6 DEF MoveAside, Quarantine, Goto, Moves, TypeOK, At, Inside, Saving
<1> QED
  BY <1>1, <1>2, <1>3, <1>4, <1>5, <1>6 DEF InLock

LEMMA LocksKept == TypeOK /\ NoLockIsLeaked /\ [Next]_vars => NoLockIsLeaked'
<1> SUFFICES ASSUME TypeOK, NoLockIsLeaked, [Next]_vars PROVE NoLockIsLeaked'
  OBVIOUS
<1>1. ASSUME NEW t \in Thread, Lock(t)
      PROVE  NoLockIsLeaked'
  BY <1>1, StoreAssumption
    DEF Lock, Goto, At, TypeOK, NoLockIsLeaked, Holding, Inside, Saving
<1>2. ASSUME NEW t \in Thread, FileLock(t)
      PROVE  NoLockIsLeaked'
  BY <1>2, StoreAssumption
    DEF FileLock, Invoked, At, TypeOK, NoLockIsLeaked, Holding, Inside, Saving
<1>3. ASSUME NEW t \in Thread, FileUnlock(t)
      PROVE  NoLockIsLeaked'
  BY <1>3, StoreAssumption
    DEF FileUnlock, Idle, At, TypeOK, NoLockIsLeaked, Holding, Inside, Saving
<1>4. ASSUME NEW t \in Thread, Unlock(t)
      PROVE  NoLockIsLeaked'
  BY <1>4, StoreAssumption
    DEF Unlock, Goto, At, TypeOK, NoLockIsLeaked, Holding, Inside, Saving
<1>5. ASSUME NEW t \in Thread, InLock(t) \/ Raise(t)
      PROVE  NoLockIsLeaked'
  <2>1. Moves(t)
    BY <1>5, InLockMoves
  <2> QED
    BY <2>1 DEF Moves, NoLockIsLeaked, Holding
<1>6. ASSUME NEW p \in Process, Crash(p)
      PROVE  NoLockIsLeaked'
  BY <1>6, StoreAssumption
    DEF Crash, Idle, TypeOK, NoLockIsLeaked, Holding, Inside, Saving
<1>7. CASE Damage \/ Mend \/ UNCHANGED vars
  BY <1>7 DEF Damage, Mend, vars, NoLockIsLeaked
<1> QED
  BY <1>1, <1>2, <1>3, <1>4, <1>5, <1>6, <1>7 DEF Next, Step

----------------------------------------------------------------------------
(* Types, and what a thread has been asked.                                *)

LEMMA LoadedTyped ==
  ASSUME NEW c \in Caller, NEW i \in Items,
         [op |-> c.op, key |-> c.key, value |-> c.value] \in Call
  PROVE  Loaded(c, i) \in Caller
<1>1. CASE c.op \in Reads
  BY <1>1 DEF Loaded, Caller, Pc, Holding, Inside
<1>2. CASE c.op \notin Reads /\ Accepts(c, i)
  <2>1. After(c, i) \in Items
    BY <1>2, AfterIsItems
  <2> QED
    BY <1>2, <2>1 DEF Loaded, Caller, Pc, Holding, Inside, Saving
<1>3. CASE c.op \notin Reads /\ ~Accepts(c, i)
  BY <1>3 DEF Loaded, Caller, Pc, Holding, Inside
<1> QED
  BY <1>1, <1>2, <1>3

LEMMA TypesKept == TypeOK /\ Asked /\ [Next]_vars => TypeOK'
<1> SUFFICES ASSUME TypeOK, Asked, [Next]_vars PROVE TypeOK'
  OBVIOUS
<1> USE EmptyIsItems
<1>1. CASE UNCHANGED vars
  BY <1>1 DEF vars, TypeOK
<1>2. ASSUME NEW t \in Thread, Lock(t) \/ FileUnlock(t) \/ Unlock(t)
      PROVE  TypeOK'
  <2>1. call' \in [Thread -> Caller]
    BY <1>2 DEF Lock, FileUnlock, Unlock, Goto, Idle, TypeOK, Caller, Pc, Holding,
      Inside, Saving, Operation, Reads
  <2> QED
    BY <1>2, <2>1, StoreAssumption DEF Lock, FileUnlock, Unlock, TypeOK, Caller
<1>3. ASSUME NEW t \in Thread, FileLock(t)
      PROVE  TypeOK'
  <2>1. \A c \in Call : c.op \in Operation /\ c.key \in Key \cup {None}
                        /\ c.value \in Value \cup {None}
    BY DEF Call, Operation, Reads, Changes
  <2>2. call' \in [Thread -> Caller]
    BY <1>3, <2>1 DEF FileLock, Invoked, TypeOK, Caller, Pc, Holding, Inside, Saving
  <2> QED
    BY <1>3, <2>2 DEF FileLock, TypeOK, Caller
<1>4. ASSUME NEW t \in Thread, Load(t) \/ Repair(t)
      PROVE  TypeOK'
  <2>1. [op |-> call[t].op, key |-> call[t].key, value |-> call[t].value] \in Call
    BY <1>4 DEF Load, Repair, At, Asked, Inside, Saving
  <2>2. call[t] \in Caller /\ Content \in Items
    BY ContentIsItems DEF TypeOK, Caller
  <2>3. Loaded(call[t], Content) \in Caller /\ Loaded(call[t], Empty) \in Caller
    BY <2>1, <2>2, LoadedTyped
  <2>4. call' \in [Thread -> Caller]
    BY <1>4, <2>3 DEF Load, Repair, TypeOK, Caller
  <2>5. file' \in File /\ (file'.state = "absent" => file' = Absent)
    BY <1>4 DEF Load, Repair, Good, TypeOK, File
  <2> QED
    BY <1>4, <2>4, <2>5 DEF Load, Repair, TypeOK, Caller
<1>5. ASSUME NEW t \in Thread, LoadDamaged(t) \/ MoveAside(t)
      PROVE  TypeOK'
  <2>1. call' \in [Thread -> Caller]
    BY <1>5 DEF LoadDamaged, MoveAside, Quarantine, Goto, TypeOK, Caller, Pc, Holding,
      Inside, Saving
  <2>2. kept' \subseteq Kept
    <3>1. file.items \in Items
      BY DEF TypeOK, File
    <3>2. \A r \in {"corrupt", "pre-restore"}, good \in BOOLEAN :
            [reason |-> r, readable |-> good, items |-> file.items] \in Kept
      BY <3>1 DEF Kept
    <3>3. (file.state = "good") \in BOOLEAN
      OBVIOUS
    <3>4. \A r \in {"corrupt", "pre-restore"} :
            [reason |-> r, readable |-> file.state = "good", items |-> file.items] \in Kept
      BY <3>2, <3>3
    <3> QED
      BY <1>5, <3>4 DEF LoadDamaged, MoveAside, Quarantine, TypeOK
  <2> QED
    BY <1>5, <2>1, <2>2
      DEF LoadDamaged, MoveAside, Quarantine, TypeOK, Caller, File, Absent
<1>6. ASSUME NEW t \in Thread, Save(t) \/ RefuseRestore(t) \/ Raise(t)
      PROVE  TypeOK'
  <2>1. call' \in [Thread -> Caller]
    BY <1>6 DEF Save, RefuseRestore, Raise, Goto, TypeOK, Caller, Pc, Holding, Inside
  <2>2. file' \in File /\ (file'.state = "absent" => file' = Absent)
    BY <1>6 DEF Save, RefuseRestore, Raise, Good, TypeOK, File
  <2> QED
    BY <1>6, <2>1, <2>2 DEF Save, RefuseRestore, Raise, TypeOK, Caller
<1>7. ASSUME NEW t \in Thread, ReadKept(t)
      PROVE  TypeOK'
  <2>1. \A k \in Restorable : k.items \in Items
    BY DEF Restorable, TypeOK, Kept
  <2>2. PICK k \in Restorable :
          call' = [call EXCEPT ![t].items = k.items,
                               ![t].at = IF file = Absent THEN "save" ELSE "aside"]
    BY <1>7 DEF ReadKept
  <2>3. \A pc \in {"save", "aside"} :
          [call EXCEPT ![t].items = k.items, ![t].at = pc] \in [Thread -> Caller]
    BY <2>1 DEF TypeOK, Caller, Pc, Holding, Inside, Saving
  <2>4. call' \in [Thread -> Caller]
    BY <2>2, <2>3
  <2> QED
    BY <1>7, <2>4 DEF ReadKept, TypeOK, Caller
<1>8. ASSUME NEW p \in Process, Crash(p)
      PROVE  TypeOK'
  <2>1. call' \in [Thread -> Caller]
    BY <1>8 DEF Crash, Idle, TypeOK, Caller, Pc, Operation, Reads
  <2> QED
    BY <1>8, <2>1 DEF Crash, TypeOK, Caller
<1>9. CASE Damage
  BY <1>9 DEF Damage, TypeOK, File
<1>10. CASE Mend
  BY <1>10 DEF Mend, TypeOK, Kept
<1> QED
  BY <1>1, <1>2, <1>3, <1>4, <1>5, <1>6, <1>7, <1>8, <1>9, <1>10
    DEF Next, Step, InLock

\* Two states of one call.
Same(c, d) == d.op = c.op /\ d.key = c.key /\ d.value = c.value

\* A step inside a call does not change what was asked.
LEMMA SameCall ==
  ASSUME TypeOK, NEW t \in Thread, InLock(t) \/ Raise(t)
  PROVE  Same(call[t], call'[t])
<1>1. CASE Load(t) \/ Repair(t)
  <2>1. \A i \in {Content, Empty} : Same(call[t], Loaded(call[t], i))
    BY DEF Loaded, TypeOK, Same
  <2>2. call'[t] \in {Loaded(call[t], Content), Loaded(call[t], Empty)}
    BY <1>1 DEF Load, Repair, TypeOK
  <2> QED
    BY <2>1, <2>2
<1>2. CASE LoadDamaged(t) \/ MoveAside(t)
  BY <1>2 DEF LoadDamaged, MoveAside, Quarantine, Goto, TypeOK, Same
<1>3. CASE Save(t) \/ RefuseRestore(t) \/ Raise(t)
  BY <1>3 DEF Save, RefuseRestore, Raise, Goto, TypeOK, Same
<1>4. CASE ReadKept(t)
  BY <1>4 DEF ReadKept, TypeOK, Same
<1> QED
  BY <1>1, <1>2, <1>3, <1>4 DEF InLock

\* A thread keeps to what it has been asked as long as it is inside.
LEMMA AskedKept == TypeOK /\ Asked /\ [Next]_vars => Asked'
<1> SUFFICES ASSUME TypeOK, Asked, [Next]_vars PROVE Asked'
  OBVIOUS
<1>1. CASE UNCHANGED vars \/ Damage \/ Mend
  BY <1>1 DEF vars, Damage, Mend, Asked
<1>2. ASSUME NEW t \in Thread, Lock(t) \/ FileUnlock(t) \/ Unlock(t)
      PROVE  Asked'
  BY <1>2 DEF Lock, FileUnlock, Unlock, Goto, Idle, TypeOK, Asked, Inside, Saving
<1>3. ASSUME NEW t \in Thread, FileLock(t)
      PROVE  Asked'
  <2>1. \A c \in Call : c = [op |-> c.op, key |-> c.key, value |-> c.value]
    BY DEF Call
  <2> QED
    BY <1>3, <2>1 DEF FileLock, Invoked, TypeOK, Asked
<1>4. ASSUME NEW t \in Thread, InLock(t) \/ Raise(t)
      PROVE  Asked'
  <2>1. Moves(t)
    BY <1>4, InLockMoves
  <2>2. Same(call[t], call'[t])
    BY <1>4, SameCall
  <2> QED
    BY <2>1, <2>2 DEF Moves, Asked, Same
<1>5. ASSUME NEW p \in Process, Crash(p)
      PROVE  Asked'
  BY <1>5 DEF Crash, Idle, TypeOK, Asked, Inside, Saving
<1> QED
  BY <1>1, <1>2, <1>3, <1>4, <1>5 DEF Next, Step

----------------------------------------------------------------------------
(* What a thread is about to save.                                         *)

\* A quarantine keeps what was in the file, and everything kept before.
LEMMA QuarantineKeeps ==
  ASSUME NEW t, NEW reason, NEW next, Quarantine(t, reason, next)
  PROVE  Archive' = Archive \cup {file.items}
<1> DEFINE k == [reason |-> reason, readable |-> file.state = "good", items |-> file.items]
<1>1. k.items = file.items
  OBVIOUS
<1>2. kept' = kept \cup {k} /\ file' = Absent
  BY DEF Quarantine
<1>3. file'.state # "damaged"
  BY <1>2 DEF Absent
<1> HIDE DEF k
<1> QED
  BY <1>1, <1>2, <1>3 DEF Archive

\* Mending a kept file does not change what it holds.
LEMMA MendKeeps ==
  ASSUME TypeOK, Mend
  PROVE  Archive' = Archive
<1>1. PICK k \in kept : kept' = (kept \ {k}) \cup {[k EXCEPT !.readable = TRUE]}
  BY DEF Mend
<1> DEFINE m == [k EXCEPT !.readable = TRUE]
<1>2. m.items = k.items
  BY DEF TypeOK, Kept
<1>3. UNCHANGED file
  BY DEF Mend
<1> HIDE DEF m
<1>4. kept' = (kept \ {k}) \cup {m}
  BY <1>1 DEF m
<1> QED
  BY <1>2, <1>3, <1>4 DEF Archive

\* A step that leaves the files alone, and those about to use them.
LEMMA Undisturbed ==
  ASSUME Ready, LoadedIsCurrent, UNCHANGED file, Archive' = Archive,
         \A x \in Thread : call'[x].at \in {"repair", "aside", "save"} => call'[x] = call[x]
  PROVE  Ready' /\ LoadedIsCurrent'
  BY DEF Ready, LoadedIsCurrent, At, Content

\* A step of the thread inside concerns this thread alone.
LEMMA OnlyInside ==
  ASSUME NoLockIsLeaked, NEW t \in Thread, Moves(t),
         /\ call'[t].at = "repair" => call'[t].op # "restore" /\ file' = Absent
         /\ call'[t].at = "aside" => call'[t].op = "restore" /\ call'[t].items \in Archive'
         /\ call'[t].at = "save" => file'.state # "damaged"
         /\ call'[t].at = "save" /\ call'[t].op = "restore" =>
                file' = Absent /\ call'[t].items \in Archive'
         /\ call'[t].at = "save" /\ call'[t].op # "restore" =>
                Accepts(call'[t], Content') /\ call'[t].items = After(call'[t], Content')
  PROVE  Ready' /\ LoadedIsCurrent'
<1>1. \A x \in Thread : call'[x].at \in {"repair", "aside", "save"} => x = t
  BY Alone DEF Moves, Inside, Saving
<1> QED
  BY <1>1 DEF Ready, LoadedIsCurrent, At

\* Loading ends inside, with what is to be saved computed from the items loaded.
LEMMA LoadedFacts ==
  ASSUME NEW c \in Caller, NEW i \in Items, c.op # "restore"
  PROVE  /\ Loaded(c, i).op = c.op
         /\ Loaded(c, i).at \in {"done", "save", "raised"}
         /\ Loaded(c, i).at = "save" =>
                Accepts(Loaded(c, i), i) /\ Loaded(c, i).items = After(Loaded(c, i), i)
<1>1. CASE c.op \in Reads
  BY <1>1 DEF Loaded, Caller
<1>2. CASE c.op \notin Reads /\ Accepts(c, i)
  <2> DEFINE d == [c EXCEPT !.at = "save", !.items = After(c, i)]
  <2>1. Loaded(c, i) = d
    BY <1>2 DEF Loaded
  <2>2. d.op = c.op /\ d.key = c.key /\ d.value = c.value /\ d.at = "save"
        /\ d.items = After(c, i)
    BY DEF Caller
  <2> HIDE DEF d
  <2>3. Accepts(d, i) /\ After(d, i) = After(c, i)
    BY <1>2, <2>2 DEF Accepts, After
  <2> QED
    BY <2>1, <2>2, <2>3
<1>3. CASE c.op \notin Reads /\ ~Accepts(c, i)
  BY <1>3 DEF Loaded, Caller
<1> QED
  BY <1>1, <1>2, <1>3

LEMMA PreparedKept == IInv /\ [Next]_vars => Ready' /\ LoadedIsCurrent'
<1> SUFFICES ASSUME IInv, [Next]_vars PROVE Ready' /\ LoadedIsCurrent'
  OBVIOUS
<1> USE DEF IInv
<1>1. CASE UNCHANGED vars
  BY <1>1, Undisturbed DEF vars, Archive
<1>2. ASSUME NEW t \in Thread, Lock(t) \/ FileLock(t) \/ FileUnlock(t) \/ Unlock(t)
      PROVE  Ready' /\ LoadedIsCurrent'
  <2>1. UNCHANGED <<file, kept>>
    BY <1>2 DEF Lock, FileLock, FileUnlock, Unlock
  <2>2. \A x \in Thread :
          call'[x].at \in {"repair", "aside", "save"} => call'[x] = call[x]
    <3>1. CASE Lock(t) \/ FileUnlock(t) \/ Unlock(t)
      BY <3>1 DEF Lock, FileUnlock, Unlock, Goto, Idle, TypeOK
    <3>2. CASE FileLock(t)
      BY <3>2 DEF FileLock, Invoked, TypeOK
    <3> QED
      BY <1>2, <3>1, <3>2
  <2>3. Archive' = Archive
    BY <2>1 DEF Archive
  <2> QED
    BY <2>1, <2>2, <2>3, Undisturbed
<1>3. ASSUME NEW t \in Thread, InLock(t) \/ Raise(t)
      PROVE  Ready' /\ LoadedIsCurrent'
  <2>1. Moves(t)
    BY <1>3, InLockMoves
  <2>2. call[t] \in Caller /\ Content \in Items
    BY ContentIsItems DEF TypeOK, Caller
  <2>3. CASE Load(t)
    <3>1. call'[t] = Loaded(call[t], Content) /\ UNCHANGED <<file, kept>>
          /\ call[t].op # "restore" /\ file.state # "damaged"
      BY <2>3 DEF Load, TypeOK
    <3>2. Content' = Content
      BY <3>1 DEF Content
    <3> QED
      BY <2>1, <2>2, <3>1, <3>2, LoadedFacts, OnlyInside
  <2>4. CASE Repair(t)
    <3>1. call'[t] = Loaded(call[t], Empty) /\ call[t].op # "restore"
      BY <2>4 DEF Repair, TypeOK, Ready, At
    <3>2. Content' = Empty /\ file'.state # "damaged"
      BY <2>4 DEF Repair, Good, Content
    <3> QED
      BY <2>1, <2>2, <3>1, <3>2, EmptyIsItems, LoadedFacts, OnlyInside
  <2>5. CASE LoadDamaged(t)
    <3>1. call'[t].at = "repair" /\ call'[t].op = call[t].op /\ call[t].op # "restore"
          /\ file' = Absent
      BY <2>5 DEF LoadDamaged, Quarantine, Goto, TypeOK
    <3> QED
      BY <2>1, <3>1, OnlyInside
  <2>6. CASE MoveAside(t)
    <3>1. call'[t].at = "save" /\ call'[t].op = call[t].op /\ call[t].op = "restore"
          /\ file' = Absent /\ call'[t].items = call[t].items /\ call[t].items \in Archive
      BY <2>6 DEF MoveAside, Quarantine, Goto, TypeOK, Ready, At
    <3>2. Archive \subseteq Archive'
      BY <2>6, QuarantineKeeps DEF MoveAside
    <3> QED
      BY <2>1, <3>1, <3>2, OnlyInside DEF Absent
  <2>7. CASE Save(t) \/ RefuseRestore(t) \/ Raise(t)
    <3>1. call'[t].at \in {"done", "raised"}
      BY <2>7 DEF Save, RefuseRestore, Raise, Goto, TypeOK
    <3> QED
      BY <2>1, <3>1, OnlyInside
  <2>8. CASE ReadKept(t)
    <3>1. PICK k \in Restorable :
            call' = [call EXCEPT ![t].items = k.items,
                                 ![t].at = IF file = Absent THEN "save" ELSE "aside"]
      BY <2>8 DEF ReadKept
    <3>2. call'[t].items = k.items /\ call'[t].op = call[t].op /\ call[t].op = "restore"
          /\ (call'[t].at = "save" => file = Absent) /\ call'[t].at \in {"save", "aside"}
      BY <2>8, <3>1 DEF ReadKept, TypeOK
    <3>3. UNCHANGED <<file, kept>>
      BY <2>8 DEF ReadKept
    <3>4. k.items \in Archive'
      BY <3>3 DEF Restorable, Archive
    <3> QED
      BY <2>1, <3>2, <3>3, <3>4, OnlyInside DEF Absent
  <2> QED
    BY <1>3, <2>3, <2>4, <2>5, <2>6, <2>7, <2>8 DEF InLock
<1>4. ASSUME NEW p \in Process, Crash(p)
      PROVE  Ready' /\ LoadedIsCurrent'
  <2>1. UNCHANGED <<file, kept>> /\ Archive' = Archive
    BY <1>4 DEF Crash, Archive
  <2>2. \A x \in Thread :
          call'[x].at \in {"repair", "aside", "save"} => call'[x] = call[x]
    BY <1>4 DEF Crash, Idle, TypeOK
  <2> QED
    BY <2>1, <2>2, Undisturbed
<1>5. CASE Damage
  <2>1. \A x \in Thread : call'[x].at \notin Inside
    BY <1>5, StoreAssumption DEF Damage, NoLockIsLeaked
  <2> QED
    BY <2>1 DEF Ready, LoadedIsCurrent, At, Inside, Saving
<1>6. CASE Mend
  <2>1. Archive' = Archive
    BY <1>6, MendKeeps
  <2> QED
    BY <1>6, <2>1, Undisturbed DEF Mend
<1> QED
  BY <1>1, <1>2, <1>3, <1>4, <1>5, <1>6 DEF Next, Step

THEOREM StoreInvariant == Spec => []IInv
<1>1. IInv /\ [Next]_vars => IInv'
  BY TypesKept, LocksKept, AskedKept, PreparedKept DEF IInv
<1> QED
  BY <1>1, InitInvariant, PTL DEF Spec

\* TypeOK holds of every collection.
THEOREM StoreTypes == Spec => []TypeOK
  BY StoreInvariant, PTL DEF IInv

\* No call, failure or crash leaves a lock behind, and both locks exclude.
THEOREM LocksAreReleased == Spec => []NoLockIsLeaked
  BY StoreInvariant, PTL DEF IInv

\* What a call saves is computed from what the file holds at that moment: no
\* update of another thread or process is lost.
THEOREM NoLostUpdate == Spec => []LoadedIsCurrent
  BY StoreInvariant, PTL DEF IInv

----------------------------------------------------------------------------
(* JsonStore implements Collection.                                        *)

SeenCall == [t \in Thread |-> Seen(call[t])]

\* The data of the two specifications is the same.
LEMMA SameData ==
  /\ AbstractStore!Empty = Empty
  /\ AbstractStore!Idle = Idle
  /\ AbstractStore!Call = Call
  /\ \A c : AbstractStore!Invoked(c) = Invoked(c)
  /\ \A c, i : AbstractStore!Accepts(c, i) <=> Accepts(c, i)
  /\ \A c, i : AbstractStore!After(c, i) = After(c, i)
  BY DEF AbstractStore!Empty, Empty, AbstractStore!Idle, Idle, AbstractStore!Call, Call,
    AbstractStore!Invoked, Invoked, AbstractStore!Accepts, Accepts,
    AbstractStore!After, After

LEMMA SeenFacts ==
  /\ \A c : c.at \notin Inside => Seen(c) = Idle
  /\ \A c : c.at = "done" => Seen(c) = c
  /\ \A c : c.at \in Inside /\ c.at # "done" =>
        Seen(c) = [c EXCEPT !.at = "called", !.items = Empty]
  BY DEF Seen, Inside

\* The call a, seen to take effect with the items i.
Taken(a, i) == [a EXCEPT !.at = "done", !.items = i]

\* Inside a call, nothing but its taking effect is seen.
LEMMA SeenCalled ==
  ASSUME NEW c \in Caller, c.at \in Inside \ {"done"},
         NEW d \in Caller, d.at \in Inside, Same(c, d)
  PROVE  /\ Seen(c).at = "called" /\ Same(c, Seen(c))
         /\ d.at = "done" => Seen(d) = Taken(Seen(c), d.items)
         /\ d.at # "done" => Seen(d) = Seen(c)
<1>1. Seen(c) = [c EXCEPT !.at = "called", !.items = Empty]
  BY SeenFacts
<1>2. Seen(c).at = "called" /\ Same(c, Seen(c))
  BY <1>1 DEF Caller, Same
<1>3. ASSUME d.at = "done"
      PROVE  Seen(d) = Taken(Seen(c), d.items)
  <2>1. Seen(d) = d
    BY <1>3, SeenFacts
  <2>2. Taken(Seen(c), d.items) = [c EXCEPT !.at = "done", !.items = d.items]
    BY <1>1 DEF Caller, Taken
  <2>3. d = [c EXCEPT !.at = "done", !.items = d.items]
    BY <1>3 DEF Caller, Same
  <2> QED
    BY <2>1, <2>2, <2>3
<1>4. ASSUME d.at # "done"
      PROVE  Seen(d) = Seen(c)
  <2>1. Seen(d) = [d EXCEPT !.at = "called", !.items = Empty]
    BY <1>4, SeenFacts
  <2>2. [d EXCEPT !.at = "called", !.items = Empty]
          = [c EXCEPT !.at = "called", !.items = Empty]
    BY DEF Caller, Same
  <2> QED
    BY <1>1, <2>1, <2>2
<1> QED
  BY <1>2, <1>3, <1>4

\* The call of t is seen to take effect with the items i.
Takes(t, i) ==
    /\ SeenCall[t].at = "called" /\ Same(call[t], SeenCall[t])
    /\ SeenCall' = [SeenCall EXCEPT ![t] = Taken(SeenCall[t], i)]

\* A step of t inside its call is seen to take effect, or not seen.
LEMMA InsideSeen ==
  ASSUME TypeOK, TypeOK', NEW t \in Thread, Moves(t), call[t].at # "done",
         Same(call[t], call'[t])
  PROVE  /\ call'[t].at = "done" => Takes(t, call'[t].items)
         /\ call'[t].at # "done" => UNCHANGED SeenCall
<1> DEFINE c == call[t]
           d == call'[t]
<1>1. c \in Caller /\ c.at \in Inside \ {"done"} /\ d \in Caller /\ d.at \in Inside
      /\ Same(c, d)
  BY DEF TypeOK, Caller, Moves
<1>2. SeenCall' = [x \in Thread |-> Seen(call'[x])]
  BY DEF SeenCall
<1>3. \A x \in Thread : x # t => call'[x] = call[x]
  BY DEF Moves
<1>4. \A x \in Thread : x # t => Seen(call'[x]) = Seen(call[x])
  BY <1>3, Zenon
<1>5. SeenCall[t] = Seen(c)
  BY DEF SeenCall
<1> HIDE DEF c, d
<1>6. /\ Seen(c).at = "called" /\ Same(c, Seen(c))
      /\ d.at = "done" => Seen(d) = Taken(Seen(c), d.items)
      /\ d.at # "done" => Seen(d) = Seen(c)
  BY <1>1, SeenCalled
<1>7. SeenCall' = [x \in Thread |-> IF x = t THEN Seen(d) ELSE SeenCall[x]]
  BY <1>2, <1>4 DEF SeenCall, d
<1>8. ASSUME d.at = "done"
      PROVE  Takes(t, d.items)
  <2>1. SeenCall' = [x \in Thread |-> IF x = t THEN Taken(SeenCall[t], d.items) ELSE SeenCall[x]]
    BY <1>5, <1>6, <1>7, <1>8
  <2>2. SeenCall' = [SeenCall EXCEPT ![t] = Taken(SeenCall[t], d.items)]
    BY <2>1 DEF SeenCall
  <2> QED
    BY <1>5, <1>6, <2>2 DEF Takes, c
<1>9. ASSUME d.at # "done"
      PROVE  UNCHANGED SeenCall
  <2>1. SeenCall' = [x \in Thread |-> IF x = t THEN SeenCall[t] ELSE SeenCall[x]]
    BY <1>5, <1>6, <1>7, <1>9
  <2> QED
    BY <2>1 DEF SeenCall
<1> QED
  BY <1>8, <1>9 DEF d

\* The abstract variables stand still.
LEMMA Unseen ==
  ASSUME UNCHANGED SeenCall, Content' = Content, Archive' = Archive
  PROVE  UNCHANGED AbstractStore!vars
  BY DEF AbstractStore!vars, SeenCall

LEMMA SeenPerform ==
  ASSUME NEW t \in Thread, Takes(t, After(call[t], Content)), Accepts(call[t], Content),
         call[t].op # "restore", Content' = After(call[t], Content), Archive' = Archive
  PROVE  AbstractStore!Perform(t)
<1>1. Accepts(SeenCall[t], Content)
      /\ After(SeenCall[t], Content) = After(call[t], Content)
      /\ SeenCall[t].op # "restore"
  BY DEF Takes, Same, Accepts, After
<1>2. AbstractStore!Take(t, After(call[t], Content))
  BY DEF AbstractStore!Take, Takes, Taken, SeenCall
<1> QED
  BY <1>1, <1>2, SameData DEF AbstractStore!Perform, SeenCall

LEMMA SeenRecover ==
  ASSUME NEW t \in Thread, NEW i \in Archive, Takes(t, i), call[t].op = "restore",
         Content = Empty, Content' = i, Archive' = Archive
  PROVE  AbstractStore!Recover(t)
<1>1. SeenCall[t].op = "restore"
  BY DEF Takes, Same
<1>2. AbstractStore!Take(t, i)
  BY DEF AbstractStore!Take, Takes, Taken, SeenCall
<1> QED
  BY <1>1, <1>2, SameData DEF AbstractStore!Recover, SeenCall

\* What a thread does with its call inside the locks.
LEMMA InsideRefines ==
  ASSUME IInv, IInv', NEW t \in Thread, InLock(t) \/ Raise(t)
  PROVE  UNCHANGED AbstractStore!vars \/ AbstractStore!Next
<1> USE DEF IInv
<1>1. Moves(t) /\ Same(call[t], call'[t])
  BY InLockMoves, SameCall
<1>2. call[t].at # "done"
  BY DEF InLock, Load, LoadDamaged, Repair, Save, ReadKept, RefuseRestore, MoveAside,
    Raise, At, Saving
<1>3. /\ call'[t].at = "done" => Takes(t, call'[t].items)
      /\ call'[t].at # "done" => UNCHANGED SeenCall
  BY <1>1, <1>2, InsideSeen
<1>4. call[t] \in Caller
  BY DEF TypeOK, Caller
<1>5. CASE Load(t) \/ Repair(t)
  <2>1. call'[t] = Loaded(call[t], Content) /\ call[t].op # "restore"
        /\ Content' = Content /\ Archive' = Archive
    <3>1. CASE Load(t)
      BY <3>1 DEF Load, TypeOK, Content, Archive
    <3>2. CASE Repair(t)
      <4>1. file = Absent /\ file' = Good(Empty) /\ kept' = kept
        BY <3>2 DEF Repair, Ready
      <4>2. Content = Empty /\ Content' = Empty /\ Archive' = Archive
        BY <4>1 DEF Absent, Good, Content, Archive
      <4> QED
        BY <3>2, <4>2 DEF Repair, TypeOK, Ready
    <3> QED
      BY <1>5, <3>1, <3>2
  <2>2. CASE call[t].op \in Reads
    <3>1. call'[t].at = "done" /\ call'[t].items = Content
      BY <1>4, <2>1, <2>2 DEF Loaded, Caller
    <3>2. Accepts(call[t], Content) /\ After(call[t], Content) = Content
      BY <2>2 DEF Reads, Accepts, After
    <3> QED
      BY <1>3, <2>1, <3>1, <3>2, SeenPerform DEF AbstractStore!Next
  <2>3. CASE call[t].op \notin Reads
    <3>1. call'[t].at # "done"
      BY <1>4, <2>1, <2>3 DEF Loaded, Caller
    <3> QED
      BY <1>3, <2>1, <3>1, Unseen
  <2> QED
    BY <2>2, <2>3
<1>6. CASE LoadDamaged(t)
  <2>1. call'[t].at # "done"
    BY <1>6 DEF LoadDamaged, Quarantine, Goto, TypeOK
  <2>2. Archive' = Archive \cup {file.items}
    BY <1>6, QuarantineKeeps DEF LoadDamaged
  <2>3. Archive' = Archive /\ Content' = Content
    BY <1>6, <2>2 DEF LoadDamaged, Quarantine, Archive, Content, Absent
  <2> QED
    BY <1>3, <2>1, <2>3, Unseen
<1>7. CASE MoveAside(t)
  <2>1. call'[t].at # "done"
    BY <1>7 DEF MoveAside, Quarantine, Goto, TypeOK
  <2>2. Archive' = Archive \cup {file.items} /\ Content' = Empty
    BY <1>7, QuarantineKeeps DEF MoveAside, Quarantine, Content, Absent
  <2>3. CASE file.state = "good"
    <3>1. Archive' = Archive \cup {Content}
      BY <2>2, <2>3 DEF Content
    <3> QED
      BY <1>3, <2>1, <2>2, <3>1, SameData
        DEF AbstractStore!Next, AbstractStore!SetAside, SeenCall
  <2>4. CASE file.state = "damaged"
    <3>1. Archive' = Archive /\ Content' = Content
      BY <2>2, <2>4 DEF Archive, Content
    <3> QED
      BY <1>3, <2>1, <3>1, Unseen
  <2>5. CASE file.state = "absent"
    <3>1. file.items = Empty /\ Content = Empty
      BY <2>5 DEF TypeOK, Absent, Content
    <3>2. Archive' = Archive \cup {Content}
      BY <2>2, <3>1
    <3> QED
      BY <1>3, <2>1, <2>2, <3>2, SameData
        DEF AbstractStore!Next, AbstractStore!SetAside, SeenCall
  <2> QED
    BY <2>3, <2>4, <2>5 DEF TypeOK, File
<1>8. CASE Save(t)
  <2>1. call'[t].at = "done" /\ call'[t].items = call[t].items /\ Content' = call[t].items
    BY <1>8 DEF Save, Goto, TypeOK, Good, Content
  <2>2. CASE call[t].op # "restore"
    <3>1. Accepts(call[t], Content) /\ call[t].items = After(call[t], Content)
      BY <1>8, <2>2 DEF Save, LoadedIsCurrent
    <3>2. Archive' = Archive
      <4>1. file.state # "damaged"
        BY <1>8 DEF Save, Ready
      <4> QED
        BY <1>8, <4>1 DEF Save, Good, Archive
    <3> QED
      BY <1>3, <2>1, <2>2, <3>1, <3>2, SeenPerform DEF AbstractStore!Next
  <2>3. CASE call[t].op = "restore"
    <3>1. file = Absent /\ call[t].items \in Archive
      BY <1>8, <2>3 DEF Save, Ready
    <3>2. Content = Empty /\ Archive' = Archive
      BY <1>8, <3>1 DEF Save, Good, Absent, Content, Archive
    <3> QED
      BY <1>3, <2>1, <2>3, <3>1, <3>2, SeenRecover DEF AbstractStore!Next
  <2> QED
    BY <2>2, <2>3
<1>9. CASE ReadKept(t) \/ RefuseRestore(t) \/ Raise(t)
  <2>1. call'[t].at # "done"
    BY <1>9 DEF ReadKept, RefuseRestore, Raise, Goto, TypeOK
  <2>2. Archive' = Archive /\ Content' = Content
    BY <1>9 DEF ReadKept, RefuseRestore, Raise, Archive, Content
  <2> QED
    BY <1>3, <2>1, <2>2, Unseen
<1> QED
  BY <1>5, <1>6, <1>7, <1>8, <1>9 DEF InLock

LEMMA StepRefines == IInv /\ IInv' /\ [Next]_vars => [AbstractStore!Next]_(AbstractStore!vars)
<1> SUFFICES ASSUME IInv, IInv', [Next]_vars
             PROVE  UNCHANGED AbstractStore!vars \/ AbstractStore!Next
  OBVIOUS
<1>1. ASSUME \A x \in Thread : Seen(call'[x]) = Seen(call[x])
      PROVE  UNCHANGED SeenCall
  BY <1>1 DEF SeenCall
<1>2. ASSUME NEW t \in Thread, InLock(t) \/ Raise(t)
      PROVE  UNCHANGED AbstractStore!vars \/ AbstractStore!Next
  BY <1>2, InsideRefines
<1>3. ASSUME NEW t \in Thread, Lock(t) \/ Unlock(t)
      PROVE  UNCHANGED AbstractStore!vars
  <2>1. /\ call[t].at \notin Inside /\ call'[t].at \notin Inside
        /\ \A x \in Thread : x # t => call'[x] = call[x]
        /\ UNCHANGED <<file, kept>>
    BY <1>3 DEF Lock, Unlock, Goto, At, IInv, TypeOK, Inside, Saving
  <2>2. Seen(call[t]) = Idle /\ Seen(call'[t]) = Idle
    BY <2>1, SeenFacts
  <2>3. \A x \in Thread : x # t => Seen(call'[x]) = Seen(call[x])
    BY <2>1, Zenon
  <2>4. UNCHANGED SeenCall
    BY <1>1, <2>2, <2>3
  <2> QED
    BY <2>1, <2>4, Unseen DEF Content, Archive
<1>4. ASSUME NEW t \in Thread, FileLock(t)
      PROVE  AbstractStore!Next
  <2>1. PICK c \in Call : call' = [call EXCEPT ![t] = [Invoked(c) EXCEPT !.at = "load"]]
    BY <1>4 DEF FileLock
  <2>2. Seen(call[t]) = Idle
    BY <1>4, SeenFacts DEF FileLock, At, Inside, Saving
  <2> DEFINE l == [Invoked(c) EXCEPT !.at = "load"]
  <2>3. Seen(l) = Invoked(c)
    <3>1. l.at = "load" /\ "load" \in Inside /\ "load" # "done"
      BY DEF Invoked, Inside, Saving
    <3>2. Seen(l) = [l EXCEPT !.at = "called", !.items = Empty]
      BY <3>1, SeenFacts
    <3> QED
      BY <3>2 DEF Invoked
  <2>4. call'[t] = l /\ \A x \in Thread : x # t => call'[x] = call[x]
    BY <2>1 DEF IInv, TypeOK
  <2> HIDE DEF l
  <2>5. Seen(call'[t]) = Invoked(c)
    BY <2>3, <2>4
  <2>6. \A x \in Thread : x # t => Seen(call'[x]) = Seen(call[x])
    BY <2>4, Zenon
  <2>7. SeenCall' = [SeenCall EXCEPT ![t] = Invoked(c)]
    BY <2>5, <2>6 DEF SeenCall
  <2>8. SeenCall[t] = Idle
    BY <2>2 DEF SeenCall
  <2>9. Content' = Content /\ Archive' = Archive
    BY <1>4 DEF FileLock, Content, Archive
  <2>10. AbstractStore!Invoke(t)
    BY <2>7, <2>8, <2>9, SameData DEF AbstractStore!Invoke, SeenCall
  <2> QED
    BY <2>10 DEF AbstractStore!Next
<1>5. ASSUME NEW T \in SUBSET Thread,
             \A x \in T : call'[x].at \notin Inside,
             \A x \in Thread \ T : call'[x] = call[x],
             UNCHANGED <<file, kept>>
      PROVE  AbstractStore!Next
  <2>1. \A x \in T : Seen(call'[x]) = Idle
    BY <1>5, SeenFacts
  <2>2. \A x \in Thread : x \notin T => Seen(call'[x]) = Seen(call[x])
    BY <1>5, Zenon
  <2>3. SeenCall' = [x \in Thread |-> IF x \in T THEN Idle ELSE SeenCall[x]]
    BY <2>1, <2>2 DEF SeenCall
  <2>4. Content' = Content /\ Archive' = Archive
    BY <1>5 DEF Content, Archive
  <2>5. AbstractStore!Return
    BY <2>3, <2>4, SameData DEF AbstractStore!Return, SeenCall
  <2> QED
    BY <2>5 DEF AbstractStore!Next
<1>6. ASSUME NEW t \in Thread, FileUnlock(t)
      PROVE  AbstractStore!Next
  <2>1. /\ call'[t].at \notin Inside
        /\ \A x \in Thread \ {t} : call'[x] = call[x]
        /\ UNCHANGED <<file, kept>>
    BY <1>6 DEF FileUnlock, Idle, IInv, TypeOK, Inside, Saving
  <2>2. {t} \in SUBSET Thread /\ \A x \in {t} : call'[x].at \notin Inside
    BY <2>1
  <2> QED
    BY <1>5, <2>1, <2>2
<1>7. ASSUME NEW p \in Process, Crash(p)
      PROVE  AbstractStore!Next
  <2> DEFINE T == {x \in Thread : Home[x] = p}
  <2>1. /\ \A x \in T : call'[x].at \notin Inside
        /\ \A x \in Thread \ T : call'[x] = call[x]
        /\ UNCHANGED <<file, kept>>
    BY <1>7 DEF Crash, Idle, Inside, Saving
  <2>2. T \in SUBSET Thread
    OBVIOUS
  <2> HIDE DEF T
  <2> QED
    BY <1>5, <2>1, <2>2
<1>8. CASE Damage
  <2>1. Content' = Empty /\ Archive' = Archive \cup {Content} /\ UNCHANGED call
    BY <1>8 DEF Damage, Content, Archive, IInv, TypeOK, File
  <2>2. UNCHANGED SeenCall
    BY <2>1 DEF SeenCall
  <2>3. AbstractStore!SetAside
    BY <2>1, <2>2, SameData DEF AbstractStore!SetAside, SeenCall
  <2> QED
    BY <2>3 DEF AbstractStore!Next
<1>9. CASE Mend
  <2>1. Archive' = Archive
    BY <1>9, MendKeeps DEF IInv
  <2>2. Content' = Content /\ UNCHANGED SeenCall
    BY <1>9 DEF Mend, Content, SeenCall
  <2> QED
    BY <2>1, <2>2, Unseen
<1>10. CASE UNCHANGED vars
  <2>1. Archive' = Archive /\ Content' = Content /\ UNCHANGED SeenCall
    BY <1>10 DEF vars, Content, Archive, SeenCall
  <2> QED
    BY <2>1, Unseen
<1> QED
  BY <1>2, <1>3, <1>4, <1>6, <1>7, <1>8, <1>9, <1>10 DEF Next, Step

\* Every call of every thread is atomic, and nothing set aside is destroyed:
\* JsonStore implements Collection.
THEOREM StoreRefinement == Spec => ImplementsCollection
<1>1. Init => AbstractStore!Init
  <2> SUFFICES ASSUME Init PROVE AbstractStore!Init
    OBVIOUS
  <2>1. Content = Empty /\ Archive = {}
    BY DEF Init, Absent, Content, Archive
  <2>2. \A t \in Thread : Seen(call[t]) = Idle
    <3>1. \A t \in Thread : call[t].at \notin Inside
      BY DEF Init, Idle, Inside, Saving
    <3> QED
      BY <3>1, SeenFacts
  <2> QED
    BY <2>1, <2>2, SameData DEF AbstractStore!Init
<1> QED
  BY <1>1, StoreInvariant, StepRefines, PTL DEF Spec, ImplementsCollection, AbstractStore!Spec
=============================================================================
