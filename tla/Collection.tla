----------------------------- MODULE Collection -----------------------------
(***************************************************************************)
(* What a JSON collection promises its callers, whatever processes and     *)
(* threads they run in: every call takes effect at once, on the items the  *)
(* call before it left, or not at all; and items that are set aside, since  *)
(* they could not be read or in order to restore others, are not destroyed. *)
(* JsonStore implements it.                                                *)
(***************************************************************************)
EXTENDS CollectionData

CONSTANT Thread

VARIABLES
    items,      \* the items a list would return
    archive,    \* contents that were set aside
    call        \* call[t]: the call of thread t, how far it is, what it read or saved

vars == <<items, archive, call>>

Init ==
    /\ items = Empty
    /\ archive = {}
    /\ call = [t \in Thread |-> Idle]

Invoke(t) ==
    /\ call[t] = Idle
    /\ \E c \in Call : call' = [call EXCEPT ![t] = Invoked(c)]
    /\ UNCHANGED <<items, archive>>

\* The call of t takes effect, and saves or returns i.
Take(t, i) ==
    /\ call[t].at = "called"
    /\ call' = [call EXCEPT ![t].at = "done", ![t].items = i]
    /\ items' = i
    /\ UNCHANGED archive

Perform(t) ==
    /\ call[t].op # "restore"
    /\ Accepts(call[t], items)
    /\ Take(t, After(call[t], items))

\* A restore puts back contents that were set aside; what it replaces was
\* set aside before.
Recover(t) ==
    /\ call[t].op = "restore"
    /\ items = Empty
    /\ \E i \in archive : Take(t, i)

\* Calls end: one with its answer or in an error without any effect, or all
\* those of a process that dies.
Return ==
    /\ \E T \in SUBSET Thread :
        call' = [t \in Thread |-> IF t \in T THEN Idle ELSE call[t]]
    /\ UNCHANGED <<items, archive>>

\* The file was damaged, or a restore moves it aside.
SetAside ==
    /\ items' = Empty
    /\ archive' = archive \cup {items}
    /\ UNCHANGED call

Next ==
    \/ \E t \in Thread : Invoke(t) \/ Perform(t) \/ Recover(t)
    \/ Return \/ SetAside

Spec == Init /\ [][Next]_vars
=============================================================================
