--------------------------- MODULE CollectionData ---------------------------
(***************************************************************************)
(* The items of one JSON collection and what the operations of             *)
(* JsonCollection (storage.py) make of them.  The order of the items in the *)
(* file is left out: a collection is a function of its keys.               *)
(***************************************************************************)
CONSTANTS
    Key,        \* the keys items are stored under
    Value,      \* what an item holds besides its key
    None,       \* no item, no key, no holder of a lock
    Revise,     \* what the updater of an update call makes of a value
    Rewrite     \* what the mutator of a transact call makes of all items

Items == [Key -> Value \cup {None}]
Empty == [k \in Key |-> None]

ASSUME DataAssumption ==
    /\ None \notin Value
    /\ Revise \in [Value -> Value]
    /\ Rewrite \in [Items -> Items]

Reads == {"list"}
Changes == {"upsert", "update", "transact"}
Operation == Reads \cup Changes \cup {"restore"}
Call ==
    [op: {"list", "transact", "restore"}, key: {None}, value: {None}]
    \cup [op: {"update"}, key: Key, value: {None}]
    \cup [op: {"upsert"}, key: Key, value: Value]

\* The state of a caller: between calls, or somewhere in one.
Idle == [at |-> "idle", op |-> "list", key |-> None, value |-> None, items |-> Empty]
Invoked(c) ==
    [at |-> "called", op |-> c.op, key |-> c.key, value |-> c.value, items |-> Empty]

\* update raises KeyError when there is no such item; nothing is saved then.
Accepts(call, items) == call.op = "update" => items[call.key] # None

\* What a list returns, or what a mutating call saves.
After(call, items) ==
    CASE call.op = "upsert"   -> [items EXCEPT ![call.key] = call.value]
      [] call.op = "update"   -> [items EXCEPT ![call.key] = Revise[items[call.key]]]
      [] call.op = "transact" -> Rewrite[items]
      [] OTHER                -> items
=============================================================================
