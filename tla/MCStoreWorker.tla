--------------------------- MODULE MCStoreWorker ---------------------------
(* Bounds for model checking StoreWorker. *)
EXTENDS StoreWorker

CONSTANTS k1, k2

Cmd(op, k, arg) == [op |-> op, key |-> k, arg |-> arg]
Fence(op) == Cmd(op, NoKey, 0)

\* k1 holds a record after recovery, k2 does not.
OneLive == [k \in Keys |-> IF k = k1 THEN 1 ELSE 0]

\* Every kind of command: on k1 reads of two ranges, a put and a delete of the recovered version.
AllCommands == {Cmd("read", k1, 0), Cmd("read", k1, 1), Cmd("put", k1, 0), Cmd("delete", k1, 1),
                Cmd("put", k2, 0), Fence("flush"), Fence("inventory"), Fence("close")}

\* A read, a put that waits behind it, and a fence that waits for both.
LiveCommands == {Cmd("read", k1, 0), Cmd("put", k1, 0), Fence("flush"), Fence("close")}

\* A read and a put of one key.
StallCommands == {Cmd("read", k1, 0), Cmd("put", k1, 0)}
=============================================================================
