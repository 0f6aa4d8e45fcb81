---------------------------- MODULE OrderedStore ----------------------------
(***************************************************************************)
(* What the pipeline promises its callers, without slots, queues, polls or *)
(* completion order: operations are accepted in ticket order, each gets at *)
(* most one completion, writes are published as a prefix of acceptance     *)
(* order, a flush succeeds only after every earlier write did, and a read  *)
(* returns the version published when it was accepted.                     *)
(***************************************************************************)
EXTENDS Index

CONSTANTS Keys, Frames

VARIABLES
    ops,    \* every accepted operation, by ticket: [op, entries, result]
    view    \* the published index

storeVars == <<ops, view>>

Reads == {"read", "verified", "empty"}
WritesIn(o) == {t \in DOMAIN o : o[t].op = "write"}
Failed(o) == \E t \in DOMAIN o : o[t].op \in {"write", "flush"} /\ o[t].result = "err"
Dead(o) == \E t \in DOMAIN o : o[t].result = "failed"
FlushPending(o) == \E t \in DOMAIN o : o[t].op = "flush" /\ o[t].result = "pending"
EarlierWrites(o, t, results) == \A u \in WritesIn(o) : u < t => o[u].result \in results

StoreInit == ops = <<>> /\ view = <<>>

Accept(op, entries) == ops' = Append(ops, [op |-> op, entries |-> entries, result |-> "pending"])
Complete(t, result) == ops' = [ops EXCEPT ![t].result = result]
Owed(t, kinds) == t \in DOMAIN ops /\ ops[t].op \in kinds /\ ops[t].result = "pending"

\* Recovered frames enter the view before the first data operation.
Recover(entries) ==
    /\ \A t \in DOMAIN ops : ops[t].op = "lifecycle"
    /\ view' = Apply(view, entries)
    /\ UNCHANGED ops

\* Once a write or flush has been reported failed, no more are accepted.
AcceptWrite(entries) ==
    /\ ~Dead(ops) /\ ~Failed(ops) /\ ~FlushPending(ops)
    /\ Accept("write", entries)
    /\ UNCHANGED view

AcceptFlush ==
    /\ ~Dead(ops) /\ ~Failed(ops) /\ ~FlushPending(ops)
    /\ Accept("flush", <<>>)
    /\ UNCHANGED view

AcceptRead(op, k) ==
    /\ ~Dead(ops)
    /\ Located(view, k)
    /\ Accept(op, <<view[k]>>)
    /\ UNCHANGED view

AcceptLifecycle == Accept("lifecycle", <<>>) /\ UNCHANGED view

Publish(t) ==
    /\ ~Dead(ops)
    /\ Owed(t, {"write"}) /\ EarlierWrites(ops, t, {"ok"})
    /\ Complete(t, "ok")
    /\ view' = Apply(view, ops[t].entries)

FailWrite(t) ==
    /\ ~Dead(ops)
    /\ Owed(t, {"write"}) /\ EarlierWrites(ops, t, {"ok", "err"})
    /\ Complete(t, "err")
    /\ UNCHANGED view

FinishFlush(t) ==
    /\ ~Dead(ops)
    /\ Owed(t, {"flush"})
    /\ \/ EarlierWrites(ops, t, {"ok"}) /\ Complete(t, "ok")
       \/ EarlierWrites(ops, t, {"ok", "err"}) /\ Complete(t, "err")
    /\ UNCHANGED view

FinishRead(t) ==
    /\ ~Dead(ops)
    /\ Owed(t, Reads)
    /\ Complete(t, "ok") \/ Complete(t, "err")
    /\ UNCHANGED view

\* A queue failure: what is still pending fails, in any order, and nothing else happens.
Abandon(t) ==
    /\ Owed(t, Reads \cup {"write", "flush"})
    /\ Complete(t, "failed")
    /\ UNCHANGED view

StoreNext ==
    \/ \E entries \in Frames : Recover(entries) \/ AcceptWrite(entries)
    \/ AcceptFlush \/ AcceptLifecycle
    \/ \E op \in Reads, k \in Keys : AcceptRead(op, k)
    \/ \E t \in DOMAIN ops :
         Publish(t) \/ FailWrite(t) \/ FinishFlush(t) \/ FinishRead(t) \/ Abandon(t)

StoreSpec == StoreInit /\ [][StoreNext]_storeVars
=============================================================================
