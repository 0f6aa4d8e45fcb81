------------------------------- MODULE Index -------------------------------
(***************************************************************************)
(* The in-memory index (moat-engine, pipeline/index.rs): a function from   *)
(* the keys ever published to their newest entry, tombstones included.     *)
(***************************************************************************)
EXTENDS Integers, Sequences

KeysOf(entries) == {entries[i].key : i \in DOMAIN entries}
EntriesOf(entries) == {entries[i] : i \in DOMAIN entries}

\* The position of the entry of key k that survives: the greatest LSN, the first of equals.
Newest(entries, k) ==
    CHOOSE i \in DOMAIN entries :
        /\ entries[i].key = k
        /\ \A j \in DOMAIN entries :
              entries[j].key = k => \/ entries[j].lsn < entries[i].lsn
                                    \/ entries[j].lsn = entries[i].lsn /\ i <= j

ApplyKeepingEqual(ix, entries) ==   \* mutant: the LSN comparison is dropped
    [k \in DOMAIN ix \cup KeysOf(entries) |->
        IF k \in KeysOf(entries) THEN entries[Newest(entries, k)] ELSE ix[k]]

\* An entry replaces the indexed one only if its LSN is strictly greater.
Apply(ix, entries) ==
    [k \in DOMAIN ix \cup KeysOf(entries) |->
        IF k \in KeysOf(entries)
           /\ (k \in DOMAIN ix => entries[Newest(entries, k)].lsn > ix[k].lsn)
        THEN entries[Newest(entries, k)]
        ELSE ix[k]]

\* A key is readable when its newest entry is data, not a tombstone.
Located(ix, k) == k \in DOMAIN ix /\ ix[k].kind = "data"
=============================================================================
