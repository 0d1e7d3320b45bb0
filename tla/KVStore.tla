-------------------------------- MODULE KVStore --------------------------------
(***************************************************************************)
(* What the DB interface of src/db/database.go promises its one client at  *)
(* a time, without logs, snapshots, shards or fusion: a write takes effect *)
(* at one moment between its call and its return; a restart changes        *)
(* nothing that was ever in effect; and a client whose call was cut off by *)
(* a crash or answered with an error finds the old value or the new one.   *)
(***************************************************************************)
CONSTANTS
    Keys, Values,
    Absent        \* the value of a key that is not in the store, not in Values

VARIABLES
    store,  \* what a restart would find
    call,   \* the write being executed, if any
    acked,  \* what the client was last told about each key
    maybe   \* maybe[k]: values that unanswered writes of k may have left

vars == <<store, call, acked, maybe>>

Contents == Values \cup {Absent}

NoCall == [active |-> FALSE, done |-> FALSE, key |-> Absent, value |-> Absent]
Call(k, v, done) == [active |-> TRUE, done |-> done, key |-> k, value |-> v]

TypeOK ==
    /\ store \in [Keys -> Contents]
    /\ acked \in [Keys -> Contents]
    /\ maybe \in [Keys -> SUBSET Contents]
    /\ call \in [active : BOOLEAN, done : BOOLEAN, key : Keys \cup {Absent},
                value : Contents]
    /\ call.active => call.key \in Keys

Init ==
    /\ store = [k \in Keys |-> Absent]
    /\ acked = store
    /\ maybe = [k \in Keys |-> {}]
    /\ call = NoCall

-----------------------------------------------------------------------------
\* A Put of v, or a Delete when v is Absent, is called.
Invoke(k, v) ==
    /\ ~call.active
    /\ call' = Call(k, v, FALSE)
    /\ UNCHANGED <<store, acked, maybe>>

Commit ==
    /\ call.active /\ ~call.done
    /\ store' = [store EXCEPT ![call.key] = call.value]
    /\ call' = Call(call.key, call.value, TRUE)
    /\ UNCHANGED <<acked, maybe>>

Return ==
    /\ call.active /\ call.done
    /\ acked' = [acked EXCEPT ![call.key] = call.value]
    /\ maybe' = [maybe EXCEPT ![call.key] = {}]
    /\ call' = NoCall
    /\ UNCHANGED store

\* An error, or a crash: the write may have been committed or not.
Abort ==
    /\ call.active
    /\ maybe' = [maybe EXCEPT ![call.key] = @ \cup {call.value}]
    /\ call' = NoCall
    /\ UNCHANGED <<store, acked>>

\* A Delete of a key that is not there returns at once.
DeleteAbsent(k) ==
    /\ ~call.active
    /\ store[k] = Absent
    /\ acked' = [acked EXCEPT ![k] = Absent]
    /\ maybe' = [maybe EXCEPT ![k] = {}]
    /\ UNCHANGED <<store, call>>

\* After a restart the client reads the store again.
Restart ==
    /\ ~call.active
    /\ acked' = store
    /\ maybe' = [k \in Keys |-> {}]
    /\ UNCHANGED <<store, call>>

Next ==
    \/ \E k \in Keys, v \in Contents : Invoke(k, v)
    \/ Commit
    \/ Return
    \/ Abort
    \/ \E k \in Keys : DeleteAbsent(k)
    \/ Restart

Spec == Init /\ [][Next]_vars

-----------------------------------------------------------------------------
\* The values a client must be ready to find after a restart.
Possible(k) ==
    {acked[k]} \cup maybe[k]
        \cup (IF call.active /\ call.key = k THEN {call.value} ELSE {})

\* A restart finds for every key the last acknowledged value, or one that an
\* unanswered write since then asked for.
Durable == \A k \in Keys : store[k] \in Possible(k)
=============================================================================
