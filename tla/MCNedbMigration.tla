-------------------------- MODULE MCNedbMigration --------------------------
(* An instance of NedbMigration for TLC: one value, two ids. *)
EXTENDS NedbMigration

CONSTANTS x1, x2, a

\* Logs of a session of the old app: a snapshot of at most two documents and at
\* most one change.
Put(i, v) == [op |-> "put", id |-> i, val |-> v]
Del(i) == [op |-> "del", id |-> i, val |-> a]
Skipped == [op |-> "skip", id |-> x1, val |-> a]

SessionLogs ==
    [server  |-> {<< >>, <<Put(x1, a)>>, <<Put(x1, Invalid)>>,
                  <<Put(x1, a), Put(x1, a)>>},
     proxy   |-> {<<Skipped>>, <<Put(x1, a)>>, <<Put(x1, a), Put(x2, a)>>,
                  <<Put(x2, a), Put(x2, a)>>, <<Put(x1, a), Del(x1)>>},
     version |-> {<< >>, <<Put(x1, a)>>, <<Put(x2, a)>>,
                  <<Put(x1, a), Del(x1)>>, <<Put(x1, a), Del(x1), Put(x2, a)>>}]
=============================================================================
