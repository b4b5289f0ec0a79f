--------------------------- MODULE OneTimeImport ---------------------------
(***************************************************************************)
(* What the NeDB migration promises: the documents of the old store are    *)
(* taken over once, all of them together and before the user can touch     *)
(* anything; from then on only the user changes the data.                  *)
(***************************************************************************)
EXTENDS NedbStore

VARIABLES
    data,      \* the new store
    source,    \* the documents of the old store
    imported,  \* whether they were taken over
    open       \* whether the app is up for the user

vars == <<data, source, imported, open>>

NoSource == [server |-> None, proxies |-> EmptyTable, versions |-> EmptyTable]

Init ==
    /\ data = EmptyStore
    /\ imported = FALSE
    /\ open = FALSE

Import ==
    /\ ~open /\ ~imported
    /\ data' = Merge(source, data)
    /\ imported' = TRUE
    /\ UNCHANGED <<source, open>>

\* There is nothing left to take over: the app opens.
Open ==
    /\ ~open
    /\ imported \/ source = NoSource
    /\ open' = TRUE
    /\ UNCHANGED <<data, source, imported>>

Edit ==
    /\ open
    /\ data' \in Store
    /\ UNCHANGED <<source, imported, open>>

Close ==
    /\ open' = FALSE
    /\ UNCHANGED <<data, source, imported>>

\* The old app writes its store, or the store is archived: never while the
\* new app is open.
OldStoreChanges ==
    /\ ~open
    /\ UNCHANGED <<data, imported, open>>

Next == Import \/ Open \/ Edit \/ Close \/ OldStoreChanges

Spec == Init /\ [][Next]_vars
=============================================================================
