----------------------------- MODULE NedbStore -----------------------------
(***************************************************************************)
(* What the stores of the desktop app hold, the NeDB files of its Electron *)
(* version as well as the SQLite database, and what importing the one into *)
(* the other makes of it.  A document is abstracted to its id and a value; *)
(* for a version the value is the GitHub release id.                       *)
(***************************************************************************)
CONSTANTS
    Ids,      \* ids of proxies and versions
    Vals,     \* what a document can hold
    Default,  \* the default values
    None      \* there is no such document, row or key

Value == Vals \cup {Default, None}

Table == [Ids -> Value]

\* The one server, the desktop settings, the proxies and the frpc versions.
Store == [server : Value, desktop : Value, proxies : Table, versions : Table]

EmptyTable == [i \in Ids |-> None]
EmptyStore == [server |-> None, desktop |-> None,
               proxies |-> EmptyTable, versions |-> EmptyTable]

\* The documents of a table replace or join the rows of another.
Over(docs, table) == [i \in Ids |-> IF docs[i] # None THEN docs[i] ELSE table[i]]

OrDefault(v) == IF v # None THEN v ELSE Default

\* The documents of an old store put over the rows of the new one.  The desktop
\* settings are part of the server document and fall back to the defaults;
\* proxies without a server get the default one.
Merge(old, rows) ==
    [server   |-> IF old.server # None \/ old.proxies # EmptyTable
                  THEN OrDefault(old.server) ELSE rows.server,
     desktop  |-> OrDefault(old.server),
     proxies  |-> Over(old.proxies, rows.proxies),
     versions |-> Over(old.versions, rows.versions)]
=============================================================================
