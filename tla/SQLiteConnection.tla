-------------------------- MODULE SQLiteConnection --------------------------
(***************************************************************************)
(* database/sqlite/connection.cpp over one SQLite database file.           *)
(*                                                                         *)
(* SQLite and SQLiteCpp are not part of the repository.  Of SQLite the     *)
(* module keeps what the code depends on: a handle in a transaction takes  *)
(* a SHARED lock when it reads and the RESERVED lock when it writes, a     *)
(* second writer and a commit over somebody else's SHARED lock are BUSY,   *)
(* and closing a handle rolls its transaction back.  Of SQLiteCpp: a       *)
(* Transaction object begins when built, rolls back when destroyed unless  *)
(* it has ended, and refuses to end twice.                                 *)
(*                                                                         *)
(* The file is a set of rows.  Each operation of a Connection is given by  *)
(* an action for its success and one for its error; the modules that       *)
(* extend this one compose them with what the caller does with the result. *)
(***************************************************************************)
EXTENDS Naturals, FiniteSets

CONSTANTS
    Conns,     \* SQLiteConnection objects
    Handles,   \* SQLite handles that may be open at one time (a bound)
    Other,     \* a handle of another process that reads the file
    None

ASSUME SQLiteConnectionAssumption ==
    /\ Other \notin Handles
    /\ None \notin Handles \cup {Other}

VARIABLES
    file,         \* committed rows
    work,         \* rows as the holder of the RESERVED lock sees them
    shared,       \* handles with a SHARED lock
    reserved,     \* the handle with the RESERVED lock, or None
    handle,       \* closed, open (autocommit) or begun (in a transaction)
    database,     \* SQLiteConnection::database_, a handle or None
    transaction   \* SQLiteConnection::transaction_: none, live or ended

sqliteVars == <<file, work, shared, reserved, handle, database, transaction>>

SQLiteInit ==
    /\ file = {}
    /\ work = {}
    /\ shared = {}
    /\ reserved = None
    /\ handle = [h \in Handles |-> "closed"]
    /\ database = [c \in Conns |-> None]
    /\ transaction = [c \in Conns |-> "none"]

SQLiteTypeOK ==
    /\ shared \subseteq Handles \cup {Other}
    /\ reserved \in Handles \cup {None}
    /\ handle \in [Handles -> {"closed", "open", "begun"}]
    /\ database \in [Conns -> Handles \cup {None}]
    /\ transaction \in [Conns -> {"none", "live", "ended"}]

-----------------------------------------------------------------------------
(***************************************************************************)
(* SQLite: locks, reads, writes.                                           *)
(***************************************************************************)
Rows(h) == IF reserved = h THEN work ELSE file

Release(h) ==
    /\ shared' = shared \ {h}
    /\ reserved' = IF reserved = h THEN None ELSE reserved

WriterBusy(h) == reserved \notin {None, h}

CommitBusy(h) == reserved = h /\ shared \ {h} # {}

Read(h) ==
    /\ shared' = IF handle[h] = "begun" THEN shared \cup {h} ELSE shared
    /\ UNCHANGED <<file, work, reserved, handle, database, transaction>>

Write(h, rows) ==
    /\ ~WriterBusy(h)
    /\ \/ /\ handle[h] = "begun"
          /\ work' = Rows(h) \cup rows
          /\ reserved' = h
          /\ shared' = shared \cup {h}
          /\ UNCHANGED file
       \/ /\ handle[h] = "open" /\ shared \subseteq {h}
          /\ file' = file \cup rows
          /\ UNCHANGED <<work, reserved, shared>>
    /\ UNCHANGED <<handle, database, transaction>>

-----------------------------------------------------------------------------
(***************************************************************************)
(* Connect opens a new handle and then closes the old one; the close fails *)
(* silently when statements prepared on the old handle are still alive.    *)
(***************************************************************************)
ConnectOk(c, h, closable) ==
    /\ handle[h] = "closed"
    /\ database' = [database EXCEPT ![c] = h]
    /\ IF database[c] # None /\ closable
       THEN /\ handle' = [handle EXCEPT ![h] = "open", ![database[c]] = "closed"]
            /\ Release(database[c])
       ELSE /\ handle' = [handle EXCEPT ![h] = "open"]
            /\ UNCHANGED <<shared, reserved>>
    /\ UNCHANGED <<file, work, transaction>>

(***************************************************************************)
(* Transaction replaces transaction_: the destructor of a live one rolls   *)
(* back on the current handle, then BEGIN is executed.                     *)
(***************************************************************************)
RollsBack(c) == transaction[c] = "live" /\ handle[database[c]] = "begun"

TransactionWithoutBegin(c) ==                       \* mutant
    /\ database[c] # None
    /\ transaction' = [transaction EXCEPT ![c] = "live"]
    /\ UNCHANGED <<file, work, shared, reserved, handle, database>>

TransactionOk(c) ==
    /\ database[c] # None
    /\ handle[database[c]] = "begun" => RollsBack(c)
    /\ IF RollsBack(c) THEN Release(database[c]) ELSE UNCHANGED <<shared, reserved>>
    /\ handle' = [handle EXCEPT ![database[c]] = "begun"]
    /\ transaction' = [transaction EXCEPT ![c] = "live"]
    /\ UNCHANGED <<file, work, database>>

TransactionFails(c) ==
    \/ database[c] = None /\ UNCHANGED sqliteVars
    \/ /\ database[c] # None
       /\ IF RollsBack(c)
          THEN Release(database[c]) /\ handle' = [handle EXCEPT ![database[c]] = "open"]
          ELSE UNCHANGED <<shared, reserved, handle>>
       /\ transaction' = [transaction EXCEPT ![c] = "none"]
       /\ UNCHANGED <<file, work, database>>

(***************************************************************************)
(* Commit and Rollback end the SQLiteCpp object; transaction_ keeps it.    *)
(***************************************************************************)
Active(c) == transaction[c] = "live" /\ handle[database[c]] = "begun"

EndTransaction(c) ==
    /\ Release(database[c])
    /\ handle' = [handle EXCEPT ![database[c]] = "open"]
    /\ transaction' = [transaction EXCEPT ![c] = "ended"]
    /\ UNCHANGED <<work, database>>

CommitOk(c) ==
    /\ Active(c) /\ ~CommitBusy(database[c])
    /\ file' = Rows(database[c])
    /\ EndTransaction(c)

(* No transaction, one that has ended, BUSY, or an I/O error on which SQLite
   itself rolls back. *)
CommitFails(c) ==
    \/ (~Active(c) \/ CommitBusy(database[c])) /\ UNCHANGED sqliteVars
    \/ /\ Active(c)
       /\ Release(database[c])
       /\ handle' = [handle EXCEPT ![database[c]] = "open"]
       /\ UNCHANGED <<file, work, database, transaction>>

RollbackOk(c) ==
    /\ Active(c)
    /\ EndTransaction(c)
    /\ UNCHANGED file

RollbackFails(c) == ~Active(c) /\ UNCHANGED sqliteVars

-----------------------------------------------------------------------------
(* The process dies: its handles are gone, the file stays. *)
CloseAll(cs, hs) ==
    /\ handle' = [h \in Handles |-> IF h \in hs THEN "closed" ELSE handle[h]]
    /\ shared' = shared \ hs
    /\ reserved' = IF reserved \in hs THEN None ELSE reserved
    /\ database' = [c \in Conns |-> IF c \in cs THEN None ELSE database[c]]
    /\ transaction' = [c \in Conns |-> IF c \in cs THEN "none" ELSE transaction[c]]
    /\ UNCHANGED <<file, work>>

(* Another process starts or ends reading the file. *)
OtherProcess ==
    /\ shared' = IF Other \in shared THEN shared \ {Other} ELSE shared \cup {Other}
    /\ UNCHANGED <<file, work, reserved, handle, database, transaction>>
=============================================================================
