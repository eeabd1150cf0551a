--------------------------- MODULE DatabaseStorage ---------------------------
(***************************************************************************)
(* storage/database_storage.cpp with database/sqlite/query.cpp: StoreEvent *)
(* of one DatabaseStorage object, called by StoreCoroutines.               *)
(*                                                                         *)
(* A call connects anew, begins a transaction, inserts every entry and its *)
(* modifiers with statements that are prepared on first use, and commits.  *)
(* An error returns at once and leaves the transaction to the next call.   *)
(*                                                                         *)
(* A writer w is one call with its data, Batch[w]: a sequence of entries.  *)
(* An entry is skipped when it has no data.  The row <<w, i, 0>> is entry  *)
(* i itself, <<w, i, m>> its m-th modifier.                                *)
(*                                                                         *)
(* Calls may overlap: DatabaseManager spawns StoreCoroutines over the same *)
(* stores and nothing makes one wait for another.  A history variable      *)
(* keeps the calls that have met another, so that the properties can speak *)
(* of a call that is alone, among others that are not.                     *)
(***************************************************************************)
EXTENDS SQLiteConnection, Sequences

CONSTANTS
    Writers,      \* calls of StoreEvent
    Batch,        \* the data of each call
    Types         \* entry types

ASSUME DatabaseStorageAssumption ==
    /\ \E c \in Conns : Conns = {c}
    /\ Batch \in [Writers -> Seq([type : Types, mods : Nat, empty : BOOLEAN])]

VARIABLES
    pc,         \* where each call is
    next,       \* the row it inserts next: <<entry, modifier>>
    prepared,   \* the handle each of its statements was prepared on
    overlapped  \* history: the calls that have met another one inside

vars == <<sqliteVars, pc, next, prepared, overlapped>>

Conn == CHOOSE c \in Conns : TRUE

(* insert_key, insert_key_modifier, ...: two statements per entry type. *)
Statements == Types \X BOOLEAN

Unprepared == [q \in Statements |-> None]

Init ==
    /\ SQLiteInit
    /\ pc = [w \in Writers |-> "idle"]
    /\ next = [w \in Writers |-> <<1, 0>>]
    /\ prepared = [w \in Writers |-> Unprepared]
    /\ overlapped = {}

InCall(w) == pc[w] \in {"connected", "inserting"}

(* The calls that are inside when w enters. *)
Met(w) == {v \in Writers \ {w} : InCall(v)}

(* The queries of a call are destroyed when it returns. *)
ReturnKeepsQueries(w, result) ==                    \* mutant: kept as members
    /\ pc' = [pc EXCEPT ![w] = result]
    /\ UNCHANGED <<next, prepared, overlapped>>

Return(w, result) ==
    /\ pc' = [pc EXCEPT ![w] = result]
    /\ prepared' = [prepared EXCEPT ![w] = Unprepared]
    /\ UNCHANGED <<next, overlapped>>

NoStatementsOn(h) == \A w \in Writers, q \in Statements : prepared[w][q] # h

StoreNothing(w) ==
    /\ pc[w] = "idle" /\ Batch[w] = <<>>
    /\ Return(w, "stored")
    /\ UNCHANGED sqliteVars

Connect(w) ==
    /\ pc[w] = "idle" /\ Batch[w] # <<>>
    /\ \/ /\ \E h \in Handles : ConnectOk(Conn, h, NoStatementsOn(database[Conn]))
          /\ pc' = [pc EXCEPT ![w] = "connected"]
          /\ overlapped' = IF Met(w) = {} THEN overlapped ELSE overlapped \cup Met(w) \cup {w}
          /\ UNCHANGED <<next, prepared>>
       \/ Return(w, "failed") /\ UNCHANGED sqliteVars

ContinueTransaction(w) ==                           \* mutant: an open one is kept
    /\ pc[w] = "connected"
    /\ IF transaction[Conn] = "live" THEN UNCHANGED sqliteVars ELSE TransactionOk(Conn)
    /\ pc' = [pc EXCEPT ![w] = "inserting"]
    /\ UNCHANGED <<next, prepared, overlapped>>

BeginTransaction(w) ==
    /\ pc[w] = "connected"
    /\ \/ TransactionOk(Conn) /\ pc' = [pc EXCEPT ![w] = "inserting"]
          /\ UNCHANGED <<next, prepared, overlapped>>
       \/ TransactionFails(Conn) /\ Return(w, "failed")

-----------------------------------------------------------------------------
(***************************************************************************)
(* InsertEvents: BindValues for the entry, BindValuesModifier for each     *)
(* modifier.  Query::Next prepares on the handle the connection has at     *)
(* that time and executes on that handle from then on.                     *)
(***************************************************************************)
Entry(w) == Batch[w][next[w][1]]

AllInserted(w) == next[w][1] > Len(Batch[w])

Inserting(w) == pc[w] = "inserting" /\ ~AllInserted(w)

Statement(w) == <<Entry(w).type, next[w][2] > 0>>

StatementHandle(w) ==
    IF prepared[w][Statement(w)] = None THEN database[Conn] ELSE prepared[w][Statement(w)]

AdvanceTooLate(w) ==                                \* mutant: off by one
    next' = [next EXCEPT ![w] = IF Entry(w).empty \/ @[2] > Entry(w).mods
                                THEN <<@[1] + 1, 0>> ELSE <<@[1], @[2] + 1>>]

Advance(w) ==
    next' = [next EXCEPT ![w] = IF Entry(w).empty \/ @[2] = Entry(w).mods
                                THEN <<@[1] + 1, 0>> ELSE <<@[1], @[2] + 1>>]

SkipEntry(w) ==
    /\ Inserting(w) /\ Entry(w).empty
    /\ Advance(w)
    /\ UNCHANGED <<sqliteVars, pc, prepared, overlapped>>

Insert(w) ==
    /\ Inserting(w) /\ ~Entry(w).empty
    /\ Write(StatementHandle(w), {<<w, next[w][1], next[w][2]>>})
    /\ prepared' = [prepared EXCEPT ![w][Statement(w)] = StatementHandle(w)]
    /\ Advance(w)
    /\ UNCHANGED <<pc, overlapped>>

InsertFailsAndGoesOn(w) ==                          \* mutant: error ignored
    /\ Inserting(w) /\ ~Entry(w).empty
    /\ Advance(w)
    /\ UNCHANGED <<sqliteVars, pc, prepared, overlapped>>

(* BUSY, or any other error of a statement: it ends the call without Rollback. *)
InsertFails(w) ==
    /\ Inserting(w) /\ ~Entry(w).empty
    /\ Return(w, "failed")
    /\ UNCHANGED sqliteVars

Commit(w) ==
    /\ pc[w] = "inserting" /\ AllInserted(w)
    /\ \/ CommitOk(Conn) /\ Return(w, "stored")
       \/ CommitFails(Conn) /\ Return(w, "failed")

(***************************************************************************)
(* The process dies and is started again; calls in progress are lost.      *)
(***************************************************************************)
Crash ==
    /\ \E w \in Writers : InCall(w)
    /\ pc' = [w \in Writers |-> IF InCall(w) THEN "lost" ELSE pc[w]]
    /\ prepared' = [w \in Writers |-> Unprepared]
    /\ CloseAll(Conns, Handles)
    /\ UNCHANGED <<next, overlapped>>

OtherReads == OtherProcess /\ UNCHANGED <<pc, next, prepared, overlapped>>

Next ==
    \/ \E w \in Writers :
          \/ StoreNothing(w) \/ Connect(w) \/ BeginTransaction(w)
          \/ SkipEntry(w) \/ Insert(w) \/ InsertFails(w) \/ Commit(w)
    \/ Crash
    \/ OtherReads

Spec == Init /\ [][Next]_vars

-----------------------------------------------------------------------------
(***************************************************************************)
(* Properties.                                                             *)
(***************************************************************************)
BatchRows(w) ==
    UNION {IF Batch[w][i].empty THEN {} ELSE {<<w, i, m>> : m \in 0..Batch[w][i].mods}
           : i \in DOMAIN Batch[w]}

AllRows == UNION {BatchRows(w) : w \in Writers}

(* The variables have their types, and only rows of some call are in the file. *)
TypeOK ==
    /\ SQLiteTypeOK
    /\ file \subseteq AllRows /\ work \subseteq AllRows
    /\ pc \in [Writers -> {"idle", "connected", "inserting", "stored", "failed", "lost"}]
    /\ next \in [Writers -> Nat \X Nat]
    /\ prepared \in [Writers -> [Statements -> Handles \cup {None}]]
    /\ overlapped \subseteq Writers

(* The calls that no other has overlapped, so far. *)
Alone == Writers \ overlapped

(* The entries and modifiers of a call that is alone become durable together or not
   at all, through errors, crashes and retries by later calls on the same object,
   whatever calls that overlapped have left behind or do afterwards. *)
BatchAtomic == \A w \in Alone : BatchRows(w) \subseteq file \/ BatchRows(w) \cap file = {}

(* StoreEvent, called alone, reports success only for rows that are, and stay,
   committed. *)
StoredIsDurable == \A w \in Alone : pc[w] = "stored" => BatchRows(w) \subseteq file

(* Rows of a call that was alone and reported an error never become durable, although
   its transaction is left open and later calls commit on the same object. *)
FailedLeavesNothing == \A w \in Alone : pc[w] = "failed" => BatchRows(w) \cap file = {}

(* Connecting anew for every call leaks no handle as long as no two have overlapped:
   there is only the current one, so an abandoned transaction cannot hold its locks
   past the next call. *)
NoLeakedHandle ==
    overlapped = {} => \A h \in Handles : handle[h] # "closed" => h = database[Conn]

(* connection.h: "Only one transaction is allowed per connection; however,
   this can be called again after the transaction is committed." *)
OneTransaction ==
    \A v, w \in Writers : pc[v] = "inserting" /\ pc[w] = "inserting" => v = w
=============================================================================
