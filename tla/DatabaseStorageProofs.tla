------------------------ MODULE DatabaseStorageProofs ------------------------
(***************************************************************************)
(* Proofs about StoreEvent on one connection, for any calls, batches and   *)
(* handles, and any overlaps.                                              *)
(*                                                                         *)
(* Calls that overlap may leave a handle behind that nobody closes, with   *)
(* the lock and rows of their own.  Why does that not concern a call that  *)
(* no other overlaps?  It has a handle of its own, on which nobody else    *)
(* has a statement; a handle left behind never becomes the connection's    *)
(* again, so nobody commits it; and what a lone call leaves open has no    *)
(* statements, so that the next Connect closes it.                         *)
(***************************************************************************)
EXTENDS DatabaseStorage, TLAPS

TypesInv ==
    /\ reserved \in Handles \cup {None}
    /\ handle \in [Handles -> {"closed", "open", "begun"}]
    /\ database \in [Conns -> Handles \cup {None}]
    /\ transaction \in [Conns -> {"none", "live", "ended"}]
    /\ pc \in [Writers -> {"idle", "connected", "inserting", "stored", "failed", "lost"}]
    /\ next \in [Writers -> (Nat \ {0}) \X Nat]
    /\ prepared \in [Writers -> [Statements -> Handles \cup {None}]]
    /\ overlapped \subseteq Writers

(* The connection's handle is open.  The handle with the lock is in a transaction, and
   sees all that is durable. *)
LockInv ==
    /\ database[Conn] # None => handle[database[Conn]] # "closed"
    /\ reserved # None => handle[reserved] = "begun" /\ file \subseteq work

(* Only calls that insert have statements, on handles that are not closed. *)
PreparedInv ==
    \A w \in Writers, q \in Statements :
        prepared[w][q] # None => pc[w] = "inserting" /\ handle[prepared[w][q]] # "closed"

(* The rows of w that its call has inserted. *)
Inserted(w) ==
    {r \in BatchRows(w) : \/ r[2] < next[w][1]
                          \/ r[2] = next[w][1] /\ r[3] < next[w][2]}

AnyCall(w) ==
    /\ pc[w] \in {"idle", "connected"} => next[w] = <<1, 0>>
    /\ next[w][1] \in DOMAIN Batch[w] => next[w][2] <= Batch[w][next[w][1]].mods
    /\ InCall(w) => database[Conn] # None

NoOther(w) == \A v \in Writers : v # w => ~InCall(v)

(* What a call that is alone can rely on while it is inside. *)
LoneCall(w) ==
    /\ NoOther(w)
    /\ \A q \in Statements : prepared[w][q] \in {None, database[Conn]}
    /\ pc[w] = "connected" => handle[database[Conn]] = "open"
    /\ pc[w] = "inserting" =>
          Active(Conn) /\ Rows(database[Conn]) = file \cup Inserted(w)

CallInv(w) == AnyCall(w) /\ (w \notin overlapped /\ InCall(w) => LoneCall(w))

(* Rows of a call that is or was alone wait for a commit only on the connection's own
   handle, and only until the next call. *)
WorkInv ==
    reserved # None =>
        \A w \in Alone :
            \/ BatchRows(w) \cap work \subseteq file
            \/ reserved = database[Conn] /\ NoOther(w)

(* Of the calls that are or were alone, those that reported success have all their rows
   in the file, and the others none. *)
FileInv ==
    \A w \in Alone :
        IF pc[w] = "stored" THEN BatchRows(w) \subseteq file ELSE BatchRows(w) \cap file = {}

IInv ==
    /\ TypesInv
    /\ LockInv
    /\ PreparedInv
    /\ NoLeakedHandle
    /\ \A w \in Writers : CallInv(w)
    /\ WorkInv
    /\ FileInv

-----------------------------------------------------------------------------
LEMMA ConnIn == Conns = {Conn}
BY DatabaseStorageAssumption DEF DatabaseStorageAssumption, Conn

LEMMA HandlesAreSomething == None \notin Handles
BY SQLiteConnectionAssumption DEF SQLiteConnectionAssumption

LEMMA BatchTyped ==
    ASSUME NEW w \in Writers
    PROVE  /\ DOMAIN Batch[w] = 1..Len(Batch[w]) /\ Len(Batch[w]) \in Nat
           /\ \A i \in DOMAIN Batch[w] :
                 /\ Batch[w][i].type \in Types /\ Batch[w][i].mods \in Nat
                 /\ Batch[w][i].empty \in BOOLEAN
<1> DEFINE S == [type : Types, mods : Nat, empty : BOOLEAN]
<1>1. Batch[w] \in Seq(S)
  BY DatabaseStorageAssumption DEF DatabaseStorageAssumption
<1>2. \A e \in S : e.type \in Types /\ e.mods \in Nat /\ e.empty \in BOOLEAN
  OBVIOUS
<1> HIDE DEF S
<1>3. /\ DOMAIN Batch[w] = 1..Len(Batch[w]) /\ Len(Batch[w]) \in Nat
      /\ \A i \in DOMAIN Batch[w] : Batch[w][i] \in S
  BY <1>1
<1> QED  BY <1>2, <1>3

LEMMA RowOfBatch ==
    ASSUME NEW w \in Writers, NEW r
    PROVE  r \in BatchRows(w) <=>
              \E i \in DOMAIN Batch[w] : \E m \in 0..Batch[w][i].mods :
                  ~Batch[w][i].empty /\ r = <<w, i, m>>
BY DEF BatchRows

(* A row tells whose it is. *)
LEMMA RowsApart ==
    ASSUME NEW v \in Writers, NEW w \in Writers, v # w
    PROVE  BatchRows(v) \cap BatchRows(w) = {}
<1> SUFFICES ASSUME NEW r, r \in BatchRows(v), r \in BatchRows(w) PROVE FALSE
  OBVIOUS
<1> QED  BY RowOfBatch

LEMMA InitIInv == Init => IInv
<1> SUFFICES ASSUME Init PROVE IInv
  OBVIOUS
<1> USE DEF Init, SQLiteInit
<1>1. TypesInv
  BY DEF TypesInv, Unprepared
<1>2. LockInv /\ NoLeakedHandle /\ PreparedInv /\ WorkInv
  BY ConnIn DEF LockInv, NoLeakedHandle, PreparedInv, Unprepared, WorkInv
<1>3. FileInv
  BY DEF FileInv, Alone
<1>4. \A w \in Writers : CallInv(w)
  <2> TAKE w \in Writers
  <2>1. pc[w] = "idle" /\ next[w] = <<1, 0>>
    OBVIOUS
  <2>2. ~InCall(w)
    BY <2>1 DEF InCall
  <2> QED  BY <2>1, <2>2, BatchTyped DEF CallInv, AnyCall
<1> QED  BY <1>1, <1>2, <1>3, <1>4 DEF IInv

(***************************************************************************)
(* A call comes back.  It may have ended its transaction, or leave it      *)
(* open; its rows are durable if it says so.                               *)
(***************************************************************************)
LEMMA ReturnKeeps ==
    ASSUME IInv, NEW w \in Writers, NEW result \in {"stored", "failed"},
           Return(w, result), pc[w] \in {"idle", "connected", "inserting"},
           UNCHANGED <<database, work>>,
           transaction' \in [Conns -> {"none", "live", "ended"}],
           pc[w] = "idle" => UNCHANGED <<file, handle, reserved, transaction>>,
           \/ UNCHANGED <<handle, reserved>>
           \/ /\ database[Conn] # None
              /\ reserved' = IF reserved = database[Conn] THEN None ELSE reserved
              /\ handle' = [handle EXCEPT ![database[Conn]] = "open"],
           reserved' # None => UNCHANGED file,
           w \in Alone => file' = IF result = "stored" THEN file \cup BatchRows(w) ELSE file,
           \A v \in Alone : v # w => BatchRows(v) \cap file' = BatchRows(v) \cap file
    PROVE  IInv'
<1> USE DEF IInv
<1>1. /\ pc' = [pc EXCEPT ![w] = result]
      /\ prepared' = [prepared EXCEPT ![w] = Unprepared]
      /\ next' = next /\ overlapped' = overlapped
  BY DEF Return
<1>2. Unprepared \in [Statements -> Handles \cup {None}]
  BY DEF Unprepared
<1>3. /\ pc'[w] = result /\ \A v \in Writers : v # w => pc'[v] = pc[v]
      /\ \A q \in Statements : prepared'[w][q] = None
      /\ \A v \in Writers : v # w => prepared'[v] = prepared[v]
  BY <1>1 DEF TypesInv, Unprepared
<1>4. database[Conn] # None => database[Conn] \in Handles
  BY ConnIn DEF TypesInv
<1>5. /\ handle' \in [Handles -> {"closed", "open", "begun"}]
      /\ \A h \in Handles : handle'[h] = "closed" <=> handle[h] = "closed"
      /\ reserved' # None => reserved' = reserved /\ handle'[reserved] = handle[reserved]
      /\ reserved' \in Handles \cup {None}
  <2>1. CASE UNCHANGED <<handle, reserved>>
    BY <2>1 DEF TypesInv
  <2>2. CASE /\ database[Conn] # None
             /\ reserved' = IF reserved = database[Conn] THEN None ELSE reserved
             /\ handle' = [handle EXCEPT ![database[Conn]] = "open"]
    BY <1>4, <2>2 DEF TypesInv, LockInv
  <2> QED  BY <2>1, <2>2
<1>6. TypesInv'
  BY <1>1, <1>2, <1>5 DEF TypesInv
<1>7. LockInv'
  BY <1>4, <1>5 DEF LockInv
<1>8. PreparedInv'
  <2> SUFFICES ASSUME NEW v \in Writers, NEW q \in Statements, prepared'[v][q] # None
               PROVE  pc'[v] = "inserting" /\ handle'[prepared'[v][q]] # "closed"
    BY DEF PreparedInv
  <2>1. v # w /\ pc'[v] = pc[v] /\ prepared'[v] = prepared[v]
    BY <1>3
  <2>2. prepared[v][q] \in Handles
    BY <2>1 DEF TypesInv
  <2> QED  BY <1>5, <2>1, <2>2 DEF PreparedInv
<1>9. NoLeakedHandle'
  BY <1>1, <1>5 DEF NoLeakedHandle
<1>10. \A v \in Writers : InCall(v)' => v # w /\ InCall(v)
  BY <1>3 DEF InCall
<1>11. ASSUME NEW v \in Writers PROVE CallInv(v)'
  <2>1. AnyCall(v)'
    BY <1>1, <1>3, <1>10 DEF CallInv, AnyCall
  <2>2. ASSUME v \notin overlapped', InCall(v)' PROVE LoneCall(v)'
    <3>1. v # w /\ InCall(v) /\ LoneCall(v) /\ pc'[v] = pc[v] /\ prepared'[v] = prepared[v]
      BY <1>1, <1>3, <1>10, <2>2 DEF CallInv
    <3>2. pc[w] = "idle"
      BY <3>1 DEF LoneCall, NoOther, InCall
    <3>3. NoOther(v)'
      BY <1>10, <3>1 DEF LoneCall, NoOther
    <3>4. Inserted(v)' = Inserted(v)
      BY <1>1 DEF Inserted
    <3> QED  BY <3>1, <3>2, <3>3, <3>4 DEF LoneCall, Active, Rows
  <2> QED  BY <2>1, <2>2 DEF CallInv
<1>12. WorkInv'
  <2> SUFFICES ASSUME reserved' # None, NEW v \in Alone
               PROVE  \/ BatchRows(v) \cap work \subseteq file
                      \/ reserved = database[Conn] /\ NoOther(v)'
    BY <1>1, <1>5 DEF WorkInv, Alone
  <2>1. reserved # None
    BY <1>5
  <2>2. NoOther(v) => NoOther(v)'
    BY <1>10 DEF NoOther
  <2> QED  BY <2>1, <2>2 DEF WorkInv
<1>13. FileInv'
  <2> SUFFICES ASSUME NEW v \in Alone
               PROVE  IF pc'[v] = "stored" THEN BatchRows(v) \subseteq file'
                      ELSE BatchRows(v) \cap file' = {}
    BY <1>1 DEF FileInv, Alone
  <2>1. v \in Writers
    BY DEF Alone
  <2>2. CASE v = w
    BY <1>3, <2>2 DEF FileInv
  <2>3. CASE v # w
    BY <1>3, <2>1, <2>3 DEF FileInv
  <2> QED  BY <2>2, <2>3
<1> QED  BY <1>6, <1>7, <1>8, <1>9, <1>11, <1>12, <1>13

(***************************************************************************)
(* A call comes in.  Whoever was inside before is not alone any more; if   *)
(* nobody was, the old handle has no statements and is closed.             *)
(***************************************************************************)
LEMMA ConnectKeeps ==
    ASSUME IInv, NEW w \in Writers, Connect(w)
    PROVE  IInv'
<1> USE DEF IInv
<1>1. pc[w] = "idle" /\ ~InCall(w)
  BY DEF Connect, InCall
<1>2. CASE Return(w, "failed") /\ UNCHANGED sqliteVars
  BY <1>1, <1>2, ReturnKeeps DEF sqliteVars, TypesInv
<1>3. ASSUME NEW h \in Handles, ConnectOk(Conn, h, NoStatementsOn(database[Conn])),
             pc' = [pc EXCEPT ![w] = "connected"],
             overlapped' = IF Met(w) = {} THEN overlapped ELSE overlapped \cup Met(w) \cup {w},
             UNCHANGED <<next, prepared>>
      PROVE  IInv'
  <2>1. /\ handle[h] = "closed" /\ h # None
        /\ database' = [database EXCEPT ![Conn] = h] /\ database'[Conn] = h
        /\ UNCHANGED <<file, work, transaction>>
    BY <1>3, ConnIn, HandlesAreSomething DEF ConnectOk, TypesInv
  <2>2. \A v \in Writers : v # w => pc'[v] = pc[v] /\ (InCall(v)' <=> InCall(v))
    BY <1>3 DEF TypesInv, InCall
  <2>3. pc'[w] = "connected" /\ InCall(w)'
    BY <1>3 DEF TypesInv, InCall
  <2>4. database[Conn] # None => database[Conn] \in Handles /\ database[Conn] # h
    BY <2>1, ConnIn DEF TypesInv, LockInv
  <2>5. /\ handle' \in [Handles -> {"closed", "open", "begun"}] /\ handle'[h] = "open"
        /\ \A k \in Handles : k # h /\ k # database[Conn] => handle'[k] = handle[k]
        /\ database[Conn] # None /\ ~NoStatementsOn(database[Conn])
              => handle'[database[Conn]] = handle[database[Conn]]
        /\ reserved' # None =>
              /\ reserved' = reserved /\ reserved # h /\ handle'[reserved] = handle[reserved]
              /\ reserved = database[Conn] => ~NoStatementsOn(database[Conn])
    <3>1. CASE database[Conn] # None /\ NoStatementsOn(database[Conn])
      <4>1. /\ handle' = [handle EXCEPT ![h] = "open", ![database[Conn]] = "closed"]
            /\ reserved' = IF reserved = database[Conn] THEN None ELSE reserved
        BY <1>3, <3>1 DEF ConnectOk, Release
      <4> QED  BY <2>1, <2>4, <3>1, <4>1 DEF TypesInv, LockInv
    <3>2. CASE ~(database[Conn] # None /\ NoStatementsOn(database[Conn]))
      <4>1. handle' = [handle EXCEPT ![h] = "open"] /\ reserved' = reserved
        BY <1>3, <3>2 DEF ConnectOk
      <4> QED  BY <2>1, <2>4, <3>2, <4>1 DEF TypesInv, LockInv
    <3> QED  BY <3>1, <3>2
  <2>6. /\ Met(w) \subseteq Writers /\ overlapped \subseteq overlapped'
        /\ overlapped' \subseteq Writers /\ Alone' \subseteq Alone
        /\ w \notin overlapped' => Met(w) = {}
        /\ overlapped' = {} => Met(w) = {}
        /\ Met(w) \subseteq overlapped'
    BY <1>3 DEF Met, TypesInv, Alone
  <2>7. ASSUME \A v \in Writers : ~InCall(v) PROVE NoStatementsOn(database[Conn]) \/ database[Conn] = None
    BY <2>7 DEF NoStatementsOn, PreparedInv, InCall
  <2>8. TypesInv'
    BY <1>3, <2>1, <2>5, <2>6 DEF TypesInv
  <2>9. LockInv'
    BY <2>1, <2>5 DEF LockInv
  <2>10. PreparedInv'
    <3> SUFFICES ASSUME NEW v \in Writers, NEW q \in Statements, prepared[v][q] # None
                 PROVE  pc'[v] = "inserting" /\ handle'[prepared[v][q]] # "closed"
      BY <1>3 DEF PreparedInv
    <3>1. pc[v] = "inserting" /\ handle[prepared[v][q]] # "closed" /\ prepared[v][q] \in Handles
      BY DEF PreparedInv, TypesInv
    <3>2. pc'[v] = "inserting" /\ prepared[v][q] # h
      BY <1>1, <2>1, <2>2, <3>1
    <3>3. prepared[v][q] = database[Conn] => ~NoStatementsOn(database[Conn])
      BY DEF NoStatementsOn
    <3> QED  BY <2>4, <2>5, <3>1, <3>2, <3>3
  <2>11. NoLeakedHandle'
    <3> SUFFICES ASSUME overlapped' = {}, NEW k \in Handles, handle'[k] # "closed" PROVE k = h
      BY <2>1 DEF NoLeakedHandle
    <3>1. \A v \in Writers : ~InCall(v)
      BY <1>1, <2>6 DEF Met
    <3>2. k # h => handle[k] = "closed" \/ k = database[Conn]
      BY <2>6 DEF NoLeakedHandle
    <3>3. k # h /\ k = database[Conn] => handle'[k] = "closed"
      <4> SUFFICES ASSUME k # h, k = database[Conn] PROVE handle'[k] = "closed"
        OBVIOUS
      <4>1. database[Conn] # None /\ NoStatementsOn(database[Conn])
        BY <2>7, <3>1, HandlesAreSomething
      <4>2. handle' = [handle EXCEPT ![h] = "open", ![database[Conn]] = "closed"]
        BY <1>3, <4>1 DEF ConnectOk
      <4> QED  BY <4>2 DEF TypesInv
    <3> QED  BY <2>5, <3>2, <3>3
  <2>12. ASSUME NEW v \in Writers PROVE CallInv(v)'
    <3>1. AnyCall(v)'
      <4>1. CASE v = w
        BY <1>1, <1>3, <2>1, <2>3, <4>1 DEF CallInv, AnyCall
      <4>2. CASE v # w
        BY <1>3, <2>1, <2>2, <4>2 DEF CallInv, AnyCall
      <4> QED  BY <4>1, <4>2
    <3>2. ASSUME v \notin overlapped', InCall(v)' PROVE LoneCall(v)'
      <4>1. v = w
        BY <2>2, <2>6, <3>2 DEF Met
      <4>2. NoOther(w)'
        BY <2>2, <2>6, <3>2, <4>1 DEF Met, NoOther
      <4>3. \A q \in Statements : prepared[w][q] = None
        BY <1>1 DEF PreparedInv
      <4> QED  BY <1>3, <2>1, <2>3, <2>5, <4>1, <4>2, <4>3 DEF LoneCall
    <3> QED  BY <3>1, <3>2 DEF CallInv
  <2>13. WorkInv'
    <3> SUFFICES ASSUME reserved' # None, NEW v \in Alone, v \notin overlapped'
                 PROVE  BatchRows(v) \cap work \subseteq file
      BY <2>1, <2>6 DEF WorkInv, Alone
    <3>1. reserved # None /\ v \in Writers
      BY <2>5 DEF Alone
    <3>2. ASSUME reserved = database[Conn], NoOther(v) PROVE FALSE
      <4>1. ~InCall(v)
        BY <1>1, <2>6, <3>1 DEF Met
      <4>2. \A u \in Writers : ~InCall(u)
        BY <3>2, <4>1 DEF NoOther
      <4> QED  BY <2>5, <2>7, <3>1, <3>2, <4>2
    <3> QED  BY <3>1, <3>2 DEF WorkInv
  <2>14. FileInv'
    <3> SUFFICES ASSUME NEW v \in Alone
                 PROVE  IF pc'[v] = "stored" THEN BatchRows(v) \subseteq file
                        ELSE BatchRows(v) \cap file = {}
      BY <2>1, <2>6 DEF FileInv
    <3>1. v \in Writers /\ (pc'[v] = "stored" <=> pc[v] = "stored")
      BY <1>1, <2>2, <2>3 DEF Alone
    <3> QED  BY <3>1 DEF FileInv
  <2> QED  BY <2>8, <2>9, <2>10, <2>11, <2>12, <2>13, <2>14
<1> QED  BY <1>2, <1>3 DEF Connect

(* While a call is inside, nothing of a call that was alone waits for a commit. *)
LEMMA NothingWaits ==
    ASSUME IInv, NEW w \in Writers, InCall(w), NEW v \in Alone, v # w
    PROVE  /\ reserved # None => BatchRows(v) \cap work \subseteq file
           /\ BatchRows(v) \cap Rows(database[Conn]) = BatchRows(v) \cap file
           /\ \A h \in Handles : BatchRows(v) \cap Rows(h) \subseteq file
<1>1. ~NoOther(v)
  BY DEF NoOther
<1>2. reserved # None => BatchRows(v) \cap work \subseteq file /\ file \subseteq work
  BY <1>1 DEF IInv, WorkInv, LockInv
<1>3. database[Conn] \in Handles
  BY ConnIn DEF IInv, TypesInv, CallInv, AnyCall
<1> QED  BY <1>2, <1>3, HandlesAreSomething DEF Rows

LEMMA BeginKeeps ==
    ASSUME IInv, NEW w \in Writers, BeginTransaction(w)
    PROVE  IInv'
<1> USE DEF IInv
<1>1. pc[w] = "connected" /\ InCall(w)
  BY DEF BeginTransaction, InCall
<1>2. database[Conn] \in Handles /\ database[Conn] # None /\ next[w] = <<1, 0>>
  BY <1>1, ConnIn DEF CallInv, AnyCall, TypesInv
<1>3. Conn \in Conns
  BY ConnIn
<1>4. CASE TransactionOk(Conn) /\ pc' = [pc EXCEPT ![w] = "inserting"]
           /\ UNCHANGED <<next, prepared, overlapped>>
  <2>1. /\ handle' = [handle EXCEPT ![database[Conn]] = "begun"]
        /\ transaction' = [transaction EXCEPT ![Conn] = "live"]
        /\ UNCHANGED <<file, work, database>>
        /\ reserved' \in {reserved, None}
    BY <1>4 DEF TransactionOk, Release
  <2>2. \A h \in Handles : /\ handle'[h] = "closed" => handle[h] = "closed"
                           /\ handle[h] = "begun" => handle'[h] = "begun"
    BY <1>2, <2>1 DEF TypesInv
  <2>3. TypesInv'
    BY <1>2, <1>3, <1>4, <2>1 DEF TypesInv
  <2>4. LockInv'
    BY <1>2, <2>1, <2>2 DEF LockInv, TypesInv
  <2>5. PreparedInv'
    <3> SUFFICES ASSUME NEW v \in Writers, NEW q \in Statements, prepared[v][q] # None
                 PROVE  pc'[v] = "inserting" /\ handle'[prepared[v][q]] # "closed"
      BY <1>4 DEF PreparedInv
    <3>1. prepared[v][q] \in Handles
      BY DEF TypesInv
    <3>2. pc[v] = "inserting" /\ handle[prepared[v][q]] # "closed"
      BY DEF PreparedInv
    <3>3. pc'[v] = "inserting"
      BY <1>4, <3>2 DEF TypesInv
    <3> QED  BY <2>2, <3>1, <3>2, <3>3
  <2>6. NoLeakedHandle'
    <3>1. \A h \in Handles : handle'[h] # "closed" => handle[h] # "closed"
      BY <1>2, <2>1 DEF TypesInv, LockInv
    <3> QED  BY <1>4, <2>1, <3>1 DEF NoLeakedHandle
  <2>7. \A v \in Writers : InCall(v)' <=> InCall(v)
    BY <1>1, <1>4 DEF InCall, TypesInv
  <2>8. ASSUME NEW v \in Writers PROVE CallInv(v)'
    <3>1. CASE v = w
      <4>1. AnyCall(w)'
        BY <1>1, <1>2, <1>4, <2>1 DEF CallInv, AnyCall, TypesInv
      <4>2. ASSUME w \notin overlapped PROVE LoneCall(w)'
        <5>1. LoneCall(w) /\ handle[database[Conn]] = "open"
          BY <1>1, <4>2 DEF CallInv, LoneCall
        <5>2. reserved # database[Conn]
          BY <1>2, <5>1 DEF LockInv
        <5>3. reserved' # database[Conn]
          BY <1>2, <2>1, <5>2
        <5>4. Active(Conn)'
          BY <1>2, <1>3, <2>1 DEF Active, TypesInv
        <5>5. \A r \in BatchRows(w) : r[2] \in Nat \ {0}
          BY RowOfBatch, BatchTyped
        <5>6. \A r \in BatchRows(w) : r[3] \in Nat
          BY RowOfBatch, BatchTyped
        <5>7. Inserted(w)' = {}
          BY <1>2, <1>4, <5>5, <5>6 DEF Inserted
        <5>8. Rows(database[Conn])' = file'
          BY <2>1, <5>3 DEF Rows
        <5>9. NoOther(w)'
          BY <2>7, <5>1 DEF LoneCall, NoOther
        <5>10. pc'[w] = "inserting"
          BY <1>4 DEF TypesInv
        <5>11. \A q \in Statements : prepared'[w][q] \in {None, database'[Conn]}
          BY <1>4, <2>1, <5>1 DEF LoneCall
        <5> QED  BY <5>4, <5>7, <5>8, <5>9, <5>10, <5>11 DEF LoneCall
      <4> QED  BY <1>4, <3>1, <4>1, <4>2 DEF CallInv
    <3>2. CASE v # w
      <4>1. ~(v \notin overlapped /\ InCall(v))
        BY <1>1, <3>2 DEF CallInv, LoneCall, NoOther
      <4>2. pc'[v] = pc[v]
        BY <1>4, <3>2 DEF TypesInv
      <4>3. AnyCall(v)'
        BY <1>4, <2>1, <2>7, <4>2 DEF CallInv, AnyCall
      <4> QED  BY <1>4, <2>7, <4>1, <4>3 DEF CallInv
    <3> QED  BY <3>1, <3>2
  <2>9. WorkInv'
    BY <1>4, <2>1, <2>7 DEF WorkInv, Alone, NoOther
  <2>10. FileInv'
    BY <1>1, <1>4, <2>1 DEF FileInv, Alone, TypesInv
  <2> QED  BY <2>3, <2>4, <2>5, <2>6, <2>8, <2>9, <2>10
<1>5. CASE TransactionFails(Conn) /\ Return(w, "failed")
  <2>1. /\ transaction' \in [Conns -> {"none", "live", "ended"}]
        /\ UNCHANGED <<file, work, database>>
        /\ \/ UNCHANGED <<handle, reserved>>
           \/ /\ reserved' = IF reserved = database[Conn] THEN None ELSE reserved
              /\ handle' = [handle EXCEPT ![database[Conn]] = "open"]
    BY <1>2, <1>3, <1>5 DEF TransactionFails, Release, TypesInv
  <2> QED  BY <1>1, <1>2, <1>5, <2>1, ReturnKeeps
<1> QED  BY <1>4, <1>5 DEF BeginTransaction

-----------------------------------------------------------------------------
(***************************************************************************)
(* Inserting.                                                              *)
(***************************************************************************)
LEMMA InsertedRow ==
    ASSUME NEW w \in Writers, NEW r
    PROVE  r \in Inserted(w) <=>
              \E i \in DOMAIN Batch[w] : \E m \in 0..Batch[w][i].mods :
                  /\ ~Batch[w][i].empty /\ r = <<w, i, m>>
                  /\ i < next[w][1] \/ (i = next[w][1] /\ m < next[w][2])
BY RowOfBatch DEF Inserted

(* The entry and the modifier a call is at. *)
LEMMA AtEntry ==
    ASSUME IInv, NEW w \in Writers, Inserting(w)
    PROVE  /\ next[w] = <<next[w][1], next[w][2]>>
           /\ next[w][1] \in DOMAIN Batch[w] /\ next[w][1] \in Nat \ {0}
           /\ next[w][2] \in 0..Entry(w).mods /\ Entry(w).mods \in Nat
           /\ Entry(w).type \in Types /\ Entry(w).empty \in BOOLEAN
<1>1. next[w] \in (Nat \ {0}) \X Nat
  BY DEF IInv, TypesInv
<1>2. next[w][1] \in DOMAIN Batch[w]
  BY <1>1, BatchTyped DEF Inserting, AllInserted
<1> QED  BY <1>1, <1>2, BatchTyped DEF Entry, IInv, CallInv, AnyCall

LEMMA Advances ==
    ASSUME IInv, NEW w \in Writers, Inserting(w), Advance(w)
    PROVE  /\ next' \in [Writers -> (Nat \ {0}) \X Nat]
           /\ \A v \in Writers : v # w => next'[v] = next[v]
           /\ next'[w][1] \in DOMAIN Batch[w] => next'[w][2] <= Batch[w][next'[w][1]].mods
           /\ Inserted(w)' = IF Entry(w).empty THEN Inserted(w)
                             ELSE Inserted(w) \cup {<<w, next[w][1], next[w][2]>>}
<1> DEFINE n == next[w][1]  k == next[w][2]
<1>1. /\ n \in DOMAIN Batch[w] /\ n \in Nat \ {0}
      /\ k \in 0..Entry(w).mods /\ Entry(w).mods \in Nat /\ Entry(w).empty \in BOOLEAN
  BY AtEntry
<1>2. next \in [Writers -> (Nat \ {0}) \X Nat]
  BY DEF IInv, TypesInv
<1>3. next' = [next EXCEPT ![w] = IF Entry(w).empty \/ k = Entry(w).mods
                                  THEN <<n + 1, 0>> ELSE <<n, k + 1>>]
  BY DEF Advance
<1>4. next'[w] = IF Entry(w).empty \/ k = Entry(w).mods THEN <<n + 1, 0>> ELSE <<n, k + 1>>
  BY <1>2, <1>3
<1>5. next' \in [Writers -> (Nat \ {0}) \X Nat] /\ \A v \in Writers : v # w => next'[v] = next[v]
  BY <1>1, <1>2, <1>3
<1>6. Entry(w) = Batch[w][n]
  BY DEF Entry
<1>7. next'[w][1] \in DOMAIN Batch[w] => next'[w][2] <= Batch[w][next'[w][1]].mods
  BY <1>1, <1>4, <1>6, BatchTyped
<1>8. ASSUME NEW i \in DOMAIN Batch[w], NEW m \in 0..Batch[w][i].mods, ~Batch[w][i].empty
      PROVE  (i < next'[w][1] \/ (i = next'[w][1] /\ m < next'[w][2]))
             <=> \/ i < n \/ (i = n /\ m < k)
                 \/ ~Entry(w).empty /\ i = n /\ m = k
  <2>1. i \in Nat /\ m \in Nat /\ Batch[w][i].mods \in Nat
    BY BatchTyped
  <2>2. CASE Entry(w).empty
    BY <1>1, <1>4, <1>6, <1>8, <2>1, <2>2
  <2>3. CASE ~Entry(w).empty /\ k = Entry(w).mods
    <3>1. i = n => m <= k
      BY <1>6, <1>8, <2>3
    <3> QED  BY <1>1, <1>4, <2>1, <2>3, <3>1
  <2>4. CASE ~Entry(w).empty /\ k # Entry(w).mods
    BY <1>1, <1>4, <2>1, <2>4
  <2> QED  BY <2>2, <2>3, <2>4
<1>9. ASSUME NEW r
      PROVE  r \in Inserted(w)' <=>
                r \in Inserted(w) \/ (~Entry(w).empty /\ r = <<w, n, k>>)
  <2>1. r \in Inserted(w)' <=>
           \E i \in DOMAIN Batch[w] : \E m \in 0..Batch[w][i].mods :
               /\ ~Batch[w][i].empty /\ r = <<w, i, m>>
               /\ i < next'[w][1] \/ (i = next'[w][1] /\ m < next'[w][2])
    BY RowOfBatch DEF Inserted
  <2>2. r \in Inserted(w) <=>
           \E i \in DOMAIN Batch[w] : \E m \in 0..Batch[w][i].mods :
               /\ ~Batch[w][i].empty /\ r = <<w, i, m>>
               /\ i < n \/ (i = n /\ m < k)
    BY InsertedRow
  <2> HIDE DEF n, k
  <2>3. (~Entry(w).empty /\ r = <<w, n, k>>) <=>
           \E i \in DOMAIN Batch[w] : \E m \in 0..Batch[w][i].mods :
               /\ ~Batch[w][i].empty /\ r = <<w, i, m>>
               /\ ~Entry(w).empty /\ i = n /\ m = k
    BY <1>1, <1>6
  <2> QED  BY <1>8, <2>1, <2>2, <2>3
<1> QED  BY <1>5, <1>7, <1>9

LEMMA SkipKeeps ==
    ASSUME IInv, NEW w \in Writers, SkipEntry(w)
    PROVE  IInv'
<1> USE DEF IInv
<1>1. /\ Inserting(w) /\ Entry(w).empty /\ Advance(w)
      /\ UNCHANGED <<file, work, shared, reserved, handle, database, transaction, pc, prepared, overlapped>>
  BY DEF SkipEntry, sqliteVars
<1>2. /\ next' \in [Writers -> (Nat \ {0}) \X Nat]
      /\ \A v \in Writers : v # w => next'[v] = next[v]
      /\ next'[w][1] \in DOMAIN Batch[w] => next'[w][2] <= Batch[w][next'[w][1]].mods
      /\ Inserted(w)' = Inserted(w)
  BY <1>1, Advances
<1>3. TypesInv' /\ LockInv' /\ NoLeakedHandle' /\ PreparedInv'
  BY <1>1, <1>2 DEF TypesInv, LockInv, NoLeakedHandle, PreparedInv
<1>4. pc[w] = "inserting"
  BY <1>1 DEF Inserting
<1>5. \A v \in Writers : (InCall(v)' <=> InCall(v)) /\ (NoOther(v)' <=> NoOther(v))
  BY <1>1 DEF InCall, NoOther
<1>6. WorkInv' /\ FileInv'
  BY <1>1, <1>5 DEF WorkInv, FileInv, Alone
<1>7. ASSUME NEW v \in Writers PROVE CallInv(v)'
  <2>1. AnyCall(v)'
    <3>1. CASE v = w
      BY <1>1, <1>2, <1>4, <1>5, <3>1 DEF CallInv, AnyCall
    <3>2. CASE v # w
      BY <1>1, <1>2, <1>5, <3>2 DEF CallInv, AnyCall
    <3> QED  BY <3>1, <3>2
  <2>2. Inserted(v)' = Inserted(v)
    BY <1>2 DEF Inserted
  <2>3. LoneCall(v) => LoneCall(v)'
    BY <1>1, <1>5, <2>2 DEF LoneCall, Active, Rows
  <2> QED  BY <1>1, <1>5, <2>1, <2>3 DEF CallInv
<1> QED  BY <1>3, <1>6, <1>7

(* The handle on which a call inserts is one that is not closed. *)
LEMMA StatementHandleIs ==
    ASSUME IInv, NEW w \in Writers, Inserting(w)
    PROVE  /\ Statement(w) \in Statements
           /\ StatementHandle(w) \in Handles /\ handle[StatementHandle(w)] # "closed"
           /\ w \notin overlapped => StatementHandle(w) = database[Conn]
<1> USE DEF IInv
<1>1. pc[w] = "inserting" /\ InCall(w)
  BY DEF Inserting, InCall
<1>2. database[Conn] \in Handles /\ handle[database[Conn]] # "closed"
  BY <1>1, ConnIn DEF CallInv, AnyCall, TypesInv, LockInv
<1>3. Statement(w) \in Statements
  <2>1. Entry(w).type \in Types /\ (next[w][2] > 0) \in BOOLEAN
    BY AtEntry
  <2> QED  BY <2>1, Zenon DEF Statement, Statements
<1>4. prepared[w][Statement(w)] \in Handles \cup {None}
  BY <1>3 DEF TypesInv
<1>5. w \notin overlapped => prepared[w][Statement(w)] \in {None, database[Conn]}
  BY <1>1, <1>3 DEF CallInv, LoneCall
<1> QED  BY <1>2, <1>3, <1>4, <1>5 DEF StatementHandle, PreparedInv

(* A call that is alone writes on the handle of its transaction.  Another may write on
   any handle that is not closed, even outside of a transaction, but only its own
   rows. *)
LEMMA InsertKeeps ==
    ASSUME IInv, NEW w \in Writers, Insert(w)
    PROVE  IInv'
<1> USE DEF IInv
<1> DEFINE row == <<w, next[w][1], next[w][2]>>
           h == StatementHandle(w)
<1>1. /\ Inserting(w) /\ ~Entry(w).empty /\ Advance(w) /\ pc' = pc /\ overlapped' = overlapped
      /\ Write(h, {row})
      /\ prepared' = [prepared EXCEPT ![w][Statement(w)] = h]
  BY DEF Insert
<1>2. pc[w] = "inserting" /\ InCall(w)
  BY <1>1 DEF Inserting, InCall
<1>3. /\ Statement(w) \in Statements /\ h \in Handles /\ handle[h] # "closed" /\ h # None
      /\ w \notin overlapped => h = database[Conn]
  BY <1>1, StatementHandleIs, HandlesAreSomething
<1>4. /\ next' \in [Writers -> (Nat \ {0}) \X Nat]
      /\ \A v \in Writers : v # w => next'[v] = next[v]
      /\ next'[w][1] \in DOMAIN Batch[w] => next'[w][2] <= Batch[w][next'[w][1]].mods
      /\ Inserted(w)' = Inserted(w) \cup {row}
  BY <1>1, Advances
<1>5. row \in BatchRows(w)
  BY <1>1, AtEntry, RowOfBatch DEF Entry
<1>6. \A v \in Writers : v # w => row \notin BatchRows(v)
  BY <1>5, RowsApart
<1> HIDE DEF row, h
<1>7. /\ UNCHANGED <<handle, database, transaction>> /\ reserved \in {None, h}
      /\ \/ /\ handle[h] = "begun" /\ work' = Rows(h) \cup {row} /\ reserved' = h /\ file' = file
         \/ /\ handle[h] = "open" /\ file' = file \cup {row} /\ UNCHANGED <<work, reserved>>
  BY <1>1 DEF Write, WriterBusy
<1>8. \A v \in Writers : (InCall(v)' <=> InCall(v)) /\ (NoOther(v)' <=> NoOther(v))
  BY <1>1 DEF InCall, NoOther
<1>9. ASSUME w \notin overlapped
      PROVE  /\ LoneCall(w) /\ h = database[Conn]
             /\ handle[h] = "begun" /\ transaction[Conn] = "live"
             /\ Rows(h) = file \cup Inserted(w)
  <2>1. LoneCall(w) /\ h = database[Conn]
    BY <1>2, <1>3, <1>9 DEF CallInv
  <2> QED  BY <1>2, <2>1 DEF LoneCall, Active
<1>10. prepared' \in [Writers -> [Statements -> Handles \cup {None}]]
  BY <1>1, <1>3 DEF TypesInv
<1>11. TypesInv'
  BY <1>1, <1>3, <1>4, <1>7, <1>10 DEF TypesInv
<1>12. LockInv' /\ file \subseteq file'
  BY <1>3, <1>7 DEF LockInv, Rows
<1>13. PreparedInv'
  <2> SUFFICES ASSUME NEW v \in Writers, NEW q \in Statements, prepared'[v][q] # None
               PROVE  pc[v] = "inserting" /\ handle[prepared'[v][q]] # "closed"
    BY <1>1, <1>7 DEF PreparedInv
  <2>1. CASE v = w /\ q = Statement(w)
    BY <1>1, <1>2, <1>3, <2>1 DEF TypesInv
  <2>2. CASE v # w \/ q # Statement(w)
    <3>1. prepared'[v][q] = prepared[v][q]
      BY <1>1, <2>2 DEF TypesInv
    <3> QED  BY <3>1 DEF PreparedInv
  <2> QED  BY <2>1, <2>2
<1>14. NoLeakedHandle'
  BY <1>1, <1>7 DEF NoLeakedHandle
<1>15. ASSUME NEW v \in Writers PROVE CallInv(v)'
  <2>1. AnyCall(v)'
    <3>1. CASE v = w
      BY <1>1, <1>2, <1>4, <1>7, <1>8, <3>1 DEF CallInv, AnyCall
    <3>2. CASE v # w
      BY <1>1, <1>4, <1>7, <1>8, <3>2 DEF CallInv, AnyCall
    <3> QED  BY <3>1, <3>2
  <2>2. ASSUME v \notin overlapped, InCall(v) PROVE v = w
    BY <1>2, <2>2 DEF CallInv, LoneCall, NoOther
  <2>3. ASSUME w \notin overlapped PROVE LoneCall(w)'
    <3>1. NoOther(w)'
      BY <1>8, <1>9, <2>3 DEF LoneCall
    <3>2. Rows(database[Conn])' = file' \cup Inserted(w)' /\ Active(Conn)'
      BY <1>4, <1>7, <1>9, <2>3 DEF Rows, Active
    <3>3. \A q \in Statements : prepared'[w][q] \in {None, database[Conn]}
      BY <1>1, <1>3, <1>9, <2>3 DEF LoneCall, TypesInv
    <3> QED  BY <1>1, <1>2, <1>7, <3>1, <3>2, <3>3 DEF LoneCall
  <2> QED  BY <1>1, <1>8, <2>1, <2>2, <2>3 DEF CallInv
<1>16. WorkInv'
  <2> SUFFICES ASSUME reserved' # None, NEW v \in Alone
               PROVE  \/ BatchRows(v) \cap work' \subseteq file'
                      \/ reserved' = database[Conn] /\ NoOther(v)
    BY <1>1, <1>7, <1>8 DEF WorkInv, Alone
  <2>1. v \in Writers
    BY DEF Alone
  <2>2. handle[h] = "begun" /\ work' = Rows(h) \cup {row} /\ reserved' = h
    BY <1>3, <1>7 DEF LockInv
  <2>3. CASE v = w
    BY <1>9, <2>2, <2>3 DEF LoneCall, Alone
  <2>4. CASE v # w
    <3>1. BatchRows(v) \cap Rows(h) \subseteq file
      BY <1>2, <1>3, <2>4, NothingWaits
    <3> QED  BY <1>6, <1>12, <2>1, <2>2, <2>4, <3>1
  <2> QED  BY <2>3, <2>4
<1>17. FileInv'
  <2> SUFFICES ASSUME NEW v \in Alone
               PROVE  IF pc[v] = "stored" THEN BatchRows(v) \subseteq file'
                      ELSE BatchRows(v) \cap file' = {}
    BY <1>1 DEF FileInv, Alone
  <2>1. v \in Writers
    BY DEF Alone
  <2>2. CASE v = w
    BY <1>7, <1>9, <2>2 DEF FileInv, Alone
  <2>3. CASE v # w
    BY <1>6, <1>7, <2>1, <2>3 DEF FileInv
  <2> QED  BY <2>2, <2>3
<1> QED  BY <1>11, <1>12, <1>13, <1>14, <1>15, <1>16, <1>17

(* What a commit makes durable are rows of calls that overlap, or all rows of the call
   that commits. *)
LEMMA CommitKeeps ==
    ASSUME IInv, NEW w \in Writers, Commit(w)
    PROVE  IInv' /\ file \subseteq file'
<1> USE DEF IInv
<1>1. pc[w] = "inserting" /\ InCall(w) /\ AllInserted(w)
  BY DEF Commit, InCall
<1>2. database[Conn] \in Handles /\ database[Conn] # None /\ Conn \in Conns
  BY <1>1, ConnIn DEF CallInv, AnyCall, TypesInv
<1>3. Inserted(w) = BatchRows(w)
  <2>1. next[w][1] \in Nat /\ next[w][1] > Len(Batch[w])
    BY <1>1 DEF AllInserted, TypesInv
  <2>2. ASSUME NEW r \in BatchRows(w) PROVE r[2] < next[w][1]
    <3>1. r[2] \in DOMAIN Batch[w]
      BY <2>2, RowOfBatch
    <3> QED  BY <2>1, <3>1, BatchTyped
  <2> QED  BY <2>2 DEF Inserted
<1>4. CASE CommitOk(Conn) /\ Return(w, "stored")
  <2>1. /\ file' = Rows(database[Conn])
        /\ reserved' = IF reserved = database[Conn] THEN None ELSE reserved
        /\ handle' = [handle EXCEPT ![database[Conn]] = "open"]
        /\ transaction' = [transaction EXCEPT ![Conn] = "ended"]
        /\ UNCHANGED <<work, database>>
    BY <1>4 DEF CommitOk, EndTransaction, Release
  <2>2. transaction' \in [Conns -> {"none", "live", "ended"}]
    BY <2>1 DEF TypesInv
  <2>3. reserved' # None => UNCHANGED file
    BY <2>1 DEF Rows
  <2>4. w \in Alone => file' = file \cup BatchRows(w)
    BY <1>1, <1>3, <2>1 DEF CallInv, LoneCall, Alone
  <2>5. \A v \in Alone : v # w => BatchRows(v) \cap file' = BatchRows(v) \cap file
    BY <1>1, <2>1, NothingWaits
  <2>6. file \subseteq file'
    BY <1>2, <2>1 DEF Rows, LockInv
  <2>7. IInv'
    BY <1>1, <1>2, <1>4, <2>1, <2>2, <2>3, <2>4, <2>5, ReturnKeeps
  <2> QED  BY <2>6, <2>7
<1>5. CASE CommitFails(Conn) /\ Return(w, "failed")
  <2>1. /\ UNCHANGED <<file, work, database, transaction>>
        /\ \/ UNCHANGED <<handle, reserved>>
           \/ /\ reserved' = IF reserved = database[Conn] THEN None ELSE reserved
              /\ handle' = [handle EXCEPT ![database[Conn]] = "open"]
    BY <1>5 DEF CommitFails, Release, sqliteVars
  <2>2. transaction' \in [Conns -> {"none", "live", "ended"}]
    BY <2>1 DEF TypesInv
  <2>3. IInv'
    BY <1>1, <1>2, <1>5, <2>1, <2>2, ReturnKeeps
  <2> QED  BY <2>1, <2>3
<1> QED  BY <1>4, <1>5 DEF Commit

(* A crash takes what is not durable. *)
LEMMA CrashKeeps ==
    ASSUME IInv, Crash
    PROVE  IInv'
<1> USE DEF IInv
<1>1. /\ pc' = [w \in Writers |-> IF InCall(w) THEN "lost" ELSE pc[w]]
      /\ prepared' = [w \in Writers |-> Unprepared]
      /\ handle' = [h \in Handles |-> "closed"]
      /\ reserved' = None
      /\ database' = [c \in Conns |-> None]
      /\ transaction' = [c \in Conns |-> "none"]
      /\ UNCHANGED <<file, next, overlapped>>
  BY DEF Crash, CloseAll, TypesInv
<1>2. \A w \in Writers : ~InCall(w)'
  BY <1>1 DEF InCall
<1>3. TypesInv'
  BY <1>1 DEF TypesInv, Unprepared
<1>4. LockInv' /\ NoLeakedHandle' /\ PreparedInv' /\ WorkInv'
  BY <1>1, ConnIn DEF LockInv, NoLeakedHandle, PreparedInv, Unprepared, WorkInv
<1>5. FileInv'
  BY <1>1 DEF FileInv, Alone, InCall
<1>6. ASSUME NEW w \in Writers PROVE CallInv(w)'
  <2>1. pc'[w] \in {"idle", "connected"} => pc'[w] = pc[w]
    BY <1>1
  <2> QED  BY <1>1, <1>2, <2>1 DEF CallInv, AnyCall
<1> QED  BY <1>3, <1>4, <1>5, <1>6

LEMMA NextIInv == IInv /\ [Next]_vars => IInv'
<1> SUFFICES ASSUME IInv, [Next]_vars PROVE IInv'
  OBVIOUS
<1>1. ASSUME UNCHANGED <<file, work, reserved, handle, database, transaction, pc, next, prepared, overlapped>>
      PROVE  IInv'
  <2>1. \A w \in Writers : (InCall(w)' <=> InCall(w)) /\ (NoOther(w)' <=> NoOther(w))
    BY <1>1 DEF InCall, NoOther
  <2>2. TypesInv' /\ LockInv' /\ NoLeakedHandle' /\ PreparedInv' /\ FileInv'
    BY <1>1 DEF IInv, TypesInv, LockInv, NoLeakedHandle, PreparedInv, FileInv, Alone
  <2>3. WorkInv'
    BY <1>1, <2>1 DEF IInv, WorkInv, Alone
  <2>4. ASSUME NEW w \in Writers PROVE CallInv(w)'
    <3>1. AnyCall(w)' /\ (LoneCall(w) => LoneCall(w)')
      BY <1>1, <2>1 DEF IInv, CallInv, AnyCall, LoneCall, Active, Rows, Inserted
    <3> QED  BY <1>1, <2>1, <3>1 DEF IInv, CallInv
  <2> QED  BY <2>2, <2>3, <2>4 DEF IInv
<1>2. CASE UNCHANGED vars \/ OtherReads
  BY <1>1, <1>2 DEF vars, sqliteVars, OtherReads, OtherProcess
<1>3. ASSUME NEW w \in Writers, StoreNothing(w) PROVE IInv'
  <2>1. BatchRows(w) = {}
    BY <1>3 DEF StoreNothing, BatchRows
  <2> QED  BY <1>3, <2>1, ReturnKeeps DEF StoreNothing, sqliteVars, IInv, TypesInv
<1>4. ASSUME NEW w \in Writers, InsertFails(w) PROVE IInv'
  BY <1>4, ReturnKeeps DEF InsertFails, Inserting, sqliteVars, IInv, TypesInv
<1> QED
  BY <1>2, <1>3, <1>4, ConnectKeeps, BeginKeeps, SkipKeeps, InsertKeeps, CommitKeeps, CrashKeeps
     DEF Next

LEMMA IInvAlways == Spec => []IInv
BY InitIInv, NextIInv, PTL DEF Spec

(***************************************************************************)
(* The locks and the rows, durable or not.                                 *)
(***************************************************************************)
RowsInv ==
    /\ shared \subseteq Handles \cup {Other}
    /\ file \subseteq AllRows /\ work \subseteq AllRows

LEMMA InsertKeepsRows ==
    ASSUME IInv, RowsInv, NEW w \in Writers, Insert(w)
    PROVE  RowsInv' /\ file \subseteq file'
<1> DEFINE row == <<w, next[w][1], next[w][2]>>
<1>1. /\ Inserting(w) /\ ~Entry(w).empty
      /\ Write(StatementHandle(w), {row})
  BY DEF Insert
<1>2. row \in BatchRows(w)
  BY <1>1, AtEntry, RowOfBatch DEF Entry
<1>3. row \in AllRows
  BY <1>2 DEF AllRows
<1>4. StatementHandle(w) \in Handles
  BY <1>1, StatementHandleIs
<1>5. Rows(StatementHandle(w)) \subseteq AllRows
  BY DEF Rows, RowsInv
<1> HIDE DEF row
<1>6. work' \subseteq AllRows /\ file' \subseteq AllRows /\ file \subseteq file'
  BY <1>1, <1>3, <1>5 DEF Write, RowsInv
<1>7. shared' \subseteq Handles \cup {Other}
  BY <1>1, <1>4 DEF Write, RowsInv
<1> QED  BY <1>6, <1>7 DEF RowsInv

LEMMA NextRowsInv == IInv /\ RowsInv /\ [Next]_vars => RowsInv' /\ file \subseteq file'
<1> SUFFICES ASSUME IInv, RowsInv, [Next]_vars PROVE RowsInv' /\ file \subseteq file'
  OBVIOUS
(* Every step but Insert and Commit leaves the rows alone, and locks nothing. *)
<1>1. ASSUME file' = file, work' = work, shared' \subseteq shared
      PROVE  RowsInv' /\ file \subseteq file'
  BY <1>1 DEF RowsInv
<1>2. CASE UNCHANGED vars
  BY <1>1, <1>2 DEF vars, sqliteVars
<1>3. CASE OtherReads
  BY <1>3 DEF OtherReads, OtherProcess, RowsInv
<1>4. CASE Crash
  BY <1>1, <1>4 DEF Crash, CloseAll
<1>5. ASSUME NEW w \in Writers, StoreNothing(w) \/ SkipEntry(w) \/ InsertFails(w)
      PROVE  RowsInv' /\ file \subseteq file'
  BY <1>1, <1>5 DEF StoreNothing, SkipEntry, InsertFails, sqliteVars
<1>6. ASSUME NEW w \in Writers, Connect(w) PROVE RowsInv' /\ file \subseteq file'
  BY <1>1, <1>6 DEF Connect, ConnectOk, Release, sqliteVars
<1>7. ASSUME NEW w \in Writers, BeginTransaction(w) PROVE RowsInv' /\ file \subseteq file'
  BY <1>1, <1>7 DEF BeginTransaction, TransactionOk, TransactionFails, Release, sqliteVars
<1>8. ASSUME NEW w \in Writers, Commit(w) PROVE RowsInv' /\ file \subseteq file'
  <2>1. work' = work /\ shared' \subseteq shared /\ (file' = file \/ file' = Rows(database[Conn]))
    BY <1>8 DEF Commit, CommitOk, CommitFails, EndTransaction, Release, sqliteVars
  <2>2. file \subseteq file'
    BY <1>8, CommitKeeps
  <2> QED  BY <2>1, <2>2 DEF RowsInv, Rows
<1> QED  BY <1>2, <1>3, <1>4, <1>5, <1>6, <1>7, <1>8, InsertKeepsRows DEF Next

LEMMA RowsInvAlways == Spec => []RowsInv
<1>1. Init => RowsInv
  BY DEF Init, SQLiteInit, RowsInv
<1> QED  BY <1>1, NextRowsInv, IInvAlways, PTL DEF Spec

(* The variables keep their types, however calls overlap: whatever is in the file, or in
   the view of the handle that writes, is a row of some call. *)
THEOREM DatabaseStorageTypeOK == Spec => []TypeOK
<1>1. IInv /\ RowsInv => TypeOK
  <2> SUFFICES ASSUME IInv, RowsInv PROVE TypeOK
    OBVIOUS
  <2>1. next \in [Writers -> Nat \X Nat]
    BY DEF IInv, TypesInv
  <2> QED  BY <2>1 DEF IInv, TypesInv, RowsInv, TypeOK, SQLiteTypeOK
<1> QED  BY <1>1, IInvAlways, RowsInvAlways, PTL

(* No step takes a row out of the file: not a commit of a view that began before
   another handle wrote, not a rollback, and not a crash, however calls overlap. *)
THEOREM DurableRowsStay == Spec => [][file \subseteq file']_vars
BY NextRowsInv, IInvAlways, RowsInvAlways, PTL DEF Spec

(* A call of StoreEvent that no other overlaps is a transaction: through errors, crashes
   and retries its batch becomes durable as a whole, whatever the calls before and after
   it do. *)
THEOREM StoreEventIsAtomic == Spec => []BatchAtomic
<1>1. IInv => BatchAtomic
  BY DEF IInv, FileInv, BatchAtomic
<1> QED  BY <1>1, IInvAlways, PTL

(* What such a call reports as stored is in the file and stays there: no later call,
   rollback of a transaction left open, or crash takes it out. *)
THEOREM StoredIsDurableAlways == Spec => []StoredIsDurable
<1>1. IInv => StoredIsDurable
  BY DEF IInv, FileInv, StoredIsDurable
<1> QED  BY <1>1, IInvAlways, PTL

(* What such a call has inserted when it fails goes with its transaction, and no later
   commit makes it durable, not even of calls that overlap each other. *)
THEOREM FailedLeavesNothingAlways == Spec => []FailedLeavesNothing
<1>1. IInv => FailedLeavesNothing
  BY DEF IInv, FileInv, FailedLeavesNothing
<1> QED  BY <1>1, IInvAlways, PTL

(* As long as no two calls have overlapped the connection never has a second handle, so
   nothing that a failed call left open outlives the next Connect. *)
THEOREM NoLeakedHandleAlways == Spec => []NoLeakedHandle
<1>1. IInv => NoLeakedHandle
  BY DEF IInv
<1> QED  BY <1>1, IInvAlways, PTL

(* The lock is with a handle that is not the connection's any more. *)
LockLost == reserved # None /\ reserved # database[Conn]

LEMMA LockStaysLost ==
    ASSUME IInv, LockLost, [Next]_vars, ~Crash
    PROVE  LockLost' /\ UNCHANGED <<file, reserved>>
<1> USE DEF LockLost
<1>1. handle[reserved] = "begun" /\ reserved \in Handles
  BY DEF IInv, LockInv, TypesInv
<1>2. ASSUME UNCHANGED <<file, reserved, database>> PROVE LockLost' /\ UNCHANGED <<file, reserved>>
  BY <1>2
<1>3. CASE UNCHANGED vars
  BY <1>2, <1>3 DEF vars, sqliteVars
<1>4. CASE OtherReads
  BY <1>2, <1>4 DEF OtherReads, OtherProcess
<1>5. ASSUME NEW w \in Writers, StoreNothing(w) \/ SkipEntry(w) \/ InsertFails(w)
      PROVE  LockLost' /\ UNCHANGED <<file, reserved>>
  BY <1>2, <1>5 DEF StoreNothing, SkipEntry, InsertFails, sqliteVars
<1>6. ASSUME NEW w \in Writers, Connect(w)
      PROVE  LockLost' /\ UNCHANGED <<file, reserved>>
  <2>1. CASE UNCHANGED sqliteVars
    BY <1>2, <2>1 DEF sqliteVars
  <2>2. ASSUME NEW h \in Handles, ConnectOk(Conn, h, NoStatementsOn(database[Conn]))
        PROVE  LockLost' /\ UNCHANGED <<file, reserved>>
    <3>1. handle[h] = "closed" /\ database'[Conn] = h
      BY <2>2, ConnIn DEF ConnectOk, IInv, TypesInv
    <3>2. UNCHANGED <<file, reserved>>
      BY <2>2 DEF ConnectOk, Release
    <3> QED  BY <1>1, <3>1, <3>2
  <2> QED  BY <1>6, <2>1, <2>2 DEF Connect
<1>7. ASSUME NEW w \in Writers, BeginTransaction(w)
      PROVE  LockLost' /\ UNCHANGED <<file, reserved>>
  BY <1>2, <1>7 DEF BeginTransaction, TransactionOk, TransactionFails, Release, sqliteVars
<1>8. ASSUME NEW w \in Writers, Insert(w)
      PROVE  LockLost' /\ UNCHANGED <<file, reserved>>
  BY <1>1, <1>2, <1>8 DEF Insert, Write, WriterBusy
<1>9. ASSUME NEW w \in Writers, Commit(w)
      PROVE  LockLost' /\ UNCHANGED <<file, reserved>>
  BY <1>2, <1>9 DEF Commit, CommitOk, CommitFails, EndTransaction, Release, Rows, sqliteVars
<1> QED  BY <1>3, <1>4, <1>5, <1>6, <1>7, <1>8, <1>9 DEF Next

(* What an overlap may cost: when the connection has moved on from the handle that has
   the lock, no call stores anything any more until the process ends. *)
THEOREM LostLockStopsStoring ==
    Spec => [][LockLost => Crash \/ (LockLost' /\ UNCHANGED <<file, reserved>>)]_vars
BY LockStaysLost, IInvAlways, PTL DEF Spec

=============================================================================
