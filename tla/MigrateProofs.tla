---------------------------- MODULE MigrateProofs ----------------------------
(***************************************************************************)
(* Proofs about Migrate, for any releases, any number of processes that    *)
(* start together, die and start again, and any errors.                    *)
(***************************************************************************)
EXTENDS Migrate, FiniteSetTheorems, SequenceTheorems, WellFoundedInduction, TLAPS

Migration == [version : Nat, sql : STRING]

Texts(S) == {m.sql : m \in S}

InOrder(m) == \A j, k \in DOMAIN m : j < k => m[j].version <= m[k].version

KnownRows ==
    {TableRow} \cup {AppliedRow(m) : m \in Known} \cup {SchemaRow(m) : m \in Known}

TypesInv ==
    /\ file \cup work \subseteq KnownRows
    /\ shared \subseteq Handles \cup {Other}
    /\ starts \in 0..MaxStarts
    /\ reserved \in Handles \cup {None}
    /\ handle \in [Handles -> {"closed", "open", "begun"}]
    /\ database \in [Conns -> Handles \cup {None}]
    /\ transaction \in [Conns -> {"none", "live", "ended"}]
    /\ pc \in [Conns -> {"idle", "begin", "create", "read", "apply", "record", "rollback",
                         "ok", "error"}]
    /\ migrations \in [Conns -> Seq(Known)]
    /\ applied \in [Conns -> Seq(Migration)]
    /\ i \in [Conns -> Nat \ {0}]
    /\ \A p \in Conns : i[p] <= Len(migrations[p]) + 1 /\ InOrder(migrations[p])

Working == {"create", "read", "apply", "record"}

(* What each process has of its handle: a transaction that is begun is the one
   of its transaction_, and is there exactly while queries run in it. *)
HandleInv(p) ==
    /\ transaction[p] # "none" => database[p] # None
    /\ database[p] # None => handle[database[p]] # "closed"
    /\ pc[p] = "idle" => database[p] = None
    /\ pc[p] = "begin" => database[p] # None /\ transaction[p] = "none"
    /\ pc[p] \in Working => Active(p)
    /\ database[p] # None /\ handle[database[p]] = "begun" =>
          transaction[p] = "live" /\ pc[p] \in Working \cup {"rollback"}

Apart == \A p, q \in Conns : p # q /\ database[p] # None => database[p] # database[q]

WriterBegun ==
    reserved # None =>
        \E p \in Conns : database[p] = reserved /\ handle[reserved] = "begun"

(* What a process at label l, with the migrations m, the list a and the index k,
   knows of the rows it sees and of the file's. *)
Facts(l, m, a, k, rows, durable) ==
    /\ l = "read" => Applied(rows) = Applied(durable) /\ Schema(rows) = Schema(durable)
    /\ l \in {"apply", "record"} =>
          /\ Rising(a) /\ Range(a) = Applied(durable)
          /\ \A j \in 1..k-1 : j <= Len(a) => a[j] = m[j]
          /\ \A j, n \in 1..k-1 : j < n => m[j].version < m[n].version
          /\ Applied(rows) = Applied(durable) \cup {m[j] : j \in Len(a)+1..k-1}
    /\ l = "apply" => Schema(rows) = Texts(Applied(rows))
    /\ l = "record" =>
          /\ Schema(rows) = Texts(Applied(rows)) \cup {m[k].sql}
          /\ k <= Len(m) /\ k > Len(a)

(* What the process has listed and checked is still so: its SHARED lock keeps
   every other transaction from committing. *)
JobInv(p) ==
    /\ pc[p] = "create" => reserved # database[p]
    /\ pc[p] \in {"begin", "create", "read"} => i[p] = 1
    /\ pc[p] \in {"apply", "record"} => database[p] \in shared
    /\ pc[p] \in Working =>
          Facts(pc[p], migrations[p], applied[p], i[p], Rows(database[p]), file)

(* S are the first migrations of T. *)
FirstOf(S, T) == S \subseteq T /\ \A s \in S, t \in T \ S : s.version < t.version

OkInv(p) ==
    pc[p] = "ok" => Rising(migrations[p]) /\ FirstOf(Range(migrations[p]), Applied(file))

(* The list of what is recorded exists, and agrees with the schema. *)
FileInv ==
    /\ RecordedIffApplied
    /\ \E l \in Seq(Applied(file)) : Rising(l) /\ Range(l) = Applied(file)

IInv ==
    /\ TypesInv
    /\ Apart
    /\ WriterBegun
    /\ \A p \in Conns : HandleInv(p) /\ JobInv(p) /\ OkInv(p)
    /\ FileInv

(* What a step of process p leaves of the others, and who may write after it. *)
Elsewhere(p) ==
    /\ file' = file
    /\ \A q \in Conns \ {p} :
          /\ pc'[q] = pc[q] /\ migrations'[q] = migrations[q]
          /\ applied'[q] = applied[q] /\ i'[q] = i[q]
          /\ database'[q] = database[q] /\ transaction'[q] = transaction[q]
          /\ database[q] # None =>
                /\ handle'[database[q]] = handle[database[q]]
                /\ database[q] \in shared => database[q] \in shared'
                /\ reserved' = database[q] <=> reserved = database[q]
    /\ \/ reserved' = None
       \/ reserved' = database'[p] /\ handle'[reserved'] = "begun"
       \/ reserved' = reserved /\ work' = work /\ reserved # database[p]

-----------------------------------------------------------------------------
LEMMA NoneIsNoHandle == None \notin Handles
BY SQLiteConnectionAssumption DEF SQLiteConnectionAssumption

LEMMA KnownAreMigrations == Known \subseteq Migration
<1> SUFFICES ASSUME NEW list \in Releases PROVE Range(list) \subseteq Migration
  BY DEF Known
<1>1. list \in Seq(Migration)
  BY MigrateAssumption DEF MigrateAssumption, Migration
<1> QED  BY <1>1, RangeOfSeq

(* The rows of a migration, read back. *)
LEMMA RowsReadBack ==
    ASSUME NEW rows, NEW m \in Migration
    PROVE  /\ Applied(rows \cup {AppliedRow(m)}) = Applied(rows) \cup {m}
           /\ Schema(rows \cup {AppliedRow(m)}) = Schema(rows)
           /\ Applied(rows \cup {SchemaRow(m)}) = Applied(rows)
           /\ Schema(rows \cup {SchemaRow(m)}) = Schema(rows) \cup {m.sql}
<1> DEFINE InApplied(R, r) == \E x \in R : x[1] = "applied" /\ r = [version |-> x[2], sql |-> x[3]]
           InSchema(R, r) == \E x \in R : x[1] = "schema" /\ r = x[3]
<1>1. \A R, r : (r \in Applied(R) <=> InApplied(R, r)) /\ (r \in Schema(R) <=> InSchema(R, r))
  BY DEF Applied, Schema
<1>2. ASSUME NEW x, NEW r
      PROVE  /\ InApplied(rows \cup {x}, r) <=> InApplied(rows, r) \/ InApplied({x}, r)
             /\ InSchema(rows \cup {x}, r) <=> InSchema(rows, r) \/ InSchema({x}, r)
  OBVIOUS
<1>3. m = [version |-> m.version, sql |-> m.sql]
  BY DEF Migration
<1>4. ASSUME NEW r
      PROVE  /\ InApplied({AppliedRow(m)}, r) <=> r = m
             /\ ~InSchema({AppliedRow(m)}, r)
             /\ ~InApplied({SchemaRow(m)}, r)
             /\ InSchema({SchemaRow(m)}, r) <=> r = m.sql
  <2>1. /\ AppliedRow(m)[1] = "applied" /\ AppliedRow(m)[2] = m.version
        /\ AppliedRow(m)[3] = m.sql
        /\ SchemaRow(m)[1] = "schema" /\ SchemaRow(m)[3] = m.sql
    BY DEF AppliedRow, SchemaRow
  <2> QED  BY <1>3, <2>1
<1> HIDE DEF InApplied, InSchema
<1>5. Applied(rows \cup {AppliedRow(m)}) = Applied(rows) \cup {m}
  <2>1. \A r : r \in Applied(rows \cup {AppliedRow(m)}) <=> r \in Applied(rows) \cup {m}
    BY <1>1, <1>2, <1>4
  <2> QED  BY <2>1
<1>6. Schema(rows \cup {AppliedRow(m)}) = Schema(rows)
  <2>1. \A r : r \in Schema(rows \cup {AppliedRow(m)}) <=> r \in Schema(rows)
    BY <1>1, <1>2, <1>4
  <2> QED  BY <2>1
<1>7. Applied(rows \cup {SchemaRow(m)}) = Applied(rows)
  <2>1. \A r : r \in Applied(rows \cup {SchemaRow(m)}) <=> r \in Applied(rows)
    BY <1>1, <1>2, <1>4
  <2> QED  BY <2>1
<1>8. Schema(rows \cup {SchemaRow(m)}) = Schema(rows) \cup {m.sql}
  <2>1. \A r : r \in Schema(rows \cup {SchemaRow(m)}) <=> r \in Schema(rows) \cup {m.sql}
    BY <1>1, <1>2, <1>4
  <2> QED  BY <2>1
<1> QED  BY <1>5, <1>6, <1>7, <1>8

LEMMA TableIsNoMigration ==
    ASSUME NEW rows
    PROVE  /\ Applied(rows \cup {TableRow}) = Applied(rows)
           /\ Schema(rows \cup {TableRow}) = Schema(rows)
<1>1. TableRow[1] = "_migrations"
  BY DEF TableRow
<1>2. ASSUME NEW label, label # "_migrations"
      PROVE  {x \in rows \cup {TableRow} : x[1] = label} = {x \in rows : x[1] = label}
  BY <1>1, <1>2
<1> QED  BY <1>2 DEF Applied, Schema

(* Only the transaction that has the RESERVED lock sees other rows than the file's. *)
LEMMA WriterIsOne ==
    ASSUME IInv, NEW p \in Conns, reserved # None, database[p] = reserved
    PROVE  handle[database[p]] = "begun" /\ pc[p] \in Working \cup {"rollback"}
BY DEF IInv, WriterBegun, Apart, HandleInv

(* A step that leaves the others alone keeps what is known of them. *)
LEMMA OthersKeep ==
    ASSUME IInv, NEW p \in Conns, Elsewhere(p), Apart',
           TypesInv', HandleInv(p)', JobInv(p)', OkInv(p)'
    PROVE  IInv'
<1>1. ASSUME NEW q \in Conns, q # p PROVE HandleInv(q)' /\ JobInv(q)' /\ OkInv(q)'
  <2>1. HandleInv(q)'
    BY <1>1 DEF IInv, TypesInv, HandleInv, Elsewhere, Active
  <2>2. database[q] # None => Rows(database[q])' = Rows(database[q])
    BY <1>1, NoneIsNoHandle DEF Elsewhere, Rows, Apart, IInv
  <2>3. pc[q] \in Working => database[q] # None
    BY <1>1 DEF IInv, HandleInv, Active
  <2>4. JobInv(q)'
    <3>1. pc[q] \in Working =>
             /\ pc'[q] = pc[q] /\ migrations'[q] = migrations[q] /\ applied'[q] = applied[q]
             /\ i'[q] = i[q] /\ Rows(database[q])' = Rows(database[q]) /\ file' = file
      BY <1>1, <2>2, <2>3 DEF Elsewhere
    <3>2. pc[q] \in Working =>
             Facts(pc[q], migrations[q], applied[q], i[q], Rows(database[q]), file)'
      BY <3>1 DEF IInv, JobInv
    <3> QED  BY <1>1, <2>3, <3>2 DEF IInv, JobInv, Elsewhere, Working
  <2>5. OkInv(q)'
    BY <1>1 DEF IInv, OkInv, Elsewhere
  <2> QED  BY <2>1, <2>4, <2>5
<1>2. WriterBegun'
  <2>1. CASE reserved' = reserved /\ work' = work /\ reserved # database[p] /\ reserved # None
    <3>1. PICK q \in Conns : database[q] = reserved /\ handle[reserved] = "begun"
      BY <2>1 DEF IInv, WriterBegun
    <3> QED  BY <2>1, <3>1 DEF Elsewhere, WriterBegun
  <2> QED  BY <2>1 DEF Elsewhere, WriterBegun
<1>3. FileInv'
  BY DEF IInv, FileInv, Elsewhere, RecordedIffApplied
<1> QED  BY <1>1, <1>2, <1>3 DEF IInv

LEMMA InitIInv == Init => IInv
<1> SUFFICES ASSUME Init PROVE IInv
  OBVIOUS
<1> USE DEF Init, SQLiteInit
<1>1. TypesInv
  BY MigrateAssumption DEF TypesInv, InOrder, MigrateAssumption
<1>2. Apart /\ WriterBegun
  BY DEF Apart, WriterBegun
<1>3. \A p \in Conns : HandleInv(p) /\ JobInv(p) /\ OkInv(p)
  BY DEF HandleInv, JobInv, OkInv, Working
<1>4. Applied(file) = {} /\ Schema(file) = {}
  BY DEF Applied, Schema
<1>5. FileInv
  <2>1. <<>> \in Seq(Applied(file)) /\ Rising(<<>>) /\ Range(<<>>) = Applied(file)
    BY <1>4 DEF Rising, Range
  <2> QED  BY <1>4, <2>1 DEF FileInv, RecordedIffApplied
<1> QED  BY <1>1, <1>2, <1>3, <1>5 DEF IInv

-----------------------------------------------------------------------------
(***************************************************************************)
(* Sequences.                                                              *)
(***************************************************************************)
LEMMA SortedIsAList ==
    ASSUME NEW list \in Releases, NEW m \in Sorted(list)
    PROVE  m \in Seq(Known) /\ InOrder(m)
<1>1. list \in Seq(Migration)
  BY MigrateAssumption DEF MigrateAssumption, Migration
<1>2. PICK f \in Bijection(DOMAIN list, DOMAIN list) : m = [k \in DOMAIN list |-> list[f[k]]]
  BY DEF Sorted
<1>3. f \in [DOMAIN list -> DOMAIN list]
  BY DEF Bijection, Injection
<1>4. DOMAIN list = 1..Len(list) /\ Len(list) \in Nat
  BY <1>1
<1>5. \A k \in DOMAIN list : list[k] \in Known
  BY DEF Known, Range
<1>6. m \in [1..Len(list) -> Known]
  BY <1>2, <1>3, <1>4, <1>5
<1>7. m \in Seq(Known)
  BY <1>4, <1>6, IsASeq
<1> QED  BY <1>7 DEF Sorted, InOrder

(* The set T has a least number. *)
LEMMA LeastNumber ==
    ASSUME NEW T \in SUBSET Nat, T # {}
    PROVE  \E n \in T : \A k \in T : n <= k
<1> DEFINE Upto == {1..n : n \in T}
<1>1. Upto \subseteq FiniteSubsetsOf(Nat)
  <2> SUFFICES ASSUME NEW n \in T PROVE 1..n \in FiniteSubsetsOf(Nat)
    OBVIOUS
  <2>1. 1 \in Int /\ n \in Int
    OBVIOUS
  <2>2. IsFiniteSet(1..n)
    BY <2>1, FS_Interval
  <2> QED  BY <2>2 DEF FiniteSubsetsOf
<1>2. Upto # {}
  OBVIOUS
<1> HIDE DEF Upto
<1>5. IsWellFoundedOn(StrictSubsetOrdering(Nat), FiniteSubsetsOf(Nat))
  BY FS_StrictSubsetOrderingWellFounded
<1>6. PICK x \in Upto : \A y \in Upto : <<y, x>> \notin StrictSubsetOrdering(Nat)
  BY <1>1, <1>2, <1>5, WFMin
<1>3. PICK n \in T : x = 1..n
  BY DEF Upto
<1>4. ASSUME NEW k \in T, k < n PROVE FALSE
  <2>1. 1..k \in Upto /\ 1..k \subseteq 1..n /\ n \in 1..n /\ n \notin 1..k
    BY <1>4 DEF Upto
  <2>2. <<1..k, x>> \in StrictSubsetOrdering(Nat)
    BY <1>3, <2>1 DEF StrictSubsetOrdering
  <2> QED  BY <1>6, <2>1, <2>2
<1> QED  BY <1>4

LEMMA RisingAt ==
    ASSUME NEW l \in Seq(Migration), Rising(l), NEW j \in 1..Len(l), NEW k \in 1..Len(l), j < k
    PROVE  /\ l[j].version < l[k].version /\ l[j] # l[k]
           /\ l[j].version \in Nat /\ l[k].version \in Nat
<1>1. l[j] \in Migration /\ l[k] \in Migration /\ DOMAIN l = 1..Len(l)
  OBVIOUS
<1>2. l[j].version \in Nat /\ l[k].version \in Nat
  BY <1>1 DEF Migration
<1>3. l[j].version < l[k].version
  BY <1>1 DEF Rising
<1> QED  BY <1>2, <1>3

(* Two rising lists, of which one has the first elements of the other. *)
LEMMA FirstOfIsPrefix ==
    ASSUME NEW l \in Seq(Migration), NEW m \in Seq(Migration), Rising(l), Rising(m),
           FirstOf(Range(m), Range(l))
    PROVE  IsPrefix(m, l)
<1>0. \A x \in Migration : x.version \in Nat
  BY DEF Migration
<1>1. /\ DOMAIN l = 1..Len(l) /\ Len(l) \in Nat /\ DOMAIN m = 1..Len(m) /\ Len(m) \in Nat
      /\ \A k \in 1..Len(l) : l[k] \in Migration
      /\ \A k \in 1..Len(m) : m[k] \in Migration
  OBVIOUS
<1> DEFINE Bad == {k \in 1..Len(m) : ~(k <= Len(l) /\ l[k] = m[k])}
<1>2. Bad = {}
  <2> SUFFICES ASSUME Bad # {} PROVE FALSE
    OBVIOUS
  <2>0. Bad \in SUBSET Nat
    OBVIOUS
  <2> HIDE DEF Bad
  <2>1. PICK k \in Bad : \A j \in Bad : k <= j
    BY <2>0, LeastNumber
  <2>2. k \in 1..Len(m) /\ \A j \in 1..k-1 : j <= Len(l) /\ l[j] = m[j]
    BY <1>0, <1>1, <2>1 DEF Bad
  <2>3. PICK j \in 1..Len(l) : l[j] = m[k]
    BY <1>0, <1>1, <2>2 DEF FirstOf, Range
  <2>4. j >= k
    <3> SUFFICES ASSUME j < k PROVE FALSE
      BY <1>0, <1>1, <2>2
    <3>1. m[j] = m[k] /\ j \in 1..Len(m)
      BY <1>1, <2>2, <2>3
    <3> QED  BY <2>2, <3>1, RisingAt
  <2>5. j > k
    BY <1>0, <1>1, <2>1, <2>2, <2>3, <2>4 DEF Bad
  <2>6. l[k].version < m[k].version /\ k \in 1..Len(l)
    BY <1>0, <1>1, <2>2, <2>3, <2>5 DEF Rising
  <2>7. CASE l[k] \in Range(m)
    <3>1. PICK n \in 1..Len(m) : m[n] = l[k]
      BY <1>0, <1>1, <2>7 DEF Range
    <3>2. CASE n < k
      <4>1. l[n] = l[k] /\ l[n].version < l[k].version
        <5>1. n \in 1..Len(l) /\ l[n] = l[k]
          BY <1>1, <2>2, <2>6, <3>1, <3>2
        <5> QED  BY <2>6, <3>2, <5>1, RisingAt
      <4> QED  BY <1>0, <1>1, <2>6, <4>1
    <3>3. CASE n > k
      <4>1. m[k].version < m[n].version /\ m[k].version \in Nat /\ m[n].version \in Nat
        BY <2>2, <3>1, <3>3, RisingAt
      <4> QED  BY <2>6, <3>1, <4>1
    <3>4. CASE n = k
      BY <1>0, <1>1, <2>2, <2>6, <3>1, <3>4
    <3> QED  BY <1>0, <1>1, <2>2, <3>2, <3>3, <3>4
  <2>8. CASE l[k] \notin Range(m)
    <3>1. m[k] \in Range(m) /\ l[k] \in Range(l)
      BY <1>0, <1>1, <2>2, <2>6 DEF Range
    <3>2. m[k].version < l[k].version
      BY <2>8, <3>1 DEF FirstOf
    <3> QED  BY <1>0, <1>1, <2>2, <2>6, <3>2
  <2> QED  BY <2>7, <2>8
<1>3. \A k \in 1..Len(m) : k <= Len(l) /\ l[k] = m[k]
  BY <1>2
<1>4. Len(m) <= Len(l)
  <2>1. CASE Len(m) = 0
    BY <1>0, <1>1, <2>1
  <2>2. CASE Len(m) # 0
    BY <1>1, <1>3, <2>2
  <2> QED  BY <2>1, <2>2
<1>5. SubSeq(m, 1, Len(m)) = [k \in 1..Len(m) |-> m[k]] /\ SubSeq(l, 1, Len(m)) = [k \in 1..Len(m) |-> l[k]]
  BY <1>1, <1>4
<1> QED  BY <1>3, <1>4, <1>5 DEF IsPrefix

(* The list that GetAppliedMigrations returns is the one there is. *)
LEMMA AppliedListIs ==
    ASSUME NEW rows, Applied(rows) \subseteq Migration,
           NEW l \in Seq(Applied(rows)), Rising(l), Range(l) = Applied(rows)
    PROVE  LET a == AppliedList(rows)
           IN  a \in Seq(Migration) /\ Rising(a) /\ Range(a) = Applied(rows)
<1> DEFINE A == Applied(rows)
<1>1. DOMAIN l = 1..Len(l) /\ Len(l) \in Nat /\ \A k \in 1..Len(l) : l[k] \in A /\ l[k] \in Migration
  OBVIOUS
<1>2. \A j, k \in 1..Len(l) : j # k => l[j] # l[k]
  <2> SUFFICES ASSUME NEW j \in 1..Len(l), NEW k \in 1..Len(l), j < k PROVE l[j] # l[k]
    BY <1>1
  <2> QED  BY <1>1, RisingAt
<1>3. l \in Bijection(1..Len(l), A)
  BY <1>1, <1>2 DEF Range, Bijection, Injection, Surjection, IsInjective
<1>4. Cardinality(A) = Len(l)
  BY <1>1, <1>3, FS_CountingElements DEF ExistsBijection
<1>5. l \in [1..Cardinality(A) -> A] /\ Rising(l)
  BY <1>1, <1>4
<1>6. AppliedList(rows) \in [1..Cardinality(A) -> A] /\ Rising(AppliedList(rows))
  BY <1>5 DEF AppliedList
<1> HIDE DEF A
<1> DEFINE a == AppliedList(rows)
<1>7. a \in [1..Len(l) -> A] /\ Rising(a)
  BY <1>4, <1>6
<1> HIDE DEF a
<1>8. \A j, k \in 1..Len(l) : j # k => a[j] # a[k]
  <2>1. a \in Seq(Migration) /\ Len(a) = Len(l)
    <3>1. a \in [1..Len(l) -> Migration]
      BY <1>7 DEF A
    <3> QED  BY <1>1, <3>1
  <2> SUFFICES ASSUME NEW j \in 1..Len(l), NEW k \in 1..Len(l), j < k PROVE a[j] # a[k]
    BY <1>1
  <2> QED  BY <1>7, <2>1, RisingAt
<1>9. a \in Injection(1..Len(l), A)
  BY <1>7, <1>8 DEF Injection, IsInjective
<1>10. \A x \in A : \E k \in 1..Len(l) : a[k] = x
  <2>1. IsFiniteSet(1..Len(l)) /\ Cardinality(1..Len(l)) = Len(l)
    BY <1>1, FS_Interval
  <2>2. IsFiniteSet(A)
    BY <1>1, <1>3, FS_NatBijection DEF ExistsBijection
  <2>3. a \in Surjection(1..Len(l), A)
    BY <1>4, <1>9, <2>1, <2>2, FS_Injection
  <2> QED  BY <2>3 DEF Surjection
<1>11. a \in Seq(A) /\ A \subseteq Migration
  BY <1>1, <1>7, IsASeq DEF A
<1>12. a \in Seq(Migration)
  BY <1>11, SeqMonotonic
<1>13. Range(a) = A
  BY <1>7, <1>10 DEF Range
<1> QED  BY <1>7, <1>12, <1>13 DEF a, A

LEMMA AppliedAreMigrations ==
    ASSUME TypesInv, NEW rows, rows \subseteq file \cup work
    PROVE  Applied(rows) \subseteq Migration
<1> SUFFICES ASSUME NEW r \in rows, r[1] = "applied"
             PROVE  [version |-> r[2], sql |-> r[3]] \in Migration
  BY DEF Applied
<1>1. r \in KnownRows
  BY DEF TypesInv
<1>2. TableRow[1] # "applied" /\ \A m : SchemaRow(m)[1] # "applied"
  BY DEF TableRow, SchemaRow
<1>3. PICK m \in Known : r = AppliedRow(m)
  BY <1>1, <1>2 DEF KnownRows
<1>4. m.version \in Nat /\ m.sql \in STRING
  BY KnownAreMigrations DEF Migration
<1> QED  BY <1>3, <1>4 DEF AppliedRow, Migration

-----------------------------------------------------------------------------
(***************************************************************************)
(* The steps.                                                              *)
(***************************************************************************)
(* A write of the transaction's owner: it sees its own rows beside the file's. *)
LEMMA WriteOwn ==
    ASSUME IInv, NEW p \in Conns, pc[p] \in Working, NEW rows, Write(database[p], rows)
    PROVE  /\ reserved \in {None, database[p]} /\ reserved' = database[p]
           /\ shared' = shared \cup {database[p]}
           /\ work' = Rows(database[p]) \cup rows
           /\ UNCHANGED <<file, handle, database, transaction>>
           /\ Rows(database[p])' = Rows(database[p]) \cup rows
<1>1. handle[database[p]] = "begun"
  BY DEF IInv, HandleInv, Active
<1>2. /\ reserved \in {None, database[p]} /\ reserved' = database[p]
      /\ shared' = shared \cup {database[p]}
      /\ work' = Rows(database[p]) \cup rows
      /\ UNCHANGED <<file, handle, database, transaction>>
  BY <1>1 DEF Write, WriterBusy
<1> QED  BY <1>2 DEF Rows

(* A query takes the process from one label to the next, with its list and index. *)
Queries(p, l, a, k) ==
    /\ pc[p] \in Working /\ l \in Working \cup {"rollback"} /\ Goto(p, l)
    /\ applied' = [applied EXCEPT ![p] = a] /\ i' = [i EXCEPT ![p] = k]
    /\ UNCHANGED <<file, handle, database, transaction, migrations, starts>>
    /\ \/ \E rows : Write(database[p], rows)
       \/ Read(database[p])
       \/ UNCHANGED sqliteVars

(* A step of a process with queries moves its own locks and rows only. *)
LEMMA QueryStep ==
    ASSUME IInv, NEW p \in Conns, NEW l, NEW a, NEW k, Queries(p, l, a, k)
    PROVE  /\ Elsewhere(p) /\ Apart' /\ HandleInv(p)' /\ OkInv(p)'
           /\ pc' \in [Conns -> {"idle", "begin", "create", "read", "apply", "record",
                                 "rollback", "ok", "error"}]
           /\ pc'[p] = l /\ applied'[p] = a /\ i'[p] = k
           /\ reserved' \in Handles \cup {None}
           /\ shared \subseteq shared' /\ shared' \subseteq Handles \cup {Other}
<1> USE DEF Queries
<1>1. Active(p) /\ database[p] # None /\ database[p] \in Handles
  BY DEF IInv, HandleInv, Active, TypesInv
<1>2. /\ pc' = [pc EXCEPT ![p] = l]
      /\ pc \in [Conns -> {"idle", "begin", "create", "read", "apply", "record",
                           "rollback", "ok", "error"}]
  BY DEF Goto, IInv, TypesInv
<1>3. applied \in [Conns -> Seq(Migration)] /\ i \in [Conns -> Nat \ {0}]
  BY DEF IInv, TypesInv
<1>4. /\ shared \subseteq shared' /\ shared' \subseteq shared \cup {database[p]}
      /\ \/ reserved' = database[p] /\ reserved \in {None, database[p]}
         \/ reserved' = reserved /\ work' = work
  <2>1. CASE \E rows : Write(database[p], rows)
    BY <2>1, WriteOwn
  <2>2. CASE Read(database[p]) \/ UNCHANGED sqliteVars
    BY <2>2 DEF Read, sqliteVars
  <2> QED  BY <2>1, <2>2
<1>5. Apart'
  BY DEF IInv, Apart
<1>6. HandleInv(p)'
  BY <1>1, <1>2 DEF HandleInv, Active, Working
<1>7. pc'[p] = l /\ applied'[p] = a /\ i'[p] = k
  BY <1>2, <1>3
<1>8. OkInv(p)'
  BY <1>7 DEF OkInv, Working
<1>9. reserved' \in Handles \cup {None}
  BY <1>1, <1>4 DEF IInv, TypesInv
<1>10. \/ reserved' = None
       \/ reserved' = database'[p] /\ handle'[reserved'] = "begun"
       \/ reserved' = reserved /\ work' = work /\ reserved # database[p]
  BY <1>1, <1>4 DEF Active
<1>11. ASSUME NEW q \in Conns \ {p}
       PROVE  /\ pc'[q] = pc[q] /\ migrations'[q] = migrations[q]
              /\ applied'[q] = applied[q] /\ i'[q] = i[q]
              /\ database'[q] = database[q] /\ transaction'[q] = transaction[q]
              /\ database[q] # None =>
                    /\ handle'[database[q]] = handle[database[q]]
                    /\ database[q] \in shared => database[q] \in shared'
                    /\ reserved' = database[q] <=> reserved = database[q]
  BY <1>1, <1>2, <1>3, <1>4, <1>11 DEF IInv, Apart
<1>12. Elsewhere(p)
  BY <1>10, <1>11 DEF Elsewhere
<1>13. shared' \subseteq Handles \cup {Other}
  BY <1>1, <1>4 DEF IInv, TypesInv
<1>14. pc' \in [Conns -> {"idle", "begin", "create", "read", "apply", "record",
                         "rollback", "ok", "error"}]
  BY <1>2 DEF Working
<1>15. shared \subseteq shared'
  BY <1>4
<1> QED  BY <1>5, <1>6, <1>7, <1>8, <1>9, <1>12, <1>13, <1>14, <1>15

LEMMA Unmoved ==
    ASSUME IInv, NEW p \in Conns
    PROVE  /\ applied = [applied EXCEPT ![p] = applied[p]]
           /\ i = [i EXCEPT ![p] = i[p]]
BY DEF IInv, TypesInv

LEMMA QueryTypes ==
    ASSUME IInv, NEW p \in Conns, NEW l, NEW a \in Seq(Migration), NEW k \in Nat \ {0},
           k <= Len(migrations[p]) + 1, Queries(p, l, a, k), file' \cup work' \subseteq KnownRows
    PROVE  TypesInv'
<1> USE DEF IInv, TypesInv
<1>1. /\ file' = file /\ handle' = handle /\ database' = database
      /\ transaction' = transaction /\ migrations' = migrations /\ starts' = starts
      /\ applied' = [applied EXCEPT ![p] = a] /\ i' = [i EXCEPT ![p] = k]
  BY DEF Queries
<1>2. applied' \in [Conns -> Seq(Migration)] /\ i' \in [Conns -> Nat \ {0}]
  BY <1>1
<1>3. \A q \in Conns : i'[q] <= Len(migrations'[q]) + 1 /\ InOrder(migrations'[q])
  BY <1>1
<1>4. /\ pc' \in [Conns -> {"idle", "begin", "create", "read", "apply", "record",
                            "rollback", "ok", "error"}]
      /\ reserved' \in Handles \cup {None} /\ shared' \subseteq Handles \cup {Other}
  BY QueryStep
<1>5. (\A q \in Conns : i[q] <= Len(migrations[q]) + 1 /\ InOrder(migrations[q]))'
  BY <1>1, <1>3
<1> QED  BY <1>1, <1>2, <1>4, <1>5

LEMMA QueryFailsKeeps ==
    ASSUME IInv, NEW p \in Conns, QueryFails(p)
    PROVE  IInv'
<1>1. UNCHANGED sqliteVars /\ Queries(p, "rollback", applied[p], i[p])
  BY Unmoved DEF QueryFails, Queries, Working, sqliteVars
<1>2. pc'[p] = "rollback"
  BY <1>1, QueryStep
<1>3. JobInv(p)'
  BY <1>2 DEF JobInv, Working
<1>4. TypesInv'
  <2>1. /\ applied[p] \in Seq(Migration) /\ i[p] \in Nat \ {0}
        /\ i[p] <= Len(migrations[p]) + 1 /\ file' \cup work' \subseteq KnownRows
    BY <1>1 DEF IInv, TypesInv, sqliteVars
  <2> QED  BY <1>1, <2>1, QueryTypes
<1> QED  BY <1>1, <1>3, <1>4, QueryStep, OthersKeep

LEMMA CreateKeeps ==
    ASSUME IInv, NEW p \in Conns, CreateMigrationsTable(p)
    PROVE  IInv'
<1>1. Queries(p, "read", applied[p], i[p])
  <2>1. pc[p] \in Working /\ Goto(p, "read") /\ UNCHANGED <<migrations, applied, i, starts>>
    BY DEF CreateMigrationsTable, Working
  <2>2. CASE Read(database[p])
    BY <2>1, <2>2, Unmoved DEF Queries, Read, Working
  <2>3. CASE Write(database[p], {TableRow})
    BY <2>1, <2>3, WriteOwn, Unmoved DEF Queries, Working
  <2> QED  BY <2>2, <2>3 DEF CreateMigrationsTable
<1>2. pc[p] = "create" /\ reserved # database[p] /\ Rows(database[p]) = file
  BY DEF CreateMigrationsTable, IInv, JobInv, Rows, Working
<1>3. /\ file' = file /\ work' \subseteq work \cup file \cup {TableRow}
      /\ Rows(database[p])' \in {file, file \cup {TableRow}}
  <2>1. CASE Read(database[p])
    BY <1>2, <2>1 DEF Read, Rows
  <2>2. CASE Write(database[p], {TableRow})
    <3>1. pc[p] \in Working
      BY <1>2 DEF Working
    <3> QED  BY <1>2, <2>2, <3>1, WriteOwn
  <2> QED  BY <2>1, <2>2 DEF CreateMigrationsTable
<1>4. Applied(file \cup {TableRow}) = Applied(file) /\ Schema(file \cup {TableRow}) = Schema(file)
  BY TableIsNoMigration
<1>5. pc'[p] = "read" /\ i'[p] = 1
  <2>1. i[p] = 1
    BY <1>2 DEF IInv, JobInv
  <2> QED  BY <1>1, <2>1, QueryStep
<1>6. JobInv(p)'
  <2>1. Applied(Rows(database[p])') = Applied(file') /\ Schema(Rows(database[p])') = Schema(file')
    BY <1>3, <1>4
  <2> QED  BY <1>5, <2>1 DEF JobInv, Facts
<1>7. TypesInv'
  <2>1. file' \cup work' \subseteq KnownRows
    BY <1>3 DEF IInv, TypesInv, KnownRows
  <2>2. /\ applied[p] \in Seq(Migration) /\ i[p] \in Nat \ {0}
        /\ i[p] <= Len(migrations[p]) + 1
    BY DEF IInv, TypesInv
  <2> QED  BY <1>1, <2>1, <2>2, QueryTypes
<1> QED  BY <1>1, <1>6, <1>7, QueryStep, OthersKeep

LEMMA ReadKeeps ==
    ASSUME IInv, NEW p \in Conns, GetAppliedMigrations(p)
    PROVE  IInv'
<1> DEFINE h == database[p]
           a == AppliedList(Rows(h))
<1>1. pc[p] = "read" /\ Read(h) /\ Queries(p, "apply", a, i[p])
  BY Unmoved DEF GetAppliedMigrations, Queries, Read, Working
<1>2. /\ Applied(Rows(h)) = Applied(file) /\ Schema(Rows(h)) = Schema(file)
      /\ i[p] = 1 /\ handle[h] = "begun"
  BY <1>1 DEF IInv, JobInv, Facts, Working, HandleInv, Active
<1>3. a \in Seq(Migration) /\ Rising(a) /\ Range(a) = Applied(file)
  <2>1. Applied(file) \subseteq Migration
    BY AppliedAreMigrations DEF IInv
  <2>2. PICK l \in Seq(Applied(file)) : Rising(l) /\ Range(l) = Applied(file)
    BY DEF IInv, FileInv
  <2> QED  BY <1>2, <2>1, <2>2, AppliedListIs
<1> HIDE DEF a
<1>4. pc'[p] = "apply" /\ applied'[p] = a /\ i'[p] = i[p]
  BY <1>1, QueryStep
<1>5. file' = file /\ work' = work /\ migrations' = migrations /\ Rows(h)' = Rows(h) /\ h' = h /\ h \in shared'
  BY <1>1, <1>2 DEF Read, Rows, Queries
<1>6. Facts("apply", migrations[p], a, 1, Rows(h), file)
  <2>1. Len(a) + 1..1 - 1 = {}
    BY <1>3
  <2>2. Schema(Rows(h)) = Texts(Applied(Rows(h)))
    BY <1>2 DEF IInv, FileInv, RecordedIffApplied, Texts
  <2> QED  BY <1>2, <1>3, <2>1, <2>2 DEF Facts
<1>7. JobInv(p)'
  BY <1>2, <1>4, <1>5, <1>6 DEF JobInv
<1>8. TypesInv'
  <2>1. /\ i[p] \in Nat \ {0} /\ i[p] <= Len(migrations[p]) + 1
        /\ file' \cup work' \subseteq KnownRows
    BY <1>5 DEF IInv, TypesInv
  <2> QED  BY <1>1, <1>3, <2>1, QueryTypes
<1> QED  BY <1>1, <1>7, <1>8, QueryStep, OthersKeep

LEMMA CheckKeeps ==
    ASSUME IInv, NEW p \in Conns, CheckApplied(p)
    PROVE  IInv'
<1> DEFINE h == database[p]
           a == applied[p]
           m == migrations[p]
           k == i[p]
<1>1. /\ pc[p] = "apply" /\ k <= Len(m) /\ k <= Len(a) /\ UNCHANGED sqliteVars
      /\ a \in Seq(Migration) /\ m \in Seq(Migration) /\ k \in Nat \ {0}
  <2>1. m \in Seq(Migration)
    BY KnownAreMigrations, SeqMonotonic DEF IInv, TypesInv
  <2> QED  BY <2>1 DEF CheckApplied, IInv, TypesInv
<1>2. Facts("apply", m, a, k, Rows(h), file)
  BY <1>1 DEF IInv, JobInv, Working
<1>3. h \in shared
  BY <1>1 DEF IInv, JobInv
<1>4. ASSUME NEW l, NEW n \in Nat \ {0}, Queries(p, l, a, n), n <= Len(m) + 1,
             l \in {"apply", "rollback"}, l = "apply" => Facts("apply", m, a, n, Rows(h), file)
      PROVE  IInv'
  <2>1. pc'[p] = l /\ applied'[p] = a /\ i'[p] = n /\ shared' = shared
    BY <1>1, <1>4, QueryStep DEF sqliteVars
  <2>2. file' = file /\ work' = work /\ migrations' = migrations /\ Rows(h)' = Rows(h) /\ h' = h
    BY <1>1 DEF sqliteVars, Rows, CheckApplied
  <2>3. JobInv(p)'
    BY <1>3, <1>4, <2>1, <2>2 DEF JobInv, Working
  <2>4. file' \cup work' \subseteq KnownRows
    BY <2>2 DEF IInv, TypesInv
  <2>5. TypesInv'
    BY <1>1, <1>4, <2>4, QueryTypes
  <2> QED  BY <1>4, <2>3, <2>5, QueryStep, OthersKeep
<1>5. CASE Matches(p)
  <2>1. Queries(p, "apply", a, k + 1)
    BY <1>1, <1>5, Unmoved DEF CheckApplied, Queries, Working, Goto, sqliteVars, IInv, TypesInv
  <2>2. Facts("apply", m, a, k + 1, Rows(h), file)
    <3>1. \A j \in 1..k+1-1 : j <= Len(a) => a[j] = m[j]
      BY <1>1, <1>2, <1>5 DEF Facts, Matches
    <3>2. \A j, n \in 1..k+1-1 : j < n => m[j].version < m[n].version
      <4> SUFFICES ASSUME NEW j \in 1..k, NEW n \in 1..k, j < n
                   PROVE  m[j].version < m[n].version
        BY <1>1
      <4>1. a[j].version < a[n].version
        <5>1. Rising(a) /\ j \in 1..Len(a) /\ n \in 1..Len(a)
          BY <1>1, <1>2 DEF Facts
        <5> QED  BY <1>1, <5>1, RisingAt
      <4> QED  BY <1>1, <3>1, <4>1
    <3>3. Len(a)+1..k-1 = {} /\ Len(a)+1..k+1-1 = {}
      BY <1>1
    <3>4. {m[j] : j \in Len(a)+1..k+1-1} = {m[j] : j \in Len(a)+1..k-1}
      BY <3>3
    <3>5. /\ Rising(a) /\ Range(a) = Applied(file)
          /\ Applied(Rows(h)) = Applied(file) \cup {m[j] : j \in Len(a)+1..k+1-1}
          /\ Schema(Rows(h)) = Texts(Applied(Rows(h)))
      BY <1>2, <3>4 DEF Facts
    <3> QED  BY <1>1, <3>1, <3>2, <3>5 DEF Facts
  <2> QED  BY <1>1, <1>4, <2>1, <2>2
<1>6. CASE ~Matches(p)
  <2>1. Queries(p, "rollback", a, k)
    BY <1>1, <1>6, Unmoved DEF CheckApplied, Queries, Working, sqliteVars
  <2> QED  BY <1>1, <1>4, <2>1
<1> QED  BY <1>5, <1>6

LEMMA ApplySqlKeeps ==
    ASSUME IInv, NEW p \in Conns, ApplyMigrationSql(p)
    PROVE  IInv'
<1> DEFINE h == database[p]
           a == applied[p]
           m == migrations[p]
           k == i[p]
<1>1. /\ pc[p] = "apply" /\ Pending(p) /\ Write(h, {SchemaRow(m[k])})
      /\ a \in Seq(Migration) /\ m \in Seq(Known) /\ k \in Nat \ {0} /\ k <= Len(m) + 1
  BY DEF ApplyMigrationSql, IInv, TypesInv
<1>2. pc[p] \in Working
  BY <1>1 DEF Working
<1>3. Queries(p, "record", a, k)
  BY <1>1, <1>2, WriteOwn, Unmoved DEF ApplyMigrationSql, Queries, Working
<1>4. Facts("apply", m, a, k, Rows(h), file) /\ h \in shared
  BY <1>1, <1>2 DEF IInv, JobInv
<1>5. k <= Len(m) /\ k > Len(a) /\ m[k] \in Known /\ m[k] \in Migration
  BY <1>1, KnownAreMigrations DEF Pending
<1>6. /\ Rows(h)' = Rows(h) \cup {SchemaRow(m[k])} /\ file' = file
      /\ work' = Rows(h) \cup {SchemaRow(m[k])} /\ h' = h
  BY <1>1, <1>2, WriteOwn
<1>7. Facts("record", m, a, k, Rows(h) \cup {SchemaRow(m[k])}, file)
  <2>1. /\ Applied(Rows(h) \cup {SchemaRow(m[k])}) = Applied(Rows(h))
        /\ Schema(Rows(h) \cup {SchemaRow(m[k])}) = Schema(Rows(h)) \cup {m[k].sql}
    BY <1>5, RowsReadBack
  <2> QED  BY <1>4, <1>5, <2>1 DEF Facts
<1>8. /\ pc'[p] = "record" /\ applied'[p] = a /\ i'[p] = k /\ shared \subseteq shared'
      /\ migrations' = migrations
  BY <1>3, QueryStep DEF Queries
<1>9. JobInv(p)'
  <2>1. Facts(pc[p], migrations[p], applied[p], i[p], Rows(h), file)'
    BY <1>6, <1>7, <1>8
  <2> QED  BY <1>4, <1>6, <1>8, <2>1 DEF JobInv
<1>10. TypesInv'
  <2>1. file' \cup work' \subseteq KnownRows
    BY <1>5, <1>6 DEF IInv, TypesInv, Rows, KnownRows
  <2> QED  BY <1>1, <1>3, <2>1, QueryTypes
<1> QED  BY <1>3, <1>9, <1>10, QueryStep, OthersKeep

LEMMA RecordKeeps ==
    ASSUME IInv, NEW p \in Conns, RecordMigration(p)
    PROVE  IInv'
<1> DEFINE h == database[p]
           a == applied[p]
           m == migrations[p]
           k == i[p]
<1>1. /\ pc[p] = "record" /\ Write(h, {AppliedRow(m[k])})
      /\ a \in Seq(Migration) /\ m \in Seq(Known) /\ k \in Nat \ {0} /\ InOrder(m)
  BY DEF RecordMigration, IInv, TypesInv
<1>2. pc[p] \in Working
  BY <1>1 DEF Working
<1>3. Queries(p, "apply", a, k + 1)
  BY <1>1, <1>2, WriteOwn, Unmoved DEF RecordMigration, Queries, Working
<1>4. Facts("record", m, a, k, Rows(h), file) /\ h \in shared
  BY <1>1, <1>2 DEF IInv, JobInv
<1>5. k <= Len(m) /\ k > Len(a) /\ m[k] \in Known /\ m[k] \in Migration
  <2>1. k <= Len(m) /\ k > Len(a)
    BY <1>4 DEF Facts
  <2> QED  BY <1>1, <2>1, KnownAreMigrations
<1>6. /\ Rows(h)' = Rows(h) \cup {AppliedRow(m[k])} /\ file' = file
      /\ work' = Rows(h) \cup {AppliedRow(m[k])} /\ h' = h
  BY <1>1, <1>2, WriteOwn
<1>7. Facts("apply", m, a, k + 1, Rows(h) \cup {AppliedRow(m[k])}, file)
  <2>1. /\ Applied(Rows(h) \cup {AppliedRow(m[k])}) = Applied(Rows(h)) \cup {m[k]}
        /\ Schema(Rows(h) \cup {AppliedRow(m[k])}) = Schema(Rows(h))
    BY <1>5, RowsReadBack
  <2>2. \A x \in Applied(Rows(h)) : x.version # m[k].version
    BY DEF RecordMigration, Applied
  <2>3. \A j \in 1..k-1 : m[j] \in Applied(Rows(h))
    <3> SUFFICES ASSUME NEW j \in 1..k-1 PROVE m[j] \in Applied(Rows(h))
      OBVIOUS
    <3>1. CASE j <= Len(a)
      <4>1. m[j] = a[j] /\ a[j] \in Range(a)
        BY <1>1, <1>4, <3>1 DEF Facts, Range
      <4> QED  BY <1>4, <4>1 DEF Facts
    <3>2. CASE j > Len(a)
      <4>1. j \in Len(a)+1..k-1
        BY <1>1, <3>2
      <4> QED  BY <1>4, <4>1 DEF Facts
    <3> QED  BY <1>1, <3>1, <3>2
  <2>4. \A j, n \in 1..k+1-1 : j < n => m[j].version < m[n].version
    <3> SUFFICES ASSUME NEW j \in 1..k, NEW n \in 1..k, j < n PROVE m[j].version < m[n].version
      BY <1>1
    <3>1. CASE n < k
      BY <1>1, <1>4, <3>1 DEF Facts
    <3>2. CASE n = k
      <4>1. m[j].version # m[k].version /\ m[j].version <= m[k].version
        BY <1>1, <1>5, <2>2, <2>3, <3>2 DEF InOrder
      <4>2. m[j] \in Migration
        BY <1>1, <1>5, KnownAreMigrations
      <4> QED  BY <1>5, <3>2, <4>1, <4>2 DEF Migration
    <3> QED  BY <1>1, <3>1, <3>2
  <2>5. {m[j] : j \in Len(a)+1..k+1-1} = {m[j] : j \in Len(a)+1..k-1} \cup {m[k]}
    <3>1. Len(a)+1..k+1-1 = Len(a)+1..k-1 \cup {k}
      BY <1>1, <1>5
    <3> QED  BY <3>1
  <2>6. \A j \in 1..k+1-1 : j <= Len(a) => a[j] = m[j]
    BY <1>1, <1>4, <1>5 DEF Facts
  <2>7. Texts(Applied(Rows(h)) \cup {m[k]}) = Texts(Applied(Rows(h))) \cup {m[k].sql}
    BY DEF Texts
  <2>8. Applied(Rows(h) \cup {AppliedRow(m[k])})
           = Applied(file) \cup {m[j] : j \in Len(a)+1..k+1-1}
    <3>1. Applied(Rows(h)) = Applied(file) \cup {m[j] : j \in Len(a)+1..k-1}
      BY <1>4 DEF Facts
    <3> QED  BY <2>1, <2>5, <3>1
  <2>9. Schema(Rows(h) \cup {AppliedRow(m[k])}) = Texts(Applied(Rows(h) \cup {AppliedRow(m[k])}))
    <3>1. Schema(Rows(h)) = Texts(Applied(Rows(h))) \cup {m[k].sql}
      BY <1>4 DEF Facts
    <3> QED  BY <2>1, <2>7, <3>1
  <2>10. Rising(a) /\ Range(a) = Applied(file)
    BY <1>4 DEF Facts
  <2> DEFINE rows == Rows(h) \cup {AppliedRow(m[k])}
  <2>11. /\ Applied(rows) = Applied(file) \cup {m[j] : j \in Len(a)+1..k+1-1}
         /\ Schema(rows) = Texts(Applied(rows))
    BY <2>8, <2>9
  <2> HIDE DEF rows
  <2>12. Facts("apply", m, a, k + 1, rows, file)
    BY <1>1, <2>4, <2>6, <2>10, <2>11 DEF Facts
  <2> QED  BY <2>12 DEF rows
<1>8. /\ pc'[p] = "apply" /\ applied'[p] = a /\ i'[p] = k + 1 /\ shared \subseteq shared'
      /\ migrations' = migrations
  BY <1>3, QueryStep DEF Queries
<1>9. JobInv(p)'
  <2>1. Facts(pc[p], migrations[p], applied[p], i[p], Rows(h), file)'
    BY <1>6, <1>7, <1>8
  <2> QED  BY <1>4, <1>6, <1>8, <2>1 DEF JobInv
<1>10. TypesInv'
  <2>1. file' \cup work' \subseteq KnownRows
    BY <1>5, <1>6 DEF IInv, TypesInv, Rows, KnownRows
  <2> QED  BY <1>1, <1>3, <1>5, <2>1, QueryTypes
<1> QED  BY <1>3, <1>9, <1>10, QueryStep, OthersKeep

(* A step with which process p, going to label l, moves its own handle, which is
   now d, its transaction_ and its lists, and gives up locks at most. *)
OwnStep(p, l, m, a, k, d, t) ==
    /\ Goto(p, l)
    /\ migrations' = [migrations EXCEPT ![p] = m]
    /\ applied' = [applied EXCEPT ![p] = a] /\ i' = [i EXCEPT ![p] = k]
    /\ database' = [database EXCEPT ![p] = d]
    /\ d = None \/ d = database[p] \/ handle[d] = "closed"
    /\ transaction' = [transaction EXCEPT ![p] = t]
    /\ handle' \in [Handles -> {"closed", "open", "begun"}]
    /\ \A h \in Handles : h # database[p] /\ h # d => handle'[h] = handle[h]
    /\ shared \ {database[p]} \subseteq shared' /\ shared' \subseteq shared
    /\ \/ reserved' = None /\ reserved = database[p]
       \/ reserved' = reserved /\ reserved # database[p]
       \/ reserved' = reserved /\ d = database[p] /\ handle'[d] = "begun"
    /\ UNCHANGED <<file, work>> /\ starts' \in 0..MaxStarts

LEMMA OwnStepKeeps ==
    ASSUME IInv, NEW p \in Conns, NEW l \in {"idle", "begin", "create", "rollback", "error"},
           NEW m \in Seq(Known), InOrder(m), NEW a \in Seq(Migration), NEW k \in Nat \ {0},
           k <= Len(m) + 1, NEW d \in Handles \cup {None},
           NEW t \in {"none", "live", "ended"}, OwnStep(p, l, m, a, k, d, t),
           HandleInv(p)', JobInv(p)'
    PROVE  IInv'
<1> USE DEF OwnStep
<1> USE NoneIsNoHandle
<1>1. /\ database'[p] = d /\ transaction'[p] = t /\ pc'[p] = l
      /\ migrations'[p] = m /\ applied'[p] = a /\ i'[p] = k
      /\ \A q \in Conns \ {p} :
            /\ pc'[q] = pc[q] /\ migrations'[q] = migrations[q]
            /\ applied'[q] = applied[q] /\ i'[q] = i[q]
            /\ database'[q] = database[q] /\ transaction'[q] = transaction[q]
  BY DEF IInv, TypesInv, Goto
<1>2. \A q \in Conns \ {p} : database[q] # None => database[q] # database[p] /\ database[q] # d
  BY DEF IInv, Apart, HandleInv
<1>3. Apart'
  BY <1>1, <1>2 DEF IInv, Apart
<1>4. \/ reserved' = None
      \/ reserved' = database'[p] /\ handle'[reserved'] = "begun"
      \/ reserved' = reserved /\ work' = work /\ reserved # database[p]
  BY <1>1
<1>5. ASSUME NEW q \in Conns \ {p}, database[q] # None
      PROVE  /\ handle'[database[q]] = handle[database[q]]
             /\ database[q] \in shared => database[q] \in shared'
             /\ reserved' = database[q] <=> reserved = database[q]
  <2>1. database[q] # database[p] /\ database[q] # d /\ database[q] \in Handles
    BY <1>2, <1>5 DEF IInv, TypesInv
  <2> QED  BY <1>5, <2>1
<1>6. Elsewhere(p)
  BY <1>1, <1>4, <1>5 DEF Elsewhere
<1>7. TypesInv'
  <2>1. /\ migrations' \in [Conns -> Seq(Known)] /\ applied' \in [Conns -> Seq(Migration)]
        /\ i' \in [Conns -> Nat \ {0}] /\ database' \in [Conns -> Handles \cup {None}]
        /\ transaction' \in [Conns -> {"none", "live", "ended"}]
    BY DEF IInv, TypesInv
  <2>2. pc' \in [Conns -> {"idle", "begin", "create", "read", "apply", "record", "rollback",
                           "ok", "error"}]
    BY DEF IInv, TypesInv, Goto
  <2>3. ASSUME NEW q \in Conns PROVE i'[q] <= Len(migrations'[q]) + 1 /\ InOrder(migrations'[q])
    <3>1. CASE q = p
      BY <1>1, <3>1
    <3>2. CASE q # p
      BY <1>1, <3>2 DEF IInv, TypesInv
    <3> QED  BY <3>1, <3>2
  <2>4. /\ file' \cup work' \subseteq KnownRows
        /\ shared' \subseteq Handles \cup {Other} /\ reserved' \in Handles \cup {None}
    BY DEF IInv, TypesInv
  <2>5. (\A q \in Conns : i[q] <= Len(migrations[q]) + 1 /\ InOrder(migrations[q]))'
    BY <2>3
  <2> QED  BY <2>1, <2>2, <2>4, <2>5 DEF TypesInv
<1>8. OkInv(p)'
  BY <1>1 DEF OkInv
<1> QED  BY <1>3, <1>6, <1>7, <1>8, OthersKeep

LEMMA StartKeeps ==
    ASSUME IInv, NEW p \in Conns, Start(p)
    PROVE  IInv'
<1> USE NoneIsNoHandle
<1>1. PICK m \in Seq(Known) : InOrder(m) /\ migrations' = [migrations EXCEPT ![p] = m]
  BY SortedIsAList DEF Start
<1>2. /\ <<>> \in Seq(Migration) /\ applied' = [applied EXCEPT ![p] = <<>>]
      /\ 1 \in Nat \ {0} /\ 1 <= Len(m) + 1 /\ i' = [i EXCEPT ![p] = 1]
      /\ starts' \in 0..MaxStarts
  BY MigrateAssumption DEF Start, IInv, TypesInv, MigrateAssumption
<1>3. database[p] = None /\ transaction[p] = "none"
  BY DEF Start, IInv, HandleInv, TypesInv
<1>4. reserved # database[p] \/ reserved = None
  BY <1>3
<1>5. transaction = [transaction EXCEPT ![p] = "none"]
  BY <1>3 DEF IInv, TypesInv
<1>6. ASSUME NEW h \in Handles, ConnectOk(p, h, TRUE), Goto(p, "begin") PROVE IInv'
  <2>1. /\ handle[h] = "closed" /\ database' = [database EXCEPT ![p] = h]
        /\ handle' = [handle EXCEPT ![h] = "open"]
        /\ UNCHANGED <<shared, reserved, file, work, transaction>>
    BY <1>3, <1>6 DEF ConnectOk
  <2>2. handle' \in [Handles -> {"closed", "open", "begun"}] /\ handle'[h] = "open"
    BY <2>1 DEF IInv, TypesInv
  <2>3. database'[p] = h /\ pc'[p] = "begin" /\ transaction'[p] = "none" /\ i'[p] = 1
    BY <1>2, <1>3, <1>6, <2>1 DEF IInv, TypesInv, Goto
  <2>4. HandleInv(p)' /\ JobInv(p)'
    BY <2>2, <2>3 DEF HandleInv, JobInv, Working
  <2>5. \/ reserved' = None /\ reserved = database[p]
        \/ reserved' = reserved /\ reserved # database[p]
    BY <1>3, <2>1
  <2>6. \A g \in Handles : g # h => handle'[g] = handle[g]
    BY <2>1 DEF IInv, TypesInv
  <2>7. OwnStep(p, "begin", m, <<>>, 1, h, "none")
    BY <1>1, <1>2, <1>5, <1>6, <2>1, <2>2, <2>5, <2>6 DEF OwnStep
  <2> QED  BY <1>1, <1>2, <2>4, <2>7, OwnStepKeeps
<1>7. ASSUME UNCHANGED sqliteVars, Goto(p, "error") PROVE IInv'
  <2>1. /\ database = [database EXCEPT ![p] = None]
        /\ UNCHANGED <<file, work, shared, reserved, handle, database, transaction>>
    BY <1>3, <1>7 DEF sqliteVars, IInv, TypesInv
  <2>2. handle' \in [Handles -> {"closed", "open", "begun"}]
    BY <2>1 DEF IInv, TypesInv
  <2>3. database'[p] = None /\ pc'[p] = "error" /\ transaction'[p] = "none"
    BY <1>3, <1>7, <2>1 DEF IInv, TypesInv, Goto
  <2>4. HandleInv(p)' /\ JobInv(p)'
    BY <2>3 DEF HandleInv, JobInv, Working
  <2>5. \/ reserved' = None /\ reserved = database[p]
        \/ reserved' = reserved /\ reserved # database[p]
    BY <1>3, <2>1
  <2>6. OwnStep(p, "error", m, <<>>, 1, None, "none")
    BY <1>1, <1>2, <1>5, <1>7, <2>1, <2>2, <2>5 DEF OwnStep
  <2> QED  BY <1>1, <1>2, <2>4, <2>6, OwnStepKeeps
<1> QED  BY <1>6, <1>7 DEF Start

(* What a process has of its lists and of its handle. *)
LEMMA Own ==
    ASSUME IInv, NEW p \in Conns
    PROVE  /\ migrations[p] \in Seq(Known) /\ InOrder(migrations[p])
           /\ applied[p] \in Seq(Migration) /\ i[p] \in Nat \ {0}
           /\ i[p] <= Len(migrations[p]) + 1 /\ starts \in 0..MaxStarts
           /\ database[p] \in Handles \cup {None}
           /\ transaction[p] \in {"none", "live", "ended"}
           /\ migrations = [migrations EXCEPT ![p] = migrations[p]]
           /\ applied = [applied EXCEPT ![p] = applied[p]]
           /\ i = [i EXCEPT ![p] = i[p]]
           /\ database = [database EXCEPT ![p] = database[p]]
           /\ transaction = [transaction EXCEPT ![p] = transaction[p]]
BY DEF IInv, TypesInv

LEMMA BeginOkKeeps ==
    ASSUME IInv, NEW p \in Conns, pc[p] = "begin", TransactionOk(p), Goto(p, "create"),
           UNCHANGED <<migrations, applied, i, starts>>
    PROVE  IInv'
<1> DEFINE h == database[p]
<1>1. h \in Handles /\ transaction[p] = "none" /\ handle[h] # "begun" /\ i[p] = 1
  BY DEF IInv, TypesInv, HandleInv, JobInv
<1>2. /\ handle' = [handle EXCEPT ![h] = "begun"] /\ transaction' = [transaction EXCEPT ![p] = "live"]
      /\ UNCHANGED <<shared, reserved, file, work, database>>
  BY <1>1 DEF TransactionOk, RollsBack
<1>3. reserved # h
  BY <1>1, WriterIsOne, NoneIsNoHandle
<1>4. /\ handle' \in [Handles -> {"closed", "open", "begun"}] /\ handle'[h] = "begun"
      /\ \A g \in Handles : g # h => handle'[g] = handle[g]
      /\ transaction'[p] = "live" /\ pc'[p] = "create" /\ database'[p] = h /\ i'[p] = 1
  BY <1>1, <1>2 DEF IInv, TypesInv, Goto
<1>5. OwnStep(p, "create", migrations[p], applied[p], i[p], h, "live")
  BY <1>2, <1>3, <1>4, Own DEF OwnStep
<1>6. HandleInv(p)'
  BY <1>1, <1>4, NoneIsNoHandle DEF HandleInv, Active, Working
<1>7. JobInv(p)'
  BY <1>2, <1>3, <1>4 DEF JobInv, Facts
<1> QED  BY <1>5, <1>6, <1>7, Own, OwnStepKeeps

(* A step to "rollback" or "error" that leaves the connection as it is. *)
LEMMA StayKeeps ==
    ASSUME IInv, NEW p \in Conns, NEW l \in {"rollback", "error"}, Goto(p, l), pc[p] # "idle",
           l = "error" => ~Active(p),
           UNCHANGED <<file, work, shared, reserved, handle, database, transaction>>,
           UNCHANGED <<migrations, applied, i, starts>>
    PROVE  IInv'
<1> DEFINE h == database[p]
<1>1. handle' \in [Handles -> {"closed", "open", "begun"}] /\ pc'[p] = l
  BY DEF IInv, TypesInv, Goto
<1>2. reserved = h /\ reserved # None => handle[h] = "begun"
  BY WriterIsOne
<1>3. OwnStep(p, l, migrations[p], applied[p], i[p], h, transaction[p])
  BY <1>1, <1>2, Own DEF OwnStep
<1>4. HandleInv(p)'
  BY <1>1 DEF IInv, HandleInv, Active, Working
<1>5. JobInv(p)'
  BY <1>1 DEF JobInv, Working
<1>6. /\ migrations[p] \in Seq(Known) /\ InOrder(migrations[p]) /\ applied[p] \in Seq(Migration)
      /\ i[p] \in Nat \ {0} /\ i[p] <= Len(migrations[p]) + 1 /\ h \in Handles \cup {None}
      /\ transaction[p] \in {"none", "live", "ended"}
      /\ l \in {"idle", "begin", "create", "rollback", "error"}
  BY Own
<1> QED  BY <1>3, <1>4, <1>5, <1>6, OwnStepKeeps

(* A step to "rollback" or "error" that ends the transaction without its writes. *)
LEMMA EndKeeps ==
    ASSUME IInv, NEW p \in Conns, NEW l \in {"rollback", "error"}, Goto(p, l),
           Active(p), pc[p] \in Working \cup {"rollback"}, Release(database[p]),
           handle' = [handle EXCEPT ![database[p]] = "open"],
           NEW t \in {"live", "ended"}, transaction' = [transaction EXCEPT ![p] = t],
           UNCHANGED <<file, work, database, migrations, applied, i, starts>>
    PROVE  IInv'
<1> DEFINE h == database[p]
<1>1. h \in Handles
  BY DEF IInv, TypesInv, HandleInv, Active
<1>2. /\ handle' \in [Handles -> {"closed", "open", "begun"}] /\ handle'[h] = "open"
      /\ \A g \in Handles : g # h => handle'[g] = handle[g]
      /\ transaction'[p] = t /\ pc'[p] = l /\ database'[p] = h
  BY <1>1 DEF IInv, TypesInv, Goto
<1>3. /\ shared \ {h} \subseteq shared' /\ shared' \subseteq shared
      /\ \/ reserved' = None /\ reserved = h
         \/ reserved' = reserved /\ reserved # h
  BY DEF Release
<1>4. OwnStep(p, l, migrations[p], applied[p], i[p], h, t)
  BY <1>2, <1>3, Own DEF OwnStep
<1>5. HandleInv(p)'
  BY <1>1, <1>2, NoneIsNoHandle DEF HandleInv, Working
<1>6. JobInv(p)'
  BY <1>2 DEF JobInv, Working
<1> QED  BY <1>4, <1>5, <1>6, Own, OwnStepKeeps

LEMMA BeginFailsKeeps ==
    ASSUME IInv, NEW p \in Conns, pc[p] = "begin", TransactionFails(p), Goto(p, "rollback"),
           UNCHANGED <<migrations, applied, i, starts>>
    PROVE  IInv'
<1>1. database[p] # None /\ transaction[p] = "none"
  BY DEF IInv, HandleInv
<1>2. UNCHANGED <<file, work, shared, reserved, handle, database, transaction>>
  BY <1>1, Own DEF TransactionFails, RollsBack
<1> QED  BY <1>2, StayKeeps

LEMMA RollbackKeeps ==
    ASSUME IInv, NEW p \in Conns, Rollback(p)
    PROVE  IInv'
<1>1. /\ pc[p] = "rollback" /\ Goto(p, "error") /\ UNCHANGED <<migrations, applied, i, starts>>
      /\ pc[p] # "idle" /\ pc[p] \in Working \cup {"rollback"}
  BY DEF Rollback
<1>2. CASE RollbackOk(p)
  BY <1>1, <1>2, EndKeeps DEF RollbackOk, EndTransaction
<1>3. CASE RollbackFails(p)
  BY <1>1, <1>3, StayKeeps DEF RollbackFails, sqliteVars
<1> QED  BY <1>2, <1>3 DEF Rollback

LEMMA CommitFailsKeeps ==
    ASSUME IInv, NEW p \in Conns, pc[p] = "apply", CommitFails(p), Goto(p, "rollback"),
           UNCHANGED <<migrations, applied, i, starts>>
    PROVE  IInv'
<1>1. pc[p] \in Working \cup {"rollback"}
  BY DEF Working
<1>2. CASE UNCHANGED sqliteVars
  BY <1>2, StayKeeps DEF sqliteVars
<1>3. CASE ~UNCHANGED sqliteVars
  <2>1. /\ Active(p) /\ Release(database[p]) /\ handle' = [handle EXCEPT ![database[p]] = "open"]
        /\ transaction' = transaction /\ UNCHANGED <<file, work, database>>
        /\ transaction[p] = "live"
    BY <1>3 DEF CommitFails, Active
  <2>2. transaction' = [transaction EXCEPT ![p] = "live"]
    BY <2>1, Own
  <2> QED  BY <1>1, <2>1, <2>2, EndKeeps
<1> QED  BY <1>2, <1>3

LEMMA ExitKeeps ==
    ASSUME IInv, NEW p \in Conns, Exit(p)
    PROVE  IInv'
<1> USE NoneIsNoHandle
<1> DEFINE h == database[p]
<1>1. /\ CloseAll({p}, {h} \ {None}) /\ Goto(p, "idle")
      /\ UNCHANGED <<file, work, migrations, applied, i, starts>>
  BY DEF Exit, CloseAll
<1>2. /\ database' = [database EXCEPT ![p] = None] /\ transaction' = [transaction EXCEPT ![p] = "none"]
      /\ database'[p] = None /\ transaction'[p] = "none" /\ pc'[p] = "idle"
  BY <1>1 DEF CloseAll, Goto, IInv, TypesInv
<1>3. /\ handle' \in [Handles -> {"closed", "open", "begun"}]
      /\ \A g \in Handles : g # h => handle'[g] = handle[g]
      /\ shared \ {h} \subseteq shared' /\ shared' \subseteq shared
  BY <1>1 DEF CloseAll, IInv, TypesInv
<1>4. \/ reserved' = None /\ reserved = h
      \/ reserved' = reserved /\ reserved # h
  BY <1>1 DEF CloseAll, IInv, TypesInv
<1>5. OwnStep(p, "idle", migrations[p], applied[p], i[p], None, "none")
  BY <1>1, <1>2, <1>3, <1>4, Own DEF OwnStep
<1>6. HandleInv(p)' /\ JobInv(p)'
  BY <1>2 DEF HandleInv, JobInv, Working
<1> QED  BY <1>5, <1>6, Own, OwnStepKeeps

LEMMA OtherReadsKeeps == ASSUME IInv, OtherReads PROVE IInv'
<1>1. UNCHANGED <<file, work, reserved, handle, database, transaction, pc, migrations, applied, i, starts>>
  BY DEF OtherReads, OtherProcess
<1>2. shared' \subseteq shared \cup {Other} /\ shared \ {Other} \subseteq shared'
  BY DEF OtherReads, OtherProcess
<1>3. TypesInv' /\ Apart' /\ WriterBegun' /\ FileInv'
  <2>1. TypesInv'
    BY <1>1, <1>2 DEF IInv, TypesInv
  <2>2. Apart' /\ WriterBegun'
    BY <1>1 DEF IInv, Apart, WriterBegun
  <2>3. FileInv'
    BY <1>1 DEF IInv, FileInv, RecordedIffApplied
  <2> QED  BY <2>1, <2>2, <2>3
<1>4. ASSUME NEW p \in Conns PROVE HandleInv(p)' /\ JobInv(p)' /\ OkInv(p)'
  <2>1. HandleInv(p)' /\ OkInv(p)'
    BY <1>1 DEF IInv, HandleInv, OkInv, Active
  <2>2. Facts(pc[p], migrations[p], applied[p], i[p], Rows(database[p]), file)'
           <=> Facts(pc[p], migrations[p], applied[p], i[p], Rows(database[p]), file)
    BY <1>1 DEF Rows
  <2>3. pc[p] \in Working => database[p] # Other
    BY SQLiteConnectionAssumption DEF IInv, TypesInv, HandleInv, Active, SQLiteConnectionAssumption
  <2>4. JobInv(p)'
    BY <1>1, <1>2, <2>2, <2>3 DEF IInv, JobInv, Working
  <2> QED  BY <2>1, <2>4
<1> QED  BY <1>3, <1>4 DEF IInv

(* What a process that reaches the end of its loop is about to commit. *)
LEMMA Finished ==
    ASSUME NEW m \in Seq(Migration), NEW a \in Seq(Migration), NEW k \in Nat, k = Len(m) + 1,
           NEW rows, NEW durable, Facts("apply", m, a, k, rows, durable)
    PROVE  /\ Rising(m) /\ FirstOf(Range(m), Applied(rows))
           /\ FirstOf(Applied(durable), Applied(rows))
           /\ \E l \in Seq(Applied(rows)) : Rising(l) /\ Range(l) = Applied(rows)
           /\ Schema(rows) = Texts(Applied(rows))
<1>1. /\ DOMAIN m = 1..Len(m) /\ Len(m) \in Nat /\ DOMAIN a = 1..Len(a) /\ Len(a) \in Nat
      /\ k - 1 = Len(m) /\ \A j \in 1..Len(m) : m[j] \in Migration
  OBVIOUS
<1>2. /\ Rising(a) /\ Range(a) = Applied(durable)
      /\ \A j \in 1..Len(m) : j <= Len(a) => a[j] = m[j]
      /\ \A j, n \in 1..Len(m) : j < n => m[j].version < m[n].version
      /\ Applied(rows) = Applied(durable) \cup {m[j] : j \in Len(a)+1..Len(m)}
      /\ Schema(rows) = Texts(Applied(rows))
  BY <1>1 DEF Facts
<1>3. Rising(m)
  BY <1>1, <1>2 DEF Rising
<1>4. Range(m) = {m[j] : j \in 1..Len(m)} /\ Range(a) = {a[j] : j \in 1..Len(a)}
  BY <1>1 DEF Range
<1>5. CASE Len(m) <= Len(a)
  <2>1. Applied(rows) = Range(a)
    <3>1. Len(a)+1..Len(m) = {}
      BY <1>1, <1>5
    <3> QED  BY <1>2, <3>1
  <2>2. Range(m) \subseteq Range(a)
    BY <1>1, <1>2, <1>4, <1>5
  <2>3. ASSUME NEW s \in Range(m), NEW t \in Range(a) \ Range(m) PROVE s.version < t.version
    <3>1. PICK j \in 1..Len(m) : s = m[j]
      BY <1>4
    <3>2. PICK n \in 1..Len(a) : t = a[n]
      BY <1>4
    <3>3. n > Len(m)
      BY <1>1, <1>2, <1>4, <2>3, <3>2
    <3>4. s = a[j] /\ j \in 1..Len(a) /\ j < n
      BY <1>1, <1>2, <1>5, <3>1, <3>3
    <3> QED  BY <1>2, <3>2, <3>4, RisingAt
  <2>4. a \in Seq(Range(a))
    BY <1>1, <1>4, IsASeq
  <2> QED  BY <1>2, <1>3, <2>1, <2>2, <2>3, <2>4 DEF FirstOf
<1>6. CASE Len(m) > Len(a)
  <2>1. Range(a) = {m[j] : j \in 1..Len(a)}
    BY <1>1, <1>2, <1>4, <1>6
  <2>2. Applied(rows) = Range(m)
    <3>1. 1..Len(m) = 1..Len(a) \cup Len(a)+1..Len(m)
      BY <1>1, <1>6
    <3>2. {m[j] : j \in 1..Len(m)} = {m[j] : j \in 1..Len(a)} \cup {m[j] : j \in Len(a)+1..Len(m)}
      BY <3>1
    <3> QED  BY <1>2, <1>4, <2>1, <3>2, Zenon
  <2>3. ASSUME NEW s \in Range(a), NEW t \in Range(m) \ Range(a) PROVE s.version < t.version
    <3>1. PICK j \in 1..Len(a) : s = m[j]
      BY <2>1
    <3>2. PICK n \in 1..Len(m) : t = m[n]
      BY <1>4
    <3>3. n > Len(a)
      BY <1>1, <2>1, <2>3, <3>2
    <3> QED  BY <1>1, <1>2, <1>6, <3>1, <3>2, <3>3
  <2>4. m \in Seq(Range(m))
    BY <1>1, <1>4, IsASeq
  <2>5. Range(a) \subseteq Range(m)
    BY <1>1, <1>4, <1>6, <2>1
  <2> QED  BY <1>2, <1>3, <2>2, <2>3, <2>4, <2>5 DEF FirstOf
<1> QED  BY <1>1, <1>5, <1>6

LEMMA FirstOfTransitive ==
    ASSUME NEW S, NEW T, NEW U, FirstOf(S, T), FirstOf(T, U)
    PROVE  FirstOf(S, U)
BY DEF FirstOf

LEMMA CommitOkKeeps ==
    ASSUME IInv, NEW p \in Conns, pc[p] = "apply", i[p] > Len(migrations[p]),
           CommitOk(p), Goto(p, "ok"), UNCHANGED <<migrations, applied, i, starts>>
    PROVE  IInv'
<1> USE NoneIsNoHandle
<1> DEFINE h == database[p]
           m == migrations[p]
<1>1. /\ m \in Seq(Migration) /\ applied[p] \in Seq(Migration)
      /\ i[p] \in Nat /\ i[p] = Len(m) + 1
  <2>1. m \in Seq(Migration)
    BY Own, KnownAreMigrations, SeqMonotonic
  <2> QED  BY <2>1, Own
<1>2. Facts("apply", m, applied[p], i[p], Rows(h), file) /\ h \in shared /\ h \in Handles
  BY DEF IInv, JobInv, Working, HandleInv, Active, TypesInv
<1>3. /\ Rising(m) /\ FirstOf(Range(m), Applied(Rows(h)))
      /\ FirstOf(Applied(file), Applied(Rows(h)))
      /\ \E l \in Seq(Applied(Rows(h))) : Rising(l) /\ Range(l) = Applied(Rows(h))
      /\ Schema(Rows(h)) = Texts(Applied(Rows(h)))
  BY <1>1, <1>2, Finished
<1>4. /\ file' = Rows(h) /\ work' = work /\ database' = database
      /\ handle' = [handle EXCEPT ![h] = "open"]
      /\ transaction' = [transaction EXCEPT ![p] = "ended"]
      /\ shared' = shared \ {h}
      /\ reserved = h => reserved' = None /\ shared \subseteq {h}
      /\ reserved # h => reserved' = reserved /\ file' = file
  BY DEF CommitOk, EndTransaction, Release, CommitBusy, Rows
<1>5. /\ handle'[h] = "open" /\ transaction'[p] = "ended" /\ pc'[p] = "ok"
      /\ \A g \in Handles : g # h => handle'[g] = handle[g]
      /\ \A q \in Conns \ {p} : pc'[q] = pc[q] /\ transaction'[q] = transaction[q]
  BY <1>2, <1>4 DEF IInv, TypesInv, Goto
<1>6. TypesInv'
  <2>1. file' \cup work' \subseteq KnownRows
    BY <1>4 DEF IInv, TypesInv, Rows
  <2>2. /\ pc' \in [Conns -> {"idle", "begin", "create", "read", "apply", "record", "rollback",
                              "ok", "error"}]
        /\ handle' \in [Handles -> {"closed", "open", "begun"}]
        /\ transaction' \in [Conns -> {"none", "live", "ended"}]
        /\ shared' \subseteq Handles \cup {Other} /\ reserved' \in Handles \cup {None}
    BY <1>4 DEF IInv, TypesInv, Goto
  <2> QED  BY <1>4, <2>1, <2>2 DEF IInv, TypesInv
<1>7. Apart'
  BY <1>4 DEF IInv, Apart
<1>8. WriterBegun'
  <2> SUFFICES ASSUME reserved' # None
               PROVE  \E q \in Conns : database'[q] = reserved' /\ handle'[reserved'] = "begun"
    BY DEF WriterBegun
  <2>1. reserved' = reserved /\ reserved # h
    BY <1>4
  <2>2. PICK q \in Conns : database[q] = reserved /\ handle[reserved] = "begun"
    BY <2>1 DEF IInv, WriterBegun
  <2>3. reserved \in Handles
    BY <2>1 DEF IInv, TypesInv
  <2> QED  BY <1>4, <1>5, <2>1, <2>2, <2>3
<1>9. FileInv'
  <2>1. RecordedIffApplied'
    BY <1>3, <1>4 DEF RecordedIffApplied, Texts
  <2>2. (\E l \in Seq(Applied(file)) : Rising(l) /\ Range(l) = Applied(file))'
    BY <1>3, <1>4
  <2> QED  BY <2>1, <2>2 DEF FileInv
<1>10. HandleInv(p)' /\ JobInv(p)' /\ OkInv(p)'
  <2>1. HandleInv(p)' /\ JobInv(p)'
    BY <1>2, <1>4, <1>5 DEF HandleInv, JobInv, Working
  <2>2. OkInv(p)'
    BY <1>3, <1>4 DEF OkInv
  <2> QED  BY <2>1, <2>2
<1>11. ASSUME NEW q \in Conns \ {p} PROVE HandleInv(q)' /\ JobInv(q)' /\ OkInv(q)'
  <2>1. database[q] # None => database[q] # h /\ database[q] \in Handles
    BY DEF IInv, Apart, TypesInv
  <2>2. HandleInv(q)'
    BY <1>4, <1>5, <2>1 DEF IInv, HandleInv, Active
  <2>3. OkInv(q)'
    <3> SUFFICES ASSUME pc[q] = "ok"
                 PROVE  Rising(migrations[q]) /\ FirstOf(Range(migrations[q]), Applied(file'))
      BY <1>5 DEF OkInv
    <3>1. Rising(migrations[q]) /\ FirstOf(Range(migrations[q]), Applied(file))
      BY DEF IInv, OkInv
    <3> QED  BY <1>3, <1>4, <3>1, FirstOfTransitive
  <2>4. CASE reserved # h
    <3>1. Rows(database[q])' = Rows(database[q]) /\ file' = file
      BY <1>4, <2>4 DEF Rows
    <3>2. Facts(pc[q], migrations[q], applied[q], i[q], Rows(database[q]), file)'
             <=> Facts(pc[q], migrations[q], applied[q], i[q], Rows(database[q]), file)
      BY <1>5, <3>1
    <3>3. pc[q] \in Working => database[q] # None
      BY DEF IInv, HandleInv, Active
    <3>4. JobInv(q)'
      BY <1>4, <1>5, <2>1, <2>4, <3>2, <3>3 DEF IInv, JobInv, Working
    <3> QED  BY <2>2, <2>3, <3>4
  <2>5. CASE reserved = h
    <3>1. pc[q] \in Working => database[q] # None
      BY DEF IInv, HandleInv, Active
    <3>2. pc'[q] \notin {"apply", "record"}
      BY <1>4, <1>5, <2>1, <2>5, <3>1 DEF IInv, JobInv, Working
    <3>3. pc[q] \in Working => Rows(database[q])' = file'
      BY <1>4, <2>1, <2>5, <3>1 DEF Rows
    <3>4. pc[q] \in Working =>
             Facts(pc[q], migrations[q], applied[q], i[q], Rows(database[q]), file)'
      BY <1>5, <3>2, <3>3 DEF Facts
    <3>5. JobInv(q)'
      BY <1>4, <1>5, <2>5, <3>1, <3>2, <3>4 DEF IInv, JobInv, Working
    <3> QED  BY <2>2, <2>3, <3>5
  <2> QED  BY <2>4, <2>5
<1> QED  BY <1>6, <1>7, <1>8, <1>9, <1>10, <1>11 DEF IInv

LEMMA CommitKeeps ==
    ASSUME IInv, NEW p \in Conns, Commit(p)
    PROVE  IInv'
BY CommitOkKeeps, CommitFailsKeeps DEF Commit

LEMMA BeginKeeps ==
    ASSUME IInv, NEW p \in Conns, Begin(p)
    PROVE  IInv'
BY BeginOkKeeps, BeginFailsKeeps DEF Begin

LEMMA NextIInv == IInv /\ [Next]_vars => IInv'
<1> SUFFICES ASSUME IInv, [Next]_vars PROVE IInv'
  OBVIOUS
<1>1. ASSUME NEW p \in Conns, Step(p) PROVE IInv'
  BY <1>1, BeginKeeps, QueryFailsKeeps, CreateKeeps, ReadKeeps, CheckKeeps, ApplySqlKeeps,
     RecordKeeps, CommitKeeps, RollbackKeeps DEF Step
<1>2. CASE UNCHANGED vars
  <2>1. UNCHANGED <<file, work, shared, reserved, handle, database, transaction,
                    pc, migrations, applied, i, starts>>
    BY <1>2 DEF vars, sqliteVars
  <2>2. ASSUME NEW p \in Conns PROVE HandleInv(p)' /\ JobInv(p)' /\ OkInv(p)'
    <3>1. Facts(pc[p], migrations[p], applied[p], i[p], Rows(database[p]), file)'
             <=> Facts(pc[p], migrations[p], applied[p], i[p], Rows(database[p]), file)
      BY <2>1 DEF Rows
    <3> QED  BY <2>1, <3>1 DEF IInv, HandleInv, JobInv, OkInv, Active
  <2>3. TypesInv' /\ Apart' /\ WriterBegun' /\ FileInv'
    BY <2>1 DEF IInv, TypesInv, Apart, WriterBegun, FileInv, RecordedIffApplied
  <2> QED  BY <2>2, <2>3 DEF IInv
<1> QED  BY <1>1, <1>2, StartKeeps, ExitKeeps, OtherReadsKeeps DEF Next

LEMMA InvariantHolds == Spec => []IInv
BY InitIInv, NextIInv, PTL DEF Spec

-----------------------------------------------------------------------------
(***************************************************************************)
(* The theorems.                                                           *)
(***************************************************************************)
(* Every variable of the migrations keeps its type, the loop's index stays in
   its list, and the database file has rows of known migrations only. *)
THEOREM MigrateTypeOK == Spec => []TypeOK
<1>1. IInv => TypeOK
  <2> SUFFICES ASSUME IInv PROVE TypeOK
    OBVIOUS
  <2>1. SQLiteTypeOK
    BY DEF IInv, TypesInv, SQLiteTypeOK
  <2>2. \A p \in Conns : i[p] \in 1..Len(migrations[p]) + 1
    BY Own
  <2> QED  BY <2>1, <2>2 DEF IInv, TypesInv, TypeOK, KnownRows
<1> QED  BY <1>1, InvariantHolds, PTL

(* A migration's SQL and its row in _migrations become durable together, for any
   releases, any errors and any number of starts and deaths of processes. *)
THEOREM RecordedIffAppliedAlways == Spec => []RecordedIffApplied
<1>1. IInv => RecordedIffApplied
  BY DEF IInv, FileInv
<1> QED  BY <1>1, InvariantHolds, PTL

(* A process whose ApplyMigrations returned success has the database its release
   expects, and keeps it whatever other releases apply after it. *)
THEOREM SuccessMatchesAlways == Spec => []SuccessMatches
<1>1. IInv => SuccessMatches
  <2> SUFFICES ASSUME IInv, NEW p \in Conns, pc[p] = "ok"
               PROVE  IsPrefix(migrations[p], AppliedList(file))
    BY DEF SuccessMatches
  <2>1. migrations[p] \in Seq(Migration)
    BY Own, KnownAreMigrations, SeqMonotonic
  <2>2. Applied(file) \subseteq Migration
    BY AppliedAreMigrations DEF IInv
  <2>3. PICK l \in Seq(Applied(file)) : Rising(l) /\ Range(l) = Applied(file)
    BY DEF IInv, FileInv
  <2>4. /\ AppliedList(file) \in Seq(Migration) /\ Rising(AppliedList(file))
        /\ Range(AppliedList(file)) = Applied(file)
    BY <2>2, <2>3, AppliedListIs
  <2>5. Rising(migrations[p]) /\ FirstOf(Range(migrations[p]), Applied(file))
    BY DEF IInv, OkInv
  <2>6. FirstOf(Range(migrations[p]), Range(AppliedList(file)))
    BY <2>4, <2>5
  <2> QED  BY <2>1, <2>4, <2>5, <2>6, FirstOfIsPrefix
<1> QED  BY <1>1, InvariantHolds, PTL

(* ApplyMigrations returns, with success or an error, outside any transaction. *)
THEOREM NoTransactionLeftAlways == Spec => []NoTransactionLeft
<1>1. IInv => NoTransactionLeft
  <2> SUFFICES ASSUME IInv, NEW p \in Conns, pc[p] \in {"ok", "error"}, database[p] # None
               PROVE  handle[database[p]] = "open"
    BY DEF NoTransactionLeft
  <2>1. handle[database[p]] \in {"closed", "open", "begun"}
    BY DEF IInv, TypesInv
  <2> QED  BY <2>1 DEF IInv, HandleInv, Working
<1> QED  BY <1>1, InvariantHolds, PTL

(* A step that changes the database file is a commit that reports success. *)
THEOREM OnlySuccessCommitsAlways == Spec => OnlySuccessCommits
<1> DEFINE Success == \E p \in Conns : pc[p] # "ok" /\ pc'[p] = "ok"
<1>1. IInv /\ [Next]_vars => (file' # file => Success)
  <2> SUFFICES ASSUME IInv, Next, file' # file PROVE Success
    BY DEF vars, sqliteVars
  <2>1. ASSUME NEW p \in Conns, Start(p) \/ Exit(p) \/ Begin(p) \/ Rollback(p) PROVE FALSE
    BY <2>1 DEF Start, Exit, Begin, Rollback, ConnectOk, CloseAll, TransactionOk,
                TransactionFails, RollbackOk, RollbackFails, sqliteVars
  <2>2. ASSUME NEW p \in Conns, QueryFails(p) \/ GetAppliedMigrations(p) \/ CheckApplied(p)
        PROVE  FALSE
    BY <2>2 DEF QueryFails, GetAppliedMigrations, CheckApplied, Read, sqliteVars
  <2>3. ASSUME NEW p \in Conns,
               CreateMigrationsTable(p) \/ ApplyMigrationSql(p) \/ RecordMigration(p)
        PROVE  FALSE
    <3>1. pc[p] \in Working
      BY <2>3 DEF CreateMigrationsTable, ApplyMigrationSql, RecordMigration, Working
    <3>2. PICK rows : Read(database[p]) \/ Write(database[p], rows)
      BY <2>3 DEF CreateMigrationsTable, ApplyMigrationSql, RecordMigration
    <3>3. Read(database[p]) => file' = file
      BY DEF Read
    <3> QED  BY <3>1, <3>2, <3>3, WriteOwn
  <2>4. ASSUME NEW p \in Conns, Commit(p) PROVE Success
    <3>1. pc[p] = "apply" /\ CommitOk(p) /\ Goto(p, "ok")
      BY <2>4 DEF Commit, CommitFails, sqliteVars
    <3> QED  BY <3>1 DEF Goto, IInv, TypesInv
  <2>5. CASE OtherReads
    BY <2>5 DEF OtherReads, OtherProcess
  <2> QED  BY <2>1, <2>2, <2>3, <2>4, <2>5 DEF Next, Step
<1> QED  BY <1>1, InvariantHolds, PTL DEF Spec, OnlySuccessCommits

-----------------------------------------------------------------------------
(* A release does not list one SQL text under two versions. *)
TextsDiffer ==
    \A list \in Releases : \A j, k \in DOMAIN list : j # k => list[j].sql # list[k].sql

Differ(m) == \A j, k \in DOMAIN m : j # k => m[j].sql # m[k].sql

DifferInv == migrations \in [Conns -> Seq(Known)] /\ \A p \in Conns : Differ(migrations[p])

LEMMA SortedDiffer ==
    ASSUME TextsDiffer, NEW list \in Releases, NEW m \in Sorted(list)
    PROVE  Differ(m)
<1>1. PICK f \in Bijection(DOMAIN list, DOMAIN list) : m = [k \in DOMAIN list |-> list[f[k]]]
  BY DEF Sorted
<1>2. /\ f \in [DOMAIN list -> DOMAIN list]
      /\ \A j, k \in DOMAIN list : j # k => f[j] # f[k]
  BY DEF Bijection, Injection, IsInjective
<1> QED  BY <1>1, <1>2 DEF Differ, TextsDiffer

LEMMA NextDiffer ==
    ASSUME TextsDiffer, DifferInv, [Next]_vars
    PROVE  DifferInv'
<1>1. ASSUME NEW p \in Conns, Start(p) PROVE DifferInv'
  <2>1. PICK m \in Seq(Known) : Differ(m) /\ migrations' = [migrations EXCEPT ![p] = m]
    BY <1>1, SortedIsAList, SortedDiffer DEF Start
  <2> QED  BY <2>1 DEF DifferInv
<1>2. CASE UNCHANGED migrations
  BY <1>2 DEF DifferInv
<1>3. ASSUME NEW p \in Conns, Step(p) \/ Exit(p) PROVE UNCHANGED migrations
  BY <1>3 DEF Step, Exit, Begin, QueryFails, CreateMigrationsTable, GetAppliedMigrations,
              CheckApplied, ApplyMigrationSql, RecordMigration, Commit, Rollback
<1> QED  BY <1>1, <1>2, <1>3 DEF Next, OtherReads, vars

(* If no release lists one SQL text twice, no migration is run on a schema that
   has it, however many processes start at one time. *)
THEOREM NeverReappliedAlways == ASSUME TextsDiffer PROVE Spec => []NeverReapplied
<1>1. Init => DifferInv
  BY DEF Init, DifferInv, Differ
<1>2. DifferInv /\ [Next]_vars => DifferInv'
  BY NextDiffer
<1>3. IInv /\ DifferInv => NeverReapplied
  <2> SUFFICES ASSUME IInv, DifferInv, NEW p \in Conns, pc[p] = "apply", Pending(p),
                      SchemaRow(migrations[p][i[p]]) \in Rows(database[p])
               PROVE  FALSE
    BY DEF NeverReapplied
  <2> DEFINE m == migrations[p]
             a == applied[p]
             k == i[p]
             rows == Rows(database[p])
  <2>1. /\ m \in Seq(Migration) /\ a \in Seq(Migration) /\ k \in Nat \ {0}
        /\ k <= Len(m) /\ k > Len(a)
    BY Own, KnownAreMigrations, SeqMonotonic DEF Pending
  <2>2. Facts("apply", m, a, k, rows, file)
    BY DEF IInv, JobInv, Working
  <2>3. m[k].sql \in Schema(rows)
    BY DEF Schema, SchemaRow
  <2> HIDE DEF rows
  <2>4. PICK x \in Applied(rows) : x.sql = m[k].sql
    BY <2>2, <2>3 DEF Facts, Texts
  <2>5. \E j \in 1..k-1 : x = m[j]
    <3>1. CASE x \in Range(a)
      <4>1. PICK j \in 1..Len(a) : x = a[j]
        BY <2>1, <3>1 DEF Range
      <4> QED  BY <2>1, <2>2, <4>1 DEF Facts
    <3>2. CASE x \notin Range(a)
      <4>1. PICK j \in Len(a)+1..k-1 : x = m[j]
        BY <2>2, <3>2 DEF Facts
      <4> QED  BY <2>1, <4>1
    <3> QED  BY <3>1, <3>2
  <2> QED  BY <2>1, <2>4, <2>5 DEF DifferInv, Differ
<1>4. Spec => []DifferInv
  BY <1>1, <1>2, PTL DEF Spec
<1> QED  BY <1>3, <1>4, InvariantHolds, PTL
=============================================================================
