------------------------------- MODULE Ledger -------------------------------
(***************************************************************************)
(* The wallet ledger of src/modules/ledger, together with the two other    *)
(* places that append ledger rows themselves (webhooks and withdrawal),    *)
(* running as PostgreSQL transactions.                                     *)
(*                                                                         *)
(* A job is one database transaction of a caller: a fixed list of ledger   *)
(* operations and the isolation level the caller asks Prisma for.  Every   *)
(* operation locks the wallet row, reads the wallet's latest running total *)
(* and its buckets, checks the available balance, moves the bucket and     *)
(* appends a row that carries the new running total.  What PostgreSQL does *)
(* with the two isolation levels is modelled because the code depends on   *)
(* it: the wallet row is locked but never updated, so the lock of one      *)
(* transaction does not make the snapshot of the next one fresh.           *)
(*                                                                         *)
(* A wallet's rows are kept as the aggregates the code reads from them:    *)
(*   last     balanceAfter of the latest row (the running total)           *)
(*   net      SUM(CREDIT) - SUM(DEBIT) over all rows                       *)
(*   held     SUM(RESERVE) - SUM(RELEASE) over all rows                    *)
(*   reserved SUM(reserved_amount) over the wallet's bucket rows           *)
(*   buckets  the sources that have a bucket row                           *)
(*   refs     the (reference, sourceType, sourceId) keys already written   *)
(***************************************************************************)
EXTENDS Integers, Sequences, FiniteSets, Sums

CONSTANTS
    Wallets,      \* rows of "wallets"
    Sources,      \* sourceIds a bucket can be keyed by
    Refs,         \* unique keys of ledger rows
    Jobs,         \* the transactions callers submit
    Isolation,    \* [Jobs -> isolation level]
    Ops,          \* [Jobs -> Seq(Operation)]
    Requires,     \* [Jobs -> SUBSET Jobs]: rows of these jobs must be committed
                  \* before a caller gets as far as submitting the job
    NoJob         \* the lock holder of a free wallet row

Levels == {"ReadCommitted", "Serializable"}
EntryTypes == {"CREDIT", "DEBIT", "RESERVE", "RELEASE"}

Operation == [wallet : Wallets, entryType : EntryTypes, amount : Int,
              source : Sources, ref : Refs, balanceFrom : {"running", "sum"}]

\* The parameters of writeEntry.
Entry(w, type, amount, source, ref) ==
    [wallet |-> w, entryType |-> type, amount |-> amount,
     source |-> source, ref |-> ref, balanceFrom |-> "running"]

ASSUME JobsAssumption ==
    /\ NoJob \notin Jobs
    /\ Isolation \in [Jobs -> Levels]
    /\ Ops \in [Jobs -> Seq(Operation)]
    /\ Requires \in [Jobs -> SUBSET Jobs]

VARIABLES
    db,       \* committed state of every wallet
    status,   \* [Jobs -> {"idle", "active"}]
    pc,       \* next operation of an active job
    snap,     \* what a Serializable job saw when it started
    draft,    \* rows written by a job and not committed yet
    rival,    \* wallets another Serializable job committed to since the snapshot
    missed,   \* bucket rows other jobs committed since the snapshot
    lock,     \* holder of each wallet row lock
    (* History. *)
    unseen,   \* wallets a READ COMMITTED job committed to since a Serializable
              \* job's snapshot: no conflict that PostgreSQL records
    astray,   \* wallets in which a committed row continued a running total that
              \* left such an unseen commit out
    applied   \* how often a job has been committed

vars == <<db, status, pc, snap, draft, rival, missed, lock, unseen, astray, applied>>

Account == [last : Int, net : Int, held : Int, reserved : Int,
            buckets : SUBSET Sources, refs : SUBSET Refs]
Draft == [wrote : BOOLEAN, last : Int, net : Int, held : Int, reserved : Int,
          buckets : SUBSET Sources, refs : SUBSET Refs]

NewAccount == [last |-> 0, net |-> 0, held |-> 0, reserved |-> 0,
               buckets |-> {}, refs |-> {}]
NoDraft == [wrote |-> FALSE, last |-> 0, net |-> 0, held |-> 0, reserved |-> 0,
            buckets |-> {}, refs |-> {}]

Init ==
    /\ db = [w \in Wallets |-> NewAccount]
    /\ status = [j \in Jobs |-> "idle"]
    /\ pc = [j \in Jobs |-> 0]
    /\ snap = [j \in Jobs |-> [w \in Wallets |-> NewAccount]]
    /\ draft = [j \in Jobs |-> [w \in Wallets |-> NoDraft]]
    /\ rival = [j \in Jobs |-> {}]
    /\ missed = [j \in Jobs |-> {}]
    /\ lock = [w \in Wallets |-> NoJob]
    /\ unseen = [j \in Jobs |-> {}]
    /\ astray = {}
    /\ applied = [j \in Jobs |-> 0]

-----------------------------------------------------------------------------
(* What a transaction reads.                                               *)

Serializable(j) == Isolation[j] = "Serializable"

\* A Serializable transaction keeps the snapshot of its first statement; a
\* READ COMMITTED one takes a new snapshot for every statement.
Base(j, w) == IF Serializable(j) THEN snap[j][w] ELSE db[w]

\* Mutant: the reads go to the pool's client instead of the transaction's.
SeenOutsideTransaction(j, w) == db[w]

\* A transaction sees its own uncommitted rows on top of its snapshot.
Seen(j, w) ==
    LET b == Base(j, w)
        d == draft[j][w]
    IN  [last     |-> IF d.wrote THEN d.last ELSE b.last,
         net      |-> b.net + d.net,
         held     |-> b.held + d.held,
         reserved |-> b.reserved + d.reserved,
         buckets  |-> b.buckets \cup d.buckets,
         refs     |-> b.refs \cup d.refs]

Remaining(j) == pc[j] \in 1..Len(Ops[j])
Current(j) == Ops[j][pc[j]]

-----------------------------------------------------------------------------
(* What one operation does.                                                *)

MovesBucket(op) == op.entryType \in {"RESERVE", "RELEASE"}

\* balanceAfter of the newest row, 0 if there is none.
RunningTotal(seen) == seen.last

\* The balance an operation starts from: writeEntry and the webhook handlers
\* read the running total, the withdrawal service adds all rows up.
Balance(op, seen) == IF op.balanceFrom = "sum" THEN seen.net ELSE RunningTotal(seen)

\* Mutant: the available balance forgets what the buckets lock.
AvailableIgnoringBuckets(op, seen) == Balance(op, seen)

Available(op, seen) == Balance(op, seen) - seen.reserved

MainChange(op) ==
    IF op.entryType = "CREDIT" THEN op.amount
    ELSE IF op.entryType = "DEBIT" THEN -op.amount ELSE 0

HeldChange(op) ==
    IF op.entryType = "RESERVE" THEN op.amount
    ELSE IF op.entryType = "RELEASE" THEN -op.amount ELSE 0

\* Mutant: the update branch of the upsert always increments.
BucketOnlyGrows(op, seen) == IF MovesBucket(op) THEN op.amount ELSE 0

\* The upsert increments an existing bucket row by +-amount, but creates a
\* missing one with reservedAmount = amount whatever the entry type.
BucketChange(op, seen) ==
    IF ~MovesBucket(op) THEN 0
    ELSE IF op.source \in seen.buckets THEN HeldChange(op) ELSE op.amount

\* Mutant: neither the duplicate check nor a unique index on ledger_entries.
AdmissibleTwice(j, op) ==
    LET seen == Seen(j, op.wallet)
    IN  /\ op.amount > 0
        /\ op.entryType \in {"DEBIT", "RESERVE"} => op.amount <= Available(op, seen)

\* The checks of writeEntry, the unique index of ledger_entries, and
\* PostgreSQL's refusal to touch a row updated since the snapshot.
Admissible(j, op) ==
    LET seen == Seen(j, op.wallet)
    IN  /\ op.amount > 0
        /\ op.entryType \in {"DEBIT", "RESERVE"} => op.amount <= Available(op, seen)
        /\ op.ref \notin seen.refs \cup db[op.wallet].refs
        /\ Serializable(j) /\ MovesBucket(op) => <<op.wallet, op.source>> \notin missed[j]

\* Mutant: a RESERVE row lowers balanceAfter as if it were a DEBIT.
WrittenReserveAsDebit(j, op) ==
    LET seen == Seen(j, op.wallet)
        d == draft[j][op.wallet]
    IN  [wrote    |-> TRUE,
         last     |-> Balance(op, seen) + MainChange(op)
                        - (IF op.entryType = "RESERVE" THEN op.amount ELSE 0),
         net      |-> d.net + MainChange(op),
         held     |-> d.held + HeldChange(op),
         reserved |-> d.reserved + BucketChange(op, seen),
         buckets  |-> IF MovesBucket(op) THEN d.buckets \cup {op.source} ELSE d.buckets,
         refs     |-> d.refs \cup {op.ref}]

\* Mutant: the bucket row is keyed by the entry's reference, not its source.
WrittenBucketByRef(j, op) ==
    LET seen == Seen(j, op.wallet)
        d == draft[j][op.wallet]
    IN  [wrote    |-> TRUE,
         last     |-> Balance(op, seen) + MainChange(op),
         net      |-> d.net + MainChange(op),
         held     |-> d.held + HeldChange(op),
         reserved |-> d.reserved + BucketChange(op, seen),
         buckets  |-> IF MovesBucket(op) THEN d.buckets \cup {op.ref} ELSE d.buckets,
         refs     |-> d.refs \cup {op.ref}]

Written(j, op) ==
    LET seen == Seen(j, op.wallet)
        d == draft[j][op.wallet]
    IN  [wrote    |-> TRUE,
         last     |-> Balance(op, seen) + MainChange(op),
         net      |-> d.net + MainChange(op),
         held     |-> d.held + HeldChange(op),
         reserved |-> d.reserved + BucketChange(op, seen),
         buckets  |-> IF MovesBucket(op) THEN d.buckets \cup {op.source} ELSE d.buckets,
         refs     |-> d.refs \cup {op.ref}]

-----------------------------------------------------------------------------
(* Transactions.                                                           *)

\* Nothing of an ended transaction remains: its rows are in db or gone, and
\* PostgreSQL has released its row locks.
End(j) ==
    /\ status' = [status EXCEPT ![j] = "idle"]
    /\ pc' = [pc EXCEPT ![j] = 0]
    /\ snap' = [snap EXCEPT ![j] = [w \in Wallets |-> NewAccount]]
    /\ draft' = [draft EXCEPT ![j] = [w \in Wallets |-> NoDraft]]
    /\ lock' = [w \in Wallets |-> IF lock[w] = j THEN NoJob ELSE lock[w]]

\* The transaction is rolled back.
Abandon(j) ==
    /\ End(j)
    /\ rival' = [rival EXCEPT ![j] = {}]
    /\ missed' = [missed EXCEPT ![j] = {}]
    /\ unseen' = [unseen EXCEPT ![j] = {}]
    /\ UNCHANGED <<db, astray, applied>>

\* A job may be submitted again after it failed (a client retry, the hourly
\* scheduler) and also after it succeeded (a repeated request or webhook).
Begin(j) ==
    /\ status[j] = "idle"
    /\ \A k \in Requires[j] : applied[k] > 0
    /\ status' = [status EXCEPT ![j] = "active"]
    /\ pc' = [pc EXCEPT ![j] = 1]
    /\ snap' = [snap EXCEPT ![j] = IF Serializable(j) THEN db ELSE snap[j]]
    /\ UNCHANGED <<db, draft, rival, missed, lock, unseen, astray, applied>>

\* SELECT ... FOR UPDATE on the wallet, then the rest of writeEntry.  The lock
\* is the transaction's until it ends; a job that cannot have it waits.
WriteEntry(j) ==
    /\ status[j] = "active" /\ Remaining(j)
    /\ LET op == Current(j)
       IN  /\ lock[op.wallet] \in {NoJob, j}
           /\ Admissible(j, op)
           /\ lock' = [lock EXCEPT ![op.wallet] = j]
           /\ draft' = [draft EXCEPT ![j][op.wallet] = Written(j, op)]
    /\ pc' = [pc EXCEPT ![j] = pc[j] + 1]
    /\ UNCHANGED <<db, status, snap, rival, missed, unseen, astray, applied>>

\* writeEntry throws, or the insert or update fails: the transaction is rolled back.
Refuse(j) ==
    /\ status[j] = "active" /\ Remaining(j)
    /\ lock[Current(j).wallet] \in {NoJob, j}
    /\ ~Admissible(j, Current(j))
    /\ Abandon(j)

WrittenWallets(j) == {w \in Wallets : draft[j][w].wrote}
WrittenBuckets(j) == {wb \in Wallets \X Sources : wb[2] \in draft[j][wb[1]].buckets}

\* Serializable snapshot isolation only watches Serializable transactions: two
\* of them that both read and extended the rows of one wallet cannot both commit.
SerializationConflict(j) ==
    Serializable(j) /\ WrittenWallets(j) \cap rival[j] # {}

Merged(a, d) ==
    IF ~d.wrote THEN a
    ELSE [last |-> d.last, net |-> a.net + d.net, held |-> a.held + d.held,
          reserved |-> a.reserved + d.reserved,
          buckets |-> a.buckets \cup d.buckets, refs |-> a.refs \cup d.refs]

Commit(j) ==
    /\ status[j] = "active" /\ ~Remaining(j)
    /\ ~SerializationConflict(j)
    /\ db' = [w \in Wallets |-> Merged(db[w], draft[j][w])]
    /\ applied' = [applied EXCEPT ![j] = applied[j] + 1]
    /\ rival' = [k \in Jobs |->
                    IF k = j THEN {}
                    ELSE IF status[k] = "active" /\ Serializable(k) /\ Serializable(j)
                    THEN rival[k] \cup WrittenWallets(j) ELSE rival[k]]
    /\ missed' = [k \in Jobs |->
                    IF k = j THEN {}
                    ELSE IF status[k] = "active" /\ Serializable(k)
                    THEN missed[k] \cup WrittenBuckets(j) ELSE missed[k]]
    /\ unseen' = [k \in Jobs |->
                    IF k = j THEN {}
                    ELSE IF status[k] = "active" /\ Serializable(k) /\ ~Serializable(j)
                    THEN unseen[k] \cup WrittenWallets(j) ELSE unseen[k]]
    /\ astray' = astray \cup (WrittenWallets(j) \cap unseen[j])
    /\ End(j)

SerializationFailure(j) ==
    /\ status[j] = "active" /\ ~Remaining(j)
    /\ SerializationConflict(j)
    /\ Abandon(j)

\* j waits for a row lock held by k.
WaitsFor(j, k) ==
    /\ status[j] = "active" /\ Remaining(j)
    /\ k # j /\ lock[Current(j).wallet] = k

Deadlocked(j) ==
    LET waiting == {a \in Jobs : \E b \in Jobs : WaitsFor(a, b)}
    IN  \E S \in SUBSET waiting : /\ j \in S
                                  /\ \A a \in S : \E b \in S : WaitsFor(a, b)

\* PostgreSQL breaks a wait cycle by aborting one of its members.
DeadlockVictim(j) ==
    /\ Deadlocked(j)
    /\ Abandon(j)

\* The process dies, the connection is lost, Prisma's transaction times out, or
\* another statement of the caller throws.
Rollback(j) ==
    /\ status[j] = "active"
    /\ Abandon(j)

\* What a submitted transaction does of its own accord.
Proceed(j) ==
    \/ WriteEntry(j)
    \/ Refuse(j)
    \/ Commit(j)
    \/ SerializationFailure(j)
    \/ DeadlockVictim(j)

Next == \E j \in Jobs : Begin(j) \/ Proceed(j) \/ Rollback(j)

Spec == Init /\ [][Next]_vars

-----------------------------------------------------------------------------
(* Properties.                                                             *)

TypeOK ==
    /\ db \in [Wallets -> Account]
    /\ status \in [Jobs -> {"idle", "active"}]
    /\ pc \in [Jobs -> Nat]
    /\ snap \in [Jobs -> [Wallets -> Account]]
    /\ draft \in [Jobs -> [Wallets -> Draft]]
    /\ rival \in [Jobs -> SUBSET Wallets]
    /\ missed \in [Jobs -> SUBSET (Wallets \X Sources)]
    /\ lock \in [Wallets -> Jobs \cup {NoJob}]
    /\ unseen \in [Jobs -> SUBSET Wallets]
    /\ astray \in SUBSET Wallets
    /\ applied \in [Jobs -> Nat]

\* getLatestBalance and the sum over all entries, side by side: the check of
\* verifyWalletIntegrity and of the sandbox's reconcileRun.
IsReconciled(a) == a.last = a.net

\* The running total is the balance: the balanceAfter of a wallet's latest row
\* equals the sum of its credits minus its debits.  This is the first half of
\* verifyWalletIntegrity, which logs an integrity breach when it is false.  It
\* is what the code says, and false where it mixes isolation levels.
RunningTotalIsSum == \A w \in Wallets : IsReconciled(db[w])

\* Nothing else breaks it: the running total is the sum in every wallet, except
\* where a Serializable transaction was committed over a READ COMMITTED commit
\* to the same wallet that its snapshot did not have.
RunningTotalKept == \A w \in Wallets \ astray : IsReconciled(db[w])

\* Its check of the bucket rows against the RESERVE and RELEASE entries.
BucketsIntact(a) == a.reserved = a.held

\* Money locked in buckets is what the ledger says was locked: the other half
\* of verifyWalletIntegrity.
BucketsMatchLedger == \A w \in Wallets : BucketsIntact(db[w])

\* getDetailedBalance: what a wallet holds, what of it is locked, and the rest.
DetailedBalance(w) ==
    [total |-> db[w].last, reserved |-> db[w].reserved,
     available |-> db[w].last - db[w].reserved]

\* No order of concurrent transactions spends locked or missing money: what is
\* left after every reservation is never negative, in the wallets that have not
\* gone astray.
AvailableNonNegative == \A w \in Wallets \ astray : DetailedBalance(w).available >= 0

\* The jobs whose commits a transaction may miss without being aborted for it.
Overlooks(j) == {k \in Jobs : Serializable(j) /\ ~Serializable(k)}

\* What callers are promised, seen through the running totals and bucket rows.
Bank == INSTANCE WalletBank WITH
            Overlooked <- [j \in Jobs |-> Overlooks(j)],
            total <- [w \in Wallets |-> db[w].last],
            reserved <- [w \in Wallets |-> db[w].reserved]

\* The ledger implements the abstract bank: every commit is the posting of one
\* whole job, on top of the true balances of the wallets that have not gone
\* astray, and no other step moves money.
ImplementsBank == Bank!Spec

-----------------------------------------------------------------------------
(* Why the running total is right where it is: the inductive invariant.    *)

Writers(w) == {j \in Jobs : \E i \in 1..Len(Ops[j]) : Ops[j][i].wallet = w}

\* A wallet goes astray only where committed transactions of both isolation
\* levels write to it, and what is not seen is a READ COMMITTED commit.
AstrayIfMixed ==
    /\ \A w \in astray : \E j, k \in Writers(w) :
          /\ Serializable(j) /\ applied[j] > 0
          /\ ~Serializable(k) /\ applied[k] > 0
    /\ \A j \in Jobs : \A w \in unseen[j] :
          Serializable(j) /\ \E k \in Writers(w) : ~Serializable(k) /\ applied[k] > 0

\* Uncommitted rows belong to the active transaction that holds the wallet lock.
DraftsAreLocked == \A j \in Jobs, w \in Wallets :
    IF draft[j][w].wrote
    THEN lock[w] = j /\ j \in Writers(w) /\ status[j] = "active"
    ELSE draft[j][w] = NoDraft

\* Every uncommitted running total is right with respect to what its
\* transaction reads.
DraftsAgree == \A j \in Jobs, w \in Wallets \ astray :
    draft[j][w].wrote => draft[j][w].last = Base(j, w).last + draft[j][w].net

SnapshotsAgree == \A j \in Jobs, w \in Wallets \ astray : snap[j][w].last = snap[j][w].net

\* A snapshot is stale only for wallets whose conflict PostgreSQL has recorded,
\* or that a READ COMMITTED job has committed to.
StaleIsKnown == \A j \in Jobs, w \in Wallets :
    (/\ status[j] = "active" /\ Serializable(j)
     /\ w \notin rival[j] \cup unseen[j]) => snap[j][w] = db[w]

LedgerInv ==
    /\ RunningTotalKept
    /\ DraftsAreLocked
    /\ DraftsAgree
    /\ SnapshotsAgree
    /\ StaleIsKnown
    /\ AstrayIfMixed
-----------------------------------------------------------------------------
(* Why the buckets and the available balance are right.                    *)

\* The callers' discipline: collateral is released only by a job that cannot
\* be submitted before one that reserved it under the same source is committed.
ReleasesFollowReserves ==
    \A j \in Jobs : \A i \in 1..Len(Ops[j]) : Ops[j][i].entryType = "RELEASE" =>
        \E k \in Requires[j] : \E n \in 1..Len(Ops[k]) :
            /\ Ops[k][n].entryType = "RESERVE"
            /\ Ops[k][n].wallet = Ops[j][i].wallet
            /\ Ops[k][n].source = Ops[j][i].source

\* The first n operations of job j have their buckets in what f gives a wallet.
HasBuckets(j, n, f) == \A i \in 1..Len(Ops[j]) :
    i < n /\ Ops[j][i].entryType = "RESERVE" => Ops[j][i].source \in f[Ops[j][i].wallet].buckets

\* An active transaction carries what it has reserved so far.
DraftsHaveBuckets == \A j \in Jobs : status[j] = "active" =>
    /\ pc[j] >= 1
    /\ HasBuckets(j, pc[j], draft[j])
    /\ \A i \in 1..Len(Ops[j]) : i < pc[j] => draft[j][Ops[j][i].wallet].wrote

\* What a committed job reserved has a bucket row.
CommitsHaveBuckets == \A j \in Jobs : applied[j] > 0 => HasBuckets(j, Len(Ops[j]) + 1, db)

\* So has, for a transaction under way, whatever had to be there before it.
RequiredHaveBuckets == \A j \in Jobs : status[j] = "active" =>
    \A k \in Requires[j] : /\ applied[k] > 0
                           /\ Serializable(j) => HasBuckets(k, Len(Ops[k]) + 1, snap[j])

DraftBucketsMatch == \A j \in Jobs, w \in Wallets : draft[j][w].reserved = draft[j][w].held

BucketInv ==
    /\ BucketsMatchLedger
    /\ DraftBucketsMatch
    /\ DraftsHaveBuckets
    /\ CommitsHaveBuckets
    /\ RequiredHaveBuckets

\* What a transaction was checked against is covered in what it reads, and the
\* snapshots were covered when they were taken.
SnapshotsCovered == \A j \in Jobs, w \in Wallets \ astray : snap[j][w].reserved <= snap[j][w].last

DraftsCovered == \A j \in Jobs, w \in Wallets \ astray :
    draft[j][w].wrote => Base(j, w).reserved + draft[j][w].reserved <= draft[j][w].last

CoverInv ==
    /\ AvailableNonNegative
    /\ SnapshotsCovered
    /\ DraftsCovered
-----------------------------------------------------------------------------
(* Why a commit posts its whole job, on the balances it finds, and once.   *)

\* A caller opens a transaction to write to the ledger.
EveryJobWrites == \A j \in Jobs : Ops[j] # <<>>

\* What each operation of job j changes in wallet w: in its balance, and in
\* what is locked of it.
Moved(j, w) == [i \in 1..Len(Ops[j]) |-> IF Ops[j][i].wallet = w THEN MainChange(Ops[j][i]) ELSE 0]
Locked(j, w) == [i \in 1..Len(Ops[j]) |-> IF Ops[j][i].wallet = w THEN HeldChange(Ops[j][i]) ELSE 0]

\* Operation i of job j is covered, if all of j was checked from account a on
\* and its wallet is not one of those that are off.
Backed(j, i, a, off) ==
    LET op == Ops[j][i]
        before == 1..(i - 1)
    IN  /\ op.amount > 0
        /\ op.entryType \in {"DEBIT", "RESERVE"} /\ op.wallet \notin off =>
             op.amount <= a.last + Total(Moved(j, op.wallet), before)
                            - (a.reserved + Total(Locked(j, op.wallet), before))

\* An active transaction has written the rows of the operations before pc.
DraftsAddUp == \A j \in Jobs : status[j] = "active" =>
    /\ pc[j] \in 1..(Len(Ops[j]) + 1)
    /\ \A w \in Wallets : /\ draft[j][w].net = Total(Moved(j, w), 1..(pc[j] - 1))
                          /\ draft[j][w].held = Total(Locked(j, w), 1..(pc[j] - 1))

\* Each was covered by what its transaction reads.
DraftsBacked == \A j \in Jobs : status[j] = "active" =>
    \A i \in 1..Len(Ops[j]) : i < pc[j] => Backed(j, i, Base(j, Ops[j][i].wallet), astray)

\* The first n operations of job j have their keys in what f gives a wallet.
HasRefs(j, n, f) == \A i \in 1..Len(Ops[j]) :
    i < n => Ops[j][i].ref \in f[Ops[j][i].wallet].refs

\* Keys are unique: no uncommitted row has that of a committed one.
RefsOnce ==
    /\ \A j \in Jobs, w \in Wallets : draft[j][w].refs \cap db[w].refs = {}
    /\ \A j \in Jobs : status[j] = "active" => HasRefs(j, pc[j], draft[j])
    /\ \A j \in Jobs : applied[j] > 0 => HasRefs(j, Len(Ops[j]) + 1, db)

PostInv ==
    /\ DraftsAddUp
    /\ DraftsBacked
    /\ RefsOnce
=============================================================================
