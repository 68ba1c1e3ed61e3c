--------------------------- MODULE ServiceProofs ---------------------------
(***************************************************************************)
(* Theorems about the two services that every other part calls: the        *)
(* ledger, for every set of wallets, jobs and operations, and mail with    *)
(* notifications, for every set of mails, calls and runs of the queue.     *)
(***************************************************************************)
EXTENDS Ledger, Messaging, SumTheorems, TLAPS

USE DEF Levels, IsReconciled, BucketsIntact, DetailedBalance

-----------------------------------------------------------------------------
(* Type correctness.                                                       *)

\* The operation a job is at is one of its own.
LEMMA OperationType ==
    ASSUME NEW j \in Jobs, Remaining(j)
    PROVE  /\ Current(j) \in Operation
           /\ \E i \in 1..Len(Ops[j]) : Current(j) = Ops[j][i]
BY JobsAssumption DEF Remaining, Current

\* What a job sees of a wallet is an account.
LEMMA SeenType ==
    ASSUME TypeOK, NEW j \in Jobs, NEW w \in Wallets
    PROVE  Seen(j, w) \in Account
<1>1. Base(j, w) \in Account
  BY DEF Base, TypeOK
<1>2. draft[j][w] \in Draft
  BY DEF TypeOK
<1> QED BY <1>1, <1>2 DEF Seen, Account, Draft

\* What an operation changes is a number.
LEMMA ChangeType ==
    ASSUME NEW op \in Operation, NEW seen \in Account
    PROVE  /\ MainChange(op) \in Int
           /\ HeldChange(op) \in Int
           /\ BucketChange(op, seen) \in Int
           /\ Balance(op, seen) \in Int
BY DEF MainChange, HeldChange, BucketChange, Balance, RunningTotal, MovesBucket,
       Operation, Account

\* A draft with one more operation is a draft.
LEMMA WrittenType ==
    ASSUME TypeOK, NEW j \in Jobs, NEW op \in Operation
    PROVE  Written(j, op) \in Draft
<1> DEFINE seen == Seen(j, op.wallet)
<1>1. op.wallet \in Wallets /\ op.source \in Sources /\ op.ref \in Refs
  BY DEF Operation
<1>2. seen \in Account
  BY <1>1, SeenType
<1>3. draft[j][op.wallet] \in Draft
  BY <1>1 DEF TypeOK
<1>4. /\ MainChange(op) \in Int /\ HeldChange(op) \in Int
      /\ BucketChange(op, seen) \in Int /\ Balance(op, seen) \in Int
  BY <1>2, ChangeType
<1> QED BY <1>1, <1>3, <1>4 DEF Written, Draft

\* An account with a committed draft is an account.
LEMMA MergedType ==
    ASSUME NEW a \in Account, NEW d \in Draft
    PROVE  Merged(a, d) \in Account
BY DEF Merged, Account, Draft

\* A job that ends goes back to its start.
LEMMA EndType ==
    ASSUME TypeOK, NEW j \in Jobs, End(j)
    PROVE  /\ status' \in [Jobs -> {"idle", "active"}]
           /\ pc' \in [Jobs -> Nat]
           /\ snap' \in [Jobs -> [Wallets -> Account]]
           /\ draft' \in [Jobs -> [Wallets -> Draft]]
           /\ lock' \in [Wallets -> Jobs \cup {NoJob}]
<1>1. NewAccount \in Account /\ NoDraft \in Draft
  BY DEF NewAccount, NoDraft, Account, Draft
<1> QED BY <1>1 DEF End, TypeOK

\* A job that gives up leaves everything well typed.
LEMMA AbandonType ==
    ASSUME TypeOK, NEW j \in Jobs, Abandon(j)
    PROVE  TypeOK'
BY EndType DEF Abandon, TypeOK

\* The initial state is well typed.
LEMMA InitType == Init => TypeOK
BY DEF Init, TypeOK, NewAccount, NoDraft, Account, Draft

\* Every step keeps the types.
LEMMA NextType == TypeOK /\ [Next]_vars => TypeOK'
<1> SUFFICES ASSUME TypeOK, [Next]_vars PROVE TypeOK'
  OBVIOUS
<1>1. ASSUME NEW j \in Jobs, Begin(j) PROVE TypeOK'
  BY <1>1 DEF Begin, TypeOK
<1>2. ASSUME NEW j \in Jobs, WriteEntry(j) PROVE TypeOK'
  <2> DEFINE op == Current(j)
  <2>1. op \in Operation
    BY <1>2, OperationType DEF WriteEntry
  <2>2. Written(j, op) \in Draft
    BY <2>1, WrittenType
  <2>3. op.wallet \in Wallets
    BY <2>1 DEF Operation
  <2>4. /\ lock' = [lock EXCEPT ![op.wallet] = j]
        /\ draft' = [draft EXCEPT ![j][op.wallet] = Written(j, op)]
        /\ pc' = [pc EXCEPT ![j] = pc[j] + 1]
        /\ UNCHANGED <<db, status, snap, rival, missed, unseen, astray, applied>>
    BY <1>2 DEF WriteEntry
  <2> HIDE DEF op
  <2>5. draft' \in [Jobs -> [Wallets -> Draft]]
    BY <2>2, <2>3, <2>4 DEF TypeOK
  <2> QED BY <2>3, <2>4, <2>5 DEF TypeOK
<1>3. ASSUME NEW j \in Jobs, Refuse(j) PROVE TypeOK'
  BY <1>3, AbandonType DEF Refuse
<1>4. ASSUME NEW j \in Jobs, Commit(j) PROVE TypeOK'
  <2>1. db' \in [Wallets -> Account]
    BY <1>4, MergedType DEF Commit, TypeOK
  <2>2. rival' \in [Jobs -> SUBSET Wallets]
    BY <1>4 DEF Commit, TypeOK, WrittenWallets
  <2>3. missed' \in [Jobs -> SUBSET (Wallets \X Sources)]
    BY <1>4 DEF Commit, TypeOK, WrittenBuckets
  <2>4. applied' \in [Jobs -> Nat]
    BY <1>4 DEF Commit, TypeOK
  <2>5. End(j)
    BY <1>4 DEF Commit
  <2>6. unseen' \in [Jobs -> SUBSET Wallets] /\ astray' \in SUBSET Wallets
    BY <1>4 DEF Commit, TypeOK, WrittenWallets
  <2> QED BY <2>1, <2>2, <2>3, <2>4, <2>5, <2>6, EndType DEF TypeOK
<1>5. ASSUME NEW j \in Jobs, SerializationFailure(j) PROVE TypeOK'
  BY <1>5, AbandonType DEF SerializationFailure
<1>6. ASSUME NEW j \in Jobs, DeadlockVictim(j) PROVE TypeOK'
  BY <1>6, AbandonType DEF DeadlockVictim
<1>7. ASSUME NEW j \in Jobs, Rollback(j) PROVE TypeOK'
  BY <1>7, AbandonType DEF Rollback
<1>8. CASE UNCHANGED vars
  BY <1>8 DEF vars, TypeOK
<1> QED BY <1>1, <1>2, <1>3, <1>4, <1>5, <1>6, <1>7, <1>8 DEF Next, Proceed

\* Whatever the callers submit, the tables keep their types.
THEOREM TypeCorrect == Spec => []TypeOK
BY InitType, NextType, PTL DEF Spec

-----------------------------------------------------------------------------
(* The running total.                                                      *)

\* No row is committed or written yet.
LEMMA InitInv == Init => LedgerInv
BY DEF Init, LedgerInv, RunningTotalKept, DraftsAreLocked, DraftsAgree,
       SnapshotsAgree, StaleIsKnown, AstrayIfMixed, NewAccount, NoDraft

\* A transaction that starts reads the committed state.
LEMMA BeginKeepsInv ==
    ASSUME TypeOK, LedgerInv, NEW j \in Jobs, Begin(j)
    PROVE  LedgerInv'
<1>1. /\ status[j] = "idle"
      /\ status' = [status EXCEPT ![j] = "active"]
      /\ snap' = [snap EXCEPT ![j] = IF Serializable(j) THEN db ELSE snap[j]]
      /\ UNCHANGED <<db, draft, rival, missed, lock, unseen, astray, applied>>
  BY DEF Begin
<1>2. \A w \in Wallets : ~draft[j][w].wrote
  BY <1>1 DEF LedgerInv, DraftsAreLocked
<1>3. RunningTotalKept'
  BY <1>1 DEF LedgerInv, RunningTotalKept
<1>4. DraftsAreLocked'
  BY <1>1 DEF LedgerInv, DraftsAreLocked, Writers, TypeOK
<1>5. DraftsAgree'
  BY <1>1, <1>2 DEF LedgerInv, DraftsAgree, Base, Serializable, TypeOK
<1>6. SnapshotsAgree'
  BY <1>1 DEF LedgerInv, SnapshotsAgree, RunningTotalKept, TypeOK
<1>7. StaleIsKnown'
  BY <1>1 DEF LedgerInv, StaleIsKnown, Serializable, TypeOK
<1>8. AstrayIfMixed'
  BY <1>1 DEF LedgerInv, AstrayIfMixed, Serializable, Writers
<1> QED BY <1>3, <1>4, <1>5, <1>6, <1>7, <1>8 DEF LedgerInv

\* An operation extends its transaction's own running total and sum alike.
LEMMA WrittenAgrees ==
    ASSUME TypeOK, LedgerInv, NEW j \in Jobs, NEW op \in Operation
    PROVE  /\ Written(j, op).wrote
           /\ op.wallet \notin astray =>
                Written(j, op).last = Base(j, op.wallet).last + Written(j, op).net
<1> DEFINE w == op.wallet
           d == draft[j][w]
           b == Base(j, w)
           seen == Seen(j, w)
<1>0. Written(j, op).wrote
  BY DEF Written
<1> SUFFICES ASSUME w \notin astray
             PROVE  Written(j, op).last = b.last + Written(j, op).net
  BY <1>0
<1>1. w \in Wallets
  BY DEF Operation
<1>2. b \in Account /\ d \in Draft
  BY <1>1 DEF Base, TypeOK
<1>3. b.last = b.net
  BY <1>1 DEF Base, LedgerInv, SnapshotsAgree, RunningTotalKept
<1>4. ~d.wrote => d.net = 0
  BY <1>1 DEF LedgerInv, DraftsAreLocked, NoDraft
<1>5. d.wrote => d.last = b.last + d.net
  BY <1>1 DEF LedgerInv, DraftsAgree
<1>6. seen.last = b.last + d.net /\ seen.net = b.net + d.net
  BY <1>2, <1>4, <1>5 DEF Seen, Account, Draft
<1>7. Balance(op, seen) = b.last + d.net
  BY <1>3, <1>6 DEF Balance, RunningTotal
<1>8. MainChange(op) \in Int
  BY <1>1, SeenType, ChangeType
<1> QED BY <1>2, <1>7, <1>8 DEF Written, Account, Draft

\* A row written under the wallet's lock continues what the job sees.
LEMMA WriteKeepsInv ==
    ASSUME TypeOK, LedgerInv, NEW j \in Jobs, WriteEntry(j)
    PROVE  LedgerInv'
<1> DEFINE op == Current(j)
           w == op.wallet
<1>1. op \in Operation /\ j \in Writers(w) /\ w \in Wallets
  BY OperationType DEF WriteEntry, Writers, Operation
<1>2. /\ lock[w] \in {NoJob, j}
      /\ status[j] = "active"
      /\ lock' = [lock EXCEPT ![w] = j]
      /\ draft' = [draft EXCEPT ![j][w] = Written(j, op)]
      /\ UNCHANGED <<db, status, snap, rival, missed, unseen, astray, applied>>
  BY DEF WriteEntry
<1>3. /\ Written(j, op).wrote
      /\ w \notin astray => Written(j, op).last = Base(j, w).last + Written(j, op).net
  BY <1>1, WrittenAgrees
<1> HIDE DEF op
<1>4. \A k \in Jobs, x \in Wallets :
        draft'[k][x] = IF k = j /\ x = w THEN Written(j, op) ELSE draft[k][x]
  BY <1>1, <1>2 DEF TypeOK
<1>5. \A x \in Wallets : lock'[x] = IF x = w THEN j ELSE lock[x]
  BY <1>1, <1>2 DEF TypeOK
<1>6. \A k \in Jobs : k # j => ~draft[k][w].wrote
  BY <1>1, <1>2, JobsAssumption DEF LedgerInv, DraftsAreLocked
<1>7. RunningTotalKept' /\ SnapshotsAgree'
  BY <1>2 DEF LedgerInv, RunningTotalKept, SnapshotsAgree
<1>8. DraftsAreLocked'
  BY <1>1, <1>2, <1>3, <1>4, <1>5, <1>6 DEF LedgerInv, DraftsAreLocked
<1>9. DraftsAgree'
  BY <1>1, <1>2, <1>3, <1>4 DEF LedgerInv, DraftsAgree, Base, Serializable
<1>10. StaleIsKnown'
  BY <1>2 DEF LedgerInv, StaleIsKnown, Serializable
<1>11. AstrayIfMixed'
  BY <1>2 DEF LedgerInv, AstrayIfMixed, Serializable, Writers
<1> QED BY <1>7, <1>8, <1>9, <1>10, <1>11 DEF LedgerInv

\* A transaction that ends without a commit leaves the others as they were.
LEMMA AbandonKeepsInv ==
    ASSUME TypeOK, LedgerInv, NEW j \in Jobs, Abandon(j)
    PROVE  LedgerInv'
<1>1. /\ \A k \in Jobs : status'[k] = IF k = j THEN "idle" ELSE status[k]
      /\ \A k \in Jobs : rival'[k] = IF k = j THEN {} ELSE rival[k]
      /\ \A k \in Jobs : unseen'[k] = IF k = j THEN {} ELSE unseen[k]
      /\ \A k \in Jobs, w \in Wallets :
            snap'[k][w] = IF k = j THEN NewAccount ELSE snap[k][w]
      /\ \A k \in Jobs, w \in Wallets :
            draft'[k][w] = IF k = j THEN NoDraft ELSE draft[k][w]
      /\ \A w \in Wallets : lock'[w] = IF lock[w] = j THEN NoJob ELSE lock[w]
      /\ UNCHANGED <<db, astray, applied>>
  BY DEF Abandon, End, TypeOK
<1>2. RunningTotalKept'
  BY <1>1 DEF LedgerInv, RunningTotalKept
<1>3. DraftsAreLocked'
  BY <1>1 DEF LedgerInv, DraftsAreLocked, Writers, NoDraft
<1>4. DraftsAgree'
  BY <1>1 DEF LedgerInv, DraftsAgree, Base, Serializable, NoDraft
<1>5. SnapshotsAgree'
  BY <1>1 DEF LedgerInv, SnapshotsAgree, NewAccount
<1>6. StaleIsKnown'
  BY <1>1 DEF LedgerInv, StaleIsKnown, Serializable
<1>7. AstrayIfMixed'
  BY <1>1 DEF LedgerInv, AstrayIfMixed, Serializable, Writers
<1> QED BY <1>2, <1>3, <1>4, <1>5, <1>6, <1>7 DEF LedgerInv

\* What a transaction commits was computed from the committed state: a stale
\* snapshot would have been a recorded conflict, or leaves its wallet astray.
LEMMA CommitsOnFresh ==
    ASSUME TypeOK, LedgerInv, NEW j \in Jobs, Commit(j),
           NEW w \in Wallets \ astray', draft[j][w].wrote
    PROVE  Base(j, w) = db[w]
<1>1. /\ status[j] = "active" /\ ~SerializationConflict(j)
      /\ astray' = astray \cup (WrittenWallets(j) \cap unseen[j])
  BY DEF Commit
<1>2. CASE Serializable(j)
  <2>1. w \notin rival[j] /\ w \notin unseen[j]
    BY <1>1, <1>2 DEF SerializationConflict, WrittenWallets
  <2> QED BY <1>1, <1>2, <2>1 DEF LedgerInv, StaleIsKnown, Base
<1>3. CASE ~Serializable(j)
  BY <1>3 DEF Base
<1> QED BY <1>2, <1>3

\* A commit leaves no other transaction with a stale snapshot of a wallet it
\* wrote to that is not known to be stale.
LEMMA CommitKeepsInv ==
    ASSUME TypeOK, LedgerInv, NEW j \in Jobs, Commit(j)
    PROVE  LedgerInv'
<1>1. /\ \A k \in Jobs : status'[k] = IF k = j THEN "idle" ELSE status[k]
      /\ \A k \in Jobs, w \in Wallets :
            snap'[k][w] = IF k = j THEN NewAccount ELSE snap[k][w]
      /\ \A k \in Jobs, w \in Wallets :
            draft'[k][w] = IF k = j THEN NoDraft ELSE draft[k][w]
      /\ \A w \in Wallets : lock'[w] = IF lock[w] = j THEN NoJob ELSE lock[w]
  BY DEF Commit, End, TypeOK
<1>2. /\ status[j] = "active" /\ ~SerializationConflict(j)
      /\ astray' = astray \cup (WrittenWallets(j) \cap unseen[j])
      /\ applied' = [applied EXCEPT ![j] = applied[j] + 1]
  BY DEF Commit
<1>3. \A w \in Wallets : db'[w] = Merged(db[w], draft[j][w])
  BY DEF Commit
<1>4. \A k \in Jobs :
        /\ rival'[k] =
             IF k = j THEN {}
             ELSE IF status[k] = "active" /\ Serializable(k) /\ Serializable(j)
             THEN rival[k] \cup WrittenWallets(j) ELSE rival[k]
        /\ unseen'[k] =
             IF k = j THEN {}
             ELSE IF status[k] = "active" /\ Serializable(k) /\ ~Serializable(j)
             THEN unseen[k] \cup WrittenWallets(j) ELSE unseen[k]
  BY DEF Commit
<1>5. ASSUME NEW w \in Wallets, ~draft[j][w].wrote PROVE db'[w] = db[w]
  BY <1>3, <1>5 DEF Merged
<1>6. ASSUME NEW w \in Wallets \ astray', draft[j][w].wrote PROVE Base(j, w) = db[w]
  BY <1>6, CommitsOnFresh
<1>7. RunningTotalKept'
  <2> SUFFICES ASSUME NEW w \in Wallets \ astray' PROVE db'[w].last = db'[w].net
    BY DEF RunningTotalKept
  <2>0. w \in Wallets /\ w \notin astray
    BY <1>2
  <2>1. db[w].last = db[w].net
    BY <2>0 DEF LedgerInv, RunningTotalKept
  <2>2. CASE ~draft[j][w].wrote
    BY <1>5, <2>1, <2>2
  <2>3. CASE draft[j][w].wrote
    <3>1. draft[j][w].last = db[w].last + draft[j][w].net
      BY <1>6, <2>0, <2>3 DEF LedgerInv, DraftsAgree
    <3> DEFINE a == db[w]
               d == draft[j][w]
    <3>2. db'[w] = Merged(a, d)
      BY <1>3
    <3>3. a \in Account /\ d \in Draft /\ d.wrote
      BY <2>3 DEF TypeOK
    <3> HIDE DEF a, d
    <3>4. Merged(a, d).last = d.last /\ Merged(a, d).net = a.net + d.net
      BY <3>3 DEF Merged, Account, Draft
    <3>5. db'[w].last = draft[j][w].last /\ db'[w].net = db[w].net + draft[j][w].net
      BY <3>2, <3>4 DEF a, d
    <3> QED BY <2>1, <3>1, <3>5
  <2> QED BY <2>2, <2>3
<1>8. DraftsAreLocked'
  BY <1>1 DEF LedgerInv, DraftsAreLocked, Writers, NoDraft
<1>9. DraftsAgree'
  <2> SUFFICES ASSUME NEW k \in Jobs, NEW w \in Wallets \ astray', k # j, draft[k][w].wrote
               PROVE  draft[k][w].last = Base(k, w)'.last + draft[k][w].net
    BY <1>1 DEF DraftsAgree, NoDraft
  <2>0. w \in Wallets \ astray
    BY <1>2
  <2>1. ~draft[j][w].wrote
    BY DEF LedgerInv, DraftsAreLocked
  <2>2. Base(k, w)' = Base(k, w)
    BY <1>1, <1>5, <2>1 DEF Base, Serializable
  <2> QED BY <2>0, <2>2 DEF LedgerInv, DraftsAgree
<1>10. SnapshotsAgree'
  BY <1>1, <1>2 DEF LedgerInv, SnapshotsAgree, NewAccount
<1>11. StaleIsKnown'
  <2> SUFFICES ASSUME NEW k \in Jobs, NEW w \in Wallets, k # j,
                      status[k] = "active", Serializable(k),
                      w \notin rival'[k] \cup unseen'[k]
               PROVE  snap[k][w] = db'[w]
    BY <1>1 DEF StaleIsKnown, Serializable
  <2>1. w \notin rival[k] \cup unseen[k] /\ w \notin WrittenWallets(j)
    BY <1>4
  <2>2. snap[k][w] = db[w]
    BY <2>1 DEF LedgerInv, StaleIsKnown
  <2>3. ~draft[j][w].wrote
    BY <2>1 DEF WrittenWallets
  <2> QED BY <1>5, <2>2, <2>3
<1>12. AstrayIfMixed'
  <2>1. applied'[j] > 0 /\ \A k \in Jobs : applied[k] > 0 => applied'[k] > 0
    BY <1>2 DEF TypeOK
  <2>2. \A w \in WrittenWallets(j) : j \in Writers(w)
    BY DEF LedgerInv, DraftsAreLocked, WrittenWallets
  <2>3. ASSUME NEW w \in astray'
        PROVE  \E i, k \in Writers(w) : /\ Serializable(i) /\ applied'[i] > 0
                                        /\ ~Serializable(k) /\ applied'[k] > 0
    <3>1. CASE w \in astray
      <4>1. PICK i \in Writers(w), k \in Writers(w) : /\ Serializable(i) /\ applied[i] > 0
                                                      /\ ~Serializable(k) /\ applied[k] > 0
        BY <3>1 DEF LedgerInv, AstrayIfMixed
      <4>2. i \in Jobs /\ k \in Jobs
        BY DEF Writers
      <4> QED BY <2>1, <4>1, <4>2
    <3>2. CASE w \in WrittenWallets(j) \cap unseen[j]
      <4>1. PICK k \in Writers(w) : ~Serializable(k) /\ applied[k] > 0
        BY <3>2 DEF LedgerInv, AstrayIfMixed
      <4>2. Serializable(j)
        BY <3>2 DEF LedgerInv, AstrayIfMixed
      <4>3. j \in Writers(w) /\ k \in Jobs
        BY <2>2, <3>2 DEF Writers
      <4> QED BY <2>1, <4>1, <4>2, <4>3
    <3> QED BY <1>2, <3>1, <3>2
  <2>4. ASSUME NEW i \in Jobs, NEW w \in unseen'[i]
        PROVE  Serializable(i) /\ \E k \in Writers(w) : ~Serializable(k) /\ applied'[k] > 0
    <3>1. CASE w \in unseen[i]
      <4>1. Serializable(i)
        BY <3>1 DEF LedgerInv, AstrayIfMixed
      <4>2. PICK k \in Writers(w) : ~Serializable(k) /\ applied[k] > 0
        BY <3>1 DEF LedgerInv, AstrayIfMixed
      <4>3. k \in Jobs
        BY DEF Writers
      <4> QED BY <2>1, <4>1, <4>2, <4>3
    <3>2. CASE w \notin unseen[i]
      <4>1. Serializable(i) /\ ~Serializable(j) /\ w \in WrittenWallets(j)
        BY <1>4, <3>2
      <4> QED BY <2>1, <2>2, <4>1
    <3> QED BY <3>1, <3>2
  <2> QED BY <2>3, <2>4 DEF AstrayIfMixed, Serializable, Writers
<1> QED BY <1>7, <1>8, <1>9, <1>10, <1>11, <1>12 DEF LedgerInv

\* Every step keeps the drafts right, in the wallets that have not gone astray.
LEMMA NextInv == TypeOK /\ LedgerInv /\ [Next]_vars => LedgerInv'
<1> SUFFICES ASSUME TypeOK, LedgerInv, [Next]_vars PROVE LedgerInv'
  OBVIOUS
<1>1. ASSUME NEW j \in Jobs, Begin(j) PROVE LedgerInv'
  BY <1>1, BeginKeepsInv
<1>2. ASSUME NEW j \in Jobs, WriteEntry(j) PROVE LedgerInv'
  BY <1>2, WriteKeepsInv
<1>3. ASSUME NEW j \in Jobs, Refuse(j) PROVE LedgerInv'
  BY <1>3, AbandonKeepsInv DEF Refuse
<1>4. ASSUME NEW j \in Jobs, Commit(j) PROVE LedgerInv'
  BY <1>4, CommitKeepsInv
<1>5. ASSUME NEW j \in Jobs, SerializationFailure(j) PROVE LedgerInv'
  BY <1>5, AbandonKeepsInv DEF SerializationFailure
<1>6. ASSUME NEW j \in Jobs, DeadlockVictim(j) PROVE LedgerInv'
  BY <1>6, AbandonKeepsInv DEF DeadlockVictim
<1>7. ASSUME NEW j \in Jobs, Rollback(j) PROVE LedgerInv'
  BY <1>7, AbandonKeepsInv DEF Rollback
<1>8. CASE UNCHANGED vars
  BY <1>8 DEF vars, LedgerInv, RunningTotalKept, DraftsAreLocked, DraftsAgree,
              SnapshotsAgree, StaleIsKnown, AstrayIfMixed, Base, Serializable, Writers
<1> QED BY <1>1, <1>2, <1>3, <1>4, <1>5, <1>6, <1>7, <1>8 DEF Next, Proceed

\* The balanceAfter of a wallet's latest row is the sum of its credits minus its
\* debits, whatever the callers do, whichever isolation levels they mix and
\* however their transactions interleave or fail, except in wallets where a
\* Serializable transaction was committed over an unseen READ COMMITTED one.
THEOREM RunningTotalCorrect == Spec => []RunningTotalKept
<1>1. LedgerInv => RunningTotalKept
  BY DEF LedgerInv
<1>2. TypeOK /\ LedgerInv /\ [Next]_vars => LedgerInv'
  BY NextInv
<1> QED BY <1>1, <1>2, InitInv, TypeCorrect, PTL DEF Spec

\* The exception is narrow: a wallet goes astray only if committed transactions
\* of both isolation levels write to it.  One whose callers agree never does.
THEOREM AstrayOnlyIfMixed == Spec => []AstrayIfMixed
<1>1. LedgerInv => AstrayIfMixed
  BY DEF LedgerInv
<1>2. TypeOK /\ LedgerInv /\ [Next]_vars => LedgerInv'
  BY NextInv
<1> QED BY <1>1, <1>2, InitInv, TypeCorrect, PTL DEF Spec
-----------------------------------------------------------------------------
(* The buckets.                                                            *)

\* An operation is about a wallet.
LEMMA WalletOfOperation ==
    ASSUME NEW j \in Jobs, NEW i \in 1..Len(Ops[j])
    PROVE  Ops[j][i].wallet \in Wallets
<1>1. Ops[j] \in Seq(Operation)
  BY JobsAssumption
<1>2. Ops[j][i] \in Operation
  BY <1>1
<1> QED BY <1>2 DEF Operation

\* What a commit leaves of an account and the rows added to it.
LEMMA MergedFacts ==
    ASSUME NEW a \in Account, NEW d \in Draft
    PROVE  /\ a.buckets \subseteq Merged(a, d).buckets
           /\ d.wrote => /\ d.buckets \subseteq Merged(a, d).buckets
                         /\ Merged(a, d).reserved = a.reserved + d.reserved
                         /\ Merged(a, d).held = a.held + d.held
                         /\ Merged(a, d).last = d.last
           /\ ~d.wrote => Merged(a, d) = a
BY DEF Merged, Account, Draft

\* What an operation moves in a bucket is what its row says, because a release
\* finds the row its reservation made.
LEMMA BucketMovesAsLedger ==
    ASSUME ReleasesFollowReserves, TypeOK, BucketInv,
           NEW j \in Jobs, status[j] = "active", Remaining(j)
    PROVE  BucketChange(Current(j), Seen(j, Current(j).wallet)) = HeldChange(Current(j))
<1> DEFINE op == Current(j)
           seen == Seen(j, op.wallet)
<1>1. op \in Operation /\ op.wallet \in Wallets
  BY OperationType DEF Operation
<1>2. CASE op.entryType # "RELEASE"
  BY <1>2 DEF BucketChange, HeldChange, MovesBucket
<1>3. CASE op.entryType = "RELEASE"
  <2>1. PICK i \in 1..Len(Ops[j]) : op = Ops[j][i]
    BY OperationType
  <2>2. PICK k \in Requires[j] : \E n \in 1..Len(Ops[k]) :
            /\ Ops[k][n].entryType = "RESERVE"
            /\ Ops[k][n].wallet = op.wallet
            /\ Ops[k][n].source = op.source
    BY <1>3, <2>1 DEF ReleasesFollowReserves
  <2>3. PICK n \in 1..Len(Ops[k]) :
            /\ Ops[k][n].entryType = "RESERVE"
            /\ Ops[k][n].wallet = op.wallet
            /\ Ops[k][n].source = op.source
    BY <2>2
  <2>4. k \in Jobs /\ Len(Ops[k]) \in Nat
    BY JobsAssumption
  <2>5. op.source \in Base(j, op.wallet).buckets
    <3>1. CASE Serializable(j)
      <4>1. HasBuckets(k, Len(Ops[k]) + 1, snap[j])
        BY <3>1 DEF BucketInv, RequiredHaveBuckets
      <4>2. n < Len(Ops[k]) + 1
        BY <2>4
      <4> QED BY <2>3, <3>1, <4>1, <4>2 DEF HasBuckets, Base
    <3>2. CASE ~Serializable(j)
      <4>1. HasBuckets(k, Len(Ops[k]) + 1, db)
        BY <2>4 DEF BucketInv, RequiredHaveBuckets, CommitsHaveBuckets
      <4>2. n < Len(Ops[k]) + 1
        BY <2>4
      <4> QED BY <2>3, <3>2, <4>1, <4>2 DEF HasBuckets, Base
    <3> QED BY <3>1, <3>2
  <2>6. op.source \in seen.buckets
    BY <2>5 DEF Seen
  <2> QED BY <1>3, <2>6 DEF BucketChange, HeldChange, MovesBucket
<1> QED BY <1>2, <1>3

\* No bucket holds anything yet.
LEMMA InitBuckets == Init => BucketInv
BY DEF Init, BucketInv, BucketsMatchLedger, DraftBucketsMatch, DraftsHaveBuckets,
       CommitsHaveBuckets, RequiredHaveBuckets, NewAccount, NoDraft

\* A job that starts leaves the buckets alone.
LEMMA BeginKeepsBuckets ==
    ASSUME TypeOK, BucketInv, NEW j \in Jobs, Begin(j)
    PROVE  BucketInv'
<1>1. /\ \A k \in Jobs : status'[k] = IF k = j THEN "active" ELSE status[k]
      /\ \A k \in Jobs : pc'[k] = IF k = j THEN 1 ELSE pc[k]
      /\ \A k \in Jobs : snap'[k] = IF k = j /\ Serializable(k) THEN db ELSE snap[k]
      /\ UNCHANGED <<db, draft, applied>>
  BY DEF Begin, TypeOK
<1>2. \A k \in Requires[j] : k \in Jobs /\ applied[k] > 0
  BY JobsAssumption DEF Begin
<1>3. BucketsMatchLedger' /\ DraftBucketsMatch' /\ CommitsHaveBuckets'
  BY <1>1 DEF BucketInv, BucketsMatchLedger, DraftBucketsMatch, CommitsHaveBuckets, HasBuckets
<1>4. DraftsHaveBuckets'
  BY <1>1 DEF BucketInv, DraftsHaveBuckets, HasBuckets
<1>5. RequiredHaveBuckets'
  <2> SUFFICES ASSUME NEW a \in Jobs, status'[a] = "active", NEW k \in Requires[a]
               PROVE  /\ applied[k] > 0
                      /\ Serializable(a) => HasBuckets(k, Len(Ops[k]) + 1, snap'[a])
    BY <1>1 DEF RequiredHaveBuckets, Serializable, HasBuckets
  <2>1. CASE a = j
    BY <1>1, <1>2, <2>1 DEF BucketInv, CommitsHaveBuckets
  <2>2. CASE a # j
    BY <1>1, <2>2 DEF BucketInv, RequiredHaveBuckets
  <2> QED BY <2>1, <2>2
<1> QED BY <1>3, <1>4, <1>5 DEF BucketInv

\* A RESERVE or RELEASE row keeps bucket and rows together.
LEMMA WriteKeepsBuckets ==
    ASSUME ReleasesFollowReserves, TypeOK, BucketInv, NEW j \in Jobs, WriteEntry(j)
    PROVE  BucketInv'
<1> DEFINE op == Current(j)
           w == op.wallet
           written == Written(j, op)
<1>1. op \in Operation /\ w \in Wallets /\ op = Ops[j][pc[j]] /\ pc[j] \in 1..Len(Ops[j])
  BY OperationType DEF WriteEntry, Operation, Remaining, Current
<1>2. /\ status[j] = "active" /\ Remaining(j)
      /\ draft' = [draft EXCEPT ![j][w] = written]
      /\ pc' = [pc EXCEPT ![j] = pc[j] + 1]
      /\ UNCHANGED <<db, status, snap, applied>>
  BY DEF WriteEntry
<1>3. written.reserved = written.held
  <2>1. BucketChange(op, Seen(j, w)) = HeldChange(op)
    BY <1>2, BucketMovesAsLedger
  <2>2. draft[j][w].reserved = draft[j][w].held
    BY <1>1 DEF BucketInv, DraftBucketsMatch
  <2> QED BY <2>1, <2>2 DEF Written
<1>4. /\ written.wrote
      /\ draft[j][w].buckets \subseteq written.buckets
      /\ op.entryType = "RESERVE" => op.source \in written.buckets
  BY DEF Written, MovesBucket
<1> HIDE DEF written, op
<1>5. \A k \in Jobs, x \in Wallets :
        draft'[k][x] = IF k = j /\ x = w THEN written ELSE draft[k][x]
  BY <1>1, <1>2 DEF TypeOK
<1>6. \A k \in Jobs : pc'[k] = IF k = j THEN pc[k] + 1 ELSE pc[k]
  BY <1>2 DEF TypeOK
<1>7. BucketsMatchLedger' /\ CommitsHaveBuckets' /\ RequiredHaveBuckets'
  BY <1>2 DEF BucketInv, BucketsMatchLedger, CommitsHaveBuckets, RequiredHaveBuckets,
              HasBuckets, Serializable
<1>8. DraftBucketsMatch'
  BY <1>3, <1>5 DEF BucketInv, DraftBucketsMatch
<1>9. DraftsHaveBuckets'
  <2> SUFFICES ASSUME NEW k \in Jobs, status[k] = "active"
               PROVE  /\ pc'[k] >= 1
                      /\ \A i \in 1..Len(Ops[k]) : i < pc'[k] =>
                            /\ draft'[k][Ops[k][i].wallet].wrote
                            /\ Ops[k][i].entryType = "RESERVE" =>
                                 Ops[k][i].source \in draft'[k][Ops[k][i].wallet].buckets
    BY <1>2 DEF DraftsHaveBuckets, HasBuckets
  <2>1. /\ pc[k] >= 1 /\ pc[k] \in Nat
        /\ \A i \in 1..Len(Ops[k]) : i < pc[k] =>
              /\ draft[k][Ops[k][i].wallet].wrote
              /\ Ops[k][i].entryType = "RESERVE" =>
                   Ops[k][i].source \in draft[k][Ops[k][i].wallet].buckets
    BY DEF BucketInv, DraftsHaveBuckets, HasBuckets, TypeOK
  <2>2. \A i \in 1..Len(Ops[k]) : Ops[k][i].wallet \in Wallets
    BY WalletOfOperation
  <2>3. CASE k # j
    BY <1>5, <1>6, <2>1, <2>2, <2>3
  <2>4. CASE k = j
    <3>1. pc'[k] >= 1
      BY <1>6, <2>1, <2>4
    <3>2. ASSUME NEW i \in 1..Len(Ops[k]), i < pc'[k]
          PROVE  /\ draft'[k][Ops[k][i].wallet].wrote
                 /\ Ops[k][i].entryType = "RESERVE" =>
                      Ops[k][i].source \in draft'[k][Ops[k][i].wallet].buckets
      <4>1. i = pc[k] \/ i < pc[k]
        BY <1>6, <2>1, <2>4, <3>2
      <4>2. CASE i = pc[k]
        BY <1>1, <1>4, <1>5, <2>2, <2>4, <4>2
      <4>3. CASE i < pc[k] /\ Ops[k][i].wallet = w
        BY <1>4, <1>5, <2>1, <2>2, <2>4, <4>3
      <4>4. CASE i < pc[k] /\ Ops[k][i].wallet # w
        BY <1>5, <2>1, <2>2, <2>4, <4>4
      <4> QED BY <4>1, <4>2, <4>3, <4>4
    <3> QED BY <3>1, <3>2
  <2> QED BY <2>3, <2>4
<1> QED BY <1>7, <1>8, <1>9 DEF BucketInv

\* A job that gives up takes its buckets back.
LEMMA AbandonKeepsBuckets ==
    ASSUME TypeOK, BucketInv, NEW j \in Jobs, Abandon(j)
    PROVE  BucketInv'
<1>1. /\ \A k \in Jobs : status'[k] = IF k = j THEN "idle" ELSE status[k]
      /\ \A k \in Jobs : k # j => pc'[k] = pc[k] /\ snap'[k] = snap[k] /\ draft'[k] = draft[k]
      /\ \A x \in Wallets : draft'[j][x] = NoDraft
      /\ UNCHANGED <<db, applied>>
  BY DEF Abandon, End, TypeOK
<1>2. BucketsMatchLedger' /\ CommitsHaveBuckets'
  BY <1>1 DEF BucketInv, BucketsMatchLedger, CommitsHaveBuckets, HasBuckets
<1>3. DraftBucketsMatch'
  BY <1>1 DEF BucketInv, DraftBucketsMatch, NoDraft
<1>4. DraftsHaveBuckets'
  BY <1>1 DEF BucketInv, DraftsHaveBuckets, HasBuckets
<1>5. RequiredHaveBuckets'
  BY <1>1 DEF BucketInv, RequiredHaveBuckets, HasBuckets, Serializable
<1> QED BY <1>2, <1>3, <1>4, <1>5 DEF BucketInv

\* A commit keeps every bucket what the rows say.
LEMMA CommitKeepsBuckets ==
    ASSUME TypeOK, BucketInv, NEW j \in Jobs, Commit(j)
    PROVE  BucketInv'
<1>1. /\ \A k \in Jobs : status'[k] = IF k = j THEN "idle" ELSE status[k]
      /\ \A k \in Jobs : k # j => pc'[k] = pc[k] /\ snap'[k] = snap[k] /\ draft'[k] = draft[k]
      /\ \A x \in Wallets : draft'[j][x] = NoDraft
      /\ \A k \in Jobs : applied'[k] = IF k = j THEN applied[k] + 1 ELSE applied[k]
  BY DEF Commit, End, TypeOK
<1>2. \A x \in Wallets : /\ db'[x] = Merged(db[x], draft[j][x])
                         /\ db[x] \in Account /\ draft[j][x] \in Draft
  BY DEF Commit, TypeOK
<1>3. \A x \in Wallets : db[x].buckets \subseteq db'[x].buckets
  BY <1>2, MergedFacts
<1>4. \A x \in Wallets : draft[j][x].wrote => draft[j][x].buckets \subseteq db'[x].buckets
  BY <1>2, MergedFacts
<1>5. BucketsMatchLedger'
  <2> SUFFICES ASSUME NEW x \in Wallets PROVE db'[x].reserved = db'[x].held
    BY DEF BucketsMatchLedger
  <2>1. db[x].reserved = db[x].held /\ draft[j][x].reserved = draft[j][x].held
    BY DEF BucketInv, BucketsMatchLedger, DraftBucketsMatch
  <2>2. CASE draft[j][x].wrote
    <3>1. /\ db'[x].reserved = db[x].reserved + draft[j][x].reserved
          /\ db'[x].held = db[x].held + draft[j][x].held
      BY <1>2, <2>2, MergedFacts
    <3> QED BY <2>1, <3>1
  <2>3. CASE ~draft[j][x].wrote
    BY <1>2, <2>1, <2>3, MergedFacts
  <2> QED BY <2>2, <2>3
<1>6. DraftBucketsMatch'
  BY <1>1 DEF BucketInv, DraftBucketsMatch, NoDraft
<1>7. DraftsHaveBuckets'
  BY <1>1 DEF BucketInv, DraftsHaveBuckets, HasBuckets
<1>8. \A k \in Jobs : \A i \in 1..Len(Ops[k]) : Ops[k][i].wallet \in Wallets
  BY WalletOfOperation
<1>9. CommitsHaveBuckets'
  <2> SUFFICES ASSUME NEW k \in Jobs, applied'[k] > 0, NEW i \in 1..Len(Ops[k]),
                      Ops[k][i].entryType = "RESERVE"
               PROVE  Ops[k][i].source \in db'[Ops[k][i].wallet].buckets
    BY DEF CommitsHaveBuckets, HasBuckets
  <2>1. CASE k = j
    <3>1. /\ status[j] = "active" /\ ~Remaining(j) /\ pc[j] \in Nat /\ Len(Ops[j]) \in Nat
      BY JobsAssumption DEF Commit, TypeOK
    <3>2. pc[j] >= 1
      BY <3>1 DEF BucketInv, DraftsHaveBuckets
    <3>3. i < pc[j]
      BY <2>1, <3>1, <3>2 DEF Remaining
    <3>4. /\ Ops[k][i].source \in draft[j][Ops[k][i].wallet].buckets
          /\ draft[j][Ops[k][i].wallet].wrote
      BY <2>1, <3>1, <3>3 DEF BucketInv, DraftsHaveBuckets, HasBuckets
    <3> QED BY <1>4, <1>8, <3>4
  <2>2. CASE k # j
    <3>1. applied[k] > 0 /\ i < Len(Ops[k]) + 1
      BY <1>1, <2>2, JobsAssumption
    <3>2. Ops[k][i].source \in db[Ops[k][i].wallet].buckets
      BY <3>1 DEF BucketInv, CommitsHaveBuckets, HasBuckets
    <3> QED BY <1>3, <1>8, <3>2
  <2> QED BY <2>1, <2>2
<1>10. RequiredHaveBuckets'
  <2> SUFFICES ASSUME NEW a \in Jobs, status'[a] = "active", NEW k \in Requires[a]
               PROVE  /\ applied'[k] > 0
                      /\ Serializable(a) => HasBuckets(k, Len(Ops[k]) + 1, snap'[a])
    BY DEF RequiredHaveBuckets, Serializable, HasBuckets
  <2>1. a # j /\ status[a] = "active" /\ k \in Jobs
    BY <1>1, JobsAssumption
  <2>2. /\ applied[k] > 0
        /\ Serializable(a) => HasBuckets(k, Len(Ops[k]) + 1, snap[a])
    BY <2>1 DEF BucketInv, RequiredHaveBuckets
  <2>3. applied[k] \in Nat
    BY <2>1 DEF TypeOK
  <2> QED BY <1>1, <2>1, <2>2, <2>3
<1> QED BY <1>5, <1>6, <1>7, <1>9, <1>10 DEF BucketInv

\* Every step does, if releases follow reserves.
LEMMA NextBuckets ==
    ASSUME ReleasesFollowReserves
    PROVE  TypeOK /\ BucketInv /\ [Next]_vars => BucketInv'
<1> SUFFICES ASSUME TypeOK, BucketInv, [Next]_vars PROVE BucketInv'
  OBVIOUS
<1>1. ASSUME NEW j \in Jobs, Begin(j) PROVE BucketInv'
  BY <1>1, BeginKeepsBuckets
<1>2. ASSUME NEW j \in Jobs, WriteEntry(j) PROVE BucketInv'
  BY <1>2, WriteKeepsBuckets
<1>3. ASSUME NEW j \in Jobs, Refuse(j) PROVE BucketInv'
  BY <1>3, AbandonKeepsBuckets DEF Refuse
<1>4. ASSUME NEW j \in Jobs, Commit(j) PROVE BucketInv'
  BY <1>4, CommitKeepsBuckets
<1>5. ASSUME NEW j \in Jobs, SerializationFailure(j) PROVE BucketInv'
  BY <1>5, AbandonKeepsBuckets DEF SerializationFailure
<1>6. ASSUME NEW j \in Jobs, DeadlockVictim(j) PROVE BucketInv'
  BY <1>6, AbandonKeepsBuckets DEF DeadlockVictim
<1>7. ASSUME NEW j \in Jobs, Rollback(j) PROVE BucketInv'
  BY <1>7, AbandonKeepsBuckets DEF Rollback
<1>8. CASE UNCHANGED vars
  BY <1>8 DEF vars, BucketInv, BucketsMatchLedger, DraftBucketsMatch, DraftsHaveBuckets,
              CommitsHaveBuckets, RequiredHaveBuckets, HasBuckets, Serializable
<1> QED BY <1>1, <1>2, <1>3, <1>4, <1>5, <1>6, <1>7, <1>8 DEF Next, Proceed

\* If collateral is only released where it had been reserved, the bucket rows
\* hold what the RESERVE and RELEASE rows say, for every mix of isolation levels.
THEOREM BucketsCorrect ==
    ASSUME ReleasesFollowReserves
    PROVE  Spec => []BucketsMatchLedger
<1>1. BucketInv => BucketsMatchLedger
  BY DEF BucketInv
<1>2. TypeOK /\ BucketInv /\ [Next]_vars => BucketInv'
  BY NextBuckets
<1> QED BY <1>1, <1>2, InitBuckets, TypeCorrect, PTL DEF Spec
-----------------------------------------------------------------------------
(* The available balance.                                                  *)

\* What is available is never negative where no more is locked than there is.
LEMMA Covered ==
    TypeOK => (AvailableNonNegative <=>
                 \A w \in Wallets \ astray : db[w].reserved <= db[w].last)
BY DEF TypeOK, Account, AvailableNonNegative

\* Nothing is overspent yet.
LEMMA InitCover == Init => CoverInv
BY DEF Init, CoverInv, AvailableNonNegative, SnapshotsCovered, DraftsCovered,
       NewAccount, NoDraft

\* A snapshot of covered wallets is covered.
LEMMA BeginKeepsCover ==
    ASSUME TypeOK, LedgerInv, CoverInv, NEW j \in Jobs, Begin(j)
    PROVE  CoverInv'
<1>1. /\ status[j] = "idle"
      /\ \A k \in Jobs : snap'[k] = IF k = j /\ Serializable(k) THEN db ELSE snap[k]
      /\ UNCHANGED <<db, draft, astray>>
  BY DEF Begin, TypeOK
<1>2. \A x \in Wallets : ~draft[j][x].wrote
  BY <1>1 DEF LedgerInv, DraftsAreLocked
<1>3. AvailableNonNegative' /\ SnapshotsCovered'
  <2>1. \A w \in Wallets \ astray : db[w].reserved <= db[w].last
    BY Covered DEF CoverInv
  <2> QED BY <1>1, <2>1 DEF CoverInv, AvailableNonNegative, SnapshotsCovered
<1>4. DraftsCovered'
  BY <1>1, <1>2 DEF CoverInv, DraftsCovered, Base, Serializable
<1> QED BY <1>3, <1>4 DEF CoverInv

\* An operation that passes its checks keeps its transaction covered.
LEMMA WrittenCovered ==
    ASSUME ReleasesFollowReserves, TypeOK, LedgerInv, BucketInv, CoverInv,
           NEW j \in Jobs, WriteEntry(j), Current(j).wallet \notin astray
    PROVE  LET op == Current(j)
           IN  Base(j, op.wallet).reserved + Written(j, op).reserved <= Written(j, op).last
<1> DEFINE op == Current(j)
           w == op.wallet
           d == draft[j][w]
           b == Base(j, w)
           seen == Seen(j, w)
<1>1. op \in Operation /\ w \in Wallets /\ w \notin astray
  BY OperationType DEF WriteEntry, Operation
<1>2. b \in Account /\ d \in Draft /\ seen \in Account
  BY <1>1, SeenType DEF Base, TypeOK
<1>3. BucketChange(op, seen) = HeldChange(op)
  BY BucketMovesAsLedger DEF WriteEntry
<1>4. op.amount > 0 /\ (op.entryType \in {"DEBIT", "RESERVE"} => op.amount <= Available(op, seen))
  BY DEF WriteEntry, Admissible
<1>5. b.last = b.net /\ b.reserved <= b.last
  BY <1>1, Covered DEF Base, LedgerInv, SnapshotsAgree, RunningTotalKept, CoverInv,
                       SnapshotsCovered
<1>6. d.wrote => d.last = b.last + d.net /\ b.reserved + d.reserved <= d.last
  BY <1>1 DEF LedgerInv, DraftsAgree, CoverInv, DraftsCovered
<1>7. ~d.wrote => d.net = 0 /\ d.reserved = 0
  BY <1>1 DEF LedgerInv, DraftsAreLocked, NoDraft
<1>8. /\ seen.last = b.last + d.net /\ seen.net = b.net + d.net
      /\ seen.reserved = b.reserved + d.reserved
      /\ seen.reserved <= seen.last
  BY <1>2, <1>5, <1>6, <1>7 DEF Seen, Account, Draft
<1>9. Balance(op, seen) = seen.last
  BY <1>2, <1>5, <1>8 DEF Balance, RunningTotal, Account, Draft
<1>10. /\ Written(j, op).last = seen.last + MainChange(op)
       /\ Written(j, op).reserved = d.reserved + HeldChange(op)
  BY <1>3, <1>9 DEF Written
<1>11. op.amount \in Int /\ op.entryType \in EntryTypes
  BY <1>1 DEF Operation
<1>12. /\ b.reserved \in Int /\ d.reserved \in Int /\ seen.last \in Int
       /\ seen.reserved \in Int
  BY <1>2 DEF Account, Draft
<1>13. op.entryType \in {"DEBIT", "RESERVE"} => op.amount <= seen.last - seen.reserved
  BY <1>4, <1>9 DEF Available
<1>14. b.reserved + d.reserved + HeldChange(op) <= seen.last + MainChange(op)
  <2> HIDE DEF op, b, d, seen
  <2>1. CASE op.entryType = "CREDIT"
    BY <1>4, <1>8, <1>11, <1>12, <2>1 DEF HeldChange, MainChange
  <2>2. CASE op.entryType = "DEBIT"
    BY <1>8, <1>11, <1>12, <1>13, <2>2 DEF HeldChange, MainChange
  <2>3. CASE op.entryType = "RESERVE"
    BY <1>8, <1>11, <1>12, <1>13, <2>3 DEF HeldChange, MainChange
  <2>4. CASE op.entryType = "RELEASE"
    BY <1>4, <1>8, <1>11, <1>12, <2>4 DEF HeldChange, MainChange
  <2> QED BY <1>11, <2>1, <2>2, <2>3, <2>4 DEF EntryTypes
<1>15. HeldChange(op) \in Int /\ MainChange(op) \in Int
  BY <1>1, <1>2, ChangeType
<1> HIDE DEF op, b, d, seen
<1>16. b.reserved + Written(j, op).reserved <= Written(j, op).last
  BY <1>10, <1>12, <1>14, <1>15
<1> QED BY <1>16 DEF op, b

\* A row is written only where the balance it was checked against covers it.
LEMMA WriteKeepsCover ==
    ASSUME ReleasesFollowReserves, TypeOK, LedgerInv, BucketInv, CoverInv,
           NEW j \in Jobs, WriteEntry(j)
    PROVE  CoverInv'
<1> DEFINE op == Current(j)
           w == op.wallet
<1>1. w \in Wallets
  BY OperationType DEF WriteEntry, Operation
<1>2. /\ draft' = [draft EXCEPT ![j][w] = Written(j, op)]
      /\ UNCHANGED <<db, snap, astray>>
  BY DEF WriteEntry
<1>3. w \notin astray =>
        Base(j, w).reserved + Written(j, op).reserved <= Written(j, op).last
  BY WrittenCovered
<1> HIDE DEF op
<1>4. \A k \in Jobs, x \in Wallets :
        draft'[k][x] = IF k = j /\ x = w THEN Written(j, op) ELSE draft[k][x]
  BY <1>1, <1>2 DEF TypeOK
<1>5. \A k \in Jobs, x \in Wallets : Base(k, x)' = Base(k, x)
  BY <1>2 DEF Base, Serializable
<1>6. AvailableNonNegative' /\ SnapshotsCovered'
  BY <1>2 DEF CoverInv, AvailableNonNegative, SnapshotsCovered
<1>7. DraftsCovered'
  BY <1>2, <1>3, <1>4, <1>5 DEF CoverInv, DraftsCovered
<1> QED BY <1>6, <1>7 DEF CoverInv

\* A job that gives up leaves the wallets covered.
LEMMA AbandonKeepsCover ==
    ASSUME TypeOK, CoverInv, NEW j \in Jobs, Abandon(j)
    PROVE  CoverInv'
<1>1. /\ \A k \in Jobs : k # j => snap'[k] = snap[k] /\ draft'[k] = draft[k]
      /\ \A x \in Wallets : draft'[j][x] = NoDraft /\ snap'[j][x] = NewAccount
      /\ UNCHANGED <<db, astray>>
  BY DEF Abandon, End, TypeOK
<1>2. AvailableNonNegative' /\ SnapshotsCovered'
  BY <1>1 DEF CoverInv, AvailableNonNegative, SnapshotsCovered, NewAccount
<1>3. DraftsCovered'
  BY <1>1 DEF CoverInv, DraftsCovered, Base, Serializable, NoDraft
<1> QED BY <1>2, <1>3 DEF CoverInv

\* What is committed was checked against the balance it changes.
LEMMA CommitKeepsCover ==
    ASSUME TypeOK, LedgerInv, CoverInv, NEW j \in Jobs, Commit(j)
    PROVE  CoverInv'
<1>1. /\ \A k \in Jobs : k # j => snap'[k] = snap[k] /\ draft'[k] = draft[k]
      /\ \A x \in Wallets : draft'[j][x] = NoDraft /\ snap'[j][x] = NewAccount
  BY DEF Commit, End, TypeOK
<1>2. \A x \in Wallets : /\ db'[x] = Merged(db[x], draft[j][x])
                         /\ db[x] \in Account /\ draft[j][x] \in Draft
  BY DEF Commit, TypeOK
<1>g. astray \subseteq astray'
  BY DEF Commit
<1>3. AvailableNonNegative'
  <2> SUFFICES ASSUME NEW x \in Wallets \ astray' PROVE db'[x].reserved <= db'[x].last
    <3>1. \A x \in Wallets : db'[x].reserved \in Int /\ db'[x].last \in Int
      BY <1>2, MergedFacts DEF Account, Draft
    <3> QED BY <3>1 DEF AvailableNonNegative
  <2>1. CASE ~draft[j][x].wrote
    BY <1>2, <1>g, <2>1, MergedFacts, Covered DEF CoverInv
  <2>2. CASE draft[j][x].wrote
    <3>1. Base(j, x) = db[x]
      BY <2>2, CommitsOnFresh
    <3>2. db[x].reserved + draft[j][x].reserved <= draft[j][x].last
      BY <1>g, <2>2, <3>1 DEF CoverInv, DraftsCovered
    <3>3. /\ db'[x].reserved = db[x].reserved + draft[j][x].reserved
          /\ db'[x].last = draft[j][x].last
      BY <1>2, <2>2, MergedFacts
    <3> QED BY <3>2, <3>3
  <2> QED BY <2>1, <2>2
<1>4. SnapshotsCovered'
  BY <1>1, <1>g DEF CoverInv, SnapshotsCovered, NewAccount
<1>5. DraftsCovered'
  <2> SUFFICES ASSUME NEW k \in Jobs, NEW x \in Wallets \ astray', k # j, draft[k][x].wrote
               PROVE  Base(k, x)'.reserved + draft[k][x].reserved <= draft[k][x].last
    BY <1>1 DEF DraftsCovered, NoDraft
  <2>1. ~draft[j][x].wrote
    BY DEF LedgerInv, DraftsAreLocked
  <2>2. db'[x] = db[x]
    BY <1>2, <2>1, MergedFacts
  <2>3. Base(k, x)' = Base(k, x)
    BY <1>1, <2>2 DEF Base, Serializable
  <2> QED BY <1>g, <2>3 DEF CoverInv, DraftsCovered
<1> QED BY <1>3, <1>4, <1>5 DEF CoverInv

\* Every step keeps the available balance from falling below zero.
LEMMA NextCover ==
    ASSUME ReleasesFollowReserves
    PROVE  TypeOK /\ LedgerInv /\ BucketInv /\ CoverInv /\ [Next]_vars => CoverInv'
<1> SUFFICES ASSUME TypeOK, LedgerInv, BucketInv, CoverInv, [Next]_vars PROVE CoverInv'
  OBVIOUS
<1>1. ASSUME NEW j \in Jobs, Begin(j) PROVE CoverInv'
  BY <1>1, BeginKeepsCover
<1>2. ASSUME NEW j \in Jobs, WriteEntry(j) PROVE CoverInv'
  BY <1>2, WriteKeepsCover
<1>3. ASSUME NEW j \in Jobs, Refuse(j) PROVE CoverInv'
  BY <1>3, AbandonKeepsCover DEF Refuse
<1>4. ASSUME NEW j \in Jobs, Commit(j) PROVE CoverInv'
  BY <1>4, CommitKeepsCover
<1>5. ASSUME NEW j \in Jobs, SerializationFailure(j) PROVE CoverInv'
  BY <1>5, AbandonKeepsCover DEF SerializationFailure
<1>6. ASSUME NEW j \in Jobs, DeadlockVictim(j) PROVE CoverInv'
  BY <1>6, AbandonKeepsCover DEF DeadlockVictim
<1>7. ASSUME NEW j \in Jobs, Rollback(j) PROVE CoverInv'
  BY <1>7, AbandonKeepsCover DEF Rollback
<1>8. CASE UNCHANGED vars
  BY <1>8 DEF vars, CoverInv, AvailableNonNegative, SnapshotsCovered, DraftsCovered,
              Base, Serializable
<1> QED BY <1>1, <1>2, <1>3, <1>4, <1>5, <1>6, <1>7, <1>8 DEF Next, Proceed

\* If collateral is only released where it had been reserved, nobody ever spends
\* or reserves more than is there and not reserved already, whichever isolation
\* levels are mixed, in the wallets that have not gone astray.
THEOREM AvailableCorrect ==
    ASSUME ReleasesFollowReserves
    PROVE  Spec => []AvailableNonNegative
<1>1. CoverInv => AvailableNonNegative
  BY DEF CoverInv
<1>2. TypeOK /\ LedgerInv /\ [Next]_vars => LedgerInv'
  BY NextInv
<1>3. TypeOK /\ BucketInv /\ [Next]_vars => BucketInv'
  BY NextBuckets
<1>4. TypeOK /\ LedgerInv /\ BucketInv /\ CoverInv /\ [Next]_vars => CoverInv'
  BY NextCover
<1> QED BY <1>1, <1>2, <1>3, <1>4, InitInv, InitBuckets, InitCover, TypeCorrect, PTL DEF Spec
-----------------------------------------------------------------------------
(* The ledger implements the bank.                                         *)

\* What a job's operations change adds up, one operation at a time.
LEMMA ChangesAddUp ==
    ASSUME NEW j \in Jobs, NEW w \in Wallets, NEW n \in 0..Len(Ops[j])
    PROVE  /\ Total(Moved(j, w), 1..n) \in Int /\ Total(Locked(j, w), 1..n) \in Int
           /\ n = 0 => Total(Moved(j, w), 1..n) = 0 /\ Total(Locked(j, w), 1..n) = 0
           /\ n > 0 =>
                /\ Total(Moved(j, w), 1..n) =
                     Total(Moved(j, w), 1..(n - 1)) + Moved(j, w)[n]
                /\ Total(Locked(j, w), 1..n) =
                     Total(Locked(j, w), 1..(n - 1)) + Locked(j, w)[n]
<1>1. Ops[j] \in Seq(Operation) /\ Len(Ops[j]) \in Nat
  BY JobsAssumption
<1>2. \A i \in 1..Len(Ops[j]) : MainChange(Ops[j][i]) \in Int /\ HeldChange(Ops[j][i]) \in Int
  <2> SUFFICES ASSUME NEW i \in 1..Len(Ops[j])
               PROVE  MainChange(Ops[j][i]) \in Int /\ HeldChange(Ops[j][i]) \in Int
    OBVIOUS
  <2>1. Ops[j][i] \in Operation
    BY <1>1
  <2> QED BY <2>1 DEF Operation, MainChange, HeldChange
<1>3. \A i \in 1..Len(Ops[j]) : Moved(j, w)[i] \in Int /\ Locked(j, w)[i] \in Int
  BY <1>2 DEF Moved, Locked
<1>4. IsFiniteSet(1..n) /\ 1..n \subseteq 1..Len(Ops[j])
  BY <1>1, FS_Interval
<1>5. Amounts(Moved(j, w), 1..n) /\ Amounts(Locked(j, w), 1..n)
  BY <1>3, <1>4 DEF Amounts
<1>6. CASE n = 0
  <2>1. 1..n = {}
    BY <1>6
  <2> QED BY <1>5, <1>6, <2>1, TotalUnfolds
<1>7. CASE n > 0
  <2>1. n \in 1..n /\ (1..n) \ {n} = 1..(n - 1)
    BY <1>7
  <2>2. /\ Total(Moved(j, w), 1..n) = Moved(j, w)[n] + Total(Moved(j, w), (1..n) \ {n})
        /\ Total(Moved(j, w), 1..n) \in Int /\ Total(Moved(j, w), (1..n) \ {n}) \in Int
    BY <1>5, <2>1, TotalRemoves
  <2>3. /\ Total(Locked(j, w), 1..n) = Locked(j, w)[n] + Total(Locked(j, w), (1..n) \ {n})
        /\ Total(Locked(j, w), 1..n) \in Int /\ Total(Locked(j, w), (1..n) \ {n}) \in Int
    BY <1>5, <2>1, TotalRemoves
  <2>4. Moved(j, w)[n] \in Int /\ Locked(j, w)[n] \in Int
    BY <1>3, <1>4, <2>1
  <2>5. (1..n) \ {n} = 1..(n - 1)
    BY <2>1
  <2> DEFINE moved == Moved(j, w)[n]
             locked == Locked(j, w)[n]
             sum == Total(Moved(j, w), 1..(n - 1))
             held == Total(Locked(j, w), 1..(n - 1))
  <2>6. /\ Total(Moved(j, w), 1..n) = moved + sum /\ Total(Locked(j, w), 1..n) = locked + held
        /\ sum \in Int /\ held \in Int /\ moved \in Int /\ locked \in Int
    BY <2>2, <2>3, <2>4, <2>5
  <2> HIDE DEF moved, locked, sum, held
  <2>7. moved + sum = sum + moved /\ locked + held = held + locked
    BY <2>6
  <2> QED BY <1>7, <2>6, <2>7 DEF moved, locked, sum, held
<1> QED BY <1>1, <1>6, <1>7

\* No job has written anything yet.
LEMMA InitPost == Init => PostInv
BY DEF Init, PostInv, DraftsAddUp, DraftsBacked, RefsOnce, NewAccount, NoDraft, HasRefs

\* A transaction that starts has written nothing.
LEMMA BeginKeepsPost ==
    ASSUME TypeOK, LedgerInv, PostInv, NEW j \in Jobs, Begin(j)
    PROVE  PostInv'
<1>1. /\ status[j] = "idle"
      /\ \A k \in Jobs : status'[k] = IF k = j THEN "active" ELSE status[k]
      /\ \A k \in Jobs : pc'[k] = IF k = j THEN 1 ELSE pc[k]
      /\ \A k \in Jobs : k # j => snap'[k] = snap[k]
      /\ UNCHANGED <<db, draft, astray, applied>>
  BY DEF Begin, TypeOK
<1>2. \A w \in Wallets : draft[j][w] = NoDraft
  BY <1>1 DEF LedgerInv, DraftsAreLocked
<1>3. DraftsAddUp'
  <2> SUFFICES ASSUME NEW k \in Jobs, status'[k] = "active"
               PROVE  /\ pc'[k] \in 1..(Len(Ops[k]) + 1)
                      /\ \A w \in Wallets : /\ draft[k][w].net = Total(Moved(k, w), 1..(pc'[k] - 1))
                                            /\ draft[k][w].held = Total(Locked(k, w), 1..(pc'[k] - 1))
    BY <1>1 DEF DraftsAddUp, Moved, Locked
  <2>1. CASE k # j
    BY <1>1, <2>1 DEF PostInv, DraftsAddUp
  <2>2. CASE k = j
    <3>1. Len(Ops[j]) \in Nat /\ 0 \in 0..Len(Ops[j])
      BY JobsAssumption
    <3>2. \A w \in Wallets : Total(Moved(j, w), 1..0) = 0 /\ Total(Locked(j, w), 1..0) = 0
      BY <3>1, ChangesAddUp
    <3>3. pc'[k] = 1 /\ pc'[k] - 1 = 0
      BY <1>1, <2>2
    <3> QED BY <1>2, <2>2, <3>1, <3>2, <3>3 DEF NoDraft
  <2> QED BY <2>1, <2>2
<1>4. DraftsBacked'
  <2> SUFFICES ASSUME NEW k \in Jobs, status'[k] = "active", NEW i \in 1..Len(Ops[k]), i < pc'[k]
               PROVE  Backed(k, i, Base(k, Ops[k][i].wallet)', astray')
    BY <1>1 DEF DraftsBacked, Backed, Moved, Locked
  <2>1. k # j
    BY <1>1
  <2>2. Base(k, Ops[k][i].wallet)' = Base(k, Ops[k][i].wallet)
    BY <1>1, <2>1 DEF Base, Serializable
  <2> QED BY <1>1, <2>1, <2>2 DEF PostInv, DraftsBacked
<1>5. RefsOnce'
  BY <1>1 DEF PostInv, RefsOnce, HasRefs
<1> QED BY <1>3, <1>4, <1>5 DEF PostInv

\* A transaction that ends without a commit leaves the others as they were.
LEMMA AbandonKeepsPost ==
    ASSUME TypeOK, PostInv, NEW j \in Jobs, Abandon(j)
    PROVE  PostInv'
<1>1. /\ \A k \in Jobs : status'[k] = IF k = j THEN "idle" ELSE status[k]
      /\ \A k \in Jobs : k # j => pc'[k] = pc[k] /\ snap'[k] = snap[k] /\ draft'[k] = draft[k]
      /\ \A x \in Wallets : draft'[j][x] = NoDraft
      /\ UNCHANGED <<db, astray, applied>>
  BY DEF Abandon, End, TypeOK
<1>2. DraftsAddUp'
  BY <1>1 DEF PostInv, DraftsAddUp, Moved, Locked
<1>3. DraftsBacked'
  <2> SUFFICES ASSUME NEW k \in Jobs, k # j, status[k] = "active", NEW i \in 1..Len(Ops[k]), i < pc[k]
               PROVE  Backed(k, i, Base(k, Ops[k][i].wallet)', astray')
    BY <1>1 DEF DraftsBacked, Backed, Moved, Locked
  <2>2. Base(k, Ops[k][i].wallet)' = Base(k, Ops[k][i].wallet)
    BY <1>1 DEF Base, Serializable
  <2> QED BY <1>1, <2>2 DEF PostInv, DraftsBacked
<1>4. RefsOnce'
  BY <1>1 DEF PostInv, RefsOnce, HasRefs, NoDraft
<1> QED BY <1>2, <1>3, <1>4 DEF PostInv

\* What an operation finds: the base its transaction reads, and what the
\* transaction wrote before.
LEMMA SeenFacts ==
    ASSUME TypeOK, LedgerInv, BucketInv, NEW j \in Jobs, NEW w \in Wallets \ astray
    PROVE  /\ Seen(j, w).last = Base(j, w).last + draft[j][w].net
           /\ Seen(j, w).net = Base(j, w).last + draft[j][w].net
           /\ Seen(j, w).reserved = Base(j, w).reserved + draft[j][w].held
           /\ draft[j][w].net \in Int /\ draft[j][w].held \in Int
           /\ Base(j, w) \in Account
<1> DEFINE d == draft[j][w]
           b == Base(j, w)
<1>1. b \in Account /\ d \in Draft
  BY DEF Base, TypeOK
<1>2. b.last = b.net
  BY DEF Base, LedgerInv, SnapshotsAgree, RunningTotalKept
<1>3. ~d.wrote => d.net = 0
  BY DEF LedgerInv, DraftsAreLocked, NoDraft
<1>4. d.wrote => d.last = b.last + d.net
  BY DEF LedgerInv, DraftsAgree
<1>5. d.reserved = d.held
  BY DEF BucketInv, DraftBucketsMatch
<1>6. /\ Seen(j, w).last = IF d.wrote THEN d.last ELSE b.last
      /\ Seen(j, w).net = b.net + d.net /\ Seen(j, w).reserved = b.reserved + d.reserved
  BY DEF Seen
<1>7. d.net \in Int /\ d.held \in Int /\ b.last \in Int
  BY <1>1 DEF Account, Draft
<1> HIDE DEF d, b
<1>8. /\ Seen(j, w).last = b.last + d.net /\ Seen(j, w).net = b.last + d.net
      /\ Seen(j, w).reserved = b.reserved + d.held
  BY <1>2, <1>3, <1>4, <1>5, <1>6, <1>7
<1> QED BY <1>1, <1>7, <1>8 DEF d, b

\* An operation that is accepted is covered from the base on.
LEMMA WrittenBacked ==
    ASSUME TypeOK, LedgerInv, BucketInv, PostInv, NEW j \in Jobs, WriteEntry(j),
           Current(j).wallet \notin astray
    PROVE  Backed(j, pc[j], Base(j, Current(j).wallet), astray)
<1> DEFINE op == Current(j)
           w == op.wallet
           b == Base(j, w)
           seen == Seen(j, w)
<1>1. op \in Operation /\ w \in Wallets \ astray /\ op = Ops[j][pc[j]] /\ pc[j] \in 1..Len(Ops[j])
  BY OperationType DEF WriteEntry, Operation, Remaining, Current
<1>2. op.amount > 0 /\ (op.entryType \in {"DEBIT", "RESERVE"} => op.amount <= Available(op, seen))
  BY DEF WriteEntry, Admissible
<1>3. /\ seen.last = b.last + draft[j][w].net /\ seen.net = b.last + draft[j][w].net
      /\ seen.reserved = b.reserved + draft[j][w].held
  BY <1>1, SeenFacts
<1>4. /\ draft[j][w].net = Total(Moved(j, w), 1..(pc[j] - 1))
      /\ draft[j][w].held = Total(Locked(j, w), 1..(pc[j] - 1))
  BY <1>1 DEF WriteEntry, PostInv, DraftsAddUp
<1> DEFINE net == b.last + draft[j][w].net
           held == b.reserved + draft[j][w].held
<1>5. seen.last = net /\ seen.net = net /\ seen.reserved = held
  BY <1>3
<1>6. /\ net = b.last + Total(Moved(j, w), 1..(pc[j] - 1))
      /\ held = b.reserved + Total(Locked(j, w), 1..(pc[j] - 1))
  BY <1>4
<1>7. op = Ops[j][pc[j]] /\ w = op.wallet
  BY <1>1
<1> DEFINE moved == Total(Moved(j, w), 1..(pc[j] - 1))
           locked == Total(Locked(j, w), 1..(pc[j] - 1))
<1>t. /\ b.last \in Int /\ b.reserved \in Int /\ moved \in Int /\ locked \in Int
      /\ op.amount \in Int /\ net = b.last + moved /\ held = b.reserved + locked
  <2>1. b \in Account /\ moved \in Int /\ locked \in Int
    BY <1>1, <1>4, SeenFacts
  <2> QED BY <1>1, <1>6, <2>1 DEF Account, Operation
<1> HIDE DEF op, w, b, seen, net, held, moved, locked
<1>8. Available(op, seen) = net - held
  BY <1>5 DEF Available, Balance, RunningTotal
<1>9. op.entryType \in {"DEBIT", "RESERVE"} => op.amount <= net - held
  BY <1>2, <1>8
<1>10. op.entryType \in {"DEBIT", "RESERVE"} =>
         op.amount <= b.last + Total(Moved(j, w), 1..(pc[j] - 1))
                        - (b.reserved + Total(Locked(j, w), 1..(pc[j] - 1)))
  <2>1. op.entryType \in {"DEBIT", "RESERVE"} =>
          op.amount <= b.last + moved - (b.reserved + locked)
    BY <1>9, <1>t
  <2> QED BY <2>1 DEF moved, locked
<1>11. Backed(j, pc[j], b, astray)
  BY <1>2, <1>7, <1>10, Zenon DEF Backed
<1> QED BY <1>7, <1>11 DEF b, w, op

\* What an operation adds to its transaction's rows.
LEMMA WriteFacts ==
    ASSUME TypeOK, NEW j \in Jobs, WriteEntry(j)
    PROVE  LET op == Current(j)
           IN  /\ status[j] = "active" /\ op = Ops[j][pc[j]] /\ pc[j] \in 1..Len(Ops[j])
               /\ op.wallet \in Wallets /\ op \in Operation
               /\ lock[op.wallet] \in {NoJob, j}
               /\ Written(j, op).net = draft[j][op.wallet].net + MainChange(op)
               /\ Written(j, op).held = draft[j][op.wallet].held + HeldChange(op)
               /\ Written(j, op).refs = draft[j][op.wallet].refs \cup {op.ref}
               /\ op.ref \notin db[op.wallet].refs
               /\ \A k \in Jobs, x \in Wallets :
                    draft'[k][x] = IF k = j /\ x = op.wallet THEN Written(j, op) ELSE draft[k][x]
               /\ \A k \in Jobs : pc'[k] = IF k = j THEN pc[k] + 1 ELSE pc[k]
               /\ UNCHANGED <<db, status, snap, astray, applied>>
<1> DEFINE op == Current(j)
<1>1. op \in Operation /\ op.wallet \in Wallets /\ op = Ops[j][pc[j]] /\ pc[j] \in 1..Len(Ops[j])
  BY OperationType DEF WriteEntry, Operation, Remaining, Current
<1>2. /\ status[j] = "active" /\ lock[op.wallet] \in {NoJob, j}
      /\ draft' = [draft EXCEPT ![j][op.wallet] = Written(j, op)]
      /\ pc' = [pc EXCEPT ![j] = pc[j] + 1]
      /\ UNCHANGED <<db, status, snap, astray, applied>>
      /\ op.ref \notin db[op.wallet].refs
  BY DEF WriteEntry, Admissible
<1>3. /\ Written(j, op).net = draft[j][op.wallet].net + MainChange(op)
      /\ Written(j, op).held = draft[j][op.wallet].held + HeldChange(op)
      /\ Written(j, op).refs = draft[j][op.wallet].refs \cup {op.ref}
  BY DEF Written
<1> HIDE DEF op
<1>4. \A k \in Jobs, x \in Wallets :
        draft'[k][x] = IF k = j /\ x = op.wallet THEN Written(j, op) ELSE draft[k][x]
  BY <1>1, <1>2 DEF TypeOK
<1>5. \A k \in Jobs : pc'[k] = IF k = j THEN pc[k] + 1 ELSE pc[k]
  BY <1>2 DEF TypeOK
<1> QED BY <1>1, <1>2, <1>3, <1>4, <1>5 DEF op

\* A written row adds its operation to what the draft adds up to.
LEMMA WriteKeepsPost ==
    ASSUME TypeOK, LedgerInv, BucketInv, PostInv, NEW j \in Jobs, WriteEntry(j)
    PROVE  PostInv'
<1> DEFINE op == Current(j)
           w == op.wallet
           written == Written(j, op)
<1>1. /\ status[j] = "active" /\ op = Ops[j][pc[j]] /\ pc[j] \in 1..Len(Ops[j])
      /\ w \in Wallets /\ op \in Operation
      /\ written.net = draft[j][w].net + MainChange(op)
      /\ written.held = draft[j][w].held + HeldChange(op)
      /\ written.refs = draft[j][w].refs \cup {op.ref}
      /\ op.ref \notin db[w].refs
      /\ \A k \in Jobs, x \in Wallets :
           draft'[k][x] = IF k = j /\ x = w THEN written ELSE draft[k][x]
      /\ \A k \in Jobs : pc'[k] = IF k = j THEN pc[k] + 1 ELSE pc[k]
      /\ UNCHANGED <<db, status, snap, astray, applied>>
  BY WriteFacts
<1>2. Backed(j, pc[j], Base(j, w), astray)
  <2>1. CASE w \notin astray
    BY <2>1, WrittenBacked
  <2>2. CASE w \in astray
    <3>1. op.amount > 0
      BY DEF WriteEntry, Admissible
    <3> QED BY <1>1, <2>2, <3>1, Zenon DEF Backed
  <2> QED BY <2>1, <2>2
<1> HIDE DEF op, written
<1>3. /\ Len(Ops[j]) \in Nat /\ pc[j] \in 1..Len(Ops[j]) /\ pc[j] \in Nat
      /\ pc'[j] = pc[j] + 1 /\ \A k \in Jobs : k # j => pc'[k] = pc[k]
  <2>1. Len(Ops[j]) \in Nat /\ pc[j] \in Nat
    BY JobsAssumption DEF TypeOK
  <2>2. \A k \in Jobs : pc'[k] = IF k = j THEN pc[k] + 1 ELSE pc[k]
    BY <1>1
  <2> QED BY <1>1, <2>1, <2>2
<1>4. DraftsAddUp'
  <2> SUFFICES ASSUME NEW k \in Jobs, status[k] = "active"
               PROVE  /\ pc'[k] \in 1..(Len(Ops[k]) + 1)
                      /\ \A x \in Wallets : /\ draft'[k][x].net = Total(Moved(k, x), 1..(pc'[k] - 1))
                                            /\ draft'[k][x].held = Total(Locked(k, x), 1..(pc'[k] - 1))
    BY <1>1 DEF DraftsAddUp, Moved, Locked
  <2>1. CASE k # j
    <3>1. pc'[k] = pc[k]
      BY <1>3, <2>1
    <3>2. \A x \in Wallets : draft'[k][x] = draft[k][x]
      BY <1>1, <2>1
    <3> QED BY <3>1, <3>2 DEF PostInv, DraftsAddUp
  <2>2. CASE k = j
    <3>1. pc'[k] = pc[j] + 1 /\ pc'[k] - 1 = pc[j] /\ pc'[k] \in 1..(Len(Ops[k]) + 1)
      BY <1>3, <2>2
    <3>2. ASSUME NEW x \in Wallets
          PROVE  /\ draft'[k][x].net = Total(Moved(j, x), 1..pc[j])
                 /\ draft'[k][x].held = Total(Locked(j, x), 1..pc[j])
      <4>1. /\ draft[j][x].net = Total(Moved(j, x), 1..(pc[j] - 1))
            /\ draft[j][x].held = Total(Locked(j, x), 1..(pc[j] - 1))
        BY <1>1 DEF PostInv, DraftsAddUp
      <4>2. pc[j] \in 0..Len(Ops[j]) /\ pc[j] > 0 /\ pc[j] - 1 \in 0..Len(Ops[j])
        BY <1>3
      <4>3. /\ Total(Moved(j, x), 1..pc[j]) = Total(Moved(j, x), 1..(pc[j] - 1)) + Moved(j, x)[pc[j]]
            /\ Total(Locked(j, x), 1..pc[j]) = Total(Locked(j, x), 1..(pc[j] - 1)) + Locked(j, x)[pc[j]]
        BY <4>2, ChangesAddUp
      <4>4. /\ Total(Moved(j, x), 1..(pc[j] - 1)) \in Int
            /\ Total(Locked(j, x), 1..(pc[j] - 1)) \in Int
        BY <4>2, ChangesAddUp
      <4>5. /\ Moved(j, x)[pc[j]] = IF x = w THEN MainChange(op) ELSE 0
            /\ Locked(j, x)[pc[j]] = IF x = w THEN HeldChange(op) ELSE 0
        BY <1>1 DEF Moved, Locked
      <4>6. /\ draft'[j][x].net = IF x = w THEN draft[j][x].net + MainChange(op) ELSE draft[j][x].net
            /\ draft'[j][x].held = IF x = w THEN draft[j][x].held + HeldChange(op) ELSE draft[j][x].held
        BY <1>1
      <4> QED BY <2>2, <4>1, <4>3, <4>4, <4>5, <4>6
    <3> QED BY <2>2, <3>1, <3>2
  <2> QED BY <2>1, <2>2
<1>5. DraftsBacked'
  <2> SUFFICES ASSUME NEW k \in Jobs, status[k] = "active", NEW i \in 1..Len(Ops[k]), i < pc'[k]
               PROVE  Backed(k, i, Base(k, Ops[k][i].wallet)', astray')
    BY <1>1 DEF DraftsBacked, Backed, Moved, Locked
  <2>1. Base(k, Ops[k][i].wallet)' = Base(k, Ops[k][i].wallet)
    BY <1>1 DEF Base, Serializable
  <2>2. i < pc[k] \/ (k = j /\ i = pc[j])
    BY <1>3
  <2>3. CASE i < pc[k]
    <3>1. Backed(k, i, Base(k, Ops[k][i].wallet), astray)
      BY <2>3 DEF PostInv, DraftsBacked
    <3>2. astray' = astray
      BY <1>1
    <3> QED BY <3>1, <3>2, <2>1
  <2>4. CASE k = j /\ i = pc[j]
    BY <1>1, <1>2, <2>1, <2>4
  <2> QED BY <2>2, <2>3, <2>4
<1>6. RefsOnce'
  <2>1. ASSUME NEW k \in Jobs, NEW x \in Wallets PROVE draft'[k][x].refs \cap db'[x].refs = {}
    <3>1. draft[k][x].refs \cap db[x].refs = {} /\ db'[x] = db[x]
      BY <1>1 DEF PostInv, RefsOnce
    <3>2. CASE k = j /\ x = w
      <4>1. draft'[k][x].refs = draft[k][x].refs \cup {op.ref} /\ op.ref \notin db[x].refs
        BY <1>1, <3>2
      <4> QED BY <3>1, <4>1
    <3>3. CASE ~(k = j /\ x = w)
      <4>1. draft'[k][x] = draft[k][x]
        BY <1>1, <3>3
      <4> QED BY <3>1, <4>1
    <3> QED BY <3>2, <3>3
  <2>2. ASSUME NEW k \in Jobs, status[k] = "active", NEW i \in 1..Len(Ops[k]), i < pc'[k]
        PROVE  Ops[k][i].ref \in draft'[k][Ops[k][i].wallet].refs
    <3>1. Ops[k][i].wallet \in Wallets
      BY WalletOfOperation
    <3>2. i < pc[k] \/ (k = j /\ i = pc[j])
      BY <1>3, <2>2
    <3>3. CASE i < pc[k]
      <4>1. Ops[k][i].ref \in draft[k][Ops[k][i].wallet].refs
        BY <2>2, <3>3 DEF PostInv, RefsOnce, HasRefs
      <4>2. \A x \in Wallets : draft[k][x].refs \subseteq draft'[k][x].refs
        <5>1. written.refs = draft[j][w].refs \cup {op.ref}
          BY <1>1
        <5>2. \A x \in Wallets : draft'[k][x] = IF k = j /\ x = w THEN written ELSE draft[k][x]
          BY <1>1
        <5> QED BY <5>1, <5>2
      <4> QED BY <3>1, <4>1, <4>2
    <3>4. CASE k = j /\ i = pc[j]
      BY <1>1, <3>4
    <3> QED BY <3>2, <3>3, <3>4
  <2>3. \A k \in Jobs : applied'[k] > 0 => HasRefs(k, Len(Ops[k]) + 1, db)'
    BY <1>1 DEF PostInv, RefsOnce, HasRefs
  <2> QED BY <1>1, <2>1, <2>2, <2>3 DEF RefsOnce, HasRefs
<1> QED BY <1>4, <1>5, <1>6 DEF PostInv

\* What a commit leaves of the keys of an account and the rows added to it.
LEMMA MergedRefs ==
    ASSUME NEW a \in Account, NEW d \in Draft
    PROVE  Merged(a, d).refs = IF d.wrote THEN a.refs \cup d.refs ELSE a.refs
BY DEF Merged, Account, Draft

\* The more wallets are off, the less has to be covered.
LEMMA BackedLess ==
    ASSUME NEW j, NEW i, NEW a, NEW off, NEW more, off \subseteq more, Backed(j, i, a, off)
    PROVE  Backed(j, i, a, more)
BY Zenon DEF Backed

\* A commit posts the whole of a job's operations.
LEMMA CommitKeepsPost ==
    ASSUME TypeOK, LedgerInv, BucketInv, PostInv, NEW j \in Jobs, Commit(j)
    PROVE  PostInv'
<1>1. /\ \A k \in Jobs : status'[k] = IF k = j THEN "idle" ELSE status[k]
      /\ \A k \in Jobs : k # j => pc'[k] = pc[k] /\ snap'[k] = snap[k] /\ draft'[k] = draft[k]
      /\ \A x \in Wallets : draft'[j][x] = NoDraft
      /\ \A k \in Jobs : applied'[k] = IF k = j THEN applied[k] + 1 ELSE applied[k]
  BY DEF Commit, End, TypeOK
<1>2. \A x \in Wallets : /\ db'[x] = Merged(db[x], draft[j][x])
                         /\ db[x] \in Account /\ draft[j][x] \in Draft
  BY DEF Commit, TypeOK
<1>3. \A k \in Jobs, x \in Wallets : k # j /\ draft[k][x].wrote => ~draft[j][x].wrote
  BY DEF LedgerInv, DraftsAreLocked
<1>4. \A x \in Wallets : db'[x].refs = IF draft[j][x].wrote THEN db[x].refs \cup draft[j][x].refs
                                        ELSE db[x].refs
  <2> SUFFICES ASSUME NEW x \in Wallets
               PROVE  db'[x].refs = IF draft[j][x].wrote THEN db[x].refs \cup draft[j][x].refs
                                    ELSE db[x].refs
    OBVIOUS
  <2>1. Merged(db[x], draft[j][x]).refs =
          IF draft[j][x].wrote THEN db[x].refs \cup draft[j][x].refs ELSE db[x].refs
    BY <1>2, MergedRefs, Zenon
  <2> QED BY <1>2, <2>1
<1>5. \A x \in Wallets : ~draft[j][x].wrote => db'[x] = db[x]
  BY <1>2, MergedFacts
<1>6. DraftsAddUp'
  BY <1>1 DEF PostInv, DraftsAddUp, Moved, Locked
<1>7. DraftsBacked'
  <2> SUFFICES ASSUME NEW k \in Jobs, k # j, status[k] = "active", NEW i \in 1..Len(Ops[k]), i < pc[k]
               PROVE  Backed(k, i, Base(k, Ops[k][i].wallet)', astray')
    BY <1>1 DEF DraftsBacked, Backed, Moved, Locked
  <2>1. Ops[k][i].wallet \in Wallets /\ draft[k][Ops[k][i].wallet].wrote
    BY WalletOfOperation DEF BucketInv, DraftsHaveBuckets
  <2>2. db'[Ops[k][i].wallet] = db[Ops[k][i].wallet]
    BY <1>3, <1>5, <2>1
  <2>3. Base(k, Ops[k][i].wallet)' = Base(k, Ops[k][i].wallet)
    BY <1>1, <2>2 DEF Base, Serializable
  <2>4. Backed(k, i, Base(k, Ops[k][i].wallet), astray)
    BY DEF PostInv, DraftsBacked
  <2>5. astray \subseteq astray'
    BY DEF Commit
  <2> QED BY <2>3, <2>4, <2>5, BackedLess
<1>8. RefsOnce'
  <2>1. \A k \in Jobs, x \in Wallets : draft'[k][x].refs \cap db'[x].refs = {}
    <3> SUFFICES ASSUME NEW k \in Jobs, NEW x \in Wallets PROVE draft'[k][x].refs \cap db'[x].refs = {}
      OBVIOUS
    <3>1. CASE k = j
      BY <1>1, <3>1 DEF NoDraft
    <3>2. CASE k # j /\ draft[k][x].wrote
      BY <1>1, <1>3, <1>4, <3>2 DEF PostInv, RefsOnce
    <3>3. CASE k # j /\ ~draft[k][x].wrote
      BY <1>1, <3>3 DEF LedgerInv, DraftsAreLocked, NoDraft
    <3> QED BY <3>1, <3>2, <3>3
  <2>2. \A k \in Jobs : status'[k] = "active" =>
           \A i \in 1..Len(Ops[k]) : i < pc'[k] => Ops[k][i].ref \in draft'[k][Ops[k][i].wallet].refs
    BY <1>1 DEF PostInv, RefsOnce, HasRefs
  <2>3. ASSUME NEW k \in Jobs, applied'[k] > 0, NEW i \in 1..Len(Ops[k])
        PROVE  Ops[k][i].ref \in db'[Ops[k][i].wallet].refs
    <3>1. Ops[k][i].wallet \in Wallets
      BY WalletOfOperation
    <3>2. CASE k = j
      <4>1. /\ status[j] = "active" /\ ~Remaining(j) /\ pc[j] \in Nat /\ Len(Ops[j]) \in Nat
        BY JobsAssumption DEF Commit, TypeOK
      <4>2. i < pc[j]
        BY <3>2, <4>1 DEF Remaining, PostInv, DraftsAddUp
      <4>3. /\ Ops[k][i].ref \in draft[j][Ops[k][i].wallet].refs
            /\ draft[j][Ops[k][i].wallet].wrote
        BY <3>2, <4>1, <4>2 DEF PostInv, RefsOnce, HasRefs, BucketInv, DraftsHaveBuckets
      <4> QED BY <1>4, <3>1, <4>3
    <3>3. CASE k # j
      <4>1. applied[k] > 0 /\ i < Len(Ops[k]) + 1
        BY <1>1, <2>3, <3>3, JobsAssumption
      <4>2. Ops[k][i].ref \in db[Ops[k][i].wallet].refs
        BY <4>1 DEF PostInv, RefsOnce, HasRefs
      <4> QED BY <1>4, <3>1, <4>2
    <3> QED BY <3>2, <3>3
  <2> QED BY <2>1, <2>2, <2>3 DEF RefsOnce, HasRefs
<1> QED BY <1>6, <1>7, <1>8 DEF PostInv

\* Every step keeps the drafts the sums of the operations done.
LEMMA NextPost ==
    ASSUME TypeOK, LedgerInv, BucketInv, PostInv, [Next]_vars
    PROVE  PostInv'
<1>1. ASSUME NEW j \in Jobs, Begin(j) PROVE PostInv'
  BY <1>1, BeginKeepsPost
<1>2. ASSUME NEW j \in Jobs, WriteEntry(j) PROVE PostInv'
  BY <1>2, WriteKeepsPost
<1>3. ASSUME NEW j \in Jobs, Refuse(j) PROVE PostInv'
  BY <1>3, AbandonKeepsPost DEF Refuse
<1>4. ASSUME NEW j \in Jobs, Commit(j) PROVE PostInv'
  BY <1>4, CommitKeepsPost
<1>5. ASSUME NEW j \in Jobs, SerializationFailure(j) PROVE PostInv'
  BY <1>5, AbandonKeepsPost DEF SerializationFailure
<1>6. ASSUME NEW j \in Jobs, DeadlockVictim(j) PROVE PostInv'
  BY <1>6, AbandonKeepsPost DEF DeadlockVictim
<1>7. ASSUME NEW j \in Jobs, Rollback(j) PROVE PostInv'
  BY <1>7, AbandonKeepsPost DEF Rollback
<1>8. CASE UNCHANGED vars
  <2>1. UNCHANGED <<db, status, pc, snap, draft, astray, applied>>
    BY <1>8 DEF vars
  <2>2. DraftsAddUp'
    BY <2>1 DEF PostInv, DraftsAddUp, Moved, Locked
  <2>3. DraftsBacked'
    BY <2>1 DEF PostInv, DraftsBacked, Backed, Moved, Locked, Base, Serializable
  <2>4. RefsOnce'
    BY <2>1 DEF PostInv, RefsOnce, HasRefs
  <2> QED BY <2>2, <2>3, <2>4 DEF PostInv
<1> QED BY <1>1, <1>2, <1>3, <1>4, <1>5, <1>6, <1>7, <1>8 DEF Next, Proceed

-----------------------------------------------------------------------------
(* A posting of the bank, from the committed balances on.                  *)

\* g holds the accounts of the bank after each operation of job j.
IsRun(g, j, off) ==
    g = [n \in 0..Len(Ops[j]) |->
            IF n = 0 THEN [ok |-> TRUE, total |-> [w \in Wallets |-> db[w].last],
                           reserved |-> [w \in Wallets |-> db[w].reserved]]
            ELSE Bank!After(g[n - 1], Ops[j][n], off)]

\* They are what they were, and what was moved since.
Posted(j) ==
    [n \in 0..Len(Ops[j]) |->
        [ok |-> TRUE,
         total |-> [w \in Wallets |-> db[w].last + Total(Moved(j, w), 1..n)],
         reserved |-> [w \in Wallets |-> db[w].reserved + Total(Locked(j, w), 1..n)]]]

\* The bank's amounts with their signs are the changes the ledger makes.
LEMMA SignedIsChange ==
    ASSUME NEW op
    PROVE  /\ Bank!Signed(op, "CREDIT", "DEBIT") = MainChange(op)
           /\ Bank!Signed(op, "RESERVE", "RELEASE") = HeldChange(op)
BY DEF Bank!Signed, MainChange, HeldChange

\* A job whose operations are all covered has such a run.
LEMMA PostedIsRun ==
    ASSUME TypeOK, NEW j \in Jobs, NEW off,
           \A i \in 1..Len(Ops[j]) : Backed(j, i, db[Ops[j][i].wallet], off)
    PROVE  IsRun(Posted(j), j, off)
<1> DEFINE g == Posted(j)
<1>1. \A w \in Wallets : db[w].last \in Int /\ db[w].reserved \in Int
  BY DEF TypeOK, Account
<1>2. Len(Ops[j]) \in Nat
  BY JobsAssumption
<1>3. ASSUME NEW n \in 0..Len(Ops[j])
      PROVE  g[n] = IF n = 0 THEN [ok |-> TRUE, total |-> [w \in Wallets |-> db[w].last],
                                   reserved |-> [w \in Wallets |-> db[w].reserved]]
                    ELSE Bank!After(g[n - 1], Ops[j][n], off)
  <2>1. g[n] = [ok |-> TRUE,
                total |-> [w \in Wallets |-> db[w].last + Total(Moved(j, w), 1..n)],
                reserved |-> [w \in Wallets |-> db[w].reserved + Total(Locked(j, w), 1..n)]]
    BY DEF Posted
  <2>2. CASE n = 0
    <3>1. \A w \in Wallets : /\ db[w].last + Total(Moved(j, w), 1..n) = db[w].last
                             /\ db[w].reserved + Total(Locked(j, w), 1..n) = db[w].reserved
      <4> SUFFICES ASSUME NEW w \in Wallets
                   PROVE  /\ db[w].last + Total(Moved(j, w), 1..n) = db[w].last
                          /\ db[w].reserved + Total(Locked(j, w), 1..n) = db[w].reserved
        OBVIOUS
      <4>1. Total(Moved(j, w), 1..n) = 0 /\ Total(Locked(j, w), 1..n) = 0
        BY <2>2, ChangesAddUp
      <4> QED BY <1>1, <4>1
    <3> QED BY <2>1, <2>2, <3>1
  <2>3. CASE n > 0
    <3> DEFINE op == Ops[j][n]
               v == op.wallet
               p == g[n - 1]
               last == [w \in Wallets |-> db[w].last + Total(Moved(j, w), 1..(n - 1))]
               reserved == [w \in Wallets |-> db[w].reserved + Total(Locked(j, w), 1..(n - 1))]
    <3>1. n \in 1..Len(Ops[j]) /\ n - 1 \in 0..Len(Ops[j])
      BY <1>2, <2>3
    <3>2. v \in Wallets
      BY <3>1, WalletOfOperation
    <3>3. p = [ok |-> TRUE, total |-> last, reserved |-> reserved]
      BY <3>1 DEF Posted
    <3>4. Backed(j, n, db[v], off)
      BY <3>1
    <3>5. /\ op.amount > 0
          /\ op.entryType \in {"DEBIT", "RESERVE"} /\ v \notin off => op.amount <= last[v] - reserved[v]
      <4>1. last[v] = db[v].last + Total(Moved(j, v), 1..(n - 1))
        BY <3>2
      <4>2. reserved[v] = db[v].reserved + Total(Locked(j, v), 1..(n - 1))
        BY <3>2
      <4> DEFINE held == db[v].reserved + Total(Locked(j, v), 1..(n - 1))
                 net == db[v].last + Total(Moved(j, v), 1..(n - 1))
      <4>3. /\ op.amount > 0
            /\ op.entryType \in {"DEBIT", "RESERVE"} /\ v \notin off =>
                 op.amount <= db[v].last + Total(Moved(j, v), 1..(n - 1))
                                - (db[v].reserved + Total(Locked(j, v), 1..(n - 1)))
        BY <3>4, Zenon DEF Backed
      <4>4. last[v] = net /\ reserved[v] = held
        BY <4>1, <4>2
      <4> HIDE DEF last, reserved, op, v, held, net
      <4>5. op.entryType \in {"DEBIT", "RESERVE"} /\ v \notin off => op.amount <= net - held
        <5> DEFINE moved == Total(Moved(j, v), 1..(n - 1))
                   locked == Total(Locked(j, v), 1..(n - 1))
        <5>1. op.entryType \in {"DEBIT", "RESERVE"} /\ v \notin off =>
                op.amount <= db[v].last + moved - (db[v].reserved + locked)
          BY <4>3
        <5>2. net = db[v].last + moved /\ held = db[v].reserved + locked
          BY DEF net, held
        <5>3. db[v].last \in Int /\ db[v].reserved \in Int /\ moved \in Int /\ locked \in Int
          BY <1>1, <3>1, <3>2, ChangesAddUp DEF v
        <5>4. op.amount \in Int
          <6>1. Ops[j][n] \in Operation
            BY <3>1, JobsAssumption
          <6> QED BY <6>1 DEF op, Operation
        <5> HIDE DEF moved, locked
        <5> QED BY <5>1, <5>2, <5>3, <5>4
      <4> QED BY <4>3, <4>4, <4>5
    <3>6. ASSUME NEW w \in Wallets
          PROVE  /\ db[w].last + Total(Moved(j, w), 1..n) =
                       [last EXCEPT ![v] = @ + MainChange(op)][w]
                 /\ db[w].reserved + Total(Locked(j, w), 1..n) =
                       [reserved EXCEPT ![v] = @ + HeldChange(op)][w]
      <4>1. /\ Total(Moved(j, w), 1..n) = Total(Moved(j, w), 1..(n - 1)) + Moved(j, w)[n]
            /\ Total(Locked(j, w), 1..n) = Total(Locked(j, w), 1..(n - 1)) + Locked(j, w)[n]
        BY <2>3, ChangesAddUp
      <4>2. /\ Total(Moved(j, w), 1..(n - 1)) \in Int
            /\ Total(Locked(j, w), 1..(n - 1)) \in Int
        BY <3>1, ChangesAddUp
      <4>3. /\ Moved(j, w)[n] = IF v = w THEN MainChange(op) ELSE 0
            /\ Locked(j, w)[n] = IF v = w THEN HeldChange(op) ELSE 0
        BY <3>1 DEF Moved, Locked
      <4>4. MainChange(op) \in Int /\ HeldChange(op) \in Int
        <5>1. op \in Operation
          BY <3>1, JobsAssumption
        <5> QED BY <5>1 DEF Operation, MainChange, HeldChange
      <4>5. last[w] = db[w].last + Total(Moved(j, w), 1..(n - 1))
        OBVIOUS
      <4>6. reserved[w] = db[w].reserved + Total(Locked(j, w), 1..(n - 1))
        OBVIOUS
      <4>7. /\ [last EXCEPT ![v] = @ + MainChange(op)][w] =
                  IF v = w THEN last[w] + MainChange(op) ELSE last[w]
            /\ [reserved EXCEPT ![v] = @ + HeldChange(op)][w] =
                  IF v = w THEN reserved[w] + HeldChange(op) ELSE reserved[w]
        BY <3>2
      <4> HIDE DEF last, reserved, op, v
      <4> QED BY <1>1, <4>1, <4>2, <4>3, <4>4, <4>5, <4>6, <4>7
    <3>7. /\ [w \in Wallets |-> db[w].last + Total(Moved(j, w), 1..n)] =
                [last EXCEPT ![v] = @ + MainChange(op)]
          /\ [w \in Wallets |-> db[w].reserved + Total(Locked(j, w), 1..n)] =
                [reserved EXCEPT ![v] = @ + HeldChange(op)]
      BY <3>6
    <3>8. Bank!After(p, op, off) =
            [ok |-> /\ p.ok /\ op.amount > 0
                    /\ op.entryType \in {"DEBIT", "RESERVE"} /\ v \notin off => op.amount <= p.total[v] - p.reserved[v],
             total |-> [p.total EXCEPT ![v] = @ + MainChange(op)],
             reserved |-> [p.reserved EXCEPT ![v] = @ + HeldChange(op)]]
      BY SignedIsChange DEF Bank!After
    <3>9. p.ok = TRUE /\ p.total = last /\ p.reserved = reserved
      BY <3>3
    <3> HIDE DEF last, reserved, op, v, p
    <3>10. Bank!After(p, op, off) = [ok |-> TRUE, total |-> [last EXCEPT ![v] = @ + MainChange(op)],
                                reserved |-> [reserved EXCEPT ![v] = @ + HeldChange(op)]]
      BY <3>5, <3>8, <3>9
    <3>11. n # 0
      BY <2>3
    <3> QED BY <2>1, <3>7, <3>10, <3>11 DEF op, p
  <2> QED BY <1>2, <2>2, <2>3
<1> QED BY <1>3 DEF IsRun, Posted

\* There is only one.
LEMMA RunsAgree ==
    ASSUME NEW j \in Jobs, NEW off, NEW g, NEW h, IsRun(g, j, off), IsRun(h, j, off)
    PROVE  g[Len(Ops[j])] = h[Len(Ops[j])]
<1> DEFINE Bad == {n \in 0..Len(Ops[j]) : g[n] # h[n]}
<1>1. Len(Ops[j]) \in Nat
  BY JobsAssumption
<1>2. SUFFICES ASSUME Bad # {} PROVE FALSE
  BY <1>1
<1>3. PICK m \in Bad : \A i \in Bad : m <= i
  <2>1. Bad \in SUBSET (0..Len(Ops[j]))
    OBVIOUS
  <2> HIDE DEF Bad
  <2> QED BY <1>1, <1>2, <2>1, LeastNumber
<1>4. /\ g[m] = IF m = 0 THEN [ok |-> TRUE, total |-> [w \in Wallets |-> db[w].last],
                               reserved |-> [w \in Wallets |-> db[w].reserved]]
               ELSE Bank!After(g[m - 1], Ops[j][m], off)
      /\ h[m] = IF m = 0 THEN [ok |-> TRUE, total |-> [w \in Wallets |-> db[w].last],
                               reserved |-> [w \in Wallets |-> db[w].reserved]]
               ELSE Bank!After(h[m - 1], Ops[j][m], off)
  BY Zenon DEF IsRun
<1>5. m # 0
  BY <1>4
<1>6. m - 1 \in 0..Len(Ops[j]) /\ ~(m <= m - 1)
  BY <1>1, <1>5
<1>7. g[m - 1] = h[m - 1]
  BY <1>3, <1>6
<1> QED BY <1>4, <1>5, <1>7

\* So a posting of a covered job is that run.
LEMMA PostingIsPosted ==
    ASSUME TypeOK, NEW j \in Jobs, NEW off,
           \A i \in 1..Len(Ops[j]) : Backed(j, i, db[Ops[j][i].wallet], off)
    PROVE  Bank!Posting(j, off) = Posted(j)[Len(Ops[j])]
<1>1. Bank!Posting(j, off) = (CHOOSE g : IsRun(g, j, off))[Len(Ops[j])]
  BY DEF Bank!Posting, IsRun
<1>2. IsRun(CHOOSE g : IsRun(g, j, off), j, off)
  BY PostedIsRun
<1> QED BY <1>1, <1>2, PostedIsRun, RunsAgree

-----------------------------------------------------------------------------
(* Every step of the ledger is one of the bank, or none.                   *)

\* A commit posts its whole job, on the balances it finds, for the first time.
LEMMA CommitPosts ==
    ASSUME EveryJobWrites, TypeOK, LedgerInv, BucketInv, PostInv, NEW j \in Jobs, Commit(j)
    PROVE  Bank!Post(j)
<1>1. /\ status[j] = "active" /\ pc[j] = Len(Ops[j]) + 1 /\ Len(Ops[j]) \in Nat
      /\ Len(Ops[j]) > 0
  <2>1. /\ status[j] = "active" /\ ~Remaining(j) /\ Len(Ops[j]) \in Nat /\ Ops[j] # <<>>
        /\ Ops[j] \in Seq(Operation)
    BY JobsAssumption DEF Commit, EveryJobWrites
  <2>2. pc[j] \in 1..(Len(Ops[j]) + 1)
    BY <2>1 DEF PostInv, DraftsAddUp
  <2>3. pc[j] = Len(Ops[j]) + 1
    BY <2>1, <2>2 DEF Remaining
  <2>4. Len(Ops[j]) # 0
    BY <2>1
  <2> QED BY <2>1, <2>3, <2>4
<1>2. ASSUME NEW i \in 1..Len(Ops[j])
      PROVE  /\ Ops[j][i].wallet \in Wallets
             /\ draft[j][Ops[j][i].wallet].wrote
             /\ Backed(j, i, db[Ops[j][i].wallet], astray')
             /\ Ops[j][i].ref \in draft[j][Ops[j][i].wallet].refs
             /\ Ops[j][i].ref \notin db[Ops[j][i].wallet].refs
  <2>1. i < pc[j]
    BY <1>1
  <2>2. Ops[j][i].wallet \in Wallets
    BY WalletOfOperation
  <2>3. draft[j][Ops[j][i].wallet].wrote
    BY <1>1, <2>1 DEF BucketInv, DraftsHaveBuckets
  <2>4. Backed(j, i, Base(j, Ops[j][i].wallet), astray) /\ astray \subseteq astray'
    BY <1>1, <2>1 DEF PostInv, DraftsBacked, Commit
  <2>5. Backed(j, i, db[Ops[j][i].wallet], astray')
    <3>1. CASE Ops[j][i].wallet \notin astray'
      <4>1. Base(j, Ops[j][i].wallet) = db[Ops[j][i].wallet]
        BY <2>2, <2>3, <3>1, CommitsOnFresh
      <4> QED BY <2>4, <4>1, BackedLess
    <3>2. CASE Ops[j][i].wallet \in astray'
      BY <2>4, <3>2, Zenon DEF Backed
    <3> QED BY <3>1, <3>2
  <2>6. Ops[j][i].ref \in draft[j][Ops[j][i].wallet].refs
    BY <1>1, <2>1 DEF PostInv, RefsOnce, HasRefs
  <2>7. Ops[j][i].ref \notin db[Ops[j][i].wallet].refs
    BY <2>2, <2>6 DEF PostInv, RefsOnce
  <2> QED BY <2>2, <2>3, <2>4, <2>5, <2>6, <2>7
<1>3. ASSUME NEW k \in Jobs, Ops[k] = Ops[j] PROVE applied[k] = 0
  <2>1. applied[k] \in Nat
    BY DEF TypeOK
  <2>2. 1 \in 1..Len(Ops[j]) /\ 1 < Len(Ops[j]) + 1
    BY <1>1
  <2>3. applied[k] > 0 => Ops[k][1].ref \in db[Ops[k][1].wallet].refs
    BY <1>3, <2>2 DEF PostInv, RefsOnce, HasRefs
  <2>4. Ops[j][1].ref \notin db[Ops[j][1].wallet].refs
    BY <1>2, <2>2
  <2> QED BY <1>3, <2>1, <2>3, <2>4
<1>4. \A k \in Requires[j] : applied[k] > 0
  BY <1>1 DEF BucketInv, RequiredHaveBuckets
<1>5. Bank!Posting(j, astray') = Posted(j)[Len(Ops[j])]
  BY <1>2, PostingIsPosted
<1>6. Posted(j)[Len(Ops[j])] =
        [ok |-> TRUE,
         total |-> [w \in Wallets |-> db[w].last + Total(Moved(j, w), 1..Len(Ops[j]))],
         reserved |-> [w \in Wallets |-> db[w].reserved + Total(Locked(j, w), 1..Len(Ops[j]))]]
  BY <1>1 DEF Posted
<1> DEFINE posting == Bank!Posting(j, astray')
<1>7. /\ posting.ok
      /\ posting.total = [w \in Wallets |-> db[w].last + Total(Moved(j, w), 1..Len(Ops[j]))]
      /\ posting.reserved = [w \in Wallets |-> db[w].reserved + Total(Locked(j, w), 1..Len(Ops[j]))]
  BY <1>5, <1>6
<1>8. ASSUME NEW w \in Wallets
      PROVE  /\ w \notin astray' => db'[w].last = db[w].last + Total(Moved(j, w), 1..Len(Ops[j]))
             /\ db'[w].last \in Int
             /\ db'[w].reserved = db[w].reserved + Total(Locked(j, w), 1..Len(Ops[j]))
  <2> DEFINE d == draft[j][w]
             a == db[w]
  <2>1. d \in Draft /\ a \in Account /\ db'[w] = Merged(a, d)
    BY DEF Commit, TypeOK
  <2>2. d.net = Total(Moved(j, w), 1..Len(Ops[j])) /\ d.held = Total(Locked(j, w), 1..Len(Ops[j]))
    <3>1. pc[j] - 1 = Len(Ops[j])
      BY <1>1
    <3> QED BY <1>1, <3>1 DEF PostInv, DraftsAddUp
  <2>3. d.reserved = d.held
    BY DEF BucketInv, DraftBucketsMatch
  <2>4. CASE d.wrote
    <3>1. w \notin astray' => d.last = a.last + d.net
      <4> SUFFICES ASSUME w \notin astray' PROVE d.last = a.last + d.net
        OBVIOUS
      <4>1. Base(j, w) = a
        BY <2>4, CommitsOnFresh
      <4>2. w \in Wallets \ astray
        BY DEF Commit
      <4> QED BY <2>4, <4>1, <4>2 DEF LedgerInv, DraftsAgree
    <3>2. Merged(a, d).last = d.last /\ Merged(a, d).reserved = a.reserved + d.reserved
      BY <2>1, <2>4, MergedFacts
    <3>3. d.last \in Int
      BY <2>1 DEF Draft
    <3> QED BY <2>1, <2>2, <2>3, <3>1, <3>2, <3>3
  <2>5. CASE ~d.wrote
    <3>1. d.net = 0 /\ d.held = 0
      BY <2>5 DEF LedgerInv, DraftsAreLocked, NoDraft
    <3>2. Merged(a, d) = a
      BY <2>1, <2>5, MergedFacts
    <3>3. a.last \in Int /\ a.reserved \in Int
      BY <2>1 DEF Account
    <3> QED BY <2>1, <2>2, <3>1, <3>2, <3>3
  <2> QED BY <2>4, <2>5
<1>9. /\ [w \in Wallets |-> db[w].last]' \in [Wallets -> Int]
      /\ \A w \in Wallets \ astray' : [v \in Wallets |-> db[v].last]'[w] = posting.total[w]
      /\ [w \in Wallets |-> db[w].reserved]' = posting.reserved
  <2> HIDE DEF posting
  <2> QED BY <1>7, <1>8
<1>10. applied' = [applied EXCEPT ![j] = 1]
  <2>1. applied[j] = 0 /\ applied' = [applied EXCEPT ![j] = applied[j] + 1]
    BY <1>3 DEF Commit
  <2> QED BY <2>1
<1>11. PICK lost : lost = WrittenWallets(j) \cap unseen[j]
  OBVIOUS
<1>12. lost \in SUBSET Bank!AtRisk(j) /\ astray' = astray \cup lost
  <2>1. ASSUME NEW w \in lost PROVE w \in Bank!AtRisk(j)
    <3>1. w \in Wallets /\ w \in unseen[j] /\ draft[j][w].wrote
      BY <1>11, <2>1 DEF WrittenWallets
    <3>2. PICK k \in Writers(w) : ~Serializable(k) /\ applied[k] > 0
      BY <3>1 DEF LedgerInv, AstrayIfMixed
    <3>3. j \in Writers(w) /\ k \in Jobs /\ Serializable(j)
      BY <3>1 DEF LedgerInv, AstrayIfMixed, DraftsAreLocked, Writers
    <3>4. k \in Overlooks(j)
      BY <3>2, <3>3 DEF Overlooks
    <3>5. Bank!WritesTo(j, w) /\ Bank!WritesTo(k, w)
      BY <3>2, <3>3 DEF Writers, Bank!WritesTo
    <3> QED BY <3>1, <3>2, <3>4, <3>5 DEF Bank!AtRisk
  <2> QED BY <1>11, <2>1 DEF Commit
<1>13. \E gone \in SUBSET Bank!AtRisk(j) :
          LET off == astray \cup gone
              p == Bank!Posting(j, off)
          IN  /\ p.ok
              /\ [w \in Wallets |-> db[w].last]' \in [Wallets -> Int]
              /\ \A w \in Wallets \ off : [v \in Wallets |-> db[v].last]'[w] = p.total[w]
              /\ [w \in Wallets |-> db[w].reserved]' = p.reserved
              /\ astray' = off
  <2>1. astray \cup lost = astray' /\ lost \in SUBSET Bank!AtRisk(j)
    BY <1>12
  <2>2. LET off == astray \cup lost
            p == Bank!Posting(j, off)
        IN  /\ p.ok
            /\ [w \in Wallets |-> db[w].last]' \in [Wallets -> Int]
            /\ \A w \in Wallets \ off : [v \in Wallets |-> db[v].last]'[w] = p.total[w]
            /\ [w \in Wallets |-> db[w].reserved]' = p.reserved
            /\ astray' = off
    BY <1>7, <1>9, <2>1
  <2> QED BY <2>1, <2>2
<1> QED BY <1>3, <1>4, <1>10, <1>13 DEF Bank!Post

\* The empty ledger is an empty bank.
LEMMA InitOfBank == Init => Bank!Init
BY DEF Init, Bank!Init, NewAccount

\* Every step of the ledger is a request of the bank, or none.
LEMMA StepOfBank ==
    ASSUME EveryJobWrites, TypeOK, LedgerInv, BucketInv, PostInv, [Next]_vars
    PROVE  [Bank!Next]_(Bank!bankVars)
<1>1. ASSUME UNCHANGED <<db, astray, applied>> PROVE UNCHANGED Bank!bankVars
  BY <1>1 DEF Bank!bankVars
<1>2. ASSUME NEW j \in Jobs, Commit(j) PROVE Bank!Next
  BY <1>2, CommitPosts DEF Bank!Next
<1>3. ASSUME NEW j \in Jobs, Begin(j) \/ WriteEntry(j) PROVE UNCHANGED <<db, astray, applied>>
  BY <1>3 DEF Begin, WriteEntry
<1>4. ASSUME NEW j \in Jobs,
             Refuse(j) \/ SerializationFailure(j) \/ DeadlockVictim(j) \/ Rollback(j)
      PROVE  UNCHANGED <<db, astray, applied>>
  BY <1>4 DEF Refuse, SerializationFailure, DeadlockVictim, Rollback, Abandon
<1>5. UNCHANGED vars => UNCHANGED <<db, astray, applied>>
  BY DEF vars
<1> QED BY <1>1, <1>2, <1>3, <1>4, <1>5 DEF Next, Proceed

\* If collateral is only released where it had been reserved, then callers see a
\* bank that posts each request at most once, as a whole, in the order of the
\* commits, and never beyond what is there: locks, snapshots, retries, deadlocks
\* and lost connections leave no other trace than the wallets that go astray, and
\* that only where a Serializable request overlooks a READ COMMITTED one.
THEOREM LedgerImplementsBank ==
    ASSUME ReleasesFollowReserves, EveryJobWrites
    PROVE  Spec => ImplementsBank
<1>1. TypeOK /\ LedgerInv /\ [Next]_vars => LedgerInv'
  BY NextInv
<1>2. TypeOK /\ BucketInv /\ [Next]_vars => BucketInv'
  BY NextBuckets
<1>3. TypeOK /\ LedgerInv /\ BucketInv /\ PostInv /\ [Next]_vars => PostInv'
  BY NextPost
<1>4. TypeOK /\ LedgerInv /\ BucketInv /\ PostInv /\ [Next]_vars =>
        [Bank!Next]_(Bank!bankVars)
  BY StepOfBank
<1>5. Init => LedgerInv /\ BucketInv /\ PostInv
  BY InitInv, InitBuckets, InitPost
<1> QED BY <1>1, <1>2, <1>3, <1>4, <1>5, InitOfBank, TypeCorrect, PTL
        DEF Spec, ImplementsBank, Bank!Spec

HIDE DEF Levels, IsReconciled, BucketsIntact, DetailedBalance

-----------------------------------------------------------------------------
(* Mail: the inductive invariant.                                          *)

\* A job that has a mail in hand is running, and one that is still to be run
\* has attempts left.
JobsAtWork ==
    /\ \A m \in Mails : ~At(m, "rest") => job[m] = "running"
    /\ \A m \in Mails : job[m] \in {"none", "waiting", "running"} => tries[m] < JobTries

\* Who is about to note a delivery had one, and SENT is written by nobody else.
NotedIsDelivered ==
    /\ \A x \in Senders : At(x, "marking") => delivered[sender[x].mail] > 0
    /\ \A m \in Mails : outbox[m].status = "SENT" => delivered[m] > 0

\* A cron run reads rows that are FAILED.
DueFailed == \A s \in Sweeps : \A d \in due[s] : d.row.status = "FAILED"

\* What a mail in one sender's hands is like: nothing was delivered before it
\* was taken, and until the delivery is noted the row does not say SENT.
InHand(m) ==
    /\ delivered[m] <= 1
    /\ \A x, y \in Senders : With(x, m) /\ With(y, m) => x = y
    /\ \A x \in Senders : With(x, m) =>
        IF At(x, "marking") THEN delivered[m] = 1
        ELSE delivered[m] = 0 /\ outbox[m].status # "SENT"
    /\ (\A x \in Senders : ~With(x, m)) => (delivered[m] = 1 <=> outbox[m].status = "SENT")

MailInv ==
    /\ MailTypeOK /\ JobsAtWork /\ NotedIsDelivered /\ DueFailed
    /\ \A m \in Mails \ (doubt \cup overlap) : InHand(m)

-----------------------------------------------------------------------------
(* Every step of the mail queue keeps it.                                  *)

\* A sender rests, or has a mail in hand, its own if it is a job.
LEMMA SenderKinds ==
    ASSUME MailTypeOK, NEW x \in Senders
    PROVE  \/ At(x, "rest") /\ sender[x] = [pc |-> "rest"]
           \/ /\ sender[x].pc \in {"sending", "marking", "failing"}
              /\ sender[x].mail \in Mails
              /\ x \in Mails => sender[x].mail = x
              /\ sender[x] = [pc |-> sender[x].pc, mail |-> sender[x].mail]
<1>1. sender[x] \in {Resting} \cup [pc : {"sending", "marking", "failing"}, mail : Mails]
  BY DEF MailTypeOK
<1>2. CASE sender[x] = Resting
  BY <1>2 DEF Resting, At
<1>3. CASE sender[x] \in [pc : {"sending", "marking", "failing"}, mail : Mails]
  <2>1. sender[x].pc # "rest"
    BY <1>3
  <2>2. sender[x] # Resting
    BY <2>1 DEF Resting
  <2>3. x \in Mails => sender[x].mail = x
    BY <2>2 DEF MailTypeOK
  <2>4. QED BY <1>3, <2>3
<1>4. QED BY <1>1, <1>2, <1>3

\* No mail is there yet.
LEMMA MailInitInv ==
    MailInit => MailInv
<1> SUFFICES ASSUME MailInit PROVE MailInv
  OBVIOUS
<1> USE MailAssumption
<1>1. MailTypeOK
  BY DEF MailInit, MailTypeOK, NoRow, Senders, Resting
<1>2. JobsAtWork
  BY DEF MailInit, JobsAtWork, At, Resting, Senders
<1>3. NotedIsDelivered
  BY DEF MailInit, NotedIsDelivered, At, Resting, NoRow
<1>4. DueFailed
  BY DEF MailInit, DueFailed
<1>5. ASSUME NEW m \in Mails PROVE InHand(m)
  BY DEF MailInit, InHand, With, At, Resting, NoRow
<1>6. QED BY <1>1, <1>2, <1>3, <1>4, <1>5 DEF MailInv

\* A mail that is enqueued waits for its job.
LEMMA EnqueueInv ==
    ASSUME MailInv, NEW m \in Mails, Enqueue(m)
    PROVE  MailInv'
<1> USE MailAssumption DEF Enqueue
<1>1. MailTypeOK'
  BY DEF MailInv, MailTypeOK
<1>2. JobsAtWork'
  BY DEF MailInv, MailTypeOK, JobsAtWork, At
<1>3. NotedIsDelivered' /\ DueFailed'
  BY DEF MailInv, NotedIsDelivered, DueFailed, At
<1>4. ASSUME NEW n \in (Mails \ (doubt \cup overlap))' PROVE InHand(n)'
  BY DEF MailInv, InHand, With, At
<1>5. QED BY <1>1, <1>2, <1>3, <1>4 DEF MailInv

\* One more failed attempt of a job that had attempts left.
LEMMA AttemptCounted ==
    ASSUME MailTypeOK, NEW m \in Mails, tries[m] < JobTries, AttemptFails(m)
    PROVE  /\ job' \in [Mails -> {"none", "waiting", "running", "done", "failed"}]
           /\ tries' \in [Mails -> 0..JobTries]
           /\ job'[m] \in {"none", "waiting", "running"} => tries'[m] < JobTries
           /\ \A n \in Mails \ {m} : job'[n] = job[n] /\ tries'[n] = tries[n]
BY MailAssumption DEF MailTypeOK, AttemptFails

\* A worker takes the row in hand with the next attempt.
LEMMA JobStartInv ==
    ASSUME MailInv, NEW m \in Mails, JobStart(m)
    PROVE  MailInv'
<1> USE MailAssumption DEF JobStart
<1>a. MailTypeOK /\ m \in Senders
  BY DEF MailInv, Senders
<1>r. /\ Upserted(outbox[m]) \in [status : {"PENDING", "SENT", "FAILED", "NONE"}, attempts : Nat]
      /\ Upserted(outbox[m]).status = "SENT" <=> outbox[m].status = "SENT"
      /\ outbox' = [outbox EXCEPT ![m] = Upserted(outbox[m])]
  BY <1>a DEF MailTypeOK, Upserted
<1>n. At(m, "rest")
  BY <1>a DEF MailInv, JobsAtWork
<1>s. \A n \in Mails : outbox'[n].status = "SENT" <=> outbox[n].status = "SENT"
  BY <1>a, <1>r DEF MailTypeOK
<1>1. CASE ~MustSend(outbox[m])
  <2>1. MailTypeOK'
    BY <1>1, <1>a, <1>r DEF MailTypeOK
  <2>2. JobsAtWork'
    BY <1>1, <1>a, <1>n DEF MailInv, MailTypeOK, JobsAtWork, At
  <2>3. NotedIsDelivered' /\ DueFailed'
    BY <1>1, <1>s DEF MailInv, NotedIsDelivered, DueFailed, At
  <2>4. ASSUME NEW n \in (Mails \ (doubt \cup overlap))' PROVE InHand(n)'
    BY <1>1, <1>s DEF MailInv, InHand, With, At
  <2>5. QED BY <2>1, <2>2, <2>3, <2>4 DEF MailInv
<1>2. CASE MustSend(outbox[m])
  <2>t. /\ sender' = [sender EXCEPT ![m] = [pc |-> "sending", mail |-> m]]
        /\ sender'[m] = [pc |-> "sending", mail |-> m]
        /\ sender'[m].pc = "sending" /\ sender'[m].mail = m
        /\ \A y \in Senders \ {m} : sender'[y] = sender[y]
        /\ job' = [job EXCEPT ![m] = "running"]
    BY <1>2, <1>a DEF Takes, MailTypeOK
  <2>o. /\ overlap' \in {overlap, overlap \cup {m}}
        /\ m \notin overlap' => \A y \in Senders \ {m} : ~With(y, m)
    BY <1>2 DEF NoteOverlap
  <2>1. MailTypeOK'
    <3>1. sender' \in [Senders -> {Resting} \cup
                    [pc : {"sending", "marking", "failing"}, mail : Mails]]
      BY <2>t, <1>a DEF MailTypeOK
    <3>2. \A n \in Mails : sender'[n] = Resting \/ sender'[n].mail = n
      BY <2>t, <1>a DEF MailTypeOK, Senders
    <3>3. QED BY <3>1, <3>2, <2>t, <2>o, <1>a, <1>r DEF MailTypeOK
  <2>2. JobsAtWork'
    BY <2>t, <1>a DEF MailInv, MailTypeOK, JobsAtWork, At, Senders
  <2>3. NotedIsDelivered' /\ DueFailed'
    BY <2>t, <1>a, <1>s DEF MailInv, NotedIsDelivered, DueFailed, At
  <2>4. ASSUME NEW n \in (Mails \ (doubt \cup overlap))' PROVE InHand(n)'
    <3>1. InHand(n) /\ n \notin doubt \cup overlap
      BY <2>4, <2>o DEF MailInv
    <3>2. CASE n = m
      <4>1. \A y \in Senders : ~With(y, m)
        BY <2>4, <2>o, <3>2, <1>n DEF With
      <4>2. delivered[m] = 0 /\ outbox[m].status # "SENT"
        BY <3>1, <3>2, <4>1, <1>a, <1>2 DEF InHand, MailTypeOK, MustSend
      <4>3. \A y \in Senders : With(y, m)' => y = m
        BY <2>t, <4>1 DEF With, At
      <4>4. With(m, m)' /\ ~At(m, "marking")'
        BY <2>t DEF With, At
      <4>5. QED BY <4>2, <4>3, <4>4, <3>2, <1>s, <1>a DEF InHand
    <3>3. CASE n # m
      <4>1. \A y \in Senders : With(y, n)' <=> With(y, n)
        BY <2>t, <1>n, <3>3 DEF With, At
      <4>2. \A y \in Senders : With(y, n) => (At(y, "marking")' <=> At(y, "marking"))
        BY <2>t, <1>n, <3>3 DEF With, At
      <4>3. QED BY <4>1, <4>2, <3>1, <1>s DEF InHand
    <3>4. QED BY <3>2, <3>3
  <2>5. QED BY <2>1, <2>2, <2>3, <2>4 DEF MailInv
<1>3. QED BY <1>1, <1>2

\* A job whose row could not be read is tried again.
LEMMA JobStartFailsInv ==
    ASSUME MailInv, NEW m \in Mails, JobStartFails(m)
    PROVE  MailInv'
<1> USE MailAssumption DEF JobStartFails
<1>a. MailTypeOK /\ m \in Senders /\ tries[m] < JobTries
  BY DEF MailInv, Senders, JobsAtWork
<1>n. At(m, "rest")
  BY <1>a DEF MailInv, JobsAtWork
<1>r. /\ Upserted(outbox[m]) \in [status : {"PENDING", "SENT", "FAILED", "NONE"}, attempts : Nat]
      /\ Upserted(outbox[m]).status = "SENT" <=> outbox[m].status = "SENT"
  BY <1>a DEF MailTypeOK, Upserted
<1>s. /\ \A n \in Mails : outbox'[n].status = "SENT" <=> outbox[n].status = "SENT"
      /\ outbox' \in [Mails -> [status : {"NONE", "PENDING", "SENT", "FAILED"}, attempts : Nat]]
  <2>1. CASE outbox' = outbox
    BY <2>1, <1>a DEF MailTypeOK
  <2>2. CASE outbox' = [outbox EXCEPT ![m] = Upserted(outbox[m])]
    BY <2>2, <1>r, <1>a DEF MailTypeOK
  <2>3. QED BY <2>1, <2>2
<1>b. /\ job' \in [Mails -> {"none", "waiting", "running", "done", "failed"}]
      /\ tries' \in [Mails -> 0..JobTries]
      /\ job'[m] \in {"none", "waiting", "running"} => tries'[m] < JobTries
      /\ \A n \in Mails \ {m} : job'[n] = job[n] /\ tries'[n] = tries[n]
  BY <1>a, AttemptCounted
<1>f. mailFaults' \in 0..MaxMailFaults
  BY <1>a DEF MailFault, MailTypeOK
<1>1. MailTypeOK'
  BY <1>a, <1>b, <1>s, <1>f DEF MailTypeOK
<1>2. JobsAtWork'
  BY <1>a, <1>b, <1>n DEF MailInv, JobsAtWork, At
<1>3. NotedIsDelivered' /\ DueFailed'
  BY <1>s DEF MailInv, NotedIsDelivered, DueFailed, At
<1>4. ASSUME NEW n \in (Mails \ (doubt \cup overlap))' PROVE InHand(n)'
  BY <1>s DEF MailInv, InHand, With, At
<1>5. QED BY <1>1, <1>2, <1>3, <1>4 DEF MailInv

-----------------------------------------------------------------------------
(* The cron run.                                                           *)

\* A cron run takes the list of the rows that are due.
LEMMA SweepStartInv ==
    ASSUME MailInv, NEW s \in Sweeps, SweepStart(s)
    PROVE  MailInv'
<1> USE MailAssumption DEF SweepStart
<1>a. MailTypeOK
  BY DEF MailInv
<1>1. MailTypeOK'
  BY <1>a DEF MailTypeOK
<1>2. JobsAtWork'
  BY DEF MailInv, JobsAtWork, At
<1>3. NotedIsDelivered'
  BY DEF MailInv, NotedIsDelivered, At
<1>4. DueFailed'
  BY <1>a DEF MailInv, DueFailed, MailTypeOK, ForSweep
<1>5. ASSUME NEW n \in (Mails \ (doubt \cup overlap))' PROVE InHand(n)'
  BY DEF MailInv, InHand, With, At
<1>6. QED BY <1>1, <1>2, <1>3, <1>4, <1>5 DEF MailInv

\* A row whose pause is not over is left for a later run.
LEMMA SweepSkipInv ==
    ASSUME MailInv, NEW s \in Sweeps, NEW d \in due[s], SweepSkip(s, d)
    PROVE  MailInv'
<1> USE MailAssumption DEF SweepSkip
<1>a. MailTypeOK
  BY DEF MailInv
<1>1. MailTypeOK'
  BY <1>a DEF MailTypeOK
<1>2. JobsAtWork'
  BY DEF MailInv, JobsAtWork, At
<1>3. NotedIsDelivered'
  BY DEF MailInv, NotedIsDelivered, At
<1>4. DueFailed'
  BY <1>a DEF MailInv, DueFailed, MailTypeOK
<1>5. ASSUME NEW n \in (Mails \ (doubt \cup overlap))' PROVE InHand(n)'
  BY DEF MailInv, InHand, With, At
<1>6. QED BY <1>1, <1>2, <1>3, <1>4, <1>5 DEF MailInv

\* The row of a mail that a cron run takes without an overlap is still FAILED,
\* and nobody else has the mail: so it was not delivered.
LEMMA SweepTakeInv ==
    ASSUME MailInv, NEW s \in Sweeps, NEW d \in due[s], SweepTake(s, d)
    PROVE  MailInv'
<1> USE MailAssumption DEF SweepTake
<1>a. MailTypeOK /\ s \in Senders /\ s \notin Mails
  BY DEF MailInv, Senders
<1>d. d.mail \in Mails /\ d.row.status = "FAILED"
  BY <1>a DEF MailTypeOK, MailInv, DueFailed
<1>t. /\ sender' = [sender EXCEPT ![s] = [pc |-> "sending", mail |-> d.mail]]
      /\ sender'[s] = [pc |-> "sending", mail |-> d.mail]
      /\ sender'[s].pc = "sending" /\ sender'[s].mail = d.mail
      /\ \A y \in Senders \ {s} : sender'[y] = sender[y]
  BY <1>a DEF Takes, MailTypeOK
<1>o. /\ overlap' \in {overlap, overlap \cup {d.mail}}
      /\ d.mail \notin overlap' => /\ \A y \in Senders \ {s} : ~With(y, d.mail)
                                   /\ d.row = outbox[d.mail]
  BY DEF NoteOverlap
<1>1. MailTypeOK'
  <2>1. sender' \in [Senders -> {Resting} \cup
                  [pc : {"sending", "marking", "failing"}, mail : Mails]]
    BY <1>t, <1>a, <1>d DEF MailTypeOK
  <2>2. \A n \in Mails : sender'[n] = Resting \/ sender'[n].mail = n
    BY <1>t, <1>a DEF MailTypeOK, Senders
  <2>3. QED BY <2>1, <2>2, <1>t, <1>o, <1>a, <1>d DEF MailTypeOK
<1>2. JobsAtWork'
  BY <1>t, <1>a DEF MailInv, JobsAtWork, At, Senders
<1>3. NotedIsDelivered'
  BY <1>t, <1>a DEF MailInv, NotedIsDelivered, At
<1>4. DueFailed'
  BY <1>a DEF MailInv, DueFailed, MailTypeOK
<1>5. ASSUME NEW n \in (Mails \ (doubt \cup overlap))' PROVE InHand(n)'
  <2>1. InHand(n) /\ n \notin doubt \cup overlap
    BY <1>5, <1>o DEF MailInv
  <2>2. CASE n = d.mail
    <3>1. \A y \in Senders : ~With(y, n)
      BY <1>5, <1>o, <2>2 DEF With
    <3>2. delivered[n] = 0 /\ outbox[n].status # "SENT"
      BY <1>5, <1>o, <1>d, <2>1, <2>2, <3>1, <1>a DEF InHand, MailTypeOK
    <3>3. \A y \in Senders : With(y, n)' => y = s
      BY <1>t, <3>1 DEF With, At
    <3>4. With(s, n)' /\ ~At(s, "marking")'
      BY <1>t, <2>2 DEF With, At
    <3>5. QED BY <3>2, <3>3, <3>4, <1>a DEF InHand
  <2>3. CASE n # d.mail
    <3>1. \A y \in Senders : With(y, n)' <=> With(y, n)
      BY <1>t, <2>3 DEF With, At
    <3>2. \A y \in Senders : With(y, n) => (At(y, "marking")' <=> At(y, "marking"))
      BY <1>t, <2>3 DEF With, At
    <3>3. QED BY <3>1, <3>2, <2>1 DEF InHand
  <2>4. QED BY <2>2, <2>3
<1>6. QED BY <1>1, <1>2, <1>3, <1>4, <1>5 DEF MailInv

-----------------------------------------------------------------------------
(* Both, with the mail in hand.                                            *)

\* A sender that goes on has the same mail in hand, and nobody else moves.
LEMMA GoesOn ==
    ASSUME MailTypeOK, NEW x \in Senders, NEW to \in {"sending", "marking", "failing"},
           ~At(x, "rest"), Goes(x, to)
    PROVE  /\ sender' \in [Senders -> {Resting} \cup
                              [pc : {"sending", "marking", "failing"}, mail : Mails]]
           /\ \A n \in Mails : sender'[n] = Resting \/ sender'[n].mail = n
           /\ sender'[x].pc = to /\ sender'[x].mail = sender[x].mail
           /\ sender[x].mail \in Mails
           /\ \A y \in Senders \ {x} : sender'[y] = sender[y]
           /\ \A y \in Senders, n \in Mails : With(y, n)' <=> With(y, n)
<1>1. /\ sender[x].mail \in Mails
      /\ sender[x] = [pc |-> sender[x].pc, mail |-> sender[x].mail]
      /\ x \in Mails => sender[x].mail = x
  BY SenderKinds
<1>2. /\ sender' = [sender EXCEPT ![x].pc = to]
      /\ sender'[x] = [pc |-> to, mail |-> sender[x].mail]
      /\ \A y \in Senders \ {x} : sender'[y] = sender[y]
  BY <1>1 DEF Goes, MailTypeOK
<1>3. /\ sender'[x].pc = to /\ sender'[x].mail = sender[x].mail
      /\ sender'[x] \in [pc : {"sending", "marking", "failing"}, mail : Mails]
  BY <1>1, <1>2
<1>4. sender' \in [Senders -> {Resting} \cup
                     [pc : {"sending", "marking", "failing"}, mail : Mails]]
  BY <1>2, <1>3 DEF MailTypeOK
<1>5. \A n \in Mails : sender'[n] = Resting \/ sender'[n].mail = n
  BY <1>1, <1>2, <1>3 DEF MailTypeOK, Senders
<1>6. ASSUME NEW y \in Senders, NEW n \in Mails PROVE With(y, n)' <=> With(y, n)
  BY <1>2, <1>3 DEF With, At
<1>7. QED BY <1>1, <1>2, <1>3, <1>4, <1>5, <1>6

\* A sender that is through has no mail in hand, and nobody else moves.
LEMMA RestsNow ==
    ASSUME MailTypeOK, NEW x \in Senders, Rests(x)
    PROVE  /\ sender' \in [Senders -> {Resting} \cup
                              [pc : {"sending", "marking", "failing"}, mail : Mails]]
           /\ \A n \in Mails : sender'[n] = Resting \/ sender'[n].mail = n
           /\ At(x, "rest")'
           /\ \A y \in Senders \ {x} : sender'[y] = sender[y]
           /\ \A n \in Mails : ~With(x, n)'
           /\ \A y \in Senders \ {x}, n \in Mails : With(y, n)' <=> With(y, n)
BY DEF Rests, MailTypeOK, Resting, At, With, Senders

\* One delivery more.
LEMMA OneMore ==
    ASSUME MailTypeOK, NEW m \in Mails,
           delivered' = [delivered EXCEPT ![m] = Counted(delivered[m])]
    PROVE  /\ delivered' \in [Mails -> 0..2]
           /\ delivered'[m] > 0
           /\ delivered[m] = 0 => delivered'[m] = 1
           /\ \A n \in Mails \ {m} : delivered'[n] = delivered[n]
           /\ \A n \in Mails : delivered'[n] >= delivered[n]
<1>1. delivered \in [Mails -> 0..2] /\ delivered[m] \in 0..2
  BY DEF MailTypeOK
<1>2. Counted(delivered[m]) \in 1..2 /\ Counted(delivered[m]) >= delivered[m]
  BY <1>1 DEF Counted
<1>3. delivered[m] = 0 => Counted(delivered[m]) = 1
  BY DEF Counted
<1>4. delivered'[m] = Counted(delivered[m])
  BY <1>1
<1>5. \A n \in Mails \ {m} : delivered'[n] = delivered[n]
  BY <1>1
<1>6. delivered' \in [Mails -> 0..2]
  BY <1>1, <1>2
<1>7. ASSUME NEW n \in Mails PROVE delivered'[n] >= delivered[n]
  <2>1. delivered[n] \in 0..2
    BY <1>1
  <2>2. QED BY <2>1, <1>2, <1>4, <1>5
<1>8. QED BY <1>2, <1>3, <1>4, <1>5, <1>6, <1>7

\* A mail that was accepted is delivered, and its sender knows.
LEMMA SendOkInv ==
    ASSUME MailInv, NEW x \in Senders, SendOk(x)
    PROVE  MailInv'
<1> DEFINE m == sender[x].mail
<1> USE MailAssumption DEF SendOk
<1>a. MailTypeOK /\ ~At(x, "rest") /\ At(x, "sending")
  BY DEF MailInv, At
<1>g. /\ sender' \in [Senders -> {Resting} \cup
                        [pc : {"sending", "marking", "failing"}, mail : Mails]]
      /\ \A n \in Mails : sender'[n] = Resting \/ sender'[n].mail = n
      /\ sender'[x].pc = "marking" /\ sender'[x].mail = m /\ m \in Mails
      /\ \A y \in Senders \ {x} : sender'[y] = sender[y]
      /\ \A y \in Senders, n \in Mails : With(y, n)' <=> With(y, n)
  BY <1>a, GoesOn
<1>w. With(x, m)
  BY <1>a DEF With
<1>c. /\ delivered' \in [Mails -> 0..2]
      /\ delivered'[m] > 0
      /\ delivered[m] = 0 => delivered'[m] = 1
      /\ \A n \in Mails \ {m} : delivered'[n] = delivered[n]
  BY <1>a, <1>g, OneMore
<1> HIDE DEF m
<1>1. MailTypeOK'
  BY <1>a, <1>g, <1>c DEF MailTypeOK
<1>2. JobsAtWork'
  BY <1>a, <1>g DEF MailInv, JobsAtWork, At, Senders
<1>3. NotedIsDelivered'
  <2>1. ASSUME NEW y \in Senders, At(y, "marking")' PROVE delivered'[sender'[y].mail] > 0
    <3>1. CASE y = x
      BY <3>1, <1>g, <1>c
    <3>2. CASE y # x
      <4>1. At(y, "marking") /\ sender'[y].mail = sender[y].mail /\ sender[y].mail \in Mails
        BY <3>2, <2>1, <1>g, <1>a, SenderKinds DEF At
      <4>2. delivered[sender[y].mail] > 0
        BY <4>1 DEF MailInv, NotedIsDelivered
      <4>3. QED BY <4>1, <4>2, <1>c
    <3>3. QED BY <3>1, <3>2
  <2>2. ASSUME NEW n \in Mails, outbox[n].status = "SENT" PROVE delivered'[n] > 0
    BY <2>2, <1>c DEF MailInv, NotedIsDelivered
  <2>3. QED BY <2>1, <2>2 DEF NotedIsDelivered
<1>4. DueFailed'
  BY DEF MailInv, DueFailed
<1>5. ASSUME NEW n \in (Mails \ (doubt \cup overlap))' PROVE InHand(n)'
  <2>1. InHand(n)
    BY <1>5 DEF MailInv
  <2>2. CASE n = m
    <3>1. delivered[m] = 0 /\ \A y \in Senders : With(y, m) => y = x
      BY <2>1, <2>2, <1>a, <1>w DEF InHand, At
    <3>2. \A y \in Senders : With(y, n)' => y = x
      BY <3>1, <2>2, <1>g
    <3>3. With(x, n)' /\ At(x, "marking")' /\ delivered'[n] = 1
      BY <3>1, <2>2, <1>g, <1>c, <1>w DEF At
    <3>4. QED BY <3>2, <3>3 DEF InHand
  <2>3. CASE n # m
    <3>1. \A y \in Senders : With(y, n) => (At(y, "marking")' <=> At(y, "marking"))
      BY <1>g, <1>w, <2>3 DEF With, At, m
    <3>2. QED BY <3>1, <2>1, <2>3, <1>g, <1>c DEF InHand
  <2>4. QED BY <2>2, <2>3
<1>6. QED BY <1>1, <1>2, <1>3, <1>4, <1>5 DEF MailInv

\* A refused mail is not delivered.
LEMMA SendRefusedInv ==
    ASSUME MailInv, NEW x \in Senders, SendRefused(x)
    PROVE  MailInv'
<1> DEFINE m == sender[x].mail
<1> USE MailAssumption DEF SendRefused
<1>a. MailTypeOK /\ ~At(x, "rest") /\ At(x, "sending")
  BY DEF MailInv, At
<1>g. /\ sender' \in [Senders -> {Resting} \cup
                        [pc : {"sending", "marking", "failing"}, mail : Mails]]
      /\ \A n \in Mails : sender'[n] = Resting \/ sender'[n].mail = n
      /\ sender'[x].pc = "failing" /\ sender'[x].mail = m /\ m \in Mails
      /\ \A y \in Senders \ {x} : sender'[y] = sender[y]
      /\ \A y \in Senders, n \in Mails : With(y, n)' <=> With(y, n)
  BY <1>a, GoesOn
<1>1. MailTypeOK'
  BY <1>a, <1>g DEF MailTypeOK
<1>2. JobsAtWork'
  BY <1>a, <1>g DEF MailInv, JobsAtWork, At, Senders
<1>3. NotedIsDelivered' /\ DueFailed'
  BY <1>a, <1>g DEF MailInv, NotedIsDelivered, DueFailed, At
<1>5. ASSUME NEW n \in (Mails \ (doubt \cup overlap))' PROVE InHand(n)'
  <2>1. InHand(n)
    BY <1>5 DEF MailInv
  <2>2. \A y \in Senders : At(y, "marking")' <=> At(y, "marking")
    BY <1>g, <1>a DEF At
  <2>3. QED BY <2>1, <2>2, <1>g DEF InHand
<1>6. QED BY <1>1, <1>2, <1>3, <1>5 DEF MailInv

\* A mail without an answer may be delivered, and its sender does not know.
LEMMA SendUnansweredInv ==
    ASSUME MailInv, NEW x \in Senders, SendUnanswered(x)
    PROVE  MailInv'
<1> DEFINE m == sender[x].mail
<1> USE MailAssumption DEF SendUnanswered
<1>a. MailTypeOK /\ ~At(x, "rest") /\ At(x, "sending")
  BY DEF MailInv, At
<1>g. /\ sender' \in [Senders -> {Resting} \cup
                        [pc : {"sending", "marking", "failing"}, mail : Mails]]
      /\ \A n \in Mails : sender'[n] = Resting \/ sender'[n].mail = n
      /\ sender'[x].pc = "failing" /\ sender'[x].mail = m /\ m \in Mails
      /\ \A y \in Senders \ {x} : sender'[y] = sender[y]
      /\ \A y \in Senders, n \in Mails : With(y, n)' <=> With(y, n)
  BY <1>a, GoesOn
<1>c. /\ delivered' \in [Mails -> 0..2]
      /\ \A n \in Mails : delivered'[n] >= delivered[n]
      /\ \A n \in Mails \ {m} : delivered'[n] = delivered[n]
  BY <1>a, <1>g, OneMore
<1>f. mailFaults' \in 0..MaxMailFaults /\ doubt' = doubt \cup {m}
  BY <1>a DEF MailFault, MailTypeOK
<1> HIDE DEF m
<1>1. MailTypeOK'
  BY <1>a, <1>g, <1>c, <1>f DEF MailTypeOK
<1>2. JobsAtWork'
  BY <1>a, <1>g DEF MailInv, JobsAtWork, At, Senders
<1>3. NotedIsDelivered'
  <2>1. ASSUME NEW y \in Senders, At(y, "marking")' PROVE delivered'[sender'[y].mail] > 0
    <3>1. At(y, "marking") /\ sender'[y].mail = sender[y].mail /\ sender[y].mail \in Mails
      BY <2>1, <1>g, <1>a, SenderKinds DEF At
    <3>2. delivered[sender[y].mail] > 0
      BY <3>1 DEF MailInv, NotedIsDelivered
    <3>3. QED BY <3>1, <3>2, <1>c, <1>a DEF MailTypeOK
  <2>2. ASSUME NEW n \in Mails, outbox[n].status = "SENT" PROVE delivered'[n] > 0
    BY <2>2, <1>c, <1>a DEF MailInv, NotedIsDelivered, MailTypeOK
  <2>3. QED BY <2>1, <2>2 DEF NotedIsDelivered
<1>4. DueFailed'
  BY DEF MailInv, DueFailed
<1>5. ASSUME NEW n \in (Mails \ (doubt \cup overlap))' PROVE InHand(n)'
  <2>1. InHand(n) /\ n # m
    BY <1>5, <1>f DEF MailInv
  <2>2. \A y \in Senders : At(y, "marking")' <=> At(y, "marking")
    BY <1>g, <1>a DEF At
  <2>3. QED BY <2>1, <2>2, <1>g, <1>c DEF InHand
<1>6. QED BY <1>1, <1>2, <1>3, <1>4, <1>5 DEF MailInv

\* A row that could not be noted as sent leaves its mail in doubt.
LEMMA MarkSentFailsInv ==
    ASSUME MailInv, NEW x \in Senders, MarkSentFails(x)
    PROVE  MailInv'
<1> DEFINE m == sender[x].mail
<1> USE MailAssumption DEF MarkSentFails
<1>a. MailTypeOK /\ ~At(x, "rest") /\ At(x, "marking")
  BY DEF MailInv, At
<1>g. /\ sender' \in [Senders -> {Resting} \cup
                        [pc : {"sending", "marking", "failing"}, mail : Mails]]
      /\ \A n \in Mails : sender'[n] = Resting \/ sender'[n].mail = n
      /\ sender'[x].pc = "failing" /\ sender'[x].mail = m /\ m \in Mails
      /\ \A y \in Senders \ {x} : sender'[y] = sender[y]
      /\ \A y \in Senders, n \in Mails : With(y, n)' <=> With(y, n)
  BY <1>a, GoesOn
<1>f. mailFaults' \in 0..MaxMailFaults /\ doubt' = doubt \cup {m}
  BY <1>a DEF MailFault, MailTypeOK
<1>1. MailTypeOK'
  BY <1>a, <1>g, <1>f DEF MailTypeOK
<1>2. JobsAtWork'
  BY <1>a, <1>g DEF MailInv, JobsAtWork, At, Senders
<1>3. NotedIsDelivered' /\ DueFailed'
  BY <1>a, <1>g DEF MailInv, NotedIsDelivered, DueFailed, At
<1>5. ASSUME NEW n \in (Mails \ (doubt \cup overlap))' PROVE InHand(n)'
  <2>1. InHand(n) /\ n # m
    BY <1>5, <1>f DEF MailInv
  <2>2. \A y \in Senders : With(y, n) => (At(y, "marking")' <=> At(y, "marking"))
    BY <1>g, <1>a, <2>1 DEF At, With
  <2>3. QED BY <2>1, <2>2, <1>g DEF InHand
<1>6. QED BY <1>1, <1>2, <1>3, <1>5 DEF MailInv

\* Noted as sent is what was delivered.
LEMMA MarkSentInv ==
    ASSUME MailInv, NEW x \in Senders, MarkSent(x)
    PROVE  MailInv'
<1> DEFINE m == sender[x].mail
<1> USE MailAssumption DEF MarkSent
<1>a. MailTypeOK /\ At(x, "marking") /\ m \in Mails /\ (x \in Mails => m = x) /\ With(x, m)
  BY SenderKinds DEF MailInv, At, With
<1>g. /\ sender' \in [Senders -> {Resting} \cup
                        [pc : {"sending", "marking", "failing"}, mail : Mails]]
      /\ \A n \in Mails : sender'[n] = Resting \/ sender'[n].mail = n
      /\ At(x, "rest")'
      /\ \A y \in Senders \ {x} : sender'[y] = sender[y]
      /\ \A n \in Mails : ~With(x, n)'
      /\ \A y \in Senders \ {x}, n \in Mails : With(y, n)' <=> With(y, n)
  BY <1>a, RestsNow
<1>o. /\ outbox' = [outbox EXCEPT ![m].status = "SENT"]
      /\ outbox' \in [Mails -> [status : {"NONE", "PENDING", "SENT", "FAILED"}, attempts : Nat]]
      /\ outbox'[m].status = "SENT"
      /\ \A n \in Mails \ {m} : outbox'[n] = outbox[n]
  BY <1>a DEF MailTypeOK
<1>j. /\ job' \in [Mails -> {"none", "waiting", "running", "done", "failed"}]
      /\ \A n \in Mails : job'[n] = IF n = x THEN "done" ELSE job[n]
  BY <1>a DEF MailTypeOK
<1>x. delivered[m] > 0
  BY <1>a DEF MailInv, NotedIsDelivered
<1> HIDE DEF m
<1>1. MailTypeOK'
  BY <1>a, <1>g, <1>o, <1>j DEF MailTypeOK
<1>2. JobsAtWork'
  <2>1. ASSUME NEW n \in Mails, ~At(n, "rest")' PROVE job'[n] = "running"
    <3>1. n # x /\ n \in Senders
      BY <2>1, <1>g DEF Senders
    <3>2. ~At(n, "rest")
      BY <2>1, <3>1, <1>g DEF At
    <3>3. job[n] = "running"
      BY <3>2 DEF MailInv, JobsAtWork
    <3>4. QED BY <3>1, <3>3, <1>j
  <2>2. ASSUME NEW n \in Mails, job'[n] \in {"none", "waiting", "running"}
        PROVE tries'[n] < JobTries
    BY <2>2, <1>j DEF MailInv, JobsAtWork
  <2>3. QED BY <2>1, <2>2 DEF JobsAtWork
<1>3. NotedIsDelivered'
  <2>1. ASSUME NEW y \in Senders, At(y, "marking")' PROVE delivered[sender'[y].mail] > 0
    BY <2>1, <1>g DEF MailInv, NotedIsDelivered, At
  <2>2. ASSUME NEW n \in Mails, outbox'[n].status = "SENT" PROVE delivered[n] > 0
    BY <2>2, <1>o, <1>x DEF MailInv, NotedIsDelivered
  <2>3. QED BY <2>1, <2>2 DEF NotedIsDelivered
<1>4. DueFailed'
  BY DEF MailInv, DueFailed
<1>5. ASSUME NEW n \in (Mails \ (doubt \cup overlap))' PROVE InHand(n)'
  <2>1. InHand(n)
    BY <1>5 DEF MailInv
  <2>2. CASE n = m
    <3>1. delivered[m] = 1 /\ \A y \in Senders \ {x} : ~With(y, m)
      BY <2>1, <2>2, <1>a DEF InHand
    <3>2. \A y \in Senders : ~With(y, n)'
      BY <3>1, <2>2, <1>g
    <3>3. QED BY <3>1, <3>2, <2>2, <1>o DEF InHand
  <2>3. CASE n # m
    <3>1. \A y \in Senders : With(y, n)' <=> With(y, n)
      BY <1>g, <1>a, <2>3 DEF With
    <3>2. \A y \in Senders : With(y, n) => (At(y, "marking")' <=> At(y, "marking"))
      BY <1>g, <1>a, <2>3 DEF With, At
    <3>3. QED BY <3>1, <3>2, <2>1, <2>3, <1>o DEF InHand
  <2>4. QED BY <2>2, <2>3
<1>6. QED BY <1>1, <1>2, <1>3, <1>4, <1>5 DEF MailInv

\* A sender that gives up rests; if it is a job, one more attempt has failed.
LEMMA GivesUp ==
    ASSUME MailInv, NEW x \in Senders, At(x, "failing"), Rests(x),
           IF x \in Mails THEN AttemptFails(x) ELSE UNCHANGED <<job, tries>>
    PROVE  /\ job' \in [Mails -> {"none", "waiting", "running", "done", "failed"}]
           /\ tries' \in [Mails -> 0..JobTries]
           /\ JobsAtWork'
<1> USE MailAssumption
<1>a. MailTypeOK /\ ~At(x, "rest")
  BY DEF MailInv, At
<1>g. /\ At(x, "rest")'
      /\ \A y \in Senders \ {x} : sender'[y] = sender[y]
  BY <1>a, RestsNow
<1>1. CASE x \in Mails
  <2>1. job[x] = "running" /\ tries[x] < JobTries
    BY <1>1, <1>a DEF MailInv, JobsAtWork
  <2>2. /\ job' \in [Mails -> {"none", "waiting", "running", "done", "failed"}]
        /\ tries' \in [Mails -> 0..JobTries]
        /\ job'[x] \in {"none", "waiting", "running"} => tries'[x] < JobTries
        /\ \A n \in Mails \ {x} : job'[n] = job[n] /\ tries'[n] = tries[n]
    BY <1>1, <1>a, <2>1, AttemptCounted
  <2>3. JobsAtWork'
    BY <2>2, <1>g DEF MailInv, JobsAtWork, At, Senders
  <2>4. QED BY <2>2, <2>3
<1>2. CASE x \notin Mails
  <2>1. JobsAtWork'
    BY <1>2, <1>g DEF MailInv, JobsAtWork, At, Senders
  <2>2. QED BY <1>2, <2>1, <1>a DEF MailTypeOK
<1>3. QED BY <1>1, <1>2

\* Noted as failed, the row is due again or given up.
LEMMA MarkFailedInv ==
    ASSUME MailInv, NEW x \in Senders, MarkFailed(x)
    PROVE  MailInv'
<1> DEFINE m == sender[x].mail
<1> USE MailAssumption DEF MarkFailed
<1>a. MailTypeOK /\ At(x, "failing") /\ m \in Mails /\ With(x, m)
  BY SenderKinds DEF MailInv, At, With
<1>g. /\ sender' \in [Senders -> {Resting} \cup
                        [pc : {"sending", "marking", "failing"}, mail : Mails]]
      /\ \A n \in Mails : sender'[n] = Resting \/ sender'[n].mail = n
      /\ At(x, "rest")'
      /\ \A y \in Senders \ {x} : sender'[y] = sender[y]
      /\ \A n \in Mails : ~With(x, n)'
      /\ \A y \in Senders \ {x}, n \in Mails : With(y, n)' <=> With(y, n)
  BY <1>a, RestsNow
<1>j. /\ job' \in [Mails -> {"none", "waiting", "running", "done", "failed"}]
      /\ tries' \in [Mails -> 0..JobTries]
      /\ JobsAtWork'
  BY <1>a, GivesUp
<1>o. /\ outbox' \in [Mails -> [status : {"NONE", "PENDING", "SENT", "FAILED"}, attempts : Nat]]
      /\ outbox'[m].status = "FAILED"
      /\ \A n \in Mails \ {m} : outbox'[n] = outbox[n]
  BY <1>a DEF MailTypeOK
<1> HIDE DEF m
<1>1. MailTypeOK'
  BY <1>a, <1>g, <1>o, <1>j DEF MailTypeOK
<1>3. NotedIsDelivered'
  <2>1. ASSUME NEW y \in Senders, At(y, "marking")' PROVE delivered[sender'[y].mail] > 0
    BY <2>1, <1>g DEF MailInv, NotedIsDelivered, At
  <2>2. ASSUME NEW n \in Mails, outbox'[n].status = "SENT" PROVE delivered[n] > 0
    BY <2>2, <1>o DEF MailInv, NotedIsDelivered
  <2>3. QED BY <2>1, <2>2 DEF NotedIsDelivered
<1>4. DueFailed'
  BY DEF MailInv, DueFailed
<1>5. ASSUME NEW n \in (Mails \ (doubt \cup overlap))' PROVE InHand(n)'
  <2>1. InHand(n)
    BY <1>5 DEF MailInv
  <2>2. CASE n = m
    <3>1. delivered[m] = 0 /\ \A y \in Senders \ {x} : ~With(y, m)
      BY <2>1, <2>2, <1>a DEF InHand, At
    <3>2. \A y \in Senders : ~With(y, n)'
      BY <3>1, <2>2, <1>g
    <3>3. QED BY <3>1, <3>2, <2>2, <1>o DEF InHand
  <2>3. CASE n # m
    <3>1. \A y \in Senders : With(y, n)' <=> With(y, n)
      BY <1>g, <1>a, <2>3 DEF With
    <3>2. \A y \in Senders : With(y, n) => (At(y, "marking")' <=> At(y, "marking"))
      BY <1>g, <1>a, <2>3 DEF With, At
    <3>3. QED BY <3>1, <3>2, <2>1, <2>3, <1>o DEF InHand
  <2>4. QED BY <2>2, <2>3
<1>6. QED BY <1>1, <1>j, <1>3, <1>4, <1>5 DEF MailInv

\* A failure that could not be noted leaves the row as it was.
LEMMA MarkFailedFailsInv ==
    ASSUME MailInv, NEW x \in Senders, MarkFailedFails(x)
    PROVE  MailInv'
<1> DEFINE m == sender[x].mail
<1> USE MailAssumption DEF MarkFailedFails
<1>a. MailTypeOK /\ At(x, "failing") /\ m \in Mails /\ With(x, m)
  BY SenderKinds DEF MailInv, At, With
<1>g. /\ sender' \in [Senders -> {Resting} \cup
                        [pc : {"sending", "marking", "failing"}, mail : Mails]]
      /\ \A n \in Mails : sender'[n] = Resting \/ sender'[n].mail = n
      /\ At(x, "rest")'
      /\ \A y \in Senders \ {x} : sender'[y] = sender[y]
      /\ \A n \in Mails : ~With(x, n)'
      /\ \A y \in Senders \ {x}, n \in Mails : With(y, n)' <=> With(y, n)
  BY <1>a, RestsNow
<1>j. /\ job' \in [Mails -> {"none", "waiting", "running", "done", "failed"}]
      /\ tries' \in [Mails -> 0..JobTries]
      /\ JobsAtWork'
  <2>1. IF x \in Mails THEN AttemptFails(x) ELSE UNCHANGED <<job, tries>>
    OBVIOUS
  <2>2. QED BY <1>a, <2>1, GivesUp
<1>d. /\ due' \in [Sweeps -> SUBSET [mail : Mails,
                    row : [status : {"NONE", "PENDING", "SENT", "FAILED"}, attempts : Nat]]]
      /\ \A s \in Sweeps : due'[s] \subseteq due[s]
  BY <1>a DEF MailTypeOK
<1>f. mailFaults' \in 0..MaxMailFaults
  BY <1>a DEF MailFault, MailTypeOK
<1> HIDE DEF m
<1>1. MailTypeOK'
  BY <1>a, <1>g, <1>d, <1>f, <1>j DEF MailTypeOK
<1>3. NotedIsDelivered'
  BY <1>g DEF MailInv, NotedIsDelivered, At
<1>4. DueFailed'
  BY <1>d DEF MailInv, DueFailed
<1>5. ASSUME NEW n \in (Mails \ (doubt \cup overlap))' PROVE InHand(n)'
  <2>1. InHand(n)
    BY <1>5 DEF MailInv
  <2>2. CASE n = m
    <3>1. /\ delivered[m] = 0 /\ outbox[m].status # "SENT"
          /\ \A y \in Senders \ {x} : ~With(y, m)
      BY <2>1, <2>2, <1>a DEF InHand, At
    <3>2. \A y \in Senders : ~With(y, n)'
      BY <3>1, <2>2, <1>g
    <3>3. QED BY <3>1, <3>2, <2>2 DEF InHand
  <2>3. CASE n # m
    <3>1. \A y \in Senders : With(y, n)' <=> With(y, n)
      BY <1>g, <1>a, <2>3 DEF With
    <3>2. \A y \in Senders : With(y, n) => (At(y, "marking")' <=> At(y, "marking"))
      BY <1>g, <1>a, <2>3 DEF With, At
    <3>3. QED BY <3>1, <3>2, <2>1, <2>3 DEF InHand
  <2>4. QED BY <2>2, <2>3
<1>6. QED BY <1>1, <1>j, <1>3, <1>4, <1>5 DEF MailInv

\* A mail whose sender died before the delivery was noted is in doubt; one whose
\* sender died otherwise had not been delivered.
LEMMA MailDiesInv ==
    ASSUME MailInv, MailDies
    PROVE  MailInv'
<1> USE MailAssumption DEF MailDies
<1>a. MailTypeOK
  BY DEF MailInv
<1>g. /\ \A x \in Senders : sender'[x] = [pc |-> "rest"]
      /\ \A x \in Senders : sender'[x].pc = "rest"
      /\ \A x \in Senders, n \in Mails : ~With(x, n)'
  BY DEF Resting, With, At
<1>m. \A x \in Senders : At(x, "marking") => sender[x].mail \in doubt' /\ sender[x].mail \in Mails
  BY <1>a, SenderKinds DEF At
<1>1. MailTypeOK'
  <2>1. sender' \in [Senders -> {Resting} \cup
                    [pc : {"sending", "marking", "failing"}, mail : Mails]]
    OBVIOUS
  <2>2. \A n \in Mails : sender'[n] = Resting \/ sender'[n].mail = n
    BY DEF Senders
  <2>3. doubt' \subseteq Mails
    BY <1>m, <1>a DEF MailTypeOK
  <2>4. /\ job' \in [Mails -> {"none", "waiting", "running", "done", "failed"}]
        /\ stalled' \in [Mails -> BOOLEAN]
    BY <1>a DEF MailTypeOK
  <2>5. mailFaults' \in 0..MaxMailFaults
    BY <1>a DEF MailFault, MailTypeOK
  <2>6. QED BY <1>a, <2>1, <2>2, <2>3, <2>4, <2>5 DEF MailTypeOK
<1>2. JobsAtWork'
  <2>1. ASSUME NEW n \in Mails PROVE At(n, "rest")'
    BY <1>g DEF At, Senders
  <2>2. ASSUME NEW n \in Mails, job'[n] \in {"none", "waiting", "running"}
        PROVE tries'[n] < JobTries
    <3>1. job[n] \in {"none", "waiting", "running"}
      BY <2>2
    <3>2. QED BY <3>1 DEF MailInv, JobsAtWork
  <2>3. QED BY <2>1, <2>2 DEF JobsAtWork
<1>3. NotedIsDelivered' /\ DueFailed'
  BY <1>g DEF MailInv, NotedIsDelivered, DueFailed, At
<1>4. ASSUME NEW n \in (Mails \ (doubt \cup overlap))' PROVE InHand(n)'
  <2>1. InHand(n) /\ \A x \in Senders : With(x, n) => ~At(x, "marking")
    BY <1>4, <1>m DEF MailInv, With
  <2>2. delivered[n] <= 1 /\ (delivered[n] = 1 <=> outbox[n].status = "SENT")
    BY <2>1 DEF InHand
  <2>3. QED BY <2>2, <1>g DEF InHand
<1>5. QED BY <1>1, <1>2, <1>3, <1>4 DEF MailInv

\* Every step of the mails keeps their invariant.
LEMMA MailNextInv ==
    ASSUME MailInv, [MailNext]_mailVars
    PROVE  MailInv'
<1>1. ASSUME NEW m \in Mails, Enqueue(m) \/ JobStart(m) \/ JobStartFails(m) PROVE MailInv'
  BY <1>1, EnqueueInv, JobStartInv, JobStartFailsInv
<1>2. ASSUME NEW s \in Sweeps, SweepStart(s) \/ SweepReaches(s) PROVE MailInv'
  BY <1>2, SweepStartInv, SweepSkipInv, SweepTakeInv DEF SweepReaches
<1>3. ASSUME NEW x \in Senders, Sends(x) PROVE MailInv'
  BY <1>3, SendOkInv, SendRefusedInv, SendUnansweredInv, MarkSentInv, MarkSentFailsInv,
     MarkFailedInv, MarkFailedFailsInv DEF Sends
<1>4. ASSUME MailDies PROVE MailInv'
  BY <1>4, MailDiesInv
<1>5. ASSUME UNCHANGED mailVars PROVE MailInv'
  <2> USE <1>5 DEF mailVars
  <2>1. MailTypeOK'
    BY DEF MailInv, MailTypeOK
  <2>2. JobsAtWork' /\ NotedIsDelivered' /\ DueFailed'
    BY DEF MailInv, JobsAtWork, NotedIsDelivered, DueFailed, At
  <2>3. ASSUME NEW n \in (Mails \ (doubt \cup overlap))' PROVE InHand(n)'
    BY DEF MailInv, InHand, With, At
  <2>4. QED BY <2>1, <2>2, <2>3 DEF MailInv
<1>6. QED BY <1>1, <1>2, <1>3, <1>4, <1>5 DEF MailNext

\* So does every step of the composition.
LEMMA MailStep ==
    ASSUME MailInv, [MessagingNext]_messagingVars
    PROVE  MailInv'
<1>1. [MailNext]_mailVars
  BY DEF MessagingNext, messagingVars
<1>2. QED BY <1>1, MailNextInv

\* Whatever the job and the cron runs do at the same time, whatever fails or
\* dies: SENT means delivered, and a mail is delivered once and recorded, unless
\* the program could not note a delivery or two senders had the mail at once.
\* For any number of mails, cron runs, attempts and failures.
THEOREM OutboxIsTrueCorrect == MessagingSpec => []OutboxIsTrue
<1>1. MessagingInit => MailInv
  BY MailInitInv DEF MessagingInit
<1>2. MailInv => OutboxIsTrue
  BY DEF MailInv, NotedIsDelivered, InHand, OutboxIsTrue
<1>3. QED BY <1>1, <1>2, MailStep, PTL DEF MessagingSpec

-----------------------------------------------------------------------------
(* Notifications: the inductive invariant.                                 *)

\* Failed attempts and the restart of a job, each of which ended a run.
Ended(e) == failures[e] + (IF restarted[e] THEN 1 ELSE 0)
RejectedRuns == {r \in Runs : email[r] = "rejected" \/ inApp[r] = "rejected"}

\* Runs of a job are started one after the other, the next one when the one
\* before has failed or died; both halves of a run start together.
RunsInOrder ==
    /\ \A r \in Runs : email[r] = "idle" <=> inApp[r] = "idle"
    /\ \A e \in Events : queue[e] \in {"none", "waiting", "active"} => failures[e] < EventTries
    /\ \A e \in Events : \A r \in RunsOf(e) : email[r] # "idle" =>
        r.k <= Ended(e) + (IF queue[e] \in {"none", "waiting"} THEN 0 ELSE 1)

\* Every run that ended was paid for with a failure, the one that is about to
\* fail as well.
FailuresPaid == \A e \in Events :
    Ended(e) + (IF CurrentRun(e) \in RejectedRuns THEN 1 ELSE 0) <= noteFaults

\* What each step of the mail half means for its row and the mail.
EmailSteps == \A r \in Runs :
    /\ email[r] \in {"idle", "creating"} => r \notin mailed /\ emailRow[r] = "NONE"
    /\ email[r] = "sending" => r \notin mailed /\ emailRow[r] = "PENDING"
    /\ email[r] = "marking" => r \in mailed /\ emailRow[r] = "PENDING"
    /\ email[r] = "failing" => /\ emailRow[r] \in {"PENDING", "SENT"}
                               /\ emailRow[r] = "SENT" => r \in mailed
                               /\ r \in mailed => r \in unsure
    /\ email[r] = "done" => emailRow[r] \in {"SENT", "FAILED"}
    /\ Finished(r) /\ r \notin unsure => (r \in mailed <=> emailRow[r] = "SENT")
    /\ r \in mailed => emailRow[r] # "NONE"

\* The same of the in-app half.
InAppSteps == \A r \in Runs :
    /\ inApp[r] \in {"idle", "creating"} => inAppRow[r] = "NONE"
    /\ inApp[r] \in {"pushing", "done"} => inAppRow[r] # "NONE"

\* A job that is done was done in its last run.
DoneInARun == \A e \in Events : queue[e] = "done" /\ handler[e] = "notification" =>
    \E r \in RunsOf(e) : email[r] = "done" /\ inApp[r] = "done"

\* A count that has been read and that no rows ran into is that of the rows.
CountsFresh == \A t \in Counts \ crossed : request[t].count = Cardinality(UnreadInApp)

\* While no mark is being answered, the count a tab shows lacks the
\* notifications that are being pushed.
PushingRuns == {r \in Runs : inApp[r] = "pushing"}
BadgesAgree == Marking = {} => \A t \in Tabs \ stale :
    badge[t] + Cardinality(PushingRuns) = Cardinality(UnreadInApp)

CountsAgree ==
    /\ IsFiniteSet(UnreadInApp) /\ IsFiniteSet(PushingRuns)
    /\ CountsFresh /\ BadgesAgree

NoteInv ==
    /\ NoteTypeOK /\ RunsInOrder /\ FailuresPaid /\ EmailSteps /\ InAppSteps /\ DoneInARun
    /\ CountsAgree

-----------------------------------------------------------------------------
(* The queue.                                                              *)

\* The runs of an event are numbered from one.
LEMMA RunFields ==
    /\ \A e \in Events : \A r \in RunsOf(e) :
        r.k \in 1..(EventTries + 1) /\ r = [of |-> e, k |-> r.k]
    /\ \A e \in Events : \A k \in 1..(EventTries + 1) : [of |-> e, k |-> k] \in RunsOf(e)
    /\ \A d \in Directs : [of |-> d, k |-> 1] \in Runs
    /\ \A d \in Directs : \A e \in Events : [of |-> d, k |-> 1] \notin RunsOf(e)
    /\ \A e \in Events : RunsOf(e) \subseteq Runs
BY NotificationAssumption DEF Runs, RunsOf

\* The current run of a job that is waiting or active is one of its runs, and
\* no run of it has been started yet if it is waiting.
LEMMA CurrentRunFacts ==
    ASSUME NoteTypeOK, RunsInOrder, NEW e \in Events
    PROVE  /\ Ended(e) \in Nat /\ CurrentRun(e) = [of |-> e, k |-> Ended(e) + 1]
           /\ CurrentRun(e).k = Ended(e) + 1 /\ CurrentRun(e).of = e
           /\ queue[e] \in {"none", "waiting", "active"} => CurrentRun(e) \in RunsOf(e)
           /\ queue[e] \in {"none", "waiting"} /\ CurrentRun(e) \in Runs =>
                email[CurrentRun(e)] = "idle" /\ inApp[CurrentRun(e)] = "idle"
<1> USE NotificationAssumption
<1>1. failures[e] \in 0..EventTries /\ restarted[e] \in BOOLEAN
  BY DEF NoteTypeOK
<1>2. Ended(e) \in Nat /\ CurrentRun(e) = [of |-> e, k |-> Ended(e) + 1]
  BY <1>1 DEF Ended, CurrentRun
<1>3. queue[e] \in {"none", "waiting", "active"} => Ended(e) + 1 \in 1..(EventTries + 1)
  BY <1>1 DEF RunsInOrder, Ended
<1>4. queue[e] \in {"none", "waiting", "active"} => CurrentRun(e) \in RunsOf(e)
  BY <1>2, <1>3, RunFields
<1>5. ASSUME queue[e] \in {"none", "waiting"}, CurrentRun(e) \in Runs
      PROVE  email[CurrentRun(e)] = "idle" /\ inApp[CurrentRun(e)] = "idle"
  <2>1. CurrentRun(e) \in RunsOf(e) /\ CurrentRun(e).k = Ended(e) + 1
    BY <1>2, <1>4, <1>5
  <2>2. email[CurrentRun(e)] = "idle"
    BY <2>1, <1>2, <1>5 DEF RunsInOrder
  <2>3. QED BY <2>2, <1>5 DEF RunsInOrder
<1>6. CurrentRun(e).k = Ended(e) + 1 /\ CurrentRun(e).of = e
  BY <1>2
<1>7. QED BY <1>2, <1>4, <1>5, <1>6

\* Nothing has been published yet.
LEMMA NoteInitInv ==
    NoteInit => NoteInv
<1> SUFFICES ASSUME NoteInit PROVE NoteInv
  OBVIOUS
<1> USE NotificationAssumption DEF NoteInit, NoNotifications
<1>1. NoteTypeOK
  <2>1. request \in [Tabs -> Requests] /\ badge \in [Tabs -> Nat]
    BY DEF Requests, Idle
  <2>2. failures \in [Events -> 0..EventTries] /\ noteFaults \in 0..MaxNoteFaults
    OBVIOUS
  <2>3. QED BY <2>1, <2>2 DEF NoteTypeOK
<1>2. RunsInOrder
  BY DEF RunsInOrder, RunsOf
<1>3. FailuresPaid
  BY DEF FailuresPaid, Ended, RejectedRuns
<1>4. EmailSteps /\ InAppSteps /\ DoneInARun
  BY DEF EmailSteps, InAppSteps, DoneInARun, Finished
<1>5. CountsAgree
  <2>1. UnreadInApp = {} /\ PushingRuns = {} /\ Counts = {}
    BY DEF UnreadInApp, PushingRuns, Counts, Idle
  <2>2. QED BY <2>1, FS_EmptySet DEF CountsAgree, CountsFresh, BadgesAgree
<1>6. QED BY <1>1, <1>2, <1>3, <1>4, <1>5 DEF NoteInv

\* Steps that touch neither the in-app rows nor the clients leave the counts.
LEMMA CountsKept ==
    ASSUME CountsAgree, UNCHANGED <<inAppRow, request, crossed, badge, stale>>,
           PushingRuns' = PushingRuns
    PROVE  CountsAgree'
BY DEF CountsAgree, CountsFresh, BadgesAgree, UnreadInApp, Counts, Marking

\* Steps of the queue that start no run.
LEMMA PublishInv ==
    ASSUME NoteInv, NEW e \in Events, Publish(e)
    PROVE  NoteInv'
<1> USE NotificationAssumption DEF Publish, emailVars, inAppVars, clientVars
<1>1. NoteTypeOK'
  BY DEF NoteInv, NoteTypeOK
<1>2. RunsInOrder'
  BY DEF NoteInv, NoteTypeOK, RunsInOrder, Ended, RunsOf
<1>3. FailuresPaid'
  BY DEF NoteInv, FailuresPaid, Ended, RejectedRuns, CurrentRun
<1>4. EmailSteps' /\ InAppSteps'
  BY DEF NoteInv, EmailSteps, InAppSteps, Finished
<1>5. DoneInARun'
  BY DEF NoteInv, NoteTypeOK, DoneInARun, RunsOf
<1>6. CountsAgree'
  BY CountsKept DEF NoteInv, PushingRuns
<1>7. QED BY <1>1, <1>2, <1>3, <1>4, <1>5, <1>6 DEF NoteInv

\* A job taken by the other worker is done without a run.
LEMMA TakenByKycInv ==
    ASSUME NoteInv, NEW e \in Events, TakenByKyc(e)
    PROVE  NoteInv'
<1> USE NotificationAssumption DEF TakenByKyc, emailVars, inAppVars, clientVars
<1>1. NoteTypeOK'
  BY DEF NoteInv, NoteTypeOK
<1>2. RunsInOrder'
  <2>1. ASSUME NEW f \in Events, NEW r \in RunsOf(f), email[r] # "idle"
        PROVE  r.k <= Ended(f) + (IF queue'[f] \in {"none", "waiting"} THEN 0 ELSE 1)
    <3>1. r.k <= Ended(f) + (IF queue[f] \in {"none", "waiting"} THEN 0 ELSE 1)
      BY <2>1 DEF NoteInv, RunsInOrder
    <3>2. Ended(f) \in Nat /\ r.k \in Nat
      BY CurrentRunFacts, RunFields DEF NoteInv
    <3>3. CASE f = e
      BY <3>1, <3>2, <3>3 DEF NoteInv, NoteTypeOK
    <3>4. CASE f # e
      BY <3>1, <3>2, <3>4 DEF NoteInv, NoteTypeOK
    <3>5. QED BY <3>3, <3>4
  <2>2. ASSUME NEW f \in Events, queue'[f] \in {"none", "waiting", "active"}
        PROVE  failures[f] < EventTries
    BY <2>2 DEF NoteInv, NoteTypeOK, RunsInOrder
  <2>3. QED BY <2>1, <2>2 DEF NoteInv, RunsInOrder, Ended, RunsOf
<1>3. FailuresPaid'
  BY DEF NoteInv, FailuresPaid, Ended, RejectedRuns, CurrentRun
<1>4. EmailSteps' /\ InAppSteps'
  BY DEF NoteInv, EmailSteps, InAppSteps, Finished
<1>5. DoneInARun'
  BY DEF NoteInv, NoteTypeOK, DoneInARun, RunsOf
<1>6. CountsAgree'
  BY CountsKept DEF NoteInv, PushingRuns
<1>7. QED BY <1>1, <1>2, <1>3, <1>4, <1>5, <1>6 DEF NoteInv

\* A run whose halves are over completes the job, or has it tried again.
LEMMA CompleteInv ==
    ASSUME NoteInv, NEW e \in Events, Complete(e)
    PROVE  NoteInv'
<1> USE NotificationAssumption DEF Complete, emailVars, inAppVars, clientVars
<1>1. NoteTypeOK'
  BY DEF NoteInv, NoteTypeOK
<1>2. RunsInOrder'
  BY DEF NoteInv, NoteTypeOK, RunsInOrder, Ended, RunsOf
<1>3. FailuresPaid'
  BY DEF NoteInv, FailuresPaid, Ended, RejectedRuns, CurrentRun
<1>4. EmailSteps' /\ InAppSteps'
  BY DEF NoteInv, EmailSteps, InAppSteps, Finished
<1>5. DoneInARun'
  <2>1. CurrentRun(e) \in RunsOf(e)
    BY CurrentRunFacts DEF NoteInv
  <2>2. QED BY <2>1 DEF NoteInv, NoteTypeOK, DoneInARun, RunsOf
<1>6. CountsAgree'
  BY CountsKept DEF NoteInv, PushingRuns
<1>7. QED BY <1>1, <1>2, <1>3, <1>4, <1>5, <1>6 DEF NoteInv

\* An attempt that fails is paid for, and the next one has not started.
LEMMA TryAgainInv ==
    ASSUME NoteInv, NEW e \in Events, queue[e] \in {"waiting", "active"}, TryAgain(e),
           handler' \in [Events -> {"none", "notification", "kyc"}],
           \A f \in Events \ {e} : handler'[f] = handler[f],
           noteFaults' \in 0..MaxNoteFaults, noteFaults <= noteFaults',
           Ended(e) + 1 <= noteFaults',
           UNCHANGED <<restarted, emailVars, inAppVars, clientVars>>
    PROVE  NoteInv'
<1> USE NotificationAssumption DEF TryAgain, emailVars, inAppVars, clientVars
<1>a. NoteTypeOK /\ RunsInOrder
  BY DEF NoteInv
<1>b. /\ Ended(e) \in Nat /\ failures[e] \in Nat /\ failures[e] < EventTries
      /\ noteFaults \in Nat
  BY <1>a, CurrentRunFacts DEF RunsInOrder, NoteTypeOK
<1>d. /\ Ended(e)' = Ended(e) + 1
      /\ \A f \in Events \ {e} : /\ Ended(f)' = Ended(f) /\ CurrentRun(f)' = CurrentRun(f)
                                 /\ queue'[f] = queue[f]
      /\ queue'[e] \in {"waiting", "failed"}
      /\ queue'[e] = "waiting" => failures'[e] < EventTries
  BY <1>a, <1>b DEF Ended, CurrentRun, NoteTypeOK
<1>1. NoteTypeOK'
  BY <1>a, <1>b DEF NoteTypeOK
<1>2. RunsInOrder'
  <2>1. ASSUME NEW f \in Events, NEW r \in RunsOf(f), email[r] # "idle"
        PROVE  r.k <= Ended(f)' + (IF queue'[f] \in {"none", "waiting"} THEN 0 ELSE 1)
    <3>1. r.k <= Ended(f) + (IF queue[f] \in {"none", "waiting"} THEN 0 ELSE 1)
      BY <2>1, <1>a DEF RunsInOrder
    <3>2. Ended(f) \in Nat /\ r.k \in Nat
      BY <1>a, CurrentRunFacts, RunFields
    <3>3. CASE f = e
      BY <3>1, <3>2, <3>3, <1>d
    <3>4. CASE f # e
      BY <3>1, <3>2, <3>4, <1>d
    <3>5. QED BY <3>3, <3>4
  <2>2. ASSUME NEW f \in Events, queue'[f] \in {"none", "waiting", "active"}
        PROVE  failures'[f] < EventTries
    BY <2>2, <1>a, <1>d DEF NoteTypeOK, RunsInOrder
  <2>3. QED BY <2>1, <2>2, <1>a DEF RunsInOrder, RunsOf
<1>3. FailuresPaid'
  <2>1. CurrentRun(e)' \notin RejectedRuns'
    <3>1. CurrentRun(e)' = [of |-> e, k |-> Ended(e) + 2] /\ CurrentRun(e)'.k = Ended(e) + 2
      BY <1>a, <1>b DEF Ended, CurrentRun, NoteTypeOK
    <3>2. SUFFICES ASSUME NEW r \in Runs, r = CurrentRun(e)' PROVE r \notin RejectedRuns'
      BY DEF RejectedRuns
    <3>3. r \in RunsOf(e) /\ r.k = Ended(e) + 2
      BY <3>1, <3>2 DEF RunsOf
    <3>4. email[r] = "idle"
      BY <3>3, <1>a, <1>b DEF RunsInOrder
    <3>5. QED BY <3>4, <1>a DEF RejectedRuns, RunsInOrder
  <2>2. ASSUME NEW f \in Events
        PROVE  Ended(f)' + (IF CurrentRun(f)' \in RejectedRuns' THEN 1 ELSE 0) <= noteFaults'
    <3>1. CASE f = e
      BY <3>1, <2>1, <1>b, <1>d
    <3>2. CASE f # e
      <4>1. Ended(f) + (IF CurrentRun(f) \in RejectedRuns THEN 1 ELSE 0) <= noteFaults
        BY DEF NoteInv, FailuresPaid
      <4>2. Ended(f) \in Nat
        BY <1>a, CurrentRunFacts
      <4>3. RejectedRuns' = RejectedRuns
        BY DEF RejectedRuns
      <4>4. QED BY <3>2, <4>1, <4>2, <4>3, <1>b, <1>d
    <3>3. QED BY <3>1, <3>2
  <2>3. QED BY <2>2 DEF FailuresPaid
<1>4. EmailSteps' /\ InAppSteps'
  BY DEF NoteInv, EmailSteps, InAppSteps, Finished
<1>5. DoneInARun'
  BY <1>d DEF NoteInv, NoteTypeOK, DoneInARun, RunsOf
<1>6. CountsAgree'
  BY CountsKept DEF NoteInv, PushingRuns
<1>7. QED BY <1>1, <1>2, <1>3, <1>4, <1>5, <1>6 DEF NoteInv

\* The run that fails was the current one; it was paid for.
LEMMA FailInv ==
    ASSUME NoteInv, NEW e \in Events, Fail(e)
    PROVE  NoteInv'
<1> USE DEF Fail
<1>1. NoteTypeOK /\ RunsInOrder
  BY DEF NoteInv
<1>2. CurrentRun(e) \in RejectedRuns
  BY <1>1, CurrentRunFacts, RunFields DEF RejectedRuns
<1>3. Ended(e) + 1 <= noteFaults
  BY <1>2 DEF NoteInv, FailuresPaid
<1>4. /\ handler' \in [Events -> {"none", "notification", "kyc"}]
      /\ noteFaults' \in 0..MaxNoteFaults /\ noteFaults <= noteFaults'
      /\ \A f \in Events \ {e} : handler'[f] = handler[f]
  BY <1>1, NotificationAssumption DEF NoteTypeOK
<1>5. QED BY <1>3, <1>4, TryAgainInv

\* The other worker's failure pays for itself.
LEMMA KycFailsInv ==
    ASSUME NoteInv, NEW e \in Events, KycFails(e)
    PROVE  NoteInv'
<1> USE DEF KycFails
<1>1. NoteTypeOK /\ RunsInOrder
  BY DEF NoteInv
<1>2. Ended(e) <= noteFaults /\ Ended(e) \in Nat /\ noteFaults \in Nat
  <2>1. Ended(e) \in Nat /\ noteFaults \in Nat
    BY <1>1, CurrentRunFacts, NotificationAssumption DEF NoteTypeOK
  <2>2. Ended(e) + (IF CurrentRun(e) \in RejectedRuns THEN 1 ELSE 0) <= noteFaults
    BY DEF NoteInv, FailuresPaid
  <2>3. QED BY <2>1, <2>2
<1>3. noteFaults' = noteFaults + 1 /\ noteFaults' \in 0..MaxNoteFaults
  BY <1>1, NotificationAssumption DEF NoteFault, NoteTypeOK
<1>4. /\ handler' \in [Events -> {"none", "notification", "kyc"}]
      /\ \A f \in Events \ {e} : handler'[f] = handler[f]
  BY <1>1 DEF NoteTypeOK
<1>5. QED BY <1>2, <1>3, <1>4, TryAgainInv

\* A run starts that had not been started: no row, no mail, both halves.
LEMMA StartsInv ==
    ASSUME NoteInv, NEW r \in Runs, email[r] = "idle", Starts(r)
    PROVE  /\ email' \in [Runs -> {"idle", "creating", "sending", "marking", "failing", "done",
                                   "rejected", "dead"}]
           /\ inApp' \in [Runs -> {"idle", "creating", "pushing", "done", "rejected", "dead"}]
           /\ email'[r] = "creating" /\ inApp'[r] = "creating"
           /\ \A s \in Runs \ {r} : email'[s] = email[s] /\ inApp'[s] = inApp[s]
           /\ EmailSteps' /\ InAppSteps' /\ CountsAgree'
           /\ RejectedRuns' = RejectedRuns
<1> USE DEF Starts, clientVars
<1>1. /\ email' \in [Runs -> {"idle", "creating", "sending", "marking", "failing", "done",
                                   "rejected", "dead"}]
      /\ inApp' \in [Runs -> {"idle", "creating", "pushing", "done", "rejected", "dead"}]
      /\ email'[r] = "creating" /\ inApp'[r] = "creating"
      /\ \A s \in Runs \ {r} : email'[s] = email[s] /\ inApp'[s] = inApp[s]
      /\ inApp[r] = "idle"
  BY DEF NoteInv, NoteTypeOK, RunsInOrder
<1>2. RejectedRuns' = RejectedRuns /\ PushingRuns' = PushingRuns
  BY <1>1 DEF RejectedRuns, PushingRuns
<1>3. EmailSteps'
  <2>1. ASSUME NEW s \in Runs, s # r PROVE email'[s] = email[s] /\ Finished(s)' = Finished(s)
    BY <2>1, <1>1 DEF Finished
  <2>2. r \notin mailed /\ emailRow[r] = "NONE" /\ ~Finished(r)'
    BY <1>1 DEF NoteInv, EmailSteps, Finished
  <2>3. QED BY <2>1, <2>2, <1>1 DEF NoteInv, EmailSteps
<1>4. InAppSteps'
  BY <1>1 DEF NoteInv, InAppSteps
<1>5. CountsAgree'
  BY <1>2, CountsKept DEF NoteInv
<1>6. QED BY <1>1, <1>2, <1>3, <1>4, <1>5

\* A job that is taken starts the run its failures call for.
LEMMA TakenByNotificationsInv ==
    ASSUME NoteInv, NEW e \in Events, TakenByNotifications(e)
    PROVE  NoteInv'
<1> DEFINE r == CurrentRun(e)
<1> USE NotificationAssumption DEF TakenByNotifications
<1>a. NoteTypeOK /\ RunsInOrder
  BY DEF NoteInv
<1>b. /\ r \in RunsOf(e) /\ r \in Runs /\ email[r] = "idle" /\ Ended(e) \in Nat
      /\ r.k = Ended(e) + 1 /\ r.of = e
  <2>1. r \in RunsOf(e)
    BY <1>a, CurrentRunFacts
  <2>2. QED BY <1>a, <2>1, CurrentRunFacts, RunFields
<1> HIDE DEF r
<1>s. /\ email' \in [Runs -> {"idle", "creating", "sending", "marking", "failing", "done",
                                   "rejected", "dead"}]
      /\ inApp' \in [Runs -> {"idle", "creating", "pushing", "done", "rejected", "dead"}]
      /\ email'[r] = "creating" /\ inApp'[r] = "creating"
      /\ \A s \in Runs \ {r} : email'[s] = email[s] /\ inApp'[s] = inApp[s]
      /\ EmailSteps' /\ InAppSteps' /\ CountsAgree'
      /\ RejectedRuns' = RejectedRuns
  <2>1. Starts(r)
    BY DEF r
  <2>2. QED BY <1>b, <2>1, StartsInv
<1>u. UNCHANGED <<emailRow, mailed, unsure, inAppRow, request, crossed, badge, stale, noteFaults>>
  BY DEF Starts, clientVars
<1>q. /\ queue'[e] = "active"
      /\ \A f \in Events \ {e} : queue'[f] = queue[f] /\ handler'[f] = handler[f]
  BY <1>a DEF NoteTypeOK
<1>1. NoteTypeOK'
  BY <1>a, <1>s, <1>u DEF NoteTypeOK
<1>2. RunsInOrder'
  <2>1. ASSUME NEW f \in Events, NEW s \in RunsOf(f), email'[s] # "idle"
        PROVE  s.k <= Ended(f) + (IF queue'[f] \in {"none", "waiting"} THEN 0 ELSE 1)
    <3>1. CASE s = r
      <4>1. f = e
        BY <3>1, <1>b DEF RunsOf
      <4>2. QED BY <4>1, <3>1, <1>b, <1>q
    <3>2. CASE s # r
      <4>1. s \in Runs /\ email[s] # "idle"
        BY <3>2, <2>1, <1>s, RunFields
      <4>2. s.k <= Ended(f) + (IF queue[f] \in {"none", "waiting"} THEN 0 ELSE 1)
        BY <4>1, <1>a DEF RunsInOrder
      <4>3. Ended(f) \in Nat /\ s.k \in Nat
        BY <1>a, CurrentRunFacts, RunFields
      <4>4. CASE f = e
        BY <4>2, <4>3, <4>4, <1>q
      <4>5. CASE f # e
        BY <4>2, <4>3, <4>5, <1>q
      <4>6. QED BY <4>4, <4>5
    <3>3. QED BY <3>1, <3>2
  <2>2. ASSUME NEW f \in Events, queue'[f] \in {"none", "waiting", "active"}
        PROVE  failures[f] < EventTries
    BY <2>2, <1>a, <1>q DEF RunsInOrder
  <2>3. \A s \in Runs : email'[s] = "idle" <=> inApp'[s] = "idle"
    BY <1>a, <1>s DEF RunsInOrder
  <2>4. QED BY <2>1, <2>2, <2>3 DEF RunsInOrder, RunsOf, Ended
<1>3. FailuresPaid'
  BY <1>s, <1>u DEF NoteInv, FailuresPaid, Ended, CurrentRun
<1>4. DoneInARun'
  <2>1. ASSUME NEW f \in Events, queue'[f] = "done", handler'[f] = "notification"
        PROVE  \E s \in RunsOf(f) : email'[s] = "done" /\ inApp'[s] = "done"
    <3>1. queue[f] = "done" /\ handler[f] = "notification"
      BY <2>1, <1>q
    <3>2. PICK s \in RunsOf(f) : email[s] = "done" /\ inApp[s] = "done"
      BY <3>1 DEF NoteInv, DoneInARun
    <3>3. s \in Runs /\ s # r
      BY <3>2, <1>b, RunFields
    <3>4. QED BY <3>2, <3>3, <1>s
  <2>2. QED BY <2>1 DEF DoneInARun, RunsOf
<1>5. QED BY <1>1, <1>2, <1>3, <1>4, <1>s DEF NoteInv

\* A direct call is one run.
LEMMA CallInv ==
    ASSUME NoteInv, NEW d \in Directs, Call(d)
    PROVE  NoteInv'
<1> DEFINE r == [of |-> d, k |-> 1]
<1> USE NotificationAssumption DEF Call, queueVars
<1>a. NoteTypeOK /\ RunsInOrder
  BY DEF NoteInv
<1>b. r \in Runs /\ email[r] = "idle" /\ \A e \in Events : r \notin RunsOf(e)
  BY RunFields
<1>s. /\ email' \in [Runs -> {"idle", "creating", "sending", "marking", "failing", "done",
                                   "rejected", "dead"}]
      /\ inApp' \in [Runs -> {"idle", "creating", "pushing", "done", "rejected", "dead"}]
      /\ email'[r] = "creating" /\ inApp'[r] = "creating"
      /\ \A s \in Runs \ {r} : email'[s] = email[s] /\ inApp'[s] = inApp[s]
      /\ EmailSteps' /\ InAppSteps' /\ CountsAgree'
      /\ RejectedRuns' = RejectedRuns
  <2>1. Starts(r)
    OBVIOUS
  <2> HIDE DEF r
  <2>2. QED BY <1>b, <2>1, StartsInv
<1> HIDE DEF r
<1>u. UNCHANGED <<emailRow, mailed, unsure, inAppRow, request, crossed, badge, stale, noteFaults>>
  BY DEF Starts, clientVars
<1>1. NoteTypeOK'
  BY <1>a, <1>s, <1>u DEF NoteTypeOK
<1>2. RunsInOrder'
  <2>1. ASSUME NEW e \in Events, NEW s \in RunsOf(e) PROVE email'[s] = email[s]
    BY <1>b, <1>s, RunFields
  <2>2. \A s \in Runs : email'[s] = "idle" <=> inApp'[s] = "idle"
    BY <1>a, <1>s DEF RunsInOrder
  <2>3. QED BY <2>1, <2>2, <1>a DEF RunsInOrder, RunsOf, Ended
<1>3. FailuresPaid'
  BY <1>s, <1>u DEF NoteInv, FailuresPaid, Ended, CurrentRun
<1>4. DoneInARun'
  <2>1. ASSUME NEW e \in Events, NEW s \in RunsOf(e) PROVE email'[s] = email[s] /\ inApp'[s] = inApp[s]
    BY <1>b, <1>s, RunFields
  <2>2. QED BY <2>1 DEF NoteInv, DoneInARun, RunsOf
<1>5. QED BY <1>1, <1>2, <1>3, <1>4, <1>s DEF NoteInv

-----------------------------------------------------------------------------
(* The mail half of a run.                                                 *)

\* A run at work gets on with its mail half; that it is rejected is paid for.
LEMMA EmailMoves ==
    ASSUME NoteInv, NEW r \in Runs, email[r] \in {"creating", "sending", "marking", "failing"},
           NEW to \in {"sending", "marking", "failing", "done", "rejected"}, EmailGoes(r, to),
           UNCHANGED <<queueVars, inAppVars, clientVars>>,
           noteFaults' \in {noteFaults, noteFaults + 1},
           to = "rejected" => noteFaults' = noteFaults + 1
    PROVE  /\ email' \in [Runs -> {"idle", "creating", "sending", "marking", "failing", "done",
                                   "rejected", "dead"}]
           /\ email'[r] = to
           /\ \A s \in Runs \ {r} : email'[s] = email[s] /\ Finished(s)' = Finished(s)
           /\ RunsInOrder' /\ FailuresPaid' /\ InAppSteps' /\ DoneInARun' /\ CountsAgree'
<1> USE NotificationAssumption DEF queueVars, inAppVars, clientVars
<1>a. NoteTypeOK /\ RunsInOrder
  BY DEF NoteInv
<1>1. /\ email' \in [Runs -> {"idle", "creating", "sending", "marking", "failing", "done",
                                   "rejected", "dead"}]
      /\ email'[r] = to
      /\ \A s \in Runs \ {r} : email'[s] = email[s]
  BY <1>a DEF EmailGoes, NoteTypeOK
<1>2. \A s \in Runs \ {r} : Finished(s)' = Finished(s)
  BY <1>1 DEF Finished
<1>3. RunsInOrder'
  <2>1. \A s \in Runs : email'[s] = "idle" <=> email[s] = "idle"
    BY <1>1
  <2>2. QED BY <2>1, <1>a, RunFields DEF RunsInOrder, RunsOf, Ended
<1>4. FailuresPaid'
  <2>1. ASSUME NEW e \in Events
        PROVE  Ended(e) + (IF CurrentRun(e) \in RejectedRuns' THEN 1 ELSE 0) <= noteFaults'
    <3>1. /\ Ended(e) + (IF CurrentRun(e) \in RejectedRuns THEN 1 ELSE 0) <= noteFaults
          /\ Ended(e) \in Nat /\ noteFaults \in Nat
      BY <1>a, CurrentRunFacts DEF NoteInv, FailuresPaid, NoteTypeOK
    <3>2. to # "rejected" => RejectedRuns' = RejectedRuns
      BY <1>1 DEF RejectedRuns
    <3>3. CASE to = "rejected"
      BY <3>1, <3>3
    <3>4. CASE to # "rejected"
      BY <3>1, <3>2, <3>4
    <3>5. QED BY <3>3, <3>4
  <2>2. QED BY <2>1 DEF FailuresPaid, Ended, CurrentRun
<1>5. InAppSteps'
  BY DEF NoteInv, InAppSteps
<1>6. DoneInARun'
  <2>1. ASSUME NEW e \in Events, NEW s \in RunsOf(e), email[s] = "done", inApp[s] = "done"
        PROVE  email'[s] = "done"
    BY <2>1, <1>1, RunFields
  <2>2. QED BY <2>1 DEF NoteInv, DoneInARun, RunsOf
<1>7. CountsAgree'
  BY CountsKept DEF NoteInv, PushingRuns
<1>8. QED BY <1>1, <1>2, <1>3, <1>4, <1>5, <1>6, <1>7

\* What is left to show of each step of the mail half.
LEMMA EmailHalfInv ==
    ASSUME NoteInv, NEW r \in Runs, EmailHalf(r)
    PROVE  NoteInv'
<1> USE NotificationAssumption DEF EmailHalf
<1>a. NoteTypeOK /\ EmailSteps /\ noteFaults \in 0..MaxNoteFaults
  BY DEF NoteInv, NoteTypeOK
<1>m. ASSUME NEW to \in {"sending", "marking", "failing", "done", "rejected"}, EmailGoes(r, to),
             email[r] \in {"creating", "sending", "marking", "failing"},
             noteFaults' \in {noteFaults, noteFaults + 1},
             to = "rejected" => noteFaults' = noteFaults + 1,
             noteFaults' \in 0..MaxNoteFaults,
             emailRow' \in [Runs -> {"NONE", "PENDING", "SENT", "FAILED"}],
             mailed' \subseteq Runs, unsure' \subseteq Runs,
             \A s \in Runs \ {r} : /\ emailRow'[s] = emailRow[s]
                                   /\ s \in mailed' <=> s \in mailed
                                   /\ s \in unsure' <=> s \in unsure,
             to = "sending" => r \notin mailed' /\ emailRow'[r] = "PENDING",
             to = "marking" => r \in mailed' /\ emailRow'[r] = "PENDING",
             to = "failing" => /\ emailRow'[r] \in {"PENDING", "SENT"}
                               /\ emailRow'[r] = "SENT" => r \in mailed'
                               /\ r \in mailed' => r \in unsure',
             to = "done" => emailRow'[r] \in {"SENT", "FAILED"},
             to \in {"done", "rejected"} /\ r \notin unsure' =>
                (r \in mailed' <=> emailRow'[r] = "SENT"),
             r \in mailed' => emailRow'[r] # "NONE"
      PROVE  NoteInv'
  <2>1. /\ email' \in [Runs -> {"idle", "creating", "sending", "marking", "failing", "done",
                                   "rejected", "dead"}]
        /\ email'[r] = to
        /\ \A s \in Runs \ {r} : email'[s] = email[s] /\ Finished(s)' = Finished(s)
        /\ RunsInOrder' /\ FailuresPaid' /\ InAppSteps' /\ DoneInARun' /\ CountsAgree'
    BY <1>m, EmailMoves
  <2>2. NoteTypeOK'
    BY <2>1, <1>m, <1>a DEF NoteTypeOK, queueVars, inAppVars, clientVars
  <2>3. Finished(r)' <=> to \in {"done", "rejected"}
    BY <2>1, <1>m DEF Finished
  <2>4. EmailSteps'
    <3>1. ASSUME NEW s \in Runs
          PROVE  /\ email'[s] \in {"idle", "creating"} => s \notin mailed' /\ emailRow'[s] = "NONE"
                 /\ email'[s] = "sending" => s \notin mailed' /\ emailRow'[s] = "PENDING"
                 /\ email'[s] = "marking" => s \in mailed' /\ emailRow'[s] = "PENDING"
                 /\ email'[s] = "failing" => /\ emailRow'[s] \in {"PENDING", "SENT"}
                                             /\ emailRow'[s] = "SENT" => s \in mailed'
                                             /\ s \in mailed' => s \in unsure'
                 /\ email'[s] = "done" => emailRow'[s] \in {"SENT", "FAILED"}
                 /\ Finished(s)' /\ s \notin unsure' => (s \in mailed' <=> emailRow'[s] = "SENT")
                 /\ s \in mailed' => emailRow'[s] # "NONE"
      <4>1. CASE s = r
        BY <4>1, <2>1, <2>3, <1>m
      <4>2. CASE s # r
        BY <4>2, <2>1, <1>m, <1>a DEF EmailSteps
      <4>3. QED BY <4>1, <4>2
    <3>2. QED BY <3>1 DEF EmailSteps
  <2>5. QED BY <2>1, <2>2, <2>4 DEF NoteInv
<1>n. NoteFault => noteFaults' = noteFaults + 1 /\ noteFaults' \in 0..MaxNoteFaults
  BY <1>a DEF NoteFault
<1> USE DEF NoteTypeOK, EmailSteps
<1>1. CASE CreateEmailRecord(r)
  BY <1>1, <1>a, <1>m DEF CreateEmailRecord
<1>2. CASE SendMail(r)
  BY <1>2, <1>a, <1>m DEF SendMail
<1>3. CASE MailRefused(r)
  BY <1>3, <1>a, <1>m DEF MailRefused
<1>4. CASE MailUnanswered(r)
  BY <1>4, <1>a, <1>m, <1>n DEF MailUnanswered
<1>5. CASE MarkEmailSent(r)
  BY <1>5, <1>a, <1>m DEF MarkEmailSent
<1>6. CASE MarkEmailSentFails(r)
  BY <1>6, <1>a, <1>m, <1>n DEF MarkEmailSentFails, StatementLost
<1>7. CASE MarkEmailFailed(r)
  BY <1>7, <1>a, <1>m DEF MarkEmailFailed
<1>8. CASE EmailRejected(r)
  BY <1>8, <1>a, <1>m, <1>n DEF EmailRejected, StatementLost
<1>9. QED BY <1>1, <1>2, <1>3, <1>4, <1>5, <1>6, <1>7, <1>8

-----------------------------------------------------------------------------
(* The in-app half, and the user's clients.                                *)

\* A run at work gets on with its in-app half.
LEMMA InAppMoves ==
    ASSUME NoteInv, NEW r \in Runs, inApp[r] \in {"creating", "pushing"},
           NEW to \in {"pushing", "done", "rejected"}, inApp' = [inApp EXCEPT ![r] = to],
           UNCHANGED <<queueVars, emailVars>>,
           noteFaults' \in {noteFaults, noteFaults + 1},
           to = "rejected" => noteFaults' = noteFaults + 1
    PROVE  /\ inApp' \in [Runs -> {"idle", "creating", "pushing", "done", "rejected", "dead"}]
           /\ inApp'[r] = to
           /\ \A s \in Runs \ {r} : inApp'[s] = inApp[s]
           /\ RunsInOrder' /\ FailuresPaid' /\ EmailSteps' /\ DoneInARun'
<1> USE NotificationAssumption DEF queueVars, emailVars
<1>a. NoteTypeOK /\ RunsInOrder
  BY DEF NoteInv
<1>1. /\ inApp' \in [Runs -> {"idle", "creating", "pushing", "done", "rejected", "dead"}]
      /\ inApp'[r] = to
      /\ \A s \in Runs \ {r} : inApp'[s] = inApp[s]
  BY <1>a DEF NoteTypeOK
<1>2. RunsInOrder'
  <2>1. \A s \in Runs : inApp'[s] = "idle" <=> inApp[s] = "idle"
    BY <1>1
  <2>2. QED BY <2>1, <1>a, RunFields DEF RunsInOrder, RunsOf, Ended
<1>3. FailuresPaid'
  <2>1. ASSUME NEW e \in Events
        PROVE  Ended(e) + (IF CurrentRun(e) \in RejectedRuns' THEN 1 ELSE 0) <= noteFaults'
    <3>1. /\ Ended(e) + (IF CurrentRun(e) \in RejectedRuns THEN 1 ELSE 0) <= noteFaults
          /\ Ended(e) \in Nat /\ noteFaults \in Nat
      BY <1>a, CurrentRunFacts DEF NoteInv, FailuresPaid, NoteTypeOK
    <3>2. to # "rejected" => RejectedRuns' = RejectedRuns
      BY <1>1 DEF RejectedRuns
    <3>3. CASE to = "rejected"
      BY <3>1, <3>3
    <3>4. CASE to # "rejected"
      BY <3>1, <3>2, <3>4
    <3>5. QED BY <3>3, <3>4
  <2>2. QED BY <2>1 DEF FailuresPaid, Ended, CurrentRun
<1>4. EmailSteps'
  BY DEF NoteInv, EmailSteps, Finished
<1>5. DoneInARun'
  <2>1. ASSUME NEW e \in Events, NEW s \in RunsOf(e), email[s] = "done", inApp[s] = "done"
        PROVE  inApp'[s] = "done"
    BY <2>1, <1>1, RunFields
  <2>2. QED BY <2>1 DEF NoteInv, DoneInARun, RunsOf
<1>6. QED BY <1>1, <1>2, <1>3, <1>4, <1>5

\* What a change of the rows makes of the counts that have been read.
LEMMA RowsRunIn ==
    ASSUME NoteTypeOK, CountsAgree, RunsInto, NEW T \in SUBSET Tabs,
           \A u \in Tabs \ T : request'[u] = request[u]
    PROVE  /\ crossed' \subseteq Tabs
           /\ \A u \in Counts' \ crossed' :
                u \notin T => request'[u].count = Cardinality(UnreadInApp')
<1>1. crossed' \subseteq Tabs
  BY DEF RunsInto, NoteTypeOK, Counts
<1>2. ASSUME NEW u \in Counts' \ crossed', u \notin T
      PROVE  request'[u].count = Cardinality(UnreadInApp')
  <2>1. u \in Counts /\ request'[u] = request[u]
    BY <1>2 DEF Counts
  <2>2. UnreadInApp' = UnreadInApp /\ u \notin crossed
    BY <1>2, <2>1 DEF RunsInto
  <2>3. QED BY <2>1, <2>2 DEF CountsAgree, CountsFresh
<1>3. QED BY <1>1, <1>2

\* And of the badges, if nobody is told.
LEMMA NobodyToldKeeps ==
    ASSUME NoteTypeOK, CountsAgree, NobodyTold, UNCHANGED <<request, badge>>,
           PushingRuns' = PushingRuns
    PROVE  stale' \subseteq Tabs /\ BadgesAgree'
<1>1. CASE UnreadInApp' = UnreadInApp
  BY <1>1 DEF NobodyTold, CountsAgree, BadgesAgree, NoteTypeOK, Marking
<1>2. CASE UnreadInApp' # UnreadInApp
  BY <1>2 DEF NobodyTold, BadgesAgree
<1>3. QED BY <1>1, <1>2

\* A notification that is created is pushed later: the badges lack it.
LEMMA CreateInAppInv ==
    ASSUME NoteInv, NEW r \in Runs, CreateInApp(r), UNCHANGED <<queueVars, emailVars>>
    PROVE  NoteInv'
<1> USE NotificationAssumption DEF CreateInApp, queueVars, emailVars
<1>a. NoteTypeOK /\ RunsInOrder /\ CountsAgree /\ inAppRow[r] = "NONE"
  BY DEF NoteInv, InAppSteps
<1>1. /\ inApp' \in [Runs -> {"idle", "creating", "pushing", "done", "rejected", "dead"}]
      /\ inApp'[r] = "pushing"
      /\ \A s \in Runs \ {r} : inApp'[s] = inApp[s]
      /\ RunsInOrder' /\ FailuresPaid' /\ EmailSteps' /\ DoneInARun'
  <2>1. "pushing" \in {"pushing", "done", "rejected"} /\ inApp[r] \in {"creating", "pushing"}
    OBVIOUS
  <2>2. QED BY <1>a, <2>1, InAppMoves DEF NoteTypeOK
<1>2. /\ inAppRow' \in [Runs -> {"NONE", "UNREAD", "READ"}]
      /\ inAppRow'[r] = "UNREAD"
      /\ \A s \in Runs \ {r} : inAppRow'[s] = inAppRow[s]
  BY <1>a DEF NoteTypeOK
<1>3. /\ crossed' \subseteq Tabs
      /\ \A u \in Counts' \ crossed' : request'[u].count = Cardinality(UnreadInApp')
  <2>1. {} \in SUBSET Tabs /\ \A u \in Tabs \ {} : request'[u] = request[u]
    OBVIOUS
  <2>2. QED BY <1>a, <2>1, RowsRunIn
<1>4. NoteTypeOK'
  BY <1>a, <1>1, <1>2, <1>3 DEF NoteTypeOK
<1>5. InAppSteps'
  BY <1>1, <1>2 DEF NoteInv, InAppSteps
<1>6. CountsAgree'
  <2>1. /\ UnreadInApp' = UnreadInApp \cup {r} /\ r \notin UnreadInApp
        /\ PushingRuns' = PushingRuns \cup {r} /\ r \notin PushingRuns
    BY <1>a, <1>1, <1>2 DEF UnreadInApp, PushingRuns
  <2>2. IsFiniteSet(UnreadInApp) /\ IsFiniteSet(PushingRuns)
    BY <1>a DEF CountsAgree
  <2>3. /\ IsFiniteSet(UnreadInApp') /\ IsFiniteSet(PushingRuns')
        /\ Cardinality(UnreadInApp') = Cardinality(UnreadInApp) + 1
        /\ Cardinality(PushingRuns') = Cardinality(PushingRuns) + 1
    BY <2>1, <2>2, FS_AddElement
  <2>4. ASSUME Marking' = {}, NEW t \in Tabs \ stale'
        PROVE  badge'[t] + Cardinality(PushingRuns') = Cardinality(UnreadInApp')
    <3>1. badge[t] + Cardinality(PushingRuns) = Cardinality(UnreadInApp)
      BY <2>4, <1>a DEF CountsAgree, BadgesAgree, Marking
    <3>2. /\ Cardinality(UnreadInApp) \in Nat /\ Cardinality(PushingRuns) \in Nat
          /\ badge[t] \in Nat /\ badge'[t] = badge[t]
      BY <2>2, <1>a, FS_CardinalityType DEF NoteTypeOK
    <3>3. QED BY <2>3, <3>1, <3>2
  <2>5. QED BY <1>3, <2>3, <2>4 DEF CountsAgree, CountsFresh, BadgesAgree
<1>7. QED BY <1>1, <1>4, <1>5, <1>6 DEF NoteInv

\* A push brings every badge nearer to the rows.
LEMMA PushToUserInv ==
    ASSUME NoteInv, NEW r \in Runs, PushToUser(r), UNCHANGED <<queueVars, emailVars>>
    PROVE  NoteInv'
<1> USE NotificationAssumption DEF PushToUser, queueVars, emailVars
<1>a. NoteTypeOK /\ RunsInOrder /\ CountsAgree /\ inAppRow[r] # "NONE"
  BY DEF NoteInv, InAppSteps
<1>1. /\ inApp' \in [Runs -> {"idle", "creating", "pushing", "done", "rejected", "dead"}]
      /\ inApp'[r] = "done"
      /\ \A s \in Runs \ {r} : inApp'[s] = inApp[s]
      /\ RunsInOrder' /\ FailuresPaid' /\ EmailSteps' /\ DoneInARun'
  <2>1. "done" \in {"pushing", "done", "rejected"} /\ inApp[r] \in {"creating", "pushing"}
    OBVIOUS
  <2>2. QED BY <1>a, <2>1, InAppMoves DEF NoteTypeOK
<1>2. badge' \in [Tabs -> Nat] /\ \A t \in Tabs : badge'[t] = badge[t] + 1
  BY <1>a DEF NoteTypeOK
<1>3. NoteTypeOK'
  BY <1>a, <1>1, <1>2 DEF NoteTypeOK
<1>4. InAppSteps'
  BY <1>1, <1>a DEF NoteInv, InAppSteps
<1>5. CountsAgree'
  <2>1. /\ UnreadInApp' = UnreadInApp
        /\ PushingRuns' = PushingRuns \ {r} /\ r \in PushingRuns
        /\ Counts' = Counts /\ Marking' = Marking
    BY <1>a, <1>1 DEF UnreadInApp, PushingRuns, Counts, Marking
  <2>2. IsFiniteSet(UnreadInApp) /\ IsFiniteSet(PushingRuns)
    BY <1>a DEF CountsAgree
  <2>3. /\ IsFiniteSet(PushingRuns')
        /\ Cardinality(PushingRuns') = Cardinality(PushingRuns) - 1
    BY <2>1, <2>2, FS_RemoveElement
  <2>4. ASSUME Marking' = {}, NEW t \in Tabs \ stale'
        PROVE  badge'[t] + Cardinality(PushingRuns') = Cardinality(UnreadInApp')
    <3>1. badge[t] + Cardinality(PushingRuns) = Cardinality(UnreadInApp)
      BY <2>1, <2>4, <1>a DEF CountsAgree, BadgesAgree
    <3>2. /\ Cardinality(UnreadInApp) \in Nat /\ Cardinality(PushingRuns) \in Nat
          /\ badge[t] \in Nat
      BY <2>2, <1>a, FS_CardinalityType DEF NoteTypeOK
    <3>3. QED BY <2>1, <2>3, <3>1, <3>2, <1>2
  <2>5. CountsFresh'
    BY <2>1, <1>a DEF CountsAgree, CountsFresh
  <2>6. QED BY <2>1, <2>2, <2>3, <2>4, <2>5 DEF CountsAgree, BadgesAgree
<1>6. QED BY <1>1, <1>3, <1>4, <1>5 DEF NoteInv

\* The half of a run whose row was not created, or seems not to be, is over.
LEMMA InAppRejectedInv ==
    ASSUME NoteInv, NEW r \in Runs, InAppRejected(r), UNCHANGED <<queueVars, emailVars>>
    PROVE  NoteInv'
<1> USE NotificationAssumption DEF InAppRejected, queueVars, emailVars
<1>a. NoteTypeOK /\ RunsInOrder /\ CountsAgree
  BY DEF NoteInv
<1>n. noteFaults' = noteFaults + 1 /\ noteFaults' \in 0..MaxNoteFaults
  BY <1>a DEF NoteFault, NoteTypeOK
<1>1. /\ inApp' \in [Runs -> {"idle", "creating", "pushing", "done", "rejected", "dead"}]
      /\ inApp'[r] = "rejected"
      /\ \A s \in Runs \ {r} : inApp'[s] = inApp[s]
      /\ RunsInOrder' /\ FailuresPaid' /\ EmailSteps' /\ DoneInARun'
  <2>1. "rejected" \in {"pushing", "done", "rejected"} /\ inApp[r] \in {"creating", "pushing"}
    OBVIOUS
  <2>2. QED BY <1>n, <2>1, InAppMoves
<1>2. /\ inAppRow' \in [Runs -> {"NONE", "UNREAD", "READ"}]
      /\ \A s \in Runs \ {r} : inAppRow'[s] = inAppRow[s]
  BY <1>a DEF NoteTypeOK
<1>3. PushingRuns' = PushingRuns
  BY <1>1 DEF PushingRuns
<1>4. /\ crossed' \subseteq Tabs
      /\ \A u \in Counts' \ crossed' : request'[u].count = Cardinality(UnreadInApp')
  <2>1. {} \in SUBSET Tabs /\ \A u \in Tabs \ {} : request'[u] = request[u]
    OBVIOUS
  <2>2. QED BY <1>a, <2>1, RowsRunIn
<1>5. stale' \subseteq Tabs /\ BadgesAgree'
  BY <1>a, <1>3, NobodyToldKeeps
<1>6. NoteTypeOK'
  BY <1>a, <1>1, <1>2, <1>4, <1>5, <1>n DEF NoteTypeOK
<1>7. InAppSteps'
  BY <1>1, <1>2 DEF NoteInv, InAppSteps
<1>8. CountsAgree'
  <2>1. UnreadInApp' \subseteq UnreadInApp \cup {r}
    BY <1>2 DEF UnreadInApp
  <2>2. IsFiniteSet(UnreadInApp \cup {r})
    BY <1>a, FS_AddElement DEF CountsAgree
  <2>3. IsFiniteSet(UnreadInApp')
    BY <2>1, <2>2, FS_Subset
  <2>4. QED BY <2>3, <1>3, <1>4, <1>5, <1>a DEF CountsAgree, CountsFresh
<1>9. QED BY <1>1, <1>6, <1>7, <1>8 DEF NoteInv

\* The clients touch neither queue nor runs, and no row comes or goes.
LEMMA ClientKeeps ==
    ASSUME NoteInv, UNCHANGED <<queueVars, emailVars, noteFaults, inApp>>,
           \A r \in Runs : inAppRow'[r] = "NONE" <=> inAppRow[r] = "NONE"
    PROVE  /\ RunsInOrder' /\ FailuresPaid' /\ EmailSteps' /\ InAppSteps' /\ DoneInARun'
           /\ PushingRuns' = PushingRuns
<1> USE DEF queueVars, emailVars
<1>1. RunsInOrder'
  BY DEF NoteInv, RunsInOrder, RunsOf, Ended
<1>2. FailuresPaid'
  BY DEF NoteInv, FailuresPaid, Ended, CurrentRun, RejectedRuns
<1>3. EmailSteps' /\ InAppSteps'
  BY DEF NoteInv, EmailSteps, InAppSteps, Finished
<1>4. DoneInARun'
  BY DEF NoteInv, DoneInARun, RunsOf
<1>5. QED BY <1>1, <1>2, <1>3, <1>4 DEF PushingRuns

\* A request comes in, goes on or ends.
LEMMA RequestMoves ==
    ASSUME NoteTypeOK, NEW t \in Tabs, NEW q \in Requests, request' = [request EXCEPT ![t] = q]
    PROVE  /\ request' \in [Tabs -> Requests]
           /\ request'[t] = q /\ \A u \in Tabs \ {t} : request'[u] = request[u]
           /\ Counts' = IF q.pc = "telling" THEN Counts \cup {t} ELSE Counts \ {t}
           /\ Marking' = IF q.pc # "idle" /\ q.marked THEN Marking \cup {t} ELSE Marking \ {t}
<1>1. /\ request' \in [Tabs -> Requests]
      /\ request'[t] = q /\ \A u \in Tabs \ {t} : request'[u] = request[u]
  BY DEF NoteTypeOK
<1>2. Counts' = IF q.pc = "telling" THEN Counts \cup {t} ELSE Counts \ {t}
  BY <1>1 DEF Counts
<1>3. Marking' = IF q.pc # "idle" /\ q.marked THEN Marking \cup {t} ELSE Marking \ {t}
  BY <1>1 DEF Marking
<1>4. QED BY <1>1, <1>2, <1>3

\* A row that is marked read is unread no more, nor is any after all are marked.
LEMMA RowsMarked ==
    ASSUME NoteTypeOK, CountsAgree, MarkAsRead \/ MarkAllAsRead
    PROVE  /\ inAppRow' \in [Runs -> {"NONE", "UNREAD", "READ"}]
           /\ \A r \in Runs : inAppRow'[r] = "NONE" <=> inAppRow[r] = "NONE"
           /\ IsFiniteSet(UnreadInApp')
           /\ MarkAllAsRead => UnreadInApp' = {}
<1>1. /\ inAppRow' \in [Runs -> {"NONE", "UNREAD", "READ"}]
      /\ \A r \in Runs : inAppRow'[r] = "NONE" <=> inAppRow[r] = "NONE"
      /\ UnreadInApp' \subseteq UnreadInApp
  <2>1. CASE MarkAsRead
    <3>1. PICK r \in Runs : inAppRow[r] # "NONE" /\ inAppRow' = [inAppRow EXCEPT ![r] = "READ"]
      BY <2>1 DEF MarkAsRead
    <3>2. QED BY <3>1 DEF NoteTypeOK, UnreadInApp
  <2>2. CASE MarkAllAsRead
    BY <2>2 DEF MarkAllAsRead, NoteTypeOK, UnreadInApp
  <2>3. QED BY <2>1, <2>2
<1>2. IsFiniteSet(UnreadInApp')
  BY <1>1, FS_Subset DEF CountsAgree
<1>3. MarkAllAsRead => UnreadInApp' = {}
  BY DEF MarkAllAsRead, UnreadInApp
<1>4. QED BY <1>1, <1>2, <1>3

\* A tab marks one row, and the count is to follow.
LEMMA HandleMarkReadInv ==
    ASSUME NoteInv, NEW t \in Tabs, HandleMarkRead(t),
           UNCHANGED <<queueVars, emailVars, noteFaults>>
    PROVE  NoteInv'
<1> USE NotificationAssumption DEF HandleMarkRead
<1> DEFINE q == [pc |-> "counting", marked |-> TRUE]
<1>a. NoteTypeOK /\ CountsAgree
  BY DEF NoteInv
<1>1. /\ inAppRow' \in [Runs -> {"NONE", "UNREAD", "READ"}]
      /\ \A r \in Runs : inAppRow'[r] = "NONE" <=> inAppRow[r] = "NONE"
      /\ IsFiniteSet(UnreadInApp')
  BY <1>a, RowsMarked
<1>2. /\ RunsInOrder' /\ FailuresPaid' /\ EmailSteps' /\ InAppSteps' /\ DoneInARun'
      /\ PushingRuns' = PushingRuns
  BY <1>1, ClientKeeps
<1>3. q \in Requests /\ request' = [request EXCEPT ![t] = q]
  BY DEF Requests
<1>4. q.pc # "telling" /\ q.pc # "idle" /\ q.marked
  OBVIOUS
<1> HIDE DEF q
<1>5. /\ request' \in [Tabs -> Requests] /\ \A u \in Tabs \ {t} : request'[u] = request[u]
      /\ t \notin Counts' /\ t \in Marking'
  <2>1. /\ request' \in [Tabs -> Requests]
        /\ request'[t] = q /\ \A u \in Tabs \ {t} : request'[u] = request[u]
        /\ Counts' = IF q.pc = "telling" THEN Counts \cup {t} ELSE Counts \ {t}
        /\ Marking' = IF q.pc # "idle" /\ q.marked THEN Marking \cup {t} ELSE Marking \ {t}
    BY <1>a, <1>3, RequestMoves
  <2>2. QED BY <2>1, <1>4
<1>6. /\ crossed' \subseteq Tabs
      /\ \A u \in Counts' \ crossed' : request'[u].count = Cardinality(UnreadInApp')
  <2>1. {t} \in SUBSET Tabs /\ \A u \in Tabs \ {t} : request'[u] = request[u]
    BY <1>5
  <2>2. QED BY <1>a, <1>5, <2>1, RowsRunIn
<1>7. NoteTypeOK'
  BY <1>a, <1>1, <1>5, <1>6 DEF NoteTypeOK, queueVars, emailVars
<1>8. CountsAgree'
  BY <1>a, <1>1, <1>2, <1>5, <1>6 DEF CountsAgree, CountsFresh, BadgesAgree
<1>9. QED BY <1>2, <1>7, <1>8 DEF NoteInv

\* A tab marks all rows: the count that is told is none.
LEMMA HandleMarkAllReadInv ==
    ASSUME NoteInv, NEW t \in Tabs, HandleMarkAllRead(t),
           UNCHANGED <<queueVars, emailVars, noteFaults>>
    PROVE  NoteInv'
<1> USE NotificationAssumption DEF HandleMarkAllRead
<1> DEFINE q == [pc |-> "telling", marked |-> TRUE, count |-> 0]
<1>a. NoteTypeOK /\ CountsAgree
  BY DEF NoteInv
<1>1. /\ inAppRow' \in [Runs -> {"NONE", "UNREAD", "READ"}]
      /\ \A r \in Runs : inAppRow'[r] = "NONE" <=> inAppRow[r] = "NONE"
      /\ IsFiniteSet(UnreadInApp') /\ UnreadInApp' = {} /\ Cardinality(UnreadInApp') = 0
  BY <1>a, RowsMarked, FS_EmptySet
<1>2. /\ RunsInOrder' /\ FailuresPaid' /\ EmailSteps' /\ InAppSteps' /\ DoneInARun'
      /\ PushingRuns' = PushingRuns
  BY <1>1, ClientKeeps
<1>3. q \in Requests /\ request' = [request EXCEPT ![t] = q]
  BY DEF Requests
<1>4. q.pc = "telling" /\ q.pc # "idle" /\ q.marked /\ q.count = 0
  OBVIOUS
<1> HIDE DEF q
<1>5. /\ request' \in [Tabs -> Requests] /\ \A u \in Tabs \ {t} : request'[u] = request[u]
      /\ request'[t].count = 0 /\ t \in Marking'
  <2>1. /\ request' \in [Tabs -> Requests]
        /\ request'[t] = q /\ \A u \in Tabs \ {t} : request'[u] = request[u]
        /\ Counts' = IF q.pc = "telling" THEN Counts \cup {t} ELSE Counts \ {t}
        /\ Marking' = IF q.pc # "idle" /\ q.marked THEN Marking \cup {t} ELSE Marking \ {t}
    BY <1>a, <1>3, RequestMoves
  <2>2. QED BY <2>1, <1>4
<1>6. /\ crossed' \subseteq Tabs
      /\ \A u \in Counts' \ crossed' : u # t => request'[u].count = Cardinality(UnreadInApp')
  <2>1. {t} \in SUBSET Tabs /\ \A u \in Tabs \ {t} : request'[u] = request[u]
    BY <1>5
  <2>2. QED BY <1>a, <2>1, RowsRunIn
<1>7. NoteTypeOK'
  BY <1>a, <1>1, <1>5, <1>6 DEF NoteTypeOK, queueVars, emailVars
<1>8. CountsFresh'
  BY <1>1, <1>5, <1>6 DEF CountsFresh
<1>9. CountsAgree'
  BY <1>a, <1>1, <1>2, <1>5, <1>8 DEF CountsAgree, BadgesAgree
<1>10. QED BY <1>2, <1>7, <1>9 DEF NoteInv

\* A tab asks for the count.
LEMMA HandleGetUnreadCountInv ==
    ASSUME NoteInv, NEW t \in Tabs, HandleGetUnreadCount(t),
           UNCHANGED <<queueVars, emailVars, noteFaults>>
    PROVE  NoteInv'
<1> USE NotificationAssumption DEF HandleGetUnreadCount, inAppVars
<1> DEFINE q == [pc |-> "counting", marked |-> FALSE]
<1>a. NoteTypeOK /\ CountsAgree
  BY DEF NoteInv
<1>2. /\ RunsInOrder' /\ FailuresPaid' /\ EmailSteps' /\ InAppSteps' /\ DoneInARun'
      /\ PushingRuns' = PushingRuns
  BY ClientKeeps
<1>3. q \in Requests /\ request' = [request EXCEPT ![t] = q]
  BY DEF Requests
<1>4. q.pc # "telling" /\ ~q.marked /\ t \notin Marking
  BY DEF Marking
<1> HIDE DEF q
<1>5. /\ request' \in [Tabs -> Requests] /\ \A u \in Tabs \ {t} : request'[u] = request[u]
      /\ Counts' = Counts \ {t} /\ Marking' = Marking
  <2>1. /\ request' \in [Tabs -> Requests]
        /\ request'[t] = q /\ \A u \in Tabs \ {t} : request'[u] = request[u]
        /\ Counts' = IF q.pc = "telling" THEN Counts \cup {t} ELSE Counts \ {t}
        /\ Marking' = IF q.pc # "idle" /\ q.marked THEN Marking \cup {t} ELSE Marking \ {t}
    BY <1>a, <1>3, RequestMoves
  <2>2. QED BY <2>1, <1>4
<1>6. NoteTypeOK'
  BY <1>a, <1>5 DEF NoteTypeOK, queueVars, emailVars
<1>7. UnreadInApp' = UnreadInApp
  BY DEF UnreadInApp
<1>8. CountsFresh'
  BY <1>a, <1>5, <1>7 DEF CountsAgree, CountsFresh, Counts
<1>9. CountsAgree'
  BY <1>a, <1>2, <1>5, <1>7, <1>8 DEF CountsAgree, BadgesAgree
<1>10. QED BY <1>2, <1>6, <1>9 DEF NoteInv

\* The answer is the count of the rows.
LEMMA GetUnreadCountInv ==
    ASSUME NoteInv, NEW t \in Tabs, GetUnreadCount(t),
           UNCHANGED <<queueVars, emailVars, noteFaults>>
    PROVE  NoteInv'
<1> USE NotificationAssumption DEF GetUnreadCount, inAppVars
<1> DEFINE q == [pc |-> "telling", marked |-> request[t].marked, count |-> CountUnread]
<1>a. NoteTypeOK /\ CountsAgree
  BY DEF NoteInv
<1>2. /\ RunsInOrder' /\ FailuresPaid' /\ EmailSteps' /\ InAppSteps' /\ DoneInARun'
      /\ PushingRuns' = PushingRuns
  BY ClientKeeps
<1>c. CountUnread = Cardinality(UnreadInApp) /\ CountUnread \in Nat
  BY <1>a, FS_CardinalityType DEF CountUnread, CountsAgree
<1>d. request[t].marked \in BOOLEAN
  <2>1. request[t] \in Requests /\ request[t].pc = "counting"
    BY <1>a DEF NoteTypeOK
  <2>2. QED BY <2>1 DEF Requests, Idle
<1>3. q \in Requests /\ request' = [request EXCEPT ![t] = q]
  BY <1>c, <1>d DEF Requests
<1>4. /\ q.pc = "telling" /\ q.pc # "idle" /\ q.marked = request[t].marked
      /\ q.count = CountUnread /\ (t \in Marking <=> request[t].marked)
  BY DEF Marking
<1> HIDE DEF q
<1>5. /\ request' \in [Tabs -> Requests] /\ \A u \in Tabs \ {t} : request'[u] = request[u]
      /\ request'[t] = q /\ Marking' = Marking
  <2>1. /\ request' \in [Tabs -> Requests]
        /\ request'[t] = q /\ \A u \in Tabs \ {t} : request'[u] = request[u]
        /\ Counts' = IF q.pc = "telling" THEN Counts \cup {t} ELSE Counts \ {t}
        /\ Marking' = IF q.pc # "idle" /\ q.marked THEN Marking \cup {t} ELSE Marking \ {t}
    BY <1>a, <1>3, RequestMoves
  <2>2. QED BY <2>1, <1>4
<1>6. NoteTypeOK'
  BY <1>a, <1>5 DEF NoteTypeOK, queueVars, emailVars
<1>7. UnreadInApp' = UnreadInApp
  BY DEF UnreadInApp
<1>8. CountsFresh'
  BY <1>a, <1>c, <1>4, <1>5, <1>7 DEF CountsAgree, CountsFresh, Counts
<1>9. CountsAgree'
  BY <1>a, <1>2, <1>5, <1>7, <1>8 DEF CountsAgree, BadgesAgree
<1>10. QED BY <1>2, <1>6, <1>9 DEF NoteInv

\* The tabs that are told a count that no rows ran into show that of the rows,
\* if no push is to come.  After a mark that are all.
LEMMA TellCountInv ==
    ASSUME NoteInv, NEW t \in Tabs, TellCount(t),
           UNCHANGED <<queueVars, emailVars, noteFaults>>
    PROVE  NoteInv'
<1> USE NotificationAssumption DEF TellCount, inAppVars
<1>a. NoteTypeOK /\ CountsAgree
  BY DEF NoteInv
<1>2. /\ RunsInOrder' /\ FailuresPaid' /\ EmailSteps' /\ InAppSteps' /\ DoneInARun'
      /\ PushingRuns' = PushingRuns
  BY ClientKeeps
<1>3. Idle \in Requests /\ Idle.pc = "idle"
  BY DEF Requests, Idle
<1>5. /\ request' \in [Tabs -> Requests] /\ \A u \in Tabs \ {t} : request'[u] = request[u]
      /\ Counts' = Counts \ {t} /\ Marking' = Marking \ {t}
  BY <1>a, <1>3, RequestMoves
<1>c. request[t].count \in Nat /\ t \in Counts /\ Told(t) \subseteq Tabs
  <2>1. request[t] \in Requests /\ request[t].pc = "telling"
    BY <1>a DEF NoteTypeOK
  <2>2. request[t].count \in Nat
    BY <2>1 DEF Requests, Idle
  <2>3. QED BY <2>1, <2>2 DEF Counts, Told
<1>b. /\ badge' \in [Tabs -> Nat]
      /\ \A u \in Tabs : badge'[u] = IF u \in Told(t) THEN request[t].count ELSE badge[u]
  BY <1>a, <1>c DEF NoteTypeOK
<1>6. NoteTypeOK'
  BY <1>a, <1>b, <1>c, <1>5 DEF NoteTypeOK, queueVars, emailVars
<1>7. UnreadInApp' = UnreadInApp
  BY DEF UnreadInApp
<1>8. CountsFresh'
  BY <1>a, <1>5, <1>7 DEF CountsAgree, CountsFresh, Counts
<1>9. BadgesAgree'
  <2> SUFFICES ASSUME Marking' = {}, NEW u \in Tabs \ stale'
               PROVE  badge'[u] + Cardinality(PushingRuns) = Cardinality(UnreadInApp)
    BY <1>2, <1>7 DEF BadgesAgree
  <2>1. CASE u \in Told(t)
    <3>1. t \in Counts \ crossed /\ ~Pushing
      BY <2>1, <1>c
    <3>2. PushingRuns = {} /\ Cardinality(PushingRuns) = 0
      BY <3>1, FS_EmptySet DEF Pushing, PushingRuns
    <3>3. request[t].count = Cardinality(UnreadInApp)
      BY <3>1, <1>a DEF CountsAgree, CountsFresh
    <3>4. QED BY <2>1, <3>2, <3>3, <1>b, <1>c
  <2>2. CASE u \notin Told(t)
    <3>1. ~request[t].marked /\ u \notin stale
      BY <2>2 DEF Told
    <3>2. Marking = {}
      BY <3>1, <1>5 DEF Marking
    <3>3. badge[u] + Cardinality(PushingRuns) = Cardinality(UnreadInApp)
      BY <3>1, <3>2, <1>a DEF CountsAgree, BadgesAgree
    <3>4. QED BY <2>2, <3>3, <1>b
  <2>3. QED BY <2>1, <2>2
<1>10. CountsAgree'
  BY <1>a, <1>2, <1>7, <1>8, <1>9 DEF CountsAgree
<1>11. QED BY <1>2, <1>6, <1>10 DEF NoteInv

\* A mark that nobody is told of makes all tabs stale.
LEMMA AnswerLostInv ==
    ASSUME NoteInv, NEW t \in Tabs, AnswerLost(t),
           UNCHANGED <<queueVars, emailVars, noteFaults>>
    PROVE  NoteInv'
<1> USE NotificationAssumption DEF AnswerLost, inAppVars
<1>a. NoteTypeOK /\ CountsAgree
  BY DEF NoteInv
<1>2. /\ RunsInOrder' /\ FailuresPaid' /\ EmailSteps' /\ InAppSteps' /\ DoneInARun'
      /\ PushingRuns' = PushingRuns
  BY ClientKeeps
<1>3. Idle \in Requests /\ Idle.pc = "idle"
  BY DEF Requests, Idle
<1>5. /\ request' \in [Tabs -> Requests] /\ \A u \in Tabs \ {t} : request'[u] = request[u]
      /\ Counts' = Counts \ {t} /\ Marking' = Marking \ {t}
  BY <1>a, <1>3, RequestMoves
<1>6. NoteTypeOK'
  BY <1>a, <1>5 DEF NoteTypeOK, queueVars, emailVars
<1>7. UnreadInApp' = UnreadInApp
  BY DEF UnreadInApp
<1>8. CountsFresh'
  BY <1>a, <1>5, <1>7 DEF CountsAgree, CountsFresh, Counts
<1>9. BadgesAgree'
  <2>1. CASE request[t].marked
    BY <2>1 DEF BadgesAgree
  <2>2. CASE ~request[t].marked
    <3>1. Marking' = Marking /\ stale' = stale
      BY <2>2, <1>5 DEF Marking
    <3>2. QED BY <3>1, <1>a, <1>2, <1>7 DEF CountsAgree, BadgesAgree
  <2>3. QED BY <2>1, <2>2
<1>10. CountsAgree'
  BY <1>a, <1>2, <1>7, <1>8, <1>9 DEF CountsAgree
<1>11. QED BY <1>2, <1>6, <1>10 DEF NoteInv

\* So does one by a request to the controller.
LEMMA ControllerMarksInv ==
    ASSUME NoteInv, ControllerMarks
    PROVE  NoteInv'
<1> USE NotificationAssumption DEF ControllerMarks
<1>a. NoteTypeOK /\ CountsAgree
  BY DEF NoteInv
<1>1. /\ inAppRow' \in [Runs -> {"NONE", "UNREAD", "READ"}]
      /\ \A r \in Runs : inAppRow'[r] = "NONE" <=> inAppRow[r] = "NONE"
      /\ IsFiniteSet(UnreadInApp')
  BY <1>a, RowsMarked
<1>2. /\ RunsInOrder' /\ FailuresPaid' /\ EmailSteps' /\ InAppSteps' /\ DoneInARun'
      /\ PushingRuns' = PushingRuns
  BY <1>1, ClientKeeps
<1>3. /\ crossed' \subseteq Tabs
      /\ \A u \in Counts' \ crossed' : request'[u].count = Cardinality(UnreadInApp')
  <2>1. {} \in SUBSET Tabs /\ \A u \in Tabs \ {} : request'[u] = request[u]
    OBVIOUS
  <2>2. QED BY <1>a, <2>1, RowsRunIn
<1>4. stale' \subseteq Tabs /\ BadgesAgree'
  BY <1>a, <1>2, NobodyToldKeeps
<1>5. NoteTypeOK'
  BY <1>a, <1>1, <1>3, <1>4 DEF NoteTypeOK, queueVars, emailVars
<1>6. CountsAgree'
  BY <1>a, <1>1, <1>2, <1>3, <1>4 DEF CountsAgree, CountsFresh
<1>7. QED BY <1>2, <1>5, <1>6 DEF NoteInv

-----------------------------------------------------------------------------
(* A crash, and the theorems.                                              *)

\* An active job that is moved back goes on to its next run, which has not been
\* started; one that was moved back before has failed.
LEMMA NoteDiesInv ==
    ASSUME NoteInv, NoteDies
    PROVE  NoteInv'
<1> USE NotificationAssumption DEF NoteDies
<1>a. NoteTypeOK /\ RunsInOrder /\ EmailSteps /\ InAppSteps /\ CountsAgree
  BY DEF NoteInv
<1>n. noteFaults' = noteFaults + 1 /\ noteFaults' \in 0..MaxNoteFaults /\ noteFaults \in Nat
  BY <1>a DEF NoteFault, NoteTypeOK
<1>s. /\ email' \in [Runs -> {"idle", "creating", "sending", "marking", "failing", "done",
                                   "rejected", "dead"}]
      /\ inApp' \in [Runs -> {"idle", "creating", "pushing", "done", "rejected", "dead"}]
      /\ \A r \in Runs : /\ email'[r] \in {"idle", "done", "rejected", "dead"}
                         /\ inApp'[r] \in {"idle", "done", "rejected", "dead"}
                         /\ email'[r] # "dead" => email'[r] = email[r]
                         /\ inApp'[r] # "dead" => inApp'[r] = inApp[r]
                         /\ email[r] \in {"idle", "done", "rejected"} => email'[r] = email[r]
                         /\ inApp[r] \in {"idle", "done", "rejected"} => inApp'[r] = inApp[r]
  BY <1>a DEF Stopped, NoteTypeOK
<1>q. \A e \in Events :
        /\ queue'[e] = IF queue[e] # "active" THEN queue[e]
                       ELSE IF restarted[e] THEN "failed" ELSE "waiting"
        /\ restarted'[e] = (restarted[e] \/ queue[e] = "active")
  OBVIOUS
<1>e. ASSUME NEW e \in Events
      PROVE  /\ Ended(e) \in Nat /\ Ended(e)' \in {Ended(e), Ended(e) + 1}
             /\ queue[e] # "active" => Ended(e)' = Ended(e) /\ queue'[e] = queue[e]
             /\ queue[e] = "active" => \/ queue'[e] = "failed" /\ Ended(e)' = Ended(e)
                                       \/ queue'[e] = "waiting" /\ Ended(e)' = Ended(e) + 1
  <2>1. /\ failures[e] \in 0..EventTries /\ restarted[e] \in BOOLEAN
        /\ failures' = failures
    BY <1>a DEF NoteTypeOK
  <2>2. CASE queue[e] # "active"
    <3>1. restarted'[e] = restarted[e] /\ queue'[e] = queue[e]
      BY <1>q, <2>1, <2>2
    <3>2. QED BY <3>1, <2>1, <2>2 DEF Ended
  <2>3. CASE queue[e] = "active" /\ restarted[e]
    <3>1. restarted'[e] /\ queue'[e] = "failed"
      BY <1>q, <2>3
    <3>2. QED BY <3>1, <2>1, <2>3 DEF Ended
  <2>4. CASE queue[e] = "active" /\ ~restarted[e]
    <3>1. restarted'[e] /\ queue'[e] = "waiting"
      BY <1>q, <2>4
    <3>2. QED BY <3>1, <2>1, <2>4 DEF Ended
  <2>5. QED BY <2>2, <2>3, <2>4
<1>u. UnreadInApp' = UnreadInApp /\ PushingRuns' = {} /\ Counts' = {}
  BY <1>s DEF UnreadInApp, PushingRuns, Counts, Idle
<1>1. NoteTypeOK'
  <2>1. request' \in [Tabs -> Requests]
    BY DEF Requests
  <2>2. /\ queue' \in [Events -> {"none", "waiting", "active", "done", "failed"}]
        /\ restarted' \in [Events -> BOOLEAN]
    BY <1>a DEF NoteTypeOK
  <2>3. unsure' \subseteq Runs
    BY <1>a DEF NoteTypeOK
  <2>4. QED BY <1>a, <1>n, <1>s, <2>1, <2>2, <2>3 DEF NoteTypeOK
<1>2. RunsInOrder'
  <2>1. ASSUME NEW e \in Events, NEW r \in RunsOf(e), email'[r] # "idle"
        PROVE  r.k <= Ended(e)' + (IF queue'[e] \in {"none", "waiting"} THEN 0 ELSE 1)
    <3>1. r \in Runs /\ r.k \in Nat
      BY RunFields
    <3>2. email[r] # "idle"
      BY <2>1, <3>1, <1>s
    <3>3. r.k <= Ended(e) + (IF queue[e] \in {"none", "waiting"} THEN 0 ELSE 1)
      BY <3>2, <1>a DEF RunsInOrder
    <3>4. CASE queue[e] = "active"
      BY <3>1, <3>3, <3>4, <1>e
    <3>5. CASE queue[e] # "active"
      BY <3>1, <3>3, <3>5, <1>e
    <3>6. QED BY <3>4, <3>5
  <2>2. ASSUME NEW e \in Events, queue'[e] \in {"none", "waiting", "active"}
        PROVE  failures[e] < EventTries
    BY <2>2, <1>a, <1>q DEF RunsInOrder
  <2>3. \A r \in Runs : email'[r] = "idle" <=> inApp'[r] = "idle"
    BY <1>a, <1>s DEF RunsInOrder
  <2>4. QED BY <2>1, <2>2, <2>3 DEF RunsInOrder, RunsOf
<1>3. FailuresPaid'
  <2>1. ASSUME NEW e \in Events
        PROVE  Ended(e)' + (IF CurrentRun(e)' \in RejectedRuns' THEN 1 ELSE 0) <= noteFaults + 1
    <3>0. /\ Ended(e) + (IF CurrentRun(e) \in RejectedRuns THEN 1 ELSE 0) <= noteFaults
          /\ Ended(e) \in Nat
      BY <1>e DEF NoteInv, FailuresPaid
    <3>1. CASE Ended(e)' = Ended(e)
      BY <3>0, <3>1, <1>n
    <3>2. CASE Ended(e)' # Ended(e)
      <4>1. queue'[e] = "waiting" /\ Ended(e)' = Ended(e) + 1
        BY <3>2, <1>e
      <4>2. CurrentRun(e)' \notin RejectedRuns'
        <5>1. CurrentRun(e)' = [of |-> e, k |-> Ended(e)' + 1] /\ CurrentRun(e)'.k = Ended(e)' + 1
          BY <1>a DEF CurrentRun, Ended, NoteTypeOK
        <5>2. SUFFICES ASSUME NEW r \in Runs, r = CurrentRun(e)' PROVE r \notin RejectedRuns'
          BY DEF RejectedRuns
        <5>3. r \in RunsOf(e) /\ r.k = Ended(e)' + 1
          BY <5>1, <5>2 DEF RunsOf
        <5>4. email[r] = "idle"
          <6>1. r.k = Ended(e) + 2
            BY <5>3, <4>1, <3>0
          <6>2. ~(r.k <= Ended(e) + (IF queue[e] \in {"none", "waiting"} THEN 0 ELSE 1))
            BY <6>1, <3>0
          <6>3. QED BY <5>3, <6>2, <1>a DEF RunsInOrder
        <5>5. inApp[r] = "idle"
          BY <5>4, <1>a DEF RunsInOrder
        <5>6. QED BY <5>4, <5>5, <1>s DEF RejectedRuns
      <4>3. QED BY <4>1, <4>2, <3>0, <1>n
    <3>3. QED BY <3>1, <3>2
  <2>2. QED BY <2>1, <1>n DEF FailuresPaid
<1>4. EmailSteps'
  <2>1. ASSUME NEW r \in Runs
        PROVE  /\ email'[r] = "idle" => r \notin mailed /\ emailRow[r] = "NONE"
               /\ email'[r] = "done" => emailRow[r] \in {"SENT", "FAILED"}
               /\ r \notin unsure' => (r \in mailed <=> emailRow[r] = "SENT")
               /\ r \in mailed => emailRow[r] # "NONE"
               /\ unsure \subseteq unsure'
    BY <1>a, <1>s DEF EmailSteps, NoteTypeOK, Finished
  <2>2. QED BY <2>1, <1>s DEF EmailSteps
<1>5. InAppSteps'
  BY <1>a, <1>s DEF InAppSteps
<1>6. DoneInARun'
  <2>1. ASSUME NEW e \in Events, queue'[e] = "done", handler[e] = "notification"
        PROVE  \E r \in RunsOf(e) : email'[r] = "done" /\ inApp'[r] = "done"
    <3>1. queue[e] = "done"
      BY <2>1, <1>q
    <3>2. PICK r \in RunsOf(e) : email[r] = "done" /\ inApp[r] = "done"
      BY <3>1, <2>1 DEF NoteInv, DoneInARun
    <3>3. QED BY <3>2, <1>s, RunFields
  <2>2. QED BY <2>1 DEF DoneInARun, RunsOf
<1>7. CountsAgree'
  <2>1. CountsFresh' /\ BadgesAgree'
    BY <1>u DEF CountsFresh, BadgesAgree
  <2>2. QED BY <2>1, <1>u, <1>a, FS_EmptySet DEF CountsAgree
<1>8. QED BY <1>1, <1>2, <1>3, <1>4, <1>5, <1>6, <1>7 DEF NoteInv

\* Every step of the notifications keeps their invariant.
LEMMA NoteNextInv ==
    ASSUME NoteInv, [NoteNext]_noteVars
    PROVE  NoteInv'
<1>1. ASSUME NEW e \in Events, Queue(e) PROVE NoteInv'
  BY <1>1, PublishInv, TakenByNotificationsInv, TakenByKycInv, CompleteInv, FailInv, KycFailsInv DEF Queue
<1>2. ASSUME NEW d \in Directs, Call(d) PROVE NoteInv'
  BY <1>2, CallInv
<1>3. ASSUME NEW r \in Runs, EmailHalf(r) \/ InAppHalf(r) PROVE NoteInv'
  BY <1>3, EmailHalfInv, CreateInAppInv, PushToUserInv, InAppRejectedInv DEF InAppHalf
<1>4. ASSUME NEW t \in Tabs, Client(t) PROVE NoteInv'
  BY <1>4, HandleMarkReadInv, HandleMarkAllReadInv, HandleGetUnreadCountInv, GetUnreadCountInv,
     TellCountInv, AnswerLostInv DEF Client
<1>5. ASSUME NoteDies \/ ControllerMarks PROVE NoteInv'
  BY <1>5, NoteDiesInv, ControllerMarksInv
<1>6. ASSUME UNCHANGED noteVars PROVE NoteInv'
  <2> USE <1>6 DEF noteVars
  <2>1. NoteTypeOK'
    BY DEF NoteInv, NoteTypeOK
  <2>2. RunsInOrder' /\ FailuresPaid' /\ DoneInARun'
    BY DEF NoteInv, RunsInOrder, FailuresPaid, DoneInARun, Ended, CurrentRun, RejectedRuns, RunsOf
  <2>3. EmailSteps' /\ InAppSteps'
    BY DEF NoteInv, EmailSteps, InAppSteps, Finished
  <2>4. CountsAgree'
    BY CountsKept DEF NoteInv, PushingRuns
  <2>5. QED BY <2>1, <2>2, <2>3, <2>4 DEF NoteInv
<1>7. QED BY <1>1, <1>2, <1>3, <1>4, <1>5, <1>6 DEF NoteNext

\* So does every step of the composition.
LEMMA NoteStep ==
    ASSUME NoteInv, [MessagingNext]_messagingVars
    PROVE  NoteInv'
<1>1. [NoteNext]_noteVars
  BY DEF MessagingNext, messagingVars
<1>2. QED BY <1>1, NoteNextInv

\* It holds in every state of the composition.
LEMMA NoteInvAlways == MessagingSpec => []NoteInv
<1>1. MessagingInit => NoteInv
  BY NoteInitInv DEF MessagingInit
<1>2. QED BY <1>1, NoteStep, PTL DEF MessagingSpec

\* The queue, the outbox, the runs, rows and requests keep their types, for any
\* number of mails, cron runs, jobs, calls and clients.
THEOREM MessagingTypeCorrect == MessagingSpec => []MessagingTypeOK
<1>1. MessagingInit => MailInv
  BY MailInitInv DEF MessagingInit
<1>2. MailInv /\ NoteInv => MessagingTypeOK
  BY DEF MailInv, NoteInv, MessagingTypeOK
<1>3. QED BY <1>1, <1>2, MailStep, NoteInvAlways, PTL DEF MessagingSpec

\* No mail leaves without its row, the row says SENT exactly when the mail left,
\* unless the program could not note it, and a job that the notification
\* processor has done has tried the mail and left an in-app row, unlike one that
\* the KYC processor took; for any number of events, attempts and failures.
THEOREM TrailIsTrueCorrect == MessagingSpec => []TrailIsTrue
<1>1. NoteInv => TrailIsTrue
  <2> SUFFICES ASSUME NoteInv PROVE TrailIsTrue
    OBVIOUS
  <2>1. ASSUME NEW e \in Events, queue[e] = "done", handler[e] = "notification"
        PROVE  \E r \in RunsOf(e) : emailRow[r] \in {"SENT", "FAILED"} /\ inAppRow[r] # "NONE"
    <3>1. PICK r \in RunsOf(e) : email[r] = "done" /\ inApp[r] = "done"
      BY <2>1 DEF NoteInv, DoneInARun
    <3>2. r \in Runs
      BY RunFields
    <3>3. QED BY <3>1, <3>2 DEF NoteInv, EmailSteps, InAppSteps
  <2>2. QED BY <2>1 DEF NoteInv, EmailSteps, TrailIsTrue
<1>2. QED BY <1>1, NoteInvAlways, PTL

\* Of a job, at most one run more has been started than failures of database,
\* network or process have happened.
LEMMA RunsArePaid ==
    ASSUME NoteInv, NEW e \in Events, NEW S \in SUBSET RunsOf(e),
           \A r \in S : email[r] # "idle"
    PROVE  Cardinality(S) <= 1 + noteFaults
<1> USE NotificationAssumption
<1> DEFINE n == 1 + noteFaults
           run(k) == [of |-> e, k |-> k]
           T == {run(k) : k \in 1..n}
<1>1. Ended(e) \in Nat /\ noteFaults \in Nat /\ Ended(e) <= noteFaults
  <2>1. Ended(e) \in Nat /\ noteFaults \in Nat
    BY CurrentRunFacts DEF NoteInv, NoteTypeOK
  <2>2. Ended(e) + (IF CurrentRun(e) \in RejectedRuns THEN 1 ELSE 0) <= noteFaults
    BY DEF NoteInv, FailuresPaid
  <2>3. QED BY <2>1, <2>2
<1>2. S \subseteq T
  <2>1. ASSUME NEW r \in S PROVE r \in T
    <3>1. r.k <= Ended(e) + (IF queue[e] \in {"none", "waiting"} THEN 0 ELSE 1)
      BY DEF NoteInv, RunsInOrder
    <3>2. r.k \in 1..(EventTries + 1) /\ r = run(r.k)
      BY RunFields
    <3>3. r.k \in 1..n
      BY <3>1, <3>2, <1>1
    <3>4. QED BY <3>2, <3>3
  <2>2. QED BY <2>1
<1>3. IsFiniteSet(T) /\ Cardinality(T) <= n
  <2>1. IsFiniteSet(1..n) /\ Cardinality(1..n) = n
    BY <1>1, FS_Interval
  <2> DEFINE f == [k \in 1..n |-> run(k)]
  <2>2. f \in Surjection(1..n, T)
    BY DEF Surjection
  <2> HIDE DEF f, T, n
  <2>3. QED BY <2>1, <2>2, FS_Surjection
<1> HIDE DEF T
<1>4. Cardinality(S) <= Cardinality(T) /\ Cardinality(S) \in Nat /\ Cardinality(T) \in Nat
  BY <1>2, <1>3, FS_Subset, FS_CardinalityType
<1>5. QED BY <1>1, <1>3, <1>4

\* An event is told again only for a failure of database, network or process,
\* each of which costs one repetition at most; a mail that is refused none.
THEOREM ToldOncePerFailureCorrect == MessagingSpec => []ToldOncePerFailure
<1>1. NoteInv => ToldOncePerFailure
  <2> SUFFICES ASSUME NoteInv, NEW e \in Events
               PROVE  /\ Cardinality(RunsOf(e) \cap mailed) <= 1 + noteFaults
                      /\ Cardinality({r \in RunsOf(e) : inAppRow[r] # "NONE"}) <= 1 + noteFaults
    BY DEF ToldOncePerFailure
  <2>1. \A r \in RunsOf(e) \cap mailed : email[r] # "idle"
    BY RunFields DEF NoteInv, EmailSteps
  <2>2. \A r \in {s \in RunsOf(e) : inAppRow[s] # "NONE"} : email[r] # "idle"
    BY RunFields DEF NoteInv, InAppSteps, RunsInOrder
  <2>3. Cardinality(RunsOf(e) \cap mailed) <= 1 + noteFaults
    BY <2>1, RunsArePaid
  <2>4. Cardinality({r \in RunsOf(e) : inAppRow[r] # "NONE"}) <= 1 + noteFaults
    <3> DEFINE S == {s \in RunsOf(e) : inAppRow[s] # "NONE"}
    <3>1. S \in SUBSET RunsOf(e) /\ \A r \in S : email[r] # "idle"
      BY <2>2
    <3> HIDE DEF S
    <3>2. Cardinality(S) <= 1 + noteFaults
      BY <3>1, RunsArePaid
    <3>3. QED BY <3>2 DEF S
  <2>5. QED BY <2>3, <2>4
<1>2. QED BY <1>1, NoteInvAlways, PTL

\* When nothing is being pushed and no mark is being answered, the badge of a
\* tab is the number of unread in-app notifications, unless it was told a count
\* that something ran into or was not told of a change; for any number of tabs,
\* notifications and calls.
THEOREM BadgeIsUnreadCorrect == MessagingSpec => []BadgeIsUnread
<1>1. NoteInv => BadgeIsUnread
  <2> SUFFICES ASSUME NoteInv, ~Pushing, Marking = {}, NEW t \in Tabs \ stale
               PROVE  badge[t] = Cardinality(UnreadInApp)
    BY DEF BadgeIsUnread
  <2>1. PushingRuns = {} /\ Cardinality(PushingRuns) = 0
    BY FS_EmptySet DEF PushingRuns, Pushing
  <2>2. badge[t] + Cardinality(PushingRuns) = Cardinality(UnreadInApp) /\ badge[t] \in Nat
    BY DEF NoteInv, NoteTypeOK, CountsAgree, BadgesAgree
  <2>3. QED BY <2>1, <2>2
<1>2. QED BY <1>1, NoteInvAlways, PTL
=============================================================================
