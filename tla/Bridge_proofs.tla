---------------------------- MODULE Bridge_proofs ---------------------------
(***************************************************************************)
(* Proofs about Bridge: deposits in order, nothing skipped by the cursor,  *)
(* blocks that can be submitted, and withdrawals paid once, each from the  *)
(* inductive invariant BridgeInv.                                          *)
(***************************************************************************)
EXTENDS BridgeInv, SequenceTheorems, FiniteSetTheorems, TLAPS

(* The bridge folds no sequence: of these lemmas it needs those about sums. *)
Adding(p, sum, x) == sum + x
INSTANCE Folds_proofs WITH op <- Adding

USE BridgeAssumption, SettlementAssumption, VaultAssumption, IndexerAssumption

-----------------------------------------------------------------------------
(* The sequencer's ledger *)

(* What a step leaves of the ledger before it: deposits, ids and outcomes are
   kept, no leaf comes back, and an open leaf that was queued stays queued. *)
Advances(s, t) ==
    /\ Len(s.deposits) <= Len(t.deposits)
    /\ s.next_withdrawal_id <= t.next_withdrawal_id
    /\ DOMAIN s.outcome \subseteq DOMAIN t.outcome
    /\ \A id \in DOMAIN s.outcome : t.outcome[id] = s.outcome[id]
    /\ \A id \in DOMAIN t.withdrawals :
          id < s.next_withdrawal_id =>
              /\ id \in DOMAIN s.withdrawals
              /\ t.withdrawals[id].amount = s.withdrawals[id].amount
              /\ ~Terminal(t.withdrawals[id]) =>
                    /\ ~Terminal(s.withdrawals[id])
                    /\ s.withdrawals[id].l1_status = "queued" =>
                          t.withdrawals[id].l1_status = "queued"

LedgerOK(s) == SeqTypeOK(s) /\ Ledger(s)

LEMMA SeqNumbers ==
    ASSUME NEW s, SeqTypeOK(s)
    PROVE  Len(s.deposits) \in Nat /\ s.next_withdrawal_id \in Nat
BY DEF SeqTypeOK

LEMMA AdvancesTransitive ==
    ASSUME NEW s, NEW t, NEW u, SeqTypeOK(s), SeqTypeOK(t), SeqTypeOK(u), Ledger(u),
           Advances(s, t), Advances(t, u)
    PROVE  Advances(s, u)
<1>1. /\ Len(s.deposits) \in Nat /\ Len(t.deposits) \in Nat /\ Len(u.deposits) \in Nat
      /\ s.next_withdrawal_id \in Nat /\ t.next_withdrawal_id \in Nat
      /\ u.next_withdrawal_id \in Nat
    BY SeqNumbers
<1>2. /\ Len(s.deposits) <= Len(u.deposits)
      /\ s.next_withdrawal_id <= u.next_withdrawal_id
    BY <1>1 DEF Advances
<1>3. /\ DOMAIN s.outcome \subseteq DOMAIN u.outcome
      /\ \A id \in DOMAIN s.outcome : u.outcome[id] = s.outcome[id]
    BY DEF Advances
<1>4. ASSUME NEW id \in DOMAIN u.withdrawals, id < s.next_withdrawal_id,
             id < t.next_withdrawal_id
      PROVE  /\ id \in DOMAIN s.withdrawals
             /\ u.withdrawals[id].amount = s.withdrawals[id].amount
             /\ ~Terminal(u.withdrawals[id]) =>
                   /\ ~Terminal(s.withdrawals[id])
                   /\ s.withdrawals[id].l1_status = "queued" =>
                         u.withdrawals[id].l1_status = "queued"
    BY <1>4, Zenon DEF Advances
<1>5. \A id \in DOMAIN u.withdrawals : id < s.next_withdrawal_id =>
             /\ id \in DOMAIN s.withdrawals
             /\ u.withdrawals[id].amount = s.withdrawals[id].amount
             /\ ~Terminal(u.withdrawals[id]) =>
                   /\ ~Terminal(s.withdrawals[id])
                   /\ s.withdrawals[id].l1_status = "queued" =>
                         u.withdrawals[id].l1_status = "queued"
  <2> TAKE id \in DOMAIN u.withdrawals
  <2> HAVE id < s.next_withdrawal_id
  <2>1. id \in Nat
      BY DEF Ledger
  <2>2. id < t.next_withdrawal_id
      BY <1>1, <2>1 DEF Advances
  <2> QED BY <1>4, <2>2
<1> QED
    BY <1>2, <1>3, <1>5, Zenon DEF Advances

(* The ids of a ledger are finitely many naturals. *)
LEMMA LedgerIds ==
    ASSUME NEW s, LedgerOK(s)
    PROVE  /\ DOMAIN s.withdrawals \subseteq Nat /\ DOMAIN s.outcome \subseteq Nat
           /\ IsFiniteSet(DOMAIN s.withdrawals) /\ IsFiniteSet(DOMAIN s.outcome)
           /\ \A id \in DOMAIN s.withdrawals \cup DOMAIN s.outcome :
                 id \in Nat /\ id < s.next_withdrawal_id
<1> DEFINE I == 1..(s.next_withdrawal_id - 1)
<1>1. s.next_withdrawal_id \in Nat
    BY DEF LedgerOK, SeqTypeOK
<1>2. IsFiniteSet(I)
    BY <1>1, FS_Interval
<1>3. DOMAIN s.withdrawals \subseteq I /\ DOMAIN s.outcome \subseteq I
    BY DEF LedgerOK, Ledger
<1>4. IsFiniteSet(DOMAIN s.withdrawals) /\ IsFiniteSet(DOMAIN s.outcome)
    BY <1>2, <1>3, FS_Subset
<1> QED
    BY <1>1, <1>3, <1>4

LEMMA SumFunctionNat ==
    ASSUME NEW g, IsFiniteSet(DOMAIN g), \A x \in DOMAIN g : g[x] \in Nat
    PROVE  SumFunction(g) \in Nat
BY SumNat DEF SumFunction

(* What refunding a set of leaves gives back to an account. *)
RefundUnits(s, ids, a) ==
    SumFunction([id \in {x \in ids : s.withdrawals[x].account = a} |-> s.withdrawals[id].amount])

LEMMA ProductNat == ASSUME NEW i \in Nat, NEW j \in Nat PROVE i * j \in Nat
OBVIOUS

LEMMA RefundUnitsNat ==
    ASSUME NEW s, LedgerOK(s), NEW ids, ids \subseteq DOMAIN s.withdrawals, NEW a
    PROVE  RefundUnits(s, ids, a) \in Nat
<1> DEFINE S == {x \in ids : s.withdrawals[x].account = a}
           g == [id \in S |-> s.withdrawals[id].amount]
<1>1. S \subseteq DOMAIN s.withdrawals
    OBVIOUS
<1>2. IsFiniteSet(S)
    BY <1>1, LedgerIds, FS_Subset
<1>3. \A x \in S : g[x] \in Nat
    BY <1>1 DEF LedgerOK, SeqTypeOK, Leaves
<1>4. SumFunction(g) \in Nat
  <2>1. DOMAIN g = S
      OBVIOUS
  <2> HIDE DEF g, S
  <2> QED BY <1>2, <1>3, <2>1, SumFunctionNat
<1> QED
    BY <1>4 DEF RefundUnits

LEMMA MovedShape ==
    ASSUME NEW s, SeqShape(s), NEW w, NEW b, NEW o
    PROVE  LET t == [s EXCEPT !.withdrawals = w, !.balance = b, !.outcome = o]
           IN  /\ t.next_id = s.next_id /\ t.quarantine = s.quarantine
               /\ t.deposits = s.deposits /\ t.observed_l1_height = s.observed_l1_height
               /\ t.next_withdrawal_id = s.next_withdrawal_id
               /\ t.withdrawals = w /\ t.balance = b /\ t.outcome = o
               /\ SeqShape(t)
BY DEF SeqShape

(* Moved, field by field. *)
IsMove(t, s, ids, status, height) ==
    /\ SeqShape(t)
    /\ t.next_id = s.next_id
    /\ t.quarantine = s.quarantine
    /\ t.deposits = s.deposits
    /\ t.observed_l1_height = s.observed_l1_height
    /\ t.next_withdrawal_id = s.next_withdrawal_id
    /\ t.withdrawals =
          [id \in DOMAIN s.withdrawals |->
             IF id \in ids THEN [s.withdrawals[id] EXCEPT !.l1_status = status]
             ELSE s.withdrawals[id]]
    /\ t.balance =
          [a \in Accounts |-> s.balance[a] + IF status # "refunded" THEN 0
                                             ELSE NanosPerTokenUnit * RefundUnits(s, ids, a)]
    /\ t.outcome =
          IF status = "queued" THEN s.outcome
          ELSE [id \in DOMAIN s.outcome \cup ids |->
                  IF id \in ids THEN [status |-> status, at |-> height] ELSE s.outcome[id]]

LEMMA MovedFields ==
    ASSUME NEW s, LedgerOK(s), NEW ids, NEW status, NEW height
    PROVE  IsMove(Moved(s, ids, status, height), s, ids, status, height)
<1> DEFINE w == [id \in DOMAIN s.withdrawals |->
                   IF id \in ids THEN [s.withdrawals[id] EXCEPT !.l1_status = status]
                   ELSE s.withdrawals[id]]
           b == [a \in Accounts |->
                   s.balance[a] + IF status # "refunded" THEN 0
                                  ELSE NanosPerTokenUnit * RefundUnits(s, ids, a)]
           o == IF status = "queued" THEN s.outcome
                ELSE [id \in DOMAIN s.outcome \cup ids |->
                        IF id \in ids THEN [status |-> status, at |-> height]
                        ELSE s.outcome[id]]
<1>1. Moved(s, ids, status, height) =
        [s EXCEPT !.withdrawals = w, !.balance = b, !.outcome = o]
    BY DEF Moved, RefundUnits
<1> HIDE DEF w, b, o
<1>2. SeqShape(s)
    BY DEF LedgerOK, SeqTypeOK
<1> DEFINE t == [s EXCEPT !.withdrawals = w, !.balance = b, !.outcome = o]
<1>3. /\ t.next_id = s.next_id /\ t.quarantine = s.quarantine
      /\ t.deposits = s.deposits /\ t.observed_l1_height = s.observed_l1_height
      /\ t.next_withdrawal_id = s.next_withdrawal_id
      /\ t.withdrawals = w /\ t.balance = b /\ t.outcome = o
      /\ SeqShape(t)
    BY <1>2, MovedShape
<1>4. Moved(s, ids, status, height) = t
    BY <1>1
<1> HIDE DEF t
<1> QED
    BY <1>3, <1>4, Zenon DEF w, b, o, IsMove

MoveEffect(t, s, ids, status) ==
    /\ LedgerOK(t) /\ Advances(s, t)
    /\ t.deposits = s.deposits
    /\ DOMAIN t.withdrawals = DOMAIN s.withdrawals
    /\ status = "queued" =>
          /\ t.outcome = s.outcome
          /\ \A id \in ids : t.withdrawals[id].l1_status = "queued"
    /\ status # "queued" =>
          /\ Open(t) = Open(s) \ ids
          /\ DOMAIN t.outcome = DOMAIN s.outcome \cup ids
          /\ \A id \in ids : t.outcome[id].status = status

LEMMA MovedOK ==
    ASSUME NEW s, LedgerOK(s), NEW ids, ids \subseteq Open(s),
           NEW status \in {"queued", "finalized", "refunded"}, NEW height \in Nat,
           NEW t, t = Moved(s, ids, status, height)
    PROVE  MoveEffect(t, s, ids, status)
<1>0. IsMove(t, s, ids, status, height)
    BY MovedFields
<1>1. /\ t.next_id = s.next_id
      /\ t.quarantine = s.quarantine
      /\ t.deposits = s.deposits
      /\ t.observed_l1_height = s.observed_l1_height
      /\ t.next_withdrawal_id = s.next_withdrawal_id
      /\ SeqShape(t)
    BY <1>0 DEF IsMove
<1>2. t.withdrawals =
        [id \in DOMAIN s.withdrawals |->
           IF id \in ids THEN [s.withdrawals[id] EXCEPT !.l1_status = status]
           ELSE s.withdrawals[id]]
    BY <1>0 DEF IsMove
<1>3. t.balance =
        [a \in Accounts |-> s.balance[a] + IF status # "refunded" THEN 0
                                           ELSE NanosPerTokenUnit * RefundUnits(s, ids, a)]
    BY <1>0, Zenon DEF IsMove
<1>4. t.outcome =
        IF status = "queued" THEN s.outcome
        ELSE [id \in DOMAIN s.outcome \cup ids |->
                IF id \in ids THEN [status |-> status, at |-> height] ELSE s.outcome[id]]
    BY <1>0, Zenon DEF IsMove
<1>5. ids \subseteq DOMAIN s.withdrawals /\ \A id \in ids : ~Terminal(s.withdrawals[id])
    BY DEF Open
<1>6. /\ s.withdrawals \in [DOMAIN s.withdrawals -> Leaves]
      /\ s.outcome \in [DOMAIN s.outcome -> Outcomes]
      /\ s.balance \in [Accounts -> Nat]
    BY DEF LedgerOK, SeqTypeOK
<1>7. /\ DOMAIN t.withdrawals = DOMAIN s.withdrawals
      /\ t.withdrawals \in [DOMAIN t.withdrawals -> Leaves]
    BY <1>2, <1>6 DEF Leaves
<1>8. t.balance \in [Accounts -> Nat]
  <2>1. \A a \in Accounts : NanosPerTokenUnit * RefundUnits(s, ids, a) \in Nat
    <3> TAKE a \in Accounts
    <3>1. RefundUnits(s, ids, a) \in Nat
        BY <1>5, RefundUnitsNat
    <3> QED BY <3>1
  <2> QED BY <1>3, <1>6, <2>1
<1>9. t.outcome \in [DOMAIN t.outcome -> Outcomes]
  <2>1. CASE status = "queued"
      BY <1>4, <1>6, <2>1
  <2>2. CASE status # "queued"
    <3>1. [status |-> status, at |-> height] \in Outcomes
        BY <2>2 DEF Outcomes
    <3> QED BY <1>4, <1>6, <2>2, <3>1
  <2> QED BY <2>1, <2>2
<1>10. SeqTypeOK(t)
    BY <1>1, <1>7, <1>8, <1>9 DEF LedgerOK, SeqTypeOK
<1>11. \A id \in DOMAIN s.withdrawals :
          /\ t.withdrawals[id].amount = s.withdrawals[id].amount
          /\ id \in ids => t.withdrawals[id].l1_status = status
          /\ id \notin ids => t.withdrawals[id] = s.withdrawals[id]
    BY <1>2, <1>6 DEF Leaves
<1>12. \A id \in DOMAIN s.withdrawals : Terminal(s.withdrawals[id]) <=> id \in DOMAIN s.outcome
    BY DEF LedgerOK, Ledger
<1>13. /\ DOMAIN t.withdrawals \cup DOMAIN t.outcome = DOMAIN s.withdrawals \cup DOMAIN s.outcome
       /\ status # "queued" => DOMAIN t.outcome = DOMAIN s.outcome \cup ids
    BY <1>4, <1>5, <1>7
<1>14. \A id \in DOMAIN t.withdrawals : Terminal(t.withdrawals[id]) <=> id \in DOMAIN t.outcome
  <2>1. CASE status = "queued"
    <3>1. t.outcome = s.outcome
        BY <1>4, <2>1
    <3>2. \A id \in ids : ~Terminal(t.withdrawals[id])
        BY <1>5, <1>11, <2>1 DEF Terminal
    <3> QED BY <1>5, <1>7, <1>11, <1>12, <3>1, <3>2
  <2>2. CASE status # "queued"
    <3>1. \A id \in ids : Terminal(t.withdrawals[id])
        BY <1>5, <1>11, <2>2 DEF Terminal
    <3> QED BY <1>5, <1>7, <1>11, <1>12, <1>13, <2>2, <3>1
  <2> QED BY <2>1, <2>2
<1>15. Ledger(t)
    BY <1>1, <1>13, <1>14 DEF LedgerOK, Ledger
<1>16. Advances(s, t)
  <2>1. \A id \in DOMAIN s.outcome : id \notin ids
      BY <1>5, <1>12
  <2>2. /\ DOMAIN s.outcome \subseteq DOMAIN t.outcome
        /\ \A id \in DOMAIN s.outcome : t.outcome[id] = s.outcome[id]
      BY <1>4, <2>1
  <2>3. \A id \in DOMAIN t.withdrawals :
              /\ id \in DOMAIN s.withdrawals
              /\ t.withdrawals[id].amount = s.withdrawals[id].amount
              /\ ~Terminal(t.withdrawals[id]) =>
                    /\ ~Terminal(s.withdrawals[id])
                    /\ s.withdrawals[id].l1_status = "queued" =>
                          t.withdrawals[id].l1_status = "queued"
      BY <1>5, <1>7, <1>11 DEF Terminal
  <2>4. /\ Len(s.deposits) <= Len(t.deposits)
        /\ s.next_withdrawal_id <= t.next_withdrawal_id
      BY <1>1, SeqNumbers DEF LedgerOK
  <2> QED BY <2>2, <2>3, <2>4, Zenon DEF Advances
<1>17. status # "queued" => /\ Open(t) = Open(s) \ ids
                            /\ \A id \in ids : t.outcome[id].status = status
  <2> HAVE status # "queued"
  <2>1. \A id \in ids : t.outcome[id].status = status
      BY <1>4
  <2>2. \A id \in ids : Terminal(t.withdrawals[id])
      BY <1>5, <1>11 DEF Terminal
  <2> QED BY <1>5, <1>7, <1>11, <2>1, <2>2 DEF Open
<1>18. status = "queued" => /\ t.outcome = s.outcome
                            /\ \A id \in ids : t.withdrawals[id].l1_status = "queued"
    BY <1>4, <1>5, <1>11
<1> QED
    BY <1>1, <1>7, <1>10, <1>13, <1>15, <1>16, <1>17, <1>18 DEF LedgerOK, MoveEffect

(* An L1 event on the ledger. *)
LEMMA SameAdvances == ASSUME NEW s, LedgerOK(s) PROVE Advances(s, s)
<1>1. Len(s.deposits) \in Nat /\ s.next_withdrawal_id \in Nat
    BY SeqNumbers DEF LedgerOK
<1> QED
    BY <1>1 DEF Advances

LEMMA AfterEventOK ==
    ASSUME NEW s, LedgerOK(s), NEW e \in LogEntries, NEW t, t = AfterEvent(s, e)
    PROVE  /\ LedgerOK(t) /\ Advances(s, t)
           /\ t.deposits = s.deposits
           /\ e.nullifier \in Open(t) =>
                 e.status = "queued" /\ t.withdrawals[e.nullifier].l1_status = "queued"
           /\ \A id \in DOMAIN t.outcome \ DOMAIN s.outcome :
                 t.outcome[id].status = "finalized" =>
                     id = e.nullifier /\ e.status = "finalized"
<1> DEFINE n == e.nullifier
<1>1. CASE e.nullifier \notin Open(s)
    BY <1>1, SameAdvances DEF AfterEvent
<1>2. CASE e.nullifier \in Open(s) /\ e.status = "queued"
  <2>1. CASE s.withdrawals[n].l1_status = "not_requested"
    <3>1. t = Moved(s, {n}, "queued", e.block)
        BY <1>2, <2>1 DEF AfterEvent
    <3>2. {n} \subseteq Open(s) /\ e.block \in Nat
        BY <1>2 DEF LogEntries
    <3> DEFINE ids == {n}
    <3>3. ids \subseteq Open(s) /\ t = Moved(s, ids, "queued", e.block) /\ n \in ids
        BY <3>1, <3>2
    <3> HIDE DEF ids
    <3>4. /\ LedgerOK(t) /\ Advances(s, t)
          /\ t.deposits = s.deposits /\ t.outcome = s.outcome
          /\ \A id \in ids : t.withdrawals[id].l1_status = "queued"
      <4>1. MoveEffect(t, s, ids, "queued")
          BY <3>2, <3>3, MovedOK
      <4> QED BY <4>1 DEF MoveEffect
    <3> QED BY <1>2, <3>3, <3>4
  <2>2. CASE s.withdrawals[n].l1_status # "not_requested"
    <3>1. t = s
        BY <1>2, <2>2 DEF AfterEvent
    <3>2. s.withdrawals[n].l1_status = "queued"
      <4>1. n \in DOMAIN s.withdrawals /\ ~Terminal(s.withdrawals[n])
          BY <1>2 DEF Open
      <4>2. s.withdrawals[n].l1_status \in {"not_requested", "queued", "finalized", "refunded"}
          BY <4>1 DEF LedgerOK, SeqTypeOK, Leaves
      <4> QED BY <2>2, <4>1, <4>2 DEF Terminal
    <3> QED BY <1>2, <3>1, <3>2, SameAdvances
  <2> QED BY <2>1, <2>2
<1>3. ASSUME e.nullifier \in Open(s), NEW status \in {"finalized", "refunded"},
             t = Moved(s, {n}, status, e.block),
             status = "finalized" => e.status = "finalized"
      PROVE  /\ LedgerOK(t) /\ Advances(s, t)
             /\ t.deposits = s.deposits
             /\ e.nullifier \notin Open(t)
             /\ \A id \in DOMAIN t.outcome \ DOMAIN s.outcome :
                   t.outcome[id].status = "finalized" =>
                       id = e.nullifier /\ e.status = "finalized"
  <2>1. {n} \subseteq Open(s) /\ e.block \in Nat
      BY <1>3 DEF LogEntries
  <2> DEFINE ids == {n}
  <2>2. ids \subseteq Open(s) /\ t = Moved(s, ids, status, e.block)
      BY <1>3, <2>1
  <2> HIDE DEF ids
  <2>3. /\ LedgerOK(t) /\ Advances(s, t) /\ t.deposits = s.deposits
        /\ Open(t) = Open(s) \ ids
        /\ DOMAIN t.outcome = DOMAIN s.outcome \cup ids
        /\ \A id \in ids : t.outcome[id].status = status
    <3>1. MoveEffect(t, s, ids, status)
        BY <1>3, <2>1, <2>2, MovedOK
    <3> QED BY <3>1 DEF MoveEffect
  <2> QED BY <1>3, <2>3 DEF ids
<1>4. CASE e.nullifier \in Open(s) /\ e.status = "finalized"
  <2>1. t = Moved(s, {n}, "finalized", e.block)
      BY <1>4 DEF AfterEvent
  <2> QED BY <1>3, <1>4, <2>1
<1>5. CASE e.nullifier \in Open(s) /\ e.status = "cancelled"
  <2>1. t = Moved(s, {n}, "refunded", e.block)
      BY <1>5 DEF AfterEvent
  <2> QED BY <1>3, <1>5, <2>1
<1>6. e.status \in {"queued", "finalized", "cancelled"}
    BY DEF LogEntries
<1> QED
    BY <1>1, <1>2, <1>4, <1>5, <1>6

(* An L1 height on the ledger: what it decides, it refunds. *)
LEMMA AfterHeightOK ==
    ASSUME NEW s, LedgerOK(s), NEW height \in Nat, NEW t, t = AfterHeight(s, height)
    PROVE  /\ LedgerOK(t) /\ Advances(s, t)
           /\ t.deposits = s.deposits
           /\ \A id \in DOMAIN t.outcome \ DOMAIN s.outcome : t.outcome[id].status = "refunded"
<1>1. CASE height <= s.observed_l1_height
    BY <1>1, SameAdvances DEF AfterHeight
<1>2. CASE ~(height <= s.observed_l1_height)
  <2> DEFINE u == [s EXCEPT !.observed_l1_height = height]
             ids == {id \in Open(s) : height > s.withdrawals[id].expiry_height}
  <2>1. t = Moved(u, ids, "refunded", height)
      BY <1>2 DEF AfterHeight
  <2>2. SeqShape(s)
      BY DEF LedgerOK, SeqTypeOK
  <2>3. /\ SeqShape(u)
        /\ u.next_id = s.next_id /\ u.balance = s.balance /\ u.quarantine = s.quarantine
        /\ u.deposits = s.deposits /\ u.observed_l1_height = height
        /\ u.next_withdrawal_id = s.next_withdrawal_id
        /\ u.withdrawals = s.withdrawals /\ u.outcome = s.outcome
      BY <2>2 DEF SeqShape
  <2> HIDE DEF u
  <2>4. LedgerOK(u) /\ Open(u) = Open(s)
      BY <2>3 DEF LedgerOK, SeqTypeOK, Ledger, Open
  <2>5. ids \subseteq Open(u)
      BY <2>4
  <2> HIDE DEF ids
  <2>6. /\ LedgerOK(t) /\ Advances(u, t) /\ t.deposits = u.deposits
        /\ DOMAIN t.outcome = DOMAIN u.outcome \cup ids
        /\ \A id \in ids : t.outcome[id].status = "refunded"
    <3>1. MoveEffect(t, u, ids, "refunded")
        BY <2>1, <2>4, <2>5, MovedOK
    <3> QED BY <3>1 DEF MoveEffect
  <2>7. Advances(s, t)
    <3>1. Advances(u, t)
        BY <2>6
    <3> QED BY <2>3, <3>1 DEF Advances
  <2> QED BY <2>3, <2>6, <2>7
<1> QED
    BY <1>1, <1>2

LEMMA EventOK ==
    ASSUME NEW s, LedgerOK(s), NEW e \in LogEntries,
           NEW u, u = AfterHeight(AfterEvent(s, e), e.block)
    PROVE  /\ LedgerOK(u) /\ Advances(s, u)
           /\ u.deposits = s.deposits
           /\ e.nullifier \in DOMAIN s.withdrawals /\ e.nullifier \in Open(u) =>
                 e.status = "queued" /\ u.withdrawals[e.nullifier].l1_status = "queued"
           /\ \A id \in DOMAIN u.outcome \ DOMAIN s.outcome :
                 u.outcome[id].status = "finalized" =>
                     id = e.nullifier /\ e.status = "finalized"
<1> DEFINE t == AfterEvent(s, e)
           n == e.nullifier
<1>1. /\ LedgerOK(t) /\ Advances(s, t)
      /\ t.deposits = s.deposits
      /\ n \in Open(t) => e.status = "queued" /\ t.withdrawals[n].l1_status = "queued"
      /\ \A id \in DOMAIN t.outcome \ DOMAIN s.outcome :
            t.outcome[id].status = "finalized" => id = n /\ e.status = "finalized"
    BY AfterEventOK
<1>2. u = AfterHeight(t, e.block) /\ e.block \in Nat
    BY DEF LogEntries
<1> HIDE DEF t, n
<1>3. /\ LedgerOK(u) /\ Advances(t, u)
      /\ u.deposits = t.deposits
      /\ \A id \in DOMAIN u.outcome \ DOMAIN t.outcome : u.outcome[id].status = "refunded"
    BY <1>1, <1>2, AfterHeightOK
<1>4. Advances(s, u)
    BY <1>1, <1>3, AdvancesTransitive DEF LedgerOK
<1>5. n \in DOMAIN s.withdrawals /\ n \in Open(u) =>
         e.status = "queued" /\ u.withdrawals[n].l1_status = "queued"
  <2> HAVE n \in DOMAIN s.withdrawals /\ n \in Open(u)
  <2>1. n \in Nat /\ n < s.next_withdrawal_id
      BY LedgerIds
  <2>2. s.next_withdrawal_id \in Nat /\ t.next_withdrawal_id \in Nat
        /\ s.next_withdrawal_id <= t.next_withdrawal_id
      BY <1>1, SeqNumbers DEF LedgerOK, Advances
  <2>3. n < t.next_withdrawal_id
      BY <2>1, <2>2
  <2>4. n \in DOMAIN u.withdrawals /\ ~Terminal(u.withdrawals[n])
      BY DEF Open
  <2>5. /\ n \in DOMAIN t.withdrawals /\ ~Terminal(t.withdrawals[n])
        /\ t.withdrawals[n].l1_status = "queued" => u.withdrawals[n].l1_status = "queued"
      BY <1>3, <2>3, <2>4 DEF Advances
  <2>6. n \in Open(t)
      BY <2>5 DEF Open
  <2> QED BY <1>1, <2>5, <2>6
<1>6. ASSUME NEW id \in DOMAIN u.outcome \ DOMAIN s.outcome, u.outcome[id].status = "finalized"
      PROVE  id = n /\ e.status = "finalized"
  <2>1. id \in DOMAIN t.outcome
      BY <1>3, <1>6
  <2>2. u.outcome[id] = t.outcome[id]
      BY <1>3, <2>1 DEF Advances
  <2> QED BY <1>1, <1>6, <2>1, <2>2
<1> QED
    BY <1>1, <1>3, <1>4, <1>5, <1>6 DEF n

(* A step that moves cash only. *)
CashStep(s, t) ==
    /\ SeqShape(t)
    /\ t.next_id \in Nat
    /\ t.balance \in [Accounts -> Nat] /\ t.quarantine \in [Accounts -> Nat]
    /\ t.deposits = s.deposits
    /\ t.observed_l1_height = s.observed_l1_height
    /\ t.next_withdrawal_id = s.next_withdrawal_id
    /\ t.withdrawals = s.withdrawals /\ t.outcome = s.outcome

LEMMA CashStepOK ==
    ASSUME NEW s, LedgerOK(s), NEW t, CashStep(s, t)
    PROVE  LedgerOK(t) /\ Advances(s, t)
<1>1. LedgerOK(t)
    BY DEF CashStep, LedgerOK, SeqTypeOK, Ledger
<1>2. Len(s.deposits) \in Nat /\ s.next_withdrawal_id \in Nat
    BY SeqNumbers DEF LedgerOK
<1>3. Advances(s, t)
    BY <1>2 DEF CashStep, Advances
<1> QED
    BY <1>1, <1>3

LEMMA ClaimedOK ==
    ASSUME NEW s, LedgerOK(s), NEW a \in Accounts, NEW t, t = Claimed(s, a)
    PROVE  CashStep(s, t)
<1>1. /\ SeqShape(s) /\ s.next_id \in Nat
      /\ s.balance \in [Accounts -> Nat] /\ s.quarantine \in [Accounts -> Nat]
    BY DEF LedgerOK, SeqTypeOK
<1> DEFINE b == [s.balance EXCEPT ![a] = @ + s.quarantine[a]]
           q == [s.quarantine EXCEPT ![a] = 0]
<1>2. t = [s EXCEPT !.balance = b, !.quarantine = q]
    BY <1>1 DEF Claimed, SeqShape
<1>3. b \in [Accounts -> Nat] /\ q \in [Accounts -> Nat]
    BY <1>1
<1> HIDE DEF b, q
<1> QED
    BY <1>1, <1>2, <1>3 DEF CashStep, SeqShape

LEMMA CreateAccountOK ==
    ASSUME LedgerOK(seq), CreateAccount
    PROVE  CashStep(seq, seq')
<1> DEFINE u == [seq EXCEPT !.next_id = @ + 1]
<1>1. SeqShape(seq) /\ seq.next_id \in Nat
    BY DEF LedgerOK, SeqTypeOK
<1>2. seq.next_id \in Accounts /\ seq' = Claimed(u, seq.next_id)
    BY DEF CreateAccount
<1>3. /\ SeqShape(u) /\ u.next_id = seq.next_id + 1
      /\ u.balance = seq.balance /\ u.quarantine = seq.quarantine
      /\ u.deposits = seq.deposits /\ u.observed_l1_height = seq.observed_l1_height
      /\ u.next_withdrawal_id = seq.next_withdrawal_id
      /\ u.withdrawals = seq.withdrawals /\ u.outcome = seq.outcome
    BY <1>1 DEF SeqShape
<1> HIDE DEF u
<1>4. LedgerOK(u)
    BY <1>1, <1>3 DEF LedgerOK, SeqTypeOK, Ledger
<1>5. CashStep(u, seq')
    BY <1>2, <1>4, ClaimedOK
<1> QED
    BY <1>3, <1>5 DEF CashStep

LEMMA TradeOK ==
    ASSUME LedgerOK(seq), NEW a \in Accounts, NEW b \in Accounts, Trade(a, b)
    PROVE  CashStep(seq, seq')
<1>1. /\ SeqShape(seq) /\ seq.next_id \in Nat
      /\ seq.balance \in [Accounts -> Nat] /\ seq.quarantine \in [Accounts -> Nat]
    BY DEF LedgerOK, SeqTypeOK
<1> DEFINE c == [[seq.balance EXCEPT ![a] = @ - 1] EXCEPT ![b] = @ + 1]
<1>2. seq' = [seq EXCEPT !.balance = c]
    BY <1>1 DEF Trade, SeqShape
<1>3. c \in [Accounts -> Nat]
    BY <1>1 DEF Trade
<1> HIDE DEF c
<1> QED
    BY <1>1, <1>2, <1>3 DEF CashStep, SeqShape

(* A deposit taken in. *)
DepositStep(s, t, d) ==
    /\ SeqShape(t)
    /\ t.next_id = s.next_id
    /\ t.balance \in [Accounts -> Nat] /\ t.quarantine \in [Accounts -> Nat]
    /\ t.deposits = Append(s.deposits, DepositLeaf(d.key, d.amount))
    /\ t.observed_l1_height = s.observed_l1_height
    /\ t.next_withdrawal_id = s.next_withdrawal_id
    /\ t.withdrawals = s.withdrawals /\ t.outcome = s.outcome

LEMMA IngestOK ==
    ASSUME LedgerOK(seq), NEW d, d.key \in Accounts, d.amount \in Amounts,
           ValidDeposit(d), IngestDeposit(d)
    PROVE  DepositStep(seq, seq', d)
<1>1. /\ SeqShape(seq) /\ seq.next_id \in Nat
      /\ seq.balance \in [Accounts -> Nat] /\ seq.quarantine \in [Accounts -> Nat]
    BY DEF LedgerOK, SeqTypeOK
<1>2. d.amount * NanosPerTokenUnit \in Nat
  <2>1. d.amount \in Nat /\ NanosPerTokenUnit \in Nat
      BY BridgeAssumption
  <2> QED BY <2>1, ProductNat
<1>3. d.root = Append(seq.deposits, DepositLeaf(d.key, d.amount))
    BY DEF ValidDeposit
<1> DEFINE nanos == d.amount * NanosPerTokenUnit
<1>4. CASE d.account # NoAccount
  <2>1. d.account \in Accounts
      BY <1>4 DEF ValidDeposit, Exists
  <2> DEFINE b == [seq.balance EXCEPT ![d.account] = @ + nanos]
  <2>2. seq' = [seq EXCEPT !.deposits = d.root, !.balance = b]
      BY <1>1, <1>4 DEF IngestDeposit, SeqShape
  <2>3. b \in [Accounts -> Nat]
      BY <1>1, <1>2, <2>1
  <2> HIDE DEF b
  <2> QED BY <1>1, <1>3, <2>2, <2>3 DEF DepositStep, SeqShape
<1>5. CASE d.account = NoAccount
  <2> DEFINE q == [seq.quarantine EXCEPT ![d.key] = @ + nanos]
  <2>2. seq' = [seq EXCEPT !.deposits = d.root, !.quarantine = q]
      BY <1>1, <1>5 DEF IngestDeposit, SeqShape
  <2>3. q \in [Accounts -> Nat]
      BY <1>1, <1>2
  <2> HIDE DEF q
  <2> QED BY <1>1, <1>3, <2>2, <2>3 DEF DepositStep, SeqShape
<1> QED
    BY <1>4, <1>5

LEMMA DepositStepOK ==
    ASSUME NEW s, LedgerOK(s), NEW d, d.key \in Accounts, d.amount \in Amounts,
           NEW t, DepositStep(s, t, d)
    PROVE  /\ LedgerOK(t) /\ Advances(s, t)
           /\ Len(t.deposits) = Len(s.deposits) + 1
<1>1. s.deposits \in Seq(DepositLeaves)
    BY DEF LedgerOK, SeqTypeOK
<1>2. DepositLeaf(d.key, d.amount) \in DepositLeaves
    BY DEF DepositLeaf, DepositLeaves
<1>3. /\ t.deposits \in Seq(DepositLeaves)
      /\ Len(t.deposits) = Len(s.deposits) + 1
    BY <1>1, <1>2, AppendProperties DEF DepositStep
<1>4. LedgerOK(t)
    BY <1>3 DEF DepositStep, LedgerOK, SeqTypeOK, Ledger
<1>5. Len(s.deposits) \in Nat /\ s.next_withdrawal_id \in Nat
    BY SeqNumbers DEF LedgerOK
<1>6. Advances(s, t)
    BY <1>3, <1>5 DEF DepositStep, Advances
<1> QED
    BY <1>3, <1>4, <1>6

(* A withdrawal issued. *)
IssueStep(s, t, a, leaf) ==
    /\ SeqShape(t)
    /\ t.next_id = s.next_id
    /\ t.balance = [s.balance EXCEPT ![a] = @ - leaf.amount * NanosPerTokenUnit]
    /\ t.balance \in [Accounts -> Nat]
    /\ t.quarantine = s.quarantine
    /\ t.deposits = s.deposits
    /\ t.observed_l1_height = s.observed_l1_height
    /\ t.next_withdrawal_id = s.next_withdrawal_id + 1
    /\ t.withdrawals = [x \in DOMAIN s.withdrawals \cup {s.next_withdrawal_id} |->
                          IF x = s.next_withdrawal_id THEN leaf ELSE s.withdrawals[x]]
    /\ t.outcome = s.outcome

Issued(a, amount, expiry) ==
    [account |-> a, amount |-> amount, expiry_height |-> expiry, l1_status |-> "not_requested"]

LEMMA RequestOK ==
    ASSUME LedgerOK(seq), NEW a \in Accounts, NEW amount \in Amounts, NEW expiry \in Nat,
           RequestBridgeWithdrawal(a, amount, expiry)
    PROVE  IssueStep(seq, seq', a, Issued(a, amount, expiry))
<1>1. /\ SeqShape(seq) /\ seq.next_id \in Nat
      /\ seq.balance \in [Accounts -> Nat] /\ seq.quarantine \in [Accounts -> Nat]
    BY DEF LedgerOK, SeqTypeOK
<1>2. amount * NanosPerTokenUnit \in Nat /\ amount * NanosPerTokenUnit <= seq.balance[a]
  <2>1. amount \in Nat /\ NanosPerTokenUnit \in Nat
      BY BridgeAssumption
  <2> QED BY <2>1, ProductNat DEF RequestBridgeWithdrawal
<1> DEFINE nanos == amount * NanosPerTokenUnit
           leaf == Issued(a, amount, expiry)
           id == seq.next_withdrawal_id
           b == [seq.balance EXCEPT ![a] = @ - nanos]
           w == [x \in DOMAIN seq.withdrawals \cup {id} |->
                   IF x = id THEN leaf ELSE seq.withdrawals[x]]
<1>3. seq' = [seq EXCEPT !.balance = b, !.next_withdrawal_id = id + 1, !.withdrawals = w]
    BY <1>1 DEF RequestBridgeWithdrawal, SeqShape, Issued
<1>4. b \in [Accounts -> Nat]
  <2> HIDE DEF nanos
  <2>1. nanos \in Nat /\ nanos <= seq.balance[a]
      BY <1>2 DEF nanos
  <2> QED BY <1>1, <2>1
<1>5. leaf.amount = amount
    BY DEF Issued
<1>6. b = [seq.balance EXCEPT ![a] = @ - leaf.amount * NanosPerTokenUnit]
    BY <1>5
<1> HIDE DEF b, w, leaf
<1>7. /\ SeqShape(seq')
      /\ seq'.next_id = seq.next_id /\ seq'.balance = b /\ seq'.quarantine = seq.quarantine
      /\ seq'.deposits = seq.deposits /\ seq'.observed_l1_height = seq.observed_l1_height
      /\ seq'.next_withdrawal_id = id + 1 /\ seq'.withdrawals = w
      /\ seq'.outcome = seq.outcome
    BY <1>1, <1>3 DEF SeqShape
<1> QED
    BY <1>4, <1>6, <1>7, Zenon DEF IssueStep, w, leaf

LEMMA IssueStepOK ==
    ASSUME NEW s, LedgerOK(s), NEW a \in Accounts, NEW leaf \in Leaves,
           leaf.l1_status = "not_requested", NEW t, IssueStep(s, t, a, leaf)
    PROVE  LedgerOK(t) /\ Advances(s, t)
<1> DEFINE n == s.next_withdrawal_id
<1>1. /\ n \in Nat \ {0}
      /\ DOMAIN s.withdrawals \cup DOMAIN s.outcome = 1..(n - 1)
      /\ \A id \in DOMAIN s.withdrawals : Terminal(s.withdrawals[id]) <=> id \in DOMAIN s.outcome
      /\ s.withdrawals \in [DOMAIN s.withdrawals -> Leaves]
    BY DEF LedgerOK, SeqTypeOK, Ledger
<1>2. n \notin DOMAIN s.withdrawals /\ n \notin DOMAIN s.outcome
    BY <1>1
<1>3. /\ DOMAIN t.withdrawals = DOMAIN s.withdrawals \cup {n}
      /\ t.withdrawals[n] = leaf
      /\ \A id \in DOMAIN s.withdrawals : t.withdrawals[id] = s.withdrawals[id]
    BY <1>2 DEF IssueStep
<1>4. t.withdrawals \in [DOMAIN t.withdrawals -> Leaves]
    BY <1>1, <1>2 DEF IssueStep
<1>5. SeqTypeOK(t)
    BY <1>1, <1>4 DEF IssueStep, LedgerOK, SeqTypeOK
<1>6. Ledger(t)
  <2>1. DOMAIN t.withdrawals \cup DOMAIN t.outcome = 1..(t.next_withdrawal_id - 1)
    <3>1. t.outcome = s.outcome /\ t.next_withdrawal_id = n + 1
        BY DEF IssueStep
    <3>2. 1..((n + 1) - 1) = 1..(n - 1) \cup {n}
        BY <1>1
    <3> QED BY <1>1, <1>3, <3>1, <3>2
  <2>2. ~Terminal(leaf) /\ t.outcome = s.outcome
      BY DEF Terminal, IssueStep
  <2>3. \A id \in DOMAIN t.withdrawals : Terminal(t.withdrawals[id]) <=> id \in DOMAIN t.outcome
      BY <1>1, <1>2, <1>3, <2>2
  <2> QED BY <2>1, <2>3 DEF Ledger
<1>7. Advances(s, t)
  <2>1. Len(s.deposits) \in Nat
      BY SeqNumbers DEF LedgerOK
  <2>2. \A id \in DOMAIN t.withdrawals : id < n => id \in DOMAIN s.withdrawals
      BY <1>1, <1>3
  <2>3. t.outcome = s.outcome /\ t.next_withdrawal_id = n + 1 /\ t.deposits = s.deposits
      BY DEF IssueStep
  <2> QED BY <1>1, <1>3, <2>1, <2>2, <2>3 DEF Advances
<1> QED
    BY <1>5, <1>6, <1>7 DEF LedgerOK

(* A block retires its terminal leaves. *)
LEMMA BlockOK ==
    ASSUME LedgerOK(seq), ProduceBlock
    PROVE  /\ LedgerOK(seq') /\ Advances(seq, seq')
           /\ seq'.withdrawals = [id \in Open(seq) |-> seq.withdrawals[id]]
           /\ Open(seq') = Open(seq) /\ DOMAIN seq'.withdrawals = Open(seq)
           /\ seq'.balance = seq.balance /\ seq'.quarantine = seq.quarantine
           /\ seq'.deposits = seq.deposits /\ seq'.outcome = seq.outcome
           /\ seq'.next_id = seq.next_id /\ seq'.next_withdrawal_id = seq.next_withdrawal_id
<1>1. SeqShape(seq) /\ seq.next_withdrawal_id \in Nat \ {0} /\ Len(seq.deposits) \in Nat
    BY DEF LedgerOK, SeqTypeOK
<1> DEFINE w == [id \in Open(seq) |-> seq.withdrawals[id]]
<1>2. seq' = [seq EXCEPT !.withdrawals = w]
    BY <1>1 DEF ProduceBlock, SeqShape
<1> HIDE DEF w
<1>3. /\ SeqShape(seq')
      /\ seq'.next_id = seq.next_id /\ seq'.balance = seq.balance
      /\ seq'.quarantine = seq.quarantine /\ seq'.deposits = seq.deposits
      /\ seq'.observed_l1_height = seq.observed_l1_height
      /\ seq'.next_withdrawal_id = seq.next_withdrawal_id
      /\ seq'.withdrawals = w /\ seq'.outcome = seq.outcome
    BY <1>1, <1>2 DEF SeqShape
<1>4. /\ Open(seq) \subseteq DOMAIN seq.withdrawals
      /\ \A id \in DOMAIN seq.withdrawals : id \in Open(seq) <=> ~Terminal(seq.withdrawals[id])
    BY DEF Open
<1>5. DOMAIN w = Open(seq) /\ \A id \in Open(seq) : w[id] = seq.withdrawals[id]
    BY DEF w
<1>6. seq.withdrawals \in [DOMAIN seq.withdrawals -> Leaves]
    BY DEF LedgerOK, SeqTypeOK
<1>7. w \in [DOMAIN w -> Leaves]
    BY <1>4, <1>5, <1>6 DEF w
<1>8. SeqTypeOK(seq')
    BY <1>3, <1>7 DEF LedgerOK, SeqTypeOK
<1>9. /\ DOMAIN seq.withdrawals \cup DOMAIN seq.outcome = 1..(seq.next_withdrawal_id - 1)
      /\ \A id \in DOMAIN seq.withdrawals :
            Terminal(seq.withdrawals[id]) <=> id \in DOMAIN seq.outcome
    BY DEF LedgerOK, Ledger
<1>10. /\ DOMAIN seq'.withdrawals \cup DOMAIN seq'.outcome = 1..(seq'.next_withdrawal_id - 1)
       /\ \A id \in DOMAIN seq'.withdrawals :
             Terminal(seq'.withdrawals[id]) <=> id \in DOMAIN seq'.outcome
  <2>1. Open(seq) \cup DOMAIN seq.outcome = DOMAIN seq.withdrawals \cup DOMAIN seq.outcome
      BY <1>4, <1>9
  <2>2. \A id \in Open(seq) : Terminal(w[id]) <=> id \in DOMAIN seq.outcome
      BY <1>4, <1>5, <1>9
  <2> QED BY <1>3, <1>5, <1>9, <2>1, <2>2
<1>11. Open(seq') = Open(seq)
    BY <1>3, <1>4, <1>5 DEF Open
<1>12. Advances(seq, seq')
    BY <1>1, <1>3, <1>4, <1>5 DEF Advances
<1> QED
    BY <1>3, <1>5, <1>8, <1>10, <1>11, <1>12 DEF LedgerOK, Ledger, w

-----------------------------------------------------------------------------
(* The contracts, the ledger and the roots *)

LEMMA RecordHeight ==
    ASSUME CoreInv
    PROVE  /\ Len(chain) \in Nat /\ Len(accepted) \in Nat
           /\ Latest.height \in 0..Len(chain)
           /\ Record.height \in 0..Len(chain)
           /\ Record.height <= Latest.height
<1>1. Len(chain) \in Nat /\ Len(accepted) \in Nat
    BY LenProperties DEF CoreInv, L2TypeOK, AcceptedRoots, IsSequence
<1>2. Latest.height \in 0..Len(chain)
  <2>1. CASE accepted = <<>>
      BY <1>1, <2>1 DEF Latest, NoRoot
  <2>2. CASE accepted # <<>>
    <3>1. Len(accepted) \in 1..Len(accepted)
        BY <1>1, <2>2, EmptySeq DEF CoreInv, AcceptedRoots, IsSequence
    <3>2. accepted[Len(accepted)].height \in 1..Len(chain)
        BY <3>1 DEF CoreInv, AcceptedRoots
    <3> QED BY <1>1, <2>2, <3>2 DEF Latest
  <2> QED BY <2>1, <2>2
<1>3. CASE EscapeModeActive
  <2>1. PICK i \in 1..Len(accepted) : escape = accepted[i]
      BY <1>3 DEF CoreInv, AcceptedRoots
  <2>2. accepted[i].height \in 1..Len(chain) /\ accepted[i].height <= Latest.height
      BY DEF CoreInv, AcceptedRoots
  <2> QED BY <1>1, <1>2, <1>3, <2>1, <2>2 DEF Record
<1>4. CASE ~EscapeModeActive
    BY <1>1, <1>2, <1>4 DEF Record
<1> QED
    BY <1>1, <1>2, <1>3, <1>4

LEMMA L1Entries ==
    ASSUME L1TypeOK
    PROVE  /\ now \in Nat /\ Len(deposits) \in Nat /\ Len(logs) \in Nat /\ Len(paid) \in Nat
           /\ \A i \in 1..Len(deposits) :
                 /\ deposits[i].key \in Accounts
                 /\ deposits[i].amount \in Amounts /\ deposits[i].block \in Nat
           /\ \A i \in 1..Len(logs) :
                 /\ logs[i] \in LogEntries
                 /\ logs[i].nullifier \in Nat /\ logs[i].block \in Nat
<1>1. now \in Nat /\ deposits \in Seq(DepositEntries) /\ logs \in Seq(LogEntries) /\ paid \in Seq(Nat)
    BY DEF L1TypeOK
<1>2. /\ Len(deposits) \in Nat /\ Len(logs) \in Nat /\ Len(paid) \in Nat
      /\ \A i \in 1..Len(deposits) : deposits[i] \in DepositEntries
      /\ \A i \in 1..Len(logs) : logs[i] \in LogEntries
    BY <1>1
<1> QED
    BY <1>1, <1>2 DEF DepositEntries, LogEntries

(* What L1 has queued was issued by the sequencer. *)
LEMMA QueueIssued ==
    ASSUME CoreInv, NEW n \in DOMAIN queue
    PROVE  n \in Nat /\ n < seq.next_withdrawal_id
<1>1. PICK h \in 1..Record.height : n \in DOMAIN chain[h].withdrawals
    BY DEF CoreInv, QueueProven
<1>2. h \in 1..Len(chain)
    BY RecordHeight
<1>3. /\ DOMAIN chain[h].withdrawals \subseteq 1..(chain[h].next_withdrawal_id - 1)
      /\ chain[h].next_withdrawal_id \in Nat
    BY <1>2 DEF CoreInv, L2TypeOK, RootTypeOK
<1>4. chain[h].next_withdrawal_id <= seq.next_withdrawal_id
    BY <1>2 DEF CoreInv, RootsExtend, RootExtended
<1>5. seq.next_withdrawal_id \in Nat
    BY SeqNumbers DEF CoreInv, L2TypeOK
<1> QED
    BY <1>1, <1>3, <1>4, <1>5

LEMMA RootStays ==
    ASSUME CoreInv, LedgerOK(seq'), Advances(seq, seq'), NEW h \in 1..Len(chain)
    PROVE  /\ RootExtended(chain[h], seq')
           /\ 1..(chain[h].next_withdrawal_id - 1) \subseteq
                 DOMAIN chain[h].withdrawals \cup DOMAIN seq'.outcome
<1>1. /\ RootExtended(chain[h], seq)
      /\ 1..(chain[h].next_withdrawal_id - 1) \subseteq
             DOMAIN chain[h].withdrawals \cup DOMAIN seq.outcome
    BY DEF CoreInv, RootsExtend
<1>2. RootTypeOK(chain[h])
    BY DEF CoreInv, L2TypeOK
<1>3. /\ Len(chain[h].deposits) \in Nat /\ chain[h].next_withdrawal_id \in Nat
      /\ Len(seq.deposits) \in Nat /\ Len(seq'.deposits) \in Nat
      /\ seq.next_withdrawal_id \in Nat /\ seq'.next_withdrawal_id \in Nat
    BY <1>2, SeqNumbers DEF CoreInv, L2TypeOK, LedgerOK, RootTypeOK
<1>4. /\ Len(chain[h].deposits) <= Len(seq'.deposits)
      /\ chain[h].next_withdrawal_id <= seq'.next_withdrawal_id
    BY <1>1, <1>3 DEF RootExtended, Advances
<1>5. SameAmounts(chain[h].withdrawals, seq'.withdrawals)
  <2> SUFFICES ASSUME NEW id \in DOMAIN chain[h].withdrawals, id \in DOMAIN seq'.withdrawals
               PROVE  chain[h].withdrawals[id].amount = seq'.withdrawals[id].amount
      BY DEF SameAmounts
  <2>1. id \in Nat /\ id < chain[h].next_withdrawal_id
      BY <1>2, <1>3 DEF RootTypeOK
  <2>2. id < seq.next_withdrawal_id
      BY <1>1, <1>3, <2>1 DEF RootExtended
  <2>3. id \in DOMAIN seq.withdrawals /\ seq'.withdrawals[id].amount = seq.withdrawals[id].amount
      BY <2>2 DEF Advances
  <2> QED BY <1>1, <2>3 DEF RootExtended, SameAmounts
<1> QED
    BY <1>1, <1>4, <1>5 DEF RootExtended, Advances

LEMMA RootsStay ==
    ASSUME CoreInv, LedgerOK(seq'), Advances(seq, seq'), UNCHANGED <<deposits, chain>>
    PROVE  RootsExtend'
<1>1. \A h \in 1..Len(chain) :
         /\ chain[h].deposits = DepositRootByCount(Len(chain[h].deposits))
         /\ \A k \in h..Len(chain) : RootExtended(chain[h], chain[k])
    BY DEF CoreInv, RootsExtend
<1>2. \A h \in 1..Len(chain) :
         /\ RootExtended(chain[h], seq')
         /\ 1..(chain[h].next_withdrawal_id - 1) \subseteq
               DOMAIN chain[h].withdrawals \cup DOMAIN seq'.outcome
    BY RootStays
<1> QED
    BY <1>1, <1>2 DEF RootsExtend, DepositRootByCount

(* A step of the sequencer that commits no block. *)
LEMMA CoreLedger ==
    ASSUME CoreInv, LedgerOK(seq'), Advances(seq, seq'), DepositsInOrder', trades' \in Nat,
           \A id \in DOMAIN seq'.outcome \ DOMAIN seq.outcome :
              seq'.outcome[id].status = "finalized" => id \in DOMAIN queue /\ queue[id].finalized,
           UNCHANGED <<l1Vars, chain>>
    PROVE  CoreInv'
<1>0. /\ UNCHANGED <<now, deposits, accepted, settlementPaused, chain>>
      /\ UNCHANGED <<vaultPaused, nullifierUsed, queue, escape, escapeUsed, tokens, logs, paid>>
    BY DEF l1Vars, settlementVars, vaultVars
<1>1. L1TypeOK' /\ Calendar'
    BY <1>0 DEF CoreInv, L1TypeOK, Calendar
<1>2. L2TypeOK' /\ Ledger(seq)'
    BY <1>0 DEF CoreInv, L2TypeOK, LedgerOK
<1>3. RootsExtend'
    BY <1>0, RootsStay
<1>4. AcceptedRoots' /\ Record' = Record
    BY <1>0 DEF CoreInv, AcceptedRoots, EscapeModeActive, Latest, Record
<1>5. QueueProven' /\ NullifierHeld' /\ PaidOnce'
    BY <1>0, <1>4 DEF CoreInv, QueueProven, NullifierHeld, PaidOnce
<1>6. EventsTrue'
  <2>1. \A id \in DOMAIN seq.outcome : seq'.outcome[id] = seq.outcome[id]
      BY DEF Advances
  <2>2. ASSUME NEW id \in DOMAIN seq'.outcome, seq'.outcome[id].status = "finalized"
        PROVE  id \in DOMAIN queue /\ queue[id].finalized
    <3>1. CASE id \in DOMAIN seq.outcome
        BY <2>1, <2>2, <3>1 DEF CoreInv, EventsTrue
    <3>2. CASE id \notin DOMAIN seq.outcome
        BY <2>2, <3>2
    <3> QED BY <3>1, <3>2
  <2> QED BY <1>0, <2>2 DEF CoreInv, EventsTrue
<1> QED
    BY <1>1, <1>2, <1>3, <1>4, <1>5, <1>6 DEF CoreInv

(* Appending to a sequence of no particular type. *)
IsAppend(t, s, e) ==
    /\ IsSequence(t)
    /\ Len(s) \in Nat /\ Len(t) = Len(s) + 1
    /\ \A i \in 1..Len(s) : t[i] = s[i]
    /\ t[Len(t)] = e

LEMMA AppendAny ==
    ASSUME NEW s, IsSequence(s), NEW e
    PROVE  IsAppend(Append(s, e), s, e)
<1> DEFINE t == Append(s, e)
<1> DEFINE S == Range(s) \cup {e}
<1>1. s \in Seq(S)
  <2>1. s \in Seq(Range(s)) /\ Range(s) \subseteq S
      BY DEF IsSequence
  <2> HIDE DEF S
  <2> QED BY <2>1
<1>2. e \in S
    OBVIOUS
<1> HIDE DEF S
<1>3. /\ t \in Seq(S) /\ Len(s) \in Nat /\ Len(t) = Len(s) + 1
      /\ \A i \in 1..Len(s) : t[i] = s[i]
      /\ t[Len(t)] = e
    BY <1>1, <1>2
<1>4. \A i \in 1..Len(t) : t[i] \in Range(t)
    BY <1>3 DEF Range
<1>5. t \in Seq(Range(t))
    BY <1>3, <1>4
<1> QED
    BY <1>3, <1>5 DEF IsSequence, IsAppend

LEMMA StateRootFields ==
    ASSUME NEW s, LedgerOK(s), DOMAIN s.withdrawals = Open(s), NEW r, r = StateRoot(s)
    PROVE  /\ RootTypeOK(r)
           /\ r.balance = s.balance /\ r.quarantine = s.quarantine
           /\ r.deposits = s.deposits
           /\ r.next_id = s.next_id /\ r.next_withdrawal_id = s.next_withdrawal_id
           /\ DOMAIN r.withdrawals = DOMAIN s.withdrawals
           /\ \A id \in DOMAIN s.withdrawals :
                 r.withdrawals[id].amount = s.withdrawals[id].amount
<1>1. /\ r.balance = s.balance /\ r.quarantine = s.quarantine
      /\ r.deposits = s.deposits
      /\ r.next_id = s.next_id /\ r.next_withdrawal_id = s.next_withdrawal_id
      /\ r.withdrawals = [id \in DOMAIN s.withdrawals |->
                            [account |-> s.withdrawals[id].account,
                             amount |-> s.withdrawals[id].amount,
                             expiry_height |-> s.withdrawals[id].expiry_height]]
    BY DEF StateRoot
<1>2. s.withdrawals \in [DOMAIN s.withdrawals -> Leaves]
    BY DEF LedgerOK, SeqTypeOK
<1>3. /\ DOMAIN r.withdrawals = DOMAIN s.withdrawals
      /\ r.withdrawals \in [DOMAIN r.withdrawals -> RootLeaves]
      /\ \A id \in DOMAIN s.withdrawals :
            r.withdrawals[id].amount = s.withdrawals[id].amount
  <2>1. \A id \in DOMAIN s.withdrawals :
           [account |-> s.withdrawals[id].account, amount |-> s.withdrawals[id].amount,
            expiry_height |-> s.withdrawals[id].expiry_height] \in RootLeaves
      BY <1>2 DEF Leaves, RootLeaves
  <2> QED BY <1>1, <2>1
<1>4. DOMAIN r.withdrawals \subseteq 1..(r.next_withdrawal_id - 1)
    BY <1>1, <1>3 DEF LedgerOK, Ledger
<1>5. RootTypeOK(r)
    BY <1>1, <1>3, <1>4 DEF RootTypeOK, LedgerOK, SeqTypeOK
<1> QED
    BY <1>1, <1>3, <1>5

LEMMA CoreBlock ==
    ASSUME CoreInv, ProduceBlock, UNCHANGED l1Vars
    PROVE  CoreInv' /\ LedgerOK(seq') /\ Advances(seq, seq')
<1>0. /\ UNCHANGED <<now, deposits, accepted, settlementPaused>>
      /\ UNCHANGED <<vaultPaused, nullifierUsed, queue, escape, escapeUsed, tokens, logs, paid>>
    BY DEF l1Vars, settlementVars, vaultVars
<1>1. LedgerOK(seq)
    BY DEF CoreInv, L2TypeOK, LedgerOK
<1>2. /\ LedgerOK(seq') /\ Advances(seq, seq')
      /\ Open(seq') = Open(seq) /\ DOMAIN seq'.withdrawals = Open(seq)
      /\ seq'.deposits = seq.deposits /\ seq'.outcome = seq.outcome
      /\ seq'.next_withdrawal_id = seq.next_withdrawal_id
    BY <1>1, BlockOK
<1> DEFINE R == StateRoot(seq')
           n == Len(chain)
<1>3. /\ RootTypeOK(R)
      /\ R.deposits = seq.deposits
      /\ R.next_withdrawal_id = seq'.next_withdrawal_id
      /\ DOMAIN R.withdrawals = DOMAIN seq'.withdrawals
      /\ \A id \in DOMAIN seq'.withdrawals :
            R.withdrawals[id].amount = seq'.withdrawals[id].amount
    BY <1>2, StateRootFields
<1>4. chain' = Append(chain, R) /\ trades' = trades
    BY DEF ProduceBlock
<1> HIDE DEF R
<1>5. /\ IsSequence(chain') /\ n \in Nat /\ Len(chain') = n + 1
      /\ \A h \in 1..n : chain'[h] = chain[h]
      /\ chain'[n + 1] = R
  <2>1. IsSequence(chain)
      BY DEF CoreInv, L2TypeOK
  <2>2. /\ IsSequence(chain') /\ n \in Nat /\ Len(chain') = n + 1
        /\ \A h \in 1..n : chain'[h] = chain[h]
        /\ chain'[Len(chain')] = R
    <3>1. IsAppend(chain', chain, R)
        BY <1>4, <2>1, AppendAny
    <3> QED BY <3>1 DEF IsAppend
  <2> QED BY <2>2
<1>6. \A h \in 1..(n + 1) : h \in 1..n \/ h = n + 1
    BY <1>5
<1>7. L1TypeOK' /\ Calendar'
    BY <1>0 DEF CoreInv, L1TypeOK, Calendar
<1>8. L2TypeOK' /\ Ledger(seq)'
  <2>1. \A h \in 1..(n + 1) : RootTypeOK(chain'[h])
      BY <1>3, <1>5, <1>6 DEF CoreInv, L2TypeOK
  <2> QED BY <1>2, <1>4, <1>5, <2>1 DEF CoreInv, L2TypeOK, LedgerOK
<1>9. DepositsInOrder'
    BY <1>0, <1>2 DEF CoreInv, DepositsInOrder, DepositRootByCount
<1>10. RootsExtend'
  <2>1. /\ Len(seq.deposits) \in Nat /\ seq.next_withdrawal_id \in Nat
      BY <1>1, SeqNumbers DEF LedgerOK
  <2>2. RootExtended(R, seq') /\ RootExtended(R, R)
      BY <1>2, <1>3, <2>1 DEF RootExtended, SameAmounts
  <2>3. 1..(R.next_withdrawal_id - 1) \subseteq DOMAIN R.withdrawals \cup DOMAIN seq'.outcome
      BY <1>2, <1>3 DEF LedgerOK, Ledger
  <2>4. R.deposits = DepositRootByCount(Len(R.deposits))
      BY <1>3 DEF CoreInv, DepositsInOrder
  <2>5. ASSUME NEW h \in 1..n
        PROVE  /\ RootExtended(chain[h], seq')
               /\ RootExtended(chain[h], R)
               /\ 1..(chain[h].next_withdrawal_id - 1) \subseteq
                     DOMAIN chain[h].withdrawals \cup DOMAIN seq'.outcome
    <3>1. /\ RootExtended(chain[h], seq')
          /\ 1..(chain[h].next_withdrawal_id - 1) \subseteq
                DOMAIN chain[h].withdrawals \cup DOMAIN seq'.outcome
        BY <1>2, RootStays
    <3>2. RootExtended(chain[h], R)
        BY <1>2, <1>3, <3>1 DEF RootExtended, SameAmounts
    <3> QED BY <3>1, <3>2
  <2>6. ASSUME NEW h \in 1..n
        PROVE  /\ chain[h].deposits = DepositRootByCount(Len(chain[h].deposits))
               /\ \A k \in h..n : RootExtended(chain[h], chain[k])
      BY DEF CoreInv, RootsExtend
  <2>7. ASSUME NEW h \in 1..(n + 1), NEW k \in h..(n + 1)
        PROVE  RootExtended(chain'[h], chain'[k])
    <3>1. CASE h = n + 1
      <4>1. k = n + 1
          BY <1>5, <3>1
      <4> QED BY <1>5, <2>2, <3>1, <4>1
    <3>2. CASE h \in 1..n /\ k = n + 1
        BY <1>5, <2>5, <3>2
    <3>3. CASE h \in 1..n /\ k # n + 1
      <4>1. k \in h..n /\ k \in 1..n
          BY <1>5, <3>3
      <4> QED BY <1>5, <2>6, <3>3, <4>1
    <3> QED BY <1>6, <3>1, <3>2, <3>3
  <2>8. ASSUME NEW h \in 1..(n + 1)
        PROVE  /\ chain'[h].deposits = DepositRootByCount(Len(chain'[h].deposits))
               /\ RootExtended(chain'[h], seq')
               /\ 1..(chain'[h].next_withdrawal_id - 1) \subseteq
                     DOMAIN chain'[h].withdrawals \cup DOMAIN seq'.outcome
    <3>1. CASE h = n + 1
        BY <1>5, <2>2, <2>3, <2>4, <3>1
    <3>2. CASE h \in 1..n
        BY <1>5, <2>5, <2>6, <3>2
    <3> QED BY <1>6, <3>1, <3>2
  <2> QED BY <1>0, <1>5, <2>7, <2>8 DEF RootsExtend, DepositRootByCount
<1>11. AcceptedRoots' /\ Record' = Record
  <2>1. Latest' = Latest /\ EscapeModeActive' = EscapeModeActive
      BY <1>0 DEF Latest, EscapeModeActive
  <2>2. \A i \in 1..Len(accepted) :
           /\ accepted[i].height \in 1..(n + 1)
           /\ accepted[i].root = chain'[accepted[i].height]
      BY <1>5 DEF CoreInv, AcceptedRoots
  <2> QED BY <1>0, <1>5, <2>1, <2>2 DEF CoreInv, AcceptedRoots, Record
<1>12. QueueProven'
  <2>1. Record.height \in 0..n
      BY RecordHeight
  <2>2. \A h \in 1..Record.height : chain'[h] = chain[h]
      BY <1>5, <2>1
  <2> QED BY <1>0, <1>11, <2>2 DEF CoreInv, QueueProven
<1>13. NullifierHeld' /\ PaidOnce' /\ EventsTrue'
    BY <1>0, <1>2 DEF CoreInv, NullifierHeld, PaidOnce, EventsTrue
<1> QED
    BY <1>2, <1>7, <1>8, <1>9, <1>10, <1>11, <1>12, <1>13 DEF CoreInv

LEMMA CoreTick ==
    ASSUME CoreInv, Tick
    PROVE  CoreInv'
<1>0. /\ now' = now + 1 /\ UNCHANGED <<deposits, accepted, settlementPaused, chain, seq, trades>>
      /\ UNCHANGED <<vaultPaused, nullifierUsed, queue, escape, escapeUsed, tokens, logs, paid>>
    BY DEF Tick, settlementVars, vaultVars, l2Vars
<1>2. /\ now \in Nat /\ Len(deposits) \in Nat
      /\ \A i \in 1..Len(deposits) : deposits[i].block \in Nat
      /\ \A i \in 1..Len(logs) : logs[i].block \in Nat
    BY L1Entries DEF CoreInv
<1>1. L1TypeOK' /\ L2TypeOK' /\ Ledger(seq)'
  <2>1. now + 1 \in Nat \ {0}
      BY <1>2
  <2>2. L1TypeOK'
      BY <1>0, <2>1 DEF CoreInv, L1TypeOK
  <2> QED BY <1>0, <2>2 DEF CoreInv, L2TypeOK
<1>3. Calendar' /\ DepositsInOrder'
  <2>1. \A i \in 1..Len(deposits) : deposits[i].block \in Nat /\ deposits[i].block <= now
      BY <1>2 DEF CoreInv, Calendar
  <2>2. \A i \in 1..Len(logs) : logs[i].block \in Nat /\ logs[i].block <= now
      BY <1>2 DEF CoreInv, Calendar
  <2>3. Calendar'
      BY <1>0, <1>2, <2>1, <2>2 DEF Calendar
  <2>4. Len(seq.deposits) \in Nat /\ Len(deposits) \in Nat /\ Len(seq.deposits) <= Len(deposits)
      BY <1>2, SeqNumbers DEF CoreInv, L2TypeOK, DepositsInOrder
  <2>5. \A i \in 1..Len(seq.deposits) : deposits[i].block < now + 1
      BY <1>2, <2>1, <2>4
  <2> QED BY <1>0, <2>3, <2>5 DEF CoreInv, DepositsInOrder, DepositRootByCount
<1>4. RootsExtend'
    BY <1>0 DEF CoreInv, RootsExtend, DepositRootByCount
<1>5. AcceptedRoots' /\ Record' = Record
    BY <1>0 DEF CoreInv, AcceptedRoots, EscapeModeActive, Latest, Record
<1>6. QueueProven' /\ NullifierHeld' /\ PaidOnce' /\ EventsTrue'
    BY <1>0, <1>5 DEF CoreInv, QueueProven, NullifierHeld, PaidOnce, EventsTrue
<1> QED
    BY <1>1, <1>3, <1>4, <1>5, <1>6 DEF CoreInv

LEMMA CoreSettlement ==
    ASSUME CoreInv, Settlement
    PROVE  CoreInv'
<1>0. /\ UNCHANGED <<now, deposits, chain, seq, trades>>
      /\ UNCHANGED <<vaultPaused, nullifierUsed, queue, escape, escapeUsed, tokens, logs, paid>>
    BY DEF Settlement, vaultVars, l2Vars
<1>1. Calendar' /\ DepositsInOrder' /\ L2TypeOK' /\ Ledger(seq)' /\ RootsExtend'
    BY <1>0 DEF CoreInv, Calendar, DepositsInOrder, DepositRootByCount, L2TypeOK, RootsExtend
<1>2. NullifierHeld' /\ PaidOnce' /\ EventsTrue'
    BY <1>0 DEF CoreInv, NullifierHeld, PaidOnce, EventsTrue
<1>3. ASSUME L1TypeOK', AcceptedRoots', Record'.height \in Nat, Record.height <= Record'.height
      PROVE  CoreInv'
  <2>1. Record.height \in Nat
      BY RecordHeight
  <2>2. \A h \in 1..Record.height : h \in 1..Record'.height
      BY <1>3, <2>1
  <2>3. QueueProven'
      BY <1>0, <2>2 DEF CoreInv, QueueProven
  <2> QED BY <1>1, <1>2, <1>3, <2>3 DEF CoreInv
<1>4. CASE PauseSettlement
  <2>1. L1TypeOK'
      BY <1>0, <1>4 DEF CoreInv, L1TypeOK, PauseSettlement
  <2>2. AcceptedRoots' /\ Record' = Record
      BY <1>0, <1>4 DEF CoreInv, AcceptedRoots, EscapeModeActive, Latest, Record, PauseSettlement
  <2>3. Record.height \in Nat
      BY RecordHeight
  <2> QED BY <1>3, <2>1, <2>2, <2>3
<1>5. ASSUME NEW h \in 1..Len(chain), SubmitStateRoot(h)
      PROVE  CoreInv'
  <2> DEFINE rec == [height |-> h, verifiedAt |-> now, root |-> chain[h]]
             n == Len(accepted)
  <2>1. accepted' = Append(accepted, rec) /\ settlementPaused' = settlementPaused
        /\ h > Latest.height
      BY <1>5 DEF SubmitStateRoot
  <2>2. L1TypeOK'
      BY <1>0, <2>1 DEF CoreInv, L1TypeOK
  <2>3. rec.height = h /\ rec.verifiedAt = now /\ rec.root = chain[h]
      OBVIOUS
  <2> HIDE DEF rec
  <2>4. /\ IsSequence(accepted') /\ n \in Nat /\ Len(accepted') = n + 1
        /\ \A i \in 1..n : accepted'[i] = accepted[i]
        /\ accepted'[n + 1] = rec
    <3>1. IsAppend(accepted', accepted, rec)
        BY <2>1, AppendAny DEF CoreInv, AcceptedRoots
    <3> QED BY <3>1 DEF IsAppend
  <2>5. Latest' = rec
    <3>1. accepted' # <<>>
        BY <2>4
    <3> QED BY <2>4, <3>1 DEF Latest
  <2>6. Latest.height \in 0..Len(chain) /\ Record.height \in 0..Len(chain)
        /\ Record.height <= Latest.height /\ Len(chain) \in Nat
      BY RecordHeight
  <2>7. \A i \in 1..(n + 1) : i \in 1..n \/ i = n + 1
      BY <2>4
  <2>8. ASSUME NEW i \in 1..(n + 1)
        PROVE  /\ accepted'[i].height \in 1..Len(chain)
               /\ accepted'[i].verifiedAt \in Nat
               /\ accepted'[i].root = chain[accepted'[i].height]
               /\ accepted'[i].height <= h
    <3>1. CASE i = n + 1
      <4>1. now \in Nat
          BY L1Entries DEF CoreInv
      <4> QED BY <2>3, <2>4, <2>6, <3>1, <4>1
    <3>2. CASE i \in 1..n
      <4>1. /\ accepted[i].height \in 1..Len(chain)
            /\ accepted[i].verifiedAt \in Nat
            /\ accepted[i].root = chain[accepted[i].height]
            /\ accepted[i].height <= Latest.height
          BY <3>2 DEF CoreInv, AcceptedRoots
      <4> QED BY <2>1, <2>4, <2>6, <3>2, <4>1
    <3> QED BY <2>7, <3>1, <3>2
  <2>9. EscapeModeActive' = EscapeModeActive
      BY <1>0 DEF EscapeModeActive, NoRoot
  <2>10. EscapeModeActive => \E i \in 1..(n + 1) : escape = accepted'[i]
      BY <2>4, <2>7 DEF CoreInv, AcceptedRoots
  <2>11. AcceptedRoots'
      BY <1>0, <2>3, <2>4, <2>5, <2>8, <2>9, <2>10 DEF CoreInv, AcceptedRoots
  <2>12. Record'.height \in Nat /\ Record.height <= Record'.height
    <3>1. CASE EscapeModeActive
        BY <1>0, <2>6, <2>9, <3>1 DEF Record
    <3>2. CASE ~EscapeModeActive
        BY <2>1, <2>3, <2>5, <2>6, <2>9, <3>2 DEF Record
    <3> QED BY <3>1, <3>2
  <2> QED BY <1>3, <2>2, <2>11, <2>12
<1> QED
    BY <1>4, <1>5 DEF Settlement

(* Steps of the vault leave L2 and the settlement contract alone. *)
VaultFrame == UNCHANGED <<now, accepted, settlementPaused, chain, seq, trades>>

LEMMA CoreFrame ==
    ASSUME CoreInv, VaultFrame, UNCHANGED <<deposits, escape, escapeUsed>>
    PROVE  /\ L2TypeOK' /\ DepositsInOrder' /\ Ledger(seq)' /\ RootsExtend'
           /\ AcceptedRoots' /\ Record' = Record
<1>0. UNCHANGED <<now, accepted, chain, seq, trades, deposits, escape, escapeUsed>>
    BY DEF VaultFrame
<1>1. L2TypeOK' /\ DepositsInOrder' /\ Ledger(seq)' /\ RootsExtend'
    BY <1>0 DEF CoreInv, L2TypeOK, DepositsInOrder, DepositRootByCount, RootsExtend
<1>2. AcceptedRoots' /\ Record' = Record
    BY <1>0 DEF CoreInv, AcceptedRoots, EscapeModeActive, Latest, Record
<1> QED
    BY <1>1, <1>2

LEMMA CoreDeposit ==
    ASSUME CoreInv, VaultFrame, NEW key \in Accounts, NEW amount \in Amounts, Deposit(key, amount)
    PROVE  CoreInv'
<1>0. /\ UNCHANGED <<now, accepted, settlementPaused, chain, seq, trades>>
      /\ UNCHANGED <<vaultPaused, nullifierUsed, queue, escape, escapeUsed, logs, paid>>
      /\ tokens' = tokens + amount
    BY DEF VaultFrame, Deposit
<1> DEFINE d == [key |-> key, amount |-> amount, block |-> now]
           n == Len(deposits)
<1>1. deposits' = Append(deposits, d)
    BY DEF Deposit
<1>2. now \in Nat \ {0} /\ deposits \in Seq(DepositEntries) /\ tokens \in Nat
    BY DEF CoreInv, L1TypeOK
<1>3. d \in DepositEntries /\ d.block = now
    BY <1>2 DEF DepositEntries
<1> HIDE DEF d
<1>4. /\ deposits' \in Seq(DepositEntries) /\ n \in Nat /\ Len(deposits') = n + 1
      /\ \A i \in 1..n : deposits'[i] = deposits[i]
      /\ deposits'[n + 1] = d
    BY <1>1, <1>2, <1>3
<1>5. L1TypeOK'
  <2>1. tokens' \in Nat
      BY <1>0, <1>2
  <2> QED BY <1>0, <1>4, <2>1 DEF CoreInv, L1TypeOK
<1>6. Calendar'
  <2>1. \A i \in 1..(n + 1) : i \in 1..n \/ i = n + 1
      BY <1>4
  <2>2. \A i \in 1..(n + 1) : deposits'[i].block <= now
      BY <1>2, <1>3, <1>4, <2>1 DEF CoreInv, Calendar
  <2> QED BY <1>0, <1>4, <2>2 DEF CoreInv, Calendar
<1>7. \A c \in 0..n : DepositRootByCount(c)' = DepositRootByCount(c)
    BY <1>4 DEF DepositRootByCount
<1>8. Len(seq.deposits) \in Nat /\ Len(seq.deposits) <= n
    BY SeqNumbers DEF CoreInv, L2TypeOK, DepositsInOrder
<1>9. DepositsInOrder'
  <2>1. DepositRootByCount(Len(seq.deposits))' = DepositRootByCount(Len(seq.deposits))
      BY <1>0, <1>4, <1>8 DEF DepositRootByCount
  <2>2. \A i \in 1..Len(seq.deposits) : deposits'[i].block < now
      BY <1>4, <1>8 DEF CoreInv, DepositsInOrder
  <2>3. Len(seq.deposits) <= Len(deposits')
      BY <1>4, <1>8
  <2> QED BY <1>0, <2>1, <2>2, <2>3 DEF CoreInv, DepositsInOrder
<1>10. RootsExtend'
  <2>1. ASSUME NEW h \in 1..Len(chain)
        PROVE  chain[h].deposits
               = [i \in 1..Len(chain[h].deposits) |->
                    DepositLeaf(deposits'[i].key, deposits'[i].amount)]
    <3>1. Len(chain[h].deposits) \in Nat /\ Len(chain[h].deposits) <= n
        BY <1>4, <1>8 DEF CoreInv, L2TypeOK, RootTypeOK, RootsExtend, RootExtended
    <3>2. \A i \in 1..Len(chain[h].deposits) : deposits'[i] = deposits[i]
        BY <1>4, <3>1
    <3>3. chain[h].deposits
          = [i \in 1..Len(chain[h].deposits) |-> DepositLeaf(deposits[i].key, deposits[i].amount)]
        BY DEF CoreInv, RootsExtend, DepositRootByCount
    <3> QED BY <3>2, <3>3
  <2>2. \A h \in 1..Len(chain) :
           /\ RootExtended(chain[h], seq)
           /\ \A k \in h..Len(chain) : RootExtended(chain[h], chain[k])
           /\ 1..(chain[h].next_withdrawal_id - 1) \subseteq
                  DOMAIN chain[h].withdrawals \cup DOMAIN seq.outcome
      BY DEF CoreInv, RootsExtend
  <2> QED BY <1>0, <2>1, <2>2 DEF RootsExtend, DepositRootByCount
<1>11. AcceptedRoots' /\ Record' = Record /\ L2TypeOK' /\ Ledger(seq)'
    BY <1>0 DEF CoreInv, AcceptedRoots, EscapeModeActive, Latest, Record, L2TypeOK
<1>12. QueueProven' /\ NullifierHeld' /\ PaidOnce' /\ EventsTrue'
    BY <1>0, <1>11 DEF CoreInv, QueueProven, NullifierHeld, PaidOnce, EventsTrue
<1> QED
    BY <1>5, <1>6, <1>9, <1>10, <1>11, <1>12 DEF CoreInv

(* A log entry more. *)
LEMMA LogAppended ==
    ASSUME CoreInv, NEW status \in {"queued", "finalized", "cancelled"}, NEW n \in Nat,
           Log(status, n), UNCHANGED <<now, deposits>>
    PROVE  /\ logs' \in Seq(LogEntries)
           /\ Len(logs) \in Nat /\ Len(logs') = Len(logs) + 1
           /\ \A i \in 1..Len(logs) : logs'[i] = logs[i]
           /\ logs'[Len(logs) + 1] = [status |-> status, nullifier |-> n, block |-> now]
           /\ \A i \in 1..Len(logs') : i \in 1..Len(logs) \/ i = Len(logs) + 1
           /\ Calendar'
<1> DEFINE e == [status |-> status, nullifier |-> n, block |-> now]
<1>1. logs' = Append(logs, e)
    BY DEF Log
<1>2. now \in Nat /\ logs \in Seq(LogEntries)
    BY DEF CoreInv, L1TypeOK
<1>3. e \in LogEntries /\ e.block = now
    BY <1>2 DEF LogEntries
<1> HIDE DEF e
<1>4. /\ logs' \in Seq(LogEntries)
      /\ Len(logs) \in Nat /\ Len(logs') = Len(logs) + 1
      /\ \A i \in 1..Len(logs) : logs'[i] = logs[i]
      /\ logs'[Len(logs) + 1] = e
    BY <1>1, <1>2, <1>3
<1>5. \A i \in 1..Len(logs') : i \in 1..Len(logs) \/ i = Len(logs) + 1
    BY <1>4
<1>6. \A i \in 1..Len(logs') : logs'[i].block <= now
    BY <1>2, <1>3, <1>4, <1>5 DEF CoreInv, Calendar
<1>7. Calendar'
    BY <1>6 DEF CoreInv, Calendar
<1> QED
    BY <1>4, <1>5, <1>7 DEF e

LEMMA CoreRequest ==
    ASSUME CoreInv, VaultFrame, NEW i \in 1..Len(accepted),
           NEW n \in DOMAIN accepted[i].root.withdrawals, RequestWithdrawal(i, n)
    PROVE  CoreInv'
<1>0. /\ UNCHANGED <<now, accepted, settlementPaused, chain, seq, trades>>
      /\ UNCHANGED <<deposits, vaultPaused, escape, escapeUsed, tokens, paid>>
    BY DEF VaultFrame, RequestWithdrawal
<1>1. /\ ~EscapeModeActive /\ n \notin nullifierUsed
      /\ nullifierUsed' = nullifierUsed \cup {n}
      /\ Log("queued", n)
    BY DEF RequestWithdrawal, NullifierFree
<1> DEFINE entry == [amount |-> accepted[i].root.withdrawals[n].amount,
                     executableAt |-> now + WithdrawalDelay,
                     finalized |-> FALSE, canceled |-> FALSE]
           h == accepted[i].height
<1>2. queue' = [x \in DOMAIN queue \cup {n} |-> IF x = n THEN entry ELSE queue[x]]
    BY DEF RequestWithdrawal
<1>3. /\ h \in 1..Len(chain) /\ accepted[i].root = chain[h] /\ h <= Latest.height
    BY DEF CoreInv, AcceptedRoots
<1>4. n \in Nat /\ chain[h].withdrawals[n].amount \in Amounts
  <2>1. RootTypeOK(chain[h]) /\ n \in DOMAIN chain[h].withdrawals
      BY <1>3 DEF CoreInv, L2TypeOK
  <2>2. n \in 1..(chain[h].next_withdrawal_id - 1) /\ chain[h].withdrawals[n] \in RootLeaves
      BY <2>1 DEF RootTypeOK
  <2> QED BY <2>2 DEF RootLeaves
<1>5. entry \in QueueEntries /\ entry.amount = chain[h].withdrawals[n].amount
      /\ entry.finalized = FALSE /\ entry.canceled = FALSE
  <2>1. now + WithdrawalDelay \in Nat
    <3>1. now \in Nat
        BY DEF CoreInv, L1TypeOK
    <3> QED BY <3>1, VaultAssumption
  <2> QED BY <1>3, <1>4, <2>1 DEF QueueEntries
<1> HIDE DEF entry
<1>6. /\ DOMAIN queue' = DOMAIN queue \cup {n}
      /\ queue'[n] = entry
      /\ \A x \in DOMAIN queue : x # n => queue'[x] = queue[x]
    BY <1>2
<1>7. /\ logs' \in Seq(LogEntries)
      /\ Len(logs) \in Nat /\ Len(logs') = Len(logs) + 1
      /\ \A k \in 1..Len(logs) : logs'[k] = logs[k]
      /\ logs'[Len(logs) + 1] = [status |-> "queued", nullifier |-> n, block |-> now]
      /\ \A k \in 1..Len(logs') : k \in 1..Len(logs) \/ k = Len(logs) + 1
      /\ Calendar'
    BY <1>0, <1>1, <1>4, LogAppended
<1>8. L1TypeOK'
  <2>1. queue \in [DOMAIN queue -> QueueEntries]
      BY DEF CoreInv, L1TypeOK
  <2>2. queue' \in [DOMAIN queue' -> QueueEntries]
      BY <1>2, <1>5, <2>1
  <2> QED BY <1>0, <1>7, <2>2 DEF CoreInv, L1TypeOK
<1>9. /\ L2TypeOK' /\ DepositsInOrder' /\ Ledger(seq)' /\ RootsExtend'
      /\ AcceptedRoots' /\ Record' = Record
    BY <1>0, CoreFrame
<1>10. QueueProven'
  <2>1. Record = Latest
      BY <1>1 DEF Record
  <2>2. h \in 1..Record.height
      BY <1>3, <2>1, RecordHeight
  <2>3. ASSUME NEW x \in DOMAIN queue, x # n
        PROVE  \E k \in 1..Record.height : /\ x \in DOMAIN chain[k].withdrawals
                                           /\ queue'[x].amount = chain[k].withdrawals[x].amount
      BY <1>6, <2>3 DEF CoreInv, QueueProven
  <2>4. n \in DOMAIN chain[h].withdrawals /\ queue'[n].amount = chain[h].withdrawals[n].amount
      BY <1>3, <1>5, <1>6
  <2> QED BY <1>0, <1>6, <1>9, <2>2, <2>3, <2>4 DEF QueueProven
<1>11. \A x \in DOMAIN queue : queue[x].finalized => x # n
  <2> SUFFICES ASSUME NEW x \in DOMAIN queue, queue[x].finalized PROVE x \in nullifierUsed
      BY <1>1
  <2> QED BY DEF CoreInv, NullifierHeld
<1>12. NullifierHeld' /\ PaidOnce'
  <2>1. \A x \in DOMAIN queue' : /\ ~queue'[x].canceled => x \in nullifierUsed'
                                 /\ ~(queue'[x].canceled /\ queue'[x].finalized)
      BY <1>1, <1>5, <1>6 DEF CoreInv, NullifierHeld
  <2>2. \A k \in 1..Len(paid) : paid[k] \in DOMAIN queue' /\ queue'[paid[k]].finalized
      BY <1>6, <1>11 DEF CoreInv, NullifierHeld
  <2> QED BY <1>0, <2>1, <2>2 DEF CoreInv, NullifierHeld, PaidOnce
<1>13. EventsTrue'
  <2>1. ASSUME NEW k \in 1..Len(logs')
        PROVE  /\ logs'[k].nullifier \in DOMAIN queue'
               /\ logs'[k].status = "finalized" => queue'[logs'[k].nullifier].finalized
    <3>1. CASE k = Len(logs) + 1
        BY <1>6, <1>7, <3>1
    <3>2. CASE k \in 1..Len(logs)
        BY <1>6, <1>7, <1>11, <3>2 DEF CoreInv, EventsTrue
    <3> QED BY <1>7, <3>1, <3>2
  <2>2. \A id \in DOMAIN seq.outcome :
           seq.outcome[id].status = "finalized" => id \in DOMAIN queue' /\ queue'[id].finalized
      BY <1>6, <1>11 DEF CoreInv, EventsTrue
  <2> QED BY <1>0, <2>1, <2>2 DEF EventsTrue
<1> QED
    BY <1>7, <1>8, <1>9, <1>10, <1>12, <1>13 DEF CoreInv

(* A step that only turns a flag of one queued withdrawal. *)
FlagTurned(n) ==
    /\ DOMAIN queue' = DOMAIN queue
    /\ queue' \in [DOMAIN queue' -> QueueEntries]
    /\ \A x \in DOMAIN queue : queue'[x].amount = queue[x].amount
    /\ \A x \in DOMAIN queue : x # n => queue'[x] = queue[x]
    /\ queue[n].finalized => queue'[n].finalized

LEMMA CoreFlag ==
    ASSUME CoreInv, VaultFrame, NEW n \in DOMAIN queue, FlagTurned(n),
           UNCHANGED <<deposits, vaultPaused, escape, escapeUsed>>, tokens' \in Nat,
           paid' \in Seq(Nat), NullifierHeld', PaidOnce',
           NEW status \in {"queued", "finalized", "cancelled"}, Log(status, n),
           status = "finalized" => queue'[n].finalized
    PROVE  CoreInv'
<1>0. UNCHANGED <<now, accepted, settlementPaused, chain, seq, trades>>
    BY DEF VaultFrame
<1>1. n \in Nat
    BY QueueIssued
<1>2. /\ logs' \in Seq(LogEntries)
      /\ Len(logs) \in Nat /\ Len(logs') = Len(logs) + 1
      /\ \A k \in 1..Len(logs) : logs'[k] = logs[k]
      /\ logs'[Len(logs) + 1] = [status |-> status, nullifier |-> n, block |-> now]
      /\ \A k \in 1..Len(logs') : k \in 1..Len(logs) \/ k = Len(logs) + 1
      /\ Calendar'
    BY <1>0, <1>1, LogAppended
<1>3. L1TypeOK'
    BY <1>0, <1>2 DEF CoreInv, L1TypeOK, FlagTurned
<1>4. /\ L2TypeOK' /\ DepositsInOrder' /\ Ledger(seq)' /\ RootsExtend'
      /\ AcceptedRoots' /\ Record' = Record
    BY CoreFrame
<1>5. QueueProven'
    BY <1>0, <1>4 DEF CoreInv, QueueProven, FlagTurned
<1>6. EventsTrue'
  <2>0. \A x \in DOMAIN queue : queue[x].finalized => queue'[x].finalized
      BY DEF FlagTurned
  <2>1. ASSUME NEW k \in 1..Len(logs')
        PROVE  /\ logs'[k].nullifier \in DOMAIN queue'
               /\ logs'[k].status = "finalized" => queue'[logs'[k].nullifier].finalized
    <3>1. CASE k = Len(logs) + 1
      <4>1. logs'[k].nullifier = n /\ logs'[k].status = status
          BY <1>2, <3>1
      <4>2. n \in DOMAIN queue'
          BY DEF FlagTurned
      <4> QED BY <4>1, <4>2
    <3>2. CASE k \in 1..Len(logs)
        BY <1>2, <2>0, <3>2 DEF CoreInv, EventsTrue, FlagTurned
    <3> QED BY <1>2, <3>1, <3>2
  <2>2. \A id \in DOMAIN seq.outcome :
           seq.outcome[id].status = "finalized" => id \in DOMAIN queue' /\ queue'[id].finalized
      BY <2>0 DEF CoreInv, EventsTrue, FlagTurned
  <2> QED BY <1>0, <2>1, <2>2 DEF EventsTrue
<1> QED
    BY <1>2, <1>3, <1>4, <1>5, <1>6 DEF CoreInv

LEMMA CoreFinalize ==
    ASSUME CoreInv, VaultFrame, NEW n \in DOMAIN queue, FinalizeWithdrawal(n)
    PROVE  CoreInv'
<1>0. /\ UNCHANGED <<deposits, vaultPaused, nullifierUsed, escape, escapeUsed>>
      /\ ~queue[n].canceled /\ ~queue[n].finalized
      /\ queue' = [queue EXCEPT ![n].finalized = TRUE]
      /\ paid' = Append(paid, n) /\ Log("finalized", n)
    BY DEF FinalizeWithdrawal
<1>1. queue \in [DOMAIN queue -> QueueEntries] /\ paid \in Seq(Nat) /\ tokens \in Nat
    BY DEF CoreInv, L1TypeOK
<1>2. n \in Nat
    BY QueueIssued
<1>3. FlagTurned(n) /\ queue'[n].finalized /\ ~queue'[n].canceled
    BY <1>0, <1>1 DEF FlagTurned, QueueEntries
<1>4. tokens' \in Nat
  <2>1. queue[n].amount \in Nat
      BY <1>1, BridgeAssumption DEF QueueEntries
  <2>2. tokens >= queue[n].amount /\ tokens' = tokens - queue[n].amount
      BY DEF FinalizeWithdrawal
  <2>3. tokens \in Nat
      BY <1>1
  <2> DEFINE m == queue[n].amount
  <2>4. m \in Nat /\ tokens >= m /\ tokens' = tokens - m
      BY <2>1, <2>2
  <2> HIDE DEF m
  <2> QED BY <2>3, <2>4
<1>5. /\ paid' \in Seq(Nat) /\ Len(paid) \in Nat /\ Len(paid') = Len(paid) + 1
      /\ \A k \in 1..Len(paid) : paid'[k] = paid[k]
      /\ paid'[Len(paid) + 1] = n
      /\ \A k \in 1..Len(paid') : k \in 1..Len(paid) \/ k = Len(paid) + 1
  <2>1. /\ Append(paid, n) \in Seq(Nat) /\ Len(Append(paid, n)) = Len(paid) + 1
        /\ \A k \in 1..Len(paid) : Append(paid, n)[k] = paid[k]
        /\ Append(paid, n)[Len(paid) + 1] = n
      BY <1>1, <1>2, AppendProperties
  <2>2. Len(paid) \in Nat
      BY <1>1
  <2>3. paid' = Append(paid, n)
      BY <1>0
  <2>4. \A k \in 1..(Len(paid) + 1) : k \in 1..Len(paid) \/ k = Len(paid) + 1
      BY <2>2
  <2> QED BY <2>1, <2>2, <2>3, <2>4
<1>6. \A k \in 1..Len(paid) : paid[k] \in DOMAIN queue /\ queue[paid[k]].finalized /\ paid[k] # n
    BY <1>0 DEF CoreInv, NullifierHeld
<1>7. NullifierHeld'
  <2>1. \A x \in DOMAIN queue' : /\ ~queue'[x].canceled => x \in nullifierUsed'
                                 /\ ~(queue'[x].canceled /\ queue'[x].finalized)
      BY <1>0, <1>3 DEF CoreInv, NullifierHeld, FlagTurned
  <2>2. \A k \in 1..Len(paid') : paid'[k] \in DOMAIN queue' /\ queue'[paid'[k]].finalized
      BY <1>3, <1>5, <1>6 DEF FlagTurned
  <2> QED BY <2>1, <2>2 DEF NullifierHeld
<1>8. PaidOnce'
  <2> SUFFICES ASSUME NEW k \in 1..Len(paid'), NEW m \in 1..Len(paid'), paid'[k] = paid'[m]
               PROVE  k = m
      BY DEF PaidOnce
  <2>1. CASE k \in 1..Len(paid) /\ m \in 1..Len(paid)
      BY <1>5, <2>1 DEF CoreInv, PaidOnce
  <2>2. CASE k = Len(paid) + 1 \/ m = Len(paid) + 1
      BY <1>5, <1>6, <2>2
  <2> QED BY <1>5, <2>1, <2>2
<1> QED
    BY <1>0, <1>3, <1>4, <1>5, <1>7, <1>8, CoreFlag

LEMMA CoreCancel ==
    ASSUME CoreInv, VaultFrame, NEW n \in DOMAIN queue, CancelWithdrawal(n)
    PROVE  CoreInv'
<1>0. /\ UNCHANGED <<deposits, vaultPaused, escape, escapeUsed, tokens, paid>>
      /\ ~queue[n].canceled /\ ~queue[n].finalized
      /\ queue' = [queue EXCEPT ![n].canceled = TRUE]
      /\ nullifierUsed' = nullifierUsed \ {n} /\ Log("cancelled", n)
    BY DEF CancelWithdrawal
<1>1. queue \in [DOMAIN queue -> QueueEntries] /\ paid \in Seq(Nat) /\ tokens \in Nat
    BY DEF CoreInv, L1TypeOK
<1>2. FlagTurned(n) /\ ~queue'[n].finalized /\ queue'[n].canceled
    BY <1>0, <1>1 DEF FlagTurned, QueueEntries
<1>3. NullifierHeld'
  <2>1. \A x \in DOMAIN queue' : /\ ~queue'[x].canceled => x \in nullifierUsed'
                                 /\ ~(queue'[x].canceled /\ queue'[x].finalized)
      BY <1>0, <1>2 DEF CoreInv, NullifierHeld, FlagTurned
  <2>2. \A k \in 1..Len(paid) : paid[k] \in DOMAIN queue' /\ queue'[paid[k]].finalized
      BY <1>0, <1>2 DEF CoreInv, NullifierHeld, FlagTurned
  <2> QED BY <1>0, <2>1, <2>2 DEF NullifierHeld
<1>4. PaidOnce'
    BY <1>0 DEF CoreInv, PaidOnce
<1>5. tokens' \in Nat /\ paid' \in Seq(Nat)
    BY <1>0, <1>1
<1> QED
    BY <1>0, <1>2, <1>3, <1>4, <1>5, CoreFlag

LEMMA CoreEscape ==
    ASSUME CoreInv, VaultFrame,
           \/ ActivateEscapeMode
           \/ \E a \in Accounts : EscapeClaim(a)
           \/ PauseVault
    PROVE  CoreInv'
<1>0. UNCHANGED <<now, accepted, settlementPaused, chain, seq, trades>>
    BY DEF VaultFrame
<1>1. UNCHANGED <<deposits, nullifierUsed, queue, logs, paid>>
    BY DEF ActivateEscapeMode, EscapeClaim, PauseVault
<1>2. L2TypeOK' /\ Calendar' /\ DepositsInOrder' /\ Ledger(seq)' /\ RootsExtend'
    BY <1>0, <1>1 DEF CoreInv, L2TypeOK, Calendar, DepositsInOrder, DepositRootByCount, RootsExtend
<1>3. NullifierHeld' /\ EventsTrue' /\ PaidOnce'
    BY <1>0, <1>1 DEF CoreInv, NullifierHeld, EventsTrue, PaidOnce
<1>4. ASSUME L1TypeOK', AcceptedRoots', Record' = Record
      PROVE  CoreInv'
  <2>1. QueueProven'
      BY <1>0, <1>1, <1>4 DEF CoreInv, QueueProven
  <2> QED BY <1>2, <1>3, <1>4, <2>1 DEF CoreInv
<1>5. Latest' = Latest
    BY <1>0 DEF Latest
<1>6. CASE ActivateEscapeMode
  <2>1. /\ ~EscapeModeActive /\ accepted # <<>> /\ escape' = Latest
        /\ UNCHANGED <<vaultPaused, escapeUsed, tokens>>
      BY <1>6 DEF ActivateEscapeMode
  <2>2. L1TypeOK'
      BY <1>0, <1>1, <2>1 DEF CoreInv, L1TypeOK
  <2>3. /\ Len(accepted) \in 1..Len(accepted)
        /\ Latest = accepted[Len(accepted)]
      BY <2>1, EmptySeq, RecordHeight DEF Latest, CoreInv, AcceptedRoots, IsSequence
  <2>4. Latest.height \in 1..Len(chain)
      BY <2>3 DEF CoreInv, AcceptedRoots
  <2>5. Latest # NoRoot
      BY <2>4 DEF NoRoot
  <2>6. EscapeModeActive'
      BY <2>1, <2>5 DEF EscapeModeActive, NoRoot
  <2>7. AcceptedRoots'
      BY <1>0, <1>5, <2>1, <2>3, <2>6 DEF CoreInv, AcceptedRoots
  <2>8. Record' = Record
      BY <2>1, <2>6 DEF Record
  <2> QED BY <1>4, <2>2, <2>7, <2>8
<1>7. ASSUME NEW a \in Accounts, EscapeClaim(a)
      PROVE  CoreInv'
  <2>1. /\ EscapeModeActive
        /\ tokens >= EscapeAmount(escape.root, a)
        /\ escapeUsed' = escapeUsed \cup {a}
        /\ tokens' = tokens - EscapeAmount(escape.root, a)
        /\ UNCHANGED <<vaultPaused, escape>>
      BY <1>7 DEF EscapeClaim
  <2>2. EscapeAmount(escape.root, a) \in Nat
    <3>1. PICK i \in 1..Len(accepted) : escape = accepted[i]
        BY <2>1 DEF CoreInv, AcceptedRoots
    <3>2. accepted[i].height \in 1..Len(chain) /\ accepted[i].root = chain[accepted[i].height]
        BY DEF CoreInv, AcceptedRoots
    <3>3. escape.root.balance \in [Accounts -> Nat]
        BY <3>1, <3>2 DEF CoreInv, L2TypeOK, RootTypeOK
    <3>4. escape.root.balance[a] \in Nat
        BY <3>3
    <3> QED BY <3>4, BridgeAssumption DEF EscapeAmount
  <2>3. tokens' \in Nat
    <3>1. tokens \in Nat
        BY DEF CoreInv, L1TypeOK
    <3> QED BY <2>1, <2>2, <3>1
  <2>4. L1TypeOK'
      BY <1>0, <1>1, <2>1, <2>3 DEF CoreInv, L1TypeOK
  <2>5. EscapeModeActive' = EscapeModeActive
      BY <2>1 DEF EscapeModeActive, NoRoot
  <2>6. AcceptedRoots' /\ Record' = Record
      BY <1>0, <1>5, <2>1, <2>5 DEF CoreInv, AcceptedRoots, Record
  <2> QED BY <1>4, <2>4, <2>6
<1>8. CASE PauseVault
  <2>1. /\ vaultPaused' = ~vaultPaused /\ UNCHANGED <<escape, escapeUsed, tokens>>
      BY <1>8 DEF PauseVault
  <2>2. L1TypeOK'
      BY <1>0, <1>1, <2>1 DEF CoreInv, L1TypeOK
  <2>3. AcceptedRoots' /\ Record' = Record
      BY <1>0, <1>5, <2>1 DEF CoreInv, AcceptedRoots, EscapeModeActive, NoRoot, Record
  <2> QED BY <1>4, <2>2, <2>3
<1> QED
    BY <1>6, <1>7, <1>8

LEMMA CoreVault ==
    ASSUME CoreInv, Vault
    PROVE  CoreInv'
<1>1. VaultFrame /\ VaultStep
    BY DEF Vault, VaultFrame, settlementVars, l2Vars
<1> QED
    BY <1>1, CoreDeposit, CoreRequest, CoreFinalize, CoreCancel, CoreEscape DEF VaultStep

LEMMA DepositsKept ==
    ASSUME CoreInv, seq'.deposits = seq.deposits, UNCHANGED <<now, deposits>>
    PROVE  DepositsInOrder'
BY DEF CoreInv, DepositsInOrder, DepositRootByCount

(* Whatever the sequencer does for its users. *)
LEMMA CoreL2 ==
    ASSUME CoreInv, L2
    PROVE  CoreInv' /\ LedgerOK(seq') /\ Advances(seq, seq')
<1>0. L2Step /\ UNCHANGED l1Vars /\ UNCHANGED <<now, deposits>>
    BY DEF L2, l1Vars
<1>1. LedgerOK(seq) /\ trades \in Nat
    BY DEF CoreInv, L2TypeOK, LedgerOK
<1>2. ASSUME LedgerOK(seq'), Advances(seq, seq'), seq'.deposits = seq.deposits,
             seq'.outcome = seq.outcome, chain' = chain, trades' \in Nat
      PROVE  CoreInv' /\ LedgerOK(seq') /\ Advances(seq, seq')
  <2>1. DepositsInOrder'
      BY <1>0, <1>2, DepositsKept
  <2> QED BY <1>0, <1>2, <2>1, CoreLedger
<1>3. ASSUME CashStep(seq, seq'), chain' = chain, trades' \in Nat
      PROVE  CoreInv' /\ LedgerOK(seq') /\ Advances(seq, seq')
  <2>1. LedgerOK(seq') /\ Advances(seq, seq')
      BY <1>1, <1>3, CashStepOK
  <2>2. seq'.deposits = seq.deposits /\ seq'.outcome = seq.outcome
      BY <1>3 DEF CashStep
  <2> QED BY <1>2, <1>3, <2>1, <2>2
<1>4. CASE CreateAccount
    BY <1>1, <1>3, <1>4, CreateAccountOK DEF CreateAccount
<1>5. ASSUME NEW a \in Accounts, RegisterKey(a)
      PROVE  CoreInv' /\ LedgerOK(seq') /\ Advances(seq, seq')
  <2>1. seq' = Claimed(seq, a) /\ chain' = chain /\ trades' = trades
      BY <1>5 DEF RegisterKey
  <2>2. CashStep(seq, seq')
      BY <1>1, <2>1, ClaimedOK
  <2> QED BY <1>1, <1>3, <2>1, <2>2
<1>6. ASSUME NEW a \in Accounts, NEW amount \in Amounts, NEW life \in Lifetimes,
             RequestBridgeWithdrawal(a, amount, seq.observed_l1_height + life)
      PROVE  CoreInv' /\ LedgerOK(seq') /\ Advances(seq, seq')
  <2> DEFINE expiry == seq.observed_l1_height + life
             leaf == Issued(a, amount, expiry)
  <2>1. expiry \in Nat
    <3>1. seq.observed_l1_height \in Nat /\ life \in Nat
        BY <1>1, BridgeAssumption DEF LedgerOK, SeqTypeOK
    <3> QED BY <3>1
  <2>2. chain' = chain /\ trades' = trades
      BY <1>6 DEF RequestBridgeWithdrawal
  <2>3. RequestBridgeWithdrawal(a, amount, expiry)
      BY <1>6
  <2> HIDE DEF expiry
  <2>4. IssueStep(seq, seq', a, leaf)
      BY <1>1, <2>1, <2>3, RequestOK
  <2>5. leaf \in Leaves /\ leaf.l1_status = "not_requested"
      BY <2>1 DEF Issued, Leaves
  <2> HIDE DEF leaf
  <2>6. LedgerOK(seq') /\ Advances(seq, seq')
      BY <1>1, <2>4, <2>5, IssueStepOK
  <2>7. seq'.deposits = seq.deposits /\ seq'.outcome = seq.outcome
      BY <2>4 DEF IssueStep
  <2> QED BY <1>1, <1>2, <2>2, <2>6, <2>7
<1>7. CASE ProduceBlock
    BY <1>0, <1>7, CoreBlock
<1>8. ASSUME NEW a \in Accounts, NEW b \in Accounts, Trade(a, b)
      PROVE  CoreInv' /\ LedgerOK(seq') /\ Advances(seq, seq')
  <2>1. CashStep(seq, seq')
      BY <1>1, <1>8, TradeOK
  <2>2. chain' = chain /\ trades' \in Nat
      BY <1>1, <1>8 DEF Trade
  <2> QED BY <1>3, <2>1, <2>2
<1> QED
    BY <1>0, <1>4, <1>5, <1>6, <1>7, <1>8 DEF L2Step

-----------------------------------------------------------------------------
(* The indexer beside the others *)

(* L1 only grows, and what is new is in the block being built. *)
L1Grows ==
    /\ now' \in Nat /\ now <= now'
    /\ Len(deposits) <= Len(deposits')
    /\ \A i \in 1..Len(deposits) : deposits'[i] = deposits[i]
    /\ \A i \in 1..Len(deposits') : i \in 1..Len(deposits) \/ deposits'[i].block = now
    /\ Len(logs) <= Len(logs')
    /\ \A i \in 1..Len(logs) : logs'[i] = logs[i]
    /\ \A i \in 1..Len(logs') : i \in 1..Len(logs) \/ logs'[i].block = now

LEMMA SameGrows ==
    ASSUME CoreInv, UNCHANGED <<deposits, logs>>, now' \in {now, now + 1}
    PROVE  L1Grows
<1>1. now \in Nat /\ Len(deposits) \in Nat /\ Len(logs) \in Nat
    BY L1Entries DEF CoreInv
<1> QED
    BY <1>1 DEF L1Grows

LEMMA VaultGrows ==
    ASSUME CoreInv, Vault
    PROVE  L1Grows
<1>1. now \in Nat /\ Len(deposits) \in Nat /\ Len(logs) \in Nat
      /\ now' = now /\ deposits \in Seq(DepositEntries)
    BY L1Entries DEF CoreInv, Vault, L1TypeOK
<1>2. ASSUME UNCHANGED <<deposits, logs>> PROVE L1Grows
    BY <1>1, <1>2 DEF L1Grows
<1>3. ASSUME NEW status \in {"queued", "finalized", "cancelled"}, NEW n \in Nat, Log(status, n),
             UNCHANGED deposits
      PROVE  L1Grows
  <2>1. /\ Len(logs') = Len(logs) + 1
        /\ \A i \in 1..Len(logs) : logs'[i] = logs[i]
        /\ logs'[Len(logs) + 1] = [status |-> status, nullifier |-> n, block |-> now]
        /\ \A i \in 1..Len(logs') : i \in 1..Len(logs) \/ i = Len(logs) + 1
      BY <1>1, <1>3, LogAppended
  <2> QED BY <1>1, <1>3, <2>1 DEF L1Grows
<1>4. ASSUME NEW key \in Accounts, NEW amount \in Amounts, Deposit(key, amount)
      PROVE  L1Grows
  <2> DEFINE d == [key |-> key, amount |-> amount, block |-> now]
  <2>1. deposits' = Append(deposits, d) /\ logs' = logs
      BY <1>4 DEF Deposit
  <2>2. d \in DepositEntries /\ d.block = now
      BY <1>1 DEF DepositEntries
  <2> HIDE DEF d
  <2>3. /\ Len(deposits') = Len(deposits) + 1
        /\ \A i \in 1..Len(deposits) : deposits'[i] = deposits[i]
        /\ deposits'[Len(deposits) + 1] = d
        /\ \A i \in 1..Len(deposits') : i \in 1..Len(deposits) \/ i = Len(deposits) + 1
      BY <1>1, <2>1, <2>2
  <2> QED BY <1>1, <2>1, <2>2, <2>3 DEF L1Grows
<1>5. ASSUME NEW i \in 1..Len(accepted), NEW n \in DOMAIN accepted[i].root.withdrawals,
             RequestWithdrawal(i, n)
      PROVE  L1Grows
  <2>1. n \in Nat
    <3>1. accepted[i].height \in 1..Len(chain) /\ accepted[i].root = chain[accepted[i].height]
        BY DEF CoreInv, AcceptedRoots
    <3>2. RootTypeOK(accepted[i].root)
        BY <3>1 DEF CoreInv, L2TypeOK
    <3> QED BY <3>2 DEF RootTypeOK
  <2> QED BY <1>3, <1>5, <2>1 DEF RequestWithdrawal
<1>6. ASSUME NEW n \in DOMAIN queue, FinalizeWithdrawal(n) \/ CancelWithdrawal(n)
      PROVE  L1Grows
    BY <1>3, <1>6, QueueIssued DEF FinalizeWithdrawal, CancelWithdrawal
<1>7. ASSUME ActivateEscapeMode \/ PauseVault \/ \E a \in Accounts : EscapeClaim(a)
      PROVE  L1Grows
    BY <1>2, <1>7 DEF ActivateEscapeMode, PauseVault, EscapeClaim
<1> QED
    BY <1>4, <1>5, <1>6, <1>7 DEF Vault, VaultStep

LEMMA PostStays ==
    ASSUME CoreInv, L1Grows, NEW p, TruePost(p)
    PROVE  TruePost(p)'
<1>1. /\ now \in Nat /\ now' \in Nat /\ Len(deposits) \in Nat /\ Len(logs) \in Nat
      /\ \A i \in 1..Len(deposits) : deposits[i].block \in Nat
      /\ \A i \in 1..Len(logs) : logs[i].block \in Nat
    BY L1Entries DEF CoreInv, L1Grows
<1>2. Len(deposits') \in Nat /\ Len(logs') \in Nat
    BY DEF L1Grows
<1>3. CASE /\ p.kind = "deposit"
           /\ p.id \in 1..Len(deposits)
           /\ deposits[p.id].block < now
           /\ p.key = deposits[p.id].key /\ p.amount = deposits[p.id].amount
           /\ p.root = DepositRootByCount(p.id)
  <2>1. p.id \in 1..Len(deposits') /\ deposits'[p.id] = deposits[p.id]
      BY <1>1, <1>2, <1>3 DEF L1Grows
  <2>2. deposits[p.id].block < now'
      BY <1>1, <1>3 DEF L1Grows
  <2>3. \A i \in 1..p.id : deposits'[i] = deposits[i]
      BY <1>1, <1>3 DEF L1Grows
  <2>4. DepositRootByCount(p.id)' = DepositRootByCount(p.id)
      BY <2>3 DEF DepositRootByCount
  <2> QED BY <1>3, <2>1, <2>2, <2>4 DEF TruePost
<1>4. CASE p.kind = "event" /\ \E i \in 1..Len(logs) : p.event = logs[i] /\ logs[i].block < now
  <2>1. PICK i \in 1..Len(logs) : p.event = logs[i] /\ logs[i].block < now
      BY <1>4
  <2>2. i \in 1..Len(logs') /\ logs'[i] = logs[i] /\ logs[i].block < now'
      BY <1>1, <1>2, <2>1 DEF L1Grows
  <2> QED BY <1>4, <2>1, <2>2 DEF TruePost
<1>5. CASE p.kind = "height" /\ p.height \in Nat /\ p.height < now
  <2>1. p.height < now'
      BY <1>1, <1>5 DEF L1Grows
  <2> QED BY <1>5, <2>1 DEF TruePost
<1> QED
    BY <1>3, <1>4, <1>5 DEF TruePost

LEMMA AppliedStays ==
    ASSUME CoreInv, LedgerOK(seq'), Advances(seq, seq'),
           NEW i \in 1..Len(logs), logs'[i] = logs[i], Applied(i)
    PROVE  Applied(i)'
<1> DEFINE n == logs[i].nullifier
<1>1. n \in DOMAIN queue
    BY DEF CoreInv, EventsTrue
<1>2. n \in Nat /\ n < seq.next_withdrawal_id
    BY <1>1, QueueIssued
<1>3. ASSUME n \in Open(seq')
      PROVE  logs[i].status = "queued" /\ seq'.withdrawals[n].l1_status = "queued"
  <2>1. n \in DOMAIN seq'.withdrawals /\ ~Terminal(seq'.withdrawals[n])
      BY <1>3 DEF Open
  <2>2. /\ n \in DOMAIN seq.withdrawals /\ ~Terminal(seq.withdrawals[n])
        /\ seq.withdrawals[n].l1_status = "queued" => seq'.withdrawals[n].l1_status = "queued"
      BY <1>2, <2>1 DEF Advances
  <2>3. n \in Open(seq)
      BY <2>2 DEF Open
  <2> QED BY <2>2, <2>3 DEF Applied
<1> QED
    BY <1>3 DEF Applied, Open

(* The cursor's promise, entry by entry. *)
LEMMA ScannedEntries ==
    ScannedMeansApplied <=>
        /\ \A i \in 1..Len(deposits) : deposits[i].block < next_from => i <= Len(seq.deposits)
        /\ \A i \in 1..Len(logs) : logs[i].block < next_from => Applied(i)
BY DEF ScannedMeansApplied, Applied

(* Whatever happens beside the indexer, the poll in progress stays true. *)
LEMMA PollStable ==
    ASSUME BridgeInv, LedgerOK(seq'), Advances(seq, seq'), L1Grows, UNCHANGED <<idx, next_from, fails>>,
           late' \subseteq late
    PROVE  PollInv'
<1>0. CoreInv /\ PollInv
    BY DEF BridgeInv
<1>1. /\ now \in Nat /\ now' \in Nat /\ now <= now'
      /\ Len(deposits) \in Nat /\ Len(logs) \in Nat
      /\ \A i \in 1..Len(deposits) : deposits[i].block \in Nat
      /\ \A i \in 1..Len(logs) : logs[i].block \in Nat
    BY <1>0, L1Entries DEF CoreInv, L1Grows
<1>2. /\ Len(deposits') \in Nat /\ Len(deposits) <= Len(deposits')
      /\ Len(logs') \in Nat /\ Len(logs) <= Len(logs')
    BY DEF L1Grows
<1>3. /\ Len(seq.deposits) \in Nat /\ Len(seq'.deposits) \in Nat
      /\ Len(seq.deposits) <= Len(seq'.deposits)
    BY <1>0, SeqNumbers DEF LedgerOK, CoreInv, L2TypeOK, Advances
<1>4. next_from \in Nat /\ next_from <= now
    BY <1>0 DEF PollInv, IdxTypeOK, CursorBehind
<1>5. IdxTypeOK'
    BY <1>0 DEF PollInv, IdxTypeOK
<1>6. LateTrue'
  <2> SUFFICES ASSUME NEW p \in late' PROVE TruePost(p)'
      BY DEF LateTrue
  <2>1. TruePost(p)
      BY <1>0 DEF PollInv, LateTrue
  <2> QED BY <1>0, <2>1, PostStays
<1>7. CursorBehind'
    BY <1>1, <1>4 DEF CursorBehind
<1>8. ASSUME NEW to \in Nat, to < now, NEW i \in 1..Len(deposits'), deposits'[i].block <= to
      PROVE  i \in 1..Len(deposits) /\ deposits'[i] = deposits[i] /\ deposits[i].block <= to
    BY <1>1, <1>8 DEF L1Grows
<1>9. ASSUME NEW to \in Nat, to < now, NEW i \in 1..Len(logs'), logs'[i].block <= to
      PROVE  i \in 1..Len(logs) /\ logs'[i] = logs[i] /\ logs[i].block <= to
    BY <1>1, <1>9 DEF L1Grows
<1>10. ScannedMeansApplied'
  <2>1. ASSUME NEW i \in 1..Len(deposits'), deposits'[i].block < next_from
        PROVE  i <= Len(seq'.deposits)
    <3>1. i \in 1..Len(deposits) /\ deposits[i].block < next_from
        BY <1>1, <1>4, <2>1 DEF L1Grows
    <3>2. i <= Len(seq.deposits)
        BY <1>0, <3>1 DEF PollInv, ScannedMeansApplied
    <3> QED BY <1>3, <3>1, <3>2
  <2>2. ASSUME NEW i \in 1..Len(logs'), logs'[i].block < next_from
        PROVE  Applied(i)'
    <3>1. i \in 1..Len(logs) /\ logs'[i] = logs[i] /\ logs[i].block < next_from
        BY <1>1, <1>4, <2>2 DEF L1Grows
    <3>2. Applied(i)
        BY <1>0, <3>1, ScannedEntries DEF PollInv
    <3> QED BY <1>0, <3>1, <3>2, AppliedStays
  <2> QED BY <2>1, <2>2 DEF ScannedMeansApplied, Applied
<1>11. PollTracks'
  <2> SUFFICES ASSUME idx # Idle PROVE PollTracks'
      BY DEF PollTracks, Idle
  <2>1. /\ idx.to < now
        /\ idx.todo \subseteq {i \in 1..Len(deposits) : deposits[i].block <= idx.to}
        /\ idx.events \subseteq {i \in 1..Len(logs) : logs[i].block <= idx.to}
        /\ idx.pc = "submit" => idx.todo # {}
        /\ idx.pc = "save" => idx.todo = {} /\ idx.events = {}
        /\ \A i \in 1..Len(deposits) :
              (deposits[i].block <= idx.to /\ i \notin idx.todo) => i <= Len(seq.deposits)
        /\ \A i \in 1..Len(logs) :
              (logs[i].block <= idx.to /\ i \notin idx.events) => Applied(i)
      BY <1>0 DEF PollInv, PollTracks
  <2>2. idx.to \in Nat
      BY <1>0 DEF PollInv, IdxTypeOK
  <2>3. /\ idx.to < now'
        /\ idx.todo \subseteq {i \in 1..Len(deposits') : deposits'[i].block <= idx.to}
        /\ idx.events \subseteq {i \in 1..Len(logs') : logs'[i].block <= idx.to}
    <3>1. idx.to < now'
        BY <1>1, <2>1, <2>2
    <3>2. \A i \in 1..Len(deposits) : i \in 1..Len(deposits') /\ deposits'[i] = deposits[i]
        BY <1>1, <1>2 DEF L1Grows
    <3>3. \A i \in 1..Len(logs) : i \in 1..Len(logs') /\ logs'[i] = logs[i]
        BY <1>1, <1>2 DEF L1Grows
    <3> QED BY <2>1, <3>1, <3>2, <3>3
  <2>4. ASSUME NEW i \in 1..Len(deposits'), deposits'[i].block <= idx.to, i \notin idx.todo
        PROVE  i <= Len(seq'.deposits)
    <3>1. i \in 1..Len(deposits) /\ deposits[i].block <= idx.to
        BY <1>8, <2>1, <2>2, <2>4
    <3>2. i <= Len(seq.deposits)
        BY <2>1, <2>4, <3>1
    <3> QED BY <1>3, <3>1, <3>2
  <2>5. ASSUME NEW i \in 1..Len(logs'), logs'[i].block <= idx.to, i \notin idx.events
        PROVE  Applied(i)'
    <3>1. i \in 1..Len(logs) /\ logs'[i] = logs[i] /\ logs[i].block <= idx.to
        BY <1>9, <2>1, <2>2, <2>5
    <3>2. Applied(i)
        BY <2>1, <2>5, <3>1
    <3> QED BY <1>0, <3>1, <3>2, AppliedStays
  <2> HIDE DEF Applied
  <2> QED BY <2>1, <2>3, <2>4, <2>5 DEF PollTracks
<1> QED
    BY <1>5, <1>6, <1>7, <1>10, <1>11 DEF PollInv

LEMMA BesideIndexer ==
    ASSUME BridgeInv, Tick \/ Settlement \/ Vault \/ L2
    PROVE  BridgeInv'
<1>0. CoreInv /\ LedgerOK(seq)
    BY DEF BridgeInv, CoreInv, L2TypeOK, LedgerOK
<1>1. UNCHANGED indexerVars
    BY DEF Tick, Settlement, Vault, L2
<1>2. CoreInv'
    BY <1>0, CoreTick, CoreSettlement, CoreVault, CoreL2
<1>3. LedgerOK(seq') /\ Advances(seq, seq')
  <2>1. CASE L2
      BY <1>0, <2>1, CoreL2
  <2>2. CASE Tick \/ Settlement \/ Vault
    <3>1. seq' = seq
        BY <2>2 DEF Tick, Settlement, Vault, l2Vars
    <3> QED BY <1>0, <3>1, SameAdvances
  <2> QED BY <2>1, <2>2
<1>4. L1Grows
  <2>1. CASE Vault
      BY <1>0, <2>1, VaultGrows
  <2>2. CASE Tick \/ Settlement \/ L2
    <3>1. UNCHANGED <<deposits, logs>> /\ now' \in {now, now + 1}
        BY <2>2 DEF Tick, Settlement, L2, l1Vars, vaultVars
    <3> QED BY <1>0, <3>1, SameGrows
  <2> QED BY <2>1, <2>2
<1>5. PollInv'
    BY <1>1, <1>3, <1>4, PollStable DEF indexerVars
<1> QED
    BY <1>2, <1>5 DEF BridgeInv

-----------------------------------------------------------------------------
(* The indexer *)

(* A true post leaves the ledger in order. *)
LEMMA HandleOK ==
    ASSUME CoreInv, NEW p, TruePost(p), Handle(p), UNCHANGED <<l1Vars, chain, trades>>
    PROVE  /\ CoreInv' /\ LedgerOK(seq') /\ Advances(seq, seq')
           /\ p.kind = "deposit" /\ ValidDeposit(p) => p.id <= Len(seq'.deposits)
           /\ \A i \in 1..Len(logs) : p.kind = "event" /\ p.event = logs[i] => Applied(i)'
<1>0. /\ LedgerOK(seq) /\ trades' \in Nat /\ UNCHANGED <<now, deposits, logs>>
      /\ Len(seq.deposits) \in Nat
    BY SeqNumbers DEF CoreInv, L2TypeOK, LedgerOK, l1Vars, vaultVars
<1>1. /\ now \in Nat /\ Len(deposits) \in Nat
      /\ \A i \in 1..Len(deposits) :
            /\ deposits[i].key \in Accounts
            /\ deposits[i].amount \in Amounts /\ deposits[i].block \in Nat
      /\ \A i \in 1..Len(logs) : logs[i] \in LogEntries /\ logs[i].block \in Nat
    BY L1Entries DEF CoreInv
<1>2. CASE p.kind = "deposit" /\ ValidDeposit(p)
  <2>1. /\ p.id \in 1..Len(deposits) /\ deposits[p.id].block < now
        /\ p.key \in Accounts /\ p.amount \in Amounts
        /\ p.root = DepositRootByCount(p.id)
      BY <1>1, <1>2 DEF TruePost
  <2>2. IngestDeposit(p)
      BY <1>2 DEF Handle
  <2>3. DepositStep(seq, seq', p)
      BY <1>0, <1>2, <2>1, <2>2, IngestOK
  <2>4. /\ LedgerOK(seq') /\ Advances(seq, seq')
        /\ Len(seq'.deposits) = Len(seq.deposits) + 1
      BY <1>0, <2>1, <2>3, DepositStepOK
  <2>5. seq'.deposits = p.root /\ p.id = Len(seq.deposits) + 1 /\ seq'.outcome = seq.outcome
      BY <1>2, <2>3 DEF ValidDeposit, DepositStep
  <2>6. \A i \in 1..p.id : deposits[i].block < now
    <3>1. \A i \in 1..Len(seq.deposits) : deposits[i].block < now
        BY DEF CoreInv, DepositsInOrder
    <3>2. \A i \in 1..p.id : i \in 1..Len(seq.deposits) \/ i = p.id
        BY <1>0, <2>5
    <3> QED BY <2>1, <3>1, <3>2
  <2>7. DepositsInOrder'
    <3>1. Len(seq'.deposits) = p.id /\ p.id <= Len(deposits)
        BY <1>0, <1>1, <2>1, <2>4, <2>5
    <3>2. seq'.deposits = DepositRootByCount(p.id)'
        BY <1>0, <2>1, <2>5 DEF DepositRootByCount
    <3> QED BY <1>0, <2>6, <3>1, <3>2 DEF DepositsInOrder
  <2>8. CoreInv'
      BY <1>0, <2>4, <2>5, <2>7, CoreLedger
  <2> QED BY <1>0, <1>2, <2>4, <2>5, <2>8
<1>3. CASE p.kind = "deposit" /\ ~ValidDeposit(p)
  <2>1. seq' = seq
      BY <1>3 DEF Handle
  <2>2. LedgerOK(seq') /\ Advances(seq, seq') /\ DepositsInOrder'
      BY <1>0, <2>1, SameAdvances, DepositsKept
  <2>3. CoreInv'
      BY <1>0, <2>1, <2>2, CoreLedger
  <2> QED BY <1>3, <2>2, <2>3
<1>4. CASE p.kind = "event"
  <2>1. PICK i \in 1..Len(logs) : p.event = logs[i] /\ logs[i].block < now
      BY <1>4 DEF TruePost
  <2> DEFINE e == logs[i]
             n == e.nullifier
  <2>2. seq' = AfterHeight(AfterEvent(seq, e), e.block)
      BY <1>4, <2>1 DEF Handle, ApplyL1Event
  <2>3. e \in LogEntries
      BY <1>1
  <2>4. n \in DOMAIN queue /\ (e.status = "finalized" => queue[n].finalized)
      BY DEF CoreInv, EventsTrue
  <2> HIDE DEF e, n
  <2>5. /\ LedgerOK(seq') /\ Advances(seq, seq')
        /\ seq'.deposits = seq.deposits
        /\ e.nullifier \in DOMAIN seq.withdrawals /\ e.nullifier \in Open(seq') =>
              e.status = "queued" /\ seq'.withdrawals[e.nullifier].l1_status = "queued"
        /\ \A id \in DOMAIN seq'.outcome \ DOMAIN seq.outcome :
              seq'.outcome[id].status = "finalized" =>
                  id = e.nullifier /\ e.status = "finalized"
      BY <1>0, <2>2, <2>3, EventOK
  <2>6. DepositsInOrder'
      BY <1>0, <2>5, DepositsKept
  <2>7. CoreInv'
    <3>1. \A id \in DOMAIN seq'.outcome \ DOMAIN seq.outcome :
             seq'.outcome[id].status = "finalized" => id \in DOMAIN queue /\ queue[id].finalized
        BY <2>4, <2>5 DEF n
    <3> QED BY <1>0, <2>5, <2>6, <3>1, CoreLedger
  <2>8. n \in Open(seq') => e.status = "queued" /\ seq'.withdrawals[n].l1_status = "queued"
    <3> HAVE n \in Open(seq')
    <3>1. n \in Nat /\ n < seq.next_withdrawal_id
        BY <2>4, QueueIssued
    <3>2. n \in DOMAIN seq'.withdrawals
        BY DEF Open
    <3>3. n \in DOMAIN seq.withdrawals
        BY <2>5, <3>1, <3>2 DEF Advances
    <3> QED BY <2>5, <3>3 DEF n
  <2>9. ASSUME NEW j \in 1..Len(logs), p.event = logs[j]
        PROVE  Applied(j)'
    <3>1. logs'[j] = e
        BY <1>0, <2>1, <2>9 DEF e
    <3> QED BY <2>8, <3>1 DEF Applied, Open, n
  <2> QED BY <1>4, <2>5, <2>7, <2>9
<1>5. CASE p.kind = "height"
  <2>1. p.height \in Nat /\ seq' = AfterHeight(seq, p.height)
      BY <1>5 DEF TruePost, Handle, ObserveL1Height
  <2>2. /\ LedgerOK(seq') /\ Advances(seq, seq')
        /\ seq'.deposits = seq.deposits
        /\ \A id \in DOMAIN seq'.outcome \ DOMAIN seq.outcome :
              seq'.outcome[id].status = "refunded"
      BY <1>0, <2>1, AfterHeightOK
  <2>3. DepositsInOrder'
      BY <1>0, <2>2, DepositsKept
  <2>4. CoreInv'
      BY <1>0, <2>2, <2>3, CoreLedger
  <2> QED BY <1>5, <2>2, <2>4
<1> QED
    BY <1>2, <1>3, <1>4, <1>5 DEF TruePost

(* A post that arrives late. *)
LEMMA LateArrives ==
    ASSUME BridgeInv, ArriveLate, UNCHANGED l1Vars
    PROVE  BridgeInv'
<1>0. CoreInv /\ PollInv /\ UNCHANGED <<now, deposits, logs>>
    BY DEF BridgeInv, l1Vars, vaultVars
<1>1. PICK p \in late : /\ Handle(p) /\ late' = late \ {p}
                        /\ UNCHANGED <<idx, next_from, fails, chain, trades>>
    BY DEF ArriveLate
<1>2. TruePost(p)
    BY <1>0 DEF PollInv, LateTrue
<1>3. CoreInv' /\ LedgerOK(seq') /\ Advances(seq, seq')
    BY <1>0, <1>1, <1>2, HandleOK
<1>4. L1Grows
    BY <1>0, SameGrows
<1>5. PollInv'
    BY <1>1, <1>3, <1>4, PollStable
<1> QED
    BY <1>3, <1>5 DEF BridgeInv

LEMMA FirstIn == ASSUME NEW S, S \subseteq Nat, S # {} PROVE First(S) \in S
BY LeastNat DEF First

(* The requests in hand are true posts. *)
LEMMA PostsTrue ==
    ASSUME BridgeInv, idx # Idle
    PROVE  /\ idx.todo # {} =>
                 /\ NextDeposit \in idx.todo
                 /\ TruePost(DepositPost)
                 /\ DepositPost.kind = "deposit" /\ DepositPost.id = NextDeposit
           /\ idx.events # {} =>
                 /\ First(idx.events) \in idx.events /\ First(idx.events) \in 1..Len(logs)
                 /\ TruePost(EventPost)
                 /\ EventPost.kind = "event" /\ EventPost.event = logs[First(idx.events)]
           /\ TruePost(HeightPost)
           /\ HeightPost.kind = "height"
<1>1. /\ idx.to < now
      /\ idx.todo \subseteq {i \in 1..Len(deposits) : deposits[i].block <= idx.to}
      /\ idx.events \subseteq {i \in 1..Len(logs) : logs[i].block <= idx.to}
    BY DEF BridgeInv, PollInv, PollTracks
<1>2. idx.to \in Nat
    BY DEF BridgeInv, PollInv, IdxTypeOK
<1>3. /\ now \in Nat
      /\ \A i \in 1..Len(deposits) : deposits[i].block \in Nat
      /\ \A i \in 1..Len(logs) : logs[i].block \in Nat
    BY L1Entries DEF BridgeInv, CoreInv
<1>4. ASSUME idx.todo # {}
      PROVE  /\ NextDeposit \in idx.todo
             /\ TruePost(DepositPost)
             /\ DepositPost.kind = "deposit" /\ DepositPost.id = NextDeposit
  <2>1. NextDeposit \in idx.todo
    <3>1. idx.todo \subseteq Nat
        BY <1>1
    <3> QED BY <1>4, <3>1, FirstIn DEF NextDeposit
  <2>2. NextDeposit \in 1..Len(deposits) /\ deposits[NextDeposit].block < now
      BY <1>1, <1>2, <1>3, <2>1
  <2> QED BY <2>1, <2>2 DEF TruePost, DepositPost
<1>5. ASSUME idx.events # {}
      PROVE  /\ First(idx.events) \in idx.events /\ First(idx.events) \in 1..Len(logs)
             /\ TruePost(EventPost)
             /\ EventPost.kind = "event" /\ EventPost.event = logs[First(idx.events)]
  <2>1. First(idx.events) \in idx.events
    <3>1. idx.events \subseteq Nat
        BY <1>1
    <3> QED BY <1>5, <3>1, FirstIn
  <2>2. First(idx.events) \in 1..Len(logs) /\ logs[First(idx.events)].block < now
      BY <1>1, <1>2, <1>3, <2>1
  <2> QED BY <2>1, <2>2 DEF TruePost, EventPost
<1>6. TruePost(HeightPost) /\ HeightPost.kind = "height"
    BY <1>1, <1>2 DEF TruePost, HeightPost
<1> QED
    BY <1>4, <1>5, <1>6

LEMMA ScanKept ==
    ASSUME BridgeInv, LedgerOK(seq'), Advances(seq, seq'), UNCHANGED <<now, deposits, logs, next_from>>
    PROVE  CursorBehind' /\ ScannedMeansApplied'
<1>0. CoreInv /\ PollInv
    BY DEF BridgeInv
<1>1. CursorBehind'
    BY <1>0 DEF PollInv, CursorBehind
<1>2. /\ Len(seq.deposits) \in Nat /\ Len(seq'.deposits) \in Nat
      /\ Len(seq.deposits) <= Len(seq'.deposits)
    BY <1>0, SeqNumbers DEF LedgerOK, CoreInv, L2TypeOK, Advances
<1>3. \A i \in 1..Len(deposits) : deposits[i].block < next_from => i <= Len(seq'.deposits)
  <2> TAKE i \in 1..Len(deposits)
  <2> HAVE deposits[i].block < next_from
  <2>1. i <= Len(seq.deposits) /\ i \in Nat
      BY <1>0 DEF PollInv, ScannedMeansApplied
  <2> QED BY <1>2, <2>1
<1>4. ASSUME NEW i \in 1..Len(logs), logs[i].block < next_from
      PROVE  Applied(i)'
  <2>1. Applied(i)
      BY <1>0, <1>4, ScannedEntries DEF PollInv
  <2> QED BY <1>0, <2>1, AppliedStays
<1> QED
    BY <1>1, <1>3, <1>4 DEF ScannedMeansApplied, Applied

(* Posts that were true, or are, stay so while L1 is as it was. *)
LEMMA LateKept ==
    ASSUME BridgeInv, UNCHANGED <<now, deposits, logs>>,
           \A p \in late' : p \in late \/ TruePost(p)
    PROVE  LateTrue'
<1> SUFFICES ASSUME NEW p \in late' PROVE TruePost(p)'
    BY DEF LateTrue
<1>1. TruePost(p)
    BY DEF BridgeInv, PollInv, LateTrue
<1> QED
    BY <1>1 DEF TruePost, DepositRootByCount

(* A poll that ends leaves its promise to the next one. *)
LEMMA PollEnds ==
    ASSUME BridgeInv, LedgerOK(seq'), Advances(seq, seq'), UNCHANGED <<now, deposits, logs, next_from>>,
           idx' = Idle, fails' \in Nat, \A p \in late' : p \in late \/ TruePost(p)
    PROVE  PollInv'
<1>1. CursorBehind' /\ ScannedMeansApplied'
    BY ScanKept
<1>2. LateTrue'
    BY LateKept
<1>3. IdxTypeOK' /\ PollTracks'
    BY DEF BridgeInv, PollInv, IdxTypeOK, PollTracks, Idle
<1> QED
    BY <1>1, <1>2, <1>3 DEF PollInv

(* A poll that goes on: what it no longer has in hand is applied. *)
LEMMA PollGoesOn ==
    ASSUME BridgeInv, LedgerOK(seq'), Advances(seq, seq'),
           UNCHANGED <<now, deposits, logs, next_from, fails, late>>,
           idx # Idle, IdxTypeOK', idx' # Idle,
           idx'.to = idx.to,
           idx'.todo \subseteq idx.todo, idx'.events \subseteq idx.events,
           \A i \in idx.todo \ idx'.todo : i <= Len(seq'.deposits),
           \A i \in idx.events \ idx'.events : Applied(i)',
           idx'.pc = "submit" => idx'.todo # {},
           idx'.pc = "save" => idx'.todo = {} /\ idx'.events = {}
    PROVE  PollInv'
<1>0. CoreInv /\ PollInv
    BY DEF BridgeInv
<1>1. CursorBehind' /\ ScannedMeansApplied'
    BY ScanKept
<1>2. LateTrue'
    BY LateKept
<1>3. /\ idx.to < now
      /\ idx.todo \subseteq {i \in 1..Len(deposits) : deposits[i].block <= idx.to}
      /\ idx.events \subseteq {i \in 1..Len(logs) : logs[i].block <= idx.to}
      /\ \A i \in 1..Len(deposits) :
            (deposits[i].block <= idx.to /\ i \notin idx.todo) => i <= Len(seq.deposits)
      /\ \A i \in 1..Len(logs) :
            (logs[i].block <= idx.to /\ i \notin idx.events) => Applied(i)
    BY <1>0 DEF PollInv, PollTracks
<1>4. /\ Len(seq.deposits) \in Nat /\ Len(seq'.deposits) \in Nat
      /\ Len(seq.deposits) <= Len(seq'.deposits)
    BY <1>0, SeqNumbers DEF LedgerOK, CoreInv, L2TypeOK, Advances
<1>5. ASSUME NEW i \in 1..Len(deposits), deposits[i].block <= idx.to, i \notin idx'.todo
      PROVE  i <= Len(seq'.deposits)
  <2>1. CASE i \in idx.todo
      BY <1>5, <2>1
  <2>2. CASE i \notin idx.todo
    <3>1. i <= Len(seq.deposits) /\ i \in Nat
        BY <1>3, <1>5, <2>2
    <3> QED BY <1>4, <3>1
  <2> QED BY <2>1, <2>2
<1>6. ASSUME NEW i \in 1..Len(logs), logs[i].block <= idx.to, i \notin idx'.events
      PROVE  Applied(i)'
  <2>1. CASE i \in idx.events
      BY <1>6, <2>1
  <2>2. CASE i \notin idx.events
    <3>1. Applied(i)
        BY <1>3, <1>6, <2>2
    <3> QED BY <1>0, <3>1, AppliedStays
  <2> QED BY <2>1, <2>2
<1>7. PollTracks'
  <2> HIDE DEF Applied
  <2> QED BY <1>3, <1>5, <1>6 DEF PollTracks
<1> QED
    BY <1>1, <1>2, <1>7 DEF PollInv

LEMMA CoreSame ==
    ASSUME CoreInv, UNCHANGED <<l1Vars, l2Vars>>
    PROVE  CoreInv' /\ LedgerOK(seq') /\ Advances(seq, seq')
<1>1. LedgerOK(seq) /\ trades \in Nat
    BY DEF CoreInv, L2TypeOK, LedgerOK
<1>2. UNCHANGED <<seq, chain, trades, now, deposits>>
    BY DEF l1Vars, l2Vars
<1>3. LedgerOK(seq') /\ Advances(seq, seq') /\ DepositsInOrder'
    BY <1>1, <1>2, SameAdvances, DepositsKept
<1> QED
    BY <1>1, <1>2, <1>3, CoreLedger

(* The poll's own record, field by field. *)
LEMMA IdxFields ==
    ASSUME BridgeInv, idx # Idle
    PROVE  /\ idx = [f \in {"pc", "to", "todo", "events", "account"} |-> idx[f]]
           /\ idx.pc \in {"resolve", "submit", "save"}
           /\ idx.to \in Nat
           /\ idx.account \in Accounts \cup {NoAccount}
           /\ next_from \in Nat \ {0} /\ fails \in Nat
BY DEF BridgeInv, PollInv, IdxTypeOK

LEMMA StartKeeps ==
    ASSUME BridgeInv, PollStart, UNCHANGED l1Vars
    PROVE  BridgeInv'
<1>0. /\ CoreInv /\ PollInv
      /\ UNCHANGED <<now, deposits, logs, next_from, late, fails, seq>> /\ UNCHANGED l2Vars
    BY DEF BridgeInv, PollStart, l1Vars, vaultVars, l2Vars
<1>1. CoreInv' /\ LedgerOK(seq') /\ Advances(seq, seq')
    BY <1>0, CoreSame
<1>2. CursorBehind' /\ ScannedMeansApplied'
    BY <1>0, <1>1, ScanKept
<1>3. LateTrue'
    BY <1>0, LateKept
<1> DEFINE span == next_from + MaxBlockSpan - 1
           to == IF span < now - 1 THEN span ELSE now - 1
           todo == {i \in 1..Len(deposits) :
                      InRange(deposits[i].block, to) /\ i > Len(seq.deposits)}
           events == {i \in 1..Len(logs) : InRange(logs[i].block, to)}
<1>4. /\ next_from <= to
      /\ idx' = [pc |-> "resolve", to |-> to, todo |-> todo, events |-> events,
                 account |-> NoAccount]
    BY DEF PollStart
<1>5. /\ now \in Nat /\ next_from \in Nat \ {0} /\ fails \in Nat
      /\ \A i \in 1..Len(deposits) : deposits[i].block \in Nat
      /\ \A i \in 1..Len(logs) : logs[i].block \in Nat
    BY <1>0, L1Entries DEF CoreInv, PollInv, IdxTypeOK
<1>6. to \in Nat /\ to < now
  <2>1. span \in Int
      BY <1>5, IndexerAssumption
  <2> HIDE DEF span
  <2>2. to \in Int /\ to <= now - 1
      BY <1>5, <2>1
  <2> HIDE DEF to
  <2> QED BY <1>4, <1>5, <2>2
<1> HIDE DEF to
<1>7. /\ \A i \in todo : i \in 1..Len(deposits) /\ deposits[i].block <= to
      /\ \A i \in events : i \in 1..Len(logs) /\ logs[i].block <= to
    BY <1>5, <1>6 DEF InRange
<1>8. ASSUME NEW i \in 1..Len(deposits), deposits[i].block <= to, i \notin todo
      PROVE  i <= Len(seq.deposits)
  <2>1. CASE deposits[i].block < next_from
      BY <1>0, <2>1 DEF PollInv, ScannedMeansApplied
  <2>2. CASE ~(deposits[i].block < next_from)
    <3>1. Len(seq.deposits) \in Nat
        BY <1>0, SeqNumbers DEF CoreInv, L2TypeOK
    <3>2. InRange(deposits[i].block, to)
        BY <1>5, <1>6, <1>8, <2>2 DEF InRange
    <3> QED BY <1>8, <3>1, <3>2
  <2> QED BY <2>1, <2>2
<1>9. ASSUME NEW i \in 1..Len(logs), logs[i].block <= to, i \notin events
      PROVE  Applied(i)'
  <2>1. logs[i].block < next_from
      BY <1>5, <1>6, <1>9 DEF InRange
  <2>2. Applied(i)
      BY <1>0, <2>1, ScannedEntries DEF PollInv
  <2> QED BY <1>0, <1>1, <2>2, AppliedStays
<1> HIDE DEF todo, events
<1>10. /\ idx'.pc = "resolve" /\ idx'.to = to /\ idx'.todo = todo /\ idx'.events = events
       /\ idx'.account = NoAccount
       /\ idx' = [f \in {"pc", "to", "todo", "events", "account"} |-> idx'[f]]
    BY <1>4
<1>11. IdxTypeOK'
    BY <1>0, <1>5, <1>6, <1>10 DEF IdxTypeOK
<1>12. PollTracks'
  <2> HIDE DEF Applied
  <2> QED BY <1>0, <1>6, <1>7, <1>8, <1>9, <1>10 DEF PollTracks
<1> QED
    BY <1>1, <1>2, <1>3, <1>11, <1>12 DEF BridgeInv, PollInv

LEMMA ResolveKeeps ==
    ASSUME BridgeInv, ResolveAccount, UNCHANGED l1Vars
    PROVE  BridgeInv'
<1>0. /\ CoreInv
      /\ UNCHANGED <<now, deposits, logs, next_from, late, fails, seq>> /\ UNCHANGED l2Vars
    BY DEF BridgeInv, ResolveAccount, l1Vars, vaultVars, l2Vars
<1>1. CoreInv' /\ LedgerOK(seq') /\ Advances(seq, seq')
    BY <1>0, CoreSame
<1>2. idx # Idle /\ idx.pc = "resolve" /\ idx.todo # {}
    BY DEF ResolveAccount, Idle
<1> DEFINE key == deposits[NextDeposit].key
           account == IF Exists(key) THEN key ELSE NoAccount
<1>3. idx' = [idx EXCEPT !.pc = "submit", !.account = account]
    BY DEF ResolveAccount
<1>4. account \in Accounts \cup {NoAccount}
    BY DEF Exists
<1> HIDE DEF account
<1>5. /\ idx'.pc = "submit" /\ idx'.to = idx.to /\ idx'.todo = idx.todo
      /\ idx'.events = idx.events /\ idx'.account = account
      /\ idx' = [f \in {"pc", "to", "todo", "events", "account"} |-> idx'[f]]
    BY <1>2, <1>3, IdxFields
<1>6. IdxTypeOK' /\ idx' # Idle
    BY <1>0, <1>2, <1>4, <1>5, IdxFields DEF IdxTypeOK, Idle
<1>7. PollInv'
    BY <1>0, <1>1, <1>2, <1>5, <1>6, PollGoesOn
<1> QED
    BY <1>1, <1>7 DEF BridgeInv

LEMMA SubmitDepositKeeps ==
    ASSUME BridgeInv, SubmitDeposit, UNCHANGED l1Vars
    PROVE  BridgeInv'
<1>0. CoreInv /\ UNCHANGED <<now, deposits, logs, next_from, late, fails, chain, trades>>
    BY DEF BridgeInv, SubmitDeposit, l1Vars, vaultVars
<1>1. idx # Idle /\ idx.pc = "submit" /\ Handle(DepositPost)
    BY DEF SubmitDeposit, Idle
<1>2. idx.todo # {}
    BY <1>1 DEF BridgeInv, PollInv, PollTracks
<1>3. /\ NextDeposit \in idx.todo /\ TruePost(DepositPost)
      /\ DepositPost.kind = "deposit" /\ DepositPost.id = NextDeposit
    BY <1>1, <1>2, PostsTrue
<1>4. /\ CoreInv' /\ LedgerOK(seq') /\ Advances(seq, seq')
      /\ ValidDeposit(DepositPost) => DepositPost.id <= Len(seq'.deposits)
  <2> DEFINE p == DepositPost
  <2>1. TruePost(p) /\ Handle(p) /\ p.kind = "deposit"
      BY <1>1, <1>3
  <2> HIDE DEF p
  <2>2. /\ CoreInv' /\ LedgerOK(seq') /\ Advances(seq, seq')
        /\ p.kind = "deposit" /\ ValidDeposit(p) => p.id <= Len(seq'.deposits)
      BY <1>0, <2>1, HandleOK
  <2> QED BY <2>1, <2>2 DEF p
<1>5. CASE ~ValidDeposit(DepositPost)
  <2>1. idx' = Idle
      BY <1>5 DEF SubmitDeposit
  <2>2. fails' \in Nat
      BY <1>0, <1>1, IdxFields
  <2>3. PollInv'
      BY <1>0, <1>4, <2>1, <2>2, PollEnds
  <2> QED BY <1>4, <2>3 DEF BridgeInv
<1>6. CASE ValidDeposit(DepositPost)
  <2> DEFINE rest == idx.todo \ {NextDeposit}
  <2>1. idx' = [idx EXCEPT !.pc = "resolve", !.todo = rest]
      BY <1>6 DEF SubmitDeposit
  <2>2. rest \subseteq idx.todo /\ \A i \in idx.todo \ rest : i <= Len(seq'.deposits)
      BY <1>3, <1>4, <1>6
  <2> HIDE DEF rest
  <2>3. /\ idx'.pc = "resolve" /\ idx'.to = idx.to /\ idx'.todo = rest
        /\ idx'.events = idx.events /\ idx'.account = idx.account
        /\ idx' = [f \in {"pc", "to", "todo", "events", "account"} |-> idx'[f]]
      BY <1>1, <2>1, IdxFields
  <2>4. IdxTypeOK' /\ idx' # Idle
      BY <1>0, <1>1, <2>3, IdxFields DEF IdxTypeOK, Idle
  <2>5. PollInv'
      BY <1>0, <1>1, <1>4, <2>2, <2>3, <2>4, PollGoesOn
  <2> QED BY <1>4, <2>5 DEF BridgeInv
<1> QED
    BY <1>5, <1>6

LEMMA SubmitEventKeeps ==
    ASSUME BridgeInv, SubmitEvent, UNCHANGED l1Vars
    PROVE  BridgeInv'
<1>0. CoreInv /\ UNCHANGED <<now, deposits, logs, next_from, late, fails, chain, trades>>
    BY DEF BridgeInv, SubmitEvent, l1Vars, vaultVars
<1>1. idx # Idle /\ idx.pc = "resolve" /\ idx.events # {} /\ Handle(EventPost)
    BY DEF SubmitEvent, Idle
<1> DEFINE k == First(idx.events)
           p == EventPost
           rest == idx.events \ {k}
<1>2. /\ k \in idx.events /\ k \in 1..Len(logs) /\ TruePost(p)
      /\ p.kind = "event" /\ p.event = logs[k]
    BY <1>1, PostsTrue
<1>3. idx' = [idx EXCEPT !.events = rest] /\ Handle(p)
    BY <1>1 DEF SubmitEvent
<1> HIDE DEF k, p
<1>4. /\ CoreInv' /\ LedgerOK(seq') /\ Advances(seq, seq')
      /\ \A i \in 1..Len(logs) : p.kind = "event" /\ p.event = logs[i] => Applied(i)'
    BY <1>0, <1>2, <1>3, HandleOK
<1>5. rest \subseteq idx.events /\ \A i \in idx.events \ rest : Applied(i)'
    BY <1>2, <1>4
<1> HIDE DEF rest
<1>6. /\ idx'.pc = "resolve" /\ idx'.to = idx.to /\ idx'.todo = idx.todo
      /\ idx'.events = rest /\ idx'.account = idx.account
      /\ idx' = [f \in {"pc", "to", "todo", "events", "account"} |-> idx'[f]]
    BY <1>1, <1>3, IdxFields
<1>7. IdxTypeOK' /\ idx' # Idle
    BY <1>0, <1>1, <1>6, IdxFields DEF IdxTypeOK, Idle
<1>8. PollInv'
    BY <1>0, <1>1, <1>4, <1>5, <1>6, <1>7, PollGoesOn
<1> QED
    BY <1>4, <1>8 DEF BridgeInv

LEMMA SubmitHeightKeeps ==
    ASSUME BridgeInv, SubmitHeight, UNCHANGED l1Vars
    PROVE  BridgeInv'
<1>0. CoreInv /\ UNCHANGED <<now, deposits, logs, next_from, late, fails, chain, trades>>
    BY DEF BridgeInv, SubmitHeight, l1Vars, vaultVars
<1>1. /\ idx # Idle /\ idx.pc = "resolve" /\ idx.todo = {} /\ idx.events = {}
      /\ Handle(HeightPost) /\ idx' = [idx EXCEPT !.pc = "save"]
    BY DEF SubmitHeight, Idle
<1>2. CoreInv' /\ LedgerOK(seq') /\ Advances(seq, seq')
  <2> DEFINE p == HeightPost
  <2>1. TruePost(p) /\ Handle(p)
      BY <1>1, PostsTrue
  <2> HIDE DEF p
  <2> QED BY <1>0, <2>1, HandleOK
<1>3. /\ idx'.pc = "save" /\ idx'.to = idx.to /\ idx'.todo = idx.todo
      /\ idx'.events = idx.events /\ idx'.account = idx.account
      /\ idx' = [f \in {"pc", "to", "todo", "events", "account"} |-> idx'[f]]
    BY <1>1, IdxFields
<1>4. IdxTypeOK' /\ idx' # Idle
    BY <1>0, <1>1, <1>3, IdxFields DEF IdxTypeOK, Idle
<1>5. PollInv'
    BY <1>0, <1>1, <1>2, <1>3, <1>4, PollGoesOn
<1> QED
    BY <1>2, <1>5 DEF BridgeInv

(* The cursor moves past a range that has been applied. *)
LEMMA SaveKeeps ==
    ASSUME BridgeInv, SaveCursor, UNCHANGED l1Vars
    PROVE  BridgeInv'
<1>0. /\ CoreInv /\ PollInv
      /\ UNCHANGED <<now, deposits, logs, late, fails, seq>> /\ UNCHANGED l2Vars
    BY DEF BridgeInv, SaveCursor, l1Vars, vaultVars, l2Vars
<1>1. CoreInv' /\ LedgerOK(seq') /\ Advances(seq, seq')
    BY <1>0, CoreSame
<1>2. idx # Idle /\ idx.pc = "save" /\ idx' = Idle /\ next_from' = idx.to + 1
    BY DEF SaveCursor, Idle
<1>3. /\ idx.to < now /\ idx.todo = {} /\ idx.events = {}
      /\ \A i \in 1..Len(deposits) : deposits[i].block <= idx.to => i <= Len(seq.deposits)
      /\ \A i \in 1..Len(logs) : logs[i].block <= idx.to => Applied(i)
    BY <1>0, <1>2 DEF PollInv, PollTracks
<1>4. /\ now \in Nat
      /\ \A i \in 1..Len(deposits) : deposits[i].block \in Nat
      /\ \A i \in 1..Len(logs) : logs[i].block \in Nat
    BY <1>0, L1Entries DEF CoreInv
<1>5. idx.to \in Nat /\ fails \in Nat
    BY <1>2, IdxFields
<1>6. IdxTypeOK' /\ PollTracks'
  <2>1. next_from' \in Nat \ {0}
      BY <1>2, <1>5
  <2> QED BY <1>0, <1>2, <1>5, <2>1 DEF IdxTypeOK, PollTracks, Idle
<1>7. CursorBehind'
    BY <1>0, <1>2, <1>3, <1>4, <1>5 DEF CursorBehind
<1>8. LateTrue'
    BY <1>0, LateKept
<1>9. ScannedMeansApplied'
  <2>1. \A i \in 1..Len(deposits) : deposits[i].block < next_from' => deposits[i].block <= idx.to
      BY <1>2, <1>4, <1>5
  <2>2. \A i \in 1..Len(logs) : logs[i].block < next_from' => logs[i].block <= idx.to
      BY <1>2, <1>4, <1>5
  <2> QED BY <1>0, <1>3, <2>1, <2>2 DEF ScannedMeansApplied, Applied, Open
<1> QED
    BY <1>1, <1>6, <1>7, <1>8, <1>9 DEF BridgeInv, PollInv

LEMMA FailKeeps ==
    ASSUME BridgeInv, PollFail \/ PostLate, UNCHANGED l1Vars
    PROVE  BridgeInv'
<1>0. /\ CoreInv /\ UNCHANGED <<now, deposits, logs, next_from>> /\ UNCHANGED l2Vars
      /\ idx # Idle /\ idx' = Idle /\ fails' = fails + 1
    BY DEF BridgeInv, PollFail, PostLate, l1Vars, vaultVars
<1>1. CoreInv' /\ LedgerOK(seq') /\ Advances(seq, seq')
    BY <1>0, CoreSame
<1>2. fails' \in Nat
    BY <1>0, IdxFields
<1>3. \A p \in late' : p \in late \/ TruePost(p)
  <2>1. CASE PollFail
      BY <2>1 DEF PollFail
  <2>2. CASE PostLate
    <3>1. idx.pc = "submit" => idx.todo # {}
        BY <1>0 DEF BridgeInv, PollInv, PollTracks
    <3>2. /\ idx.todo # {} => TruePost(DepositPost)
          /\ idx.events # {} => TruePost(EventPost)
          /\ TruePost(HeightPost)
        BY <1>0, PostsTrue
    <3>3. CASE idx.pc = "submit"
      <4>1. late' = late \cup {DepositPost}
          BY <2>2, <3>3 DEF PostLate
      <4> QED BY <3>1, <3>2, <3>3, <4>1
    <3>4. CASE idx.pc # "submit" /\ idx.todo # {}
      <4>1. late' = late
          BY <2>2, <3>4 DEF PostLate
      <4> QED BY <4>1
    <3>5. CASE idx.pc # "submit" /\ idx.todo = {} /\ idx.events # {}
      <4>1. late' = late \cup {EventPost}
          BY <2>2, <3>5 DEF PostLate
      <4> QED BY <3>2, <3>5, <4>1
    <3>6. CASE idx.pc # "submit" /\ idx.todo = {} /\ idx.events = {}
      <4>1. late' = late \cup {HeightPost}
          BY <2>2, <3>6 DEF PostLate
      <4> QED BY <3>2, <4>1
    <3> QED BY <3>3, <3>4, <3>5, <3>6
  <2> QED BY <2>1, <2>2
<1>4. PollInv'
    BY <1>0, <1>1, <1>2, <1>3, PollEnds
<1> QED
    BY <1>1, <1>4 DEF BridgeInv

-----------------------------------------------------------------------------
(* The invariant *)

LEMMA BridgeInitial ==
    ASSUME Init
    PROVE  BridgeInv
<1>0. /\ now = 1 /\ deposits = <<>> /\ accepted = <<>>
      /\ settlementPaused = FALSE /\ vaultPaused = FALSE
      /\ nullifierUsed = {} /\ queue = [n \in {} |-> 0]
      /\ escape = NoRoot /\ escapeUsed = {}
      /\ tokens = 0 /\ logs = <<>> /\ paid = <<>>
      /\ chain = <<>> /\ trades = 0
      /\ idx = Idle /\ next_from = 1 /\ late = {} /\ fails = 0
    BY DEF Init, L1Init, BridgeInit
<1>1. /\ SeqShape(seq)
      /\ seq.next_id = Genesis + 1
      /\ seq.balance = [a \in Accounts |-> 0] /\ seq.quarantine = [a \in Accounts |-> 0]
      /\ seq.deposits = <<>> /\ seq.observed_l1_height = 0
      /\ seq.next_withdrawal_id = 1
      /\ DOMAIN seq.withdrawals = {} /\ DOMAIN seq.outcome = {}
      /\ seq.withdrawals = [id \in {} |-> 0] /\ seq.outcome = [id \in {} |-> 0]
    BY DEF Init, BridgeInit, SeqShape
<1>2. SeqTypeOK(seq)
  <2>1. Genesis + 1 \in Nat
      BY BridgeAssumption
  <2>2. /\ seq.withdrawals \in [DOMAIN seq.withdrawals -> Leaves]
        /\ seq.outcome \in [DOMAIN seq.outcome -> Outcomes]
      BY <1>1
  <2> QED BY <1>1, <2>1, <2>2 DEF SeqTypeOK
<1>3. L1TypeOK
  <2>1. queue \in [DOMAIN queue -> QueueEntries]
      BY <1>0
  <2>2. deposits \in Seq(DepositEntries) /\ logs \in Seq(LogEntries) /\ paid \in Seq(Nat)
      BY <1>0
  <2>3. now \in Nat \ {0} /\ tokens \in Nat /\ escapeUsed \subseteq Accounts
      BY <1>0
  <2>4. settlementPaused \in BOOLEAN /\ vaultPaused \in BOOLEAN
      BY <1>0
  <2> QED BY <2>1, <2>2, <2>3, <2>4 DEF L1TypeOK
<1>4. Len(chain) = 0 /\ Len(deposits) = 0 /\ Len(logs) = 0 /\ Len(accepted) = 0
      /\ Len(paid) = 0 /\ Len(seq.deposits) = 0 /\ 1..0 = {}
    BY <1>0, <1>1
<1>5. IsSequence(chain) /\ IsSequence(accepted)
    BY <1>0 DEF IsSequence
<1>6. L2TypeOK
    BY <1>0, <1>2, <1>4, <1>5 DEF L2TypeOK
<1>7. Calendar /\ RootsExtend /\ PaidOnce
    BY <1>4 DEF Calendar, RootsExtend, PaidOnce
<1>8. DepositsInOrder
  <2>1. DepositRootByCount(0) = <<>>
      BY <1>4 DEF DepositRootByCount
  <2> QED BY <1>1, <1>4, <2>1 DEF DepositsInOrder
<1>9. Ledger(seq)
    BY <1>1, <1>4 DEF Ledger
<1>10. AcceptedRoots
    BY <1>0, <1>4, <1>5 DEF AcceptedRoots, EscapeModeActive
<1>11. QueueProven /\ NullifierHeld /\ EventsTrue
    BY <1>0, <1>1, <1>4 DEF QueueProven, NullifierHeld, EventsTrue
<1>12. CoreInv
    BY <1>3, <1>6, <1>7, <1>8, <1>9, <1>10, <1>11 DEF CoreInv
<1>13. PollInv
    BY <1>0, <1>4 DEF PollInv, IdxTypeOK, LateTrue, PollTracks, CursorBehind, ScannedMeansApplied
<1> QED
    BY <1>12, <1>13 DEF BridgeInv

LEMMA BridgeStep ==
    ASSUME BridgeInv, [Next]_bridgeVars
    PROVE  BridgeInv'
<1>1. CASE Tick \/ Settlement \/ Vault \/ L2
    BY <1>1, BesideIndexer
<1>2. CASE Indexer
    BY <1>2, StartKeeps, ResolveKeeps, SubmitDepositKeeps, SubmitEventKeeps, SubmitHeightKeeps,
       SaveKeeps, FailKeeps, LateArrives DEF Indexer, Poll
<1>3. CASE UNCHANGED bridgeVars
  <2>1. UNCHANGED <<l1Vars, l2Vars>> /\ UNCHANGED <<idx, next_from, late, fails, now, deposits, logs>>
      BY <1>3 DEF bridgeVars, indexerVars, l1Vars, vaultVars
  <2>2. CoreInv' /\ LedgerOK(seq') /\ Advances(seq, seq')
      BY <2>1, CoreSame DEF BridgeInv
  <2>3. L1Grows
      BY <2>1, SameGrows DEF BridgeInv
  <2>4. PollInv'
      BY <2>1, <2>2, <2>3, PollStable
  <2> QED BY <2>2, <2>4 DEF BridgeInv
<1> QED
    BY <1>1, <1>2, <1>3 DEF Next

(* The inductive invariant of the bridge holds in every reachable state, for
   any number of accounts, deposits, withdrawals, failed polls and late
   requests. *)
THEOREM BridgeInvariance == Spec => []BridgeInv
<1>1. Init => BridgeInv
    BY BridgeInitial
<1>2. BridgeInv /\ [Next]_bridgeVars => BridgeInv'
    BY BridgeStep
<1> QED
    BY <1>1, <1>2, PTL DEF Spec

(* However often the indexer dies, scans a range again or has a request arrive
   late, the sequencer consumes the vault's deposits in order, each once, and
   only from finalized blocks: validate_l1_deposit's cursor and root checks are
   enough. *)
THEOREM DepositsTakenInOrder == Spec => []DepositsInOrder
<1>1. BridgeInv => DepositsInOrder
    BY DEF BridgeInv, CoreInv
<1> QED
    BY <1>1, BridgeInvariance, PTL

(* What the indexer's saved cursor has passed has had its effect: saving it
   after the last post of a poll is early enough. *)
THEOREM CursorSkipsNothing == Spec => []ScannedMeansApplied
<1>1. BridgeInv => ScannedMeansApplied
    BY DEF BridgeInv, PollInv
<1> QED
    BY <1>1, BridgeInvariance, PTL

(* The vault pays no withdrawal twice: a cancelled one gives its nullifier back
   and a paid one never does. *)
THEOREM NoDoublePayment == Spec => []PaidOnce
<1>1. BridgeInv => PaidOnce
    BY DEF BridgeInv, CoreInv
<1> QED
    BY <1>1, BridgeInvariance, PTL

LEMMA SubmittableFromInv ==
    ASSUME BridgeInv
    PROVE  BlocksSubmittable
<1>0. CoreInv
    BY DEF BridgeInv
<1> SUFFICES ASSUME NEW h \in 1..Len(chain), h > Latest.height
             PROVE  DepositsMatch(chain[h])
    BY DEF BlocksSubmittable
<1> DEFINE count == Len(chain[h].deposits)
<1>1. RootTypeOK(chain[h])
    BY <1>0 DEF CoreInv, L2TypeOK
<1>2. count \in Nat /\ Len(seq.deposits) \in Nat /\ Len(deposits) \in Nat
    BY <1>0, <1>1, SeqNumbers, L1Entries DEF RootTypeOK, CoreInv, L2TypeOK
<1>3. /\ chain[h].deposits = DepositRootByCount(count)
      /\ count <= Len(seq.deposits) /\ Len(seq.deposits) <= Len(deposits)
    BY <1>0 DEF CoreInv, RootsExtend, RootExtended, DepositsInOrder
<1>4. Latest.height \in 0..Len(chain) /\ Len(accepted) \in Nat /\ Len(chain) \in Nat
    BY <1>0, RecordHeight
<1>5. Len(Latest.root.deposits) <= count
  <2>1. CASE accepted = <<>>
    <3>1. Latest.root.deposits = <<>>
        BY <2>1 DEF Latest, NoRoot
    <3>2. Len(Latest.root.deposits) = 0
        BY <3>1
    <3> QED BY <1>2, <3>2
  <2>2. CASE accepted # <<>>
    <3>1. Latest = accepted[Len(accepted)] /\ Len(accepted) \in 1..Len(accepted)
        BY <1>0, <1>4, <2>2, EmptySeq DEF Latest, CoreInv, AcceptedRoots, IsSequence
    <3>2. Latest.height \in 1..Len(chain) /\ Latest.root = chain[Latest.height]
        BY <1>0, <3>1 DEF CoreInv, AcceptedRoots
    <3>3. h \in Latest.height..Len(chain)
        BY <1>4, <3>2
    <3>4. RootExtended(chain[Latest.height], chain[h])
        BY <1>0, <3>2, <3>3 DEF CoreInv, RootsExtend
    <3> QED BY <3>2, <3>4 DEF RootExtended
  <2> QED BY <2>1, <2>2
<1>6. count <= Len(deposits) /\ count >= Len(Latest.root.deposits)
  <2>1. Len(Latest.root.deposits) <= count
      BY <1>5
  <2>2. count <= Len(deposits)
      BY <1>2, <1>3
  <2> QED BY <2>1, <2>2
<1> QED
    BY <1>3, <1>6 DEF DepositsMatch

(* Every committed block that the settlement contract has not passed carries a
   deposit commitment that the contract will accept: no block can stop the
   roots after it. *)
THEOREM RootsNeverStuck == Spec => []BlocksSubmittable
<1>1. BridgeInv => BlocksSubmittable
    BY SubmittableFromInv
<1> QED
    BY <1>1, BridgeInvariance, PTL

-----------------------------------------------------------------------------
(* Sums of amounts: LeafUnits(f, S) adds up f[x].amount for x in S.  What the
   vault was paid and has paid are such sums too. *)

Countable(f, S) == IsFiniteSet(S) /\ \A x \in S : f[x].amount \in Nat

LEMMA UnitsAreLeaves ==
    /\ \A S : Units(S) = LeafUnits(deposits, S)
    /\ \A S : PaidUnits(S) = LeafUnits(queue, S)
BY DEF Units, PaidUnits, LeafUnits

LEMMA LeafUnitsSum ==
    ASSUME NEW f, NEW S, Countable(f, S), NEW A, \A x \in S : A[x] = f[x].amount
    PROVE  LeafUnits(f, S) = SumFunctionOnSet(A, S)
<1> DEFINE B == [x \in S |-> f[x].amount]
<1>1. DOMAIN B = S /\ (\A x \in S : B[x] = A[x]) /\ Summands(B, S)
    BY DEF Countable, Summands
<1>2. LeafUnits(f, S) = SumFunction(B)
    BY DEF LeafUnits
<1> HIDE DEF B
<1>3. SumFunctionOnSet(B, S) = SumFunctionOnSet(A, S)
    BY <1>1, SumSame
<1> QED
    BY <1>1, <1>2, <1>3 DEF SumFunction

LEMMA LeafUnitsNat ==
    ASSUME NEW f, NEW S, Countable(f, S)
    PROVE  LeafUnits(f, S) \in Nat
<1> DEFINE A == [x \in S |-> f[x].amount]
<1>1. \A x \in S : A[x] = f[x].amount /\ A[x] \in Nat
    BY DEF Countable
<1> HIDE DEF A
<1>2. LeafUnits(f, S) = SumFunctionOnSet(A, S)
    BY <1>1, LeafUnitsSum
<1> QED
    BY <1>1, <1>2, SumNat DEF Countable

LEMMA LeafUnitsSame ==
    ASSUME NEW f, NEW g, NEW S, \A x \in S : f[x].amount = g[x].amount
    PROVE  LeafUnits(f, S) = LeafUnits(g, S)
<1>1. [x \in S |-> f[x].amount] = [x \in S |-> g[x].amount]
    OBVIOUS
<1> QED
    BY <1>1 DEF LeafUnits

LEMMA CountablePart ==
    ASSUME NEW f, NEW S, NEW T, Countable(f, S), T \subseteq S
    PROVE  Countable(f, T)
BY FS_Subset DEF Countable

LEMMA LeafUnitsUnion ==
    ASSUME NEW f, NEW S, NEW T, Countable(f, S), Countable(f, T), S \cap T = {}
    PROVE  LeafUnits(f, S \cup T) = LeafUnits(f, S) + LeafUnits(f, T)
<1> DEFINE U == S \cup T
           A == [x \in U |-> f[x].amount]
<1>1. \A x \in U : A[x] = f[x].amount /\ A[x] \in Nat
    BY DEF Countable
<1>2. Countable(f, U)
    BY FS_Union DEF Countable
<1>3. S \subseteq U /\ T \subseteq U
    OBVIOUS
<1> HIDE DEF A, U
<1>4. /\ LeafUnits(f, U) = SumFunctionOnSet(A, U)
      /\ LeafUnits(f, S) = SumFunctionOnSet(A, S)
      /\ LeafUnits(f, T) = SumFunctionOnSet(A, T)
    BY <1>1, <1>2, <1>3, LeafUnitsSum
<1>5. Summands(A, S) /\ Summands(A, T)
    BY <1>1, <1>3 DEF Summands, Countable
<1>6. SumFunctionOnSet(A, S \cup T) = SumFunctionOnSet(A, S) + SumFunctionOnSet(A, T)
    BY <1>5, SumUnion
<1> QED
    BY <1>4, <1>6 DEF U

LEMMA LeafUnitsOne ==
    ASSUME NEW f, NEW x, f[x].amount \in Nat
    PROVE  Countable(f, {x}) /\ LeafUnits(f, {x}) = f[x].amount
<1> DEFINE S == {x}
           A == [y \in S |-> f[y].amount]
<1>0. IsFiniteSet(S) /\ x \in S /\ S \ {x} = {} /\ \A y \in S : y = x
    BY FS_Singleton
<1>1. Countable(f, S) /\ Summands(A, S) /\ x \in S /\ A[x] = f[x].amount
      /\ S \ {x} = {} /\ \A y \in S : A[y] = f[y].amount
  <2> HIDE DEF S
  <2> QED BY <1>0 DEF Countable, Summands
<1> HIDE DEF A, S
<1>2. LeafUnits(f, S) = SumFunctionOnSet(A, S)
    BY <1>1, LeafUnitsSum
<1>3. SumFunctionOnSet(A, S) = A[x] + SumFunctionOnSet(A, S \ {x})
    BY <1>1, SumSplit
<1>4. SumFunctionOnSet(A, S \ {x}) = 0
    BY <1>1, SumEmpty
<1>5. LeafUnits(f, S) = f[x].amount
    BY <1>1, <1>2, <1>3, <1>4
<1> QED
    BY <1>1, <1>5 DEF S

LEMMA LeafUnitsAdd ==
    ASSUME NEW f, NEW S, NEW x, Countable(f, S), x \notin S, f[x].amount \in Nat
    PROVE  Countable(f, S \cup {x}) /\ LeafUnits(f, S \cup {x}) = LeafUnits(f, S) + f[x].amount
<1> DEFINE T == {x}
<1>1. Countable(f, T) /\ LeafUnits(f, T) = f[x].amount /\ S \cap T = {}
    BY LeafUnitsOne
<1>2. Countable(f, S \cup T)
    BY <1>1, FS_Union DEF Countable
<1> HIDE DEF T
<1>3. LeafUnits(f, S \cup T) = LeafUnits(f, S) + LeafUnits(f, T)
    BY <1>1, LeafUnitsUnion
<1> QED
    BY <1>1, <1>2, <1>3 DEF T

LEMMA LeafUnitsLess ==
    ASSUME NEW f, NEW S, NEW T, Countable(f, S), T \subseteq S
    PROVE  LeafUnits(f, T) <= LeafUnits(f, S)
<1> DEFINE U == S \ T
<1>1. Countable(f, T) /\ Countable(f, U) /\ T \cap U = {} /\ S = T \cup U
    BY CountablePart
<1> HIDE DEF U
<1>2. LeafUnits(f, T \cup U) = LeafUnits(f, T) + LeafUnits(f, U)
    BY <1>1, LeafUnitsUnion
<1>3. LeafUnits(f, T) \in Nat /\ LeafUnits(f, U) \in Nat
    BY <1>1, LeafUnitsNat
<1>4. LeafUnits(f, S) = LeafUnits(f, T) + LeafUnits(f, U)
    BY <1>1, <1>2
<1> QED
    BY <1>3, <1>4

-----------------------------------------------------------------------------
(* Cash *)

LEMMA CashSum ==
    ASSUME NEW b \in [Accounts -> Nat]
    PROVE  /\ SumFunction(b) = SumFunctionOnSet(b, Accounts)
           /\ Summands(b, Accounts) /\ IsFiniteSet(Accounts)
           /\ SumFunction(b) \in Nat
<1>1. IsFiniteSet(Accounts)
    BY FS_Interval DEF Accounts
<1>2. Summands(b, Accounts) /\ DOMAIN b = Accounts
    BY <1>1 DEF Summands
<1> QED
    BY <1>1, <1>2, SumNat DEF SumFunction

LEMMA CashChange ==
    ASSUME NEW b \in [Accounts -> Nat], NEW c \in [Accounts -> Nat], NEW a \in Accounts,
           \A y \in Accounts \ {a} : b[y] = c[y]
    PROVE  SumFunction(c) = SumFunction(b) + (c[a] - b[a])
<1>1. /\ SumFunction(b) = SumFunctionOnSet(b, Accounts)
      /\ SumFunction(c) = SumFunctionOnSet(c, Accounts)
      /\ Summands(b, Accounts)
    BY CashSum
<1>2. c[a] \in Int
    OBVIOUS
<1> QED
    BY <1>1, <1>2, SumChange

LEMMA CashChange2 ==
    ASSUME NEW b \in [Accounts -> Nat], NEW c \in [Accounts -> Nat],
           NEW x \in Accounts, NEW z \in Accounts, x # z,
           \A y \in Accounts \ {x, z} : b[y] = c[y]
    PROVE  SumFunction(c) = SumFunction(b) + (c[x] - b[x]) + (c[z] - b[z])
<1>1. /\ SumFunction(b) = SumFunctionOnSet(b, Accounts)
      /\ SumFunction(c) = SumFunctionOnSet(c, Accounts)
      /\ Summands(b, Accounts)
    BY CashSum
<1>2. c[x] \in Int /\ c[z] \in Int
    OBVIOUS
<1> QED
    BY <1>1, <1>2, SumChange2

-----------------------------------------------------------------------------
(* What the sequencer holds for its users, in nanos: cash, quarantine and open
   withdrawals. *)

Held(s) ==
    SumFunction(s.balance) + SumFunction(s.quarantine)
        + NanosPerTokenUnit * LeafUnits(s.withdrawals, Open(s))

LEMMA LeafCountable ==
    ASSUME NEW s, LedgerOK(s), NEW S, S \subseteq DOMAIN s.withdrawals
    PROVE  Countable(s.withdrawals, S)
<1>1. IsFiniteSet(S)
    BY LedgerIds, FS_Subset
<1>2. \A x \in S : s.withdrawals[x].amount \in Nat
    BY DEF LedgerOK, SeqTypeOK, Leaves
<1> QED
    BY <1>1, <1>2 DEF Countable

LEMMA PendingIsOpen ==
    ASSUME NEW s, LedgerOK(s)
    PROVE  DOMAIN s.withdrawals \ DOMAIN s.outcome = Open(s) /\ Open(s) \subseteq DOMAIN s.withdrawals
BY DEF LedgerOK, Ledger, Open

LEMMA HeldParts ==
    ASSUME NEW s, LedgerOK(s)
    PROVE  /\ SumFunction(s.balance) \in Nat /\ SumFunction(s.quarantine) \in Nat
           /\ LeafUnits(s.withdrawals, Open(s)) \in Nat
           /\ NanosPerTokenUnit \in Nat
           /\ NanosPerTokenUnit * LeafUnits(s.withdrawals, Open(s)) \in Nat
           /\ Held(s) \in Nat
<1>1. SumFunction(s.balance) \in Nat /\ SumFunction(s.quarantine) \in Nat
    BY CashSum DEF LedgerOK, SeqTypeOK
<1>2. Countable(s.withdrawals, Open(s))
    BY PendingIsOpen, LeafCountable
<1>3. LeafUnits(s.withdrawals, Open(s)) \in Nat /\ NanosPerTokenUnit \in Nat
    BY <1>2, LeafUnitsNat, BridgeAssumption
<1>4. NanosPerTokenUnit * LeafUnits(s.withdrawals, Open(s)) \in Nat
    BY <1>3, ProductNat
<1>5. Held(s) \in Nat
    BY <1>1, <1>4 DEF Held
<1> QED
    BY <1>1, <1>3, <1>4, <1>5

(* The refunds of the accounts add up to the leaves refunded. *)
LEMMA RefundsAddUp ==
    ASSUME NEW s, LedgerOK(s), NEW ids, ids \subseteq DOMAIN s.withdrawals,
           NEW c, c \in [Accounts -> Nat],
           \A a \in Accounts : c[a] = s.balance[a] + NanosPerTokenUnit * RefundUnits(s, ids, a)
    PROVE  SumFunction(c) = SumFunction(s.balance)
                              + NanosPerTokenUnit * LeafUnits(s.withdrawals, ids)
<1> DEFINE A == [x \in ids |-> s.withdrawals[x].amount]
           key == [x \in ids |-> s.withdrawals[x].account]
           g == [a \in Accounts |-> RefundUnits(s, ids, a)]
           h == [a \in Accounts |-> NanosPerTokenUnit * RefundUnits(s, ids, a)]
           k == NanosPerTokenUnit
<1>1. Countable(s.withdrawals, ids)
    BY LeafCountable
<1>2. /\ Summands(A, ids) /\ \A x \in ids : A[x] = s.withdrawals[x].amount /\ A[x] \in Nat
    BY <1>1 DEF Countable, Summands
<1>3. \A x \in ids : key[x] \in Accounts
    BY DEF LedgerOK, SeqTypeOK, Leaves
<1>4. ASSUME NEW a \in Accounts
      PROVE  g[a] = SumFunctionOnSet(A, {x \in ids : key[x] = a}) /\ g[a] \in Nat
  <2> DEFINE S == {x \in ids : s.withdrawals[x].account = a}
  <2>1. S = {x \in ids : key[x] = a}
      OBVIOUS
  <2>2. g[a] = LeafUnits(s.withdrawals, S)
      BY DEF RefundUnits, LeafUnits
  <2>3. S \subseteq ids
      OBVIOUS
  <2>4. Countable(s.withdrawals, S) /\ \A x \in S : A[x] = s.withdrawals[x].amount
      BY <1>1, <1>2, <2>3, CountablePart
  <2> HIDE DEF S, A, g
  <2>5. LeafUnits(s.withdrawals, S) = SumFunctionOnSet(A, S)
      BY <2>4, LeafUnitsSum
  <2>6. LeafUnits(s.withdrawals, S) \in Nat
      BY <2>4, LeafUnitsNat
  <2> QED BY <2>1, <2>2, <2>5, <2>6
<1>5. s.balance \in [Accounts -> Nat]
    BY DEF LedgerOK, SeqTypeOK
<1>6. \A a \in Accounts : h[a] = k * g[a] /\ c[a] = s.balance[a] + h[a]
    OBVIOUS
<1> HIDE DEF A, key, g, h
<1>7. IsFiniteSet(Accounts) /\ Summands(g, Accounts) /\ Summands(s.balance, Accounts)
  <2>1. IsFiniteSet(Accounts) /\ Summands(s.balance, Accounts)
      BY <1>5, CashSum
  <2>2. \A a \in Accounts : g[a] \in Nat
      BY <1>4, Zenon
  <2>3. \A a \in Accounts : g[a] \in Int
      BY <2>2
  <2> QED BY <2>1, <2>3 DEF Summands
<1>8. SumFunctionOnSet(g, Accounts) = SumFunctionOnSet(A, ids)
    BY <1>2, <1>3, <1>4, <1>7, SumGroups
<1>9. LeafUnits(s.withdrawals, ids) = SumFunctionOnSet(A, ids)
    BY <1>1, <1>2, LeafUnitsSum
<1>10. k \in Int
    BY BridgeAssumption
<1> HIDE DEF k
<1>11. SumFunctionOnSet(h, Accounts) = k * SumFunctionOnSet(g, Accounts)
    BY <1>6, <1>7, <1>10, SumScale
<1>12. Summands(h, Accounts)
    BY <1>6, <1>7, <1>10, Distributes DEF Summands
<1>13. SumFunctionOnSet(c, Accounts) = SumFunctionOnSet(s.balance, Accounts) + SumFunctionOnSet(h, Accounts)
    BY <1>6, <1>7, <1>12, SumPlus
<1>14. SumFunction(c) = SumFunctionOnSet(c, Accounts)
       /\ SumFunction(s.balance) = SumFunctionOnSet(s.balance, Accounts)
    BY <1>5, CashSum
<1> QED
    BY <1>8, <1>9, <1>11, <1>13, <1>14 DEF k

(* Leaves that are refunded stay in the books; leaves that are finalized leave
   what is held. *)
HeldMoves(s, t, ids, status) ==
    /\ status # "finalized" => Held(t) = Held(s)
    /\ status = "finalized" =>
          Held(s) = Held(t) + NanosPerTokenUnit * LeafUnits(s.withdrawals, ids)

LEMMA HeldMove ==
    ASSUME NEW s, LedgerOK(s), NEW ids, ids \subseteq Open(s),
           NEW status \in {"queued", "finalized", "refunded"}, NEW height \in Nat,
           NEW t, t = Moved(s, ids, status, height)
    PROVE  HeldMoves(s, t, ids, status)
<1> DEFINE k == NanosPerTokenUnit
           L == LeafUnits(s.withdrawals, ids)
           R == LeafUnits(s.withdrawals, Open(s) \ ids)
<1>1. IsMove(t, s, ids, status, height) /\ MoveEffect(t, s, ids, status)
    BY MovedFields, MovedOK
<1>2. /\ t.quarantine = s.quarantine
      /\ LedgerOK(t) /\ DOMAIN t.withdrawals = DOMAIN s.withdrawals
      /\ status # "queued" => Open(t) = Open(s) \ ids
      /\ status = "queued" => t.outcome = s.outcome
    BY <1>1 DEF IsMove, MoveEffect
<1>3. t.withdrawals =
        [id \in DOMAIN s.withdrawals |->
           IF id \in ids THEN [s.withdrawals[id] EXCEPT !.l1_status = status]
           ELSE s.withdrawals[id]]
    BY <1>1 DEF IsMove
<1>4. t.balance =
        [a \in Accounts |-> s.balance[a] + IF status # "refunded" THEN 0
                                           ELSE NanosPerTokenUnit * RefundUnits(s, ids, a)]
    BY <1>1, Zenon DEF IsMove
<1>5. s.withdrawals \in [DOMAIN s.withdrawals -> Leaves] /\ s.balance \in [Accounts -> Nat]
      /\ t.balance \in [Accounts -> Nat]
    BY <1>2 DEF LedgerOK, SeqTypeOK
<1>6. \A id \in DOMAIN s.withdrawals : t.withdrawals[id].amount = s.withdrawals[id].amount
    BY <1>3, <1>5 DEF Leaves
<1>7. Open(s) \subseteq DOMAIN s.withdrawals /\ ids \subseteq DOMAIN s.withdrawals
    BY PendingIsOpen
<1>8. LeafUnits(s.withdrawals, Open(s)) = R + L /\ R \in Nat /\ L \in Nat
  <2> DEFINE S == Open(s) \ ids
  <2>1. S \cup ids = Open(s) /\ S \cap ids = {} /\ S \subseteq DOMAIN s.withdrawals
      BY <1>7
  <2> HIDE DEF S
  <2>2. Countable(s.withdrawals, S) /\ Countable(s.withdrawals, ids)
      BY <1>7, <2>1, LeafCountable
  <2>3. LeafUnits(s.withdrawals, S \cup ids) = LeafUnits(s.withdrawals, S) + L
      BY <2>1, <2>2, LeafUnitsUnion
  <2>4. LeafUnits(s.withdrawals, S) \in Nat /\ L \in Nat
      BY <2>2, LeafUnitsNat
  <2> QED BY <2>1, <2>3, <2>4 DEF S
<1>9. k \in Nat
    BY BridgeAssumption
<1>10. status # "refunded" => SumFunction(t.balance) = SumFunction(s.balance)
  <2> HAVE status # "refunded"
  <2>1. \A a \in Accounts : t.balance[a] = s.balance[a] + 0
      BY <1>4
  <2>2. \A a \in Accounts : t.balance[a] = s.balance[a]
      BY <1>5, <2>1
  <2>3. t.balance = s.balance
      BY <1>5, <2>2
  <2> QED BY <2>3
<1>11. /\ SumFunction(s.balance) \in Nat /\ SumFunction(s.quarantine) \in Nat
       /\ SumFunction(t.balance) \in Nat
    BY <1>2, HeldParts
<1> HIDE DEF k, L, R
<1>12. k * (R + L) = k * R + k * L /\ k * R \in Nat /\ k * L \in Nat
    BY <1>8, <1>9, Distributes, ProductNat
<1>13. Held(s) = SumFunction(s.balance) + SumFunction(s.quarantine) + k * (R + L)
    BY <1>8 DEF Held, k
<1>14. CASE status = "queued"
  <2>1. Open(t) = Open(s)
      BY <1>2, <1>14, PendingIsOpen
  <2>2. LeafUnits(t.withdrawals, Open(s)) = LeafUnits(s.withdrawals, Open(s))
      BY <1>6, <1>7, LeafUnitsSame
  <2>3. Held(t) = Held(s)
      BY <1>2, <1>10, <1>14, <2>1, <2>2 DEF Held
  <2> QED BY <1>14, <2>3 DEF HeldMoves
<1>15. CASE status # "queued"
  <2>1. LeafUnits(t.withdrawals, Open(t)) = R
    <3> DEFINE S == Open(s) \ ids
    <3>1. Open(t) = S /\ \A id \in S : t.withdrawals[id].amount = s.withdrawals[id].amount
        BY <1>2, <1>6, <1>7, <1>15
    <3> HIDE DEF S
    <3>2. LeafUnits(t.withdrawals, S) = LeafUnits(s.withdrawals, S)
        BY <3>1, LeafUnitsSame
    <3> QED BY <3>1, <3>2 DEF S, R
  <2>2. Held(t) = SumFunction(t.balance) + SumFunction(s.quarantine) + k * R
      BY <1>2, <2>1 DEF Held, k
  <2>3. CASE status = "finalized"
    <3>1. SumFunction(t.balance) = SumFunction(s.balance)
        BY <1>10, <2>3
    <3>2. Held(s) = Held(t) + k * L
        BY <1>11, <1>12, <1>13, <2>2, <3>1
    <3> QED BY <2>3, <3>2 DEF HeldMoves, k, L
  <2>4. CASE status = "refunded"
    <3>1. \A a \in Accounts :
             t.balance[a] = s.balance[a] + NanosPerTokenUnit * RefundUnits(s, ids, a)
        BY <1>4, <2>4
    <3>2. SumFunction(t.balance) = SumFunction(s.balance) + k * L
        BY <1>5, <1>7, <3>1, RefundsAddUp DEF k, L
    <3>3. Held(t) = Held(s)
        BY <1>11, <1>12, <1>13, <2>2, <3>2
    <3> QED BY <2>4, <3>3 DEF HeldMoves
  <2> QED BY <1>15, <2>3, <2>4
<1> QED
    BY <1>14, <1>15

(* An L1 height changes neither what is held nor what was paid. *)
LEMMA HeightHeld ==
    ASSUME NEW s, LedgerOK(s), NEW height \in Nat, NEW t, t = AfterHeight(s, height)
    PROVE  Held(t) = Held(s) /\ Retired(t) = Retired(s)
<1>1. /\ LedgerOK(t) /\ Advances(s, t)
      /\ \A id \in DOMAIN t.outcome \ DOMAIN s.outcome : t.outcome[id].status = "refunded"
    BY AfterHeightOK
<1>2. Retired(t) = Retired(s)
  <2>1. DOMAIN s.outcome \subseteq DOMAIN t.outcome
        /\ \A id \in DOMAIN s.outcome : t.outcome[id] = s.outcome[id]
      BY <1>1 DEF Advances
  <2> QED BY <1>1, <2>1 DEF Retired
<1>3. CASE height <= s.observed_l1_height
    BY <1>2, <1>3 DEF AfterHeight
<1>4. CASE ~(height <= s.observed_l1_height)
  <2> DEFINE u == [s EXCEPT !.observed_l1_height = height]
             ids == {id \in Open(s) : height > s.withdrawals[id].expiry_height}
  <2>1. t = Moved(u, ids, "refunded", height)
      BY <1>4 DEF AfterHeight
  <2>2. SeqShape(s)
      BY DEF LedgerOK, SeqTypeOK
  <2>3. /\ SeqShape(u)
        /\ u.next_id = s.next_id /\ u.balance = s.balance /\ u.quarantine = s.quarantine
        /\ u.deposits = s.deposits /\ u.observed_l1_height = height
        /\ u.next_withdrawal_id = s.next_withdrawal_id
        /\ u.withdrawals = s.withdrawals /\ u.outcome = s.outcome
      BY <2>2 DEF SeqShape
  <2> HIDE DEF u
  <2>4. LedgerOK(u) /\ Open(u) = Open(s) /\ Held(u) = Held(s)
      BY <2>3 DEF LedgerOK, SeqTypeOK, Ledger, Open, Held
  <2>5. ids \subseteq Open(u)
      BY <2>4
  <2> HIDE DEF ids
  <2>6. HeldMoves(u, t, ids, "refunded")
      BY <2>1, <2>4, <2>5, HeldMove
  <2> QED BY <1>2, <2>4, <2>6 DEF HeldMoves
<1> QED
    BY <1>3, <1>4

(* An L1 event either leaves the books as they are or retires one leaf that was
   paid. *)
Pays(s, t, n) ==
    /\ n \in Open(s)
    /\ Retired(t) = Retired(s) \cup {n} /\ n \notin Retired(s)
    /\ Held(s) = Held(t) + NanosPerTokenUnit * s.withdrawals[n].amount

LEMMA EventHeld ==
    ASSUME NEW s, LedgerOK(s), NEW e \in LogEntries, NEW t, t = AfterEvent(s, e)
    PROVE  \/ Held(t) = Held(s) /\ Retired(t) = Retired(s)
           \/ e.status = "finalized" /\ Pays(s, t, e.nullifier)
<1> DEFINE n == e.nullifier
<1>1. CASE n \notin Open(s)
    BY <1>1 DEF AfterEvent
<1>2. ASSUME n \in Open(s), NEW status \in {"queued", "finalized", "refunded"},
             t = Moved(s, {n}, status, e.block)
      PROVE  \/ status # "finalized" /\ Held(t) = Held(s) /\ Retired(t) = Retired(s)
             \/ status = "finalized" /\ Pays(s, t, n)
  <2> DEFINE ids == {n}
  <2>1. ids \subseteq Open(s) /\ t = Moved(s, ids, status, e.block) /\ e.block \in Nat
      BY <1>2 DEF LogEntries
  <2>2. LeafUnits(s.withdrawals, ids) = s.withdrawals[n].amount
    <3>1. s.withdrawals[n].amount \in Nat
        BY <1>2 DEF Open, LedgerOK, SeqTypeOK, Leaves
    <3> HIDE DEF n
    <3> QED BY <3>1, LeafUnitsOne
  <2>3. n \notin DOMAIN s.outcome
      BY <1>2, PendingIsOpen
  <2> HIDE DEF ids
  <2>4. HeldMoves(s, t, ids, status) /\ MoveEffect(t, s, ids, status)
      BY <1>2, <2>1, HeldMove, MovedOK
  <2>5. /\ \A id \in DOMAIN s.outcome : id \in DOMAIN t.outcome /\ t.outcome[id] = s.outcome[id]
        /\ status = "queued" => t.outcome = s.outcome
        /\ status # "queued" => /\ DOMAIN t.outcome = DOMAIN s.outcome \cup ids
                                /\ \A id \in ids : t.outcome[id].status = status
      BY <2>4 DEF MoveEffect, Advances
  <2>6. CASE status = "queued"
    <3>1. Retired(t) = Retired(s)
        BY <2>5, <2>6 DEF Retired
    <3> QED BY <2>4, <2>6, <3>1 DEF HeldMoves
  <2>7. CASE status = "refunded"
    <3>1. Retired(t) = Retired(s)
        BY <2>5, <2>7 DEF Retired
    <3> QED BY <2>4, <2>7, <3>1 DEF HeldMoves
  <2>8. CASE status = "finalized"
    <3>1. Retired(t) = Retired(s) \cup {n} /\ n \notin Retired(s)
        BY <2>3, <2>5, <2>8 DEF Retired, ids
    <3>2. Held(s) = Held(t) + NanosPerTokenUnit * s.withdrawals[n].amount
        BY <2>2, <2>4, <2>8 DEF HeldMoves
    <3> QED BY <1>2, <2>8, <3>1, <3>2 DEF Pays
  <2> QED BY <1>2, <2>6, <2>7, <2>8
<1>3. CASE n \in Open(s) /\ e.status = "queued"
  <2>1. t = Moved(s, {n}, "queued", e.block) \/ t = s
      BY <1>3 DEF AfterEvent
  <2> QED BY <1>2, <1>3, <2>1
<1>4. CASE n \in Open(s) /\ e.status = "finalized"
  <2>1. t = Moved(s, {n}, "finalized", e.block)
      BY <1>4 DEF AfterEvent
  <2> QED BY <1>2, <1>4, <2>1
<1>5. CASE n \in Open(s) /\ e.status = "cancelled"
  <2>1. t = Moved(s, {n}, "refunded", e.block)
      BY <1>5 DEF AfterEvent
  <2> QED BY <1>2, <1>5, <2>1
<1>6. e.status \in {"queued", "finalized", "cancelled"}
    BY DEF LogEntries
<1> QED
    BY <1>1, <1>3, <1>4, <1>5, <1>6

(* Cash that only moves between accounts and the quarantine. *)
LEMMA ClaimedHeld ==
    ASSUME NEW s, LedgerOK(s), NEW a \in Accounts, NEW t, t = Claimed(s, a)
    PROVE  Held(t) = Held(s)
<1>1. /\ SeqShape(s)
      /\ s.balance \in [Accounts -> Nat] /\ s.quarantine \in [Accounts -> Nat]
    BY DEF LedgerOK, SeqTypeOK
<1> DEFINE b == [s.balance EXCEPT ![a] = @ + s.quarantine[a]]
           q == [s.quarantine EXCEPT ![a] = 0]
<1>2. t = [s EXCEPT !.balance = b, !.quarantine = q]
    BY <1>1 DEF Claimed, SeqShape
<1>3. b \in [Accounts -> Nat] /\ q \in [Accounts -> Nat]
    BY <1>1
<1>4. /\ b[a] = s.balance[a] + s.quarantine[a] /\ q[a] = 0
      /\ \A y \in Accounts \ {a} : s.balance[y] = b[y] /\ s.quarantine[y] = q[y]
      /\ s.balance[a] \in Nat /\ s.quarantine[a] \in Nat
    BY <1>1
<1> HIDE DEF b, q
<1>5. t.balance = b /\ t.quarantine = q /\ t.withdrawals = s.withdrawals
    BY <1>1, <1>2 DEF SeqShape
<1>6. /\ SumFunction(b) = SumFunction(s.balance) + (b[a] - s.balance[a])
      /\ SumFunction(q) = SumFunction(s.quarantine) + (q[a] - s.quarantine[a])
    BY <1>1, <1>3, <1>4, CashChange
<1>7. /\ SumFunction(s.balance) \in Nat /\ SumFunction(s.quarantine) \in Nat
    BY <1>1, CashSum
<1>8. SumFunction(b) + SumFunction(q) = SumFunction(s.balance) + SumFunction(s.quarantine)
    BY <1>4, <1>6, <1>7
<1> QED
    BY <1>5, <1>8 DEF Held, Open

LEMMA CreateAccountHeld ==
    ASSUME LedgerOK(seq), CreateAccount
    PROVE  Held(seq') = Held(seq)
<1> DEFINE u == [seq EXCEPT !.next_id = @ + 1]
<1>1. SeqShape(seq) /\ seq.next_id \in Nat
    BY DEF LedgerOK, SeqTypeOK
<1>2. seq.next_id \in Accounts /\ seq' = Claimed(u, seq.next_id)
    BY DEF CreateAccount
<1>3. /\ SeqShape(u) /\ u.next_id = seq.next_id + 1
      /\ u.balance = seq.balance /\ u.quarantine = seq.quarantine
      /\ u.deposits = seq.deposits /\ u.observed_l1_height = seq.observed_l1_height
      /\ u.next_withdrawal_id = seq.next_withdrawal_id
      /\ u.withdrawals = seq.withdrawals /\ u.outcome = seq.outcome
    BY <1>1 DEF SeqShape
<1> HIDE DEF u
<1>4. LedgerOK(u) /\ Held(u) = Held(seq)
    BY <1>1, <1>3 DEF LedgerOK, SeqTypeOK, Ledger, Held, Open
<1>5. Held(seq') = Held(u)
    BY <1>2, <1>4, ClaimedHeld
<1> QED
    BY <1>4, <1>5

LEMMA TradeHeld ==
    ASSUME LedgerOK(seq), NEW a \in Accounts, NEW b \in Accounts, Trade(a, b)
    PROVE  Held(seq') = Held(seq)
<1>1. SeqShape(seq) /\ seq.balance \in [Accounts -> Nat]
    BY DEF LedgerOK, SeqTypeOK
<1> DEFINE c == [[seq.balance EXCEPT ![a] = @ - 1] EXCEPT ![b] = @ + 1]
<1>2. seq' = [seq EXCEPT !.balance = c]
    BY <1>1 DEF Trade, SeqShape
<1>3. a # b /\ seq.balance[a] > 0
    BY DEF Trade
<1>4. /\ c \in [Accounts -> Nat]
      /\ c[a] = seq.balance[a] - 1 /\ c[b] = seq.balance[b] + 1
      /\ \A y \in Accounts \ {a, b} : seq.balance[y] = c[y]
      /\ seq.balance[a] \in Nat /\ seq.balance[b] \in Nat
    BY <1>1, <1>3
<1> HIDE DEF c
<1>5. /\ seq'.balance = c /\ seq'.quarantine = seq.quarantine
      /\ seq'.withdrawals = seq.withdrawals
    BY <1>1, <1>2 DEF SeqShape
<1>6. SumFunction(c) = SumFunction(seq.balance) + (c[a] - seq.balance[a]) + (c[b] - seq.balance[b])
    BY <1>1, <1>3, <1>4, CashChange2
<1>7. SumFunction(seq.balance) \in Nat
    BY <1>1, CashSum
<1>8. SumFunction(c) = SumFunction(seq.balance)
    BY <1>4, <1>6, <1>7
<1> QED
    BY <1>5, <1>8 DEF Held, Open

LEMMA IssueHeld ==
    ASSUME NEW s, LedgerOK(s), NEW a \in Accounts, NEW leaf \in Leaves,
           leaf.l1_status = "not_requested", NEW t, IssueStep(s, t, a, leaf)
    PROVE  Held(t) = Held(s)
<1> DEFINE n == s.next_withdrawal_id
           k == NanosPerTokenUnit
           L == LeafUnits(s.withdrawals, Open(s))
           m == leaf.amount
<1>1. LedgerOK(t)
    BY IssueStepOK
<1>2. n \notin DOMAIN s.withdrawals
  <2>1. n \in Nat
      BY DEF LedgerOK, SeqTypeOK
  <2>2. \A id \in DOMAIN s.withdrawals : id \in Nat /\ id < n
      BY LedgerIds
  <2> QED BY <2>1, <2>2
<1>3. /\ DOMAIN t.withdrawals = DOMAIN s.withdrawals \cup {n}
      /\ t.withdrawals[n] = leaf
      /\ \A id \in DOMAIN s.withdrawals : t.withdrawals[id] = s.withdrawals[id]
    BY <1>2 DEF IssueStep
<1>4. Open(t) = Open(s) \cup {n} /\ n \notin Open(s)
    BY <1>2, <1>3 DEF Open, Terminal
<1>5. m \in Nat /\ k \in Nat
    BY BridgeAssumption DEF Leaves
<1>6. LeafUnits(t.withdrawals, Open(t)) = L + m
  <2>1. Open(s) \subseteq DOMAIN t.withdrawals /\ Open(s) \subseteq DOMAIN s.withdrawals
      BY <1>3 DEF Open
  <2>2. Countable(t.withdrawals, Open(s)) /\ t.withdrawals[n].amount = m
      BY <1>1, <1>3, <2>1, LeafCountable
  <2>3. LeafUnits(t.withdrawals, Open(s) \cup {n}) = LeafUnits(t.withdrawals, Open(s)) + t.withdrawals[n].amount
    <3>1. t.withdrawals[n].amount \in Nat
        BY <1>5, <2>2
    <3> HIDE DEF n
    <3> QED BY <1>4, <2>2, <3>1, LeafUnitsAdd
  <2>4. LeafUnits(t.withdrawals, Open(s)) = L
      BY <1>3, <2>1, LeafUnitsSame
  <2> QED BY <1>4, <2>2, <2>3, <2>4
<1>7. /\ s.balance \in [Accounts -> Nat] /\ t.balance \in [Accounts -> Nat]
      /\ t.balance = [s.balance EXCEPT ![a] = @ - m * k]
      /\ t.quarantine = s.quarantine
    BY DEF IssueStep, LedgerOK, SeqTypeOK
<1>8. L \in Nat /\ SumFunction(s.balance) \in Nat /\ SumFunction(s.quarantine) \in Nat
    BY HeldParts
<1> HIDE DEF m, k, L
<1>9. m * k \in Nat /\ k * m = m * k /\ k * L \in Nat /\ k * (L + m) = k * L + k * m
    BY <1>5, <1>8, ProductNat, Distributes
<1> DEFINE p == m * k
<1>10. t.balance = [s.balance EXCEPT ![a] = @ - p] /\ p \in Nat
    BY <1>7, <1>9
<1> HIDE DEF p
<1>11. t.balance[a] = s.balance[a] - p /\ s.balance[a] \in Nat
       /\ \A y \in Accounts \ {a} : s.balance[y] = t.balance[y]
    BY <1>7, <1>10
<1>12. SumFunction(t.balance) = SumFunction(s.balance) + (t.balance[a] - s.balance[a])
    BY <1>7, <1>11, CashChange
<1>13. SumFunction(t.balance) = SumFunction(s.balance) - p
    BY <1>8, <1>10, <1>11, <1>12
<1>14. Held(t) = SumFunction(t.balance) + SumFunction(s.quarantine) + k * (L + m)
    BY <1>6, <1>7 DEF Held, k
<1>15. Held(s) = SumFunction(s.balance) + SumFunction(s.quarantine) + k * L
    BY DEF Held, k, L
<1>16. k * (L + m) = k * L + p
    BY <1>9 DEF p
<1> QED
    BY <1>8, <1>9, <1>10, <1>13, <1>14, <1>15, <1>16

LEMMA BlockHeld ==
    ASSUME LedgerOK(seq), ProduceBlock
    PROVE  Held(seq') = Held(seq)
<1>1. /\ seq'.withdrawals = [id \in Open(seq) |-> seq.withdrawals[id]]
      /\ Open(seq') = Open(seq)
      /\ seq'.balance = seq.balance /\ seq'.quarantine = seq.quarantine
    BY BlockOK
<1>2. LeafUnits(seq'.withdrawals, Open(seq)) = LeafUnits(seq.withdrawals, Open(seq))
    BY <1>1, LeafUnitsSame
<1> QED
    BY <1>1, <1>2 DEF Held

(* A deposit taken in adds its nanos. *)
LEMMA IngestHeld ==
    ASSUME LedgerOK(seq), NEW d, d.key \in Accounts, d.amount \in Amounts,
           ValidDeposit(d), IngestDeposit(d)
    PROVE  Held(seq') = Held(seq) + NanosPerTokenUnit * d.amount
<1>1. /\ SeqShape(seq)
      /\ seq.balance \in [Accounts -> Nat] /\ seq.quarantine \in [Accounts -> Nat]
    BY DEF LedgerOK, SeqTypeOK
<1> DEFINE p == d.amount * NanosPerTokenUnit
<1>2. p \in Nat /\ p = NanosPerTokenUnit * d.amount
  <2>1. d.amount \in Nat /\ NanosPerTokenUnit \in Nat
      BY BridgeAssumption
  <2> QED BY <2>1, ProductNat
<1>3. /\ SumFunction(seq.balance) \in Nat /\ SumFunction(seq.quarantine) \in Nat
      /\ NanosPerTokenUnit * LeafUnits(seq.withdrawals, Open(seq)) \in Nat
    BY HeldParts
<1>4. CASE d.account # NoAccount
  <2>1. d.account \in Accounts
      BY <1>4 DEF ValidDeposit, Exists
  <2> DEFINE a == d.account
             b == [seq.balance EXCEPT ![a] = @ + p]
  <2>2. seq' = [seq EXCEPT !.deposits = d.root, !.balance = b]
      BY <1>1, <1>4 DEF IngestDeposit, SeqShape
  <2> HIDE DEF p
  <2>3. /\ b \in [Accounts -> Nat] /\ b[a] = seq.balance[a] + p /\ seq.balance[a] \in Nat
        /\ \A y \in Accounts \ {a} : seq.balance[y] = b[y]
      BY <1>1, <1>2, <2>1
  <2> HIDE DEF b
  <2>4. /\ seq'.balance = b /\ seq'.quarantine = seq.quarantine
        /\ seq'.withdrawals = seq.withdrawals
      BY <1>1, <2>2 DEF SeqShape
  <2>5. SumFunction(b) = SumFunction(seq.balance) + (b[a] - seq.balance[a])
      BY <1>1, <2>1, <2>3, CashChange
  <2>6. SumFunction(b) = SumFunction(seq.balance) + p
      BY <1>2, <1>3, <2>3, <2>5
  <2>7. Held(seq') = Held(seq) + p
      BY <1>2, <1>3, <2>4, <2>6 DEF Held, Open
  <2> QED BY <1>2, <2>7
<1>5. CASE d.account = NoAccount
  <2> DEFINE a == d.key
             b == [seq.quarantine EXCEPT ![a] = @ + p]
  <2>2. seq' = [seq EXCEPT !.deposits = d.root, !.quarantine = b]
      BY <1>1, <1>5 DEF IngestDeposit, SeqShape
  <2> HIDE DEF p
  <2>3. /\ b \in [Accounts -> Nat] /\ b[a] = seq.quarantine[a] + p /\ seq.quarantine[a] \in Nat
        /\ \A y \in Accounts \ {a} : seq.quarantine[y] = b[y]
      BY <1>1, <1>2
  <2> HIDE DEF b
  <2>4. /\ seq'.quarantine = b /\ seq'.balance = seq.balance
        /\ seq'.withdrawals = seq.withdrawals
      BY <1>1, <2>2 DEF SeqShape
  <2>5. SumFunction(b) = SumFunction(seq.quarantine) + (b[a] - seq.quarantine[a])
      BY <1>1, <2>3, CashChange
  <2>6. SumFunction(b) = SumFunction(seq.quarantine) + p
      BY <1>2, <1>3, <2>3, <2>5
  <2>7. Held(seq') = Held(seq) + p
      BY <1>2, <1>3, <2>4, <2>6 DEF Held, Open
  <2> QED BY <1>2, <2>7
<1> QED
    BY <1>4, <1>5

-----------------------------------------------------------------------------
(* The sequencer's books *)

Even(s) ==
    Held(s) + NanosPerTokenUnit * PaidUnits(Retired(s))
        = NanosPerTokenUnit * Units(1..Len(s.deposits))

LEMMA QueueCountable ==
    ASSUME CoreInv, NEW S, S \subseteq DOMAIN queue
    PROVE  Countable(queue, S) /\ PaidUnits(S) \in Nat
<1> DEFINE I == 1..(seq.next_withdrawal_id - 1)
<1>1. seq.next_withdrawal_id \in Nat
    BY SeqNumbers DEF CoreInv, L2TypeOK
<1>2. \A n \in S : n \in Nat /\ n < seq.next_withdrawal_id /\ n >= 1
  <2> TAKE n \in S
  <2>1. n \in Nat /\ n < seq.next_withdrawal_id
      BY QueueIssued
  <2>2. PICK h \in 1..Record.height : n \in DOMAIN chain[h].withdrawals
      BY DEF CoreInv, QueueProven
  <2>3. h \in 1..Len(chain)
      BY RecordHeight
  <2>4. n \in 1..(chain[h].next_withdrawal_id - 1)
      BY <2>2, <2>3 DEF CoreInv, L2TypeOK, RootTypeOK
  <2> QED BY <2>1, <2>4
<1>3. S \subseteq I
    BY <1>1, <1>2
<1>4. IsFiniteSet(S)
  <2>1. IsFiniteSet(I)
      BY <1>1, FS_Interval
  <2> HIDE DEF I
  <2> QED BY <1>3, <2>1, FS_Subset
<1>5. \A n \in S : queue[n].amount \in Nat
    BY BridgeAssumption DEF CoreInv, L1TypeOK, QueueEntries
<1>6. Countable(queue, S)
    BY <1>4, <1>5 DEF Countable
<1> QED
    BY <1>6, LeafUnitsNat, UnitsAreLeaves

LEMMA RetiredPaid ==
    ASSUME CoreInv
    PROVE  Retired(seq) \subseteq Finalized /\ Finalized \subseteq DOMAIN queue
BY DEF CoreInv, EventsTrue, Retired, Finalized

LEMMA DepositsCountable ==
    ASSUME CoreInv, NEW n \in Nat, n <= Len(deposits)
    PROVE  Countable(deposits, 1..n) /\ Units(1..n) \in Nat
<1>1. IsFiniteSet(1..n)
    BY FS_Interval
<1>2. \A i \in 1..n : deposits[i].amount \in Nat
  <2> TAKE i \in 1..n
  <2>1. i \in 1..Len(deposits)
      BY L1Entries DEF CoreInv
  <2> QED BY <2>1, L1Entries, BridgeAssumption DEF CoreInv
<1>3. Countable(deposits, 1..n)
    BY <1>1, <1>2 DEF Countable
<1> QED
    BY <1>3, LeafUnitsNat, UnitsAreLeaves

LEMMA BooksAreEven ==
    ASSUME NEW s, LedgerOK(s), PaidUnits(Retired(s)) \in Nat
    PROVE  Books(s) <=> Even(s)
<1> DEFINE k == NanosPerTokenUnit
           L == LeafUnits(s.withdrawals, Open(s))
           P == PaidUnits(Retired(s))
           B == SumFunction(s.balance)
           Q == SumFunction(s.quarantine)
           U == NanosPerTokenUnit * Units(1..Len(s.deposits))
<1>1. B \in Nat /\ Q \in Nat /\ L \in Nat /\ k \in Nat
    BY HeldParts
<1>2. DOMAIN s.withdrawals \ DOMAIN s.outcome = Open(s)
    BY PendingIsOpen
<1>3. Books(s) <=> B + Q + k * (L + P) = U
    BY <1>2 DEF Books, Balanced
<1>4. Even(s) <=> B + Q + k * L + k * P = U
    BY DEF Even, Held
<1>5. P \in Nat
    OBVIOUS
<1> HIDE DEF k, L, P, B, Q, U
<1>6. k * (L + P) = k * L + k * P /\ k * L \in Nat /\ k * P \in Nat
    BY <1>1, <1>5, Distributes, ProductNat
<1>7. B + Q + (k * L + k * P) = B + Q + k * L + k * P
    BY <1>1, <1>6
<1> QED
    BY <1>3, <1>4, <1>6, <1>7

(* A withdrawal's amount is the same on L1 and in its leaf. *)
LEMMA QueueAmount ==
    ASSUME CoreInv, NEW n \in DOMAIN queue, n \in DOMAIN seq.withdrawals
    PROVE  queue[n].amount = seq.withdrawals[n].amount
<1>1. PICK h \in 1..Record.height : /\ n \in DOMAIN chain[h].withdrawals
                                    /\ queue[n].amount = chain[h].withdrawals[n].amount
    BY DEF CoreInv, QueueProven
<1>2. h \in 1..Len(chain)
    BY RecordHeight
<1>3. SameAmounts(chain[h].withdrawals, seq.withdrawals)
    BY <1>2 DEF CoreInv, RootsExtend, RootExtended
<1> QED
    BY <1>1, <1>3 DEF SameAmounts

(* A step that moves nanos only. *)
LEMMA EvenKept ==
    ASSUME Even(seq), Held(seq') = Held(seq), Retired(seq') = Retired(seq),
           seq'.deposits = seq.deposits
    PROVE  Even(seq')
BY DEF Even

(* A step that retires a paid leaf. *)
LEMMA EvenPaid ==
    ASSUME CoreInv, Even(seq), LedgerOK(seq'), NEW n \in DOMAIN queue, queue[n].finalized,
           Pays(seq, seq', n), seq'.deposits = seq.deposits
    PROVE  Even(seq')
<1> DEFINE k == NanosPerTokenUnit
           R == Retired(seq)
           P == PaidUnits(R)
           m == queue[n].amount
<1>1. LedgerOK(seq) /\ Held(seq) \in Nat /\ Held(seq') \in Nat /\ k \in Nat
    BY HeldParts, BridgeAssumption DEF CoreInv, L2TypeOK, LedgerOK
<1>2. n \in DOMAIN seq.withdrawals
    BY DEF Pays, Open
<1>3. seq.withdrawals[n].amount = m
    BY <1>2, QueueAmount
<1>4. R \subseteq DOMAIN queue /\ n \notin R /\ Retired(seq') = R \cup {n}
    BY RetiredPaid DEF Pays
<1>5. Countable(queue, R) /\ P \in Nat /\ m \in Nat
  <2>1. m \in Nat
      BY BridgeAssumption DEF CoreInv, L1TypeOK, QueueEntries
  <2> QED BY <1>4, <2>1, QueueCountable
<1>6. PaidUnits(R \cup {n}) = P + m
  <2>1. LeafUnits(queue, R \cup {n}) = LeafUnits(queue, R) + queue[n].amount
    <3> HIDE DEF R
    <3> QED BY <1>4, <1>5, LeafUnitsAdd
  <2> QED BY <2>1, UnitsAreLeaves
<1>7. Held(seq) = Held(seq') + k * m
    BY <1>3 DEF Pays
<1>8. Held(seq) + k * P = k * Units(1..Len(seq.deposits))
    BY DEF Even
<1> HIDE DEF k, R, P, m
<1>9. k * (P + m) = k * P + k * m /\ k * P \in Nat /\ k * m \in Nat
    BY <1>1, <1>5, Distributes, ProductNat
<1>10. Held(seq') + k * (P + m) = Held(seq) + k * P
    BY <1>1, <1>7, <1>9
<1>11. PaidUnits(Retired(seq')) = P + m
    BY <1>4, <1>6
<1> QED
    BY <1>8, <1>10, <1>11 DEF Even, k

(* A step that takes the next deposit. *)
LEMMA EvenDeposit ==
    ASSUME CoreInv, Even(seq), LedgerOK(seq'), NEW i \in 1..Len(deposits),
           i = Len(seq.deposits) + 1, Len(seq'.deposits) = i,
           Held(seq') = Held(seq) + NanosPerTokenUnit * deposits[i].amount,
           Retired(seq') = Retired(seq)
    PROVE  Even(seq')
<1> DEFINE k == NanosPerTokenUnit
           n == Len(seq.deposits)
           m == deposits[i].amount
           P == PaidUnits(Retired(seq))
           U == Units(1..n)
<1>1. LedgerOK(seq) /\ Held(seq) \in Nat /\ k \in Nat
    BY HeldParts, BridgeAssumption DEF CoreInv, L2TypeOK, LedgerOK
<1>2. n \in Nat /\ n <= Len(deposits)
    BY SeqNumbers DEF CoreInv, L2TypeOK, DepositsInOrder
<1>3. Countable(deposits, 1..n) /\ U \in Nat
    BY <1>2, DepositsCountable
<1>4. m \in Nat
    BY L1Entries, BridgeAssumption DEF CoreInv
<1>5. 1..i = (1..n) \cup {i} /\ i \notin 1..n
    BY <1>2
<1>6. Units(1..i) = U + m
  <2> DEFINE S == 1..n
  <2>1. Countable(deposits, S) /\ i \notin S /\ 1..i = S \cup {i}
      BY <1>3, <1>5
  <2> HIDE DEF S
  <2>2. LeafUnits(deposits, S \cup {i}) = LeafUnits(deposits, S) + deposits[i].amount
      BY <1>4, <2>1, LeafUnitsAdd
  <2> QED BY <2>1, <2>2, UnitsAreLeaves DEF S
<1>7. P \in Nat
    BY RetiredPaid, QueueCountable
<1>8. Held(seq) + k * P = k * U
    BY DEF Even
<1>9. Held(seq') = Held(seq) + k * m
    OBVIOUS
<1> HIDE DEF k, n, m, P, U
<1>10. k * (U + m) = k * U + k * m /\ k * P \in Nat /\ k * m \in Nat /\ k * U \in Nat
    BY <1>1, <1>3, <1>4, <1>7, Distributes, ProductNat
<1>11. Held(seq') + k * P = k * (U + m)
    BY <1>1, <1>8, <1>9, <1>10
<1> QED
    BY <1>6, <1>11 DEF Even, k, P

(* A true post keeps the books. *)
LEMMA HandleEven ==
    ASSUME CoreInv, Even(seq), NEW p, TruePost(p), Handle(p), UNCHANGED <<l1Vars, chain, trades>>
    PROVE  Even(seq')
<1>0. LedgerOK(seq) /\ LedgerOK(seq') /\ Len(seq.deposits) \in Nat
    BY HandleOK, SeqNumbers DEF CoreInv, L2TypeOK, LedgerOK
<1>1. CASE p.kind = "deposit" /\ ValidDeposit(p)
  <2>1. /\ p.id \in 1..Len(deposits) /\ p.amount = deposits[p.id].amount
        /\ p.key = deposits[p.id].key
      BY <1>1 DEF TruePost
  <2>2. p.key \in Accounts /\ p.amount \in Amounts
      BY <2>1, L1Entries DEF CoreInv
  <2>3. IngestDeposit(p)
      BY <1>1 DEF Handle
  <2>4. DepositStep(seq, seq', p)
      BY <1>0, <1>1, <2>2, <2>3, IngestOK
  <2>5. Held(seq') = Held(seq) + NanosPerTokenUnit * p.amount
      BY <1>0, <1>1, <2>2, <2>3, IngestHeld
  <2>6. Len(seq'.deposits) = Len(seq.deposits) + 1
      BY <1>0, <2>2, <2>4, DepositStepOK
  <2>7. p.id = Len(seq.deposits) + 1 /\ Retired(seq') = Retired(seq)
      BY <1>1, <2>4 DEF ValidDeposit, DepositStep, Retired
  <2> DEFINE i == p.id
  <2>8. /\ i \in 1..Len(deposits) /\ i = Len(seq.deposits) + 1 /\ Len(seq'.deposits) = i
        /\ Held(seq') = Held(seq) + NanosPerTokenUnit * deposits[i].amount
      BY <2>1, <2>5, <2>6, <2>7
  <2> HIDE DEF i
  <2> QED BY <1>0, <2>7, <2>8, EvenDeposit
<1>2. CASE p.kind = "deposit" /\ ~ValidDeposit(p)
  <2>1. seq' = seq
      BY <1>2 DEF Handle
  <2> QED BY <2>1
<1>3. CASE p.kind = "event"
  <2>1. PICK i \in 1..Len(logs) : p.event = logs[i] /\ logs[i].block < now
      BY <1>3 DEF TruePost
  <2> DEFINE e == logs[i]
             n == e.nullifier
             t == AfterEvent(seq, e)
  <2>2. seq' = AfterHeight(t, e.block)
      BY <1>3, <2>1 DEF Handle, ApplyL1Event
  <2>3. e \in LogEntries /\ e.block \in Nat
      BY L1Entries DEF CoreInv
  <2>4. n \in DOMAIN queue /\ (e.status = "finalized" => queue[n].finalized)
      BY DEF CoreInv, EventsTrue
  <2>5. \/ Held(t) = Held(seq) /\ Retired(t) = Retired(seq)
        \/ e.status = "finalized" /\ Pays(seq, t, e.nullifier)
    <3> HIDE DEF e
    <3> QED BY <1>0, <2>3, EventHeld
  <2>6. LedgerOK(t) /\ t.deposits = seq.deposits
    <3> HIDE DEF e
    <3> QED BY <1>0, <2>3, AfterEventOK
  <2> HIDE DEF t
  <2>7. Held(seq') = Held(t) /\ Retired(seq') = Retired(t) /\ seq'.deposits = t.deposits
    <3> HIDE DEF e
    <3> QED BY <2>2, <2>3, <2>6, HeightHeld, AfterHeightOK
  <2>8. CASE Held(t) = Held(seq) /\ Retired(t) = Retired(seq)
      BY <2>6, <2>7, <2>8, EvenKept
  <2>9. CASE e.status = "finalized" /\ Pays(seq, t, n)
    <3>1. Pays(seq, seq', n)
        BY <2>7, <2>9 DEF Pays
    <3> HIDE DEF n
    <3>2. n \in DOMAIN queue /\ queue[n].finalized
        BY <2>4, <2>9
    <3> QED BY <1>0, <2>6, <2>7, <3>1, <3>2, EvenPaid
  <2> QED BY <2>5, <2>8, <2>9
<1>4. CASE p.kind = "height"
  <2>1. p.height \in Nat /\ seq' = AfterHeight(seq, p.height)
      BY <1>4 DEF TruePost, Handle, ObserveL1Height
  <2>2. Held(seq') = Held(seq) /\ Retired(seq') = Retired(seq) /\ seq'.deposits = seq.deposits
      BY <1>0, <2>1, HeightHeld, AfterHeightOK
  <2> QED BY <2>2, EvenKept
<1> QED
    BY <1>1, <1>2, <1>3, <1>4 DEF TruePost

(* So does whatever the sequencer does for its users. *)
LEMMA L2Even ==
    ASSUME CoreInv, Even(seq), L2
    PROVE  Even(seq')
<1>0. LedgerOK(seq) /\ L2Step
    BY DEF CoreInv, L2TypeOK, LedgerOK, L2
<1>1. ASSUME Held(seq') = Held(seq), seq'.outcome = seq.outcome, seq'.deposits = seq.deposits
      PROVE  Even(seq')
    BY <1>1, EvenKept DEF Retired
<1>2. ASSUME CashStep(seq, seq'), Held(seq') = Held(seq)
      PROVE  Even(seq')
    BY <1>1, <1>2 DEF CashStep
<1>3. CASE CreateAccount
    BY <1>0, <1>2, <1>3, CreateAccountOK, CreateAccountHeld
<1>4. ASSUME NEW a \in Accounts, RegisterKey(a)
      PROVE  Even(seq')
  <2>1. seq' = Claimed(seq, a)
      BY <1>4 DEF RegisterKey
  <2> QED BY <1>0, <1>2, <2>1, ClaimedOK, ClaimedHeld
<1>5. ASSUME NEW a \in Accounts, NEW amount \in Amounts, NEW life \in Lifetimes,
             RequestBridgeWithdrawal(a, amount, seq.observed_l1_height + life)
      PROVE  Even(seq')
  <2> DEFINE expiry == seq.observed_l1_height + life
             leaf == Issued(a, amount, expiry)
  <2>1. expiry \in Nat
    <3>1. seq.observed_l1_height \in Nat /\ life \in Nat
        BY <1>0, BridgeAssumption DEF LedgerOK, SeqTypeOK
    <3> QED BY <3>1
  <2>2. RequestBridgeWithdrawal(a, amount, expiry)
      BY <1>5
  <2> HIDE DEF expiry
  <2>3. IssueStep(seq, seq', a, leaf)
      BY <1>0, <2>1, <2>2, RequestOK
  <2>4. leaf \in Leaves /\ leaf.l1_status = "not_requested"
      BY <2>1 DEF Issued, Leaves
  <2> HIDE DEF leaf
  <2>5. Held(seq') = Held(seq)
      BY <1>0, <2>3, <2>4, IssueHeld
  <2> QED BY <1>1, <2>3, <2>5 DEF IssueStep
<1>6. CASE ProduceBlock
    BY <1>0, <1>1, <1>6, BlockHeld, BlockOK
<1>7. ASSUME NEW a \in Accounts, NEW b \in Accounts, Trade(a, b)
      PROVE  Even(seq')
    BY <1>0, <1>2, <1>7, TradeOK, TradeHeld
<1> QED
    BY <1>0, <1>3, <1>4, <1>5, <1>6, <1>7 DEF L2Step

-----------------------------------------------------------------------------
(* The books of the roots *)

(* A root's withdrawals keep their outcome, so its books stay as they are. *)
LEMMA RootKept ==
    ASSUME CoreInv, LedgerOK(seq'), Advances(seq, seq'), UNCHANGED <<queue, deposits>>,
           NEW h \in 1..Len(chain), RootBooks(chain[h]), NEW r, r = chain[h]
    PROVE  RootBooks(r)'
<1>1. /\ 1..(r.next_withdrawal_id - 1) \subseteq DOMAIN r.withdrawals \cup DOMAIN seq.outcome
      /\ r.next_withdrawal_id \in Nat
    BY DEF CoreInv, RootsExtend, L2TypeOK, RootTypeOK
<1>2. /\ DOMAIN seq.outcome \subseteq DOMAIN seq'.outcome
      /\ \A id \in DOMAIN seq.outcome : seq'.outcome[id] = seq.outcome[id]
    BY DEF Advances
<1>3. RootRetired(r)' = RootRetired(r)
  <2>1. ASSUME NEW id \in RootRetired(r)' PROVE id \in RootRetired(r)
    <3>1. /\ id \in DOMAIN seq'.outcome /\ seq'.outcome[id].status = "finalized"
          /\ id < r.next_withdrawal_id /\ id \notin DOMAIN r.withdrawals
        BY DEF RootRetired, Retired
    <3>2. id \in DOMAIN seq.outcome
      <4>1. id \in 1..(seq'.next_withdrawal_id - 1)
          BY <3>1 DEF LedgerOK, Ledger
      <4>2. id \in 1..(r.next_withdrawal_id - 1)
          BY <1>1, <3>1, <4>1
      <4> QED BY <1>1, <3>1, <4>2
    <3> QED BY <1>2, <3>1, <3>2 DEF RootRetired, Retired
  <2>2. ASSUME NEW id \in RootRetired(r) PROVE id \in RootRetired(r)'
      BY <1>2 DEF RootRetired, Retired
  <2> QED BY <2>1, <2>2
<1>4. RootBooks(r)
    OBVIOUS
<1> QED
    BY <1>3, <1>4 DEF RootBooks, Balanced, PaidUnits, Units, LeafUnits

(* The root of a new block has the books of the ledger it is made of. *)
LEMMA NewRootBooks ==
    ASSUME CoreInv, CoreInv', Even(seq'), ProduceBlock, UNCHANGED <<queue, deposits>>,
           NEW r, r = StateRoot(seq')
    PROVE  RootBooks(r)'
<1>0. LedgerOK(seq) /\ LedgerOK(seq')
    BY DEF CoreInv, L2TypeOK, LedgerOK
<1>1. DOMAIN seq'.withdrawals = Open(seq') /\ Open(seq') = Open(seq)
    BY <1>0, BlockOK
<1> DEFINE t == seq'
<1>2. LedgerOK(t) /\ DOMAIN t.withdrawals = Open(t) /\ Even(t)
    BY <1>0, <1>1
<1>3. r = StateRoot(t)
    OBVIOUS
<1> HIDE DEF t
<1>4. /\ r.balance = t.balance /\ r.quarantine = t.quarantine
      /\ r.deposits = t.deposits
      /\ r.next_withdrawal_id = t.next_withdrawal_id
      /\ DOMAIN r.withdrawals = DOMAIN t.withdrawals
      /\ \A id \in DOMAIN t.withdrawals :
            r.withdrawals[id].amount = t.withdrawals[id].amount
    BY <1>2, <1>3, StateRootFields
<1>5. LeafUnits(r.withdrawals, DOMAIN r.withdrawals) = LeafUnits(t.withdrawals, Open(t))
  <2> DEFINE S == Open(t)
  <2>1. DOMAIN r.withdrawals = S /\ \A id \in S : r.withdrawals[id].amount = t.withdrawals[id].amount
      BY <1>2, <1>4
  <2> HIDE DEF S
  <2>2. LeafUnits(r.withdrawals, S) = LeafUnits(t.withdrawals, S)
      BY <2>1, LeafUnitsSame
  <2> QED BY <2>1, <2>2 DEF S
<1>6. RootRetired(r)' = Retired(t)
  <2>1. \A id \in DOMAIN t.outcome :
           id < r.next_withdrawal_id /\ id \notin DOMAIN r.withdrawals
    <3> TAKE id \in DOMAIN t.outcome
    <3>1. id < t.next_withdrawal_id
        BY <1>2, LedgerIds
    <3>2. id \notin Open(t)
        BY <1>2, PendingIsOpen
    <3> QED BY <1>2, <1>4, <3>1, <3>2
  <2> QED BY <2>1 DEF RootRetired, Retired, t
<1>7. PaidUnits(Retired(t)) \in Nat
  <2>1. Retired(t) \subseteq DOMAIN queue
      BY DEF CoreInv, EventsTrue, Retired, t
  <2> QED BY <2>1, QueueCountable
<1>8. Books(t)
    BY <1>2, <1>7, BooksAreEven
<1>9. Balanced(t.balance, t.quarantine, LeafUnits(t.withdrawals, Open(t)),
               PaidUnits(Retired(t)), Len(t.deposits))
  <2>1. DOMAIN t.withdrawals \ DOMAIN t.outcome = Open(t)
      BY <1>2, PendingIsOpen
  <2> QED BY <1>8, <2>1 DEF Books
<1>10. Balanced(r.balance, r.quarantine, LeafUnits(r.withdrawals, DOMAIN r.withdrawals),
                PaidUnits(RootRetired(r)'), Len(r.deposits))
    BY <1>4, <1>5, <1>6, <1>9
<1> QED
    BY <1>10 DEF RootBooks, Balanced, PaidUnits, Units, LeafUnits

(* A step of L1 that leaves what was paid leaves the books of L2 as they are. *)
LEMMA L1Keeps ==
    ASSUME BooksInv, L1Grows, UNCHANGED <<seq, chain>>,
           \A n \in Finalized : queue'[n].amount = queue[n].amount
    PROVE  Books(seq)' /\ \A h \in 1..Len(chain') : RootBooks(chain[h])'
<1>0. CoreInv
    BY DEF BooksInv, BridgeInv
<1>1. Len(deposits) \in Nat
    BY <1>0, L1Entries DEF CoreInv
<1>2. \A i \in 1..Len(deposits) : deposits'[i] = deposits[i]
    BY DEF L1Grows
<1>4. Len(seq.deposits) \in Nat /\ Len(seq.deposits) <= Len(deposits)
    BY <1>0, SeqNumbers DEF CoreInv, L2TypeOK, DepositsInOrder
<1>5. Retired(seq) \subseteq Finalized
    BY <1>0, RetiredPaid
<1>6. Books(seq)'
  <2>1. Units(1..Len(seq.deposits))' = Units(1..Len(seq.deposits))
    <3> DEFINE c == Len(seq.deposits)
    <3>1. Units(1..c)' = LeafUnits(deposits', 1..c) /\ Units(1..c) = LeafUnits(deposits, 1..c)
        BY DEF Units, LeafUnits
    <3>2. \A i \in 1..c : deposits'[i].amount = deposits[i].amount
        BY <1>1, <1>2, <1>4
    <3>3. LeafUnits(deposits', 1..c) = LeafUnits(deposits, 1..c)
        BY <3>2, LeafUnitsSame
    <3> QED BY <3>1, <3>3
  <2>2. PaidUnits(Retired(seq))' = PaidUnits(Retired(seq))
    <3>1. LeafUnits(queue', Retired(seq)) = LeafUnits(queue, Retired(seq))
        BY <1>5, LeafUnitsSame
    <3>2. Retired(seq)' = Retired(seq)
        BY DEF Retired
    <3> QED BY <3>1, <3>2 DEF PaidUnits, LeafUnits
  <2> QED BY <2>1, <2>2 DEF BooksInv, Books, Balanced, LeafUnits
<1>7. ASSUME NEW h \in 1..Len(chain)
      PROVE  RootBooks(chain[h])'
  <2> DEFINE r == chain[h]
  <2>1. Len(r.deposits) \in Nat /\ Len(r.deposits) <= Len(deposits)
    <3>1. Len(r.deposits) \in Nat /\ Len(r.deposits) <= Len(seq.deposits)
        BY <1>0 DEF CoreInv, L2TypeOK, RootTypeOK, RootsExtend, RootExtended
    <3> QED BY <1>1, <1>4, <3>1
  <2>2. LeafUnits(deposits', 1..Len(r.deposits)) = LeafUnits(deposits, 1..Len(r.deposits))
    <3>1. \A i \in 1..Len(r.deposits) : deposits'[i].amount = deposits[i].amount
        BY <1>1, <1>2, <2>1
    <3> QED BY <3>1, LeafUnitsSame
  <2>3. RootRetired(r) \subseteq Finalized
      BY <1>5 DEF RootRetired
  <2>4. LeafUnits(queue', RootRetired(r)) = LeafUnits(queue, RootRetired(r))
      BY <2>3, LeafUnitsSame
  <2>5. RootBooks(r) /\ chain'[h] = r
      BY DEF BooksInv
  <2>6. RootRetired(chain[h])' = RootRetired(r)
      BY <2>5 DEF RootRetired, Retired
  <2> QED BY <2>2, <2>4, <2>5, <2>6 DEF RootBooks, Balanced, PaidUnits, Units, LeafUnits
<1> QED
    BY <1>6, <1>7

-----------------------------------------------------------------------------
(* The vault *)

EscapeUnits(root, S) == SumFunction([a \in S |-> EscapeAmount(root, a)])

LEMMA EscapeUnitsSum ==
    ASSUME NEW root, root.balance \in [Accounts -> Nat], NEW S, S \subseteq Accounts,
           NEW E, E = [a \in Accounts |-> EscapeAmount(root, a)]
    PROVE  /\ \A a \in Accounts : E[a] \in Nat
           /\ IsFiniteSet(S) /\ Summands(E, S)
           /\ EscapeUnits(root, S) = SumFunctionOnSet(E, S)
           /\ EscapeUnits(root, S) \in Nat
<1>1. \A a \in Accounts : E[a] \in Nat
  <2> TAKE a \in Accounts
  <2>1. root.balance[a] \in Nat
      OBVIOUS
  <2> QED BY <2>1, BridgeAssumption DEF EscapeAmount
<1>2. IsFiniteSet(Accounts)
    BY FS_Interval, BridgeAssumption DEF Accounts
<1>3. IsFiniteSet(S) /\ Summands(E, S)
    BY <1>1, <1>2, FS_Subset DEF Summands
<1> DEFINE F == [a \in S |-> EscapeAmount(root, a)]
<1>4. EscapeUnits(root, S) = SumFunction(F) /\ DOMAIN F = S /\ \A a \in S : E[a] = F[a]
    BY DEF EscapeUnits
<1> HIDE DEF F
<1>5. SumFunctionOnSet(E, S) = SumFunctionOnSet(F, S)
    BY <1>3, <1>4, SumSame
<1>6. EscapeUnits(root, S) = SumFunctionOnSet(E, S)
    BY <1>4, <1>5 DEF SumFunction
<1>7. SumFunctionOnSet(E, S) \in Nat
    BY <1>1, <1>3, SumNat
<1> QED
    BY <1>1, <1>3, <1>6, <1>7

LEMMA EscapeUnitsNone == ASSUME NEW root PROVE EscapeUnits(root, {}) = 0
<1> DEFINE F == [a \in {} |-> EscapeAmount(root, a)]
<1>1. EscapeUnits(root, {}) = SumFunction(F) /\ DOMAIN F = {}
    BY DEF EscapeUnits
<1> HIDE DEF F
<1> QED
    BY <1>1, SumEmpty DEF SumFunction

(* The frozen root is a root of the chain. *)
LEMMA FrozenRoot ==
    ASSUME CoreInv, EscapeModeActive
    PROVE  escape.root.balance \in [Accounts -> Nat]
<1>1. PICK i \in 1..Len(accepted) : escape = accepted[i]
    BY DEF CoreInv, AcceptedRoots
<1>2. accepted[i].height \in 1..Len(chain) /\ accepted[i].root = chain[accepted[i].height]
    BY DEF CoreInv, AcceptedRoots
<1> QED
    BY <1>1, <1>2 DEF CoreInv, L2TypeOK, RootTypeOK

LEMMA VaultParts ==
    ASSUME CoreInv
    PROVE  /\ tokens \in Nat /\ PaidUnits(Finalized) \in Nat
           /\ EscapeUnits(escape.root, escapeUsed) \in Nat
           /\ Units(1..Len(deposits)) \in Nat
           /\ VaultBooks <=> tokens + PaidUnits(Finalized) + EscapeUnits(escape.root, escapeUsed)
                               = Units(1..Len(deposits))
<1>1. tokens \in Nat /\ escapeUsed \subseteq Accounts
    BY DEF CoreInv, L1TypeOK
<1>2. PaidUnits(Finalized) \in Nat
    BY RetiredPaid, QueueCountable
<1>3. EscapeUnits(escape.root, escapeUsed) \in Nat
  <2>1. CASE EscapeModeActive
    <3> DEFINE E == [a \in Accounts |-> EscapeAmount(escape.root, a)]
               root == escape.root
    <3>1. root.balance \in [Accounts -> Nat]
        BY <2>1, FrozenRoot
    <3>2. E = [a \in Accounts |-> EscapeAmount(root, a)]
        OBVIOUS
    <3> HIDE DEF E, root
    <3>3. EscapeUnits(root, escapeUsed) \in Nat
        BY <1>1, <3>1, <3>2, EscapeUnitsSum
    <3> QED BY <3>3 DEF root
  <2>2. CASE ~EscapeModeActive
    <3>1. escapeUsed = {}
        BY <2>2 DEF CoreInv, AcceptedRoots
    <3> QED BY <3>1, EscapeUnitsNone
  <2> QED BY <2>1, <2>2
<1>4. Units(1..Len(deposits)) \in Nat
  <2>1. Len(deposits) \in Nat
      BY L1Entries DEF CoreInv
  <2> QED BY <2>1, DepositsCountable
<1> QED
    BY <1>1, <1>2, <1>3, <1>4 DEF VaultBooks, EscapeUnits

(* The vault's books are right after the step, and what was paid is as it was. *)
VaultKeeps == VaultBooks' /\ \A n \in Finalized : queue'[n].amount = queue[n].amount

LEMMA DepositVault ==
    ASSUME CoreInv, VaultBooks, NEW key \in Accounts, NEW amount \in Amounts, Deposit(key, amount)
    PROVE  VaultKeeps
<1> DEFINE d == [key |-> key, amount |-> amount, block |-> now]
           c == Len(deposits)
           S == 1..c
<1>1. /\ tokens' = tokens + amount /\ deposits' = Append(deposits, d)
      /\ UNCHANGED <<queue, escape, escapeUsed>>
    BY DEF Deposit
<1>2. c \in Nat /\ now \in Nat /\ deposits \in Seq(DepositEntries)
    BY L1Entries DEF CoreInv, L1TypeOK
<1>3. d \in DepositEntries /\ d.amount = amount /\ amount \in Nat
    BY <1>2, BridgeAssumption DEF DepositEntries
<1> HIDE DEF d
<1>4. /\ Len(deposits') = c + 1 /\ deposits'[c + 1] = d
      /\ \A i \in S : deposits'[i] = deposits[i]
    BY <1>1, <1>2, <1>3
<1>5. 1..(c + 1) = S \cup {c + 1} /\ c + 1 \notin S
    BY <1>2
<1>6. Countable(deposits, S)
    BY <1>2, DepositsCountable
<1> DEFINE x == c + 1
<1> HIDE DEF c, S, x
<1>7. Countable(deposits', S) /\ deposits'[x].amount \in Nat /\ x \notin S
      /\ LeafUnits(deposits', S) = LeafUnits(deposits, S)
  <2>1. LeafUnits(deposits', S) = LeafUnits(deposits, S)
      BY <1>4, LeafUnitsSame
  <2> QED BY <1>3, <1>4, <1>5, <1>6, <2>1 DEF Countable, x
<1>8. LeafUnits(deposits', S \cup {x}) = LeafUnits(deposits', S) + deposits'[x].amount
    BY <1>7, LeafUnitsAdd
<1>9. Units(1..Len(deposits))' = LeafUnits(deposits', S \cup {x})
    BY <1>4, <1>5 DEF Units, LeafUnits, x
<1>10. Units(1..Len(deposits)) = LeafUnits(deposits, S)
    BY DEF Units, LeafUnits, S, c
<1>11. Units(1..Len(deposits))' = Units(1..Len(deposits)) + amount
    BY <1>3, <1>4, <1>7, <1>8, <1>9, <1>10 DEF x
<1>12. PaidUnits(Finalized)' = PaidUnits(Finalized)
       /\ EscapeUnits(escape.root, escapeUsed)' = EscapeUnits(escape.root, escapeUsed)
    BY <1>1 DEF PaidUnits, Finalized, EscapeUnits, EscapeAmount
<1>13. VaultBooks' <=> (tokens + PaidUnits(Finalized) + EscapeUnits(escape.root, escapeUsed)
                               = Units(1..Len(deposits)))'
    BY DEF VaultBooks, EscapeUnits
<1>14. VaultBooks'
    BY <1>1, <1>3, <1>11, <1>12, <1>13, VaultParts
<1> QED
    BY <1>1, <1>14 DEF VaultKeeps

(* A step that pays nobody. *)
LEMMA NothingPaid ==
    ASSUME CoreInv, VaultBooks, Finalized' = Finalized,
           \A n \in Finalized : queue'[n].amount = queue[n].amount,
           UNCHANGED <<deposits, tokens, escapeUsed>>, escape' = escape \/ escapeUsed = {}
    PROVE  VaultKeeps
<1>1. PaidUnits(Finalized)' = PaidUnits(Finalized)
  <2>1. LeafUnits(queue', Finalized) = LeafUnits(queue, Finalized)
      BY LeafUnitsSame
  <2> QED BY <2>1 DEF PaidUnits, LeafUnits
<1>2. EscapeUnits(escape.root, escapeUsed)' = EscapeUnits(escape.root, escapeUsed)
  <2>1. CASE escape' = escape
      BY <2>1 DEF EscapeUnits, EscapeAmount
  <2>2. CASE escapeUsed = {}
    <3>1. EscapeUnits(escape'.root, {}) = 0 /\ EscapeUnits(escape.root, {}) = 0
        BY EscapeUnitsNone
    <3> QED BY <2>2, <3>1 DEF EscapeUnits, EscapeAmount
  <2> QED BY <2>1, <2>2
<1>3. Units(1..Len(deposits))' = Units(1..Len(deposits))
    BY DEF Units
<1>4. VaultBooks' <=> (tokens + PaidUnits(Finalized) + EscapeUnits(escape.root, escapeUsed)
                               = Units(1..Len(deposits)))'
    BY DEF VaultBooks, EscapeUnits
<1> QED
    BY <1>1, <1>2, <1>3, <1>4, VaultParts DEF VaultKeeps

LEMMA RequestVault ==
    ASSUME CoreInv, VaultBooks, NEW i \in 1..Len(accepted),
           NEW n \in DOMAIN accepted[i].root.withdrawals, RequestWithdrawal(i, n)
    PROVE  VaultKeeps
<1> DEFINE entry == [amount |-> accepted[i].root.withdrawals[n].amount,
                     executableAt |-> now + WithdrawalDelay,
                     finalized |-> FALSE, canceled |-> FALSE]
<1>1. /\ n \notin nullifierUsed
      /\ UNCHANGED <<deposits, tokens, escapeUsed, escape>>
      /\ queue' = [x \in DOMAIN queue \cup {n} |-> IF x = n THEN entry ELSE queue[x]]
    BY DEF RequestWithdrawal, NullifierFree
<1>2. ~entry.finalized
    OBVIOUS
<1> HIDE DEF entry
<1>3. n \notin Finalized
    BY <1>1 DEF CoreInv, NullifierHeld, Finalized
<1>4. \A x \in DOMAIN queue' : x # n => x \in DOMAIN queue /\ queue'[x] = queue[x]
    BY <1>1
<1>5. n \in DOMAIN queue' /\ queue'[n] = entry /\ DOMAIN queue \subseteq DOMAIN queue'
    BY <1>1
<1>6. Finalized' = Finalized /\ \A x \in Finalized : queue'[x].amount = queue[x].amount
    BY <1>2, <1>3, <1>4, <1>5 DEF Finalized
<1> QED
    BY <1>1, <1>6, NothingPaid

LEMMA CancelVault ==
    ASSUME CoreInv, VaultBooks, NEW n \in DOMAIN queue, CancelWithdrawal(n)
    PROVE  VaultKeeps
<1>1. /\ queue' = [queue EXCEPT ![n].canceled = TRUE] /\ ~queue[n].finalized
      /\ UNCHANGED <<deposits, tokens, escapeUsed, escape>>
    BY DEF CancelWithdrawal
<1>2. queue \in [DOMAIN queue -> QueueEntries]
    BY DEF CoreInv, L1TypeOK
<1>3. DOMAIN queue' = DOMAIN queue /\ ~queue'[n].finalized
      /\ \A x \in DOMAIN queue : x # n => queue'[x] = queue[x]
    BY <1>1, <1>2 DEF QueueEntries
<1>4. Finalized' = Finalized /\ \A x \in Finalized : queue'[x].amount = queue[x].amount
    BY <1>1, <1>3 DEF Finalized
<1> QED
    BY <1>1, <1>4, NothingPaid

LEMMA FinalizeVault ==
    ASSUME CoreInv, VaultBooks, NEW n \in DOMAIN queue, FinalizeWithdrawal(n)
    PROVE  VaultKeeps
<1> DEFINE m == queue[n].amount
           F == Finalized
<1>1. /\ queue' = [queue EXCEPT ![n].finalized = TRUE] /\ ~queue[n].finalized
      /\ tokens' = tokens - m
      /\ UNCHANGED <<deposits, escapeUsed, escape>>
    BY DEF FinalizeWithdrawal
<1>2. queue \in [DOMAIN queue -> QueueEntries]
    BY DEF CoreInv, L1TypeOK
<1>3. DOMAIN queue' = DOMAIN queue /\ queue'[n].finalized /\ queue'[n].amount = m
      /\ \A x \in DOMAIN queue : x # n => queue'[x] = queue[x]
    BY <1>1, <1>2 DEF QueueEntries
<1>4. m \in Nat
    BY <1>2, BridgeAssumption DEF QueueEntries
<1>5. Finalized' = F \cup {n} /\ n \notin F /\ F \subseteq DOMAIN queue
    BY <1>1, <1>3 DEF Finalized
<1>6. Countable(queue, F)
    BY <1>5, QueueCountable
<1>7. PaidUnits(Finalized) = LeafUnits(queue, F)
    BY DEF PaidUnits, LeafUnits
<1> HIDE DEF F
<1>8. LeafUnits(queue, F \cup {n}) = LeafUnits(queue, F) + m
    BY <1>4, <1>5, <1>6, LeafUnitsAdd
<1>9. \A x \in F \cup {n} : queue'[x].amount = queue[x].amount
    BY <1>3, <1>5
<1>10. LeafUnits(queue', F \cup {n}) = LeafUnits(queue, F \cup {n})
    BY <1>9, LeafUnitsSame
<1>11. PaidUnits(Finalized)' = LeafUnits(queue', F \cup {n})
    BY <1>5 DEF PaidUnits, LeafUnits
<1>12. PaidUnits(Finalized)' = PaidUnits(Finalized) + m
    BY <1>7, <1>8, <1>10, <1>11
<1>13. /\ EscapeUnits(escape.root, escapeUsed)' = EscapeUnits(escape.root, escapeUsed)
       /\ Units(1..Len(deposits))' = Units(1..Len(deposits))
    BY <1>1 DEF Units, EscapeUnits, EscapeAmount
<1>14. VaultBooks' <=> (tokens + PaidUnits(Finalized) + EscapeUnits(escape.root, escapeUsed)
                               = Units(1..Len(deposits)))'
    BY DEF VaultBooks, EscapeUnits
<1> HIDE DEF m
<1>15. VaultBooks'
  <2>1. /\ tokens \in Nat /\ PaidUnits(Finalized) \in Nat
        /\ EscapeUnits(escape.root, escapeUsed) \in Nat
        /\ tokens + PaidUnits(Finalized) + EscapeUnits(escape.root, escapeUsed)
             = Units(1..Len(deposits))
      BY VaultParts
  <2>2. tokens' = tokens - m
      BY <1>1
  <2> QED BY <1>4, <1>12, <1>13, <1>14, <2>1, <2>2
<1> QED
    BY <1>9, <1>15 DEF VaultKeeps, F

LEMMA ClaimVault ==
    ASSUME CoreInv, VaultBooks, NEW a \in Accounts, EscapeClaim(a)
    PROVE  VaultKeeps
<1> DEFINE root == escape.root
           E == [b \in Accounts |-> EscapeAmount(root, b)]
           m == EscapeAmount(root, a)
<1>1. /\ EscapeModeActive /\ a \notin escapeUsed
      /\ escapeUsed' = escapeUsed \cup {a} /\ tokens' = tokens - m
      /\ UNCHANGED <<deposits, queue, escape>>
    BY DEF EscapeClaim
<1>2. root.balance \in [Accounts -> Nat] /\ escapeUsed \subseteq Accounts
    BY <1>1, FrozenRoot DEF CoreInv, L1TypeOK
<1>3. E[a] = m /\ E = [b \in Accounts |-> EscapeAmount(root, b)]
    OBVIOUS
<1>4. EscapeUnits(escape.root, escapeUsed)' = EscapeUnits(root, escapeUsed \cup {a})
    BY <1>1 DEF EscapeUnits, EscapeAmount
<1>5. escapeUsed \cup {a} \subseteq Accounts
    BY <1>2
<1> DEFINE S == escapeUsed \cup {a}
<1> HIDE DEF root, E, m, S
<1>6. /\ \A b \in Accounts : E[b] \in Nat
      /\ Summands(E, escapeUsed)
      /\ EscapeUnits(root, escapeUsed) = SumFunctionOnSet(E, escapeUsed)
    BY <1>2, <1>3, EscapeUnitsSum
<1>7. EscapeUnits(root, S) = SumFunctionOnSet(E, S)
    BY <1>2, <1>3, <1>5, EscapeUnitsSum DEF S
<1>8. SumFunctionOnSet(E, escapeUsed \cup {a}) = SumFunctionOnSet(E, escapeUsed) + E[a]
  <2>1. E[a] \in Int
      BY <1>6
  <2> QED BY <1>1, <1>6, <2>1, SumAdd
<1>9. m \in Nat
    BY <1>3, <1>6
<1>10. EscapeUnits(escape.root, escapeUsed)' = EscapeUnits(escape.root, escapeUsed) + m
    BY <1>3, <1>4, <1>6, <1>7, <1>8 DEF root, S
<1>11. /\ PaidUnits(Finalized)' = PaidUnits(Finalized)
       /\ Units(1..Len(deposits))' = Units(1..Len(deposits))
    BY <1>1 DEF Units, PaidUnits, Finalized
<1>12. VaultBooks' <=> (tokens + PaidUnits(Finalized) + EscapeUnits(escape.root, escapeUsed)
                               = Units(1..Len(deposits)))'
    BY DEF VaultBooks, EscapeUnits
<1>13. VaultBooks'
    BY <1>1, <1>9, <1>10, <1>11, <1>12, VaultParts
<1> QED
    BY <1>1, <1>13 DEF VaultKeeps

(* The vault's books through every step of the vault. *)
LEMMA VaultStepKeeps ==
    ASSUME CoreInv, VaultBooks, Vault
    PROVE  VaultKeeps
<1>1. CASE ActivateEscapeMode
  <2>1. UNCHANGED <<deposits, queue, escapeUsed, tokens>> /\ escapeUsed = {}
      BY <1>1 DEF ActivateEscapeMode, CoreInv, AcceptedRoots
  <2>2. Finalized' = Finalized
      BY <2>1 DEF Finalized
  <2> QED BY <2>1, <2>2, NothingPaid
<1>2. CASE PauseVault
  <2>1. UNCHANGED <<deposits, queue, escapeUsed, tokens, escape>>
      BY <1>2 DEF PauseVault
  <2>2. Finalized' = Finalized
      BY <2>1 DEF Finalized
  <2> QED BY <2>1, <2>2, NothingPaid
<1>3. VaultStep
    BY DEF Vault
<1> QED
    BY <1>1, <1>2, <1>3, DepositVault, RequestVault, FinalizeVault, CancelVault, ClaimVault
    DEF VaultStep

-----------------------------------------------------------------------------
(* All the books *)

(* A step of the sequencer that leaves its own books even. *)
LEMMA LedgerKeepsBooks ==
    ASSUME BooksInv, BridgeInv', Even(seq'), LedgerOK(seq'), Advances(seq, seq'),
           UNCHANGED l1Vars, chain' = chain \/ ProduceBlock
    PROVE  BooksInv'
<1>0. /\ CoreInv /\ CoreInv' /\ VaultBooks
      /\ UNCHANGED <<deposits, queue, tokens, escape, escapeUsed>>
    BY DEF BooksInv, BridgeInv, l1Vars, vaultVars
<1>1. Books(seq)'
  <2>1. Retired(seq') \subseteq DOMAIN queue
      BY <1>0 DEF CoreInv, EventsTrue, Retired
  <2>2. PaidUnits(Retired(seq')) \in Nat
      BY <1>0, <2>1, QueueCountable
  <2>3. Books(seq')
    <3> DEFINE t == seq'
    <3>1. LedgerOK(t) /\ PaidUnits(Retired(t)) \in Nat /\ Even(t)
        BY <2>2
    <3> HIDE DEF t
    <3>2. Books(t)
        BY <3>1, BooksAreEven
    <3> QED BY <3>2 DEF t
  <2> QED BY <1>0, <2>3 DEF Books, Balanced, PaidUnits, Units, LeafUnits, Retired
<1>2. ASSUME NEW h \in 1..Len(chain), chain'[h] = chain[h]
      PROVE  RootBooks(chain[h])'
  <2> PICK r : r = chain[h]
      OBVIOUS
  <2>1. RootBooks(chain[h])
      BY DEF BooksInv
  <2>2. RootBooks(r)'
      BY <1>0, <2>1, RootKept
  <2> QED BY <1>2, <2>2
<1>3. ASSUME NEW h \in 1..Len(chain')
      PROVE  RootBooks(chain[h])'
  <2>1. CASE chain' = chain
      BY <1>2, <2>1
  <2>2. CASE ProduceBlock
    <3> PICK r : r = StateRoot(seq')
        OBVIOUS
    <3>1. IsAppend(chain', chain, r)
        BY <1>0, <2>2, AppendAny DEF ProduceBlock, CoreInv, L2TypeOK
    <3>2. RootBooks(r)'
        BY <1>0, <2>2, NewRootBooks
    <3>3. CASE h = Len(chain')
        BY <3>1, <3>2, <3>3 DEF IsAppend
    <3>4. CASE h # Len(chain')
      <4>1. h \in 1..Len(chain) /\ chain'[h] = chain[h]
          BY <3>1, <3>4 DEF IsAppend
      <4> QED BY <1>2, <4>1
    <3> QED BY <3>3, <3>4
  <2> QED BY <2>1, <2>2
<1>4. VaultBooks'
  <2>1. Finalized' = Finalized
      BY <1>0 DEF Finalized
  <2>2. VaultKeeps
      BY <1>0, <2>1, NothingPaid
  <2> QED BY <2>2 DEF VaultKeeps
<1> QED
    BY <1>1, <1>3, <1>4 DEF BooksInv

LEMMA BooksStep ==
    ASSUME BooksInv, [Next]_bridgeVars
    PROVE  BooksInv'
<1>0. /\ BridgeInv /\ CoreInv /\ BridgeInv' /\ VaultBooks
      /\ LedgerOK(seq)
    BY BridgeStep DEF BooksInv, BridgeInv, CoreInv, L2TypeOK, LedgerOK
<1>1. Even(seq)
  <2>1. PaidUnits(Retired(seq)) \in Nat
      BY <1>0, RetiredPaid, QueueCountable
  <2> QED BY <1>0, <2>1, BooksAreEven DEF BooksInv
<1>2. ASSUME L1Grows, UNCHANGED <<seq, chain>>, VaultKeeps
      PROVE  BooksInv'
    BY <1>0, <1>2, L1Keeps DEF VaultKeeps, BooksInv
<1>3. CASE Tick \/ Settlement
  <2>1. /\ UNCHANGED <<seq, chain, deposits, logs, queue, tokens, escape, escapeUsed>>
        /\ now' \in {now, now + 1}
      BY <1>3 DEF Tick, Settlement, l2Vars, vaultVars
  <2>2. L1Grows
      BY <1>0, <2>1, SameGrows
  <2>3. Finalized' = Finalized
      BY <2>1 DEF Finalized
  <2> QED BY <1>0, <1>2, <2>1, <2>2, <2>3, NothingPaid
<1>4. CASE Vault
    BY <1>0, <1>2, <1>4, VaultGrows, VaultStepKeeps DEF Vault, l2Vars
<1>5. CASE L2
  <2>1. LedgerOK(seq') /\ Advances(seq, seq') /\ Even(seq') /\ UNCHANGED l1Vars
      BY <1>0, <1>1, <1>5, CoreL2, L2Even DEF L2
  <2>2. chain' = chain \/ ProduceBlock
      BY <1>5 DEF L2, L2Step, CreateAccount, RegisterKey, RequestBridgeWithdrawal, Trade
  <2> QED BY <1>0, <2>1, <2>2, LedgerKeepsBooks
<1>6. ASSUME UNCHANGED l1Vars, UNCHANGED l2Vars PROVE BooksInv'
  <2>1. LedgerOK(seq') /\ Advances(seq, seq') /\ Even(seq') /\ chain' = chain
      BY <1>0, <1>1, <1>6, CoreSame DEF l2Vars
  <2> QED BY <1>0, <1>6, <2>1, LedgerKeepsBooks
<1>7. ASSUME NEW p, TruePost(p), Handle(p), UNCHANGED l1Vars, UNCHANGED <<chain, trades>>
      PROVE  BooksInv'
  <2>1. LedgerOK(seq') /\ Advances(seq, seq') /\ Even(seq')
      BY <1>0, <1>1, <1>7, HandleOK, HandleEven
  <2> QED BY <1>0, <1>7, <2>1, LedgerKeepsBooks
<1>8. CASE Indexer
  <2>0. UNCHANGED l1Vars
      BY <1>8 DEF Indexer
  <2>1. CASE PollStart \/ ResolveAccount \/ SaveCursor \/ PollFail \/ PostLate
      BY <1>6, <2>0, <2>1 DEF PollStart, ResolveAccount, SaveCursor, PollFail, PostLate
  <2>2. CASE SubmitDeposit
    <3> PICK p : p = DepositPost
        OBVIOUS
    <3>1. idx # Idle /\ idx.pc = "submit" /\ Handle(p) /\ UNCHANGED <<chain, trades>>
        BY <2>2 DEF SubmitDeposit, Idle
    <3>2. idx.todo # {}
        BY <1>0, <3>1 DEF BridgeInv, PollInv, PollTracks
    <3>3. TruePost(p)
        BY <1>0, <3>1, <3>2, PostsTrue
    <3> QED BY <1>7, <2>0, <3>1, <3>3
  <2>3. CASE SubmitEvent
    <3> PICK p : p = EventPost
        OBVIOUS
    <3>1. idx # Idle /\ idx.events # {} /\ Handle(p) /\ UNCHANGED <<chain, trades>>
        BY <2>3 DEF SubmitEvent, Idle
    <3>2. TruePost(p)
        BY <1>0, <3>1, PostsTrue
    <3> QED BY <1>7, <2>0, <3>1, <3>2
  <2>4. CASE SubmitHeight
    <3> PICK p : p = HeightPost
        OBVIOUS
    <3>1. idx # Idle /\ Handle(p) /\ UNCHANGED <<chain, trades>>
        BY <2>4 DEF SubmitHeight, Idle
    <3>2. TruePost(p)
        BY <1>0, <3>1, PostsTrue
    <3> QED BY <1>7, <2>0, <3>1, <3>2
  <2>5. CASE ArriveLate
    <3>1. PICK p \in late : Handle(p) /\ UNCHANGED <<chain, trades>>
        BY <2>5 DEF ArriveLate
    <3>2. TruePost(p)
        BY <1>0 DEF BridgeInv, PollInv, LateTrue
    <3> QED BY <1>7, <2>0, <3>1, <3>2
  <2> QED BY <1>8, <2>1, <2>2, <2>3, <2>4, <2>5 DEF Indexer, Poll
<1>9. CASE UNCHANGED bridgeVars
    BY <1>6, <1>9 DEF bridgeVars
<1> QED
    BY <1>3, <1>4, <1>5, <1>8, <1>9 DEF Next

LEMMA CashNone == ASSUME NEW b, b = [a \in Accounts |-> 0] PROVE SumFunction(b) = 0
<1>1. b \in [Accounts -> Nat] /\ \A a \in Accounts : b[a] = 0 * b[a]
    OBVIOUS
<1>2. SumFunction(b) = SumFunctionOnSet(b, Accounts) /\ Summands(b, Accounts)
      /\ SumFunction(b) \in Nat
    BY <1>1, CashSum
<1>3. SumFunctionOnSet(b, Accounts) = 0 * SumFunctionOnSet(b, Accounts)
    BY <1>1, <1>2, SumScale
<1> QED
    BY <1>2, <1>3

LEMMA LeafUnitsNone == ASSUME NEW f PROVE LeafUnits(f, {}) = 0
<1> DEFINE F == [x \in {} |-> f[x].amount]
<1>1. LeafUnits(f, {}) = SumFunction(F) /\ DOMAIN F = {}
    BY DEF LeafUnits
<1> HIDE DEF F
<1> QED
    BY <1>1, SumEmpty DEF SumFunction

LEMMA BooksInitial ==
    ASSUME Init
    PROVE  BooksInv
<1>0. BridgeInv
    BY BridgeInitial
<1>1. /\ deposits = <<>> /\ queue = [n \in {} |-> 0] /\ escapeUsed = {} /\ tokens = 0
      /\ chain = <<>>
    BY DEF Init, L1Init, BridgeInit
<1>2. /\ seq.balance = [a \in Accounts |-> 0] /\ seq.quarantine = [a \in Accounts |-> 0]
      /\ seq.deposits = <<>> /\ DOMAIN seq.withdrawals = {} /\ DOMAIN seq.outcome = {}
    BY DEF Init, BridgeInit
<1>3. SumFunction(seq.balance) = 0 /\ SumFunction(seq.quarantine) = 0
    BY <1>2, CashNone
<1>4. 1..Len(seq.deposits) = {} /\ 1..Len(deposits) = {} /\ 1..Len(chain) = {}
    BY <1>1, <1>2
<1>5. Units({}) = 0 /\ PaidUnits({}) = 0 /\ LeafUnits(seq.withdrawals, {}) = 0
    BY LeafUnitsNone, UnitsAreLeaves
<1>6. Retired(seq) = {} /\ Finalized = {} /\ DOMAIN seq.withdrawals \ DOMAIN seq.outcome = {}
    BY <1>1, <1>2 DEF Retired, Finalized
<1>7. NanosPerTokenUnit * 0 = 0
    BY BridgeAssumption
<1>8. Books(seq)
  <2>1. Books(seq) <=> 0 + 0 + NanosPerTokenUnit * (0 + 0) = NanosPerTokenUnit * 0
      BY <1>3, <1>4, <1>5, <1>6, Zenon DEF Books, Balanced
  <2> QED BY <1>7, <2>1
<1>9. VaultBooks
  <2>1. EscapeUnits(escape.root, {}) = 0
      BY EscapeUnitsNone
  <2> QED BY <1>1, <1>4, <1>5, <1>6, <2>1 DEF VaultBooks, EscapeUnits
<1> QED
    BY <1>0, <1>4, <1>8, <1>9 DEF BooksInv

(* The books balance in every reachable state: the sequencer's ledger against
   the deposits it consumed, every state root against the deposits under it,
   and the vault's tokens against all deposits less what it has paid. *)
THEOREM BooksInvariance == Spec => []BooksInv
<1>1. Init => BooksInv
    BY BooksInitial
<1>2. BooksInv /\ [Next]_bridgeVars => BooksInv'
    BY BooksStep
<1> QED
    BY <1>1, <1>2, PTL DEF Spec

(* No nano appears or disappears on L2, through deposits, quarantine claims,
   trades, withdrawals, refunds on expiry and finalizations seen, in whatever
   order the indexer's requests arrive. *)
THEOREM NoNanoLost == Spec => []Conservation
<1>1. BooksInv => Conservation
    BY DEF BooksInv, Books, Balanced, LeafUnits, PaidUnits, Retired, Conservation
<1> QED
    BY <1>1, BooksInvariance, PTL

-----------------------------------------------------------------------------
(* Solvency *)

LEMMA TimesMonotone ==
    ASSUME NEW k \in Nat, NEW x \in Nat, NEW y \in Nat, x <= y
    PROVE  k * x <= k * y
<1>1. PICK d \in Nat : y = x + d
  <2>1. y - x \in Nat /\ y = x + (y - x)
      OBVIOUS
  <2> QED BY <2>1
<1>2. k * (x + d) = k * x + k * d /\ k * d \in Nat /\ k * x \in Nat
    BY Distributes, ProductNat
<1> QED
    BY <1>1, <1>2

LEMMA TimesCancel ==
    ASSUME NEW k \in Nat \ {0}, NEW x \in Nat, NEW y \in Nat, k * x <= k * y
    PROVE  x <= y
<1> SUFFICES ASSUME ~(x <= y) PROVE FALSE
    OBVIOUS
<1>1. PICK d \in Nat : x = y + (1 + d)
  <2>1. x - y - 1 \in Nat /\ x = y + (1 + (x - y - 1))
      OBVIOUS
  <2> QED BY <2>1
<1>2. k * (y + (1 + d)) = k * y + k * (1 + d) /\ k * (1 + d) = k * 1 + k * d
    BY <1>1, Distributes
<1>3. k * d \in Nat /\ k * y \in Nat /\ k * 1 = k
    BY <1>1, ProductNat
<1> QED
    BY <1>1, <1>2, <1>3

(* What a balanced root owes is covered by the deposits. *)
LEMMA CoveredByDeposits ==
    ASSUME NEW k \in Nat \ {0}, NEW A \in Nat, NEW V \in Nat, NEW L \in Nat, NEW P \in Nat,
           NEW B \in Nat, NEW Q \in Nat, NEW R \in Nat, NEW U \in Nat,
           k * A <= B, V <= L + P, B + Q + k * (L + P) = k * R, R <= U
    PROVE  A + V <= U
<1>1. k * V <= k * (L + P)
    BY TimesMonotone
<1>2. /\ k * (A + V) = k * A + k * V
      /\ k * A \in Nat /\ k * V \in Nat /\ k * (L + P) \in Nat /\ k * R \in Nat
    BY Distributes, ProductNat
<1>3. k * (A + V) <= k * R
    BY <1>1, <1>2
<1>4. A + V <= R
    BY <1>3, TimesCancel
<1> QED
    BY <1>4

(* Claims are rounded down. *)
LEMMA ClaimsFitBalances ==
    ASSUME NEW root, root.balance \in [Accounts -> Nat]
    PROVE  /\ EscapeUnits(root, Accounts) \in Nat
           /\ NanosPerTokenUnit * EscapeUnits(root, Accounts) <= SumFunction(root.balance)
<1> DEFINE k == NanosPerTokenUnit
           E == [a \in Accounts |-> EscapeAmount(root, a)]
           G == [a \in Accounts |-> k * E[a]]
<1>1. E = [a \in Accounts |-> EscapeAmount(root, a)]
    OBVIOUS
<1>2. k \in Nat \ {0}
    BY BridgeAssumption
<1>3. /\ \A a \in Accounts : E[a] \in Nat
      /\ Summands(E, Accounts)
      /\ EscapeUnits(root, Accounts) = SumFunctionOnSet(E, Accounts)
      /\ EscapeUnits(root, Accounts) \in Nat
  <2> HIDE DEF E
  <2>1. Accounts \subseteq Accounts
      OBVIOUS
  <2> QED BY <1>1, <2>1, EscapeUnitsSum
<1>4. \A a \in Accounts : G[a] = k * E[a] /\ G[a] <= root.balance[a] /\ G[a] \in Nat
  <2> TAKE a \in Accounts
  <2> DEFINE b == root.balance[a]
  <2>1. b \in Nat /\ E[a] = b \div k
      BY DEF EscapeAmount
  <2>2. E[a] \in Nat /\ G[a] = k * E[a]
      BY <1>3
  <2> HIDE DEF b, k, E, G
  <2>3. k * (b \div k) <= b
      BY <1>2, <2>1
  <2>4. k * E[a] \in Nat
      BY <1>2, <2>2, ProductNat
  <2> QED BY <2>1, <2>2, <2>3, <2>4 DEF b
<1>5. /\ SumFunction(root.balance) = SumFunctionOnSet(root.balance, Accounts)
      /\ Summands(root.balance, Accounts)
    BY CashSum
<1> HIDE DEF E, G, k
<1>6. Summands(G, Accounts)
    BY <1>3, <1>4 DEF Summands
<1>7. SumFunctionOnSet(G, Accounts) = k * SumFunctionOnSet(E, Accounts)
    BY <1>2, <1>3, <1>4, SumScale
<1>8. SumFunctionOnSet(G, Accounts) <= SumFunctionOnSet(root.balance, Accounts)
  <2> DEFINE b == root.balance
  <2>1. Summands(b, Accounts) /\ \A a \in Accounts : G[a] <= b[a]
      BY <1>4, <1>5
  <2> HIDE DEF b
  <2>2. SumFunctionOnSet(G, Accounts) <= SumFunctionOnSet(b, Accounts)
      BY <1>6, <2>1, SumMonotone
  <2> QED BY <2>2 DEF b
<1> QED
    BY <1>3, <1>5, <1>7, <1>8 DEF k

(* Two disjoint groups of accounts claim no more than everybody. *)
LEMMA ClaimsOfSome ==
    ASSUME NEW root, root.balance \in [Accounts -> Nat], NEW S, NEW T,
           S \subseteq Accounts, T \subseteq Accounts, S \cap T = {}
    PROVE  /\ EscapeUnits(root, S) \in Nat /\ EscapeUnits(root, T) \in Nat
           /\ EscapeUnits(root, S) + EscapeUnits(root, T) <= EscapeUnits(root, Accounts)
<1> DEFINE E == [a \in Accounts |-> EscapeAmount(root, a)]
<1>1. E = [a \in Accounts |-> EscapeAmount(root, a)]
    OBVIOUS
<1> HIDE DEF E
<1>2. /\ Summands(E, S) /\ EscapeUnits(root, S) = SumFunctionOnSet(E, S)
      /\ EscapeUnits(root, S) \in Nat
    BY <1>1, EscapeUnitsSum
<1>3. /\ Summands(E, T) /\ EscapeUnits(root, T) = SumFunctionOnSet(E, T)
      /\ EscapeUnits(root, T) \in Nat
    BY <1>1, EscapeUnitsSum
<1>4. /\ \A a \in Accounts : E[a] \in Nat
      /\ IsFiniteSet(Accounts) /\ EscapeUnits(root, Accounts) = SumFunctionOnSet(E, Accounts)
  <2>1. Accounts \subseteq Accounts
      OBVIOUS
  <2> QED BY <1>1, <2>1, EscapeUnitsSum
<1>5. SumFunctionOnSet(E, S \cup T) = SumFunctionOnSet(E, S) + SumFunctionOnSet(E, T)
    BY <1>2, <1>3, SumUnion
<1>6. SumFunctionOnSet(E, S \cup T) <= SumFunctionOnSet(E, Accounts)
  <2> DEFINE W == S \cup T
  <2>1. W \subseteq Accounts
      OBVIOUS
  <2> HIDE DEF W
  <2>2. SumFunctionOnSet(E, W) <= SumFunctionOnSet(E, Accounts)
      BY <1>4, <2>1, SumLess
  <2> QED BY <2>2 DEF W
<1> QED
    BY <1>2, <1>3, <1>4, <1>5, <1>6

(* The record that claims are made on is of a block of the chain. *)
LEMMA RecordRoot ==
    ASSUME CoreInv, Record # NoRoot
    PROVE  Record.height \in 1..Len(chain) /\ Record.root = chain[Record.height]
<1>1. PICK i \in 1..Len(accepted) : Record = accepted[i]
  <2>1. CASE EscapeModeActive
      BY <2>1 DEF CoreInv, AcceptedRoots, Record
  <2>2. CASE ~EscapeModeActive
    <3>1. Record = Latest /\ accepted # <<>>
        BY <2>2 DEF Record, Latest
    <3>2. Len(accepted) \in 1..Len(accepted) /\ Latest = accepted[Len(accepted)]
        BY <3>1, EmptySeq, RecordHeight DEF Latest, CoreInv, AcceptedRoots, IsSequence
    <3> QED BY <3>1, <3>2
  <2> QED BY <2>1, <2>2
<1> QED
    BY <1>1 DEF CoreInv, AcceptedRoots

(* A withdrawal that L1 will pay or has paid is a leaf of the record's root,
   of the same amount, or the sequencer has seen it paid. *)
LEMMA PayableInRoot ==
    ASSUME CoreInv, Record # NoRoot, NEW r, r = Record.root, RefundedYetPayable(r) = {},
           NEW n \in DOMAIN queue, ~queue[n].canceled
    PROVE  /\ n \in DOMAIN r.withdrawals => queue[n].amount = r.withdrawals[n].amount
           /\ n \notin DOMAIN r.withdrawals => n \in RootRetired(r)
<1> DEFINE H == Record.height
<1>1. H \in 1..Len(chain) /\ r = chain[H] /\ Len(chain) \in Nat
    BY RecordRoot, RecordHeight
<1>2. PICK h \in 1..H : /\ n \in DOMAIN chain[h].withdrawals
                        /\ queue[n].amount = chain[h].withdrawals[n].amount
    BY DEF CoreInv, QueueProven
<1>3. h \in 1..Len(chain) /\ H \in h..Len(chain)
    BY <1>1, <1>2
<1> HIDE DEF H
<1>4. RootExtended(chain[h], r)
    BY <1>1, <1>3 DEF CoreInv, RootsExtend
<1>5. n \in DOMAIN r.withdrawals => queue[n].amount = r.withdrawals[n].amount
    BY <1>2, <1>4 DEF RootExtended, SameAmounts
<1>6. ASSUME n \notin DOMAIN r.withdrawals PROVE n \in RootRetired(r)
  <2>1. n \in 1..(chain[h].next_withdrawal_id - 1) /\ chain[h].next_withdrawal_id \in Nat
      BY <1>2, <1>3 DEF CoreInv, L2TypeOK, RootTypeOK
  <2>2. r.next_withdrawal_id \in Nat /\ chain[h].next_withdrawal_id <= r.next_withdrawal_id
      BY <1>1, <1>4 DEF CoreInv, L2TypeOK, RootTypeOK, RootExtended
  <2>3. n \in 1..(r.next_withdrawal_id - 1) /\ n < r.next_withdrawal_id
      BY <2>1, <2>2
  <2>4. n \in DOMAIN seq.outcome
      BY <1>1, <1>6, <2>3 DEF CoreInv, RootsExtend
  <2>5. seq.outcome[n].status # "refunded"
      BY <1>6, <2>3, <2>4 DEF RefundedYetPayable
  <2>6. seq.outcome[n].status \in {"finalized", "refunded"}
      BY <2>4 DEF CoreInv, L2TypeOK, SeqTypeOK, Outcomes
  <2> QED BY <1>6, <2>3, <2>4, <2>5, <2>6 DEF RootRetired, Retired
<1> QED
    BY <1>5, <1>6

(* So what L1 has paid and will pay is within what the root counts. *)
LEMMA PayablesCounted ==
    ASSUME CoreInv, NEW r, NEW V, V \subseteq DOMAIN queue,
           Countable(r.withdrawals, DOMAIN r.withdrawals),
           \A n \in V : /\ n \in DOMAIN r.withdrawals => queue[n].amount = r.withdrawals[n].amount
                        /\ n \notin DOMAIN r.withdrawals => n \in RootRetired(r)
    PROVE  PaidUnits(V) <= LeafUnits(r.withdrawals, DOMAIN r.withdrawals) + PaidUnits(RootRetired(r))
<1> DEFINE D == DOMAIN r.withdrawals
           S == V \cap D
           T == V \ D
           w == r.withdrawals
           RR == RootRetired(r)
<1>1. S \subseteq DOMAIN queue /\ T \subseteq DOMAIN queue /\ V = S \cup T /\ S \cap T = {}
      /\ S \subseteq D /\ T \subseteq RR /\ \A n \in S : queue[n].amount = w[n].amount
    OBVIOUS
<1>2. RR \subseteq DOMAIN queue
    BY RetiredPaid DEF RootRetired
<1>3. Countable(w, D)
    OBVIOUS
<1> HIDE DEF S, T, D, w, RR
<1>4. Countable(queue, S) /\ Countable(queue, T) /\ Countable(queue, RR)
    BY <1>1, <1>2, QueueCountable
<1>5. LeafUnits(queue, S \cup T) = LeafUnits(queue, S) + LeafUnits(queue, T)
    BY <1>1, <1>4, LeafUnitsUnion
<1>6. LeafUnits(queue, S) = LeafUnits(w, S)
    BY <1>1, LeafUnitsSame
<1>7. LeafUnits(w, S) <= LeafUnits(w, D)
    BY <1>1, <1>3, LeafUnitsLess
<1>8. LeafUnits(queue, T) <= LeafUnits(queue, RR)
    BY <1>1, <1>4, LeafUnitsLess
<1>9. /\ LeafUnits(queue, S) \in Nat /\ LeafUnits(queue, T) \in Nat
      /\ LeafUnits(queue, RR) \in Nat /\ LeafUnits(w, D) \in Nat
    BY <1>3, <1>4, LeafUnitsNat
<1>10. LeafUnits(queue, V) <= LeafUnits(w, D) + LeafUnits(queue, RR)
    BY <1>1, <1>5, <1>6, <1>7, <1>8, <1>9
<1> QED
    BY <1>10, UnitsAreLeaves DEF w, D, RR

LEMMA SolventFromBooks ==
    ASSUME BooksInv
    PROVE  Solvent
<1> DEFINE root == Record.root
           unpaid == {n \in DOMAIN queue : ~queue[n].canceled /\ ~queue[n].finalized}
           open == {b \in Accounts : b < root.next_id /\ b \notin escapeUsed}
<1> SUFFICES ASSUME Record # NoRoot, RefundedYetPayable(root) = {}
             PROVE  EscapeUnits(root, open) + PaidUnits(unpaid) <= tokens
    BY DEF Solvent, Record, EscapeUnits, PaidUnits
<1> PICK r : r = Record.root
    OBVIOUS
<1>0. CoreInv /\ VaultBooks
    BY DEF BooksInv, BridgeInv
<1>1. RootTypeOK(r) /\ RootBooks(r) /\ Len(r.deposits) \in Nat
      /\ Len(r.deposits) <= Len(seq.deposits)
  <2>1. Record.height \in 1..Len(chain) /\ r = chain[Record.height]
      BY <1>0, RecordRoot
  <2>2. RootTypeOK(r) /\ RootBooks(r) /\ Len(r.deposits) <= Len(seq.deposits)
      BY <1>0, <2>1 DEF BooksInv, CoreInv, L2TypeOK, RootsExtend, RootExtended
  <2> QED BY <2>2 DEF RootTypeOK
<1>2. escapeUsed \subseteq Accounts /\ open \subseteq Accounts /\ open \cap escapeUsed = {}
    BY <1>0 DEF CoreInv, L1TypeOK
<1>3. EscapeUnits(escape.root, escapeUsed) = EscapeUnits(r, escapeUsed)
  <2>1. CASE EscapeModeActive
      BY <2>1 DEF Record
  <2>2. CASE ~EscapeModeActive
    <3>1. escapeUsed = {}
        BY <1>0, <2>2 DEF CoreInv, AcceptedRoots
    <3> QED BY <3>1, EscapeUnitsNone
  <2> QED BY <2>1, <2>2
<1> DEFINE V == unpaid \cup Finalized
           D == DOMAIN r.withdrawals
           A == EscapeUnits(r, Accounts)
           L == LeafUnits(r.withdrawals, D)
           P == PaidUnits(RootRetired(r))
           B == SumFunction(r.balance)
           Q == SumFunction(r.quarantine)
           R == Units(1..Len(r.deposits))
           U == Units(1..Len(deposits))
<1>4. V \subseteq DOMAIN queue /\ unpaid \subseteq DOMAIN queue /\ Finalized \subseteq DOMAIN queue
      /\ unpaid \cap Finalized = {} /\ \A n \in V : ~queue[n].canceled
    BY <1>0 DEF Finalized, CoreInv, NullifierHeld
<1>5. PaidUnits(V) = PaidUnits(unpaid) + PaidUnits(Finalized)
      /\ PaidUnits(unpaid) \in Nat /\ PaidUnits(Finalized) \in Nat
  <2> HIDE DEF unpaid
  <2>1. Countable(queue, unpaid) /\ Countable(queue, Finalized)
        /\ PaidUnits(unpaid) \in Nat /\ PaidUnits(Finalized) \in Nat
      BY <1>0, <1>4, QueueCountable
  <2>2. LeafUnits(queue, unpaid \cup Finalized)
          = LeafUnits(queue, unpaid) + LeafUnits(queue, Finalized)
      BY <1>4, <2>1, LeafUnitsUnion
  <2> QED BY <2>1, <2>2, UnitsAreLeaves DEF V
<1>6. Countable(r.withdrawals, D)
  <2>1. /\ D \subseteq 1..(r.next_withdrawal_id - 1) /\ r.next_withdrawal_id \in Nat
        /\ \A id \in D : r.withdrawals[id].amount \in Nat
      BY <1>1, BridgeAssumption DEF RootTypeOK, RootLeaves
  <2> DEFINE I == 1..(r.next_withdrawal_id - 1)
  <2>2. IsFiniteSet(I)
      BY <2>1, FS_Interval
  <2>3. D \subseteq I
      BY <2>1
  <2> HIDE DEF I, D
  <2>4. IsFiniteSet(D)
      BY <2>2, <2>3, FS_Subset
  <2> QED BY <2>1, <2>4 DEF Countable
<1>7. PaidUnits(V) <= L + P
  <2>1. \A n \in V : /\ n \in D => queue[n].amount = r.withdrawals[n].amount
                     /\ n \notin D => n \in RootRetired(r)
      BY <1>0, <1>4, PayableInRoot
  <2> HIDE DEF V
  <2> QED BY <1>0, <1>4, <1>6, <2>1, PayablesCounted
<1>8. L \in Nat /\ P \in Nat /\ B \in Nat /\ Q \in Nat
  <2>1. RootRetired(r) \subseteq DOMAIN queue
      BY <1>0, RetiredPaid DEF RootRetired
  <2>2. P \in Nat
      BY <1>0, <2>1, QueueCountable
  <2>3. L \in Nat
      BY <1>6, LeafUnitsNat
  <2> QED BY <1>1, <2>2, <2>3, CashSum DEF RootTypeOK
<1>9. R \in Nat /\ U \in Nat /\ R <= U
  <2> DEFINE c == Len(r.deposits)
             d == Len(deposits)
  <2>1. c \in Nat /\ d \in Nat /\ c <= d
    <3>1. Len(seq.deposits) <= Len(deposits) /\ Len(seq.deposits) \in Nat /\ Len(deposits) \in Nat
        BY <1>0, L1Entries, SeqNumbers DEF CoreInv, DepositsInOrder, L2TypeOK
    <3> QED BY <1>1, <3>1
  <2> DEFINE S == 1..c
             T == 1..d
  <2>2. S \subseteq T
      BY <2>1
  <2>3. Countable(deposits, T) /\ R \in Nat /\ U \in Nat
      BY <1>0, <2>1, DepositsCountable
  <2> HIDE DEF S, T
  <2>4. LeafUnits(deposits, S) <= LeafUnits(deposits, T)
      BY <2>2, <2>3, LeafUnitsLess
  <2> QED BY <2>3, <2>4, UnitsAreLeaves DEF S, T
<1>10. A \in Nat /\ NanosPerTokenUnit * A <= B
    BY <1>1, ClaimsFitBalances DEF RootTypeOK
<1>11. /\ EscapeUnits(r, open) \in Nat /\ EscapeUnits(r, escapeUsed) \in Nat
       /\ EscapeUnits(r, open) + EscapeUnits(r, escapeUsed) <= A
  <2> HIDE DEF open
  <2> QED BY <1>1, <1>2, ClaimsOfSome DEF RootTypeOK
<1>12. B + Q + NanosPerTokenUnit * (L + P) = NanosPerTokenUnit * R
    BY <1>1 DEF RootBooks, Balanced
<1>13. tokens + PaidUnits(Finalized) + EscapeUnits(r, escapeUsed) = U /\ tokens \in Nat
    BY <1>0, <1>3, VaultParts
<1>14. NanosPerTokenUnit \in Nat \ {0} /\ PaidUnits(V) \in Nat
    BY <1>5, BridgeAssumption
<1> HIDE DEF V, A, L, P, B, Q, R, U, unpaid, open
<1>15. A + PaidUnits(V) <= U
    BY <1>7, <1>8, <1>9, <1>10, <1>12, <1>14, CoveredByDeposits
<1>16. EscapeUnits(r, open) + PaidUnits(unpaid) <= tokens
    BY <1>5, <1>9, <1>10, <1>11, <1>13, <1>15
<1> QED
    BY <1>16

(* Whoever claims first, the vault can pay every queued withdrawal and every
   account's escape claim, as long as no withdrawal that the root holds
   refunded is payable on L1. *)
THEOREM VaultSolvent == Spec => []Solvent
<1>1. BooksInv => Solvent
    BY SolventFromBooks
<1> QED
    BY <1>1, BooksInvariance, PTL
====
