-------------------------- MODULE ControlLog_proofs --------------------------
(***************************************************************************)
(* Proofs about the control plane and its log, for every set of commands   *)
(* and every bound.                                                        *)
(***************************************************************************)
EXTENDS ControlPlane_proofs

-----------------------------------------------------------------------------
(* What a replay keeps *)

HoldsOn(c, reply, s, t) ==
    (c.op = "create_group" => reply \in Nat) /\ Holds(c, reply, s) => Holds(c, reply, t)

Onward(s, t) ==
    /\ StateOK(t)
    /\ IsRecord(s) => IsRecord(t)
    /\ IndexOK(s) => IndexOK(t)
    /\ CountersUp(s, t)
    /\ \A s0 : Since(s0, s) => Since(s0, t)
    /\ \A b : Shape(b) /\ Tracks(b, s) => Tracks(b, t)
    /\ \A c \in Commands : \A reply : HoldsOn(c, reply, s, t)

LEMMA ApplyIsRecord ==
    ASSUME NEW s, IsRecord(s), NEW row, row.command.op \in Ops \cup {"nonce"}
    PROVE  IsRecord(Apply(s, row))
<1>1. PICK c : c = row.command
    OBVIOUS
<1>2. AppliesAs(s, row, c)
    BY <1>1, Applies
<1>3. /\ IsRecord(CreateMarket(s, c)) /\ IsRecord(CreateGroup(s, c))
      /\ IsRecord(Settled(s, c.market, c.payout)) /\ IsRecord(InstallTemplate(s, c))
    BY DEF IsRecord, CreateMarket, CreateGroup, Settled, InstallTemplate
<1>4. IsRecord(ExtendGroup(s, c)) /\ IsRecord(RegisterFeed(s, c))
    BY DEF IsRecord, ExtendGroup, RegisterFeed
<1>5. \A key : IsRecord(NewAccount(s, key))
    BY DEF IsRecord, NewAccount
<1>6. /\ IsRecord(Fund(s, c)) /\ IsRecord(Advance(s, c)) /\ IsRecord(SetProfile(s, c))
      /\ IsRecord(CreateApiKey(s, c)) /\ IsRecord(RevokeApiKey(s, c)) /\ IsRecord(AddKey(s, c))
    BY DEF IsRecord, Fund, Advance, SetProfile, CreateApiKey, RevokeApiKey, AddKey
<1>7. IsRecord(RegisterKey(s, c)) /\ IsRecord(RevokeKey(s, c))
    BY DEF IsRecord, RegisterKey, RevokeKey, ChainKeyOp
<1>8. ASSUME NEW bundles, NEW reply PROVE IsRecord(MmApplied(s, row, bundles, reply))
  <2>1. PICK receipt : receipt = {[account |-> row.command.account, nonce |-> row.command.nonce,
                                   command |-> row.command, reply |-> reply]}
      OBVIOUS
  <2>2. MmApplied(s, row, bundles, reply) =
          [s EXCEPT !.bundles = (@ \ Active(s, row.command.account)) \cup bundles,
                    !.accounts[row.command.account].last_nonce = row.command.nonce,
                    !.next_order_id = IF bundles = {} THEN @ ELSE row.order_id + 1,
                    !.mm_receipts = (@ \ MmReceipt(s, row.command.account)) \cup receipt]
      BY <2>1 DEF MmApplied
  <2> QED BY <2>2 DEF IsRecord
<1>9. CASE c.op \in {"create_market", "create_group", "extend_group", "resolve", "attest",
                     "register_feed", "install_template"}
    BY <1>2, <1>3, <1>4, <1>9 DEF AppliesAs
<1>10. CASE c.op = "provision"
  <2>1. PICK u : u = NewAccount(s, NoKey)
      OBVIOUS
  <2>2. Apply(s, row) = [u EXCEPT !.receipts =
             @ \cup {[key |-> c.key, request |-> c.request, account |-> row.account]}]
      BY <1>2, <1>10, <2>1 DEF AppliesAs
  <2> QED BY <2>2 DEF IsRecord
<1>11. CASE c.op = "public_account"
  <2>1. PICK u : u = NewAccount(s, c.pubkey)
      OBVIOUS
  <2>2. Apply(s, row) = [u EXCEPT !.public = @ + 1]
      BY <1>2, <1>11, <2>1 DEF AppliesAs
  <2> QED BY <2>2 DEF IsRecord
<1>12. CASE c.op = "create_account"
    BY <1>2, <1>5, <1>12 DEF AppliesAs
<1>13. CASE c.op \in {"fund", "nonce", "profile", "api_create", "api_revoke", "first_key",
                      "register_key", "revoke_key"}
    BY <1>2, <1>6, <1>7, <1>13 DEF AppliesAs
<1>14. CASE c.op \in {"mm_submit", "mm_replace", "mm_cancel"}
    BY <1>2, <1>8, <1>14 DEF AppliesAs
<1> QED
    BY <1>1, <1>9, <1>10, <1>11, <1>12, <1>13, <1>14 DEF Ops

LEMMA CountersSame ==
    ASSUME NEW s, Shape(s), NEW t, t.accounts = s.accounts
    PROVE  CountersUp(s, t)
<1>1. \A a \in Accounts(s) : s.accounts[a].last_nonce \in Nat /\ s.accounts[a].chain \in Nat
    BY DEF Shape, AccountOK
<1> QED
    BY <1>1 DEF CountersUp, Accounts

LEMMA OnwardSelf == ASSUME NEW s, StateOK(s) PROVE Onward(s, s)
    BY CountersSame DEF Onward, StateOK, HoldsOn

LEMMA OnwardTwice ==
    ASSUME NEW s, StateOK(s), NEW t, NEW u, Onward(s, t), Onward(t, u)
    PROVE  Onward(s, u)
<1>1. CountersUp(s, u)
  <2>1. CountersUp(s, t) /\ CountersUp(t, u) /\ Shape(s) /\ Shape(t) /\ Shape(u)
      BY DEF Onward, StateOK
  <2>2. Accounts(s) \subseteq Accounts(t) /\ Accounts(t) \subseteq Accounts(u)
      BY <2>1 DEF CountersUp
  <2>3. ASSUME NEW a \in Accounts(s)
        PROVE  /\ u.accounts[a].last_nonce >= s.accounts[a].last_nonce
               /\ u.accounts[a].chain >= s.accounts[a].chain
    <3>1. AccountOK(s.accounts[a]) /\ AccountOK(t.accounts[a]) /\ AccountOK(u.accounts[a])
        BY <2>1, <2>2 DEF Shape
    <3>2. /\ t.accounts[a].last_nonce >= s.accounts[a].last_nonce
          /\ t.accounts[a].chain >= s.accounts[a].chain
          /\ u.accounts[a].last_nonce >= t.accounts[a].last_nonce
          /\ u.accounts[a].chain >= t.accounts[a].chain
        BY <2>1, <2>2 DEF CountersUp
    <3> QED BY <3>1, <3>2 DEF AccountOK
  <2> QED BY <2>2, <2>3 DEF CountersUp
<1>2. \A c \in Commands : \A reply : HoldsOn(c, reply, s, u)
    BY DEF Onward, HoldsOn
<1> QED
    BY <1>1, <1>2 DEF Onward

LEMMA EffectOnward ==
    ASSUME NEW s, StateOK(s), NEW row, RowOK(row), NEW t, Effect(s, row, t),
           IsRecord(s) => IsRecord(t)
    PROVE  Onward(s, t)
<1>1. Shape(s) /\ HashesOwned(s) /\ GroupsOK(s) /\ KeyedOnce(s) /\ ReceiptsOK(s)
    BY DEF StateOK
<1>2. Shape(t)
    BY <1>1, ShapeKept
<1>3. HashesOwned(t)
    BY <1>1, HashesKept
<1>4. GroupsOK(t)
    BY <1>1, GroupsKept
<1>5. KeyedOnce(t)
    BY <1>1, <1>2, KeyedKept
<1>6. IndexOK(s) => IndexOK(t)
    BY <1>1, <1>2, IndexKept
<1>7. \A s0 : Since(s0, s) => Since(s0, t)
    BY <1>1, SinceKept
<1>8. ReceiptsOK(t)
    BY <1>1, <1>2, ReceiptsKept
<1>9. CountersUp(s, t)
    BY <1>1, CountersGrow
<1>10. \A b : Shape(b) /\ Tracks(b, s) => Tracks(b, t)
    BY <1>1, <1>2, TracksKept
<1>11. StateOK(t)
    BY <1>2, <1>3, <1>4, <1>5, <1>8 DEF StateOK
<1>12. \A c \in Commands : \A reply : HoldsOn(c, reply, s, t)
    BY <1>11, HoldsKept DEF HoldsOn
<1> QED
    BY <1>6, <1>7, <1>9, <1>10, <1>11, <1>12 DEF Onward

NextStep(r, row, q) ==
    \/ r.ok /\ Applicable(r.st, row) /\ q.ok = TRUE /\ q.st = Apply(r.st, row)
    \/ ~(r.ok /\ Applicable(r.st, row)) /\ q.ok = FALSE /\ q.st = r.st

LEMMA NextIs ==
    ASSUME NEW r, NEW row, NEW q, q = ApplyNext(r, row)
    PROVE  NextStep(r, row, q)
<1>1. CASE r.ok /\ Applicable(r.st, row)
  <2>1. q = [ok |-> TRUE, st |-> Apply(r.st, row)]
      BY <1>1 DEF ApplyNext
  <2> QED BY <1>1, <2>1 DEF NextStep
<1>2. CASE ~(r.ok /\ Applicable(r.st, row))
  <2>1. q = [ok |-> FALSE, st |-> r.st]
      BY <1>2 DEF ApplyNext
  <2> QED BY <1>2, <2>1 DEF NextStep
<1> QED
    BY <1>1, <1>2

LEMMA NextOnward ==
    ASSUME NEW r, StateOK(r.st), NEW row, RowOK(row), NEW q, q = ApplyNext(r, row)
    PROVE  Onward(r.st, q.st)
<1>1. CASE Applicable(r.st, row) /\ q.st = Apply(r.st, row)
  <2>1. Effect(r.st, row, q.st)
    <3>1. Shape(r.st) /\ row.command.op \in Ops \cup {"nonce"}
        BY DEF StateOK, RowOK
    <3> QED BY <1>1, <3>1, EffectOf
  <2>2. IsRecord(r.st) => IsRecord(q.st)
      BY <1>1, ApplyIsRecord DEF RowOK
  <2> QED BY <2>1, <2>2, EffectOnward
<1>2. CASE q.st = r.st
    BY <1>2, OnwardSelf
<1> QED
    BY <1>1, <1>2, NextIs DEF NextStep

LEMMA TraceOnward ==
    ASSUME NEW rows, RowsOK(rows), NEW base, StateOK(base.st), NEW tr, ReplayTrace(tr, base, rows)
    PROVE  Onward(base.st, tr[Len(rows)].st)
<1> DEFINE n == Len(rows)
           good == {k \in 0..n : Onward(base.st, tr[k].st)}
<1>1. n \in Nat
    BY SequenceIs DEF RowsOK
<1>2. 0 \in good
    BY <1>1, OnwardSelf DEF ReplayTrace
<1>3. ASSUME NEW k \in 1..n, k - 1 \in good PROVE k \in good
  <2>1. Onward(base.st, tr[k - 1].st) /\ k \in 0..n
      BY <1>1, <1>3
  <2>2. tr[k] = ApplyNext(tr[k - 1], rows[k]) /\ RowOK(rows[k])
      BY DEF ReplayTrace, RowsOK
  <2>3. StateOK(tr[k - 1].st)
      BY <2>1 DEF Onward
  <2>4. Onward(tr[k - 1].st, tr[k].st)
      BY <2>2, <2>3, NextOnward
  <2>5. Onward(base.st, tr[k].st)
      BY <2>1, <2>4, OnwardTwice
  <2> QED BY <2>1, <2>5
<1> HIDE DEF good, n
<1>4. n \in good
    BY <1>1, <1>2, <1>3, CountUp
<1> QED
    BY <1>4 DEF good, n

LEMMA ReplayOnward ==
    ASSUME NEW rows, RowsOK(rows), NEW st, StateOK(st)
    PROVE  Onward(st, ApplyAll(st, rows).st)
<1>1. PICK base : base = [ok |-> TRUE, st |-> st]
    OBVIOUS
<1>2. IsSequence(rows)
    BY DEF RowsOK
<1>3. PICK tr : ReplayTrace(tr, base, rows) /\ ApplyAll(st, rows) = tr[Len(rows)]
    BY <1>1, <1>2, ApplyTrace
<1>4. base.st = st
    BY <1>1
<1> QED
    BY <1>3, <1>4, TraceOnward

(* Two replays in step. *)
Matches(r, q) == r.ok = q.ok /\ Agree(r.st, q.st)

LEMMA MatchesNext ==
    ASSUME NEW r, NEW q, Matches(r, q), NEW row, RowOK(row)
    PROVE  Matches(ApplyNext(r, row), ApplyNext(q, row))
<1>1. PICK r1, q1 : r1 = ApplyNext(r, row) /\ q1 = ApplyNext(q, row)
    OBVIOUS
<1>2. r.ok = q.ok /\ Agree(r.st, q.st) /\ row.command.op \in Ops \cup {"nonce"}
    BY DEF Matches, RowOK
<1>3. Applicable(r.st, row) <=> Applicable(q.st, row)
    BY <1>2, AgreeApplicable
<1>4. Agree(Apply(r.st, row), Apply(q.st, row))
    BY <1>2, AgreeApply
<1>5. \/ r.ok /\ Applicable(r.st, row) /\ r1.ok = TRUE /\ r1.st = Apply(r.st, row)
      \/ ~(r.ok /\ Applicable(r.st, row)) /\ r1.ok = FALSE /\ r1.st = r.st
  <2>1. NextStep(r, row, r1)
      BY <1>1, NextIs
  <2> QED BY <2>1 DEF NextStep
<1>6. \/ q.ok /\ Applicable(q.st, row) /\ q1.ok = TRUE /\ q1.st = Apply(q.st, row)
      \/ ~(q.ok /\ Applicable(q.st, row)) /\ q1.ok = FALSE /\ q1.st = q.st
  <2>1. NextStep(q, row, q1)
      BY <1>1, NextIs
  <2> QED BY <2>1 DEF NextStep
<1>7. Matches(r1, q1)
    BY <1>2, <1>3, <1>4, <1>5, <1>6 DEF Matches
<1> QED
    BY <1>1, <1>7

LEMMA Lockstep ==
    ASSUME NEW s0, NEW a, IsSequence(a), NEW b, RowsOK(b), NEW t,
           Matches(ApplyAll(s0, a), [ok |-> TRUE, st |-> t])
    PROVE  Matches(ApplyAll(s0, a \o b), ApplyAll(t, b))
<1>0. IsSequence(b) /\ \A i \in 1..Len(b) : RowOK(b[i])
    BY DEF RowsOK
<1>1. PICK u : ReplayTrace(u, ApplyAll(s0, a), b) /\ ApplyAll(s0, a \o b) = u[Len(b)]
    BY <1>0, ApplyConcat
<1>2. PICK base : base = [ok |-> TRUE, st |-> t]
    OBVIOUS
<1>3. PICK v : ReplayTrace(v, base, b) /\ ApplyAll(t, b) = v[Len(b)]
    BY <1>0, <1>2, ApplyTrace
<1> DEFINE n == Len(b)
           good == {k \in 0..n : Matches(u[k], v[k])}
<1>4. n \in Nat
    BY <1>0, SequenceIs
<1>5. 0 \in good
    BY <1>1, <1>2, <1>3, <1>4 DEF ReplayTrace
<1>6. ASSUME NEW k \in 1..n, k - 1 \in good PROVE k \in good
  <2>1. Matches(u[k - 1], v[k - 1]) /\ k \in 0..n
      BY <1>4, <1>6
  <2>2. u[k] = ApplyNext(u[k - 1], b[k]) /\ v[k] = ApplyNext(v[k - 1], b[k])
      BY <1>1, <1>3 DEF ReplayTrace
  <2>3. Matches(u[k], v[k])
      BY <1>0, <2>1, <2>2, MatchesNext
  <2> QED BY <2>1, <2>3
<1> HIDE DEF good, n
<1>7. n \in good
    BY <1>4, <1>5, <1>6, CountUp
<1> QED
    BY <1>1, <1>3, <1>7 DEF good, n

(* A row that cannot be applied ends the replay. *)
LEMMA Stuck ==
    ASSUME NEW s0, NEW a, IsSequence(a), NEW b, IsSequence(b), ~ApplyAll(s0, a).ok
    PROVE  ~ApplyAll(s0, a \o b).ok
<1>1. PICK u : ReplayTrace(u, ApplyAll(s0, a), b) /\ ApplyAll(s0, a \o b) = u[Len(b)]
    BY ApplyConcat
<1> DEFINE n == Len(b)
           good == {k \in 0..n : ~u[k].ok}
<1>2. n \in Nat
    BY SequenceIs
<1>3. 0 \in good
    BY <1>1, <1>2 DEF ReplayTrace
<1>4. ASSUME NEW k \in 1..n, k - 1 \in good PROVE k \in good
  <2>1. ~u[k - 1].ok /\ k \in 0..n
      BY <1>2, <1>4
  <2>2. u[k] = ApplyNext(u[k - 1], b[k])
      BY <1>1 DEF ReplayTrace
  <2>3. ~u[k].ok
      BY <2>1, <2>2, NextIs DEF NextStep
  <2> QED BY <2>1, <2>3
<1> HIDE DEF good, n
<1>5. n \in good
    BY <1>2, <1>3, <1>4, CountUp
<1> QED
    BY <1>1, <1>5 DEF good, n

-----------------------------------------------------------------------------
(* What a handler logs, it can apply *)

LEMMA OneRow ==
    ASSUME NEW row
    PROVE  IsSequence(<<row>>) /\ Len(<<row>>) = 1 /\ <<row>>[1] = row
<1>1. PICK s : s = <<row>>
    OBVIOUS
<1>2. s \in Seq({row}) /\ Len(s) = 1 /\ s[1] = row
    BY <1>1
<1> QED
    BY <1>1, <1>2, SequenceAny

LEMMA TwoRows ==
    ASSUME NEW row, NEW next
    PROVE  /\ IsSequence(<<row, next>>) /\ Len(<<row, next>>) = 2
           /\ <<row, next>>[1] = row /\ <<row, next>>[2] = next
<1>1. PICK s : s = <<row, next>>
    OBVIOUS
<1>2. s \in Seq({row, next}) /\ Len(s) = 2 /\ s[1] = row /\ s[2] = next
    BY <1>1
<1> QED
    BY <1>1, <1>2, SequenceAny

LEMMA ApplyOne ==
    ASSUME NEW st, NEW row
    PROVE  ApplyAll(st, <<row>>) = ApplyNext([ok |-> TRUE, st |-> st], row)
<1>1. PICK rows : rows = <<row>>
    OBVIOUS
<1>2. IsSequence(rows) /\ Len(rows) = 1 /\ rows[1] = row
    BY <1>1, OneRow
<1>3. PICK tr : ReplayTrace(tr, [ok |-> TRUE, st |-> st], rows) /\ ApplyAll(st, rows) = tr[Len(rows)]
    BY <1>2, ApplyTrace
<1>4. tr[0] = [ok |-> TRUE, st |-> st] /\ tr[1] = ApplyNext(tr[1 - 1], rows[1]) /\ 1 - 1 = 0
    BY <1>2, <1>3 DEF ReplayTrace
<1> QED
    BY <1>1, <1>2, <1>3, <1>4

LEMMA ApplyTwo ==
    ASSUME NEW st, NEW row, NEW next
    PROVE  ApplyAll(st, <<row, next>>) = ApplyNext(ApplyNext([ok |-> TRUE, st |-> st], row), next)
<1>1. PICK rows : rows = <<row, next>>
    OBVIOUS
<1>2. IsSequence(rows) /\ Len(rows) = 2 /\ rows[1] = row /\ rows[2] = next
    BY <1>1, TwoRows
<1>3. PICK tr : ReplayTrace(tr, [ok |-> TRUE, st |-> st], rows) /\ ApplyAll(st, rows) = tr[Len(rows)]
    BY <1>2, ApplyTrace
<1>4. /\ tr[0] = [ok |-> TRUE, st |-> st] /\ tr[1] = ApplyNext(tr[1 - 1], rows[1]) /\ 1 - 1 = 0
      /\ tr[2] = ApplyNext(tr[2 - 1], rows[2]) /\ 2 - 1 = 1
    BY <1>2, <1>3 DEF ReplayTrace
<1> QED
    BY <1>1, <1>2, <1>3, <1>4

(* The handlers that spend the nonce in a row of its own. *)
TwoRowOps == {"profile", "api_create", "api_revoke"}
NonceOf(c) == [op |-> "nonce", account |-> c.account, nonce |-> c.nonce]

LEMMA RowsAre ==
    ASSUME NEW st, NEW c \in Commands, c.op \in Ops, NEW rows, rows = Rows(st, c)
    PROVE  /\ RowsOK(rows) /\ Len(rows) \in Nat \ {0}
           /\ rows[Len(rows)] = Row(st, c)
           /\ c.op \notin TwoRowOps => rows = <<Row(st, c)>>
           /\ c.op \in TwoRowOps => rows = <<Row(st, NonceOf(c)), Row(st, c)>>
<1>1. PICK row, first : row = Row(st, c) /\ first = Row(st, NonceOf(c))
    OBVIOUS
<1>2. RowOK(row)
  <2>1. row.command = c
      BY <1>1 DEF Row
  <2>2. c.op \in NonceOps => c.nonce \in Nat
      BY MenusAssumption
  <2> QED BY <2>1, <2>2 DEF RowOK
<1>3. CASE c.op \notin TwoRowOps
  <2>1. rows = <<row>>
      BY <1>1, <1>3 DEF Rows, TwoRowOps
  <2>2. IsSequence(rows) /\ Len(rows) = 1 /\ rows[1] = row
      BY <2>1, OneRow
  <2>3. \A i \in 1..1 : i = 1
      OBVIOUS
  <2>4. RowsOK(rows)
      BY <1>2, <2>2, <2>3 DEF RowsOK
  <2> QED BY <1>1, <1>3, <2>1, <2>2, <2>4
<1>4. CASE c.op \in TwoRowOps
  <2>1. rows = <<first, row>>
      BY <1>1, <1>4 DEF Rows, TwoRowOps, NonceOf
  <2>2. IsSequence(rows) /\ Len(rows) = 2 /\ rows[1] = first /\ rows[2] = row
      BY <2>1, TwoRows
  <2>3. RowOK(first)
    <3>1. first.command = NonceOf(c)
        BY <1>1 DEF Row
    <3>2. NonceOf(c).op = "nonce" /\ NonceOf(c).nonce = c.nonce
        BY DEF NonceOf
    <3>3. c.nonce \in Nat
        BY <1>4, MenusAssumption DEF TwoRowOps, NonceOps
    <3> QED BY <3>1, <3>2, <3>3 DEF RowOK
  <2>4. \A i \in 1..2 : i = 1 \/ i = 2
      OBVIOUS
  <2>5. RowsOK(rows)
      BY <1>2, <2>2, <2>3, <2>4 DEF RowsOK
  <2> QED BY <1>1, <1>4, <2>1, <2>2, <2>5
<1> QED
    BY <1>3, <1>4

AdmissibleAs(st, c) ==
    /\ c.op = "create_market" => SameKey(st.markets, c) = {}
    /\ c.op = "create_group" => CanCreateGroup(st, c)
    /\ c.op = "extend_group" => CanExtend(st, c)
    /\ c.op = "resolve" => Tradeable(st, c.market)
    /\ c.op = "attest" => AttestationAccepted(st, c)
    /\ c.op = "provision" => ReceiptFor(st, c) = {}
    /\ c.op = "public_account" => ~Registered(st, c.pubkey)
    /\ c.op = "create_account" => c.pubkey = NoKey \/ ~Registered(st, c.pubkey)
    /\ c.op = "fund" => c.account \in Accounts(st)
    /\ c.op = "profile" => FreshNonce(st, c)
    /\ c.op = "api_create" => CanCreateApiKey(st, c) /\ FreshNonce(st, c)
    /\ c.op = "api_revoke" => CanRevokeApiKey(st, c) /\ FreshNonce(st, c)
    /\ c.op = "first_key" => CanRegisterFirst(st, c)
    /\ c.op = "register_key" => KeyOpSigned(st, c) /\ CanRegisterAuthorized(st, c)
    /\ c.op = "revoke_key" => KeyOpSigned(st, c) /\ CanRevoke(st, c)
    /\ c.op = "mm_submit" => Active(st, c.account) = {} /\ FreshNonce(st, c)
    /\ c.op \in {"mm_replace", "mm_cancel"} => Targets(st, c, c.expected) /\ FreshNonce(st, c)

LEMMA Admits ==
    ASSUME NEW st, NEW c, Admissible(st, c)
    PROVE  AdmissibleAs(st, c)
BY Zenon DEF Admissible, AdmissibleAs

LEMMA RowFields ==
    ASSUME NEW st, NEW c, NEW row, row = Row(st, c)
    PROVE  /\ row.command = c /\ row.order_id = st.next_order_id
           /\ row.account = Len(st.accounts) + 1 /\ row.index = st.public
BY DEF Row

(* Applying repeats the checks that a handler made, but for the first key: its
   handler does not ask when the account was created. *)
LEMMA AdmittedApplies ==
    ASSUME NEW st, NEW c, c.op \in Ops \ TwoRowOps, Admissible(st, c),
           c.op = "first_key" => CreatedThisBlock(st, c.account),
           NEW row, row = Row(st, c)
    PROVE  Applicable(st, row)
<1>1. row.command = c /\ row.account = Len(st.accounts) + 1 /\ row.index = st.public
    BY RowFields
<1>2. AdmissibleAs(st, c)
    BY Admits
<1>3. ChecksAs(st, row, c)
    BY <1>1, Checks
<1>4. CASE c.op \in {"create_market", "create_group", "extend_group", "resolve", "attest",
                     "register_feed", "install_template"}
    BY <1>2, <1>3, <1>4, Zenon DEF AdmissibleAs, ChecksAs
<1>5. CASE c.op \in {"provision", "public_account", "create_account", "fund"}
    BY <1>1, <1>2, <1>3, <1>5, Zenon DEF AdmissibleAs, ChecksAs
<1>6. CASE c.op \in {"first_key", "register_key", "revoke_key"}
    BY <1>2, <1>3, <1>6, Zenon DEF AdmissibleAs, ChecksAs
<1>7. CASE c.op \in {"mm_submit", "mm_replace", "mm_cancel"}
    BY <1>2, <1>3, <1>7, Zenon DEF AdmissibleAs, ChecksAs
<1> QED
    BY <1>4, <1>5, <1>6, <1>7 DEF Ops, TwoRowOps

LEMMA AppliedNext ==
    ASSUME NEW st, NEW row, Applicable(st, row), NEW q,
           q = ApplyNext([ok |-> TRUE, st |-> st], row)
    PROVE  q = [ok |-> TRUE, st |-> Apply(st, row)]
<1>1. PICK r : r = [ok |-> TRUE, st |-> st]
    OBVIOUS
<1>2. r.ok = TRUE /\ r.st = st
    BY <1>1
<1> QED
    BY <1>1, <1>2 DEF ApplyNext

LEMMA SpentThenApplies ==
    ASSUME NEW st, Shape(st), NEW c, c.op \in TwoRowOps, Admissible(st, c),
           NEW first, first = Row(st, NonceOf(c)), NEW row, row = Row(st, c)
    PROVE  /\ Applicable(st, first)
           /\ Applicable(Apply(st, first), row)
<1>1. first.command = NonceOf(c) /\ row.command = c
    BY RowFields
<1>2. NonceOf(c).op = "nonce" /\ NonceOf(c).account = c.account /\ NonceOf(c).nonce = c.nonce
    BY DEF NonceOf
<1>3. AdmissibleAs(st, c)
    BY Admits
<1>4. FreshNonce(st, c)
    BY <1>3 DEF AdmissibleAs, TwoRowOps
<1>5. FreshNonce(st, NonceOf(c))
    BY <1>2, <1>4 DEF FreshNonce
<1>6. Applicable(st, first)
  <2>1. ChecksAs(st, first, NonceOf(c))
      BY <1>1, Checks
  <2> QED BY <1>2, <1>5, <2>1 DEF ChecksAs
<1>7. PICK t : t = Apply(st, first)
    OBVIOUS
<1>8. t = Advance(st, NonceOf(c))
  <2>1. AppliesAs(st, first, NonceOf(c))
      BY <1>1, Applies
  <2> QED BY <1>2, <1>7, <2>1 DEF AppliesAs
<1>9. c.account \in Accounts(st)
    BY <1>4 DEF FreshNonce
<1>10. NoncesAfter(st, NonceOf(c))
    BY <1>2, <1>9, NonceEffects
<1>11. Changes(st, t, c.account, {"last_nonce"})
    BY <1>2, <1>8, <1>10 DEF NoncesAfter
<1>12. Accounts(t) = Accounts(st)
    BY <1>9, <1>11, AccountsKept
<1>13. t.accounts[c.account].api_keys = st.accounts[c.account].api_keys
    BY <1>11 DEF Changes, AccountFields
<1>14. ChecksAs(t, row, c)
    BY <1>1, Checks
<1>15. CASE c.op = "profile"
    BY <1>7, <1>9, <1>12, <1>14, <1>15, <1>6 DEF ChecksAs
<1>16. CASE c.op = "api_create"
  <2>1. CanCreateApiKey(st, c)
      BY <1>3, <1>16 DEF AdmissibleAs
  <2>2. CanCreateApiKey(t, c)
      BY <2>1, <1>12, <1>13 DEF CanCreateApiKey
  <2> QED BY <1>6, <1>7, <1>14, <1>16, <2>2 DEF ChecksAs
<1>17. CASE c.op = "api_revoke"
  <2>1. CanRevokeApiKey(st, c)
      BY <1>3, <1>17 DEF AdmissibleAs
  <2>2. CanRevokeApiKey(t, c)
      BY <2>1, <1>12, <1>13 DEF CanRevokeApiKey
  <2> QED BY <1>6, <1>7, <1>14, <1>17, <2>2 DEF ChecksAs
<1> QED
    BY <1>15, <1>16, <1>17 DEF TwoRowOps

LEMMA AdmittedRowsApply ==
    ASSUME NEW st, Shape(st), NEW c \in Commands, c.op \in Ops, Admissible(st, c),
           c.op = "first_key" => CreatedThisBlock(st, c.account)
    PROVE  ApplyAll(st, Rows(st, c)).ok
<1>1. PICK rows, row, first :
         rows = Rows(st, c) /\ row = Row(st, c) /\ first = Row(st, NonceOf(c))
    OBVIOUS
<1>2. CASE c.op \notin TwoRowOps
  <2>1. rows = <<row>>
      BY <1>1, <1>2, RowsAre
  <2>2. Applicable(st, row)
      BY <1>1, <1>2, AdmittedApplies
  <2>3. ApplyAll(st, rows) = ApplyNext([ok |-> TRUE, st |-> st], row)
      BY <2>1, ApplyOne
  <2>4. ApplyAll(st, rows) = [ok |-> TRUE, st |-> Apply(st, row)]
      BY <2>2, <2>3, AppliedNext
  <2> QED BY <1>1, <2>4
<1>3. CASE c.op \in TwoRowOps
  <2>1. rows = <<first, row>>
      BY <1>1, <1>3, RowsAre
  <2>2. Applicable(st, first) /\ Applicable(Apply(st, first), row)
      BY <1>1, <1>3, SpentThenApplies
  <2>3. ApplyAll(st, rows) = ApplyNext(ApplyNext([ok |-> TRUE, st |-> st], first), row)
      BY <2>1, ApplyTwo
  <2>4. ApplyNext([ok |-> TRUE, st |-> st], first) = [ok |-> TRUE, st |-> Apply(st, first)]
      BY <2>2, AppliedNext
  <2>5. ApplyAll(st, rows) = [ok |-> TRUE, st |-> Apply(Apply(st, first), row)]
      BY <2>2, <2>3, <2>4, AppliedNext
  <2> QED BY <1>1, <2>5
<1> QED
    BY <1>2, <1>3

-----------------------------------------------------------------------------
(* Blocks and starts *)

(* The fields that a block or a restart may reset. *)
Passing == {"height", "events", "key_ops", "bundles", "index"}

LEMMA HashesSame ==
    ASSUME NEW s, HashesOwned(s), NEW t, t.accounts = s.accounts
    PROVE  HashesOwned(t)
BY DEF HashesOwned, Accounts

LEMMA BooksSame ==
    ASSUME NEW s, StateOK(s), NEW t, Keeps(s, t, Passing)
    PROVE  StateOK(t)
<1>1. Shape(s) /\ HashesOwned(s) /\ GroupsOK(s) /\ KeyedOnce(s) /\ ReceiptsOK(s)
    BY DEF StateOK
<1>2. /\ t.markets = s.markets /\ t.payouts = s.payouts /\ t.groups = s.groups
      /\ t.feeds = s.feeds /\ t.accounts = s.accounts /\ t.keys = s.keys
      /\ t.receipts = s.receipts /\ t.mm_receipts = s.mm_receipts /\ DOMAIN t = Fields
    BY DEF Keeps, Fields, Passing
<1>3. Shape(t)
  <2>1. DOMAIN s = DOMAIN EmptyState /\ DOMAIN s = Fields
      BY <1>1, FieldsOf DEF Shape
  <2>2. DOMAIN t = DOMAIN EmptyState
      BY <1>2, <2>1
  <2> QED BY <1>1, <1>2, <2>2 DEF Shape, GroupIds, Accounts
<1>4. HashesOwned(t)
    BY <1>1, <1>2, HashesSame
<1>5. GroupsOK(t)
    BY <1>1, <1>2, GroupsSame
<1>6. KeyedOnce(t)
    BY <1>1, <1>2 DEF KeyedOnce, Accounts
<1>7. ReceiptsOK(t)
    BY <1>1, <1>2 DEF ReceiptsOK, Accounts
<1> QED
    BY <1>3, <1>4, <1>5, <1>6, <1>7 DEF StateOK

LEMMA HoldsSame ==
    ASSUME NEW s, NEW t, Lengthens(s.markets, t.markets), t.payouts = s.payouts,
           t.groups = s.groups, t.feeds = s.feeds, t.receipts = s.receipts,
           t.accounts = s.accounts, t.mm_receipts = s.mm_receipts,
           NEW c, NEW reply, Holds(c, reply, s)
    PROVE  Holds(c, reply, t)
<1>1. MarketHolds(c, reply, s) => MarketHolds(c, reply, t)
    BY DEF Lengthens, MarketHolds
<1>2. GroupHolds(c, reply, s) => GroupHolds(c, reply, t)
    BY DEF GroupHolds, GroupIds, Resolved
<1>3. PayoutHolds(c, s) => PayoutHolds(c, t)
    BY DEF PayoutHolds
<1>4. FeedHolds(c, reply, s) => FeedHolds(c, reply, t)
    BY DEF FeedHolds
<1>5. ReceiptHolds(c, reply, s) => ReceiptHolds(c, reply, t)
    BY DEF ReceiptHolds
<1>6. Accounts(t) = Accounts(s)
    BY DEF Accounts
<1>7. ApiKeyHolds(c, reply, s) => ApiKeyHolds(c, reply, t)
    BY <1>6 DEF ApiKeyHolds
<1>8. ApiKeyEnded(c, s) => ApiKeyEnded(c, t)
    BY <1>6 DEF ApiKeyEnded
<1>9. MmHolds(c, reply, s) => MmHolds(c, reply, t)
    BY <1>6 DEF MmHolds
<1> QED
    BY <1>1, <1>2, <1>3, <1>4, <1>5, <1>6, <1>7, <1>8, <1>9, Zenon DEF Holds

LEMMA HoldsAcross ==
    ASSUME NEW s, NEW t, Keeps(s, t, Passing), NEW c, NEW reply, Holds(c, reply, s)
    PROVE  Holds(c, reply, t)
<1>1. /\ t.markets = s.markets /\ t.payouts = s.payouts /\ t.groups = s.groups
      /\ t.feeds = s.feeds /\ t.accounts = s.accounts /\ t.receipts = s.receipts
      /\ t.mm_receipts = s.mm_receipts
    BY DEF Keeps, Fields, Passing
<1>2. Lengthens(s.markets, t.markets)
    BY <1>1 DEF Lengthens
<1> QED
    BY <1>1, <1>2, HoldsSame

(* A block's groups are explained by no events at first. *)
LEMMA TracksSelf ==
    ASSUME NEW s, GroupsOK(s), s.events = {}
    PROVE  Tracks(s, s)
<1>1. ResolvedNow(s) = {} /\ \A g : Added(s, g) = {}
    BY DEF ResolvedNow, Added
<1>2. \A g \in GroupIds(s) : s.groups[g].markets = (s.groups[g].markets \cup {}) \ Resolved(s)
    BY DEF GroupsOK
<1> QED
    BY <1>1, <1>2 DEF Tracks

LEMMA TracksSame ==
    ASSUME NEW b, NEW s, Tracks(b, s), NEW t, t.groups = s.groups, t.payouts = s.payouts,
           t.events = s.events
    PROVE  Tracks(b, t)
<1>1. /\ Resolved(t) = Resolved(s) /\ ResolvedNow(t) = ResolvedNow(s) /\ GroupIds(t) = GroupIds(s)
      /\ \A g : Added(t, g) = Added(s, g)
    BY DEF Resolved, ResolvedNow, GroupIds, Added
<1>2. Dissolved(b, t) = Dissolved(b, s)
    BY <1>1 DEF Dissolved
<1> QED
    BY <1>1, <1>2 DEF Tracks

LEMMA ActiveSame ==
    ASSUME NEW s, NEW t, t.accounts = s.accounts
    PROVE  ActiveApiKeys(t) = ActiveApiKeys(s)
BY DEF ActiveApiKeys, Accounts

LEMMA SealedIs ==
    ASSUME NEW s, StateOK(s), NEW t, t = Sealed(s)
    PROVE  /\ Keeps(s, t, Passing) /\ StateOK(t)
           /\ t.index = s.index /\ t.accounts = s.accounts
           /\ t.height = s.height + 1 /\ t.bundles = {} /\ t.events = {}
<1>1. DOMAIN s = Fields
    BY FieldsOf DEF StateOK
<1>2. DOMAIN t = Fields
    BY <1>1 DEF Sealed, Fields
<1>3. /\ t.height = s.height + 1 /\ t.bundles = {} /\ t.events = {} /\ t.index = s.index
      /\ t.accounts = s.accounts
    BY <1>1 DEF Sealed, Fields
<1>4. \A f \in Fields \ Passing : t[f] = s[f]
    BY <1>1 DEF Sealed, Fields, Passing
<1>5. Keeps(s, t, Passing)
    BY <1>2, <1>4 DEF Keeps
<1> QED
    BY <1>3, <1>5, BooksSame

LEMMA ReindexedIs ==
    ASSUME NEW s, DOMAIN s = Fields, NEW i, NEW t, t = [s EXCEPT !.index = i]
    PROVE  /\ Keeps(s, t, {"index"}) /\ Agree(s, t) /\ t.index = i
<1>1. DOMAIN t = Fields /\ t.index = i
    BY DEF Fields
<1>2. \A f \in Fields \ {"index"} : t[f] = s[f]
    OBVIOUS
<1> QED
    BY <1>1, <1>2 DEF Keeps, Agree

LEMMA SeedNext ==
    ASSUME NEW s, StateOK(s), NEW name, NEW t, t = SeedMarket(s, name)
    PROVE  /\ Onward(s, t)
           /\ \/ t = s
              \/ \E row : MakesMarket(s, row.command, t) /\ row.command.key = NoKey
<1>1. CASE \E i \in 1..Len(s.markets) : s.markets[i].name = name
  <2>1. t = s
      BY <1>1 DEF SeedMarket
  <2> QED BY <2>1, OnwardSelf
<1>2. CASE ~ \E i \in 1..Len(s.markets) : s.markets[i].name = name
  <2>0. Shape(s) /\ HashesOwned(s) /\ GroupsOK(s) /\ KeyedOnce(s) /\ ReceiptsOK(s)
      BY DEF StateOK
  <2>1. PICK c : c = [op |-> "create_market", name |-> name, key |-> NoKey, template |-> Admin]
      OBVIOUS
  <2>2. c.op = "create_market" /\ c.name = name /\ c.key = NoKey /\ c.template = Admin
      BY <2>1
  <2>3. t = CreateMarket(s, c)
      BY <1>2, <2>2 DEF SeedMarket, CreateMarket
  <2>4. MarketsAfter(s, c)
      BY <2>0, MarketEffects
  <2>5. MakesMarket(s, c, t)
    <3>1. SameKey(s.markets, c) = {}
        BY <2>2 DEF SameKey
    <3> QED BY <2>2, <2>3, <2>4, <3>1 DEF MakesMarket, MarketsAfter
  <2>6. PICK row : row = [command |-> c]
      OBVIOUS
  <2>7. row.command = c
      BY <2>6
  <2>8. Effect(s, row, t)
      BY <2>5, <2>7 DEF Effect
  <2>9. /\ t.groups = s.groups /\ t.payouts = s.payouts /\ t.feeds = s.feeds
        /\ t.accounts = s.accounts /\ t.keys = s.keys /\ t.index = s.index /\ DOMAIN t = Fields
      BY <2>5 DEF MakesMarket, Keeps, Fields
  <2>10. IsSequence(t.markets)
    <3>1. PICK e : e = [name |-> c.name, key |-> c.key, template |-> c.template]
        OBVIOUS
    <3>2. IsSequence(s.markets) /\ t.markets = Append(s.markets, e)
        BY <2>0, <2>5, <3>1 DEF Shape, MakesMarket
    <3>3. Longer(s.markets, e, t.markets)
        BY <3>2, AppendAny
    <3> QED BY <3>3 DEF Longer
  <2>11. Shape(t)
    <3>1. DOMAIN s = DOMAIN EmptyState /\ DOMAIN s = Fields
        BY <2>0, FieldsOf DEF Shape
    <3>2. DOMAIN t = DOMAIN EmptyState
        BY <2>9, <3>1
    <3> QED BY <2>0, <2>9, <2>10, <3>2 DEF Shape, GroupIds, Accounts
  <2>12. HashesOwned(t)
      BY <2>0, <2>9, HashesSame
  <2>13. GroupsOK(t)
      BY <2>0, <2>9, GroupsSame
  <2>14. KeyedOnce(t)
      BY <2>0, <2>8, <2>11, KeyedKept
  <2>15. IndexOK(s) => IndexOK(t)
      BY <2>9, ActiveSame DEF IndexOK
  <2>16. \A s0 : Since(s0, s) => Since(s0, t)
      BY <2>0, <2>8, SinceKept
  <2>17. IsRecord(t)
      BY <2>3 DEF IsRecord, CreateMarket
  <2>c. CountersUp(s, t)
      BY <2>0, <2>9, CountersSame
  <2>r. ReceiptsOK(t)
    <3>1. t.mm_receipts = s.mm_receipts
        BY <2>5 DEF MakesMarket, Keeps, Fields
    <3> QED BY <2>0, <2>11, <2>c, <3>1, ReceiptsSame
  <2>t. \A b : Shape(b) /\ Tracks(b, s) => Tracks(b, t)
      BY <2>0, <2>8, <2>11, TracksKept
  <2>h. \A d \in Commands : \A reply : HoldsOn(d, reply, s, t)
    <3>1. Lengthens(s.markets, t.markets)
        BY <2>0, <2>8, ListsGrow
    <3>2. t.receipts = s.receipts /\ t.mm_receipts = s.mm_receipts
        BY <2>5 DEF MakesMarket, Keeps, Fields
    <3> QED BY <2>9, <3>1, <3>2, HoldsSame DEF HoldsOn
  <2>o. StateOK(t)
      BY <2>11, <2>12, <2>13, <2>14, <2>r DEF StateOK
  <2>18. Onward(s, t)
      BY <2>15, <2>16, <2>17, <2>c, <2>t, <2>h, <2>o DEF Onward
  <2> QED BY <2>2, <2>5, <2>7, <2>18
<1> QED
    BY <1>1, <1>2

(* The markets of a configuration are added one after the other. *)
SeedTrace(tr, st, names) ==
    /\ tr[0] = st
    /\ \A k \in 1..Len(names) : tr[k] = SeedMarket(tr[k - 1], names[k])

LEMMA SeededTrace ==
    ASSUME NEW st, NEW names, IsSequence(names)
    PROVE  \E tr : SeedTrace(tr, st, names) /\ Seed(st, names) = tr[Len(names)]
<1> DEFINE n == Len(names)
<1>1. Seed(st, names) = Seeded!Folded(0, st, names)
    BY DEF Seed, FoldLeft, MapThenFoldSet, Seeded!Folded, Seeded!Iter, Seeded!IsIter,
           Seeded!Greatest, Max, Seeding
<1>2. n \in Nat /\ DOMAIN names = 1..n
    BY SequenceIs
<1> HIDE DEF n
<1>3. PICK tr : Seeded!Trace(tr, 0, st, names, n)
    BY <1>2, Seeded!FoldedTrace
<1>4. SeedTrace(tr, st, names) /\ Seed(st, names) = tr[n]
    BY <1>1, <1>3 DEF Seeded!Trace, Seeding, SeedTrace, n
<1> QED
    BY <1>4 DEF n

LEMMA SeedOnward ==
    ASSUME NEW st, StateOK(st), NEW names, IsSequence(names)
    PROVE  Onward(st, Seed(st, names))
<1>1. PICK tr : SeedTrace(tr, st, names) /\ Seed(st, names) = tr[Len(names)]
    BY SeededTrace
<1> DEFINE n == Len(names)
           good == {k \in 0..n : Onward(st, tr[k])}
<1>2. n \in Nat
    BY SequenceIs
<1>3. 0 \in good
    BY <1>1, <1>2, OnwardSelf DEF SeedTrace
<1>4. ASSUME NEW k \in 1..n, k - 1 \in good PROVE k \in good
  <2>1. Onward(st, tr[k - 1]) /\ k \in 0..n
      BY <1>2, <1>4
  <2>2. tr[k] = SeedMarket(tr[k - 1], names[k])
      BY <1>1 DEF SeedTrace
  <2>3. StateOK(tr[k - 1])
      BY <2>1 DEF Onward
  <2>4. Onward(tr[k - 1], tr[k])
      BY <2>2, <2>3, SeedNext
  <2>5. Onward(st, tr[k])
      BY <2>1, <2>4, OnwardTwice
  <2> QED BY <2>1, <2>5
<1> HIDE DEF good, n
<1>5. n \in good
    BY <1>2, <1>3, <1>4, CountUp
<1> QED
    BY <1>1, <1>5 DEF good, n

LEMMA EmptyOK == StateOK(EmptyState) /\ IndexOK(EmptyState) /\ Accounts(EmptyState) = {}
<1>1. PICK e : e = EmptyState
    OBVIOUS
<1>2. /\ e.markets = <<>> /\ e.groups = <<>> /\ e.feeds = <<>> /\ e.accounts = <<>>
      /\ e.keys = {} /\ e.payouts = {} /\ e.receipts = {} /\ e.mm_receipts = {} /\ e.index = {}
    BY <1>1 DEF EmptyState
<1>3. IsSequence(<<>>) /\ Len(<<>>) = 0 /\ 1..0 = {}
    BY EmptySequence
<1>4. Accounts(e) = {} /\ GroupIds(e) = {} /\ 1..Len(e.markets) = {} /\ 1..Len(e.groups) = {}
    BY <1>2, <1>3 DEF Accounts, GroupIds
<1>5. Shape(e)
    BY <1>1, <1>2, <1>3, <1>4 DEF Shape
<1>6. HashesOwned(e)
    BY <1>4 DEF HashesOwned
<1>7. GroupsOK(e)
    BY <1>4 DEF GroupsOK
<1>8. KeyedOnce(e) /\ ReceiptsOK(e)
    BY <1>2, <1>4 DEF KeyedOnce, ReceiptsOK
<1>9. ActiveApiKeys(e) = {}
    BY <1>4 DEF ActiveApiKeys
<1> QED
    BY <1>1, <1>2, <1>4, <1>5, <1>6, <1>7, <1>8, <1>9 DEF StateOK, IndexOK

LEMMA GenesisOnward ==
    ASSUME NEW s, StateOK(s), IndexOK(s), NEW c \in Commands, c.op \in Ops \cup {"nonce"},
           NEW t, t = GenesisNext(s, c)
    PROVE  StateOK(t) /\ IndexOK(t)
<1>1. PICK row : row = Row(s, c)
    OBVIOUS
<1>2. row.command = c
    BY <1>1, RowFields
<1>3. RowOK(row)
    BY <1>2, MenusAssumption DEF RowOK
<1>4. CASE Applicable(s, row)
  <2>1. t = Apply(s, row)
      BY <1>1, <1>4 DEF GenesisNext
  <2>2. Effect(s, row, t)
      BY <1>2, <1>4, <2>1, EffectOf DEF StateOK
  <2>3. IsRecord(s) => IsRecord(t)
      BY <1>2, <2>1, ApplyIsRecord
  <2> QED BY <1>3, <2>2, <2>3, EffectOnward DEF Onward
<1>5. CASE ~Applicable(s, row)
    BY <1>1, <1>5 DEF GenesisNext
<1> QED
    BY <1>4, <1>5

LEMMA GenesisOK ==
    ASSUME NEW m \in Menus
    PROVE  /\ StateOK(Genesis(m.start)) /\ IndexOK(Genesis(m.start))
           /\ IsRecord(Genesis(m.start))
           /\ Genesis(m.start).events = {} /\ Genesis(m.start).bundles = {}
<1> DEFINE cs == m.start
           n == Len(cs)
<1>1. cs \in Seq(Commands) /\ \A c \in Range(cs) : c.op \in Ops \cup {"nonce"}
    BY MenusAssumption
<1>2. n \in Nat /\ DOMAIN cs = 1..n /\ \A k \in 1..n : cs[k] \in Commands /\ cs[k] \in Range(cs)
    BY <1>1 DEF Range
<1>3. FoldLeft(GenesisNext, EmptyState, cs) = Begun!Folded(0, EmptyState, cs)
    BY DEF FoldLeft, MapThenFoldSet, Begun!Folded, Begun!Iter, Begun!IsIter,
           Begun!Greatest, Max, Beginning
<1> HIDE DEF n, cs
<1>4. PICK tr : Begun!Trace(tr, 0, EmptyState, cs, n)
    BY <1>2, Begun!FoldedTrace
<1> DEFINE good == {k \in 0..n : StateOK(tr[k]) /\ IndexOK(tr[k])}
<1>5. 0 \in good
    BY <1>2, <1>4, EmptyOK DEF Begun!Trace
<1>6. ASSUME NEW k \in 1..n, k - 1 \in good PROVE k \in good
  <2>1. StateOK(tr[k - 1]) /\ IndexOK(tr[k - 1]) /\ k \in 0..n
      BY <1>2, <1>6
  <2>2. tr[k] = GenesisNext(tr[k - 1], cs[k])
      BY <1>4 DEF Begun!Trace, Beginning
  <2>3. cs[k] \in Commands /\ cs[k].op \in Ops \cup {"nonce"}
      BY <1>1, <1>2
  <2>4. StateOK(tr[k]) /\ IndexOK(tr[k])
      BY <2>1, <2>2, <2>3, GenesisOnward
  <2> QED BY <2>1, <2>4
<1> HIDE DEF good
<1>7. n \in good
    BY <1>2, <1>5, <1>6, CountUp
<1>8. StateOK(tr[n]) /\ IndexOK(tr[n])
    BY <1>7 DEF good
<1>9. PICK g : g = Genesis(cs)
    OBVIOUS
<1>10. g = Sealed(tr[n])
    BY <1>3, <1>4, <1>9 DEF Begun!Trace, Genesis
<1>11. /\ StateOK(g) /\ g.index = tr[n].index /\ g.accounts = tr[n].accounts
       /\ g.events = {} /\ g.bundles = {}
    BY <1>8, <1>10, SealedIs
<1>12. IndexOK(g)
    BY <1>8, <1>11, ActiveSame DEF IndexOK
<1>13. IsRecord(g)
    BY <1>10 DEF IsRecord, Sealed
<1> QED
    BY <1>9, <1>11, <1>12, <1>13 DEF cs

IsAnswer(r) == r.ok \in BOOLEAN /\ r = [ok |-> r.ok, st |-> r.st]

LEMMA AnswerOf ==
    ASSUME NEW st, NEW rows, IsSequence(rows)
    PROVE  IsAnswer(ApplyAll(st, rows))
<1>1. PICK base : base = [ok |-> TRUE, st |-> st]
    OBVIOUS
<1>2. PICK tr : ReplayTrace(tr, base, rows) /\ ApplyAll(st, rows) = tr[Len(rows)]
    BY <1>1, ApplyTrace
<1>3. Len(rows) \in Nat
    BY SequenceIs
<1>4. CASE Len(rows) = 0
  <2>1. ApplyAll(st, rows) = base
      BY <1>2, <1>4 DEF ReplayTrace
  <2>2. IsAnswer(base)
      BY <1>1 DEF IsAnswer
  <2> QED BY <2>1, <2>2
<1>5. CASE Len(rows) # 0
  <2>1. Len(rows) \in 1..Len(rows)
      BY <1>3, <1>5
  <2>2. PICK q : q = tr[Len(rows)]
      OBVIOUS
  <2>3. q = ApplyNext(tr[Len(rows) - 1], rows[Len(rows)])
      BY <1>2, <2>1, <2>2 DEF ReplayTrace
  <2>4. IsAnswer(q)
      BY <2>3 DEF ApplyNext, IsAnswer
  <2> QED BY <1>2, <2>2, <2>4
<1> QED
    BY <1>4, <1>5

-----------------------------------------------------------------------------
(* The invariant, action by action *)

LEMMA InitControl == Init => ControlInv
<1> SUFFICES ASSUME Init PROVE ControlInv
    OBVIOUS
<1>1. PICK m \in Menus : menu = m.commands /\ live = Genesis(m.start)
    BY DEF Init
<1>2. snapshot = live /\ log = <<>> /\ requests = {}
    BY DEF Init
<1>3. ClientsOK
  <2>1. ASSUME NEW c \in m.commands PROVE c \in Commands
    <3>1. c \in m.commands \cup Range(m.start)
        OBVIOUS
    <3> QED BY <3>1, Zenon DEF Commands
  <2>2. \A c \in m.commands : c.op \in Ops
      BY MenusAssumption
  <2> QED BY <1>1, <1>2, <2>1, <2>2 DEF ClientsOK
<1>4. /\ StateOK(live) /\ IndexOK(live) /\ IsRecord(live)
      /\ live.events = {} /\ live.bundles = {}
    BY <1>1, GenesisOK
<1>t. Tracks(live, live)
    BY <1>4, TracksSelf DEF StateOK
<1>5. RowsOK(log)
    BY <1>2, EmptySequence DEF RowsOK
<1>6. Since(snapshot, live)
    BY <1>2 DEF Since
<1>7. StatesOK
    BY <1>2, <1>4, <1>5, <1>6, <1>t DEF StatesOK
<1>8. DOMAIN snapshot = Fields
    BY <1>2, <1>4, FieldsOf DEF StateOK
<1>9. PICK s0 : s0 = [snapshot EXCEPT !.index = {}]
    OBVIOUS
<1>10. Agree(snapshot, s0)
    BY <1>8, <1>9, ReindexedIs
<1>11. Replayed = [ok |-> TRUE, st |-> s0]
    BY <1>2, <1>9, ApplyNone DEF Replayed
<1>12. Replayed.ok = TRUE /\ Replayed.st = s0
    BY <1>11
<1>13. ReplayOK
    BY <1>2, <1>10, <1>12 DEF ReplayOK, Agree
<1> QED
    BY <1>3, <1>7, <1>13 DEF ControlInv

(* The log after a handler's rows, and what it replays to. *)
LEMMA RowsLogged ==
    ASSUME NEW rows, RowsOK(rows), RowsOK(log), log' = log \o rows
    PROVE  RowsOK(log') /\ Joined(log, rows, log')
<1>1. IsSequence(log) /\ IsSequence(rows)
    BY DEF RowsOK
<1>2. Joined(log, rows, log')
    BY <1>1, ConcatAny
<1>3. \A i \in 1..Len(log') : \/ i \in 1..Len(log) /\ log'[i] = log[i]
                              \/ i - Len(log) \in 1..Len(rows) /\ log'[i] = rows[i - Len(log)]
  <2> TAKE i \in 1..Len(log')
  <2>1. CASE i <= Len(log)
      BY <1>2, <2>1 DEF Joined
  <2>2. CASE ~(i <= Len(log))
    <3>1. PICK j : j = i - Len(log)
        OBVIOUS
    <3>2. j \in 1..Len(rows) /\ Len(log) + j = i
        BY <1>2, <2>2, <3>1 DEF Joined
    <3>3. log'[Len(log) + j] = rows[j]
        BY <1>2, <3>2 DEF Joined
    <3> QED BY <3>1, <3>2, <3>3
  <2> QED BY <2>1, <2>2
<1>4. \A i \in 1..Len(log') : RowOK(log'[i])
    BY <1>3 DEF RowsOK
<1> QED
    BY <1>2, <1>4 DEF RowsOK, Joined

LEMMA StillPoisoned ==
    ASSUME NEW rows, Joined(log, rows, log'), snapshot' = snapshot, ~Poisoned'
    PROVE  /\ ~Poisoned
           /\ \A i \in 1..Len(rows) : ~(/\ rows[i].command.op = "first_key"
                                        /\ rows[i].command.account \in Accounts(snapshot)
                                        /\ snapshot.height # 0)
<1>1. \A i \in 1..Len(log') : ~(/\ log'[i].command.op = "first_key"
                                /\ log'[i].command.account \in Accounts(snapshot)
                                /\ snapshot.height # 0)
    BY DEF Poisoned
<1>2. \A i \in 1..Len(log) : i \in 1..Len(log') /\ log'[i] = log[i]
    BY DEF Joined
<1>3. \A i \in 1..Len(rows) : Len(log) + i \in 1..Len(log') /\ log'[Len(log) + i] = rows[i]
    BY DEF Joined
<1>4. ~Poisoned
    BY <1>1, <1>2 DEF Poisoned
<1> QED
    BY <1>1, <1>3, <1>4

LEMMA HandleControl ==
    ASSUME ControlInv, NEW c \in menu, Handle(c), \A r \in requests' : r.command \in menu
    PROVE  ControlInv'
<1>1. c \in Commands /\ c.op \in Ops
    BY DEF ControlInv, ClientsOK
<1>2. mode = "up" /\ Admissible(live, c)
    BY DEF Handle, Submittable, Room
<1>3. PICK rows : rows = Rows(live, c)
    OBVIOUS
<1>4. PICK r : r = ApplyAll(live, rows)
    OBVIOUS
<1>5. log' = log \o rows /\ live' = r.st
    BY <1>3, <1>4 DEF Handle
<1>6. menu' = menu /\ snapshot' = snapshot /\ mode' = mode /\ unlogged' = unlogged
    BY DEF Handle
<1>7. RowsOK(rows) /\ Len(rows) \in Nat \ {0} /\ rows[Len(rows)] = Row(live, c)
    BY <1>1, <1>3, RowsAre
<1>8. /\ IsRecord(live) /\ StateOK(live) /\ IndexOK(live) /\ Since(snapshot, live)
      /\ RowsOK(log) /\ IsRecord(snapshot) /\ StateOK(snapshot)
      /\ snapshot.events = {} /\ snapshot.bundles = {} /\ Tracks(snapshot, live)
    BY <1>2 DEF ControlInv, StatesOK
<1>9. Onward(live, live')
    BY <1>4, <1>5, <1>7, <1>8, ReplayOnward
<1>10. RowsOK(log') /\ Joined(log, rows, log')
    BY <1>5, <1>7, <1>8, RowsLogged
<1>11. ClientsOK'
    BY <1>6 DEF ControlInv, ClientsOK
<1>t. Tracks(snapshot, live')
    BY <1>8, <1>9 DEF Onward, StateOK
<1>12. StatesOK'
    BY <1>6, <1>8, <1>9, <1>10, <1>t DEF StatesOK, Onward
<1>13. ASSUME unlogged = "none"
       PROVE  /\ Replayed'.ok => Agree(Replayed'.st, live')
              /\ ~Poisoned' => Replayed'.ok
  <2>1. PICK s0 : s0 = [snapshot EXCEPT !.index = {}]
      OBVIOUS
  <2>2. PICK q : q = ApplyAll(s0, log)
      OBVIOUS
  <2>3. (q.ok => Agree(q.st, live)) /\ (~Poisoned => q.ok)
      BY <1>2, <1>13, <2>1, <2>2 DEF ControlInv, ReplayOK, Replayed
  <2>4. Replayed' = ApplyAll(s0, log \o rows)
      BY <1>5, <1>6, <2>1 DEF Replayed
  <2>5. IsSequence(log) /\ IsSequence(rows)
      BY <1>7, <1>8 DEF RowsOK
  <2>6. CASE q.ok
    <3>1. PICK p : p = [ok |-> TRUE, st |-> live]
        OBVIOUS
    <3>2. Matches(q, p)
      <4>1. p.ok = TRUE /\ p.st = live
          BY <3>1
      <4>2. q.ok = TRUE
        <5>1. q.ok \in BOOLEAN
            BY <2>2, <2>5, AnswerOf DEF IsAnswer
        <5> QED BY <2>6, <5>1
      <4> QED BY <2>3, <2>6, <4>1, <4>2 DEF Matches
    <3>3. Matches(Replayed', r)
        BY <1>4, <1>7, <2>2, <2>4, <2>5, <3>1, <3>2, Lockstep
    <3>4. Replayed'.ok = r.ok /\ Agree(Replayed'.st, live')
        BY <1>5, <3>3 DEF Matches
    <3>5. ASSUME ~Poisoned' PROVE r.ok
      <4>1. \A i \in 1..Len(rows) : ~(/\ rows[i].command.op = "first_key"
                                      /\ rows[i].command.account \in Accounts(snapshot)
                                      /\ snapshot.height # 0)
          BY <1>6, <1>10, <3>5, StillPoisoned
      <4>2. rows[Len(rows)].command = c
          BY <1>7, RowFields
      <4>3. Len(rows) \in 1..Len(rows)
          BY <1>7
      <4>4. ~(c.op = "first_key" /\ c.account \in Accounts(snapshot) /\ snapshot.height # 0)
          BY <4>1, <4>2, <4>3
      <4>5. c.op = "first_key" => c.account \in Accounts(live)
        <5>1. AdmissibleAs(live, c)
            BY <1>2, Admits
        <5> QED BY <5>1 DEF AdmissibleAs, CanRegisterFirst, CanRegister
      <4>6. c.op = "first_key" => CreatedThisBlock(live, c.account)
          BY <1>8, <4>4, <4>5 DEF Since, CreatedThisBlock
      <4>7. Shape(live)
          BY <1>8 DEF StateOK
      <4> QED BY <1>1, <1>2, <1>3, <1>4, <4>6, <4>7, AdmittedRowsApply
    <3> QED BY <3>4, <3>5
  <2>7. CASE ~q.ok
    <3>1. ~Replayed'.ok
        BY <2>2, <2>4, <2>5, <2>7, Stuck
    <3>2. Poisoned'
        BY <1>6, <1>10, <2>3, <2>7, StillPoisoned
    <3> QED BY <3>1, <3>2
  <2> QED BY <2>6, <2>7
<1>14. ReplayOK'
    BY <1>6, <1>13 DEF ReplayOK
<1> QED
    BY <1>11, <1>12, <1>14 DEF ControlInv

LEMMA StillControl ==
    ASSUME ControlInv, UNCHANGED <<menu, live, snapshot, log, mode, unlogged>>,
           \A r \in requests' : r.command \in menu
    PROVE  ControlInv'
<1>1. ClientsOK'
    BY DEF ControlInv, ClientsOK
<1>2. StatesOK'
    BY DEF ControlInv, StatesOK
<1>3. Replayed' = Replayed /\ (Poisoned' <=> Poisoned)
    BY DEF Replayed, Poisoned
<1>4. ReplayOK'
    BY <1>3 DEF ControlInv, ReplayOK
<1> QED
    BY <1>1, <1>2, <1>4 DEF ControlInv

(* A request keeps its command through its stages. *)
LEMMA StagedRequests ==
    ASSUME ControlInv, NEW r \in requests, NEW stage, Stage(r, stage)
    PROVE  \A q \in requests' : q.command \in menu
<1>1. \A q \in requests : q.command \in menu
    BY DEF ControlInv, ClientsOK
<1>2. requests' = (requests \ {r}) \cup {[r EXCEPT !.stage = stage]}
    BY DEF Stage
<1>3. [r EXCEPT !.stage = stage].command = r.command
    OBVIOUS
<1> QED
    BY <1>1, <1>2, <1>3

LEMMA SealControl == ASSUME ControlInv, SealBlock PROVE ControlInv'
<1>1. mode = "up" /\ mode' = mode /\ menu' = menu /\ requests' = requests
    BY DEF SealBlock, viewVars
<1>2. PICK t : t = Sealed(live)
    OBVIOUS
<1>3. live' = t /\ snapshot' = t /\ log' = <<>>
    BY <1>2 DEF SealBlock
<1>4. StateOK(live) /\ IndexOK(live)
    BY <1>1 DEF ControlInv, StatesOK
<1>5. /\ StateOK(t) /\ t.index = live.index /\ t.accounts = live.accounts
      /\ t.events = {} /\ t.bundles = {}
    BY <1>2, <1>4, SealedIs
<1>t. Tracks(t, t)
    BY <1>5, TracksSelf DEF StateOK
<1>6. IndexOK(t)
    BY <1>4, <1>5, ActiveSame DEF IndexOK
<1>7. Since(t, t)
    BY DEF Since
<1>8. RowsOK(<<>>)
    BY EmptySequence DEF RowsOK
<1>r. IsRecord(t)
    BY <1>2 DEF IsRecord, Sealed
<1>9. StatesOK'
    BY <1>3, <1>5, <1>6, <1>7, <1>8, <1>r, <1>t DEF StatesOK
<1>10. ClientsOK'
    BY <1>1 DEF ControlInv, ClientsOK
<1>11. DOMAIN t = Fields
    BY <1>5, FieldsOf DEF StateOK
<1>12. PICK s0 : s0 = [t EXCEPT !.index = {}]
    OBVIOUS
<1>13. Agree(s0, t)
    BY <1>11, <1>12, ReindexedIs DEF Agree
<1>14. Replayed' = [ok |-> TRUE, st |-> s0]
    BY <1>3, <1>12, ApplyNone DEF Replayed
<1>15. Replayed'.ok = TRUE /\ Replayed'.st = s0
    BY <1>14
<1>16. ReplayOK'
    BY <1>3, <1>13, <1>15 DEF ReplayOK
<1> QED
    BY <1>9, <1>10, <1>16 DEF ControlInv

LEMMA DownControl ==
    ASSUME ControlInv, Down, RowsOK(log')
    PROVE  ControlInv'
<1>1. mode' = "down" /\ menu' = menu /\ snapshot' = snapshot
    BY DEF Down
<1>2. \A r \in requests' : r.command \in menu
  <2>1. \A r \in requests : r.command \in menu
      BY DEF ControlInv, ClientsOK
  <2>2. requests' = {IF r.stage = "sent" THEN [r EXCEPT !.stage = "failed"] ELSE r : r \in requests}
      BY DEF Down
  <2>3. \A r \in requests : [r EXCEPT !.stage = "failed"].command = r.command
      OBVIOUS
  <2> QED BY <2>1, <2>2, <2>3
<1>3. ClientsOK'
    BY <1>1, <1>2 DEF ControlInv, ClientsOK
<1>4. StatesOK'
    BY <1>1 DEF ControlInv, StatesOK
<1>5. ReplayOK'
    BY <1>1 DEF ReplayOK
<1> QED
    BY <1>3, <1>4, <1>5 DEF ControlInv

LEMMA PrefixOK ==
    ASSUME NEW rows, RowsOK(rows), NEW n \in 1..Len(rows), NEW some, some = SubSeq(rows, 1, n)
    PROVE  RowsOK(some)
<1>1. Len(rows) \in Nat /\ rows \in Seq(Range(rows))
    BY SequenceIs DEF RowsOK, IsSequence
<1>2. some \in Seq(Range(rows)) /\ Len(some) = n /\ \A i \in 1..n : some[i] = rows[i]
    BY <1>1
<1>3. \A i \in 1..n : i \in 1..Len(rows)
    BY <1>1
<1> QED
    BY <1>2, <1>3, SequenceAny DEF RowsOK

(* The state that a restart gets from the log. *)
Restored(st) == /\ st = RebuildApiKeyIndex(Replayed.st)
                /\ IsRecord(st) /\ StateOK(st) /\ IndexOK(st) /\ Since(snapshot, st)
                /\ Tracks(snapshot, st) /\ Agree(Replayed.st, st)

LEMMA ReplayGives ==
    ASSUME StatesOK
    PROVE  /\ Replay(snapshot, log).ok = Replayed.ok
           /\ Restored(Replay(snapshot, log).st)
<1>1. PICK q : q = Replayed
    OBVIOUS
<1>2. PICK r : r = Replay(snapshot, log)
    OBVIOUS
<1>3. IsSequence(log) /\ RowsOK(log)
    BY DEF StatesOK, RowsOK
<1>4. IsAnswer(q)
    BY <1>1, <1>3, AnswerOf DEF Replayed
<1>5. r = [q EXCEPT !.st = RebuildApiKeyIndex(@)]
    BY <1>1, <1>2 DEF Replay, Replayed
<1>6. r.ok = q.ok /\ r.st = RebuildApiKeyIndex(q.st)
    BY <1>4, <1>5 DEF IsAnswer
<1>7. DOMAIN snapshot = Fields
    BY FieldsOf DEF StatesOK, StateOK
<1>8. PICK s0 : s0 = [snapshot EXCEPT !.index = {}]
    OBVIOUS
<1>9. Keeps(snapshot, s0, {"index"})
    BY <1>7, <1>8, ReindexedIs
<1>10. Keeps(snapshot, s0, Passing)
    BY <1>9 DEF Keeps, Passing
<1>11. StateOK(s0)
    BY <1>10, BooksSame DEF StatesOK
<1>12. Onward(s0, q.st)
    BY <1>1, <1>3, <1>8, <1>11, ReplayOnward DEF Replayed
<1>13. Since(s0, s0) /\ s0.height = snapshot.height /\ s0.accounts = snapshot.accounts
    BY <1>9 DEF Since, Keeps, Fields
<1>14. Since(snapshot, q.st) /\ StateOK(q.st)
  <2>1. Since(s0, q.st) /\ StateOK(q.st)
      BY <1>12, <1>13 DEF Onward
  <2> QED BY <1>13, <2>1 DEF Since, Accounts
<1>15. DOMAIN q.st = Fields
    BY <1>14, FieldsOf DEF StateOK
<1>16. r.st = [q.st EXCEPT !.index = ActiveApiKeys(q.st)]
    BY <1>6 DEF RebuildApiKeyIndex
<1>17. Keeps(q.st, r.st, {"index"}) /\ Agree(q.st, r.st) /\ r.st.index = ActiveApiKeys(q.st)
    BY <1>15, <1>16, ReindexedIs
<1>18. Keeps(q.st, r.st, Passing)
    BY <1>17 DEF Keeps, Passing
<1>19. StateOK(r.st)
    BY <1>14, <1>18, BooksSame
<1>20. /\ r.st.accounts = q.st.accounts /\ r.st.height = q.st.height /\ r.st.events = q.st.events
    BY <1>17, AgreeFields
<1>21. IndexOK(r.st)
    BY <1>17, <1>20, ActiveSame DEF IndexOK
<1>22. Since(snapshot, r.st)
    BY <1>14, <1>20 DEF Since, Accounts
<1>23. IsRecord(r.st)
    BY <1>16 DEF IsRecord
<1>t. Tracks(snapshot, r.st)
  <2>1. Tracks(snapshot, snapshot)
      BY TracksSelf DEF StatesOK, StateOK
  <2>2. s0.groups = snapshot.groups /\ s0.payouts = snapshot.payouts /\ s0.events = snapshot.events
      BY <1>9 DEF Keeps, Fields
  <2>3. Tracks(snapshot, s0)
      BY <2>1, <2>2, TracksSame
  <2>4. Tracks(snapshot, q.st)
      BY <1>12, <2>3 DEF Onward, StatesOK, StateOK
  <2>5. r.st.groups = q.st.groups /\ r.st.payouts = q.st.payouts /\ r.st.events = q.st.events
      BY <1>17, AgreeFields
  <2> QED BY <2>4, <2>5, TracksSame
<1>24. Restored(r.st)
    BY <1>1, <1>6, <1>17, <1>19, <1>21, <1>22, <1>23, <1>t DEF Restored
<1> QED
    BY <1>1, <1>2, <1>6, <1>24

LEMMA RestoreControl ==
    ASSUME ControlInv, NEW seeds, IsSequence(seeds), RestoreWith(seeds),
           \A r \in requests' : r.command \in menu
    PROVE  ControlInv'
<1>1. PICK r : r = Replay(snapshot, log)
    OBVIOUS
<1>2. StatesOK /\ ClientsOK
    BY DEF ControlInv
<1>3. r.ok = Replayed.ok /\ Restored(r.st)
    BY <1>1, <1>2, ReplayGives
<1>4. menu' = menu /\ snapshot' = snapshot /\ log' = log
    BY DEF RestoreWith
<1>5. /\ mode' = IF r.ok THEN "up" ELSE "refused"
      /\ live' = IF r.ok THEN Seed(r.st, seeds) ELSE live
      /\ unlogged' = IF r.ok /\ Seed(r.st, seeds) # r.st /\ unlogged # "lost" THEN "live"
                     ELSE unlogged
    BY <1>1 DEF RestoreWith
<1>6. ClientsOK'
    BY <1>2, <1>4 DEF ClientsOK
<1>7. CASE ~r.ok
  <2>1. mode' = "refused"
      BY <1>5, <1>7
  <2>2. StatesOK'
      BY <1>2, <1>4, <2>1 DEF StatesOK
  <2>3. ReplayOK'
      BY <2>1 DEF ReplayOK
  <2> QED BY <1>6, <2>2, <2>3 DEF ControlInv
<1>8. CASE r.ok
  <2>1. live' = Seed(r.st, seeds)
      BY <1>5, <1>8
  <2>2. Onward(r.st, live')
      BY <1>3, <2>1, SeedOnward DEF Restored
  <2>t. Tracks(snapshot, live')
      BY <1>2, <1>3, <2>2 DEF StatesOK, StateOK, Restored, Onward
  <2>3. StatesOK'
      BY <1>2, <1>3, <1>4, <2>2, <2>t DEF StatesOK, Restored, Onward
  <2>4. Replayed' = Replayed
      BY <1>4 DEF Replayed
  <2>5. unlogged' = "none" => Agree(Replayed.st, live')
      BY <1>3, <1>5, <1>8, <2>1 DEF Restored
  <2>6. ReplayOK'
      BY <1>3, <1>8, <2>4, <2>5 DEF ReplayOK
  <2> QED BY <1>6, <2>3, <2>6 DEF ControlInv
<1> QED
    BY <1>7, <1>8

LEMMA CrashAfterAppendControl ==
    ASSUME ControlInv, NEW c \in menu, CrashAfterAppend(c)
    PROVE  ControlInv'
<1>1. Down
    BY DEF CrashAfterAppend
<1>2. PICK rows : rows = Rows(live, c)
    OBVIOUS
<1>3. PICK n \in 1..Len(rows) : log' = log \o SubSeq(rows, 1, n)
    BY <1>2 DEF CrashAfterAppend
<1>4. RowsOK(rows)
    BY <1>2, RowsAre DEF ControlInv, ClientsOK
<1>5. PICK some : some = SubSeq(rows, 1, n)
    OBVIOUS
<1>6. RowsOK(some)
    BY <1>4, <1>5, PrefixOK
<1>7. RowsOK(log')
    BY <1>3, <1>5, <1>6, RowsLogged DEF ControlInv, StatesOK
<1> QED
    BY <1>1, <1>7, DownControl

LEMMA NextControl == ControlInv /\ [Next]_vars => ControlInv'
<1> SUFFICES ASSUME ControlInv, [Next]_vars PROVE ControlInv'
    OBVIOUS
<1>0. \A r \in requests : r.command \in menu
    BY DEF ControlInv, ClientsOK
<1>1. CASE UNCHANGED vars
    BY <1>0, <1>1, StillControl DEF vars, viewVars
<1>2. ASSUME NEW c \in menu, Submit(c) PROVE ControlInv'
  <2>1. Handle(c) /\ requests' = requests
      BY <1>2 DEF Submit, viewVars
  <2> QED BY <1>0, <2>1, HandleControl
<1>3. ASSUME NEW c \in menu, Retry(c) PROVE ControlInv'
    BY <1>0, <1>3, StillControl DEF Retry, viewVars
<1>4. ASSUME NEW c \in menu, CrashAfterAppend(c) PROVE ControlInv'
    BY <1>4, CrashAfterAppendControl
<1>5. CASE SealBlock
    BY <1>5, SealControl
<1>6. CASE Crash
  <2>1. Down /\ log' = log
      BY <1>6 DEF Crash
  <2> QED BY <2>1, DownControl DEF ControlInv, StatesOK
<1>7. ASSUME NEW c \in menu, BeginRequest(c) PROVE ControlInv'
  <2>1. UNCHANGED <<menu, live, snapshot, log, mode, unlogged>>
      BY <1>7 DEF BeginRequest
  <2>2. \A r \in requests' : r.command \in menu
      BY <1>0, <1>7 DEF BeginRequest
  <2> QED BY <2>1, <2>2, StillControl
<1>8. ASSUME NEW r \in requests, SendRequest(r) PROVE ControlInv'
  <2>1. UNCHANGED <<menu, live, snapshot, log, mode, unlogged>>
      BY <1>8 DEF SendRequest
  <2>2. \E stage : Stage(r, stage)
      BY <1>8 DEF SendRequest
  <2> QED BY <2>1, <2>2, StagedRequests, StillControl
<1>9. ASSUME NEW r \in requests, HandleRequest(r) PROVE ControlInv'
  <2>1. \A q \in requests' : q.command \in menu
    <3>1. \E stage : Stage(r, stage)
        BY <1>9 DEF HandleRequest
    <3> QED BY <3>1, StagedRequests
  <2>2. CASE Handle(r.command)
      BY <1>0, <2>1, <2>2, HandleControl
  <2>3. CASE UNCHANGED <<menu, live, snapshot, log, mode, acked, unlogged, verdict, crashes>>
      BY <2>1, <2>3, StillControl
  <2> QED BY <1>9, <2>2, <2>3 DEF HandleRequest
<1>10. ASSUME NEW r \in requests, EndRequest(r) PROVE ControlInv'
  <2>1. UNCHANGED <<menu, live, snapshot, log, mode, unlogged>> /\ requests' = requests \ {r}
      BY <1>10 DEF EndRequest
  <2> QED BY <1>0, <2>1, StillControl
<1>11. CASE SupervisedRestart
  <2>1. RestoreWith(<<>>) /\ requests' = requests
      BY <1>11 DEF SupervisedRestart, viewVars
  <2> QED BY <1>0, <2>1, EmptySequence, RestoreControl
<1>12. ASSUME NEW seeds \in {<<>>, Seeds}, ProcessStart(seeds) PROVE ControlInv'
  <2>1. RestoreWith(seeds) /\ requests' = {}
      BY <1>12 DEF ProcessStart
  <2>2. IsSequence(seeds)
    <3>1. Seeds \in Seq(STRING)
        BY MenusAssumption
    <3>2. IsSequence(Seeds)
        BY <3>1, SequenceAny
    <3> QED BY <3>2, EmptySequence
  <2> QED BY <2>1, <2>2, RestoreControl
<1> QED
    BY <1>1, <1>2, <1>3, <1>4, <1>5, <1>6, <1>7, <1>8, <1>9, <1>10, <1>11, <1>12 DEF Next

-----------------------------------------------------------------------------
(* Theorems *)

(* In every reachable state the live state and the snapshot are well formed,
   the log holds rows that clients' commands gave, and what the log replays to
   is the live state unless a first-key row poisons it. *)
THEOREM ControlInvariance == Spec => []ControlInv
<1>1. Init => ControlInv
    BY InitControl
<1>2. ControlInv /\ [Next]_vars => ControlInv'
    BY NextControl
<1> QED
    BY <1>1, <1>2, PTL DEF Spec

LEMMA ExactFromInv == ControlInv => ReplayExact
<1> SUFFICES ASSUME ControlInv, mode = "up", unlogged = "none", ~Poisoned
             PROVE  Replay(snapshot, log) = [ok |-> TRUE, st |-> live]
    BY DEF ReplayExact
<1>1. StatesOK /\ IsRecord(live) /\ StateOK(live) /\ IndexOK(live)
    BY DEF ControlInv, StatesOK
<1>2. PICK q, r : q = Replayed /\ r = Replay(snapshot, log)
    OBVIOUS
<1>3. q.ok /\ Agree(q.st, live)
    BY <1>2 DEF ControlInv, ReplayOK
<1>4. IsAnswer(q)
    BY <1>1, <1>2, AnswerOf DEF Replayed, StatesOK, RowsOK
<1>5. r = [q EXCEPT !.st = RebuildApiKeyIndex(@)]
    BY <1>2 DEF Replay, Replayed
<1>6. r = [ok |-> TRUE, st |-> RebuildApiKeyIndex(q.st)]
    BY <1>3, <1>4, <1>5 DEF IsAnswer
<1>7. PICK t : t = RebuildApiKeyIndex(q.st)
    OBVIOUS
<1>8. t = [q.st EXCEPT !.index = ActiveApiKeys(q.st)]
    BY <1>7 DEF RebuildApiKeyIndex
<1>9. ActiveApiKeys(q.st) = live.index
    BY <1>1, <1>3, AgreeFields, ActiveSame DEF IndexOK
<1>10. t = [f \in Fields |-> live[f]]
  <2>1. DOMAIN q.st = Fields /\ \A f \in Fields \ {"index"} : q.st[f] = live[f]
      BY <1>3 DEF Agree
  <2>2. \A f \in Fields : t[f] = live[f]
      BY <1>8, <1>9, <2>1
  <2>3. t = [f \in Fields |-> t[f]]
      BY <1>8, <2>1
  <2> QED BY <2>2, <2>3
<1>11. live = [f \in Fields |-> live[f]]
  <2>1. DOMAIN live = Fields
      BY <1>3 DEF Agree
  <2> QED BY <1>1, <2>1 DEF IsRecord
<1> QED
    BY <1>2, <1>6, <1>7, <1>10, <1>11

(* The last block and the log always give back the live state, whatever the
   commands, the crashes between an append and its answer, and the restarts;
   seed markets and poisoned rows excepted, which the property names. *)
THEOREM LogGivesLiveState == Spec => []ReplayExact
    BY ControlInvariance, ExactFromInv, PTL

LEMMA OneGroupFromInv == ControlInv => OneGroupEach
<1> SUFFICES ASSUME ControlInv, mode = "up" PROVE OneGroupEach
    BY DEF OneGroupEach
<1>1. GroupsOK(live) /\ Shape(live)
    BY DEF ControlInv, StatesOK, StateOK
<1>2. ASSUME NEW m \in 1..Len(live.markets) PROVE Cardinality(GroupsWith(live, m)) <= 1
  <2>1. PICK G : G = GroupsWith(live, m)
      OBVIOUS
  <2>2. \A g, h \in G : g = h
      BY <1>1, <2>1 DEF GroupsWith, GroupsOK
  <2>3. CASE G = {}
      BY <2>1, <2>3, FS_EmptySet
  <2>4. CASE G # {}
    <3>1. PICK g : G = {g}
        BY <2>2, <2>4
    <3>2. Cardinality({g}) = 1
        BY FS_Singleton, Zenon
    <3> QED BY <2>1, <3>1, <3>2
  <2> QED BY <2>3, <2>4
<1>3. \A g \in GroupIds(live) : live.groups[g].markets \cap Resolved(live) = {}
    BY <1>1 DEF GroupsOK
<1> QED
    BY <1>2, <1>3 DEF OneGroupEach

(* No market is ever in two groups, and no resolved market in any: creation,
   extension and resolution keep it, live and when a restart replays them. *)
THEOREM GroupsStayDisjoint == Spec => []OneGroupEach
    BY ControlInvariance, OneGroupFromInv, PTL

LEMMA NoneMismatched ==
    ASSUME NEW b, GroupsOK(b), NEW s, Tracks(b, s), Dissolved(b, s) = {}, AddedAndResolved(s) = {}
    PROVE  GroupMismatches(b, s) = {}
<1>1. ASSUME NEW g \in GroupIds(b)
      PROVE  /\ g \in GroupIds(s)
             /\ s.groups[g].name = b.groups[g].name /\ s.groups[g].key = b.groups[g].key
             /\ s.groups[g].markets = (b.groups[g].markets \ ResolvedNow(s)) \cup Added(s, g)
  <2>1. /\ g \in GroupIds(s)
        /\ s.groups[g].name = b.groups[g].name /\ s.groups[g].key = b.groups[g].key
        /\ s.groups[g].markets = (b.groups[g].markets \cup Added(s, g)) \ Resolved(s)
        /\ Resolved(s) = Resolved(b) \cup ResolvedNow(s)
      BY DEF Tracks
  <2>2. b.groups[g].markets \cap Resolved(b) = {}
      BY DEF GroupsOK
  <2>3. Added(s, g) \cap Resolved(s) = {}
      BY DEF AddedAndResolved, Added
  <2> QED BY <2>1, <2>2, <2>3
<1> QED
    BY <1>1 DEF GroupMismatches, ResolvedNow, Added

LEMMA ProvableNext == ControlInv /\ GroupsProvable /\ [Next]_vars => GroupsProvable'
<1> SUFFICES ASSUME ControlInv, GroupsProvable, [Next]_vars PROVE GroupsProvable'
    OBVIOUS
<1>1. CASE SealBlock
  <2>1. PICK v : v = [mismatched |-> GroupMismatches(snapshot, live),
                      dissolved |-> Dissolved(snapshot, live),
                      transient |-> AddedAndResolved(live)]
      OBVIOUS
  <2>2. verdict' = v
      BY <1>1, <2>1 DEF SealBlock
  <2>3. /\ v.mismatched = GroupMismatches(snapshot, live)
        /\ v.dissolved = Dissolved(snapshot, live) /\ v.transient = AddedAndResolved(live)
      BY <2>1
  <2>4. GroupsOK(snapshot) /\ Tracks(snapshot, live)
      BY <1>1 DEF SealBlock, ControlInv, StatesOK, StateOK
  <2>5. v.dissolved = {} /\ v.transient = {} => v.mismatched = {}
      BY <2>3, <2>4, NoneMismatched
  <2> QED BY <2>2, <2>5 DEF GroupsProvable
<1>2. CASE ~SealBlock
  <2>1. verdict' = verdict
      BY <1>2 DEF Next, vars, Submit, Retry, CrashAfterAppend, Crash, Down, BeginRequest,
             SendRequest, HandleRequest, Handle, EndRequest, SupervisedRestart, ProcessStart,
             RestoreWith
  <2> QED BY <2>1 DEF GroupsProvable
<1> QED
    BY <1>1, <1>2

(* The verifier can always explain a block's groups from its events, though it
   numbers groups by position and they move when one is dissolved, except in
   the two cases that the property names. *)
THEOREM GroupsExplained == Spec => []GroupsProvable
<1>1. Init => GroupsProvable
  <2> SUFFICES ASSUME Init PROVE GroupsProvable
      OBVIOUS
  <2>1. verdict.mismatched = {}
      BY DEF Init
  <2> QED BY <2>1 DEF GroupsProvable
<1>2. ControlInv /\ GroupsProvable /\ [Next]_vars => GroupsProvable'
    BY ProvableNext
<1> QED
    BY <1>1, <1>2, ControlInvariance, PTL DEF Spec

-----------------------------------------------------------------------------
(* What a command's answer says, right after it *)

OwnEffect(s, row, c, t) ==
    /\ c.op = "create_market" => MakesMarket(s, c, t)
    /\ c.op = "create_group" => MakesGroup(s, c, t)
    /\ c.op \in {"resolve", "attest"} => Settles(s, c, t)
    /\ c.op = "register_feed" => AddsFeed(s, c, t)
    /\ c.op \in {"provision", "public_account", "create_account"} => Opens(s, row, t)
    /\ c.op = "api_create" => MakesApiKey(s, c, t)
    /\ c.op = "api_revoke" => RevokesApiKey(s, c, t)
    /\ c.op \in {"register_key", "revoke_key"} => OperatesKey(s, c, t)
    /\ c.op \in {"mm_submit", "mm_replace", "mm_cancel"} => Quotes(s, row, t)

LEMMA EffectIsOwn ==
    ASSUME NEW s, NEW row, NEW c, c = row.command, NEW t, Effect(s, row, t), ~Idle(s, c)
    PROVE  OwnEffect(s, row, c, t)
<1>1. /\ MakesMarket(s, c, t) => c.op = "create_market"
      /\ MakesGroup(s, c, t) => c.op = "create_group"
      /\ Extends(s, c, t) => c.op = "extend_group"
      /\ Settles(s, c, t) => c.op \in {"resolve", "attest"}
      /\ AddsFeed(s, c, t) => c.op = "register_feed"
      /\ Installs(s, c, t) => c.op = "install_template"
      /\ Opens(s, row, t) => c.op \in {"provision", "public_account", "create_account"}
    BY DEF MakesMarket, MakesGroup, Extends, Settles, AddsFeed, Installs, Opens
<1>2. /\ Advances(s, c, t) => c.op = "nonce"
      /\ Renames(s, c, t) => c.op = "profile"
      /\ Funds(s, c, t) => c.op = "fund"
      /\ MakesApiKey(s, c, t) => c.op = "api_create"
      /\ RevokesApiKey(s, c, t) => c.op = "api_revoke"
      /\ AddsFirstKey(s, c, t) => c.op = "first_key"
      /\ OperatesKey(s, c, t) => c.op \in {"register_key", "revoke_key"}
      /\ Quotes(s, row, t) => c.op \in {"mm_submit", "mm_replace", "mm_cancel"}
    BY DEF Advances, Renames, Funds, MakesApiKey, RevokesApiKey, AddsFirstKey, OperatesKey, Quotes
<1> QED
    BY <1>1, <1>2 DEF Effect, OwnEffect

RepliesAs(after, row, c) ==
    /\ c.op = "create_market" => Reply(after, row) = Len(after.markets)
    /\ c.op = "create_group" => Reply(after, row) = Len(after.groups)
    /\ c.op = "register_feed" => Reply(after, row) = Len(after.feeds)
    /\ c.op \in {"provision", "public_account", "create_account"} =>
          Reply(after, row) = row.account
    /\ c.op = "api_create" => Reply(after, row) = Len(after.accounts[c.account].api_keys)
    /\ c.op \in {"mm_submit", "mm_replace"} => Reply(after, row) = row.order_id
    /\ c.op = "mm_cancel" => Reply(after, row) = 0

LEMMA Replies ==
    ASSUME NEW after, NEW row, NEW c, c = row.command
    PROVE  RepliesAs(after, row, c)
<1>1. ASSUME c.op \in {"provision", "public_account", "create_account"}
      PROVE  Reply(after, row) = row.account
    BY <1>1 DEF Reply
<1>2. ASSUME c.op \in {"mm_submit", "mm_replace"}
      PROVE  Reply(after, row) = row.order_id
    BY <1>2 DEF Reply
<1>3. ASSUME c.op = "mm_cancel"
      PROVE  Reply(after, row) = 0
    BY <1>3 DEF Reply
<1> QED
    BY <1>1, <1>2, <1>3, Zenon DEF Reply, RepliesAs

LEMMA AnswerHolds ==
    ASSUME NEW s, StateOK(s), NEW row, NEW c, c = row.command, NEW t, StateOK(t),
           OwnEffect(s, row, c, t), NEW reply, reply = Reply(t, row),
           c.op \in NonceOps => c.nonce \in Nat,
           c.op \in {"provision", "public_account", "create_account"} =>
              row.account = Len(s.accounts) + 1
    PROVE  Holds(c, reply, t) /\ (c.op = "create_group" => reply \in Nat)
<1>0. Shape(s) /\ Shape(t)
    BY DEF StateOK
<1>r. RepliesAs(t, row, c)
    BY Replies
<1>1. c.op = "create_market" => MarketHolds(c, reply, t)
  <2> SUFFICES ASSUME c.op = "create_market" PROVE MarketHolds(c, reply, t)
      OBVIOUS
  <2>1. PICK e : e = [name |-> c.name, key |-> c.key, template |-> c.template]
      OBVIOUS
  <2>2. IsSequence(s.markets) /\ t.markets = Append(s.markets, e)
      BY <1>0, <2>1 DEF Shape, OwnEffect, MakesMarket
  <2>3. Longer(s.markets, e, t.markets)
      BY <2>2, AppendAny
  <2>4. reply \in 1..Len(t.markets) /\ t.markets[reply] = e
      BY <1>r, <2>3 DEF RepliesAs, Longer
  <2> QED BY <2>1, <2>4 DEF MarketHolds
<1>2. c.op = "create_group" => GroupHolds(c, reply, t) /\ reply \in Nat
  <2> SUFFICES ASSUME c.op = "create_group" PROVE GroupHolds(c, reply, t) /\ reply \in Nat
      OBVIOUS
  <2>1. PICK e : e = [name |-> c.name, key |-> c.key, markets |-> c.markets]
      OBVIOUS
  <2>2. IsSequence(s.groups) /\ t.groups = Append(s.groups, e)
      BY <1>0, <2>1 DEF Shape, OwnEffect, MakesGroup
  <2>3. Longer(s.groups, e, t.groups)
      BY <2>2, AppendAny
  <2>4. reply \in 1..Len(t.groups) /\ t.groups[reply] = e
      BY <1>r, <2>3 DEF RepliesAs, Longer
  <2>5. e.key = c.key /\ e.markets = c.markets
      BY <2>1
  <2> QED BY <2>4, <2>5 DEF GroupHolds, GroupIds
<1>3. c.op \in {"resolve", "attest"} => PayoutHolds(c, t)
  <2> SUFFICES ASSUME c.op \in {"resolve", "attest"} PROVE PayoutHolds(c, t)
      OBVIOUS
  <2>1. PICK p : p = [market |-> c.market, payout |-> c.payout]
      OBVIOUS
  <2>2. t.payouts = s.payouts \cup {p} /\ c.market \notin Resolved(s)
      BY <2>1 DEF OwnEffect, Settles, Tradeable
  <2>3. \A q \in s.payouts : q.market # c.market
      BY <2>2 DEF Resolved
  <2> QED BY <2>1, <2>2, <2>3 DEF PayoutHolds
<1>4. c.op = "register_feed" => FeedHolds(c, reply, t)
  <2> SUFFICES ASSUME c.op = "register_feed" PROVE FeedHolds(c, reply, t)
      OBVIOUS
  <2>2. IsSequence(s.feeds) /\ t.feeds = Append(s.feeds, c.pubkey)
      BY <1>0 DEF Shape, OwnEffect, AddsFeed
  <2>3. Longer(s.feeds, c.pubkey, t.feeds)
      BY <2>2, AppendAny
  <2> QED BY <1>r, <2>3 DEF RepliesAs, Longer, FeedHolds
<1>5. c.op \in {"provision", "public_account", "create_account"} => reply \in Accounts(t)
  <2> SUFFICES ASSUME c.op \in {"provision", "public_account", "create_account"}
               PROVE  reply \in Accounts(t)
      OBVIOUS
  <2>2. IsSequence(s.accounts) /\ t.accounts = Append(s.accounts, Fresh)
      BY <1>0 DEF Shape, OwnEffect, Opens
  <2>3. Longer(s.accounts, Fresh, t.accounts)
      BY <2>2, AppendAny
  <2> QED BY <1>r, <2>3 DEF RepliesAs, Longer, Accounts
<1>6. c.op = "provision" => ReceiptHolds(c, reply, t)
  <2> SUFFICES ASSUME c.op = "provision" PROVE ReceiptHolds(c, reply, t)
      OBVIOUS
  <2>1. PICK e : e = [key |-> c.key, request |-> c.request, account |-> row.account]
      OBVIOUS
  <2>2. e \in t.receipts
      BY <2>1 DEF OwnEffect, Opens
  <2>3. reply = row.account
      BY <1>r DEF RepliesAs
  <2> QED BY <2>1, <2>2, <2>3 DEF ReceiptHolds
<1>7. c.op = "api_create" => ApiKeyHolds(c, reply, t)
  <2> SUFFICES ASSUME c.op = "api_create" PROVE ApiKeyHolds(c, reply, t)
      OBVIOUS
  <2>1. PICK e : e = [hash |-> c.hash, active |-> TRUE]
      OBVIOUS
  <2>2. /\ c.account \in Accounts(s) /\ Changes(s, t, c.account, {"api_keys"})
        /\ t.accounts[c.account].api_keys = Append(s.accounts[c.account].api_keys, e)
      BY <2>1 DEF OwnEffect, MakesApiKey, CanCreateApiKey
  <2>3. IsSequence(s.accounts[c.account].api_keys)
      BY <1>0, <2>2 DEF Shape, AccountOK
  <2>4. Longer(s.accounts[c.account].api_keys, e, t.accounts[c.account].api_keys)
      BY <2>2, <2>3, AppendAny
  <2>5. c.account \in Accounts(t)
      BY <1>0, <2>2, AccountsKept
  <2>6. /\ reply \in 1..Len(t.accounts[c.account].api_keys)
        /\ t.accounts[c.account].api_keys[reply] = e
    <3>1. reply = Len(t.accounts[c.account].api_keys)
        BY <1>r DEF RepliesAs
    <3>2. PICK old, new : /\ old = s.accounts[c.account].api_keys
                          /\ new = t.accounts[c.account].api_keys
        OBVIOUS
    <3>3. Longer(old, e, new) /\ reply = Len(new)
        BY <2>4, <3>1, <3>2
    <3>4. reply \in 1..Len(new) /\ new[reply] = e
        BY <3>3 DEF Longer
    <3> QED BY <3>2, <3>4
  <2> QED BY <2>1, <2>5, <2>6 DEF ApiKeyHolds
<1>8. c.op = "api_revoke" => ApiKeyEnded(c, t)
  <2> SUFFICES ASSUME c.op = "api_revoke" PROVE ApiKeyEnded(c, t)
      OBVIOUS
  <2>1. /\ c.account \in Accounts(s) /\ Changes(s, t, c.account, {"api_keys"})
        /\ c.id \in DOMAIN s.accounts[c.account].api_keys
        /\ t.accounts[c.account].api_keys
             = [s.accounts[c.account].api_keys EXCEPT ![c.id].active = FALSE]
      BY DEF OwnEffect, RevokesApiKey, CanRevokeApiKey
  <2>2. AccountOK(s.accounts[c.account])
      BY <1>0, <2>1 DEF Shape
  <2>3. PICK keys : keys = s.accounts[c.account].api_keys
      OBVIOUS
  <2>4. IsSequence(keys) /\ c.id \in 1..Len(keys) /\ DOMAIN keys[c.id] = {"hash", "active"}
    <3>1. IsSequence(keys)
        BY <2>2, <2>3 DEF AccountOK
    <3>2. c.id \in 1..Len(keys)
        BY <2>1, <2>3, <3>1, SequenceIs
    <3> QED BY <2>2, <2>3, <3>1, <3>2 DEF AccountOK
  <2>5. PICK e : e = [keys[c.id] EXCEPT !.active = FALSE]
      OBVIOUS
  <2>6. t.accounts[c.account].api_keys = [keys EXCEPT ![c.id] = e]
      BY <2>1, <2>3, <2>5
  <2>7. Replaced(keys, c.id, e, t.accounts[c.account].api_keys)
      BY <2>4, <2>6, ExceptAny
  <2>8. /\ c.id \in 1..Len(t.accounts[c.account].api_keys)
        /\ t.accounts[c.account].api_keys[c.id] = e
      BY <2>4, <2>7 DEF Replaced
  <2>9. e.active = FALSE
      BY <2>4, <2>5
  <2>10. c.account \in Accounts(t)
      BY <1>0, <2>1, AccountsKept
  <2> QED BY <2>8, <2>9, <2>10 DEF ApiKeyEnded
<1>9. c.op \in {"mm_replace", "mm_cancel"} => MmHolds(c, reply, t)
  <2> SUFFICES ASSUME c.op \in {"mm_replace", "mm_cancel"} PROVE MmHolds(c, reply, t)
      OBVIOUS
  <2>1. PICK e : e = [account |-> c.account, nonce |-> c.nonce, command |-> c,
                      reply |-> IF c.op = "mm_cancel" THEN 0 ELSE row.order_id]
      OBVIOUS
  <2>2. e.account = c.account /\ e.nonce = c.nonce /\ e.command = c
      BY <2>1
  <2>3. e.reply = reply
      BY <1>r, <2>1 DEF RepliesAs
  <2>4. Quotes(s, row, t)
      BY DEF OwnEffect
  <2>5. e \in t.mm_receipts
      BY <2>1, <2>4 DEF Quotes
  <2>6. /\ c.account \in Accounts(s) /\ Changes(s, t, c.account, {"last_nonce"})
        /\ t.accounts[c.account].last_nonce = c.nonce
      BY <2>4 DEF Quotes, FreshNonce
  <2>7. c.account \in Accounts(t)
      BY <1>0, <2>6, AccountsKept
  <2>8. c.nonce >= c.nonce
    <3>1. c.nonce \in Nat
        BY DEF NonceOps
    <3> QED BY <3>1
  <2> QED BY <2>2, <2>3, <2>5, <2>6, <2>7, <2>8 DEF MmHolds
<1> QED
    BY <1>1, <1>2, <1>3, <1>4, <1>5, <1>6, <1>7, <1>8, <1>9, Zenon DEF Holds

ExistsAs(st, c) ==
    /\ c.op = "create_market" => Existing(st, c) = ExistingMarket(st, c)
    /\ c.op = "create_group" => Existing(st, c) = ExistingGroup(st, c)
    /\ c.op = "register_feed" => Existing(st, c) = FeedOf(st, c.pubkey)
    /\ c.op = "provision" =>
          Existing(st, c) = {r.account : r \in {x \in ReceiptFor(st, c) : x.request = c.request}}
    /\ c.op \in {"mm_replace", "mm_cancel"} => Existing(st, c) = MmRetry(st, c)
    /\ c.op \in {"resolve", "attest", "public_account", "create_account", "api_create",
                 "api_revoke", "revoke_key"} => Existing(st, c) = {}

LEMMA ExistsIs == ASSUME NEW st, NEW c PROVE ExistsAs(st, c)
<1>1. ASSUME c.op \in {"mm_replace", "mm_cancel"} PROVE Existing(st, c) = MmRetry(st, c)
    BY <1>1 DEF Existing
<1>2. ASSUME c.op \in {"resolve", "attest", "public_account", "create_account", "api_create",
                       "api_revoke", "revoke_key"}
      PROVE  Existing(st, c) = {}
    BY <1>2 DEF Existing
<1> QED
    BY <1>1, <1>2, Zenon DEF Existing, ExistsAs

LEMMA RetryHolds ==
    ASSUME NEW s, StateOK(s), NEW c, NEW reply \in Existing(s, c)
    PROVE  Holds(c, reply, s) /\ (c.op = "create_group" => reply \in Nat)
<1>0. Shape(s) /\ KeyedOnce(s) /\ ReceiptsOK(s) /\ ExistsAs(s, c)
    BY ExistsIs DEF StateOK
<1>1. c.op = "create_market" => MarketHolds(c, reply, s)
    BY <1>0 DEF ExistsAs, ExistingMarket, SameKey, MarketHolds
<1>2. c.op = "create_group" => GroupHolds(c, reply, s) /\ reply \in Nat
    BY <1>0 DEF ExistsAs, ExistingGroup, SameKey, GroupHolds, GroupIds
<1>3. c.op = "register_feed" => FeedHolds(c, reply, s)
    BY <1>0 DEF ExistsAs, FeedOf, FeedHolds
<1>4. c.op = "provision" => ReceiptHolds(c, reply, s) /\ reply \in Accounts(s)
  <2> SUFFICES ASSUME c.op = "provision" PROVE ReceiptHolds(c, reply, s) /\ reply \in Accounts(s)
      OBVIOUS
  <2>1. PICK r \in s.receipts : r.key = c.key /\ r.request = c.request /\ reply = r.account
      BY <1>0 DEF ExistsAs, ReceiptFor
  <2> QED BY <1>0, <2>1 DEF KeyedOnce, ReceiptHolds
<1>5. c.op \in {"mm_replace", "mm_cancel"} => MmHolds(c, reply, s)
  <2> SUFFICES ASSUME c.op \in {"mm_replace", "mm_cancel"} PROVE MmHolds(c, reply, s)
      OBVIOUS
  <2>1. PICK r \in s.mm_receipts : /\ r.account = c.account /\ r.nonce = c.nonce /\ r.command = c
                                   /\ r.reply = reply
      BY <1>0 DEF ExistsAs, MmRetry, MmReceipt
  <2>2. c.account \in Accounts(s) /\ s.accounts[c.account].last_nonce >= c.nonce
      BY <1>0, <2>1 DEF ReceiptsOK
  <2> QED BY <2>1, <2>2 DEF MmHolds
<1>6. c.op \notin {"resolve", "attest", "public_account", "create_account", "api_create",
                   "api_revoke", "revoke_key"}
    BY <1>0, Zenon DEF ExistsAs
<1> QED
    BY <1>1, <1>2, <1>3, <1>4, <1>5, <1>6 DEF Holds

(* A handler's answer holds, whatever the handler logged. *)
LEMMA HandledHolds ==
    ASSUME NEW s, StateOK(s), NEW c \in Commands, c.op \in Ops, Admissible(s, c),
           Existing(s, c) = {}, NEW rows, rows = Rows(s, c), NEW r, r = ApplyAll(s, rows), r.ok,
           NEW reply, reply = Reply(r.st, rows[Len(rows)])
    PROVE  Holds(c, reply, r.st) /\ (c.op = "create_group" => reply \in Nat)
<1>0. Shape(s) /\ ExistsAs(s, c) /\ RowsOK(rows) /\ rows[Len(rows)] = Row(s, c)
    BY RowsAre, ExistsIs DEF StateOK
<1>1. StateOK(r.st)
    BY <1>0, ReplayOnward DEF Onward
<1>2. PICK row, first : row = Row(s, c) /\ first = Row(s, NonceOf(c))
    OBVIOUS
<1>3. row.command = c /\ row.account = Len(s.accounts) + 1
    BY <1>2, RowFields
<1>4. c.op \in NonceOps => c.nonce \in Nat
    BY MenusAssumption
<1>5. CASE c.op \notin TwoRowOps
  <2>1. rows = <<row>>
      BY <1>2, <1>5, RowsAre
  <2>2. r = ApplyNext([ok |-> TRUE, st |-> s], row)
      BY <2>1, ApplyOne
  <2>3. PICK q : q = [ok |-> TRUE, st |-> s]
      OBVIOUS
  <2>4. q.ok = TRUE /\ q.st = s
      BY <2>3
  <2>5. Applicable(s, row) /\ r.st = Apply(s, row)
    <3>1. r = ApplyNext(q, row)
        BY <2>2, <2>3
    <3>2. NextStep(q, row, r)
        BY <3>1, NextIs
    <3> QED BY <2>4, <3>2 DEF NextStep
  <2>6. Effect(s, row, r.st)
      BY <1>0, <1>3, <2>5, EffectOf
  <2>7. CASE c.op = "extend_group"
    <3>1. Holds(c, reply, r.st)
        BY <2>7 DEF Holds
    <3> QED BY <2>7, <3>1
  <2>8. CASE c.op # "extend_group"
    <3>1. ~Idle(s, c)
        BY <1>0, <2>8 DEF Idle, ExistsAs
    <3>2. OwnEffect(s, row, c, r.st)
        BY <1>3, <2>6, <3>1, EffectIsOwn
    <3> QED BY <1>0, <1>1, <1>2, <1>3, <1>4, <3>2, AnswerHolds
  <2> QED BY <2>7, <2>8
<1>6. CASE c.op \in TwoRowOps
  <2>1. rows = <<first, row>>
      BY <1>2, <1>6, RowsAre
  <2>2. Applicable(s, first) /\ Applicable(Apply(s, first), row)
      BY <1>0, <1>2, <1>6, SpentThenApplies
  <2>3. r = ApplyNext(ApplyNext([ok |-> TRUE, st |-> s], first), row)
      BY <2>1, ApplyTwo
  <2>4. PICK u : u = Apply(s, first)
      OBVIOUS
  <2>5. ApplyNext([ok |-> TRUE, st |-> s], first) = [ok |-> TRUE, st |-> u]
      BY <2>2, <2>4, AppliedNext
  <2>6. r = [ok |-> TRUE, st |-> Apply(u, row)]
      BY <2>2, <2>3, <2>4, <2>5, AppliedNext
  <2>7. r.st = Apply(u, row)
      BY <2>6
  <2>8. first.command = NonceOf(c) /\ NonceOf(c).op = "nonce" /\ NonceOf(c).nonce = c.nonce
      BY <1>2, RowFields DEF NonceOf
  <2>9. RowOK(first) /\ first.command.op \in Ops \cup {"nonce"}
    <3>1. c.nonce \in Nat
        BY <1>4, <1>6 DEF TwoRowOps, NonceOps
    <3> QED BY <2>8, <3>1 DEF RowOK
  <2>10. Effect(s, first, u)
      BY <1>0, <2>2, <2>4, <2>9, EffectOf
  <2>11. IsRecord(s) => IsRecord(u)
      BY <2>4, <2>9, ApplyIsRecord
  <2>12. StateOK(u)
      BY <2>9, <2>10, <2>11, EffectOnward DEF Onward
  <2>13. Effect(u, row, r.st)
    <3>1. Shape(u)
        BY <2>12 DEF StateOK
    <3> QED BY <1>3, <2>2, <2>4, <2>7, <3>1, EffectOf
  <2>14. ~Idle(u, c) /\ c.op \notin {"provision", "public_account", "create_account"}
      BY <1>6 DEF Idle, TwoRowOps
  <2>15. OwnEffect(u, row, c, r.st)
      BY <1>3, <2>13, <2>14, EffectIsOwn
  <2> QED BY <1>0, <1>1, <1>2, <1>3, <1>4, <2>12, <2>14, <2>15, AnswerHolds
<1> QED
    BY <1>5, <1>6

-----------------------------------------------------------------------------
(* Answers, action by action *)

AllHold(st) == \A a \in acked : Holds(a.command, a.reply, st)

LEMMA AllHoldOnward ==
    ASSUME \A a \in acked : AckOK(a), NEW s, AllHold(s), NEW t, Onward(s, t)
    PROVE  AllHold(t)
<1>1. ASSUME NEW a \in acked PROVE Holds(a.command, a.reply, t)
  <2>1. a.command \in Commands /\ (a.command.op = "create_group" => a.reply \in Nat)
      BY DEF AckOK
  <2>2. HoldsOn(a.command, a.reply, s, t)
      BY <2>1 DEF Onward
  <2> QED BY <2>1, <2>2 DEF HoldsOn, AllHold
<1> QED
    BY <1>1 DEF AllHold

LEMMA AllHoldAcross ==
    ASSUME NEW s, AllHold(s), NEW t, Keeps(s, t, Passing)
    PROVE  AllHold(t)
BY HoldsAcross DEF AllHold

LEMMA AgreeKeeps ==
    ASSUME NEW s, NEW t, Agree(s, t)
    PROVE  Keeps(s, t, Passing) /\ Agree(t, s) /\ Keeps(t, s, Passing)
BY DEF Agree, Keeps, Passing

(* A new answer is entered, or the first one kept. *)
LEMMA AckedNew ==
    ASSUME AcksInv, mode' = "up", unlogged' = unlogged, NEW c \in Commands, c.op \in Ops,
           NEW reply, Ack(c, reply), c.op = "create_group" => reply \in Nat,
           Holds(c, reply, live'), unlogged # "lost" => AllHold(live')
    PROVE  AcksInv'
<1>1. PICK e : e = [command |-> c, reply |-> reply]
    OBVIOUS
<1>2. e.command = c /\ e.reply = reply
    BY <1>1
<1>3. acked' = acked \/ acked' = acked \cup {e}
    BY <1>1 DEF Ack
<1>4. AckOK(e)
    BY <1>2 DEF AckOK
<1>5. \A a \in acked' : AckOK(a)
    BY <1>3, <1>4 DEF AcksInv
<1>6. unlogged # "lost" => \A a \in acked' : Holds(a.command, a.reply, live')
    BY <1>2, <1>3 DEF AllHold
<1> QED
    BY <1>5, <1>6 DEF AcksInv

LEMMA HandleAcks ==
    ASSUME ControlInv, AcksInv, NEW c \in menu, Handle(c)
    PROVE  AcksInv'
<1>1. c \in Commands /\ c.op \in Ops
    BY DEF ControlInv, ClientsOK
<1>2. mode = "up" /\ Admissible(live, c) /\ Existing(live, c) = {}
    BY DEF Handle, Submittable, Room
<1>3. PICK rows : rows = Rows(live, c)
    OBVIOUS
<1>4. PICK r : r = ApplyAll(live, rows)
    OBVIOUS
<1>5. /\ live' = r.st /\ mode' = mode /\ unlogged' = unlogged
      /\ IF r.ok THEN Ack(c, Reply(r.st, rows[Len(rows)])) ELSE acked' = acked
    BY <1>3, <1>4 DEF Handle
<1>6. StateOK(live) /\ RowsOK(rows)
    BY <1>1, <1>2, <1>3, RowsAre DEF ControlInv, StatesOK
<1>7. Onward(live, live')
    BY <1>4, <1>5, <1>6, ReplayOnward
<1>8. unlogged # "lost" => AllHold(live')
  <2> SUFFICES ASSUME unlogged # "lost" PROVE AllHold(live')
      OBVIOUS
  <2>1. AllHold(live) /\ \A a \in acked : AckOK(a)
      BY <1>2 DEF AcksInv, AllHold
  <2> QED BY <1>7, <2>1, AllHoldOnward
<1>9. CASE r.ok
  <2>1. PICK reply : reply = Reply(r.st, rows[Len(rows)])
      OBVIOUS
  <2>2. Holds(c, reply, live') /\ (c.op = "create_group" => reply \in Nat)
      BY <1>1, <1>2, <1>3, <1>4, <1>5, <1>6, <1>9, <2>1, HandledHolds
  <2>3. Ack(c, reply)
      BY <1>5, <1>9, <2>1
  <2> QED BY <1>1, <1>2, <1>5, <1>8, <2>2, <2>3, AckedNew
<1>10. CASE ~r.ok
  <2>1. acked' = acked /\ mode' = "up" /\ unlogged' = unlogged
      BY <1>2, <1>5, <1>10
  <2> QED BY <1>8, <2>1 DEF AcksInv, AllHold
<1> QED
    BY <1>9, <1>10

LEMMA RetryAcks ==
    ASSUME ControlInv, AcksInv, NEW c \in menu, Retry(c)
    PROVE  AcksInv'
<1>1. c \in Commands /\ c.op \in Ops
    BY DEF ControlInv, ClientsOK
<1>2. mode = "up" /\ mode' = "up" /\ live' = live /\ unlogged' = unlogged
    BY DEF Retry
<1>3. StateOK(live)
    BY <1>2 DEF ControlInv, StatesOK
<1>4. PICK reply \in Existing(live, c) : Ack(c, reply)
    BY DEF Retry
<1>5. Holds(c, reply, live') /\ (c.op = "create_group" => reply \in Nat)
    BY <1>2, <1>3, RetryHolds
<1>6. unlogged # "lost" => AllHold(live')
    BY <1>2 DEF AcksInv, AllHold
<1> QED
    BY <1>1, <1>2, <1>4, <1>5, <1>6, AckedNew

LEMMA StillAcks ==
    ASSUME AcksInv, UNCHANGED <<live, snapshot, log, mode, acked, unlogged>>
    PROVE  AcksInv'
<1>1. Replayed' = Replayed
    BY DEF Replayed
<1> QED
    BY <1>1 DEF AcksInv

LEMMA SealAcks == ASSUME ControlInv, AcksInv, SealBlock PROVE AcksInv'
<1>1. mode = "up" /\ mode' = "up" /\ acked' = acked /\ live' = Sealed(live)
    BY DEF SealBlock
<1>2. unlogged' = IF unlogged = "live" THEN "none" ELSE unlogged
    BY DEF SealBlock
<1>3. Keeps(live, live', Passing)
    BY <1>1, SealedIs DEF ControlInv, StatesOK
<1>4. unlogged' # "lost" => AllHold(live')
  <2> SUFFICES ASSUME unlogged' # "lost" PROVE AllHold(live')
      OBVIOUS
  <2>1. AllHold(live)
      BY <1>1, <1>2 DEF AcksInv, AllHold
  <2> QED BY <1>3, <2>1, AllHoldAcross
<1> QED
    BY <1>1, <1>2, <1>4 DEF AcksInv, AllHold

LEMMA DownAcks ==
    ASSUME ControlInv, AcksInv, Down,
           unlogged = "none" /\ Replayed'.ok => AllHold(Replayed'.st)
    PROVE  AcksInv'
<1>1. mode' = "down" /\ acked' = acked
    BY DEF Down
<1>2. unlogged' = IF unlogged = "live" THEN "lost" ELSE unlogged
    BY DEF Down
<1>3. unlogged' \in {"none", "live", "lost"} /\ unlogged' # "live"
    BY <1>2 DEF AcksInv
<1>4. unlogged' # "lost" => unlogged = "none"
    BY <1>2 DEF AcksInv
<1>5. unlogged' # "lost" /\ Replayed'.ok => AllHold(Replayed'.st)
    BY <1>4
<1> QED
    BY <1>1, <1>3, <1>5 DEF AcksInv, AllHold

(* What the log replays to is the live state, and keeps the answers. *)
LEMMA ReplayedHold ==
    ASSUME ControlInv, AcksInv, mode = "up", unlogged = "none", Replayed.ok
    PROVE  AllHold(live) /\ AllHold(Replayed.st) /\ Agree(Replayed.st, live)
<1>1. Agree(Replayed.st, live)
    BY DEF ControlInv, ReplayOK
<1>2. AllHold(live)
    BY DEF AcksInv, AllHold
<1>3. Keeps(live, Replayed.st, Passing)
    BY <1>1, AgreeKeeps
<1> QED
    BY <1>1, <1>2, <1>3, AllHoldAcross

LEMMA CrashAcks == ASSUME ControlInv, AcksInv, Crash PROVE AcksInv'
<1>1. Down /\ mode = "up" /\ log' = log /\ snapshot' = snapshot
    BY DEF Crash, Down
<1>2. Replayed' = Replayed
    BY <1>1 DEF Replayed
<1>3. unlogged = "none" /\ Replayed'.ok => AllHold(Replayed'.st)
    BY <1>1, <1>2, ReplayedHold
<1> QED
    BY <1>1, <1>3, DownAcks

LEMMA CrashAfterAppendAcks ==
    ASSUME ControlInv, AcksInv, NEW c \in menu, CrashAfterAppend(c)
    PROVE  AcksInv'
<1>1. Down /\ mode = "up" /\ snapshot' = snapshot
    BY DEF CrashAfterAppend, Down
<1>2. PICK rows : rows = Rows(live, c)
    OBVIOUS
<1>3. PICK n \in 1..Len(rows) : log' = log \o SubSeq(rows, 1, n)
    BY <1>2 DEF CrashAfterAppend
<1>4. RowsOK(rows)
    BY <1>2, RowsAre DEF ControlInv, ClientsOK
<1>5. PICK some : some = SubSeq(rows, 1, n)
    OBVIOUS
<1>6. RowsOK(some) /\ IsSequence(some) /\ IsSequence(log)
    BY <1>4, <1>5, PrefixOK DEF RowsOK, ControlInv, StatesOK
<1>7. ASSUME unlogged = "none", Replayed'.ok PROVE AllHold(Replayed'.st)
  <2>1. PICK s0 : s0 = [snapshot EXCEPT !.index = {}]
      OBVIOUS
  <2>2. PICK q : q = ApplyAll(s0, log)
      OBVIOUS
  <2>3. Replayed = q /\ Replayed' = ApplyAll(s0, log \o some)
      BY <1>1, <1>3, <1>5, <2>1, <2>2 DEF Replayed
  <2>4. q.ok
      BY <1>6, <1>7, <2>2, <2>3, Stuck
  <2>5. AllHold(live) /\ Agree(q.st, live)
      BY <1>1, <1>7, <2>3, <2>4, ReplayedHold
  <2>6. PICK p : p = [ok |-> TRUE, st |-> live]
      OBVIOUS
  <2>7. Matches(q, p)
    <3>1. q.ok \in BOOLEAN
        BY <1>6, <2>2, AnswerOf DEF IsAnswer
    <3>2. p.ok = TRUE /\ p.st = live
        BY <2>6
    <3> QED BY <2>4, <2>5, <3>1, <3>2 DEF Matches
  <2>8. PICK r : r = ApplyAll(live, some)
      OBVIOUS
  <2>9. Matches(Replayed', r)
      BY <1>6, <2>2, <2>3, <2>6, <2>7, <2>8, Lockstep
  <2>10. Onward(live, r.st)
      BY <1>1, <1>6, <2>8, ReplayOnward DEF ControlInv, StatesOK
  <2>11. AllHold(r.st)
      BY <2>5, <2>10, AllHoldOnward DEF AcksInv
  <2>12. Keeps(r.st, Replayed'.st, Passing)
      BY <2>9, AgreeKeeps DEF Matches
  <2> QED BY <2>11, <2>12, AllHoldAcross
<1> QED
    BY <1>1, <1>7, DownAcks

LEMMA RestoreAcks ==
    ASSUME ControlInv, AcksInv, NEW seeds, IsSequence(seeds), RestoreWith(seeds)
    PROVE  AcksInv'
<1>1. PICK r : r = Replay(snapshot, log)
    OBVIOUS
<1>2. r.ok = Replayed.ok /\ Restored(r.st)
    BY <1>1, ReplayGives DEF ControlInv
<1>3. acked' = acked /\ mode = "down"
    BY DEF RestoreWith
<1>4. /\ mode' = IF r.ok THEN "up" ELSE "refused"
      /\ live' = IF r.ok THEN Seed(r.st, seeds) ELSE live
      /\ unlogged' = IF r.ok /\ Seed(r.st, seeds) # r.st /\ unlogged # "lost" THEN "live"
                     ELSE unlogged
    BY <1>1 DEF RestoreWith
<1>5. unlogged' \in {"none", "live", "lost"} /\ (unlogged' # "lost" => unlogged # "lost")
    BY <1>4 DEF AcksInv
<1>6. \A a \in acked' : AckOK(a)
    BY <1>3 DEF AcksInv
<1>7. CASE ~r.ok
  <2>1. mode' = "refused"
      BY <1>4, <1>7
  <2> QED BY <1>5, <1>6, <2>1 DEF AcksInv
<1>8. CASE r.ok
  <2>1. live' = Seed(r.st, seeds) /\ mode' = "up"
      BY <1>4, <1>8
  <2>2. Onward(r.st, live')
      BY <1>2, <2>1, SeedOnward DEF Restored
  <2>3. ASSUME unlogged' # "lost" PROVE AllHold(live')
    <3>1. AllHold(Replayed.st)
        BY <1>2, <1>3, <1>5, <1>8, <2>3 DEF AcksInv, AllHold
    <3>2. Keeps(Replayed.st, r.st, Passing)
        BY <1>2, AgreeKeeps DEF Restored
    <3>3. AllHold(r.st)
        BY <3>1, <3>2, AllHoldAcross
    <3> QED BY <2>2, <3>3, AllHoldOnward DEF AcksInv
  <2> QED BY <1>3, <1>5, <1>6, <2>1, <2>3 DEF AcksInv, AllHold
<1> QED
    BY <1>7, <1>8

LEMMA NextAcks == ControlInv /\ AcksInv /\ [Next]_vars => AcksInv'
<1> SUFFICES ASSUME ControlInv, AcksInv, [Next]_vars PROVE AcksInv'
    OBVIOUS
<1>0. \A r \in requests : r.command \in menu
    BY DEF ControlInv, ClientsOK
<1>1. CASE UNCHANGED vars
    BY <1>1, StillAcks DEF vars
<1>2. ASSUME NEW c \in menu, Submit(c) PROVE AcksInv'
    BY <1>2, HandleAcks DEF Submit
<1>3. ASSUME NEW c \in menu, Retry(c) PROVE AcksInv'
    BY <1>3, RetryAcks
<1>4. ASSUME NEW c \in menu, CrashAfterAppend(c) PROVE AcksInv'
    BY <1>4, CrashAfterAppendAcks
<1>5. CASE SealBlock
    BY <1>5, SealAcks
<1>6. CASE Crash
    BY <1>6, CrashAcks
<1>7. ASSUME NEW c \in menu, BeginRequest(c) PROVE AcksInv'
    BY <1>7, StillAcks DEF BeginRequest
<1>8. ASSUME NEW r \in requests, SendRequest(r) \/ EndRequest(r) PROVE AcksInv'
    BY <1>8, StillAcks DEF SendRequest, EndRequest
<1>9. ASSUME NEW r \in requests, HandleRequest(r) PROVE AcksInv'
  <2>1. CASE Handle(r.command)
      BY <1>0, <2>1, HandleAcks
  <2>2. CASE UNCHANGED <<menu, live, snapshot, log, mode, acked, unlogged, verdict, crashes>>
      BY <2>2, StillAcks
  <2> QED BY <1>9, <2>1, <2>2 DEF HandleRequest
<1>10. CASE SupervisedRestart
    BY <1>10, EmptySequence, RestoreAcks DEF SupervisedRestart
<1>11. ASSUME NEW seeds \in {<<>>, Seeds}, ProcessStart(seeds) PROVE AcksInv'
  <2>1. RestoreWith(seeds)
      BY <1>11 DEF ProcessStart
  <2>2. IsSequence(seeds)
    <3>1. Seeds \in Seq(STRING)
        BY MenusAssumption
    <3>2. IsSequence(Seeds)
        BY <3>1, SequenceAny
    <3> QED BY <3>2, EmptySequence
  <2> QED BY <2>1, <2>2, RestoreAcks
<1> QED
    BY <1>1, <1>2, <1>3, <1>4, <1>5, <1>6, <1>7, <1>8, <1>9, <1>10, <1>11 DEF Next

(* Every answer that a client got holds of the live state, and of the state
   that the next restart gets from the block and the log. *)
THEOREM AcksInvariance == Spec => []AcksInv
<1>1. Init => AcksInv
    BY DEF Init, AcksInv
<1>2. ControlInv /\ AcksInv /\ [Next]_vars => AcksInv'
    BY NextAcks
<1> QED
    BY <1>1, <1>2, ControlInvariance, PTL DEF Spec

LEMMA AckedFromInv == AcksInv => AckedStable
<1> SUFFICES ASSUME AcksInv, mode = "up", unlogged # "lost" PROVE AckedStable
    BY DEF AckedStable
<1> DEFINE Stable(a) ==
        CASE a.command.op = "create_market" ->
                a.reply <= Len(live.markets) /\ live.markets[a.reply].name = a.command.name
          [] a.command.op \in {"resolve", "attest"} ->
                {p.payout : p \in {q \in live.payouts : q.market = a.command.market}}
                    = {a.command.payout}
          [] a.command.op = "register_feed" ->
                a.reply <= Len(live.feeds) /\ live.feeds[a.reply] = a.command.pubkey
          [] a.command.op \in {"provision", "public_account", "create_account"} ->
                a.reply \in Accounts(live)
          [] a.command.op = "api_create" ->
                live.accounts[a.command.account].api_keys[a.reply].hash = a.command.hash
          [] a.command.op = "api_revoke" ->
                ~live.accounts[a.command.account].api_keys[a.command.id].active
          [] OTHER -> TRUE
<1>1. ASSUME NEW a \in acked PROVE Stable(a)
  <2>1. PICK c, reply : c = a.command /\ reply = a.reply
      OBVIOUS
  <2>2. Holds(c, reply, live)
      BY <2>1 DEF AcksInv
  <2>3. CASE c.op = "create_market"
    <3>1. reply <= Len(live.markets) /\ live.markets[reply].name = c.name
        BY <2>2, <2>3 DEF Holds, MarketHolds
    <3> QED BY <2>1, <2>3, <3>1
  <2>4. CASE c.op \in {"resolve", "attest"}
    <3>1. {p.payout : p \in {q \in live.payouts : q.market = c.market}} = {c.payout}
        BY <2>2, <2>4 DEF Holds, PayoutHolds
    <3> QED BY <2>1, <2>4, <3>1
  <2>5. CASE c.op = "register_feed"
    <3>1. reply <= Len(live.feeds) /\ live.feeds[reply] = c.pubkey
        BY <2>2, <2>5 DEF Holds, FeedHolds
    <3> QED BY <2>1, <2>5, <3>1
  <2>6. CASE c.op \in {"provision", "public_account", "create_account"}
    <3>1. reply \in Accounts(live)
        BY <2>2, <2>6 DEF Holds
    <3> QED BY <2>1, <2>6, <3>1
  <2>7. CASE c.op = "api_create"
    <3>1. live.accounts[c.account].api_keys[reply].hash = c.hash
        BY <2>2, <2>7 DEF Holds, ApiKeyHolds
    <3> QED BY <2>1, <2>7, <3>1
  <2>8. CASE c.op = "api_revoke"
    <3>1. ~live.accounts[c.account].api_keys[c.id].active
        BY <2>2, <2>8 DEF Holds, ApiKeyEnded
    <3> QED BY <2>1, <2>8, <3>1
  <2>9. CASE c.op \notin {"create_market", "resolve", "attest", "register_feed", "provision",
                          "public_account", "create_account", "api_create", "api_revoke"}
      BY <2>1, <2>9
  <2> QED BY <2>3, <2>4, <2>5, <2>6, <2>7, <2>8, <2>9
<1> QED
    BY <1>1 DEF AckedStable

LEMMA RetriedSame ==
    ASSUME NEW s, StateOK(s), NEW c, NEW reply, Holds(c, reply, s)
    PROVE  /\ c.op = "create_market" /\ c.key # NoKey => Existing(s, c) = {reply}
           /\ c.op = "provision" => Existing(s, c) = {reply}
           /\ c.op = "create_group" /\ Cardinality(c.markets) > 1 /\ reply \in Nat =>
                 Existing(s, c) \subseteq 1..reply
           /\ c.op \in {"mm_replace", "mm_cancel"} =>
                 \/ Existing(s, c) = {reply}
                 \/ s.accounts[c.account].last_nonce > c.nonce
<1>0. Shape(s) /\ KeyedOnce(s) /\ GroupsOK(s) /\ ExistsAs(s, c)
    BY ExistsIs DEF StateOK
<1>1. ASSUME c.op = "create_market", c.key # NoKey PROVE Existing(s, c) = {reply}
  <2>1. MarketHolds(c, reply, s) /\ Existing(s, c) = ExistingMarket(s, c)
      BY <1>0, <1>1 DEF Holds, ExistsAs
  <2>2. reply \in ExistingMarket(s, c)
      BY <1>1, <2>1 DEF MarketHolds, ExistingMarket, SameKey
  <2>3. \A i \in ExistingMarket(s, c) : i \in 1..Len(s.markets) /\ s.markets[i].key = c.key
      BY DEF ExistingMarket, SameKey
  <2>4. \A i \in ExistingMarket(s, c) : i = reply
      BY <1>0, <1>1, <2>2, <2>3 DEF KeyedOnce
  <2> QED BY <2>1, <2>2, <2>4
<1>2. ASSUME c.op = "provision" PROVE Existing(s, c) = {reply}
  <2>1. PICK r \in s.receipts : r.key = c.key /\ r.request = c.request /\ r.account = reply
      BY <1>2 DEF Holds, ReceiptHolds
  <2>2. \A q \in ReceiptFor(s, c) : q = r
      BY <1>0, <2>1 DEF ReceiptFor, KeyedOnce
  <2>3. {x \in ReceiptFor(s, c) : x.request = c.request} = {r}
      BY <2>1, <2>2 DEF ReceiptFor
  <2> QED BY <1>0, <1>2, <2>1, <2>3 DEF ExistsAs
<1>3. ASSUME c.op = "create_group", Cardinality(c.markets) > 1, reply \in Nat
      PROVE  Existing(s, c) \subseteq 1..reply
  <2>1. GroupHolds(c, reply, s) /\ Existing(s, c) = ExistingGroup(s, c)
      BY <1>0, <1>3 DEF Holds, ExistsAs
  <2>2. ASSUME NEW i \in ExistingGroup(s, c) PROVE i \in 1..reply
    <3>1. /\ i \in GroupIds(s) /\ c.key # NoKey /\ s.groups[i].key = c.key
          /\ s.groups[i].markets = c.markets
        BY DEF ExistingGroup, SameKey, GroupIds
    <3>2. c.markets \cap Resolved(s) = {}
        BY <1>0, <3>1 DEF GroupsOK
    <3>3. PICK g \in GroupIds(s) : g <= reply /\ s.groups[g].key = c.key
        BY <1>3, <2>1, <3>1, <3>2 DEF GroupHolds
    <3>4. g = i
        BY <1>0, <3>1, <3>3 DEF KeyedOnce, GroupIds
    <3> QED BY <1>3, <3>1, <3>3, <3>4 DEF GroupIds
  <2> QED BY <2>1, <2>2
<1>4. ASSUME c.op \in {"mm_replace", "mm_cancel"}
      PROVE  Existing(s, c) = {reply} \/ s.accounts[c.account].last_nonce > c.nonce
  <2>1. MmHolds(c, reply, s) /\ Existing(s, c) = MmRetry(s, c)
      BY <1>0, <1>4 DEF Holds, ExistsAs
  <2>2. ASSUME NEW r \in s.mm_receipts, r.account = c.account, r.nonce = c.nonce, r.command = c,
               r.reply = reply
        PROVE  MmRetry(s, c) = {reply}
    <3>1. \A q \in MmReceipt(s, c.account) : q = r
        BY <1>0, <2>2 DEF MmReceipt, KeyedOnce
    <3>2. {x \in MmReceipt(s, c.account) : x.nonce = c.nonce /\ x.command = c} = {r}
        BY <2>2, <3>1 DEF MmReceipt
    <3> QED BY <2>2, <3>2 DEF MmRetry
  <2> QED BY <2>1, <2>2 DEF MmHolds
<1> QED
    BY <1>1, <1>2, <1>3, <1>4

LEMMA RetryFromInv == ControlInv /\ AcksInv => RetryStable
<1> SUFFICES ASSUME ControlInv, AcksInv, mode = "up", unlogged # "lost" PROVE RetryStable
    BY DEF RetryStable
<1> DEFINE Stable(a) ==
        CASE a.command.op = "create_market" /\ a.command.key # NoKey ->
                Existing(live, a.command) = {a.reply}
          [] a.command.op = "provision" -> Existing(live, a.command) = {a.reply}
          [] a.command.op = "create_group" /\ Cardinality(a.command.markets) > 1 ->
                Existing(live, a.command) \subseteq 1..a.reply
          [] a.command.op \in {"mm_replace", "mm_cancel"} ->
                \/ Existing(live, a.command) = {a.reply}
                \/ live.accounts[a.command.account].last_nonce > a.command.nonce
          [] OTHER -> TRUE
<1>1. ASSUME NEW a \in acked PROVE Stable(a)
  <2>1. PICK c, reply : c = a.command /\ reply = a.reply
      OBVIOUS
  <2>2. Holds(c, reply, live) /\ AckOK(a) /\ StateOK(live)
      BY <2>1 DEF AcksInv, ControlInv, StatesOK
  <2>3. /\ c.op = "create_market" /\ c.key # NoKey => Existing(live, c) = {reply}
        /\ c.op = "provision" => Existing(live, c) = {reply}
        /\ c.op = "create_group" /\ Cardinality(c.markets) > 1 /\ reply \in Nat =>
              Existing(live, c) \subseteq 1..reply
        /\ c.op \in {"mm_replace", "mm_cancel"} =>
              \/ Existing(live, c) = {reply}
              \/ live.accounts[c.account].last_nonce > c.nonce
      BY <2>2, RetriedSame
  <2>4. c.op = "create_group" => reply \in Nat
      BY <2>1, <2>2 DEF AckOK
  <2>5. CASE c.op = "create_market" /\ c.key # NoKey
      BY <2>1, <2>3, <2>5
  <2>6. CASE c.op = "provision"
      BY <2>1, <2>3, <2>6
  <2>7. CASE c.op = "create_group" /\ Cardinality(c.markets) > 1
      BY <2>1, <2>3, <2>4, <2>7
  <2>8. CASE c.op \in {"mm_replace", "mm_cancel"}
      BY <2>1, <2>3, <2>8
  <2>9. CASE /\ ~(c.op = "create_market" /\ c.key # NoKey) /\ c.op # "provision"
             /\ ~(c.op = "create_group" /\ Cardinality(c.markets) > 1)
             /\ c.op \notin {"mm_replace", "mm_cancel"}
      BY <2>1, <2>9
  <2> QED BY <2>5, <2>6, <2>7, <2>8, <2>9
<1> QED
    BY <1>1 DEF RetryStable

(* What a client was told holds after any number of blocks, crashes and
   restarts, though ids are given again by replaying the log. *)
THEOREM AnswersHold == Spec => []AckedStable
    BY AcksInvariance, AckedFromInv, PTL

(* A keyed command that was answered is recognised ever after, and answered
   with the id of its first answer; the id of a group may only move down. *)
THEOREM RetriesRecognised == Spec => []RetryStable
    BY ControlInvariance, AcksInvariance, RetryFromInv, PTL

-----------------------------------------------------------------------------
(* Key operations are counted alike, live and at replay, and API keys too *)

Opening == {"provision", "public_account", "create_account"}
KeyOps == {"register_key", "revoke_key"}
ApiOps == {"api_create", "api_revoke"}

KeysNext(c, keys) ==
    IF c.op = "api_create" THEN Append(keys, [hash |-> c.hash, active |-> TRUE])
    ELSE [keys EXCEPT ![c.id].active = FALSE]

(* What a row does to the accounts' chains and API keys follows from its command
   alone. *)
ChainStep(s, c, t) ==
    /\ Accounts(t) = IF c.op \in Opening THEN 1..(Len(s.accounts) + 1) ELSE Accounts(s)
    /\ \A a \in Accounts(s) :
          t.accounts[a].chain = IF c.op \in KeyOps /\ a = c.account
                                  THEN s.accounts[a].chain + 1 ELSE s.accounts[a].chain
    /\ \A a \in Accounts(s) :
          t.accounts[a].api_keys = IF c.op \in ApiOps /\ a = c.account
                                     THEN KeysNext(c, s.accounts[a].api_keys)
                                     ELSE s.accounts[a].api_keys
    /\ c.op \in Opening => /\ t.accounts[Len(s.accounts) + 1].chain = 0
                           /\ t.accounts[Len(s.accounts) + 1].api_keys = <<>>

LEMMA ChainsSteady ==
    ASSUME NEW s, Shape(s), NEW t, NEW a \in Accounts(s), NEW F, Changes(s, t, a, F), "chain" \notin F,
           "api_keys" \notin F, NEW c, c.op \notin Opening, c.op \notin KeyOps, c.op \notin ApiOps
    PROVE  ChainStep(s, c, t)
<1>1. Accounts(t) = Accounts(s) /\ \A b \in Accounts(s) : b # a => t.accounts[b] = s.accounts[b]
    BY AccountsKept
<1>2. t.accounts[a].chain = s.accounts[a].chain /\ t.accounts[a].api_keys = s.accounts[a].api_keys
    BY DEF Changes, AccountFields
<1> QED
    BY <1>1, <1>2 DEF ChainStep

LEMMA ChainsStep ==
    ASSUME NEW s, Shape(s), NEW row, NEW c, c = row.command, NEW t, Effect(s, row, t)
    PROVE  ChainStep(s, c, t)
<1>1. CASE Opens(s, row, t)
  <2>1. Longer(s.accounts, Fresh, t.accounts) /\ Fresh.chain = 0 /\ Fresh.api_keys = <<>>
      BY <1>1, AccountsAfter DEF Fresh
  <2>2. c.op \in Opening /\ c.op \notin KeyOps /\ c.op \notin ApiOps
      BY <1>1 DEF Opens, Opening, KeyOps, ApiOps
  <2>3. /\ Accounts(t) = 1..(Len(s.accounts) + 1) /\ t.accounts[Len(s.accounts) + 1] = Fresh
        /\ \A a \in Accounts(s) : t.accounts[a] = s.accounts[a]
      BY <2>1 DEF Longer, Accounts
  <2> QED BY <2>1, <2>2, <2>3 DEF ChainStep
<1>2. CASE \/ (t = s /\ Idle(s, c)) \/ MakesMarket(s, c, t) \/ MakesGroup(s, c, t) \/ Extends(s, c, t)
           \/ Settles(s, c, t) \/ AddsFeed(s, c, t) \/ Installs(s, c, t)
           \/ AddsFirstKey(s, c, t)
  <2>1. t.accounts = s.accounts
      BY <1>2 DEF MakesMarket, MakesGroup, Extends, Settles, AddsFeed, Installs, AddsFirstKey,
             Keeps, Fields
  <2>2. c.op \notin Opening /\ c.op \notin KeyOps /\ c.op \notin ApiOps
      BY <1>2 DEF MakesMarket, MakesGroup, Extends, Settles, AddsFeed, Installs, AddsFirstKey,
             Idle, Opening, KeyOps, ApiOps
  <2> QED BY <2>1, <2>2 DEF ChainStep, Accounts
<1>3. CASE Renames(s, c, t) \/ Funds(s, c, t) \/ Advances(s, c, t) \/ Quotes(s, row, t)
  <2>1. \/ Changes(s, t, c.account, {"profile"}) \/ Changes(s, t, c.account, {"balance"})
        \/ Changes(s, t, c.account, {"last_nonce"})
      BY <1>3 DEF Renames, Funds, Advances, Quotes
  <2>2. c.account \in Accounts(s)
      BY <1>3 DEF Renames, Funds, Advances, Quotes, FreshNonce
  <2>3. c.op \notin Opening /\ c.op \notin KeyOps /\ c.op \notin ApiOps
      BY <1>3 DEF Renames, Funds, Advances, Quotes, Opening, KeyOps, ApiOps
  <2>4. \A f \in {"chain", "api_keys"} :
           f \notin {"profile"} /\ f \notin {"balance"} /\ f \notin {"last_nonce"}
      OBVIOUS
  <2> QED BY <2>1, <2>2, <2>3, <2>4, ChainsSteady
<1>4. CASE MakesApiKey(s, c, t) \/ RevokesApiKey(s, c, t)
  <2>1. Changes(s, t, c.account, {"api_keys"}) /\ c.account \in Accounts(s)
      BY <1>4 DEF MakesApiKey, RevokesApiKey, CanCreateApiKey, CanRevokeApiKey
  <2>2. c.op \notin Opening /\ c.op \notin KeyOps /\ c.op \in ApiOps
      BY <1>4 DEF MakesApiKey, RevokesApiKey, Opening, KeyOps, ApiOps
  <2>3. /\ Accounts(t) = Accounts(s)
        /\ \A b \in Accounts(s) : b # c.account => t.accounts[b] = s.accounts[b]
      BY <2>1, AccountsKept
  <2>4. t.accounts[c.account].chain = s.accounts[c.account].chain
      BY <2>1 DEF Changes, AccountFields
  <2>5. t.accounts[c.account].api_keys = KeysNext(c, s.accounts[c.account].api_keys)
      BY <1>4 DEF MakesApiKey, RevokesApiKey, KeysNext
  <2> QED BY <2>2, <2>3, <2>4, <2>5 DEF ChainStep
<1>5. CASE OperatesKey(s, c, t)
  <2>1. /\ Changes(s, t, c.account, {"chain"}) /\ c.account \in Accounts(s)
        /\ t.accounts[c.account].chain = s.accounts[c.account].chain + 1
        /\ t.accounts[c.account].api_keys = s.accounts[c.account].api_keys
      BY <1>5 DEF OperatesKey, Changes, AccountFields
  <2>2. c.op \notin Opening /\ c.op \in KeyOps /\ c.op \notin ApiOps
      BY <1>5 DEF OperatesKey, Opening, KeyOps, ApiOps
  <2>3. /\ Accounts(t) = Accounts(s)
        /\ \A b \in Accounts(s) : b # c.account => t.accounts[b] = s.accounts[b]
      BY <2>1, AccountsKept
  <2> QED BY <2>1, <2>2, <2>3 DEF ChainStep
<1> QED
    BY <1>1, <1>2, <1>3, <1>4, <1>5 DEF Effect

LEMMA ChainsInStep ==
    ASSUME NEW s, Shape(s), NEW u, Shape(u), SameChains(s, u), NEW c,
           NEW t, ChainStep(s, c, t), NEW v, ChainStep(u, c, v)
    PROVE  SameChains(t, v)
<1>1. Len(s.accounts) \in Nat /\ Len(u.accounts) \in Nat
    BY SequenceIs DEF Shape
<1>2. Len(s.accounts) = Len(u.accounts)
    BY <1>1 DEF SameChains, Accounts
<1>3. Accounts(t) = Accounts(v)
    BY <1>2 DEF ChainStep, SameChains
<1>4. \A a \in Accounts(s) : /\ t.accounts[a].chain = v.accounts[a].chain
                             /\ t.accounts[a].api_keys = v.accounts[a].api_keys
    BY DEF ChainStep, SameChains
<1>5. CASE c.op \notin Opening
  <2>1. Accounts(t) = Accounts(s)
      BY <1>5 DEF ChainStep
  <2> QED BY <1>3, <1>4, <2>1 DEF SameChains
<1>6. CASE c.op \in Opening
  <2>1. Accounts(t) = 1..(Len(s.accounts) + 1)
      BY <1>6 DEF ChainStep
  <2>2. /\ t.accounts[Len(s.accounts) + 1].chain = 0 /\ v.accounts[Len(s.accounts) + 1].chain = 0
        /\ t.accounts[Len(s.accounts) + 1].api_keys = <<>>
        /\ v.accounts[Len(s.accounts) + 1].api_keys = <<>>
      BY <1>2, <1>6 DEF ChainStep
  <2>3. \A a \in Accounts(t) : a \in Accounts(s) \/ a = Len(s.accounts) + 1
      BY <1>1, <2>1 DEF Accounts
  <2> QED BY <1>3, <1>4, <2>2, <2>3 DEF SameChains
<1> QED
    BY <1>5, <1>6

(* A step of a replay that succeeds applies its row. *)
LEMMA OkNext ==
    ASSUME NEW r, StateOK(r.st), NEW row, RowOK(row), NEW q, q = ApplyNext(r, row), q.ok
    PROVE  r.ok /\ Effect(r.st, row, q.st) /\ ChainStep(r.st, row.command, q.st)
<1>1. r.ok /\ Applicable(r.st, row) /\ q.st = Apply(r.st, row)
    BY NextIs DEF NextStep
<1>2. Shape(r.st) /\ row.command.op \in Ops \cup {"nonce"}
    BY DEF StateOK, RowOK
<1>3. Effect(r.st, row, q.st)
    BY <1>1, <1>2, EffectOf
<1> QED
    BY <1>1, <1>2, <1>3, ChainsStep

LEMMA ChainsLockstep ==
    ASSUME NEW b, RowsOK(b), NEW r, StateOK(r.st), NEW q, StateOK(q.st), SameChains(r.st, q.st),
           NEW u, ReplayTrace(u, r, b), NEW v, ReplayTrace(v, q, b), u[Len(b)].ok, v[Len(b)].ok
    PROVE  SameChains(u[Len(b)].st, v[Len(b)].st)
<1> DEFINE n == Len(b)
           good == {k \in 0..n : /\ StateOK(u[k].st) /\ StateOK(v[k].st)
                                 /\ u[k].ok /\ v[k].ok => SameChains(u[k].st, v[k].st)}
<1>1. n \in Nat
    BY SequenceIs DEF RowsOK
<1>2. 0 \in good
    BY <1>1 DEF ReplayTrace
<1>3. ASSUME NEW k \in 1..n, k - 1 \in good PROVE k \in good
  <2>1. /\ StateOK(u[k - 1].st) /\ StateOK(v[k - 1].st) /\ k \in 0..n
        /\ u[k - 1].ok /\ v[k - 1].ok => SameChains(u[k - 1].st, v[k - 1].st)
      BY <1>1, <1>3
  <2>2. /\ u[k] = ApplyNext(u[k - 1], b[k]) /\ v[k] = ApplyNext(v[k - 1], b[k]) /\ RowOK(b[k])
      BY DEF ReplayTrace, RowsOK
  <2>3. StateOK(u[k].st) /\ StateOK(v[k].st)
      BY <2>1, <2>2, NextOnward DEF Onward
  <2>4. ASSUME u[k].ok, v[k].ok PROVE SameChains(u[k].st, v[k].st)
    <3>1. /\ u[k - 1].ok /\ ChainStep(u[k - 1].st, b[k].command, u[k].st)
          /\ v[k - 1].ok /\ ChainStep(v[k - 1].st, b[k].command, v[k].st)
        BY <2>1, <2>2, <2>4, OkNext
    <3> QED BY <2>1, <3>1, ChainsInStep DEF StateOK
  <2> QED BY <2>1, <2>3, <2>4
<1> HIDE DEF good, n
<1>4. n \in good
    BY <1>1, <1>2, <1>3, CountUp
<1> QED
    BY <1>4 DEF good, n

LEMMA BeforeUp ==
    ASSUME NEW s, Shape(s), NEW t, Shape(t), CountersUp(s, t), RevokedBefore(s)
    PROVE  RevokedBefore(t)
<1> SUFFICES ASSUME NEW a \in acked, a.command.op = "revoke_key"
             PROVE  /\ a.command.account \in Accounts(t) /\ a.command.bound \in Nat
                    /\ t.accounts[a.command.account].chain > a.command.bound
    BY DEF RevokedBefore
<1>1. PICK b, n : b = a.command.account /\ n = a.command.bound
    OBVIOUS
<1>2. b \in Accounts(s) /\ n \in Nat /\ s.accounts[b].chain > n
    BY <1>1 DEF RevokedBefore
<1>3. b \in Accounts(t) /\ t.accounts[b].chain >= s.accounts[b].chain
    BY <1>2 DEF CountersUp
<1>4. t.accounts[b].chain \in Nat /\ s.accounts[b].chain \in Nat
    BY <1>2, <1>3 DEF Shape, AccountOK
<1>5. t.accounts[b].chain > n
    BY <1>2, <1>3, <1>4
<1> QED
    BY <1>1, <1>2, <1>3, <1>5

LEMMA BeforeSame ==
    ASSUME NEW s, NEW t, SameChains(s, t)
    PROVE  RevokedBefore(s) <=> RevokedBefore(t)
BY DEF SameChains, RevokedBefore

LEMMA SeedKeeps ==
    ASSUME NEW st, StateOK(st), NEW names, IsSequence(names)
    PROVE  Seed(st, names).accounts = st.accounts /\ Seed(st, names).bundles = st.bundles
<1>1. PICK tr : SeedTrace(tr, st, names) /\ Seed(st, names) = tr[Len(names)]
    BY SeededTrace
<1> DEFINE n == Len(names)
           good == {k \in 0..n : /\ StateOK(tr[k]) /\ tr[k].accounts = st.accounts
                                 /\ tr[k].bundles = st.bundles}
<1>2. n \in Nat
    BY SequenceIs
<1>3. 0 \in good
    BY <1>1, <1>2 DEF SeedTrace
<1>4. ASSUME NEW k \in 1..n, k - 1 \in good PROVE k \in good
  <2>1. /\ StateOK(tr[k - 1]) /\ tr[k - 1].accounts = st.accounts /\ k \in 0..n
        /\ tr[k - 1].bundles = st.bundles
      BY <1>2, <1>4
  <2>2. tr[k] = SeedMarket(tr[k - 1], names[k])
      BY <1>1 DEF SeedTrace
  <2>3. /\ Onward(tr[k - 1], tr[k])
        /\ \/ tr[k] = tr[k - 1]
           \/ \E row : MakesMarket(tr[k - 1], row.command, tr[k])
      BY <2>1, <2>2, SeedNext
  <2>4. StateOK(tr[k])
      BY <2>3 DEF Onward
  <2>5. tr[k].accounts = tr[k - 1].accounts /\ tr[k].bundles = tr[k - 1].bundles
      BY <2>3 DEF MakesMarket, Keeps, Fields
  <2> QED BY <2>1, <2>4, <2>5
<1> HIDE DEF good, n
<1>5. n \in good
    BY <1>2, <1>3, <1>4, CountUp
<1> QED
    BY <1>1, <1>5 DEF good, n

LEMMA SameAccounts ==
    ASSUME NEW s, NEW t, t.accounts = s.accounts
    PROVE  SameChains(s, t)
BY DEF SameChains, Accounts

LEMMA ReplayedOK ==
    ASSUME StatesOK
    PROVE  StateOK(Replayed.st)
<1>1. PICK s0 : s0 = [snapshot EXCEPT !.index = {}]
    OBVIOUS
<1>2. DOMAIN snapshot = Fields
    BY FieldsOf DEF StatesOK, StateOK
<1>3. Keeps(snapshot, s0, {"index"})
    BY <1>1, <1>2, ReindexedIs
<1>4. Keeps(snapshot, s0, Passing)
    BY <1>3 DEF Keeps, Passing
<1>5. StateOK(s0) /\ RowsOK(log)
    BY <1>4, BooksSame DEF StatesOK
<1> QED
    BY <1>1, <1>5, ReplayOnward DEF Replayed, Onward

LEMMA NothingLogged ==
    ASSUME DOMAIN snapshot = Fields, log = <<>>
    PROVE  SameChains(Replayed.st, snapshot)
<1>1. PICK s0 : s0 = [snapshot EXCEPT !.index = {}]
    OBVIOUS
<1>2. Replayed = [ok |-> TRUE, st |-> s0]
    BY <1>1, ApplyNone DEF Replayed
<1>3. Replayed.st = s0 /\ s0.accounts = snapshot.accounts
    BY <1>1, <1>2 DEF Fields
<1> QED
    BY <1>3, SameAccounts

LEMMA InitChains == Init => ChainsInv
<1> SUFFICES ASSUME Init PROVE ChainsInv
    OBVIOUS
<1>1. ControlInv /\ snapshot = live /\ log = <<>> /\ mode = "up" /\ acked = {}
    BY InitControl DEF Init
<1>2. DOMAIN snapshot = Fields
    BY <1>1, FieldsOf DEF ControlInv, StatesOK, StateOK
<1>3. SameChains(Replayed.st, live)
    BY <1>1, <1>2, NothingLogged
<1>4. RevokedBefore(live)
    BY <1>1 DEF RevokedBefore
<1> QED
    BY <1>1, <1>3, <1>4 DEF ChainsInv

(* The rows of a handler count alike, live and at the end of the log. *)
LEMMA HandleChains ==
    ASSUME ControlInv, ChainsInv, NEW c \in menu, Handle(c)
    PROVE  ChainsInv'
<1>1. c \in Commands /\ c.op \in Ops
    BY DEF ControlInv, ClientsOK
<1>2. mode = "up" /\ Admissible(live, c) /\ Existing(live, c) = {}
    BY DEF Handle, Submittable, Room
<1>3. PICK rows : rows = Rows(live, c)
    OBVIOUS
<1>4. PICK r : r = ApplyAll(live, rows)
    OBVIOUS
<1>5. /\ live' = r.st /\ mode' = mode /\ log' = log \o rows /\ snapshot' = snapshot
      /\ IF r.ok THEN Ack(c, Reply(r.st, rows[Len(rows)])) ELSE acked' = acked
    BY <1>3, <1>4 DEF Handle
<1>6. /\ StateOK(live) /\ Shape(live) /\ RowsOK(rows) /\ StatesOK
      /\ IsSequence(rows) /\ IsSequence(log) /\ RowsOK(log)
    BY <1>1, <1>2, <1>3, RowsAre DEF ControlInv, StatesOK, StateOK, RowsOK
<1>7. Onward(live, live')
    BY <1>4, <1>5, <1>6, ReplayOnward
<1>8. Shape(live') /\ CountersUp(live, live')
    BY <1>7 DEF Onward, StateOK
<1>9. RevokedBefore(live')
    BY <1>2, <1>6, <1>8, BeforeUp DEF ChainsInv
<1>10. r.ok \/ c.op = "first_key"
    BY <1>1, <1>2, <1>3, <1>4, <1>6, AdmittedRowsApply
<1>11. RevokedBefore(live)'
  <2> SUFFICES ASSUME NEW a \in acked', a.command.op = "revoke_key"
               PROVE  /\ a.command.account \in Accounts(live') /\ a.command.bound \in Nat
                      /\ live'.accounts[a.command.account].chain > a.command.bound
      BY DEF RevokedBefore
  <2>1. CASE a \in acked
      BY <1>9, <2>1 DEF RevokedBefore
  <2>2. CASE a \notin acked
    <3>1. r.ok /\ a = [command |-> c, reply |-> Reply(r.st, rows[Len(rows)])]
        BY <1>5, <2>2 DEF Ack
    <3>2. a.command = c /\ c.op = "revoke_key"
        BY <3>1
    <3>3. PICK row : row = Row(live, c)
        OBVIOUS
    <3>4. rows = <<row>> /\ row.command = c
        BY <1>1, <1>3, <3>2, <3>3, RowsAre, RowFields DEF TwoRowOps
    <3>5. KeyOpSigned(live, c) /\ CanRevoke(live, c)
        BY <1>2, <3>2, Admits DEF AdmissibleAs
    <3>6. c.account \in Accounts(live) /\ c.bound = live.accounts[c.account].chain
        BY <3>5 DEF KeyOpSigned
    <3>7. PICK q : q = [ok |-> TRUE, st |-> live]
        OBVIOUS
    <3>8. q.st = live /\ r = ApplyNext(q, row)
        BY <1>4, <3>4, <3>7, ApplyOne
    <3>9. RowOK(row)
        BY <1>1, <3>2, <3>4 DEF RowOK, NonceOps
    <3>10. ChainStep(live, c, live')
        BY <1>5, <1>6, <3>1, <3>4, <3>8, <3>9, OkNext
    <3>11. /\ c.account \in Accounts(live')
           /\ live'.accounts[c.account].chain = live.accounts[c.account].chain + 1
      <4>1. c.op \in KeyOps /\ c.op \notin Opening
          BY <3>2 DEF KeyOps, Opening
      <4> QED BY <3>6, <3>10, <4>1 DEF ChainStep
    <3>12. live.accounts[c.account].chain \in Nat
        BY <1>6, <3>6 DEF Shape, AccountOK
    <3>13. c.bound \in Nat /\ live'.accounts[c.account].chain > c.bound
        BY <3>6, <3>11, <3>12
    <3> QED BY <3>2, <3>11, <3>13
  <2> QED BY <2>1, <2>2
<1>12. ASSUME Replayed'.ok PROVE SameChains(Replayed'.st, live')
  <2>1. PICK s0 : s0 = [snapshot EXCEPT !.index = {}]
      OBVIOUS
  <2>2. PICK q : q = ApplyAll(s0, log)
      OBVIOUS
  <2>3. Replayed = q /\ Replayed' = ApplyAll(s0, log \o rows)
      BY <1>5, <2>1, <2>2 DEF Replayed
  <2>4. q.ok
      BY <1>6, <1>12, <2>2, <2>3, Stuck
  <2>5. SameChains(q.st, live) /\ StateOK(q.st)
      BY <1>2, <1>6, <2>3, <2>4, ReplayedOK DEF ChainsInv
  <2>6. PICK u : ReplayTrace(u, q, rows) /\ Replayed' = u[Len(rows)]
      BY <1>6, <2>2, <2>3, ApplyConcat
  <2>7. CASE r.ok
    <3>1. PICK p : p = [ok |-> TRUE, st |-> live]
        OBVIOUS
    <3>2. PICK v : ReplayTrace(v, p, rows) /\ r = v[Len(rows)]
        BY <1>4, <1>6, <3>1, ApplyTrace
    <3>3. p.st = live
        BY <3>1
    <3> QED BY <1>5, <1>6, <1>12, <2>5, <2>6, <2>7, <3>2, <3>3, ChainsLockstep
  <2>8. CASE ~r.ok
    <3>1. PICK row : row = Row(live, c)
        OBVIOUS
    <3>2. c.op = "first_key"
        BY <1>10, <2>8
    <3>3. rows = <<row>> /\ row.command = c
        BY <1>1, <1>3, <3>1, <3>2, RowsAre, RowFields DEF TwoRowOps
    <3>4. Len(rows) = 1 /\ rows[1] = row /\ RowOK(row)
      <4>1. Len(rows) = 1 /\ rows[1] = row
          BY <3>3, OneRow
      <4>2. 1 \in 1..Len(rows)
          BY <4>1
      <4> QED BY <1>6, <4>1, <4>2 DEF RowsOK
    <3>5. u[0] = q /\ u[1] = ApplyNext(u[0], row)
      <4>1. u[0] = q /\ u[1] = ApplyNext(u[1 - 1], rows[1]) /\ 1 - 1 = 0
          BY <2>6, <3>4 DEF ReplayTrace
      <4> QED BY <3>4, <4>1
    <3>6. PICK w : w = u[1]
        OBVIOUS
    <3>7. w = ApplyNext(q, row) /\ w = Replayed'
        BY <2>6, <3>4, <3>5, <3>6
    <3>8. ChainStep(q.st, c, Replayed'.st)
        BY <1>12, <2>5, <3>3, <3>4, <3>7, OkNext
    <3>9. SameChains(q.st, Replayed'.st)
      <4>1. c.op \notin KeyOps /\ c.op \notin Opening /\ c.op \notin ApiOps
          BY <3>2 DEF KeyOps, Opening, ApiOps
      <4> QED BY <3>8, <4>1 DEF ChainStep, SameChains
    <3>10. live' = live
      <4>1. PICK p : p = [ok |-> TRUE, st |-> live]
          OBVIOUS
      <4>2. p.st = live /\ r = ApplyNext(p, row)
          BY <1>4, <3>3, <4>1, ApplyOne
      <4>3. NextStep(p, row, r)
          BY <4>2, NextIs
      <4> QED BY <1>5, <2>8, <4>2, <4>3 DEF NextStep
    <3> QED BY <2>5, <3>9, <3>10 DEF SameChains
  <2> QED BY <2>7, <2>8
<1> QED
    BY <1>2, <1>5, <1>11, <1>12 DEF ChainsInv

LEMMA RetryChains ==
    ASSUME ControlInv, ChainsInv, NEW c \in menu, Retry(c)
    PROVE  ChainsInv'
<1>1. /\ mode = "up" /\ mode' = "up" /\ live' = live /\ snapshot' = snapshot /\ log' = log
    BY DEF Retry
<1>2. PICK reply \in Existing(live, c) : Ack(c, reply)
    BY DEF Retry
<1>3. c.op # "revoke_key"
    BY <1>2, ExistsIs DEF ExistsAs
<1>4. \A a \in acked' : a \in acked \/ a.command = c
    BY <1>2 DEF Ack
<1>5. RevokedBefore(live)'
    BY <1>1, <1>3, <1>4 DEF ChainsInv, RevokedBefore
<1>6. Replayed' = Replayed
    BY <1>1 DEF Replayed
<1> QED
    BY <1>1, <1>5, <1>6 DEF ChainsInv

LEMMA StillChains ==
    ASSUME ChainsInv, UNCHANGED <<live, snapshot, log, mode, acked>>
    PROVE  ChainsInv'
<1>1. Replayed' = Replayed
    BY DEF Replayed
<1> QED
    BY <1>1 DEF ChainsInv, RevokedBefore

LEMMA SealChains == ASSUME ControlInv, ChainsInv, SealBlock PROVE ChainsInv'
<1>1. /\ mode = "up" /\ mode' = "up" /\ acked' = acked /\ live' = Sealed(live)
      /\ snapshot' = live' /\ log' = <<>>
    BY DEF SealBlock
<1>2. live'.accounts = live.accounts
    BY <1>1, SealedIs DEF ControlInv, StatesOK
<1>3. RevokedBefore(live)'
    BY <1>1, <1>2 DEF ChainsInv, RevokedBefore, Accounts
<1>4. DOMAIN snapshot' = Fields
    BY <1>1, SealControl, FieldsOf DEF ControlInv, StatesOK, StateOK
<1>6. SameChains(Replayed'.st, snapshot')
  <2>1. PICK s0 : s0 = [snapshot' EXCEPT !.index = {}]
      OBVIOUS
  <2>2. Replayed' = [ok |-> TRUE, st |-> s0]
      BY <1>1, <2>1, ApplyNone DEF Replayed
  <2>3. Replayed'.st = s0 /\ s0.accounts = snapshot'.accounts
      BY <1>4, <2>1, <2>2 DEF Fields
  <2> QED BY <2>3, SameAccounts DEF SameChains
<1> QED
    BY <1>1, <1>3, <1>6 DEF ChainsInv

LEMMA CrashChains == ASSUME ControlInv, ChainsInv, Crash PROVE ChainsInv'
<1>1. /\ mode = "up" /\ mode' = "down" /\ log' = log /\ snapshot' = snapshot /\ acked' = acked
    BY DEF Crash, Down
<1>2. Replayed' = Replayed
    BY <1>1 DEF Replayed
<1>3. Replayed.ok => RevokedBefore(Replayed.st)
    BY <1>1, BeforeSame DEF ChainsInv
<1>4. Replayed'.ok => RevokedBefore(Replayed.st)'
    BY <1>1, <1>2, <1>3 DEF RevokedBefore
<1> QED
    BY <1>1, <1>4 DEF ChainsInv

LEMMA CrashAfterAppendChains ==
    ASSUME ControlInv, ChainsInv, NEW c \in menu, CrashAfterAppend(c)
    PROVE  ChainsInv'
<1>1. mode = "up" /\ mode' = "down" /\ snapshot' = snapshot /\ acked' = acked
    BY DEF CrashAfterAppend, Down, Submittable, Room
<1>2. PICK rows : rows = Rows(live, c)
    OBVIOUS
<1>3. PICK n \in 1..Len(rows) : log' = log \o SubSeq(rows, 1, n)
    BY <1>2 DEF CrashAfterAppend
<1>4. RowsOK(rows)
    BY <1>2, RowsAre DEF ControlInv, ClientsOK
<1>5. PICK some : some = SubSeq(rows, 1, n)
    OBVIOUS
<1>6. RowsOK(some) /\ IsSequence(some) /\ IsSequence(log) /\ StatesOK
    BY <1>4, <1>5, PrefixOK DEF RowsOK, ControlInv, StatesOK
<1>7. ASSUME Replayed'.ok PROVE RevokedBefore(Replayed'.st)
  <2>1. PICK s0 : s0 = [snapshot EXCEPT !.index = {}]
      OBVIOUS
  <2>2. PICK q : q = ApplyAll(s0, log)
      OBVIOUS
  <2>3. Replayed = q /\ Replayed' = ApplyAll(s0, log \o some)
      BY <1>1, <1>3, <1>5, <2>1, <2>2 DEF Replayed
  <2>4. q.ok
      BY <1>6, <1>7, <2>2, <2>3, Stuck
  <2>5. RevokedBefore(q.st) /\ StateOK(q.st)
      BY <1>1, <1>6, <2>3, <2>4, ReplayedOK, BeforeSame DEF ChainsInv
  <2>6. PICK u : ReplayTrace(u, q, some) /\ Replayed' = u[Len(some)]
      BY <1>6, <2>2, <2>3, ApplyConcat
  <2>7. Onward(q.st, Replayed'.st)
      BY <1>6, <2>5, <2>6, TraceOnward
  <2> QED BY <2>5, <2>7, BeforeUp DEF Onward, StateOK
<1>8. Replayed'.ok => RevokedBefore(Replayed.st)'
    BY <1>1, <1>7 DEF RevokedBefore
<1> QED
    BY <1>1, <1>8 DEF ChainsInv

LEMMA RestoreChains ==
    ASSUME ControlInv, ChainsInv, NEW seeds, IsSequence(seeds), RestoreWith(seeds)
    PROVE  ChainsInv'
<1>1. PICK r : r = Replay(snapshot, log)
    OBVIOUS
<1>2. r.ok = Replayed.ok /\ Restored(r.st)
    BY <1>1, ReplayGives DEF ControlInv
<1>3. acked' = acked /\ mode = "down" /\ snapshot' = snapshot /\ log' = log
    BY DEF RestoreWith
<1>4. /\ mode' = IF r.ok THEN "up" ELSE "refused"
      /\ live' = IF r.ok THEN Seed(r.st, seeds) ELSE live
    BY <1>1 DEF RestoreWith
<1>5. CASE ~r.ok
  <2>1. mode' = "refused"
      BY <1>4, <1>5
  <2> QED BY <2>1 DEF ChainsInv
<1>6. CASE r.ok
  <2>1. live' = Seed(r.st, seeds) /\ mode' = "up"
      BY <1>4, <1>6
  <2>2. live'.accounts = r.st.accounts
      BY <1>2, <2>1, SeedKeeps DEF Restored
  <2>3. r.st.accounts = Replayed.st.accounts
      BY <1>2, AgreeFields DEF Restored
  <2>4. SameChains(Replayed.st, live')
      BY <2>2, <2>3, SameAccounts
  <2>5. RevokedBefore(Replayed.st)
      BY <1>2, <1>3, <1>6 DEF ChainsInv
  <2>6. RevokedBefore(live)'
    <3>1. RevokedBefore(live')
        BY <2>4, <2>5, BeforeSame
    <3> QED BY <1>3, <3>1 DEF RevokedBefore
  <2>7. Replayed' = Replayed
      BY <1>3 DEF Replayed
  <2> QED BY <2>1, <2>4, <2>6, <2>7 DEF ChainsInv
<1> QED
    BY <1>5, <1>6

LEMMA NextChains == ControlInv /\ ChainsInv /\ [Next]_vars => ChainsInv'
<1> SUFFICES ASSUME ControlInv, ChainsInv, [Next]_vars PROVE ChainsInv'
    OBVIOUS
<1>0. \A r \in requests : r.command \in menu
    BY DEF ControlInv, ClientsOK
<1>1. CASE UNCHANGED vars
    BY <1>1, StillChains DEF vars
<1>2. ASSUME NEW c \in menu, Submit(c) PROVE ChainsInv'
    BY <1>2, HandleChains DEF Submit
<1>3. ASSUME NEW c \in menu, Retry(c) PROVE ChainsInv'
    BY <1>3, RetryChains
<1>4. ASSUME NEW c \in menu, CrashAfterAppend(c) PROVE ChainsInv'
    BY <1>4, CrashAfterAppendChains
<1>5. CASE SealBlock
    BY <1>5, SealChains
<1>6. CASE Crash
    BY <1>6, CrashChains
<1>7. ASSUME NEW c \in menu, BeginRequest(c) PROVE ChainsInv'
    BY <1>7, StillChains DEF BeginRequest
<1>8. ASSUME NEW r \in requests, SendRequest(r) \/ EndRequest(r) PROVE ChainsInv'
    BY <1>8, StillChains DEF SendRequest, EndRequest
<1>9. ASSUME NEW r \in requests, HandleRequest(r) PROVE ChainsInv'
  <2>1. CASE Handle(r.command)
      BY <1>0, <2>1, HandleChains
  <2>2. CASE UNCHANGED <<menu, live, snapshot, log, mode, acked, unlogged, verdict, crashes>>
      BY <2>2, StillChains
  <2> QED BY <1>9, <2>1, <2>2 DEF HandleRequest
<1>10. CASE SupervisedRestart
    BY <1>10, EmptySequence, RestoreChains DEF SupervisedRestart
<1>11. ASSUME NEW seeds \in {<<>>, Seeds}, ProcessStart(seeds) PROVE ChainsInv'
  <2>1. RestoreWith(seeds)
      BY <1>11 DEF ProcessStart
  <2>2. IsSequence(seeds)
    <3>1. Seeds \in Seq(STRING)
        BY MenusAssumption
    <3>2. IsSequence(Seeds)
        BY <3>1, SequenceAny
    <3> QED BY <3>2, EmptySequence
  <2> QED BY <2>1, <2>2, RestoreChains
<1> QED
    BY <1>1, <1>2, <1>3, <1>4, <1>5, <1>6, <1>7, <1>8, <1>9, <1>10, <1>11 DEF Next

(* The rows that a step adds to the log carry a command that passed its checks. *)
LoggedNow(c, rows) ==
    /\ c \in Commands /\ c.op \in Ops /\ mode = "up" /\ Admissible(live, c)
    /\ IsSequence(rows) /\ log' = log \o rows
    /\ \A j \in 1..Len(rows) : rows[j].command.op = "register_key" => rows[j].command = c

LEMMA RowsCarry ==
    ASSUME NEW c \in Commands, c.op \in Ops, NEW rows, rows = Rows(live, c)
    PROVE  /\ RowsOK(rows) /\ IsSequence(rows)
           /\ \A j \in 1..Len(rows) : rows[j].command.op = "register_key" => rows[j].command = c
<1>1. PICK row, first : row = Row(live, c) /\ first = Row(live, NonceOf(c))
    OBVIOUS
<1>2. row.command = c /\ first.command = NonceOf(c) /\ NonceOf(c).op = "nonce"
    BY <1>1, RowFields DEF NonceOf
<1>3. CASE c.op \notin TwoRowOps
  <2>1. rows = <<row>>
      BY <1>1, <1>3, RowsAre
  <2>2. Len(rows) = 1 /\ rows[1] = row
      BY <2>1, OneRow
  <2>3. \A j \in 1..1 : j = 1
      OBVIOUS
  <2> QED BY <1>2, <2>2, <2>3, RowsAre DEF RowsOK
<1>4. CASE c.op \in TwoRowOps
  <2>1. rows = <<first, row>>
      BY <1>1, <1>4, RowsAre
  <2>2. Len(rows) = 2 /\ rows[1] = first /\ rows[2] = row
      BY <2>1, TwoRows
  <2>3. \A j \in 1..2 : j = 1 \/ j = 2
      OBVIOUS
  <2> QED BY <1>2, <2>2, <2>3, RowsAre DEF RowsOK
<1> QED
    BY <1>3, <1>4

LEMMA LogGrows ==
    ASSUME ControlInv, [Next]_vars
    PROVE  log' = log \/ log' = <<>> \/ \E c, rows : LoggedNow(c, rows)
<1>0. \A r \in requests : r.command \in menu
    BY DEF ControlInv, ClientsOK
<1>1. ASSUME NEW c \in menu, Handle(c) PROVE \E d, rows : LoggedNow(d, rows)
  <2>1. c \in Commands /\ c.op \in Ops
      BY DEF ControlInv, ClientsOK
  <2>2. PICK rows : rows = Rows(live, c)
      OBVIOUS
  <2>3. log' = log \o rows /\ mode = "up" /\ Admissible(live, c)
      BY <1>1, <2>2 DEF Handle, Submittable, Room
  <2>4. LoggedNow(c, rows)
      BY <2>1, <2>2, <2>3, RowsCarry DEF LoggedNow
  <2> QED BY <2>4
<1>2. ASSUME NEW c \in menu, CrashAfterAppend(c) PROVE \E d, rows : LoggedNow(d, rows)
  <2>1. c \in Commands /\ c.op \in Ops
      BY DEF ControlInv, ClientsOK
  <2>2. PICK rows : rows = Rows(live, c)
      OBVIOUS
  <2>3. mode = "up" /\ Admissible(live, c)
      BY <1>2 DEF CrashAfterAppend, Submittable, Room
  <2>4. PICK n \in 1..Len(rows) : log' = log \o SubSeq(rows, 1, n)
      BY <1>2, <2>2 DEF CrashAfterAppend
  <2>5. PICK some : some = SubSeq(rows, 1, n)
      OBVIOUS
  <2>6. /\ RowsOK(rows)
        /\ \A j \in 1..Len(rows) : rows[j].command.op = "register_key" => rows[j].command = c
      BY <2>1, <2>2, RowsCarry
  <2>7. /\ IsSequence(some)
        /\ \A j \in 1..Len(some) : some[j].command.op = "register_key" => some[j].command = c
    <3>1. Len(rows) \in Nat /\ rows \in Seq(Range(rows))
        BY <2>6, SequenceIs DEF RowsOK, IsSequence
    <3>2. Len(some) = n /\ \A j \in 1..n : some[j] = rows[j] /\ j \in 1..Len(rows)
        BY <2>5, <3>1
    <3> QED BY <2>5, <2>6, <3>2, PrefixOK DEF RowsOK
  <2>8. LoggedNow(c, some)
      BY <2>1, <2>3, <2>4, <2>5, <2>7 DEF LoggedNow
  <2> QED BY <2>8
<1>3. ASSUME NEW c \in menu, Submit(c) \/ Retry(c) \/ BeginRequest(c)
      PROVE  log' = log \/ Handle(c)
    BY <1>3 DEF Submit, Retry, BeginRequest
<1>4. ASSUME NEW r \in requests, SendRequest(r) \/ HandleRequest(r) \/ EndRequest(r)
      PROVE  log' = log \/ Handle(r.command)
    BY <1>4 DEF SendRequest, HandleRequest, EndRequest
<1>5. ASSUME SealBlock \/ Crash PROVE log' = log \/ log' = <<>>
    BY <1>5 DEF SealBlock, Crash
<1>6. ASSUME SupervisedRestart \/ \E seeds \in {<<>>, Seeds} : ProcessStart(seeds)
      PROVE  log' = log
    BY <1>6 DEF SupervisedRestart, ProcessStart, RestoreWith
<1>7. UNCHANGED vars => log' = log
    BY DEF vars
<1> QED
    BY <1>0, <1>1, <1>2, <1>3, <1>4, <1>5, <1>6, <1>7 DEF Next

LEMMA RevokedStep ==
    ASSUME ControlInv, ChainsInv, [Next]_vars, NEW i \in DOMAIN log' \ DOMAIN log, NEW a \in acked,
           log'[i].command.op = "register_key", a.command.op = "revoke_key",
           a.command.account = log'[i].command.account
    PROVE  log'[i].command.bound > a.command.bound
<1>1. IsSequence(log) /\ DOMAIN log = 1..Len(log) /\ Len(log) \in Nat
    BY SequenceIs DEF ControlInv, StatesOK, RowsOK
<1>2. log' # log /\ log' # <<>>
    OBVIOUS
<1>3. PICK c, rows : LoggedNow(c, rows)
    BY <1>2, LogGrows
<1>4. Joined(log, rows, log')
    BY <1>1, <1>3, ConcatAny DEF LoggedNow
<1>5. PICK j : j = i - Len(log)
    OBVIOUS
<1>6. j \in 1..Len(rows) /\ log'[i] = rows[j]
  <2>1. i \in 1..(Len(log) + Len(rows)) /\ i \notin 1..Len(log) /\ Len(rows) \in Nat
      BY <1>1, <1>4, SequenceIs DEF Joined
  <2>2. j \in 1..Len(rows) /\ Len(log) + j = i
      BY <1>1, <1>5, <2>1
  <2>3. log'[Len(log) + j] = rows[j]
      BY <1>4, <2>2 DEF Joined
  <2> QED BY <2>2, <2>3
<1>7. log'[i].command = c /\ c.op = "register_key"
    BY <1>3, <1>6 DEF LoggedNow
<1>8. KeyOpSigned(live, c)
    BY <1>3, <1>7, Admits DEF LoggedNow, AdmissibleAs
<1>9. c.bound = live.accounts[c.account].chain
    BY <1>8 DEF KeyOpSigned
<1>10. live.accounts[c.account].chain > a.command.bound
  <2>1. RevokedBefore(live)
      BY <1>3 DEF LoggedNow, ChainsInv
  <2> QED BY <1>7, <2>1 DEF RevokedBefore
<1> QED
    BY <1>7, <1>9, <1>10

(* The log counts key operations as the live state does, and has its API keys,
   even when seed markets are missing from it. *)
THEOREM ChainsInvariance == Spec => []ChainsInv
BY InitChains, NextChains, ControlInvariance, PTL DEF Spec

(* A registration signed before a revocation of the same key is never accepted
   after it, however the log was replayed in between: the chain that it is
   signed over has moved on. *)
THEOREM RevocationsStand == Spec => RevokedStaysRevoked
<1>1. ControlInv /\ ChainsInv /\ [Next]_vars =>
        [\A i \in DOMAIN log' \ DOMAIN log : \A a \in acked :
           (log'[i].command.op = "register_key" /\ a.command.op = "revoke_key"
              /\ a.command.account = log'[i].command.account /\ a.command.pubkey = log'[i].command.pubkey)
           => log'[i].command.bound > a.command.bound]_vars
    BY RevokedStep
<1> QED
    BY <1>1, ChainsInvariance, ControlInvariance, PTL DEF Spec, RevokedStaysRevoked

-----------------------------------------------------------------------------
(* What an account quotes follows its last operation in the log *)

MmOps == {"mm_submit", "mm_replace", "mm_cancel"}
IsMm(row, a) == row.command.op \in MmOps /\ row.command.account = a

(* After n rows account a quotes what its last operation among them said. *)
Follows(st, a, rows, n) ==
    /\ (\A i \in 1..n : ~IsMm(rows[i], a)) => Active(st, a) = {}
    /\ \A i \in 1..n : IsMm(rows[i], a) /\ (\A j \in (i + 1)..n : ~IsMm(rows[j], a))
                          => Active(st, a) = NewQuotes(rows[i])

Intended(st, rows, n) == \A a : Follows(st, a, rows, n)

LEMMA NoQuotesYet ==
    ASSUME NEW st, st.bundles = {}, NEW rows
    PROVE  Intended(st, rows, 0)
BY DEF Intended, Follows, Active

LEMMA IntendedSame ==
    ASSUME NEW s, NEW t, t.bundles = s.bundles, NEW rows, NEW n, Intended(s, rows, n),
           NEW more, \A i \in 1..n : more[i] = rows[i], n \in Nat
    PROVE  Intended(t, more, n)
<1> SUFFICES ASSUME NEW a PROVE Follows(t, a, more, n)
    BY DEF Intended
<1>1. Follows(s, a, rows, n) /\ Active(t, a) = Active(s, a)
    BY DEF Intended, Active
<1>2. \A i \in 1..n : IsMm(more[i], a) <=> IsMm(rows[i], a)
    BY DEF IsMm
<1>3. \A i \in 1..n : \A j \in (i + 1)..n : j \in 1..n
    OBVIOUS
<1> QED
    BY <1>1, <1>2, <1>3 DEF Follows

(* The quotes of an account after a row. *)
LEMMA OtherQuotes ==
    ASSUME NEW s, NEW row, NEW t, Effect(s, row, t), NEW a, ~IsMm(row, a)
    PROVE  Active(t, a) = Active(s, a)
<1>1. CASE Quotes(s, row, t)
  <2>1. row.command.account # a
      BY <1>1 DEF Quotes, IsMm, MmOps
  <2>2. \A b \in NewQuotes(row) : b.account = row.command.account
      BY DEF NewQuotes, Quote
  <2>3. t.bundles = (s.bundles \ Active(s, row.command.account)) \cup NewQuotes(row)
      BY <1>1 DEF Quotes
  <2> QED BY <2>1, <2>2, <2>3 DEF Active
<1>2. CASE ~Quotes(s, row, t)
  <2>1. t.bundles = s.bundles
      BY <1>2 DEF Effect, MakesMarket, MakesGroup, Extends, Settles, AddsFeed, Installs, Opens,
             Advances, Renames, Funds, MakesApiKey, RevokesApiKey, AddsFirstKey, OperatesKey, Keeps,
             Fields
  <2> QED BY <2>1 DEF Active
<1> QED
    BY <1>1, <1>2

LEMMA OwnQuotes ==
    ASSUME NEW s, NEW row, NEW t, Effect(s, row, t), NEW a, IsMm(row, a)
    PROVE  Active(t, a) = NewQuotes(row)
<1>1. PICK c : c = row.command
    OBVIOUS
<1>2. ~Idle(s, c) /\ c.op \in {"mm_submit", "mm_replace", "mm_cancel"}
    BY <1>1 DEF IsMm, MmOps, Idle
<1>3. Quotes(s, row, t)
    BY <1>1, <1>2, EffectIsOwn DEF OwnEffect
<1>4. row.command.account = a
    BY DEF IsMm
<1>5. \A b \in NewQuotes(row) : b.account = a
    BY <1>4 DEF NewQuotes, Quote
<1>6. t.bundles = (s.bundles \ Active(s, a)) \cup NewQuotes(row)
    BY <1>3, <1>4 DEF Quotes
<1> QED
    BY <1>5, <1>6 DEF Active

LEMMA IntendedNext ==
    ASSUME NEW s, NEW rows, NEW n \in Nat, Intended(s, rows, n), NEW t, Effect(s, rows[n + 1], t)
    PROVE  Intended(t, rows, n + 1)
<1> SUFFICES ASSUME NEW a PROVE Follows(t, a, rows, n + 1)
    BY DEF Intended
<1>1. Follows(s, a, rows, n)
    BY DEF Intended
<1>2. PICK row : row = rows[n + 1]
    OBVIOUS
<1>3. n + 1 \in 1..(n + 1) /\ \A i \in 1..(n + 1) : i \in 1..n \/ i = n + 1
    OBVIOUS
<1>4. CASE IsMm(row, a)
  <2>1. Active(t, a) = NewQuotes(row)
      BY <1>2, <1>4, OwnQuotes
  <2>2. \A i \in 1..n : n + 1 \in (i + 1)..(n + 1)
      OBVIOUS
  <2> QED BY <1>2, <1>3, <1>4, <2>1, <2>2 DEF Follows
<1>5. CASE ~IsMm(row, a)
  <2>1. Active(t, a) = Active(s, a)
      BY <1>2, <1>5, OtherQuotes
  <2>2. \A i \in 1..n : i \in 1..(n + 1) /\ \A j \in (i + 1)..n : j \in (i + 1)..(n + 1)
      OBVIOUS
  <2> QED BY <1>1, <1>2, <1>3, <1>5, <2>1, <2>2 DEF Follows
<1> QED
    BY <1>4, <1>5

(* A row that does not apply is not a market maker's. *)
LEMMA IntendedSkip ==
    ASSUME NEW s, NEW rows, NEW n \in Nat, Intended(s, rows, n), \A a : ~IsMm(rows[n + 1], a)
    PROVE  Intended(s, rows, n + 1)
<1> SUFFICES ASSUME NEW a PROVE Follows(s, a, rows, n + 1)
    BY DEF Intended
<1>1. Follows(s, a, rows, n) /\ ~IsMm(rows[n + 1], a)
    BY DEF Intended
<1>2. \A i \in 1..(n + 1) : i \in 1..n \/ i = n + 1
    OBVIOUS
<1>3. \A i \in 1..n : i \in 1..(n + 1) /\ \A j \in (i + 1)..n : j \in (i + 1)..(n + 1)
    OBVIOUS
<1> QED
    BY <1>1, <1>2, <1>3 DEF Follows

LEMMA IntendedTrace ==
    ASSUME NEW b, RowsOK(b), NEW q, StateOK(q.st), NEW u, ReplayTrace(u, q, b), u[Len(b)].ok,
           NEW all, NEW m \in Nat, \A k \in 1..Len(b) : all[m + k] = b[k], Intended(q.st, all, m)
    PROVE  Intended(u[Len(b)].st, all, m + Len(b))
<1> DEFINE n == Len(b)
           good == {k \in 0..n : /\ StateOK(u[k].st)
                                 /\ u[k].ok => Intended(u[k].st, all, m + k)}
<1>1. n \in Nat
    BY SequenceIs DEF RowsOK
<1>2. 0 \in good
  <2>1. m + 0 = m
      OBVIOUS
  <2> QED BY <1>1, <2>1 DEF ReplayTrace
<1>3. ASSUME NEW k \in 1..n, k - 1 \in good PROVE k \in good
  <2>1. /\ StateOK(u[k - 1].st) /\ k \in 0..n
        /\ u[k - 1].ok => Intended(u[k - 1].st, all, m + (k - 1))
      BY <1>1, <1>3
  <2>2. u[k] = ApplyNext(u[k - 1], b[k]) /\ RowOK(b[k])
      BY DEF ReplayTrace, RowsOK
  <2>3. StateOK(u[k].st)
      BY <2>1, <2>2, NextOnward DEF Onward
  <2>4. ASSUME u[k].ok PROVE Intended(u[k].st, all, m + k)
    <3>1. u[k - 1].ok /\ Effect(u[k - 1].st, b[k], u[k].st)
        BY <2>1, <2>2, <2>4, OkNext
    <3>2. PICK p : p = m + (k - 1)
        OBVIOUS
    <3>3. p \in Nat /\ p + 1 = m + k
        BY <1>1, <3>2
    <3>4. all[p + 1] = b[k]
        BY <3>3
    <3>5. Intended(u[k - 1].st, all, p)
        BY <2>1, <3>1, <3>2
    <3>6. Intended(u[k].st, all, p + 1)
        BY <3>1, <3>3, <3>4, <3>5, IntendedNext
    <3> QED BY <3>3, <3>6
  <2> QED BY <2>1, <2>3, <2>4
<1> HIDE DEF good, n
<1>4. n \in good
    BY <1>1, <1>2, <1>3, CountUp
<1> QED
    BY <1>4 DEF good, n

-----------------------------------------------------------------------------

QuotesInv == mode = "up" => Intended(live, log, Len(log))

LEMMA HandleQuotes ==
    ASSUME ControlInv, QuotesInv, NEW c \in menu, Handle(c)
    PROVE  QuotesInv'
<1>1. c \in Commands /\ c.op \in Ops
    BY DEF ControlInv, ClientsOK
<1>2. mode = "up" /\ Admissible(live, c)
    BY DEF Handle, Submittable, Room
<1>3. PICK rows : rows = Rows(live, c)
    OBVIOUS
<1>4. PICK r : r = ApplyAll(live, rows)
    OBVIOUS
<1>5. live' = r.st /\ log' = log \o rows
    BY <1>3, <1>4 DEF Handle
<1>6. /\ StateOK(live) /\ Shape(live) /\ RowsOK(rows) /\ IsSequence(rows) /\ IsSequence(log)
    BY <1>1, <1>2, <1>3, RowsAre DEF ControlInv, StatesOK, StateOK, RowsOK
<1>7. PICK all : all = log'
    OBVIOUS
<1>8. Joined(log, rows, all)
    BY <1>5, <1>6, <1>7, ConcatAny
<1>9. PICK p : p = [ok |-> TRUE, st |-> live]
    OBVIOUS
<1>10. p.st = live
    BY <1>9
<1>11. PICK v : ReplayTrace(v, p, rows) /\ r = v[Len(rows)]
    BY <1>4, <1>6, <1>9, ApplyTrace
<1>12. PICK m : m = Len(log)
    OBVIOUS
<1>13. /\ m \in Nat /\ \A i \in 1..m : all[i] = log[i]
       /\ \A k \in 1..Len(rows) : all[m + k] = rows[k]
       /\ Len(all) = m + Len(rows)
    BY <1>8, <1>12 DEF Joined
<1>14. Intended(live, log, m)
    BY <1>2, <1>12 DEF QuotesInv
<1>15. Intended(live, all, m)
    BY <1>13, <1>14, IntendedSame
<1>16. CASE r.ok
  <2>1. Intended(r.st, all, m + Len(rows))
      BY <1>6, <1>10, <1>11, <1>13, <1>15, <1>16, IntendedTrace
  <2> QED BY <1>5, <1>7, <1>13, <2>1 DEF QuotesInv
<1>17. CASE ~r.ok
  <2>1. c.op = "first_key"
      BY <1>1, <1>2, <1>3, <1>4, <1>6, <1>17, AdmittedRowsApply
  <2>2. PICK row : row = Row(live, c)
      OBVIOUS
  <2>3. rows = <<row>> /\ row.command = c
      BY <1>1, <1>3, <2>1, <2>2, RowsAre, RowFields DEF TwoRowOps
  <2>4. Len(rows) = 1 /\ rows[1] = row
      BY <2>3, OneRow
  <2>5. live' = live
    <3>1. r = ApplyNext(p, row)
        BY <1>4, <1>9, <2>3, ApplyOne
    <3>2. NextStep(p, row, r)
        BY <3>1, NextIs
    <3> QED BY <1>5, <1>10, <1>17, <3>2 DEF NextStep
  <2>6. all[m + 1] = row
      BY <1>13, <2>4
  <2>7. \A a : ~IsMm(row, a)
      BY <2>1, <2>3 DEF IsMm, MmOps
  <2>8. Intended(live, all, m + 1)
      BY <1>13, <1>15, <2>6, <2>7, IntendedSkip
  <2> QED BY <1>7, <1>13, <2>4, <2>5, <2>8 DEF QuotesInv
<1> QED
    BY <1>16, <1>17

LEMMA InitQuotes == Init => QuotesInv
<1> SUFFICES ASSUME Init PROVE QuotesInv
    OBVIOUS
<1>1. ControlInv /\ snapshot = live /\ log = <<>>
    BY InitControl DEF Init
<1>2. live.bundles = {} /\ Len(log) = 0
    BY <1>1, EmptySequence DEF ControlInv, StatesOK
<1> QED
    BY <1>2, NoQuotesYet DEF QuotesInv

LEMMA SealQuotes == ASSUME ControlInv, SealBlock PROVE QuotesInv'
<1>1. mode = "up" /\ live' = Sealed(live) /\ log' = <<>>
    BY DEF SealBlock
<1>2. live'.bundles = {} /\ Len(log') = 0
    BY <1>1, SealedIs, EmptySequence DEF ControlInv, StatesOK
<1> QED
    BY <1>2, NoQuotesYet DEF QuotesInv

LEMMA RestoreQuotes ==
    ASSUME ControlInv, NEW seeds, IsSequence(seeds), RestoreWith(seeds)
    PROVE  QuotesInv'
<1>1. PICK r : r = Replay(snapshot, log)
    OBVIOUS
<1>2. r.ok = Replayed.ok /\ Restored(r.st)
    BY <1>1, ReplayGives DEF ControlInv
<1>3. /\ mode' = IF r.ok THEN "up" ELSE "refused"
      /\ live' = IF r.ok THEN Seed(r.st, seeds) ELSE live
      /\ log' = log
    BY <1>1 DEF RestoreWith
<1>4. CASE ~r.ok
  <2>1. mode' = "refused"
      BY <1>3, <1>4
  <2> QED BY <2>1 DEF QuotesInv
<1>5. CASE r.ok
  <2>1. PICK s0 : s0 = [snapshot EXCEPT !.index = {}]
      OBVIOUS
  <2>2. DOMAIN snapshot = Fields /\ snapshot.bundles = {} /\ RowsOK(log) /\ StateOK(snapshot)
      BY FieldsOf DEF ControlInv, StatesOK, StateOK
  <2>3. Keeps(snapshot, s0, {"index"})
      BY <2>1, <2>2, ReindexedIs
  <2>4. s0.bundles = {} /\ Keeps(snapshot, s0, Passing)
      BY <2>2, <2>3 DEF Keeps, Passing, Fields
  <2>5. StateOK(s0)
      BY <2>2, <2>4, BooksSame
  <2>6. PICK p : p = [ok |-> TRUE, st |-> s0]
      OBVIOUS
  <2>7. p.st = s0
      BY <2>6
  <2>8. PICK u : ReplayTrace(u, p, log) /\ Replayed = u[Len(log)]
      BY <2>1, <2>2, <2>6, ApplyTrace DEF Replayed, RowsOK
  <2>9. Len(log) \in Nat /\ 0 \in Nat /\ \A k \in 1..Len(log) : 0 + k = k
      BY <2>2, SequenceIs DEF RowsOK
  <2>10. Intended(p.st, log, 0)
      BY <2>4, <2>7, NoQuotesYet
  <2>11. Intended(Replayed.st, log, 0 + Len(log))
      BY <1>2, <1>5, <2>2, <2>5, <2>7, <2>8, <2>9, <2>10, IntendedTrace
  <2>12. 0 + Len(log) = Len(log)
      BY <2>9
  <2>13. Intended(Replayed.st, log, Len(log))
      BY <2>11, <2>12
  <2>14. live'.bundles = Replayed.st.bundles
    <3>1. r.st.bundles = Replayed.st.bundles
        BY <1>2, AgreeFields DEF Restored
    <3>2. Seed(r.st, seeds).bundles = r.st.bundles
        BY <1>2, SeedKeeps DEF Restored
    <3> QED BY <1>3, <1>5, <3>1, <3>2
  <2>15. Intended(live', log, Len(log))
      BY <2>9, <2>13, <2>14, IntendedSame
  <2> QED BY <1>3, <2>15 DEF QuotesInv
<1> QED
    BY <1>4, <1>5

LEMMA StillQuotes ==
    ASSUME QuotesInv, UNCHANGED <<live, log, mode>>
    PROVE  QuotesInv'
BY DEF QuotesInv

LEMMA NextQuotes == ControlInv /\ QuotesInv /\ [Next]_vars => QuotesInv'
<1> SUFFICES ASSUME ControlInv, QuotesInv, [Next]_vars PROVE QuotesInv'
    OBVIOUS
<1>0. \A r \in requests : r.command \in menu
    BY DEF ControlInv, ClientsOK
<1>1. CASE UNCHANGED vars
    BY <1>1, StillQuotes DEF vars
<1>2. ASSUME NEW c \in menu, Submit(c) \/ Retry(c) \/ BeginRequest(c) PROVE QuotesInv'
  <2>1. CASE Handle(c)
      BY <2>1, HandleQuotes
  <2>2. CASE UNCHANGED <<live, log, mode>>
      BY <2>2, StillQuotes
  <2> QED BY <1>2, <2>1, <2>2 DEF Submit, Retry, BeginRequest
<1>3. ASSUME NEW c \in menu, CrashAfterAppend(c) PROVE QuotesInv'
  <2>1. mode' = "down"
      BY <1>3 DEF CrashAfterAppend, Down
  <2> QED BY <2>1 DEF QuotesInv
<1>4. CASE SealBlock
    BY <1>4, SealQuotes
<1>5. CASE Crash
  <2>1. mode' = "down"
      BY <1>5 DEF Crash, Down
  <2> QED BY <2>1 DEF QuotesInv
<1>6. ASSUME NEW r \in requests, SendRequest(r) \/ HandleRequest(r) \/ EndRequest(r)
      PROVE  QuotesInv'
  <2>1. CASE Handle(r.command)
      BY <1>0, <2>1, HandleQuotes
  <2>2. CASE UNCHANGED <<live, log, mode>>
      BY <2>2, StillQuotes
  <2> QED BY <1>6, <2>1, <2>2 DEF SendRequest, HandleRequest, EndRequest
<1>7. CASE SupervisedRestart
    BY <1>7, EmptySequence, RestoreQuotes DEF SupervisedRestart
<1>8. ASSUME NEW seeds \in {<<>>, Seeds}, ProcessStart(seeds) PROVE QuotesInv'
  <2>1. RestoreWith(seeds)
      BY <1>8 DEF ProcessStart
  <2>2. Seeds \in Seq(STRING)
      BY MenusAssumption
  <2>3. IsSequence(Seeds)
      BY <2>2, SequenceAny
  <2> QED BY <2>1, <2>3, EmptySequence, RestoreQuotes
<1> QED
    BY <1>1, <1>2, <1>3, <1>4, <1>5, <1>6, <1>7, <1>8 DEF Next

(* A nonempty set of positions has a last one. *)
LEMMA LastOf ==
    ASSUME NEW n \in Nat, NEW S, S \subseteq 1..n, S # {}
    PROVE  Max(S) \in S /\ \A y \in S : Max(S) >= y
<1> DEFINE Top(x, k) == x \in S /\ \A y \in S : y <= k => x >= y
           good == {k \in 0..n : (\E y \in S : y <= k) => \E x : Top(x, k)}
<1>1. 0 \in good
    OBVIOUS
<1>2. ASSUME NEW k \in 1..n, k - 1 \in good PROVE k \in good
  <2>1. k \in 0..n /\ ((\E y \in S : y <= k - 1) => \E x : Top(x, k - 1))
      BY <1>2
  <2>2. \A y \in S : y \in Int /\ (y <= k => y <= k - 1 \/ y = k)
      OBVIOUS
  <2>3. CASE k \in S
    <3>1. Top(k, k)
        BY <2>2, <2>3
    <3> QED BY <2>1, <3>1
  <2>4. CASE k \notin S
    <3>1. \A y \in S : y <= k => y <= k - 1
        BY <2>2, <2>4
    <3>2. \A x : Top(x, k - 1) => Top(x, k)
        BY <3>1
    <3> QED BY <2>1, <3>1, <3>2
  <2> QED BY <2>3, <2>4
<1>3. n \in good
  <2> HIDE DEF good
  <2> QED BY <1>1, <1>2, CountUp
<1>4. PICK x : Top(x, n)
    BY <1>3
<1>5. x \in S /\ \A y \in S : x >= y
    BY <1>4
<1> QED
    BY <1>5 DEF Max

LEMMA IntentFromInv == ControlInv /\ QuotesInv => BundleMatchesIntent
<1> SUFFICES ASSUME ControlInv, QuotesInv, mode = "up", NEW a \in Accounts(live),
                    NEW rows, rows = MmRows(a), NEW last, last = log[Max(rows)]
             PROVE  IF rows = {} \/ last.command.op = "mm_cancel" THEN Active(live, a) = {}
                    ELSE {<<b.bundle, b.order_id>> : b \in Active(live, a)}
                           = {<<last.command.bundle, last.order_id>>}
    BY DEF BundleMatchesIntent
<1>1. Len(log) \in Nat
    BY SequenceIs DEF ControlInv, StatesOK, RowsOK
<1>2. Follows(live, a, log, Len(log))
    BY DEF QuotesInv, Intended
<1>3. rows \subseteq 1..Len(log) /\ \A i \in 1..Len(log) : i \in rows <=> IsMm(log[i], a)
    BY DEF MmRows, IsMm, MmOps
<1>4. CASE rows = {}
  <2>1. Active(live, a) = {}
      BY <1>2, <1>3, <1>4 DEF Follows
  <2> QED BY <1>4, <2>1
<1>5. CASE rows # {}
  <2>1. PICK i : i = Max(rows)
      OBVIOUS
  <2>2. i \in rows /\ \A j \in rows : i >= j
      BY <1>1, <1>3, <1>5, <2>1, LastOf
  <2>3. i \in 1..Len(log) /\ IsMm(log[i], a)
      BY <1>3, <2>2
  <2>4. \A j \in (i + 1)..Len(log) : j \in 1..Len(log) /\ ~(i >= j)
      BY <1>1, <2>3
  <2>5. \A j \in (i + 1)..Len(log) : ~IsMm(log[j], a)
      BY <1>3, <2>2, <2>4
  <2>6. Active(live, a) = NewQuotes(last)
      BY <1>2, <2>1, <2>3, <2>5 DEF Follows
  <2>7. CASE last.command.op = "mm_cancel"
      BY <2>6, <2>7 DEF NewQuotes
  <2>8. CASE last.command.op # "mm_cancel"
    <3>1. PICK revision : NewQuotes(last) = {Quote(last.command, revision, last.order_id)}
        BY <2>8 DEF NewQuotes
    <3>2. PICK b : b = Quote(last.command, revision, last.order_id)
        OBVIOUS
    <3>3. b.bundle = last.command.bundle /\ b.order_id = last.order_id
        BY <3>2 DEF Quote
    <3> QED BY <1>5, <2>6, <2>8, <3>1, <3>2, <3>3
  <2> QED BY <2>7, <2>8
<1> QED
    BY <1>4, <1>5

(* After any crashes, replays and retries an account quotes exactly what its
   last logged operation said, under the order id in that row. *)
THEOREM QuotesFollowLog == Spec => []BundleMatchesIntent
<1>1. Spec => []QuotesInv
    BY InitQuotes, NextQuotes, ControlInvariance, PTL DEF Spec
<1> QED
    BY <1>1, IntentFromInv, ControlInvariance, PTL

-----------------------------------------------------------------------------
(* The API's copy of the API-key index *)

(* The keys of s are in t, under their ids. *)
HashesStay(s, t) ==
    \A a \in Accounts(s) : \A i \in 1..Len(s.accounts[a].api_keys) :
        /\ a \in Accounts(t) /\ i \in 1..Len(t.accounts[a].api_keys)
        /\ t.accounts[a].api_keys[i].hash = s.accounts[a].api_keys[i].hash

(* The same keys are active in s and t, but for those with a hash in H. *)
Elsewhere(H, s, t) ==
    \A k : k.hash \notin H => (k \in ActiveApiKeys(s) <=> k \in ActiveApiKeys(t))

LEMMA RequestCarries ==
    ASSUME NEW s, NEW t, HashesStay(s, t), NEW r, RequestOK(r, s)
    PROVE  RequestOK(r, t)
BY DEF HashesStay, RequestOK

LEMMA PendingCarries ==
    ASSUME NEW s, NEW t, NEW o, NEW p, NEW r, Pending(r, s, o), At(p, r.hash) = At(o, r.hash),
           At(ActiveApiKeys(t), r.hash) = At(ActiveApiKeys(s), r.hash)
    PROVE  Pending(r, t, p)
BY DEF Pending

LEMMA AtElsewhere ==
    ASSUME NEW H, NEW s, NEW t, Elsewhere(H, s, t), NEW h, h \notin H
    PROVE  At(ActiveApiKeys(t), h) = At(ActiveApiKeys(s), h)
BY DEF Elsewhere, At

LEMMA ViewCarries ==
    ASSUME NEW s, NEW o, NEW q, NEW d, ViewOf(s, o, q, d), NEW H, H \subseteq d,
           NEW t, HashesStay(s, t), Elsewhere(H, s, t)
    PROVE  ViewOf(t, o, q, d)
<1>1. \A r \in q : RequestOK(r, t)
    BY RequestCarries DEF ViewOf
<1>2. \A r, p \in q : r.hash = p.hash /\ r.hash \notin d => r = p
    BY DEF ViewOf
<1>3. ASSUME NEW r \in q, r.hash \notin d PROVE Pending(r, t, o)
  <2>1. Pending(r, s, o)
      BY <1>3 DEF ViewOf
  <2>2. At(ActiveApiKeys(t), r.hash) = At(ActiveApiKeys(s), r.hash)
      BY <1>3, AtElsewhere
  <2> QED BY <2>1, <2>2, PendingCarries
<1>4. ASSUME NEW k \in o \cup ActiveApiKeys(t), k.hash \notin d, \A r \in q : r.hash # k.hash
      PROVE  k \in o \cap ActiveApiKeys(t)
  <2>1. k \in ActiveApiKeys(s) <=> k \in ActiveApiKeys(t)
      BY <1>4 DEF Elsewhere
  <2> QED BY <1>4, <2>1 DEF ViewOf
<1> QED
    BY <1>1, <1>2, <1>3, <1>4 DEF ViewOf

(* A request goes a stage further and changes nothing but its own hash. *)
LEMMA ViewSwap ==
    ASSUME NEW s, NEW o, NEW q, NEW d, ViewOf(s, o, q, d), NEW r \in q,
           NEW t, HashesStay(s, t), Elsewhere({r.hash}, s, t),
           NEW p, \A k : k.hash # r.hash => (k \in o <=> k \in p),
           NEW r2, r2.hash = r.hash, RequestOK(r2, t), r.hash \notin d => Pending(r2, t, p)
    PROVE  ViewOf(t, p, (q \ {r}) \cup {r2}, d)
<1> DEFINE q2 == (q \ {r}) \cup {r2}
<1>1. \A x \in q2 : RequestOK(x, t)
    BY RequestCarries DEF ViewOf
<1>2. \A x, y \in q2 : x.hash = y.hash /\ x.hash \notin d => x = y
    BY DEF ViewOf
<1>3. ASSUME NEW x \in q2, x.hash \notin d PROVE Pending(x, t, p)
  <2>1. CASE x = r2
      BY <1>3, <2>1
  <2>2. CASE x # r2
    <3>1. x \in q /\ x # r /\ Pending(x, s, o)
        BY <1>3, <2>2 DEF ViewOf
    <3>2. x.hash # r.hash
        BY <1>3, <3>1 DEF ViewOf
    <3>3. At(ActiveApiKeys(t), x.hash) = At(ActiveApiKeys(s), x.hash)
        BY <3>2, AtElsewhere
    <3>4. At(p, x.hash) = At(o, x.hash)
        BY <3>2 DEF At
    <3> QED BY <3>1, <3>3, <3>4, PendingCarries
  <2> QED BY <2>1, <2>2
<1>4. ASSUME NEW k \in p \cup ActiveApiKeys(t), k.hash \notin d, \A x \in q2 : x.hash # k.hash
      PROVE  k \in p \cap ActiveApiKeys(t)
  <2>1. k.hash # r.hash /\ \A x \in q : x.hash # k.hash
      BY <1>4
  <2>2. (k \in ActiveApiKeys(s) <=> k \in ActiveApiKeys(t)) /\ (k \in o <=> k \in p)
      BY <2>1 DEF Elsewhere
  <2> QED BY <1>4, <2>1, <2>2 DEF ViewOf
<1> QED
    BY <1>1, <1>2, <1>3, <1>4 DEF ViewOf

LEMMA ViewEnd ==
    ASSUME NEW s, NEW o, NEW q, NEW d, ViewOf(s, o, q, d), NEW r \in q,
           NEW p, \A k : k.hash # r.hash => (k \in o <=> k \in p),
           r.hash \notin d => At(p, r.hash) = At(ActiveApiKeys(s), r.hash)
    PROVE  ViewOf(s, p, q \ {r}, d)
<1>1. \A x \in q \ {r} : RequestOK(x, s)
    BY DEF ViewOf
<1>2. \A x, y \in q \ {r} : x.hash = y.hash /\ x.hash \notin d => x = y
    BY DEF ViewOf
<1>3. ASSUME NEW x \in q \ {r}, x.hash \notin d PROVE Pending(x, s, p)
  <2>1. x.hash # r.hash /\ Pending(x, s, o)
      BY <1>3 DEF ViewOf
  <2>2. At(p, x.hash) = At(o, x.hash)
      BY <2>1 DEF At
  <2> QED BY <2>1, <2>2, PendingCarries
<1>4. ASSUME NEW k \in p \cup ActiveApiKeys(s), k.hash \notin d,
             \A x \in q \ {r} : x.hash # k.hash
      PROVE  k \in p \cap ActiveApiKeys(s)
  <2>1. CASE k.hash = r.hash
      BY <1>4, <2>1 DEF At
  <2>2. CASE k.hash # r.hash
    <3>1. (k \in o <=> k \in p) /\ \A x \in q : x.hash # k.hash
        BY <1>4, <2>2
    <3> QED BY <1>4, <3>1 DEF ViewOf
  <2> QED BY <2>1, <2>2
<1> QED
    BY <1>1, <1>2, <1>3, <1>4 DEF ViewOf

LEMMA ViewFresh ==
    ASSUME NEW s, IndexOK(s)
    PROVE  ViewOf(s, s.index, {}, {})
BY DEF ViewOf, IndexOK

(* The stages of a request. *)
LEMMA StagedIs ==
    ASSUME NEW r, NEW s, RequestOK(r, s), NEW x \in {"read", "sent", "done", "failed"},
           NEW r2, r2 = [r EXCEPT !.stage = x]
    PROVE  /\ RequestOK(r2, s) /\ r2.stage = x
           /\ r2.command = r.command /\ r2.hash = r.hash /\ r2.found = r.found
<1>1. /\ DOMAIN r2 = {"command", "hash", "found", "stage"} /\ r2.stage = x
      /\ r2.command = r.command /\ r2.hash = r.hash /\ r2.found = r.found
    BY DEF RequestOK
<1> QED
    BY <1>1 DEF RequestOK

LEMMA Itself == ASSUME NEW s, NEW H PROVE HashesStay(s, s) /\ Elsewhere(H, s, s)
BY DEF HashesStay, Elsewhere

LEMMA ViewSent ==
    ASSUME NEW s, NEW o, NEW q, NEW d, ViewOf(s, o, q, d), NEW r \in q, r.stage = "read",
           NEW x \in {"sent", "failed"}, NEW r2, r2 = [r EXCEPT !.stage = x]
    PROVE  ViewOf(s, o \ r.found, (q \ {r}) \cup {r2}, d)
<1>1. RequestOK(r, s)
    BY DEF ViewOf
<1>2. PICK p : p = o \ r.found
    OBVIOUS
<1>3. \A k : k.hash # r.hash => (k \in o <=> k \in p)
    BY <1>1, <1>2 DEF RequestOK
<1>4. /\ RequestOK(r2, s) /\ r2.stage = x
      /\ r2.command = r.command /\ r2.hash = r.hash /\ r2.found = r.found
    BY <1>1, StagedIs
<1>5. ASSUME r.hash \notin d PROVE Pending(r2, s, p)
  <2>1. Pending(r, s, o)
      BY <1>5 DEF ViewOf
  <2>2. CASE r.command.op = "api_create"
    <3>1. r.found = {} /\ p = o
        BY <1>1, <1>2, <2>2 DEF RequestOK
    <3> QED BY <1>4, <2>1, <2>2, <3>1 DEF Pending
  <2>3. CASE r.command.op = "api_revoke"
    <3>1. At(o, r.hash) = r.found /\ At(ActiveApiKeys(s), r.hash) = r.found
        BY <2>1, <2>3 DEF Pending
    <3>2. At(p, r.hash) = {}
        BY <1>2, <3>1 DEF At
    <3> QED BY <1>4, <2>3, <3>1, <3>2 DEF Pending
  <2> QED BY <1>1, <2>2, <2>3 DEF RequestOK
<1>6. HashesStay(s, s) /\ Elsewhere({r.hash}, s, s)
    BY Itself
<1>7. ViewOf(s, p, (q \ {r}) \cup {r2}, d)
    BY <1>3, <1>4, <1>5, <1>6, ViewSwap
<1> QED
    BY <1>2, <1>7

LEMMA ViewRefused ==
    ASSUME NEW s, NEW o, NEW q, NEW d, ViewOf(s, o, q, d), NEW r \in q, r.stage = "sent",
           NEW r2, r2 = [r EXCEPT !.stage = "failed"]
    PROVE  ViewOf(s, o, (q \ {r}) \cup {r2}, d)
<1>1. RequestOK(r, s)
    BY DEF ViewOf
<1>2. /\ RequestOK(r2, s) /\ r2.stage = "failed"
      /\ r2.command = r.command /\ r2.hash = r.hash /\ r2.found = r.found
    BY <1>1, StagedIs
<1>3. ASSUME r.hash \notin d PROVE Pending(r2, s, o)
  <2>1. Pending(r, s, o)
      BY <1>3 DEF ViewOf
  <2> QED BY <1>2, <2>1 DEF Pending
<1>4. HashesStay(s, s) /\ Elsewhere({r.hash}, s, s)
    BY Itself
<1> QED
    BY <1>2, <1>3, <1>4, ViewSwap

LEMMA ViewEnded ==
    ASSUME NEW s, NEW o, NEW q, NEW d, ViewOf(s, o, q, d), NEW r \in q,
           r.stage \in {"done", "failed"},
           NEW more, more = CASE r.stage = "failed" -> r.found
                              [] r.command.op = "api_create" /\ r.stage = "done" ->
                                    {[hash |-> r.hash, account |-> r.command.account]}
                              [] OTHER -> {}
    PROVE  ViewOf(s, o \cup more, q \ {r}, d)
<1>1. RequestOK(r, s)
    BY DEF ViewOf
<1>2. PICK p : p = o \cup more
    OBVIOUS
<1>3. PICK new : new = [hash |-> r.hash, account |-> r.command.account]
    OBVIOUS
<1>4. new.hash = r.hash
    BY <1>3
<1>5. /\ r.stage = "failed" => more = r.found
      /\ r.stage = "done" /\ r.command.op = "api_create" => more = {new}
      /\ r.stage = "done" /\ r.command.op # "api_create" => more = {}
    BY <1>3
<1>6. \A k \in more : k.hash = r.hash
    BY <1>1, <1>4, <1>5 DEF RequestOK
<1>7. \A k : k.hash # r.hash => (k \in o <=> k \in p)
    BY <1>2, <1>6
<1>8. At(p, r.hash) = At(o, r.hash) \cup more
    BY <1>2, <1>6 DEF At
<1>9. ASSUME r.hash \notin d PROVE At(p, r.hash) = At(ActiveApiKeys(s), r.hash)
  <2>1. Pending(r, s, o)
      BY <1>9 DEF ViewOf
  <2>2. CASE r.command.op = "api_create"
    <3>1. r.found = {}
        BY <1>1, <2>2 DEF RequestOK
    <3>2. At(ActiveApiKeys(s), r.hash)
             = IF r.stage # "done" THEN At(o, r.hash) ELSE At(o, r.hash) \cup {new}
        BY <1>3, <2>1, <2>2 DEF Pending
    <3> QED BY <1>5, <1>8, <2>2, <3>1, <3>2
  <2>3. CASE r.command.op = "api_revoke"
    <3>1. /\ At(o, r.hash) = {}
          /\ At(ActiveApiKeys(s), r.hash) = IF r.stage = "done" THEN {} ELSE r.found
        BY <2>1, <2>3 DEF Pending
    <3> QED BY <1>5, <1>8, <2>3, <3>1
  <2> QED BY <1>1, <2>2, <2>3 DEF RequestOK
<1>10. ViewOf(s, p, q \ {r}, d)
    BY <1>7, <1>9, ViewEnd
<1> QED
    BY <1>2, <1>10

LEMMA ViewDoubted ==
    ASSUME NEW s, NEW o, NEW q, NEW d, ViewOf(s, o, q, d), NEW e, d \subseteq e
    PROVE  ViewOf(s, o, q, e)
BY DEF ViewOf

LEMMA ViewBegun ==
    ASSUME NEW s, NEW o, NEW q, NEW d, ViewOf(s, o, q, d), NEW r, RequestOK(r, s), r.stage = "read",
           r.command.op = "api_revoke" => r.found = At(ActiveApiKeys(s), r.hash),
           NEW e, e = d \cup {x.hash : x \in {y \in q : y.hash = r.hash}}
    PROVE  ViewOf(s, o, q \cup {r}, e)
<1> DEFINE q2 == q \cup {r}
<1>1. d \subseteq e /\ \A x \in q : x.hash = r.hash => r.hash \in e
    OBVIOUS
<1>2. \A x \in q2 : RequestOK(x, s)
    BY DEF ViewOf
<1>3. \A x, y \in q2 : x.hash = y.hash /\ x.hash \notin e => x = y
    BY <1>1 DEF ViewOf
<1>4. ASSUME NEW x \in q2, x.hash \notin e PROVE Pending(x, s, o)
  <2>1. CASE x \in q
      BY <1>1, <1>4, <2>1 DEF ViewOf
  <2>2. CASE x \notin q
    <3>1. x = r /\ r.hash \notin d /\ \A y \in q : y.hash # r.hash
        BY <1>1, <1>4, <2>2
    <3>2. \A k \in o \cup ActiveApiKeys(s) : k.hash = r.hash => k \in o /\ k \in ActiveApiKeys(s)
        BY <3>1 DEF ViewOf
    <3>3. At(o, r.hash) = At(ActiveApiKeys(s), r.hash)
        BY <3>2 DEF At
    <3> QED BY <3>1, <3>3 DEF Pending
  <2> QED BY <2>1, <2>2
<1>5. ASSUME NEW k \in o \cup ActiveApiKeys(s), k.hash \notin e, \A x \in q2 : x.hash # k.hash
      PROVE  k \in o \cap ActiveApiKeys(s)
    BY <1>1, <1>5 DEF ViewOf
<1> HIDE DEF q2
<1>6. ViewOf(s, o, q2, e)
    BY <1>2, <1>3, <1>4, <1>5 DEF ViewOf
<1> QED
    BY <1>6 DEF q2

(* The actor dies: what was sent to it is in doubt. *)
Failing(r) == IF r.stage = "sent" THEN [r EXCEPT !.stage = "failed"] ELSE r

LEMMA ViewDown ==
    ASSUME NEW s, NEW o, NEW q, NEW d, ViewOf(s, o, q, d),
           NEW q2, q2 = {Failing(r) : r \in q},
           NEW e, e = d \cup {x.hash : x \in {y \in q : y.stage = "sent"}}
    PROVE  ViewOf(s, o, q2, e)
<1>1. d \subseteq e /\ \A x \in q : x.stage = "sent" => x.hash \in e
    OBVIOUS
<1>2. ASSUME NEW r \in q
      PROVE  /\ RequestOK(Failing(r), s) /\ Failing(r).hash = r.hash
             /\ r.hash \notin e => Failing(r) = r
  <2>1. RequestOK(r, s)
      BY DEF ViewOf
  <2>2. CASE r.stage = "sent"
    <3>1. PICK r2 : r2 = [r EXCEPT !.stage = "failed"]
        OBVIOUS
    <3>2. RequestOK(r2, s) /\ r2.hash = r.hash
        BY <2>1, <3>1, StagedIs
    <3>3. Failing(r) = r2
        BY <2>2, <3>1 DEF Failing
    <3> QED BY <1>1, <2>2, <3>2, <3>3
  <2>3. CASE r.stage # "sent"
    <3>1. Failing(r) = r
        BY <2>3 DEF Failing
    <3> QED BY <2>1, <3>1
  <2> QED BY <2>2, <2>3
<1>3. \A x \in q2 : \E r \in q : x = Failing(r) /\ RequestOK(x, s) /\ x.hash = r.hash
                                 /\ (r.hash \notin e => x = r)
    BY <1>2
<1>4. \A x \in q2 : RequestOK(x, s)
    BY <1>3
<1>5. \A x, y \in q2 : x.hash = y.hash /\ x.hash \notin e => x = y
    BY <1>1, <1>3 DEF ViewOf
<1>6. \A x \in q2 : x.hash \notin e => Pending(x, s, o)
    BY <1>1, <1>3 DEF ViewOf
<1>7. \A r \in q : \E x \in q2 : x.hash = r.hash
    BY <1>2
<1>8. ASSUME NEW k \in o \cup ActiveApiKeys(s), k.hash \notin e, \A x \in q2 : x.hash # k.hash
      PROVE  k \in o \cap ActiveApiKeys(s)
    BY <1>1, <1>7, <1>8 DEF ViewOf
<1> QED
    BY <1>4, <1>5, <1>6, <1>8 DEF ViewOf

(* The rows of a request touch the keys of one hash, other rows none. *)
Touches(row, st, H) ==
    /\ row.command.op = "api_create" => row.command.hash \in H
    /\ row.command.op = "api_revoke" =>
          /\ row.command.account \in Accounts(st)
          /\ row.command.id \in 1..Len(st.accounts[row.command.account].api_keys)
          /\ st.accounts[row.command.account].api_keys[row.command.id].hash \in H

LEMMA KeysStay ==
    ASSUME NEW s, Shape(s), NEW row, NEW t, Effect(s, row, t)
    PROVE  HashesStay(s, t)
BY ApiKeyKept DEF HashesStay

LEMMA ActiveElsewhere ==
    ASSUME NEW s, Shape(s), NEW row, NEW t, Shape(t), Effect(s, row, t), NEW H, Touches(row, s, H)
    PROVE  Elsewhere(H, s, t)
<1> DEFINE Is(st, a, i, k) == /\ st.accounts[a].api_keys[i].active
                              /\ k = [hash |-> st.accounts[a].api_keys[i].hash, account |-> a]
<1>0. /\ \A k : k \in ActiveApiKeys(s) <=>
             \E a \in Accounts(s) : \E i \in 1..Len(s.accounts[a].api_keys) : Is(s, a, i, k)
      /\ \A k : k \in ActiveApiKeys(t) <=>
             \E a \in Accounts(t) : \E i \in 1..Len(t.accounts[a].api_keys) : Is(t, a, i, k)
    BY ActiveIs
<1>1. PICK c : c = row.command
    OBVIOUS
<1>a. ASSUME NEW a \in Accounts(s), a \in Accounts(t), SameApiKeys(s, t, a), NEW k
      PROVE  (\E i \in 1..Len(s.accounts[a].api_keys) : Is(s, a, i, k)) <=>
             (\E i \in 1..Len(t.accounts[a].api_keys) : Is(t, a, i, k))
    BY <1>a DEF SameApiKeys
<1>b. \A a, i, k : Is(s, a, i, k) => k.hash = s.accounts[a].api_keys[i].hash
    OBVIOUS
<1>c. \A a, i, k : Is(t, a, i, k) => k.hash = t.accounts[a].api_keys[i].hash
    OBVIOUS
<1>2. CASE KeysUntouched(s, t)
  <2>1. Accounts(t) = Accounts(s) /\ \A a \in Accounts(s) : SameApiKeys(s, t, a)
      BY <1>2 DEF KeysUntouched
  <2> HIDE DEF Is
  <2>2. \A k : k \in ActiveApiKeys(s) <=> k \in ActiveApiKeys(t)
      BY <1>0, <1>a, <2>1
  <2> QED BY <2>2 DEF Elsewhere
<1>3. CASE AccountJoins(s, t)
  <2>1. PICK n : n = Len(s.accounts) + 1
      OBVIOUS
  <2>2. /\ Accounts(t) = Accounts(s) \cup {n} /\ t.accounts[n].api_keys = <<>>
        /\ \A a \in Accounts(s) : SameApiKeys(s, t, a)
      BY <1>3, <2>1 DEF AccountJoins, Accounts
  <2>3. 1..Len(t.accounts[n].api_keys) = {}
      BY <2>2, EmptySequence
  <2> HIDE DEF Is
  <2>4. \A k : k \in ActiveApiKeys(s) <=> k \in ActiveApiKeys(t)
      BY <1>0, <1>a, <2>2, <2>3
  <2> QED BY <2>4 DEF Elsewhere
<1>4. CASE c.op = "api_create" /\ KeyJoins(s, c, t)
  <2>1. PICK a, old, new : /\ a = c.account /\ old = s.accounts[a].api_keys
                           /\ new = t.accounts[a].api_keys
      OBVIOUS
  <2>2. PICK e : e = [hash |-> c.hash, active |-> TRUE]
      OBVIOUS
  <2>3. /\ a \in Accounts(s) /\ Accounts(t) = Accounts(s) /\ Longer(old, e, new)
        /\ \A b \in Accounts(s) : b # a => SameApiKeys(s, t, b)
      BY <1>4, <2>1, <2>2 DEF KeyJoins, CanCreateApiKey
  <2>4. e.hash \in H
      BY <1>1, <1>4, <2>2 DEF Touches
  <2>5. ASSUME NEW k, k.hash \notin H
        PROVE  (\E i \in 1..Len(old) : Is(s, a, i, k)) <=> (\E i \in 1..Len(new) : Is(t, a, i, k))
    <3>1. \A i \in 1..Len(old) : i \in 1..Len(new) /\ new[i] = old[i]
        BY <2>3 DEF Longer
    <3>2. \A i \in 1..Len(new) : i \in 1..Len(old) \/ new[i] = e
        BY <2>3 DEF Longer
    <3>3. \A i \in 1..Len(old) : Is(s, a, i, k) <=> Is(t, a, i, k)
        BY <2>1, <3>1
    <3>4. \A i : new[i] = e => ~Is(t, a, i, k)
        BY <1>c, <2>1, <2>4, <2>5
    <3> HIDE DEF Is
    <3> QED BY <3>1, <3>2, <3>3, <3>4
  <2>6. ASSUME NEW k, k.hash \notin H
        PROVE  k \in ActiveApiKeys(s) <=> k \in ActiveApiKeys(t)
    <3> HIDE DEF Is
    <3>1. ASSUME NEW b \in Accounts(s)
          PROVE  (\E i \in 1..Len(s.accounts[b].api_keys) : Is(s, b, i, k)) <=>
                 (\E i \in 1..Len(t.accounts[b].api_keys) : Is(t, b, i, k))
      <4>1. CASE b = a
          BY <2>1, <2>5, <2>6, <4>1
      <4>2. CASE b # a
          BY <1>a, <2>3, <4>2
      <4> QED BY <4>1, <4>2
    <3> QED BY <1>0, <2>3, <3>1
  <2> QED BY <2>6 DEF Elsewhere
<1>5. CASE c.op = "api_revoke" /\ KeyEnds(s, c, t)
  <2>1. PICK a, old, new : /\ a = c.account /\ old = s.accounts[a].api_keys
                           /\ new = t.accounts[a].api_keys
      OBVIOUS
  <2>2. PICK e : e = [hash |-> old[c.id].hash, active |-> FALSE]
      OBVIOUS
  <2>3. /\ a \in Accounts(s) /\ Accounts(t) = Accounts(s) /\ Replaced(old, c.id, e, new)
        /\ c.id \in 1..Len(old)
        /\ \A b \in Accounts(s) : b # a => SameApiKeys(s, t, b)
      BY <1>5, <2>1, <2>2 DEF KeyEnds
  <2>4. e.hash \in H /\ old[c.id].hash \in H
      BY <1>1, <1>5, <2>1, <2>2 DEF Touches
  <2>5. ASSUME NEW k, k.hash \notin H
        PROVE  (\E i \in 1..Len(old) : Is(s, a, i, k)) <=> (\E i \in 1..Len(new) : Is(t, a, i, k))
    <3>1. 1..Len(new) = 1..Len(old) /\ new[c.id] = e
        BY <2>3 DEF Replaced
    <3>2. \A i \in 1..Len(old) : i # c.id => new[i] = old[i]
        BY <2>3 DEF Replaced
    <3>3. \A i \in 1..Len(old) : i # c.id => (Is(s, a, i, k) <=> Is(t, a, i, k))
        BY <2>1, <3>2
    <3>4. ~Is(s, a, c.id, k) /\ ~Is(t, a, c.id, k)
        BY <1>b, <1>c, <2>1, <2>4, <2>5, <3>1
    <3> HIDE DEF Is
    <3> QED BY <3>1, <3>3, <3>4
  <2>6. ASSUME NEW k, k.hash \notin H
        PROVE  k \in ActiveApiKeys(s) <=> k \in ActiveApiKeys(t)
    <3> HIDE DEF Is
    <3>1. ASSUME NEW b \in Accounts(s)
          PROVE  (\E i \in 1..Len(s.accounts[b].api_keys) : Is(s, b, i, k)) <=>
                 (\E i \in 1..Len(t.accounts[b].api_keys) : Is(t, b, i, k))
      <4>1. CASE b = a
          BY <2>1, <2>5, <2>6, <4>1
      <4>2. CASE b # a
          BY <1>a, <2>3, <4>2
      <4> QED BY <4>1, <4>2
    <3> QED BY <1>0, <2>3, <3>1
  <2> QED BY <2>6 DEF Elsewhere
<1> QED
    BY <1>1, <1>2, <1>3, <1>4, <1>5, ApiKeysStep

LEMMA StayTwice ==
    ASSUME NEW s, NEW t, NEW u, HashesStay(s, t), HashesStay(t, u)
    PROVE  HashesStay(s, u)
BY DEF HashesStay

LEMMA ElsewhereTwice ==
    ASSUME NEW H, NEW s, NEW t, NEW u, Elsewhere(H, s, t), Elsewhere(H, t, u)
    PROVE  Elsewhere(H, s, u)
BY DEF Elsewhere

LEMMA TouchesStill ==
    ASSUME NEW s, NEW t, HashesStay(s, t), NEW row, NEW H, Touches(row, s, H)
    PROVE  Touches(row, t, H)
BY DEF HashesStay, Touches

(* The rows of a log change active keys only where they touch them. *)
LEMMA ElsewhereTrace ==
    ASSUME NEW b, RowsOK(b), NEW q, StateOK(q.st), NEW u, ReplayTrace(u, q, b), NEW H,
           \A k \in 1..Len(b) : Touches(b[k], q.st, H)
    PROVE  HashesStay(q.st, u[Len(b)].st) /\ Elsewhere(H, q.st, u[Len(b)].st)
<1> DEFINE n == Len(b)
           good == {k \in 0..n : /\ StateOK(u[k].st) /\ HashesStay(q.st, u[k].st)
                                 /\ Elsewhere(H, q.st, u[k].st)}
<1>1. n \in Nat
    BY SequenceIs DEF RowsOK
<1>2. 0 \in good
    BY <1>1, Itself DEF ReplayTrace
<1>3. ASSUME NEW k \in 1..n, k - 1 \in good PROVE k \in good
  <2>1. PICK x, y, row : x = u[k - 1] /\ y = u[k] /\ row = b[k]
      OBVIOUS
  <2>2. /\ StateOK(x.st) /\ k \in 0..n /\ HashesStay(q.st, x.st) /\ Elsewhere(H, q.st, x.st)
      BY <1>1, <1>3, <2>1
  <2>3. y = ApplyNext(x, row) /\ RowOK(row) /\ Touches(row, q.st, H)
      BY <2>1 DEF ReplayTrace, RowsOK
  <2>4. StateOK(y.st)
      BY <2>2, <2>3, NextOnward DEF Onward
  <2>5. HashesStay(x.st, y.st) /\ Elsewhere(H, x.st, y.st)
    <3>1. CASE y.ok
      <4>1. Effect(x.st, row, y.st) /\ Shape(x.st) /\ Shape(y.st)
          BY <2>2, <2>3, <2>4, <3>1, OkNext DEF StateOK
      <4>2. Touches(row, x.st, H)
          BY <2>2, <2>3, TouchesStill
      <4> QED BY <4>1, <4>2, KeysStay, ActiveElsewhere
    <3>2. CASE ~y.ok
      <4>1. y.st = x.st
          BY <2>3, <3>2, NextIs DEF NextStep
      <4> QED BY <4>1, Itself
    <3> QED BY <3>1, <3>2
  <2>6. HashesStay(q.st, y.st) /\ Elsewhere(H, q.st, y.st)
      BY <2>2, <2>5, StayTwice, ElsewhereTwice
  <2> QED BY <2>1, <2>2, <2>4, <2>6
<1> HIDE DEF good, n
<1>4. n \in good
    BY <1>1, <1>2, <1>3, CountUp
<1> QED
    BY <1>4 DEF good, n

LEMMA SameKeys ==
    ASSUME NEW s, NEW t, SameChains(s, t)
    PROVE  HashesStay(s, t) /\ Elsewhere({}, s, t)
<1>1. Accounts(s) = Accounts(t) /\ \A a \in Accounts(s) : s.accounts[a].api_keys = t.accounts[a].api_keys
    BY DEF SameChains
<1>2. HashesStay(s, t)
    BY <1>1 DEF HashesStay
<1>3. ActiveApiKeys(s) = ActiveApiKeys(t)
    BY <1>1 DEF ActiveApiKeys
<1> QED
    BY <1>2, <1>3 DEF Elsewhere

LEMMA ViewSame ==
    ASSUME NEW s, NEW o, NEW q, NEW d, ViewOf(s, o, q, d), NEW t, SameChains(s, t)
    PROVE  ViewOf(t, o, q, d)
<1>1. HashesStay(s, t) /\ Elsewhere({}, s, t)
    BY SameKeys
<1> QED
    BY <1>1, ViewCarries

LEMMA RowsTouch ==
    ASSUME NEW st, NEW c \in Commands, c.op \in Ops, NEW rows, rows = Rows(st, c),
           NEW row, row = Row(st, c), NEW s, NEW H, Touches(row, s, H)
    PROVE  \A k \in 1..Len(rows) : Touches(rows[k], s, H)
<1>1. PICK first : first = Row(st, NonceOf(c))
    OBVIOUS
<1>2. Touches(first, s, H)
  <2>1. first.command.op = "nonce"
      BY <1>1, RowFields DEF NonceOf
  <2> QED BY <2>1 DEF Touches
<1>3. CASE c.op \notin TwoRowOps
  <2>1. rows = <<row>>
      BY <1>3, RowsAre
  <2>2. Len(rows) = 1 /\ rows[1] = row
      BY <2>1, OneRow
  <2>3. \A k \in 1..1 : k = 1
      OBVIOUS
  <2> QED BY <2>2, <2>3
<1>4. CASE c.op \in TwoRowOps
  <2>1. rows = <<first, row>>
      BY <1>1, <1>4, RowsAre
  <2>2. Len(rows) = 2 /\ rows[1] = first /\ rows[2] = row
      BY <2>1, TwoRows
  <2>3. \A k \in 1..2 : k = 1 \/ k = 2
      OBVIOUS
  <2> QED BY <1>2, <2>2, <2>3
<1> QED
    BY <1>3, <1>4

(* Which hashes a command may touch. *)
LEMMA CommandTouches ==
    ASSUME NEW c, NEW st, NEW row, row.command = c, NEW H,
           ~ApiKeyCommand(c) \/ \E r : RequestOK(r, st) /\ r.command = c /\ r.hash \in H
    PROVE  Touches(row, st, H)
<1>1. CASE ~ApiKeyCommand(c)
    BY <1>1 DEF ApiKeyCommand, Touches
<1>2. ASSUME NEW r, RequestOK(r, st), r.command = c, r.hash \in H PROVE Touches(row, st, H)
    BY <1>2 DEF RequestOK, Touches
<1> QED
    BY <1>1, <1>2

LEMMA HandleElsewhere ==
    ASSUME ControlInv, NEW c \in menu, Handle(c), NEW H,
           ~ApiKeyCommand(c) \/ \E r : RequestOK(r, live) /\ r.command = c /\ r.hash \in H
    PROVE  HashesStay(live, live') /\ Elsewhere(H, live, live')
<1>1. c \in Commands /\ c.op \in Ops
    BY DEF ControlInv, ClientsOK
<1>2. mode = "up"
    BY DEF Handle, Submittable, Room
<1>3. PICK rows, row : rows = Rows(live, c) /\ row = Row(live, c)
    OBVIOUS
<1>4. PICK r : r = ApplyAll(live, rows)
    OBVIOUS
<1>5. live' = r.st
    BY <1>3, <1>4 DEF Handle
<1>6. StateOK(live) /\ RowsOK(rows) /\ IsSequence(rows) /\ row.command = c
    BY <1>1, <1>2, <1>3, RowsAre, RowFields DEF ControlInv, StatesOK, RowsOK
<1>7. Touches(row, live, H)
    BY <1>6, CommandTouches
<1>8. \A k \in 1..Len(rows) : Touches(rows[k], live, H)
    BY <1>1, <1>3, <1>7, RowsTouch
<1>9. PICK p : p = [ok |-> TRUE, st |-> live]
    OBVIOUS
<1>10. p.st = live
    BY <1>9
<1>11. PICK v : ReplayTrace(v, p, rows) /\ r = v[Len(rows)]
    BY <1>4, <1>6, <1>9, ApplyTrace
<1>12. \A k \in 1..Len(rows) : Touches(rows[k], p.st, H)
    BY <1>8, <1>10
<1>13. HashesStay(p.st, v[Len(rows)].st) /\ Elsewhere(H, p.st, v[Len(rows)].st)
    BY <1>6, <1>10, <1>11, <1>12, ElsewhereTrace
<1> QED
    BY <1>5, <1>10, <1>11, <1>13

(* What the actor does to the index. *)
Reindexes(s, c, t) ==
    t.index = IF c.op = "api_create" THEN s.index \cup {[hash |-> c.hash, account |-> c.account]}
              ELSE {k \in s.index : k.hash # s.accounts[c.account].api_keys[c.id].hash}

LEMMA HandledKey ==
    ASSUME NEW s, StateOK(s), NEW c \in Commands, ApiKeyCommand(c), Admissible(s, c),
           NEW r, r = ApplyAll(s, Rows(s, c))
    PROVE  Reindexes(s, c, r.st)
<1>0. c.op \in TwoRowOps /\ c.op \in Ops /\ Shape(s)
    BY DEF ApiKeyCommand, TwoRowOps, Ops, StateOK
<1>1. PICK row, first : row = Row(s, c) /\ first = Row(s, NonceOf(c))
    OBVIOUS
<1>2. /\ row.command = c /\ first.command = NonceOf(c)
      /\ NonceOf(c).op = "nonce" /\ NonceOf(c).nonce = c.nonce /\ NonceOf(c).account = c.account
    BY <1>1, RowFields DEF NonceOf
<1>3. Rows(s, c) = <<first, row>>
    BY <1>0, <1>1, RowsAre
<1>4. Applicable(s, first) /\ Applicable(Apply(s, first), row)
    BY <1>0, <1>1, SpentThenApplies
<1>5. PICK u : u = Apply(s, first)
    OBVIOUS
<1>6. ApplyNext([ok |-> TRUE, st |-> s], first) = [ok |-> TRUE, st |-> u]
    BY <1>4, <1>5, AppliedNext
<1>7. r = ApplyNext([ok |-> TRUE, st |-> u], row)
    BY <1>3, <1>6, ApplyTwo
<1>8. r = [ok |-> TRUE, st |-> Apply(u, row)]
    BY <1>4, <1>5, <1>7, AppliedNext
<1>9. r.st = Apply(u, row)
    BY <1>8
<1>10. RowOK(first)
  <2>1. c.nonce \in Nat
      BY <1>0, MenusAssumption DEF TwoRowOps, NonceOps
  <2> QED BY <1>2, <2>1 DEF RowOK
<1>11. first.command.op \in Ops \cup {"nonce"}
    BY <1>2
<1>12. Effect(s, first, u)
    BY <1>0, <1>4, <1>5, <1>11, EffectOf
<1>13. Shape(u)
  <2>1. IsRecord(s) => IsRecord(u)
      BY <1>5, <1>11, ApplyIsRecord
  <2> QED BY <1>10, <1>12, <2>1, EffectOnward DEF Onward, StateOK
<1>14. Effect(u, row, r.st)
    BY <1>0, <1>2, <1>4, <1>5, <1>9, <1>13, EffectOf
<1>15. FreshNonce(s, c) /\ c.account \in Accounts(s)
  <2>1. AdmissibleAs(s, c)
      BY Admits
  <2> QED BY <1>0, <2>1 DEF AdmissibleAs, TwoRowOps, FreshNonce
<1>16. Advances(s, NonceOf(c), u)
    BY <1>2, <1>12 DEF Effect, MakesMarket, MakesGroup, Extends, Settles, AddsFeed, Installs, Opens,
           Renames, Funds, MakesApiKey, RevokesApiKey, AddsFirstKey, OperatesKey, Quotes, Idle
<1>17. u.index = s.index /\ Changes(s, u, c.account, {"last_nonce"})
    BY <1>2, <1>16 DEF Advances, Keeps, Fields
<1>18. u.accounts[c.account].api_keys = s.accounts[c.account].api_keys
    BY <1>17 DEF Changes, AccountFields
<1>19. ~Idle(u, c)
    BY <1>0 DEF Idle, TwoRowOps
<1>20. OwnEffect(u, row, c, r.st)
    BY <1>2, <1>14, <1>19, EffectIsOwn
<1>21. CASE c.op = "api_create"
  <2>1. MakesApiKey(u, c, r.st)
      BY <1>20, <1>21 DEF OwnEffect
  <2> QED BY <1>17, <1>21, <2>1 DEF MakesApiKey, Reindexes
<1>22. CASE c.op = "api_revoke"
  <2>1. RevokesApiKey(u, c, r.st)
      BY <1>20, <1>22 DEF OwnEffect
  <2> QED BY <1>17, <1>18, <1>22, <2>1 DEF RevokesApiKey, Reindexes
<1> QED
    BY <1>21, <1>22 DEF ApiKeyCommand

-----------------------------------------------------------------------------
(* The copy, action by action *)

LEMMA InitView == Init => ViewInv
<1> SUFFICES ASSUME Init PROVE ViewInv
    OBVIOUS
<1>1. ControlInv /\ mode = "up" /\ owners = live.index /\ requests = {} /\ doubtful = {}
    BY InitControl DEF Init
<1>2. IndexOK(live)
    BY <1>1 DEF ControlInv, StatesOK
<1>3. ViewOf(live, owners, requests, doubtful)
    BY <1>1, <1>2, ViewFresh
<1> QED
    BY <1>1, <1>3 DEF ViewInv

LEMMA SubmitView ==
    ASSUME ControlInv, ViewInv, NEW c \in menu, Submit(c)
    PROVE  ViewInv'
<1>1. mode = "up" /\ mode' = "up" /\ UNCHANGED viewVars /\ Handle(c) /\ ~ApiKeyCommand(c)
    BY DEF Submit, Handle, Submittable, Room
<1>2. HashesStay(live, live') /\ Elsewhere({}, live, live')
    BY <1>1, HandleElsewhere
<1>3. ViewOf(live, owners, requests, doubtful)
    BY <1>1 DEF ViewInv
<1>4. ViewOf(live', owners, requests, doubtful)
    BY <1>2, <1>3, ViewCarries
<1> QED
    BY <1>1, <1>4 DEF ViewInv, viewVars

LEMMA StillView ==
    ASSUME ViewInv, UNCHANGED <<live, snapshot, log, mode, owners, requests, doubtful>>
    PROVE  ViewInv'
<1>1. Replayed' = Replayed
    BY DEF Replayed
<1> QED
    BY <1>1 DEF ViewInv

LEMMA SealView == ASSUME ControlInv, ViewInv, SealBlock PROVE ViewInv'
<1>1. /\ mode = "up" /\ mode' = "up" /\ live' = Sealed(live)
      /\ owners' = owners /\ requests' = requests /\ doubtful' = doubtful
    BY DEF SealBlock, viewVars
<1>2. live'.accounts = live.accounts
    BY <1>1, SealedIs DEF ControlInv, StatesOK
<1>3. SameChains(live, live')
    BY <1>2, SameAccounts
<1>4. ViewOf(live, owners, requests, doubtful)
    BY <1>1 DEF ViewInv
<1>5. ViewOf(live', owners, requests, doubtful)
    BY <1>3, <1>4, ViewSame
<1> QED
    BY <1>1, <1>5 DEF ViewInv

LEMMA BeginView == ASSUME ControlInv, ViewInv, NEW c \in menu, BeginRequest(c) PROVE ViewInv'
<1>1. /\ mode = "up" /\ mode' = "up" /\ live' = live /\ owners' = owners /\ ApiKeyCommand(c)
      /\ c.op = "api_create" \/ CanRevokeApiKey(live, c)
    BY DEF BeginRequest
<1>2. PICK h : h = HashOf(c)
    OBVIOUS
<1>3. PICK found : found = IF c.op = "api_create" THEN {}
                           ELSE {k \in ActiveApiKeys(live) : k.hash = HashOf(c)}
    OBVIOUS
<1>4. PICK r : r = [command |-> c, hash |-> h, found |-> found, stage |-> "read"]
    OBVIOUS
<1>5. /\ requests' = requests \cup {r}
      /\ doubtful' = doubtful \cup {x.hash : x \in {q \in requests : q.hash = h}}
    BY <1>2, <1>3, <1>4 DEF BeginRequest
<1>6. /\ DOMAIN r = {"command", "hash", "found", "stage"} /\ r.command = c /\ r.hash = h
      /\ r.found = found /\ r.stage = "read"
    BY <1>4
<1>7. RequestOK(r, live) /\ (c.op = "api_revoke" => r.found = At(ActiveApiKeys(live), r.hash))
  <2>1. CASE c.op = "api_create"
    <3>1. h = c.hash /\ found = {}
        BY <1>2, <1>3, <2>1 DEF HashOf
    <3> QED BY <1>6, <2>1, <3>1 DEF RequestOK
  <2>2. CASE c.op = "api_revoke"
    <3>1. h = live.accounts[c.account].api_keys[c.id].hash /\ found = At(ActiveApiKeys(live), h)
        BY <1>2, <1>3, <2>2 DEF HashOf, At
    <3>2. c.account \in Accounts(live) /\ c.id \in DOMAIN live.accounts[c.account].api_keys
        BY <1>1, <2>2 DEF CanRevokeApiKey
    <3>3. Shape(live)
        BY <1>1 DEF ControlInv, StatesOK, StateOK
    <3>4. c.id \in 1..Len(live.accounts[c.account].api_keys)
        BY <3>2, <3>3, AccountShape
    <3>5. \A k \in found : k.hash = h
        BY <3>1 DEF At
    <3> QED BY <1>6, <2>2, <3>1, <3>2, <3>4, <3>5 DEF RequestOK
  <2> QED BY <1>1, <2>1, <2>2 DEF ApiKeyCommand
<1>8. ViewOf(live, owners, requests, doubtful)
    BY <1>1 DEF ViewInv
<1>9. ViewOf(live, owners, requests', doubtful')
    BY <1>5, <1>6, <1>7, <1>8, ViewBegun
<1> QED
    BY <1>1, <1>9 DEF ViewInv

LEMMA SendView == ASSUME ViewInv, NEW r \in requests, SendRequest(r) PROVE ViewInv'
<1>1. /\ r.stage = "read" /\ owners' = owners \ r.found /\ doubtful' = doubtful
      /\ UNCHANGED <<live, snapshot, log, mode>>
    BY DEF SendRequest
<1>2. PICK x \in {"sent", "failed"} : Stage(r, x)
    BY DEF SendRequest
<1>3. PICK r2 : r2 = [r EXCEPT !.stage = x]
    OBVIOUS
<1>4. requests' = (requests \ {r}) \cup {r2}
    BY <1>2, <1>3 DEF Stage
<1>5. Replayed' = Replayed
    BY <1>1 DEF Replayed
<1>6. ASSUME NEW st, ViewOf(st, owners, requests, doubtful)
      PROVE  ViewOf(st, owners', requests', doubtful')
    BY <1>1, <1>3, <1>4, <1>6, ViewSent
<1> QED
    BY <1>1, <1>5, <1>6 DEF ViewInv

LEMMA EndView == ASSUME ViewInv, NEW r \in requests, EndRequest(r) PROVE ViewInv'
<1>1. /\ r.stage \in {"done", "failed"} /\ doubtful' = doubtful /\ requests' = requests \ {r}
      /\ UNCHANGED <<live, snapshot, log, mode>>
    BY DEF EndRequest
<1>2. PICK more : more = CASE r.stage = "failed" -> r.found
                           [] r.command.op = "api_create" /\ r.stage = "done" ->
                                 {[hash |-> r.hash, account |-> r.command.account]}
                           [] OTHER -> {}
    OBVIOUS
<1>3. owners' = owners \cup more
    BY <1>2 DEF EndRequest
<1>4. Replayed' = Replayed
    BY <1>1 DEF Replayed
<1>5. ASSUME NEW st, ViewOf(st, owners, requests, doubtful)
      PROVE  ViewOf(st, owners', requests', doubtful')
    BY <1>1, <1>2, <1>3, <1>5, ViewEnded
<1> QED
    BY <1>1, <1>4, <1>5 DEF ViewInv

LEMMA HandleView ==
    ASSUME ControlInv, ViewInv, NEW r \in requests, HandleRequest(r)
    PROVE  ViewInv'
<1>1. r.stage = "sent" /\ mode = "up" /\ mode' = "up" /\ owners' = owners /\ doubtful' = doubtful
    BY DEF HandleRequest, Room, Handle
<1>2. ViewOf(live, owners, requests, doubtful)
    BY <1>1 DEF ViewInv
<1>3. RequestOK(r, live)
    BY <1>2 DEF ViewOf
<1>4. CASE Handle(r.command) /\ Stage(r, "done")
  <2>1. PICK c, h : c = r.command /\ h = r.hash
      OBVIOUS
  <2>2. c \in menu /\ c \in Commands /\ ApiKeyCommand(c) /\ Handle(c) /\ Admissible(live, c)
      BY <1>3, <1>4, <2>1 DEF ControlInv, ClientsOK, RequestOK, ApiKeyCommand, Handle, Submittable
  <2>3. HashesStay(live, live') /\ Elsewhere({h}, live, live')
      BY <1>3, <2>1, <2>2, HandleElsewhere
  <2>4. PICK r2 : r2 = [r EXCEPT !.stage = "done"]
      OBVIOUS
  <2>5. requests' = (requests \ {r}) \cup {r2}
      BY <1>4, <2>4 DEF Stage
  <2>6. /\ RequestOK(r2, live) /\ r2.stage = "done"
        /\ r2.command = c /\ r2.hash = h /\ r2.found = r.found
      BY <1>3, <2>1, <2>4, StagedIs
  <2>7. RequestOK(r2, live')
      BY <2>3, <2>6, RequestCarries
  <2>8. StateOK(live) /\ live.index = ActiveApiKeys(live)
      BY <1>1 DEF ControlInv, StatesOK, IndexOK
  <2>9. live'.index = ActiveApiKeys(live')
    <3>1. \A x \in requests' : x.command \in menu
        BY <1>4, StagedRequests
    <3>2. ControlInv'
        BY <2>2, <3>1, HandleControl
    <3> QED BY <1>1, <3>2 DEF ControlInv, StatesOK, IndexOK
  <2>10. Reindexes(live, c, live')
    <3>1. PICK w : w = ApplyAll(live, Rows(live, c))
        OBVIOUS
    <3>2. live' = w.st
        BY <2>2, <3>1 DEF Handle
    <3>3. Reindexes(live, c, w.st)
        BY <2>2, <2>8, <3>1, HandledKey
    <3> QED BY <3>2, <3>3
  <2>11. ASSUME h \notin doubtful PROVE Pending(r2, live', owners)
    <3>1. Pending(r, live, owners)
        BY <1>2, <2>1, <2>11 DEF ViewOf
    <3>2. CASE c.op = "api_create"
      <4>1. PICK new : new = [hash |-> h, account |-> c.account]
          OBVIOUS
      <4>2. new.hash = h /\ h = c.hash
          BY <1>3, <2>1, <3>2, <4>1 DEF RequestOK
      <4>3. ActiveApiKeys(live') = ActiveApiKeys(live) \cup {new}
          BY <2>8, <2>9, <2>10, <3>2, <4>1, <4>2 DEF Reindexes
      <4>4. At(ActiveApiKeys(live'), h) = At(ActiveApiKeys(live), h) \cup {new}
          BY <4>2, <4>3 DEF At
      <4>5. At(ActiveApiKeys(live), h) = At(owners, h)
          BY <1>1, <2>1, <3>1, <3>2 DEF Pending
      <4> QED BY <2>6, <3>2, <4>1, <4>4, <4>5 DEF Pending
    <3>3. CASE c.op = "api_revoke"
      <4>1. h = live.accounts[c.account].api_keys[c.id].hash
          BY <1>3, <2>1, <3>3 DEF RequestOK
      <4>2. At(ActiveApiKeys(live'), h) = {}
          BY <2>9, <2>10, <3>3, <4>1 DEF At, Reindexes
      <4>3. At(owners, h) = {}
          BY <1>1, <2>1, <3>1, <3>3 DEF Pending
      <4> QED BY <2>6, <3>3, <4>2, <4>3 DEF Pending
    <3> QED BY <2>2, <3>2, <3>3 DEF ApiKeyCommand
  <2>12. ViewOf(live', owners, (requests \ {r}) \cup {r2}, doubtful)
      BY <1>2, <2>1, <2>3, <2>6, <2>7, <2>11, ViewSwap
  <2> QED BY <1>1, <2>5, <2>12 DEF ViewInv
<1>5. CASE Stage(r, "failed") /\ live' = live
  <2>1. PICK r2 : r2 = [r EXCEPT !.stage = "failed"]
      OBVIOUS
  <2>2. requests' = (requests \ {r}) \cup {r2}
      BY <1>5, <2>1 DEF Stage
  <2>3. ViewOf(live, owners, requests', doubtful)
      BY <1>1, <1>2, <2>1, <2>2, ViewRefused
  <2> QED BY <1>1, <1>5, <2>3 DEF ViewInv
<1> QED
    BY <1>4, <1>5 DEF HandleRequest

LEMMA DownView ==
    ASSUME ViewInv, Down
    PROVE  /\ ViewOf(live, owners', requests', doubtful') /\ mode' = "down"
           /\ \A r \in requests : r.stage = "sent" => r.hash \in doubtful'
<1>1. mode = "up" /\ mode' = "down" /\ owners' = owners
    BY DEF Down
<1>2. /\ requests' = {Failing(r) : r \in requests}
      /\ doubtful' = doubtful \cup {r.hash : r \in {q \in requests : q.stage = "sent"}}
    BY DEF Down, Failing
<1>3. ViewOf(live, owners, requests, doubtful)
    BY <1>1 DEF ViewInv
<1>4. ViewOf(live, owners, requests', doubtful')
    BY <1>2, <1>3, ViewDown
<1> QED
    BY <1>1, <1>2, <1>4

LEMMA ChainsSameBack == ASSUME NEW s, NEW t, SameChains(s, t) PROVE SameChains(t, s)
BY DEF SameChains

LEMMA CrashView == ASSUME ControlInv, ChainsInv, ViewInv, Crash PROVE ViewInv'
<1>1. ViewOf(live, owners', requests', doubtful') /\ mode' = "down" /\ mode = "up"
    BY DownView DEF Crash, Down
<1>2. Replayed' = Replayed
    BY DEF Crash, Down, Replayed
<1>3. ASSUME Replayed.ok PROVE ViewOf(Replayed.st, owners', requests', doubtful')
  <2>1. SameChains(live, Replayed.st)
      BY <1>1, <1>3, ChainsSameBack DEF ChainsInv
  <2> QED BY <1>1, <2>1, ViewSame
<1> QED
    BY <1>1, <1>2, <1>3 DEF ViewInv

LEMMA CrashAfterAppendView ==
    ASSUME ControlInv, ChainsInv, ViewInv, NEW c \in menu, CrashAfterAppend(c)
    PROVE  ViewInv'
<1>1. /\ ViewOf(live, owners', requests', doubtful') /\ mode' = "down" /\ mode = "up"
      /\ \A r \in requests : r.stage = "sent" => r.hash \in doubtful'
      /\ snapshot' = snapshot
    BY DownView DEF CrashAfterAppend, Down
<1>2. c \in Commands /\ c.op \in Ops
    BY DEF ControlInv, ClientsOK
<1>3. PICK rows, row : rows = Rows(live, c) /\ row = Row(live, c)
    OBVIOUS
<1>4. PICK n \in 1..Len(rows) : log' = log \o SubSeq(rows, 1, n)
    BY <1>3 DEF CrashAfterAppend
<1>5. RowsOK(rows) /\ row.command = c
    BY <1>2, <1>3, RowsAre, RowFields
<1>6. PICK some : some = SubSeq(rows, 1, n)
    OBVIOUS
<1>7. RowsOK(some) /\ IsSequence(some) /\ IsSequence(log) /\ StatesOK
    BY <1>5, <1>6, PrefixOK DEF RowsOK, ControlInv, StatesOK
<1>8. Len(some) = n /\ \A k \in 1..n : some[k] = rows[k] /\ k \in 1..Len(rows)
  <2>1. Len(rows) \in Nat /\ rows \in Seq(Range(rows))
      BY <1>5, SequenceIs DEF RowsOK, IsSequence
  <2> QED BY <1>6, <2>1
<1>9. ASSUME Replayed'.ok PROVE ViewOf(Replayed'.st, owners', requests', doubtful')
  <2>1. PICK s0 : s0 = [snapshot EXCEPT !.index = {}]
      OBVIOUS
  <2>2. PICK q : q = ApplyAll(s0, log)
      OBVIOUS
  <2>3. Replayed = q /\ Replayed' = ApplyAll(s0, log \o some)
      BY <1>1, <1>4, <1>6, <2>1, <2>2 DEF Replayed
  <2>4. q.ok
      BY <1>7, <1>9, <2>2, <2>3, Stuck
  <2>5. SameChains(live, q.st) /\ StateOK(q.st)
      BY <1>1, <1>7, <2>3, <2>4, ReplayedOK, ChainsSameBack DEF ChainsInv
  <2>6. ViewOf(q.st, owners', requests', doubtful')
      BY <1>1, <2>5, ViewSame
  <2>7. PICK u : ReplayTrace(u, q, some) /\ Replayed' = u[Len(some)]
      BY <1>7, <2>2, <2>3, ApplyConcat
  <2>8. PICK H : H \subseteq doubtful' /\ Touches(row, q.st, H)
    <3>1. CASE ~ApiKeyCommand(c)
      <4>1. Touches(row, q.st, {})
          BY <1>5, <3>1, CommandTouches
      <4> QED BY <4>1
    <3>2. CASE ApiKeyCommand(c)
      <4>1. PICK r \in requests : r.command = c /\ r.stage = "sent"
          BY <3>2 DEF CrashAfterAppend
      <4>2. RequestOK(r, live)
          BY <1>1 DEF ViewInv, ViewOf
      <4>3. RequestOK(r, q.st)
          BY <2>5, <4>2, SameKeys, RequestCarries
      <4>4. Touches(row, q.st, {r.hash})
          BY <1>5, <4>1, <4>3, CommandTouches
      <4>5. {r.hash} \subseteq doubtful'
          BY <1>1, <4>1
      <4> QED BY <4>4, <4>5
    <3> QED BY <3>1, <3>2
  <2>9. \A k \in 1..Len(rows) : Touches(rows[k], q.st, H)
      BY <1>2, <1>3, <2>8, RowsTouch
  <2>10. \A k \in 1..Len(some) : Touches(some[k], q.st, H)
      BY <1>8, <2>9
  <2>11. HashesStay(q.st, Replayed'.st) /\ Elsewhere(H, q.st, Replayed'.st)
      BY <1>7, <2>5, <2>7, <2>10, ElsewhereTrace
  <2> QED BY <2>6, <2>8, <2>11, ViewCarries
<1> QED
    BY <1>1, <1>9 DEF ViewInv

LEMMA RestoredKeys ==
    ASSUME ControlInv, ViewInv, NEW seeds, IsSequence(seeds), RestoreWith(seeds)
    PROVE  \/ mode' = "refused"
           \/ mode' = "up" /\ ViewOf(live', owners, requests, doubtful)
<1>1. PICK r : r = Replay(snapshot, log)
    OBVIOUS
<1>2. r.ok = Replayed.ok /\ Restored(r.st)
    BY <1>1, ReplayGives DEF ControlInv
<1>3. /\ mode = "down" /\ mode' = IF r.ok THEN "up" ELSE "refused"
      /\ live' = IF r.ok THEN Seed(r.st, seeds) ELSE live
    BY <1>1 DEF RestoreWith
<1>4. CASE r.ok
  <2>1. live'.accounts = r.st.accounts
      BY <1>2, <1>3, <1>4, SeedKeeps DEF Restored
  <2>2. r.st.accounts = Replayed.st.accounts
      BY <1>2, AgreeFields DEF Restored
  <2>3. SameChains(Replayed.st, live')
      BY <2>1, <2>2, SameAccounts
  <2>4. ViewOf(Replayed.st, owners, requests, doubtful)
      BY <1>2, <1>3, <1>4 DEF ViewInv
  <2>5. ViewOf(live', owners, requests, doubtful)
      BY <2>3, <2>4, ViewSame
  <2> QED BY <1>3, <1>4, <2>5
<1> QED
    BY <1>3, <1>4

LEMMA NextView == ControlInv /\ ControlInv' /\ ChainsInv /\ ViewInv /\ [Next]_vars => ViewInv'
<1> SUFFICES ASSUME ControlInv, ControlInv', ChainsInv, ViewInv, [Next]_vars PROVE ViewInv'
    OBVIOUS
<1>1. CASE UNCHANGED vars
    BY <1>1, StillView DEF vars, viewVars
<1>2. ASSUME NEW c \in menu, Submit(c) PROVE ViewInv'
    BY <1>2, SubmitView
<1>3. ASSUME NEW c \in menu, Retry(c) PROVE ViewInv'
    BY <1>3, StillView DEF Retry, viewVars
<1>4. ASSUME NEW c \in menu, CrashAfterAppend(c) PROVE ViewInv'
    BY <1>4, CrashAfterAppendView
<1>5. CASE SealBlock
    BY <1>5, SealView
<1>6. CASE Crash
    BY <1>6, CrashView
<1>7. ASSUME NEW c \in menu, BeginRequest(c) PROVE ViewInv'
    BY <1>7, BeginView
<1>8. ASSUME NEW r \in requests, SendRequest(r) PROVE ViewInv'
    BY <1>8, SendView
<1>9. ASSUME NEW r \in requests, HandleRequest(r) PROVE ViewInv'
    BY <1>9, HandleView
<1>10. ASSUME NEW r \in requests, EndRequest(r) PROVE ViewInv'
    BY <1>10, EndView
<1>11. CASE SupervisedRestart
  <2>1. RestoreWith(<<>>) /\ owners' = owners /\ requests' = requests /\ doubtful' = doubtful
      BY <1>11 DEF SupervisedRestart, viewVars
  <2>2. mode' = "refused" \/ (mode' = "up" /\ ViewOf(live', owners, requests, doubtful))
      BY <2>1, EmptySequence, RestoredKeys
  <2> QED BY <2>1, <2>2 DEF ViewInv
<1>12. ASSUME NEW seeds \in {<<>>, Seeds}, ProcessStart(seeds) PROVE ViewInv'
  <2>1. RestoreWith(seeds) /\ owners' = live'.index /\ requests' = {} /\ doubtful' = {}
      BY <1>12 DEF ProcessStart
  <2>2. mode' \in {"up", "refused"}
      BY <2>1 DEF RestoreWith
  <2>3. CASE mode' = "up"
    <3>1. IndexOK(live')
        BY <2>3 DEF ControlInv, StatesOK
    <3>2. ViewOf(live', owners', requests', doubtful')
        BY <2>1, <3>1, ViewFresh
    <3> QED BY <2>3, <3>2 DEF ViewInv
  <2>4. CASE mode' = "refused"
      BY <2>4 DEF ViewInv
  <2> QED BY <2>2, <2>3, <2>4
<1> QED
    BY <1>1, <1>2, <1>3, <1>4, <1>5, <1>6, <1>7, <1>8, <1>9, <1>10, <1>11, <1>12 DEF Next

LEMMA MatchesFromInv == ViewInv => ViewMatches
<1> SUFFICES ASSUME ViewInv, mode = "up", NEW k \in owners \cup ActiveApiKeys(live)
             PROVE  \/ k \in owners \cap ActiveApiKeys(live)
                    \/ k.hash \in doubtful
                    \/ \E r \in requests : r.hash = k.hash
    BY DEF ViewMatches
<1>1. ViewOf(live, owners, requests, doubtful)
    BY DEF ViewInv
<1> QED
    BY <1>1 DEF ViewOf

(* The API accepts exactly the keys that the sequencer has active, however its
   requests interleave with each other, with crashes and with restarts, but for
   hashes with a request under way and those in doubt. *)
THEOREM ApiSeesActiveKeys == Spec => []ViewMatches
<1>1. Spec => []ViewInv
    BY InitView, NextView, ChainsInvariance, ControlInvariance, PTL DEF Spec
<1> QED
    BY <1>1, MatchesFromInv, PTL
====
